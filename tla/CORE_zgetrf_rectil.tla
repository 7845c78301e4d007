--------------------------- MODULE CORE_zgetrf_rectil ---------------------------
(***************************************************************************)
(* The threaded LU factorisation of a panel with partial pivoting, on      *)
(* tiles (src/cores/core_zgetrf_rectil.c) and on a column-major array      *)
(* (src/cores/core_zgetrf_reclap.c).  A gang of threads runs one recursion *)
(* over the columns; each thread owns a block of rows, thread 0 the top    *)
(* one.  On tiles thread 0 also swaps the rows of all others; on an array  *)
(* the threads share swaps and triangular solves by columns.               *)
(* There are no locks: the calls of CORE_zamax1_thread - the pivot search  *)
(* of a column, and the barrier - are all the synchronisation there is.    *)
(* They are atomic here as PivotReduction has it, which the module         *)
(* CORE_zamax1_thread implements.                                          *)
(*                                                                         *)
(* What the threads execute depends on the data only where a zero pivot    *)
(* ends it, so the program of a thread is the sequence of steps that the   *)
(* recursion unfolds to.  The value of an element is symbolic: the row it  *)
(* came from, the columns it was eliminated with, and whether it has been  *)
(* divided by the pivot of its column.                                     *)
(***************************************************************************)
EXTENDS Integers, Sequences, FiniteSets

CONSTANTS
  m, n,       \* A.m, A.n: the size of the panel
  mb,         \* A.mb: the rows of a tile
  nbthrd,     \* info[2] on entry: the number of threads
  Storages,   \* the layouts of the panel: "TILED" (rectil), "LAPACK" (reclap)
  PivotRows   \* bound: the rows an interchange may choose, by layout

ASSUME SizeAssumption ==
  /\ m \in Nat \ {0} /\ n \in Nat \ {0} /\ mb \in Nat \ {0} /\ nbthrd \in Nat \ {0}
  /\ Storages \subseteq {"TILED", "LAPACK"}
  /\ \A s \in Storages : PivotRows[s] \subseteq 0 .. m-1
  /\ m > mb => n <= mb  \* square tiles: U lies in the first tile

VARIABLES
  storage, \* the layout of the panel
  cell,    \* the panel: <<original row, eliminations, divided?>>
  IPIV,    \* the row interchanged with row j, -1 while it is not written
  found,   \* the result of the pivot search of every column
  todo,    \* the steps that each thread has before it
  calls,   \* the number of calls of CORE_zamax1_thread each thread has begun
  inside,  \* is the thread inside such a call?
  pivot,   \* *pivot of each thread: is it zero?
  info     \* *info of each thread

vars == <<storage, cell, IPIV, found, todo, calls, inside, pivot, info>>

-----------------------------------------------------------------------------
(* The panel and its owners.                                               *)

Least(x, y) == IF x <= y THEN x ELSE y

mt    == (m + mb - 1) \div mb
thcnt ==
  [TILED  |-> Least(nbthrd, mt),
   LAPACK |-> Least(nbthrd, IF m \div n = 0 THEN 1 ELSE m \div n)]
minMN == Least(m, n)

Gang(s) == 0 .. thcnt[s]-1
Threads == Gang(storage)
Rows    == 0 .. m-1
Columns == 0 .. n-1
Pivoted == 0 .. minMN-1

\* The numbers off .. off+siz-1 of thread t if size of them are split among cnt threads.
psplit(size, t, cnt) ==
  LET q   == size \div cnt
      r   == size % cnt
      off == IF t < r THEN t * (q + 1) ELSE r * (q + 1) + (t - r) * q
  IN  off .. off + (IF t < r THEN q + 1 ELSE q) - 1

\* The tile rows ft .. lt-1 of a thread.
q == mt \div thcnt["TILED"]
r == mt % thcnt["TILED"]
ft(t) == IF t < r THEN t * (q + 1) ELSE r * (q + 1) + (t - r) * q
lt(t) == IF t < r THEN ft(t) + q + 1 ELSE Least(ft(t) + q, mt)

TileRows(it) == {i \in Rows : i \div mb = it}
Share(s, t) ==
  IF s = "TILED" THEN UNION {TileRows(it) : it \in ft(t) .. lt(t)-1} ELSE psplit(m, t, thcnt["LAPACK"])
RowsOf(t)    == Share(storage, t)
OwnerOf(row) == CHOOSE t \in Threads : row \in RowsOf(t)

\* The rows of thread t below row x: thread 0 leaves those above to U.
Below(s, t, x) == {i \in Share(s, t) : i > x}

-----------------------------------------------------------------------------
(* The steps, and the programs they make.                                  *)

Step(do, rows, inner, cols) == [do |-> do, rows |-> rows, inner |-> inner, cols |-> cols]

swap(pivots, cols)      == <<Step("swap", {}, pivots, cols)>>
trsm(inner, cols)       == <<Step("trsm", {}, inner, cols)>>
scale(rows, col)        == <<Step("scale", rows, {}, {col})>>
gemm(rows, inner, cols) == <<Step("gemm", rows, inner, cols)>>
zamax(s, t, col)        == <<Step("zamax", Below(s, t, col - 1), {}, {col})>>
barrier(cols)           == <<Step("barrier", {}, {}, cols)>>  \* before these columns
exchange(col)           == <<Step("exchange", {}, {}, {col})>>
check(col)              == <<Step("check", {}, {}, {col})>>
store(col)              == <<Step("store", {}, {}, {col})>>
replace(col)            == <<Step("replace", {}, {}, {col})>>

\* A tile at a time.
Tile(t, it, x) == {i \in TileRows(it) : t = 0 => i > x}

\* A thread divides and updates its tiles from the first one on, one after the other: the last column x
\* of L is divided by its pivot, then the product with L is taken from the columns R.
Updates(t, first, L, R) ==
  LET x == CHOOSE j \in L : j + 1 \in R
  IN  [i \in 1 .. 2 * (lt(t) - first) |->
         LET I == Tile(t, first + (i - 1) \div 2, x)
         IN  IF i % 2 = 1 THEN Step("scale", I, {}, {x}) ELSE Step("gemm", I, L, R)]

\* A worker need not wait for thread 0 to divide its first tile.
FirstTile(t, L, R) ==
  LET x == CHOOSE j \in L : j + 1 \in R
  IN  scale(TileRows(ft(t)), x) \o barrier(R) \o gemm(TileRows(ft(t)), L, R)

\* Variants in which thread 0 swaps after the barrier, and in which a thread
\* forgets its last tile.
ScaleAndUpdate_late(t, L, R) ==
  IF t = 0 THEN trsm(L, R) \o barrier(R) \o swap(L, R) \o Updates(0, 0, L, R)
           ELSE FirstTile(t, L, R) \o Updates(t, ft(t) + 1, L, R)

ScaleAndUpdate_short(t, L, R) ==
  LET U == Updates(t, IF t = 0 THEN 0 ELSE ft(t) + 1, L, R)
  IN  (IF t = 0 THEN swap(L, R) \o trsm(L, R) \o barrier(R) ELSE FirstTile(t, L, R))
        \o SubSeq(U, 1, Len(U) - 2)

\* Columns R are updated with the columns L to their left, after the rows
\* of the pivots of L have been swapped.
ScaleAndUpdate(t, L, R) ==
  IF t = 0 THEN swap(L, R) \o trsm(L, R) \o barrier(R) \o Updates(0, 0, L, R)
           ELSE FirstTile(t, L, R) \o Updates(t, ft(t) + 1, L, R)

SwapLeft(t, L, R) == IF t = 0 THEN swap(R, L) ELSE << >>

\* A variant in which only thread 0 comes to the barrier.
Leaf_alone(t, column) ==
  (IF column = 0 THEN zamax("TILED", t, 0) \o exchange(0) ELSE << >>)
    \o (IF t = 0 THEN barrier({column}) ELSE << >>)
    \o (IF column = minMN-1 THEN check(column) \o scale(Below("TILED", t, column), column) ELSE << >>)

\* The first column has no column to its left after which it is searched.
Leaf(t, column) ==
  (IF column = 0 THEN zamax("TILED", t, 0) \o exchange(0) ELSE << >>)
    \o barrier({column})
    \o (IF column = minMN-1 THEN check(column) \o scale(Below("TILED", t, column), column) ELSE << >>)

\* The call <<thidx, column, width>>.
CORE_zgetrf_rectil_rec[call \in Gang("TILED") \X Nat \X (1 .. minMN)] ==
  LET t      == call[1]
      column == call[2]
      width  == call[3]
      n1     == width \div 2
      n2     == width - n1
      L      == column .. column+n1-1
      R      == column+n1 .. column+width-1
  IN  IF width = 1 THEN Leaf(t, column)
      ELSE CORE_zgetrf_rectil_rec[<<t, column, n1>>]
             \o check(column+n1-1)
             \o ScaleAndUpdate(t, L, R)
             \o zamax("TILED", t, column+n1) \o exchange(column+n1)
             \o CORE_zgetrf_rectil_rec[<<t, column+n1, n2>>]
             \o SwapLeft(t, L, R)

\* The columns to the right of a panel that is wider than high.
CORE_zgetrf_rectil_update(t) ==
  LET L == Pivoted
      R == minMN .. n-1
  IN  (IF t = 0 THEN swap(L, R) \o trsm(L, R) ELSE << >>) \o barrier(R)
        \o [i \in 1 .. lt(t) - ft(t) |-> Step("gemm", Tile(t, ft(t) + i - 1, minMN-1), L, R)]

\* The columns X that thread t takes of a swap or a solve on an array.
ColumnsOf(t, X) ==
  LET first == CHOOSE x \in X : \A y \in X : x <= y
  IN  {first + i : i \in psplit(Cardinality(X), t, thcnt["LAPACK"])}

CORE_zgetrf_reclap_update(t, L, R) ==
  LET X == ColumnsOf(t, R)
  IN  barrier(R)
        \o (IF X = {} THEN << >> ELSE swap(L, X) \o trsm(L, X))
        \o barrier(R)
        \o gemm(Below("LAPACK", t, CHOOSE x \in L : x + 1 \in R), L, R)

CORE_zgetrf_reclap_rec[call \in Gang("LAPACK") \X Nat \X (1 .. minMN)] ==
  LET t      == call[1]
      column == call[2]
      width  == call[3]
      n1     == width \div 2
      n2     == width - n1
      L      == column .. column+n1-1
      R      == column+n1 .. column+width-1
      X      == ColumnsOf(t, L)
  IN  IF width = 1
      THEN barrier({column}) \o zamax("LAPACK", t, column) \o store(column) \o check(column)
             \o scale(Below("LAPACK", t, column), column) \o replace(column) \o barrier({column})
      ELSE CORE_zgetrf_reclap_rec[<<t, column, n1>>]
             \o CORE_zgetrf_reclap_update(t, L, R)
             \o CORE_zgetrf_reclap_rec[<<t, column+n1, n2>>]
             \o (IF X = {} THEN << >> ELSE swap(R, X))

\* The columns to the right of the square part, and the whole program.
Wide(s, t) ==
  IF n = minMN THEN << >>
  ELSE IF s = "TILED" THEN CORE_zgetrf_rectil_update(t)
  ELSE CORE_zgetrf_reclap_update(t, Pivoted, minMN .. n-1)
Program(s, t) ==
  (IF s = "TILED" THEN CORE_zgetrf_rectil_rec[<<t, 0, minMN>>] ELSE CORE_zgetrf_reclap_rec[<<t, 0, minMN>>]) \o Wide(s, t)

-----------------------------------------------------------------------------
(* What a step does to the panel.                                          *)

Garbage == <<-1, 0, FALSE>>

Done(t) == todo[t] = << >>
Here(t) == Head(todo[t])
At(t, do) == ~Done(t) /\ Here(t).do = do
Col(t)    == CHOOSE x \in Here(t).cols : TRUE

Advance(t) == todo' = [todo EXCEPT ![t] = Tail(@)]

\* The row whose elements end in each row after the interchanges of the
\* pivots, in order; -1 after an interchange with a row that is not known.
Source(pivots) ==
  LET last == CHOOSE j \in pivots : j + 1 \notin pivots
      After[j \in -1 .. last] ==
        IF j \notin pivots THEN [i \in Rows |-> i]
        ELSE LET before == After[j - 1]
             IN  IF IPIV[j] = -1 THEN [before EXCEPT ![j] = -1]
                 ELSE [before EXCEPT ![j] = before[IPIV[j]], ![IPIV[j]] = before[j]]
  IN  After[last]

\* Element (i, x) with the columns J eliminated, by the multipliers that its
\* own row holds.
Eliminated(i, x, J) ==
  IF \A j \in J : cell[<<i, j>>] = <<cell[<<i, x>>][1], j, TRUE>>
  THEN <<cell[<<i, x>>][1], cell[<<i, x>>][2] + Cardinality(J), FALSE>>
  ELSE Garbage

\* The elements of rows I and columns X get new values.
Update(I, X, value(_, _)) ==
  cell' = [e \in Rows \X Columns |-> IF e[1] \in I /\ e[2] \in X THEN value(e[1], e[2]) ELSE cell[e]]

\* Thread t works alone on what the step touches.
Work(t) == Advance(t) /\ UNCHANGED <<IPIV, found, calls, inside, pivot, info>>

Swap(t) ==
  /\ At(t, "swap")
  /\ LET from == Source(Here(t).inner)
     IN  Update(Rows, Here(t).cols,
                LAMBDA i, x : IF from[i] = -1 THEN Garbage ELSE cell[<<from[i], x>>])
  /\ Work(t)

Trsm(t) ==
  /\ At(t, "trsm")
  /\ Update(Here(t).inner, Here(t).cols,
            LAMBDA i, x : Eliminated(i, x, {j \in Here(t).inner : j < i}))
  /\ Work(t)

Scale(t) ==
  /\ At(t, "scale")
  /\ Update(Here(t).rows, Here(t).cols,
            LAMBDA i, x : IF cell[<<i, x>>][3] THEN Garbage ELSE <<cell[<<i, x>>][1], cell[<<i, x>>][2], TRUE>>)
  /\ Work(t)

\* The product takes the rows of U as they are.
Gemm(t) ==
  /\ At(t, "gemm")
  /\ Update(Here(t).rows, Here(t).cols,
            LAMBDA i, x : IF \A j \in Here(t).inner : cell[<<j, x>>] = <<cell[<<j, j>>][1], j, FALSE>>
                          THEN Eliminated(i, x, Here(t).inner) ELSE Garbage)
  /\ Work(t)

\* Only the column of the pivot is exchanged at once: thread 0 stores the
\* pivot on the diagonal, its owner the diagonal element in its place.
Exchange(t) ==
  LET x == Col(t)
      f == found[x]
  IN  /\ At(t, "exchange")
      /\ cell' = [e \in Rows \X Columns |->
           IF e = <<f.row, x>> /\ f.row # x /\ OwnerOf(f.row) = t THEN f.diag
           ELSE IF e = <<x, x>> /\ t = 0 THEN f.value ELSE cell[e]]
      /\ Work(t)

\* On an array every thread stores the pivot on the diagonal, and its owner
\* replaces it, when it has divided the column, by the diagonal element.
Store(t) ==
  /\ At(t, "store")
  /\ cell' = [cell EXCEPT ![<<Col(t), Col(t)>>] = found[Col(t)].value]
  /\ Work(t)

Replace(t) ==
  LET x == Col(t)
      f == found[x]
  IN  /\ At(t, "replace")
      /\ cell' = IF f.row # x /\ OwnerOf(f.row) = t
                 THEN [cell EXCEPT ![<<f.row, x>>] = <<f.diag[1], f.diag[2], TRUE>>] ELSE cell
      /\ Work(t)

\* Variants: the column is counted from 1 already; only thread 0 looks.
Check_next(t) ==
  /\ At(t, "check")
  /\ IF pivot[t]
     THEN /\ info' = [info EXCEPT ![t] = Col(t) + 2]
          /\ todo' = [todo EXCEPT ![t] = Wide(storage, t)]
     ELSE Advance(t) /\ UNCHANGED info
  /\ UNCHANGED <<cell, IPIV, found, calls, inside, pivot>>

Check_alone(t) ==
  /\ At(t, "check")
  /\ IF pivot[t] /\ t = 0
     THEN /\ info' = [info EXCEPT ![t] = Col(t) + 1]
          /\ todo' = [todo EXCEPT ![t] = Wide(storage, t)]
     ELSE Advance(t) /\ UNCHANGED info
  /\ UNCHANGED <<cell, IPIV, found, calls, inside, pivot>>

\* A zero pivot ends the recursion, at every level.
Check(t) ==
  /\ At(t, "check")
  /\ IF pivot[t]
     THEN /\ info' = [info EXCEPT ![t] = Col(t) + 1]
          /\ todo' = [todo EXCEPT ![t] = Wide(storage, t)]
     ELSE Advance(t) /\ UNCHANGED info
  /\ UNCHANGED <<cell, IPIV, found, calls, inside, pivot>>

-----------------------------------------------------------------------------
(* The calls of CORE_zamax1_thread.                                        *)

\* Any row may hold the largest element; a zero one stays where it is.
Candidates(x) == {x} \cup {j \in PivotRows[storage] : j > x}
Result(i, zero, x) == [row |-> i, zero |-> zero, value |-> cell[<<i, x>>], diag |-> cell[<<x, x>>]]

Arrive(t) ==
  /\ At(t, "zamax") \/ At(t, "barrier")
  /\ ~inside[t]
  /\ inside' = [inside EXCEPT ![t] = TRUE]
  /\ calls' = [calls EXCEPT ![t] = @ + 1]
  /\ IF At(t, "zamax") /\ \A u \in Threads \ {t} : calls[u] > calls[t]
     THEN \E i \in Candidates(Col(t)), zero \in BOOLEAN :
            (zero => i = Col(t)) /\ found' = [found EXCEPT ![Col(t)] = Result(i, zero, Col(t))]
     ELSE UNCHANGED found
  /\ UNCHANGED <<cell, IPIV, todo, pivot, info>>

Return(t) ==
  /\ inside[t] /\ \A u \in Threads : calls[u] >= calls[t]
  /\ inside' = [inside EXCEPT ![t] = FALSE]
  /\ Advance(t)
  /\ IF At(t, "zamax")
     THEN /\ pivot' = [pivot EXCEPT ![t] = found[Col(t)].zero]
          /\ IPIV' = IF OwnerOf(found[Col(t)].row) = t
                     THEN [IPIV EXCEPT ![Col(t)] = found[Col(t)].row] ELSE IPIV
     ELSE UNCHANGED <<pivot, IPIV>>
  /\ UNCHANGED <<cell, found, calls, info>>

-----------------------------------------------------------------------------
Unknown == [row |-> 0, zero |-> FALSE, value |-> Garbage, diag |-> Garbage]

Init ==
  /\ storage \in Storages
  /\ cell = [e \in Rows \X Columns |-> <<e[1], 0, FALSE>>]
  /\ IPIV = [j \in Pivoted |-> -1]
  /\ found = [j \in Pivoted |-> Unknown]
  /\ todo = [t \in Threads |-> Program(storage, t)]
  /\ calls = [t \in Threads |-> 0]
  /\ inside = [t \in Threads |-> FALSE]
  /\ pivot = [t \in Threads |-> FALSE]
  /\ info = [t \in Threads |-> 0]

Thread(t) ==
  /\ t \in Threads
  /\ \/ Swap(t) \/ Trsm(t) \/ Scale(t) \/ Gemm(t) \/ Exchange(t) \/ Store(t) \/ Replace(t)
     \/ Check(t) \/ Arrive(t) \/ Return(t)
  /\ UNCHANGED storage

Next == \E t \in Threads : Thread(t)

Spec == Init /\ [][Next]_vars

\* All threads of the gang run, each on a core of its own.
FairSpec == Spec /\ \A t \in 0 .. nbthrd-1 : WF_vars(Thread(t))

-----------------------------------------------------------------------------
\* The elements and pivots thread t reads and writes where it is.
Cells(I, X) == {<<"A", i, x>> : i \in I, x \in X}
Pivots(J)   == {<<"IPIV", j>> : j \in J}

Reads(t) ==
  IF Done(t) THEN {}
  ELSE CASE Here(t).do = "swap" -> Pivots(Here(t).inner)
         [] Here(t).do = "trsm" -> Cells(Here(t).inner, Here(t).inner)
         [] Here(t).do = "gemm" -> Cells(Here(t).rows, Here(t).inner)
                                     \cup Cells(Here(t).inner, Here(t).cols)
         [] Here(t).do = "zamax" /\ ~inside[t] ->
              Cells(Here(t).rows \cup (IF storage = "LAPACK" THEN Here(t).cols ELSE {}), Here(t).cols)
         [] OTHER -> {}

Writes(t) ==
  IF Done(t) THEN {}
  ELSE CASE Here(t).do = "swap" ->
              Cells(Here(t).inner \cup {IPIV[j] : j \in Here(t).inner}, Here(t).cols)
         [] Here(t).do = "trsm" -> Cells(Here(t).inner, Here(t).cols)
         [] Here(t).do \in {"scale", "gemm"} -> Cells(Here(t).rows, Here(t).cols)
         [] Here(t).do = "zamax" /\ inside[t] /\ OwnerOf(found[Col(t)].row) = t -> Pivots(Here(t).cols)
         [] Here(t).do = "exchange" ->
              Cells((IF t = 0 THEN {Col(t)} ELSE {})
                      \cup (IF OwnerOf(found[Col(t)].row) = t THEN {found[Col(t)].row} ELSE {}),
                    Here(t).cols)
         [] Here(t).do = "replace" /\ OwnerOf(found[Col(t)].row) = t ->
              Cells({found[Col(t)].row} \ {Col(t)}, Here(t).cols)
         [] OTHER -> {}

\* What several threads may store at a time, the same value all of them.
Stores(t) == IF At(t, "store") THEN Cells(Here(t).cols, Here(t).cols) ELSE {}

\* Two threads are never at steps that touch the same element, or the same
\* pivot index, one of them to change it: neither where thread 0 swaps rows
\* of the others' tiles, or threads swap columns that others have divided, nor
\* where the winner of a column stores its pivot.
NoConflict ==
  \A t \in Threads : \A u \in Threads \ {t} :
    /\ Writes(t) \cap (Reads(u) \cup Writes(u) \cup Stores(u)) = {}
    /\ Stores(t) \cap Reads(u) = {}

\* Threads meet in the call they mean: the r-th call of every thread is the
\* search of the same column, or the same barrier, whatever the pivots are.
SameCall ==
  \A t, u \in Threads : inside[t] /\ inside[u] /\ calls[t] = calls[u] =>
    Here(t).do = Here(u).do /\ Here(t).cols = Here(u).cols

\* A pivot is searched among elements that all columns to the left have been
\* eliminated from.
PivotsUpToDate ==
  \A t \in Threads : At(t, "zamax") /\ ~inside[t] =>
    \A i \in Here(t).rows : cell[<<i, Col(t)>>][1] # -1 /\ cell[<<i, Col(t)>>][2] = Col(t)

\* The rows of the panel, as the pivots in IPIV permute them, L divided, U
\* not, every element eliminated with all columns it depends on.
LU ==
  \A i \in Rows, x \in Columns :
    cell[<<i, x>>] = <<Source(Pivoted)[i], Least(i, x), i > x>>

ZeroPivots == {j \in Pivoted : found[j].zero}

AllDone == \A t \in Threads : Done(t)

\* The threads agree on info, which names the first zero pivot; without one
\* the panel holds the factors of the matrix with the rows that IPIV says.
Factorized ==
  AllDone =>
    \/ ZeroPivots = {} /\ LU /\ \A t \in Threads : info[t] = 0
    \/ \E k \in ZeroPivots : (\A j \in ZeroPivots : k <= j) /\ \A t \in Threads : info[t] = k + 1

\* No thread waits for ever for one that has left the recursion.
EveryThreadReturns == <>AllDone

\* "U(k,k) is exactly zero. The factorization has been completed": a zero
\* pivot does not keep the other columns from being factorized.
SingularCompleted == AllDone /\ ZeroPivots # {} => \A j \in Pivoted : IPIV[j] # -1

\* The pivots of columns that are to be swapped have been chosen.
SwapsKnown == \A t \in Threads : At(t, "swap") => \A j \in Here(t).inner : IPIV[j] # -1
=============================================================================
