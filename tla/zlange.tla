-------------------------------- MODULE zlange --------------------------------
(***************************************************************************)
(* The norm of a tiled matrix on a P x Q grid of processes: dplasma_zlange,*)
(* dplasma_zlantr (zlange_frb_cyclic.jdf; zlange_one_cyclic.jdf for the one*)
(* norm), dplasma_zlansy and dplasma_zlanhe (zlansy.jdf).                  *)
(*                                                                         *)
(* The graphs reduce in four steps: along the tiles of a row that one      *)
(* process owns (STEP1), over the processes of the grid row (STEP2), along *)
(* the rows that one process owns (STEP3) and over the grid column (STEP4);*)
(* the result is broadcast after STEP2 and STEP4, and every process writes *)
(* it (WRITE_RES).  The one norm does the same with columns.  A sum starts *)
(* with a new copy at the end of a chain or where a process owns no tile,  *)
(* and the bodies decide with conditions of their own when to clear it.    *)
(*                                                                         *)
(* A sum is the bag of the tiles that were added to it, a maximum the set  *)
(* of the sums (or tiles) that were compared.  The Frobenius norm keeps a  *)
(* scale and a scaled sum of squares: a pair whose scale is 0 has no tile, *)
(* and combining two of them divides 0 by 0, unless the code tests for it. *)
(* The tasks of one step that are ready run together: they share no copy.  *)
(***************************************************************************)
EXTENDS Integers, Bags, FiniteSets

CONSTANTS
  Grids,   \* P x Q grids of processes
  Shapes,  \* matrices of mt x nt tiles
  ZeroTiles    \* sets of tiles without an element that is not 0

VARIABLES
  call,  \* the call: routine, ntype, uplo, the matrix and the grid
  done,  \* tasks that have completed
  sent,  \* for every arrow <<task, flow, source>> that was used, what it brought
  norm   \* the result, for every process that has written it
vars == <<call, done, sent, norm>>

imin(x, y) == IF x <= y THEN x ELSE y
P     == call.P
Q     == call.Q
ntype == call.ntype
uplo  == call.uplo
minMNT == imin(call.mt, call.nt)
MT    == IF uplo = "Upper" /\ call.routine # "zlansy" THEN minMNT ELSE call.mt
NT    == IF uplo = "Lower" /\ call.routine # "zlansy" THEN minMNT ELSE call.nt

-----------------------------------------------------------------------------
\* Sums.  The content of a new copy is whatever was there.
Undefined == [undefined |-> TRUE]
Nothing   == [sum |-> IF ntype = "Max" THEN {} ELSE EmptyBag, nan |-> FALSE]
Tile(m, n) ==
  CASE ntype = "Max" -> {<<m, n>>}
    [] ntype = "Frobenius" /\ <<m, n>> \in call.zero -> EmptyBag
    [] OTHER -> SetToBag({<<m, n>>})
Joined(x, y) == IF ntype = "Max" THEN x \cup y ELSE x (+) y

\* The kernels add a tile to a sum: CORE_zgessq and its like pass over zeros.
AddTile(w, m, n) ==
  IF w = Undefined THEN Undefined ELSE [w EXCEPT !.sum = Joined(@, Tile(m, n))]

\* The bodies add sum a to w.
Add(w, a) ==
  IF w = Undefined \/ a = Undefined THEN Undefined
  ELSE [sum |-> Joined(w.sum, a.sum),
        nan |-> w.nan \/ a.nan \/ (ntype = "Frobenius" /\ w.sum = EmptyBag /\ a.sum = EmptyBag)]
AddNonZero(w, a) == IF ntype = "Frobenius" /\ a.sum = EmptyBag THEN w ELSE Add(w, a)

\* From here on maxima of sums are taken: one sum, and the larger of two.
Largest(a) ==
  IF ntype \in {"One", "Inf"} /\ a # Undefined THEN [a EXCEPT !.sum = {@}] ELSE a
Larger(w, a) ==
  IF ntype = "Frobenius" THEN Add(w, a)
  ELSE IF w = Undefined \/ a = Undefined THEN Undefined
  ELSE [sum |-> w.sum \cup a.sum, nan |-> FALSE]
NoMaximum == IF ntype = "Frobenius" THEN Nothing ELSE [sum |-> {}, nan |-> FALSE]


-----------------------------------------------------------------------------
\* zlange_frb_cyclic: rows.
frb_nmin(m)   == IF uplo = "Upper" THEN m ELSE 0
frb_nmax(m)   == IF uplo = "Lower" THEN imin(m, NT-1) ELSE NT-1
\* Mutant of frb_col: the process of the diagonal tile looks behind it.
frb_col_Strict(m, n) ==
  IF uplo # "Upper" THEN n
  ELSE IF n > m % Q THEN m + n - (m % Q) ELSE m + n + Q - (m % Q)
\* The tile of row m where the chain of process column n ends, if it has a tile.
frb_col(m, n) ==
  IF uplo # "Upper" THEN n
  ELSE IF n >= m % Q THEN m + n - (m % Q) ELSE m + n + Q - (m % Q)

frb_Space(step) ==
  CASE step = "STEP1" -> {x \in (0 .. MT-1) \X (0 .. NT-1) : x[2] \in frb_nmin(x[1]) .. frb_nmax(x[1])}
    [] step \in {"STEP2", "STEP3"} -> (0 .. MT-1) \X (0 .. Q-1)
    [] step \in {"STEP4", "WRITE_RES"} -> (0 .. P-1) \X (0 .. Q-1)
    [] OTHER -> {}

\* The flows that arrows feed, and the tasks that feed them.
frb_Expects(step, m, n) ==
  CASE step = "STEP1" -> IF n < frb_nmax(m)+1-Q THEN {<<"W", <<"STEP1", m, n+Q>>>>} ELSE {}
    [] step = "STEP2" ->
         (IF n = 0 THEN {} ELSE {<<"A", <<"STEP2", m, n-1>>>>}) \cup
         (IF frb_col(m, n) <= frb_nmax(m) THEN {<<"W", <<"STEP1", m, frb_col(m, n)>>>>} ELSE {})
    [] step = "STEP3" ->
         {<<"A", <<"STEP2", m, Q-1>>>>} \cup (IF m < MT-P THEN {<<"W", <<"STEP3", m+P, n>>>>} ELSE {})
    [] step = "STEP4" ->
         (IF m = 0 THEN {} ELSE {<<"A", <<"STEP4", m-1, n>>>>}) \cup
         (IF m <= MT-1 THEN {<<"W", <<"STEP3", m, n>>>>} ELSE {})
    [] step = "WRITE_RES" -> {<<"W", <<"STEP4", P-1, n>>>>}

frb_Sends(step, m, n) ==
  CASE step = "STEP1" -> IF n < frb_nmin(m)+Q THEN {<<<<"STEP2", m, n % Q>>, "W">>} ELSE {<<<<"STEP1", m, n-Q>>, "W">>}
    [] step = "STEP2" -> IF n = Q-1 THEN {<<<<"STEP3", m, j>>, "A">> : j \in 0 .. Q-1} ELSE {<<<<"STEP2", m, n+1>>, "A">>}
    [] step = "STEP3" -> IF m < P THEN {<<<<"STEP4", m, n>>, "W">>} ELSE {<<<<"STEP3", m-P, n>>, "W">>}
    [] step = "STEP4" -> IF m = P-1 THEN {<<<<"WRITE_RES", i, n>>, "W">> : i \in 0 .. P-1} ELSE {<<<<"STEP4", m+1, n>>, "A">>}
    [] step = "WRITE_RES" -> {}

\* The bodies, on flow W as it comes (a copy from an arrow, or a new one) and flow A.
frb_Body(step, m, n, W, A) ==
  CASE step = "STEP1" -> AddTile(IF n > frb_nmax(m)-Q THEN Nothing ELSE W, m, n)
    [] step = "STEP2" ->
         LET w == IF frb_col(m, n) > frb_nmax(m) THEN Nothing ELSE W
         IN  CASE n = 0 -> w
               [] n > 0 /\ ntype = "Frobenius" /\ frb_col(m, n) > frb_nmax(m) -> A
               [] OTHER -> Add(w, A)
    [] step = "STEP3" ->
         IF m < MT-P THEN Larger(W, Largest(A))
         ELSE IF ntype = "Frobenius" THEN Larger(NoMaximum, A) ELSE Largest(A)
    [] step = "STEP4" ->
         IF m = 0 THEN W ELSE Larger(IF m > MT-1 THEN NoMaximum ELSE W, A)
    [] step = "WRITE_RES" -> W

-----------------------------------------------------------------------------
\* zlange_one_cyclic: columns.
one_nmin(m)   == IF uplo = "Upper" THEN m ELSE 0
one_nmax(m)   == IF uplo = "Lower" THEN imin(m, NT-1) ELSE NT-1
one_mmin(n)   == IF uplo = "Lower" THEN n ELSE 0
one_mmax(n)   == IF uplo = "Upper" THEN imin(n, MT-1) ELSE MT-1
\* Mutant of one_row: does not go on to the next block below the diagonal.
one_row_NoWrap(m, n) ==
  IF uplo # "Lower" THEN m ELSE n + m - (n % P)
\* The tile of column n where the chain of process row m ends, if it has a tile.
one_row(m, n) ==
  IF uplo # "Lower" THEN m
  ELSE IF m >= n % P THEN n + m - (n % P) ELSE n + m + P - (n % P)

one_Space(step) ==
  CASE step = "STEP1" -> {x \in (0 .. MT-1) \X (0 .. NT-1) : x[2] \in one_nmin(x[1]) .. one_nmax(x[1])}
    [] step \in {"STEP2", "STEP3"} -> (0 .. P-1) \X (0 .. NT-1)
    [] step \in {"STEP4", "WRITE_RES"} -> (0 .. P-1) \X (0 .. Q-1)
    [] OTHER -> {}

one_Expects(step, m, n) ==
  CASE step = "STEP1" -> IF m < one_mmax(n)+1-P THEN {<<"W", <<"STEP1", m+P, n>>>>} ELSE {}
    [] step = "STEP2" ->
         (IF m = 0 THEN {} ELSE {<<"A", <<"STEP2", m-1, n>>>>}) \cup
         (IF one_row(m, n) <= one_mmax(n) THEN {<<"W", <<"STEP1", one_row(m, n), n>>>>} ELSE {})
    [] step = "STEP3" ->
         {<<"A", <<"STEP2", P-1, n>>>>} \cup (IF n < NT-Q THEN {<<"W", <<"STEP3", m, n+Q>>>>} ELSE {})
    [] step = "STEP4" ->
         (IF n = 0 THEN {} ELSE {<<"A", <<"STEP4", m, n-1>>>>}) \cup
         (IF n <= NT-1 THEN {<<"W", <<"STEP3", m, n>>>>} ELSE {})
    [] step = "WRITE_RES" -> {<<"W", <<"STEP4", m, Q-1>>>>}

one_Sends(step, m, n) ==
  CASE step = "STEP1" -> IF m < one_mmin(n)+P THEN {<<<<"STEP2", m % P, n>>, "W">>} ELSE {<<<<"STEP1", m-P, n>>, "W">>}
    [] step = "STEP2" -> IF m = P-1 THEN {<<<<"STEP3", i, n>>, "A">> : i \in 0 .. P-1} ELSE {<<<<"STEP2", m+1, n>>, "A">>}
    [] step = "STEP3" -> IF n < Q THEN {<<<<"STEP4", m, n>>, "W">>} ELSE {<<<<"STEP3", m, n-Q>>, "W">>}
    [] step = "STEP4" -> IF n = Q-1 THEN {<<<<"WRITE_RES", m, j>>, "W">> : j \in 0 .. Q-1} ELSE {<<<<"STEP4", m, n+1>>, "A">>}
    [] step = "WRITE_RES" -> {}

one_Body(step, m, n, W, A) ==
  CASE step = "STEP1" -> AddTile(IF m > one_mmax(n)-P THEN Nothing ELSE W, m, n)
    [] step = "STEP2" ->
         LET w == IF one_row(m, n) > one_mmax(n) THEN Nothing ELSE W
         IN  IF m > 0 THEN Add(w, A) ELSE w
    [] step = "STEP3" -> IF n < NT-Q THEN Larger(W, Largest(A)) ELSE Largest(A)
    [] step = "STEP4" ->
         LET w == IF n > NT-1 THEN NoMaximum ELSE W
         IN  IF n > 0 THEN Larger(w, A) ELSE w
    [] step = "WRITE_RES" -> W

-----------------------------------------------------------------------------
\* zlansy: rows of a symmetric matrix, of which one triangle is stored: tile (m, n)
\* is the tile sy_at(m, n), or its transpose, on process sy_rank(m, n).
sy_at(m, n) ==
  IF (uplo = "Lower" /\ m < n) \/ (uplo = "Upper" /\ n < m) THEN <<n, m>> ELSE <<m, n>>
sy_rank(m, n) == LET x == sy_at(m, n) IN Q * (x[1] % P) + (x[2] % Q)

\* The tiles of row m on process r; the one before and after tile n, and the last.
sy_owned(m, r) == {n \in 0 .. NT-1 : sy_rank(m, n) = r}
Last(S, none) == IF S = {} THEN none ELSE CHOOSE x \in S : \A y \in S : y <= x
First(S, none) == IF S = {} THEN none ELSE CHOOSE x \in S : \A y \in S : x <= y
sy_prevn(m, n)   == Last({x \in sy_owned(m, sy_rank(m, n)) : x < n}, -1)
sy_nextn(m, n)   == First({x \in sy_owned(m, sy_rank(m, n)) : x > n}, NT)
sy_hadtile(m, r) == Last(sy_owned(m, r), -1)

sy_Space(step) ==
  CASE step = "STEP1" -> (0 .. MT-1) \X (0 .. NT-1)
    [] step = "STEP2" -> (0 .. MT-1) \X (0 .. P*Q-1)
    [] step \in {"STEP2BIS", "STEP3"} -> (0 .. MT-1) \X (0 .. Q-1)
    [] step \in {"STEP4", "WRITE_RES"} -> (0 .. P-1) \X (0 .. Q-1)

sy_Expects(step, m, n) ==
  CASE step = "STEP1" -> IF sy_prevn(m, n)+1 > 0 THEN {<<"W", <<"STEP1", m, sy_prevn(m, n)>>>>} ELSE {}
    [] step = "STEP2" ->
         (IF n+Q < P*Q THEN {<<"A", <<"STEP2", m, n+Q>>>>} ELSE {}) \cup
         (IF sy_hadtile(m, n)+1 # 0 THEN {<<"W", <<"STEP1", m, sy_hadtile(m, n)>>>>} ELSE {})
    [] step = "STEP2BIS" ->
         (IF n = 0 THEN {} ELSE {<<"A", <<"STEP2BIS", m, n-1>>>>}) \cup {<<"W", <<"STEP2", m, n>>>>}
    [] step = "STEP3" ->
         {<<"A", <<"STEP2BIS", m, Q-1>>>>} \cup (IF m < MT-P THEN {<<"W", <<"STEP3", m+P, n>>>>} ELSE {})
    [] step = "STEP4" ->
         (IF m = 0 THEN {} ELSE {<<"A", <<"STEP4", m-1, n>>>>}) \cup
         (IF m <= MT-1 THEN {<<"W", <<"STEP3", m, n>>>>} ELSE {})
    [] step = "WRITE_RES" -> {<<"W", <<"STEP4", P-1, n>>>>}

sy_Sends(step, m, n) ==
  CASE step = "STEP1" ->
         IF sy_nextn(m, n) < NT THEN {<<<<"STEP1", m, sy_nextn(m, n)>>, "W">>} ELSE {<<<<"STEP2", m, sy_rank(m, n)>>, "W">>}
    [] step = "STEP2" -> IF n < Q THEN {<<<<"STEP2BIS", m, n>>, "W">>} ELSE {<<<<"STEP2", m, n-Q>>, "A">>}
    [] step = "STEP2BIS" ->
         IF n = Q-1 THEN {<<<<"STEP3", m, j>>, "A">> : j \in 0 .. Q-1} ELSE {<<<<"STEP2BIS", m, n+1>>, "A">>}
    [] step = "STEP3" -> IF m < P THEN {<<<<"STEP4", m, n>>, "W">>} ELSE {<<<<"STEP3", m-P, n>>, "W">>}
    [] step = "STEP4" -> IF m = P-1 THEN {<<<<"WRITE_RES", i, n>>, "W">> : i \in 0 .. P-1} ELSE {<<<<"STEP4", m+1, n>>, "A">>}
    [] step = "WRITE_RES" -> {}

sy_Body(step, m, n, W, A) ==
  CASE step = "STEP1" ->
         LET x == sy_at(m, n)
         IN  AddTile(IF ~(sy_prevn(m, n)+1 > 0) THEN Nothing ELSE W, x[1], x[2])
    [] step = "STEP2" ->
         LET w == IF sy_hadtile(m, n)+1 = 0 THEN Nothing ELSE W
         IN  IF n+Q < P*Q THEN AddNonZero(w, A) ELSE w
    [] step = "STEP2BIS" -> IF n > 0 THEN AddNonZero(W, A) ELSE W
    [] step = "STEP3" ->
         IF m < MT-P THEN Larger(W, Largest(A))
         ELSE IF ntype = "Frobenius" THEN Larger(NoMaximum, A) ELSE Largest(A)
    [] step = "STEP4" ->
         LET w == IF m > MT-1 THEN NoMaximum ELSE W
         IN  IF m > 0 THEN Larger(w, A) ELSE w
    [] step = "WRITE_RES" -> W

-----------------------------------------------------------------------------
\* The graph that the call creates.
Of(frb, one, sy) ==
  IF call.routine = "zlansy" THEN sy ELSE IF ntype = "One" THEN one ELSE frb
Space(step) == {<<step, x[1], x[2]>> : x \in Of(frb_Space(step), one_Space(step), sy_Space(step))}
Expects(t) ==
  LET e == Of(frb_Expects(t[1], t[2], t[3]), one_Expects(t[1], t[2], t[3]), sy_Expects(t[1], t[2], t[3]))
  IN  {<<t, x[1], x[2]>> : x \in e}
Sends(t) ==
  LET e == Of(frb_Sends(t[1], t[2], t[3]), one_Sends(t[1], t[2], t[3]), sy_Sends(t[1], t[2], t[3]))
  IN  {<<x[1], x[2], t>> : x \in e}

\* Every flow has one source at most: what it sent, or a new copy.
Result(t) ==
  LET In(f) == LET e == {x \in Expects(t) : x[2] = f} IN IF e = {} THEN Undefined ELSE sent[CHOOSE x \in e : TRUE]
  IN  Of(frb_Body(t[1], t[2], t[3], In("W"), In("A")), one_Body(t[1], t[2], t[3], In("W"), In("A")),
         sy_Body(t[1], t[2], t[3], In("W"), In("A")))

Ready(step) == {t \in Space(step) \ done : Expects(t) \subseteq DOMAIN sent}
Steps == {"STEP1", "STEP2", "STEP2BIS", "STEP3", "STEP4", "WRITE_RES"}
Quiet == \A step \in Steps : Ready(step) = {}

Init ==
  /\ \E g \in Grids, s \in Shapes, z \in ZeroTiles, r \in {"zlange", "zlantr", "zlansy"},
        type \in {"Max", "One", "Inf", "Frobenius"}, u \in {"Upper", "Lower", "UpperLower"} :
       /\ (r = "zlange") = (u = "UpperLower")
       /\ r = "zlansy" => s[1] = s[2]
       /\ z # {} => type = "Frobenius"
       /\ call = [routine |-> r, ntype |-> type, uplo |-> u, mt |-> s[1], nt |-> s[2],
                   P |-> g[1], Q |-> g[2], zero |-> z]
  /\ done = {}
  /\ sent = <<>>
  /\ norm = <<>>

Run(step) ==
  LET T == Ready(step)
      S == UNION {Sends(t) : t \in T}
  IN  /\ T # {}
      /\ done' = done \cup T
      /\ sent' = [x \in S \cup DOMAIN sent |-> IF x \in S THEN Result(x[3]) ELSE sent[x]]
      /\ UNCHANGED call

STEP1    == Run("STEP1") /\ UNCHANGED norm
STEP2    == Run("STEP2") /\ UNCHANGED norm
STEP2BIS == Run("STEP2BIS") /\ UNCHANGED norm
STEP3    == Run("STEP3") /\ UNCHANGED norm
STEP4    == Run("STEP4") /\ UNCHANGED norm
WRITE_RES ==
  /\ Run("WRITE_RES")
  /\ LET T == {<<t[2], t[3]>> : t \in Ready("WRITE_RES")}
     IN  norm' = [p \in T \cup DOMAIN norm |-> IF p \in T THEN Result(<<"WRITE_RES", p[1], p[2]>>) ELSE norm[p]]

Return == Quiet /\ UNCHANGED vars

Next == STEP1 \/ STEP2 \/ STEP2BIS \/ STEP3 \/ STEP4 \/ WRITE_RES \/ Return

Spec == Init /\ [][Next]_vars

-----------------------------------------------------------------------------
\* What is to be reduced: the tiles that are stored, and those of a row or column
\* of the matrix, in which a stored tile of zlansy occurs twice unless it is on the diagonal.
Rows    == 0 .. call.mt-1
Columns == 0 .. call.nt-1
Stored ==
  {x \in Rows \X Columns : (uplo = "Upper" => x[1] <= x[2]) /\ (uplo = "Lower" => x[1] >= x[2])}
Row(m)    == {x \in Stored : x[1] = m \/ (call.routine = "zlansy" /\ x[2] = m)}
Column(n) == {x \in Stored : x[2] = n \/ (call.routine = "zlansy" /\ x[1] = n)}

Exact ==
  CASE ntype = "Max" -> Stored
    [] ntype = "Inf" -> {SetToBag(Row(m)) : m \in Rows} \ {EmptyBag}
    [] ntype = "One" -> {SetToBag(Column(n)) : n \in Columns} \ {EmptyBag}
    [] ntype = "Frobenius" ->
         [x \in Stored \ call.zero |-> IF call.routine = "zlansy" /\ x[1] # x[2] THEN 2 ELSE 1]

\* The tiles of a row that one process holds are all 0.
ZeroShare ==
  \E x \in Stored : {y \in Stored : y[1] = x[1] /\ y[2] % Q = x[2] % Q} \subseteq call.zero

\* The norm that a process writes reduces every tile of the matrix as often as it
\* occurs in it, and nothing else; in particular nothing from a copy that nobody
\* cleared.  (The Frobenius norm is no number if two sums of zeros meet: this
\* can only be where a process holds a part of a row that is all 0.)
NormExact ==
  \A p \in DOMAIN norm :
    /\ norm[p] # Undefined
    /\ norm[p].sum = Exact
    /\ norm[p].nan => ntype = "Frobenius" /\ ZeroShare

\* The call does not get stuck, every sum is sent to the flow that expects it from
\* this task, and at the end every process of the grid has the norm.
EveryProcessKnows ==
  Quiet =>
    LET T == UNION {Space(step) : step \in Steps}
    IN  /\ done = T
        /\ DOMAIN sent = UNION {Expects(t) : t \in T}
        /\ DOMAIN norm = (0 .. P-1) \X (0 .. Q-1)
=============================================================================
