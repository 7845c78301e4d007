------------------------------ MODULE TaskGraphs ------------------------------
(***************************************************************************)
(* The task graphs of the library under the properties of GraphExecution.  *)
(* A behaviour starts with the call of one routine on matrices of some     *)
(* shape, with its arguments, and executes the graph that the routine      *)
(* creates for them: level 3 BLAS, a one-sided factorization or an inverse,*)
(* or a routine that follows a reduction tree.                             *)
(*                                                                         *)
(* With a tree the sequential algorithm factorizes the rows of a panel     *)
(* that are not killed as full tiles, then carries out the kills of the    *)
(* tree in turns.                                                          *)
(***************************************************************************)
EXTENDS GraphExecution
-----------------------------------------------------------------------------
(* Level 3 BLAS.                                                           *)
TRSM(descA, descB)                            == INSTANCE ztrsm
HERK(descA, descB, descC)                     == INSTANCE zherk
GEMM(descA, descB, descC, lookP, lookQ, P, Q) == INSTANCE zgemm

tileA(i, j) == Whole("A", i, j)
tileB(i, j) == Whole("B", i, j)
tileC(i, j) == Whole("C", i, j)

-----------------------------------------------------------------------------
\* A triangular matrix op(A) beside (left) or behind (right) B.  Row or column i
\* of B, T(i, j), meets the block S(i, k) of op(A).  The algorithm goes
\* through the rows or columns in the order of Step.
Beside(side, i, j)        == IF side = "Left" THEN tileB(i, j) ELSE tileB(j, i)
Block(side, trans, i, k)  == IF side = "Left" THEN Op(tileA, trans, i, k) ELSE Op(tileA, trans, k, i)
Along(side, b)            == IF side = "Left" THEN Rows(b) ELSE Cols(b)
Across(side, b)           == IF side = "Left" THEN Cols(b) ELSE Rows(b)
Ascending(side, uplo, trans) == ((uplo = "Lower") = (trans = "NoTrans")) = (side = "Left")

\* op(A) X = B by substitution: i is solved, then taken from all that follow.
TrsmKernels(side, uplo, trans, b) ==
  LET I       == Along(side, b)
      step(i) == IF Ascending(side, uplo, trans) THEN i ELSE Cardinality(I)-1-i
  IN  {Kernel(<<step(i), 0>>, Block(side, trans, i, i), Beside(side, i, j)) : i \in I, j \in Across(side, b)}
        \cup
      {Kernel(<<step(x[2]), 1>>, Block(side, trans, x[1], x[2]) \cup Beside(side, x[2], x[3]), Beside(side, x[1], x[3])) :
         x \in {y \in I \X I \X Across(side, b) : step(y[2]) < step(y[1])}}

\* B := op(A) B in place: i is multiplied by the diagonal block and gets the
\* contributions of rows that have not been overwritten yet.
TrmmKernels(side, uplo, trans, b) ==
  LET I       == Along(side, b)
      step(i) == IF Ascending(side, uplo, trans) THEN Cardinality(I)-1-i ELSE i
  IN  {Kernel(<<step(i), 0>>, Block(side, trans, i, i), Beside(side, i, j)) : i \in I, j \in Across(side, b)}
        \cup
      {Kernel(<<step(x[1]), 1, x[2]>>, Block(side, trans, x[1], x[2]) \cup Beside(side, x[2], x[3]), Beside(side, x[1], x[3])) :
         x \in {y \in I \X I \X Across(side, b) : step(y[2]) > step(y[1])}}

\* One triangle of C := op(A) op(A)' + C and of C := op(A) op(B)' + op(B) op(A)' + C.
RankKKernels(uplo, trans, c, K) ==
  {Kernel(<<k>>, Op(tileA, trans, x[1], k) \cup Op(tileA, trans, x[2], k), tileC(x[1], x[2])) :
     x \in Triangle(uplo, c), k \in 0 .. K-1}

Rank2KKernels(uplo, trans, c, K) ==
  {Kernel(IF x[1] = x[2] THEN <<k>> ELSE <<k, 0>>, Op(tileA, trans, x[1], k) \cup Op(tileB, trans, x[2], k),
          tileC(x[1], x[2])) : x \in Triangle(uplo, c), k \in 0 .. K-1}
  \cup
  {Kernel(<<k, 1>>, Op(tileB, trans, x[1], k) \cup Op(tileA, trans, x[2], k), tileC(x[1], x[2])) :
     x \in {y \in Triangle(uplo, c) : y[1] # y[2]}, k \in 0 .. K-1}

\* C := op(A) op(B) + C.
GemmKernels(transA, transB, c, K) ==
  {Kernel(<<k>>, Op(tileA, transA, m, k) \cup Op(tileB, transB, k, n), tileC(m, n)) :
     m \in Rows(c), n \in Cols(c), k \in 0 .. K-1}

\* The same with a matrix of which one triangle is stored.
SymmKernels(side, uplo, c) ==
  LET S(i, j) == IF (uplo = "Lower") = (i >= j) THEN tileA(i, j) ELSE tileA(j, i)
  IN  IF side = "Left"
      THEN {Kernel(<<k>>, S(m, k) \cup tileB(k, n), tileC(m, n)) : m \in Rows(c), n \in Cols(c), k \in Rows(c)}
      ELSE {Kernel(<<k>>, tileB(m, k) \cup S(k, n), tileC(m, n)) : m \in Rows(c), n \in Cols(c), k \in Cols(c)}

-----------------------------------------------------------------------------
\* B is p x q, A square on its side.
TriangularCall ==
  \E p, q \in Sizes, side \in Sides, uplo \in Uplos, trans \in {"NoTrans", "Trans"} :
    LET a == IF side = "Left" THEN Mat(p, p) ELSE Mat(q, q)
        b == Mat(p, q)
    IN  \/ Start(<<"ztrsm", side, uplo, trans, b>>, TRSM(a, b)!ztrsm_New(side, uplo, trans),
                 TrsmKernels(side, uplo, trans, b))
        \/ Start(<<"ztrmm", side, uplo, trans, b>>, TRSM(a, b)!ztrmm_New(side, uplo, trans),
                 TrmmKernels(side, uplo, trans, b))

\* C is p x p, and q the inner dimension.
RankKCall ==
  \E p, q \in Sizes, uplo \in Uplos, trans \in {"NoTrans", "Trans"} :
    LET a == IF trans = "NoTrans" THEN Mat(p, q) ELSE Mat(q, p)
        c == Mat(p, p)
    IN  \/ Start(<<"zherk", uplo, trans, a>>, HERK(a, a, c)!zherk_New(uplo, trans), RankKKernels(uplo, trans, c, q))
        \/ Start(<<"zsyrk", uplo, trans, a>>, HERK(a, a, c)!zsyrk_New(uplo, trans), RankKKernels(uplo, trans, c, q))
        \/ Start(<<"zher2k", uplo, trans, a>>, HERK(a, a, c)!zher2k_New(uplo, trans), Rank2KKernels(uplo, trans, c, q))
        \/ Start(<<"zsyr2k", uplo, trans, a>>, HERK(a, a, c)!zsyr2k_New(uplo, trans), Rank2KKernels(uplo, trans, c, q))

SymmCall ==
  \E p, q \in Sizes, side \in Sides, uplo \in Uplos :
    LET a == IF side = "Left" THEN Mat(p, p) ELSE Mat(q, q)
        c == Mat(p, q)
    IN  \/ Start(<<"zsymm", side, uplo, c>>, HERK(a, c, c)!zsymm(side, uplo), SymmKernels(side, uplo, c))
        \/ Start(<<"zhemm", side, uplo, c>>, HERK(a, c, c)!zhemm(side, uplo), SymmKernels(side, uplo, c))

\* The look-ahead of a product on some nodes, each with some threads: everything on
\* one node, else three tiles of C for every thread, and not less than two.
LookAhead(c, threads, nodes) ==
  IF nodes = 1 THEN MaxOf(c.mt, c.nt)
  ELSE LET tiles == c.mt * c.nt
       IN  MaxOf((3*threads*nodes + tiles-1) \div tiles, 2)

\* C is p x q and r the inner dimension. With a distribution that is not block
\* cyclic the graph is the default one.
GemmCall ==
  \E p, q, r \in Sizes, nodes \in 1 .. 2, transA, transB \in {"NoTrans", "Trans"} :
    LET a == IF transA = "NoTrans" THEN Mat(p, r) ELSE Mat(r, p)
        b == IF transB = "NoTrans" THEN Mat(r, q) ELSE Mat(q, r)
        c == Mat(p, q)
        l == LookAhead(c, 1, nodes)
    IN  Start(<<"zgemm", transA, transB, a, b, nodes>>,
              GEMM(a, b, c, l, l, 1, nodes)!zgemm_default_new(transA, transB), GemmKernels(transA, transB, c, r))

\* With C block cyclic over a P x Q grid of processes it is the one with rings.
SummaCall ==
  \E p, q, r \in Sizes \ {2}, grid \in {<<1, 1>>, <<2, 1>>, <<2, 3>>}, transA, transB \in {"NoTrans", "Trans"} :
    LET a == IF transA = "NoTrans" THEN Mat(p, r) ELSE Mat(r, p)
        b == IF transB = "NoTrans" THEN Mat(r, q) ELSE Mat(q, r)
        c == Mat(p, q)
        l == LookAhead(c, 1, grid[1] * grid[2])
    IN  Start(<<"zgemm_summa", transA, transB, a, b, grid>>,
              GEMM(a, b, c, l, l, grid[1], grid[2])!zgemm_summa_new(transA, transB),
              GemmKernels(transA, transB, c, r))

BLAS3Call == TriangularCall \/ RankKCall \/ SymmCall \/ GemmCall \/ SummaCall

-----------------------------------------------------------------------------
(* The one-sided factorizations, the products with their factors, and the  *)
(* inverses.                                                               *)
INV(descA)                == INSTANCE zpoinv
TRI(descA)                == INSTANCE ztrtri
LU(descA, descB)          == INSTANCE zgetrf
QR(descA, descB, descQ)   == INSTANCE zgeqrf WITH ragged <- FALSE
SUB(descA, descB, ragged) == INSTANCE zgeqrf WITH descQ <- descA
LQ(descA, descB, descQ)   == INSTANCE zgelqf
EIG(descA, NB)            == INSTANCE zherbt

W(name, i, j) == Whole(name, i, j)
H(name, i, j) == Halves(name, i, j)

-----------------------------------------------------------------------------
\* F(i, j), i > j: the tile of the stored triangle, D(k) that of the diagonal
PotrfKernels(n, F(_, _)) ==
  LET I == 0 .. n-1
  IN  {Kernel(<<k, 0>>, {}, F(k, k)) : k \in I}
        \cup {Kernel(<<x[2], 1>>, F(x[2], x[2]), F(x[1], x[2])) : x \in {y \in I \X I : y[1] > y[2]}}
        \cup {Kernel(<<x[3], 2>>, F(x[1], x[3]) \cup F(x[2], x[3]), F(x[1], x[2])) :
                x \in {y \in I \X I \X I : y[3] < y[2] /\ y[2] <= y[1]}}

TrtriKernels(n, F(_, _), D(_)) ==
  LET I == 0 .. n-1
  IN  {Kernel(<<x[2], 0>>, D(x[2]), F(x[1], x[2])) : x \in {y \in I \X I : y[1] > y[2]}}
        \cup {Kernel(<<x[3], 1>>, F(x[1], x[3]) \cup F(x[3], x[2]), F(x[1], x[2])) :
                x \in {y \in I \X I \X I : y[2] < y[3] /\ y[3] < y[1]}}
        \cup {Kernel(<<x[1], 2>>, D(x[1]), F(x[1], x[2])) : x \in {y \in I \X I : y[1] > y[2]}}
        \cup {Kernel(<<k, 3>>, {}, D(k)) : k \in I}

LauumKernels(n, F(_, _), D(_)) ==
  LET I == 0 .. n-1
      T(i, j) == IF i = j THEN D(i) ELSE F(i, j)
  IN  {Kernel(<<x[3], 0>>, F(x[3], x[1]) \cup F(x[3], x[2]), T(x[1], x[2])) :
         x \in {y \in I \X I \X I : y[2] <= y[1] /\ y[1] < y[3]}}
        \cup {Kernel(<<x[1], 1>>, D(x[1]), F(x[1], x[2])) : x \in {y \in I \X I : y[1] > y[2]}}
        \cup {Kernel(<<k, 2>>, {}, D(k)) : k \in I}

NopivKernels(a) ==
  LET T(i, j) == H("A", i, j)
      P == 0 .. MinOf(a.mt, a.nt)-1
  IN  {Kernel(<<k, 0>>, {}, T(k, k)) : k \in P}
        \cup {Kernel(<<x[1], 1>>, T(x[1], x[1]), T(x[1], x[2])) : x \in {y \in P \X Cols(a) : y[2] > y[1]}}
        \cup {Kernel(<<x[2], 1>>, T(x[2], x[2]), T(x[1], x[2])) : x \in {y \in Rows(a) \X P : y[1] > y[2]}}
        \cup {Kernel(<<x[1], 2>>, T(x[2], x[1]) \cup T(x[1], x[3]), T(x[2], x[3])) :
                x \in {y \in P \X Rows(a) \X Cols(a) : y[2] > y[1] /\ y[3] > y[1]}}


\* A = L D L^H of the lower triangle: all blocks of a step need D, its diagonal block, before
\* the factor in it is scaled.
HetrfKernels(n) ==
  LET T(i, j) == H("A", i, j)
      P       == 0 .. n-2
  IN  {Kernel(<<k, 0>>, {}, T(k, k)) : k \in 0 .. n-1}
        \cup UNION {{Kernel(<<k, 1>>, T(k, k), T(i, k)) : i \in k+1 .. n-1} : k \in P}
        \cup UNION {{Kernel(<<k, 2>>, T(x[1], k) \cup T(x[2], k) \cup T(k, k), T(x[1], x[2])) :
                       x \in {y \in (k+1 .. n-1) \X (k+1 .. n-1) : y[1] >= y[2]}} : k \in P}
        \cup {Kernel(<<k, 3>>, {}, T(k, k)) : k \in P}

TrdsmKernels(b) == {Kernel(<<0>>, H("A", i, i), W("B", i, j)) : i \in Rows(b), j \in Cols(b)}

\* GOK(k, m, k+1) names GOK(k, m-1, mt-1) as the task before it, and ztrmdm(k) names GOK(k, mt-1,
\* mt-2).  The tasks that send to them are GOK(k, m-1, m-1) and GOK(k, mt-1, mt-1); the runtime
\* counts messages and does not look at the names.
AsCounted(g) ==
  LET Senders(u) == {<<"ctl">> \o t : t \in {x \in DOMAIN g : x[1] = "GOK" /\ <<"ctl">> \o u \in g[x].flow.ctl.out}}
      Counted(u) == u[1] \in {"GOK", "ztrmdm"} /\ Cardinality(g[u].flow.ctl.in) = Cardinality(Senders(u))
  IN  [u \in DOMAIN g |-> IF Counted(u) THEN [g[u] EXCEPT !.flow.ctl.in = Senders(u)] ELSE g[u]]

\* The factorizations with a flat tree.  X(i, j) is a tile, V(k) and R(k) are the
\* two triangles of a tile on the diagonal, S(i, k) what a kernel keeps beside it.
FlatTreeKernels(mt, nt, X(_, _), V(_), R(_), S(_, _), S0(_)) ==
  LET P == 0 .. MinOf(mt, nt)-1
      I == 0 .. mt-1
      J == 0 .. nt-1
  IN  {Kernel(<<k, 0>>, {}, X(k, k) \cup S0(k)) : k \in P}
        \cup {Kernel(<<x[1], 1>>, V(x[1]) \cup S0(x[1]), X(x[1], x[2])) : x \in {y \in P \X J : y[2] > y[1]}}
        \cup {Kernel(<<x[1], 2, x[2], 0>>, {}, R(x[1]) \cup X(x[2], x[1]) \cup S(x[2], x[1])) :
                x \in {y \in P \X I : y[2] > y[1]}}
        \cup {Kernel(<<x[1], 2, x[2], 1>>, X(x[2], x[1]) \cup S(x[2], x[1]), X(x[1], x[3]) \cup X(x[2], x[3])) :
                x \in {y \in P \X I \X J : y[2] > y[1] /\ y[3] > y[1]}}

IncpivKernels(a) ==
  FlatTreeKernels(a.mt, a.nt, LAMBDA i, j: H("A", i, j), LAMBDA k: Lower(H("A", k, k)), LAMBDA k: Upper(H("A", k, k)),
    LAMBDA i, k: W("L", i, k) \cup W("IP", i, k), LAMBDA k: W("IP", k, k))
QRKernels(a) ==
  FlatTreeKernels(a.mt, a.nt, LAMBDA i, j: H("A", i, j), LAMBDA k: Lower(H("A", k, k)), LAMBDA k: Upper(H("A", k, k)),
    LAMBDA i, k: W("T", i, k), LAMBDA k: W("T", k, k))
LQKernels(a) ==
  FlatTreeKernels(a.nt, a.mt, LAMBDA i, j: H("A", j, i), LAMBDA k: Upper(H("A", k, k)), LAMBDA k: Lower(H("A", k, k)),
    LAMBDA i, k: W("T", k, i), LAMBDA k: W("T", k, k))

TrsmplKernels(a, b) ==
  LET P == 0 .. MinOf(a.mt, a.nt)-1
      BB(i, j) == W("B", i, j)
  IN  {Kernel(<<x[1], 0>>, H("A", x[1], x[1]) \cup W("IP", x[1], x[1]), BB(x[1], x[2])) : x \in P \X Cols(b)}
        \cup {Kernel(<<x[1], 1, x[2]>>, H("A", x[2], x[1]) \cup W("L", x[2], x[1]) \cup W("IP", x[2], x[1]),
                     BB(x[1], x[3]) \cup BB(x[2], x[3])) :
                x \in {y \in P \X Rows(a) \X Cols(b) : y[2] > y[1]}}

\* The reflectors of p panels, of at most mt rows, are applied to the rows of C,
\* in the order in which they were generated or in the opposite one.  C(i, j) is
\* its tile in row i, J(k) the columns that reflectors k change.
ApplyKernels(p, mt, J(_), C(_, _), V(_, _), S(_, _), order(_, _)) ==
  LET P == 0 .. p-1
      I == 0 .. mt-1
  IN  UNION {
        {Kernel(order(x[1], x[2]), V(x[2], x[1]) \cup S(x[2], x[1]), C(x[1], j) \cup C(x[2], j)) : j \in J(x[1])} :
          x \in {y \in P \X I : y[2] >= y[1]}}

Forwards(k, m)  == IF m = k THEN <<k, 0>> ELSE <<k, 1, m>>
Backwards(k, m) == IF m = k THEN <<-k, 1>> ELSE <<-k, 0, -m>>

\* QR: the reflectors of panel k are in column k of A, LQ: in row k.
QR_V(i, k) == IF i = k THEN Lower(H("A", k, k)) ELSE H("A", i, k)
LQ_V(i, k) == IF i = k THEN Upper(H("A", k, k)) ELSE H("A", k, i)
QR_T(i, k) == W("T", i, k)
LQ_T(i, k) == W("T", k, i)

UnmqrKernels(side, trans, a, b) ==
  LET order(k, m) == IF (side = "Left") # (trans = "NoTrans") THEN Forwards(k, m) ELSE Backwards(k, m)
  IN  IF side = "Left"
      THEN ApplyKernels(a.nt, a.mt, LAMBDA k: Cols(b), LAMBDA i, j: W("B", i, j), QR_V, QR_T, order)
      ELSE ApplyKernels(a.nt, a.mt, LAMBDA k: Rows(b), LAMBDA i, j: W("B", j, i), QR_V, QR_T, order)
UnmlqKernels(side, trans, a, b) ==
  LET order(k, m) == IF (side = "Left") = (trans = "NoTrans") THEN Forwards(k, m) ELSE Backwards(k, m)
  IN  IF side = "Left"
      THEN ApplyKernels(a.mt, a.nt, LAMBDA k: Cols(b), LAMBDA i, j: W("B", i, j), LQ_V, LQ_T, order)
      ELSE ApplyKernels(a.mt, a.nt, LAMBDA k: Rows(b), LAMBDA i, j: W("B", j, i), LQ_V, LQ_T, order)

\* Q is the identity, to which the reflectors are applied: those of panel k leave
\* its columns before k alone.
UngKernels(p, mt, nt, C(_, _), V(_, _), S(_, _)) ==
  {<<<<0>>, {}, C(i, j)>> : i \in 0 .. mt-1, j \in 0 .. nt-1}
    \cup ApplyKernels(p, mt, LAMBDA k: k .. nt-1, C, V, S, LAMBDA k, m: <<1, p-1-k, IF m = k THEN mt ELSE mt-m>>)

\* The kernels of QR over column panels of p block rows: panel k of reflectors touches the rows from
\* block k on.
PanelRows(name, j, k, p) == {<<name, 0, j, i>> : i \in k .. p-1}

SubGeqrtKernels(p, q) ==
  UNION {
    {Kernel(<<k, 0>>, {}, PanelRows("A", k, k, p) \cup W("T", 0, k))}
      \cup {Kernel(<<k, 1>>, PanelRows("A", k, k, p) \cup W("T", 0, k), PanelRows("A", j, k, p)) : j \in k+1 .. q-1} :
    k \in 0 .. MinOf(p, q)-1}

SubUnmqrKernels(p, q) ==
  {Kernel(<<k>>, PanelRows("A", k, k, p) \cup W("T", 0, k), PanelRows("C", j, k, p)) : k \in 0 .. p-1, j \in 0 .. q-1}

\* A kill eliminates panel k of the victim with block row k of the triangle above it.
Above(j, k) == {<<"A1", 0, j, k, "U">>} \cup If(j # k, {<<"A1", 0, j, k, "L">>})

SubTsqrtKernels(q) ==
  UNION {
    {Kernel(<<k, 0>>, {}, Above(k, k) \cup W("A2", 0, k) \cup W("T", 0, k))}
      \cup {Kernel(<<k, 1>>, W("A2", 0, k) \cup W("T", 0, k), Above(j, k) \cup W("A2", 0, j)) : j \in k+1 .. q-1} :
    k \in 0 .. q-1}

SubTsmqrKernels(p, q) ==
  {Kernel(<<k>>, W("V", 0, k) \cup W("T", 0, k),
          {<<"A1", 0, j, k, "U">>, <<"A1", 0, j, k, "L">>} \cup W("A2", 0, j)) : k \in 0 .. p-1, j \in 0 .. q-1}

\* The lower triangle of a Hermitian matrix of n tiles to band form.  A kill changes row and
\* column m and row and column k+1, of which A(i, j) holds the stored part.
HerbtKernels(n) ==
  LET A(i, j) == H("A", MaxOf(i, j), MinOf(i, j))
      V(i, k) == A(i, k) \cup W("T", i, k)
      V0(k)   == Lower(A(k+1, k)) \cup W("T", k+1, k)
  IN  UNION {
        {Kernel(<<k, 0>>, {}, V(k+1, k))}
          \cup {Kernel(<<k, 1>>, V0(k), A(i, k+1)) : i \in k+1 .. n-1}
          \cup {Kernel(<<k, 2, m, 0>>, {}, Upper(A(k+1, k)) \cup V(m, k)) : m \in k+2 .. n-1}
          \cup {Kernel(<<k, 2, x[1], 1>>, V(x[1], k), A(x[2], k+1) \cup A(x[1], x[2])) :
                  x \in {y \in (k+2 .. n-1) \X (k+2 .. n-1) : y[1] # y[2]}}
          \cup {Kernel(<<k, 2, m, 2>>, V(m, k), A(k+1, k+1) \cup A(m, k+1) \cup A(m, m)) : m \in k+2 .. n-1} :
        k \in 0 .. n-2}

\* The sweeps of a band of n tiles of nb columns, each from its column to the end of the band.
HbrdtKernels(n, nb) ==
  {Kernel(x, {}, W("W", 0, x[3]) \cup If(x[3] < n-1, W("W", 0, x[3]+1))) :
     x \in {y \in (0 .. n-1) \X (0 .. nb-1) \X (0 .. n-1) : y[3] >= y[1]}}

-----------------------------------------------------------------------------
\* One triangle of A, of order p.
TriangleCall ==
  \E p \in Sizes, uplo \in Uplos :
    LET FW(i, j) == IF uplo = "Lower" THEN W("A", i, j) ELSE W("A", j, i)
        DW(k)    == W("A", k, k)
        FH(i, j) == IF uplo = "Lower" THEN H("A", i, j) ELSE H("A", j, i)
        DH(k)    == IF uplo = "Lower" THEN Lower(H("A", k, k)) ELSE Upper(H("A", k, k))
        a        == Mat(p, p)
    IN  \/ uplo = "Upper" /\ Start(<<"zpotrf", uplo, p>>, INV(a)!zpotrf_U, PotrfKernels(p, FW))
        \/ uplo = "Lower" /\ Start(<<"zhetrf", p>>, AsCounted(LU(a, a)!zhetrf), HetrfKernels(p))
        \/ uplo = "Upper" /\ Start(<<"zlauum", uplo, p>>, TRI(a)!zlauum_U, LauumKernels(p, FH, DH))
        \/ Start(<<"ztrtri", uplo, p>>, TRI(a)!ztrtri_New(uplo), TrtriKernels(p, FH, DH))
        \/ Start(<<"zpoinv", uplo, p>>, INV(a)!zpoinv_New(uplo),
                 After(<<0>>, PotrfKernels(p, FW)) \cup After(<<1>>, TrtriKernels(p, FW, DW))
                   \cup After(<<2>>, LauumKernels(p, FW, DW)))

\* A general matrix A.
GeneralCall ==
  \E p, q \in Sizes :
    LET a == Mat(p, q)
    IN  \/ Start(<<"zgetrf_nopiv", a>>, LU(a, a)!zgetrf_nopiv, NopivKernels(a))
        \/ Start(<<"zgetrf_incpiv", a>>, LU(a, a)!zgetrf_incpiv, IncpivKernels(a))
        \/ Start(<<"zgeqrf", a>>, QR(a, a, a)!zgeqrf, QRKernels(a))
        \/ Start(<<"zgelqf", a>>, LQ(a, a, a)!zgelqf, LQKernels(a))

\* The factors of a p x n (LQ: n x p) matrix, applied to one of p x q tiles.
FactorCall ==
  \E p, q, n \in Sizes :
    LET a == Mat(p, n)
        l == Mat(n, p)
        b == Mat(p, q)
        c == Mat(q, p)
    IN  \/ p = n /\ Start(<<"ztrsmpl_incpiv", a, b>>, LU(a, b)!ztrsmpl_incpiv, TrsmplKernels(a, b))
        \/ p = n /\ Start(<<"ztrdsm", a, b>>, LU(a, b)!ztrdsm, TrdsmKernels(b))
        \/ /\ QR(a, b, b)!zungqr_Legal
           /\ Start(<<"zungqr", a, b>>, QR(a, b, b)!zungqr,
                    UngKernels(n, p, q, LAMBDA i, j: W("Q", i, j), QR_V, QR_T))
        \/ /\ LQ(l, c, c)!zunglq_Legal
           /\ Start(<<"zunglq", l, c>>, LQ(l, c, c)!zunglq,
                    UngKernels(n, p, q, LAMBDA i, j: W("Q", j, i), LQ_V, LQ_T))
        \/ \E side \in Sides, trans \in {"NoTrans", "ConjTrans"} :
             LET x == IF side = "Left" THEN b ELSE c
             IN  \/ /\ QR(a, x, x)!zunmqr_Legal(side)
                    /\ Start(<<"zunmqr", side, trans, a, x>>, QR(a, x, x)!zunmqr_New(side, trans),
                             UnmqrKernels(side, trans, a, x))
                 \/ /\ LQ(l, x, x)!zunmlq_Legal(side)
                    /\ Start(<<"zunmlq", side, trans, l, x>>, LQ(l, x, x)!zunmlq_New(side, trans),
                             UnmlqKernels(side, trans, l, x))

\* The recursive bodies of the kernels of QR, on tiles of p block rows or p panels of reflectors, and
\* q panels.  A wide tile with a ragged last row is left out (Refused).
RecursiveCall ==
  \E p, q \in Sizes :
    LET a == Mat(p, q)
        s == Mat(p, p)
    IN  \/ \E ragged \in BOOLEAN :
             /\ ragged => p >= q
             /\ Start(<<"zgeqrfr_geqrt", a, ragged>>, SUB(a, a, ragged)!zgeqrfr_geqrt, SubGeqrtKernels(p, q))
        \/ Start(<<"zgeqrfr_unmqr", a>>, SUB(s, a, FALSE)!zgeqrfr_unmqr, SubUnmqrKernels(p, q))
        \/ p = q /\ Start(<<"zgeqrfr_tsqrt", q>>, SUB(a, a, FALSE)!zgeqrfr_tsqrt, SubTsqrtKernels(q))
        \/ Start(<<"zgeqrfr_tsmqr", a>>, SUB(s, a, FALSE)!zgeqrfr_tsmqr, SubTsmqrKernels(p, q))

\* A Hermitian matrix, and its band, of up to twice the order: the kills of a panel, and
\* the sweeps, follow each other.
HermitianCall ==
  \E n \in Sizes \cup {2*p : p \in Sizes} :
    \/ Start(<<"zherbt", n>>, EIG(Mat(n, n), 1)!zherbt_L, HerbtKernels(n))
    \/ \E nb \in {1, 2, 3} : Start(<<"zhbrdt", n, nb>>, EIG(Mat(1, n), nb)!zhbrdt, HbrdtKernels(n, nb))

FactorizationCall == TriangleCall \/ GeneralCall \/ FactorCall \/ RecursiveCall \/ HermitianCall

-----------------------------------------------------------------------------
(* The routines that follow a reduction tree.                              *)
CONSTANT TreeHeights   \* tiles in a column of the matrix that the tree reduces
ASSUME TreeHeightsAssumption == TreeHeights \subseteq Nat \ {0}

TQR(descA, descB, descQ, qrtree) == INSTANCE zgeqrf_param
TLQ(descA, descB, descQ, qrtree) == INSTANCE zgelqf_param
BRD(descA, qrtre0, qrtree, lqtree, rbidiag) == INSTANCE zgebrd_ge2gb
Tree == INSTANCE dplasma_qrtree

-----------------------------------------------------------------------------
\* The functions of a tree, each where the tree answers it.
Functions(t) ==
  LET K == 0 .. MinOf(t.mt, t.nt)-1
      R(k) == k .. t.mt-1
      type == [k \in K |-> [m \in R(k) |-> Tree!gettype(t, k, m)]]
      piv  == [k \in K |-> [m \in R(k) |-> Tree!currpiv(t, k, m)]]
      List(k, p) == {m \in k+1 .. t.mt-1 : piv[k][m] = p}
  IN  [mt |-> t.mt, nt |-> t.nt, gettype |-> type, currpiv |-> piv,
       getnbgeqrf |-> [k \in K |-> Tree!getnbgeqrf(t, k)],
       getm |-> [k \in K |-> [i \in 0 .. Tree!getnbgeqrf(t, k)-1 |-> Tree!getm(t, k, i)]],
       geti |-> [k \in K |-> [m \in {x \in R(k) : type[k][x] # 0} |-> Tree!geti(t, k, m)]],
       nextpiv |-> [k \in K |-> [p \in R(k) |-> [m \in List(k, p) \cup {t.mt} |-> Tree!nextpiv(t, k, p, m)]]],
       prevpiv |-> [k \in K |-> [p \in R(k) |-> [m \in List(k, p) \cup {p} |-> Tree!prevpiv(t, k, p, m)]]]]

\* Trees of the three kinds, for the columns (NoTrans) or the rows of A: one and
\* two process rows, domains of one and two tiles, with and without domino.
Trees(trans, A) ==
  LET D == [nodes |-> 2] @@ A
      Hierarchical ==
        {Tree!dplasma_hqr_init(trans, D, l, "greedy", x[1], x[2], x[3], x[4]) :
           l \in {"flat", "binary"},
           x \in {<<1, 1, 0, FALSE>>, <<2, 1, -1, FALSE>>, <<1, 2, 1, FALSE>>, <<2, 2, 0, TRUE>>}}
  IN  Hierarchical \cup {Tree!dplasma_svd_init(trans, D, "fibonacci", 2, 1, 2),
                         Tree!dplasma_systolic_init(trans, D, 2, 2)}

\* Trees for a reduction to band form: of the columns and of the rows of A or, if a first
\* tree factorizes all of A, of the square part R.
BandTrees(A) ==
  LET D == [nodes |-> 2] @@ A
      R == [D EXCEPT !.mt = A.nt]
      First == {Tree!dplasma_hqr_init("NoTrans", D, l, "greedy", 2, 1, -1, FALSE) : l \in {"flat", "binary"}}
      SVD(B, trans, n) == Tree!dplasma_svd_init(trans, B, "fibonacci", n, 1, 2)
      Turns(B) == {[qr |-> SVD(B, "NoTrans", n), lq |-> SVD(B, "ConjTrans", 3-n)] : n \in {1, 2}}
  IN  Turns(D) \cup {[first |-> t] @@ u : t \in First, u \in Turns(R)}

\* What the trees are for: a QR or LQ factorization of p x q (LQ: q x p) tiles or, with at
\* least as many rows as columns, a reduction to band form.
Chosen(p, q) ==
  {[QR |-> t] : t \in Trees("NoTrans", Mat(p, q))} \cup {[LQ |-> t] : t \in Trees("ConjTrans", Mat(q, p))}
    \cup If(q <= p, BandTrees(Mat(p, q)))

-----------------------------------------------------------------------------
\* The two factorizations: X(i, j) is the tile in row i and column j of the
\* matrix that the tree reduces: A, or its transpose.
QR_X(i, j)    == Halves("A", i, j)
QR_S(M, i, k) == Whole(M, i, k)
LQ_X(i, j)    == Halves("A", j, i)
LQ_S(M, i, k) == Whole(M, k, i)

\* Rows of panel k: those that are factorized on their own, those that are killed.
Factorized(t, k) == {m \in k .. t.mt-1 : t.gettype[k][m] # 0}
Killed(t, k)     == k+1 .. t.mt-1

\* Panel k of a factorization.  P(i) is its tile in row i, C(i, j) a tile of the columns
\* N that are updated.  V and R take the two triangles of a tile: what its factorization leaves
\* for the updates, and what remains to be killed.  TS(i) and TT(i) are kept beside the tiles.
Victim(t, k, m, P(_), R(_)) == IF t.gettype[k][m] = 0 THEN P(m) ELSE R(P(m))

Panel(t, k, P(_), C(_, _), N, V(_), R(_), TS(_), TT(_), turn(_, _)) ==
  LET victim(m) == Victim(t, k, m, P, R)
      p(m)      == t.currpiv[k][m]
  IN  {Kernel(<<0>>, {}, P(m) \cup TS(m)) : m \in Factorized(t, k)}
        \cup {Kernel(<<1>>, V(P(m)) \cup TS(m), C(m, n)) : m \in Factorized(t, k), n \in N}
        \cup {Kernel(<<2, turn(k, m), 0>>, {}, R(P(p(m))) \cup victim(m) \cup TT(m)) : m \in Killed(t, k)}
        \cup {Kernel(<<2, turn(k, m), 1>>, victim(m) \cup TT(m), C(p(m), n) \cup C(m, n)) :
                m \in Killed(t, k), n \in N}

TreeKernels(t, X(_, _), V(_), R(_), S(_, _, _), turn(_, _)) ==
  UNION {
    After(<<k>>, Panel(t, k, LAMBDA i: X(i, k), X, k+1 .. t.nt-1, V, R,
                       LAMBDA i: S("TS", i, k), LAMBDA i: S("TT", i, k), turn)) :
    k \in 0 .. MinOf(t.mt, t.nt)-1}

\* The reflectors are applied to the rows of C, in the order in which they were
\* generated or in the opposite one; those of panel k change its columns J(k).
ApplyTree(t, X(_, _), V(_), R(_), S(_, _, _), turn(_, _), C(_, _), J(_), forward) ==
  UNION {
    {Kernel(IF forward THEN <<k, 0>> ELSE <<-k, 1>>, V(X(m, k)) \cup S("TS", m, k), C(m, j)) :
       m \in Factorized(t, k), j \in J(k)}
      \cup {Kernel(IF forward THEN <<k, 1, turn(k, m)>> ELSE <<-k, 0, -turn(k, m)>>,
                   Victim(t, k, m, LAMBDA i: X(i, k), R) \cup S("TT", m, k), C(t.currpiv[k][m], j) \cup C(m, j)) :
              m \in Killed(t, k), j \in J(k)} :
    k \in 0 .. t.nt-1}

\* Q is the identity, to which the reflectors are applied.
Identity(Q) == {<<<<0>>, {}, Whole("Q", i, j)>> : i \in Rows(Q), j \in Cols(Q)}

\* The matrix C of a product: B or its transpose.
C_of(side, i, j) == IF side = "Left" THEN Whole("B", i, j) ELSE Whole("B", j, i)

-----------------------------------------------------------------------------
\* The reduction of a matrix a to band form.  First the panels of tree t0: that of the first
\* column or, with r, all.  Then the triangles that were apart are put together again and,
\* with r, the triangle R is copied, which goes on alone.  Then, in turns, a panel of
\* row k-1 with tree tl and a panel of column k with tree tq.  At last the band is copied.
BandPanels(a, r) == 0 .. IF r THEN a.nt-1 ELSE 0
BandRows(a, r)   == 0 .. IF r THEN a.nt-1 ELSE a.mt-1

BandKernels(a, t0, tq, tl, r, turn(_, _, _)) ==
  LET A(i, j)  == Halves("A", i, j)
      At(j, i) == A(i, j)
      QRPanel(t, k, TS, TT) ==
        Panel(t, k, LAMBDA i: A(i, k), A, k+1 .. a.nt-1, Lower, Upper, LAMBDA i: Whole(TS, i, k),
              LAMBDA i: Whole(TT, i, k), LAMBDA x, i: turn(t, x, i))
      LQPanel(t, k) ==
        Panel(t, k, LAMBDA j: A(k-1, j), At, {i \in BandRows(a, r) : i >= k}, Upper, Lower,
              LAMBDA j: Whole("TS", k-1, j), LAMBDA j: Whole("TT", k-1, j), LAMBDA x, j: turn(t, x, j))
      Apart(i, j)  == j \in BandPanels(a, r) /\ (i = j \/ (i > j /\ t0.gettype[j][i] # 0))
      Copied(i, j) == r /\ j \in 1 .. i /\ i \in BandRows(a, r)
      Band(j)      == Whole("Band", 0, j)
  IN  UNION {After(<<0, k>>, QRPanel(t0, k, IF r THEN "TS0" ELSE "TS", IF r THEN "TT0" ELSE "TT")) :
               k \in BandPanels(a, r)}
        \cup {<<<<1>>, IF Apart(x[1], x[2]) THEN Upper(A(x[1], x[2])) ELSE {},
                IF Copied(x[1], x[2]) THEN A(x[1], x[2]) ELSE {}>> :
                x \in {y \in Rows(a) \X Cols(a) : Apart(y[1], y[2]) \/ Copied(y[1], y[2])}}
        \cup UNION {After(<<2, k, 0>>, LQPanel(tl, k)) \cup After(<<2, k, 1>>, QRPanel(tq, k, "TS", "TT")) :
                      k \in 1 .. a.nt-1}
        \cup {Kernel(<<3, k, 0>>, Lower(A(k-1, k)), Band(k)) : k \in 1 .. a.nt-1}
        \cup {Kernel(<<3, k, 1>>, Upper(A(k, k)), Band(k)) : k \in Cols(a)}

\* The triangles that are kept in Band only.
InBand(a) == UNION {Upper(Halves("A", k, k)) \cup Lower(Halves("A", k-1, k)) : k \in 1 .. a.nt-1}

\* The input of gebrdL_zgelqt names a task of step k; the task that sends it, and that the
\* runtime binds it to, is of step k-1.
AsReleased(g) ==
  LET Senders(u) == {t \in DOMAIN g : /\ t[1] = "gebrdR_zttmqr"
                                      /\ <<"A">> \o u \in g[t].flow.A1.out}
  IN  [u \in DOMAIN g |->
         IF u[1] = "gebrdL_zgelqt" /\ u[2] > 1
         THEN [g[u] EXCEPT !.flow.A.in = {<<"A1">> \o t : t \in Senders(u)}]
         ELSE g[u]]

-----------------------------------------------------------------------------
\* The calls with a matrix of p x q (LQ: q x p) tiles, its trees T and, for the products
\* with the factors, another matrix whose other side has r tiles.
QRCall(p, q, t) ==
  LET a == Mat(p, q)
      turn(k, m) == TQR(a, a, a, t)!Turn(k, m)
      Apply(C(_, _), J(_), forward) ==
        ApplyTree(t, QR_X, Lower, Upper, QR_S, turn, C, J, forward)
  IN  \/ Start(<<"zgeqrf_param", a, t>>, TQR(a, a, a, t)!zgeqrf_param,
               TreeKernels(t, QR_X, Lower, Upper, QR_S, turn))
      \/ \E r \in Sizes :
           LET b == Mat(p, r)
           IN  /\ TQR(a, b, b, t)!zungqr_param_Legal
               /\ Start(<<"zungqr_param", a, b, t>>, TQR(a, b, b, t)!zungqr_param,
                        Identity(b) \cup After(<<1>>,
                          Apply(LAMBDA i, j: Whole("Q", i, j), LAMBDA k: k .. r-1, FALSE)))
      \/ \E side \in Sides, trans \in {"NoTrans", "ConjTrans"}, r \in {1, 2} :
           LET b == IF side = "Left" THEN Mat(p, r) ELSE Mat(r, p)
           IN  /\ TQR(a, b, b, t)!zunmqr_param_Legal(side)
               /\ Start(<<"zunmqr_param", side, trans, a, b, t>>,
                        TQR(a, b, b, t)!zunmqr_param_New(side, trans),
                        Apply(LAMBDA i, j: C_of(side, i, j),
                              LAMBDA k: 0 .. r-1, (side = "Left") # (trans = "NoTrans")))

LQCall(p, q, t) ==
  LET a == Mat(q, p)
      turn(k, m) == TLQ(a, a, a, t)!Turn(k, m)
      Apply(C(_, _), J(_), forward) ==
        ApplyTree(t, LQ_X, Upper, Lower, LQ_S, turn, C, J, forward)
  IN  \/ Start(<<"zgelqf_param", a, t>>, TLQ(a, a, a, t)!zgelqf_param,
               TreeKernels(t, LQ_X, Upper, Lower, LQ_S, turn))
      \/ \E r \in Sizes :
           LET b == Mat(r, p)
           IN  /\ TLQ(a, b, b, t)!zunglq_param_Legal
               /\ Start(<<"zunglq_param", a, b, t>>, TLQ(a, b, b, t)!zunglq_param,
                        Identity(b) \cup After(<<1>>,
                          Apply(LAMBDA i, j: Whole("Q", j, i), LAMBDA k: k .. r-1, FALSE)))
      \/ \E side \in Sides, trans \in {"NoTrans", "ConjTrans"}, r \in {1, 2} :
           LET b == IF side = "Left" THEN Mat(p, r) ELSE Mat(r, p)
           IN  /\ TLQ(a, b, b, t)!zunmlq_param_Legal(side)
               /\ Start(<<"zunmlq_param", side, trans, a, b, t>>,
                        TLQ(a, b, b, t)!zunmlq_param_New(side, trans),
                        Apply(LAMBDA i, j: C_of(side, i, j),
                              LAMBDA k: 0 .. r-1, (side = "Left") = (trans = "NoTrans")))

BandCall(p, q, T) ==
  LET a     == Mat(p, q)
      r     == "first" \in DOMAIN T
      first == IF r THEN T.first ELSE T.qr
  IN  \E g \in {BRD(a, first, T.qr, T.lq, r)!zgebrd_ge2gb} :
        StartDropping(<<"zgebrd_ge2gb", a, T>>, AsReleased(g),
                      BandKernels(a, first, T.qr, T.lq, r,
                                  LAMBDA t, k, m: BRD(a, first, T.qr, T.lq, r)!Turn(t, k, m)),
                      InBand(a))

TreeCall ==
  \E p \in TreeHeights, q \in Sizes :
    \E T \in {[x \in DOMAIN c |-> Functions(c[x])] : c \in Chosen(p, q)} :
      \/ "QR" \in DOMAIN T /\ QRCall(p, q, T.QR)
      \/ "LQ" \in DOMAIN T /\ LQCall(p, q, T.LQ)
      \/ "qr" \in DOMAIN T /\ BandCall(p, q, T)

-----------------------------------------------------------------------------
Init == BLAS3Call \/ FactorizationCall \/ TreeCall
Spec == Init /\ [][Next]_vars
=============================================================================
