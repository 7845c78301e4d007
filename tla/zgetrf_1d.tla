------------------------------- MODULE zgetrf_1d -------------------------------
(***************************************************************************)
(* The LU factorisation with partial pivoting, src/zgetrf_1d.jdf: a panel  *)
(* k of tiles is factorised by a gang of tasks getrf(k, 0..nbthreads(k)),  *)
(* the columns to its right are swapped and updated, the ones to its left  *)
(* are swapped later.  The runtime that executes the graph is TaskRuntime. *)
(*                                                                         *)
(* The swaps touch all tiles of a column from row k on, but the graph      *)
(* names only the first of them: the others are used in place, behind the  *)
(* back of the runtime, and CTL flows order the tasks that do so.  Flow    *)
(* <<"A", i>> is here the i-th tile below the one the flow A is bound to;  *)
(* only <<"A", 0>> is known to the graph.                                  *)
(*                                                                         *)
(* The tasks of a gang have the same inputs and run one threaded kernel,   *)
(* CORE_zgetrf_rectil.  The kernel is one step of the gang, CORE_zgetrf(k),*)
(* up to its last barrier; after it, thread t still divides the last       *)
(* column of its own tiles, and that is the task getrf(k, t).  (Thread 0   *)
(* also swaps the columns to the left of the last one meanwhile: elements  *)
(* that no other thread touches, see NoConflict of CORE_zgetrf_rectil.)    *)
(***************************************************************************)
EXTENDS Integers

CONSTANTS
  mt, nt,      \* descA->mt, descA->nt
  nbmaxthrd,   \* the threads a gang may have
  rank_of(_)   \* the process that owns tile <<m, n>> of A, tile <<-1, k>> of IPIV

ASSUME SizeAssumption == mt \in Nat \ {0} /\ nt \in Nat \ {0} /\ nbmaxthrd \in Nat \ {0}

\* "require a column-cyclic data distribution"
ASSUME ColumnAssumption == \A n \in 0 .. nt-1, m \in 0 .. mt-1 : rank_of(<<m, n>>) = rank_of(<<0, n>>)

VARIABLES stage, released, inflight, val

Least(x, y) == IF x <= y THEN x ELSE y

KT == Least(mt, nt) - 1

\* A variant with a thread for every tile.
nbthreads_tile(k) == Least(mt - k, 2) - 1

nbthreads(k) == Least((mt - k + 3) \div 4, nbmaxthrd) - 1

\* The tiles of thread t of the gang of panel k, counted from the diagonal.
OwnTiles(k, t) ==
  LET thcnt == Least(nbthreads(k) + 1, mt - k)
      q == (mt - k) \div thcnt
      r == (mt - k) % thcnt
      ft == IF t < r THEN t * (q + 1) ELSE r * (q + 1) + (t - r) * q
  IN  ft .. ft + (IF t < r THEN q ELSE q - 1)

-----------------------------------------------------------------------------
(* Tasks, tiles and flows.                                                 *)

IPIV_in(k)       == <<"IPIV_in", k>>
IPIV_out(k)      == <<"IPIV_out", k>>
tile2panel(k, n) == <<"tile2panel", k, n>>
CORE_zgetrf(k)   == <<"CORE_zgetrf", k>>
getrf(k, t)      == <<"getrf", k, t>>
swptrsm(k, n)    == <<"swptrsm", k, n>>
GEMM_A_in(k, m)  == <<"GEMM_A_in", k, m>>
gemm(k, m, n)    == <<"gemm", k, m, n>>
swpback(k, n)    == <<"swpback", k, n>>

Tasks ==
  {IPIV_in(k) : k \in 0 .. KT} \cup {IPIV_out(k) : k \in 0 .. KT}
    \cup UNION {{tile2panel(k, n) : n \in k+1 .. nt-1} : k \in 0 .. KT-1}
    \cup {CORE_zgetrf(k) : k \in 0 .. KT}
    \cup UNION {{getrf(k, t) : t \in 0 .. nbthreads(k)} : k \in 0 .. KT}
    \cup UNION {{swptrsm(k, n) : n \in k+1 .. nt-1} : k \in 0 .. KT}
    \cup UNION {{GEMM_A_in(k, m) : m \in k+1 .. mt-1} : k \in 0 .. KT}
    \cup UNION {{gemm(k, x[1], x[2]) : x \in (k+1 .. mt-1) \X (k+1 .. nt-1)} : k \in 0 .. KT}
    \cup UNION {{swpback(k, n) : n \in 0 .. k-1} : k \in 1 .. KT}

IPIV(k) == <<-1, k>>
Tiles == (0 .. mt-1) \X (0 .. nt-1) \cup {IPIV(k) : k \in 0 .. KT}

A(i) == <<"A", i>>
B(i) == <<"B", i>>
C    == <<"C", 0>>
P    == <<"IPIV", 0>>
ctl  == <<"ctl", 0>>
ctl2 == <<"ctl2", 0>>

If(guard, deps) == {d \in deps : guard}  \* "(guard) ? dependency"

-----------------------------------------------------------------------------
(* IPIV_in(k), IPIV_out(k): move the pivots of panel k in and out.         *)

IPIV_in_Out(k)   == {<<P, CORE_zgetrf(k), P>>}
IPIV_in_Load(k)  == {<<P, IPIV(k)>>}
IPIV_out_In(k)   == {<<P, getrf(k, 0), P>>}
IPIV_out_Store(k) == {<<P, IPIV(k)>>}
IPIV_Body(k)     == {<<P, "READ", IPIV(k)>>}

-----------------------------------------------------------------------------
(* tile2panel(k, n): all tiles of column n have been updated by panel k.   *)

\* A variant that waits for the diagonal tile too.
tile2panel_In_long(k, n) == {<<ctl, gemm(k, m, n), ctl>> : m \in k .. mt-1}

tile2panel_In(k, n) == {<<ctl, gemm(k, m, n), ctl>> : m \in k+1 .. mt-1}

tile2panel_Out(k, n) ==
  If(n = k+1, {<<ctl, CORE_zgetrf(k+1), ctl>>})
    \cup If(n > k+1, {<<ctl, swptrsm(k+1, n), ctl>>})
    \cup {<<ctl, swpback(k+1, k), ctl>>}

-----------------------------------------------------------------------------
(* getrf(k, t): the gang factorises panel k.                               *)

CORE_zgetrf_In(k) ==
  If(k # 0, {<<A(0), gemm(k-1, k, k), C>>, <<ctl, tile2panel(k-1, k), ctl>>})
    \cup {<<P, IPIV_in(k), P>>}

CORE_zgetrf_Load(k) ==
  If(k = 0, {<<A(0), <<k, k>>>>}) \cup {<<A(i), <<k+i, k>>>> : i \in 1 .. mt-1-k}

CORE_zgetrf_Out(k) ==
  UNION {{<<A(0), getrf(k, t), A(0)>>, <<P, getrf(k, t), P>>} : t \in 0 .. nbthreads(k)}

CORE_zgetrf_Body(k) ==
  {<<A(i), "RW", <<k+i, k>>>> : i \in 0 .. mt-1-k} \cup {<<P, "RW", IPIV(k)>>}

getrf_In(k, t) == {<<A(0), CORE_zgetrf(k), A(0)>>, <<P, CORE_zgetrf(k), P>>}

getrf_Load(k, t) == {<<A(i), <<k+i, k>>>> : i \in OwnTiles(k, t) \ {0}}

getrf_Out(k, t) ==
  If(t = 0,
     {<<A(0), swptrsm(k, n), A(0)>> : n \in k+1 .. nt-1}
       \cup {<<P, IPIV_out(k), P>>}
       \cup {<<P, swptrsm(k, n), P>> : n \in k+1 .. nt-1}
       \cup {<<P, swpback(k, n), P>> : n \in 0 .. k-1}
       \cup {<<ctl, GEMM_A_in(k, m), ctl>> : m \in k+1 .. mt-1})

getrf_Store(k, t) == If(t = 0, {<<A(0), <<k, k>>>>})

getrf_Body(k, t) ==
  {<<A(i), "RW", <<k+i, k>>>> : i \in OwnTiles(k, t)} \cup {<<P, "READ", IPIV(k)>>}

-----------------------------------------------------------------------------
(* swptrsm(k, n): swaps the rows of column n, solves tile (k, n).          *)

swptrsm_In(k, n) ==
  {<<A(0), getrf(k, 0), A(0)>>, <<P, getrf(k, 0), P>>}
    \cup If(k # 0, {<<B(0), gemm(k-1, k, n), C>>})
    \cup If(k > 0, {<<ctl, tile2panel(k-1, n), ctl>>})

swptrsm_Load(k, n) ==
  If(k = 0, {<<B(0), <<k, n>>>>}) \cup {<<B(i), <<k+i, n>>>> : i \in 1 .. mt-1-k}

\* A variant that hands the solved tile to the wrong operand.
swptrsm_Out_swapped(k, n) == {<<B(0), gemm(k, m, n), A(0)>> : m \in k+1 .. mt-1}

swptrsm_Out(k, n) == {<<B(0), gemm(k, m, n), B(0)>> : m \in k+1 .. mt-1}

swptrsm_Store(k, n) == {<<B(0), <<k, n>>>>}

swptrsm_Body(k, n) ==
  {<<A(0), "READ", <<k, k>>>>, <<P, "READ", IPIV(k)>>}
    \cup {<<B(i), "RW", <<k+i, n>>>> : i \in 0 .. mt-1-k}

-----------------------------------------------------------------------------
(* GEMM_A_in(k, m): reads tile (m, k) of the panel for all its users.      *)

GEMM_A_in_In(k, m) ==
  If(k # 0, {<<A(0), gemm(k-1, m, k), C>>}) \cup {<<ctl, getrf(k, 0), ctl>>}

GEMM_A_in_Load(k, m) == If(k = 0, {<<A(0), <<m, k>>>>})

GEMM_A_in_Out(k, m) == {<<A(0), gemm(k, m, n), A(0)>> : n \in k+1 .. nt-1}

GEMM_A_in_Body(k, m) == {<<A(0), "READ", <<m, k>>>>}

-----------------------------------------------------------------------------
(* gemm(k, m, n): updates tile (m, n).                                     *)

gemm_In(k, m, n) ==
  {<<A(0), GEMM_A_in(k, m), A(0)>>, <<B(0), swptrsm(k, n), B(0)>>}
    \cup If(k # 0, {<<C, gemm(k-1, m, n), C>>})

gemm_Load(k, m, n) == If(k = 0, {<<C, <<m, n>>>>})

gemm_Out(k, m, n) ==
  If(k+1 = n /\ k+1 = m, {<<C, CORE_zgetrf(k+1), A(0)>>})
    \cup If(k+1 = n /\ k+1 < m, {<<C, GEMM_A_in(k+1, m), A(0)>>})
    \cup If(k+1 < n /\ k+1 = m, {<<C, swptrsm(k+1, n), B(0)>>})
    \cup If(k+1 < n /\ k+1 < m, {<<C, gemm(k+1, m, n), C>>})
    \cup If(k < KT, {<<ctl, tile2panel(k, n), ctl>>})

\* A variant that asks for its tile of L to write.
gemm_Body_rw(k, m, n) ==
  {<<A(0), "RW", <<m, k>>>>, <<B(0), "READ", <<k, n>>>>, <<C, "RW", <<m, n>>>>}

gemm_Body(k, m, n) ==
  {<<A(0), "READ", <<m, k>>>>, <<B(0), "READ", <<k, n>>>>, <<C, "RW", <<m, n>>>>}

-----------------------------------------------------------------------------
(* swpback(k, n): swaps the rows of a column to the left.                  *)

swpback_In(k, n) ==
  {<<P, getrf(k, 0), P>>}
    \cup If(n = k-1, {<<ctl, tile2panel(n, x), ctl>> : x \in k .. nt-1})
    \cup If(n < k-1, {<<ctl2, swpback(k-1, n), ctl2>>})

swpback_Load(k, n) == {<<A(i), <<k+i, n>>>> : i \in 0 .. mt-1-k}

swpback_Out(k, n) == If(k < KT, {<<ctl2, swpback(k+1, n), ctl2>>})

swpback_Store(k, n) == {<<A(0), <<k, n>>>>}

swpback_Body(k, n) ==
  {<<A(i), "RW", <<k+i, n>>>> : i \in 0 .. mt-1-k} \cup {<<P, "READ", IPIV(k)>>}

-----------------------------------------------------------------------------
(* The graph, by class.                                                    *)

Affinity(t) ==
  CASE t[1] \in {"IPIV_in", "IPIV_out"}  -> IPIV(t[2])
    [] t[1] = "tile2panel"               -> <<t[2] + 1, t[3]>>
    [] t[1] \in {"CORE_zgetrf", "getrf"} -> <<t[2], t[2]>>
    [] t[1] \in {"swptrsm", "swpback"}   -> <<t[2], t[3]>>
    [] t[1] = "GEMM_A_in"                -> <<t[3], t[2]>>
    [] t[1] = "gemm"                     -> <<t[3], t[4]>>

In(t) ==
  CASE t[1] = "IPIV_in"     -> {}
    [] t[1] = "IPIV_out"    -> IPIV_out_In(t[2])
    [] t[1] = "tile2panel"  -> tile2panel_In(t[2], t[3])
    [] t[1] = "CORE_zgetrf" -> CORE_zgetrf_In(t[2])
    [] t[1] = "getrf"       -> getrf_In(t[2], t[3])
    [] t[1] = "swptrsm"     -> swptrsm_In(t[2], t[3])
    [] t[1] = "GEMM_A_in"   -> GEMM_A_in_In(t[2], t[3])
    [] t[1] = "gemm"        -> gemm_In(t[2], t[3], t[4])
    [] t[1] = "swpback"     -> swpback_In(t[2], t[3])

Out(t) ==
  CASE t[1] = "IPIV_in"     -> IPIV_in_Out(t[2])
    [] t[1] = "IPIV_out"    -> {}
    [] t[1] = "tile2panel"  -> tile2panel_Out(t[2], t[3])
    [] t[1] = "CORE_zgetrf" -> CORE_zgetrf_Out(t[2])
    [] t[1] = "getrf"       -> getrf_Out(t[2], t[3])
    [] t[1] = "swptrsm"     -> swptrsm_Out(t[2], t[3])
    [] t[1] = "GEMM_A_in"   -> GEMM_A_in_Out(t[2], t[3])
    [] t[1] = "gemm"        -> gemm_Out(t[2], t[3], t[4])
    [] t[1] = "swpback"     -> swpback_Out(t[2], t[3])

Load(t) ==
  CASE t[1] = "IPIV_in"     -> IPIV_in_Load(t[2])
    [] t[1] = "CORE_zgetrf" -> CORE_zgetrf_Load(t[2])
    [] t[1] = "getrf"       -> getrf_Load(t[2], t[3])
    [] t[1] = "swptrsm"     -> swptrsm_Load(t[2], t[3])
    [] t[1] = "GEMM_A_in"   -> GEMM_A_in_Load(t[2], t[3])
    [] t[1] = "gemm"        -> gemm_Load(t[2], t[3], t[4])
    [] t[1] = "swpback"     -> swpback_Load(t[2], t[3])
    [] OTHER                -> {}

Store(t) ==
  CASE t[1] = "IPIV_out"    -> IPIV_out_Store(t[2])
    [] t[1] = "getrf"       -> getrf_Store(t[2], t[3])
    [] t[1] = "swptrsm"     -> swptrsm_Store(t[2], t[3])
    [] t[1] = "swpback"     -> swpback_Store(t[2], t[3])
    [] OTHER                -> {}

Operands(t) ==
  CASE t[1] \in {"IPIV_in", "IPIV_out"} -> IPIV_Body(t[2])
    [] t[1] = "tile2panel"  -> {}
    [] t[1] = "CORE_zgetrf" -> CORE_zgetrf_Body(t[2])
    [] t[1] = "getrf"       -> getrf_Body(t[2], t[3])
    [] t[1] = "swptrsm"     -> swptrsm_Body(t[2], t[3])
    [] t[1] = "GEMM_A_in"   -> GEMM_A_in_Body(t[2], t[3])
    [] t[1] = "gemm"        -> gemm_Body(t[2], t[3], t[4])
    [] t[1] = "swpback"     -> swpback_Body(t[2], t[3])

-----------------------------------------------------------------------------
(* The sequential algorithm, in updates of a tile: every panel k swaps the *)
(* rows of the tile and updates it (a tile of row k is solved, which is    *)
(* one update with the swap); the tiles of the panel itself are factorised *)
(* and then divided by the last pivot; every later panel swaps them again. *)

Final(k)      == 2 * k + 2  \* a tile of panel k
Swapped(k)    == 2 * k + 1  \* a tile to the right of panel k, or of U
Untouched(k)  == 2 * k      \* a tile before step k
SwappedBack(k, n) == Final(n) + k - (n + 1)  \* a tile of panel n < k before step k

Expect(t, x) ==
  LET k == t[2]
  IN  CASE x = IPIV(k) -> IF t[1] \in {"IPIV_in", "CORE_zgetrf"} THEN 0 ELSE 1
        [] x # IPIV(k) /\ t[1] = "swpback" -> SwappedBack(k, t[3])
        [] x # IPIV(k) /\ t[1] = "CORE_zgetrf" -> Untouched(k)
        [] x # IPIV(k) /\ t[1] = "getrf" -> Swapped(k)
        [] x # IPIV(k) /\ t[1] = "swptrsm" -> IF x[2] = k THEN Final(k) ELSE Untouched(k)
        [] x # IPIV(k) /\ t[1] \in {"GEMM_A_in", "gemm"} -> IF x[2] = k THEN Final(k) ELSE Swapped(k)

INSTANCE TaskRuntime

\* "On exit, the factors L and U from the factorization": a product updates the
\* matrix with a tile of L and a tile of U that are complete, for as long as it
\* runs, however many threads the gang of the panel has.
ProductsOfFactors ==
  \A t \in {u \in Tasks : u[1] = "gemm" /\ stage[u] = "running"} :
    \A o \in Operands(t) : \A c \in Bound(t, o[1]) : val[c] = <<o[3], Expect(t, o[3])>>
=============================================================================
