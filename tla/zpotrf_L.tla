------------------------------- MODULE zpotrf_L -------------------------------
(***************************************************************************)
(* The tile Cholesky factorisation of the lower triangle, src/zpotrf_L.jdf:*)
(* four task classes over a matrix of mt x mt tiles, each task placed on   *)
(* the tile it updates.  The graph is written as the JDF writes it, one    *)
(* _In / _Out / _Body operator per class with a conjunct per arrow; the    *)
(* runtime that executes it is TaskRuntime.                                *)
(***************************************************************************)
EXTENDS Integers

CONSTANTS
  mt,          \* descA->mt, the number of tile rows
  rank_of(_)   \* descA->rank_of, the process that owns tile <<m, n>>

ASSUME mtAssumption == mt \in Nat \ {0}

VARIABLES stage, released, inflight, val

-----------------------------------------------------------------------------
(* Tasks and their execution spaces.                                       *)

potrf_zpotrf(k)      == <<"potrf_zpotrf", k>>
potrf_ztrsm(m, k)    == <<"potrf_ztrsm", m, k>>
potrf_zherk(k, m)    == <<"potrf_zherk", k, m>>
potrf_zgemm(m, n, k) == <<"potrf_zgemm", m, n, k>>

Is_zpotrf(k)      == k \in 0 .. mt-1
Is_ztrsm(m, k)    == m \in 1 .. mt-1 /\ k \in 0 .. m-1
Is_zherk(k, m)    == k \in 0 .. mt-2 /\ m \in k+1 .. mt-1
Is_zgemm(m, n, k) == k \in 0 .. mt-3 /\ m \in k+2 .. mt-1 /\ n \in k+1 .. m-1

AllZpotrf == {potrf_zpotrf(k) : k \in 0 .. mt-1}
AllZtrsm  == UNION {{potrf_ztrsm(m, k) : k \in 0 .. m-1} : m \in 1 .. mt-1}
AllZherk  == UNION {{potrf_zherk(k, m) : m \in k+1 .. mt-1} : k \in 0 .. mt-2}
AllZgemm  == UNION {UNION {{potrf_zgemm(m, n, k) : n \in k+1 .. m-1} :
                             m \in k+2 .. mt-1} : k \in 0 .. mt-3}
Tasks     == AllZpotrf \cup AllZtrsm \cup AllZherk \cup AllZgemm

Tiles == {x \in (0 .. mt-1) \X (0 .. mt-1) : x[2] <= x[1]}

If(guard, deps) == {d \in deps : guard}  \* "(guard) ? dependency"

-----------------------------------------------------------------------------
(* potrf_zpotrf(k): factorises the diagonal tile.                          *)

zpotrf_Affinity(k) == <<k, k>>

zpotrf_In(k) == If(k # 0, {<<"T", potrf_zherk(k-1, k), "T">>})

zpotrf_Load(k) == If(k = 0, {<<"T", <<k, k>>>>})

\* Variants with the range of the panel one too long, one too short.
zpotrf_Out_long(k)  == {<<"T", potrf_ztrsm(m, k), "T">> : m \in k+1 .. mt}
zpotrf_Out_short(k) == {<<"T", potrf_ztrsm(m, k), "T">> : m \in k+1 .. mt-2}

zpotrf_Out(k) == {<<"T", potrf_ztrsm(m, k), "T">> : m \in k+1 .. mt-1}

zpotrf_Store(k) == {<<"T", <<k, k>>>>}

zpotrf_Body(k) == {<<"T", "RW", <<k, k>>>>}

-----------------------------------------------------------------------------
(* potrf_ztrsm(m, k): solves tile (m, k) of the panel.                     *)

ztrsm_Affinity(m, k) == <<m, k>>

ztrsm_In(m, k) ==
  {<<"T", potrf_zpotrf(k), "T">>}
    \cup If(k # 0, {<<"C", potrf_zgemm(m, k, k-1), "C">>})

ztrsm_Load(m, k) == If(k = 0, {<<"C", <<m, k>>>>})

ztrsm_Out(m, k) ==
  {<<"C", potrf_zherk(k, m), "A">>}
    \cup {<<"C", potrf_zgemm(m, n, k), "A">> : n \in k+1 .. m-1}
    \cup {<<"C", potrf_zgemm(i, m, k), "B">> : i \in m+1 .. mt-1}

ztrsm_Store(m, k) == {<<"C", <<m, k>>>>}

\* A variant with the two tiles of the solve exchanged.
ztrsm_Body_swapped(m, k) == {<<"T", "RW", <<k, k>>>>, <<"C", "READ", <<m, k>>>>}

ztrsm_Body(m, k) == {<<"T", "READ", <<k, k>>>>, <<"C", "RW", <<m, k>>>>}

-----------------------------------------------------------------------------
(* potrf_zherk(k, m): updates the diagonal tile (m, m) with panel k.       *)

\* A variant placed on the diagonal tile of the panel.
zherk_Affinity_panel(k, m) == <<k, k>>

zherk_Affinity(k, m) == <<m, m>>

zherk_In(k, m) ==
  {<<"A", potrf_ztrsm(m, k), "C">>}
    \cup If(k # 0, {<<"T", potrf_zherk(k-1, m), "T">>})

zherk_Load(k, m) == If(k = 0, {<<"T", <<m, m>>>>})

\* A variant that skips the remaining updates of the diagonal tile.
zherk_Out_early(k, m) == {<<"T", potrf_zpotrf(m), "T">>}

zherk_Out(k, m) ==
  If(m = k+1, {<<"T", potrf_zpotrf(m), "T">>})
    \cup If(m # k+1, {<<"T", potrf_zherk(k+1, m), "T">>})

zherk_Body(k, m) == {<<"A", "READ", <<m, k>>>>, <<"T", "RW", <<m, m>>>>}

-----------------------------------------------------------------------------
(* potrf_zgemm(m, n, k): updates tile (m, n) with panel k.                 *)

zgemm_Affinity(m, n, k) == <<m, n>>

zgemm_In(m, n, k) ==
  {<<"A", potrf_ztrsm(m, k), "C">>, <<"B", potrf_ztrsm(n, k), "C">>}
    \cup If(k # 0, {<<"C", potrf_zgemm(m, n, k-1), "C">>})

\* A variant with the guard of the memory reference the wrong way round.
zgemm_Load_swapped(m, n, k) == If(k # 0, {<<"C", <<m, n>>>>})

zgemm_Load(m, n, k) == If(k = 0, {<<"C", <<m, n>>>>})

zgemm_Out(m, n, k) ==
  If(n = k+1, {<<"C", potrf_ztrsm(m, n), "C">>})
    \cup If(n # k+1, {<<"C", potrf_zgemm(m, n, k+1), "C">>})

zgemm_Body(m, n, k) ==
  {<<"A", "READ", <<m, k>>>>, <<"B", "READ", <<n, k>>>>, <<"C", "RW", <<m, n>>>>}

-----------------------------------------------------------------------------
(* The graph, by class.                                                    *)

Affinity(t) ==
  CASE t[1] = "potrf_zpotrf" -> zpotrf_Affinity(t[2])
    [] t[1] = "potrf_ztrsm"  -> ztrsm_Affinity(t[2], t[3])
    [] t[1] = "potrf_zherk"  -> zherk_Affinity(t[2], t[3])
    [] t[1] = "potrf_zgemm"  -> zgemm_Affinity(t[2], t[3], t[4])

In(t) ==
  CASE t[1] = "potrf_zpotrf" -> zpotrf_In(t[2])
    [] t[1] = "potrf_ztrsm"  -> ztrsm_In(t[2], t[3])
    [] t[1] = "potrf_zherk"  -> zherk_In(t[2], t[3])
    [] t[1] = "potrf_zgemm"  -> zgemm_In(t[2], t[3], t[4])

Out(t) ==
  CASE t[1] = "potrf_zpotrf" -> zpotrf_Out(t[2])
    [] t[1] = "potrf_ztrsm"  -> ztrsm_Out(t[2], t[3])
    [] t[1] = "potrf_zherk"  -> zherk_Out(t[2], t[3])
    [] t[1] = "potrf_zgemm"  -> zgemm_Out(t[2], t[3], t[4])

Load(t) ==
  CASE t[1] = "potrf_zpotrf" -> zpotrf_Load(t[2])
    [] t[1] = "potrf_ztrsm"  -> ztrsm_Load(t[2], t[3])
    [] t[1] = "potrf_zherk"  -> zherk_Load(t[2], t[3])
    [] t[1] = "potrf_zgemm"  -> zgemm_Load(t[2], t[3], t[4])

Store(t) ==
  CASE t[1] = "potrf_zpotrf" -> zpotrf_Store(t[2])
    [] t[1] = "potrf_ztrsm"  -> ztrsm_Store(t[2], t[3])
    [] OTHER                 -> {}

Operands(t) ==
  CASE t[1] = "potrf_zpotrf" -> zpotrf_Body(t[2])
    [] t[1] = "potrf_ztrsm"  -> ztrsm_Body(t[2], t[3])
    [] t[1] = "potrf_zherk"  -> zherk_Body(t[2], t[3])
    [] t[1] = "potrf_zgemm"  -> zgemm_Body(t[2], t[3], t[4])

-----------------------------------------------------------------------------
(* The sequential algorithm updates tile (m, n) once with every panel k < n*)
(* and then with its own panel n: the update of panel k finds version k,   *)
(* and a tile that is only read is final, at version n + 1.                *)

Panel(t) ==
  CASE t[1] = "potrf_zpotrf" -> t[2]
    [] t[1] = "potrf_ztrsm"  -> t[3]
    [] t[1] = "potrf_zherk"  -> t[2]
    [] t[1] = "potrf_zgemm"  -> t[4]

Expect(t, x) ==
  IF \E o \in Operands(t) : o[2] = "RW" /\ o[3] = x THEN Panel(t) ELSE x[2] + 1

\* The order the arrows enforce: the updates of a tile follow each other, and
\* a task that reads the tile of another task comes after all its updates.
Precedes(t, u) ==
  \/ Affinity(t) = Affinity(u) /\ Panel(t) < Panel(u)
  \/ \E o \in Operands(u) : o[3] # Affinity(u) /\ o[3] = Affinity(t)

INSTANCE OwnerComputes WITH Before <- Precedes

-----------------------------------------------------------------------------
\* The home copies of the tiles are a tile Cholesky factorisation.
Cholesky == INSTANCE TiledCholesky WITH version <- [x \in Tiles |-> val[Home(x)][2]]

\* Whatever the interleaving of threads and messages, the tiles in the
\* collection go through the steps of TiledCholesky and no other: every kernel
\* takes effect as if it ran alone on final panels.
ImplementsTiledCholesky == Cholesky!Spec
=============================================================================
