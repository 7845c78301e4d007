-------------------------------- MODULE zlauum_L --------------------------------
(***************************************************************************)
(* The product L^H * L in place, src/zlauum_L.jdf, the last step of the    *)
(* inverse of a positive definite matrix.  Tile (m, n) of the result needs *)
(* the original tiles of the rows m and below; a tile is overwritten while *)
(* others are still to be computed from its original, so every reader of   *)
(* an original is ordered before the first update of the tile by a CTL     *)
(* arrow, and by nothing else: on its own process readA hands out the      *)
(* tile of the collection itself.                                          *)
(*                                                                         *)
(* CTL inputs are counted, whatever flow they come by, and ctl0 .. ctl3    *)
(* are one flow "ctl" here.  The file relies on it: the outputs ctl1 and   *)
(* ctl2 of lauum_zgemm and the inputs of lauum_ztrmm they are meant for    *)
(* have each other's names.                                                *)
(***************************************************************************)
EXTENDS Integers

CONSTANTS
  mt,          \* descA->mt
  rank_of(_)   \* descA->rank_of, the process that owns tile <<m, n>>

ASSUME mtAssumption == mt \in Nat \ {0}

VARIABLES stage, released, inflight, val

-----------------------------------------------------------------------------
(* Tasks and their execution spaces.                                       *)

readA(m, n)          == <<"readA", m, n>>
lauum_zherk(k, n)    == <<"lauum_zherk", k, n>>
lauum_zgemm(k, n, m) == <<"lauum_zgemm", k, n, m>>
lauum_ztrmm(k, n)    == <<"lauum_ztrmm", k, n>>
lauum_zlauum(k)      == <<"lauum_zlauum", k>>

Is_readA(m, n)    == m \in 0 .. mt-1 /\ n \in 0 .. m
Is_zherk(k, n)    == k \in 1 .. mt-1 /\ n \in 0 .. k-1
Is_zgemm(k, n, m) == k \in 2 .. mt-1 /\ n \in 0 .. k-2 /\ m \in n+1 .. k-1
Is_ztrmm(k, n)    == k \in 1 .. mt-1 /\ n \in 0 .. k-1
Is_zlauum(k)      == k \in 0 .. mt-1

AllReadA  == UNION {{readA(m, n) : n \in 0 .. m} : m \in 0 .. mt-1}
AllZherk  == UNION {{lauum_zherk(k, n) : n \in 0 .. k-1} : k \in 1 .. mt-1}
AllZgemm  == UNION {UNION {{lauum_zgemm(k, n, m) : m \in n+1 .. k-1} :
                             n \in 0 .. k-2} : k \in 2 .. mt-1}
AllZtrmm  == UNION {{lauum_ztrmm(k, n) : n \in 0 .. k-1} : k \in 1 .. mt-1}
AllZlauum == {lauum_zlauum(k) : k \in 0 .. mt-1}
Tasks     == AllReadA \cup AllZherk \cup AllZgemm \cup AllZtrmm \cup AllZlauum

Tiles == {x \in (0 .. mt-1) \X (0 .. mt-1) : x[2] <= x[1]}

If(guard, deps) == {d \in deps : guard}  \* "(guard) ? dependency"

-----------------------------------------------------------------------------
(* readA(m, n): hands out the original of tile (m, n).                     *)

readA_Affinity(m, n) == <<m, n>>

readA_Load(m, n) == {<<"A", <<m, n>>>>}

\* A variant that gives the products of column n the tile as their other operand.
readA_Out_exchanged(m, n) ==
  If(m = n, {<<"A", lauum_zlauum(m), "A">>})
    \cup If(m = n /\ m > 0, {<<"A", lauum_ztrmm(n, i), "A">> : i \in 0 .. n-1})
    \cup If(m > n, {<<"A", lauum_zherk(m, n), "A">>, <<"A", lauum_ztrmm(m, n), "B">>})
    \cup If(m > n /\ n > 0, {<<"A", lauum_zgemm(m, i, n), "A">> : i \in 0 .. n-1})
    \cup If(m > n+1, {<<"A", lauum_zgemm(m, n, i), "A">> : i \in n+1 .. m-1})

readA_Out(m, n) ==
  If(m = n, {<<"A", lauum_zlauum(m), "A">>})
    \cup If(m = n /\ m > 0, {<<"A", lauum_ztrmm(n, i), "A">> : i \in 0 .. n-1})
    \cup If(m > n, {<<"A", lauum_zherk(m, n), "A">>, <<"A", lauum_ztrmm(m, n), "B">>})
    \cup If(m > n /\ n > 0, {<<"A", lauum_zgemm(m, i, n), "A">> : i \in 0 .. n-1})
    \cup If(m > n+1, {<<"A", lauum_zgemm(m, n, i), "B">> : i \in n+1 .. m-1})

readA_Body(m, n) == {<<"A", "READ", <<m, n>>>>}

-----------------------------------------------------------------------------
(* lauum_zherk(k, n): updates the diagonal tile (n, n) with row k.         *)

zherk_Affinity(k, n) == <<n, n>>

zherk_In(k, n) ==
  {<<"A", readA(k, n), "A">>}
    \cup If(k = n+1, {<<"C", lauum_zlauum(n), "A">>})
    \cup If(k > n+1, {<<"C", lauum_zherk(k-1, n), "C">>})

\* A variant without the guard of the last row.
zherk_Out_long(k, n) ==
  {<<"ctl", lauum_ztrmm(k, n), "ctl">>, <<"C", lauum_zherk(k+1, n), "C">>}

zherk_Out(k, n) ==
  {<<"ctl", lauum_ztrmm(k, n), "ctl">>}
    \cup If(k < mt-1, {<<"C", lauum_zherk(k+1, n), "C">>})

zherk_Store(k, n) == If(k = mt-1, {<<"C", <<n, n>>>>})

zherk_Body(k, n) == {<<"A", "READ", <<k, n>>>>, <<"C", "RW", <<n, n>>>>}

-----------------------------------------------------------------------------
(* lauum_zgemm(k, n, m): updates tile (m, n) with row k.                   *)

zgemm_Affinity(k, n, m) == <<m, n>>

zgemm_In(k, n, m) ==
  {<<"A", readA(k, m), "A">>, <<"B", readA(k, n), "A">>}
    \cup If(k = m+1, {<<"C", lauum_ztrmm(m, n), "B">>})
    \cup If(k > m+1, {<<"C", lauum_zgemm(k-1, n, m), "C">>})

zgemm_Out(k, n, m) ==
  {<<"ctl", lauum_ztrmm(k, m), "ctl">>, <<"ctl", lauum_ztrmm(k, n), "ctl">>}
    \cup If(k < mt-1, {<<"C", lauum_zgemm(k+1, n, m), "C">>})

zgemm_Store(k, n, m) == If(k = mt-1, {<<"C", <<m, n>>>>})

\* A variant with the operands of the product exchanged.
zgemm_Body_exchanged(k, n, m) ==
  {<<"A", "READ", <<k, n>>>>, <<"B", "READ", <<k, m>>>>, <<"C", "RW", <<m, n>>>>}

zgemm_Body(k, n, m) ==
  {<<"A", "READ", <<k, m>>>>, <<"B", "READ", <<k, n>>>>, <<"C", "RW", <<m, n>>>>}

-----------------------------------------------------------------------------
(* lauum_ztrmm(k, n): multiplies tile (k, n) by the diagonal tile.         *)

ztrmm_Affinity(k, n) == <<k, n>>

\* A variant that forgets the update of the diagonal tile.
ztrmm_In_diagonal(k, n) ==
  {<<"A", readA(k, k), "A">>, <<"B", readA(k, n), "A">>}
    \cup {<<"ctl", lauum_zgemm(k, n, m), "ctl">> : m \in n+1 .. k-1}
    \cup {<<"ctl", lauum_zgemm(k, i, n), "ctl">> : i \in 0 .. n-1}

\* A variant with the first range of products one too long.
ztrmm_In_long(k, n) ==
  {<<"A", readA(k, k), "A">>, <<"B", readA(k, n), "A">>, <<"ctl", lauum_zherk(k, n), "ctl">>}
    \cup {<<"ctl", lauum_zgemm(k, n, m), "ctl">> : m \in n+1 .. k}
    \cup {<<"ctl", lauum_zgemm(k, i, n), "ctl">> : i \in 0 .. n-1}

ztrmm_In(k, n) ==
  {<<"A", readA(k, k), "A">>, <<"B", readA(k, n), "A">>, <<"ctl", lauum_zherk(k, n), "ctl">>}
    \cup {<<"ctl", lauum_zgemm(k, n, m), "ctl">> : m \in n+1 .. k-1}
    \cup {<<"ctl", lauum_zgemm(k, i, n), "ctl">> : i \in 0 .. n-1}

ztrmm_Out(k, n) ==
  {<<"ctl", lauum_zlauum(k), "ctl">>}
    \cup If(k < mt-1, {<<"B", lauum_zgemm(k+1, n, k), "C">>})

ztrmm_Store(k, n) == If(k = mt-1, {<<"B", <<k, n>>>>})

ztrmm_Body(k, n) == {<<"A", "READ", <<k, k>>>>, <<"B", "RW", <<k, n>>>>}

-----------------------------------------------------------------------------
(* lauum_zlauum(k): the product of the diagonal tile.                      *)

zlauum_Affinity(k) == <<k, k>>

zlauum_In(k) ==
  {<<"A", readA(k, k), "A">>} \cup {<<"ctl", lauum_ztrmm(k, n), "ctl">> : n \in 0 .. k-1}

zlauum_Out(k) == If(k < mt-1, {<<"A", lauum_zherk(k+1, k), "C">>})

zlauum_Store(k) == If(k = mt-1, {<<"A", <<k, k>>>>})

zlauum_Body(k) == {<<"A", "RW", <<k, k>>>>}

-----------------------------------------------------------------------------
(* The graph, by class.                                                    *)

Affinity(t) ==
  CASE t[1] = "readA"        -> readA_Affinity(t[2], t[3])
    [] t[1] = "lauum_zherk"  -> zherk_Affinity(t[2], t[3])
    [] t[1] = "lauum_zgemm"  -> zgemm_Affinity(t[2], t[3], t[4])
    [] t[1] = "lauum_ztrmm"  -> ztrmm_Affinity(t[2], t[3])
    [] t[1] = "lauum_zlauum" -> zlauum_Affinity(t[2])

In(t) ==
  CASE t[1] = "lauum_zherk"  -> zherk_In(t[2], t[3])
    [] t[1] = "lauum_zgemm"  -> zgemm_In(t[2], t[3], t[4])
    [] t[1] = "lauum_ztrmm"  -> ztrmm_In(t[2], t[3])
    [] t[1] = "lauum_zlauum" -> zlauum_In(t[2])
    [] OTHER                 -> {}

Out(t) ==
  CASE t[1] = "readA"        -> readA_Out(t[2], t[3])
    [] t[1] = "lauum_zherk"  -> zherk_Out(t[2], t[3])
    [] t[1] = "lauum_zgemm"  -> zgemm_Out(t[2], t[3], t[4])
    [] t[1] = "lauum_ztrmm"  -> ztrmm_Out(t[2], t[3])
    [] t[1] = "lauum_zlauum" -> zlauum_Out(t[2])

Load(t) == IF t[1] = "readA" THEN readA_Load(t[2], t[3]) ELSE {}

Store(t) ==
  CASE t[1] = "lauum_zherk"  -> zherk_Store(t[2], t[3])
    [] t[1] = "lauum_zgemm"  -> zgemm_Store(t[2], t[3], t[4])
    [] t[1] = "lauum_ztrmm"  -> ztrmm_Store(t[2], t[3])
    [] t[1] = "lauum_zlauum" -> zlauum_Store(t[2])
    [] OTHER                 -> {}

Operands(t) ==
  CASE t[1] = "readA"        -> readA_Body(t[2], t[3])
    [] t[1] = "lauum_zherk"  -> zherk_Body(t[2], t[3])
    [] t[1] = "lauum_zgemm"  -> zgemm_Body(t[2], t[3], t[4])
    [] t[1] = "lauum_ztrmm"  -> ztrmm_Body(t[2], t[3])
    [] t[1] = "lauum_zlauum" -> zlauum_Body(t[2])

-----------------------------------------------------------------------------
(* Tile (m, n) is multiplied by the diagonal tile of its row m, and then    *)
(* gets the product of every row k > m: row k finds version k - m.  A tile  *)
(* that is only read is the original, version 0.                            *)

Updates(t) == \E o \in Operands(t) : o[2] = "RW"

\* The row of the factor with which t updates its tile.
Row(t) == t[2]

Expect(t, x) == IF Updates(t) /\ x = Affinity(t) THEN Row(t) - x[1] ELSE 0

\* The order the arrows enforce: readA, then the readers of the original, then
\* the updates of the tile row by row.
Precedes(t, u) ==
  \/ Updates(t) /\ Updates(u) /\ Affinity(t) = Affinity(u) /\ Row(t) < Row(u)
  \/ /\ t # u /\ Updates(u) /\ ~(Updates(t) /\ Affinity(t) = Affinity(u))
     /\ \E o \in Operands(t) : o[3] = Affinity(u)

INSTANCE OwnerComputes WITH Before <- Precedes
=============================================================================
