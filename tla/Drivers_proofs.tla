---------------------------- MODULE Drivers_proofs ----------------------------
(***************************************************************************)
(* The drivers for any calls, matrices, grids and bodies: what the run     *)
(* drivers checks of the status and of the table of one factorization      *)
(* holds in every routine that uses it, the processes of a call stay       *)
(* together (DriversStayTogether) and a call that fails early leaves the   *)
(* right-hand side alone (RejectedCallsStop).                              *)
(*                                                                         *)
(* A step of a driver is a step of the factorization and of the table, or  *)
(* leaves them alone (StepsOfParts), so their invariants carry over.  On   *)
(* top of them stands Course: a process that has passed a branch has       *)
(* passed it with the status all others will test (Verdict), and where one *)
(* process is behind another, all operations between them reject, are the  *)
(* reduced factorization, or are skipped by a branch.                      *)
(*                                                                         *)
(* What a legal call computes (DriversSolve) rests on its Trail: what A    *)
(* and B hold before each of its operations and behind the last.  Every    *)
(* operation takes one of these contents to the next (Link), and the last  *)
(* are the result (Route, driver by driver: AllRoutes).  The processes are *)
(* on the trail (Words), unless a zero pivot of an LU factorization has    *)
(* parted them; nobody writes to B before dplasma_zpotrf has ended         *)
(* everywhere (Waiting).                                                   *)
(***************************************************************************)
EXTENDS Drivers, dplasma_lapack_adtt_proofs, SequenceTheorems

-----------------------------------------------------------------------------
(* The status of the Cholesky factorization on its own (zpotrf_INFO): it    *)
(* never precedes the first minor that is not positive definite, whichever  *)
(* bodies ran; and, with the sequential bodies only, it is 0 exactly for    *)
(* the positive definite matrices.                                          *)

(* Arithmetic.                                                              *)

LEMMA DivIs ==
  ASSUME NEW a \in Nat, NEW b \in Nat \ {0}, NEW c \in Nat
  PROVE  a \div b = c <=> c * b <= a /\ a < c * b + b
  BY SMTT(60)

LEMMA DivTyped == ASSUME NEW a \in Nat, NEW b \in Nat \ {0} PROVE a \div b \in Nat
  OBVIOUS

LEMMA ModTyped == ASSUME NEW a \in Nat, NEW b \in Nat \ {0} PROVE a % b \in 0 .. b - 1
  OBVIOUS

LEMMA Grow ==
  ASSUME NEW a \in Nat, NEW b \in Nat, NEW c \in Nat, a <= b
  PROVE  a * c <= b * c
  OBVIOUS

LEMMA ProductTyped == ASSUME NEW a \in Nat, NEW b \in Nat PROVE a * b \in Nat
  OBVIOUS

LEMMA OneMore == ASSUME NEW a \in Nat, NEW b \in Nat PROVE (a + 1) * b = a * b + b
  OBVIOUS

(* Row p and column q of a P-by-Q grid have a rank below P*Q.              *)
LEMMA RankBound ==
  ASSUME NEW p \in 0 .. P - 1, NEW q \in 0 .. Q - 1
  PROVE  Q * p + q \in 0 .. P * Q - 1
<1>1. p \in Nat /\ q \in Nat /\ P \in Nat /\ Q \in Nat /\ p + 1 <= P BY GridAssumption
<1>2. (p + 1) * Q <= P * Q BY <1>1, Grow
<1>3. (p + 1) * Q = p * Q + Q BY <1>1, OneMore
<1>4. p * Q = Q * p /\ Q * p \in Nat /\ P * Q \in Nat BY <1>1
<1> QED BY <1>1, <1>2, <1>3, <1>4

LEMMA RankTyped == ASSUME NEW x \in Nat PROVE rank_of(x) \in Nodes
<1>1. x % P \in 0 .. P - 1 /\ x % Q \in 0 .. Q - 1 BY GridAssumption, ModTyped
<1> QED BY <1>1, RankBound DEF rank_of, Nodes

(* The largest of a set, when it has one.                                  *)
LEMMA MaxIs ==
  ASSUME NEW S, NEW x \in S, \A y \in S : x >= y
  PROVE  Max(S) \in S /\ \A y \in S : Max(S) >= y
  BY DEF Max

-----------------------------------------------------------------------------
(* The largest INFO; Record raises one INFO at a time, so there is one.    *)
HasMax == \E n \in Nodes : \A p \in Nodes : INFO[n] >= INFO[p]

LEMMA ginfoIs ==
  ASSUME HasMax
  PROVE  (\E n \in Nodes : ginfo = INFO[n]) /\ \A p \in Nodes : ginfo >= INFO[p]
<1> DEFINE S == {INFO[n] : n \in Nodes}
<1>1. PICK n \in Nodes : \A p \in Nodes : INFO[n] >= INFO[p] BY DEF HasMax
<1>2. INFO[n] \in S /\ \A y \in S : INFO[n] >= y BY <1>1
<1>3. Max(S) \in S /\ \A y \in S : Max(S) >= y BY <1>2, MaxIs
<1> QED BY <1>3 DEF ginfo

LEMMA RecordRaises ==
  ASSUME NEW old \in Nat, NEW offset \in Nat, NEW iinfo \in Nat
  PROVE  Record(old, offset, iinfo) \in Nat /\ Record(old, offset, iinfo) >= old
  BY DEF Record

LEMMA RaiseKeepsMax ==
  ASSUME INFO \in [Nodes -> Nat], HasMax, NEW r \in Nodes, NEW v \in Nat,
         v >= INFO[r], INFO' = [INFO EXCEPT ![r] = v]
  PROVE  HasMax'
<1>1. PICK n \in Nodes : \A p \in Nodes : INFO[n] >= INFO[p] BY DEF HasMax
<1>2. INFO' \in [Nodes -> Nat] /\ INFO'[r] = v
      /\ \A p \in Nodes : p # r => INFO'[p] = INFO[p]
  OBVIOUS
<1> USE DEF Nodes
<1>3. CASE v >= INFO[n]
  <2>1. \A p \in Nodes : INFO'[r] >= INFO'[p] BY <1>1, <1>2, <1>3
  <2> QED BY <2>1 DEF HasMax
<1>4. CASE ~(v >= INFO[n])
  <2>1. n # r BY <1>4
  <2>2. \A p \in Nodes : INFO'[n] >= INFO'[p] BY <1>1, <1>2, <1>4, <2>1
  <2> QED BY <2>2 DEF HasMax
<1> QED BY <1>3, <1>4

-----------------------------------------------------------------------------
(* What a body says of a block: 0, or an order that is not before the first *)
(* minor that is not positive definite.                                     *)
LEMMA CoreSound ==
  ASSUME minor \in Nat, NEW lo \in Nat, NEW len \in Int, NEW i \in CORE_zpotrf(lo, len)
  PROVE  i \in Nat /\ (i # 0 => minor # 0 /\ lo + i >= minor)
<1>1. CASE minor = 0 \/ minor > lo + len BY <1>1 DEF CORE_zpotrf
<1>2. CASE minor # 0 /\ ~(minor > lo + len) /\ minor > lo BY <1>2 DEF CORE_zpotrf
<1>3. CASE minor # 0 /\ ~(minor > lo + len) /\ ~(minor > lo)
  <2>1. i \in 0 .. len BY <1>3 DEF CORE_zpotrf
  <2> QED BY <1>3, <2>1
<1> QED BY <1>1, <1>2, <1>3

LEMMA Sizes ==
  /\ m \in Nat \ {0} /\ mb \in Nat \ {0}
  /\ mt \in Nat \ {0} /\ m <= mt * mb /\ mt * mb \in Nat
<1>1. m + mb - 1 \in Nat /\ m \in Nat \ {0} /\ mb \in Nat \ {0} BY SizeAssumption
<1>2. mt \in Nat BY <1>1, DivTyped DEF mt
<1>3. mt * mb <= m + mb - 1 /\ m + mb - 1 < mt * mb + mb BY <1>1, <1>2, DivIs DEF mt
<1>4. mt * mb \in Nat BY <1>1, <1>2, ProductTyped
<1>5. mt # 0 BY <1>1, <1>3
<1> QED BY <1>1, <1>2, <1>3, <1>4, <1>5

LEMMA OffsetTyped == ASSUME NEW x \in Nat PROVE x * mb \in Nat /\ tempkm(x) \in Int
<1>1. x * mb \in Nat BY Sizes, ProductTyped
<1> QED BY <1>1, Sizes DEF tempkm

-----------------------------------------------------------------------------
(* Whatever the bodies, an INFO is not before the first minor that is not   *)
(* positive definite: the inductive invariant behind NoFalseAlarm.  What a  *)
(* sub-taskpool reports plays no part in it, as it reaches no INFO.         *)
NotBefore(i) == i # 0 => minor # 0 /\ i >= minor

SoundInv ==
  /\ minor \in Nat /\ k \in Nat
  /\ INFO \in [Nodes -> Nat]
  /\ HasMax
  /\ \A n \in Nodes : NotBefore(INFO[n])
  /\ result \in [Nodes -> Nat \cup {-1}]
  /\ NoFalseAlarm

LEMMA InitSound == Init => SoundInv
<1> SUFFICES ASSUME Init PROVE SoundInv OBVIOUS
<1>1. minor \in Nat /\ k \in Nat BY Sizes DEF Init
<1>2. INFO \in [Nodes -> Nat] /\ \A n \in Nodes : INFO[n] = 0 BY DEF Init
<1>3. rank_of(0) \in Nodes BY RankTyped
<1>4. HasMax BY <1>2, <1>3 DEF HasMax
<1>5. \A n \in Nodes : NotBefore(INFO[n]) BY <1>2 DEF NotBefore
<1>6. result \in [Nodes -> Nat \cup {-1}] /\ \A n \in Nodes : result[n] = -1 BY DEF Init
<1> QED BY <1>1, <1>2, <1>4, <1>5, <1>6 DEF SoundInv, NoFalseAlarm

(* The one step that writes an INFO.                                        *)
LEMMA ZpotrfSound == SoundInv /\ potrf_zpotrf => SoundInv'
<1> SUFFICES ASSUME SoundInv, potrf_zpotrf PROVE SoundInv' OBVIOUS
<1> DEFINE r == rank_of(k)
<1>0. minor \in Nat /\ k \in Nat /\ INFO \in [Nodes -> Nat] /\ HasMax BY DEF SoundInv
<1>1. k * mb \in Nat /\ tempkm(k) \in Int /\ r \in Nodes BY <1>0, OffsetTyped, RankTyped
<1>2. PICK iinfo \in CORE_zpotrf(k * mb, tempkm(k)) :
        INFO' = [INFO EXCEPT ![r] = Record(INFO[r], k * mb, iinfo)]
  BY DEF potrf_zpotrf
<1>3. iinfo \in Nat /\ (iinfo # 0 => minor # 0 /\ k * mb + iinfo >= minor)
  BY <1>0, <1>1, CoreSound
<1> DEFINE v == Record(INFO[r], k * mb, iinfo)
<1>4. INFO[r] \in Nat BY <1>0, <1>1
<1>5. v \in Nat /\ v >= INFO[r] BY <1>1, <1>3, <1>4, RecordRaises
<1>6. HasMax'
  <2>1. INFO' = [INFO EXCEPT ![r] = v] BY <1>2
  <2> HIDE DEF v, r
  <2> QED BY <1>0, <1>1, <1>5, <2>1, RaiseKeepsMax
<1>7. minor' = minor /\ k' \in Nat /\ result' = result BY <1>0 DEF potrf_zpotrf
<1>8. NotBefore(v)
  <2>1. CASE iinfo # 0 /\ INFO[r] = 0 BY <1>3, <2>1 DEF NotBefore, Record
  <2>2. CASE ~(iinfo # 0 /\ INFO[r] = 0)
    <3>1. v = INFO[r] BY <2>2 DEF Record
    <3> QED BY <1>1, <3>1 DEF SoundInv
  <2> QED BY <2>1, <2>2
<1>9. INFO' \in [Nodes -> Nat]
      /\ \A n \in Nodes : INFO'[n] = v \/ INFO'[n] = INFO[n]
  <2> HIDE DEF v, r
  <2> QED BY <1>0, <1>1, <1>2, <1>5 DEF v
<1>10. \A n \in Nodes : NotBefore(INFO[n])' BY <1>7, <1>8, <1>9 DEF SoundInv, NotBefore
<1>11. NoFalseAlarm' /\ result' \in [Nodes -> Nat \cup {-1}]
  BY <1>7 DEF SoundInv, NoFalseAlarm
<1> QED BY <1>0, <1>6, <1>7, <1>9, <1>10, <1>11 DEF SoundInv

(* The steps of the other bodies leave every INFO alone.                    *)
LEMMA OthersSound ==
  ASSUME SoundInv, UNCHANGED <<minor, INFO, result>>, k' \in Nat PROVE SoundInv'
  BY DEF SoundInv, HasMax, NotBefore, NoFalseAlarm

LEMMA ReturnSound ==
  ASSUME SoundInv, NEW n \in Nodes, Return(n) PROVE SoundInv'
<1>1. UNCHANGED <<minor, k, INFO>> BY DEF Return
<1>2. PICK p \in Nodes : ginfo = INFO[p] BY ginfoIs DEF SoundInv
<1>3. ginfo \in Nat /\ NotBefore(ginfo) BY <1>2 DEF SoundInv
<1>4. result' = [result EXCEPT ![n] = ginfo] BY DEF Return
<1>5. result' \in [Nodes -> Nat \cup {-1}] BY <1>3, <1>4 DEF SoundInv
<1>6. ASSUME NEW q \in Nodes, result'[q] > 0 PROVE minor # 0 /\ result'[q] >= minor
  <2>1. CASE q = n
    <3>1. result'[q] = ginfo BY <1>4, <2>1 DEF SoundInv
    <3> QED BY <1>3, <1>6, <3>1 DEF NotBefore
  <2>2. CASE q # n
    <3>1. result'[q] = result[q] BY <1>4, <2>2 DEF SoundInv
    <3> QED BY <1>6, <3>1 DEF SoundInv, NoFalseAlarm
  <2> QED BY <2>1, <2>2
<1>7. NoFalseAlarm' BY <1>1, <1>6 DEF NoFalseAlarm
<1> QED BY <1>1, <1>5, <1>7 DEF SoundInv, HasMax, NotBefore

LEMMA NextSound == SoundInv /\ [Next]_vars => SoundInv'
<1> SUFFICES ASSUME SoundInv, [Next]_vars PROVE SoundInv' OBVIOUS
<1>0. k \in Nat BY DEF SoundInv
<1>1. CASE potrf_zpotrf BY <1>1, ZpotrfSound
<1>2. CASE potrf_zpotrf_CUDA BY <1>0, <1>2, OthersSound DEF potrf_zpotrf_CUDA
<1>3. CASE potrf_zpotrf_RECURSIVE BY <1>0, <1>3, OthersSound DEF potrf_zpotrf_RECURSIVE
<1>4. CASE sub_zpotrf BY <1>0, <1>4, OthersSound DEF sub_zpotrf
<1>5. CASE zpotrf_recursive_cb BY <1>0, <1>5, OthersSound DEF zpotrf_recursive_cb
<1>6. CASE \E n \in Nodes : Return(n) BY <1>6, ReturnSound
<1>7. CASE UNCHANGED vars BY <1>0, <1>7, OthersSound DEF vars
<1> QED BY <1>1, <1>2, <1>3, <1>4, <1>5, <1>6, <1>7 DEF Next

(* For every matrix, tile size, grid and set of bodies, the order that      *)
(* dplasma_zpotrf returns is that of a leading minor that is really not     *)
(* positive definite.                                                       *)
THEOREM NeverFalseAlarm == Spec => []NoFalseAlarm
<1>1. SoundInv => NoFalseAlarm BY DEF SoundInv
<1> QED BY <1>1, InitSound, NextSound, PTL DEF Spec
-----------------------------------------------------------------------------
(* With the sequential bodies alone the status is exact.  CleanBefore: no   *)
(* INFO is set as long as the failing tile has not been factored.           *)
CleanBefore == minor = 0 \/ k <= FailedTile => \A n \in Nodes : INFO[n] = 0

ExactInv ==
  /\ devices = {"CPU"} /\ sub = -1
  /\ minor \in 0 .. m /\ k \in 0 .. mt
  /\ CleanBefore /\ OwnerKnows
  /\ ZeroIffDefinite

(* The block that holds the first minor that is not positive definite.      *)
LEMMA FailedTileIs ==
  ASSUME minor \in 0 .. m, minor # 0
  PROVE  /\ FailedTile \in 0 .. mt - 1
         /\ FailedTile * mb \in Nat
         /\ FailedTile * mb < minor /\ minor <= FailedTile * mb + mb
<1>1. minor - 1 \in Nat /\ mb \in Nat \ {0} /\ minor \in Nat /\ minor <= m
  BY Sizes
<1>2. FailedTile \in Nat BY <1>1, DivTyped DEF FailedTile
<1>3. FailedTile * mb <= minor - 1 /\ minor - 1 < FailedTile * mb + mb
  BY <1>1, <1>2, DivIs DEF FailedTile
<1>4. FailedTile * mb \in Nat BY <1>1, <1>2, ProductTyped
<1>5. FailedTile < mt
  <2>1. SUFFICES ASSUME ~(FailedTile < mt) PROVE FALSE OBVIOUS
  <2>2. mt <= FailedTile /\ mt \in Nat BY <1>2, <2>1, Sizes
  <2>3. mt * mb <= FailedTile * mb BY <1>1, <1>2, <2>2, Grow
  <2> QED BY <1>1, <1>3, <1>4, <2>3, Sizes
<1> QED BY <1>1, <1>2, <1>3, <1>4, <1>5, Sizes

(* What CORE_zpotrf says of tile k before, at and after the failing one.    *)
LEMMA CoreExact ==
  ASSUME minor \in 0 .. m, k \in 0 .. mt - 1,
         NEW i \in CORE_zpotrf(k * mb, tempkm(k))
  PROVE  /\ minor = 0 \/ k < FailedTile => i = 0
         /\ minor # 0 /\ k = FailedTile => i # 0 /\ k * mb + i = minor
<1>1. m \in Nat /\ mb \in Nat \ {0} /\ k \in Nat /\ k * mb \in Nat /\ mt \in Nat
  BY Sizes, OffsetTyped
<1>2. CASE minor = 0 BY <1>2 DEF CORE_zpotrf
<1>3. CASE minor # 0 /\ k < FailedTile
  <2>1. FailedTile \in Nat /\ k + 1 <= FailedTile /\ k # mt - 1
    BY <1>1, <1>3, FailedTileIs
  <2>2. (k + 1) * mb <= FailedTile * mb BY <1>1, <2>1, Grow
  <2>3. (k + 1) * mb = k * mb + mb BY <1>1, OneMore
  <2>4. FailedTile * mb \in Nat /\ FailedTile * mb < minor BY <1>3, FailedTileIs
  <2>5. tempkm(k) = mb BY <2>1 DEF tempkm
  <2>6. minor > k * mb + tempkm(k) BY <1>1, <2>2, <2>3, <2>4, <2>5
  <2> QED BY <1>1, <1>3, <2>1, <2>6 DEF CORE_zpotrf
<1>4. CASE minor # 0 /\ k = FailedTile
  <2>1. k * mb < minor /\ minor <= k * mb + mb /\ minor <= m BY <1>1, <1>4, FailedTileIs
  <2>2. ~(minor > k * mb + tempkm(k)) BY <1>1, <2>1 DEF tempkm
  <2>3. CORE_zpotrf(k * mb, tempkm(k)) = {minor - k * mb}
    BY <1>1, <1>4, <2>1, <2>2 DEF CORE_zpotrf
  <2>4. i = minor - k * mb BY <2>3
  <2> QED BY <1>1, <1>4, <2>1, <2>4
<1>5. CASE minor # 0 /\ k > FailedTile
  <2>1. FailedTile \in Nat BY <1>5, FailedTileIs
  <2> QED BY <1>1, <1>5, <2>1
<1>6. minor # 0 => FailedTile \in Nat BY FailedTileIs
<1> QED BY <1>1, <1>2, <1>3, <1>4, <1>5, <1>6

LEMMA InitExact == devices = {"CPU"} /\ Init => ExactInv
<1> SUFFICES ASSUME devices = {"CPU"}, Init PROVE ExactInv OBVIOUS
<1>1. minor \in 0 .. m /\ k = 0 /\ k \in 0 .. mt /\ sub = -1 BY Sizes DEF Init
<1>2. CleanBefore BY DEF Init, CleanBefore
<1>3. minor # 0 => FailedTile \in Nat BY <1>1, FailedTileIs
<1>4. OwnerKnows BY <1>1, <1>3 DEF OwnerKnows
<1>5. ZeroIffDefinite BY DEF Init, ZeroIffDefinite
<1> QED BY <1>1, <1>2, <1>4, <1>5 DEF ExactInv

LEMMA ZpotrfExact == SoundInv /\ ExactInv /\ potrf_zpotrf => ExactInv'
<1> SUFFICES ASSUME SoundInv, ExactInv, potrf_zpotrf PROVE ExactInv' OBVIOUS
<1> DEFINE r == rank_of(k)
<1>1. /\ minor \in 0 .. m /\ k \in 0 .. mt - 1 /\ k \in Nat /\ m \in Nat /\ mt \in Nat
      /\ INFO \in [Nodes -> Nat] /\ r \in Nodes /\ k * mb \in Nat
  BY Sizes, RankTyped, OffsetTyped DEF ExactInv, SoundInv, potrf_zpotrf
<1>2. PICK iinfo \in CORE_zpotrf(k * mb, tempkm(k)) :
        INFO' = [INFO EXCEPT ![r] = Record(INFO[r], k * mb, iinfo)]
  BY DEF potrf_zpotrf
<1>3. /\ minor' = minor /\ k' = k + 1 /\ sub' = sub /\ result' = result /\ devices' = devices
      /\ FailedTile' = FailedTile
  BY DEF potrf_zpotrf, FailedTile
<1>4. k' \in 0 .. mt BY <1>1, <1>3
<1>5. /\ minor = 0 \/ k < FailedTile => iinfo = 0
      /\ minor # 0 /\ k = FailedTile => iinfo # 0 /\ k * mb + iinfo = minor
  BY <1>1, CoreExact
<1>6. minor # 0 => FailedTile \in Nat BY <1>1, FailedTileIs
<1>7. ASSUME iinfo = 0 \/ INFO[r] # 0 PROVE INFO' = INFO
  <2>1. Record(INFO[r], k * mb, iinfo) = INFO[r] BY <1>7 DEF Record
  <2> HIDE DEF r
  <2> QED BY <1>1, <1>2, <2>1
<1>8. CASE minor = 0 \/ k < FailedTile
  <2>1. INFO' = INFO BY <1>5, <1>7, <1>8
  <2>2. \A n \in Nodes : INFO[n] = 0 BY <1>1, <1>6, <1>8 DEF ExactInv, CleanBefore
  <2>3. minor # 0 => ~(k' > FailedTile) BY <1>1, <1>3, <1>6, <1>8
  <2> QED BY <1>1, <1>3, <1>4, <2>1, <2>2, <2>3
          DEF ExactInv, CleanBefore, OwnerKnows, ZeroIffDefinite
<1>9. CASE minor # 0 /\ k = FailedTile
  <2>1. INFO[r] = 0 BY <1>1, <1>9 DEF ExactInv, CleanBefore
  <2>2. Record(INFO[r], k * mb, iinfo) = minor BY <1>5, <1>9, <2>1 DEF Record
  <2>3. INFO'[r] = minor
    <3> HIDE DEF r
    <3> QED BY <1>1, <1>2, <2>2
  <2>4. INFO'[rank_of(FailedTile)] = minor BY <1>9, <2>3
  <2>5. ~(k' <= FailedTile) BY <1>1, <1>3, <1>9
  <2>6. OwnerKnows' BY <1>3, <2>4 DEF OwnerKnows, rank_of
  <2>7. CleanBefore' BY <1>3, <1>9, <2>5 DEF CleanBefore
  <2> QED BY <1>3, <1>1, <1>4, <2>6, <2>7 DEF ExactInv, ZeroIffDefinite
<1>10. CASE minor # 0 /\ k > FailedTile
  <2> DEFINE o == rank_of(FailedTile)
  <2>1. INFO[o] = minor BY <1>10 DEF ExactInv, OwnerKnows
  <2>2. INFO'[o] = minor
    <3>1. CASE o = r BY <1>7, <1>10, <2>1, <3>1
    <3>2. CASE o # r
      <4>1. o \in Nodes BY <1>6, <1>10, RankTyped
      <4> HIDE DEF o, r
      <4> QED BY <1>1, <1>2, <2>1, <3>2, <4>1
    <3> QED BY <3>1, <3>2
  <2>3. ~(k' <= FailedTile) BY <1>1, <1>3, <1>6, <1>10
  <2>4. OwnerKnows' BY <1>3, <2>2 DEF OwnerKnows, rank_of
  <2>5. CleanBefore' BY <1>3, <1>10, <2>3 DEF CleanBefore
  <2> QED BY <1>3, <1>1, <1>4, <2>4, <2>5 DEF ExactInv, ZeroIffDefinite
<1> QED BY <1>1, <1>6, <1>8, <1>9, <1>10

(* Once every tile is factored, the maximum is 0 only if nobody failed.     *)
LEMMA ReturnExact ==
  ASSUME SoundInv, ExactInv, NEW n \in Nodes, Return(n) PROVE ExactInv'
<1>1. UNCHANGED <<devices, minor, k, sub, INFO>> /\ k = mt BY DEF Return
<1>2. minor \in 0 .. m /\ m \in Nat /\ mt \in Nat BY Sizes DEF ExactInv
<1>3. (\E p \in Nodes : ginfo = INFO[p]) /\ \A p \in Nodes : ginfo >= INFO[p]
  BY ginfoIs DEF SoundInv
<1>4. ginfo = 0 <=> minor = 0
  <2>1. CASE minor = 0 BY <1>3, <2>1 DEF ExactInv, CleanBefore
  <2>2. CASE minor # 0
    <3>1. FailedTile \in Nat /\ k > FailedTile BY <1>1, <1>2, <2>2, FailedTileIs
    <3>2. INFO[rank_of(FailedTile)] = minor BY <2>2, <3>1 DEF ExactInv, OwnerKnows
    <3>3. ginfo >= minor BY <1>3, <3>1, <3>2, RankTyped
    <3> QED BY <1>2, <2>2, <3>3
  <2> QED BY <2>1, <2>2
<1>5. result' = [result EXCEPT ![n] = ginfo] BY DEF Return
<1>6. ASSUME NEW q \in Nodes, result'[q] # -1 PROVE result'[q] = 0 <=> minor = 0
  <2>1. CASE q = n
    <3>1. result'[q] = ginfo BY <1>5, <2>1 DEF SoundInv
    <3> QED BY <1>4, <3>1
  <2>2. CASE q # n
    <3>1. result'[q] = result[q] BY <1>5, <2>2 DEF SoundInv
    <3> QED BY <1>6, <3>1 DEF ExactInv, ZeroIffDefinite
  <2> QED BY <2>1, <2>2
<1>7. ZeroIffDefinite' BY <1>1, <1>6 DEF ZeroIffDefinite
<1>8. CleanBefore' /\ OwnerKnows'
  BY <1>1 DEF ExactInv, CleanBefore, OwnerKnows, FailedTile, rank_of
<1> QED BY <1>1, <1>7, <1>8 DEF ExactInv

LEMMA NextExact == SoundInv /\ ExactInv /\ [Next]_vars => ExactInv'
<1> SUFFICES ASSUME SoundInv, ExactInv, [Next]_vars PROVE ExactInv' OBVIOUS
<1>0. devices = {"CPU"} /\ sub = -1 BY DEF ExactInv
<1>1. CASE potrf_zpotrf BY <1>1, ZpotrfExact
<1>2. CASE potrf_zpotrf_CUDA BY <1>0, <1>2 DEF potrf_zpotrf_CUDA
<1>3. CASE potrf_zpotrf_RECURSIVE BY <1>0, <1>3 DEF potrf_zpotrf_RECURSIVE, Recursive
<1>4. CASE sub_zpotrf BY <1>0, <1>4 DEF sub_zpotrf
<1>5. CASE zpotrf_recursive_cb BY <1>0, <1>5 DEF zpotrf_recursive_cb
<1>6. CASE \E n \in Nodes : Return(n) BY <1>6, ReturnExact
<1>7. CASE UNCHANGED vars
  BY <1>7 DEF vars, ExactInv, CleanBefore, OwnerKnows, ZeroIffDefinite, FailedTile, rank_of
<1> QED BY <1>1, <1>2, <1>3, <1>4, <1>5, <1>6, <1>7 DEF Next

(* Which bodies there are does not change during a call.                    *)
LEMMA InitSequential == Init => (devices = {"CPU"} => ExactInv)
  BY InitExact

LEMMA NextSequential ==
  SoundInv /\ (devices = {"CPU"} => ExactInv) /\ [Next]_vars
    => (devices = {"CPU"} => ExactInv)'
<1> SUFFICES ASSUME SoundInv, devices = {"CPU"} => ExactInv, [Next]_vars, devices' = {"CPU"}
             PROVE  ExactInv'
  OBVIOUS
<1>1. devices' = devices
  BY DEF Next, vars, potrf_zpotrf, potrf_zpotrf_CUDA, potrf_zpotrf_RECURSIVE,
         sub_zpotrf, zpotrf_recursive_cb, Return
<1> QED BY <1>1, NextExact

(* For every matrix, tile size and grid, when only the sequential bodies    *)
(* exist: the process that owns the failing block keeps the order of the    *)
(* first minor that is not positive definite, however later blocks fail,    *)
(* and the call returns 0 on every process if and only if the matrix is     *)
(* positive definite.                                                       *)
THEOREM StatusIsExact == Spec => []SequentialExact
<1>1. (devices = {"CPU"} => ExactInv) => SequentialExact
  BY DEF ExactInv, SequentialExact
<1> QED BY <1>1, InitSound, NextSound, InitSequential, NextSequential, PTL DEF Spec

-----------------------------------------------------------------------------
(* The programs of the drivers: a branch is IfZero, dplasma_zpotrf is the   *)
(* first operation only, and except in the LU solvers a branch tests the    *)
(* status of dplasma_zpotrf or of a solve.                                  *)
OpOf(s) == IF s.name = "info" THEN s.op ELSE s

ProgramOK(p) ==
  /\ Len(p) \in Nat
  /\ \A i \in 1 .. Len(p) :
       /\ p[i].name = "if" => p[i] = IfZero
       /\ OpOf(p[i]).name = "zpotrf" => i = 1 /\ p[i] = Info(zpotrf)

ReducedOK(p) ==
  \A i \in 1 .. Len(p) : p[i].name = "if" =>
    /\ i >= 2 /\ p[i - 1].name = "info"
    /\ p[i - 1].op.name \in {"zpotrf", "ztrsm"}

\* The name of an operation does not depend on its arguments.
LEMMA Names ==
  /\ \A u, t, d, a, b : ztrsm(u, t, d, a, b).name = "ztrsm"
  /\ \A u, a : ztrtri(u, a).name = "ztrtri" /\ zlauum(u, a).name = "zlauum"
  /\ \A a, t : zgeqrf(a, t).name = "zgeqrf" /\ zgelqf(a, t).name = "zgelqf"
  /\ \A t, a, s, b : zunmqr(t, a, s, b).name = "zunmqr" /\ zunmlq(t, a, s, b).name = "zunmlq"
  /\ \A a, p : zgetrf_1d(a, p).name = "zgetrf_1d"
  /\ \A a, l, p : /\ zgetrf_incpiv(a, l, p).name = "zgetrf_incpiv"
                  /\ ztrsmpl_incpiv(a, l, p).name = "ztrsmpl_incpiv"
  /\ \A i, j : zlaswp(i).name = "zlaswp" /\ zlaset(i, j).name = "zlaset"
  /\ zpotrf.name = "zpotrf" /\ zpotrf.code = 0 /\ IfZero.name = "if"
  /\ \A o : Info(o).name = "info" /\ Info(o).op = o
  BY DEF ztrsm, ztrtri, zlauum, zgeqrf, zgelqf, zunmqr, zunmlq, zgetrf_1d, zgetrf_incpiv,
         ztrsmpl_incpiv, zlaswp, zlaset, zpotrf, IfZero, Info

\* The operations of dplasma_zpotrs, dplasma_zposv and dplasma_zgetrs.
LEMMA PotrsSteps ==
  ASSUME NEW c
  PROVE  /\ Len(zpotrs(c)) = 2 /\ zpotrs(c)[1].name = "ztrsm" /\ zpotrs(c)[2].name = "ztrsm"
         /\ \E x, y : zpotrs(c) = <<x, y>> /\ x.name = "ztrsm" /\ y.name = "ztrsm"
  BY Names DEF zpotrs

\* dplasma_zposv: the factorization, its branch and the two solves.
LEMMA PosvSteps ==
  ASSUME NEW c
  PROVE  LET p == zposv(c)
         IN /\ Len(p) = 4 /\ p[1] = Info(zpotrf) /\ p[2] = IfZero
            /\ p[3].name = "ztrsm" /\ p[4].name = "ztrsm"
<1>1. PICK x, y : zpotrs(c) = <<x, y>> /\ x.name = "ztrsm" /\ y.name = "ztrsm" BY PotrsSteps
<1>2. LET p == <<Info(zpotrf), IfZero>> \o <<x, y>>
      IN Len(p) = 4 /\ p[1] = Info(zpotrf) /\ p[2] = IfZero /\ p[3] = x /\ p[4] = y
  OBVIOUS
<1> QED BY <1>1, <1>2 DEF zposv

\* dplasma_zgetrs: interchanges and two solves, in either order.
LEMMA GetrsSteps ==
  ASSUME NEW c, NEW t
  PROVE  LET p == zgetrs(c, t)
         IN Len(p) = 3 /\ \A i \in 1 .. 3 : p[i].name \in {"zlaswp", "ztrsm"}
<1>1. CASE t = "N" BY <1>1, Names DEF zgetrs
<1>2. CASE t # "N" BY <1>2, Names DEF zgetrs
<1> QED BY <1>1, <1>2

\* Every program is as described.
LEMMA ProgramsOK ==
  ASSUME NEW c, c.routine \in Routines
  PROVE  /\ ProgramOK(Program(c)) /\ Len(Program(c)) > 0
         /\ c.routine \notin {"zgesv_1d", "zgesv_incpiv"} => ReducedOK(Program(c))
<1> SUFFICES ASSUME NEW p, p = Program(c)
             PROVE  /\ ProgramOK(p) /\ Len(p) > 0
                    /\ c.routine \notin {"zgesv_1d", "zgesv_incpiv"} => ReducedOK(p)
  OBVIOUS
<1>1. CASE c.routine = "zpotrf"
  <2>1. p = <<Info(zpotrf)>> BY <1>1 DEF Program
  <2>2. Len(p) = 1 /\ p[1] = Info(zpotrf) BY <2>1
  <2> QED BY <2>2, Names DEF ProgramOK, ReducedOK, OpOf
<1>2. CASE c.routine = "zposv"
  <2>1. p = zposv(c) BY <1>2 DEF Program
  <2>2. /\ Len(p) = 4 /\ p[1] = Info(zpotrf) /\ p[2] = IfZero
        /\ p[3].name = "ztrsm" /\ p[4].name = "ztrsm"
    BY <2>1, PosvSteps
  <2> QED BY <2>2, Names DEF ProgramOK, ReducedOK, OpOf
<1>3. CASE c.routine = "zpotrs"
  <2>1. p = zpotrs(c) BY <1>3 DEF Program
  <2>2. Len(p) = 2 /\ p[1].name = "ztrsm" /\ p[2].name = "ztrsm" BY <2>1, PotrsSteps
  <2> QED BY <2>2, Names DEF ProgramOK, ReducedOK, OpOf
<1>4. CASE c.routine = "zpotri"
  <2>1. p = <<Info(ztrtri(c.uplo, c.A)), zlauum(c.uplo, c.A)>> BY <1>4 DEF Program, zpotri
  <2>2. Len(p) = 2 /\ p[1] = Info(ztrtri(c.uplo, c.A)) /\ p[2] = zlauum(c.uplo, c.A) BY <2>1
  <2> QED BY <2>2, Names DEF ProgramOK, ReducedOK, OpOf
<1>5. CASE c.routine = "zpoinv_sync"
  <2>1. p = <<Info(zpotrf)>> \o <<Info(ztrtri(c.uplo, c.A)), zlauum(c.uplo, c.A)>>
    BY <1>5 DEF Program, zpotri, zpoinv_sync
  <2>2. /\ Len(p) = 3 /\ p[1] = Info(zpotrf) /\ p[2] = Info(ztrtri(c.uplo, c.A))
        /\ p[3] = zlauum(c.uplo, c.A)
    BY <2>1
  <2> QED BY <2>2, Names DEF ProgramOK, ReducedOK, OpOf
<1>6. CASE c.routine = "zgetrs"
  <2>1. p = zgetrs(c, c.trans) BY <1>6 DEF Program
  <2>2. Len(p) = 3 /\ \A i \in 1 .. 3 : p[i].name \in {"zlaswp", "ztrsm"} BY <2>1, GetrsSteps
  <2> QED BY <2>2, Names DEF ProgramOK, ReducedOK, OpOf
<1>7. CASE c.routine = "zgesv_1d"
  <2>1. p = <<Info(zgetrf_1d(c.A, c.IPIV)), IfZero>> \o zgetrs(c, "N")
    BY <1>7 DEF Program, zgesv_1d
  <2>2. PICK x, y, z : /\ zgetrs(c, "N") = <<x, y, z>>
                       /\ {x.name, y.name, z.name} \subseteq {"zlaswp", "ztrsm"}
    BY Names DEF zgetrs
  <2>3. /\ Len(p) = 5 /\ p[1] = Info(zgetrf_1d(c.A, c.IPIV)) /\ p[2] = IfZero
        /\ p[3] = x /\ p[4] = y /\ p[5] = z
    <3>1. p = <<Info(zgetrf_1d(c.A, c.IPIV)), IfZero>> \o <<x, y, z>> BY <2>1, <2>2
    <3>2. \A a, b : /\ Len(<<a, b>> \o <<x, y, z>>) = 5
                    /\ (<<a, b>> \o <<x, y, z>>)[1] = a /\ (<<a, b>> \o <<x, y, z>>)[2] = b
                    /\ (<<a, b>> \o <<x, y, z>>)[3] = x /\ (<<a, b>> \o <<x, y, z>>)[4] = y
                    /\ (<<a, b>> \o <<x, y, z>>)[5] = z
      OBVIOUS
    <3> QED BY <3>1, <3>2
  <2> QED BY <1>7, <2>2, <2>3, Names DEF ProgramOK, OpOf
<1>8. CASE c.routine = "zgetrs_incpiv"
  <2>1. p = zgetrs_incpiv(c) BY <1>8 DEF Program
  <2>2. Len(p) = 2 /\ p[1].name = "ztrsmpl_incpiv" /\ p[2].name = "ztrsm"
    BY <2>1, Names DEF zgetrs_incpiv
  <2> QED BY <2>2, Names DEF ProgramOK, ReducedOK, OpOf
<1>9. CASE c.routine = "zgesv_incpiv"
  <2>1. p = <<Info(zgetrf_incpiv(c.A, c.L, c.IPIV)), IfZero>> \o zgetrs_incpiv(c)
    BY <1>9 DEF Program, zgesv_incpiv
  <2>2. PICK x, y : /\ zgetrs_incpiv(c) = <<x, y>>
                    /\ x.name = "ztrsmpl_incpiv" /\ y.name = "ztrsm"
    BY Names DEF zgetrs_incpiv
  <2>3. /\ Len(p) = 4 /\ p[1] = Info(zgetrf_incpiv(c.A, c.L, c.IPIV)) /\ p[2] = IfZero
        /\ p[3] = x /\ p[4] = y
    BY <2>1, <2>2
  <2> QED BY <1>9, <2>2, <2>3, Names DEF ProgramOK, OpOf
<1>10. CASE c.routine \in {"zgeqrs", "zgeqrs_param"}
  <2>1. \E ts : p = zgeqrs(c, ts) BY <1>10 DEF Program
  <2>2. Len(p) = 2 /\ p[1].name = "zunmqr" /\ p[2].name = "ztrsm" BY <2>1, Names DEF zgeqrs
  <2> QED BY <2>2, Names DEF ProgramOK, ReducedOK, OpOf
<1>11. CASE c.routine \in {"zgelqs", "zgelqs_param"}
  <2>1. \E ts : p = zgelqs(c, ts) BY <1>11 DEF Program
  <2>2. Len(p) = 2 /\ p[1].name = "ztrsm" /\ p[2].name = "zunmlq" BY <2>1, Names DEF zgelqs
  <2> QED BY <2>2, Names DEF ProgramOK, ReducedOK, OpOf
<1>12. CASE c.routine = "zgels"
  <2>1. p = zgels(c) BY <1>12 DEF Program
  <2>2. ASSUME NEW x, NEW y, NEW z, p = <<x>> \o <<y, Info(z)>>,
               x.name \in {"zgeqrf", "zgelqf"}, y.name \in {"zunmqr", "zunmlq"}, z.name = "ztrsm"
        PROVE  ProgramOK(p) /\ Len(p) > 0 /\ ReducedOK(p)
    <3>1. Len(p) = 3 /\ p[1] = x /\ p[2] = y /\ p[3] = Info(z) BY <2>2
    <3> QED BY <2>2, <3>1, Names DEF ProgramOK, ReducedOK, OpOf
  <2>3. ASSUME NEW x, NEW y, NEW z, NEW w, p = <<x>> \o (<<Info(y), IfZero>> \o w \o <<z>>),
               x.name \in {"zgeqrf", "zgelqf"}, y.name = "ztrsm", z.name \in {"zunmqr", "zunmlq"},
               w = <<>> \/ \E v : w = <<v>> /\ v.name = "zlaset"
        PROVE  ProgramOK(p) /\ Len(p) > 0 /\ ReducedOK(p)
    <3>2. CASE w = <<>>
      <4>1. Len(p) = 4 /\ p[1] = x /\ p[2] = Info(y) /\ p[3] = IfZero /\ p[4] = z
        BY <2>3, <3>2
      <4> QED BY <2>3, <4>1, Names DEF ProgramOK, ReducedOK, OpOf
    <3>3. CASE w # <<>>
      <4>1. PICK v : w = <<v>> /\ v.name = "zlaset" BY <2>3, <3>3
      <4>2. Len(p) = 5 /\ p[1] = x /\ p[2] = Info(y) /\ p[3] = IfZero /\ p[4] = v /\ p[5] = z
        BY <2>3, <4>1
      <4> QED BY <2>3, <4>1, <4>2, Names DEF ProgramOK, ReducedOK, OpOf
    <3> QED BY <3>2, <3>3
  <2>4. \A a, b : Clear(a, b) = <<>> \/ \E v : Clear(a, b) = <<v>> /\ v.name = "zlaset"
    BY Names DEF Clear
  <2>5. CASE c.A.m >= c.A.n /\ c.trans = "N"
    <3> DEFINE x == zgeqrf(c.A, c.T)
               y == zunmqr("C", c.A, {c.T}, c.B)
               z == ztrsm("Upper", "N", "NonUnit", Square(c.A.n), c.A.n)
    <3>1. p = <<x>> \o <<y, Info(z)>> BY <2>1, <2>5 DEF zgels
    <3>2. x.name \in {"zgeqrf", "zgelqf"} /\ y.name \in {"zunmqr", "zunmlq"} /\ z.name = "ztrsm"
      BY Names
    <3> HIDE DEF x, y, z
    <3> QED BY <2>2, <3>1, <3>2
  <2>6. CASE c.A.m >= c.A.n /\ c.trans # "N"
    <3> DEFINE x == zgeqrf(c.A, c.T)
               y == ztrsm("Upper", "C", "NonUnit", Square(c.A.n), c.A.n)
               z == zunmqr("N", c.A, {c.T}, c.B)
               w == Clear(c.A.n, c.A.m)
    <3>1. p = <<x>> \o (<<Info(y), IfZero>> \o w \o <<z>>) BY <2>1, <2>6 DEF zgels
    <3>2. /\ x.name \in {"zgeqrf", "zgelqf"} /\ y.name = "ztrsm" /\ z.name \in {"zunmqr", "zunmlq"}
          /\ w = <<>> \/ \E v : w = <<v>> /\ v.name = "zlaset"
      BY <2>4, Names
    <3> HIDE DEF x, y, z, w
    <3> QED BY <2>3, <3>1, <3>2
  <2>7. CASE ~(c.A.m >= c.A.n) /\ c.trans = "N"
    <3> DEFINE x == zgelqf(c.A, c.T)
               y == ztrsm("Lower", "N", "NonUnit", Square(c.A.m), c.A.m)
               z == zunmlq("C", c.A, {c.T}, c.B)
               w == Clear(c.A.m, c.A.n)
    <3>1. p = <<x>> \o (<<Info(y), IfZero>> \o w \o <<z>>) BY <2>1, <2>7 DEF zgels
    <3>2. /\ x.name \in {"zgeqrf", "zgelqf"} /\ y.name = "ztrsm" /\ z.name \in {"zunmqr", "zunmlq"}
          /\ w = <<>> \/ \E v : w = <<v>> /\ v.name = "zlaset"
      BY <2>4, Names
    <3> HIDE DEF x, y, z, w
    <3> QED BY <2>3, <3>1, <3>2
  <2>8. CASE ~(c.A.m >= c.A.n) /\ c.trans # "N"
    <3> DEFINE x == zgelqf(c.A, c.T)
               y == zunmlq("N", c.A, {c.T}, c.B)
               z == ztrsm("Lower", "C", "NonUnit", Square(c.A.m), c.A.m)
    <3>1. p = <<x>> \o <<y, Info(z)>> BY <2>1, <2>8 DEF zgels
    <3>2. x.name \in {"zgeqrf", "zgelqf"} /\ y.name \in {"zunmqr", "zunmlq"} /\ z.name = "ztrsm"
      BY Names
    <3> HIDE DEF x, y, z
    <3> QED BY <2>2, <3>1, <3>2
  <2> QED BY <2>5, <2>6, <2>7, <2>8
<1> QED BY <1>1, <1>2, <1>3, <1>4, <1>5, <1>6, <1>7, <1>8, <1>9, <1>10, <1>11, <1>12 DEF Routines

-----------------------------------------------------------------------------
(* Where the processes are: what holds of every driver.  Typed: the program *)
(* is that of the call.  Places: only a call that is not rejected gets into *)
(* its operations, and who has entered one stands at it.                    *)
OpAt(i) == OpOf(program[i])
Reduced == call.routine \notin {"zgesv_1d", "zgesv_incpiv"}

Typed ==
  /\ call = NoCall \/ call \in Calls
  /\ program = IF call # NoCall /\ Rejects(call) = 0 THEN Program(call) ELSE <<>>
  /\ ProgramOK(program)
  /\ Reduced => ReducedOK(program)
  /\ k \in 0 .. mt
  /\ sub # -1 => k < mt
  /\ at \in [Nodes -> Nat] /\ DOMAIN status = Nodes /\ DOMAIN returned = Nodes
  /\ "begun" \in DOMAIN rhs /\ rhs.begun \in BOOLEAN

Places ==
  /\ \A n \in Nodes : at[n] <= Last
  /\ \A n \in Nodes : at[n] > 0 => call # NoCall /\ Rejects(call) = 0
  /\ entered \subseteq Nodes
  /\ \A n \in entered : Active(n) /\ Step(n).name # "if" /\ Operation(n).code = 0
  /\ \A n \in Nodes : returned[n] # Inside =>
       call # NoCall /\ (at[n] = Last \/ (at[n] = 0 /\ Rejects(call) # 0))
  /\ rhs.begun => Rejects(call) = 0

\* The tile of potrf_zpotrf(k) is not empty.
LEMMA TempPositive == ASSUME k \in 0 .. mt - 1 PROVE tempkm(k) \in Nat \ {0}
<1>1. m \in Nat \ {0} /\ mb \in Nat \ {0} /\ mt \in Nat \ {0} /\ k \in Nat BY Sizes
<1>2. CASE k = mt - 1
  <2>1. m + mb - 1 \in Nat BY <1>1
  <2>2. mt * mb <= m + mb - 1 BY <1>1, <2>1, DivIs DEF mt
  <2>3. (k + 1) * mb = k * mb + mb BY <1>1, OneMore
  <2>4. k * mb \in Nat /\ k + 1 = mt BY <1>1, <1>2, ProductTyped
  <2>5. k * mb + mb <= m + mb - 1 BY <2>2, <2>3, <2>4
  <2>6. k * mb <= m - 1 BY <1>1, <2>4, <2>5
  <2>7. tempkm(k) = m - k * mb BY <1>2 DEF tempkm
  <2> QED BY <1>1, <2>4, <2>6, <2>7
<1>3. CASE k # mt - 1 BY <1>1, <1>3 DEF tempkm
<1> QED BY <1>2, <1>3

\* The factorization wraps one matrix, with one shape.
LEMMA OneMatrix ==
  ASSUME NEW d \in Matrices
  PROVE  <<d>> \in Seq(Matrices) /\ PotrfShapes \in Setups(<<d>>)
<1>1. <<d>> \in Seq(Matrices) /\ Len(<<d>>) = 1 OBVIOUS
<1>2. [mat |-> 1, uplo |-> "FULL"] \in [mat : 1 .. 1, uplo : {"FULL", "LOWER", "UPPER"}] OBVIOUS
<1> QED BY <1>1, <1>2 DEF PotrfShapes, Setups

\* Wrapping the matrix of dplasma_zpotrf is a step of the table.
LEMMA WrapIsTableNext ==
  ASSUME NEW t \in Threads, NEW d \in Matrices, Wrap(t, <<d>>, PotrfShapes)
  PROVE  TableNext
<1>1. <<d>> \in Seq(Matrices) /\ PotrfShapes \in Setups(<<d>>) BY OneMatrix
<1> QED BY <1>1, Zenon DEF TableNext

\* So is the end of its taskpool.
LEMMA StopIsTableNext == ASSUME NEW t \in Threads, Stop(t) PROVE TableNext
  BY DEF TableNext

\* The process that observes is one of the grid.
LEMMA HereIsNode == Here \in Nodes
  BY RankTyped, GridAssumption DEF Here, Nodes, rank_of

(* A step of a driver is a step of the factorization and of the table.      *)
LEMMA StepsOfParts == Typed /\ [DriversNext]_allVars => [Next]_vars /\ [TableNext]_adttVars
<1> SUFFICES ASSUME Typed, [DriversNext]_allVars PROVE [Next]_vars /\ [TableNext]_adttVars
  OBVIOUS
<1>0. "caller" \in Threads /\ "body" \in Threads /\ "other" \in Threads BY ThreadAssumption
<1>1. CASE UNCHANGED callVars BY <1>1 DEF callVars
<1>2. CASE PotrfStep
  <2>1. CASE InPotrf(Here) /\ dplasma_zpotrf_New(call.storage)
    <3>1. call \in Calls
      <4>0. at[Here] \in Int BY HereIsNode DEF Typed
      <4>1. CASE call = NoCall
        <5>1. program = <<>> /\ Last = 1 BY <4>1 DEF Typed, Last
        <5>2. at[Here] \in Int => ~Active(Here) BY <5>1 DEF Active
        <5> QED BY <2>1, <4>0, <5>2 DEF InPotrf
      <4>2. CASE call # NoCall BY <4>2 DEF Typed
      <4> QED BY <4>1, <4>2
    <3>2. descA(call.storage) \in Matrices
      BY <3>1, CallsAssumption, SizeAssumption DEF descA, Matrices
    <3>3. TableNext BY <1>0, <2>1, <3>2, WrapIsTableNext DEF dplasma_zpotrf_New
    <3> QED BY <2>1, <3>3 DEF dplasma_zpotrf_New
  <2>2. CASE SequentialBody BY <2>2 DEF SequentialBody, Next
  <2>3. CASE RecursiveBody
    <3>1. potrf_zpotrf_RECURSIVE BY <2>3 DEF RecursiveBody
    <3>2. k \in 0 .. mt - 1 BY <3>1, Sizes DEF potrf_zpotrf_RECURSIVE, Typed
    <3>3. tempkm(k) \in Nat \ {0} BY <3>2, TempPositive
    <3>4. small_descT \in Matrices BY <3>3, SizeAssumption DEF small_descT, Matrices
    <3>5. [TableNext]_adttVars BY <1>0, <2>3, <3>4, WrapIsTableNext DEF RecursiveBody
    <3> QED BY <3>1, <3>5 DEF Next
  <2>4. CASE SubBody BY <2>4 DEF SubBody, Next
  <2>5. CASE Callback
    <3>1. [TableNext]_adttVars BY <1>0, <2>5, StopIsTableNext DEF Callback
    <3> QED BY <2>5, <3>1 DEF Callback, Next
  <2>6. CASE dplasma_zpotrf_Destruct
    BY <1>0, <2>6, StopIsTableNext DEF dplasma_zpotrf_Destruct
  <2>7. CASE Table BY <2>7 DEF Table, TableNext
  <2>8. CASE call # NoCall /\ Companion(call.beside)
    <3>1. UNCHANGED vars BY <2>8 DEF Companion
    <3>2. CASE Stop("other") BY <1>0, <3>1, <3>2, StopIsTableNext
    <3>3. CASE \E work \in call.beside : Wrap("other", work.mats, work.shapes)
      <4>1. PICK work \in call.beside : Wrap("other", work.mats, work.shapes) BY <3>3
      <4>2. call \in Calls BY <2>8 DEF Typed
      <4>3. work.mats \in Seq(Matrices) /\ work.shapes \in Setups(work.mats)
        BY <4>2, CallsAssumption
      <4>4. TableNext BY <1>0, <4>1, <4>3, Zenon DEF TableNext
      <4> QED BY <3>1, <4>4
    <3> QED BY <2>8, <3>2, <3>3 DEF Companion
  <2> QED BY <1>2, <2>1, <2>2, <2>3, <2>4, <2>5, <2>6, <2>7, <2>8 DEF PotrfStep
<1>3. CASE \E n \in Nodes : PotrfReturns(n)
  <2> QED BY <1>3, HereIsNode DEF PotrfReturns, ReturnHere, ReturnElsewhere, Next
<1>4. CASE Finalize BY <1>4 DEF Finalize, TableNext
<1>5. CASE UNCHANGED allVars BY <1>1, <1>5 DEF allVars
<1>6. CASE call = NoCall /\ \E c \in Calls : Invoke(c) BY <1>1, <1>6 DEF Invoke
<1>7. CASE \E n \in Nodes : Check(n) \/ Branch(n) \/ Reject(n) \/ Enter(n) \/ Leave(n)
  BY <1>1, <1>7 DEF Check, Branch, Reject, Enter, Leave
<1>8. CASE Complete BY <1>1, <1>8 DEF Complete
<1> QED BY <1>2, <1>3, <1>4, <1>5, <1>6, <1>7, <1>8 DEF DriversNext

\* Between the calls, and Init.
LEMMA NoRoutine == NoCall \notin Calls
  BY CallsAssumption DEF NoCall, Routines

\* Before the first call no operation is left.
LEMMA EmptyProgram == ProgramOK(<<>>) /\ ReducedOK(<<>>)
  BY DEF ProgramOK, ReducedOK

\* Typed holds initially.
LEMMA TypedInit == DriversInit => Typed
<1> SUFFICES ASSUME DriversInit PROVE Typed OBVIOUS
<1>1. call = NoCall /\ program = <<>> BY DEF DriversInit
<1>2. k \in 0 .. mt /\ sub = -1 BY Sizes DEF DriversInit, Init
<1>3. rhs = NoRhs /\ "begun" \in DOMAIN rhs /\ rhs.begun = FALSE BY DEF DriversInit, NoRhs
<1>4. at \in [Nodes -> Nat] /\ DOMAIN status = Nodes /\ DOMAIN returned = Nodes
  BY DEF DriversInit
<1> QED BY <1>1, <1>2, <1>3, <1>4, EmptyProgram DEF Typed

\* The operations of the drivers keep the record of B and its flag begun.
LEMMA RhsKept ==
  ASSUME "begun" \in DOMAIN rhs, NEW op
  PROVE  "begun" \in DOMAIN RhsAfter(op) /\ RhsAfter(op).begun = rhs.begun
<1>1. \A w : "begun" \in DOMAIN [rhs EXCEPT !.word = w] /\ [rhs EXCEPT !.word = w].begun = rhs.begun
  OBVIOUS
<1>2. \A w : "begun" \in DOMAIN [rhs EXCEPT !.zero = w] /\ [rhs EXCEPT !.zero = w].begun = rhs.begun
  OBVIOUS
<1>3. \A w, r : /\ "begun" \in DOMAIN [rhs EXCEPT !.word = w, !.rows = r]
                /\ [rhs EXCEPT !.word = w, !.rows = r].begun = rhs.begun
  OBVIOUS
<1>4. "begun" \in DOMAIN Spoiled /\ Spoiled.begun = rhs.begun BY <1>1 DEF Spoiled
<1>5. \A s : "begun" \in DOMAIN Apply(s) /\ Apply(s).begun = rhs.begun BY <1>1 DEF Apply
<1>6. "begun" \in DOMAIN Solve(op) /\ Solve(op).begun = rhs.begun
  BY <1>3, <1>4, <1>5 DEF Solve
<1>7. \A t : "begun" \in DOMAIN Rotate(t) /\ Rotate(t).begun = rhs.begun
  BY <1>3, <1>4, <1>5 DEF Rotate
<1>8. "begun" \in DOMAIN Blank(op) /\ Blank(op).begun = rhs.begun
  <2>1. CASE Overwritten(op) \cap (0 .. rhs.rows-1) # {} BY <1>4, <2>1 DEF Blank
  <2>2. CASE ~(Overwritten(op) \cap (0 .. rhs.rows-1) # {}) BY <1>2, <2>2 DEF Blank
  <2> QED BY <2>1, <2>2
<1> QED BY <1>5, <1>6, <1>7, <1>8 DEF RhsAfter

(* The factorization comes to its end once, and its status stays.           *)
LEMMA TasksNext ==
  ASSUME k \in 0 .. mt, sub # -1 => k < mt, [Next]_vars
  PROVE  /\ k' \in 0 .. mt /\ (sub' # -1 => k' < mt)
         /\ k = mt => k' = mt /\ ginfo' = ginfo
<1>0. mt \in Nat BY Sizes
<1>1. CASE potrf_zpotrf BY <1>0, <1>1 DEF potrf_zpotrf
<1>2. CASE potrf_zpotrf_CUDA BY <1>0, <1>2 DEF potrf_zpotrf_CUDA, ginfo
<1>3. CASE potrf_zpotrf_RECURSIVE BY <1>0, <1>3 DEF potrf_zpotrf_RECURSIVE, ginfo
<1>4. CASE sub_zpotrf BY <1>0, <1>4 DEF sub_zpotrf, ginfo
<1>5. CASE zpotrf_recursive_cb BY <1>0, <1>5 DEF zpotrf_recursive_cb, ginfo
<1>6. CASE \E n \in Nodes : Return(n) BY <1>0, <1>6 DEF Return, ginfo
<1>7. CASE UNCHANGED vars BY <1>0, <1>7 DEF vars, ginfo
<1> QED BY <1>1, <1>2, <1>3, <1>4, <1>5, <1>6, <1>7 DEF Next

\* Typed is kept.
LEMMA TypedNext == Typed /\ [DriversNext]_allVars => Typed'
<1> SUFFICES ASSUME Typed, [DriversNext]_allVars PROVE Typed' OBVIOUS
<1>1. k' \in 0 .. mt /\ (sub' # -1 => k' < mt)
  <2>1. [Next]_vars BY StepsOfParts
  <2> QED BY <2>1, TasksNext DEF Typed
<1>2. CASE UNCHANGED driverVars
  BY <1>1, <1>2 DEF Typed, driverVars, Reduced
<1>3. ASSUME UNCHANGED <<call, program>>,
             at' \in [Nodes -> Nat], DOMAIN status' = Nodes, DOMAIN returned' = Nodes,
             "begun" \in DOMAIN rhs', rhs'.begun \in BOOLEAN
      PROVE  Typed'
  BY <1>1, <1>3 DEF Typed, Reduced
<1>4. Len(program) \in Nat /\ Last \in Nat BY DEF Typed, ProgramOK, Last
<1>5. /\ at \in [Nodes -> Nat] /\ DOMAIN status = Nodes /\ DOMAIN returned = Nodes
      /\ "begun" \in DOMAIN rhs /\ rhs.begun \in BOOLEAN
  BY DEF Typed
<1>6. CASE call = NoCall /\ \E c \in Calls : Invoke(c)
  <2>1. PICK c \in Calls : Invoke(c) BY <1>6
  <2>2. call' = c /\ program' = IF Rejects(c) = 0 THEN Program(c) ELSE <<>> BY <2>1 DEF Invoke
  <2>3. c # NoCall /\ c.routine \in Routines BY NoRoutine, CallsAssumption
  <2>4. ProgramOK(program') /\ (Reduced' => ReducedOK(program'))
    <3>1. CASE Rejects(c) = 0 BY <2>2, <2>3, <3>1, ProgramsOK DEF Reduced
    <3>2. CASE Rejects(c) # 0 BY <2>2, <3>2, EmptyProgram
    <3> QED BY <3>1, <3>2
  <2>5. "begun" \in DOMAIN rhs' /\ rhs'.begun = FALSE BY <2>1 DEF Invoke, NoRhs
  <2>6. UNCHANGED <<at, status, returned>> BY <2>1 DEF Invoke
  <2>7. program' = IF call' # NoCall /\ Rejects(call') = 0 THEN Program(call') ELSE <<>>
    BY <2>2, <2>3
  <2> QED BY <1>1, <1>5, <2>2, <2>4, <2>5, <2>6, <2>7 DEF Typed
<1>7. ASSUME NEW n \in Nodes, Check(n) PROVE Typed'
  BY <1>3, <1>5, <1>7 DEF Check
<1>8. ASSUME NEW n \in Nodes, Branch(n) PROVE Typed'
  BY <1>3, <1>4, <1>5, <1>8 DEF Branch
<1>9. ASSUME NEW n \in Nodes, Reject(n) PROVE Typed'
  BY <1>3, <1>5, <1>9 DEF Reject
<1>10. ASSUME NEW n \in Nodes, Enter(n) PROVE Typed'
  BY <1>3, <1>5, <1>10 DEF Enter
<1>11. ASSUME NEW n \in Nodes, Leave(n) PROVE Typed'
  BY <1>3, <1>5, <1>11 DEF Leave
<1>12. ASSUME NEW n \in Nodes, PotrfReturns(n) PROVE Typed'
  BY <1>3, <1>5, <1>12 DEF PotrfReturns
<1>13. CASE Complete
  <2>1. UNCHANGED <<call, program, returned>> BY <1>13 DEF Complete
  <2>2. at' \in [Nodes -> Nat] BY <1>5, <1>13 DEF Complete
  <2>3. DOMAIN status' = Nodes BY <1>5, <1>13 DEF Complete
  <2>4. "begun" \in DOMAIN rhs' /\ rhs'.begun \in BOOLEAN BY <1>5, <1>13, RhsKept DEF Complete
  <2> QED BY <1>3, <1>5, <2>1, <2>2, <2>3, <2>4
<1>14. CASE PotrfStep \/ Finalize BY <1>2, <1>14 DEF PotrfStep, Finalize, driverVars
<1>15. CASE UNCHANGED allVars BY <1>2, <1>15 DEF allVars
<1> QED BY <1>6, <1>7, <1>8, <1>9, <1>10, <1>11, <1>12, <1>13, <1>14, <1>15 DEF DriversNext

\* Nobody is anywhere.
LEMMA PlacesInit == DriversInit => Places
<1> SUFFICES ASSUME DriversInit PROVE Places OBVIOUS
<1>1. Len(program) = 0 /\ Last = 1 BY DEF DriversInit, Last
<1>2. \A n \in Nodes : at[n] = 0 /\ returned[n] = Inside BY DEF DriversInit
<1>3. entered = {} /\ rhs.begun = FALSE BY DEF DriversInit, NoRhs
<1> QED BY <1>1, <1>2, <1>3 DEF Places

(* What a process finds where it is.                                        *)
LEMMA Standing ==
  ASSUME Typed, Places, NEW n \in Nodes, Active(n)
  PROVE  /\ at[n] \in 1 .. Len(program) /\ Len(program) \in Nat /\ Last = Len(program) + 1
         /\ call # NoCall /\ Rejects(call) = 0 /\ returned[n] = Inside
         /\ Step(n) = program[at[n]] /\ Operation(n) = OpAt(at[n])
         /\ Step(n).name = "if" <=> Step(n) = IfZero
<1>1. Len(program) \in Nat /\ Last = Len(program) + 1 BY DEF Typed, ProgramOK, Last
<1>2. at[n] \in Nat /\ at[n] > 0 /\ at[n] < Last BY DEF Typed, Active
<1>3. at[n] \in 1 .. Len(program) BY <1>1, <1>2
<1>4. call # NoCall /\ Rejects(call) = 0 BY <1>2 DEF Places
<1>5. returned[n] = Inside BY <1>1, <1>2, <1>4 DEF Places
<1>6. Step(n).name = "if" <=> Step(n) = IfZero
  BY <1>3, Names DEF Typed, ProgramOK, Step
<1> QED BY <1>1, <1>3, <1>4, <1>5, <1>6 DEF Step, Operation, OpAt, OpOf

\* Places is kept, one step per action.
LEMMA PlacesNext == Typed /\ Places /\ [DriversNext]_allVars => Places'
<1> SUFFICES ASSUME Typed, Places, [DriversNext]_allVars PROVE Places' OBVIOUS
<1>1. Len(program) \in Nat /\ Last \in Nat /\ Last = Len(program) + 1
  BY DEF Typed, ProgramOK, Last
<1>2. /\ at \in [Nodes -> Nat] /\ DOMAIN status = Nodes /\ DOMAIN returned = Nodes
      /\ "begun" \in DOMAIN rhs /\ rhs.begun \in BOOLEAN /\ entered \subseteq Nodes
  BY DEF Typed, Places
<1>3. CASE UNCHANGED driverVars
  BY <1>3 DEF Places, driverVars, Last, Active, Step, Operation
<1>4. CASE call = NoCall /\ \E c \in Calls : Invoke(c)
  <2>1. PICK c \in Calls : Invoke(c) BY <1>4
  <2>2. Typed' BY TypedNext
  <2>3. \A n \in Nodes : at'[n] = 0 /\ returned'[n] = Inside
    <3>1. UNCHANGED <<at, returned>> BY <2>1 DEF Invoke
    <3>2. \A n \in Nodes : at[n] = 0 /\ returned[n] = Inside BY <1>2, <1>4 DEF Places
    <3> QED BY <3>1, <3>2
  <2>4. entered' = {}
    <3>1. entered' = entered BY <2>1 DEF Invoke
    <3>2. \A n \in entered : at[n] > 0 BY DEF Places, Active
    <3> QED BY <1>2, <1>4, <3>1, <3>2 DEF Places
  <2>5. ~rhs'.begun BY <2>1 DEF Invoke, NoRhs
  <2>6. Last' \in Nat BY <2>2 DEF Typed, ProgramOK, Last
  <2> QED BY <2>3, <2>4, <2>5, <2>6 DEF Places
<1>5. ASSUME NEW n \in Nodes, Check(n) PROVE Places'
  <2>1. UNCHANGED <<call, program, entered, rhs>> /\ call # NoCall /\ at[n] = 0 BY <1>5 DEF Check
  <2>2. n \notin entered BY <2>1 DEF Places, Active
  <2>3. CASE Rejects(call) # 0
    <3>1. at' = at /\ \A o \in Nodes : o # n => returned'[o] = returned[o]
      BY <1>2, <1>5, <2>3 DEF Check
    <3> QED BY <2>1, <2>3, <3>1 DEF Places, Last, Active, Step, Operation
  <2>4. CASE Rejects(call) = 0
    <3>1. returned' = returned /\ at'[n] = 1 /\ \A o \in Nodes : o # n => at'[o] = at[o]
      BY <1>2, <1>5, <2>4 DEF Check
    <3>2. returned[n] = Inside BY <1>5 DEF Check
    <3>3. UNCHANGED Last BY <2>1 DEF Last
    <3>4. \A o \in entered : at'[o] = at[o] BY <1>2, <2>2, <3>1
    <3>5. \A o \in entered' : Active(o)' /\ Step(o)'.name # "if" /\ Operation(o)'.code = 0
      BY <2>1, <3>3, <3>4 DEF Places, Active, Step, Operation
    <3>6. \A o \in Nodes : returned'[o] # Inside =>
            call' # NoCall /\ (at'[o] = Last' \/ (at'[o] = 0 /\ Rejects(call') # 0))
      BY <2>1, <3>1, <3>2, <3>3 DEF Places
    <3>7. \A o \in Nodes : at'[o] <= Last' BY <1>1, <3>1, <3>3 DEF Places
    <3>8. \A o \in Nodes : at'[o] > 0 => call' # NoCall /\ Rejects(call') = 0
      BY <2>1, <2>4, <3>1 DEF Places
    <3> QED BY <1>2, <2>1, <3>5, <3>6, <3>7, <3>8 DEF Places
  <2> QED BY <2>3, <2>4
\* One process goes on.
<1>6. ASSUME NEW n \in Nodes, Active(n), UNCHANGED <<call, program, returned, rhs>>,
             entered' = entered \ {n},
             at'[n] \in Nat, at'[n] > 0, at'[n] <= Last, \A o \in Nodes : o # n => at'[o] = at[o]
      PROVE  Places'
  <2>1. UNCHANGED Last BY <1>6 DEF Last
  <2>2. call # NoCall /\ Rejects(call) = 0 /\ returned[n] = Inside BY <1>6, Standing
  <2>3. \A o \in entered' : Active(o)' /\ Step(o)'.name # "if" /\ Operation(o)'.code = 0
    <3>1. TAKE o \in entered'
    <3>2. at'[o] = at[o] /\ o \in entered BY <1>2, <1>6, <3>1
    <3> QED BY <1>6, <2>1, <3>2 DEF Places, Active, Step, Operation
  <2>4. \A o \in Nodes : returned'[o] # Inside =>
          call' # NoCall /\ (at'[o] = Last' \/ (at'[o] = 0 /\ Rejects(call') # 0))
    BY <1>6, <2>1, <2>2 DEF Places
  <2>5. \A o \in Nodes : at'[o] <= Last' BY <1>6, <2>1 DEF Places
  <2>6. \A o \in Nodes : at'[o] > 0 => call' # NoCall /\ Rejects(call') = 0
    BY <1>6, <2>2
  <2> QED BY <1>2, <1>6, <2>3, <2>4, <2>5, <2>6 DEF Places
<1>7. ASSUME NEW n \in Nodes, Branch(n) PROVE Places'
  <2>1. Active(n) /\ Step(n) = IfZero BY <1>7 DEF Branch
  <2>2. n \notin entered BY <2>1, Names DEF Places
  <2>3. at'[n] \in {at[n] + 1, Last} /\ \A o \in Nodes : o # n => at'[o] = at[o]
    BY <1>2, <1>7 DEF Branch
  <2>4. entered' = entered \ {n} /\ UNCHANGED <<call, program, returned, rhs>>
    BY <1>7, <2>2 DEF Branch
  <2>5. at[n] \in Nat /\ at[n] < Last /\ at[n] > 0 BY <1>2, <2>1 DEF Active
  <2>6. at'[n] \in Nat /\ at'[n] > 0 /\ at'[n] <= Last BY <1>1, <2>3, <2>5
  <2> QED BY <1>6, <2>1, <2>3, <2>4, <2>6
<1>8. ASSUME NEW n \in Nodes, Reject(n) PROVE Places'
  <2>1. Active(n) /\ Operation(n).code # 0 BY <1>8 DEF Reject
  <2>2. n \notin entered BY <2>1 DEF Places
  <2>3. at'[n] = at[n] + 1 /\ \A o \in Nodes : o # n => at'[o] = at[o]
    BY <1>2, <1>8 DEF Reject
  <2>4. entered' = entered \ {n} /\ UNCHANGED <<call, program, returned, rhs>>
    BY <1>8, <2>2 DEF Reject
  <2>5. at[n] \in Nat /\ at[n] < Last /\ at[n] > 0 BY <1>2, <2>1 DEF Active
  <2>6. at'[n] \in Nat /\ at'[n] > 0 /\ at'[n] <= Last BY <1>1, <2>3, <2>5
  <2> QED BY <1>6, <2>1, <2>3, <2>4, <2>6
<1>9. ASSUME NEW n \in Nodes, PotrfReturns(n) PROVE Places'
  <2>1. Active(n) /\ n \in entered BY <1>9 DEF PotrfReturns, InPotrf
  <2>3. at'[n] = at[n] + 1 /\ \A o \in Nodes : o # n => at'[o] = at[o]
    BY <1>2, <1>9 DEF PotrfReturns
  <2>4. entered' = entered \ {n} /\ UNCHANGED <<call, program, returned, rhs>>
    BY <1>9 DEF PotrfReturns
  <2>5. at[n] \in Nat /\ at[n] < Last /\ at[n] > 0 BY <1>2, <2>1 DEF Active
  <2>6. at'[n] \in Nat /\ at'[n] > 0 /\ at'[n] <= Last BY <1>1, <2>3, <2>5
  <2> QED BY <1>6, <2>1, <2>3, <2>4, <2>6
<1>10. ASSUME NEW n \in Nodes, Enter(n) PROVE Places'
  <2>1. Active(n) /\ Step(n) # IfZero /\ Operation(n).code = 0 BY <1>10 DEF Enter
  <2>2. Rejects(call) = 0 /\ Step(n).name # "if" BY <2>1, Standing
  <2>3. UNCHANGED <<call, program, at, returned>> /\ entered' = entered \cup {n}
    BY <1>10 DEF Enter
  <2>4. \A o \in entered' : Active(o)' /\ Step(o)'.name # "if" /\ Operation(o)'.code = 0
    BY <2>1, <2>2, <2>3 DEF Places, Active, Step, Operation, Last
  <2> QED BY <1>2, <2>2, <2>3, <2>4 DEF Places, Last
<1>11. ASSUME NEW n \in Nodes, Leave(n) PROVE Places'
  <2>1. call # NoCall /\ at[n] = Last BY <1>11 DEF Leave
  <2>2. UNCHANGED <<call, program, at, entered, rhs>>
         /\ \A o \in Nodes : o # n => returned'[o] = returned[o]
    BY <1>2, <1>11 DEF Leave
  <2> QED BY <2>1, <2>2 DEF Places, Active, Step, Operation, Last
<1>12. CASE Complete
  <2>1. UNCHANGED <<call, program, returned>> /\ entered' = {} BY <1>12 DEF Complete
  <2>2. \A n \in Nodes : Active(n) /\ at'[n] = at[n] + 1 BY <1>2, <1>12 DEF Complete
  <2>3. \A n \in Nodes : returned[n] = Inside /\ call # NoCall /\ Rejects(call) = 0
    BY <2>2, Standing
  <2>4. \A n \in Nodes : at'[n] <= Last' BY <1>1, <1>2, <2>1, <2>2 DEF Active, Last
  <2>5. Rejects(call) = 0 BY <2>3, HereIsNode
  <2> QED BY <2>1, <2>3, <2>4, <2>5 DEF Places
<1>13. CASE PotrfStep \/ Finalize BY <1>3, <1>13 DEF PotrfStep, Finalize, driverVars
<1>14. CASE UNCHANGED allVars BY <1>3, <1>14 DEF allVars
<1> QED BY <1>4, <1>5, <1>7, <1>8, <1>9, <1>10, <1>11, <1>12, <1>13, <1>14 DEF DriversNext

-----------------------------------------------------------------------------
(* The way the processes go.  Verdict(i) is the status a branch at i tests: *)
(* one of all processes, known from the program once the factorization, if  *)
(* there is one, is complete (Decided).  Obeyed: every process tests that   *)
(* status, and only those with 0 go on.  Followed: a process is ahead of    *)
(* another only past operations all of them pass without waiting.           *)
Verdict(i) == IF OpAt(i - 1).name = "zpotrf" THEN ginfo ELSE OpAt(i - 1).code

Loose(i) == program[i].name = "if" \/ OpAt(i).name = "zpotrf" \/ OpAt(i).code # 0
Skipped(i) == \E b \in 1 .. i : program[b].name = "if" /\ Verdict(b) # 0

Decided ==
  \A n \in Nodes : at[n] > 1 /\ Len(program) > 0 /\ OpAt(1).name = "zpotrf" => k = mt
Obeyed ==
  \A n \in Nodes, i \in 1 .. Len(program) : program[i].name = "if" =>
    /\ at[n] = i => status[n] = Verdict(i)
    /\ i < at[n] /\ at[n] < Last => Verdict(i) = 0
Followed ==
  \A n, o \in Nodes, i \in 1 .. Len(program) :
    at[o] <= i /\ i < at[n] => Loose(i) \/ Skipped(i)
Course == Decided /\ (Reduced => Obeyed /\ Followed)

(* A status that a branch has tested stays.                                 *)
LEMMA VerdictStays ==
  ASSUME Typed, Decided, [Next]_vars, UNCHANGED <<call, program>>, Reduced,
         NEW i \in 1 .. Len(program), program[i].name = "if",
         NEW n \in Nodes, at[n] >= i
  PROVE  Verdict(i)' = Verdict(i)
<1>1. Len(program) \in Nat /\ i >= 2 /\ i - 1 \in 1 .. Len(program) /\ at[n] \in Nat
  BY DEF Typed, ProgramOK, ReducedOK
<1>2. OpAt(i - 1)' = OpAt(i - 1) BY DEF OpAt
<1>3. ASSUME OpAt(i - 1).name = "zpotrf" PROVE ginfo' = ginfo
  <2>1. i - 1 = 1 BY <1>1, <1>3 DEF Typed, ProgramOK, OpAt
  <2>2. at[n] > 1 /\ Len(program) > 0 BY <1>1, <2>1
  <2>3. k = mt BY <1>3, <2>1, <2>2 DEF Decided
  <2> QED BY <2>3, TasksNext DEF Typed
<1> QED BY <1>2, <1>3 DEF Verdict

\* Nobody has gone anywhere.
LEMMA CourseInit == DriversInit => Course
<1> SUFFICES ASSUME DriversInit PROVE Course OBVIOUS
<1>1. Len(program) = 0 /\ \A n \in Nodes : at[n] = 0 BY DEF DriversInit
<1> QED BY <1>1 DEF Course, Decided, Obeyed, Followed

(* Nobody moves.                                                            *)
LEMMA CourseKept ==
  ASSUME Typed, Course, [Next]_vars, UNCHANGED <<call, program, at, status>>
  PROVE  Course'
<1>0. Len(program) \in Nat /\ at \in [Nodes -> Nat] BY DEF Typed, ProgramOK
<1>1. Last' = Last /\ Reduced' = Reduced /\ \A i : OpAt(i)' = OpAt(i) BY DEF Last, Reduced, OpAt
<1>2. k = mt => k' = mt BY TasksNext DEF Typed
<1>3. Decided' BY <1>1, <1>2 DEF Course, Decided
<1>4. ASSUME Reduced PROVE Obeyed' /\ Followed'
  <2>1. \A n \in Nodes, i \in 1 .. Len(program) :
          program[i].name = "if" /\ at[n] >= i => Verdict(i)' = Verdict(i)
    BY <1>4, VerdictStays DEF Course
  <2>2. Obeyed' BY <1>0, <1>1, <1>4, <2>1 DEF Course, Obeyed
  <2>3. Followed'
    <3>1. SUFFICES ASSUME NEW n \in Nodes, NEW o \in Nodes, NEW i \in 1 .. Len(program),
                          at[o] <= i, i < at[n]
                   PROVE  Loose(i)' \/ Skipped(i)'
      BY DEF Followed
    <3>2. CASE Loose(i) BY <1>1, <3>2 DEF Loose
    <3>3. CASE Skipped(i)
      <4>1. PICK b \in 1 .. i : program[b].name = "if" /\ Verdict(b) # 0 BY <3>3 DEF Skipped
      <4>2. Verdict(b)' = Verdict(b) BY <1>0, <2>1, <3>1, <4>1
      <4> QED BY <4>1, <4>2 DEF Skipped
    <3> QED BY <1>4, <3>1, <3>2, <3>3 DEF Course, Followed
  <2> QED BY <2>2, <2>3
<1> QED BY <1>1, <1>3, <1>4 DEF Course

(* Process n moves on to b.                                                 *)
LEMMA CourseMoves ==
  ASSUME Typed, Course, [Next]_vars, UNCHANGED <<call, program>>,
         NEW n \in Nodes, NEW b \in Nat, at[n] < b, b <= Last,
         at' = [at EXCEPT ![n] = b],
         \A o \in Nodes : o # n => status'[o] = status[o],
         b > 1 /\ OpAt(1).name = "zpotrf" => k = mt,
         Reduced => \A i \in 1 .. Len(program) :
           /\ at[n] <= i /\ i < b => Loose(i) \/ Skipped(i)
           /\ program[i].name = "if" =>
                /\ b = i => status'[n] = Verdict(i)
                /\ at[n] <= i /\ i < b /\ b < Last => Verdict(i) = 0
  PROVE  Course'
<1>0. /\ Len(program) \in Nat /\ at \in [Nodes -> Nat] /\ Last \in Nat /\ at[n] \in Nat
      /\ at'[n] = b /\ \A o \in Nodes : o # n => at'[o] = at[o]
  BY DEF Typed, ProgramOK, Last
<1>1. Last' = Last /\ Reduced' = Reduced /\ \A i : OpAt(i)' = OpAt(i) BY DEF Last, Reduced, OpAt
<1>2. k = mt => k' = mt /\ ginfo' = ginfo BY TasksNext DEF Typed
<1>3. Decided' BY <1>0, <1>1, <1>2 DEF Course, Decided
<1>4. ASSUME Reduced PROVE Obeyed' /\ Followed'
  <2>1. \A o \in Nodes, i \in 1 .. Len(program) :
          program[i].name = "if" /\ at'[o] >= i => Verdict(i)' = Verdict(i)
    <3>1. TAKE o \in Nodes, i \in 1 .. Len(program)
    <3>2. SUFFICES ASSUME program[i].name = "if", at'[o] >= i PROVE Verdict(i)' = Verdict(i)
      OBVIOUS
    <3>3. CASE o # n BY <1>0, <1>4, <3>2, <3>3, VerdictStays DEF Course
    <3>4. CASE o = n
      <4>1. i >= 2 /\ i - 1 \in 1 .. Len(program) /\ b >= i
        BY <1>0, <1>4, <3>2, <3>4 DEF Typed, ReducedOK
      <4>2. ASSUME OpAt(i - 1).name = "zpotrf" PROVE ginfo' = ginfo
        <5>1. i - 1 = 1 BY <4>1, <4>2 DEF Typed, ProgramOK, OpAt
        <5>2. b > 1 BY <4>1, <5>1
        <5> QED BY <1>2, <4>2, <5>1, <5>2
      <4> QED BY <1>1, <4>2 DEF Verdict
    <3> QED BY <3>3, <3>4
  <2>2. Obeyed'
    <3>1. SUFFICES ASSUME NEW o \in Nodes, NEW i \in 1 .. Len(program), program[i].name = "if"
                   PROVE  /\ at'[o] = i => status'[o] = Verdict(i)'
                          /\ i < at'[o] /\ at'[o] < Last => Verdict(i)' = 0
      BY <1>1 DEF Obeyed
    <3>2. at'[o] >= i => Verdict(i)' = Verdict(i) BY <2>1, <3>1
    <3>3. at'[o] \in Nat BY <1>0
    <3>4. CASE o # n BY <1>0, <1>4, <3>1, <3>2, <3>3, <3>4 DEF Course, Obeyed
    <3>5. CASE o = n
      <4>1. CASE at[n] <= i BY <1>0, <1>4, <3>1, <3>2, <3>3, <3>5, <4>1
      <4>2. CASE i < at[n]
        <5>1. b > i BY <1>0, <4>2
        <5>2. b < Last => Verdict(i) = 0 BY <1>0, <1>4, <3>1, <4>2 DEF Course, Obeyed
        <5> QED BY <1>0, <3>2, <3>5, <5>1, <5>2
      <4> QED BY <1>0, <4>1, <4>2
    <3> QED BY <3>4, <3>5
  <2>3. Followed'
    <3>1. SUFFICES ASSUME NEW v \in Nodes, NEW o \in Nodes, NEW i \in 1 .. Len(program),
                          at'[o] <= i, i < at'[v]
                   PROVE  Loose(i)' \/ Skipped(i)'
      BY DEF Followed
    <3>2. Loose(i) \/ Skipped(i)
      <4>1. at[o] <= i BY <1>0, <3>1
      <4>2. CASE i < at[v] BY <1>4, <4>1, <4>2 DEF Course, Followed
      <4>3. CASE ~(i < at[v])
        <5>1. v = n /\ at[n] <= i /\ i < b BY <1>0, <3>1, <4>3
        <5> QED BY <1>4, <5>1
      <4> QED BY <4>2, <4>3
    <3>3. CASE Loose(i) BY <1>1, <3>3 DEF Loose
    <3>4. CASE Skipped(i)
      <4>1. PICK c \in 1 .. i : program[c].name = "if" /\ Verdict(c) # 0 BY <3>4 DEF Skipped
      <4>2. at'[v] \in Nat /\ at'[v] >= c /\ c \in 1 .. Len(program) BY <1>0, <3>1
      <4>3. Verdict(c)' = Verdict(c) BY <2>1, <4>1, <4>2
      <4> QED BY <4>1, <4>3 DEF Skipped
    <3> QED BY <3>2, <3>3, <3>4
  <2> QED BY <2>2, <2>3
<1> QED BY <1>1, <1>3, <1>4 DEF Course

\* The factorization returns its result on one process, once it is complete.
LEMMA PotrfResult ==
  ASSUME SoundInv, NEW n \in Nodes, PotrfReturns(n)
  PROVE  Return(n) /\ k = mt /\ result'[n] = ginfo /\ result[n] = -1
<1>1. PICK o \in Nodes : Return(o)
  BY HereIsNode DEF PotrfReturns, ReturnHere, ReturnElsewhere
<1>2. result' = [result EXCEPT ![o] = ginfo] /\ k = mt /\ result[o] = -1 BY <1>1 DEF Return
<1>3. result \in [Nodes -> Nat \cup {-1}] BY DEF SoundInv
<1>4. result'[n] # result[n] BY DEF PotrfReturns
<1>5. n = o BY <1>2, <1>3, <1>4
<1> QED BY <1>1, <1>2, <1>3, <1>5

\* Course is kept, one step per action.
LEMMA CourseNext == Typed /\ Places /\ SoundInv /\ Course /\ [DriversNext]_allVars => Course'
<1> SUFFICES ASSUME Typed, Places, SoundInv, Course, [DriversNext]_allVars PROVE Course'
  OBVIOUS
<1>1. /\ Len(program) \in Nat /\ Last \in Nat /\ Last = Len(program) + 1
      /\ at \in [Nodes -> Nat] /\ DOMAIN status = Nodes
  BY DEF Typed, ProgramOK, Last
<1>2. [Next]_vars BY StepsOfParts
<1>3. CASE UNCHANGED <<call, program, at, status>> BY <1>2, <1>3, CourseKept
<1>4. CASE call = NoCall /\ \E c \in Calls : Invoke(c)
  <2>1. UNCHANGED at BY <1>4 DEF Invoke
  <2>2. \A n \in Nodes : at'[n] = 0 BY <1>1, <1>4, <2>1 DEF Places
  <2>3. Len(program') \in Nat BY TypedNext DEF Typed, ProgramOK
  <2> QED BY <2>2, <2>3 DEF Course, Decided, Obeyed, Followed
<1>5. ASSUME NEW n \in Nodes, Check(n) PROVE Course'
  <2>1. UNCHANGED <<call, program, status>> /\ at[n] = 0 BY <1>5 DEF Check
  <2>2. CASE at' = at BY <1>3, <2>1, <2>2
  <2>3. CASE at' # at
    <3> DEFINE b == 1
    <3>1. at' = [at EXCEPT ![n] = b] BY <1>5, <2>3 DEF Check
    <3>2. Reduced => \A i \in 1 .. Len(program) : program[i].name = "if" => i >= 2
      BY DEF Typed, ReducedOK
    <3>3. ASSUME Reduced, NEW i \in 1 .. Len(program)
          PROVE  /\ at[n] <= i /\ i < b => Loose(i) \/ Skipped(i)
                 /\ program[i].name = "if" =>
                      /\ b = i => status'[n] = Verdict(i)
                      /\ at[n] <= i /\ i < b /\ b < Last => Verdict(i) = 0
      BY <3>2, <3>3
    <3>4. b \in Nat /\ at[n] < b /\ b <= Last /\ ~(b > 1) BY <1>1, <2>1
    <3>5. \A o \in Nodes : o # n => status'[o] = status[o] BY <2>1
    <3> HIDE DEF b
    <3> QED BY <1>2, <2>1, <3>1, <3>3, <3>4, <3>5, CourseMoves
  <2> QED BY <2>2, <2>3
<1>6. ASSUME NEW n \in Nodes, Branch(n) PROVE Course'
  <2>1. Active(n) /\ Step(n) = IfZero /\ UNCHANGED <<call, program, status>> BY <1>6 DEF Branch
  <2>2. at[n] \in 1 .. Len(program) /\ program[at[n]].name = "if" BY <2>1, Standing, Names
  <2> DEFINE b == IF status[n] = 0 THEN at[n] + 1 ELSE Last
  <2>3. at' = [at EXCEPT ![n] = b] BY <1>6 DEF Branch
  <2>4. b \in Nat /\ at[n] < b /\ b <= Last BY <1>1, <2>2
  <2>5. at[n] > 0 /\ Len(program) > 0 BY <1>1, <2>2
  <2>6. ASSUME OpAt(1).name = "zpotrf" PROVE k = mt
    <3>1. program[1] = Info(zpotrf) BY <1>1, <2>5, <2>6 DEF Typed, ProgramOK, OpAt
    <3>2. at[n] # 1 BY <2>2, <3>1, Names
    <3>3. at[n] > 1 BY <2>2, <3>2
    <3> QED BY <2>5, <2>6, <3>3 DEF Course, Decided
  <2>7. ASSUME Reduced, NEW i \in 1 .. Len(program)
        PROVE  /\ at[n] <= i /\ i < b => Loose(i) \/ Skipped(i)
               /\ program[i].name = "if" =>
                    /\ b = i => status'[n] = Verdict(i)
                    /\ at[n] <= i /\ i < b /\ b < Last => Verdict(i) = 0
    <3>1. status[n] = Verdict(at[n]) BY <2>2, <2>7 DEF Course, Obeyed
    <3>2. CASE status[n] = 0
      <4>1. b = at[n] + 1 BY <3>2
      <4>2. at[n] <= i /\ i < b => i = at[n] BY <2>2, <4>1
      <4>3. program[i].name = "if" => b # i
        <5>1. SUFFICES ASSUME program[i].name = "if", b = i PROVE FALSE OBVIOUS
        <5>2. i - 1 = at[n] /\ program[i - 1].name = "info"
          BY <2>2, <2>7, <4>1, <5>1 DEF Typed, ReducedOK
        <5> QED BY <2>2, <5>2
      <4> QED BY <2>2, <3>1, <3>2, <4>2, <4>3 DEF Loose
    <3>3. CASE status[n] # 0
      <4>1. b = Last BY <3>3
      <4>2. at[n] <= i => Skipped(i) BY <2>2, <3>1, <3>3 DEF Skipped
      <4> QED BY <1>1, <4>1, <4>2
    <3> QED BY <3>2, <3>3
  <2> HIDE DEF b
  <2> QED BY <1>2, <2>1, <2>3, <2>4, <2>6, <2>7, CourseMoves
<1>7. ASSUME NEW n \in Nodes, Reject(n) PROVE Course'
  <2>1. Active(n) /\ Operation(n).code # 0 /\ UNCHANGED <<call, program>> BY <1>7 DEF Reject
  <2>2. at[n] \in 1 .. Len(program) /\ Operation(n) = OpAt(at[n]) /\ Step(n) = program[at[n]]
    BY <2>1, Standing
  <2> DEFINE b == at[n] + 1
  <2>3. at' = [at EXCEPT ![n] = b] BY <1>7 DEF Reject
  <2>4. b \in Nat /\ at[n] < b /\ b <= Last BY <1>1, <2>2
  <2>5. OpAt(at[n]).name # "zpotrf"
    BY <2>1, <2>2, Names DEF Typed, ProgramOK, OpAt, OpOf
  <2>6. ASSUME OpAt(1).name = "zpotrf" PROVE k = mt
    <3>1. at[n] > 1 /\ Len(program) > 0 BY <1>1, <2>2, <2>5, <2>6
    <3> QED BY <2>6, <3>1 DEF Course, Decided
  <2>7. /\ \A o \in Nodes : o # n => status'[o] = status[o]
        /\ Step(n).name = "info" => status'[n] = Operation(n).code
    BY <1>1, <1>7 DEF Reject
  <2>8. ASSUME Reduced, NEW i \in 1 .. Len(program)
        PROVE  /\ at[n] <= i /\ i < b => Loose(i) \/ Skipped(i)
               /\ program[i].name = "if" =>
                    /\ b = i => status'[n] = Verdict(i)
                    /\ at[n] <= i /\ i < b /\ b < Last => Verdict(i) = 0
    <3>1. at[n] <= i /\ i < b => i = at[n] BY <2>2
    <3>2. Loose(at[n]) BY <2>1, <2>2 DEF Loose
    <3>3. ASSUME program[i].name = "if", b = i PROVE status'[n] = Verdict(i)
      <4>1. i - 1 = at[n] /\ program[i - 1].name = "info"
        BY <2>2, <2>8, <3>3 DEF Typed, ReducedOK
      <4>2. status'[n] = OpAt(i - 1).code BY <2>2, <2>7, <4>1
      <4> QED BY <2>5, <4>1, <4>2 DEF Verdict
    <3>4. program[at[n]].name # "if"
      <4>1. Step(n) # IfZero BY <1>7 DEF Reject
      <4> QED BY <2>1, <2>2, <4>1, Standing
    <3> QED BY <3>1, <3>2, <3>3, <3>4
  <2> HIDE DEF b
  <2> QED BY <1>2, <2>1, <2>3, <2>4, <2>6, <2>7, <2>8, CourseMoves
<1>8. ASSUME NEW n \in Nodes, PotrfReturns(n) PROVE Course'
  <2>1. /\ Active(n) /\ Operation(n).name = "zpotrf" /\ UNCHANGED <<call, program>>
        /\ k = mt /\ result'[n] = ginfo
    BY <1>8, PotrfResult DEF PotrfReturns, InPotrf
  <2>2. at[n] \in 1 .. Len(program) /\ Operation(n) = OpAt(at[n]) BY <2>1, Standing
  <2> DEFINE b == at[n] + 1
  <2>3. at' = [at EXCEPT ![n] = b] BY <1>8 DEF PotrfReturns
  <2>4. b \in Nat /\ at[n] < b /\ b <= Last BY <1>1, <2>2
  <2>5. program[at[n]].name # "if"
    BY <2>1, <2>2, Names DEF Typed, ProgramOK, OpAt
  <2>6. status'[n] = ginfo /\ \A o \in Nodes : o # n => status'[o] = status[o]
    BY <1>1, <1>8, <2>1 DEF PotrfReturns
  <2>7. ASSUME Reduced, NEW i \in 1 .. Len(program)
        PROVE  /\ at[n] <= i /\ i < b => Loose(i) \/ Skipped(i)
               /\ program[i].name = "if" =>
                    /\ b = i => status'[n] = Verdict(i)
                    /\ at[n] <= i /\ i < b /\ b < Last => Verdict(i) = 0
    <3>1. at[n] <= i /\ i < b => i = at[n] BY <2>2
    <3>2. Loose(at[n]) BY <2>1, <2>2 DEF Loose
    <3>3. ASSUME b = i PROVE status'[n] = Verdict(i)
      <4>1. i - 1 = at[n] BY <2>2, <3>3
      <4> QED BY <2>1, <2>2, <2>6, <4>1 DEF Verdict
    <3> QED BY <2>5, <3>1, <3>2, <3>3
  <2> HIDE DEF b
  <2> QED BY <1>2, <2>1, <2>3, <2>4, <2>6, <2>7, CourseMoves
<1>9. CASE Complete
  <2>1. UNCHANGED <<call, program>> /\ at' = [n \in Nodes |-> at[n] + 1] BY <1>9 DEF Complete
  <2> DEFINE a == at[Here]
             op == OpAt(a)
  <2>2. /\ Active(Here) /\ \A n \in Nodes : at[n] = a
        /\ Step(Here) = program[a] /\ Operation(Here) = op
        /\ a \in 1 .. Len(program) /\ program[a].name # "if" /\ op.code = 0
    BY <1>9, HereIsNode, Standing DEF Complete, Here, Places
  <2>3. op.name # "zpotrf" BY <1>9, <2>2 DEF Complete, Here
  <2>4. \A n \in Nodes : at'[n] = a + 1 BY <2>1, <2>2
  <2>5. Last' = Last /\ Reduced' = Reduced /\ \A i : OpAt(i)' = OpAt(i)
    BY <2>1 DEF Last, Reduced, OpAt
  <2>6. Decided'
    <3>1. ASSUME OpAt(1).name = "zpotrf" PROVE k' = mt
      <4>1. a > 1 /\ Len(program) > 0 BY <1>1, <2>2, <2>3, <3>1
      <4>2. k = mt BY <2>2, <3>1, <4>1, HereIsNode DEF Course, Decided
      <4> QED BY <1>2, <4>2, TasksNext DEF Typed
    <3> QED BY <2>5, <3>1 DEF Decided
  <2>7. ASSUME Reduced PROVE Obeyed'
    <3>1. SUFFICES ASSUME NEW n \in Nodes, NEW i \in 1 .. Len(program), program[i].name = "if"
                   PROVE  /\ at'[n] = i => status'[n] = Verdict(i)'
                          /\ i < at'[n] /\ at'[n] < Last => Verdict(i)' = 0
      BY <2>1, <2>5 DEF Obeyed
    <3>2. CASE i = a + 1
      <4>1. i - 1 = a /\ program[a].name = "info" /\ op.name = "ztrsm"
        BY <2>2, <2>3, <2>7, <3>1, <3>2 DEF Typed, ReducedOK, OpAt, OpOf
      <4>2. Verdict(i)' = 0 BY <2>2, <2>3, <2>5, <4>1 DEF Verdict
      <4>3. status'[n] = 0
        <5>1. ~MayBeSingular(Operation(0)) BY <2>2, <4>1 DEF MayBeSingular, Here
        <5>2. Step(0).name = "info" BY <2>2, <4>1 DEF Here
        <5> QED BY <1>9, <5>1, <5>2 DEF Complete
      <4> QED BY <1>1, <2>2, <2>4, <3>2, <4>2, <4>3
    <3>3. CASE i < a
      <4>1. a < Last BY <1>1, <2>2
      <4>2. Verdict(i) = 0 BY <2>2, <2>7, <3>1, <3>3, <4>1, HereIsNode DEF Course, Obeyed
      <4>3. Verdict(i)' = Verdict(i)
        BY <1>2, <2>1, <2>2, <2>7, <3>1, <3>3, HereIsNode, VerdictStays DEF Course
      <4> QED BY <2>2, <2>4, <3>3, <4>2, <4>3
    <3> QED BY <2>2, <2>4, <3>1, <3>2, <3>3
  <2>8. Followed' BY <2>1, <2>2, <2>4 DEF Followed
  <2> QED BY <2>5, <2>6, <2>7, <2>8 DEF Course
<1>10. ASSUME NEW n \in Nodes, Enter(n) \/ Leave(n) PROVE Course'
  BY <1>3, <1>10 DEF Enter, Leave
<1>11. CASE PotrfStep \/ Finalize BY <1>3, <1>11 DEF PotrfStep, Finalize, driverVars
<1>12. CASE UNCHANGED allVars BY <1>3, <1>12 DEF allVars, driverVars
<1> QED BY <1>4, <1>5, <1>6, <1>7, <1>8, <1>9, <1>10, <1>11, <1>12 DEF DriversNext

(* No process that has left the call leaves another in an operation.        *)
LEMMA TogetherFromCourse == Typed /\ Places /\ Course => TogetherIfReduced
<1> SUFFICES ASSUME Typed, Places, Course, call # NoCall, Reduced,
                    NEW n \in Nodes, NEW o \in Nodes, returned[n] # Inside, o \in entered
             PROVE  Operation(o).name = "zpotrf"
  BY DEF TogetherIfReduced, Together, Reduced
<1>1. Active(o) /\ Step(o).name # "if" /\ Operation(o).code = 0 BY DEF Places
<1>2. /\ at[o] \in 1 .. Len(program) /\ Len(program) \in Nat /\ Last = Len(program) + 1
      /\ Rejects(call) = 0 /\ Step(o) = program[at[o]] /\ Operation(o) = OpAt(at[o])
  BY <1>1, Standing
<1>3. at[n] = Last BY <1>2 DEF Places
<1>4. at[o] <= at[o] /\ at[o] < at[n] BY <1>2, <1>3
<1>5. Loose(at[o]) \/ Skipped(at[o]) BY <1>2, <1>4 DEF Course, Followed
<1>6. CASE Loose(at[o]) BY <1>1, <1>2, <1>6 DEF Loose
<1>7. CASE Skipped(at[o])
  <2>1. PICK b \in 1 .. at[o] : program[b].name = "if" /\ Verdict(b) # 0 BY <1>7 DEF Skipped
  <2>2. b # at[o] BY <1>1, <1>2, <2>1
  <2>3. b \in 1 .. Len(program) /\ b < at[o] /\ at[o] < Last BY <1>2, <2>2
  <2>4. Verdict(b) = 0 BY <2>1, <2>3 DEF Course, Obeyed
  <2> QED BY <2>1, <2>4
<1> QED BY <1>5, <1>6, <1>7

-----------------------------------------------------------------------------
(* dplasma_zposv: behind the factorization every process has its reduced    *)
(* status, which it returns, and B is touched only if that is 0.            *)
Posv ==
  call.routine = "zposv" =>
    /\ \A n \in Nodes : at[n] > 1 => status[n] = ginfo
    /\ rhs.begun => ginfo = 0 /\ k = mt
    /\ \A n \in Nodes : returned[n] # Inside /\ at[n] # 0 => returned[n] = status[n]

\* Its program, and that the factorization is complete behind it.
LEMMA PosvProgram ==
  ASSUME Typed, Places, call.routine = "zposv", NEW n \in Nodes, at[n] > 0
  PROVE  /\ Len(program) = 4 /\ Last = 5
         /\ program[1] = Info(zpotrf) /\ program[2] = IfZero
         /\ program[3].name = "ztrsm" /\ program[4].name = "ztrsm"
<1>1. call # NoCall /\ Rejects(call) = 0 BY DEF Places
<1>2. program = zposv(call) BY <1>1 DEF Typed, Program
<1>3. Len(program) = 4 BY <1>2, PosvSteps
<1> QED BY <1>2, <1>3, PosvSteps DEF Last

\* A process of dplasma_zposv is past the factorization only where all tiles are done.
LEMMA PosvDecided ==
  ASSUME Typed, Places, Course, call.routine = "zposv", NEW n \in Nodes, at[n] > 1
  PROVE  k = mt
<1>1. at[n] \in Nat /\ at[n] > 0 BY DEF Typed
<1>2. Len(program) = 4 /\ program[1] = Info(zpotrf) BY <1>1, PosvProgram
<1>3. OpAt(1).name = "zpotrf" BY <1>2, Names DEF OpAt, OpOf
<1> QED BY <1>2, <1>3 DEF Course, Decided

\* Posv is kept, one step per action.
LEMMA PosvNext ==
  Typed /\ Places /\ SoundInv /\ Course /\ Posv /\ [DriversNext]_allVars => Posv'
<1> SUFFICES ASSUME Typed, Places, SoundInv, Course, Posv, [DriversNext]_allVars,
                    call'.routine = "zposv"
             PROVE  Posv'
  BY DEF Posv
<1>1. /\ Len(program) \in Nat /\ Last \in Nat /\ Last = Len(program) + 1
      /\ at \in [Nodes -> Nat] /\ DOMAIN status = Nodes /\ DOMAIN returned = Nodes
      /\ "begun" \in DOMAIN rhs /\ rhs.begun \in BOOLEAN
  BY DEF Typed, ProgramOK, Last
<1>2. [Next]_vars BY StepsOfParts
<1>3. k = mt => k' = mt /\ ginfo' = ginfo BY <1>2, TasksNext DEF Typed
<1>4. CASE call = NoCall /\ \E c \in Calls : Invoke(c)
  <2>1. UNCHANGED <<at, returned>> BY <1>4 DEF Invoke
  <2>2. \A n \in Nodes : at'[n] = 0 /\ returned'[n] = Inside BY <1>1, <1>4, <2>1 DEF Places
  <2>3. ~rhs'.begun BY <1>4 DEF Invoke, NoRhs
  <2> QED BY <2>2, <2>3 DEF Posv
<1>5. CASE call' = call
  <2>0. call.routine = "zposv" BY <1>5
  <2>1. \A n \in Nodes : at[n] > 1 => k = mt /\ ginfo' = ginfo /\ status[n] = ginfo
    BY <1>3, <2>0, PosvDecided DEF Posv
  <2>2. rhs.begun => ginfo' = 0 /\ k' = mt BY <1>3, <2>0 DEF Posv
  \* Nobody moves.
  <2>3. ASSUME UNCHANGED <<at, status>>, rhs'.begun = rhs.begun,
               \A n \in Nodes : returned'[n] # Inside /\ at'[n] # 0 => returned'[n] = status'[n]
        PROVE  Posv'
    BY <2>1, <2>2, <2>3 DEF Posv
  \* Process n goes on.
  <2>4. ASSUME NEW n \in Nodes, at'[n] > 1 => status'[n] = ginfo',
               \A o \in Nodes : o # n => at'[o] = at[o] /\ status'[o] = status[o],
               UNCHANGED <<returned, rhs>>, returned[n] = Inside
        PROVE  Posv'
    BY <2>0, <2>1, <2>2, <2>4 DEF Posv
  <2>5. ASSUME NEW n \in Nodes, Check(n) PROVE Posv'
    <3>1. UNCHANGED <<status, rhs>> /\ at[n] = 0 /\ \A o \in Nodes : o # n => at'[o] = at[o]
      BY <1>1, <2>5 DEF Check
    <3>2. CASE at'[n] = 1
      <4>1. UNCHANGED returned /\ returned[n] = Inside BY <1>1, <2>5, <3>1, <3>2 DEF Check
      <4> QED BY <2>4, <3>1, <3>2, <4>1
    <3>3. CASE at'[n] = 0
      <4>1. at' = at BY <1>1, <2>5, <3>3 DEF Check
      <4>2. \A o \in Nodes : o # n => returned'[o] = returned[o] BY <1>1, <2>5 DEF Check
      <4> QED BY <2>0, <2>3, <3>1, <3>3, <4>1, <4>2 DEF Posv
    <3> QED BY <1>1, <2>5, <3>2, <3>3 DEF Check
  <2>6. ASSUME NEW n \in Nodes, Branch(n) PROVE Posv'
    <3>1. Active(n) /\ Step(n) = IfZero /\ UNCHANGED <<status, rhs, returned>>
          /\ \A o \in Nodes : o # n => at'[o] = at[o]
      BY <1>1, <2>6 DEF Branch
    <3>2. at[n] \in 1 .. Len(program) /\ returned[n] = Inside /\ Step(n) = program[at[n]]
      BY <3>1, Standing
    <3>3. at[n] # 1 BY <2>0, <3>1, <3>2, PosvProgram, Names
    <3>4. at[n] > 1 BY <3>2, <3>3
    <3> QED BY <2>1, <2>4, <3>1, <3>2, <3>4
  <2>7. ASSUME NEW n \in Nodes, Reject(n) PROVE Posv'
    <3>1. Active(n) /\ Operation(n).code # 0 /\ Step(n) # IfZero /\ UNCHANGED <<rhs, returned>>
          /\ \A o \in Nodes : o # n => at'[o] = at[o] /\ status'[o] = status[o]
      BY <1>1, <2>7 DEF Reject
    <3>2. /\ at[n] \in 1 .. Len(program) /\ returned[n] = Inside /\ Step(n) = program[at[n]]
          /\ Operation(n) = OpAt(at[n])
      BY <3>1, Standing
    <3>3. at[n] # 1
      <4>1. SUFFICES ASSUME at[n] = 1 PROVE FALSE OBVIOUS
      <4>2. program[1] = Info(zpotrf) BY <2>0, <3>2, PosvProgram
      <4> QED BY <3>1, <3>2, <4>1, <4>2, Names DEF OpAt, OpOf
    <3>4. at[n] > 1 BY <3>2, <3>3
    <3>5. Step(n).name # "info"
      <4>1. /\ Len(program) = 4 /\ program[2] = IfZero
            /\ program[3].name = "ztrsm" /\ program[4].name = "ztrsm"
        BY <2>0, <3>2, PosvProgram
      <4>2. at[n] \in {2, 3, 4} BY <3>2, <3>4, <4>1
      <4> QED BY <3>2, <4>1, <4>2, Names
    <3>6. status'[n] = status[n] BY <2>7, <3>5 DEF Reject
    <3> QED BY <2>1, <2>4, <3>1, <3>2, <3>4, <3>6
  <2>8. ASSUME NEW n \in Nodes, Enter(n) PROVE Posv'
    <3>1. /\ Active(n) /\ Step(n) # IfZero /\ UNCHANGED <<at, status, returned>>
          /\ rhs' = [rhs EXCEPT !.begun = @ \/ Operation(n).name \in OnRhs]
      BY <2>8 DEF Enter
    <3>2. /\ at[n] \in 1 .. Len(program) /\ Step(n) = program[at[n]]
          /\ Operation(n) = OpAt(at[n])
      BY <3>1, Standing
    <3>3. /\ Len(program) = 4 /\ Last = 5 /\ program[1] = Info(zpotrf) /\ program[2] = IfZero
      BY <2>0, <3>2, PosvProgram
    <3>4. CASE at[n] = 1
      <4>1. Operation(n).name = "zpotrf" BY <3>2, <3>3, <3>4, Names DEF OpAt, OpOf
      <4>2. rhs'.begun = rhs.begun BY <1>1, <3>1, <4>1 DEF OnRhs
      <4> QED BY <2>0, <2>3, <3>1, <4>2 DEF Posv
    <3>5. CASE at[n] # 1
      <4>1. 2 \in 1 .. Len(program) /\ 2 < at[n] /\ at[n] < Last
        <5>1. at[n] # 2 BY <3>1, <3>2, <3>3
        <5> QED BY <3>2, <3>3, <3>5, <5>1
      <4>2. Verdict(2) = 0
        <5>1. program[2].name = "if" /\ Reduced BY <2>0, <3>3, Names DEF Reduced
        <5> QED BY <4>1, <5>1 DEF Course, Obeyed
      <4>3. Verdict(2) = ginfo BY <3>3, Names DEF Verdict, OpAt, OpOf
      <4>4. at[n] > 1 BY <4>1, <3>2
      <4>5. ginfo' = 0 /\ k' = mt BY <1>3, <2>1, <4>2, <4>3, <4>4
      <4> QED BY <2>0, <2>1, <3>1, <4>5 DEF Posv
    <3> QED BY <3>4, <3>5
  <2>9. ASSUME NEW n \in Nodes, PotrfReturns(n) PROVE Posv'
    <3>1. /\ Active(n) /\ UNCHANGED <<rhs, returned>>
          /\ \A o \in Nodes : o # n => at'[o] = at[o] /\ status'[o] = status[o]
      BY <1>1, <2>9 DEF PotrfReturns, InPotrf
    <3>2. returned[n] = Inside BY <3>1, Standing
    <3>3. status'[n] = ginfo /\ ginfo' = ginfo
      BY <1>1, <1>3, <2>9, PotrfResult DEF PotrfReturns
    <3> QED BY <2>4, <3>1, <3>2, <3>3
  <2>10. ASSUME NEW n \in Nodes, Leave(n) PROVE Posv'
    <3>1. /\ UNCHANGED <<at, status, rhs>> /\ returned'[n] = status[n]
          /\ \A o \in Nodes : o # n => returned'[o] = returned[o]
      BY <1>1, <2>0, <2>10 DEF Leave, ReturnsInfo
    <3> QED BY <2>0, <2>3, <3>1 DEF Posv
  <2>11. CASE Complete
    <3>1. /\ \A n \in Nodes : Active(n) /\ at'[n] = at[n] + 1 /\ Operation(0).name # "zpotrf"
          /\ UNCHANGED returned
      BY <1>1, <2>11 DEF Complete
    <3>2. \A n \in Nodes : returned[n] = Inside BY <3>1, Standing
    <3>3. rhs'.begun = rhs.begun BY <1>1, <2>11, RhsKept DEF Complete
    <3>4. /\ at[Here] \in 1 .. Len(program) /\ Step(Here) = program[at[Here]]
          /\ Operation(Here) = OpAt(at[Here])
      BY <3>1, Standing, HereIsNode
    <3>5. /\ Len(program) = 4 /\ program[1] = Info(zpotrf) /\ program[2] = IfZero
          /\ program[3].name = "ztrsm" /\ program[4].name = "ztrsm"
      BY <2>0, <3>4, PosvProgram, HereIsNode
    <3>6. at[Here] # 1
      BY <3>1, <3>4, <3>5, HereIsNode, Names DEF OpAt, OpOf, Here
    <3>7. at[Here] \in {2, 3, 4} BY <3>4, <3>5, <3>6
    <3>8. Step(0).name # "info" BY <3>4, <3>5, <3>7, Names DEF Here
    <3>9. status' = status BY <2>11, <3>8 DEF Complete
    <3>10. \A n \in Nodes : at[n] > 1 BY <2>11, <3>7 DEF Complete, Here
    <3> QED BY <2>1, <2>2, <3>1, <3>2, <3>3, <3>9, <3>10 DEF Posv
  <2>12. CASE UNCHANGED driverVars BY <2>0, <2>3, <2>12 DEF driverVars, Posv
  <2>13. CASE PotrfStep \/ Finalize BY <2>12, <2>13 DEF PotrfStep, Finalize
  <2>14. CASE UNCHANGED allVars BY <2>12, <2>14 DEF allVars
  <2>15. CASE call = NoCall /\ \E c \in Calls : Invoke(c) BY <1>4, <2>15
  <2> QED BY <2>5, <2>6, <2>7, <2>8, <2>9, <2>10, <2>11, <2>13, <2>14, <2>15 DEF DriversNext
<1>6. call' = call \/ (call = NoCall /\ \E c \in Calls : Invoke(c))
  BY DEF DriversNext, allVars, driverVars, Check, Branch, Reject, Enter, PotrfReturns, Leave,
         Complete, PotrfStep, Finalize
<1> QED BY <1>4, <1>5, <1>6

\* What has failed has not begun.
LEMMA StopsFromPosv == Typed /\ Places /\ Course /\ Posv => FailureStops
<1> SUFFICES ASSUME Typed, Places, Course, Posv, NEW n \in Nodes, returned[n] # Inside,
                    at[n] = 0 \/ (call.routine = "zposv" /\ returned[n] # 0)
             PROVE  ~rhs.begun
  BY DEF FailureStops
<1>1. CASE at[n] = 0
  <2>1. Last # 0 BY DEF Typed, ProgramOK, Last
  <2> QED BY <1>1, <2>1 DEF Places
<1>2. CASE at[n] # 0
  <2>1. call.routine = "zposv" /\ returned[n] # 0 BY <1>2
  <2>2. at[n] \in Nat /\ at[n] > 0 BY <1>2 DEF Typed
  <2>3. at[n] = Last /\ Last = 5 BY <1>2, <2>1, <2>2, PosvProgram DEF Places
  <2>4. returned[n] = ginfo BY <1>2, <2>1, <2>3 DEF Posv
  <2> QED BY <2>1, <2>4 DEF Posv
<1> QED BY <1>1, <1>2

-----------------------------------------------------------------------------
(* The inductive invariant of the drivers.  Each part keeps its own: a step *)
(* of the whole is one of theirs, or leaves them alone.                     *)
DriversInv ==
  /\ Typed /\ Places /\ Course /\ Posv
  /\ SoundInv /\ TableInv
  /\ devices = {"CPU"} => ExactInv

\* It holds initially, is kept by every step, and so holds always.
LEMMA DriversInvInit == DriversInit => DriversInv
<1> SUFFICES ASSUME DriversInit PROVE DriversInv OBVIOUS
<1>1. Init /\ AdttInit /\ call = NoCall BY DEF DriversInit
<1>2. Typed /\ Places /\ Course BY TypedInit, PlacesInit, CourseInit
<1>3. SoundInv BY <1>1, InitSound
<1>4. devices = {"CPU"} => ExactInv BY <1>1, InitSequential
<1>5. TableInv BY <1>1, InvInit
<1>6. Posv BY <1>1 DEF Posv, NoCall
<1> QED BY <1>2, <1>3, <1>4, <1>5, <1>6 DEF DriversInv

\* Every step keeps the invariant.
LEMMA DriversInvNext == DriversInv /\ [DriversNext]_allVars => DriversInv'
<1> SUFFICES ASSUME DriversInv, [DriversNext]_allVars PROVE DriversInv' OBVIOUS
<1>1. Typed /\ Places /\ Course /\ Posv /\ SoundInv /\ TableInv BY DEF DriversInv
<1>2. devices = {"CPU"} => ExactInv BY DEF DriversInv
<1>3. [Next]_vars /\ [TableNext]_adttVars BY <1>1, StepsOfParts
<1>4. Typed' BY <1>1, TypedNext
<1>5. Places' BY <1>1, PlacesNext
<1>6. Course' BY <1>1, CourseNext
<1>7. Posv' BY <1>1, PosvNext
<1>8. SoundInv' BY <1>1, <1>3, NextSound
<1>9. TableInv' BY <1>1, <1>3, TableNextKept
<1>10. (devices = {"CPU"} => ExactInv)' BY <1>1, <1>2, <1>3, NextSequential
<1> QED BY <1>4, <1>5, <1>6, <1>7, <1>8, <1>9, <1>10 DEF DriversInv

\* The invariant of the drivers.
LEMMA DriversInvariant == DriversSpec => []DriversInv
BY DriversInvInit, DriversInvNext, PTL DEF DriversSpec

(* Whatever the calls, the matrices, the grid and the bodies: a driver      *)
(* whose branches depend on a reduced status takes all processes the same   *)
(* way, so that none has left the call while another is inside an operation *)
(* (but dplasma_zpotrf, which a process may leave before another).          *)
THEOREM DriversStayTogether == DriversSpec => []TogetherIfReduced
<1>1. DriversInv => TogetherIfReduced BY TogetherFromCourse DEF DriversInv
<1> QED BY <1>1, DriversInvariant, PTL

(* A call that its own checks reject has not begun to overwrite the         *)
(* right-hand side, and no more has dplasma_zposv when its factorization    *)
(* failed, on whichever process it failed.                                  *)
THEOREM RejectedCallsStop == DriversSpec => []FailureStops
<1>1. DriversInv => FailureStops BY StopsFromPosv DEF DriversInv
<1> QED BY <1>1, DriversInvariant, PTL

(* In every driver the look-ups of a running taskpool find the datatypes of *)
(* its matrices, with the extents of the tiles they are asked for, whatever *)
(* the recursive taskpools and the third thread do to the table meanwhile.  *)
THEOREM DriversFindTypes == DriversSpec => []TypesExact
<1>1. DriversInv => TypesExact BY TypesFromInv DEF DriversInv
<1> QED BY <1>1, DriversInvariant, PTL

(* In every driver: no entry of the table outlives the collection it is     *)
(* about and no arena its taskpool, an entry's arena has not been freed,    *)
(* and the asserts of the table hold.                                       *)
THEOREM DriversCleanTable == DriversSpec => []TableClean
<1>1. DriversInv => TableClean BY CleanFromInv DEF DriversInv
<1> QED BY <1>1, DriversInvariant, PTL

(* In every driver that factors with dplasma_zpotrf the order it returns is *)
(* that of a minor that is really not positive definite.                    *)
THEOREM DriversNeverFalseAlarm == DriversSpec => []NoFalseAlarm
<1>1. DriversInv => NoFalseAlarm BY DEF DriversInv, SoundInv
<1> QED BY <1>1, DriversInvariant, PTL

(* And with the sequential bodies alone that status is exact.               *)
THEOREM DriversStatusExact == DriversSpec => []SequentialExact
<1>1. DriversInv => SequentialExact BY DEF DriversInv, ExactInv, SequentialExact
<1> QED BY <1>1, DriversInvariant, PTL

-----------------------------------------------------------------------------
(* What the drivers compute: the words of symbols that B and A hold.        *)

\* Words of up to three symbols, joined.
LEMMA Joined ==
  /\ \A s : <<s>> \o <<>> = <<s>>
  /\ \A s, a : <<s>> \o <<a>> = <<s, a>>
  /\ \A s, a, b : <<s>> \o <<a, b>> = <<s, a, b>>
  /\ \A s, t, a : <<s, t>> \o <<a>> = <<s, t, a>>
<1>1. ASSUME NEW s PROVE <<s>> \o <<>> = <<s>>
  <2>1. <<s>> \o <<>> \in Seq({s}) /\ <<s>> \in Seq({s}) OBVIOUS
  <2> QED BY <2>1, SeqEqual
<1>2. ASSUME NEW s, NEW a PROVE <<s>> \o <<a>> = <<s, a>>
  <2>1. <<s>> \o <<a>> \in Seq({s, a}) /\ <<s, a>> \in Seq({s, a}) OBVIOUS
  <2>2. Len(<<s>> \o <<a>>) = 2 /\ \A i \in 1 .. 2 : (<<s>> \o <<a>>)[i] = <<s, a>>[i] OBVIOUS
  <2> QED BY <2>1, <2>2, SeqEqual
<1>3. ASSUME NEW s, NEW a, NEW b PROVE <<s>> \o <<a, b>> = <<s, a, b>>
  <2>1. <<s>> \o <<a, b>> \in Seq({s, a, b}) /\ <<s, a, b>> \in Seq({s, a, b}) OBVIOUS
  <2>2. Len(<<s>> \o <<a, b>>) = 3 /\ \A i \in 1 .. 3 : (<<s>> \o <<a, b>>)[i] = <<s, a, b>>[i]
    OBVIOUS
  <2> QED BY <2>1, <2>2, SeqEqual
<1>4. ASSUME NEW s, NEW t, NEW a PROVE <<s, t>> \o <<a>> = <<s, t, a>>
  <2>1. <<s, t>> \o <<a>> \in Seq({s, t, a}) /\ <<s, t, a>> \in Seq({s, t, a}) OBVIOUS
  <2>2. Len(<<s, t>> \o <<a>>) = 3 /\ \A i \in 1 .. 3 : (<<s, t>> \o <<a>>)[i] = <<s, t, a>>[i]
    OBVIOUS
  <2> QED BY <2>1, <2>2, SeqEqual
<1> QED BY <1>1, <1>2, <1>3, <1>4

\* Inverse and transposition reverse the order of the symbols.
LEMMA ReversedWord ==
  /\ \A a, b : PseudoInverse(<<a, b>>) = <<Inv(b), Inv(a)>>
  /\ \A a, b, c : PseudoInverse(<<a, b, c>>) = <<Inv(c), Inv(b), Inv(a)>>
  /\ \A a, b, t : t # "N" => OpWord(<<a, b>>, t) = <<Op(b, t), Op(a, t)>>
  /\ \A a, b, c, t : t # "N" => OpWord(<<a, b, c>>, t) = <<Op(c, t), Op(b, t), Op(a, t)>>
<1>1. ASSUME NEW a, NEW b PROVE PseudoInverse(<<a, b>>) = <<Inv(b), Inv(a)>>
  <2> DEFINE f == [i \in 1 .. 2 |-> Inv(<<a, b>>[3 - i])]
  <2>1. PseudoInverse(<<a, b>>) = f BY DEF PseudoInverse, MapReversed
  <2>2. f \in Seq({Inv(a), Inv(b)}) /\ <<Inv(b), Inv(a)>> \in Seq({Inv(a), Inv(b)}) OBVIOUS
  <2>3. f[1] = Inv(b) /\ f[2] = Inv(a) /\ Len(f) = 2 OBVIOUS
  <2> QED BY <2>1, <2>2, <2>3, SeqEqual
<1>2. ASSUME NEW a, NEW b, NEW c
      PROVE  PseudoInverse(<<a, b, c>>) = <<Inv(c), Inv(b), Inv(a)>>
  <2> DEFINE f == [i \in 1 .. 3 |-> Inv(<<a, b, c>>[4 - i])]
             S == {Inv(a), Inv(b), Inv(c)}
  <2>1. PseudoInverse(<<a, b, c>>) = f BY DEF PseudoInverse, MapReversed
  <2>2. f \in Seq(S) /\ <<Inv(c), Inv(b), Inv(a)>> \in Seq(S) OBVIOUS
  <2>3. f[1] = Inv(c) /\ f[2] = Inv(b) /\ f[3] = Inv(a) /\ Len(f) = 3 OBVIOUS
  <2> QED BY <2>1, <2>2, <2>3, SeqEqual
<1>3. ASSUME NEW a, NEW b, NEW t, t # "N" PROVE OpWord(<<a, b>>, t) = <<Op(b, t), Op(a, t)>>
  <2> DEFINE f == [i \in 1 .. 2 |-> Op(<<a, b>>[3 - i], t)]
             S == {Op(a, t), Op(b, t)}
  <2>1. OpWord(<<a, b>>, t) = f BY <1>3 DEF OpWord, MapReversed
  <2>2. f \in Seq(S) /\ <<Op(b, t), Op(a, t)>> \in Seq(S) OBVIOUS
  <2>3. f[1] = Op(b, t) /\ f[2] = Op(a, t) /\ Len(f) = 2 OBVIOUS
  <2> QED BY <2>1, <2>2, <2>3, SeqEqual
<1>4. ASSUME NEW a, NEW b, NEW c, NEW t, t # "N"
      PROVE  OpWord(<<a, b, c>>, t) = <<Op(c, t), Op(b, t), Op(a, t)>>
  <2> DEFINE f == [i \in 1 .. 3 |-> Op(<<a, b, c>>[4 - i], t)]
             S == {Op(a, t), Op(b, t), Op(c, t)}
  <2>1. OpWord(<<a, b, c>>, t) = f BY <1>4 DEF OpWord, MapReversed
  <2>2. f \in Seq(S) /\ <<Op(c, t), Op(b, t), Op(a, t)>> \in Seq(S) OBVIOUS
  <2>3. f[1] = Op(c, t) /\ f[2] = Op(b, t) /\ f[3] = Op(a, t) /\ Len(f) = 3 OBVIOUS
  <2> QED BY <2>1, <2>2, <2>3, SeqEqual
<1> QED BY <1>1, <1>2, <1>3, <1>4

\* A symbol under op and its inverse.
LEMMA Symbols ==
  ASSUME NEW f
  PROVE  /\ Sym(f).of = f /\ Op(Sym(f), "N") = Sym(f)
         /\ \A t : Op(Sym(f), t).of = f
         /\ f \in Unitary => Inv(Sym(f)) = Op(Sym(f), "C")
         /\ f \in Unitary => \A t \in {"T", "C"} :
              /\ Op(Op(Sym(f), "C"), t) = Sym(f)
              /\ Inv(Op(Sym(f), t)) = Sym(f)
<1>1. Sym(f).of = f /\ Sym(f).op = "N" BY DEF Sym
<1>2. Op(Sym(f), "N") = Sym(f) BY DEF Op
<1>3. \A t : Op(Sym(f), t).of = f BY DEF Sym, Op
<1>4. f \in Unitary => Inv(Sym(f)) = Op(Sym(f), "C") BY <1>1 DEF Inv
<1>5. ASSUME f \in Unitary, NEW t \in {"T", "C"}
      PROVE  Op(Sym(f), t) = [Sym(f) EXCEPT !.op = "C"]
  BY <1>1, <1>5 DEF Op
<1>6. [[Sym(f) EXCEPT !.op = "C"] EXCEPT !.op = "N"] = Sym(f)
  <2>1. \A s : s = [of |-> s.of, op |-> s.op, inv |-> s.inv] =>
          [[s EXCEPT !.op = "C"] EXCEPT !.op = "N"] = [s EXCEPT !.op = "N"]
    OBVIOUS
  <2>2. \A s : s = [of |-> s.of, op |-> s.op, inv |-> s.inv] /\ s.op = "N" =>
          [s EXCEPT !.op = "N"] = s
    OBVIOUS
  <2>3. Sym(f) = [of |-> Sym(f).of, op |-> Sym(f).op, inv |-> Sym(f).inv] BY Zenon DEF Sym
  <2> QED BY <1>1, <2>1, <2>2, <2>3
<1>7. ASSUME f \in Unitary, NEW t \in {"T", "C"}
      PROVE  Op([Sym(f) EXCEPT !.op = "C"], t) = Sym(f)
  <2>1. [Sym(f) EXCEPT !.op = "C"].op = "C" BY DEF Sym
  <2> QED BY <1>6, <1>7, <2>1 DEF Op
<1>8. ASSUME f \in Unitary, NEW t \in {"T", "C"} PROVE Inv(Op(Sym(f), t)) = Sym(f)
  <2>1. Op(Sym(f), t).of = f BY <1>3
  <2>2. Inv(Op(Sym(f), t)) = Op(Op(Sym(f), t), "C") BY <1>8, <2>1 DEF Inv
  <2> QED BY <1>5, <1>7, <1>8, <2>2
<1> QED BY <1>1, <1>2, <1>3, <1>4, <1>5, <1>7, <1>8

\* Where none of the conditions holds no argument is rejected.
LEMMA NoneFails ==
  /\ \A a, x : ~a => FirstCode(<< <<a, x>> >>) = 0
  /\ \A a, b, x, y : ~a /\ ~b => FirstCode(<< <<a, x>>, <<b, y>> >>) = 0
  /\ \A a, b, c, x, y, z :
       ~a /\ ~b /\ ~c => FirstCode(<< <<a, x>>, <<b, y>>, <<c, z>> >>) = 0
  /\ \A a, b, c, d, x, y, z, w :
       ~a /\ ~b /\ ~c /\ ~d => FirstCode(<< <<a, x>>, <<b, y>>, <<c, z>>, <<d, w>> >>) = 0
<1>0. ASSUME NEW checks, \A i \in DOMAIN checks : ~checks[i][1] PROVE FirstCode(checks) = 0
  BY <1>0 DEF FirstCode
<1>1. ASSUME NEW a, NEW x, ~a PROVE FirstCode(<< <<a, x>> >>) = 0
  <2> DEFINE q == << <<a, x>> >>
  <2>1. DOMAIN q = {1} /\ q[1] = <<a, x>> OBVIOUS
  <2>2. \A i \in DOMAIN q : ~q[i][1] BY <1>1, <2>1
  <2> QED BY <1>0, <2>2
<1>2. ASSUME NEW a, NEW b, NEW x, NEW y, ~a, ~b
      PROVE  FirstCode(<< <<a, x>>, <<b, y>> >>) = 0
  <2> DEFINE q == << <<a, x>>, <<b, y>> >>
  <2>1. DOMAIN q = {1, 2} /\ q[1] = <<a, x>> /\ q[2] = <<b, y>> OBVIOUS
  <2>2. \A i \in DOMAIN q : ~q[i][1] BY <1>2, <2>1
  <2> QED BY <1>0, <2>2
<1>3. ASSUME NEW a, NEW b, NEW c, NEW x, NEW y, NEW z, ~a, ~b, ~c
      PROVE  FirstCode(<< <<a, x>>, <<b, y>>, <<c, z>> >>) = 0
  <2> DEFINE q == << <<a, x>>, <<b, y>>, <<c, z>> >>
  <2>1. DOMAIN q = {1, 2, 3} /\ q[1] = <<a, x>> /\ q[2] = <<b, y>> /\ q[3] = <<c, z>> OBVIOUS
  <2>2. \A i \in DOMAIN q : ~q[i][1] BY <1>3, <2>1
  <2> QED BY <1>0, <2>2
<1>4. ASSUME NEW a, NEW b, NEW c, NEW d, NEW x, NEW y, NEW z, NEW w, ~a, ~b, ~c, ~d
      PROVE  FirstCode(<< <<a, x>>, <<b, y>>, <<c, z>>, <<d, w>> >>) = 0
  <2> DEFINE q == << <<a, x>>, <<b, y>>, <<c, z>>, <<d, w>> >>
  <2>1. /\ DOMAIN q = {1, 2, 3, 4}
        /\ q[1] = <<a, x>> /\ q[2] = <<b, y>> /\ q[3] = <<c, z>> /\ q[4] = <<d, w>>
    OBVIOUS
  <2>2. \A i \in DOMAIN q : ~q[i][1] BY <1>4, <2>1
  <2> QED BY <1>0, <2>2
<1> QED BY <1>1, <1>2, <1>3, <1>4

\* The operations of a legal call pass their own checks.
LEMMA Codes ==
  /\ \A u, t, d, a, b :
       u \in {"Upper", "Lower"} /\ t \in {"N", "T", "C"} /\ d \in {"Unit", "NonUnit"}
         /\ a.m = a.n /\ a.n = b => ztrsm(u, t, d, a, b).code = 0
  /\ \A u, a : u \in {"Upper", "Lower"} /\ a.m = a.n =>
       ztrtri(u, a).code = 0 /\ zlauum(u, a).code = 0
  /\ \A a, t : ~TilesDiffer(t, a) => zgeqrf(a, t).code = 0 /\ zgelqf(a, t).code = 0
  /\ \A t, a, ts, b : t \in {"N", "C"} /\ (\A x \in ts : ~TilesDiffer(x, a)) =>
       /\ a.m = b /\ ~(a.n > b) => zunmqr(t, a, ts, b).code = 0
       /\ a.n = b /\ ~(a.m > b) => zunmlq(t, a, ts, b).code = 0
  /\ \A a, p : p.mt = 1 /\ ~(Less(Tiles(a.n), Tiles(a.m)) > p.nt) => zgetrf_1d(a, p).code = 0
  /\ \A a, l, p : ~TilesDiffer(l, a) /\ ~TilesDiffer(p, a) =>
       zgetrf_incpiv(a, l, p).code = 0 /\ ztrsmpl_incpiv(a, l, p).code = 0
<1>1. ASSUME NEW u, NEW t, NEW d, NEW a, NEW b,
             u \in {"Upper", "Lower"}, t \in {"N", "T", "C"}, d \in {"Unit", "NonUnit"},
             a.m = a.n, a.n = b
      PROVE  ztrsm(u, t, d, a, b).code = 0
  <2>1. ~BadUplo(u) /\ ~BadTrans(t) /\ ~(d \notin {"Unit", "NonUnit"}) /\ ~(a.m # a.n \/ a.n # b)
    BY <1>1 DEF BadUplo, BadTrans
  <2> QED BY <2>1, NoneFails DEF ztrsm
<1>2. ASSUME NEW u, NEW a, u \in {"Upper", "Lower"}, a.m = a.n
      PROVE  ztrtri(u, a).code = 0 /\ zlauum(u, a).code = 0
  <2>1. ~BadUplo(u) /\ ~(a.m # a.n) BY <1>2 DEF BadUplo
  <2> QED BY <2>1, NoneFails DEF ztrtri, zlauum
<1>3. ASSUME NEW a, NEW t, ~TilesDiffer(t, a)
      PROVE  zgeqrf(a, t).code = 0 /\ zgelqf(a, t).code = 0
  BY <1>3, NoneFails DEF zgeqrf, zgelqf
<1>4. ASSUME NEW t, NEW a, NEW ts, NEW b, t \in {"N", "C"}, \A x \in ts : ~TilesDiffer(x, a)
      PROVE  /\ a.m = b /\ ~(a.n > b) => zunmqr(t, a, ts, b).code = 0
             /\ a.n = b /\ ~(a.m > b) => zunmlq(t, a, ts, b).code = 0
  <2>1. ~BadTrans(t) /\ ~(\E x \in ts : TilesDiffer(x, a)) BY <1>4 DEF BadTrans
  <2>2. ASSUME a.m = b, ~(a.n > b) PROVE zunmqr(t, a, ts, b).code = 0
    <3> DEFINE e == a.m # b
               f == a.n > b
               g == \E x \in ts : TilesDiffer(x, a)
    <3>1. ~e /\ ~f /\ ~g BY <2>1, <2>2
    <3> HIDE DEF e, f, g
    <3>2. FirstCode(<< <<BadTrans(t), -2>>, <<e, -3>>, <<f, -5>>, <<g, -20>> >>) = 0
      BY <2>1, <3>1, NoneFails
    <3> QED BY <3>2 DEF zunmqr, e, f, g
  <2>3. ASSUME a.n = b, ~(a.m > b) PROVE zunmlq(t, a, ts, b).code = 0
    <3> DEFINE e == a.n # b
               f == a.m > b
               g == \E x \in ts : TilesDiffer(x, a)
    <3>1. ~e /\ ~f /\ ~g BY <2>1, <2>3
    <3> HIDE DEF e, f, g
    <3>2. FirstCode(<< <<BadTrans(t), -2>>, <<e, -3>>, <<f, -5>>, <<g, -20>> >>) = 0
      BY <2>1, <3>1, NoneFails
    <3> QED BY <3>2 DEF zunmlq, e, f, g
  <2> QED BY <2>2, <2>3
<1>5. ASSUME NEW a, NEW p, p.mt = 1, ~(Less(Tiles(a.n), Tiles(a.m)) > p.nt)
      PROVE  zgetrf_1d(a, p).code = 0
  <2>1. ~(p.mt # 1 \/ Less(Tiles(a.n), Tiles(a.m)) > p.nt) BY <1>5
  <2> QED BY <2>1, NoneFails DEF zgetrf_1d
<1>6. ASSUME NEW a, NEW l, NEW p, ~TilesDiffer(l, a), ~TilesDiffer(p, a)
      PROVE  zgetrf_incpiv(a, l, p).code = 0 /\ ztrsmpl_incpiv(a, l, p).code = 0
  BY <1>6, NoneFails DEF zgetrf_incpiv, ztrsmpl_incpiv
<1> QED BY <1>1, <1>2, <1>3, <1>4, <1>5, <1>6

\* The symbol of a solve with factor f.
By(f, t) == Inv(Op(Sym(f), t))
EC == Op(Sym("E"), "C")

-----------------------------------------------------------------------------
(* What A and B hold before every operation of a call and behind the last,  *)
(* where nothing has failed.  The factors are those of the caller before a  *)
(* routine that factorizes has done so.                                     *)
Contents(f, w, r, z) == [factors |-> f, word |-> w, rows |-> r, zero |-> z]
Then(s, w) == Contents(s.factors, w \o s.word, s.rows, s.zero)
Resized(s, w, r) == Contents(s.factors, w \o s.word, r, s.zero)
Cleared(s) == Contents(s.factors, s.word, s.rows, TRUE)

\* What the caller provides: A and its factorization, a right-hand side of the rows of op(A).
Before(c) ==
  Contents(Factorization(c), <<>>, Less(c.B, IF Trans(c) = "N" THEN c.A.m ELSE c.A.n), FALSE)

\* Solves with the factors of dplasma_zpotrf, dplasma_zgetrf_1d and dplasma_zgetrf_incpiv.
OfChol(c) == IF c.uplo = "Upper" THEN "U" ELSE "L"
PotrsTrail(c, s) ==
  LET x == Then(s, <<By(OfChol(c), IF c.uplo = "Upper" THEN "C" ELSE "N")>>)
      y == Then(x, <<By(OfChol(c), IF c.uplo = "Upper" THEN "N" ELSE "C")>>)
  IN <<s, x, y>>
GetrsTrail(t, s) ==
  LET p == Then(s, <<Sym("P")>>)
      l == Then(p, <<By("L1", "N")>>)
      u == Then(l, <<By("U", "N")>>)
      v == Then(s, <<By("U", t)>>)
      w == Then(v, <<By("L1", t)>>)
      q == Then(w, <<Op(Sym("P"), "C")>>)
  IN IF t = "N" THEN <<s, p, l, u>> ELSE <<s, v, w, q>>
IncpivTrail(s) ==
  LET l == Then(s, <<Inv(Sym("Lp"))>>)
      u == Then(l, <<By("U", "N")>>)
  IN <<s, l, u>>

\* A solve with the triangle of QR or LQ, on all rows of B or on its first r.
Solved(s, f, t, r) ==
  IF r = s.rows THEN Then(s, <<By(f, t)>>) ELSE Resized(s, <<By(f, t), EC>>, r)
\* A rotation, of all rows of B or of those before the cleared ones.
Turned(s, t, r) ==
  IF r = s.rows THEN Then(s, <<Op(Sym("Q"), t)>>)
  ELSE Resized(s, <<Op(Sym("Q"), t), Sym("E")>>, r)

GeqrsTrail(c, s) ==
  LET q == Then(s, <<Op(Sym("Q"), "C")>>)
  IN <<s, q, Solved(q, "R", "N", c.A.n)>>
GelqsTrail(c, s) ==
  LET l == Then(s, <<By("L", "N")>>)
  IN <<s, l, Then(l, <<Op(Sym("Q"), "C")>>)>>
GelsTrail(c, s) ==
  LET q == Then(s, <<Op(Sym("Q"), IF c.A.m >= c.A.n THEN "C" ELSE "N")>>)
      r == Then(s, <<By("R", "C")>>)
      l == Then(s, <<By("L", "N")>>)
  IN CASE c.A.m >= c.A.n /\ c.trans = "N" -> <<s, s, q, Solved(q, "R", "N", c.A.n)>>
       [] c.A.m < c.A.n /\ c.trans # "N" -> <<s, s, q, Solved(q, "L", "C", c.A.m)>>
       [] c.A.m = c.A.n /\ c.trans # "N" -> <<s, s, r, r, Turned(r, "N", c.A.m)>>
       [] c.A.m > c.A.n /\ c.trans # "N" ->
            <<s, s, r, r, Cleared(r), Turned(Cleared(r), "N", c.A.m)>>
       [] OTHER -> <<s, s, l, l, Cleared(l), Turned(Cleared(l), "C", c.A.n)>>

\* The inverse.
Inverted(c) == <<Inv(Sym(OfChol(c)))>>
PotriTrail(c, s) ==
  <<s, Contents(Inverted(c), s.word, s.rows, s.zero),
    Contents(PseudoInverse(Chol(c.uplo)), s.word, s.rows, s.zero)>>

Trail(c) ==
  LET s == Before(c)
  IN CASE c.routine = "zpotrf" -> <<s, s>>
       [] c.routine = "zposv" -> <<s, s>> \o PotrsTrail(c, s)
       [] c.routine = "zpotrs" -> PotrsTrail(c, s)
       [] c.routine = "zpotri" -> PotriTrail(c, s)
       [] c.routine = "zpoinv_sync" -> <<s>> \o PotriTrail(c, s)
       [] c.routine = "zgesv_1d" -> <<s, s>> \o GetrsTrail("N", s)
       [] c.routine = "zgetrs" -> GetrsTrail(c.trans, s)
       [] c.routine = "zgesv_incpiv" -> <<s, s>> \o IncpivTrail(s)
       [] c.routine = "zgetrs_incpiv" -> IncpivTrail(s)
       [] c.routine \in {"zgeqrs", "zgeqrs_param"} -> GeqrsTrail(c, s)
       [] c.routine \in {"zgelqs", "zgelqs_param"} -> GelqsTrail(c, s)
       [] OTHER -> GelsTrail(c, s)

(* The contents are s; early: whatever the factors, as the routine has not  *)
(* factorized yet.                                                          *)
Content(s, early) ==
  /\ rhs.word = s.word /\ rhs.rows = s.rows /\ (s.zero => rhs.zero)
  /\ early \/ factors = s.factors
Early(i) == i <= 1 /\ call.routine \in FactorizesItself
On(i) == Content(Trail(call)[IF i = 0 THEN 1 ELSE i], Early(i))

(* A zero pivot of an LU factorization: who has learnt of it leaves, the    *)
(* others wait for them in the solve.                                       *)
LUSolvers == {"zgesv_1d", "zgesv_incpiv"}
Parted ==
  /\ call.routine \in LUSolvers
  /\ \E o \in Nodes : status[o] # 0
  /\ \A n \in Nodes : at[n] \in (IF status[n] = 0 THEN {2, 3} ELSE {2, Last})

\* The calls of which LegalSolved says something.
Wanted == call # NoCall /\ Legal(call) /\ ~KnownUnsolved(call) /\ devices = {"CPU"}

(* A status counts from an operation to the branch behind it, where its     *)
(* process leaves, and is what the call returns.                            *)
Statuses ==
  \A n \in Nodes :
    /\ status[n] \in Nat
    /\ status[n] # 0 =>
         /\ at[n] > 1 /\ (at[n] = Last \/ program[at[n]].name = "if")
         /\ call.routine \in ReturnsInfo
    /\ returned[n] # Inside => returned[n] = IF call.routine \in ReturnsInfo THEN status[n] ELSE 0
    /\ at[n] > 1 /\ status[n] = 0 => minor = 0

(* Nobody passes the operation behind dplasma_zpotrf and its branch before  *)
(* all have passed dplasma_zpotrf.                                          *)
Waiting ==
  call.routine \in UsesPotrf => \A n, o \in Nodes :
    at[n] <= 1 /\ status[o] = 0 => at[o] <= 2 \/ (at[o] = 3 /\ program[2].name = "if")

\* Who has learnt of no failure stands at its place in the trail.
AllOn == \A n \in Nodes : status[n] = 0 => On(at[n])

(* The invariant of the contents: a wanted call is on its trail, or a zero  *)
(* pivot has parted its processes.                                          *)
Words ==
  /\ call = NoCall => \A n \in Nodes : status[n] = 0
  /\ call # NoCall /\ call.routine \notin UsesPotrf => minor = 0
  /\ Wanted => Statuses /\ Waiting /\ (Parted \/ AllOn)

-----------------------------------------------------------------------------
(* One operation on these contents.                                         *)

\* The factor a solve finds.
Found(w, u, d, f) ==
  /\ \E s \in Range(w) : Triangle(s.of) = <<u, d>>
  /\ \A s \in Range(w) : Triangle(s.of) = <<u, d>> => s.of = f

\* The symbols of a word of two or three.
LEMMA Ranges ==
  /\ \A a, b : Range(<<a, b>>) = {a, b}
  /\ \A a, b, c : Range(<<a, b, c>>) = {a, b, c}
<1>1. ASSUME NEW a, NEW b PROVE Range(<<a, b>>) = {a, b}
  <2>1. DOMAIN <<a, b>> = {1, 2} OBVIOUS
  <2> QED BY <2>1 DEF Range
<1>2. ASSUME NEW a, NEW b, NEW c PROVE Range(<<a, b, c>>) = {a, b, c}
  <2>1. DOMAIN <<a, b, c>> = {1, 2, 3} OBVIOUS
  <2> QED BY <2>1 DEF Range
<1> QED BY <1>1, <1>2

\* The part of A that holds each triangular factor.
LEMMA Triangles ==
  /\ Triangle("U") = <<"Upper", "NonUnit">> /\ Triangle("R") = <<"Upper", "NonUnit">>
  /\ Triangle("L") = <<"Lower", "NonUnit">> /\ Triangle("L1") = <<"Lower", "Unit">>
  /\ \A f \in {"P", "Q", "E", "Lp"} : Triangle(f) = <<>>
  BY DEF Triangle

\* A solve finds the one factor in the part of A it reads.
LEMMA FoundChol ==
  /\ Found(Chol("Upper"), "Upper", "NonUnit", "U")
  /\ Found(Chol("Lower"), "Lower", "NonUnit", "L")
<1>1. Range(Chol("Upper")) = {Op(Sym("U"), "C"), Sym("U")} BY Ranges DEF Chol
<1>2. Range(Chol("Lower")) = {Sym("L"), Op(Sym("L"), "C")} BY Ranges DEF Chol
<1> QED BY <1>1, <1>2, Symbols, Triangles DEF Found

\* The same in the factors of the two LU factorizations.
LEMMA FoundLU ==
  /\ Found(LU, "Lower", "Unit", "L1") /\ Found(LU, "Upper", "NonUnit", "U")
  /\ Found(LUIncpiv, "Upper", "NonUnit", "U")
<1>1. Range(LU) = {Op(Sym("P"), "C"), Sym("L1"), Sym("U")} BY Ranges DEF LU
<1>2. Range(LUIncpiv) = {Sym("Lp"), Sym("U")} BY Ranges DEF LUIncpiv
<1>3. Triangle("P") # <<"Lower", "Unit">> /\ Triangle("P") # <<"Upper", "NonUnit">>
  BY Triangles
<1>4. Triangle("Lp") # <<"Upper", "NonUnit">> BY Triangles
<1> QED BY <1>1, <1>2, <1>3, <1>4, Symbols, Triangles DEF Found

\* The same in the factors of QR and LQ, where a rotation finds Q as well.
LEMMA FoundQR ==
  ASSUME NEW a
  PROVE  /\ Found(QR(a), "Upper", "NonUnit", "R") /\ Sym("Q") \in Range(QR(a))
         /\ Found(LQ(a), "Lower", "NonUnit", "L") /\ Sym("Q") \in Range(LQ(a))
<1>1. \/ Range(QR(a)) = {Sym("Q"), Sym("R")} \/ Range(QR(a)) = {Sym("Q"), Sym("E"), Sym("R")}
  BY Ranges DEF QR
<1>2. \/ Range(LQ(a)) = {Sym("L"), Sym("Q")}
      \/ Range(LQ(a)) = {Sym("L"), Op(Sym("E"), "C"), Sym("Q")}
  BY Ranges DEF LQ
<1>3. \A f \in {"Q", "E"} :
        Triangle(f) # <<"Upper", "NonUnit">> /\ Triangle(f) # <<"Lower", "NonUnit">>
  BY Triangles
<1> QED BY <1>1, <1>2, <1>3, Symbols, Triangles DEF Found

\* The fields of B that the operations read.
Fields == {"word", "rows", "zero"} \subseteq DOMAIN rhs

\* What dplasma_ztrsm does to B with factor f, on all its rows or on the first op.bm.
LEMMA Solves ==
  ASSUME Fields, NEW op, op.name = "ztrsm", NEW f, Found(factors, op.uplo, op.diag, f),
         rhs.rows \in Int, op.bm \in Int
  PROVE  LET b == RhsAfter(op)
         IN /\ op.bm <= rhs.rows => b.zero = rhs.zero
            /\ op.bm = rhs.rows =>
                 b.word = <<By(f, op.trans)>> \o rhs.word /\ b.rows = rhs.rows
            /\ op.bm < rhs.rows =>
                 /\ b.word = <<By(f, op.trans), Op(Sym("E"), "C")>> \o rhs.word
                 /\ b.rows = op.bm
<1> DEFINE found == {s \in Range(factors) : Triangle(s.of) = <<op.uplo, op.diag>>}
           s == Inv(Op(Sym((CHOOSE x \in found : TRUE).of), op.trans))
<1>1. found # {} /\ \A x \in found : x.of = f BY DEF Found
<1>2. (CHOOSE x \in found : TRUE) \in found BY <1>1
<1>3. s = By(f, op.trans) BY <1>1, <1>2 DEF By
<1>4. RhsAfter(op) = Solve(op) BY DEF RhsAfter
<1>5. Solve(op) = IF found = {} \/ op.bm > rhs.rows THEN Spoiled
                  ELSE IF op.bm = rhs.rows THEN Apply(s)
                  ELSE [rhs EXCEPT !.word = <<s, Op(Sym("E"), "C")>> \o @, !.rows = op.bm]
  BY DEF Solve
<1> HIDE DEF found, s
<1>6. CASE op.bm = rhs.rows
  <2>1. Solve(op) = Apply(s) BY <1>1, <1>5, <1>6
  <2> QED BY <1>3, <1>4, <1>6, <2>1 DEF Apply, Fields
<1>7. CASE op.bm < rhs.rows
  <2>1. Solve(op) = [rhs EXCEPT !.word = <<s, Op(Sym("E"), "C")>> \o @, !.rows = op.bm]
    BY <1>1, <1>5, <1>7
  <2> QED BY <1>3, <1>4, <1>7, <2>1 DEF Fields
<1> QED BY <1>6, <1>7

\* What dplasma_zunmqr and dplasma_zunmlq do to B.
LEMMA Rotates ==
  ASSUME Fields, NEW op, op.name \in {"zunmqr", "zunmlq"}, Sym("Q") \in Range(factors)
  PROVE  LET b == RhsAfter(op)
         IN /\ rhs.rows = call.B =>
                 b.word = <<Op(Sym("Q"), op.trans)>> \o rhs.word /\ b.rows = rhs.rows
            /\ rhs.rows # call.B /\ rhs.zero =>
                 /\ b.word = <<Op(Sym("Q"), op.trans), Sym("E")>> \o rhs.word
                 /\ b.rows = call.B
            /\ rhs.rows = call.B \/ rhs.zero => b.zero = rhs.zero
<1>1. RhsAfter(op) = Rotate(op.trans) BY DEF RhsAfter
<1>2. CASE rhs.rows = call.B BY <1>1, <1>2 DEF Rotate, Apply, Fields
<1>3. CASE rhs.rows # call.B /\ rhs.zero BY <1>1, <1>3 DEF Rotate, Fields
<1> QED BY <1>2, <1>3

\* The tile of a row lies between those of the rows before and behind it.
LEMMA TileOfRow ==
  ASSUME NEW x \in Nat, NEW y \in Nat, x <= y
  PROVE  /\ x \div mb \in Nat /\ y \div mb \in Nat /\ x \div mb <= y \div mb
         /\ (x \div mb) * mb <= x /\ x <= (x \div mb) * mb + mb - 1
<1>1. mb \in Nat \ {0} BY SizeAssumption
<1>2. /\ x \div mb \in Nat /\ x % mb \in 0 .. mb-1 /\ x = mb * (x \div mb) + (x % mb)
  BY <1>1, DivMod
<1>3. /\ y \div mb \in Nat /\ y % mb \in 0 .. mb-1 /\ y = mb * (y \div mb) + (y % mb)
  BY <1>1, DivMod
<1>4. ASSUME NEW q \in Nat, NEW l \in Nat, l < q PROVE mb * l + mb <= mb * q
  <2>1. l + 1 <= q BY <1>4
  <2>2. mb * (l + 1) <= mb * q BY <1>1, <2>1
  <2>3. mb * (l + 1) = mb * l + mb BY <1>1
  <2> QED BY <2>2, <2>3
<1>5. x \div mb <= y \div mb
  <2> SUFFICES ASSUME y \div mb < x \div mb PROVE FALSE BY <1>2, <1>3
  <2>1. mb * (y \div mb) + mb <= mb * (x \div mb) BY <1>2, <1>3, <1>4
  <2> DEFINE a == mb * (x \div mb)
             b == mb * (y \div mb)
  <2>2. a \in Nat /\ b \in Nat BY <1>1, <1>2, <1>3
  <2>3. x = a + (x % mb) /\ y = b + (y % mb) /\ b + mb <= a BY <1>2, <1>3, <2>1
  <2> HIDE DEF a, b
  <2> QED BY <1>1, <1>2, <1>3, <2>2, <2>3
<1>6. (x \div mb) * mb = mb * (x \div mb) BY <1>1, <1>2
<1> DEFINE a == mb * (x \div mb)
<1>7. a \in Nat /\ x = a + (x % mb) /\ (x \div mb) * mb = a BY <1>1, <1>2, <1>6
<1> HIDE DEF a
<1> QED BY <1>1, <1>2, <1>3, <1>5, <1>7

\* dplasma_zlaset clears the rows behind those of B if they begin with a tile.
LEMMA Blanks ==
  ASSUME NEW op, op.from \in Nat, op.rows \in Nat \ {0}, op.from % mb = 0,
         op.from = rhs.rows, op.from + op.rows = call.B
  PROVE  Blank(op) = [rhs EXCEPT !.zero = TRUE]
<1> DEFINE f == op.from
           e == f + op.rows - 1
           first == f \div mb
           last == e \div mb
           tempmm(t) == IF t = last THEN op.rows - (t - first) * mb ELSE mb
           part(t) == t * mb .. t * mb + tempmm(t) - 1
<1>1. mb \in Nat \ {0} /\ f \in Nat /\ e \in Nat /\ f <= e BY SizeAssumption
<1>2. first \in Nat /\ last \in Nat /\ first <= last BY <1>1, TileOfRow
<1>3. first * mb = f
  <2>1. f = mb * first + (f % mb) BY <1>1, DivMod
  <2>2. mb * first = first * mb BY <1>1, <1>2
  <2> QED BY <1>1, <1>2, <2>1, <2>2
<1>4. Overwritten(op) = UNION {part(t) : t \in first .. last} BY DEF Overwritten
<1> HIDE DEF first, last
<1>5. ASSUME NEW t \in first .. last PROVE t * mb \in Nat /\ f <= t * mb
  <2>1. t \in Nat /\ first <= t BY <1>2, <1>5
  <2>2. first * mb <= t * mb /\ t * mb \in Nat BY <1>1, <1>2, <2>1
  <2> QED BY <1>3, <2>2
<1>6. Overwritten(op) \cap (0 .. f-1) = {}
  <2> SUFFICES ASSUME NEW t \in first .. last, NEW x \in part(t), x \in 0 .. f-1 PROVE FALSE
    BY <1>4
  <2> DEFINE a == t * mb
  <2>1. a \in Nat /\ f <= a BY <1>5
  <2>2. x \in a .. a + tempmm(t) - 1 OBVIOUS
  <2> HIDE DEF a, tempmm, part
  <2>3. x \in Int /\ a <= x BY <2>2
  <2> QED BY <1>1, <2>1, <2>3
<1>7. f .. call.B-1 \subseteq Overwritten(op)
  <2> SUFFICES ASSUME NEW x \in f .. e PROVE \E t \in first .. last : x \in part(t)
    BY <1>1, <1>4
  <2> DEFINE t == x \div mb
             a == t * mb
  <2>1. x \in Nat /\ f <= x /\ x <= e BY <1>1
  <2>2. t \in Nat /\ first <= t /\ t <= last BY <1>1, <2>1, TileOfRow DEF first, last
  <2>3. a <= x /\ x <= a + mb - 1 BY <2>1, TileOfRow
  <2>4. a \in Nat BY <1>1, <2>2
  <2>5. t = last => x <= a + (op.rows - (t - first) * mb) - 1
    <3>1. (t - first) * mb = a - first * mb BY <1>1, <1>2, <2>2
    <3> HIDE DEF a, t
    <3>2. op.rows - (t - first) * mb = op.rows - a + f BY <1>1, <1>3, <2>4, <3>1
    <3> QED BY <1>1, <2>1, <2>4, <3>2
  <2> HIDE DEF a
  <2>6. x <= a + tempmm(t) - 1 BY <2>3, <2>5
  <2>7. tempmm(t) \in Int BY <1>1, <1>2, <2>2
  <2>8. x \in a .. a + tempmm(t) - 1 BY <2>1, <2>3, <2>4, <2>6, <2>7
  <2>9. x \in part(t) BY <2>8 DEF a
  <2> HIDE DEF t, part
  <2> QED BY <1>2, <2>2, <2>9
<1> QED BY <1>6, <1>7 DEF Blank

\* What the other operations do to B.
LEMMA OthersApply ==
  ASSUME Fields, NEW op
  PROVE  LET b == RhsAfter(op)
         IN /\ op.name = "zlaswp" =>
                 /\ b.word = <<Op(Sym("P"), IF op.inc = 1 THEN "N" ELSE "C")>> \o rhs.word
                 /\ b.rows = rhs.rows /\ b.zero = rhs.zero
            /\ op.name = "ztrsmpl_incpiv" =>
                 /\ b.word = <<Inv(Sym("Lp"))>> \o rhs.word
                 /\ b.rows = rhs.rows /\ b.zero = rhs.zero
            /\ /\ op.name = "zlaset" /\ op.from \in Nat /\ op.rows \in Nat \ {0}
               /\ op.from % mb = 0 /\ op.from = rhs.rows /\ op.from + op.rows = call.B
               => b.word = rhs.word /\ b.rows = rhs.rows /\ b.zero
            /\ op.name \in {"zgeqrf", "zgelqf", "zgetrf_1d", "zgetrf_incpiv", "ztrtri", "zlauum"} =>
                 b = rhs
<1>1. CASE op.name = "zlaswp" BY <1>1 DEF RhsAfter, Apply, Fields
<1>2. CASE op.name = "ztrsmpl_incpiv" BY <1>2 DEF RhsAfter, Apply, Fields
<1>3. CASE op.name = "zlaset"
  <2>1. RhsAfter(op) = Blank(op) BY <1>3 DEF RhsAfter
  <2> QED BY <1>3, <2>1, Blanks DEF Fields
<1>4. CASE op.name \in {"zgeqrf", "zgelqf", "zgetrf_1d", "zgetrf_incpiv", "ztrtri", "zlauum"}
  BY <1>4 DEF RhsAfter
<1> QED BY <1>1, <1>2, <1>3, <1>4

\* Every operation keeps the fields of B.
LEMMA FieldsKept == ASSUME Fields, NEW op PROVE DOMAIN RhsAfter(op) = DOMAIN rhs
<1>1. \A s : DOMAIN Apply(s) = DOMAIN rhs BY DEF Apply
<1>2. DOMAIN Spoiled = DOMAIN rhs BY DEF Spoiled
<1>3. DOMAIN Solve(op) = DOMAIN rhs BY <1>1, <1>2 DEF Solve
<1>4. DOMAIN Rotate(op.trans) = DOMAIN rhs BY <1>1, <1>2 DEF Rotate
<1>5. DOMAIN Blank(op) = DOMAIN rhs BY <1>2 DEF Blank
<1> QED BY <1>1, <1>3, <1>4, <1>5 DEF RhsAfter

\* What an operation leaves in A.
LEMMA FactorsKept ==
  ASSUME NEW op, NEW z
  PROVE  /\ op.name \in {"ztrsm", "zunmqr", "zunmlq", "zlaswp", "ztrsmpl_incpiv", "zlaset"} =>
              FactorsAfter(op, z) = factors
         /\ op.name \in {"zgeqrf", "zgelqf"} => FactorsAfter(op, z) = Factorization(call)
         /\ op.name \in {"zgetrf_1d", "zgetrf_incpiv"} =>
              FactorsAfter(op, z) = IF z THEN Junk ELSE Factorization(call)
  BY DEF FactorsAfter

-----------------------------------------------------------------------------
(* Operation i of program p takes the contents before it to those behind    *)
(* it, in trail t.                                                          *)
After(op, s) ==
  /\ FactorsAfter(op, FALSE) = s.factors
  /\ RhsAfter(op).word = s.word /\ RhsAfter(op).rows = s.rows /\ (s.zero => RhsAfter(op).zero)
Link(p, t, i) ==
  LET op == OpOf(p[i])
  IN /\ p[i].name = "if" => i > 1 /\ t[i + 1] = t[i]
     /\ p[i].name # "if" => op.code = 0
     /\ p[i].name # "if" /\ op.name = "zpotrf" =>
          /\ i = 1 /\ t[2] = t[1] /\ t[1].factors = Chol(call.uplo)
          /\ call.routine \in UsesPotrf /\ (minor # 0 => Len(p) = 1 \/ p[2].name = "if")
     /\ p[i].name # "if" /\ op.name # "zpotrf" /\ Content(t[i], Early(i)) =>
          /\ After(op, t[i + 1])
          /\ MayBeSingular(op) =>
               /\ i = 1 /\ call.routine \in LUSolvers /\ p[2].name = "if"
               /\ op.name \in {"zgetrf_1d", "zgetrf_incpiv"}

\* The fields of contents, and of those an operation makes of them.
LEMMA ContentsAre ==
  /\ \A f, w, r, z : /\ Contents(f, w, r, z).factors = f /\ Contents(f, w, r, z).word = w
                     /\ Contents(f, w, r, z).rows = r /\ Contents(f, w, r, z).zero = z
  /\ \A s, w : /\ Then(s, w).factors = s.factors /\ Then(s, w).word = w \o s.word
               /\ Then(s, w).rows = s.rows /\ Then(s, w).zero = s.zero
  /\ \A s, w, r : /\ Resized(s, w, r).factors = s.factors /\ Resized(s, w, r).word = w \o s.word
                  /\ Resized(s, w, r).rows = r /\ Resized(s, w, r).zero = s.zero
  /\ \A s : /\ Cleared(s).factors = s.factors /\ Cleared(s).word = s.word
            /\ Cleared(s).rows = s.rows /\ Cleared(s).zero
<1>1. \A f, w, r, z : /\ Contents(f, w, r, z).factors = f /\ Contents(f, w, r, z).word = w
                      /\ Contents(f, w, r, z).rows = r /\ Contents(f, w, r, z).zero = z
  BY DEF Contents
<1>2. \A s, w : /\ Then(s, w).factors = s.factors /\ Then(s, w).word = w \o s.word
                /\ Then(s, w).rows = s.rows /\ Then(s, w).zero = s.zero
  BY DEF Then, Contents
<1>3. \A s, w, r : /\ Resized(s, w, r).factors = s.factors
                   /\ Resized(s, w, r).word = w \o s.word
                   /\ Resized(s, w, r).rows = r /\ Resized(s, w, r).zero = s.zero
  BY DEF Resized, Contents
<1>4. \A s : /\ Cleared(s).factors = s.factors /\ Cleared(s).word = s.word
             /\ Cleared(s).rows = s.rows
  BY DEF Cleared, Contents
<1>5. \A s : Cleared(s).zero BY DEF Cleared, Contents
<1> QED BY <1>1, <1>2, <1>3, <1>4, <1>5

\* An operation that has written to B.
LEMMA AfterWrite ==
  ASSUME NEW op, NEW s, Content(s, FALSE), FactorsAfter(op, FALSE) = factors,
         NEW w, NEW r, RhsAfter(op).word = w \o rhs.word, RhsAfter(op).rows = r,
         RhsAfter(op).zero = rhs.zero
  PROVE  /\ After(op, Resized(s, w, r))
         /\ r = rhs.rows => After(op, Then(s, w))
<1>1. factors = s.factors /\ rhs.word = s.word /\ rhs.rows = s.rows BY DEF Content
<1>2. s.zero => RhsAfter(op).zero BY DEF Content
<1>3. After(op, Resized(s, w, r))
  <2> DEFINE q == Resized(s, w, r)
  <2>1. q.factors = s.factors /\ q.word = w \o s.word /\ q.rows = r /\ q.zero = s.zero
    BY ContentsAre
  <2> HIDE DEF q
  <2>2. RhsAfter(op).word = q.word /\ RhsAfter(op).rows = q.rows BY <1>1, <2>1
  <2>3. FactorsAfter(op, FALSE) = q.factors BY <1>1, <2>1
  <2>4. q.zero => RhsAfter(op).zero BY <1>2, <2>1
  <2>5. After(op, q) BY <2>2, <2>3, <2>4 DEF After
  <2> QED BY <2>5 DEF q
<1>4. Then(s, w) = Resized(s, w, s.rows) BY DEF Then, Resized
<1> QED BY <1>1, <1>3, <1>4

\* A branch.
LEMMA LinkBranch ==
  ASSUME NEW p, NEW t, NEW i, p[i] = IfZero, i > 1, t[i + 1] = t[i]
  PROVE  Link(p, t, i)
  BY Names DEF Link

\* An operation that does not meet a singular factor.
LEMMA LinkPlain ==
  ASSUME NEW p, NEW t, NEW i, NEW op, p[i].name # "if", OpOf(p[i]) = op, op.code = 0,
         op.name \in {"ztrsm", "zunmqr", "zunmlq", "zlaswp", "ztrsmpl_incpiv", "zlaset",
                      "zgeqrf", "zgelqf", "zlauum"},
         Content(t[i], Early(i)) => After(op, t[i + 1])
  PROVE  Link(p, t, i)
<1>1. ~MayBeSingular(op) BY DEF MayBeSingular
<1>2. op.name # "zpotrf" OBVIOUS
<1> QED BY <1>1, <1>2 DEF Link

\* A solve, with all rows of B or with its first.
LEMMA LinkSolve ==
  ASSUME Fields, NEW p, NEW t, NEW i, NEW op, p[i].name # "if", OpOf(p[i]) = op, op.code = 0,
         op.name = "ztrsm", ~Early(i), NEW f, Found(t[i].factors, op.uplo, op.diag, f),
         t[i].rows \in Int, op.bm \in Int,
         \/ op.bm = t[i].rows /\ t[i + 1] = Then(t[i], <<By(f, op.trans)>>)
         \/ op.bm < t[i].rows /\ t[i + 1] = Resized(t[i], <<By(f, op.trans), EC>>, op.bm)
  PROVE  Link(p, t, i)
<1>1. ASSUME Content(t[i], Early(i)) PROVE After(op, t[i + 1])
  <2>1. /\ factors = t[i].factors /\ rhs.word = t[i].word /\ rhs.rows = t[i].rows
        /\ (t[i].zero => rhs.zero)
    BY <1>1 DEF Content
  <2>2. FactorsAfter(op, FALSE) = factors BY FactorsKept
  <2> DEFINE b == RhsAfter(op)
  <2>3. /\ op.bm <= rhs.rows => b.zero = rhs.zero
        /\ op.bm = rhs.rows =>
             b.word = <<By(f, op.trans)>> \o rhs.word /\ b.rows = rhs.rows
        /\ op.bm < rhs.rows =>
             b.word = <<By(f, op.trans), EC>> \o rhs.word /\ b.rows = op.bm
    BY <2>1, Solves DEF EC
  <2> HIDE DEF b
  <2>4. Content(t[i], FALSE) BY <1>1 DEF Content
  <2>5. CASE op.bm = t[i].rows /\ t[i + 1] = Then(t[i], <<By(f, op.trans)>>)
    <3>1. b.word = <<By(f, op.trans)>> \o rhs.word /\ b.rows = rhs.rows /\ b.zero = rhs.zero
      BY <2>1, <2>3, <2>5
    <3>2. After(op, Then(t[i], <<By(f, op.trans)>>)) BY <2>2, <2>4, <3>1, AfterWrite DEF b
    <3> QED BY <2>5, <3>2
  <2>6. CASE op.bm < t[i].rows /\ t[i + 1] = Resized(t[i], <<By(f, op.trans), EC>>, op.bm)
    <3>1. b.word = <<By(f, op.trans), EC>> \o rhs.word /\ b.rows = op.bm /\ b.zero = rhs.zero
      BY <2>1, <2>3, <2>6
    <3>2. After(op, Resized(t[i], <<By(f, op.trans), EC>>, op.bm))
      BY <2>2, <2>4, <3>1, AfterWrite DEF b
    <3> QED BY <2>6, <3>2
  <2> QED BY <2>5, <2>6
<1> QED BY <1>1, LinkPlain

\* A rotation of all rows of B, or of those it had and the cleared ones.
LEMMA LinkTurn ==
  ASSUME Fields, NEW p, NEW t, NEW i, NEW op, p[i].name # "if", OpOf(p[i]) = op, op.code = 0,
         op.name \in {"zunmqr", "zunmlq"}, ~Early(i), Sym("Q") \in Range(t[i].factors),
         \/ t[i].rows = call.B /\ t[i + 1] = Then(t[i], <<Op(Sym("Q"), op.trans)>>)
         \/ /\ t[i].rows # call.B /\ t[i].zero
            /\ t[i + 1] = Resized(t[i], <<Op(Sym("Q"), op.trans), Sym("E")>>, call.B)
  PROVE  Link(p, t, i)
<1>1. ASSUME Content(t[i], Early(i)) PROVE After(op, t[i + 1])
  <2>1. /\ factors = t[i].factors /\ rhs.word = t[i].word /\ rhs.rows = t[i].rows
        /\ (t[i].zero => rhs.zero)
    BY <1>1 DEF Content
  <2>2. FactorsAfter(op, FALSE) = factors BY FactorsKept
  <2> DEFINE b == RhsAfter(op)
  <2>3. /\ rhs.rows = call.B =>
             b.word = <<Op(Sym("Q"), op.trans)>> \o rhs.word /\ b.rows = rhs.rows
        /\ rhs.rows # call.B /\ rhs.zero =>
             b.word = <<Op(Sym("Q"), op.trans), Sym("E")>> \o rhs.word /\ b.rows = call.B
        /\ rhs.rows = call.B \/ rhs.zero => b.zero = rhs.zero
    BY <2>1, Rotates
  <2> HIDE DEF b
  <2>4. Content(t[i], FALSE) BY <1>1 DEF Content
  <2>5. CASE t[i].rows = call.B /\ t[i + 1] = Then(t[i], <<Op(Sym("Q"), op.trans)>>)
    <3>1. b.word = <<Op(Sym("Q"), op.trans)>> \o rhs.word /\ b.rows = rhs.rows /\ b.zero = rhs.zero
      BY <2>1, <2>3, <2>5
    <3>2. After(op, Then(t[i], <<Op(Sym("Q"), op.trans)>>)) BY <2>2, <2>4, <3>1, AfterWrite DEF b
    <3> QED BY <2>5, <3>2
  <2>6. CASE /\ t[i].rows # call.B /\ t[i].zero
             /\ t[i + 1] = Resized(t[i], <<Op(Sym("Q"), op.trans), Sym("E")>>, call.B)
    <3>1. rhs.rows # call.B /\ rhs.zero BY <2>1, <2>6
    <3>2. /\ b.word = <<Op(Sym("Q"), op.trans), Sym("E")>> \o rhs.word
          /\ b.rows = call.B /\ b.zero = rhs.zero
      BY <2>3, <3>1
    <3>3. After(op, Resized(t[i], <<Op(Sym("Q"), op.trans), Sym("E")>>, call.B))
      BY <2>2, <2>4, <3>2, AfterWrite DEF b
    <3> QED BY <2>6, <3>3
  <2> QED BY <2>5, <2>6
<1> QED BY <1>1, LinkPlain

\* Interchanges, the lower factor of the incremental pivoting, and cleared rows.
LEMMA LinkOthers ==
  ASSUME Fields, NEW p, NEW t, NEW i, NEW op, p[i].name # "if", OpOf(p[i]) = op, op.code = 0,
         ~Early(i),
         \/ /\ op.name = "zlaswp"
            /\ t[i + 1] = Then(t[i], <<Op(Sym("P"), IF op.inc = 1 THEN "N" ELSE "C")>>)
         \/ op.name = "ztrsmpl_incpiv" /\ t[i + 1] = Then(t[i], <<Inv(Sym("Lp"))>>)
         \/ /\ op.name = "zlaset" /\ t[i + 1] = Cleared(t[i])
            /\ op.from \in Nat /\ op.rows \in Nat \ {0} /\ op.from % mb = 0
            /\ op.from = t[i].rows /\ op.from + op.rows = call.B
  PROVE  Link(p, t, i)
<1>1. ASSUME Content(t[i], Early(i)) PROVE After(op, t[i + 1])
  <2>1. /\ factors = t[i].factors /\ rhs.word = t[i].word /\ rhs.rows = t[i].rows
        /\ (t[i].zero => rhs.zero)
    BY <1>1 DEF Content
  <2>2. FactorsAfter(op, FALSE) = factors BY FactorsKept
  <2>3. Content(t[i], FALSE) BY <1>1 DEF Content
  <2> DEFINE b == RhsAfter(op)
  <2>4. CASE op.name = "zlaswp"
    <3> DEFINE w == <<Op(Sym("P"), IF op.inc = 1 THEN "N" ELSE "C")>>
    <3>1. b.word = w \o rhs.word /\ b.rows = rhs.rows /\ b.zero = rhs.zero
      BY <2>4, OthersApply
    <3>2. t[i + 1] = Then(t[i], w) BY <2>4
    <3> HIDE DEF b, w
    <3>3. After(op, Then(t[i], w)) BY <2>2, <2>3, <3>1, AfterWrite DEF b
    <3> QED BY <3>2, <3>3
  <2>5. CASE op.name = "ztrsmpl_incpiv"
    <3> DEFINE w == <<Inv(Sym("Lp"))>>
    <3>1. b.word = w \o rhs.word /\ b.rows = rhs.rows /\ b.zero = rhs.zero
      BY <2>5, OthersApply
    <3>2. t[i + 1] = Then(t[i], w) BY <2>5
    <3> HIDE DEF b, w
    <3>3. After(op, Then(t[i], w)) BY <2>2, <2>3, <3>1, AfterWrite DEF b
    <3> QED BY <3>2, <3>3
  <2>6. CASE op.name = "zlaset"
    <3>1. /\ t[i + 1] = Cleared(t[i]) /\ op.from = rhs.rows /\ op.from + op.rows = call.B
          /\ op.from \in Nat /\ op.rows \in Nat \ {0} /\ op.from % mb = 0
      BY <2>1, <2>6
    <3>2. b.word = rhs.word /\ b.rows = rhs.rows BY <2>6, <3>1, OthersApply
    <3>3. b.zero BY <2>6, <3>1, OthersApply
    <3> DEFINE q == t[i + 1]
    <3>4. q.factors = factors /\ q.word = rhs.word /\ q.rows = rhs.rows
      BY <2>1, <3>1, ContentsAre
    <3> HIDE DEF b, q
    <3> QED BY <2>2, <3>2, <3>3, <3>4 DEF After, b, q
  <2> QED BY <2>4, <2>5, <2>6
<1> QED BY <1>1, LinkPlain

\* A factorization.
LEMMA LinkFactor ==
  ASSUME Fields, NEW p, NEW t, NEW op, p[1].name # "if", OpOf(p[1]) = op, op.code = 0,
         op.name \in {"zgeqrf", "zgelqf", "zgetrf_1d", "zgetrf_incpiv"},
         op.name \in {"zgetrf_1d", "zgetrf_incpiv"} =>
           call.routine \in LUSolvers /\ p[2].name = "if",
         t[1].factors = Factorization(call), t[2] = t[1]
  PROVE  Link(p, t, 1)
<1>1. FactorsAfter(op, FALSE) = Factorization(call) BY FactorsKept
<1>2. RhsAfter(op) = rhs BY OthersApply
<1>3. Content(t[1], Early(1)) => After(op, t[2]) BY <1>1, <1>2 DEF Content, After
<1>4. MayBeSingular(op) => op.name \in {"zgetrf_1d", "zgetrf_incpiv"} BY DEF MayBeSingular
<1>5. op.name # "zpotrf" OBVIOUS
<1> QED BY <1>3, <1>4, <1>5 DEF Link

\* The sizes of a legal call.
LEMMA LegalSizes ==
  ASSUME NEW c \in Calls, Legal(c)
  PROVE  /\ c.A.m \in Nat /\ c.A.n \in Nat /\ c.B \in Nat /\ c.B >= c.A.m /\ c.B >= c.A.n
         /\ c.B = c.A.m \/ c.B = c.A.n
         /\ Before(c) = Contents(Factorization(c), <<>>,
                                 IF Trans(c) = "N" THEN c.A.m ELSE c.A.n, FALSE)
<1>1. c.A.m \in Nat /\ c.A.n \in Nat /\ c.B \in Nat BY CallsAssumption
<1>2. c.B >= c.A.m /\ c.B >= c.A.n /\ (c.B = c.A.m \/ c.B = c.A.n)
  <2>1. CASE c.routine \in {"zgels", "zgeqrs", "zgelqs", "zgeqrs_param", "zgelqs_param"}
    <3>1. c.B = Max({c.A.m, c.A.n}) BY <2>1 DEF Legal
    <3>2. PICK x \in {c.A.m, c.A.n} : \A y \in {c.A.m, c.A.n} : x >= y
      <4>1. c.A.m >= c.A.n \/ c.A.n >= c.A.m BY <1>1
      <4> QED BY <1>1, <4>1
    <3>3. c.B \in {c.A.m, c.A.n} /\ \A y \in {c.A.m, c.A.n} : c.B >= y BY <3>1, <3>2 DEF Max
    <3> QED BY <3>3
  <2>2. CASE c.routine \notin {"zgels", "zgeqrs", "zgelqs", "zgeqrs_param", "zgelqs_param"}
    BY <1>1, <2>2 DEF Legal
  <2> QED BY <2>1, <2>2
<1>3. Less(c.B, c.A.m) = c.A.m /\ Less(c.B, c.A.n) = c.A.n BY <1>1, <1>2 DEF Less
<1> QED BY <1>1, <1>2, <1>3 DEF Before

\* A legal call passes its own checks.
LEMMA LegalAccepted ==
  ASSUME NEW c \in Calls, Legal(c)
  PROVE  Rejects(c) = 0
<1>0. c.A.m \in Nat /\ c.A.n \in Nat /\ c.B \in Nat /\ c.B >= c.A.m /\ c.B >= c.A.n
  BY LegalSizes
<1>1. CASE c.routine \in {"zposv", "zpotrs", "zpotri", "zpoinv_sync"}
  <2>1. ~BadUplo(c.uplo) BY <1>1 DEF Legal
  <2> QED BY <1>1, <2>1, NoneFails DEF Rejects
<1>2. CASE c.routine = "zgetrs"
  <2>1. ~BadTrans(c.trans) BY <1>2 DEF Legal
  <2> QED BY <1>2, <2>1, NoneFails DEF Rejects
<1>3. CASE c.routine = "zgetrs_incpiv"
  <2>1. ~(c.trans # "N") BY <1>3 DEF Legal
  <2> QED BY <1>3, <2>1, NoneFails DEF Rejects
<1>4. CASE c.routine = "zgels"
  <2>1. ~(c.trans \notin {"N", "C"}) /\ ~TilesDiffer(c.T, c.A) BY <1>4 DEF Legal
  <2>2. ~(c.B < c.A.n /\ c.B < c.A.m) BY <1>0
  <2> DEFINE e == c.trans \notin {"N", "C"}
             f == c.B < c.A.n /\ c.B < c.A.m
  <2> HIDE DEF e, f
  <2>3. FirstCode(<< <<e, -1>>, <<TilesDiffer(c.T, c.A), -3>>, <<f, -4>> >>) = 0
    BY <2>1, <2>2, NoneFails DEF e, f
  <2> QED BY <1>4, <2>3 DEF Rejects, e, f
<1>5. CASE c.routine \in {"zgeqrs", "zgeqrs_param"}
  <2>1. ~(c.A.n > c.A.m) /\ ~TilesDiffer(c.T, c.A) /\ ~TilesDiffer(c.TT, c.A)
    <3>1. c.A.m >= c.A.n /\ ~TilesDiffer(c.T, c.A) /\ ~TilesDiffer(c.TT, c.A)
      BY <1>5 DEF Legal
    <3> QED BY <1>0, <3>1
  <2>2. ~(c.B < c.A.m) BY <1>0
  <2> DEFINE e == c.A.n > c.A.m
             f == c.B < c.A.m
  <2>3. ~e /\ ~f BY <2>1, <2>2
  <2> HIDE DEF e, f
  <2>4. FirstCode(<< <<e, -1>>, <<TilesDiffer(c.T, c.A), -2>>, <<f, -3>> >>) = 0
    BY <2>1, <2>3, NoneFails
  <2>5. FirstCode(<< <<e, -2>>, <<TilesDiffer(c.T, c.A), -3>>, <<TilesDiffer(c.TT, c.A), -4>>,
                     <<f, -5>> >>) = 0
    BY <2>1, <2>3, NoneFails
  <2> QED BY <1>5, <2>4, <2>5 DEF Rejects, e, f
<1>6. CASE c.routine \in {"zgelqs", "zgelqs_param"}
  <2>1. ~(c.A.m > c.A.n) /\ ~TilesDiffer(c.T, c.A) /\ ~TilesDiffer(c.TT, c.A)
    <3>1. c.A.n >= c.A.m /\ ~TilesDiffer(c.T, c.A) /\ ~TilesDiffer(c.TT, c.A)
      BY <1>6 DEF Legal
    <3> QED BY <1>0, <3>1
  <2>2. ~(c.B < c.A.n) BY <1>0
  <2> DEFINE e == c.A.m > c.A.n
             f == c.B < c.A.n
  <2>3. ~e /\ ~f BY <2>1, <2>2
  <2> HIDE DEF e, f
  <2>4. FirstCode(<< <<e, -1>>, <<TilesDiffer(c.T, c.A), -2>>, <<f, -3>> >>) = 0
    BY <2>1, <2>3, NoneFails
  <2>5. FirstCode(<< <<e, -1>>, <<TilesDiffer(c.T, c.A), -2>>, <<TilesDiffer(c.TT, c.A), -2>>,
                     <<f, -3>> >>) = 0
    BY <2>1, <2>3, NoneFails
  <2> QED BY <1>6, <2>4, <2>5 DEF Rejects, e, f
<1>7. CASE c.routine \in {"zpotrf", "zgesv_1d", "zgesv_incpiv"} BY <1>7 DEF Rejects
<1>8. c.routine \in Routines BY CallsAssumption
<1> QED BY <1>1, <1>2, <1>3, <1>4, <1>5, <1>6, <1>7, <1>8 DEF Routines

\* Op and Inv commute, and the one symbol that is no factor.
LEMMA InverseOf ==
  ASSUME NEW f, f \notin Unitary
  PROVE  /\ Op(Inv(Sym(f)), "C") = Inv(Op(Sym(f), "C"))
         /\ By(f, "N") = Inv(Sym(f))
         /\ Inv(Sym(f)).of = f
<1> DEFINE r == Sym(f)
           v == ~r.inv
<1>1. r = [of |-> f, op |-> "N", inv |-> r.inv] BY DEF Sym
<1>2. Inv(r) = [r EXCEPT !.inv = v] BY <1>1 DEF Inv
<1>3. Op(r, "C") = [r EXCEPT !.op = "C"] BY <1>1 DEF Op
<1> HIDE DEF r, v
<1>4. Inv(r).of = f /\ Inv(r).op = "N" BY <1>1, <1>2
<1>5. Op(Inv(r), "C") = [Inv(r) EXCEPT !.op = "C"] BY <1>4 DEF Op
<1>6. Op(r, "C").of = f /\ Op(r, "C").inv = r.inv BY <1>1, <1>3
<1>7. Inv(Op(r, "C")) = [Op(r, "C") EXCEPT !.inv = ~@] BY <1>6 DEF Inv
<1>8. Inv(Op(r, "C")) = [Op(r, "C") EXCEPT !.inv = v] BY <1>6, <1>7 DEF v
<1>9. Op(Inv(r), "C") = Inv(Op(r, "C"))
  <2>1. Inv(r) = [of |-> f, op |-> "N", inv |-> v] BY <1>1, <1>2
  <2>2. Op(r, "C") = [of |-> f, op |-> "C", inv |-> r.inv] BY <1>1, <1>3
  <2>3. Op(Inv(r), "C") = [of |-> f, op |-> "C", inv |-> v] BY <1>5, <2>1
  <2>4. Inv(Op(r, "C")) = [of |-> f, op |-> "C", inv |-> v] BY <1>8, <2>2
  <2> QED BY <2>3, <2>4
<1>10. By(f, "N") = Inv(r) BY Symbols DEF By, r
<1> QED BY <1>4, <1>9, <1>10 DEF r

\* An operation that has written to A.
LEMMA AfterFactor ==
  ASSUME NEW op, NEW s, Content(s, FALSE), NEW g, FactorsAfter(op, FALSE) = g, RhsAfter(op) = rhs
  PROVE  After(op, Contents(g, s.word, s.rows, s.zero))
<1> DEFINE q == Contents(g, s.word, s.rows, s.zero)
<1>1. q.factors = g /\ q.word = s.word /\ q.rows = s.rows /\ q.zero = s.zero BY ContentsAre
<1> HIDE DEF q
<1>2. RhsAfter(op).word = q.word /\ RhsAfter(op).rows = q.rows BY <1>1 DEF Content
<1>3. q.zero => RhsAfter(op).zero BY <1>1 DEF Content
<1>4. After(op, q) BY <1>1, <1>2, <1>3 DEF After
<1> QED BY <1>4 DEF q

\* dplasma_zpotri: operations j + 1 and j + 2.
LEMMA PotriLinks ==
  ASSUME Fields, NEW p, NEW t, NEW j \in {0, 1}, NEW s, call.A.m = call.A.n, ~BadUplo(call.uplo),
         p[j + 1] = Info(ztrtri(call.uplo, call.A)), p[j + 2] = zlauum(call.uplo, call.A),
         t[j + 1] = s, t[j + 2] = PotriTrail(call, s)[2], t[j + 3] = PotriTrail(call, s)[3],
         s.factors = Chol(call.uplo), ~Early(j + 1), ~Early(j + 2)
  PROVE  Link(p, t, j + 1) /\ Link(p, t, j + 2)
<1> DEFINE u == call.uplo
           f == OfChol(call)
           a == ztrtri(u, call.A)
           b == zlauum(u, call.A)
<1>1. u \in {"Upper", "Lower"} BY DEF BadUplo
<1>2. a.code = 0 /\ b.code = 0 /\ a.name = "ztrtri" /\ b.name = "zlauum" BY <1>1, Codes, Names
<1>3. a.uplo = u /\ b.uplo = u BY DEF ztrtri, zlauum
<1>4. OpOf(p[j + 1]) = a /\ OpOf(p[j + 2]) = b /\ p[j + 1].name = "info" /\ p[j + 2].name = "zlauum"
  BY <1>2, Names DEF OpOf
<1>5. /\ t[j + 2] = Contents(Inverted(call), s.word, s.rows, s.zero)
      /\ t[j + 3] = Contents(PseudoInverse(Chol(u)), s.word, s.rows, s.zero)
  BY DEF PotriTrail
<1>6. f \in {"U", "L"} /\ f \notin Unitary /\ f # "junk" /\ f = IF u = "Upper" THEN "U" ELSE "L"
  BY DEF OfChol, Unitary
<1>7. Junk # Chol(u) /\ Junk # Inverted(call)
  <2>1. Junk[1].of = "junk" BY Symbols DEF Junk
  <2>2. Chol(u)[1].of \in {"U", "L"} BY Symbols DEF Chol
  <2>3. Inverted(call)[1].of = f BY <1>6, InverseOf DEF Inverted
  <2> QED BY <1>6, <2>1, <2>2, <2>3
<1>8. PseudoInverse(Chol(u)) = IF u = "Upper" THEN <<Inv(Sym(f)), Op(Inv(Sym(f)), "C")>>
                               ELSE <<Op(Inv(Sym(f)), "C"), Inv(Sym(f))>>
  <2>1. Op(Inv(Sym(f)), "C") = Inv(Op(Sym(f), "C")) BY <1>6, InverseOf
  <2>2. CASE u = "Upper"
    <3>1. Chol(u) = <<Op(Sym(f), "C"), Sym(f)>> BY <1>6, <2>2 DEF Chol
    <3> QED BY <2>1, <2>2, <3>1, ReversedWord
  <2>3. CASE u # "Upper"
    <3>1. Chol(u) = <<Sym(f), Op(Sym(f), "C")>> BY <1>6, <2>3 DEF Chol
    <3> QED BY <2>1, <2>3, <3>1, ReversedWord
  <2> QED BY <2>2, <2>3
<1> HIDE DEF a, b, u, f
<1>9. ASSUME Content(s, FALSE)
      PROVE  After(a, t[j + 2]) /\ ~MayBeSingular(a)
  <2>1. factors = Chol(u) BY <1>9 DEF Content, u
  <2>2. FactorsAfter(a, FALSE) = <<Inv(Sym(IF u = "Upper" THEN "U" ELSE "L"))>>
    BY <1>2, <1>3, <2>1 DEF FactorsAfter
  <2>3. RhsAfter(a) = rhs BY <1>2, OthersApply
  <2>4. Inverted(call) = <<Inv(Sym(IF u = "Upper" THEN "U" ELSE "L"))>>
    BY <1>6 DEF Inverted, f
  <2>5. After(a, t[j + 2]) BY <1>5, <1>9, <2>2, <2>3, <2>4, AfterFactor
  <2>6. ~MayBeSingular(a) BY <1>2, <1>7, <2>1 DEF MayBeSingular
  <2> QED BY <2>5, <2>6
<1>10. ASSUME Content(t[j + 2], FALSE) PROVE After(b, t[j + 3])
  <2>1. factors = <<Inv(Sym(f))>> BY <1>5, <1>10, ContentsAre DEF Content, Inverted, f
  <2>2. factors # Junk BY <1>7, <2>1 DEF Inverted, f
  <2>3. FactorsAfter(b, FALSE) = IF u = "Upper" THEN factors \o <<Op(factors[1], "C")>>
                                 ELSE <<Op(factors[1], "C")>> \o factors
    BY <1>2, <1>3, <2>2 DEF FactorsAfter
  <2>4. factors[1] = Inv(Sym(f)) BY <2>1
  <2>5. FactorsAfter(b, FALSE) = PseudoInverse(Chol(u))
    <3> DEFINE x == Inv(Sym(f))
               y == Op(Inv(Sym(f)), "C")
    <3>1. FactorsAfter(b, FALSE) = IF u = "Upper" THEN <<x>> \o <<y>> ELSE <<y>> \o <<x>>
      BY <2>1, <2>3, <2>4
    <3>2. PseudoInverse(Chol(u)) = IF u = "Upper" THEN <<x, y>> ELSE <<y, x>> BY <1>8
    <3> HIDE DEF x, y
    <3> QED BY <3>1, <3>2, Joined
  <2>6. RhsAfter(b) = rhs BY <1>2, OthersApply
  <2>7. /\ t[j + 2].word = s.word /\ t[j + 2].rows = s.rows /\ t[j + 2].zero = s.zero
    BY <1>5, ContentsAre
  <2>8. t[j + 3] = Contents(PseudoInverse(Chol(u)), t[j + 2].word, t[j + 2].rows, t[j + 2].zero)
    BY <1>5, <2>7
  <2> QED BY <1>10, <2>5, <2>6, <2>8, AfterFactor
<1>11. Link(p, t, j + 1)
  <2>1. (j + 1) + 1 = j + 2 OBVIOUS
  <2> QED BY <1>2, <1>4, <1>9, <2>1 DEF Link, Content
<1>12. Link(p, t, j + 2)
  <2>1. (j + 2) + 1 = j + 3 OBVIOUS
  <2>2. Content(t[j + 2], Early(j + 2)) => After(b, t[(j + 2) + 1]) BY <1>10, <2>1 DEF Content
  <2>3. p[j + 2].name # "if" BY <1>4
  <2> QED BY <1>2, <1>4, <2>2, <2>3, LinkPlain
<1> QED BY <1>11, <1>12

\* A solve of a driver, whose status may be assigned, with factor f.
IsSolve(p, t, i, u, x, d, a, b, f) ==
  /\ p[i] \in {ztrsm(u, x, d, a, b), Info(ztrsm(u, x, d, a, b))} /\ ~Early(i)
  /\ u \in {"Upper", "Lower"} /\ x \in {"N", "T", "C"} /\ d \in {"Unit", "NonUnit"}
  /\ a.m = a.n /\ a.n = b
  /\ Found(t[i].factors, u, d, f) /\ t[i].rows \in Int /\ b \in Int
  /\ \/ b = t[i].rows /\ t[i + 1] = Then(t[i], <<By(f, x)>>)
     \/ b < t[i].rows /\ t[i + 1] = Resized(t[i], <<By(f, x), EC>>, b)

\* It is a link of the trail.
LEMMA SolveAt ==
  ASSUME Fields, NEW p, NEW t, NEW i, NEW u, NEW x, NEW d, NEW a, NEW b, NEW f,
         IsSolve(p, t, i, u, x, d, a, b, f)
  PROVE  Link(p, t, i)
<1> DEFINE op == ztrsm(u, x, d, a, b)
<1>0. /\ p[i] = op \/ p[i] = Info(op)
      /\ ~Early(i) /\ u \in {"Upper", "Lower"} /\ x \in {"N", "T", "C"}
      /\ d \in {"Unit", "NonUnit"} /\ a.m = a.n /\ a.n = b
      /\ Found(t[i].factors, u, d, f) /\ t[i].rows \in Int /\ b \in Int
      /\ \/ b = t[i].rows /\ t[i + 1] = Then(t[i], <<By(f, x)>>)
         \/ b < t[i].rows /\ t[i + 1] = Resized(t[i], <<By(f, x), EC>>, b)
  BY DEF IsSolve
<1>1. /\ op.name = "ztrsm" /\ op.uplo = u /\ op.trans = x /\ op.diag = d /\ op.bm = b
  BY DEF ztrsm
<1>2. op.code = 0
  <2>1. /\ u \in {"Upper", "Lower"} /\ x \in {"N", "T", "C"} /\ d \in {"Unit", "NonUnit"}
        /\ a.m = a.n /\ a.n = b
    BY <1>0
  <2>2. ztrsm(u, x, d, a, b).code = 0 BY ONLY <2>1, Codes
  <2> QED BY <2>2
<1> HIDE DEF op
<1>3. p[i].name # "if" /\ OpOf(p[i]) = op BY <1>0, <1>1, Names DEF OpOf
<1> QED BY <1>0, <1>1, <1>2, <1>3, LinkSolve

\* A rotation of a driver.
IsTurn(p, t, i, x, a, ts) ==
  /\ x \in {"N", "C"} /\ ~Early(i)
  /\ \A y \in ts : ~TilesDiffer(y, a)
  /\ Sym("Q") \in Range(t[i].factors)
  /\ \/ p[i] = zunmqr(x, a, ts, call.B) /\ a.m = call.B /\ ~(a.n > call.B)
     \/ p[i] = zunmlq(x, a, ts, call.B) /\ a.n = call.B /\ ~(a.m > call.B)
  /\ \/ t[i].rows = call.B /\ t[i + 1] = Then(t[i], <<Op(Sym("Q"), x)>>)
     \/ /\ t[i].rows # call.B /\ t[i].zero
        /\ t[i + 1] = Resized(t[i], <<Op(Sym("Q"), x), Sym("E")>>, call.B)

\* It is a link of the trail.
LEMMA TurnAt ==
  ASSUME Fields, NEW p, NEW t, NEW i, NEW x, NEW a, NEW ts, IsTurn(p, t, i, x, a, ts)
  PROVE  Link(p, t, i)
<1> DEFINE op == p[i]
<1>1. op.name \in {"zunmqr", "zunmlq"} /\ op.trans = x BY DEF IsTurn, zunmqr, zunmlq
<1>2. op.code = 0
  <2>1. CASE p[i] = zunmqr(x, a, ts, call.B) /\ a.m = call.B /\ ~(a.n > call.B)
    BY <2>1, Codes DEF IsTurn
  <2>2. CASE p[i] = zunmlq(x, a, ts, call.B) /\ a.n = call.B /\ ~(a.m > call.B)
    BY <2>2, Codes DEF IsTurn
  <2> QED BY <2>1, <2>2 DEF IsTurn
<1>3. OpOf(p[i]) = op BY <1>1 DEF OpOf
<1> HIDE DEF op
<1>4. p[i].name # "if" BY <1>1 DEF op
<1>5. /\ ~Early(i) /\ Sym("Q") \in Range(t[i].factors)
      /\ \/ t[i].rows = call.B /\ t[i + 1] = Then(t[i], <<Op(Sym("Q"), op.trans)>>)
         \/ /\ t[i].rows # call.B /\ t[i].zero
            /\ t[i + 1] = Resized(t[i], <<Op(Sym("Q"), op.trans), Sym("E")>>, call.B)
  BY <1>1 DEF IsTurn
<1> QED BY <1>1, <1>2, <1>3, <1>4, <1>5, LinkTurn

\* dplasma_zpotrs.
LEMMA PotrsLinks ==
  ASSUME Fields, NEW p, NEW t, NEW j \in {0, 2}, NEW s, call.A.m = call.A.n, call.B = call.A.n,
         call.A.n \in Nat, ~BadUplo(call.uplo),
         p[j + 1] = zpotrs(call)[1], p[j + 2] = zpotrs(call)[2],
         t[j + 1] = s, t[j + 2] = PotrsTrail(call, s)[2], t[j + 3] = PotrsTrail(call, s)[3],
         s.factors = Chol(call.uplo), s.rows = call.B, ~Early(j + 1), ~Early(j + 2)
  PROVE  Link(p, t, j + 1) /\ Link(p, t, j + 2)
<1> DEFINE u == call.uplo
           f == OfChol(call)
           x == IF u = "Upper" THEN "C" ELSE "N"
           y == IF u = "Upper" THEN "N" ELSE "C"
<1>1. /\ p[j + 1] = ztrsm(u, x, "NonUnit", call.A, call.B)
      /\ p[j + 2] = ztrsm(u, y, "NonUnit", call.A, call.B)
  BY DEF zpotrs
<1>2. /\ t[(j + 1) + 1] = Then(t[j + 1], <<By(f, x)>>)
      /\ t[(j + 2) + 1] = Then(t[j + 2], <<By(f, y)>>)
  BY DEF PotrsTrail
<1>3. u \in {"Upper", "Lower"} BY DEF BadUplo
<1>4. Found(Chol(u), u, "NonUnit", f) BY <1>3, FoundChol DEF OfChol
<1>5. t[j + 1].factors = Chol(u) /\ t[j + 1].rows = call.B OBVIOUS
<1>6. t[j + 2].factors = Chol(u) /\ t[j + 2].rows = call.B
  <2>1. t[j + 2] = Then(s, <<By(f, x)>>) BY DEF PotrsTrail
  <2> QED BY <2>1, ContentsAre
<1>7. x \in {"N", "T", "C"} /\ y \in {"N", "T", "C"} OBVIOUS
<1> HIDE DEF u, f, x, y
<1>8. Link(p, t, j + 1)
  <2>1. IsSolve(p, t, j + 1, u, x, "NonUnit", call.A, call.B, f)
    BY <1>1, <1>2, <1>3, <1>4, <1>5, <1>7 DEF IsSolve
  <2> QED BY <2>1, SolveAt
<1>9. Link(p, t, j + 2)
  <2>1. IsSolve(p, t, j + 2, u, y, "NonUnit", call.A, call.B, f)
    BY <1>1, <1>2, <1>3, <1>4, <1>6, <1>7 DEF IsSolve
  <2> QED BY <2>1, SolveAt
<1> QED BY <1>8, <1>9

\* dplasma_zgetrs.
LEMMA GetrsLinks ==
  ASSUME Fields, NEW p, NEW t, NEW j \in {0, 2}, NEW s, call.A.m = call.A.n, call.B = call.A.n,
         call.A.n \in Nat, NEW x \in {"N", "T", "C"},
         \A i \in 1 .. 3 : p[j + i] = zgetrs(call, x)[i] /\ ~Early(j + i),
         \A i \in 1 .. 4 : t[j + i] = GetrsTrail(x, s)[i],
         s.factors = LU, s.rows = call.B
  PROVE  \A i \in 1 .. 3 : Link(p, t, j + i)
<1>1. /\ p[j + 1] = zgetrs(call, x)[1] /\ p[j + 2] = zgetrs(call, x)[2]
      /\ p[j + 3] = zgetrs(call, x)[3] /\ ~Early(j + 1) /\ ~Early(j + 2) /\ ~Early(j + 3)
  OBVIOUS
<1>2. /\ t[j + 1] = GetrsTrail(x, s)[1] /\ t[j + 2] = GetrsTrail(x, s)[2]
      /\ t[j + 3] = GetrsTrail(x, s)[3] /\ t[j + 4] = GetrsTrail(x, s)[4]
  OBVIOUS
<1>3. (j + 1) + 1 = j + 2 /\ (j + 2) + 1 = j + 3 /\ (j + 3) + 1 = j + 4 OBVIOUS
<1>4. t[j + 1] = s BY <1>2 DEF GetrsTrail
<1>5. CASE x = "N"
  <2>1. /\ p[j + 1] = zlaswp(1)
        /\ p[j + 2] = ztrsm("Lower", "N", "Unit", call.A, call.B)
        /\ p[j + 3] = ztrsm("Upper", "N", "NonUnit", call.A, call.B)
    BY <1>1, <1>5 DEF zgetrs
  <2>2. /\ t[j + 2] = Then(t[j + 1], <<Sym("P")>>)
        /\ t[j + 3] = Then(t[j + 2], <<By("L1", "N")>>)
        /\ t[j + 4] = Then(t[j + 3], <<By("U", "N")>>)
    BY <1>2, <1>5 DEF GetrsTrail
  <2>3. /\ t[j + 2].factors = LU /\ t[j + 2].rows = call.B
        /\ t[j + 3].factors = LU /\ t[j + 3].rows = call.B
    BY <1>4, <2>2, ContentsAre
  <2>4. Link(p, t, j + 1)
    <3>1. /\ p[j + 1].name = "zlaswp" /\ p[j + 1].inc = 1 /\ p[j + 1].code = 0
      BY <2>1 DEF zlaswp
    <3>2. OpOf(p[j + 1]) = p[j + 1] /\ p[j + 1].name # "if" BY <3>1 DEF OpOf
    <3>3. Op(Sym("P"), "N") = Sym("P") BY Symbols
    <3>4. t[(j + 1) + 1] = Then(t[j + 1], <<Op(Sym("P"), IF p[j + 1].inc = 1 THEN "N" ELSE "C")>>)
      BY <1>3, <2>2, <3>1, <3>3
    <3> QED BY <1>1, <3>1, <3>2, <3>4, LinkOthers
  <2>5. Link(p, t, j + 2)
    <3>1. IsSolve(p, t, j + 2, "Lower", "N", "Unit", call.A, call.B, "L1")
      BY <1>1, <1>3, <2>1, <2>2, <2>3, FoundLU DEF IsSolve
    <3> QED BY <3>1, SolveAt
  <2>6. Link(p, t, j + 3)
    <3>1. IsSolve(p, t, j + 3, "Upper", "N", "NonUnit", call.A, call.B, "U")
      BY <1>1, <1>3, <2>1, <2>2, <2>3, FoundLU DEF IsSolve
    <3> QED BY <3>1, SolveAt
  <2> QED BY <2>4, <2>5, <2>6
<1>6. CASE x # "N"
  <2>1. /\ p[j + 1] = ztrsm("Upper", x, "NonUnit", call.A, call.B)
        /\ p[j + 2] = ztrsm("Lower", x, "Unit", call.A, call.B)
        /\ p[j + 3] = zlaswp(-1)
    BY <1>1, <1>6 DEF zgetrs
  <2>2. /\ t[j + 2] = Then(t[j + 1], <<By("U", x)>>)
        /\ t[j + 3] = Then(t[j + 2], <<By("L1", x)>>)
        /\ t[j + 4] = Then(t[j + 3], <<Op(Sym("P"), "C")>>)
    BY <1>2, <1>6 DEF GetrsTrail
  <2>3. /\ t[j + 2].factors = LU /\ t[j + 2].rows = call.B
        /\ t[j + 3].factors = LU /\ t[j + 3].rows = call.B
    BY <1>4, <2>2, ContentsAre
  <2>4. Link(p, t, j + 1)
    <3>1. IsSolve(p, t, j + 1, "Upper", x, "NonUnit", call.A, call.B, "U")
      BY <1>1, <1>3, <1>4, <2>1, <2>2, FoundLU DEF IsSolve
    <3> QED BY <3>1, SolveAt
  <2>5. Link(p, t, j + 2)
    <3>1. IsSolve(p, t, j + 2, "Lower", x, "Unit", call.A, call.B, "L1")
      BY <1>1, <1>3, <2>1, <2>2, <2>3, FoundLU DEF IsSolve
    <3> QED BY <3>1, SolveAt
  <2>6. Link(p, t, j + 3)
    <3>1. /\ p[j + 3].name = "zlaswp" /\ p[j + 3].inc = -1 /\ p[j + 3].code = 0
      BY <2>1 DEF zlaswp
    <3>2. OpOf(p[j + 3]) = p[j + 3] /\ p[j + 3].name # "if" BY <3>1 DEF OpOf
    <3>4. t[(j + 3) + 1] = Then(t[j + 3], <<Op(Sym("P"), IF p[j + 3].inc = 1 THEN "N" ELSE "C")>>)
      BY <1>3, <2>2, <3>1
    <3> QED BY <1>1, <3>1, <3>2, <3>4, LinkOthers
  <2> QED BY <2>4, <2>5, <2>6
<1> QED BY <1>5, <1>6

\* dplasma_zgetrs_incpiv.
LEMMA IncpivLinks ==
  ASSUME Fields, NEW p, NEW t, NEW j \in {0, 2}, NEW s, call.A.m = call.A.n, call.B = call.A.n,
         call.A.n \in Nat, ~TilesDiffer(call.L, call.A), ~TilesDiffer(call.IPIV, call.A),
         p[j + 1] = zgetrs_incpiv(call)[1], p[j + 2] = zgetrs_incpiv(call)[2],
         t[j + 1] = s, t[j + 2] = IncpivTrail(s)[2], t[j + 3] = IncpivTrail(s)[3],
         s.factors = LUIncpiv, s.rows = call.B, ~Early(j + 1), ~Early(j + 2)
  PROVE  Link(p, t, j + 1) /\ Link(p, t, j + 2)
<1>1. /\ p[j + 1] = ztrsmpl_incpiv(call.A, call.L, call.IPIV)
      /\ p[j + 2] = ztrsm("Upper", "N", "NonUnit", call.A, call.B)
  BY DEF zgetrs_incpiv
<1>2. (j + 1) + 1 = j + 2 /\ (j + 2) + 1 = j + 3 OBVIOUS
<1>3. /\ t[j + 2] = Then(t[j + 1], <<Inv(Sym("Lp"))>>)
      /\ t[j + 3] = Then(t[j + 2], <<By("U", "N")>>)
  BY DEF IncpivTrail
<1>4. t[j + 2].factors = LUIncpiv /\ t[j + 2].rows = call.B BY <1>3, ContentsAre
<1>5. Link(p, t, j + 1)
  <2>1. p[j + 1].name = "ztrsmpl_incpiv" /\ p[j + 1].code = 0 BY <1>1, Names, Codes
  <2>2. OpOf(p[j + 1]) = p[j + 1] /\ p[j + 1].name # "if" BY <2>1 DEF OpOf
  <2>3. t[(j + 1) + 1] = Then(t[j + 1], <<Inv(Sym("Lp"))>>) BY <1>2, <1>3
  <2> QED BY <2>1, <2>2, <2>3, LinkOthers
<1>6. Link(p, t, j + 2)
  <2>1. IsSolve(p, t, j + 2, "Upper", "N", "NonUnit", call.A, call.B, "U")
    BY <1>1, <1>2, <1>3, <1>4, FoundLU DEF IsSolve
  <2> QED BY <2>1, SolveAt
<1> QED BY <1>5, <1>6

\* A rotation of all rows of B, at i, and a solve with its first r.
IsTurnSolve(p, t, i, u, x, y, f, r, ts) ==
  /\ x \in {"N", "C"} /\ y \in {"N", "C"} /\ u \in {"Upper", "Lower"}
  /\ ~Early(i) /\ ~Early(i + 1) /\ r \in Nat /\ call.B \in Nat /\ r <= call.B
  /\ \A z \in ts : ~TilesDiffer(z, call.A)
  /\ Sym("Q") \in Range(t[i].factors) /\ Found(t[i].factors, u, "NonUnit", f)
  /\ t[i].rows = call.B /\ call.A.m <= call.B /\ call.A.n <= call.B
  /\ \/ p[i] = zunmqr(x, call.A, ts, call.B) /\ call.A.m = call.B
     \/ p[i] = zunmlq(x, call.A, ts, call.B) /\ call.A.n = call.B
  /\ p[i + 1] \in {ztrsm(u, y, "NonUnit", Square(r), r), Info(ztrsm(u, y, "NonUnit", Square(r), r))}
  /\ t[i + 1] = Then(t[i], <<Op(Sym("Q"), x)>>)
  /\ t[i + 2] = Solved(t[i + 1], f, y, r)

\* They are links of the trail.
LEMMA TurnSolveAt ==
  ASSUME Fields, NEW p, NEW t, NEW i \in Nat, NEW u, NEW x, NEW y, NEW f, NEW r, NEW ts,
         IsTurnSolve(p, t, i, u, x, y, f, r, ts), call.A.m \in Nat, call.A.n \in Nat
  PROVE  Link(p, t, i) /\ Link(p, t, i + 1)
<1>1. /\ x \in {"N", "C"} /\ y \in {"N", "C"} /\ u \in {"Upper", "Lower"}
      /\ ~Early(i) /\ ~Early(i + 1) /\ r \in Nat /\ call.B \in Nat /\ r <= call.B
      /\ \A z \in ts : ~TilesDiffer(z, call.A)
      /\ Sym("Q") \in Range(t[i].factors) /\ Found(t[i].factors, u, "NonUnit", f)
      /\ t[i].rows = call.B /\ ~(call.A.m > call.B) /\ ~(call.A.n > call.B)
  BY DEF IsTurnSolve
<1>2. /\ \/ p[i] = zunmqr(x, call.A, ts, call.B) /\ call.A.m = call.B
         \/ p[i] = zunmlq(x, call.A, ts, call.B) /\ call.A.n = call.B
      /\ t[i + 1] = Then(t[i], <<Op(Sym("Q"), x)>>)
  BY DEF IsTurnSolve
<1>3. Link(p, t, i)
  <2>1. IsTurn(p, t, i, x, call.A, ts) BY <1>1, <1>2 DEF IsTurn
  <2> QED BY <2>1, TurnAt
<1>4. Link(p, t, i + 1)
  <2>1. t[i + 1].factors = t[i].factors /\ t[i + 1].rows = call.B BY <1>1, <1>2, ContentsAre
  <2>2. (i + 1) + 1 = i + 2 OBVIOUS
  <2>3. \/ r = t[i + 1].rows /\ t[(i + 1) + 1] = Then(t[i + 1], <<By(f, y)>>)
        \/ r < t[i + 1].rows /\ t[(i + 1) + 1] = Resized(t[i + 1], <<By(f, y), EC>>, r)
    <3>1. t[(i + 1) + 1] = Solved(t[i + 1], f, y, r) BY <2>2 DEF IsTurnSolve
    <3> QED BY <1>1, <2>1, <3>1 DEF Solved
  <2>4. Square(r).m = Square(r).n /\ Square(r).n = r BY DEF Square
  <2>5. p[i + 1] \in {ztrsm(u, y, "NonUnit", Square(r), r),
                      Info(ztrsm(u, y, "NonUnit", Square(r), r))}
    BY DEF IsTurnSolve
  <2>6. y \in {"N", "T", "C"} /\ Found(t[i + 1].factors, u, "NonUnit", f)
        /\ t[i + 1].rows \in Int /\ r \in Int
    BY <1>1, <2>1
  <2>7. IsSolve(p, t, i + 1, u, y, "NonUnit", Square(r), r, f)
    BY <1>1, <2>3, <2>4, <2>5, <2>6 DEF IsSolve
  <2> QED BY <2>7, SolveAt
<1> QED BY <1>3, <1>4

\* A solve with all rows of B, at i, a branch where its status counts, the rows behind
\* them cleared if there are any, and at l a rotation of all.
IsSolveTurn(p, t, i, l, u, x, y, f, r) ==
  /\ x \in {"N", "C"} /\ y \in {"N", "C"} /\ u \in {"Upper", "Lower"}
  /\ \A j \in i .. l : ~Early(j)
  /\ r \in Nat /\ call.B \in Nat /\ call.A.m <= call.B /\ call.A.n <= call.B
  /\ ~TilesDiffer(call.T, call.A)
  /\ Sym("Q") \in Range(t[i].factors) /\ Found(t[i].factors, u, "NonUnit", f)
  /\ t[i].rows = r
  /\ p[i] \in {ztrsm(u, x, "NonUnit", Square(r), r), Info(ztrsm(u, x, "NonUnit", Square(r), r))}
  /\ t[i + 1] = Then(t[i], <<By(f, x)>>)
  /\ \/ p[l] = zunmqr(y, call.A, {call.T}, call.B) /\ call.A.m = call.B
     \/ p[l] = zunmlq(y, call.A, {call.T}, call.B) /\ call.A.n = call.B
  /\ t[l + 1] = Turned(t[l], y, call.B)
  /\ p[i + 1] = IfZero /\ t[i + 2] = t[i + 1]
  /\ \/ l = i + 2 /\ r = call.B
     \/ /\ l = i + 3 /\ r < call.B /\ r % mb = 0
        /\ p[i + 2] = zlaset(r, call.B - r) /\ t[i + 3] = Cleared(t[i + 2])

\* They are links of the trail.
LEMMA SolveTurnAt ==
  ASSUME Fields, NEW p, NEW t, NEW i \in Nat, i > 0, NEW l \in Nat, NEW u, NEW x, NEW y, NEW f,
         NEW r, IsSolveTurn(p, t, i, l, u, x, y, f, r), call.A.m \in Nat, call.A.n \in Nat
  PROVE  \A j \in i .. l : Link(p, t, j)
<1>1. /\ x \in {"N", "C"} /\ y \in {"N", "C"} /\ u \in {"Upper", "Lower"}
      /\ \A j \in i .. l : ~Early(j)
      /\ r \in Nat /\ call.B \in Nat /\ ~(call.A.m > call.B) /\ ~(call.A.n > call.B)
      /\ ~TilesDiffer(call.T, call.A)
      /\ Sym("Q") \in Range(t[i].factors) /\ Found(t[i].factors, u, "NonUnit", f)
      /\ t[i].rows = r
  BY DEF IsSolveTurn
<1>2. /\ t[i + 1] = Then(t[i], <<By(f, x)>>)
      /\ \/ p[l] = zunmqr(y, call.A, {call.T}, call.B) /\ call.A.m = call.B
         \/ p[l] = zunmlq(y, call.A, {call.T}, call.B) /\ call.A.n = call.B
      /\ t[l + 1] = Turned(t[l], y, call.B)
      /\ p[i + 1] = IfZero /\ t[i + 2] = t[i + 1]
  BY DEF IsSolveTurn
<1>3. \/ l = i + 2 /\ r = call.B
      \/ /\ l = i + 3 /\ r < call.B /\ r % mb = 0
         /\ p[i + 2] = zlaset(r, call.B - r) /\ t[i + 3] = Cleared(t[i + 2])
  BY DEF IsSolveTurn
<1>4. i \in i .. l /\ l \in i .. l /\ i + 1 > 1 /\ (i + 1) + 1 = i + 2 BY <1>3
<1>5. Link(p, t, i)
  <2>1. Square(r).m = Square(r).n /\ Square(r).n = r BY DEF Square
  <2>2. p[i] \in {ztrsm(u, x, "NonUnit", Square(r), r), Info(ztrsm(u, x, "NonUnit", Square(r), r))}
    BY DEF IsSolveTurn
  <2>3. x \in {"N", "T", "C"} /\ r \in Int /\ ~Early(i) BY <1>1, <1>4
  <2>4. IsSolve(p, t, i, u, x, "NonUnit", Square(r), r, f)
    BY <1>1, <1>2, <2>1, <2>2, <2>3 DEF IsSolve
  <2> QED BY <2>4, SolveAt
<1>6. Link(p, t, i + 1) BY <1>2, <1>4, LinkBranch
<1>7. t[i + 2].factors = t[i].factors /\ t[i + 2].rows = r BY <1>1, <1>2, ContentsAre
<1>8. CASE l = i + 2 /\ r = call.B
  <2>1. t[l].factors = t[i].factors /\ t[l].rows = call.B BY <1>7, <1>8
  <2>2. t[l + 1] = Then(t[l], <<Op(Sym("Q"), y)>>) BY <1>2, <2>1 DEF Turned
  <2>3. IsTurn(p, t, l, y, call.A, {call.T}) BY <1>1, <1>2, <1>4, <2>1, <2>2 DEF IsTurn
  <2>4. Link(p, t, l) BY <2>3, TurnAt
  <2>5. \A j \in i .. l : j = i \/ j = i + 1 \/ j = l BY <1>8
  <2> QED BY <1>5, <1>6, <2>4, <2>5
<1>9. CASE /\ l = i + 3 /\ r < call.B /\ r % mb = 0
           /\ p[i + 2] = zlaset(r, call.B - r) /\ t[i + 3] = Cleared(t[i + 2])
  <2>1. /\ t[l] = Cleared(t[i + 2]) /\ i + 2 \in i .. l /\ (i + 2) + 1 = i + 3
        /\ r + (call.B - r) = call.B
    BY <1>1, <1>9
  <2>2. t[l].factors = t[i].factors /\ t[l].rows # call.B /\ t[l].zero
    BY <1>1, <1>7, <1>9, <2>1, ContentsAre
  <2>3. t[l + 1] = Resized(t[l], <<Op(Sym("Q"), y), Sym("E")>>, call.B)
    BY <1>2, <2>2 DEF Turned
  <2>4. IsTurn(p, t, l, y, call.A, {call.T}) BY <1>1, <1>2, <1>4, <2>2, <2>3 DEF IsTurn
  <2>5. Link(p, t, l) BY <2>4, TurnAt
  <2>6. Link(p, t, i + 2)
    <3> DEFINE op == p[i + 2]
    <3>1. op.name = "zlaset" /\ op.from = r /\ op.rows = call.B - r /\ op.code = 0
      BY <1>9 DEF zlaset
    <3>2. OpOf(p[i + 2]) = op /\ op.name # "if" BY <3>1 DEF OpOf
    <3>3. ~Early(i + 2) /\ t[(i + 2) + 1] = Cleared(t[i + 2]) BY <1>1, <1>9, <2>1
    <3>4. /\ op.from = t[i + 2].rows /\ op.from + op.rows = call.B
          /\ op.from \in Nat /\ op.rows \in Nat \ {0} /\ op.from % mb = 0
      BY <1>1, <1>7, <1>9, <2>1, <3>1
    <3> HIDE DEF op
    <3>5. p[i + 2].name # "if" BY <3>2 DEF op
    <3> QED BY <3>1, <3>2, <3>3, <3>4, <3>5, LinkOthers
  <2>7. \A j \in i .. l : j = i \/ j = i + 1 \/ j = i + 2 \/ j = l BY <1>9
  <2> QED BY <1>5, <1>6, <2>5, <2>6, <2>7
<1> QED BY <1>3, <1>8, <1>9

(* A whole call: its trail starts with what the caller provides, every      *)
(* operation goes along it, and at its end is the result.                   *)
Route(p, t) ==
  /\ t[1] = Before(call)
  /\ \A i \in 1 .. Len(p) : Link(p, t, i)
  /\ Content(t[Len(p) + 1], FALSE) => Result(call)

\* What the caller of a legal call provides.
LEMMA BeforeIs ==
  ASSUME NEW c \in Calls, Legal(c)
  PROVE  /\ Before(c).factors = Factorization(c) /\ Before(c).word = <<>>
         /\ Before(c).rows = IF Trans(c) = "N" THEN c.A.m ELSE c.A.n
<1> DEFINE r == IF Trans(c) = "N" THEN c.A.m ELSE c.A.n
<1>1. Before(c) = [factors |-> Factorization(c), word |-> <<>>, rows |-> r, zero |-> FALSE]
  BY LegalSizes DEF Contents
<1> HIDE DEF r
<1> QED BY <1>1 DEF r

\* dplasma_zpotrf as an operation.
LEMMA LinkPotrf ==
  ASSUME NEW p, NEW t, p[1] = Info(zpotrf), t[2] = t[1], t[1].factors = Chol(call.uplo),
         call.routine \in UsesPotrf, minor # 0 => Len(p) = 1 \/ p[2].name = "if"
  PROVE  Link(p, t, 1)
<1>1. p[1].name = "info" /\ OpOf(p[1]) = zpotrf BY Names DEF OpOf
<1> QED BY <1>1, Names DEF Link

\* The elements of joined tuples.
LEMMA Elements ==
  /\ \A a, x, y, z : LET s == <<a>> \o <<x, y, z>>
       IN Len(s) = 4 /\ s[1] = a /\ s[2] = x /\ s[3] = y /\ s[4] = z
  /\ \A a, x, y : LET s == <<a>> \o <<x, y>> IN Len(s) = 3 /\ s[1] = a /\ s[2] = x /\ s[3] = y
  /\ \A a, b, x, y : LET s == <<a, b>> \o <<x, y>>
       IN Len(s) = 4 /\ s[1] = a /\ s[2] = b /\ s[3] = x /\ s[4] = y
  /\ \A a, b, x, y, z : LET s == <<a, b>> \o <<x, y, z>>
       IN Len(s) = 5 /\ s[1] = a /\ s[2] = b /\ s[3] = x /\ s[4] = y /\ s[5] = z
  /\ \A a, b, x, y, z, w : LET s == <<a, b>> \o <<x, y, z, w>>
       IN Len(s) = 6 /\ s[1] = a /\ s[2] = b /\ s[3] = x /\ s[4] = y /\ s[5] = z /\ s[6] = w
  OBVIOUS

\* Applied words, from left to right.
LEMMA TwoApplied ==
  ASSUME NEW s, NEW a, NEW b, s.word = <<>>
  PROVE  Then(Then(s, <<a>>), <<b>>).word = <<b, a>>
<1> DEFINE x == Then(s, <<a>>)
<1>1. x.word = <<a>> \o s.word BY ContentsAre
<1>2. x.word = <<a>> BY <1>1, Joined
<1> HIDE DEF x
<1>3. Then(x, <<b>>).word = <<b>> \o x.word BY ContentsAre
<1>4. Then(x, <<b>>).word = <<b, a>> BY <1>2, <1>3, Joined
<1> QED BY <1>4 DEF x

\* dplasma_zpotrs and dplasma_zposv.
LEMMA PotrsRoute ==
  ASSUME Fields, call \in Calls, Legal(call), call.routine \in {"zpotrs", "zposv"}
  PROVE  Route(Program(call), Trail(call))
<1> DEFINE s == Before(call)
           p == Program(call)
           t == Trail(call)
           f == OfChol(call)
           x == IF call.uplo = "Upper" THEN "C" ELSE "N"
           y == IF call.uplo = "Upper" THEN "N" ELSE "C"
           b1 == Then(s, <<By(f, x)>>)
           b2 == Then(b1, <<By(f, y)>>)
<1>1. call.A.m = call.A.n /\ call.B = call.A.n /\ call.A.n \in Nat /\ ~BadUplo(call.uplo)
  BY LegalSizes DEF Legal
<1>2. Trans(call) = "N" /\ Factorization(call) = Chol(call.uplo) BY DEF Trans, Factorization
<1>3. s.factors = Chol(call.uplo) /\ s.word = <<>> /\ s.rows = call.B
  BY <1>1, <1>2, BeforeIs
<1>4. PotrsTrail(call, s) = <<s, b1, b2>> BY DEF PotrsTrail
<1>5. PICK z1, z2 : zpotrs(call) = <<z1, z2>> BY PotrsSteps
<1>6. Content(b2, FALSE) => Result(call)
  <2>1. b2.word = <<By(f, y), By(f, x)>> BY <1>3, TwoApplied
  <2>2. b2.rows = call.B BY <1>3, ContentsAre
  <2>3. <<By(f, y), By(f, x)>> = PseudoInverse(Chol(call.uplo))
    <3>0. By(f, "N") = Inv(Sym(f)) /\ By(f, "C") = Inv(Op(Sym(f), "C"))
      BY InverseOf DEF By, OfChol, Unitary
    <3>1. CASE call.uplo = "Upper"
      <4>1. Chol(call.uplo) = <<Op(Sym(f), "C"), Sym(f)>> BY <3>1 DEF Chol, OfChol
      <4> QED BY <3>0, <3>1, <4>1, ReversedWord
    <3>2. CASE call.uplo # "Upper"
      <4>1. Chol(call.uplo) = <<Sym(f), Op(Sym(f), "C")>> BY <3>2 DEF Chol, OfChol
      <4> QED BY <3>0, <3>2, <4>1, ReversedWord
    <3> QED BY <3>1, <3>2
  <2>4. OpWord(Chol(call.uplo), "N") = Chol(call.uplo) BY DEF OpWord
  <2> HIDE DEF b2, f, x, y
  <2>5. Content(b2, FALSE) => rhs.word = PseudoInverse(Chol(call.uplo)) /\ rhs.rows = call.A.n
    BY <1>1, <2>1, <2>2, <2>3 DEF Content
  <2> QED BY <1>2, <2>4, <2>5 DEF Result
<1> HIDE DEF s, b1, b2, x, y, f
<1>7. CASE call.routine = "zpotrs"
  <2>1. p = <<z1, z2>> /\ t = <<s, b1, b2>> BY <1>4, <1>5, <1>7 DEF Program, Trail, s
  <2> HIDE DEF p, t
  <2>2. /\ Len(p) = 2 /\ p[0 + 1] = zpotrs(call)[1] /\ p[0 + 2] = zpotrs(call)[2]
        /\ t[0 + 1] = s /\ t[0 + 2] = PotrsTrail(call, s)[2] /\ t[0 + 3] = PotrsTrail(call, s)[3]
        /\ t[1] = s /\ t[3] = b2
    BY <1>4, <1>5, <2>1
  <2>3. ~Early(0 + 1) /\ ~Early(0 + 2)
    BY <1>7 DEF Early, FactorizesItself, UsesPotrf
  <2>4. Link(p, t, 0 + 1) /\ Link(p, t, 0 + 2) BY <1>1, <1>3, <2>2, <2>3, PotrsLinks
  <2>5. \A i \in 1 .. Len(p) : Link(p, t, i)
    <3>1. \A i \in 1 .. Len(p) : i = 0 + 1 \/ i = 0 + 2 BY <2>2
    <3> QED BY <2>4, <3>1
  <2>6. Route(p, t)
    <3>1. t[Len(p) + 1] = b2 BY <2>2
    <3> QED BY <1>6, <2>2, <2>5, <3>1 DEF Route, s
  <2> QED BY <2>6 DEF p, t
<1>8. CASE call.routine = "zposv"
  <2>1. p = <<Info(zpotrf), IfZero>> \o <<z1, z2>> /\ t = <<s, s>> \o <<s, b1, b2>>
    BY <1>4, <1>5, <1>8 DEF Program, zposv, Trail, s
  <2> HIDE DEF p, t
  <2>2. /\ Len(p) = 4 /\ p[1] = Info(zpotrf) /\ p[2] = IfZero
        /\ p[2 + 1] = zpotrs(call)[1] /\ p[2 + 2] = zpotrs(call)[2]
        /\ t[1] = s /\ t[2] = s /\ t[2 + 1] = s
        /\ t[2 + 2] = PotrsTrail(call, s)[2] /\ t[2 + 3] = PotrsTrail(call, s)[3]
        /\ t[5] = b2
    BY <1>4, <1>5, <2>1, Elements
  <2>3. ~Early(2 + 1) /\ ~Early(2 + 2) BY DEF Early
  <2>4. Link(p, t, 2 + 1) /\ Link(p, t, 2 + 2) BY <1>1, <1>3, <2>2, <2>3, PotrsLinks
  <2>5. Link(p, t, 1) BY <1>3, <1>8, <2>2, Names, LinkPotrf DEF UsesPotrf
  <2>6. Link(p, t, 2)
    <3>1. t[2 + 1] = t[2] BY <2>2
    <3> QED BY <2>2, <3>1, LinkBranch
  <2>7. \A i \in 1 .. Len(p) : Link(p, t, i)
    <3>1. \A i \in 1 .. Len(p) : i = 1 \/ i = 2 \/ i = 2 + 1 \/ i = 2 + 2 BY <2>2
    <3> QED BY <2>4, <2>5, <2>6, <3>1
  <2>8. Route(p, t)
    <3>1. t[Len(p) + 1] = b2 BY <2>2
    <3> QED BY <1>6, <2>2, <2>7, <3>1 DEF Route, s
  <2> QED BY <2>8 DEF p, t
<1> QED BY <1>7, <1>8

\* dplasma_zpotrf, dplasma_zpotri and dplasma_zpoinv_sync.
LEMMA PotriRoute ==
  ASSUME Fields, call \in Calls, Legal(call), ~KnownUnsolved(call),
         call.routine \in {"zpotrf", "zpotri", "zpoinv_sync"}
  PROVE  Route(Program(call), Trail(call))
<1> DEFINE s == Before(call)
           p == Program(call)
           t == Trail(call)
           z1 == Info(ztrtri(call.uplo, call.A))
           z2 == zlauum(call.uplo, call.A)
           b1 == PotriTrail(call, s)[2]
           b2 == PotriTrail(call, s)[3]
<1>1. call.A.m = call.A.n /\ ~BadUplo(call.uplo) BY DEF Legal
<1>2. Factorization(call) = Chol(call.uplo) BY DEF Factorization
<1>3. s.factors = Chol(call.uplo) BY <1>2, BeforeIs
<1>4. PotriTrail(call, s) = <<s, b1, b2>> BY DEF PotriTrail
<1>5. b2.factors = PseudoInverse(Chol(call.uplo)) BY ContentsAre DEF PotriTrail
<1> HIDE DEF s, z1, z2, b1, b2
<1>6. CASE call.routine = "zpotrf"
  <2>1. p = <<Info(zpotrf)>> /\ t = <<s, s>> BY <1>6 DEF Program, Trail, s
  <2> HIDE DEF p, t
  <2>2. Len(p) = 1 /\ p[1] = Info(zpotrf) /\ t[1] = s /\ t[2] = s BY <2>1
  <2>3. Link(p, t, 1) BY <1>3, <1>6, <2>2, LinkPotrf DEF UsesPotrf
  <2>4. Content(t[2], FALSE) => Result(call) BY <1>3, <1>6, <2>2 DEF Content, Result
  <2>5. Len(p) + 1 = 2 /\ \A i \in 1 .. Len(p) : i = 1 BY <2>2
  <2>6. Route(p, t) BY <2>2, <2>3, <2>4, <2>5 DEF Route, s
  <2> QED BY <2>6 DEF p, t
<1>7. Content(b2, FALSE) /\ call.routine # "zpotrf" => Result(call)
  BY <1>5 DEF Content, Result
<1>8. CASE call.routine = "zpotri"
  <2>1. p = <<z1, z2>> /\ t = <<s, b1, b2>>
    BY <1>4, <1>8 DEF Program, zpotri, Trail, s, z1, z2
  <2> HIDE DEF p, t
  <2>2. /\ Len(p) = 2 /\ p[0 + 1] = Info(ztrtri(call.uplo, call.A))
        /\ p[0 + 2] = zlauum(call.uplo, call.A)
        /\ t[0 + 1] = s /\ t[0 + 2] = PotriTrail(call, s)[2] /\ t[0 + 3] = PotriTrail(call, s)[3]
        /\ t[1] = s /\ t[3] = b2
    BY <2>1 DEF z1, z2, b1, b2
  <2>3. ~Early(0 + 1) /\ ~Early(0 + 2)
    BY <1>8 DEF Early, FactorizesItself, UsesPotrf
  <2>4. Link(p, t, 0 + 1) /\ Link(p, t, 0 + 2) BY <1>1, <1>3, <2>2, <2>3, PotriLinks
  <2>5. \A i \in 1 .. Len(p) : Link(p, t, i)
    <3>1. \A i \in 1 .. Len(p) : i = 0 + 1 \/ i = 0 + 2 BY <2>2
    <3> QED BY <2>4, <3>1
  <2>6. Route(p, t)
    <3>1. t[Len(p) + 1] = b2 BY <2>2
    <3> QED BY <1>7, <1>8, <2>2, <2>5, <3>1 DEF Route, s
  <2> QED BY <2>6 DEF p, t
<1>9. CASE call.routine = "zpoinv_sync"
  <2>1. p = <<Info(zpotrf)>> \o <<z1, z2>> /\ t = <<s>> \o <<s, b1, b2>>
    BY <1>4, <1>9 DEF Program, zpoinv_sync, zpotri, Trail, s, z1, z2
  <2> HIDE DEF p, t
  <2>2. /\ Len(p) = 3 /\ p[1] = Info(zpotrf) /\ p[1 + 1] = Info(ztrtri(call.uplo, call.A))
        /\ p[1 + 2] = zlauum(call.uplo, call.A)
        /\ t[1] = s /\ t[2] = s /\ t[1 + 1] = s
        /\ t[1 + 2] = PotriTrail(call, s)[2] /\ t[1 + 3] = PotriTrail(call, s)[3]
        /\ t[4] = b2
    BY <2>1, Elements DEF z1, z2, b1, b2
  <2>3. ~Early(1 + 1) /\ ~Early(1 + 2) BY DEF Early
  <2>4. Link(p, t, 1 + 1) /\ Link(p, t, 1 + 2) BY <1>1, <1>3, <2>2, <2>3, PotriLinks
  <2>5. Link(p, t, 1)
    <3>1. minor = 0 BY <1>9 DEF KnownUnsolved
    <3> QED BY <1>3, <1>9, <2>2, <3>1, LinkPotrf DEF UsesPotrf
  <2>6. \A i \in 1 .. Len(p) : Link(p, t, i)
    <3>1. \A i \in 1 .. Len(p) : i = 1 \/ i = 1 + 1 \/ i = 1 + 2 BY <2>2
    <3> QED BY <2>4, <2>5, <3>1
  <2>7. Route(p, t)
    <3>1. t[Len(p) + 1] = b2 BY <2>2
    <3> QED BY <1>7, <1>9, <2>2, <2>6, <3>1 DEF Route, s
  <2> QED BY <2>7 DEF p, t
<1> QED BY <1>6, <1>8, <1>9

\* Three symbols, written one after the other.
LEMMA ThreeApplied ==
  ASSUME NEW s, NEW a, NEW b, NEW c, s.word = <<>>
  PROVE  Then(Then(Then(s, <<a>>), <<b>>), <<c>>).word = <<c, b, a>>
<1> DEFINE x == Then(Then(s, <<a>>), <<b>>)
<1>1. x.word = <<b, a>> BY TwoApplied
<1> HIDE DEF x
<1>2. Then(x, <<c>>).word = <<c>> \o x.word BY ContentsAre
<1>3. Then(x, <<c>>).word = <<c, b, a>> BY <1>1, <1>2, Joined
<1> QED BY <1>3 DEF x

\* The words of the solves with LU.
LEMMA GetrsWord ==
  ASSUME NEW s, s.word = <<>>, NEW x \in {"N", "T", "C"}
  PROVE  LET e == GetrsTrail(x, s)[4]
         IN e.word = PseudoInverse(OpWord(LU, x)) /\ e.rows = s.rows
<1> DEFINE e == GetrsTrail(x, s)[4]
<1>1. Inv(Op(Sym("P"), "C")) = Sym("P") /\ Inv(Sym("P")) = Op(Sym("P"), "C")
      /\ \A y \in {"T", "C"} : Op(Op(Sym("P"), "C"), y) = Sym("P")
  BY Symbols DEF Unitary
<1>2. CASE x = "N"
  <2>1. e = Then(Then(Then(s, <<Sym("P")>>), <<By("L1", "N")>>), <<By("U", "N")>>)
    BY <1>2 DEF GetrsTrail
  <2>2. e.rows = s.rows BY <2>1, ContentsAre
  <2>3. e.word = <<By("U", "N"), By("L1", "N"), Sym("P")>>
    <3> DEFINE a == Sym("P")
               b == By("L1", "N")
               c == By("U", "N")
    <3>1. e = Then(Then(Then(s, <<a>>), <<b>>), <<c>>) BY <2>1
    <3> HIDE DEF e, a, b, c
    <3>2. e.word = <<c, b, a>> BY <3>1, ThreeApplied
    <3> QED BY <3>2 DEF e, a, b, c
  <2>4. By("U", "N") = Inv(Sym("U")) /\ By("L1", "N") = Inv(Sym("L1"))
    BY InverseOf DEF Unitary
  <2>5. PseudoInverse(LU) = <<Inv(Sym("U")), Inv(Sym("L1")), Inv(Op(Sym("P"), "C"))>>
    BY ReversedWord DEF LU
  <2>6. OpWord(LU, x) = LU BY <1>2 DEF OpWord
  <2> HIDE DEF e
  <2>7. e.word = PseudoInverse(OpWord(LU, x)) BY <1>1, <2>3, <2>4, <2>5, <2>6
  <2> QED BY <2>2, <2>7 DEF e
<1>3. CASE x # "N"
  <2>1. e = Then(Then(Then(s, <<By("U", x)>>), <<By("L1", x)>>), <<Op(Sym("P"), "C")>>)
    BY <1>3 DEF GetrsTrail
  <2>2. e.rows = s.rows BY <2>1, ContentsAre
  <2>3. e.word = <<Op(Sym("P"), "C"), By("L1", x), By("U", x)>>
    <3> DEFINE a == By("U", x)
               b == By("L1", x)
               c == Op(Sym("P"), "C")
    <3>1. e = Then(Then(Then(s, <<a>>), <<b>>), <<c>>) BY <2>1
    <3> HIDE DEF e, a, b, c
    <3>2. e.word = <<c, b, a>> BY <3>1, ThreeApplied
    <3> QED BY <3>2 DEF e, a, b, c
  <2>4. OpWord(LU, x) = <<Op(Sym("U"), x), Op(Sym("L1"), x), Op(Op(Sym("P"), "C"), x)>>
    BY <1>3, ReversedWord DEF LU
  <2>5. Op(Op(Sym("P"), "C"), x) = Sym("P") BY <1>1, <1>3
  <2>6. PseudoInverse(OpWord(LU, x)) =
          <<Inv(Sym("P")), Inv(Op(Sym("L1"), x)), Inv(Op(Sym("U"), x))>>
    <3> DEFINE a == Op(Sym("U"), x)
               b == Op(Sym("L1"), x)
               c == Sym("P")
    <3>1. OpWord(LU, x) = <<a, b, c>> BY <2>4, <2>5
    <3> HIDE DEF a, b, c
    <3>2. PseudoInverse(OpWord(LU, x)) = <<Inv(c), Inv(b), Inv(a)>> BY <3>1, ReversedWord
    <3> QED BY <3>2 DEF a, b, c
  <2> HIDE DEF e
  <2>7. e.word = PseudoInverse(OpWord(LU, x)) BY <1>1, <2>3, <2>6 DEF By
  <2> QED BY <2>2, <2>7 DEF e
<1> QED BY <1>2, <1>3

\* dplasma_zgetrs and dplasma_zgesv_1d.
LEMMA GetrsRoute ==
  ASSUME Fields, call \in Calls, Legal(call), call.routine \in {"zgetrs", "zgesv_1d"}
  PROVE  Route(Program(call), Trail(call))
<1> DEFINE s == Before(call)
           p == Program(call)
           t == Trail(call)
           x == Trans(call)
           w == GetrsTrail(x, s)
           g == zgetrs(call, x)
<1>1. call.A.m = call.A.n /\ call.B = call.A.n /\ call.A.n \in Nat BY LegalSizes DEF Legal
<1>2. x \in {"N", "T", "C"} /\ Factorization(call) = LU
  BY DEF Legal, BadTrans, Trans, Factorization
<1>3. s.factors = LU /\ s.word = <<>> /\ s.rows = call.B BY <1>1, <1>2, BeforeIs
<1>4. PICK y1, y2, y3 : w = <<s, y1, y2, y3>> BY DEF GetrsTrail
<1>5. PICK z1, z2, z3 : g = <<z1, z2, z3>> BY DEF zgetrs
<1>6. w[4].word = PseudoInverse(OpWord(LU, x)) /\ w[4].rows = s.rows
  BY <1>2, <1>3, GetrsWord
<1>7. Content(y3, FALSE) => Result(call)
  <2>1. y3.word = PseudoInverse(OpWord(LU, x)) /\ y3.rows = call.B BY <1>3, <1>4, <1>6
  <2>2. Content(y3, FALSE) => rhs.word = PseudoInverse(OpWord(LU, x)) /\ rhs.rows = call.B
    BY <2>1 DEF Content
  <2> HIDE DEF x
  <2> QED BY <1>1, <1>2, <2>2 DEF Result, x
<1> HIDE DEF s, w, g, x
<1>8. CASE call.routine = "zgetrs"
  <2>0. x = call.trans BY <1>8 DEF Trans, x
  <2>1. p = g /\ t = w BY <1>8, <2>0 DEF Program, Trail, s, g, w
  <2> HIDE DEF p, t
  <2>2. /\ Len(p) = 3 /\ p[1] = z1 /\ p[2] = z2 /\ p[3] = z3
        /\ t[1] = s /\ t[2] = y1 /\ t[3] = y2 /\ t[4] = y3
    BY <1>4, <1>5, <2>1
  <2>3. \A i \in 1 .. 3 : p[0 + i] = zgetrs(call, x)[i] /\ ~Early(0 + i)
    BY <1>8, <2>1 DEF Early, FactorizesItself, UsesPotrf, g
  <2>4. \A i \in 1 .. 4 : t[0 + i] = GetrsTrail(x, s)[i] BY <2>1 DEF w
  <2>5. \A i \in 1 .. 3 : Link(p, t, 0 + i) BY <1>1, <1>2, <1>3, <2>3, <2>4, GetrsLinks
  <2>6. \A i \in 1 .. Len(p) : Link(p, t, i)
    <3>1. \A i \in 1 .. Len(p) : i \in 1 .. 3 /\ 0 + i = i BY <2>2
    <3> QED BY <2>5, <3>1
  <2>7. Route(p, t)
    <3>1. t[Len(p) + 1] = y3 BY <2>2
    <3> QED BY <1>7, <2>2, <2>6, <3>1 DEF Route, s
  <2> QED BY <2>7 DEF p, t
<1>9. CASE call.routine = "zgesv_1d"
  <2> DEFINE f == zgetrf_1d(call.A, call.IPIV)
  <2>0. x = "N" BY <1>9 DEF Trans, x
  <2>1. p = <<Info(f), IfZero>> \o <<z1, z2, z3>> /\ t = <<s, s>> \o <<s, y1, y2, y3>>
    BY <1>4, <1>5, <1>9, <2>0 DEF Program, zgesv_1d, Trail, s, g, w
  <2> HIDE DEF p, t
  <2>2. /\ Len(p) = 5 /\ p[1] = Info(f) /\ p[2] = IfZero
        /\ p[2 + 1] = z1 /\ p[2 + 2] = z2 /\ p[2 + 3] = z3
        /\ t[1] = s /\ t[2] = s /\ t[2 + 1] = s /\ t[2 + 2] = y1 /\ t[2 + 3] = y2
        /\ t[2 + 4] = y3
    BY <2>1, Elements
  <2>3. \A i \in 1 .. 3 : p[2 + i] = zgetrs(call, x)[i] /\ ~Early(2 + i)
    <3>1. \A i \in 1 .. 3 : i = 1 \/ i = 2 \/ i = 3 OBVIOUS
    <3>2. \A i \in 1 .. 3 : ~Early(2 + i) BY DEF Early
    <3> QED BY <1>5, <2>2, <3>1, <3>2 DEF g
  <2>4. \A i \in 1 .. 4 : t[2 + i] = GetrsTrail(x, s)[i]
    <3>1. \A i \in 1 .. 4 : i = 1 \/ i = 2 \/ i = 3 \/ i = 4 OBVIOUS
    <3> QED BY <1>4, <2>2, <3>1 DEF w
  <2>5. \A i \in 1 .. 3 : Link(p, t, 2 + i) BY <1>1, <1>2, <1>3, <2>3, <2>4, GetrsLinks
  <2>6. Link(p, t, 1)
    <3>1. call.IPIV.mt = 1 /\ call.IPIV.nt = Tiles(call.A.n) BY <1>9 DEF Legal
    <3>2. f.code = 0 /\ f.name = "zgetrf_1d"
      <4>1. Tiles(call.A.n) \in Int
        <5>1. mb \in Nat \ {0} /\ call.A.n + mb - 1 \in Nat BY <1>1, SizeAssumption
        <5> QED BY <5>1, DivTyped DEF Tiles
      <4>2. ~(Less(Tiles(call.A.n), Tiles(call.A.m)) > call.IPIV.nt)
        BY <1>1, <3>1, <4>1 DEF Less
      <4> QED BY <3>1, <4>2, Codes, Names
    <3> HIDE DEF f
    <3>3. OpOf(p[1]) = f /\ p[1].name # "if" /\ p[2].name = "if" BY <2>2, Names DEF OpOf
    <3> QED BY <1>2, <1>3, <1>9, <2>2, <3>2, <3>3, LinkFactor DEF LUSolvers
  <2>7. Link(p, t, 2)
    <3>1. t[2 + 1] = t[2] BY <2>2
    <3> QED BY <2>2, <3>1, LinkBranch
  <2>8. \A i \in 1 .. Len(p) : Link(p, t, i)
    <3>1. \A i \in 1 .. Len(p) : i = 1 \/ i = 2 \/ (i - 2 \in 1 .. 3 /\ 2 + (i - 2) = i) BY <2>2
    <3> QED BY <2>5, <2>6, <2>7, <3>1
  <2>9. Route(p, t)
    <3>1. t[Len(p) + 1] = y3 BY <2>2
    <3> QED BY <1>7, <2>2, <2>8, <3>1 DEF Route, s
  <2> QED BY <2>9 DEF p, t
<1> QED BY <1>8, <1>9

\* dplasma_zgetrs_incpiv and dplasma_zgesv_incpiv.
LEMMA IncpivRoute ==
  ASSUME Fields, call \in Calls, Legal(call), call.routine \in {"zgetrs_incpiv", "zgesv_incpiv"}
  PROVE  Route(Program(call), Trail(call))
<1> DEFINE s == Before(call)
           p == Program(call)
           t == Trail(call)
           w == IncpivTrail(s)
           g == zgetrs_incpiv(call)
<1>1. /\ call.A.m = call.A.n /\ call.B = call.A.n /\ call.A.n \in Nat
      /\ ~TilesDiffer(call.L, call.A) /\ ~TilesDiffer(call.IPIV, call.A)
  BY LegalSizes DEF Legal
<1>2. Trans(call) = "N" /\ Factorization(call) = LUIncpiv BY DEF Trans, Factorization
<1>3. s.factors = LUIncpiv /\ s.word = <<>> /\ s.rows = call.B BY <1>1, <1>2, BeforeIs
<1>4. PICK y1, y2 : w = <<s, y1, y2>> BY DEF IncpivTrail
<1>5. PICK z1, z2 : g = <<z1, z2>> BY DEF zgetrs_incpiv
<1>6. Content(y2, FALSE) => Result(call)
  <2>1. y2 = Then(Then(s, <<Inv(Sym("Lp"))>>), <<By("U", "N")>>) BY <1>4 DEF IncpivTrail
  <2>2. y2.rows = call.B BY <1>3, <2>1, ContentsAre
  <2>3. y2.word = <<By("U", "N"), Inv(Sym("Lp"))>> BY <1>3, <2>1, TwoApplied
  <2>4. By("U", "N") = Inv(Sym("U")) BY InverseOf DEF Unitary
  <2>5. PseudoInverse(LUIncpiv) = <<Inv(Sym("U")), Inv(Sym("Lp"))>>
    BY ReversedWord DEF LUIncpiv
  <2>6. OpWord(LUIncpiv, "N") = LUIncpiv BY DEF OpWord
  <2>7. Content(y2, FALSE) => rhs.word = PseudoInverse(LUIncpiv) /\ rhs.rows = call.B
    BY <2>2, <2>3, <2>4, <2>5 DEF Content
  <2> QED BY <1>1, <1>2, <2>6, <2>7 DEF Result
<1> HIDE DEF s, w, g
<1>8. CASE call.routine = "zgetrs_incpiv"
  <2>1. p = g /\ t = w BY <1>8 DEF Program, Trail, s, g, w
  <2> HIDE DEF p, t
  <2>2. /\ Len(p) = 2 /\ p[0 + 1] = zgetrs_incpiv(call)[1] /\ p[0 + 2] = zgetrs_incpiv(call)[2]
        /\ t[0 + 1] = s /\ t[0 + 2] = IncpivTrail(s)[2] /\ t[0 + 3] = IncpivTrail(s)[3]
        /\ t[1] = s /\ t[3] = y2
    BY <1>4, <1>5, <2>1 DEF g, w
  <2>3. ~Early(0 + 1) /\ ~Early(0 + 2) BY <1>8 DEF Early, FactorizesItself, UsesPotrf
  <2>4. Link(p, t, 0 + 1) /\ Link(p, t, 0 + 2) BY <1>1, <1>3, <2>2, <2>3, IncpivLinks
  <2>5. \A i \in 1 .. Len(p) : Link(p, t, i)
    <3>1. \A i \in 1 .. Len(p) : i = 0 + 1 \/ i = 0 + 2 BY <2>2
    <3> QED BY <2>4, <3>1
  <2>6. Route(p, t)
    <3>1. t[Len(p) + 1] = y2 BY <2>2
    <3> QED BY <1>6, <2>2, <2>5, <3>1 DEF Route, s
  <2> QED BY <2>6 DEF p, t
<1>9. CASE call.routine = "zgesv_incpiv"
  <2> DEFINE f == zgetrf_incpiv(call.A, call.L, call.IPIV)
  <2>1. p = <<Info(f), IfZero>> \o <<z1, z2>> /\ t = <<s, s>> \o <<s, y1, y2>>
    BY <1>4, <1>5, <1>9 DEF Program, zgesv_incpiv, Trail, s, g, w
  <2> HIDE DEF p, t
  <2>2. /\ Len(p) = 4 /\ p[1] = Info(f) /\ p[2] = IfZero
        /\ p[2 + 1] = zgetrs_incpiv(call)[1] /\ p[2 + 2] = zgetrs_incpiv(call)[2]
        /\ t[1] = s /\ t[2] = s /\ t[2 + 1] = s
        /\ t[2 + 2] = IncpivTrail(s)[2] /\ t[2 + 3] = IncpivTrail(s)[3] /\ t[5] = y2
    BY <1>4, <1>5, <2>1, Elements DEF g, w
  <2>3. ~Early(2 + 1) /\ ~Early(2 + 2) BY DEF Early
  <2>4. Link(p, t, 2 + 1) /\ Link(p, t, 2 + 2) BY <1>1, <1>3, <2>2, <2>3, IncpivLinks
  <2>5. Link(p, t, 1)
    <3>1. f.code = 0 /\ f.name = "zgetrf_incpiv" BY <1>1, Codes, Names
    <3> HIDE DEF f
    <3>2. OpOf(p[1]) = f /\ p[1].name # "if" /\ p[2].name = "if" BY <2>2, Names DEF OpOf
    <3> QED BY <1>2, <1>3, <1>9, <2>2, <3>1, <3>2, LinkFactor DEF LUSolvers
  <2>6. Link(p, t, 2)
    <3>1. t[2 + 1] = t[2] BY <2>2
    <3> QED BY <2>2, <3>1, LinkBranch
  <2>7. \A i \in 1 .. Len(p) : Link(p, t, i)
    <3>1. \A i \in 1 .. Len(p) : i = 1 \/ i = 2 \/ i = 2 + 1 \/ i = 2 + 2 BY <2>2
    <3> QED BY <2>4, <2>5, <2>6, <3>1
  <2>8. Route(p, t)
    <3>1. t[Len(p) + 1] = y2 BY <2>2
    <3> QED BY <1>6, <2>2, <2>7, <3>1 DEF Route, s
  <2> QED BY <2>8 DEF p, t
<1> QED BY <1>8, <1>9

\* The pseudo-inverses of QR and LQ, and of their transposes.
LEMMA OrthogonalWords ==
  ASSUME NEW a
  PROVE  /\ PseudoInverse(OpWord(QR(a), "N")) =
              IF a.m > a.n THEN <<By("R", "N"), EC, Op(Sym("Q"), "C")>>
              ELSE <<By("R", "N"), Op(Sym("Q"), "C")>>
         /\ PseudoInverse(OpWord(QR(a), "C")) =
              IF a.m > a.n THEN <<Op(Sym("Q"), "N"), Sym("E"), By("R", "C")>>
              ELSE <<Op(Sym("Q"), "N"), By("R", "C")>>
         /\ PseudoInverse(OpWord(LQ(a), "N")) =
              IF a.n > a.m THEN <<Op(Sym("Q"), "C"), Sym("E"), By("L", "N")>>
              ELSE <<Op(Sym("Q"), "C"), By("L", "N")>>
         /\ PseudoInverse(OpWord(LQ(a), "C")) =
              IF a.n > a.m THEN <<By("L", "C"), EC, Op(Sym("Q"), "N")>>
              ELSE <<By("L", "C"), Op(Sym("Q"), "N")>>
<1> DEFINE q == Sym("Q")
           qc == Op(Sym("Q"), "C")
           e == Sym("E")
           l == Sym("L")
           r == Sym("R")
           lc == Op(Sym("L"), "C")
           rc == Op(Sym("R"), "C")
<1>1. /\ Inv(q) = qc /\ Inv(qc) = q /\ Op(q, "N") = q
      /\ Inv(e) = EC /\ Inv(EC) = e /\ Op(e, "C") = EC /\ Op(EC, "C") = e
  BY Symbols DEF Unitary, EC
<1>2. By("R", "N") = Inv(r) /\ By("L", "N") = Inv(l) BY InverseOf DEF Unitary
<1>3. By("R", "C") = Inv(rc) /\ By("L", "C") = Inv(lc) BY DEF By
<1>4. /\ QR(a) = IF a.m > a.n THEN <<q, e, r>> ELSE <<q, r>>
      /\ LQ(a) = IF a.n > a.m THEN <<l, EC, q>> ELSE <<l, q>>
  BY DEF QR, LQ, EC
<1>5. Op(q, "C") = qc /\ Op(r, "C") = rc /\ Op(l, "C") = lc OBVIOUS
<1>6. \A w : OpWord(w, "N") = w BY DEF OpWord
<1> HIDE DEF q, qc, e, l, r, lc, rc
<1>7. PseudoInverse(OpWord(QR(a), "N")) =
        IF a.m > a.n THEN <<By("R", "N"), EC, qc>> ELSE <<By("R", "N"), qc>>
  <2>1. OpWord(QR(a), "N") = QR(a) BY <1>6
  <2>2. PseudoInverse(<<q, e, r>>) = <<Inv(r), Inv(e), Inv(q)>> BY ReversedWord
  <2>3. PseudoInverse(<<q, r>>) = <<Inv(r), Inv(q)>> BY ReversedWord
  <2> QED BY <1>1, <1>2, <1>4, <2>1, <2>2, <2>3
<1>8. PseudoInverse(OpWord(LQ(a), "N")) =
        IF a.n > a.m THEN <<qc, e, By("L", "N")>> ELSE <<qc, By("L", "N")>>
  <2>1. OpWord(LQ(a), "N") = LQ(a) BY <1>6
  <2>2. PseudoInverse(<<l, EC, q>>) = <<Inv(q), Inv(EC), Inv(l)>> BY ReversedWord
  <2>3. PseudoInverse(<<l, q>>) = <<Inv(q), Inv(l)>> BY ReversedWord
  <2> QED BY <1>1, <1>2, <1>4, <2>1, <2>2, <2>3
<1>9. PseudoInverse(OpWord(QR(a), "C")) =
        IF a.m > a.n THEN <<Op(q, "N"), e, By("R", "C")>> ELSE <<Op(q, "N"), By("R", "C")>>
  <2>1. OpWord(QR(a), "C") = IF a.m > a.n THEN <<rc, EC, qc>> ELSE <<rc, qc>>
    <3>1. OpWord(<<q, e, r>>, "C") = <<Op(r, "C"), Op(e, "C"), Op(q, "C")>> BY ReversedWord
    <3>2. OpWord(<<q, r>>, "C") = <<Op(r, "C"), Op(q, "C")>> BY ReversedWord
    <3> QED BY <1>1, <1>4, <1>5, <3>1, <3>2
  <2>2. PseudoInverse(<<rc, EC, qc>>) = <<Inv(qc), Inv(EC), Inv(rc)>> BY ReversedWord
  <2>3. PseudoInverse(<<rc, qc>>) = <<Inv(qc), Inv(rc)>> BY ReversedWord
  <2> QED BY <1>1, <1>3, <2>1, <2>2, <2>3
<1>10. PseudoInverse(OpWord(LQ(a), "C")) =
         IF a.n > a.m THEN <<By("L", "C"), EC, Op(q, "N")>> ELSE <<By("L", "C"), Op(q, "N")>>
  <2>1. OpWord(LQ(a), "C") = IF a.n > a.m THEN <<qc, e, lc>> ELSE <<qc, lc>>
    <3>1. OpWord(<<l, EC, q>>, "C") = <<Op(q, "C"), Op(EC, "C"), Op(l, "C")>> BY ReversedWord
    <3>2. OpWord(<<l, q>>, "C") = <<Op(q, "C"), Op(l, "C")>> BY ReversedWord
    <3> QED BY <1>1, <1>4, <1>5, <3>1, <3>2
  <2>2. PseudoInverse(<<qc, e, lc>>) = <<Inv(lc), Inv(e), Inv(qc)>> BY ReversedWord
  <2>3. PseudoInverse(<<qc, lc>>) = <<Inv(lc), Inv(qc)>> BY ReversedWord
  <2> QED BY <1>1, <1>3, <2>1, <2>2, <2>3
<1> QED BY <1>7, <1>8, <1>9, <1>10 DEF q, qc, e

\* What the two orders of a rotation and a solve make of B.
LEMMA TurnSolveWord ==
  ASSUME NEW s, s.word = <<>>, NEW x, NEW y, NEW f, NEW r
  PROVE  LET e == Solved(Then(s, <<Op(Sym("Q"), x)>>), f, y, r)
         IN /\ e.rows = r
            /\ e.word = IF r = s.rows THEN <<By(f, y), Op(Sym("Q"), x)>>
                        ELSE <<By(f, y), EC, Op(Sym("Q"), x)>>
<1> DEFINE z == Op(Sym("Q"), x)
           q == Then(s, <<z>>)
           b == By(f, y)
           e == Solved(q, f, y, r)
<1>1. q.word = <<z>> \o s.word /\ q.rows = s.rows BY ContentsAre
<1>2. q.word = <<z>> BY <1>1, Joined
<1>3. e = IF r = q.rows THEN Then(q, <<b>>) ELSE Resized(q, <<b, EC>>, r) BY DEF Solved
<1> HIDE DEF z, q, b, e
<1>4. CASE r = q.rows
  <2>1. e.word = <<b>> \o q.word /\ e.rows = q.rows BY <1>3, <1>4, ContentsAre
  <2>2. e.word = <<b, z>> BY <1>2, <2>1, Joined
  <2> QED BY <1>1, <1>4, <2>1, <2>2 DEF z, q, b, e
<1>5. CASE r # q.rows
  <2>1. e.word = <<b, EC>> \o q.word /\ e.rows = r
    <3> DEFINE w == <<b, EC>>
    <3>1. e = Resized(q, w, r) BY <1>3, <1>5
    <3> HIDE DEF w
    <3>2. e.word = w \o q.word /\ e.rows = r BY <3>1, ContentsAre
    <3> QED BY <3>2 DEF w
  <2>2. e.word = <<b, EC, z>> BY <1>2, <2>1, Joined
  <2> QED BY <1>1, <1>5, <2>1, <2>2 DEF z, q, b, e
<1> QED BY <1>4, <1>5

\* A solve followed by a rotation applies the pseudo-inverse of the factorization.
LEMMA SolveTurnWord ==
  ASSUME NEW s, s.word = <<>>, NEW x, NEW y, NEW f, NEW r,
         NEW c, c \in {Then(s, <<By(f, x)>>), Cleared(Then(s, <<By(f, x)>>))}
  PROVE  LET e == Turned(c, y, r)
         IN /\ e.rows = r
            /\ e.word = IF r = s.rows THEN <<Op(Sym("Q"), y), By(f, x)>>
                        ELSE <<Op(Sym("Q"), y), Sym("E"), By(f, x)>>
<1> DEFINE z == Op(Sym("Q"), y)
           b == By(f, x)
           q == Then(s, <<b>>)
           e == Turned(c, y, r)
           g == Sym("E")
<1>1. q.word = <<b>> \o s.word /\ q.rows = s.rows BY ContentsAre
<1>2. c.word = <<b>> /\ c.rows = s.rows
  <2>1. q.word = <<b>> BY <1>1, Joined
  <2>2. c = q \/ c = Cleared(q) OBVIOUS
  <2> HIDE DEF q, b
  <2>3. Cleared(q).word = q.word /\ Cleared(q).rows = q.rows BY ContentsAre
  <2> QED BY <1>1, <2>1, <2>2, <2>3
<1>3. e = IF r = c.rows THEN Then(c, <<z>>) ELSE Resized(c, <<z, g>>, r) BY DEF Turned
<1> HIDE DEF z, q, b, e, g
<1>4. CASE r = c.rows
  <2>1. e.word = <<z>> \o c.word /\ e.rows = c.rows BY <1>3, <1>4, ContentsAre
  <2>2. e.word = <<z, b>> BY <1>2, <2>1, Joined
  <2> QED BY <1>2, <1>4, <2>1, <2>2 DEF z, b, e
<1>5. CASE r # c.rows
  <2>1. e.word = <<z, g>> \o c.word /\ e.rows = r
    <3> DEFINE w == <<z, g>>
    <3>1. e = Resized(c, w, r) BY <1>3, <1>5
    <3> HIDE DEF w
    <3>2. e.word = w \o c.word /\ e.rows = r BY <3>1, ContentsAre
    <3> QED BY <3>2 DEF w
  <2>2. e.word = <<z, g, b>> BY <1>2, <2>1, Joined
  <2> QED BY <1>2, <1>5, <2>1, <2>2 DEF z, b, e, g
<1> QED BY <1>4, <1>5

\* The routines of least squares, at the end of their trails.
Orthogonal == {"zgels", "zgeqrs", "zgeqrs_param", "zgelqs", "zgelqs_param"}

\* Their contents at the end are the result of the call.
LEMMA OrthogonalResult ==
  ASSUME call.routine \in Orthogonal, NEW e, NEW w,
         e.word = w, PseudoInverse(OpWord(Factorization(call), Trans(call))) = w,
         e.rows = IF Trans(call) = "N" THEN call.A.n ELSE call.A.m
  PROVE  Content(e, FALSE) => Result(call)
BY DEF Content, Result, Orthogonal

\* dplasma_zgeqrs and dplasma_zgeqrs_param.
LEMMA GeqrsRoute ==
  ASSUME Fields, call \in Calls, Legal(call), call.routine \in {"zgeqrs", "zgeqrs_param"}
  PROVE  Route(Program(call), Trail(call))
<1> DEFINE s == Before(call)
           p == Program(call)
           t == Trail(call)
           ts == IF call.routine = "zgeqrs" THEN {call.T} ELSE {call.T, call.TT}
           q == Then(s, <<Op(Sym("Q"), "C")>>)
           e == Solved(q, "R", "N", call.A.n)
           z1 == zunmqr("C", call.A, ts, call.B)
           z2 == ztrsm("Upper", "N", "NonUnit", Square(call.A.n), call.A.n)
<1>1. /\ call.A.m \in Nat /\ call.A.n \in Nat /\ call.B \in Nat
      /\ call.B >= call.A.m /\ call.B >= call.A.n /\ call.A.m >= call.A.n /\ call.B = call.A.m
  <2>1. call.A.m >= call.A.n BY DEF Legal
  <2>2. /\ call.A.m \in Nat /\ call.A.n \in Nat /\ call.B \in Nat
        /\ call.B >= call.A.m /\ call.B >= call.A.n /\ (call.B = call.A.m \/ call.B = call.A.n)
    BY LegalSizes
  <2> QED BY <2>1, <2>2
<1>2. ~TilesDiffer(call.T, call.A) /\ ~TilesDiffer(call.TT, call.A) BY DEF Legal
<1>3. Trans(call) = "N" /\ Factorization(call) = QR(call.A) BY DEF Trans, Factorization
<1>4. s.factors = QR(call.A) /\ s.word = <<>> /\ s.rows = call.B BY <1>1, <1>3, BeforeIs
<1>5. p = <<z1, z2>> BY DEF Program, zgeqrs
<1>6. t = <<s, q, e>> BY DEF Trail, GeqrsTrail
<1>7. \A i : ~Early(i) BY DEF Early, FactorizesItself, UsesPotrf
<1>8. \A z \in ts : ~TilesDiffer(z, call.A) BY <1>2
<1>9. Content(e, FALSE) => Result(call)
  <2>1. /\ e.rows = call.A.n
        /\ e.word = IF call.A.n = s.rows THEN <<By("R", "N"), Op(Sym("Q"), "C")>>
                    ELSE <<By("R", "N"), EC, Op(Sym("Q"), "C")>>
    BY <1>4, TurnSolveWord
  <2>2. call.A.m > call.A.n <=> call.A.n # s.rows BY <1>1, <1>4
  <2>3. e.word = PseudoInverse(OpWord(QR(call.A), "N")) BY <2>1, <2>2, OrthogonalWords
  <2> HIDE DEF e
  <2> QED BY <1>3, <2>1, <2>3, OrthogonalResult DEF Orthogonal
<1> HIDE DEF p, t, s, e, ts
<1>10. Link(p, t, 1) /\ Link(p, t, 1 + 1)
  <2>1. p[1] = z1 /\ p[1 + 1] = z2 /\ t[1] = s /\ t[1 + 1] = q /\ t[1 + 2] = e BY <1>5, <1>6
  <2>2. t[1 + 2] = Solved(t[1 + 1], "R", "N", call.A.n) BY <2>1 DEF e
  <2> HIDE DEF z1, z2
  <2>3. /\ p[1] = zunmqr("C", call.A, ts, call.B)
        /\ p[1 + 1] = ztrsm("Upper", "N", "NonUnit", Square(call.A.n), call.A.n)
    BY <2>1 DEF z1, z2
  <2>4. IsTurnSolve(p, t, 1, "Upper", "C", "N", "R", call.A.n, ts)
    BY <1>1, <1>4, <1>7, <1>8, <2>1, <2>2, <2>3, FoundQR DEF IsTurnSolve
  <2> QED BY <1>1, <2>4, TurnSolveAt
<1>11. Len(p) = 2 /\ t[1] = s /\ t[3] = e /\ 1 + 1 = 2 BY <1>5, <1>6
<1>12. \A i \in 1 .. Len(p) : Link(p, t, i)
  <2>1. \A i \in 1 .. Len(p) : i = 1 \/ i = 1 + 1 BY <1>11
  <2> QED BY <1>10, <2>1
<1>13. Route(p, t)
  <2>1. t[Len(p) + 1] = e BY <1>11
  <2> QED BY <1>9, <1>11, <1>12, <2>1 DEF Route, s
<1> QED BY <1>13 DEF p, t

\* dplasma_zgelqs and dplasma_zgelqs_param, of a square matrix.
LEMMA GelqsRoute ==
  ASSUME Fields, call \in Calls, Legal(call), ~KnownUnsolved(call),
         call.routine \in {"zgelqs", "zgelqs_param"}
  PROVE  Route(Program(call), Trail(call))
<1> DEFINE s == Before(call)
           p == Program(call)
           t == Trail(call)
           ts == IF call.routine = "zgelqs" THEN {call.T} ELSE {call.T, call.TT}
           l == Then(s, <<By("L", "N")>>)
           e == Then(l, <<Op(Sym("Q"), "C")>>)
           z1 == ztrsm("Lower", "N", "NonUnit", Square(call.A.m), call.A.m)
           z2 == zunmlq("C", call.A, ts, call.B)
<1>1. /\ call.A.m \in Nat /\ call.A.n = call.A.m /\ call.B = call.A.m
  <2>1. call.A.n >= call.A.m /\ ~(call.A.m < call.A.n) BY DEF Legal, KnownUnsolved
  <2>2. /\ call.A.m \in Nat /\ call.A.n \in Nat /\ call.B \in Nat
        /\ call.B = call.A.m \/ call.B = call.A.n
    BY LegalSizes
  <2> QED BY <2>1, <2>2
<1>2. ~TilesDiffer(call.T, call.A) /\ ~TilesDiffer(call.TT, call.A) BY DEF Legal
<1>3. Trans(call) = "N" /\ Factorization(call) = LQ(call.A) BY DEF Trans, Factorization
<1>4. s.factors = LQ(call.A) /\ s.word = <<>> /\ s.rows = call.B BY <1>1, <1>3, BeforeIs
<1>5. p = <<z1, z2>> BY DEF Program, zgelqs
<1>6. t = <<s, l, e>> BY DEF Trail, GelqsTrail
<1>7. \A i : ~Early(i) BY DEF Early, FactorizesItself, UsesPotrf
<1>8. \A z \in ts : ~TilesDiffer(z, call.A) BY <1>2
<1>9. Content(e, FALSE) => Result(call)
  <2>1. e.rows = call.A.n BY <1>1, <1>4, ContentsAre
  <2>2. e.word = <<Op(Sym("Q"), "C"), By("L", "N")>> BY <1>4, TwoApplied
  <2>3. ~(call.A.n > call.A.m) BY <1>1
  <2>4. e.word = PseudoInverse(OpWord(LQ(call.A), "N")) BY <2>2, <2>3, OrthogonalWords
  <2> HIDE DEF e
  <2> QED BY <1>3, <2>1, <2>4, OrthogonalResult DEF Orthogonal
<1>10. l.factors = LQ(call.A) /\ l.rows = call.B BY <1>4, ContentsAre
<1> HIDE DEF p, t, s, e, ts, l
<1>11. p[1] = z1 /\ p[2] = z2 /\ t[1] = s /\ t[2] = l /\ t[3] = e /\ Len(p) = 2 BY <1>5, <1>6
<1> HIDE DEF z1, z2
<1>12. Link(p, t, 1)
  <2>1. p[1] = ztrsm("Lower", "N", "NonUnit", Square(call.A.m), call.A.m) BY <1>11 DEF z1
  <2>2. t[1 + 1] = Then(t[1], <<By("L", "N")>>) BY <1>11 DEF l
  <2>3. Square(call.A.m).m = Square(call.A.m).n /\ Square(call.A.m).n = call.A.m BY DEF Square
  <2>4. Found(t[1].factors, "Lower", "NonUnit", "L") /\ t[1].rows = call.A.m
    BY <1>1, <1>4, <1>11, FoundQR
  <2>5. IsSolve(p, t, 1, "Lower", "N", "NonUnit", Square(call.A.m), call.A.m, "L")
    BY <1>1, <1>7, <2>1, <2>2, <2>3, <2>4 DEF IsSolve
  <2> QED BY <2>5, SolveAt
<1>13. Link(p, t, 2)
  <2>1. p[2] = zunmlq("C", call.A, ts, call.B) BY <1>11 DEF z2
  <2>2. t[2 + 1] = Then(t[2], <<Op(Sym("Q"), "C")>>) BY <1>11 DEF e
  <2>3. Sym("Q") \in Range(t[2].factors) /\ t[2].rows = call.B BY <1>10, <1>11, FoundQR
  <2>4. call.A.n = call.B /\ ~(call.A.m > call.B) BY <1>1
  <2>5. IsTurn(p, t, 2, "C", call.A, ts)
    BY <1>7, <1>8, <2>1, <2>2, <2>3, <2>4 DEF IsTurn
  <2> QED BY <2>5, TurnAt
<1>14. \A i \in 1 .. Len(p) : Link(p, t, i)
  <2>1. \A i \in 1 .. Len(p) : i = 1 \/ i = 2 BY <1>11
  <2> QED BY <1>12, <1>13, <2>1
<1>15. Route(p, t)
  <2>1. t[Len(p) + 1] = e BY <1>11
  <2> QED BY <1>9, <1>11, <1>14, <2>1 DEF Route, s
<1> QED BY <1>15 DEF p, t

\* dplasma_zgels: the factorization, and what follows it.
LEMMA GelsFactor ==
  ASSUME Fields, call \in Calls, Legal(call), call.routine = "zgels", NEW p, NEW t,
         p[1] \in {zgeqrf(call.A, call.T), zgelqf(call.A, call.T)},
         t[1] = Before(call), t[2] = t[1]
  PROVE  Link(p, t, 1) /\ \A i \in Nat : i > 1 => ~Early(i)
<1> DEFINE op == p[1]
<1>1. op.name \in {"zgeqrf", "zgelqf"} BY Names
<1>2. op.code = 0
  <2>1. ~TilesDiffer(call.T, call.A) BY DEF Legal
  <2> QED BY <2>1, Codes
<1>3. OpOf(p[1]) = op BY <1>1 DEF OpOf
<1>4. t[1].factors = Factorization(call) BY BeforeIs
<1> HIDE DEF op
<1>5. p[1].name # "if" BY <1>1 DEF op
<1>6. Link(p, t, 1) BY <1>1, <1>2, <1>3, <1>4, <1>5, LinkFactor
<1>7. \A i \in Nat : i > 1 => ~Early(i)
  <2>1. \A i \in Nat : i > 1 => ~(i <= 1) OBVIOUS
  <2> QED BY <2>1 DEF Early
<1> QED BY <1>6, <1>7

\* The sizes, the factorization and the first contents of a legal call of dplasma_zgels.
LEMMA GelsSizes ==
  ASSUME call \in Calls, Legal(call), call.routine = "zgels"
  PROVE  /\ call.A.m \in Nat /\ call.A.n \in Nat /\ call.B \in Nat
         /\ call.A.m <= call.B /\ call.A.n <= call.B
         /\ call.B = IF call.A.m >= call.A.n THEN call.A.m ELSE call.A.n
         /\ call.trans \in {"N", "C"} /\ Trans(call) = call.trans
         /\ ~TilesDiffer(call.T, call.A) /\ \A z \in {call.T} : ~TilesDiffer(z, call.A)
         /\ Factorization(call) = IF call.A.m >= call.A.n THEN QR(call.A) ELSE LQ(call.A)
         /\ Before(call).factors = Factorization(call) /\ Before(call).word = <<>>
         /\ Before(call).rows = IF call.trans = "N" THEN call.A.m ELSE call.A.n
<1>1. /\ call.A.m \in Nat /\ call.A.n \in Nat /\ call.B \in Nat
      /\ call.B >= call.A.m /\ call.B >= call.A.n /\ (call.B = call.A.m \/ call.B = call.A.n)
  BY LegalSizes
<1>2. call.trans \in {"N", "C"} /\ ~TilesDiffer(call.T, call.A) BY DEF Legal
<1>3. Trans(call) = call.trans BY DEF Trans
<1>4. Factorization(call) = IF call.A.m >= call.A.n THEN QR(call.A) ELSE LQ(call.A)
  BY DEF Factorization
<1>5. call.B = IF call.A.m >= call.A.n THEN call.A.m ELSE call.A.n BY <1>1
<1>6. call.A.m <= call.B /\ call.A.n <= call.B BY <1>1
<1> QED BY <1>1, <1>2, <1>3, <1>4, <1>5, <1>6, BeforeIs

\* The rotation first: the two operations are a route.
LEMMA GelsTurnSolve ==
  ASSUME Fields, call \in Calls, Legal(call), call.routine = "zgels", NEW p, NEW t, Len(p) = 3,
         p[1] \in {zgeqrf(call.A, call.T), zgelqf(call.A, call.T)},
         t[1] = Before(call), t[2] = t[1],
         NEW u, NEW x, NEW y, NEW f, NEW r, NEW ts, IsTurnSolve(p, t, 2, u, x, y, f, r, ts),
         Content(t[4], FALSE) => Result(call)
  PROVE  Route(p, t)
<1>1. Link(p, t, 1) BY GelsFactor
<1>2. Link(p, t, 2) /\ Link(p, t, 2 + 1)
  <2>1. call.A.m \in Nat /\ call.A.n \in Nat BY GelsSizes
  <2> QED BY <2>1, TurnSolveAt
<1>3. \A i \in 1 .. Len(p) : Link(p, t, i)
  <2>1. \A i \in 1 .. Len(p) : i = 1 \/ i = 2 \/ i = 2 + 1 OBVIOUS
  <2> QED BY <1>1, <1>2, <2>1
<1>4. Len(p) + 1 = 4 OBVIOUS
<1> QED BY <1>3, <1>4 DEF Route

\* The solve first: the operations up to the rotation are a route.
LEMMA GelsSolveTurn ==
  ASSUME Fields, call \in Calls, Legal(call), call.routine = "zgels", NEW p, NEW t,
         NEW l \in {4, 5}, Len(p) = l,
         p[1] \in {zgeqrf(call.A, call.T), zgelqf(call.A, call.T)},
         t[1] = Before(call), t[2] = t[1],
         NEW u, NEW x, NEW y, NEW f, NEW r, IsSolveTurn(p, t, 2, l, u, x, y, f, r),
         Content(t[l + 1], FALSE) => Result(call)
  PROVE  Route(p, t)
<1>1. Link(p, t, 1) BY GelsFactor
<1>2. \A j \in 2 .. l : Link(p, t, j)
  <2>1. call.A.m \in Nat /\ call.A.n \in Nat BY GelsSizes
  <2> QED BY <2>1, SolveTurnAt
<1>3. \A i \in 1 .. Len(p) : Link(p, t, i)
  <2>1. \A i \in 1 .. Len(p) : i = 1 \/ i \in 2 .. l OBVIOUS
  <2> QED BY <1>1, <1>2, <2>1
<1> QED BY <1>3 DEF Route

\* The programs of dplasma_zgels, element by element.
LEMMA Chains ==
  /\ \A a, b, c, d : LET s == <<a>> \o (<<b, c>> \o <<>> \o <<d>>)
       IN Len(s) = 4 /\ s[1] = a /\ s[2] = b /\ s[3] = c /\ s[4] = d
  /\ \A a, b, c, v, d : LET s == <<a>> \o (<<b, c>> \o <<v>> \o <<d>>)
       IN Len(s) = 5 /\ s[1] = a /\ s[2] = b /\ s[3] = c /\ s[4] = v /\ s[5] = d
  OBVIOUS

\* The trails of dplasma_zgels.
LEMMA GelsTrails ==
  ASSUME NEW c, NEW s, c.A.m \in Nat, c.A.n \in Nat
  PROVE  LET r == Then(s, <<By("R", "C")>>)
             l == Then(s, <<By("L", "N")>>)
         IN /\ c.A.m >= c.A.n /\ c.trans = "N" =>
                 GelsTrail(c, s) = <<s, s, Then(s, <<Op(Sym("Q"), "C")>>),
                   Solved(Then(s, <<Op(Sym("Q"), "C")>>), "R", "N", c.A.n)>>
            /\ c.A.m < c.A.n /\ c.trans # "N" =>
                 GelsTrail(c, s) = <<s, s, Then(s, <<Op(Sym("Q"), "N")>>),
                   Solved(Then(s, <<Op(Sym("Q"), "N")>>), "L", "C", c.A.m)>>
            /\ c.A.m = c.A.n /\ c.trans # "N" =>
                 GelsTrail(c, s) = <<s, s, r, r, Turned(r, "N", c.A.m)>>
            /\ c.A.m > c.A.n /\ c.trans # "N" =>
                 GelsTrail(c, s) = <<s, s, r, r, Cleared(r), Turned(Cleared(r), "N", c.A.m)>>
            /\ c.A.m < c.A.n /\ c.trans = "N" =>
                 GelsTrail(c, s) = <<s, s, l, l, Cleared(l), Turned(Cleared(l), "C", c.A.n)>>
<1> DEFINE q(i) == Then(s, <<Op(Sym("Q"), i)>>)
           r == Then(s, <<By("R", "C")>>)
           l == Then(s, <<By("L", "N")>>)
           t == GelsTrail(c, s)
           b == c.trans = "N"
           am == c.A.m
           an == c.A.n
           t1 == <<s, s, q("C"), Solved(q("C"), "R", "N", an)>>
           t2 == <<s, s, q("N"), Solved(q("N"), "L", "C", am)>>
           t3 == <<s, s, r, r, Turned(r, "N", am)>>
           t4 == <<s, s, r, r, Cleared(r), Turned(Cleared(r), "N", am)>>
           t5 == <<s, s, l, l, Cleared(l), Turned(Cleared(l), "C", an)>>
<1>1. t = LET qq == q(IF am >= an THEN "C" ELSE "N")
          IN CASE am >= an /\ b -> <<s, s, qq, Solved(qq, "R", "N", an)>>
               [] am < an /\ ~b -> <<s, s, qq, Solved(qq, "L", "C", am)>>
               [] am = an /\ ~b -> t3
               [] am > an /\ ~b -> t4
               [] OTHER -> t5
  BY DEF GelsTrail
<1> HIDE DEF t, b, r, l, t3, t4, t5
<1>2. CASE am >= an
  <2>1. t = CASE am >= an /\ b -> t1
              [] am < an /\ ~b -> <<s, s, q("C"), Solved(q("C"), "L", "C", am)>>
              [] am = an /\ ~b -> t3 [] am > an /\ ~b -> t4 [] OTHER -> t5
    BY <1>1, <1>2
  <2>2. ~(am < an) /\ (am = an \/ am > an) /\ ~(am = an /\ am > an) BY <1>2
  <2> HIDE DEF am, an, t1, q
  <2>3. /\ (am >= an /\ b => t = t1) /\ (am < an /\ ~b => t = t2) /\ (am = an /\ ~b => t = t3)
        /\ (am > an /\ ~b => t = t4) /\ (am < an /\ b => t = t5)
    BY <1>2, <2>1, <2>2
  <2> QED BY <2>3 DEF am, an, t, b, r, l, q, t1, t2, t3, t4, t5
<1>3. CASE ~(am >= an)
  <2>1. t = CASE am >= an /\ b -> <<s, s, q("N"), Solved(q("N"), "R", "N", an)>>
              [] am < an /\ ~b -> t2
              [] am = an /\ ~b -> t3 [] am > an /\ ~b -> t4 [] OTHER -> t5
    BY <1>1, <1>3
  <2>2. am < an /\ am # an /\ ~(am > an) BY <1>3
  <2> HIDE DEF am, an, t2, q
  <2>3. /\ (am >= an /\ b => t = t1) /\ (am < an /\ ~b => t = t2) /\ (am = an /\ ~b => t = t3)
        /\ (am > an /\ ~b => t = t4) /\ (am < an /\ b => t = t5)
    BY <1>3, <2>1, <2>2
  <2> QED BY <2>3 DEF am, an, t, b, r, l, q, t1, t2, t3, t4, t5
<1> QED BY <1>2, <1>3

\* The rotation first: A x = b of QR, A^H x = b of LQ.
LEMMA GelsTurnFirst ==
  ASSUME Fields, call \in Calls, Legal(call), call.routine = "zgels",
         NEW z0, NEW z1, NEW u, NEW x, NEW y, NEW f, NEW r,
         \/ /\ call.A.m >= call.A.n /\ call.trans = "N" /\ z0 = zgeqrf(call.A, call.T)
            /\ z1 = zunmqr(x, call.A, {call.T}, call.B)
            /\ u = "Upper" /\ x = "C" /\ y = "N" /\ f = "R" /\ r = call.A.n
         \/ /\ ~(call.A.m >= call.A.n) /\ call.trans # "N" /\ z0 = zgelqf(call.A, call.T)
            /\ z1 = zunmlq(x, call.A, {call.T}, call.B)
            /\ u = "Lower" /\ x = "N" /\ y = "C" /\ f = "L" /\ r = call.A.m,
         NEW z2, z2 = ztrsm(u, y, "NonUnit", Square(r), r),
         Program(call) = <<z0>> \o <<z1, Info(z2)>>
  PROVE  Route(Program(call), Trail(call))
<1> DEFINE s == Before(call)
           q == Then(s, <<Op(Sym("Q"), x)>>)
           e == Solved(q, f, y, r)
           p == Program(call)
           t == Trail(call)
<1>1. /\ call.A.m \in Nat /\ call.A.n \in Nat /\ call.B \in Nat
      /\ call.A.m <= call.B /\ call.A.n <= call.B
      /\ call.B = IF call.A.m >= call.A.n THEN call.A.m ELSE call.A.n
      /\ call.trans \in {"N", "C"} /\ Trans(call) = call.trans
      /\ \A z \in {call.T} : ~TilesDiffer(z, call.A)
  BY GelsSizes
<1>2. /\ Factorization(call) = IF call.A.m >= call.A.n THEN QR(call.A) ELSE LQ(call.A)
      /\ s.factors = Factorization(call) /\ s.word = <<>>
      /\ s.rows = IF call.trans = "N" THEN call.A.m ELSE call.A.n
  BY GelsSizes
<1>3. t = <<s, s, q, e>>
  <2>1. t = GelsTrail(call, s) BY DEF Trail
  <2>2. CASE call.A.m >= call.A.n /\ call.trans = "N"
    <3>1. t = <<s, s, Then(s, <<Op(Sym("Q"), "C")>>),
                Solved(Then(s, <<Op(Sym("Q"), "C")>>), "R", "N", call.A.n)>>
      BY <1>1, <2>1, <2>2, GelsTrails
    <3>2. x = "C" /\ y = "N" /\ f = "R" /\ r = call.A.n BY <2>2
    <3> QED BY <3>1, <3>2
  <2>3. CASE ~(call.A.m >= call.A.n) /\ call.trans # "N"
    <3>1. call.A.m < call.A.n BY <1>1, <2>3
    <3>2. t = <<s, s, Then(s, <<Op(Sym("Q"), "N")>>),
                Solved(Then(s, <<Op(Sym("Q"), "N")>>), "L", "C", call.A.m)>>
      BY <1>1, <2>1, <2>3, <3>1, GelsTrails
    <3>3. x = "N" /\ y = "C" /\ f = "L" /\ r = call.A.m BY <2>3
    <3> QED BY <3>2, <3>3
  <2> QED BY <2>2, <2>3
<1>4. s.rows = call.B /\ r \in Nat /\ r <= call.B BY <1>1, <1>2
<1>5. Sym("Q") \in Range(s.factors) /\ Found(s.factors, u, "NonUnit", f) BY <1>2, FoundQR
<1>6. Content(e, FALSE) => Result(call)
  <2>1. /\ e.rows = r
        /\ e.word = IF r = s.rows THEN <<By(f, y), Op(Sym("Q"), x)>>
                    ELSE <<By(f, y), EC, Op(Sym("Q"), x)>>
    BY <1>2, TurnSolveWord
  <2>2. e.word = PseudoInverse(OpWord(Factorization(call), call.trans))
    <3>1. CASE call.A.m >= call.A.n /\ call.trans = "N"
      <4>1. r = s.rows <=> ~(call.A.m > call.A.n) BY <1>1, <1>4, <3>1
      <4> QED BY <1>2, <2>1, <3>1, <4>1, OrthogonalWords
    <3>2. CASE ~(call.A.m >= call.A.n) /\ call.trans # "N"
      <4>1. r # s.rows /\ call.A.n > call.A.m /\ call.trans = "C" BY <1>1, <1>4, <3>2
      <4> QED BY <1>2, <2>1, <3>2, <4>1, OrthogonalWords
    <3> QED BY <3>1, <3>2
  <2>3. r = IF call.trans = "N" THEN call.A.n ELSE call.A.m OBVIOUS
  <2> HIDE DEF e
  <2> QED BY <1>1, <2>1, <2>2, <2>3, OrthogonalResult DEF Orthogonal
<1>7. p = <<z0>> \o <<z1, Info(z2)>> OBVIOUS
<1> HIDE DEF p, t, s, q, e
<1>8. /\ Len(p) = 3 /\ p[1] = z0 /\ p[2] = z1 /\ p[2 + 1] = Info(z2)
      /\ t[1] = s /\ t[2] = s /\ t[2 + 1] = q /\ t[2 + 2] = e /\ t[4] = e
  BY <1>3, <1>7, Elements
<1>9. \A i \in Nat : i > 1 => ~Early(i)
  <2>1. \A i \in Nat : i > 1 => ~(i <= 1) OBVIOUS
  <2> QED BY <2>1 DEF Early
<1>10. IsTurnSolve(p, t, 2, u, x, y, f, r, {call.T})
  <2>1. ~Early(2) /\ ~Early(2 + 1) BY <1>9
  <2>2. x \in {"N", "C"} /\ y \in {"N", "C"} /\ u \in {"Upper", "Lower"} OBVIOUS
  <2>3. \/ p[2] = zunmqr(x, call.A, {call.T}, call.B) /\ call.A.m = call.B
        \/ p[2] = zunmlq(x, call.A, {call.T}, call.B) /\ call.A.n = call.B
    BY <1>1, <1>8
  <2>4. t[2 + 1] = Then(t[2], <<Op(Sym("Q"), x)>>) /\ t[2 + 2] = Solved(t[2 + 1], f, y, r)
    BY <1>8 DEF q, e
  <2> QED BY <1>1, <1>4, <1>5, <1>8, <2>1, <2>2, <2>3, <2>4 DEF IsTurnSolve
<1>11. p[1] \in {zgeqrf(call.A, call.T), zgelqf(call.A, call.T)} BY <1>8
<1>12. t[1] = Before(call) /\ t[2] = t[1] BY <1>8 DEF s
<1>13. Content(t[4], FALSE) => Result(call) BY <1>6, <1>8
<1>14. Route(p, t) BY <1>8, <1>10, <1>11, <1>12, <1>13, GelsTurnSolve
<1> QED BY <1>14 DEF p, t

\* The solve first: A^H x = b of QR, A x = b of LQ.
LEMMA GelsSolveFirst ==
  ASSUME Fields, call \in Calls, Legal(call), call.routine = "zgels", ~ClearsInsideTile(call),
         NEW z0, NEW z1, NEW u, NEW x, NEW y, NEW f, NEW r,
         \/ /\ call.A.m >= call.A.n /\ call.trans # "N" /\ z0 = zgeqrf(call.A, call.T)
            /\ z1 = zunmqr(y, call.A, {call.T}, call.B)
            /\ u = "Upper" /\ x = "C" /\ y = "N" /\ f = "R" /\ r = call.A.n
         \/ /\ ~(call.A.m >= call.A.n) /\ call.trans = "N" /\ z0 = zgelqf(call.A, call.T)
            /\ z1 = zunmlq(y, call.A, {call.T}, call.B)
            /\ u = "Lower" /\ x = "N" /\ y = "C" /\ f = "L" /\ r = call.A.m,
         NEW z2, z2 = ztrsm(u, x, "NonUnit", Square(r), r),
         Program(call) = <<z0>> \o (<<Info(z2), IfZero>> \o Clear(r, call.B) \o <<z1>>)
  PROVE  Route(Program(call), Trail(call))
<1> DEFINE s == Before(call)
           b == Then(s, <<By(f, x)>>)
           p == Program(call)
           t == Trail(call)
           v == zlaset(r, call.B - r)
<1>1. /\ call.A.m \in Nat /\ call.A.n \in Nat /\ call.B \in Nat
      /\ call.A.m <= call.B /\ call.A.n <= call.B
      /\ call.B = IF call.A.m >= call.A.n THEN call.A.m ELSE call.A.n
      /\ call.trans \in {"N", "C"} /\ Trans(call) = call.trans /\ ~TilesDiffer(call.T, call.A)
  BY GelsSizes
<1>2. /\ Factorization(call) = IF call.A.m >= call.A.n THEN QR(call.A) ELSE LQ(call.A)
      /\ s.factors = Factorization(call) /\ s.word = <<>>
      /\ s.rows = IF call.trans = "N" THEN call.A.m ELSE call.A.n
  BY GelsSizes
<1>3. t = IF r = call.B THEN <<s, s, b, b, Turned(b, y, call.B)>>
          ELSE <<s, s, b, b, Cleared(b), Turned(Cleared(b), y, call.B)>>
  <2>1. t = GelsTrail(call, s) BY DEF Trail
  <2>2. CASE call.A.m >= call.A.n /\ call.trans # "N"
    <3> DEFINE c == Then(s, <<By("R", "C")>>)
    <3>1. x = "C" /\ y = "N" /\ f = "R" /\ r = call.A.n /\ call.B = call.A.m BY <1>1, <2>2
    <3>2. /\ call.A.m = call.A.n => t = <<s, s, c, c, Turned(c, "N", call.A.m)>>
          /\ call.A.m > call.A.n =>
               t = <<s, s, c, c, Cleared(c), Turned(Cleared(c), "N", call.A.m)>>
      BY <1>1, <2>1, <2>2, GelsTrails
    <3>3. c = b BY <3>1
    <3>4. r = call.B <=> call.A.m = call.A.n BY <3>1
    <3>5. r # call.B => call.A.m > call.A.n BY <1>1, <2>2, <3>1
    <3> HIDE DEF t, s, b, c
    <3> QED BY <3>1, <3>2, <3>3, <3>4, <3>5
  <2>3. CASE ~(call.A.m >= call.A.n) /\ call.trans = "N"
    <3> DEFINE c == Then(s, <<By("L", "N")>>)
    <3>1. x = "N" /\ y = "C" /\ f = "L" /\ r = call.A.m /\ call.B = call.A.n BY <1>1, <2>3
    <3>2. call.A.m < call.A.n BY <1>1, <2>3
    <3>3. t = <<s, s, c, c, Cleared(c), Turned(Cleared(c), "C", call.A.n)>>
      BY <1>1, <2>1, <2>3, <3>2, GelsTrails
    <3>4. c = b /\ r # call.B BY <1>1, <3>1, <3>2
    <3> HIDE DEF t, s, b, c
    <3> QED BY <3>1, <3>3, <3>4
  <2> QED BY <2>2, <2>3
<1>4. s.rows = r /\ r \in Nat /\ r <= call.B BY <1>1, <1>2
<1>5. Sym("Q") \in Range(s.factors) /\ Found(s.factors, u, "NonUnit", f) BY <1>2, FoundQR
<1>6. ASSUME NEW c, c \in {b, Cleared(b)}
      PROVE  Content(Turned(c, y, call.B), FALSE) => Result(call)
  <2> DEFINE e == Turned(c, y, call.B)
  <2>1. /\ e.rows = call.B
        /\ e.word = IF call.B = s.rows THEN <<Op(Sym("Q"), y), By(f, x)>>
                    ELSE <<Op(Sym("Q"), y), Sym("E"), By(f, x)>>
    BY <1>2, <1>6, SolveTurnWord
  <2> HIDE DEF e
  <2>2. e.word = PseudoInverse(OpWord(Factorization(call), call.trans))
    <3>1. CASE call.A.m >= call.A.n /\ call.trans # "N"
      <4>1. call.B = s.rows <=> ~(call.A.m > call.A.n) BY <1>1, <1>4, <3>1
      <4>2. x = "C" /\ y = "N" /\ f = "R" /\ call.trans = "C" BY <1>1, <3>1
      <4>3. Factorization(call) = QR(call.A) BY <1>2, <3>1
      <4> QED BY <2>1, <4>1, <4>2, <4>3, OrthogonalWords
    <3>2. CASE ~(call.A.m >= call.A.n) /\ call.trans = "N"
      <4>1. call.B # s.rows /\ call.A.n > call.A.m BY <1>1, <1>4, <3>2
      <4>2. x = "N" /\ y = "C" /\ f = "L" BY <3>2
      <4>3. Factorization(call) = LQ(call.A) BY <1>2, <3>2
      <4> QED BY <2>1, <3>2, <4>1, <4>2, <4>3, OrthogonalWords
    <3> QED BY <3>1, <3>2
  <2>3. call.B = IF call.trans = "N" THEN call.A.n ELSE call.A.m BY <1>1
  <2>4. Content(e, FALSE) => Result(call)
    BY <1>1, <2>1, <2>2, <2>3, OrthogonalResult DEF Orthogonal
  <2> QED BY <2>4 DEF e
<1>7. \A i \in Nat : i > 1 => ~Early(i)
  <2>1. \A i \in Nat : i > 1 => ~(i <= 1) OBVIOUS
  <2> QED BY <2>1 DEF Early
<1>8. /\ x \in {"N", "C"} /\ y \in {"N", "C"} /\ u \in {"Upper", "Lower"}
      /\ z0 \in {zgeqrf(call.A, call.T), zgelqf(call.A, call.T)}
      /\ \/ z1 = zunmqr(y, call.A, {call.T}, call.B) /\ call.A.m = call.B
         \/ z1 = zunmlq(y, call.A, {call.T}, call.B) /\ call.A.n = call.B
  BY <1>1
<1>9. p = <<z0>> \o (<<Info(z2), IfZero>> \o Clear(r, call.B) \o <<z1>>) OBVIOUS
<1> HIDE DEF p, t, s, b, v
<1>10. CASE r = call.B
  <2>1. Clear(r, call.B) = <<>>
    <3>1. ~(call.B > r) BY <1>4, <1>10
    <3> QED BY <3>1 DEF Clear
  <2>2. /\ Len(p) = 4 /\ p[1] = z0 /\ p[2] = Info(z2) /\ p[2 + 1] = IfZero /\ p[4] = z1
    <3>1. p = <<z0>> \o (<<Info(z2), IfZero>> \o <<>> \o <<z1>>) BY <1>9, <2>1
    <3>2. /\ Len(p) = 4 /\ p[1] = z0 /\ p[2] = Info(z2) /\ p[3] = IfZero /\ p[4] = z1
      BY <3>1, Chains
    <3> QED BY <3>2
  <2>3. /\ t[1] = s /\ t[2] = s /\ t[2 + 1] = b /\ t[2 + 2] = b /\ t[4] = b
        /\ t[4 + 1] = Turned(b, y, call.B)
    <3>1. t = <<s, s, b, b, Turned(b, y, call.B)>> BY <1>3, <1>10
    <3> QED BY <3>1
  <2>4. \A j \in 2 .. 4 : ~Early(j)
    <3>1. \A j \in 2 .. 4 : j \in Nat /\ j > 1 OBVIOUS
    <3> QED BY <3>1, <1>7
  <2>5. IsSolveTurn(p, t, 2, 4, u, x, y, f, r)
    <3>1. t[2 + 1] = Then(t[2], <<By(f, x)>>) BY <2>3 DEF b
    <3>2. t[4 + 1] = Turned(t[4], y, call.B) /\ t[2 + 2] = t[2 + 1] BY <2>3
    <3>3. Sym("Q") \in Range(t[2].factors) /\ Found(t[2].factors, u, "NonUnit", f)
          /\ t[2].rows = r
      BY <1>4, <1>5, <2>3
    <3>4. p[2] \in {ztrsm(u, x, "NonUnit", Square(r), r),
                    Info(ztrsm(u, x, "NonUnit", Square(r), r))}
      BY <2>2
    <3>5. \/ p[4] = zunmqr(y, call.A, {call.T}, call.B) /\ call.A.m = call.B
          \/ p[4] = zunmlq(y, call.A, {call.T}, call.B) /\ call.A.n = call.B
      BY <1>8, <2>2
    <3>6. 4 = 2 + 2 /\ r = call.B BY <1>10
    <3>7. /\ r \in Nat /\ call.B \in Nat /\ call.A.m <= call.B /\ call.A.n <= call.B
          /\ ~TilesDiffer(call.T, call.A)
      BY <1>1, <1>4
    <3>8. p[2 + 1] = IfZero /\ \A j \in 2 .. 4 : ~Early(j) BY <2>2, <2>4
    <3> QED BY <1>8, <3>1, <3>2, <3>3, <3>4, <3>5, <3>6, <3>7, <3>8, Zenon DEF IsSolveTurn
  <2>6. Content(t[4 + 1], FALSE) => Result(call) BY <1>6, <2>3
  <2>7. Len(p) = 4 /\ 4 \in {4, 5} /\ p[1] \in {zgeqrf(call.A, call.T), zgelqf(call.A, call.T)}
        /\ t[1] = Before(call) /\ t[2] = t[1]
    BY <1>8, <2>2, <2>3 DEF s
  <2>8. Route(p, t) BY <2>5, <2>6, <2>7, GelsSolveTurn
  <2> QED BY <2>8 DEF p, t
<1>11. CASE r # call.B
  <2>1. Clear(r, call.B) = <<v>> /\ r < call.B BY <1>1, <1>4, <1>11 DEF Clear, v
  <2>2. r % mb = 0
    <3>1. CASE call.A.m >= call.A.n /\ call.trans # "N"
      <4>1. r = call.A.n /\ call.A.n < call.A.m BY <1>1, <2>1, <3>1
      <4> QED BY <3>1, <4>1 DEF ClearsInsideTile
    <3>2. CASE ~(call.A.m >= call.A.n) /\ call.trans = "N"
      <4>1. r = call.A.m /\ call.A.m < call.A.n BY <1>1, <2>1, <3>2
      <4> QED BY <3>2, <4>1 DEF ClearsInsideTile
    <3> QED BY <3>1, <3>2
  <2>3. /\ Len(p) = 5 /\ p[1] = z0 /\ p[2] = Info(z2) /\ p[2 + 1] = IfZero /\ p[2 + 2] = v
        /\ p[5] = z1
    <3>1. p = <<z0>> \o (<<Info(z2), IfZero>> \o <<v>> \o <<z1>>) BY <1>9, <2>1
    <3>2. /\ Len(p) = 5 /\ p[1] = z0 /\ p[2] = Info(z2) /\ p[3] = IfZero /\ p[4] = v /\ p[5] = z1
      BY <3>1, Chains
    <3> QED BY <3>2
  <2>4. /\ t[1] = s /\ t[2] = s /\ t[2 + 1] = b /\ t[2 + 2] = b /\ t[2 + 3] = Cleared(b)
        /\ t[5] = Cleared(b) /\ t[5 + 1] = Turned(Cleared(b), y, call.B)
    <3>1. t = <<s, s, b, b, Cleared(b), Turned(Cleared(b), y, call.B)>> BY <1>3, <1>11
    <3> QED BY <3>1
  <2>5. \A j \in 2 .. 5 : ~Early(j)
    <3>1. \A j \in 2 .. 5 : j \in Nat /\ j > 1 OBVIOUS
    <3> QED BY <3>1, <1>7
  <2>6. IsSolveTurn(p, t, 2, 5, u, x, y, f, r)
    <3>1. t[2 + 1] = Then(t[2], <<By(f, x)>>) BY <2>4 DEF b
    <3>2. t[5 + 1] = Turned(t[5], y, call.B) /\ t[2 + 2] = t[2 + 1] /\ t[2 + 3] = Cleared(t[2 + 2])
      BY <2>4
    <3>3. Sym("Q") \in Range(t[2].factors) /\ Found(t[2].factors, u, "NonUnit", f)
          /\ t[2].rows = r
      BY <1>4, <1>5, <2>4
    <3>4. p[2] \in {ztrsm(u, x, "NonUnit", Square(r), r),
                    Info(ztrsm(u, x, "NonUnit", Square(r), r))}
      BY <2>3
    <3>5. \/ p[5] = zunmqr(y, call.A, {call.T}, call.B) /\ call.A.m = call.B
          \/ p[5] = zunmlq(y, call.A, {call.T}, call.B) /\ call.A.n = call.B
      BY <1>8, <2>3
    <3>6. 5 = 2 + 3 /\ p[2 + 2] = zlaset(r, call.B - r) BY <2>3 DEF v
    <3> QED BY <1>1, <1>4, <1>8, <2>1, <2>2, <2>3, <2>5, <3>1, <3>2, <3>3, <3>4, <3>5, <3>6
        DEF IsSolveTurn
  <2>7. Content(t[5 + 1], FALSE) => Result(call) BY <1>6, <2>4
  <2>8. Len(p) = 5 /\ 5 \in {4, 5} /\ p[1] \in {zgeqrf(call.A, call.T), zgelqf(call.A, call.T)}
        /\ t[1] = Before(call) /\ t[2] = t[1]
    BY <1>8, <2>3, <2>4 DEF s
  <2>9. Route(p, t) BY <2>6, <2>7, <2>8, GelsSolveTurn
  <2> QED BY <2>9 DEF p, t
<1> QED BY <1>10, <1>11

\* dplasma_zgels, in its four cases.
LEMMA GelsRoute ==
  ASSUME Fields, call \in Calls, Legal(call), ~KnownUnsolved(call), call.routine = "zgels"
  PROVE  Route(Program(call), Trail(call))
<1> DEFINE a == call.A
           p == Program(call)
           sr(u, x, r) == ztrsm(u, x, "NonUnit", Square(r), r)
<1>1. call.B = IF a.m >= a.n THEN a.m ELSE a.n BY GelsSizes
<1>2. p = IF a.m >= a.n
          THEN IF call.trans = "N"
               THEN <<zgeqrf(a, call.T)>>
                    \o <<zunmqr("C", a, {call.T}, call.B), Info(sr("Upper", "N", a.n))>>
               ELSE <<zgeqrf(a, call.T)>>
                    \o (<<Info(sr("Upper", "C", a.n)), IfZero>> \o Clear(a.n, a.m)
                        \o <<zunmqr("N", a, {call.T}, call.B)>>)
          ELSE IF call.trans = "N"
               THEN <<zgelqf(a, call.T)>>
                    \o (<<Info(sr("Lower", "N", a.m)), IfZero>> \o Clear(a.m, a.n)
                        \o <<zunmlq("C", a, {call.T}, call.B)>>)
               ELSE <<zgelqf(a, call.T)>>
                    \o <<zunmlq("N", a, {call.T}, call.B), Info(sr("Lower", "C", a.m))>>
  BY DEF Program, zgels
<1> HIDE DEF p
<1>3. ~ClearsInsideTile(call) BY DEF KnownUnsolved
<1>4. CASE a.m >= a.n /\ call.trans = "N"
  <2>1. p = <<zgeqrf(a, call.T)>>
            \o <<zunmqr("C", a, {call.T}, call.B), Info(sr("Upper", "N", a.n))>>
    BY <1>2, <1>4
  <2> QED BY <1>4, <2>1, GelsTurnFirst DEF p
<1>5. CASE ~(a.m >= a.n) /\ call.trans # "N"
  <2>1. p = <<zgelqf(a, call.T)>>
            \o <<zunmlq("N", a, {call.T}, call.B), Info(sr("Lower", "C", a.m))>>
    BY <1>2, <1>5
  <2> QED BY <1>5, <2>1, GelsTurnFirst DEF p
<1>6. CASE a.m >= a.n /\ call.trans # "N"
  <2>1. p = <<zgeqrf(a, call.T)>>
            \o (<<Info(sr("Upper", "C", a.n)), IfZero>> \o Clear(a.n, call.B)
                \o <<zunmqr("N", a, {call.T}, call.B)>>)
    BY <1>1, <1>2, <1>6
  <2> QED BY <1>6, <1>3, <2>1, GelsSolveFirst DEF p
<1>7. CASE ~(a.m >= a.n) /\ call.trans = "N"
  <2>1. p = <<zgelqf(a, call.T)>>
            \o (<<Info(sr("Lower", "N", a.m)), IfZero>> \o Clear(a.m, call.B)
                \o <<zunmlq("C", a, {call.T}, call.B)>>)
    BY <1>1, <1>2, <1>7
  <2> QED BY <1>7, <1>3, <2>1, GelsSolveFirst DEF p
<1> QED BY <1>4, <1>5, <1>6, <1>7

\* Every driver, on its way.
LEMMA AllRoutes ==
  ASSUME Fields, call \in Calls, Wanted PROVE Route(Program(call), Trail(call))
<1>1. Legal(call) /\ ~KnownUnsolved(call) BY DEF Wanted
<1>2. call.routine \in Routines BY CallsAssumption
<1>3. CASE call.routine \in {"zpotrs", "zposv"} BY <1>1, <1>3, PotrsRoute
<1>4. CASE call.routine \in {"zpotrf", "zpotri", "zpoinv_sync"} BY <1>1, <1>4, PotriRoute
<1>5. CASE call.routine \in {"zgetrs", "zgesv_1d"} BY <1>1, <1>5, GetrsRoute
<1>6. CASE call.routine \in {"zgetrs_incpiv", "zgesv_incpiv"} BY <1>1, <1>6, IncpivRoute
<1>7. CASE call.routine \in {"zgeqrs", "zgeqrs_param"} BY <1>1, <1>7, GeqrsRoute
<1>8. CASE call.routine \in {"zgelqs", "zgelqs_param"} BY <1>1, <1>8, GelqsRoute
<1>9. CASE call.routine = "zgels" BY <1>1, <1>9, GelsRoute
<1> QED BY <1>2, <1>3, <1>4, <1>5, <1>6, <1>7, <1>8, <1>9 DEF Routines

\* A trail starts with what the caller provides.
LEMMA TrailStarts == ASSUME NEW c PROVE Trail(c)[1] = Before(c)
<1> DEFINE s == Before(c)
<1>1. \E x, y : PotrsTrail(c, s) = <<s, x, y>> BY DEF PotrsTrail
<1>2. \E x, y : PotriTrail(c, s) = <<s, x, y>> BY DEF PotriTrail
<1>3. \A t : \E x, y, z : GetrsTrail(t, s) = <<s, x, y, z>>
  <2> TAKE t
  <2>1. CASE t = "N" BY <2>1 DEF GetrsTrail
  <2>2. CASE t # "N" BY <2>2 DEF GetrsTrail
  <2> QED BY <2>1, <2>2
<1>4. \E x, y : IncpivTrail(s) = <<s, x, y>> BY DEF IncpivTrail
<1>5. \E x, y : GeqrsTrail(c, s) = <<s, x, y>> BY DEF GeqrsTrail
<1>6. \E x, y : GelqsTrail(c, s) = <<s, x, y>> BY DEF GelqsTrail
<1>7. GelsTrail(c, s)[1] = s BY DEF GelsTrail
<1> HIDE DEF s
<1>8. \A q : (\E x, y : q = <<s, x, y>>) \/ (\E x, y, z : q = <<s, x, y, z>>) =>
        q[1] = s /\ (<<s, s>> \o q)[1] = s /\ (<<s>> \o q)[1] = s
  OBVIOUS
<1>9. Trail(c)[1] = s
  <2>1. /\ PotrsTrail(c, s)[1] = s /\ (<<s, s>> \o PotrsTrail(c, s))[1] = s BY <1>1, <1>8
  <2>2. /\ PotriTrail(c, s)[1] = s /\ (<<s>> \o PotriTrail(c, s))[1] = s BY <1>2, <1>8
  <2>3. \A t : GetrsTrail(t, s)[1] = s /\ (<<s, s>> \o GetrsTrail(t, s))[1] = s BY <1>3, <1>8
  <2>4. IncpivTrail(s)[1] = s /\ (<<s, s>> \o IncpivTrail(s))[1] = s BY <1>4, <1>8
  <2>5. GeqrsTrail(c, s)[1] = s /\ GelqsTrail(c, s)[1] = s BY <1>5, <1>6, <1>8
  <2>6. <<s, s>>[1] = s OBVIOUS
  <2> QED BY <1>7, <2>1, <2>2, <2>3, <2>4, <2>5, <2>6 DEF Trail, s
<1> QED BY <1>9 DEF s

\* The branches of the LU solvers, and those behind dplasma_zpotrf.
LEMMA LUSteps ==
  ASSUME NEW c, c.routine \in LUSolvers
  PROVE  LET p == Program(c)
         IN /\ Len(p) > 3 /\ p[1].name = "info" /\ OpOf(p[1]).name # "zpotrf"
            /\ \A i \in 1 .. Len(p) : p[i].name = "if" <=> i = 2
<1> DEFINE p == Program(c)
<1>1. CASE c.routine = "zgesv_1d"
  <2> DEFINE x == Info(zgetrf_1d(c.A, c.IPIV))
  <2>1. p = <<x, IfZero>> \o zgetrs(c, "N") BY <1>1 DEF Program, zgesv_1d
  <2>2. PICK u, v, w : /\ zgetrs(c, "N") = <<u, v, w>>
                       /\ {u.name, v.name, w.name} \subseteq {"zlaswp", "ztrsm"}
    BY Names DEF zgetrs
  <2>3. x.name = "info" /\ OpOf(x).name = "zgetrf_1d" /\ IfZero.name = "if" BY Names DEF OpOf
  <2> HIDE DEF x, p
  <2>4. /\ Len(p) = 5 /\ p[1] = x /\ p[2] = IfZero /\ p[3] = u /\ p[4] = v /\ p[5] = w
    <3>1. p = <<x, IfZero>> \o <<u, v, w>> BY <2>1, <2>2
    <3> QED BY <3>1, Elements
  <2>5. \A i \in 1 .. Len(p) : i = 1 \/ i = 2 \/ i = 3 \/ i = 4 \/ i = 5 BY <2>4
  <2> QED BY <2>2, <2>3, <2>4, <2>5 DEF p
<1>2. CASE c.routine = "zgesv_incpiv"
  <2> DEFINE x == Info(zgetrf_incpiv(c.A, c.L, c.IPIV))
  <2>1. p = <<x, IfZero>> \o zgetrs_incpiv(c) BY <1>2 DEF Program, zgesv_incpiv
  <2>2. PICK u, v : /\ zgetrs_incpiv(c) = <<u, v>>
                    /\ u.name = "ztrsmpl_incpiv" /\ v.name = "ztrsm"
    BY Names DEF zgetrs_incpiv
  <2>3. x.name = "info" /\ OpOf(x).name = "zgetrf_incpiv" /\ IfZero.name = "if"
    BY Names DEF OpOf
  <2> HIDE DEF x, p
  <2>4. Len(p) = 4 /\ p[1] = x /\ p[2] = IfZero /\ p[3] = u /\ p[4] = v
    BY <2>1, <2>2, Elements
  <2>5. \A i \in 1 .. Len(p) : i = 1 \/ i = 2 \/ i = 3 \/ i = 4 BY <2>4
  <2> QED BY <2>2, <2>3, <2>4, <2>5 DEF p
<1> QED BY <1>1, <1>2 DEF LUSolvers

\* dplasma_zpotrf is the first operation, with a branch behind it or none.
LEMMA PotrfFirst ==
  ASSUME NEW c, c.routine \in UsesPotrf
  PROVE  LET p == Program(c)
         IN p[1] = Info(zpotrf) /\ \A i \in 1 .. Len(p) : p[i].name = "if" => i = 2
<1> DEFINE p == Program(c)
<1>1. CASE c.routine = "zpotrf"
  <2>1. p = <<Info(zpotrf)>> BY <1>1 DEF Program
  <2>2. Len(p) = 1 /\ p[1] = Info(zpotrf) BY <2>1
  <2> QED BY <2>2, Names
<1>2. CASE c.routine = "zposv"
  <2>1. p = zposv(c) BY <1>2 DEF Program
  <2>2. /\ Len(p) = 4 /\ p[1] = Info(zpotrf) /\ p[3].name = "ztrsm" /\ p[4].name = "ztrsm"
    BY <2>1, PosvSteps
  <2> HIDE DEF p
  <2>3. \A i \in 1 .. Len(p) : i = 1 \/ i = 2 \/ i = 3 \/ i = 4 BY <2>2
  <2> QED BY <2>2, <2>3, Names DEF p
<1>3. CASE c.routine = "zpoinv_sync"
  <2>1. p = <<Info(zpotrf)>> \o <<Info(ztrtri(c.uplo, c.A)), zlauum(c.uplo, c.A)>>
    BY <1>3 DEF Program, zpotri, zpoinv_sync
  <2>2. /\ Len(p) = 3 /\ p[1] = Info(zpotrf) /\ p[2] = Info(ztrtri(c.uplo, c.A))
        /\ p[3] = zlauum(c.uplo, c.A)
    BY <2>1, Elements
  <2> HIDE DEF p
  <2>3. \A i \in 1 .. Len(p) : i = 1 \/ i = 2 \/ i = 3 BY <2>2
  <2> QED BY <2>2, <2>3, Names DEF p
<1> QED BY <1>1, <1>2, <1>3 DEF UsesPotrf

\* What a wanted call is doing.
LEMMA Underway ==
  ASSUME Typed, Fields, Wanted
  PROVE  /\ call \in Calls /\ call # NoCall /\ Rejects(call) = 0
         /\ Len(program) \in Nat /\ Len(program) > 0 /\ Last = Len(program) + 1
         /\ \A i \in 1 .. Len(program) : Link(program, Trail(call), i)
         /\ Content(Trail(call)[Last], FALSE) => Result(call)
         /\ call.routine \in LUSolvers =>
              /\ Len(program) > 3 /\ program[1].name = "info" /\ OpAt(1).name # "zpotrf"
              /\ \A i \in 1 .. Len(program) : program[i].name = "if" <=> i = 2
         /\ call.routine \in UsesPotrf =>
              /\ program[1] = Info(zpotrf)
              /\ \A i \in 1 .. Len(program) : program[i].name = "if" => i = 2
<1>1. call # NoCall /\ Legal(call) BY DEF Wanted
<1>2. call \in Calls BY <1>1 DEF Typed
<1>3. Rejects(call) = 0 BY <1>1, <1>2, LegalAccepted
<1>4. program = Program(call) BY <1>1, <1>3 DEF Typed
<1>5. Route(program, Trail(call)) BY <1>2, <1>4, AllRoutes
<1>6. call.routine \in Routines BY <1>2, CallsAssumption
<1>7. Len(program) \in Nat /\ Last = Len(program) + 1 BY DEF Typed, ProgramOK, Last
<1>8. Len(program) > 0 BY <1>4, <1>6, ProgramsOK
<1>9. call.routine \in LUSolvers =>
        /\ Len(program) > 3 /\ program[1].name = "info" /\ OpAt(1).name # "zpotrf"
        /\ \A i \in 1 .. Len(program) : program[i].name = "if" <=> i = 2
  BY <1>4, LUSteps DEF OpAt
<1>10. call.routine \in UsesPotrf =>
         /\ program[1] = Info(zpotrf)
         /\ \A i \in 1 .. Len(program) : program[i].name = "if" => i = 2
  BY <1>4, PotrfFirst
<1> QED BY <1>1, <1>2, <1>3, <1>5, <1>7, <1>8, <1>9, <1>10 DEF Route

-----------------------------------------------------------------------------
(* Words is inductive.                                                      *)

\* The matrix and the bodies stay.
LEMMA SameMatrix == ASSUME [Next]_vars PROVE UNCHANGED <<minor, devices>>
<1>1. CASE potrf_zpotrf BY <1>1 DEF potrf_zpotrf
<1>2. CASE potrf_zpotrf_CUDA BY <1>2 DEF potrf_zpotrf_CUDA
<1>3. CASE potrf_zpotrf_RECURSIVE BY <1>3 DEF potrf_zpotrf_RECURSIVE
<1>4. CASE sub_zpotrf BY <1>4 DEF sub_zpotrf
<1>5. CASE zpotrf_recursive_cb BY <1>5 DEF zpotrf_recursive_cb
<1>6. CASE \E n \in Nodes : Return(n) BY <1>6 DEF Return
<1>7. CASE UNCHANGED vars BY <1>7 DEF vars
<1> QED BY <1>1, <1>2, <1>3, <1>4, <1>5, <1>6, <1>7 DEF Next

\* A step that writes neither to A nor to B.
SameContents ==
  /\ UNCHANGED <<call, factors>>
  /\ rhs'.word = rhs.word /\ rhs'.rows = rhs.rows /\ rhs'.zero = rhs.zero

\* A call stays legal and wanted while it runs.
LEMMA WantedKept ==
  ASSUME [Next]_vars, UNCHANGED call PROVE Wanted' <=> Wanted
<1>1. UNCHANGED <<minor, devices>> BY SameMatrix
<1> QED BY <1>1 DEF Wanted, Legal, KnownUnsolved

\* One process goes on, its status as it was.
LEMMA WordsGoOn ==
  ASSUME Typed, Fields, Words, [Next]_vars, call # NoCall,
         UNCHANGED <<program, status, returned>>, SameContents,
         NEW n \in Nodes, NEW b \in Nat, at' = [at EXCEPT ![n] = b], at[n] < b,
         Wanted => /\ status[n] # 0 => b = Last
                   /\ b > 1 => at[n] > 1
                   /\ status[n] = 0 => (On(at[n]) => On(b))
                   /\ status[n] = 0 /\ call.routine \in UsesPotrf /\ b > 2 =>
                        b = 3 /\ program[2].name = "if"
                   /\ Parted => Parted'
  PROVE  Words'
<1>1. /\ at \in [Nodes -> Nat] /\ at[n] \in Nat /\ at'[n] = b
      /\ \A o \in Nodes : o # n => at'[o] = at[o]
      /\ UNCHANGED <<call, Last>>
  BY DEF Typed, SameContents, Last
<1>2. UNCHANGED minor /\ (Wanted' <=> Wanted)
  BY <1>1, SameMatrix, WantedKept
<1>3. ASSUME Wanted PROVE (Statuses /\ Waiting /\ (Parted \/ AllOn))'
  <2>1. Statuses /\ Waiting /\ (Parted \/ AllOn) BY <1>3 DEF Words
  <2>2. Statuses'
    <3>1. SUFFICES ASSUME NEW o \in Nodes
                   PROVE  /\ status[o] \in Nat
                          /\ status[o] # 0 =>
                               /\ at'[o] > 1 /\ (at'[o] = Last \/ program[at'[o]].name = "if")
                               /\ call.routine \in ReturnsInfo
                          /\ returned[o] # Inside =>
                               returned[o] = IF call.routine \in ReturnsInfo THEN status[o] ELSE 0
                          /\ at'[o] > 1 /\ status[o] = 0 => minor = 0
      BY <1>1, <1>2 DEF Statuses
    <3>2. CASE o # n BY <1>1, <2>1, <3>2 DEF Statuses
    <3>3. CASE o = n
      <4>1. status[n] # 0 => at[n] > 1 /\ b = Last /\ call.routine \in ReturnsInfo
        BY <1>3, <2>1 DEF Statuses
      <4>2. b > 1 /\ status[n] = 0 => minor = 0 BY <1>3, <2>1 DEF Statuses
      <4>3. status[n] \in Nat /\ (returned[n] # Inside =>
              returned[n] = IF call.routine \in ReturnsInfo THEN status[n] ELSE 0)
        BY <2>1 DEF Statuses
      <4>4. status[n] # 0 => b > 1 BY <1>1, <4>1
      <4> QED BY <1>1, <3>3, <4>1, <4>2, <4>3, <4>4
    <3> QED BY <3>2, <3>3
  <2>3. Waiting'
    <3>1. SUFFICES ASSUME call.routine \in UsesPotrf, NEW v \in Nodes, NEW o \in Nodes,
                          at'[v] <= 1, status[o] = 0
                   PROVE  at'[o] <= 2 \/ (at'[o] = 3 /\ program[2].name = "if")
      BY <1>1 DEF Waiting
    <3>2. CASE o = n
      <4>1. b > 2 => b = 3 /\ program[2].name = "if" BY <1>3, <3>1, <3>2
      <4> QED BY <1>1, <3>2, <4>1
    <3>3. CASE o # n
      <4>1. at[v] <= 1 BY <1>1, <3>1
      <4> QED BY <1>1, <2>1, <3>1, <3>3, <4>1 DEF Waiting
    <3> QED BY <3>2, <3>3
  <2>4. ASSUME AllOn PROVE AllOn'
    <3>1. \A o \in Nodes : status[o] = 0 => On(at'[o]) BY <1>1, <1>3, <2>4 DEF AllOn
    <3> QED BY <1>1, <3>1 DEF AllOn, On, Content, Early, SameContents
  <2> QED BY <1>3, <2>1, <2>2, <2>3, <2>4
<1> QED BY <1>1, <1>2, <1>3 DEF Words

\* Nobody goes on.
LEMMA WordsStay ==
  ASSUME Words, [Next]_vars, UNCHANGED <<program, at, status>>, SameContents,
         Wanted => \A n \in Nodes : returned'[n] # Inside => \/ returned'[n] = returned[n]
           \/ returned'[n] = IF call.routine \in ReturnsInfo THEN status[n] ELSE 0
  PROVE  Words'
<1>1. UNCHANGED <<call, Last, minor>> /\ (Wanted' <=> Wanted)
  BY SameMatrix, WantedKept DEF SameContents, Last
<1>2. ASSUME Wanted PROVE (Statuses /\ Waiting /\ (Parted \/ AllOn))'
  <2>1. Statuses /\ Waiting /\ (Parted \/ AllOn) BY <1>2 DEF Words
  <2>2. Statuses' BY <1>1, <1>2, <2>1 DEF Statuses
  <2>3. Waiting' BY <1>1, <2>1 DEF Waiting
  <2>4. Parted => Parted' BY <1>1 DEF Parted
  <2>5. AllOn => AllOn' BY DEF AllOn, On, Content, Early, SameContents
  <2> QED BY <2>1, <2>2, <2>3, <2>4, <2>5
<1> QED BY <1>1, <1>2 DEF Words

\* The contents of B that an operation leaves are those of its place in the trail.
LEMMA AfterOn ==
  ASSUME NEW op, NEW s, After(op, s),
         UNCHANGED call, factors' = FactorsAfter(op, FALSE), rhs' = RhsAfter(op)
  PROVE  Content(s, FALSE)'
  BY DEF After, Content

\* Between the calls there is nothing to hold.
LEMMA WordsInit == DriversInit => Words /\ Fields
<1> SUFFICES ASSUME DriversInit PROVE Words /\ Fields OBVIOUS
<1>1. call = NoCall /\ \A n \in Nodes : status[n] = 0 BY DEF DriversInit
<1>2. Fields BY DEF DriversInit, NoRhs, Fields
<1> QED BY <1>1, <1>2 DEF Words, Wanted

\* Every action keeps the fields of B.
LEMMA FieldsNext == Fields /\ [DriversNext]_allVars => Fields'
<1> SUFFICES ASSUME Fields, [DriversNext]_allVars PROVE Fields' OBVIOUS
<1>1. CASE UNCHANGED rhs BY <1>1 DEF Fields
<1>2. CASE \E c \in Calls : Invoke(c) BY <1>2 DEF Invoke, NoRhs, Fields
<1>3. CASE \E n \in Nodes : Enter(n) BY <1>3 DEF Enter, Fields
<1>4. CASE Complete
  <2>1. rhs' = RhsAfter(Operation(0)) BY <1>4 DEF Complete
  <2> QED BY <2>1, FieldsKept DEF Fields
<1>5. CASE \E n \in Nodes : Check(n) \/ Branch(n) \/ Reject(n) \/ PotrfReturns(n) \/ Leave(n)
  BY <1>1, <1>5 DEF Check, Branch, Reject, PotrfReturns, Leave
<1>6. CASE PotrfStep \/ Finalize \/ UNCHANGED allVars
  BY <1>1, <1>6 DEF PotrfStep, Finalize, driverVars, allVars
<1> QED BY <1>2, <1>3, <1>4, <1>5, <1>6 DEF DriversNext

\* A new call.
LEMMA WordsInvoke ==
  ASSUME Typed, Places, Words, call = NoCall, NEW c \in Calls, Invoke(c)
  PROVE  Words'
<1>1. /\ call' = c /\ c # NoCall /\ UNCHANGED <<callVars, at, status, returned>>
      /\ c.routine \notin UsesPotrf => minor = 0
  BY NoRoutine DEF Invoke
<1>2. UNCHANGED <<minor, devices>> BY <1>1 DEF callVars, vars
<1>3. \A n \in Nodes : status[n] = 0 /\ at[n] = 0 /\ returned[n] = Inside
  BY DEF Typed, Places, Words
<1>4. On(0)'
  <2> DEFINE s == Before(c)
  <2>1. s = [factors |-> Factorization(c), word |-> <<>>, zero |-> FALSE,
             rows |-> Less(c.B, IF Trans(c) = "N" THEN c.A.m ELSE c.A.n)]
    BY DEF Before, Contents
  <2>2. rhs' = [NoRhs EXCEPT !.rows = Less(c.B, IF Trans(c) = "N" THEN c.A.m ELSE c.A.n)]
    BY DEF Invoke
  <2>3. rhs'.word = s.word /\ rhs'.rows = s.rows /\ ~s.zero BY <2>1, <2>2 DEF NoRhs
  <2>4. factors' = IF c.routine \in FactorizesItself THEN <<>> ELSE Factorization(c)
    BY DEF Invoke
  <2>5. c.routine \in FactorizesItself \/ factors' = s.factors BY <2>1, <2>4
  <2>6. Trail(c)[1] = s BY TrailStarts
  <2> HIDE DEF s
  <2> QED BY <1>1, <2>3, <2>5, <2>6 DEF On, Content, Early
<1>5. Statuses' /\ Waiting' /\ AllOn'
  <2>1. Statuses' BY <1>1, <1>3 DEF Statuses
  <2>2. Waiting' BY <1>1, <1>3 DEF Waiting
  <2>3. AllOn' BY <1>1, <1>3, <1>4 DEF AllOn
  <2> QED BY <2>1, <2>2, <2>3
<1> QED BY <1>1, <1>2, <1>5 DEF Words

\* A process that has passed the checks of the call, or comes to a branch.
LEMMA WordsCheck ==
  ASSUME Typed, Places, Fields, Words, [Next]_vars, NEW n \in Nodes, Check(n)
  PROVE  Words'
<1>1. /\ call # NoCall /\ at[n] = 0 /\ UNCHANGED <<call, program, status, factors, rhs>>
  BY DEF Check
<1>2. SameContents BY <1>1 DEF SameContents
<1>3. CASE Rejects(call) # 0
  <2>1. at' = at /\ \A o \in Nodes : returned'[o] = returned[o] \/ ~Wanted
    BY <1>3, Underway DEF Check
  <2> QED BY <1>1, <1>2, <2>1, WordsStay
<1>4. CASE Rejects(call) = 0
  <2> DEFINE b == 1
  <2>1. at' = [at EXCEPT ![n] = b] /\ UNCHANGED returned BY <1>4 DEF Check
  <2>2. ASSUME Wanted
        PROVE  /\ status[n] = 0 /\ ~(b > 1) /\ (On(at[n]) => On(b)) /\ ~Parted
    <3>1. status[n] = 0 BY <1>1, <2>2 DEF Words, Statuses
    <3>2. On(0) => On(1) BY DEF On, Early
    <3>3. ~Parted BY <1>1, <3>1 DEF Parted
    <3> QED BY <1>1, <3>1, <3>2, <3>3
  <2>3. b \in Nat /\ at[n] < b /\ ~(b > 2) BY <1>1
  <2> HIDE DEF b
  <2> QED BY <1>1, <1>2, <2>1, <2>2, <2>3, WordsGoOn
<1> QED BY <1>3, <1>4

\* A process follows a branch: on with a zero status, to its end with another.
LEMMA WordsBranch ==
  ASSUME Typed, Places, Fields, Words, [Next]_vars, NEW n \in Nodes, Branch(n)
  PROVE  Words'
<1>1. /\ Active(n) /\ Step(n) = IfZero
      /\ UNCHANGED <<call, program, status, returned, factors, rhs>>
  BY DEF Branch
<1>2. SameContents BY <1>1 DEF SameContents
<1>3. /\ at[n] \in 1 .. Len(program) /\ Len(program) \in Nat /\ Last = Len(program) + 1
      /\ call # NoCall /\ program[at[n]].name = "if"
  BY <1>1, Standing, Names
<1> DEFINE b == IF status[n] = 0 THEN at[n] + 1 ELSE Last
<1>4. at' = [at EXCEPT ![n] = b] BY DEF Branch
<1>5. b \in Nat /\ at[n] < b BY <1>3
<1>6. ASSUME Wanted
      PROVE  /\ status[n] # 0 => b = Last
             /\ b > 1 => at[n] > 1
             /\ status[n] = 0 => (On(at[n]) => On(b))
             /\ status[n] = 0 /\ call.routine \in UsesPotrf /\ b > 2 =>
                  b = 3 /\ program[2].name = "if"
             /\ Parted => Parted'
  <2>1. Link(program, Trail(call), at[n]) BY <1>3, <1>6, Underway
  <2>2. at[n] > 1 /\ Trail(call)[at[n] + 1] = Trail(call)[at[n]] BY <1>3, <2>1 DEF Link
  <2>3. ASSUME status[n] = 0, On(at[n]) PROVE On(b)
    <3>1. b = at[n] + 1 /\ b # 0 /\ at[n] # 0 /\ ~(b <= 1) /\ ~(at[n] <= 1) BY <1>3, <2>2, <2>3
    <3>2. Trail(call)[b] = Trail(call)[at[n]] BY <2>2, <3>1
    <3> HIDE DEF b
    <3> QED BY <2>3, <3>1, <3>2 DEF On, Early
  <2>4. ASSUME status[n] = 0, call.routine \in UsesPotrf PROVE b = 3 /\ program[2].name = "if"
    <3>1. at[n] = 2 BY <1>3, <1>6, <2>4, Underway
    <3> QED BY <1>3, <2>4, <3>1
  <2>5. ASSUME Parted PROVE Parted'
    <3>1. call.routine \in LUSolvers BY <2>5 DEF Parted
    <3>2. at[n] = 2 BY <1>3, <1>6, <3>1, Underway
    <3>3. Last' = Last BY <1>1 DEF Last
    <3>4. b \in (IF status[n] = 0 THEN {2, 3} ELSE {2, Last}) BY <3>2
    <3>5. \A o \in Nodes : at'[o] = IF o = n THEN b ELSE at[o] BY <1>4 DEF Typed
    <3> HIDE DEF b
    <3> QED BY <1>1, <2>5, <3>3, <3>4, <3>5 DEF Parted
  <2> QED BY <2>2, <2>3, <2>4, <2>5
<1> HIDE DEF b
<1> QED BY <1>1, <1>2, <1>3, <1>4, <1>5, <1>6, WordsGoOn

\* An operation of the trail rejects nothing.
LEMMA WordsReject ==
  ASSUME Typed, Places, Fields, Words, [Next]_vars, NEW n \in Nodes, Reject(n)
  PROVE  Words'
<1>1. Active(n) /\ Step(n) # IfZero /\ Operation(n).code # 0 /\ UNCHANGED call BY DEF Reject
<1>2. /\ at[n] \in 1 .. Len(program) /\ Operation(n) = OpAt(at[n]) /\ Step(n) = program[at[n]]
      /\ Step(n).name # "if" /\ call # NoCall
  BY <1>1, Standing
<1>3. ~Wanted
  <2>1. SUFFICES ASSUME Wanted PROVE FALSE OBVIOUS
  <2>2. Link(program, Trail(call), at[n]) BY <1>2, <2>1, Underway
  <2> QED BY <1>1, <1>2, <2>2 DEF Link, OpAt
<1>4. UNCHANGED minor BY SameMatrix
<1> QED BY <1>1, <1>2, <1>3, <1>4, WantedKept DEF Words

\* All processes complete an operation of the trail.
LEMMA WordsComplete ==
  ASSUME Typed, Places, Fields, Words, [Next]_vars, Complete PROVE Words'
<1>0. PICK i : i = at[Here] OBVIOUS
<1> DEFINE op == OpAt(i)
           t == Trail(call)
<1>1. /\ Active(Here) /\ \A n \in Nodes : at[n] = i
      /\ Step(Here) = program[i] /\ Operation(Here) = op
      /\ i \in 1 .. Len(program) /\ program[i].name # "if" /\ call # NoCall
  BY <1>0, HereIsNode, Standing DEF Complete, Here, Places
<1>2. PICK owners \in SUBSET Nodes :
        /\ owners # {} => MayBeSingular(op)
        /\ status' = IF program[i].name = "info"
                     THEN [n \in Nodes |-> IF n \in owners THEN 1 ELSE 0] ELSE status
        /\ factors' = FactorsAfter(op, owners # {})
  BY <1>1 DEF Complete, Here
<1>3. /\ op.name # "zpotrf" /\ rhs' = RhsAfter(op) /\ UNCHANGED <<call, program, returned>>
      /\ \A n \in Nodes : at'[n] = i + 1
  BY <1>1 DEF Complete, Here
<1>4. UNCHANGED <<minor, Last>> /\ (Wanted' <=> Wanted) BY <1>3, SameMatrix, WantedKept DEF Last
<1>5. ASSUME Wanted PROVE (Statuses /\ Waiting /\ (Parted \/ AllOn))'
  <2>1. Statuses /\ (Parted \/ AllOn) BY <1>5 DEF Words
  <2>2. \A n \in Nodes : status[n] = 0 /\ returned[n] = Inside
    <3>1. TAKE n \in Nodes
    <3>2. Active(n) /\ Last # at[n] /\ at[n] = i
      BY <1>1, HereIsNode DEF Complete, Here, Active
    <3>3. returned[n] = Inside BY <3>2, Standing
    <3> QED BY <1>1, <2>1, <3>2, <3>3 DEF Statuses
  <2>3. AllOn BY <2>1, <2>2 DEF Parted
  <2>4. Content(t[i], Early(i))
    <3>1. On(i) BY <1>1, <2>2, <2>3, HereIsNode DEF AllOn
    <3>2. i # 0 BY <1>1
    <3> QED BY <3>1, <3>2 DEF On
  <2>5. /\ After(op, t[i + 1])
        /\ MayBeSingular(op) =>
             /\ i = 1 /\ call.routine \in LUSolvers /\ program[2].name = "if"
             /\ op.name \in {"zgetrf_1d", "zgetrf_incpiv"}
    <3>1. Link(program, t, i) BY <1>1, <1>5, Underway
    <3> QED BY <1>1, <1>3, <2>4, <3>1 DEF Link, OpAt
  <2>6. minor = 0
    <3>1. CASE i = 1
      <4>1. call.routine \notin UsesPotrf
        <5>1. SUFFICES ASSUME call.routine \in UsesPotrf PROVE FALSE OBVIOUS
        <5>2. program[1] = Info(zpotrf) BY <1>5, <5>1, Underway
        <5> QED BY <1>3, <3>1, <5>2, Names DEF OpAt, OpOf
      <4> QED BY <1>1, <4>1 DEF Words
    <3>2. CASE i # 1
      <4>1. at[Here] > 1 BY <1>0, <1>1, <3>2
      <4> QED BY <2>1, <2>2, <4>1, HereIsNode DEF Statuses
    <3> QED BY <3>1, <3>2
  <2>7. \A n \in Nodes : at'[n] > 1 /\ at'[n] = i + 1 /\ ~(at'[n] <= 1) BY <1>1, <1>3
  <2>8. Waiting' BY <1>3, <2>7 DEF Waiting
  <2>9. CASE owners = {}
    <3>1. \A n \in Nodes : status'[n] = 0 BY <1>2, <2>2, <2>9
    <3>2. Statuses' BY <1>3, <1>4, <2>2, <2>6, <3>1 DEF Statuses
    <3>3. i + 1 # 0 /\ ~(i + 1 <= 1) BY <1>1
    <3>4. Content(t[i + 1], FALSE)'
      <4>1. factors' = FactorsAfter(op, FALSE) BY <1>2, <2>9
      <4> QED BY <1>3, <2>5, <4>1 DEF After, Content
    <3>5. AllOn' BY <1>3, <2>7, <3>3, <3>4 DEF AllOn, On, Content, Early
    <3> QED BY <2>8, <3>2, <3>5
  <2>10. CASE owners # {}
    <3>1. /\ i = 1 /\ call.routine \in LUSolvers /\ program[2].name = "if"
          /\ program[1].name = "info"
      BY <1>2, <1>5, <2>5, <2>10, Underway
    <3>2. \A n \in Nodes : status'[n] = IF n \in owners THEN 1 ELSE 0 BY <1>2, <3>1
    <3>3. \A n \in Nodes : at'[n] = 2 BY <2>7, <3>1
    <3>4. call.routine \in ReturnsInfo BY <3>1 DEF LUSolvers, ReturnsInfo
    <3>5. Statuses' BY <1>3, <1>4, <2>2, <2>6, <3>1, <3>2, <3>3, <3>4 DEF Statuses
    <3>6. Parted' BY <1>3, <1>4, <2>10, <3>1, <3>2, <3>3 DEF Parted
    <3> QED BY <2>8, <3>5, <3>6
  <2> QED BY <2>9, <2>10
<1> QED BY <1>1, <1>3, <1>4, <1>5 DEF Words

\* dplasma_zpotrf returns on one process: 0 where the matrix is positive definite, when the
\* factors are in A and nobody has gone further than the operation behind it.
LEMMA WordsPotrf ==
  ASSUME Typed, Places, Fields, Words, [Next]_vars, SoundInv, SoundInv',
         devices = {"CPU"} => ExactInv', NEW n \in Nodes, PotrfReturns(n)
  PROVE  Words'
<1> DEFINE t == Trail(call)
<1>1. /\ Active(n) /\ Operation(n).name = "zpotrf"
      /\ UNCHANGED <<call, program, returned, rhs>>
      /\ factors' = IF minor = 0 THEN Chol(call.uplo) ELSE Junk
      /\ status' = [status EXCEPT ![n] = result'[n]]
      /\ at' = [at EXCEPT ![n] = at[n] + 1]
  BY DEF PotrfReturns, InPotrf
<1>2. /\ at[n] \in 1 .. Len(program) /\ Len(program) \in Nat /\ Last = Len(program) + 1
      /\ Operation(n) = OpAt(at[n]) /\ call # NoCall /\ returned[n] = Inside
  BY <1>1, Standing
<1>3. at[n] = 1 /\ program[1] = Info(zpotrf)
  BY <1>1, <1>2 DEF Typed, ProgramOK, OpAt
<1>4. UNCHANGED <<minor, devices, Last>> /\ (Wanted' <=> Wanted)
  BY <1>1, SameMatrix, WantedKept DEF Last
<1>5. ASSUME Wanted PROVE (Statuses /\ Waiting /\ (Parted \/ AllOn))'
  <2>1. Statuses /\ Waiting /\ (Parted \/ AllOn) BY <1>5 DEF Words
  <2>2. /\ \A o \in Nodes : at'[o] = IF o = n THEN 2 ELSE at[o]
        /\ \A o \in Nodes : status'[o] = IF o = n THEN result'[n] ELSE status[o]
        /\ \A o \in Nodes : at[o] \in Nat
    BY <1>1, <1>3 DEF Typed
  <2>3. result'[n] \in Nat /\ (result'[n] = 0 <=> minor = 0)
    <3>1. result'[n] = ginfo /\ result[n] = -1 /\ result'[n] # result[n]
      BY PotrfResult DEF PotrfReturns
    <3>2. result'[n] \in Nat BY <3>1 DEF SoundInv
    <3>3. result'[n] # -1 BY <3>2
    <3>4. ZeroIffDefinite' BY <1>5 DEF ExactInv, Wanted
    <3> QED BY <1>4, <3>2, <3>3, <3>4 DEF ZeroIffDefinite
  <2>4. /\ t[2] = t[1] /\ t[1].factors = Chol(call.uplo) /\ call.routine \in UsesPotrf
        /\ minor # 0 => Len(program) = 1 \/ program[2].name = "if"
    <3>1. Link(program, t, 1) BY <1>2, <1>3, <1>5, Underway
    <3>2. program[1].name # "if" /\ OpOf(program[1]).name = "zpotrf"
      BY <1>3, Names DEF OpOf
    <3> QED BY <3>1, <3>2 DEF Link
  <2>5. call.routine \in ReturnsInfo /\ call.routine \notin LUSolvers
        /\ call.routine \in FactorizesItself
    BY <2>4 DEF UsesPotrf, ReturnsInfo, LUSolvers, FactorizesItself
  <2>6. AllOn BY <2>1, <2>5 DEF Parted
  <2>7. status[n] = 0 BY <1>3, <2>1 DEF Statuses
  <2>8. Statuses'
    <3>1. result'[n] # 0 => 2 = Last \/ program[2].name = "if" BY <1>2, <2>3, <2>4
    <3>2. SUFFICES ASSUME NEW o \in Nodes
                   PROVE  /\ status'[o] \in Nat
                          /\ status'[o] # 0 =>
                               at'[o] > 1 /\ (at'[o] = Last \/ program[at'[o]].name = "if")
                          /\ returned[o] # Inside => returned[o] = status'[o]
                          /\ at'[o] > 1 /\ status'[o] = 0 => minor = 0
      BY <1>1, <1>4, <2>5 DEF Statuses
    <3>3. CASE o = n BY <1>2, <2>2, <2>3, <3>1, <3>3
    <3>4. CASE o # n BY <2>1, <2>2, <2>5, <3>4 DEF Statuses
    <3> QED BY <3>3, <3>4
  <2>9. Waiting'
    <3>1. SUFFICES ASSUME NEW v \in Nodes, NEW o \in Nodes, at'[v] <= 1, status'[o] = 0
                   PROVE  at'[o] <= 2 \/ (at'[o] = 3 /\ program[2].name = "if")
      BY <1>1 DEF Waiting
    <3>2. CASE o = n BY <2>2, <3>2
    <3>3. CASE o # n
      <4>1. at[v] <= 1 /\ status[o] = 0 BY <2>2, <3>1, <3>3
      <4> QED BY <2>1, <2>2, <2>4, <3>3, <4>1 DEF Waiting
    <3> QED BY <3>2, <3>3
  <2> DEFINE s(a) == t[IF a = 0 THEN 1 ELSE a]
  <2>10. ASSUME NEW o \in Nodes, status'[o] = 0
         PROVE  /\ rhs.word = s(at'[o]).word /\ rhs.rows = s(at'[o]).rows
                /\ s(at'[o]).zero => rhs.zero
                /\ at'[o] <= 1 \/ factors' = s(at'[o]).factors
    <3>1. On(at[o])
      <4>1. status[o] = 0 BY <2>2, <2>7, <2>10
      <4> QED BY <2>6, <4>1 DEF AllOn
    <3>2. rhs.word = s(at[o]).word /\ rhs.rows = s(at[o]).rows /\ (s(at[o]).zero => rhs.zero)
      BY <3>1 DEF On, Content
    <3>3. s(at'[o]) = s(at[o]) BY <1>3, <2>2, <2>4
    <3>4. ASSUME ~(at'[o] <= 1) PROVE factors' = s(at'[o]).factors
      <4>1. at'[o] > 1 BY <2>2, <3>4
      <4>2. minor = 0 BY <1>4, <2>8, <2>10, <4>1 DEF Statuses
      <4>3. at'[o] = 2 \/ (at'[o] = 3 /\ program[2].name = "if")
        <5>1. CASE o = n BY <2>2, <5>1
        <5>2. CASE o # n
          <6>1. at[n] <= 1 /\ status[o] = 0 BY <1>3, <2>2, <2>10, <5>2
          <6>2. at[o] <= 2 \/ (at[o] = 3 /\ program[2].name = "if")
            BY <2>1, <2>4, <6>1 DEF Waiting
          <6> QED BY <2>2, <4>1, <5>2, <6>2
        <5> QED BY <5>1, <5>2
      <4>4. CASE at'[o] = 2 BY <1>1, <2>4, <4>2, <4>4
      <4>5. CASE at'[o] = 3 /\ program[2].name = "if"
        <5>1. at[o] = 3 /\ at[o] <= Last BY <2>2, <4>5 DEF Places
        <5>2. 2 \in 1 .. Len(program) BY <1>2, <5>1
        <5>3. Link(program, t, 2) BY <1>5, <5>2, Underway
        <5>4. t[2 + 1] = t[2] BY <4>5, <5>3 DEF Link
        <5> QED BY <1>1, <2>4, <4>2, <4>5, <5>4
      <4> QED BY <4>3, <4>4, <4>5
    <3> HIDE DEF s
    <3> QED BY <3>2, <3>3, <3>4
  <2>11. AllOn' BY <1>1, <2>5, <2>10 DEF AllOn, On, Content, Early
  <2> QED BY <2>8, <2>9, <2>11
<1> QED BY <1>1, <1>2, <1>4, <1>5 DEF Words

\* Words is kept, one step per action.
LEMMA WordsNext ==
  ASSUME Typed, Places, Fields, Words, SoundInv, SoundInv', devices = {"CPU"} => ExactInv',
         [DriversNext]_allVars
  PROVE  Words'
<1>1. [Next]_vars BY StepsOfParts
<1>2. CASE call = NoCall /\ \E c \in Calls : Invoke(c) BY <1>2, WordsInvoke
<1>3. CASE \E n \in Nodes : Check(n) BY <1>1, <1>3, WordsCheck
<1>4. CASE \E n \in Nodes : Branch(n) BY <1>1, <1>4, WordsBranch
<1>5. CASE \E n \in Nodes : Reject(n) BY <1>1, <1>5, WordsReject
<1>6. CASE \E n \in Nodes : PotrfReturns(n) BY <1>1, <1>6, WordsPotrf
<1>7. CASE Complete BY <1>1, <1>7, WordsComplete
<1>8. ASSUME NEW n \in Nodes, Enter(n) PROVE Words'
  <2>1. UNCHANGED <<call, program, at, status, returned, factors>> BY <1>8 DEF Enter
  <2>2. rhs' = [rhs EXCEPT !.begun = rhs.begun \/ Operation(n).name \in OnRhs] BY <1>8 DEF Enter
  <2>3. rhs'.word = rhs.word /\ rhs'.rows = rhs.rows /\ rhs'.zero = rhs.zero
    BY <2>2 DEF Fields
  <2> QED BY <1>1, <2>1, <2>3, WordsStay DEF SameContents
<1>9. ASSUME NEW n \in Nodes, Leave(n) PROVE Words'
  <2>1. UNCHANGED <<call, program, at, status, rhs, factors>> BY <1>9 DEF Leave
  <2>2. \A o \in Nodes : returned'[o] =
          IF o = n THEN IF call.routine \in ReturnsInfo THEN status[n] ELSE 0 ELSE returned[o]
    BY <1>9 DEF Leave, Typed
  <2>3. SameContents BY <2>1 DEF SameContents
  <2> QED BY <1>1, <2>1, <2>2, <2>3, WordsStay
<1>10. CASE PotrfStep \/ Finalize \/ UNCHANGED allVars
  <2>1. UNCHANGED <<call, program, at, status, returned, rhs, factors>>
    BY <1>10 DEF PotrfStep, Finalize, driverVars, allVars
  <2> QED BY <1>1, <2>1, WordsStay DEF SameContents
<1> QED BY <1>2, <1>3, <1>4, <1>5, <1>6, <1>7, <1>8, <1>9, <1>10 DEF DriversNext

\* At the end of its trail a call has its result.
LEMMA SolvedFromWords == Typed /\ Places /\ Fields /\ Words => LegalSolved
<1> SUFFICES ASSUME Typed, Places, Fields, Words, NEW n \in Nodes, returned[n] # Inside,
                    Legal(call), ~KnownUnsolved(call), devices = {"CPU"}
             PROVE  returned[n] >= 0 /\ (returned[n] = 0 => Result(call))
  BY DEF LegalSolved
<1>1. Wanted BY DEF Wanted, Places
<1>2. /\ Len(program) \in Nat /\ Len(program) > 0 /\ Last = Len(program) + 1
      /\ Rejects(call) = 0 /\ (Content(Trail(call)[Last], FALSE) => Result(call))
  BY <1>1, Underway
<1>3. at[n] = Last BY <1>2 DEF Places
<1>4. Statuses /\ (Parted \/ AllOn) BY <1>1 DEF Words
<1>5. /\ status[n] \in Nat /\ (status[n] # 0 => call.routine \in ReturnsInfo)
      /\ returned[n] = IF call.routine \in ReturnsInfo THEN status[n] ELSE 0
  BY <1>4 DEF Statuses
<1>6. ASSUME returned[n] = 0 PROVE Result(call)
  <2>1. status[n] = 0 BY <1>5, <1>6
  <2>2. ~Parted
    <3>1. SUFFICES ASSUME Parted PROVE FALSE OBVIOUS
    <3>2. Len(program) > 3 BY <1>1, <3>1, Underway DEF Parted
    <3>3. at[n] \in {2, 3} BY <2>1, <3>1 DEF Parted
    <3> QED BY <1>2, <1>3, <3>2, <3>3
  <2>3. On(Last) BY <1>3, <1>4, <2>1, <2>2 DEF AllOn
  <2>4. Last # 0 /\ ~(Last <= 1) BY <1>2
  <2>5. Content(Trail(call)[Last], FALSE) BY <2>3, <2>4 DEF On, Early
  <2> QED BY <1>2, <2>5
<1> QED BY <1>5, <1>6

\* The words of the drivers, beside their invariant.
LEMMA WordsInvariant == DriversSpec => [](DriversInv /\ Fields /\ Words)
<1>1. DriversInit => DriversInv /\ Fields /\ Words BY DriversInvInit, WordsInit
<1>2. DriversInv /\ Fields /\ Words /\ [DriversNext]_allVars => (DriversInv /\ Fields /\ Words)'
  <2> SUFFICES ASSUME DriversInv, Fields, Words, [DriversNext]_allVars
               PROVE  (DriversInv /\ Fields /\ Words)'
    OBVIOUS
  <2>1. DriversInv' BY DriversInvNext
  <2>2. Fields' BY FieldsNext
  <2>3. Typed /\ Places /\ SoundInv BY DEF DriversInv
  <2>4. SoundInv' BY <2>1 DEF DriversInv
  <2>5. [Next]_vars BY <2>3, StepsOfParts
  <2>6. devices = {"CPU"} => ExactInv'
    <3>1. (devices = {"CPU"} => ExactInv)' BY <2>1 DEF DriversInv
    <3> QED BY <2>5, <3>1, SameMatrix
  <2>7. Words' BY <2>3, <2>4, <2>6, WordsNext
  <2> QED BY <2>1, <2>2, <2>7
<1> QED BY <1>1, <1>2, PTL DEF DriversSpec

(* A legal call of any driver but the two known gaps, on a machine without  *)
(* GPUs and recursive bodies, whatever the sizes, shapes and grid, is not   *)
(* rejected, and where it returns 0, on any process, what is in B is        *)
(* exactly the pseudo-inverse of op(A) applied to the right-hand side, or A *)
(* its factor or its inverse: no order of the processes and no zero pivot   *)
(* makes a driver report success without it.                                *)
THEOREM DriversSolve == DriversSpec => []LegalSolved
<1>1. DriversInv /\ Fields /\ Words => LegalSolved BY SolvedFromWords DEF DriversInv
<1> QED BY <1>1, WordsInvariant, PTL
=============================================================================
