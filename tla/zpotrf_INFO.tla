------------------------------ MODULE zpotrf_INFO ------------------------------
(***************************************************************************)
(* How the Cholesky factorization reports a matrix that is not positive    *)
(* definite.  Every process has an integer INFO, written by the bodies of  *)
(* the tasks potrf_zpotrf(k) it runs (zpotrf_L.jdf) and reduced over the   *)
(* processes when the call returns (zpotrf_wrapper.c).                     *)
(*                                                                         *)
(* The flow of tile data through the graph is the subject of zpotrf_L;     *)
(* here it only matters that potrf_zpotrf(k) runs after                    *)
(* potrf_zpotrf(k-1), and that the tiles after a failure hold garbage.     *)
(***************************************************************************)
EXTENDS Integers, FiniteSetsExt

CONSTANTS m, mb,      \* descA->m and descA->mb; tiles are square
          smallnb,    \* tile size of the recursive calls
          P, Q,       \* process grid
          DeviceSets  \* subsets of {"CPU", "CUDA", "RECURSIVE"}: the bodies there may be

ASSUME SizeAssumption == m \in Nat \ {0} /\ mb \in Nat \ {0} /\ smallnb \in Nat \ {0}
ASSUME GridAssumption == P \in Nat \ {0} /\ Q \in Nat \ {0}
ASSUME DeviceAssumption ==
  \A d \in DeviceSets : {"CPU"} \subseteq d /\ d \subseteq {"CPU", "CUDA", "RECURSIVE"}

mt == (m + mb - 1) \div mb
Nodes == 0 .. P * Q - 1
rank_of(x) == Q * (x % P) + (x % Q)

tempkm(x) == IF x = mt - 1 THEN m - x * mb ELSE mb
Less(a, b) == IF a < b THEN a ELSE b

VARIABLES
  devices, \* the bodies of this build and machine
  minor,   \* order of the first leading minor that is not positive definite, or 0
  k,       \* the next task potrf_zpotrf(k)
  sub,     \* next task of the sub-taskpool of potrf_zpotrf(k), or -1 without one
  info,    \* the local "info" of the task: INFO of its sub-taskpool
  INFO,    \* INFO of every process
  result   \* what the call returned on every process, or -1 before it returns
vars == <<devices, minor, k, sub, info, INFO, result>>

(* CORE_zpotrf on the len columns that follow the first lo columns of the   *)
(* matrix: the order of the first minor of this block that is not positive  *)
(* definite, anything once an earlier block has failed.                     *)
CORE_zpotrf(lo, len) ==
  IF minor = 0 \/ minor > lo + len THEN {0}
  ELSE IF minor > lo THEN {minor - lo}
  ELSE 0 .. len

\* Variants that keep the last order, and the order within the tile.
Record_last(old, offset, iinfo) == IF iinfo # 0 THEN offset + iinfo ELSE old
Record_tile(old, offset, iinfo) == IF iinfo # 0 /\ old = 0 THEN iinfo ELSE old

(* "if ( iinfo != 0 && *INFO == 0 ) *INFO = k*descA->mb+iinfo"              *)
Record(old, offset, iinfo) == IF iinfo # 0 /\ old = 0 THEN offset + iinfo ELSE old

Init ==
  /\ devices \in DeviceSets
  /\ minor \in 0 .. m
  /\ k = 0
  /\ sub = -1
  /\ info = 0
  /\ INFO = [n \in Nodes |-> 0]
  /\ result = [n \in Nodes |-> -1]

Recursive == "RECURSIVE" \in devices /\ tempkm(k) > smallnb

(* The sequential body.                                                     *)
potrf_zpotrf ==
  /\ k < mt /\ sub = -1 /\ ~Recursive
  /\ \E iinfo \in CORE_zpotrf(k * mb, tempkm(k)) :
       INFO' = [INFO EXCEPT ![rank_of(k)] = Record(@, k * mb, iinfo)]
  /\ k' = k + 1
  /\ UNCHANGED <<devices, minor, sub, info, result>>

(* The GPU bodies: the solver leaves its status in device memory (d_iinfo), *)
(* and nothing copies it from there.                                        *)
potrf_zpotrf_CUDA ==
  /\ "CUDA" \in devices
  /\ k < mt /\ sub = -1
  /\ k' = k + 1
  /\ UNCHANGED <<devices, minor, sub, info, INFO, result>>

(* The recursive body: a Cholesky taskpool on the tile, cut in tiles of     *)
(* smallnb, whose INFO is the "info" of this task; zpotrf_New clears it.    *)
potrf_zpotrf_RECURSIVE ==
  /\ k < mt /\ sub = -1 /\ Recursive
  /\ sub' = 0
  /\ info' = 0
  /\ UNCHANGED <<devices, minor, k, INFO, result>>

\* What CORE_zpotrf says of tile "sub" of the tile.
SubInfo ==
  CORE_zpotrf(k * mb + sub * smallnb, Less(smallnb, tempkm(k) - sub * smallnb))

(* potrf_zpotrf(sub) of the sub-taskpool, sequential or on a GPU.           *)
sub_zpotrf ==
  /\ sub # -1 /\ sub * smallnb < tempkm(k)
  /\ \/ \E iinfo \in SubInfo : info' = Record(info, sub * smallnb, iinfo)
     \/ "CUDA" \in devices /\ UNCHANGED info
  /\ sub' = sub + 1
  /\ UNCHANGED <<devices, minor, k, INFO, result>>

(* The sub-taskpool is complete: zpotrf_recursive_cb is called with it (tp), *)
(* and destroys it.  tppo->_g_INFO is what the sub-taskpool was created      *)
(* with, the address of "info".                                              *)
tppo_INFO == info
zpotrf_recursive_cb ==
  /\ sub # -1 /\ sub * smallnb >= tempkm(k)
  /\ info' = IF info > 0 /\ tppo_INFO = 0 THEN info + k * mb ELSE tppo_INFO
  /\ sub' = -1
  /\ k' = k + 1
  /\ UNCHANGED <<devices, minor, INFO, result>>

(* dplasma_zpotrf after the taskpool: MPI_Allreduce with MPI_MAX if there is *)
(* more than one process.                                                    *)
ginfo == Max({INFO[n] : n \in Nodes})

\* A variant that returns what this process knows.
Return_local(n) ==
  /\ k = mt
  /\ result[n] = -1
  /\ result' = [result EXCEPT ![n] = INFO[n]]
  /\ UNCHANGED <<devices, minor, k, sub, info, INFO>>

Return(n) ==
  /\ k = mt
  /\ result[n] = -1
  /\ result' = [result EXCEPT ![n] = ginfo]
  /\ UNCHANGED <<devices, minor, k, sub, info, INFO>>

Next ==
  \/ potrf_zpotrf \/ potrf_zpotrf_CUDA \/ potrf_zpotrf_RECURSIVE
  \/ sub_zpotrf \/ zpotrf_recursive_cb
  \/ \E n \in Nodes : Return(n)

Spec == Init /\ [][Next]_vars
-----------------------------------------------------------------------------
(* Types; INFO is an order within the matrix, result is INFO or unset.       *)
TypeOK ==
  /\ devices \in DeviceSets
  /\ minor \in 0 .. m
  /\ k \in 0 .. mt
  /\ sub \in -1 .. mb
  /\ info \in 0 .. mb
  /\ INFO \in [Nodes -> 0 .. m]
  /\ result \in [Nodes -> -1 .. m]

(* Once the task of the block that holds the first minor that is not         *)
(* positive definite has run, the process that owns the block holds the      *)
(* order of that minor, and keeps it although later blocks go on to fail.    *)
FailedTile == (minor - 1) \div mb
OwnerKnows == minor # 0 /\ k > FailedTile => INFO[rank_of(FailedTile)] = minor

(* dplasma_zpotrf returns 0 on every process if and only if the matrix is    *)
(* positive definite.                                                        *)
ZeroIffDefinite == \A n \in Nodes : result[n] # -1 => (result[n] = 0 <=> minor = 0)

(* With the sequential bodies alone the owner of the failing block knows,    *)
(* and the status is exact.                                                  *)
SequentialExact == devices = {"CPU"} => OwnerKnows /\ ZeroIffDefinite

(* An order that is returned is that of a leading minor that really is not   *)
(* positive definite, whichever bodies ran: it never precedes the first one. *)
NoFalseAlarm == \A n \in Nodes : result[n] > 0 => minor # 0 /\ result[n] >= minor
=============================================================================
