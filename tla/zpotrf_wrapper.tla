---------------------------- MODULE zpotrf_wrapper ----------------------------
(***************************************************************************)
(* A call of dplasma_zpotrf, or of dplasma_zpotrf_rec, from its New to the *)
(* reduction of the status: the taskpool enters its datatypes in the table *)
(* of the process (dplasma_lapack_adtt), its bodies run and report         *)
(* (zpotrf_INFO), recursive bodies create and destroy taskpools of their   *)
(* own that use the same table, and Destruct cleans it up.  A third thread *)
(* works on an unrelated taskpool meanwhile.                               *)
(*                                                                         *)
(* The table is that of process Here; the other processes take part in the *)
(* factorization and in the reduction.                                     *)
(***************************************************************************)
EXTENDS zpotrf_INFO, dplasma_lapack_adtt

ASSUME ThreadAssumption == Threads = {"caller", "body", "other"}

Here == 0
callVars == <<vars, adttVars>>

descA(storage) ==
  [i |-> 0, j |-> 0, m |-> m, n |-> m, mb |-> mb, nb |-> mb, storage |-> storage, llm |-> m]

\* The tile of potrf_zpotrf(k), cut in tiles of smallnb (subtile_desc_create).
small_descT ==
  [i |-> 0, j |-> 0, m |-> tempkm(k), n |-> tempkm(k), mb |-> smallnb, nb |-> smallnb,
   storage |-> "LAPACK", llm |-> mb]

\* dplasma_zpotrf_New sets up one shape, the full tile.
PotrfShapes == <<[mat |-> 1, uplo |-> "FULL"]>>

(* dplasma_zpotrf_New by the caller.                                        *)
dplasma_zpotrf_New(storage) ==
  /\ k = 0
  /\ Wrap("caller", <<descA(storage)>>, PotrfShapes)
  /\ UNCHANGED vars

(* A task completes after its callback, and so after the clean-up of its    *)
(* sub-taskpool; the next body waits for it.                                *)
Running == pools["caller"].pc = "run"
Idle(t) == pools[t] = NoPool

SequentialBody ==
  /\ Running /\ Idle("body")
  /\ potrf_zpotrf \/ potrf_zpotrf_CUDA
  /\ UNCHANGED adttVars

(* The recursive body creates its taskpool in the table of its process.     *)
RecursiveBody ==
  /\ Running /\ Idle("body")
  /\ potrf_zpotrf_RECURSIVE
  /\ IF rank_of(k) = Here THEN Wrap("body", <<small_descT>>, PotrfShapes)
     ELSE UNCHANGED adttVars

SubBody ==
  /\ rank_of(k) = Here => pools["body"].pc = "run"
  /\ sub_zpotrf
  /\ UNCHANGED adttVars

(* The callback sets INFO, and destroys the sub-taskpool.                   *)
Callback ==
  /\ zpotrf_recursive_cb
  /\ IF rank_of(k) = Here THEN Stop("body") ELSE UNCHANGED adttVars

(* dplasma_zpotrf_Destruct by the caller, once every task has completed.    *)
dplasma_zpotrf_Destruct ==
  /\ k = mt /\ Idle("body")
  /\ Stop("caller")
  /\ UNCHANGED vars

(* The reduction and the return of the call.                                *)
ReturnHere ==
  /\ Idle("caller") /\ Return(Here)
  /\ UNCHANGED adttVars
ReturnElsewhere ==
  /\ \E n \in Nodes \ {Here} : Return(n)
  /\ UNCHANGED adttVars

(* The third thread: one taskpool after the other, beside a factorization   *)
(* that does not fail (a bound: its status has no part in this).            *)
Companion(works) ==
  /\ minor = 0
  /\ \/ \E work \in works : Wrap("other", work.mats, work.shapes)
     \/ Stop("other")
  /\ UNCHANGED vars

Table == \E t \in Threads : (TableStep(t) \/ Unwrap(t)) /\ UNCHANGED vars
=============================================================================
