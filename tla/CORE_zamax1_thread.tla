-------------------------- MODULE CORE_zamax1_thread --------------------------
(***************************************************************************)
(* The pivot reduction of the threaded LU panel, src/cores/                *)
(* core_zgetrf_rectil.c (core_zgetrf_reclap.c holds the same routine       *)
(* without the diagonal value): the threads spin on volatile words of a    *)
(* shared record, CORE_zamax[] and CORE_zstep[], without locks, and call   *)
(* the routine again and again, as a barrier too, on the same words.       *)
(*                                                                         *)
(* One action per access to the shared words; a wait is a guard.  The      *)
(* words are volatile and aligned, and the actions of a thread take effect *)
(* in program order.                                                       *)
(***************************************************************************)
EXTENDS Integers

CONSTANTS
  thcnt,    \* the number of threads that take part
  Calls,    \* bound: the number of calls of each thread
  amx(_, _) \* cabs(localamx) of thread t in call r

ASSUME SizeAssumption == thcnt \in Nat \ {0} /\ Calls \in Nat
ASSUME AmxAssumption ==
  \A t \in 0 .. thcnt-1, r \in 1 .. Calls : amx(t, r) \in Nat

VARIABLES
  CORE_zamax, \* data->CORE_zamax: the values offered, then the global maximum
  CORE_zstep, \* data->CORE_zstep: -1, -2 offered, -3 stored; -j-2 for thread 0
  ipiv,       \* the thread that wrote ipiv[0] of each call, -1 before
  pc,         \* where each thread is
  call,       \* the number of calls each thread has begun
  i, j,       \* the loop variable and the best index of thread 0
  curval,     \* the best value of thread 0
  thwinner, diag, globalamx \* *thwinner, *diagvalue, *globalamx of each thread

out  == <<thwinner, diag, globalamx>>
vars == <<CORE_zamax, CORE_zstep, ipiv, pc, call, i, j, curval, thwinner, diag, globalamx>>
shared == <<CORE_zamax, CORE_zstep, ipiv>>
local0 == <<i, j, curval>>

Threads == 0 .. thcnt-1
Workers == 1 .. thcnt-1

localamx(t, r) == <<"max", t, r>>
diagvalue(r)   == <<"diag", 0, r>>
cabs(v)        == IF v[1] = "max" THEN amx(v[2], v[3]) ELSE 0

Goto(t, label) == pc' = [pc EXCEPT ![t] = label]
At(t, label)   == pc[t] = label

-----------------------------------------------------------------------------
Init ==
  /\ CORE_zamax = [t \in Threads |-> <<"zero", 0, 0>>]
  /\ CORE_zstep = [t \in Threads |-> -1]
  /\ ipiv = [r \in 1 .. Calls |-> -1]
  /\ pc = [t \in Threads |-> "out"]
  /\ call = [t \in Threads |-> 0]
  /\ i = 1 /\ j = 0 /\ curval = <<"zero", 0, 0>>
  /\ thwinner = [t \in Threads |-> 0]
  /\ diag = [t \in Threads |-> <<"zero", 0, 0>>]
  /\ globalamx = [t \in Threads |-> <<"zero", 0, 0>>]

-----------------------------------------------------------------------------
(* Thread 0 collects the values and chooses.                               *)

Enter0 ==
  /\ At(0, "out") /\ call[0] < Calls
  /\ call' = [call EXCEPT ![0] = @ + 1]
  /\ i' = 1 /\ j' = 0 /\ curval' = localamx(0, call[0] + 1)
  /\ Goto(0, "gather")
  /\ UNCHANGED <<shared, out>>

\* A variant that runs one index too far.
Loop_long(label, next) ==
  /\ At(0, label)
  /\ IF i < thcnt + 1 THEN i' = i + 1 /\ UNCHANGED pc ELSE i' = 1 /\ Goto(0, next)

\* Every loop of thread 0 visits the threads 1 .. thcnt-1 in order.
Loop(label, next) ==
  /\ At(0, label)
  /\ IF i < thcnt THEN i' = i + 1 /\ UNCHANGED pc ELSE i' = 1 /\ Goto(0, next)

Gather ==
  /\ Loop("gather", "scan")
  /\ i < thcnt => CORE_zstep[i] # -1
  /\ UNCHANGED <<shared, call, j, curval, out>>

Scan ==
  /\ Loop("scan", "choose")
  /\ IF i < thcnt /\ cabs(CORE_zamax[i]) > cabs(curval)
     THEN j' = i /\ curval' = CORE_zamax[i]
     ELSE UNCHANGED <<j, curval>>
  /\ UNCHANGED <<shared, call, out>>

Choose0 ==
  /\ At(0, "choose")
  /\ ipiv' = IF j = 0 THEN [ipiv EXCEPT ![call[0]] = 0] ELSE ipiv
  /\ Goto(0, "store")
  /\ UNCHANGED <<CORE_zamax, CORE_zstep, call, local0, out>>

(* ... tells them the result ...                                           *)

Store ==
  /\ Loop("store", "winner")
  /\ CORE_zamax' = IF i < thcnt THEN [CORE_zamax EXCEPT ![i] = curval] ELSE CORE_zamax
  /\ UNCHANGED <<CORE_zstep, ipiv, call, j, curval, out>>

Winner ==
  /\ At(0, "winner")
  /\ CORE_zstep' = [CORE_zstep EXCEPT ![0] = -j - 2]
  /\ Goto(0, "diag")
  /\ UNCHANGED <<CORE_zamax, ipiv, call, local0, out>>

DiagValue ==
  /\ At(0, "diag")
  /\ CORE_zamax' = [CORE_zamax EXCEPT ![0] = diagvalue(call[0])]
  /\ thwinner' = [thwinner EXCEPT ![0] = j]
  /\ diag' = [diag EXCEPT ![0] = diagvalue(call[0])]
  /\ globalamx' = [globalamx EXCEPT ![0] = curval]
  /\ Goto(0, "release")
  /\ UNCHANGED <<CORE_zstep, ipiv, call, local0>>

Release ==
  /\ Loop("release", "drain")
  /\ CORE_zstep' = IF i < thcnt THEN [CORE_zstep EXCEPT ![i] = -3] ELSE CORE_zstep
  /\ UNCHANGED <<CORE_zamax, ipiv, call, j, curval, out>>

(* ... and waits until all have read it.                                   *)

Drain ==
  /\ Loop("drain", "reset")
  /\ i < thcnt => CORE_zstep[i] = -1
  /\ UNCHANGED <<shared, call, j, curval, out>>

\* A variant that returns without resetting its word.
Reset_forgotten == At(0, "reset") /\ Goto(0, "out") /\ UNCHANGED <<shared, call, local0, out>>

Reset ==
  /\ At(0, "reset")
  /\ CORE_zstep' = [CORE_zstep EXCEPT ![0] = -1]
  /\ Goto(0, "out")
  /\ UNCHANGED <<CORE_zamax, ipiv, call, local0, out>>

-----------------------------------------------------------------------------
(* The other threads.                                                      *)

Enter(t) ==
  /\ At(t, "out") /\ call[t] < Calls
  /\ call' = [call EXCEPT ![t] = @ + 1]
  /\ Goto(t, "offer")
  /\ UNCHANGED <<shared, local0, out>>

OfferValue(t) ==
  /\ At(t, "offer")
  /\ CORE_zamax' = [CORE_zamax EXCEPT ![t] = localamx(t, call[t])]
  /\ Goto(t, "announce")
  /\ UNCHANGED <<CORE_zstep, ipiv, call, local0, out>>

Announce(t) ==
  /\ At(t, "announce")
  /\ CORE_zstep' = [CORE_zstep EXCEPT ![t] = -2]
  /\ Goto(t, "wait winner")
  /\ UNCHANGED <<CORE_zamax, ipiv, call, local0, out>>

WaitWinner(t) ==
  /\ At(t, "wait winner") /\ CORE_zstep[0] # -1
  /\ Goto(t, "wait value")
  /\ UNCHANGED <<shared, call, local0, out>>

\* A variant that takes the choice of a winner for the end of the stores.
WaitValue_early(t) ==
  /\ At(t, "wait value")
  /\ Goto(t, "read winner")
  /\ UNCHANGED <<shared, call, local0, out>>

WaitValue(t) ==
  /\ At(t, "wait value") /\ CORE_zstep[t] = -3
  /\ Goto(t, "read winner")
  /\ UNCHANGED <<shared, call, local0, out>>

ReadWinner(t) ==
  /\ At(t, "read winner")
  /\ thwinner' = [thwinner EXCEPT ![t] = -CORE_zstep[0] - 2]
  /\ Goto(t, "read diag")
  /\ UNCHANGED <<shared, call, local0, diag, globalamx>>

ReadDiag(t) ==
  /\ At(t, "read diag")
  /\ diag' = [diag EXCEPT ![t] = CORE_zamax[0]]
  /\ Goto(t, "read value")
  /\ UNCHANGED <<shared, call, local0, thwinner, globalamx>>

ReadValue(t) ==
  /\ At(t, "read value")
  /\ globalamx' = [globalamx EXCEPT ![t] = CORE_zamax[t]]
  /\ Goto(t, "acknowledge")
  /\ UNCHANGED <<shared, call, local0, thwinner, diag>>

Acknowledge(t) ==
  /\ At(t, "acknowledge")
  /\ CORE_zstep' = [CORE_zstep EXCEPT ![t] = -1]
  /\ Goto(t, "pivot")
  /\ UNCHANGED <<CORE_zamax, ipiv, call, local0, out>>

Pivot(t) ==
  /\ At(t, "pivot")
  /\ ipiv' = IF thwinner[t] = t THEN [ipiv EXCEPT ![call[t]] = t] ELSE ipiv
  /\ Goto(t, "wait reset")
  /\ UNCHANGED <<CORE_zamax, CORE_zstep, call, local0, out>>

WaitReset(t) ==
  /\ At(t, "wait reset") /\ CORE_zstep[0] = -1
  /\ Goto(t, "out")
  /\ UNCHANGED <<shared, call, local0, out>>

-----------------------------------------------------------------------------
Thread0 ==
  \/ Enter0 \/ Gather \/ Scan \/ Choose0 \/ Store \/ Winner \/ DiagValue
  \/ Release \/ Drain \/ Reset

Worker(t) ==
  \/ Enter(t) \/ OfferValue(t) \/ Announce(t) \/ WaitWinner(t) \/ WaitValue(t)
  \/ ReadWinner(t) \/ ReadDiag(t) \/ ReadValue(t) \/ Acknowledge(t)
  \/ Pivot(t) \/ WaitReset(t)

Next == Thread0 \/ \E t \in Workers : Worker(t)

Spec == Init /\ [][Next]_vars

\* Each thread of the panel runs on a core of its own.
FairSpec == Spec /\ WF_vars(Thread0) /\ \A t \in Workers : WF_vars(Worker(t))

-----------------------------------------------------------------------------
Phases0 == {"out", "gather", "scan", "choose", "store", "winner", "diag",
            "release", "drain", "reset"}
PhasesWorker == {"out", "offer", "announce", "wait winner", "wait value",
                 "read winner", "read diag", "read value", "acknowledge",
                 "pivot", "wait reset"}
Datum == {<<"zero", 0, 0>>} \cup {diagvalue(r) : r \in 1 .. Calls}
           \cup {localamx(x[1], x[2]) : x \in Threads \X (1 .. Calls)}

WordsTyped ==
  /\ CORE_zamax \in [Threads -> Datum]
  /\ CORE_zstep \in [Threads -> Int]
  /\ ipiv \in [1 .. Calls -> {-1} \cup Threads]

PlacesTyped ==
  /\ pc \in [Threads -> Phases0 \cup PhasesWorker]
  /\ pc[0] \in Phases0
  /\ \A t \in Workers : pc[t] \in PhasesWorker
  /\ call \in [Threads -> 0 .. Calls]

LocalsTyped ==
  /\ i \in 1 .. thcnt /\ j \in Threads /\ curval \in Datum
  /\ thwinner \in [Threads -> Int]
  /\ diag \in [Threads -> Datum]
  /\ globalamx \in [Threads -> Datum]

TypeOK == WordsTyped /\ PlacesTyped /\ LocalsTyped

Reduction == INSTANCE PivotReduction WITH
  entered <- call,
  left    <- [t \in Threads |-> IF pc[t] = "out" THEN call[t] ELSE call[t] - 1],
  answer  <- [t \in Threads |-> IF pc[t] = "out" /\ call[t] > 0
                                 THEN <<thwinner[t], diag[t], globalamx[t]>> ELSE << >>],
  pivoted <- ipiv

\* In every call all threads get the same winner, its value and the diagonal
\* value of that very call - not of the call before or the one after - and
\* nobody returns before everybody has called, however the accesses to the
\* shared words interleave and however soon a thread calls again.
ImplementsPivotReduction == Reduction!Spec

\* Nobody spins for ever: not on a word that was reset before it was seen, nor
\* on a thread that waits itself.
EveryCallReturns == <>(\A t \in Threads : call[t] = Calls /\ pc[t] = "out")
=============================================================================
