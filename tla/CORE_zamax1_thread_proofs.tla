----------------------- MODULE CORE_zamax1_thread_proofs -----------------------
(***************************************************************************)
(* The pivot reduction of the threaded LU panel implements PivotReduction, *)
(* for every number of threads, every number of calls and all values.      *)
(***************************************************************************)
EXTENDS CORE_zamax1_thread, TLAPS

Wins(w, r, S) == Reduction!Wins(w, r, S)

(* Where a worker stands relative to thread 0: it has not yet called, it   *)
(* has called first, or both are in the same call.                         *)
Behind(t) == call[0] = call[t] + 1 /\ pc[0] = "gather" /\ i <= t
Ahead(t)  == call[t] = call[0] + 1 /\ pc[0] = "out"
Same(t)   == call[t] = call[0]

\* Thread 0 has not yet reached t in the loop, or is past t.
Before(label, t) == pc[0] = label /\ i <= t
Past(label, t)   == pc[0] = label /\ i > t

\* The words of a worker that has announced its value and not yet read.
Offered(t) ==
  /\ CORE_zstep[t] = -2 /\ CORE_zamax[t] = localamx(t, call[t])
  /\ pc[0] \in {"gather", "scan", "choose"} \/ Before("store", t)
Stored(t) ==
  /\ CORE_zstep[t] = -2 /\ CORE_zamax[t] = curval
  /\ Past("store", t) \/ pc[0] \in {"winner", "diag"} \/ Before("release", t)
Released(t) ==
  /\ CORE_zstep[t] = -3 /\ CORE_zamax[t] = curval
  /\ Past("release", t) \/ Before("drain", t)

\* What every thread must return from its call.
Agreed(t) ==
  /\ thwinner[t] \in Threads
  /\ Wins(thwinner[t], call[t], Threads)
  /\ diag[t] = diagvalue(call[t])
  /\ globalamx[t] = localamx(thwinner[t], call[t])

WorkerCalls(t) ==
  /\ pc[t] = "out" => CORE_zstep[t] = -1 /\ (Behind(t) \/ (Same(t) /\ pc[0] = "out"))
  /\ pc[t] \in {"offer", "announce"} =>
       CORE_zstep[t] = -1 /\ (Ahead(t) \/ (Same(t) /\ Before("gather", t)))
  /\ pc[t] = "announce" => CORE_zamax[t] = localamx(t, call[t])

WorkerWaits(t) ==
  /\ pc[t] = "wait winner" =>
       \/ Ahead(t) /\ CORE_zstep[t] = -2 /\ CORE_zamax[t] = localamx(t, call[t])
       \/ Same(t) /\ (Offered(t) \/ Stored(t) \/ Released(t))
  /\ pc[t] = "wait value" =>
       Same(t) /\ (Stored(t) \/ Released(t)) /\ pc[0] \in {"diag", "release", "drain"}

WorkerReads(t) ==
  /\ pc[t] \in {"read winner", "read diag", "read value", "acknowledge"} => Same(t) /\ Released(t)
  /\ pc[t] \in {"read diag", "read value", "acknowledge"} => thwinner[t] = j
  /\ pc[t] \in {"read value", "acknowledge"} => diag[t] = diagvalue(call[t])
  /\ pc[t] = "acknowledge" => globalamx[t] = curval

WorkerLeaves(t) ==
  /\ pc[t] \in {"pivot", "wait reset"} =>
       /\ CORE_zstep[t] = -1
       /\ Behind(t) \/ (Same(t) /\ (Past("release", t) \/ pc[0] \in {"drain", "reset", "out"}))
       /\ Agreed(t)
  /\ pc[t] = "wait reset" /\ thwinner[t] = t => ipiv[call[t]] = t

Thread0Words ==
  /\ CORE_zstep[0] = IF pc[0] \in {"diag", "release", "drain", "reset"} THEN -j - 2 ELSE -1
  /\ pc[0] \in {"release", "drain", "reset"} => CORE_zamax[0] = diagvalue(call[0])
  /\ pc[0] # "out" => call[0] \in 1 .. Calls
  /\ pc[0] \in {"choose", "winner", "diag"} => i = 1

Thread0Choice ==
  /\ pc[0] = "gather" => j = 0 /\ curval = localamx(0, call[0])
  /\ pc[0] = "scan" => Wins(j, call[0], 0 .. i-1) /\ curval = localamx(j, call[0])
  /\ pc[0] \in {"choose", "store", "winner", "diag", "release", "drain", "reset"} =>
       Wins(j, call[0], Threads) /\ curval = localamx(j, call[0])
  /\ pc[0] \in {"store", "winner", "diag", "release", "drain", "reset"} /\ j = 0 =>
       ipiv[call[0]] = 0
  /\ pc[0] \in {"release", "drain", "reset"} => thwinner[0] = j /\ Agreed(0)

\* Thread t has written its pivot of call r, if it is the winner.
Recorded(t, r) ==
  \/ call[t] > r
  \/ /\ call[t] = r
     /\ pc[t] \in {"wait reset", "out", "store", "winner", "diag", "release", "drain", "reset"}

PivotOfWinner ==
  \A r \in 1 .. Calls : ipiv[r] # -1 =>
    ipiv[r] \in Threads /\ Wins(ipiv[r], r, Threads) /\ Recorded(ipiv[r], r)

WorkerInv(t) ==
  /\ WorkerCalls(t) /\ WorkerWaits(t) /\ WorkerReads(t) /\ WorkerLeaves(t)
  /\ pc[t] # "out" => call[t] \in 1 .. Calls

IInv ==
  /\ TypeOK
  /\ Thread0Words
  /\ Thread0Choice
  /\ PivotOfWinner
  /\ \A t \in Workers : WorkerInv(t)

-----------------------------------------------------------------------------
\* The winner among a set of threads is unique, and exists among the first n.
LEMMA WinnerUnique ==
  ASSUME NEW r \in 1 .. Calls, NEW v \in Threads, NEW w \in Threads,
         Wins(v, r, Threads), Wins(w, r, Threads)
  PROVE  v = w
BY AmxAssumption, SizeAssumption DEF Wins, Reduction!Wins, Threads

\* One more value: the scan of thread 0 keeps the first of the largest.
LEMMA ScanStep ==
  ASSUME NEW r \in 1 .. Calls, NEW n \in Workers, NEW w \in Threads, Wins(w, r, 0 .. n-1)
  PROVE  IF amx(n, r) > amx(w, r) THEN Wins(n, r, 0 .. (n+1)-1) ELSE Wins(w, r, 0 .. (n+1)-1)
<1>1. 0 .. (n+1)-1 = (0 .. n-1) \cup {n} /\ 0 .. n-1 \subseteq Threads /\ n \in Threads
  BY SizeAssumption DEF Workers, Threads
<1>2. \A u \in Threads : amx(u, r) \in Nat
  BY AmxAssumption DEF Threads
<1> QED
  BY <1>1, <1>2 DEF Wins, Reduction!Wins, Threads, Workers

LEMMA ThreadSets ==
  /\ 0 \in Threads /\ Workers \subseteq Threads /\ 0 \notin Workers
  /\ Threads = Workers \cup {0} /\ Workers \subseteq Nat \ {0}
BY SizeAssumption DEF Threads, Workers

-----------------------------------------------------------------------------
(* The invariant holds initially and is preserved by every step.           *)

LEMMA DatumTyped ==
  /\ <<"zero", 0, 0>> \in Datum
  /\ \A r \in 1 .. Calls : diagvalue(r) \in Datum
  /\ \A t \in Threads, r \in 1 .. Calls : localamx(t, r) \in Datum
<1>1. <<"zero", 0, 0>> \in Datum
  BY DEF Datum
<1>2. \A r \in 1 .. Calls : diagvalue(r) \in Datum
  BY DEF Datum
<1>3. ASSUME NEW t \in Threads, NEW r \in 1 .. Calls PROVE localamx(t, r) \in Datum
  <2>1. <<t, r>> \in Threads \X (1 .. Calls)
    OBVIOUS
  <2>2. localamx(<<t, r>>[1], <<t, r>>[2]) \in {localamx(x[1], x[2]) : x \in Threads \X (1 .. Calls)}
    BY <2>1, Zenon
  <2> QED
    BY <2>2 DEF Datum
<1> QED
  BY <1>1, <1>2, <1>3

LEMMA InitInvariant == Init => IInv
<1> SUFFICES ASSUME Init PROVE IInv
  OBVIOUS
<1> USE ThreadSets, SizeAssumption
<1>1. TypeOK
  <2>1. WordsTyped
    BY DatumTyped DEF Init, WordsTyped
  <2>2. PlacesTyped
    BY DEF Init, PlacesTyped, Phases0, PhasesWorker
  <2>3. LocalsTyped
    BY DatumTyped DEF Init, LocalsTyped
  <2> QED
    BY <2>1, <2>2, <2>3 DEF TypeOK
<1>2. Thread0Words /\ Thread0Choice
  BY DEF Init, Thread0Words, Thread0Choice
<1>3. PivotOfWinner
  BY DEF Init, PivotOfWinner
<1>4. \A t \in Workers : WorkerInv(t)
  BY DEF Init, WorkerInv, WorkerCalls, WorkerWaits, WorkerReads, WorkerLeaves, Same
<1> QED
  BY <1>1, <1>2, <1>3, <1>4 DEF IInv

-----------------------------------------------------------------------------
(* Every action keeps the types.                                           *)

LEMMA WordsPreserved ==
  ASSUME TypeOK, Next, \A t \in Threads : pc[t] # "out" => call[t] \in 1 .. Calls
  PROVE  WordsTyped'
<1> USE ThreadSets, DatumTyped, SizeAssumption DEF TypeOK, WordsTyped
<1>1. CASE Enter0 \/ Gather \/ Scan \/ Drain
  BY <1>1 DEF Enter0, Gather, Scan, Drain, shared
<1>2. CASE Choose0
  BY <1>2 DEF Choose0
<1>3. CASE Store
  BY <1>3 DEF Store, LocalsTyped
<1>4. CASE Winner
  BY <1>4 DEF Winner, LocalsTyped, Threads
<1>5. CASE DiagValue
  BY <1>5 DEF DiagValue, At
<1>6. CASE Release
  <2>1. CORE_zstep' = CORE_zstep \/ CORE_zstep' = [CORE_zstep EXCEPT ![i] = -3]
    BY <1>6 DEF Release
  <2>2. -3 \in Int
    OBVIOUS
  <2> QED
    BY <1>6, <2>1, <2>2 DEF Release
<1>7. CASE Reset
  BY <1>7 DEF Reset
<1>8. ASSUME NEW t \in Workers, Worker(t) PROVE WordsTyped'
  <2>1. CASE Enter(t) \/ WaitWinner(t) \/ WaitValue(t) \/ ReadWinner(t) \/ ReadDiag(t)
               \/ ReadValue(t) \/ WaitReset(t)
    BY <2>1 DEF Enter, WaitWinner, WaitValue, ReadWinner, ReadDiag, ReadValue, WaitReset, shared
  <2>2. CASE OfferValue(t)
    BY <2>2 DEF OfferValue, At
  <2>3. CASE Announce(t) \/ Acknowledge(t)
    <3>1. -1 \in Int /\ -2 \in Int
      OBVIOUS
    <3>2. CASE Announce(t)
      BY <3>1, <3>2 DEF Announce
    <3>3. CASE Acknowledge(t)
      BY <3>1, <3>3 DEF Acknowledge
    <3> QED
      BY <2>3, <3>2, <3>3
  <2>4. CASE Pivot(t)
    BY <2>4 DEF Pivot, At
  <2> QED
    BY <1>8, <2>1, <2>2, <2>3, <2>4 DEF Worker
<1> QED
  BY <1>1, <1>2, <1>3, <1>4, <1>5, <1>6, <1>7, <1>8 DEF Next, Thread0

LEMMA PlacesPreserved ==
  ASSUME TypeOK, Next PROVE PlacesTyped'
<1> USE ThreadSets DEF TypeOK, PlacesTyped, Goto
<1>1. CASE Enter0
  BY <1>1, SizeAssumption DEF Enter0, Phases0
<1>2. CASE Gather \/ Scan \/ Store \/ Release \/ Drain
  BY <1>2 DEF Gather, Scan, Store, Release, Drain, Loop, Phases0
<1>3. CASE Choose0 \/ Winner \/ DiagValue \/ Reset
  BY <1>3 DEF Choose0, Winner, DiagValue, Reset, Phases0
<1>4. ASSUME NEW t \in Workers, Worker(t) PROVE PlacesTyped'
  <2>1. CASE Enter(t)
    <3>1. call' \in [Threads -> 0 .. Calls]
      BY <2>1, SizeAssumption DEF Enter
    <3>2. pc' = [pc EXCEPT ![t] = "offer"] /\ "offer" \in PhasesWorker
      BY <2>1 DEF Enter, PhasesWorker
    <3> QED
      BY <3>1, <3>2
  <2>2. CASE OfferValue(t) \/ Announce(t) \/ WaitWinner(t) \/ WaitValue(t) \/ ReadWinner(t)
    BY <2>2 DEF OfferValue, Announce, WaitWinner, WaitValue, ReadWinner, PhasesWorker
  <2>3. CASE ReadDiag(t) \/ ReadValue(t) \/ Acknowledge(t) \/ Pivot(t) \/ WaitReset(t)
    BY <2>3 DEF ReadDiag, ReadValue, Acknowledge, Pivot, WaitReset, PhasesWorker
  <2> QED
    BY <1>4, <2>1, <2>2, <2>3 DEF Worker
<1> QED
  BY <1>1, <1>2, <1>3, <1>4 DEF Next, Thread0

LEMMA LocalsPreserved ==
  ASSUME TypeOK, Next, pc[0] # "out" => call[0] \in 1 .. Calls
  PROVE  LocalsTyped'
<1> USE ThreadSets, DatumTyped, SizeAssumption DEF TypeOK, LocalsTyped, local0
<1>1. CASE Enter0
  BY <1>1 DEF Enter0, PlacesTyped, out
<1>2. CASE Gather \/ Store \/ Release \/ Drain
  BY <1>2 DEF Gather, Store, Release, Drain, Loop, out
<1>3. CASE Scan
  <2>1. i' \in 1 .. thcnt
    BY <1>3 DEF Scan, Loop
  <2>2. i < thcnt => i \in Threads /\ CORE_zamax[i] \in Datum
    BY DEF WordsTyped, Threads
  <2>3. j' \in Threads /\ curval' \in Datum
    BY <1>3, <2>2 DEF Scan
  <2> QED
    BY <1>3, <2>1, <2>3 DEF Scan, out
<1>4. CASE Choose0 \/ Winner \/ Reset
  BY <1>4 DEF Choose0, Winner, Reset, out
<1>5. CASE DiagValue
  BY <1>5 DEF DiagValue, At, Threads
<1>6. ASSUME NEW t \in Workers, Worker(t) PROVE LocalsTyped'
  <2>1. CASE Enter(t) \/ OfferValue(t) \/ Announce(t) \/ WaitWinner(t) \/ WaitValue(t)
               \/ Acknowledge(t) \/ Pivot(t) \/ WaitReset(t)
    BY <2>1 DEF Enter, OfferValue, Announce, WaitWinner, WaitValue, Acknowledge, Pivot, WaitReset, out
  <2>2. CASE ReadWinner(t)
    <3>1. -CORE_zstep[0] - 2 \in Int
      BY DEF WordsTyped
    <3> QED
      BY <2>2, <3>1 DEF ReadWinner
  <2>3. CASE ReadDiag(t) \/ ReadValue(t)
    BY <2>3 DEF ReadDiag, ReadValue, WordsTyped
  <2> QED
    BY <1>6, <2>1, <2>2, <2>3 DEF Worker
<1> QED
  BY <1>1, <1>2, <1>3, <1>4, <1>5, <1>6 DEF Next, Thread0

LEMMA TypePreserved == ASSUME IInv, Next PROVE TypeOK'
<1>1. TypeOK /\ \A t \in Threads : pc[t] # "out" => call[t] \in 1 .. Calls
  BY ThreadSets DEF IInv, Thread0Words, WorkerInv
<1> QED
  BY <1>1, ThreadSets, WordsPreserved, PlacesPreserved, LocalsPreserved DEF TypeOK

-----------------------------------------------------------------------------
(* A step of a worker leaves the words of the other threads alone.         *)

Frame(u) ==
  /\ pc'[u] = pc[u] /\ call'[u] = call[u]
  /\ CORE_zstep'[u] = CORE_zstep[u] /\ CORE_zamax'[u] = CORE_zamax[u]
  /\ thwinner'[u] = thwinner[u] /\ diag'[u] = diag[u] /\ globalamx'[u] = globalamx[u]

LEMMA WorkerFrame ==
  ASSUME TypeOK, NEW t \in Workers, Worker(t)
  PROVE  /\ i' = i /\ j' = j /\ curval' = curval
         /\ \A u \in Threads \ {t} : Frame(u)
         /\ ipiv' = ipiv \/ (Pivot(t) /\ thwinner[t] = t /\ ipiv' = [ipiv EXCEPT ![call[t]] = t])
<1> USE DEF TypeOK, WordsTyped, PlacesTyped, LocalsTyped, shared, local0, out, Goto
<1>1. i' = i /\ j' = j /\ curval' = curval
  BY DEF Worker, Enter, OfferValue, Announce, WaitWinner, WaitValue, ReadWinner, ReadDiag, ReadValue, Acknowledge, Pivot, WaitReset
<1>2. ipiv' = ipiv \/ (Pivot(t) /\ thwinner[t] = t /\ ipiv' = [ipiv EXCEPT ![call[t]] = t])
  BY DEF Worker, Enter, OfferValue, Announce, WaitWinner, WaitValue, ReadWinner, ReadDiag, ReadValue, Acknowledge, Pivot, WaitReset
<1>3. ASSUME NEW u \in Threads \ {t} PROVE Frame(u)
  <2>1. CASE Enter(t) \/ OfferValue(t) \/ Announce(t) \/ WaitWinner(t) \/ WaitValue(t)
    BY <2>1 DEF Enter, OfferValue, Announce, WaitWinner, WaitValue, Frame
  <2>2. CASE ReadWinner(t) \/ ReadDiag(t) \/ ReadValue(t) \/ Acknowledge(t) \/ Pivot(t) \/ WaitReset(t)
    BY <2>2 DEF ReadWinner, ReadDiag, ReadValue, Acknowledge, Pivot, WaitReset, Frame
  <2> QED
    BY <2>1, <2>2 DEF Worker
<1> QED
  BY <1>1, <1>2, <1>3

\* A step of a worker preserves what is said of thread 0 and of other workers.
LEMMA WorkerPreservesOthers ==
  ASSUME IInv, NEW t \in Workers, Worker(t)
  PROVE  /\ Thread0Words' /\ Thread0Choice'
         /\ \A u \in Workers \ {t} : WorkerInv(u)'
<1> USE ThreadSets
<1>1. /\ i' = i /\ j' = j /\ curval' = curval
      /\ \A u \in Threads \ {t} : Frame(u)
      /\ ipiv' = ipiv \/ (Pivot(t) /\ thwinner[t] = t /\ ipiv' = [ipiv EXCEPT ![call[t]] = t])
  BY WorkerFrame DEF IInv
<1>2. Frame(0) /\ t # 0
  BY <1>1
<1>3. Thread0Words'
  BY <1>1, <1>2 DEF Frame, Thread0Words, IInv
<1>4. PivotOfWinner /\ WorkerInv(t) /\ TypeOK
  BY DEF IInv
<1>5. \A u \in Threads \ {t} : pc[u] # "out" /\ ipiv[call[u]] = u => ipiv'[call[u]] = u
  <2> SUFFICES ASSUME NEW u \in Threads \ {t}, pc[u] # "out", ipiv[call[u]] = u,
                      ipiv' # ipiv
               PROVE  ipiv'[call[u]] = u
    BY <1>1
  <2>1. Pivot(t) /\ thwinner[t] = t /\ ipiv' = [ipiv EXCEPT ![call[t]] = t]
    BY <1>1
  <2>2. call[t] \in 1 .. Calls /\ Wins(t, call[t], Threads) /\ t \in Threads
    BY <1>4, <2>1 DEF Pivot, At, WorkerInv, WorkerLeaves, Agreed
  <2>3. u \in Nat /\ call[u] \in 1 .. Calls
    BY DEF IInv, Thread0Words, WorkerInv, Threads
  <2>4. Wins(u, call[u], Threads)
    BY <1>4, <2>3 DEF PivotOfWinner
  <2>5. call[u] # call[t]
    BY <2>2, <2>4, WinnerUnique
  <2> QED
    BY <2>1, <2>3, <2>5, <1>4 DEF TypeOK, WordsTyped
<1>6. Thread0Choice'
  <2>1. Agreed(0)' <=> Agreed(0)
    BY <1>2 DEF Frame, Agreed
  <2>2. Thread0Choice /\ PlacesTyped
    BY DEF IInv, TypeOK
  <2> QED
    BY <1>1, <1>2, <1>5, <2>1, <2>2 DEF Frame, Thread0Choice, PlacesTyped, Phases0
<1>7. ASSUME NEW u \in Workers \ {t} PROVE WorkerInv(u)'
  <2>1. Frame(u) /\ Frame(0) /\ i' = i /\ j' = j /\ curval' = curval /\ WorkerInv(u)
    BY <1>1, <1>2 DEF IInv
  <2>2. WorkerCalls(u)'
    BY <2>1 DEF Frame, WorkerInv, WorkerCalls, Behind, Ahead, Same, Before
  <2>3. WorkerWaits(u)'
    BY <2>1 DEF Frame, WorkerInv, WorkerWaits, Ahead, Same, Offered, Stored, Released, Before, Past
  <2>4. WorkerReads(u)'
    BY <2>1 DEF Frame, WorkerInv, WorkerReads, Same, Released, Before, Past
  <2>5. WorkerLeaves(u)'
    BY <2>1, <1>5 DEF Frame, WorkerInv, WorkerLeaves, Behind, Same, Past, Agreed
  <2> QED
    BY <2>1, <2>2, <2>3, <2>4, <2>5 DEF WorkerInv, Frame
<1> QED
  BY <1>3, <1>6, <1>7

\* A step of a worker preserves what is said of itself.
LEMMA WorkerPreservesItself ==
  ASSUME IInv, NEW t \in Workers, Worker(t)
  PROVE  WorkerInv(t)'
<1> USE ThreadSets
<1> DEFINE Here == WorkerCalls(t) /\ WorkerWaits(t) /\ WorkerReads(t) /\ WorkerLeaves(t)
<1>1. /\ WorkerInv(t) /\ Thread0Words /\ Thread0Choice /\ PivotOfWinner
      /\ TypeOK /\ WordsTyped /\ PlacesTyped /\ LocalsTyped /\ t # 0 /\ t \in Threads
  BY DEF IInv, TypeOK
<1>2. Frame(0) /\ i' = i /\ j' = j /\ curval' = curval
  BY <1>1, WorkerFrame
<1> USE DEF Behind, Ahead, Same, Before, Past, Goto, At, Frame
<1>3. CASE Enter(t)
  <2>1. pc' = [pc EXCEPT ![t] = "offer"] /\ call' = [call EXCEPT ![t] = @ + 1] /\ call[t] < Calls /\ pc[t] = "out"
    BY <1>3 DEF Enter
  <2>2. pc'[t] = "offer" /\ call'[t] = call[t] + 1 /\ call'[t] \in 1 .. Calls
    BY <1>1, <2>1, SizeAssumption DEF PlacesTyped
  <2>3. CORE_zstep[t] = -1 /\ (Behind(t) \/ (Same(t) /\ pc[0] = "out"))
    BY <1>1, <2>1 DEF WorkerInv, WorkerCalls
  <2>4. CORE_zstep'[t] = -1 /\ (Ahead(t)' \/ (Same(t)' /\ Before("gather", t)'))
    BY <1>1, <1>2, <1>3, <2>2, <2>3 DEF Enter, shared, PlacesTyped
  <2> QED
    BY <2>2, <2>4 DEF WorkerInv, WorkerCalls, WorkerWaits, WorkerReads, WorkerLeaves
<1>4. CASE OfferValue(t)
  <2>1. pc'[t] = "announce" /\ call'[t] = call[t] /\ CORE_zamax'[t] = localamx(t, call[t])
        /\ CORE_zstep' = CORE_zstep /\ pc[t] = "offer"
    BY <1>1, <1>4 DEF OfferValue, PlacesTyped, WordsTyped
  <2> QED
    BY <1>1, <1>2, <2>1 DEF WorkerInv, WorkerCalls, WorkerWaits, WorkerReads, WorkerLeaves
<1>5. CASE Announce(t)
  <2>1. pc'[t] = "wait winner" /\ call'[t] = call[t] /\ CORE_zamax' = CORE_zamax
        /\ CORE_zstep'[t] = -2 /\ pc[t] = "announce"
    BY <1>1, <1>5 DEF Announce, PlacesTyped, WordsTyped
  <2>2. Ahead(t)' \/ (Same(t)' /\ Offered(t)')
    BY <1>1, <1>2, <2>1 DEF WorkerInv, WorkerCalls, Offered
  <2> QED
    BY <1>1, <2>1, <2>2 DEF WorkerInv, WorkerCalls, WorkerWaits, WorkerReads, WorkerLeaves
<1>6. CASE WaitWinner(t)
  <2>1. pc'[t] = "wait value" /\ call'[t] = call[t] /\ CORE_zamax' = CORE_zamax
        /\ CORE_zstep' = CORE_zstep /\ CORE_zstep[0] # -1 /\ pc[t] = "wait winner"
    BY <1>1, <1>6 DEF WaitWinner, PlacesTyped, shared
  <2>2. pc[0] \in {"diag", "release", "drain", "reset"}
    BY <1>1, <2>1 DEF Thread0Words
  <2>3. Same(t) /\ (Stored(t) \/ Released(t)) /\ pc[0] \in {"diag", "release", "drain"}
    BY <1>1, <2>1, <2>2 DEF WorkerInv, WorkerWaits, Offered, Stored, Released
  <2>4. Same(t)' /\ (Stored(t)' \/ Released(t)') /\ pc'[0] \in {"diag", "release", "drain"}
    BY <1>2, <2>1, <2>3 DEF Stored, Released
  <2> QED
    BY <1>1, <2>1, <2>4 DEF WorkerInv, WorkerCalls, WorkerWaits, WorkerReads, WorkerLeaves
<1>7. CASE WaitValue(t)
  <2>1. pc'[t] = "read winner" /\ call'[t] = call[t] /\ CORE_zamax' = CORE_zamax
        /\ CORE_zstep' = CORE_zstep /\ CORE_zstep[t] = -3 /\ pc[t] = "wait value"
    BY <1>1, <1>7 DEF WaitValue, PlacesTyped, shared
  <2>2. Same(t) /\ Released(t)
    <3>0. -3 # -2
      OBVIOUS
    <3>1. CORE_zstep[t] # -2
      BY <2>1, <3>0
    <3> QED
      BY <1>1, <2>1, <3>1 DEF WorkerInv, WorkerWaits, Stored
  <2>3. Same(t)' /\ Released(t)'
    BY <1>2, <2>1, <2>2 DEF Released
  <2> QED
    BY <1>1, <2>1, <2>3 DEF WorkerInv, WorkerCalls, WorkerWaits, WorkerReads, WorkerLeaves
<1>8. CASE ReadWinner(t) \/ ReadDiag(t) \/ ReadValue(t)
  <2>1. /\ pc[t] \in {"read winner", "read diag", "read value"}
        /\ pc'[t] \in {"read diag", "read value", "acknowledge"}
        /\ call'[t] = call[t] /\ CORE_zamax' = CORE_zamax /\ CORE_zstep' = CORE_zstep
    BY <1>1, <1>8 DEF ReadWinner, ReadDiag, ReadValue, PlacesTyped, shared
  <2>2. Same(t) /\ Released(t) /\ WorkerReads(t) /\ call[t] \in 1 .. Calls
    BY <1>1, <2>1 DEF WorkerInv, WorkerReads
  <2>3. pc[0] \in {"release", "drain"} /\ CORE_zamax[0] = diagvalue(call[t]) /\ CORE_zamax[t] = curval
        /\ CORE_zstep[0] = -j - 2
    BY <1>1, <2>2 DEF Released, Thread0Words
  <2>4. Same(t)' /\ Released(t)'
    BY <1>2, <2>1, <2>2 DEF Released
  <2>5. WorkerReads(t)'
    <3>1. CASE ReadWinner(t)
      <4>1. pc'[t] = "read diag" /\ thwinner'[t] = -CORE_zstep[0] - 2
        BY <1>1, <3>1 DEF ReadWinner, PlacesTyped, LocalsTyped
      <4>2. j \in Int
        BY <1>1, SizeAssumption DEF LocalsTyped, Threads
      <4>3. -(-j - 2) - 2 = j
        BY <4>2
      <4>4. thwinner'[t] = j
        BY <2>3, <4>1, <4>3
      <4> QED
        BY <1>2, <2>4, <4>1, <4>4 DEF WorkerReads
    <3>2. CASE ReadDiag(t)
      <4>1. pc[t] = "read diag" /\ pc'[t] = "read value" /\ diag'[t] = CORE_zamax[0] /\ thwinner' = thwinner
        BY <1>1, <3>2 DEF ReadDiag, PlacesTyped, LocalsTyped
      <4> QED
        BY <1>2, <2>1, <2>2, <2>3, <2>4, <4>1 DEF WorkerReads
    <3>3. CASE ReadValue(t)
      <4>1. pc[t] = "read value" /\ pc'[t] = "acknowledge" /\ globalamx'[t] = CORE_zamax[t]
            /\ thwinner' = thwinner /\ diag' = diag
        BY <1>1, <3>3 DEF ReadValue, PlacesTyped, LocalsTyped
      <4> QED
        BY <1>2, <2>1, <2>2, <2>3, <2>4, <4>1 DEF WorkerReads
    <3> QED
      BY <1>8, <3>1, <3>2, <3>3
  <2> QED
    BY <2>1, <2>2, <2>5 DEF WorkerInv, WorkerCalls, WorkerWaits, WorkerLeaves
<1>9. CASE Acknowledge(t)
  <2>1. /\ pc[t] = "acknowledge" /\ pc'[t] = "pivot" /\ CORE_zstep'[t] = -1
        /\ call'[t] = call[t] /\ thwinner' = thwinner /\ diag' = diag /\ globalamx' = globalamx
    BY <1>1, <1>9 DEF Acknowledge, PlacesTyped, WordsTyped, out
  <2>2. Same(t) /\ Released(t) /\ thwinner[t] = j /\ diag[t] = diagvalue(call[t]) /\ globalamx[t] = curval
        /\ call[t] \in 1 .. Calls
    BY <1>1, <2>1 DEF WorkerInv, WorkerReads
  <2>3. Wins(j, call[t], Threads) /\ curval = localamx(j, call[t]) /\ j \in Threads
    BY <1>1, <2>2 DEF Released, Thread0Choice, LocalsTyped
  <2>4. Agreed(t)'
    BY <2>1, <2>2, <2>3 DEF Agreed
  <2>5. Same(t)' /\ (Past("release", t)' \/ pc'[0] = "drain")
    BY <1>2, <2>1, <2>2 DEF Released
  <2> QED
    BY <2>1, <2>2, <2>4, <2>5 DEF WorkerInv, WorkerCalls, WorkerWaits, WorkerReads, WorkerLeaves
<1>10. CASE Pivot(t)
  <2>1. /\ pc[t] = "pivot" /\ pc'[t] = "wait reset" /\ CORE_zstep' = CORE_zstep
        /\ call'[t] = call[t] /\ thwinner' = thwinner /\ diag' = diag /\ globalamx' = globalamx
        /\ ipiv' = IF thwinner[t] = t THEN [ipiv EXCEPT ![call[t]] = t] ELSE ipiv
    BY <1>1, <1>10 DEF Pivot, PlacesTyped, out
  <2>2. call[t] \in 1 .. Calls /\ Agreed(t)
    BY <1>1, <2>1 DEF WorkerInv, WorkerLeaves
  <2>3. thwinner[t] = t => ipiv'[call[t]] = t
    BY <1>1, <2>1, <2>2 DEF WordsTyped
  <2>4. Agreed(t)'
    BY <2>1, <2>2 DEF Agreed
  <2> QED
    BY <1>1, <1>2, <2>1, <2>3, <2>4 DEF WorkerInv, WorkerCalls, WorkerWaits, WorkerReads, WorkerLeaves
<1>11. CASE WaitReset(t)
  <2>1. /\ pc[t] = "wait reset" /\ pc'[t] = "out" /\ CORE_zstep' = CORE_zstep
        /\ call'[t] = call[t] /\ CORE_zstep[0] = -1
    BY <1>1, <1>11 DEF WaitReset, PlacesTyped, shared
  <2>2. Behind(t) \/ (Same(t) /\ pc[0] = "out")
    <3>1. j \in Nat
      BY <1>1, SizeAssumption DEF LocalsTyped, Threads
    <3>2. -j - 2 # -1
      BY <3>1
    <3>3. pc[0] \notin {"release", "drain", "reset"}
      BY <1>1, <2>1, <3>2 DEF Thread0Words
    <3> QED
      BY <1>1, <2>1, <3>3 DEF WorkerInv, WorkerLeaves
  <2> QED
    BY <1>1, <1>2, <2>1, <2>2 DEF WorkerInv, WorkerCalls, WorkerWaits, WorkerReads, WorkerLeaves
<1> QED
  BY <1>3, <1>4, <1>5, <1>6, <1>7, <1>8, <1>9, <1>10, <1>11 DEF Worker

LEMMA WorkerPreservesPivot ==
  ASSUME IInv, NEW t \in Workers, Worker(t)
  PROVE  PivotOfWinner'
<1> USE ThreadSets
<1>1. TypeOK /\ PivotOfWinner /\ WorkerInv(t) /\ PlacesTyped /\ WordsTyped
  BY DEF IInv, TypeOK
<1>2. /\ \A u \in Threads \ {t} : Frame(u)
      /\ ipiv' = ipiv \/ (Pivot(t) /\ thwinner[t] = t /\ ipiv' = [ipiv EXCEPT ![call[t]] = t])
  BY <1>1, WorkerFrame
<1>3. ASSUME NEW r \in 1 .. Calls, NEW u \in Threads, Recorded(u, r) PROVE Recorded(u, r)'
  <2>1. CASE u # t
    BY <1>2, <1>3, <2>1 DEF Frame, Recorded
  <2>2. CASE u = t
    <3>1. call'[t] = call[t] \/ (call'[t] = call[t] + 1 /\ pc[t] = "out")
      BY <1>1 DEF Worker, Enter, OfferValue, Announce, WaitWinner, WaitValue, ReadWinner, ReadDiag, ReadValue, Acknowledge, Pivot, WaitReset, PlacesTyped, At
    <3>2. pc[t] = "wait reset" => pc'[t] \in {"wait reset", "out"}
      BY <1>1 DEF Worker, Enter, OfferValue, Announce, WaitWinner, WaitValue, ReadWinner, ReadDiag, ReadValue, Acknowledge, Pivot, WaitReset, PlacesTyped, At, Goto
    <3>3. pc[t] = "out" => call'[t] = call[t] + 1
      BY <1>1 DEF Worker, Enter, OfferValue, Announce, WaitWinner, WaitValue, ReadWinner, ReadDiag, ReadValue, Acknowledge, Pivot, WaitReset, PlacesTyped, At
    <3>4. pc[t] \in PhasesWorker /\ call[t] \in Nat
      BY <1>1, SizeAssumption DEF PlacesTyped
    <3>5. pc[t] = "out" \/ call'[t] = call[t]
      BY <3>1
    <3>6. call[t] > r \/ (call[t] = r /\ pc[t] \in {"wait reset", "out"})
      BY <1>3, <2>2, <3>4 DEF Recorded, PhasesWorker
    <3>7. call'[t] > r \/ (call'[t] = r /\ pc'[t] \in {"wait reset", "out"})
      <4>1. \A x \in Int : x + 1 > x /\ \A y \in Int : x > y => x + 1 > y
        OBVIOUS
      <4>5. r \in Int /\ call[t] \in Int
        BY <3>4, SizeAssumption
      <4>2. CASE call[t] > r
        BY <3>1, <4>1, <4>2, <4>5
      <4>3. CASE call[t] = r /\ pc[t] = "out"
        BY <3>3, <4>1, <4>3, <4>5
      <4>4. CASE call[t] = r /\ pc[t] = "wait reset"
        BY <3>2, <3>5, <4>4
      <4> QED
        BY <3>6, <4>2, <4>3, <4>4
    <3> QED
      BY <2>2, <3>7 DEF Recorded
  <2> QED
    BY <2>1, <2>2
<1>4. CASE ipiv' = ipiv
  BY <1>1, <1>3, <1>4 DEF PivotOfWinner
<1>5. CASE Pivot(t) /\ thwinner[t] = t /\ ipiv' = [ipiv EXCEPT ![call[t]] = t]
  <2>1. /\ pc[t] = "pivot" /\ pc'[t] = "wait reset" /\ call'[t] = call[t]
    BY <1>1, <1>5 DEF Pivot, Goto, At, PlacesTyped
  <2>2. Recorded(t, call[t])'
    BY <2>1 DEF Recorded
  <2>3. call[t] \in 1 .. Calls /\ Wins(t, call[t], Threads)
    BY <1>1, <1>5, <2>1 DEF WorkerInv, WorkerLeaves, Agreed
  <2>4. ASSUME NEW r \in 1 .. Calls, ipiv'[r] # -1
        PROVE  \E w \in Threads : ipiv'[r] = w /\ Wins(w, r, Threads) /\ Recorded(w, r)'
    <3>1. CASE r = call[t]
      <4>1. ipiv'[r] = t
        BY <1>1, <1>5, <3>1 DEF WordsTyped
      <4> QED
        BY <2>1, <2>2, <2>3, <3>1, <4>1 DEF Recorded
    <3>2. CASE r # call[t]
      <4>1. ipiv'[r] = ipiv[r]
        BY <1>1, <1>5, <3>2 DEF WordsTyped
      <4> QED
        BY <1>1, <1>3, <2>4, <4>1 DEF PivotOfWinner
    <3> QED
      BY <3>1, <3>2
  <2> QED
    <3> SUFFICES ASSUME NEW r \in 1 .. Calls, ipiv'[r] # -1
                 PROVE  (ipiv[r] \in Threads /\ Wins(ipiv[r], r, Threads) /\ Recorded(ipiv[r], r))'
      BY DEF PivotOfWinner
    <3>1. PICK w \in Threads : ipiv'[r] = w /\ Wins(w, r, Threads) /\ Recorded(w, r)'
      BY <2>4
    <3> QED
      BY <3>1 DEF Recorded
<1> QED
  BY <1>2, <1>4, <1>5

-----------------------------------------------------------------------------
(* A step of thread 0 moves no worker, and changes at most the words of the*)
(* worker it has reached in its loop.                                      *)

Still(u) ==
  /\ pc'[u] = pc[u] /\ call'[u] = call[u]
  /\ thwinner'[u] = thwinner[u] /\ diag'[u] = diag[u] /\ globalamx'[u] = globalamx[u]
  /\ (Store /\ u = i) \/ CORE_zamax'[u] = CORE_zamax[u]
  /\ (Release /\ u = i) \/ CORE_zstep'[u] = CORE_zstep[u]

LEMMA Thread0Frame ==
  ASSUME TypeOK, Thread0
  PROVE  /\ \A u \in Workers : Still(u)
         /\ ~Choose0 => ipiv' = ipiv
         /\ ~Enter0 => call' = call
<1> USE ThreadSets DEF TypeOK, WordsTyped, PlacesTyped, LocalsTyped, shared, local0, out, Goto
<1>1. (~Choose0 => ipiv' = ipiv) /\ (~Enter0 => call' = call)
  BY DEF Thread0, Gather, Scan, Store, Winner, DiagValue, Release, Drain, Reset, Enter0, Choose0
<1>2. ASSUME NEW u \in Workers PROVE Still(u)
  <2>1. CASE Enter0
    BY <2>1 DEF Enter0, Still
  <2>2. CASE Gather \/ Scan \/ Drain
    BY <2>2 DEF Gather, Scan, Drain, Loop, Still
  <2>3. CASE Choose0 \/ Winner \/ Reset
    BY <2>3 DEF Choose0, Winner, Reset, Still
  <2>4. CASE Store
    BY <2>4 DEF Store, Loop, Still
  <2>5. CASE Release
    BY <2>5 DEF Release, Loop, Still
  <2>6. CASE DiagValue
    BY <2>6 DEF DiagValue, Still
  <2> QED
    BY <2>1, <2>2, <2>3, <2>4, <2>5, <2>6 DEF Thread0
<1> QED
  BY <1>1, <1>2

\* The loop moves from one worker to the next.
LEMMA NextIndex ==
  \A x, y \in Int :
    /\ x > y => x + 1 > y
    /\ x <= y /\ x # y => x + 1 <= y
    /\ x = y => x + 1 > y
    /\ ~(x > y) <=> x <= y
    /\ x > y => x # y
    /\ \A z \in Int : x <= y /\ y < z => x # z
OBVIOUS

\* The moves of thread 0 through its phases.
LEMMA LoopMove ==
  ASSUME TypeOK, NEW label, NEW next, Loop(label, next), label # next
  PROVE  /\ pc[0] = label
         /\ i < thcnt => i' = i + 1 /\ pc' = pc
         /\ ~(i < thcnt) => i = thcnt /\ i' = 1 /\ pc'[0] = next
BY ThreadSets, SizeAssumption DEF Loop, At, Goto, TypeOK, PlacesTyped, LocalsTyped

LEMMA Thread0PreservesPivot ==
  ASSUME IInv, Thread0
  PROVE  PivotOfWinner'
<1> USE ThreadSets
<1>1. TypeOK /\ PivotOfWinner /\ PlacesTyped /\ WordsTyped /\ LocalsTyped /\ Thread0Choice /\ Thread0Words
  BY DEF IInv, TypeOK
<1>2. (\A u \in Workers : Still(u)) /\ (~Choose0 => ipiv' = ipiv) /\ (~Enter0 => call' = call)
  BY <1>1, Thread0Frame
<1>3. ASSUME NEW r \in 1 .. Calls, NEW u \in Threads, Recorded(u, r) PROVE Recorded(u, r)'
  <2>1. CASE u \in Workers
    BY <1>2, <1>3, <2>1 DEF Still, Recorded
  <2>2. CASE u = 0
    <3>0. \A x \in Int : x + 1 > x /\ \A y \in Int : x > y => x + 1 > y
      OBVIOUS
    <3>1. call[0] \in Int /\ r \in Int
      BY <1>1, SizeAssumption DEF PlacesTyped
    <3>2. CASE Enter0
      <4>1. call'[0] = call[0] + 1
        BY <1>1, <3>2 DEF Enter0, PlacesTyped
      <4>2. call[0] = r \/ call[0] > r
        BY <1>3, <2>2 DEF Recorded
      <4> QED
        BY <2>2, <3>0, <3>1, <4>1, <4>2 DEF Recorded
    <3>3. CASE ~Enter0
      <4>1. CASE call[0] > r
        BY <1>2, <2>2, <3>3, <4>1 DEF Recorded
      <4>2. CASE call[0] = r /\ pc[0] \in {"store", "winner", "diag", "release", "drain", "reset"}
        <5>1. pc'[0] \in {"store", "winner", "diag", "release", "drain", "reset", "out"}
          BY <1>1, <3>3, <4>2 DEF Thread0, Gather, Scan, Choose0, Store, Winner, DiagValue, Release, Drain, Reset, Loop, At, Goto, PlacesTyped
        <5> QED
          BY <1>2, <2>2, <3>3, <4>2, <5>1 DEF Recorded
      <4>3. pc[0] # "out" /\ pc[0] \in Phases0
        BY <1>1, <3>3 DEF Thread0, Gather, Scan, Choose0, Store, Winner, DiagValue, Release, Drain, Reset, Loop, At, PlacesTyped
      <4> QED
        BY <1>3, <2>2, <4>1, <4>2, <4>3 DEF Recorded, Phases0
    <3> QED
      BY <3>2, <3>3
  <2> QED
    BY <2>1, <2>2
<1>4. ASSUME NEW r \in 1 .. Calls, ipiv'[r] # -1
      PROVE  \E w \in Threads : ipiv'[r] = w /\ Wins(w, r, Threads) /\ Recorded(w, r)'
  <2>1. CASE ipiv'[r] = ipiv[r]
    BY <1>1, <1>3, <1>4, <2>1 DEF PivotOfWinner
  <2>2. CASE ipiv'[r] # ipiv[r]
    <3>1. Choose0 /\ j = 0
      BY <1>2, <2>2 DEF Choose0
    <3>2. pc[0] = "choose" /\ pc'[0] = "store" /\ ipiv' = [ipiv EXCEPT ![call[0]] = 0] /\ call' = call
      BY <1>1, <3>1 DEF Choose0, At, Goto, PlacesTyped
    <3>3. r = call[0] /\ ipiv'[r] = 0
      BY <1>1, <2>2, <3>2 DEF WordsTyped
    <3>4. Wins(0, r, Threads)
      BY <1>1, <3>1, <3>2, <3>3 DEF Thread0Choice
    <3>5. Recorded(0, r)'
      BY <3>2, <3>3 DEF Recorded
    <3> QED
      BY <3>3, <3>4, <3>5
  <2> QED
    BY <2>1, <2>2
<1> QED
  <2> SUFFICES ASSUME NEW r \in 1 .. Calls, ipiv'[r] # -1
               PROVE  (ipiv[r] \in Threads /\ Wins(ipiv[r], r, Threads) /\ Recorded(ipiv[r], r))'
    BY DEF PivotOfWinner
  <2>1. PICK w \in Threads : ipiv'[r] = w /\ Wins(w, r, Threads) /\ Recorded(w, r)'
    BY <1>4
  <2> QED
    BY <2>1 DEF Recorded

\* What thread 0 says of its own words and of its choice.
LEMMA Thread0PreservesItself ==
  ASSUME IInv, Thread0
  PROVE  Thread0Words' /\ Thread0Choice'
<1> USE ThreadSets
<1>1. TypeOK /\ PlacesTyped /\ WordsTyped /\ LocalsTyped /\ Thread0Choice /\ Thread0Words
  BY DEF IInv, TypeOK
<1>2. (\A u \in Workers : Still(u)) /\ (~Choose0 => ipiv' = ipiv) /\ (~Enter0 => call' = call)
  BY <1>1, Thread0Frame
<1>i. i \in Int /\ thcnt \in Int /\ thcnt > 0 /\ i \in 1 .. thcnt
  BY <1>1, SizeAssumption DEF LocalsTyped
<1> USE DEF Goto, At
<1>3. CASE Enter0
  <2>1. pc'[0] = "gather" /\ call'[0] = call[0] + 1 /\ call'[0] \in 1 .. Calls /\ i' = 1 /\ j' = 0
        /\ curval' = localamx(0, call'[0]) /\ CORE_zstep' = CORE_zstep /\ pc[0] = "out"
    BY <1>1, <1>3, SizeAssumption DEF Enter0, PlacesTyped, shared
  <2> QED
    BY <1>1, <2>1 DEF Thread0Words, Thread0Choice
<1>4. CASE Gather
  <2>1. Loop("gather", "scan") /\ UNCHANGED <<shared, call, j, curval, out>>
    BY <1>4 DEF Gather
  <2>2. pc[0] = "gather" /\ j = 0 /\ curval = localamx(0, call[0]) /\ call[0] \in 1 .. Calls
        /\ CORE_zstep[0] = -1
    BY <1>1, <2>1 DEF Loop, Thread0Choice, Thread0Words
  <2>3. CASE i < thcnt
    <3>1. pc' = pc
      BY <1>1, <2>1, <2>3, LoopMove
    <3> QED
      BY <1>1, <2>1, <2>2, <3>1 DEF Thread0Words, Thread0Choice, shared, out
  <2>4. CASE ~(i < thcnt)
    <3>1. pc'[0] = "scan" /\ i' = 1
      BY <1>1, <2>1, <2>4, LoopMove
    <3>2. 0 .. 1-1 = {0}
      OBVIOUS
    <3>3. Wins(0, call[0], 0 .. 1-1)
      BY <2>2, <3>2, AmxAssumption DEF Wins, Reduction!Wins, Threads
    <3> QED
      BY <2>1, <2>2, <3>1, <3>3 DEF Thread0Words, Thread0Choice, shared, out
  <2> QED
    BY <2>3, <2>4
<1>5. CASE Scan
  <2>1. Loop("scan", "choose") /\ UNCHANGED <<shared, call, out>>
        /\ IF i < thcnt /\ cabs(CORE_zamax[i]) > cabs(curval)
           THEN j' = i /\ curval' = CORE_zamax[i] ELSE UNCHANGED <<j, curval>>
    BY <1>5 DEF Scan
  <2>2. /\ pc[0] = "scan" /\ Wins(j, call[0], 0 .. i-1) /\ curval = localamx(j, call[0])
        /\ call[0] \in 1 .. Calls /\ CORE_zstep[0] = -1 /\ j \in Threads
    BY <1>1, <2>1 DEF Loop, Thread0Choice, Thread0Words, LocalsTyped
  <2>3. CASE i < thcnt
    <3>1. pc' = pc /\ i' = i + 1 /\ i \in Workers
      BY <1>1, <1>i, <2>1, <2>3, LoopMove DEF Workers
    <3>2. CORE_zamax[i] = localamx(i, call[0])
      <4>1. WorkerInv(i) /\ pc[i] \in PhasesWorker
        BY <3>1 DEF IInv, TypeOK, PlacesTyped
      <4> QED
        BY <2>2, <4>1 DEF WorkerInv, WorkerCalls, WorkerWaits, WorkerReads, WorkerLeaves,
           PhasesWorker, Behind, Ahead, Same, Before, Past, Offered, Stored, Released
    <3>3. cabs(CORE_zamax[i]) = amx(i, call[0]) /\ cabs(curval) = amx(j, call[0])
      BY <2>2, <3>2 DEF cabs, localamx
    <3>4. Wins(j', call[0], 0 .. (i+1)-1) /\ curval' = localamx(j', call[0])
      <4>1. CASE amx(i, call[0]) > amx(j, call[0])
        BY <2>1, <2>2, <2>3, <3>1, <3>2, <3>3, <4>1, ScanStep
      <4>2. CASE ~(amx(i, call[0]) > amx(j, call[0]))
        BY <2>1, <2>2, <3>1, <3>3, <4>2, ScanStep
      <4> QED
        BY <4>1, <4>2
    <3> QED
      BY <2>1, <2>2, <3>1, <3>4 DEF Thread0Words, Thread0Choice, shared, out, Wins, Reduction!Wins
  <2>4. CASE ~(i < thcnt)
    <3>1. pc'[0] = "choose" /\ i = thcnt /\ i' = 1 /\ j' = j /\ curval' = curval
      BY <1>1, <2>1, <2>4, LoopMove
    <3>2. Wins(j, call[0], Threads)
      BY <2>2, <3>1 DEF Threads
    <3> QED
      BY <2>1, <2>2, <3>1, <3>2 DEF Thread0Words, Thread0Choice, shared, out, Wins, Reduction!Wins
  <2> QED
    BY <2>3, <2>4
<1> DEFINE Chosen == Wins(j, call[0], Threads) /\ curval = localamx(j, call[0]) /\ call[0] \in 1 .. Calls
           Kept   == j' = j /\ curval' = curval /\ call' = call
<1>c. Kept /\ Chosen => Wins(j', call'[0], Threads) /\ curval' = localamx(j', call'[0]) /\ call'[0] \in 1 .. Calls
  OBVIOUS
<1>6. CASE Choose0
  <2>1. pc[0] = "choose" /\ pc'[0] = "store" /\ Kept /\ CORE_zstep' = CORE_zstep
        /\ ipiv' = IF j = 0 THEN [ipiv EXCEPT ![call[0]] = 0] ELSE ipiv
    BY <1>1, <1>6 DEF Choose0, PlacesTyped, local0
  <2>2. Chosen /\ CORE_zstep[0] = -1
    BY <1>1, <2>1 DEF Thread0Choice, Thread0Words
  <2>3. j = 0 => ipiv'[call[0]] = 0
    BY <1>1, <2>1, <2>2 DEF WordsTyped
  <2> QED
    BY <2>1, <2>2, <2>3, <1>c DEF Thread0Words, Thread0Choice, Wins, Reduction!Wins
<1>7. CASE Store
  <2>1. Loop("store", "winner") /\ Kept /\ CORE_zstep' = CORE_zstep /\ ipiv' = ipiv
    BY <1>7 DEF Store
  <2>2. pc[0] = "store" /\ pc'[0] \in {"store", "winner"} /\ (pc'[0] = "winner" => i' = 1)
    BY <1>1, <2>1, LoopMove
  <2>3. Chosen /\ CORE_zstep[0] = -1 /\ (j = 0 => ipiv[call[0]] = 0)
    BY <1>1, <2>2 DEF Thread0Choice, Thread0Words
  <2> QED
    BY <2>1, <2>2, <2>3, <1>c DEF Thread0Words, Thread0Choice, Wins, Reduction!Wins
<1>8. CASE Winner
  <2>1. pc[0] = "winner" /\ pc'[0] = "diag" /\ Kept /\ CORE_zstep'[0] = -j - 2 /\ ipiv' = ipiv /\ i' = 1
    BY <1>1, <1>8 DEF Winner, PlacesTyped, WordsTyped, local0, Thread0Words
  <2>2. Chosen /\ (j = 0 => ipiv[call[0]] = 0)
    BY <1>1, <2>1 DEF Thread0Choice, Thread0Words
  <2> QED
    BY <2>1, <2>2, <1>c DEF Thread0Words, Thread0Choice, Wins, Reduction!Wins
<1>9. CASE DiagValue
  <2>1. /\ pc[0] = "diag" /\ pc'[0] = "release" /\ Kept /\ CORE_zstep' = CORE_zstep /\ ipiv' = ipiv
        /\ CORE_zamax'[0] = diagvalue(call[0])
        /\ thwinner'[0] = j /\ diag'[0] = diagvalue(call[0]) /\ globalamx'[0] = curval
    BY <1>1, <1>9 DEF DiagValue, PlacesTyped, WordsTyped, LocalsTyped, local0
  <2>2. Chosen /\ (j = 0 => ipiv[call[0]] = 0) /\ CORE_zstep[0] = -j - 2 /\ j \in Threads
    BY <1>1, <2>1 DEF Thread0Choice, Thread0Words, LocalsTyped
  <2>3. Agreed(0)'
    BY <2>1, <2>2 DEF Agreed, Wins, Reduction!Wins
  <2> QED
    BY <2>1, <2>2, <2>3, <1>c DEF Thread0Words, Thread0Choice, Wins, Reduction!Wins
<1>10. CASE Release \/ Drain
  <2>1. /\ pc[0] \in {"release", "drain"} /\ pc'[0] \in {"release", "drain", "reset"} /\ Kept
        /\ CORE_zstep'[0] = CORE_zstep[0] /\ CORE_zamax' = CORE_zamax
        /\ UNCHANGED <<ipiv, out>>
    BY <1>1, <1>i, <1>10 DEF Release, Drain, Loop, PlacesTyped, WordsTyped, shared
  <2>2. Chosen /\ (j = 0 => ipiv[call[0]] = 0) /\ CORE_zstep[0] = -j - 2 /\ thwinner[0] = j /\ Agreed(0)
        /\ CORE_zamax[0] = diagvalue(call[0])
    BY <1>1, <2>1 DEF Thread0Choice, Thread0Words
  <2>3. Agreed(0)'
    BY <2>1, <2>2 DEF Agreed, out, Wins, Reduction!Wins
  <2> QED
    BY <2>1, <2>2, <2>3, <1>c DEF Thread0Words, Thread0Choice, out, Wins, Reduction!Wins
<1>11. CASE Reset
  <2>1. pc'[0] = "out" /\ CORE_zstep'[0] = -1
    BY <1>1, <1>11 DEF Reset, PlacesTyped, WordsTyped
  <2> QED
    BY <2>1 DEF Thread0Words, Thread0Choice
<1> QED
  BY <1>3, <1>4, <1>5, <1>6, <1>7, <1>8, <1>9, <1>10, <1>11 DEF Thread0

\* What is said of a worker survives every step of thread 0.
LEMMA Thread0PreservesWorkers ==
  ASSUME IInv, Thread0, NEW u \in Workers
  PROVE  WorkerInv(u)'
<1> USE ThreadSets
<1>1. /\ TypeOK /\ PlacesTyped /\ WordsTyped /\ LocalsTyped /\ Thread0Words /\ PivotOfWinner
      /\ WorkerInv(u) /\ pc[u] \in PhasesWorker
  BY DEF IInv, TypeOK, PlacesTyped
<1>2. Still(u) /\ (~Choose0 => ipiv' = ipiv) /\ (~Enter0 => call' = call)
  BY <1>1, Thread0Frame
<1>i. i \in Int /\ thcnt \in Int /\ u \in Int /\ i \in 1 .. thcnt /\ 1 <= u /\ u < thcnt
  BY <1>1, SizeAssumption DEF LocalsTyped, Workers
<1>p. pc[u] = "wait reset" /\ thwinner[u] = u => ipiv'[call[u]] = u
  <2> SUFFICES ASSUME pc[u] = "wait reset", thwinner[u] = u, Choose0 PROVE ipiv'[call[u]] = u
    BY <1>1, <1>2 DEF WorkerInv, WorkerLeaves
  <2>1. ipiv[call[u]] = u /\ call[u] # call[0]
    BY <1>1 DEF WorkerInv, WorkerLeaves, Choose0, At, Same, Behind, Past
  <2> QED
    BY <1>1, <2>1 DEF Choose0, WordsTyped, WorkerInv
<1>a. Agreed(u) => Agreed(u)'
  BY <1>2 DEF Still, Agreed, Wins, Reduction!Wins
<1>k. pc[u] # "out" => call'[u] \in 1 .. Calls
  BY <1>1, <1>2 DEF WorkerInv, Still
<1> USE DEF Still, Behind, Ahead, Same, Before, Past
<1> DEFINE Goal == WorkerCalls(u)' /\ WorkerWaits(u)' /\ WorkerReads(u)' /\ WorkerLeaves(u)'
<1>3. CASE Enter0
  <2>1. pc'[0] = "gather" /\ call'[0] = call[0] + 1 /\ i' = 1 /\ pc[0] = "out" /\ call[0] \in Int
        /\ CORE_zamax' = CORE_zamax /\ CORE_zstep' = CORE_zstep
    BY <1>1, <1>3, SizeAssumption DEF Enter0, PlacesTyped, At, Goto, shared
  <2>2. Same(u) \/ Ahead(u)
    BY <1>1, <2>1 DEF WorkerInv, WorkerCalls, WorkerWaits, WorkerReads, WorkerLeaves, Released, PhasesWorker
  <2>3. pc[u] \notin {"wait value", "read winner", "read diag", "read value", "acknowledge"}
    BY <1>1, <2>1 DEF WorkerInv, WorkerWaits, WorkerReads, Released
  <2>4. WorkerCalls(u)'
    BY <1>1, <1>2, <1>i, <2>1, <2>2 DEF WorkerInv, WorkerCalls
  <2>5. WorkerWaits(u)'
    BY <1>1, <1>2, <1>i, <2>1, <2>3 DEF WorkerInv, WorkerWaits, Offered, Stored, Released
  <2>6. WorkerReads(u)'
    BY <1>2, <2>3 DEF WorkerReads
  <2>7. WorkerLeaves(u)'
    BY <1>1, <1>2, <1>i, <1>p, <1>a, <2>1 DEF WorkerInv, WorkerLeaves
  <2> QED
    BY <2>4, <2>5, <2>6, <2>7, <1>2, <1>k DEF WorkerInv
<1>4. CASE Gather
  <2>1. Loop("gather", "scan") /\ (i < thcnt => CORE_zstep[i] # -1) /\ UNCHANGED <<shared, call, j, curval, out>>
    BY <1>4 DEF Gather
  <2>2. pc[0] = "gather" /\ (i = u => CORE_zstep[u] # -1)
        /\ ((pc'[0] = "gather" /\ i' = i + 1) \/ (pc'[0] = "scan" /\ i = thcnt))
    BY <1>1, <1>i, <2>1, LoopMove
  <2>3. WorkerCalls(u)'
    BY <1>1, <1>2, <1>i, <2>1, <2>2 DEF WorkerInv, WorkerCalls, shared
  <2>4. WorkerWaits(u)'
    BY <1>1, <1>2, <2>1, <2>2 DEF WorkerInv, WorkerWaits, Offered, Stored, Released, shared
  <2>5. WorkerReads(u)'
    BY <1>1, <1>2, <2>2 DEF WorkerInv, WorkerReads, Released
  <2>6. WorkerLeaves(u)'
    <3> SUFFICES ASSUME pc[u] \in {"pivot", "wait reset"} PROVE WorkerLeaves(u)'
      BY <1>2 DEF WorkerLeaves
    <3>1. CORE_zstep[u] = -1 /\ Behind(u) /\ i # u
      BY <1>1, <2>2 DEF WorkerInv, WorkerLeaves
    <3>2. Behind(u)'
      <4>0. i # thcnt
        BY <1>i, <3>1, NextIndex
      <4>1. pc'[0] = "gather" /\ i' = i + 1 /\ call' = call
        BY <2>1, <2>2, <4>0
      <4> QED
        BY <1>2, <1>i, <3>1, <4>1, NextIndex
    <3> QED
      BY <1>1, <1>2, <1>p, <1>a, <2>1, <3>1, <3>2 DEF WorkerInv, WorkerLeaves, shared
  <2> QED
    BY <2>3, <2>4, <2>5, <2>6, <1>2, <1>k DEF WorkerInv
<1>5. CASE Scan \/ Choose0
  <2>1. /\ pc[0] \in {"scan", "choose"} /\ pc'[0] \in {"scan", "choose", "store"}
        /\ pc'[0] = "store" => i' = 1
        /\ CORE_zamax' = CORE_zamax /\ CORE_zstep' = CORE_zstep /\ call' = call
    <3>1. CASE Scan
      BY <1>1, <3>1, LoopMove DEF Scan, shared
    <3>2. CASE Choose0
      BY <1>1, <3>2 DEF Choose0, At, Goto, PlacesTyped, local0, Thread0Words
    <3> QED
      BY <1>5, <3>1, <3>2
  <2>2. WorkerCalls(u)'
    BY <1>1, <1>2, <1>i, <2>1 DEF WorkerInv, WorkerCalls
  <2>3. WorkerWaits(u)'
    BY <1>1, <1>2, <1>i, <2>1 DEF WorkerInv, WorkerWaits, Offered, Stored, Released
  <2>4. WorkerReads(u)'
    BY <1>1, <1>2, <2>1 DEF WorkerInv, WorkerReads, Released
  <2>5. WorkerLeaves(u)'
    BY <1>1, <1>2, <1>p, <1>a, <2>1 DEF WorkerInv, WorkerLeaves
  <2> QED
    BY <2>2, <2>3, <2>4, <2>5, <1>2, <1>k DEF WorkerInv
<1>6. CASE Store
  <2>1. /\ Loop("store", "winner")
        /\ CORE_zamax' = IF i < thcnt THEN [CORE_zamax EXCEPT ![i] = curval] ELSE CORE_zamax
        /\ CORE_zstep' = CORE_zstep /\ call' = call /\ curval' = curval
    BY <1>6 DEF Store
  <2>2. /\ pc[0] = "store"
        /\ (pc'[0] = "store" /\ i' = i + 1) \/ (pc'[0] = "winner" /\ i = thcnt)
        /\ CORE_zamax'[u] = IF i = u THEN curval ELSE CORE_zamax[u]
    BY <1>1, <1>2, <1>i, <2>1, LoopMove DEF WordsTyped
  <2>3. pc[u] = "wait winner" /\ Same(u) /\ (Offered(u) \/ Stored(u))
    BY <1>1, <2>2 DEF WorkerInv, WorkerCalls, WorkerWaits, WorkerReads, WorkerLeaves, Released, PhasesWorker
  <2>4. Offered(u)' \/ Stored(u)'
    BY <1>2, <1>i, <2>1, <2>2, <2>3, NextIndex DEF Offered, Stored
  <2> QED
    BY <1>2, <1>k, <2>1, <2>3, <2>4 DEF WorkerInv, WorkerCalls, WorkerWaits, WorkerReads, WorkerLeaves
<1>7. CASE Winner \/ DiagValue
  <2>1. /\ pc[0] \in {"winner", "diag"} /\ pc'[0] \in {"diag", "release"} /\ i = 1 /\ i' = 1
        /\ pc[0] = "diag" => pc'[0] = "release"
        /\ CORE_zamax'[u] = CORE_zamax[u] /\ CORE_zstep'[u] = CORE_zstep[u]
        /\ call' = call /\ curval' = curval /\ j' = j
    BY <1>1, <1>2, <1>7 DEF Winner, DiagValue, At, Goto, PlacesTyped, local0, Thread0Words, Store, Release, Loop
  <2>2. pc[u] \in {"wait winner", "wait value"} /\ Same(u) /\ Stored(u)
        /\ (pc[u] = "wait value" => pc[0] = "diag")
    BY <1>1, <2>1 DEF WorkerInv, WorkerCalls, WorkerWaits, WorkerReads, WorkerLeaves, Offered, Released, PhasesWorker
  <2>3. Stored(u)' /\ Same(u)'
    BY <1>2, <1>i, <2>1, <2>2 DEF Stored
  <2> QED
    BY <1>2, <1>k, <2>1, <2>2, <2>3 DEF WorkerInv, WorkerCalls, WorkerWaits, WorkerReads, WorkerLeaves
<1>8. CASE Release
  <2>1. /\ Loop("release", "drain")
        /\ CORE_zstep' = IF i < thcnt THEN [CORE_zstep EXCEPT ![i] = -3] ELSE CORE_zstep
        /\ UNCHANGED <<CORE_zamax, ipiv, call, j, curval, out>>
    BY <1>8 DEF Release
  <2>2. /\ pc[0] = "release"
        /\ (pc'[0] = "release" /\ i' = i + 1) \/ (pc'[0] = "drain" /\ i = thcnt /\ i' = 1)
        /\ CORE_zstep'[u] = IF i = u THEN -3 ELSE CORE_zstep[u]
    BY <1>1, <1>2, <1>i, <2>1, LoopMove DEF WordsTyped
  <2>3. Same(u) /\ Same(u)'
    BY <1>1, <1>2, <2>1, <2>2 DEF WorkerInv, WorkerCalls, WorkerWaits, WorkerReads, WorkerLeaves, PhasesWorker
  <2>4. pc[u] \notin {"out", "offer", "announce"}
    BY <1>1, <2>2 DEF WorkerInv, WorkerCalls
  <2>5. Stored(u) => Stored(u)' \/ Released(u)'
    BY <1>2, <1>i, <2>1, <2>2 DEF Stored, Released
  <2>6. Released(u) => Released(u)'
    BY <1>2, <1>i, <2>1, <2>2 DEF Released
  <2>7. WorkerWaits(u)'
    BY <1>1, <1>2, <2>2, <2>3, <2>5, <2>6 DEF WorkerInv, WorkerWaits, Offered
  <2>8. WorkerReads(u)'
    BY <1>1, <1>2, <2>1, <2>3, <2>6 DEF WorkerInv, WorkerReads
  <2>9. WorkerLeaves(u)'
    <3> SUFFICES ASSUME pc[u] \in {"pivot", "wait reset"} PROVE WorkerLeaves(u)'
      BY <1>2 DEF WorkerLeaves
    <3>1. CORE_zstep[u] = -1 /\ i > u /\ Agreed(u)
      BY <1>1, <2>2 DEF WorkerInv, WorkerLeaves
    <3>2. Past("release", u)' \/ pc'[0] = "drain"
      <4>1. i + 1 > u
        BY <1>i, <3>1, NextIndex
      <4>2. CASE pc'[0] = "release" /\ i' = i + 1
        BY <4>1, <4>2 DEF Past
      <4>3. CASE pc'[0] = "drain"
        BY <4>3
      <4> QED
        BY <2>2, <4>2, <4>3
    <3>3. CORE_zstep'[u] = -1
      <4>1. i # u
        BY <1>i, <3>1, NextIndex
      <4> QED
        BY <2>2, <3>1, <4>1
    <3> QED
      BY <1>2, <1>p, <1>a, <2>3, <3>1, <3>2, <3>3 DEF WorkerLeaves
  <2> QED
    BY <1>2, <1>k, <2>4, <2>7, <2>8, <2>9 DEF WorkerInv, WorkerCalls
<1>9. CASE Drain
  <2>1. Loop("drain", "reset") /\ (i < thcnt => CORE_zstep[i] = -1) /\ UNCHANGED <<shared, call, j, curval, out>>
    BY <1>9 DEF Drain
  <2>2. /\ pc[0] = "drain" /\ (i = u => CORE_zstep[u] = -1)
        /\ (pc'[0] = "drain" /\ i' = i + 1) \/ (pc'[0] = "reset" /\ i = thcnt)
    BY <1>1, <1>i, <2>1, LoopMove
  <2>3. Same(u) /\ Same(u)'
    BY <1>1, <1>2, <2>1, <2>2 DEF WorkerInv, WorkerCalls, WorkerWaits, WorkerReads, WorkerLeaves, PhasesWorker
  <2>4. pc[u] \notin {"out", "offer", "announce"}
    BY <1>1, <2>2 DEF WorkerInv, WorkerCalls
  <2>5. Released(u) => Released(u)' /\ pc'[0] = "drain"
    <3> SUFFICES ASSUME Released(u) PROVE Released(u)' /\ pc'[0] = "drain"
      OBVIOUS
    <3>0. -3 # -1
      OBVIOUS
    <3>1. i # u /\ i <= u
      BY <2>2, <3>0 DEF Released
    <3> QED
      BY <1>2, <1>i, <2>1, <2>2, <3>1 DEF Released, shared
  <2>6. WorkerWaits(u)'
    BY <1>1, <1>2, <2>2, <2>3, <2>5 DEF WorkerInv, WorkerWaits, Offered, Stored
  <2>7. WorkerReads(u)'
    BY <1>1, <1>2, <2>1, <2>3, <2>5 DEF WorkerInv, WorkerReads
  <2>8. WorkerLeaves(u)'
    BY <1>1, <1>2, <1>p, <1>a, <2>1, <2>2, <2>3 DEF WorkerInv, WorkerLeaves, shared
  <2> QED
    BY <1>2, <1>k, <2>4, <2>6, <2>7, <2>8 DEF WorkerInv, WorkerCalls
<1>10. CASE Reset
  <2>1. pc[0] = "reset" /\ pc'[0] = "out" /\ CORE_zstep'[u] = CORE_zstep[u] /\ call' = call
    BY <1>1, <1>2, <1>10 DEF Reset, At, Goto, PlacesTyped, WordsTyped, Release, Loop
  <2>2. pc[u] \in {"pivot", "wait reset"} /\ Same(u) /\ Same(u)'
    BY <1>1, <1>2, <2>1 DEF WorkerInv, WorkerCalls, WorkerWaits, WorkerReads, WorkerLeaves, Offered, Stored, Released, PhasesWorker
  <2> QED
    BY <1>1, <1>2, <1>k, <1>p, <1>a, <2>1, <2>2 DEF WorkerInv, WorkerCalls, WorkerWaits, WorkerReads, WorkerLeaves
<1> QED
  BY <1>3, <1>4, <1>5, <1>6, <1>7, <1>8, <1>9, <1>10 DEF Thread0

-----------------------------------------------------------------------------
LEMMA StepInvariant == IInv /\ [Next]_vars => IInv'
<1> SUFFICES ASSUME IInv, [Next]_vars PROVE IInv'
  OBVIOUS
<1>1. CASE Thread0
  <2>1. Next
    BY <1>1 DEF Next
  <2>2. TypeOK'
    BY <2>1, TypePreserved
  <2>3. Thread0Words' /\ Thread0Choice' /\ PivotOfWinner'
    BY <1>1, Thread0PreservesItself, Thread0PreservesPivot
  <2>4. \A u \in Workers : WorkerInv(u)'
    BY <1>1, Thread0PreservesWorkers
  <2> QED
    BY <2>2, <2>3, <2>4 DEF IInv
<1>2. ASSUME NEW t \in Workers, Worker(t) PROVE IInv'
  <2>1. Next
    BY <1>2 DEF Next
  <2>2. TypeOK'
    BY <2>1, TypePreserved
  <2>3. Thread0Words' /\ Thread0Choice' /\ PivotOfWinner'
    BY <1>2, WorkerPreservesOthers, WorkerPreservesPivot
  <2>4. \A u \in Workers : WorkerInv(u)'
    BY <1>2, WorkerPreservesOthers, WorkerPreservesItself
  <2> QED
    BY <2>2, <2>3, <2>4 DEF IInv
<1>3. CASE UNCHANGED vars
  <2>1. TypeOK' /\ Thread0Words'
    BY <1>3 DEF IInv, vars, TypeOK, WordsTyped, PlacesTyped, LocalsTyped, Thread0Words
  <2>2. Thread0Choice' /\ PivotOfWinner'
    BY <1>3 DEF IInv, vars, Thread0Choice, PivotOfWinner, Recorded, Agreed, Wins, Reduction!Wins
  <2>3. ASSUME NEW u \in Workers PROVE WorkerInv(u)'
    BY <1>3 DEF IInv, vars, WorkerInv, WorkerCalls, WorkerWaits, WorkerReads, WorkerLeaves,
       Behind, Ahead, Same, Before, Past, Offered, Stored, Released, Agreed, Wins, Reduction!Wins
  <2> QED
    BY <2>1, <2>2, <2>3 DEF IInv
<1> QED
  BY <1>1, <1>2, <1>3 DEF Next

LEMMA Invariance == Spec => []IInv
BY InitInvariant, StepInvariant, PTL DEF Spec

\* The words, the loop variables and the places of the threads keep their
\* types, for every number of threads and calls.
THEOREM TypeCorrect == Spec => []TypeOK
<1>1. IInv => TypeOK
  BY DEF IInv
<1> QED
  BY <1>1, Invariance, PTL

-----------------------------------------------------------------------------
(* Every step of the protocol is a step of PivotReduction or a stutter.    *)

LeftOf(t)   == IF pc[t] = "out" THEN call[t] ELSE call[t] - 1
AnswerOf(t) == IF pc[t] = "out" /\ call[t] > 0
               THEN <<thwinner[t], diag[t], globalamx[t]>> ELSE << >>
Left   == [t \in Threads |-> LeftOf(t)]
Answer == [t \in Threads |-> AnswerOf(t)]

\* The abstract state in the words of the protocol.
LEMMA Mapping ==
  /\ Reduction!Init <=>
       /\ call = [t \in Threads |-> 0] /\ Left = [t \in Threads |-> 0]
       /\ Answer = [t \in Threads |-> << >>] /\ ipiv = [r \in 1 .. Calls |-> -1]
  /\ UNCHANGED <<call, Left, Answer, ipiv>> => UNCHANGED Reduction!vars
  /\ \A t \in Threads : Reduction!Enter(t) <=>
       /\ call[t] = Left[t] /\ call[t] < Calls
       /\ call' = [call EXCEPT ![t] = @ + 1]
       /\ Answer' = [Answer EXCEPT ![t] = << >>]
       /\ Left' = Left /\ ipiv' = ipiv
  /\ \A t \in Threads : Reduction!Record(t) <=>
       /\ Left[t] < call[t] /\ Reduction!AllIn(call[t])
       /\ Wins(t, call[t], Threads) /\ ipiv[call[t]] = -1
       /\ ipiv' = [ipiv EXCEPT ![call[t]] = t]
       /\ call' = call /\ Left' = Left /\ Answer' = Answer
  /\ \A t \in Threads : Reduction!Leave(t) <=>
       /\ Left[t] < call[t] /\ Reduction!AllIn(call[t])
       /\ Left' = [Left EXCEPT ![t] = @ + 1]
       /\ \E a \in {<<w, Reduction!Diag(call[t]), Reduction!Offer(w, call[t])>> : w \in Threads} :
            /\ Reduction!Agreed(a, call[t])
            /\ a[1] = t => ipiv[call[t]] = t
            /\ Answer' = [Answer EXCEPT ![t] = a]
       /\ call' = call /\ ipiv' = ipiv
<1> USE DEF Left, Answer, LeftOf, AnswerOf, Threads, Reduction!Threads, Wins
<1>1. Reduction!Init <=>
       /\ call = [t \in Threads |-> 0] /\ Left = [t \in Threads |-> 0]
       /\ Answer = [t \in Threads |-> << >>] /\ ipiv = [r \in 1 .. Calls |-> -1]
  BY DEF Reduction!Init
<1>2. UNCHANGED <<call, Left, Answer, ipiv>> => UNCHANGED Reduction!vars
  BY DEF Reduction!vars
<1> QED
  BY <1>1, <1>2, Zenon DEF Reduction!Enter, Reduction!Record, Reduction!Leave

\* A step that moves one thread changes the abstract state of that thread only.
LEMMA OneMoves ==
  ASSUME NEW t \in Threads, \A u \in Threads \ {t} : LeftOf(u)' = LeftOf(u) /\ AnswerOf(u)' = AnswerOf(u)
  PROVE  /\ Left' = [Left EXCEPT ![t] = LeftOf(t)']
         /\ Answer' = [Answer EXCEPT ![t] = AnswerOf(t)']
         /\ LeftOf(t)' = LeftOf(t) => Left' = Left
         /\ AnswerOf(t)' = AnswerOf(t) => Answer' = Answer
         /\ Left[t] = LeftOf(t)
BY DEF Left, Answer

\* How far the other threads can be.
LEMMA CallsApart ==
  ASSUME IInv, NEW u \in Workers
  PROVE  /\ call[u] \in Int /\ call[0] \in Int
         /\ call[u] >= call[0] - 1
         /\ pc[0] = "out" => call[u] >= call[0]
         /\ pc[0] \notin {"out", "gather"} => call[u] = call[0]
<1>1. WorkerInv(u) /\ pc[u] \in PhasesWorker /\ call[u] \in Int /\ call[0] \in Int
  BY ThreadSets, SizeAssumption DEF IInv, TypeOK, PlacesTyped
<1>2. Behind(u) \/ Ahead(u) \/ Same(u)
  BY <1>1 DEF WorkerInv, WorkerCalls, WorkerWaits, WorkerReads, WorkerLeaves, PhasesWorker
<1> QED
  BY <1>1, <1>2 DEF Behind, Ahead, Same

LEMMA CallNumbers ==
  /\ \A x \in Int : x - 1 < x /\ (x - 1) + 1 = x
  /\ \A x, y \in Int : y = x + 1 \/ x = y => y >= x
  /\ \A x, y, z \in Int : y = x + 1 /\ z >= y - 1 => z >= x
  /\ \A x, y, z \in Int : x = y /\ (z >= y \/ z = y) => z >= x
OBVIOUS

LEMMA CallsAreNumbers ==
  ASSUME IInv
  PROVE  /\ \A u \in Threads : call[u] \in Int
         /\ \A r \in 1 .. Calls : r \in Int /\ r > 0
<1>1. call \in [Threads -> 0 .. Calls]
  BY DEF IInv, TypeOK, PlacesTyped
<1>2. 0 .. Calls \subseteq Int /\ \A r \in 1 .. Calls : r \in Int /\ r > 0
  BY SizeAssumption
<1> QED
  BY <1>1, <1>2

LEMMA AllHaveCalled ==
  ASSUME IInv, NEW t \in Threads,
         IF t = 0 THEN pc[0] \notin {"out", "gather"} ELSE pc[t] \in {"pivot", "wait reset"}
  PROVE  Reduction!AllIn(call[t])
<1>1. SUFFICES ASSUME NEW u \in Threads PROVE call[u] >= call[t]
  BY DEF Reduction!AllIn, Reduction!Threads, Threads
<1>2. /\ \A v \in Workers : /\ call[v] \in Int /\ call[0] \in Int /\ call[v] >= call[0] - 1
                            /\ pc[0] = "out" => call[v] >= call[0]
                            /\ pc[0] \notin {"out", "gather"} => call[v] = call[0]
  BY CallsApart
<1>3. call[0] \in Int /\ call[u] \in Int /\ call[t] \in Int
  BY CallsAreNumbers, ThreadSets
<1>4. CASE t = 0
  BY <1>2, <1>3, <1>4, ThreadSets
<1>5. CASE t # 0
  <2>1. t \in Workers /\ (Behind(t) \/ (Same(t) /\ pc[0] # "gather"))
    BY <1>5, ThreadSets DEF IInv, WorkerInv, WorkerLeaves, Past
  <2>2. CASE u = 0
    BY <1>3, <2>1, <2>2, CallNumbers DEF Behind, Same
  <2>3. CASE u \in Workers
    <3>1. call[u] >= call[0] - 1 /\ (pc[0] # "gather" => call[u] >= call[0] \/ call[u] = call[0])
      BY <1>2, <2>3
    <3> QED
      BY <1>3, <2>1, <3>1, CallNumbers DEF Behind, Same
  <2> QED
    BY <2>2, <2>3, ThreadSets
<1> QED
  BY <1>4, <1>5

\* Entering, recording and returning, once for both kinds of threads.
LEMMA EnterStep ==
  ASSUME TypeOK, NEW t \in Threads, pc[t] = "out", pc'[t] # "out", call[t] < Calls,
         call' = [call EXCEPT ![t] = @ + 1], ipiv' = ipiv,
         \A u \in Threads \ {t} : LeftOf(u)' = LeftOf(u) /\ AnswerOf(u)' = AnswerOf(u)
  PROVE  Reduction!Enter(t)
<1>1. call \in [Threads -> 0 .. Calls] /\ 0 .. Calls \subseteq Int
  BY SizeAssumption DEF TypeOK, PlacesTyped
<1>2. call[t] \in Int /\ call'[t] = call[t] + 1
  BY <1>1
<1>3. \A x \in Int : (x + 1) - 1 = x
  OBVIOUS
<1>4. LeftOf(t) = call[t] /\ LeftOf(t)' = call[t] /\ AnswerOf(t)' = << >>
  BY <1>2, <1>3 DEF LeftOf, AnswerOf
<1>5. Left' = Left /\ Left[t] = call[t] /\ Answer' = [Answer EXCEPT ![t] = << >>]
  BY <1>4, OneMoves
<1> QED
  BY <1>5, Mapping

LEMMA RecordStep ==
  ASSUME IInv, NEW t \in Threads,
         IF t = 0 THEN pc[0] = "choose" ELSE pc[t] = "pivot",
         Wins(t, call[t], Threads), call[t] \in 1 .. Calls,
         ipiv' = [ipiv EXCEPT ![call[t]] = t], call' = call, Left' = Left, Answer' = Answer
  PROVE  Reduction!Record(t)
<1>1. Reduction!AllIn(call[t])
  BY AllHaveCalled
<1>2. ipiv[call[t]] = -1
  <2> SUFFICES ASSUME ipiv[call[t]] # -1 PROVE FALSE
    OBVIOUS
  <2>1. ipiv[call[t]] \in Threads /\ Wins(ipiv[call[t]], call[t], Threads)
        /\ Recorded(ipiv[call[t]], call[t])
    BY DEF IInv, PivotOfWinner
  <2>2. ipiv[call[t]] = t
    BY <2>1, WinnerUnique
  <2>3. call[t] \in Int /\ ~(call[t] > call[t])
    BY SizeAssumption
  <2> QED
    BY <2>1, <2>2, <2>3 DEF Recorded
<1>3. Left[t] < call[t]
  <2>1. Left[t] = call[t] - 1 /\ call[t] \in Int
    BY SizeAssumption DEF Left, LeftOf
  <2> QED
    BY <2>1
<1> QED
  BY <1>1, <1>2, <1>3, Mapping

LEMMA LeaveStep ==
  ASSUME IInv, NEW t \in Threads,
         IF t = 0 THEN pc[0] = "reset" ELSE pc[t] = "wait reset",
         pc'[t] = "out", call' = call, ipiv' = ipiv, out' = out, call[t] \in 1 .. Calls,
         Agreed(t), thwinner[t] = t => ipiv[call[t]] = t,
         \A u \in Threads \ {t} : LeftOf(u)' = LeftOf(u) /\ AnswerOf(u)' = AnswerOf(u)
  PROVE  Reduction!Leave(t)
<1> DEFINE a == <<thwinner[t], diag[t], globalamx[t]>>
<1>1. Reduction!AllIn(call[t])
  BY AllHaveCalled
<1>2. call[t] \in Int /\ call[t] > 0
  BY CallsAreNumbers
<1>3. LeftOf(t) = call[t] - 1 /\ LeftOf(t)' = call[t] /\ AnswerOf(t)' = a
  BY <1>2 DEF LeftOf, AnswerOf, out
<1>4. Left[t] = call[t] - 1 /\ Left' = [Left EXCEPT ![t] = call[t]] /\ Answer' = [Answer EXCEPT ![t] = a]
  BY <1>3, OneMoves
<1>6. Left[t] < call[t] /\ Left' = [Left EXCEPT ![t] = @ + 1]
  BY <1>2, <1>4, CallNumbers
<1>7. a = <<thwinner[t], Reduction!Diag(call[t]), Reduction!Offer(thwinner[t], call[t])>>
      /\ thwinner[t] \in Threads /\ a[1] = thwinner[t]
  BY DEF Agreed, Reduction!Diag, Reduction!Offer, diagvalue, localamx
<1>8. Reduction!Agreed(a, call[t])
  BY <1>7 DEF Reduction!Agreed, Agreed, Wins, Threads, Reduction!Threads
<1> HIDE DEF a
<1>9. a \in {<<w, Reduction!Diag(call[t]), Reduction!Offer(w, call[t])>> : w \in Threads}
  BY <1>7
<1>10. a[1] = t => ipiv[call[t]] = t
  BY <1>7
<1> QED
  BY <1>1, <1>4, <1>6, <1>8, <1>9, <1>10, Mapping

\* A step inside a call, that records nothing, is invisible.
LEMMA InsideCall ==
  ASSUME NEW t \in Threads, pc[t] # "out", pc'[t] # "out", call' = call,
         \A u \in Threads \ {t} : LeftOf(u)' = LeftOf(u) /\ AnswerOf(u)' = AnswerOf(u)
  PROVE  Left' = Left /\ Answer' = Answer /\ (ipiv' = ipiv => UNCHANGED Reduction!vars)
<1>1. LeftOf(t)' = LeftOf(t) /\ AnswerOf(t)' = AnswerOf(t)
  BY DEF LeftOf, AnswerOf
<1>2. Left' = Left /\ Answer' = Answer
  BY <1>1, OneMoves
<1> QED
  BY <1>2, Mapping

LEMMA WorkerRefines ==
  ASSUME IInv, NEW t \in Workers, Worker(t)
  PROVE  Reduction!Next \/ UNCHANGED Reduction!vars
<1> USE ThreadSets
<1>1. TypeOK /\ PlacesTyped /\ pc \in [Threads -> Phases0 \cup PhasesWorker] /\ WorkerInv(t)
  BY DEF IInv, TypeOK, PlacesTyped
<1>2. \A u \in Threads \ {t} : Frame(u)
  BY <1>1, WorkerFrame
<1>3. \A u \in Threads \ {t} : LeftOf(u)' = LeftOf(u) /\ AnswerOf(u)' = AnswerOf(u)
  BY <1>2 DEF Frame, LeftOf, AnswerOf
<1>4. t \in Threads /\ t \in Reduction!Threads /\ t # 0
  BY DEF Threads, Reduction!Threads
<1>5. CASE Enter(t)
  <2>1. pc[t] = "out" /\ pc'[t] # "out" /\ call[t] < Calls
        /\ call' = [call EXCEPT ![t] = @ + 1] /\ ipiv' = ipiv
    BY <1>1, <1>4, <1>5 DEF Enter, At, Goto, shared
  <2>2. Reduction!Enter(t)
    BY <1>1, <1>3, <1>4, <2>1, EnterStep
  <2> QED
    BY <1>4, <2>2 DEF Reduction!Next
<1>6. CASE Pivot(t)
  <2>1. /\ pc[t] = "pivot" /\ pc'[t] # "out" /\ call' = call
        /\ ipiv' = IF thwinner[t] = t THEN [ipiv EXCEPT ![call[t]] = t] ELSE ipiv
    BY <1>1, <1>4, <1>6 DEF Pivot, At, Goto
  <2>2. Left' = Left /\ Answer' = Answer /\ (ipiv' = ipiv => UNCHANGED Reduction!vars)
    BY <1>3, <1>4, <2>1, InsideCall
  <2>3. CASE thwinner[t] = t
    <3>1. Wins(t, call[t], Threads) /\ call[t] \in 1 .. Calls
      BY <1>1, <2>1, <2>3 DEF WorkerInv, WorkerLeaves, Agreed
    <3>2. Reduction!Record(t)
      BY <1>4, <2>1, <2>2, <2>3, <3>1, RecordStep
    <3> QED
      BY <1>4, <3>2 DEF Reduction!Next
  <2> QED
    BY <2>1, <2>2, <2>3
<1>7. CASE WaitReset(t)
  <2>1. pc[t] = "wait reset" /\ pc'[t] = "out" /\ call' = call /\ ipiv' = ipiv /\ out' = out
    BY <1>1, <1>4, <1>7 DEF WaitReset, At, Goto, shared
  <2>2. Agreed(t) /\ (thwinner[t] = t => ipiv[call[t]] = t) /\ call[t] \in 1 .. Calls
    BY <1>1, <2>1 DEF WorkerInv, WorkerLeaves
  <2>3. Reduction!Leave(t)
    BY <1>3, <1>4, <2>1, <2>2, LeaveStep
  <2> QED
    BY <1>4, <2>3 DEF Reduction!Next
<1>8. CASE \/ OfferValue(t) \/ Announce(t) \/ WaitWinner(t) \/ WaitValue(t)
           \/ ReadWinner(t) \/ ReadDiag(t) \/ ReadValue(t) \/ Acknowledge(t)
  <2>1. pc[t] # "out" /\ pc'[t] # "out" /\ call' = call /\ ipiv' = ipiv
    <3>1. CASE OfferValue(t) \/ Announce(t) \/ WaitWinner(t) \/ WaitValue(t)
      BY <1>1, <1>4, <3>1 DEF OfferValue, Announce, WaitWinner, WaitValue, At, Goto, shared
    <3>2. CASE ReadWinner(t) \/ ReadDiag(t) \/ ReadValue(t) \/ Acknowledge(t)
      BY <1>1, <1>4, <3>2 DEF ReadWinner, ReadDiag, ReadValue, Acknowledge, At, Goto, shared
    <3> QED
      BY <1>8, <3>1, <3>2
  <2> QED
    BY <1>3, <1>4, <2>1, InsideCall
<1> QED
  BY <1>5, <1>6, <1>7, <1>8 DEF Worker

LEMMA Thread0Refines ==
  ASSUME IInv, Thread0
  PROVE  Reduction!Next \/ UNCHANGED Reduction!vars
<1> USE ThreadSets
<1>1. TypeOK /\ PlacesTyped /\ pc \in [Threads -> Phases0 \cup PhasesWorker]
      /\ Thread0Choice /\ (pc[0] # "out" => call[0] \in 1 .. Calls)
  BY DEF IInv, TypeOK, PlacesTyped, Thread0Words
<1>2. (\A u \in Workers : Still(u)) /\ (~Choose0 => ipiv' = ipiv) /\ (~Enter0 => call' = call)
  BY <1>1, Thread0Frame
<1>3. \A u \in Threads \ {0} : LeftOf(u)' = LeftOf(u) /\ AnswerOf(u)' = AnswerOf(u)
  BY <1>2 DEF Still, LeftOf, AnswerOf
<1>4. 0 \in Reduction!Threads
  BY DEF Threads, Reduction!Threads
<1>5. CASE Enter0
  <2>1. pc[0] = "out" /\ pc'[0] # "out" /\ call[0] < Calls
        /\ call' = [call EXCEPT ![0] = @ + 1] /\ ipiv' = ipiv
    BY <1>1, <1>5 DEF Enter0, At, Goto, shared
  <2>2. Reduction!Enter(0)
    BY <1>1, <1>3, <2>1, EnterStep
  <2> QED
    BY <1>4, <2>2 DEF Reduction!Next
<1>6. CASE Choose0
  <2>1. /\ pc[0] = "choose" /\ pc'[0] # "out" /\ call' = call
        /\ ipiv' = IF j = 0 THEN [ipiv EXCEPT ![call[0]] = 0] ELSE ipiv
    BY <1>1, <1>6 DEF Choose0, At, Goto
  <2>2. Left' = Left /\ Answer' = Answer /\ (ipiv' = ipiv => UNCHANGED Reduction!vars)
    BY <1>3, <2>1, InsideCall
  <2>3. CASE j = 0
    <3>1. Wins(0, call[0], Threads) /\ call[0] \in 1 .. Calls
      BY <1>1, <2>1, <2>3 DEF Thread0Choice
    <3>2. Reduction!Record(0)
      BY <2>1, <2>2, <2>3, <3>1, RecordStep
    <3> QED
      BY <1>4, <3>2 DEF Reduction!Next
  <2> QED
    BY <2>1, <2>2, <2>3
<1>7. CASE Reset
  <2>1. pc[0] = "reset" /\ pc'[0] = "out" /\ call' = call /\ ipiv' = ipiv /\ out' = out
    BY <1>1, <1>7 DEF Reset, At, Goto, out
  <2>2. Agreed(0) /\ (thwinner[0] = 0 => ipiv[call[0]] = 0) /\ call[0] \in 1 .. Calls
    BY <1>1, <2>1 DEF Thread0Choice
  <2>3. Reduction!Leave(0)
    BY <1>3, <2>1, <2>2, LeaveStep
  <2> QED
    BY <1>4, <2>3 DEF Reduction!Next
<1>8. CASE Gather \/ Scan \/ Store \/ Winner \/ DiagValue \/ Release \/ Drain
  <2>1. pc[0] # "out" /\ pc'[0] # "out" /\ call' = call /\ ipiv' = ipiv
    <3>1. CASE Gather \/ Scan \/ Store \/ Release \/ Drain
      BY <1>1, <3>1 DEF Gather, Scan, Store, Release, Drain, Loop, At, Goto, shared
    <3>2. CASE Winner \/ DiagValue
      BY <1>1, <3>2 DEF Winner, DiagValue, At, Goto
    <3> QED
      BY <1>8, <3>1, <3>2
  <2> QED
    BY <1>3, <2>1, InsideCall
<1> QED
  BY <1>5, <1>6, <1>7, <1>8 DEF Thread0

LEMMA StepRefines == IInv /\ [Next]_vars => [Reduction!Next]_(Reduction!vars)
<1>1. IInv /\ Next => Reduction!Next \/ UNCHANGED Reduction!vars
  BY WorkerRefines, Thread0Refines DEF Next
<1>2. UNCHANGED vars => UNCHANGED Reduction!vars
  <2> SUFFICES ASSUME UNCHANGED vars PROVE UNCHANGED Reduction!vars
    OBVIOUS
  <2>1. UNCHANGED <<call, Left, Answer, ipiv>>
    BY DEF vars, Left, Answer, LeftOf, AnswerOf
  <2> QED
    BY <2>1, Mapping
<1> QED
  BY <1>1, <1>2

LEMMA InitRefines == Init => Reduction!Init
<1> SUFFICES ASSUME Init PROVE Reduction!Init
  OBVIOUS
<1>1. call = [t \in Threads |-> 0] /\ ipiv = [r \in 1 .. Calls |-> -1]
  BY DEF Init
<1>2. Left = [t \in Threads |-> 0]
  BY DEF Init, Left, LeftOf
<1>3. Answer = [t \in Threads |-> << >>]
  <2>1. \A t \in Threads : ~(call[t] > 0)
    BY <1>1
  <2> QED
    BY <2>1 DEF Answer, AnswerOf
<1> QED
  BY <1>1, <1>2, <1>3, Mapping

\* However the accesses to the shared words interleave, every call is an
\* all-reduce and a barrier, for every number of threads, calls and values.
THEOREM Refinement == Spec => ImplementsPivotReduction
BY Invariance, StepRefines, InitRefines, PTL DEF Spec, ImplementsPivotReduction, Reduction!Spec
=============================================================================
