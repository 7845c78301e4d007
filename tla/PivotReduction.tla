---------------------------- MODULE PivotReduction ----------------------------
(***************************************************************************)
(* What the threads of an LU panel want from a pivot search: an all-reduce *)
(* that is a barrier too.  In its r-th call every thread offers the best   *)
(* pivot of its tiles; nobody returns before everybody has called, all     *)
(* return the same winner - the first of the threads with the largest      *)
(* value - with its value and the old diagonal value, and the winner has   *)
(* recorded its row in IPIV before it returns.                             *)
(***************************************************************************)
EXTENDS Integers

CONSTANTS
  thcnt,    \* the number of threads
  Calls,    \* the number of calls each of them makes
  amx(_, _) \* amx(t, r): the absolute value thread t offers in call r

VARIABLES
  entered,  \* the number of calls each thread has made
  left,     \* the number of calls each thread has returned from
  answer,   \* what the last call returned, << >> inside a call
  pivoted   \* the thread that recorded the pivot of each call, or -1

vars == <<entered, left, answer, pivoted>>

Threads == 0 .. thcnt-1

\* What thread t offers in call r, and the diagonal value thread 0 brings.
Offer(t, r) == <<"max", t, r>>
Diag(r)     == <<"diag", 0, r>>

Wins(w, r, S) ==
  /\ w \in S
  /\ \A u \in S : amx(u, r) <= amx(w, r)
  /\ \A u \in S : u < w => amx(u, r) < amx(w, r)

Agreed(a, r) == \E w \in Threads : Wins(w, r, Threads) /\ a = <<w, Diag(r), Offer(w, r)>>

AllIn(r) == \A u \in Threads : entered[u] >= r

-----------------------------------------------------------------------------
Init ==
  /\ entered = [t \in Threads |-> 0]
  /\ left = [t \in Threads |-> 0]
  /\ answer = [t \in Threads |-> << >>]
  /\ pivoted = [r \in 1 .. Calls |-> -1]

Enter(t) ==
  /\ entered[t] = left[t] /\ entered[t] < Calls
  /\ entered' = [entered EXCEPT ![t] = @ + 1]
  /\ answer' = [answer EXCEPT ![t] = << >>]
  /\ UNCHANGED <<left, pivoted>>

Record(t) ==
  /\ left[t] < entered[t] /\ AllIn(entered[t])
  /\ Wins(t, entered[t], Threads)
  /\ pivoted[entered[t]] = -1
  /\ pivoted' = [pivoted EXCEPT ![entered[t]] = t]
  /\ UNCHANGED <<entered, left, answer>>

Leave(t) ==
  /\ left[t] < entered[t] /\ AllIn(entered[t])
  /\ left' = [left EXCEPT ![t] = @ + 1]
  /\ \E a \in {<<w, Diag(entered[t]), Offer(w, entered[t])>> : w \in Threads} :
       /\ Agreed(a, entered[t])
       /\ a[1] = t => pivoted[entered[t]] = t
       /\ answer' = [answer EXCEPT ![t] = a]
  /\ UNCHANGED <<entered, pivoted>>

Next == \E t \in Threads : Enter(t) \/ Record(t) \/ Leave(t)

Spec == Init /\ [][Next]_vars
=============================================================================
