------------------------------ MODULE TaskRuntime ------------------------------
(***************************************************************************)
(* The PaRSEC runtime, as the parameterised task graphs (JDF files) of     *)
(* DPLASMA rely on it.  PaRSEC itself is a git submodule that this         *)
(* repository does not contain: the module is written from the way the     *)
(* JDF files use the runtime, and every definition of it is external.      *)
(*                                                                         *)
(* A task waits for its input dependencies, runs its body on the data      *)
(* copies its flows are bound to, and on completion releases its output    *)
(* dependencies: at once to the tasks of its own process (which get the    *)
(* SAME data copy, not a private one), by a message to other processes     *)
(* (which get a copy of their own, filled when the message is served).     *)
(* A CTL flow carries no data.                                             *)
(***************************************************************************)
EXTENDS Naturals

CONSTANTS
  Tasks,        \* the tasks of all classes, their execution spaces
  Tiles,        \* tiles of the data collections the graph refers to
  rank_of(_),   \* the process that owns a tile
  Affinity(_),  \* the tile a task is placed on (": descA(m, n)")
  In(_),        \* {<<flow, source task, source flow>>}: "flow <- source"
  Out(_),       \* {<<flow, target task, target flow>>}: "flow -> target"
  Load(_),      \* {<<flow, tile>>}: "flow <- descA(m, n)"
  Store(_),     \* {<<flow, tile>>}: "flow -> descA(m, n)"
  Operands(_),  \* {<<flow, "READ" or "RW", tile>>}: what the body computes on;
                \* a flow that is not named here is a CTL flow
  Expect(_, _)  \* the version of a tile a task must find: the number of
                \* updates the sequential algorithm makes to it before

VARIABLES
  stage,     \* "waiting", "running" or "done", for every task
  released,  \* <<source, its flow, target, its flow, copy>> released so far
  inflight,  \* <<source, its flow, process>> on their way to a process
  val        \* what each data copy holds: a tile and its version

vars == <<stage, released, inflight, val>>

-----------------------------------------------------------------------------
RankOf(t) == rank_of(Affinity(t))

Home(x)      == <<"home", x>>       \* the copy in the data collection
Net(t, f, r) == <<"net", t, f, r>>  \* the copy process r received
NoCopy       == <<"none">>          \* what a CTL flow carries

DataFlows(t) == {o[1] : o \in Operands(t)}

\* The copies flow f of t is bound to: the ones it reads from the collection
\* and the ones its sources handed over.
Bound(t, f) ==
  IF f \notin DataFlows(t) THEN {NoCopy}
  ELSE {Home(l[2]) : l \in {d \in Load(t) : d[1] = f}}
         \cup {e[5] : e \in {d \in released : d[3] = t /\ d[4] = f}}

Touched(t)  == UNION {Bound(t, o[1]) : o \in Operands(t)}
Modified(t) == UNION {Bound(t, o[1]) : o \in {p \in Operands(t) : p[2] = "RW"}}

Local(t)  == {o \in Out(t) : RankOf(o[2]) = RankOf(t)}
Remote(t) == Out(t) \ Local(t)

Enabled(t) ==
  \A d \in In(t) : \E e \in released :
    e[1] = d[2] /\ e[2] = d[3] /\ e[3] = t /\ e[4] = d[1]

-----------------------------------------------------------------------------
Init ==
  /\ stage = [t \in Tasks |-> "waiting"]
  /\ released = {}
  /\ inflight = {}
  /\ val = [c \in {Home(x) : x \in Tiles} |-> <<c[2], 0>>]

\* All dependencies of t are satisfied: a thread of its process picks it.
Start(t) ==
  /\ stage[t] = "waiting"
  /\ Enabled(t)
  /\ stage' = [stage EXCEPT ![t] = "running"]
  /\ UNCHANGED <<released, inflight, val>>

\* What copy c holds once the body of t has updated its RW operands.
Updated(t, c) ==
  IF c \in Modified(t) THEN <<val[c][1], val[c][2] + 1>> ELSE val[c]

\* The copies t writes back to tile x of the collection.
WrittenBack(t, x) == UNION {Bound(t, s[1]) : s \in {d \in Store(t) : d[2] = x}}

AfterBody(t) ==
  [c \in DOMAIN val |->
     IF \E x \in Tiles : c = Home(x) /\ WrittenBack(t, x) # {}
     THEN Updated(t, CHOOSE b \in WrittenBack(t, c[2]) : TRUE)
     ELSE Updated(t, c)]

\* The body of t has returned: its updates are visible, its outputs released.
Complete(t) ==
  /\ stage[t] = "running"
  /\ stage' = [stage EXCEPT ![t] = "done"]
  /\ val' = AfterBody(t)
  /\ released' = released \cup
       UNION {{<<t, o[1], o[2], o[3], c>> : c \in Bound(t, o[1])} : o \in Local(t)}
  /\ inflight' = inflight \cup {<<t, o[1], RankOf(o[2])>> : o \in Remote(t)}

\* The output of flow f of t reaches process r.  The data is read from the
\* sender's copy when the transfer is served, not when the task completes.
Deliver(t, f, r) ==
  LET copy == IF f \in DataFlows(t) THEN Net(t, f, r) ELSE NoCopy
  IN  /\ <<t, f, r>> \in inflight
      /\ inflight' = inflight \ {<<t, f, r>>}
      /\ released' = released \cup
           {<<t, f, o[2], o[3], copy>> :
              o \in {d \in Remote(t) : d[1] = f /\ RankOf(d[2]) = r}}
      /\ val' = IF copy = NoCopy THEN val
                ELSE [c \in DOMAIN val \cup {copy} |->
                        IF c = copy THEN val[CHOOSE b \in Bound(t, f) : TRUE]
                        ELSE val[c]]
      /\ UNCHANGED stage

\* The taskpool is complete: the processes return from parsec_context_wait.
AllDone == inflight = {} /\ \A t \in Tasks : stage[t] = "done"

Next ==
  \/ \E t \in Tasks : Start(t)
  \/ \E t \in Tasks : Complete(t)
  \/ \E d \in inflight : Deliver(d[1], d[2], d[3])

Spec == Init /\ [][Next]_vars

\* Every ready task is eventually picked, every body returns, every message
\* is served.
FairSpec == Spec /\ WF_vars(Next)

-----------------------------------------------------------------------------
TypeOK ==
  /\ stage \in [Tasks -> {"waiting", "running", "done"}]
  /\ \A e \in released : e[1] \in Tasks /\ e[3] \in Tasks
  /\ \A d \in inflight : d[1] \in Tasks
  /\ \A c \in DOMAIN val : val[c][1] \in Tiles /\ val[c][2] \in Nat

\* Whatever a task releases goes to a task that exists and names the release
\* among its inputs.  A release nobody expects makes the runtime count one
\* input too many, and the task start too early.
NoStrayDependency ==
  \A e \in released : e[3] \in Tasks /\ <<e[4], e[1], e[2]>> \in In(e[3])

\* A body computes on exactly the tile, in exactly the version, that the
\* sequential algorithm gives it, from the moment it starts until it returns:
\* no operand is stale, updated too early, or overwritten under the kernel.
OperandsCurrent ==
  \A t \in Tasks : stage[t] = "running" =>
    \A o \in Operands(t) :
      /\ Bound(t, o[1]) # {}
      /\ \A c \in Bound(t, o[1]) : c \in DOMAIN val /\ val[c] = <<o[3], Expect(t, o[3])>>

\* Local successors share one data copy with no lock: a copy that a running
\* body updates is used by no other running body, nor by a pending transfer.
NoRace ==
  \A t \in {u \in Tasks : stage[u] = "running"} :
    /\ \A u \in {v \in Tasks : stage[v] = "running"} \ {t} :
         Modified(t) \cap Touched(u) = {}
    /\ \A d \in inflight : Modified(t) \cap (Bound(d[1], d[2]) \ {NoCopy}) = {}

\* Every task of the graph is eventually executed: no cycle, no input that
\* nobody provides.
Completion == <>AllDone
=============================================================================
