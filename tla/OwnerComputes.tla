----------------------------- MODULE OwnerComputes -----------------------------
(***************************************************************************)
(* The discipline the task graphs of DPLASMA follow, as conditions on the  *)
(* graph alone.  Every task is placed on the one tile it may update (": A(m,n)"*)
(* is the tile of its RW flow), data copies of that tile never leave its   *)
(* owner for writing, and the arrows - data and CTL - order every reader   *)
(* against every writer of a tile.                                         *)
(*                                                                         *)
(* OwnerComputes_proofs shows that a graph that meets these conditions is  *)
(* executed without races on current operands, whatever its size, its      *)
(* distribution and the interleaving.                                      *)
(***************************************************************************)
EXTENDS TaskRuntime

CONSTANT Before(_, _)  \* Before(t, u): t must have completed for u to start

Writes(t) == \E o \in Operands(t) : o[2] = "RW"

\* The version that operand o of t has once t is complete.
After(t, o) == IF o[2] = "RW" THEN Expect(t, o[3]) + 1 ELSE Expect(t, o[3])

-----------------------------------------------------------------------------
GraphTyped ==
  \A t \in Tasks :
    /\ Affinity(t) \in Tiles
    /\ \A o \in Operands(t) :
         o = <<o[1], o[2], o[3]>> /\ o[3] \in Tiles /\ Expect(t, o[3]) \in Nat
    /\ \A o, p \in Operands(t) : o[1] = p[1] => o = p
    /\ \A d \in In(t) \cup Out(t) : d = <<d[1], d[2], d[3]>>

OwnerUpdates ==
  \A t \in Tasks : \A o \in Operands(t) : o[2] = "RW" => o[3] = Affinity(t)

\* The two ends of every arrow name each other.
ArrowsMatch ==
  \A t \in Tasks :
    /\ \A d \in In(t)  : d[2] \in Tasks /\ <<d[3], t, d[1]>> \in Out(d[2])
    /\ \A o \in Out(t) : o[2] \in Tasks /\ <<o[3], t, o[1]>> \in In(o[2])

\* A data arrow joins two flows on the same tile, the target expects the
\* version the source leaves, and only the owner of a tile passes it on to the
\* tasks placed on that tile.
DataMatch ==
  \A t \in Tasks : \A o \in Out(t) :
    /\ o[1] \in DataFlows(t) <=> o[3] \in DataFlows(o[2])
    /\ \A p \in Operands(t), q \in Operands(o[2]) : p[1] = o[1] /\ q[1] = o[3] =>
         /\ q[3] = p[3]
         /\ Expect(o[2], q[3]) = After(t, p)
         /\ q[3] = Affinity(o[2]) => p[3] = Affinity(t)

\* Every data flow has a source, and reads the tile the body works on.
FlowsFed ==
  \A t \in Tasks : \A o \in Operands(t) :
    /\ (\E l \in Load(t) : l[1] = o[1]) \/ (\E d \in In(t) : d[1] = o[1])
    /\ \A l \in Load(t) : l[1] = o[1] => l[2] = o[3]

\* Only the owner writes a tile back, from the flow that holds this tile.
StoresOwned ==
  \A t \in Tasks : \A s \in Store(t) :
    s[2] = Affinity(t) /\ \E o \in Operands(t) : o[1] = s[1] /\ o[3] = s[2]

\* The writers of a tile take its versions one by one, without a gap.
VersionsCounted ==
  /\ \A t, u \in Tasks :
       /\ Writes(t) /\ Writes(u) /\ Affinity(t) = Affinity(u)
       /\ Expect(t, Affinity(t)) = Expect(u, Affinity(u))
       => t = u
  /\ \A t \in Tasks : \A o \in Operands(t) : Expect(t, o[3]) # 0 =>
       \E w \in Tasks : /\ Writes(w) /\ Affinity(w) = o[3]
                        /\ Expect(w, o[3]) + 1 = Expect(t, o[3])

\* Before is enforced by the arrows.
OrderEnforced ==
  \A t, u \in Tasks : Before(t, u) => \E d \in In(u) : d[2] = t \/ Before(t, d[2])

\* Before orders every use of a tile against every update of it.
OrderSufficient ==
  \A t \in Tasks : \A o \in Operands(t) : \A w \in Tasks \ {t} :
    Writes(w) /\ Affinity(w) = o[3] =>
      IF Expect(w, o[3]) < Expect(t, o[3]) THEN Before(w, t) ELSE Before(t, w)

WellFormed ==
  /\ GraphTyped /\ OwnerUpdates /\ ArrowsMatch /\ DataMatch /\ FlowsFed
  /\ StoresOwned /\ VersionsCounted /\ OrderEnforced /\ OrderSufficient
=============================================================================
