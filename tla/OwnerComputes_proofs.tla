------------------------- MODULE OwnerComputes_proofs -------------------------
(***************************************************************************)
(* A well-formed graph is executed correctly: the proofs, for any graph    *)
(* that meets the conditions of OwnerComputes.                             *)
(***************************************************************************)
EXTENDS OwnerComputes, TLAPS

Started(t) == stage[t] # "waiting"

\* What was released, and what is under way, came from completed tasks.
Traced ==
  /\ stage \in [Tasks -> {"waiting", "running", "done"}]
  /\ \A e \in released :
       /\ e = <<e[1], e[2], e[3], e[4], e[5]>>
       /\ e[1] \in Tasks /\ stage[e[1]] = "done" /\ <<e[2], e[3], e[4]>> \in Out(e[1])
  /\ \A d \in inflight :
       /\ d = <<d[1], d[2], d[3]>>
       /\ d[1] \in Tasks /\ stage[d[1]] = "done" /\ d[3] # RankOf(d[1])
       /\ \E o \in Out(d[1]) : o[1] = d[2] /\ RankOf(o[2]) = d[3]
       /\ \A e \in released : ~(e[1] = d[1] /\ e[2] = d[2] /\ RankOf(e[3]) = d[3])
  /\ \A t \in Tasks : Started(t) => Enabled(t)

Ordered == \A t, u \in Tasks : Before(t, u) /\ Started(u) => stage[t] = "done"

\* The copy in the collection counts the updates of the tile.
HomeCounts ==
  \A x \in Tiles :
    /\ Home(x) \in DOMAIN val
    /\ val[Home(x)] = <<x, val[Home(x)][2]>>
    /\ val[Home(x)][2] \in Nat
    /\ \/ val[Home(x)][2] = 0
       \/ \E w \in Tasks : /\ Writes(w) /\ Affinity(w) = x /\ stage[w] = "done"
                           /\ Expect(w, x) + 1 = val[Home(x)][2]
    /\ \A w \in Tasks : Writes(w) /\ Affinity(w) = x =>
         (stage[w] = "done" <=> val[Home(x)][2] > Expect(w, x))

IsNet(c) == c = Net(c[2], c[3], c[4])

\* A copy that holds the content <<x, v>> for good, or the tile's own copy.
Holds(c, x, v) == c = Home(x) \/ (IsNet(c) /\ c \in DOMAIN val /\ val[c] = <<x, v>>)

Handed ==
  \A e \in released : \A p \in Operands(e[1]) : p[1] = e[2] =>
    /\ Holds(e[5], p[3], After(e[1], p))
    /\ p[3] = Affinity(e[1]) /\ RankOf(e[1]) = RankOf(e[3]) => e[5] = Home(p[3])

DomainTyped == \A c \in DOMAIN val : val[c][1] \in Tiles /\ val[c][2] \in Nat

\* A copy received by a process is filled once.
FilledOnce ==
  /\ \A d \in inflight : Net(d[1], d[2], d[3]) \notin DOMAIN val
  /\ \A t, f, r : Net(t, f, r) \in DOMAIN val => t \in Tasks /\ stage[t] = "done"

IInv == Traced /\ Ordered /\ HomeCounts /\ Handed /\ DomainTyped /\ FilledOnce

-----------------------------------------------------------------------------
LEMMA HomeNotNet == ASSUME NEW x, NEW c, IsNet(c) PROVE c # Home(x)
  BY DEF IsNet, Net, Home

LEMMA HomeInjective == ASSUME NEW x, NEW y, Home(x) = Home(y) PROVE x = y
  BY DEF Home

\* The copies a started task is bound to.
LEMMA BoundHolds ==
  ASSUME WellFormed, IInv, NEW t \in Tasks, Started(t), NEW o \in Operands(t)
  PROVE  /\ Bound(t, o[1]) # {}
         /\ \A c \in Bound(t, o[1]) : Holds(c, o[3], Expect(t, o[3]))
         /\ o[3] = Affinity(t) => Bound(t, o[1]) = {Home(o[3])}
<1>1. Bound(t, o[1]) = {Home(l[2]) : l \in {d \in Load(t) : d[1] = o[1]}}
         \cup {e[5] : e \in {d \in released : d[3] = t /\ d[4] = o[1]}}
  BY DEF Bound, DataFlows
<1>2. Bound(t, o[1]) # {}
  <2>1. CASE \E l \in Load(t) : l[1] = o[1]
    BY <1>1, <2>1
  <2>2. CASE \E d \in In(t) : d[1] = o[1]
    <3>1. PICK d \in In(t) : d[1] = o[1]
      BY <2>2
    <3>2. PICK e \in released : e[1] = d[2] /\ e[2] = d[3] /\ e[3] = t /\ e[4] = d[1]
      BY DEF IInv, Traced, Enabled
    <3> QED BY <1>1, <3>1, <3>2
  <2> QED BY <2>1, <2>2 DEF WellFormed, FlowsFed
<1>3. ASSUME NEW e \in released, e[3] = t, e[4] = o[1]
      PROVE  /\ Holds(e[5], o[3], Expect(t, o[3]))
             /\ o[3] = Affinity(t) => e[5] = Home(o[3])
  <2>1. /\ e[1] \in Tasks
        /\ <<e[2], t, o[1]>> \in Out(e[1])
    BY <1>3 DEF IInv, Traced
  <2>2. e[2] \in DataFlows(e[1])
    BY <2>1 DEF WellFormed, DataMatch, DataFlows
  <2>3. PICK p \in Operands(e[1]) : p[1] = e[2]
    BY <2>2 DEF DataFlows
  <2>4. /\ o[3] = p[3]
        /\ Expect(t, o[3]) = After(e[1], p)
        /\ o[3] = Affinity(t) => p[3] = Affinity(e[1])
    BY <2>1, <2>3 DEF WellFormed, DataMatch
  <2>5. o[3] = Affinity(t) => RankOf(e[1]) = RankOf(e[3])
    BY <2>4, <1>3 DEF RankOf
  <2> QED BY <2>3, <2>4, <2>5 DEF IInv, Handed
<1>4. ASSUME NEW l \in Load(t), l[1] = o[1] PROVE Home(l[2]) = Home(o[3])
  BY <1>4 DEF WellFormed, FlowsFed
<1>5. ASSUME NEW c \in Bound(t, o[1])
      PROVE  Holds(c, o[3], Expect(t, o[3])) /\ (o[3] = Affinity(t) => c = Home(o[3]))
  BY <1>1, <1>3, <1>4, <1>5 DEF Holds
<1> QED BY <1>2, <1>5

\* While a task runs, its operands' home copies are in the expected version.
LEMMA RunningVersion ==
  ASSUME WellFormed, IInv, NEW t \in Tasks, stage[t] = "running", NEW o \in Operands(t)
  PROVE  val[Home(o[3])] = <<o[3], Expect(t, o[3])>>
<1> DEFINE x == o[3]
           n == val[Home(x)][2]
<1>1. x \in Tiles /\ Expect(t, x) \in Nat /\ n \in Nat /\ val[Home(x)] = <<x, n>>
  BY DEF WellFormed, GraphTyped, IInv, HomeCounts
<1>2. ~(n > Expect(t, x))
  <2> SUFFICES ASSUME n > Expect(t, x) PROVE FALSE
    OBVIOUS
  <2>1. PICK w \in Tasks : /\ Writes(w) /\ Affinity(w) = x /\ stage[w] = "done"
                           /\ Expect(w, x) + 1 = n
    BY <1>1 DEF IInv, HomeCounts
  <2>2. Expect(w, x) \in Nat
    BY <2>1 DEF WellFormed, GraphTyped, OwnerUpdates, Writes
  <2>3. w # t /\ ~(Expect(w, x) < Expect(t, x))
    BY <1>1, <2>1, <2>2
  <2>4. Before(t, w)
    BY <2>1, <2>3 DEF WellFormed, OrderSufficient
  <2> QED BY <2>1, <2>4 DEF IInv, Ordered, Started
<1>3. ~(n < Expect(t, x))
  <2> SUFFICES ASSUME n < Expect(t, x) PROVE FALSE
    OBVIOUS
  <2>1. PICK w \in Tasks : /\ Writes(w) /\ Affinity(w) = x
                           /\ Expect(w, x) + 1 = Expect(t, x)
    BY <1>1 DEF WellFormed, VersionsCounted
  <2>2. Expect(w, x) \in Nat
    BY <2>1 DEF WellFormed, GraphTyped, OwnerUpdates, Writes
  <2>3. w # t /\ Expect(w, x) < Expect(t, x)
    BY <1>1, <2>1, <2>2
  <2>4. Before(w, t)
    BY <2>1, <2>3 DEF WellFormed, OrderSufficient
  <2>5. stage[w] = "done"
    BY <2>4 DEF IInv, Ordered, Started
  <2>6. n > Expect(w, x)
    BY <1>1, <2>1, <2>5 DEF IInv, HomeCounts
  <2> QED BY <1>1, <2>1, <2>2, <2>6
<1>4. n = Expect(t, x)
  BY <1>1, <1>2, <1>3
<1> QED BY <1>1, <1>4

\* An operand that is updated is in the home copy, and only there.
LEMMA ModifiedHome ==
  ASSUME WellFormed, IInv, NEW t \in Tasks, Started(t)
  PROVE  Modified(t) = IF Writes(t) THEN {Home(Affinity(t))} ELSE {}
<1>1. \A o \in Operands(t) : o[2] = "RW" => Bound(t, o[1]) = {Home(Affinity(t))}
  BY BoundHolds DEF WellFormed, OwnerUpdates
<1> QED BY <1>1 DEF Modified, Writes

\* Writing back is the identity: the owner's flow is the home copy already.
LEMMA AfterBodyIs ==
  ASSUME WellFormed, IInv, NEW t \in Tasks, Started(t)
  PROVE  AfterBody(t) = [c \in DOMAIN val |->
           IF Writes(t) /\ c = Home(Affinity(t)) THEN <<val[c][1], val[c][2] + 1>>
           ELSE val[c]]
<1>1. ASSUME NEW s \in Store(t)
      PROVE  s[2] = Affinity(t) /\ Bound(t, s[1]) = {Home(Affinity(t))}
  <2>1. s[2] = Affinity(t)
    BY DEF WellFormed, StoresOwned
  <2>2. PICK o \in Operands(t) : o[1] = s[1] /\ o[3] = s[2]
    BY DEF WellFormed, StoresOwned
  <2>3. Bound(t, o[1]) = {Home(o[3])}
    BY <2>1, <2>2, BoundHolds
  <2> QED BY <2>1, <2>2, <2>3
<1>2. \A x : WrittenBack(t, x) \in {{}, {Home(x)}}
  BY <1>1 DEF WrittenBack
<1>3. \A c \in DOMAIN val : \A x : c = Home(x) => c[2] = x
  BY DEF Home
<1>4. ASSUME NEW c \in DOMAIN val PROVE AfterBody(t)[c] = Updated(t, c)
  <2>1. CASE \E x \in Tiles : c = Home(x) /\ WrittenBack(t, x) # {}
    <3>1. WrittenBack(t, c[2]) = {c}
      BY <2>1, <1>2, <1>3
    <3>2. (CHOOSE b \in WrittenBack(t, c[2]) : TRUE) = c
      BY <3>1
    <3> QED BY <2>1, <3>2 DEF AfterBody
  <2>2. CASE ~ \E x \in Tiles : c = Home(x) /\ WrittenBack(t, x) # {}
    BY <2>2 DEF AfterBody
  <2> QED BY <2>1, <2>2
<1>5. AfterBody(t) = [c \in DOMAIN val |-> Updated(t, c)]
  BY <1>4 DEF AfterBody
<1> QED BY <1>5, ModifiedHome DEF Updated

-----------------------------------------------------------------------------
LEMMA InitInvariant == WellFormed /\ Init => IInv
<1> SUFFICES ASSUME WellFormed, Init PROVE IInv
  OBVIOUS
<1>1. Traced
  BY DEF Init, Traced, Started
<1>2. Ordered
  BY DEF Init, Ordered, Started
<1>3. \A x \in Tiles : Home(x) \in DOMAIN val /\ val[Home(x)] = <<x, 0>>
  BY DEF Init, Home
<1>4. HomeCounts
  <2> SUFFICES ASSUME NEW x \in Tiles, NEW w \in Tasks, Writes(w), Affinity(w) = x
               PROVE  ~(0 > Expect(w, x)) /\ stage[w] # "done"
    BY <1>3 DEF HomeCounts, Init
  <2> QED BY DEF Init, WellFormed, GraphTyped, OwnerUpdates, Writes
<1>5. Handed
  BY DEF Init, Handed
<1>6. DomainTyped
  BY DEF Init, DomainTyped, Home
<1>7. FilledOnce
  BY DEF Init, FilledOnce, Home, Net
<1> QED BY <1>1, <1>2, <1>4, <1>5, <1>6, <1>7 DEF IInv

LEMMA StartInvariant ==
  ASSUME WellFormed, IInv, NEW t \in Tasks, Start(t) PROVE IInv'
<1>1. /\ stage[t] = "waiting" /\ Enabled(t)
      /\ stage' = [stage EXCEPT ![t] = "running"]
      /\ UNCHANGED <<released, inflight, val>>
  BY DEF Start
<1>2. stage \in [Tasks -> {"waiting", "running", "done"}]
  BY DEF IInv, Traced
<1>3. \A u \in Tasks : stage'[u] = "done" <=> stage[u] = "done"
  BY <1>1, <1>2
<1>4. \A u : Enabled(u)' <=> Enabled(u)
  BY <1>1 DEF Enabled
<1>5. Traced'
  BY <1>1, <1>2, <1>3, <1>4 DEF IInv, Traced, Started
<1>6. Ordered'
  <2> SUFFICES ASSUME NEW a \in Tasks, NEW u \in Tasks, Before(a, u), Started(u)'
               PROVE  stage[a] = "done"
    BY <1>3 DEF Ordered
  <2>1. CASE u # t
    BY <2>1, <1>1, <1>2 DEF IInv, Ordered, Started
  <2>2. CASE u = t
    <3>1. PICK d \in In(t) : d[2] = a \/ Before(a, d[2])
      BY <2>2 DEF WellFormed, OrderEnforced
    <3>2. PICK e \in released : e[1] = d[2]
      BY <1>1 DEF Enabled
    <3>3. d[2] \in Tasks /\ stage[d[2]] = "done"
      BY <3>2 DEF IInv, Traced
    <3> QED BY <3>1, <3>3 DEF IInv, Ordered, Started
  <2> QED BY <2>1, <2>2
<1>7. HomeCounts'
  BY <1>1, <1>3 DEF IInv, HomeCounts
<1>8. Handed' /\ DomainTyped' /\ FilledOnce'
  BY <1>1, <1>3 DEF IInv, Handed, DomainTyped, Holds, FilledOnce
<1> QED BY <1>5, <1>6, <1>7, <1>8 DEF IInv

LEMMA CompleteInvariant ==
  ASSUME WellFormed, IInv, NEW t \in Tasks, Complete(t) PROVE IInv'
<1> DEFINE a == Affinity(t)
<1>1. /\ stage[t] = "running"
      /\ stage' = [stage EXCEPT ![t] = "done"]
      /\ val' = AfterBody(t)
      /\ released' = released \cup
           UNION {{<<t, o[1], o[2], o[3], c>> : c \in Bound(t, o[1])} : o \in Local(t)}
      /\ inflight' = inflight \cup {<<t, o[1], RankOf(o[2])>> : o \in Remote(t)}
  BY DEF Complete
<1>2. /\ stage \in [Tasks -> {"waiting", "running", "done"}]
      /\ Started(t) /\ stage[t] # "done"
  BY <1>1 DEF IInv, Traced, Started
<1>3. \A u \in Tasks : stage'[u] = IF u = t THEN "done" ELSE stage[u]
  BY <1>1, <1>2
<1>4. ASSUME NEW e \in released', e \notin released
      PROVE  \E o \in Local(t) : \E c \in Bound(t, o[1]) :
               e = <<t, o[1], o[2], o[3], c>>
  BY <1>1, <1>4
<1>5. ASSUME NEW d \in inflight', d \notin inflight
      PROVE  \E o \in Remote(t) : d = <<t, o[1], RankOf(o[2])>>
  BY <1>1, <1>5
<1>6. DOMAIN val' = DOMAIN val
  BY <1>1, <1>2, AfterBodyIs
<1>7. \A c \in DOMAIN val :
        val'[c] = IF Writes(t) /\ c = Home(a) THEN <<val[c][1], val[c][2] + 1>> ELSE val[c]
  BY <1>1, <1>2, AfterBodyIs
<1>8. Traced'
  <2>1. stage' \in [Tasks -> {"waiting", "running", "done"}]
    BY <1>1, <1>2
  <2>2. ASSUME NEW e \in released'
        PROVE  /\ e = <<e[1], e[2], e[3], e[4], e[5]>>
               /\ e[1] \in Tasks /\ stage'[e[1]] = "done"
               /\ <<e[2], e[3], e[4]>> \in Out(e[1])
    <3>1. CASE e \in released
      BY <3>1, <1>3 DEF IInv, Traced
    <3>2. CASE e \notin released
      <4>1. PICK o \in Local(t) : \E c \in Bound(t, o[1]) : e = <<t, o[1], o[2], o[3], c>>
        BY <3>2, <1>4
      <4>2. o \in Out(t) /\ o = <<o[1], o[2], o[3]>>
        BY <4>1 DEF Local, WellFormed, GraphTyped
      <4> QED BY <4>1, <4>2, <1>3
    <3> QED BY <3>1, <3>2
  <2>3. ASSUME NEW d \in inflight'
        PROVE  /\ d = <<d[1], d[2], d[3]>>
               /\ d[1] \in Tasks /\ stage'[d[1]] = "done" /\ d[3] # RankOf(d[1])
               /\ \E o \in Out(d[1]) : o[1] = d[2] /\ RankOf(o[2]) = d[3]
               /\ \A e \in released' :
                    ~(e[1] = d[1] /\ e[2] = d[2] /\ RankOf(e[3]) = d[3])
    <3>1. CASE d \in inflight
      <4>1. d[1] # t
        BY <3>1, <1>2 DEF IInv, Traced
      <4>2. \A e \in released' : e[1] = t \/ e \in released
        BY <1>4
      <4> QED BY <3>1, <4>1, <4>2, <1>3 DEF IInv, Traced
    <3>2. CASE d \notin inflight
      <4>1. PICK o \in Remote(t) : d = <<t, o[1], RankOf(o[2])>>
        BY <3>2, <1>5
      <4>2. o \in Out(t) /\ RankOf(o[2]) # RankOf(t)
        BY <4>1 DEF Remote, Local
      <4>3. \A e \in released : e[1] # t
        BY <1>2 DEF IInv, Traced
      <4>4. \A e \in released' : e \in released \/ RankOf(e[3]) = RankOf(t)
        BY <1>4 DEF Local
      <4> QED BY <4>1, <4>2, <4>3, <4>4, <1>3
    <3> QED BY <3>1, <3>2
  <2>4. ASSUME NEW u \in Tasks, Started(u)' PROVE Enabled(u)'
    <3>1. Enabled(u)
      BY <2>4, <1>2, <1>3 DEF Started, IInv, Traced
    <3>2. released \subseteq released'
      BY <1>1
    <3> QED BY <3>1, <3>2 DEF Enabled
  <2> QED BY <2>1, <2>2, <2>3, <2>4 DEF Traced
<1>9. Ordered'
  BY <1>2, <1>3 DEF IInv, Ordered, Started
<1>10. ASSUME NEW x \in Tiles
       PROVE /\ Home(x) \in DOMAIN val'
             /\ val'[Home(x)] = <<x, val'[Home(x)][2]>>
             /\ val'[Home(x)][2] \in Nat
             /\ \/ val'[Home(x)][2] = 0
                \/ \E w \in Tasks : /\ Writes(w) /\ Affinity(w) = x /\ stage'[w] = "done"
                                    /\ Expect(w, x) + 1 = val'[Home(x)][2]
             /\ \A w \in Tasks : Writes(w) /\ Affinity(w) = x =>
                  (stage'[w] = "done" <=> val'[Home(x)][2] > Expect(w, x))
  <2>1. /\ Home(x) \in DOMAIN val
        /\ val[Home(x)] = <<x, val[Home(x)][2]>>
        /\ val[Home(x)][2] \in Nat
    BY DEF IInv, HomeCounts
  <2>2. CASE Writes(t) /\ a = x
    <3>0. PICK o \in Operands(t) : o[2] = "RW"
      BY <2>2 DEF Writes
    <3>1. o[3] = x
      BY <2>2, <3>0 DEF WellFormed, OwnerUpdates
    <3>2. val[Home(x)] = <<x, Expect(t, x)>> /\ Expect(t, x) \in Nat
      BY <1>1, <3>1, RunningVersion DEF WellFormed, GraphTyped
    <3>3. val'[Home(x)] = <<x, Expect(t, x) + 1>>
      <4>1. val'[Home(x)] = <<val[Home(x)][1], val[Home(x)][2] + 1>>
        BY <1>7, <2>1, <2>2
      <4>2. val[Home(x)][1] = x /\ val[Home(x)][2] = Expect(t, x)
        BY <3>2
      <4> QED BY <4>1, <4>2
    <3>4. ASSUME NEW w \in Tasks, Writes(w), Affinity(w) = x
          PROVE  stage'[w] = "done" <=> Expect(t, x) + 1 > Expect(w, x)
      <4>1. Expect(w, x) \in Nat
        BY <3>4 DEF WellFormed, GraphTyped, OwnerUpdates, Writes
      <4>2. CASE w = t
        BY <4>2, <3>2, <1>3
      <4>3. CASE w # t
        <5>1. Expect(w, x) # Expect(t, x)
          BY <4>3, <3>4, <2>2 DEF WellFormed, VersionsCounted
        <5>2. stage[w] = "done" <=> Expect(t, x) > Expect(w, x)
          BY <3>4, <3>2 DEF IInv, HomeCounts
        <5> QED BY <4>1, <4>3, <5>1, <5>2, <3>2, <1>3
      <4> QED BY <4>2, <4>3
    <3>5. Expect(t, x) + 1 \in Nat
      BY <3>2
    <3> QED BY <1>3, <1>6, <2>1, <2>2, <3>3, <3>4, <3>5
  <2>3. CASE ~(Writes(t) /\ a = x)
    <3>1. val'[Home(x)] = val[Home(x)]
      BY <1>7, <2>1, <2>3, HomeInjective
    <3>2. \A w \in Tasks : Writes(w) /\ Affinity(w) = x =>
            (stage'[w] = "done" <=> stage[w] = "done")
      BY <1>3, <2>3
    <3> QED BY <1>6, <2>1, <3>1, <3>2 DEF IInv, HomeCounts
  <2> QED BY <2>2, <2>3
<1>11. HomeCounts'
  BY <1>10 DEF HomeCounts
<1>12. \A c, x, v : Holds(c, x, v) => Holds(c, x, v)'
  BY <1>6, <1>7, HomeNotNet DEF Holds
<1>13. Handed'
  <2> SUFFICES ASSUME NEW e \in released', NEW p \in Operands(e[1]), p[1] = e[2]
               PROVE  /\ Holds(e[5], p[3], After(e[1], p))'
                      /\ p[3] = Affinity(e[1]) /\ RankOf(e[1]) = RankOf(e[3])
                           => e[5] = Home(p[3])
    BY DEF Handed
  <2>1. CASE e \in released
    BY <2>1, <1>12 DEF IInv, Handed
  <2>2. CASE e \notin released
    <3>0. PICK o \in Local(t) : \E c \in Bound(t, o[1]) : e = <<t, o[1], o[2], o[3], c>>
      BY <2>2, <1>4
    <3>1. PICK c \in Bound(t, o[1]) : e = <<t, o[1], o[2], o[3], c>>
      BY <3>0
    <3>2. p \in Operands(t) /\ p[1] = o[1] /\ c \in Bound(t, p[1]) /\ e[5] = c /\ e[1] = t
      BY <3>1
    <3>3. Holds(c, p[3], Expect(t, p[3])) /\ (p[3] = a => c = Home(p[3]))
      BY <1>2, <3>2, BoundHolds
    <3>4. Holds(c, p[3], After(t, p))
      <4>1. CASE p[2] = "RW"
        <5>1. p[3] = a
          BY <4>1, <3>2 DEF WellFormed, OwnerUpdates
        <5> QED BY <5>1, <3>3 DEF Holds
      <4>2. CASE p[2] # "RW"
        BY <4>2, <3>3 DEF After
      <4> QED BY <4>1, <4>2
    <3> QED BY <1>12, <3>2, <3>3, <3>4
  <2> QED BY <2>1, <2>2
<1>14. DomainTyped'
  <2> SUFFICES ASSUME NEW c \in DOMAIN val
               PROVE  val'[c][1] \in Tiles /\ val'[c][2] \in Nat
    BY <1>6 DEF DomainTyped
  <2>1. val[c][1] \in Tiles /\ val[c][2] \in Nat
    BY DEF IInv, DomainTyped
  <2>2. CASE Writes(t) /\ c = Home(a)
    <3>1. val'[c] = <<val[c][1], val[c][2] + 1>>
      BY <1>7, <2>2
    <3> QED BY <2>1, <3>1
  <2>3. CASE ~(Writes(t) /\ c = Home(a))
    BY <1>7, <2>1, <2>3
  <2> QED BY <2>2, <2>3
<1>15. FilledOnce'
  <2>1. \A d \in inflight' : d \in inflight \/ d[1] = t
    BY <1>5
  <2> QED BY <1>2, <1>3, <1>6, <2>1 DEF IInv, FilledOnce
<1> QED BY <1>8, <1>9, <1>11, <1>13, <1>14, <1>15 DEF IInv

\* While a transfer is pending its source still holds what the target expects:
\* a task that waits for it is ordered before the next update of the tile.
LEMMA PendingVersion ==
  ASSUME WellFormed, IInv, NEW d \in inflight,
         NEW p \in Operands(d[1]), p[1] = d[2],
         NEW w \in Tasks, Writes(w), Affinity(w) = p[3],
         Expect(w, p[3]) >= After(d[1], p)
  PROVE  /\ \E v \in Tasks : ~Started(v) /\ Before(v, w)
         /\ ~Started(w)
<1> DEFINE t == d[1]
           x == p[3]
<1>1. t \in Tasks /\ stage[t] = "done"
  BY DEF IInv, Traced
<1>2. PICK o \in Out(t) : o[1] = d[2] /\ RankOf(o[2]) = d[3]
  BY DEF IInv, Traced
<1>3. o[2] \in Tasks /\ <<o[3], t, o[1]>> \in In(o[2])
  BY <1>1, <1>2 DEF WellFormed, ArrowsMatch
<1>4. ~Started(o[2])
  <2> SUFFICES ASSUME Started(o[2]) PROVE FALSE
    OBVIOUS
  <2>1. \E e \in released : e[1] = t /\ e[2] = o[1] /\ e[3] = o[2]
    BY <1>3 DEF IInv, Traced, Enabled
  <2> QED BY <2>1, <1>2 DEF IInv, Traced
<1>5. PICK q \in Operands(o[2]) : q[1] = o[3]
  <2>1. o[1] \in DataFlows(t)
    BY <1>2 DEF DataFlows
  <2>2. o[3] \in DataFlows(o[2])
    BY <1>1, <2>1 DEF WellFormed, DataMatch
  <2> QED BY <2>2 DEF DataFlows
<1>6. q[3] = x /\ Expect(o[2], x) = After(t, p)
  BY <1>1, <1>2, <1>5 DEF WellFormed, DataMatch
<1>7. Expect(o[2], x) \in Nat /\ Expect(w, x) \in Nat
  BY <1>3, <1>5, <1>6 DEF WellFormed, GraphTyped, OwnerUpdates, Writes
<1>8. o[2] # w
  <2> SUFFICES ASSUME o[2] = w PROVE FALSE
    OBVIOUS
  <2>1. Affinity(t) = Affinity(o[2])
    BY <1>1, <1>2, <1>5, <1>6 DEF WellFormed, DataMatch
  <2>2. d[3] # RankOf(t)
    BY DEF IInv, Traced
  <2> QED BY <1>2, <2>1, <2>2 DEF RankOf
<1>9. ~(Expect(w, x) < Expect(o[2], x))
  BY <1>6, <1>7
<1>10. Before(o[2], w)
  BY <1>3, <1>5, <1>6, <1>8, <1>9 DEF WellFormed, OrderSufficient
<1>11. ~Started(w)
  BY <1>3, <1>4, <1>10 DEF IInv, Ordered, Started
<1> QED BY <1>3, <1>4, <1>10, <1>11

\* What a completed task is bound to: an operand in its own home copy, or a
\* copy with the content the task left.
LEMMA PendingContent ==
  ASSUME WellFormed, IInv, NEW d \in inflight,
         NEW p \in Operands(d[1]), p[1] = d[2], NEW c \in Bound(d[1], d[2])
  PROVE  c \in DOMAIN val /\ val[c] = <<p[3], After(d[1], p)>>
<1> DEFINE t == d[1]
           x == p[3]
<1>1. t \in Tasks /\ stage[t] = "done" /\ Started(t)
  BY DEF IInv, Traced, Started
<1>2. Holds(c, x, Expect(t, x)) /\ (x = Affinity(t) => c = Home(x))
  BY <1>1, BoundHolds
<1>3. CASE c # Home(x)
  <2>1. p[2] # "RW"
    BY <1>1, <1>2, <1>3 DEF WellFormed, OwnerUpdates
  <2> QED BY <1>2, <1>3, <2>1 DEF Holds, After
<1>4. CASE c = Home(x)
  <2> DEFINE n == val[Home(x)][2]
  <2>1. /\ x \in Tiles /\ Expect(t, x) \in Nat /\ n \in Nat
        /\ Home(x) \in DOMAIN val /\ val[Home(x)] = <<x, n>>
    BY <1>1 DEF WellFormed, GraphTyped, IInv, HomeCounts
  <2>2. After(t, p) \in Nat
    BY <2>1 DEF After
  <2>3. ~(n > After(t, p))
    <3> SUFFICES ASSUME n > After(t, p) PROVE FALSE
      OBVIOUS
    <3>1. PICK w \in Tasks : /\ Writes(w) /\ Affinity(w) = x /\ stage[w] = "done"
                             /\ Expect(w, x) + 1 = n
      BY <2>1, <2>2 DEF IInv, HomeCounts
    <3>2. Expect(w, x) \in Nat
      BY <3>1 DEF WellFormed, GraphTyped, OwnerUpdates, Writes
    <3>3. Expect(w, x) >= After(t, p)
      BY <2>1, <2>2, <3>1, <3>2
    <3> QED BY <3>1, <3>3, PendingVersion DEF Started
  <2>4. ~(n < After(t, p))
    <3>1. CASE p[2] = "RW"
      <4>1. Writes(t) /\ Affinity(t) = x
        BY <1>1, <3>1 DEF Writes, WellFormed, OwnerUpdates
      <4>2. n > Expect(t, x)
        BY <1>1, <2>1, <4>1 DEF IInv, HomeCounts
      <4>3. After(t, p) = Expect(t, x) + 1
        BY <3>1 DEF After
      <4> QED BY <2>1, <4>2, <4>3
    <3>2. CASE p[2] # "RW"
      <4> SUFFICES ASSUME n < Expect(t, x) PROVE FALSE
        BY <3>2 DEF After
      <4>1. PICK w \in Tasks : /\ Writes(w) /\ Affinity(w) = x
                               /\ Expect(w, x) + 1 = Expect(t, x)
        BY <1>1, <2>1 DEF WellFormed, VersionsCounted
      <4>2. Expect(w, x) \in Nat
        BY <4>1 DEF WellFormed, GraphTyped, OwnerUpdates, Writes
      <4>3. w # t /\ Expect(w, x) < Expect(t, x)
        BY <2>1, <4>1, <4>2
      <4>4. stage[w] = "done"
        <5>1. Before(w, t)
          BY <1>1, <4>1, <4>3 DEF WellFormed, OrderSufficient
        <5> QED BY <1>1, <5>1 DEF IInv, Ordered
      <4>5. n > Expect(w, x)
        BY <2>1, <4>1, <4>4 DEF IInv, HomeCounts
      <4> QED BY <2>1, <4>1, <4>2, <4>5
    <3> QED BY <3>1, <3>2
  <2>5. n = After(t, p)
    BY <2>1, <2>2, <2>3, <2>4
  <2> QED BY <1>4, <2>1, <2>5
<1> QED BY <1>3, <1>4

LEMMA DeliverInvariant ==
  ASSUME WellFormed, IInv, NEW d \in inflight, Deliver(d[1], d[2], d[3]) PROVE IInv'
<1> DEFINE t == d[1]
           f == d[2]
           r == d[3]
           copy == IF f \in DataFlows(t) THEN Net(t, f, r) ELSE NoCopy
<1>1. /\ inflight' = inflight \ {<<t, f, r>>}
      /\ released' = released \cup
           {<<t, f, o[2], o[3], copy>> :
              o \in {q \in Remote(t) : q[1] = f /\ RankOf(q[2]) = r}}
      /\ val' = IF copy = NoCopy THEN val
                ELSE [c \in DOMAIN val \cup {copy} |->
                        IF c = copy THEN val[CHOOSE b \in Bound(t, f) : TRUE]
                        ELSE val[c]]
      /\ stage' = stage
  BY DEF Deliver
<1>2. /\ t \in Tasks /\ stage[t] = "done" /\ r # RankOf(t)
      /\ d = <<t, f, r>>
      /\ \A e \in released : ~(e[1] = t /\ e[2] = f /\ RankOf(e[3]) = r)
  BY DEF IInv, Traced
<1>3. ASSUME NEW e \in released', e \notin released
      PROVE  \E o \in Remote(t) : /\ o[1] = f /\ RankOf(o[2]) = r
                                  /\ e = <<t, f, o[2], o[3], copy>>
  BY <1>1, <1>3
<1>4. Traced'
  <2>1. stage' \in [Tasks -> {"waiting", "running", "done"}]
    BY <1>1 DEF IInv, Traced
  <2>2. ASSUME NEW e \in released'
        PROVE  /\ e = <<e[1], e[2], e[3], e[4], e[5]>>
               /\ e[1] \in Tasks /\ stage'[e[1]] = "done"
               /\ <<e[2], e[3], e[4]>> \in Out(e[1])
    <3>1. CASE e \in released
      BY <3>1, <1>1 DEF IInv, Traced
    <3>2. CASE e \notin released
      <4>1. PICK o \in Remote(t) : o[1] = f /\ e = <<t, f, o[2], o[3], copy>>
        BY <3>2, <1>3
      <4>2. o \in Out(t) /\ o = <<o[1], o[2], o[3]>>
        BY <4>1, <1>2 DEF Remote, WellFormed, GraphTyped
      <4> QED BY <4>1, <4>2, <1>1, <1>2
    <3> QED BY <3>1, <3>2
  <2>3. ASSUME NEW g \in inflight'
        PROVE  /\ g = <<g[1], g[2], g[3]>>
               /\ g[1] \in Tasks /\ stage'[g[1]] = "done" /\ g[3] # RankOf(g[1])
               /\ \E o \in Out(g[1]) : o[1] = g[2] /\ RankOf(o[2]) = g[3]
               /\ \A e \in released' :
                    ~(e[1] = g[1] /\ e[2] = g[2] /\ RankOf(e[3]) = g[3])
    <3>1. g \in inflight /\ g # <<t, f, r>> /\ g = <<g[1], g[2], g[3]>>
      BY <1>1 DEF IInv, Traced
    <3>2. ASSUME NEW e \in released'
          PROVE  ~(e[1] = g[1] /\ e[2] = g[2] /\ RankOf(e[3]) = g[3])
      <4>1. CASE e \in released
        BY <3>1, <4>1 DEF IInv, Traced
      <4>2. CASE e \notin released
        <5>1. e[1] = t /\ e[2] = f /\ RankOf(e[3]) = r
          BY <4>2, <1>3
        <5> QED BY <3>1, <5>1
      <4> QED BY <4>1, <4>2
    <3> QED BY <3>1, <3>2, <1>1 DEF IInv, Traced
  <2>4. ASSUME NEW u \in Tasks, Started(u)' PROVE Enabled(u)'
    <3>1. Enabled(u)
      BY <2>4, <1>1 DEF Started, IInv, Traced
    <3>2. released \subseteq released'
      BY <1>1
    <3> QED BY <3>1, <3>2 DEF Enabled
  <2> QED BY <2>1, <2>2, <2>3, <2>4 DEF Traced
<1>5. Ordered'
  BY <1>1 DEF IInv, Ordered, Started
<1>6. copy = NoCopy \/ (copy = Net(t, f, r) /\ IsNet(copy) /\ f \in DataFlows(t))
  BY DEF Net, IsNet
<1>7. ASSUME f \in DataFlows(t)
      PROVE  /\ \A p \in Operands(t) : p[1] = f => val'[copy] = <<p[3], After(t, p)>>
             /\ val'[copy][1] \in Tiles /\ val'[copy][2] \in Nat
             /\ DOMAIN val' = DOMAIN val \cup {copy}
             /\ \A c \in DOMAIN val : c # copy => val'[c] = val[c]
  <2> DEFINE b0 == CHOOSE b \in Bound(t, f) : TRUE
  <2>1. copy = Net(t, f, r) /\ copy # NoCopy
    BY <1>7 DEF Net, NoCopy
  <2>2. PICK p \in Operands(t) : p[1] = f
    BY <1>7 DEF DataFlows
  <2>3. Bound(t, f) # {}
    BY <1>2, <2>2, BoundHolds DEF Started
  <2>4. b0 \in Bound(t, f)
    BY <2>3
  <2>5. \A q \in Operands(t) : q[1] = f => val[b0] = <<q[3], After(t, q)>>
    BY <2>4, PendingContent
  <2>6. b0 \in DOMAIN val
    BY <2>2, <2>4, PendingContent
  <2>7. /\ val' = [c \in DOMAIN val \cup {copy} |-> IF c = copy THEN val[b0] ELSE val[c]]
        /\ val'[copy] = val[b0]
    BY <1>1, <2>1
  <2>8. val[b0][1] \in Tiles /\ val[b0][2] \in Nat
    BY <2>6 DEF IInv, DomainTyped
  <2> QED BY <2>5, <2>7, <2>8
<1>8. ASSUME f \notin DataFlows(t) PROVE val' = val
  BY <1>1, <1>8
<1>9. \A x \in Tiles : Home(x) \in DOMAIN val' /\ val'[Home(x)] = val[Home(x)]
  <2> SUFFICES ASSUME NEW x \in Tiles
               PROVE  Home(x) \in DOMAIN val' /\ val'[Home(x)] = val[Home(x)]
    OBVIOUS
  <2>1. Home(x) \in DOMAIN val
    BY DEF IInv, HomeCounts
  <2>2. CASE f \in DataFlows(t)
    <3>1. copy # Home(x)
      BY DEF Net, NoCopy, Home
    <3>2. DOMAIN val' = DOMAIN val \cup {copy}
      BY <2>2, <1>7
    <3>3. \A c \in DOMAIN val : c # copy => val'[c] = val[c]
      BY <2>2, <1>7
    <3> HIDE DEF copy
    <3> QED BY <2>1, <3>1, <3>2, <3>3
  <2> QED BY <2>1, <2>2, <1>8
<1>10. HomeCounts'
  BY <1>1, <1>9 DEF IInv, HomeCounts
<1>11. Handed'
  <2> SUFFICES ASSUME NEW e \in released', NEW p \in Operands(e[1]), p[1] = e[2]
               PROVE  /\ Holds(e[5], p[3], After(e[1], p))'
                      /\ p[3] = Affinity(e[1]) /\ RankOf(e[1]) = RankOf(e[3])
                           => e[5] = Home(p[3])
    BY DEF Handed
  <2>1. CASE e \in released
    <3>1. Holds(e[5], p[3], After(e[1], p))
      BY <2>1 DEF IInv, Handed
    <3>2. Holds(e[5], p[3], After(e[1], p))'
      <4>1. CASE e[5] = Home(p[3])
        BY <4>1 DEF Holds
      <4>2. CASE /\ e[5] # Home(p[3]) /\ IsNet(e[5]) /\ e[5] \in DOMAIN val
                 /\ val[e[5]] = <<p[3], After(e[1], p)>>
        <5>1. CASE f \notin DataFlows(t)
          BY <4>2, <5>1, <1>8 DEF Holds
        <5>2. CASE f \in DataFlows(t) /\ e[5] # copy
          BY <4>2, <5>2, <1>7 DEF Holds
        <5>3. CASE f \in DataFlows(t) /\ e[5] = copy
          BY <4>2, <5>3, <1>6 DEF IInv, FilledOnce, Net, NoCopy
        <5> QED BY <5>1, <5>2, <5>3
      <4> QED BY <3>1, <4>1, <4>2 DEF Holds
    <3> QED BY <3>2, <2>1 DEF IInv, Handed
  <2>2. CASE e \notin released
    <3>1. PICK o \in Remote(t) : RankOf(o[2]) = r /\ e = <<t, f, o[2], o[3], copy>>
      BY <2>2, <1>3
    <3>2. /\ e[1] = t /\ e[2] = f /\ e[3] = o[2] /\ e[5] = copy
          /\ RankOf(e[1]) # RankOf(e[3])
      BY <3>1, <1>2
    <3>3. p \in Operands(t) /\ p[1] = f /\ f \in DataFlows(t)
      BY <3>2 DEF DataFlows
    <3>4. copy = Net(t, f, r) /\ IsNet(copy) /\ copy \in DOMAIN val'
      BY <3>3, <1>7 DEF IsNet, Net
    <3>5. Holds(copy, p[3], After(t, p))'
      BY <3>3, <3>4, <1>7 DEF Holds
    <3> QED BY <3>2, <3>5
  <2> QED BY <2>1, <2>2
<1>12. DomainTyped'
  <2>1. CASE f \in DataFlows(t)
    BY <2>1, <1>7 DEF IInv, DomainTyped
  <2>2. CASE f \notin DataFlows(t)
    BY <2>2, <1>8 DEF IInv, DomainTyped
  <2> QED BY <2>1, <2>2
<1>13. FilledOnce'
  <2>1. \A c \in DOMAIN val' : c \in DOMAIN val \/ c = Net(t, f, r)
    BY <1>7, <1>8, <1>6
  <2>2. \A g \in inflight' : g \in inflight /\ g # <<t, f, r>> /\ g = <<g[1], g[2], g[3]>>
    BY <1>1 DEF IInv, Traced
  <2>3. \A a, b, c : Net(a, b, c) = Net(t, f, r) => a = t /\ b = f /\ c = r
    BY DEF Net
  <2> QED BY <1>1, <1>2, <2>1, <2>2, <2>3 DEF IInv, FilledOnce
<1> QED BY <1>4, <1>5, <1>10, <1>11, <1>12, <1>13 DEF IInv

-----------------------------------------------------------------------------
\* IInv is inductive: every action of the runtime preserves it.
THEOREM StepInvariant == WellFormed /\ IInv /\ [Next]_vars => IInv'
<1> SUFFICES ASSUME WellFormed, IInv, [Next]_vars PROVE IInv'
  OBVIOUS
<1>1. CASE \E t \in Tasks : Start(t)
  BY <1>1, StartInvariant
<1>2. CASE \E t \in Tasks : Complete(t)
  BY <1>2, CompleteInvariant
<1>3. CASE \E d \in inflight : Deliver(d[1], d[2], d[3])
  BY <1>3, DeliverInvariant
<1>4. CASE UNCHANGED vars
  <2>1. UNCHANGED <<stage, released, inflight, val>>
    BY <1>4 DEF vars
  <2>2. \A t : Enabled(t)' <=> Enabled(t)
    BY <2>1 DEF Enabled
  <2> QED BY <2>1, <2>2 DEF IInv, Traced, Ordered, HomeCounts, Handed, DomainTyped,
                            FilledOnce, Started, Holds
<1> QED BY <1>1, <1>2, <1>3, <1>4 DEF Next

THEOREM Invariance == ASSUME WellFormed PROVE Spec => []IInv
BY InitInvariant, StepInvariant, PTL DEF Spec

\* Type correctness (parsec tasks, dependencies, messages and copies).
THEOREM TypeCorrect == ASSUME WellFormed PROVE Spec => []TypeOK
<1>1. IInv => TypeOK
  BY DEF IInv, Traced, DomainTyped, TypeOK, WellFormed, ArrowsMatch
<1> QED BY <1>1, Invariance, PTL

THEOREM NoStray == ASSUME WellFormed PROVE Spec => []NoStrayDependency
<1>1. IInv => NoStrayDependency
  <2> SUFFICES ASSUME IInv, NEW e \in released
               PROVE  e[3] \in Tasks /\ <<e[4], e[1], e[2]>> \in In(e[3])
    BY DEF NoStrayDependency
  <2>1. e[1] \in Tasks /\ <<e[2], e[3], e[4]>> \in Out(e[1])
    BY DEF IInv, Traced
  <2> QED BY <2>1 DEF WellFormed, ArrowsMatch
<1> QED BY <1>1, Invariance, PTL

\* No kernel ever works on a stale, premature or overwritten operand.
THEOREM Currency == ASSUME WellFormed PROVE Spec => []OperandsCurrent
<1>1. IInv => OperandsCurrent
  <2> SUFFICES ASSUME IInv, NEW t \in Tasks, stage[t] = "running",
                      NEW o \in Operands(t)
               PROVE  /\ Bound(t, o[1]) # {}
                      /\ \A c \in Bound(t, o[1]) :
                           c \in DOMAIN val /\ val[c] = <<o[3], Expect(t, o[3])>>
    BY DEF OperandsCurrent
  <2>1. o[3] \in Tiles
    BY DEF WellFormed, GraphTyped
  <2>2. Home(o[3]) \in DOMAIN val /\ val[Home(o[3])] = <<o[3], Expect(t, o[3])>>
    BY <2>1, RunningVersion DEF IInv, HomeCounts
  <2> QED BY <2>2, BoundHolds DEF Started, Holds
<1> QED BY <1>1, Invariance, PTL

\* No kernel updates a data copy another kernel or a transfer is using.
THEOREM RaceFreedom == ASSUME WellFormed PROVE Spec => []NoRace
<1>1. IInv => NoRace
  <2> SUFFICES ASSUME IInv, NEW t \in Tasks, stage[t] = "running"
               PROVE  /\ \A u \in Tasks : stage[u] = "running" /\ u # t =>
                           Modified(t) \cap Touched(u) = {}
                      /\ \A d \in inflight :
                           Modified(t) \cap (Bound(d[1], d[2]) \ {NoCopy}) = {}
    BY DEF NoRace
  <2> DEFINE x == Affinity(t)
  <2>a. CASE ~Writes(t)
    BY <2>a, ModifiedHome DEF Started
  <2>b. Writes(t) => Modified(t) = {Home(x)}
    BY ModifiedHome DEF Started
  <2> SUFFICES ASSUME Writes(t)
               PROVE  /\ \A u \in Tasks : stage[u] = "running" /\ u # t =>
                           Home(x) \notin Touched(u)
                      /\ \A d \in inflight : Home(x) \notin Bound(d[1], d[2]) \ {NoCopy}
    BY <2>a, <2>b
  <2>1. Expect(t, x) \in Nat /\ \E o \in Operands(t) : o[2] = "RW" /\ o[3] = x
    BY DEF WellFormed, GraphTyped, OwnerUpdates, Writes
  <2>2. ASSUME NEW u \in Tasks, Started(u), u # t, NEW o \in Operands(u),
               Home(x) \in Bound(u, o[1])
        PROVE  o[3] = x
    <3>1. Holds(Home(x), o[3], Expect(u, o[3]))
      BY <2>2, BoundHolds
    <3> QED BY <3>1, HomeNotNet, HomeInjective DEF Holds
  <2>3. ASSUME NEW u \in Tasks, stage[u] = "running", u # t, Home(x) \in Touched(u)
        PROVE  FALSE
    <3>1. PICK o \in Operands(u) : Home(x) \in Bound(u, o[1])
      BY <2>3 DEF Touched
    <3>2. o[3] = x
      BY <2>2, <2>3, <3>1 DEF Started
    <3>3. Before(t, u) \/ Before(u, t)
      BY <2>3, <3>2 DEF WellFormed, OrderSufficient
    <3> QED BY <2>3, <3>3 DEF IInv, Ordered, Started
  <2>4. ASSUME NEW d \in inflight, Home(x) \in Bound(d[1], d[2]) \ {NoCopy}
        PROVE  FALSE
    <3>1. d[1] \in Tasks /\ stage[d[1]] = "done" /\ d[1] # t /\ Started(d[1])
      BY DEF IInv, Traced, Started
    <3>2. d[2] \in DataFlows(d[1])
      BY <2>4 DEF Bound
    <3>3. PICK p \in Operands(d[1]) : p[1] = d[2]
      BY <3>2 DEF DataFlows
    <3>4. p[3] = x
      BY <2>2, <2>4, <3>1, <3>3
    <3>5. Expect(d[1], x) \in Nat
      BY <3>1, <3>3, <3>4 DEF WellFormed, GraphTyped
    <3>6. ~(Expect(t, x) < Expect(d[1], x))
      <4>1. ~Before(t, d[1])
        BY <3>1 DEF IInv, Ordered
      <4> QED BY <3>1, <3>3, <3>4, <4>1 DEF WellFormed, OrderSufficient
    <3>7. p[2] = "RW" => Expect(t, x) # Expect(d[1], x)
      BY <3>1, <3>3, <3>4 DEF WellFormed, VersionsCounted, OwnerUpdates, Writes
    <3>8. Expect(t, x) >= After(d[1], p)
      BY <2>1, <3>4, <3>5, <3>6, <3>7 DEF After
    <3> QED BY <3>3, <3>4, <3>8, PendingVersion DEF Started
  <2> QED BY <2>3, <2>4
<1> QED BY <1>1, Invariance, PTL

-----------------------------------------------------------------------------
(* What a step does to the tiles in the collection: the facts a refinement *)
(* proof needs.                                                            *)

LEMMA CompleteEffect ==
  ASSUME WellFormed, IInv, NEW t \in Tasks, Complete(t)
  PROVE  /\ \A o \in Operands(t) : val[Home(o[3])][2] = Expect(t, o[3])
         /\ \A x \in Tiles : Writes(t) /\ x = Affinity(t) =>
              val'[Home(x)][2] = val[Home(x)][2] + 1
         /\ \A x \in Tiles : ~(Writes(t) /\ x = Affinity(t)) =>
              val'[Home(x)][2] = val[Home(x)][2]
<1>1. stage[t] = "running" /\ Started(t) /\ val' = AfterBody(t)
  BY DEF Complete, Started
<1>2. ASSUME NEW o \in Operands(t) PROVE val[Home(o[3])][2] = Expect(t, o[3])
  <2>1. val[Home(o[3])] = <<o[3], Expect(t, o[3])>>
    BY <1>1, RunningVersion
  <2> QED BY <2>1
<1>3. \A x \in Tiles : Home(x) \in DOMAIN val
  BY DEF IInv, HomeCounts
<1>4. \A c \in DOMAIN val :
        val'[c] = IF Writes(t) /\ c = Home(Affinity(t)) THEN <<val[c][1], val[c][2] + 1>>
                  ELSE val[c]
  BY <1>1, AfterBodyIs
<1>5. ASSUME NEW x \in Tiles, Writes(t), x = Affinity(t)
      PROVE  val'[Home(x)][2] = val[Home(x)][2] + 1
  <2>1. val'[Home(x)] = <<val[Home(x)][1], val[Home(x)][2] + 1>>
    BY <1>3, <1>4, <1>5
  <2> QED BY <2>1
<1>6. ASSUME NEW x \in Tiles, ~(Writes(t) /\ x = Affinity(t))
      PROVE  val'[Home(x)][2] = val[Home(x)][2]
  BY <1>3, <1>4, <1>6, HomeInjective
<1> QED BY <1>2, <1>5, <1>6

LEMMA OtherStepsStutter ==
  ASSUME IInv, [Next]_vars, ~ \E t \in Tasks : Complete(t)
  PROVE  \A x \in Tiles : val'[Home(x)] = val[Home(x)]
<1>1. CASE \E t \in Tasks : Start(t)
  BY <1>1 DEF Start
<1>2. ASSUME NEW d \in inflight, Deliver(d[1], d[2], d[3]), NEW x \in Tiles
      PROVE  val'[Home(x)] = val[Home(x)]
  <2> DEFINE copy == IF d[2] \in DataFlows(d[1]) THEN Net(d[1], d[2], d[3]) ELSE NoCopy
  <2>1. val' = IF copy = NoCopy THEN val
               ELSE [c \in DOMAIN val \cup {copy} |->
                       IF c = copy THEN val[CHOOSE b \in Bound(d[1], d[2]) : TRUE]
                       ELSE val[c]]
    BY <1>2 DEF Deliver
  <2>2. copy # Home(x)
    BY DEF Net, NoCopy, Home
  <2>3. Home(x) \in DOMAIN val
    BY DEF IInv, HomeCounts
  <2> HIDE DEF copy
  <2> QED BY <2>1, <2>2, <2>3
<1>3. CASE UNCHANGED vars
  BY <1>3 DEF vars
<1> QED BY <1>1, <1>2, <1>3 DEF Next
=============================================================================
