---------------------------- MODULE zpotrf_L_proofs ----------------------------
(***************************************************************************)
(* The graph of zpotrf_L.jdf is well formed for every number of tiles and  *)
(* every distribution, hence its execution is causal, race free and always *)
(* works on current operands.                                              *)
(***************************************************************************)
EXTENDS zpotrf_L, TLAPS

G == INSTANCE OwnerComputes_proofs WITH Before <- Precedes

-----------------------------------------------------------------------------
(* The four classes, with their definitions resolved.                      *)

ZpotrfTask(t, k) ==
  /\ t = potrf_zpotrf(k) /\ t \in Tasks /\ Is_zpotrf(k) /\ k \in Nat
  /\ <<k, k>> \in Tiles /\ Affinity(t) = <<k, k>> /\ Panel(t) = k
  /\ Operands(t) = {<<"T", "RW", <<k, k>>>>}
  /\ Load(t) = If(k = 0, {<<"T", <<k, k>>>>}) /\ Store(t) = {<<"T", <<k, k>>>>}
  /\ In(t) = zpotrf_In(k) /\ Out(t) = zpotrf_Out(k)

ZtrsmTask(t, m, k) ==
  /\ t = potrf_ztrsm(m, k) /\ t \in Tasks /\ Is_ztrsm(m, k)
  /\ m \in Nat /\ k \in Nat /\ k < m /\ <<m, k>> \in Tiles /\ <<k, k>> \in Tiles
  /\ Affinity(t) = <<m, k>> /\ Panel(t) = k
  /\ Operands(t) = {<<"T", "READ", <<k, k>>>>, <<"C", "RW", <<m, k>>>>}
  /\ Load(t) = If(k = 0, {<<"C", <<m, k>>>>}) /\ Store(t) = {<<"C", <<m, k>>>>}
  /\ In(t) = ztrsm_In(m, k) /\ Out(t) = ztrsm_Out(m, k)

ZherkTask(t, k, m) ==
  /\ t = potrf_zherk(k, m) /\ t \in Tasks /\ Is_zherk(k, m)
  /\ m \in Nat /\ k \in Nat /\ k < m /\ <<m, m>> \in Tiles /\ <<m, k>> \in Tiles
  /\ Affinity(t) = <<m, m>> /\ Panel(t) = k
  /\ Operands(t) = {<<"A", "READ", <<m, k>>>>, <<"T", "RW", <<m, m>>>>}
  /\ Load(t) = If(k = 0, {<<"T", <<m, m>>>>}) /\ Store(t) = {}
  /\ In(t) = zherk_In(k, m) /\ Out(t) = zherk_Out(k, m)

ZgemmTask(t, m, n, k) ==
  /\ t = potrf_zgemm(m, n, k) /\ t \in Tasks /\ Is_zgemm(m, n, k)
  /\ m \in Nat /\ n \in Nat /\ k \in Nat /\ k < n /\ n < m
  /\ <<m, n>> \in Tiles /\ <<m, k>> \in Tiles /\ <<n, k>> \in Tiles
  /\ Affinity(t) = <<m, n>> /\ Panel(t) = k
  /\ Operands(t) = {<<"A", "READ", <<m, k>>>>, <<"B", "READ", <<n, k>>>>,
                    <<"C", "RW", <<m, n>>>>}
  /\ Load(t) = If(k = 0, {<<"C", <<m, n>>>>}) /\ Store(t) = {}
  /\ In(t) = zgemm_In(m, n, k) /\ Out(t) = zgemm_Out(m, n, k)

LEMMA ZpotrfIs == ASSUME NEW k, Is_zpotrf(k) PROVE ZpotrfTask(potrf_zpotrf(k), k)
<1>1. k \in Nat /\ <<k, k>> \in Tiles /\ potrf_zpotrf(k) \in Tasks
  BY mtAssumption DEF Is_zpotrf, Tiles, Tasks, AllZpotrf
<1> QED BY <1>1
  DEF ZpotrfTask, potrf_zpotrf, Affinity, zpotrf_Affinity, Panel, In, Out, Load,
      zpotrf_Load, Store, zpotrf_Store, Operands, zpotrf_Body

LEMMA ZtrsmIs ==
  ASSUME NEW m, NEW k, Is_ztrsm(m, k) PROVE ZtrsmTask(potrf_ztrsm(m, k), m, k)
<1>1. /\ m \in Nat /\ k \in Nat /\ k < m /\ <<m, k>> \in Tiles /\ <<k, k>> \in Tiles
      /\ potrf_ztrsm(m, k) \in Tasks
  BY mtAssumption DEF Is_ztrsm, Tiles, Tasks, AllZtrsm
<1> QED BY <1>1
  DEF ZtrsmTask, potrf_ztrsm, Affinity, ztrsm_Affinity, Panel, In, Out, Load,
      ztrsm_Load, Store, ztrsm_Store, Operands, ztrsm_Body

LEMMA ZherkIs ==
  ASSUME NEW k, NEW m, Is_zherk(k, m) PROVE ZherkTask(potrf_zherk(k, m), k, m)
<1>1. /\ m \in Nat /\ k \in Nat /\ k < m /\ <<m, m>> \in Tiles /\ <<m, k>> \in Tiles
      /\ potrf_zherk(k, m) \in Tasks
  BY mtAssumption DEF Is_zherk, Tiles, Tasks, AllZherk
<1> QED BY <1>1
  DEF ZherkTask, potrf_zherk, Affinity, zherk_Affinity, Panel, In, Out, Load,
      zherk_Load, Store, Operands, zherk_Body

LEMMA ZgemmIs ==
  ASSUME NEW m, NEW n, NEW k, Is_zgemm(m, n, k)
  PROVE  ZgemmTask(potrf_zgemm(m, n, k), m, n, k)
<1>1. /\ m \in Nat /\ n \in Nat /\ k \in Nat /\ k < n /\ n < m
      /\ <<m, n>> \in Tiles /\ <<m, k>> \in Tiles /\ <<n, k>> \in Tiles
      /\ potrf_zgemm(m, n, k) \in Tasks
  BY mtAssumption DEF Is_zgemm, Tiles, Tasks, AllZgemm
<1> QED BY <1>1
  DEF ZgemmTask, potrf_zgemm, Affinity, zgemm_Affinity, Panel, In, Out, Load,
      zgemm_Load, Store, Operands, zgemm_Body

LEMMA TaskCases ==
  ASSUME NEW t \in Tasks
  PROVE  \/ \E k : ZpotrfTask(t, k)
         \/ \E m, k : ZtrsmTask(t, m, k)
         \/ \E k, m : ZherkTask(t, k, m)
         \/ \E m, n, k : ZgemmTask(t, m, n, k)
<1>1. \/ \E k : Is_zpotrf(k) /\ t = potrf_zpotrf(k)
      \/ \E m, k : Is_ztrsm(m, k) /\ t = potrf_ztrsm(m, k)
      \/ \E k, m : Is_zherk(k, m) /\ t = potrf_zherk(k, m)
      \/ \E m, n, k : Is_zgemm(m, n, k) /\ t = potrf_zgemm(m, n, k)
  BY DEF Tasks, AllZpotrf, AllZtrsm, AllZherk, AllZgemm,
         Is_zpotrf, Is_ztrsm, Is_zherk, Is_zgemm
<1> QED BY <1>1, ZpotrfIs, ZtrsmIs, ZherkIs, ZgemmIs

-----------------------------------------------------------------------------
\* The operands of a task: it updates its own tile and reads other tiles.
OperandsOK(t) ==
  /\ Affinity(t) \in Tiles /\ Panel(t) \in Nat /\ Panel(t) <= Affinity(t)[2]
  /\ \A o \in Operands(t) :
       /\ o = <<o[1], o[2], o[3]>> /\ o[2] \in {"READ", "RW"}
       /\ o[3] \in Tiles
       /\ o[2] = "RW" <=> o[3] = Affinity(t)
  /\ \E o \in Operands(t) : o[2] = "RW"
  /\ \A o, p \in Operands(t) : o[1] = p[1] => o = p
  /\ \A s \in Store(t) : s[2] = Affinity(t) /\ <<s[1], "RW", s[2]>> \in Operands(t)

LEMMA OperandsAre == \A t \in Tasks : OperandsOK(t)
<1> SUFFICES ASSUME NEW t \in Tasks PROVE OperandsOK(t)
  OBVIOUS
<1>1. ASSUME NEW k, ZpotrfTask(t, k) PROVE OperandsOK(t)
  BY <1>1 DEF ZpotrfTask, OperandsOK
<1>2. ASSUME NEW m, NEW k, ZtrsmTask(t, m, k) PROVE OperandsOK(t)
  BY <1>2 DEF ZtrsmTask, OperandsOK
<1>3. ASSUME NEW k, NEW m, ZherkTask(t, k, m) PROVE OperandsOK(t)
  BY <1>3 DEF ZherkTask, OperandsOK
<1>4. ASSUME NEW m, NEW n, NEW k, ZgemmTask(t, m, n, k) PROVE OperandsOK(t)
  BY <1>4 DEF ZgemmTask, OperandsOK
<1> QED BY <1>1, <1>2, <1>3, <1>4, TaskCases

LEMMA ExpectIs ==
  \A t \in Tasks : \A x : Expect(t, x) = IF x = Affinity(t) THEN Panel(t) ELSE x[2] + 1
BY OperandsAre DEF Expect, OperandsOK

-----------------------------------------------------------------------------
(* Tile (m, n) is updated by panel k in exactly one task.                  *)

Writer(m, n, k) ==
  IF m = n THEN IF k = n THEN potrf_zpotrf(n) ELSE potrf_zherk(k, m)
           ELSE IF k = n THEN potrf_ztrsm(m, n) ELSE potrf_zgemm(m, n, k)

LEMMA WriterUnique == \A t \in Tasks : t = Writer(Affinity(t)[1], Affinity(t)[2], Panel(t))
<1> SUFFICES ASSUME NEW t \in Tasks
             PROVE  t = Writer(Affinity(t)[1], Affinity(t)[2], Panel(t))
  OBVIOUS
<1> USE DEF Writer
<1>1. ASSUME NEW k, ZpotrfTask(t, k)
      PROVE  t = Writer(Affinity(t)[1], Affinity(t)[2], Panel(t))
  BY <1>1 DEF ZpotrfTask
<1>2. ASSUME NEW m, NEW k, ZtrsmTask(t, m, k)
      PROVE  t = Writer(Affinity(t)[1], Affinity(t)[2], Panel(t))
  BY <1>2 DEF ZtrsmTask
<1>3. ASSUME NEW k, NEW m, ZherkTask(t, k, m)
      PROVE  t = Writer(Affinity(t)[1], Affinity(t)[2], Panel(t))
  BY <1>3 DEF ZherkTask
<1>4. ASSUME NEW m, NEW n, NEW k, ZgemmTask(t, m, n, k)
      PROVE  t = Writer(Affinity(t)[1], Affinity(t)[2], Panel(t))
  BY <1>4 DEF ZgemmTask
<1> QED BY <1>1, <1>2, <1>3, <1>4, TaskCases

LEMMA WriterExists ==
  ASSUME NEW x \in Tiles, NEW k \in Nat, k <= x[2]
  PROVE  \E w \in Tasks : Affinity(w) = x /\ Panel(w) = k
<1>1. PICK m \in 0 .. mt-1, n \in 0 .. mt-1 : x = <<m, n>> /\ n <= m
  BY DEF Tiles
<1>2. k <= n
  BY <1>1
<1>3. CASE m = n /\ k = n
  <2>1. ZpotrfTask(potrf_zpotrf(k), k)
    BY <1>1, <1>3, ZpotrfIs DEF Is_zpotrf
  <2> QED BY <1>1, <1>3, <2>1 DEF ZpotrfTask
<1>4. CASE m = n /\ k # n
  <2>1. ZherkTask(potrf_zherk(k, m), k, m)
    BY <1>1, <1>2, <1>4, mtAssumption, ZherkIs DEF Is_zherk
  <2> QED BY <1>1, <1>4, <2>1 DEF ZherkTask
<1>5. CASE m # n /\ k = n
  <2>1. ZtrsmTask(potrf_ztrsm(m, n), m, n)
    BY <1>1, <1>2, <1>5, mtAssumption, ZtrsmIs DEF Is_ztrsm
  <2> QED BY <1>1, <1>5, <2>1 DEF ZtrsmTask
<1>6. CASE m # n /\ k # n
  <2>1. ZgemmTask(potrf_zgemm(m, n, k), m, n, k)
    BY <1>1, <1>2, <1>6, mtAssumption, ZgemmIs DEF Is_zgemm
  <2> QED BY <1>1, <2>1 DEF ZgemmTask
<1> QED BY <1>3, <1>4, <1>5, <1>6

LEMMA VersionsOK == VersionsCounted
<1>1. ASSUME NEW t \in Tasks, NEW u \in Tasks, Affinity(t) = Affinity(u), Panel(t) = Panel(u)
      PROVE  t = u
  BY <1>1, WriterUnique
<1>2. ASSUME NEW t \in Tasks, NEW o \in Operands(t), Expect(t, o[3]) # 0
      PROVE  \E w \in Tasks : /\ Writes(w) /\ Affinity(w) = o[3]
                              /\ Expect(w, o[3]) + 1 = Expect(t, o[3])
  <2>1. /\ o[3] \in Tiles /\ o[3][2] \in Nat
        /\ Panel(t) \in Nat /\ Panel(t) <= Affinity(t)[2]
    BY OperandsAre DEF OperandsOK, Tiles
  <2>2. /\ Expect(t, o[3]) - 1 \in Nat /\ Expect(t, o[3]) - 1 <= o[3][2]
        /\ Expect(t, o[3]) \in Nat
    BY <1>2, <2>1, ExpectIs
  <2>3. PICK w \in Tasks : Affinity(w) = o[3] /\ Panel(w) = Expect(t, o[3]) - 1
    BY <2>1, <2>2, WriterExists
  <2>4. Writes(w) /\ Expect(w, o[3]) = Panel(w)
    BY <2>3, OperandsAre, ExpectIs DEF OperandsOK, Writes
  <2> QED BY <2>2, <2>3, <2>4
<1> QED BY <1>1, <1>2, ExpectIs DEF VersionsCounted

LEMMA OrderOK == OrderSufficient
<1> SUFFICES ASSUME NEW t \in Tasks, NEW o \in Operands(t), NEW w \in Tasks, w # t,
                    Affinity(w) = o[3]
             PROVE  IF Expect(w, o[3]) < Expect(t, o[3])
                    THEN Precedes(w, t) ELSE Precedes(t, w)
  BY DEF OrderSufficient
<1>1. Expect(w, o[3]) = Panel(w) /\ Panel(w) \in Nat /\ Panel(w) <= o[3][2] /\ o[3][2] \in Nat
  BY OperandsAre, ExpectIs DEF OperandsOK, Tiles
<1>2. CASE o[3] = Affinity(t)
  <2>1. Expect(t, o[3]) = Panel(t) /\ Panel(t) \in Nat
    BY <1>2, OperandsAre, ExpectIs DEF OperandsOK
  <2>2. Panel(t) # Panel(w)
    BY <1>2, WriterUnique
  <2> QED BY <1>1, <1>2, <2>1, <2>2 DEF Precedes
<1>3. CASE o[3] # Affinity(t)
  BY <1>1, <1>3, ExpectIs DEF Precedes
<1> QED BY <1>2, <1>3

-----------------------------------------------------------------------------
(* The arrows.  Every output is the updated tile; it goes to the next      *)
(* update of the tile or, when the tile is final, to its readers.          *)

OutOK(t, o) ==
  /\ o = <<o[1], o[2], o[3]>> /\ o[2] \in Tasks
  /\ <<o[3], t, o[1]>> \in In(o[2])
  /\ <<o[1], "RW", Affinity(t)>> \in Operands(t)
  /\ \/ /\ Affinity(o[2]) = Affinity(t) /\ Panel(o[2]) = Panel(t) + 1
        /\ <<o[3], "RW", Affinity(t)>> \in Operands(o[2])
     \/ /\ Affinity(o[2]) # Affinity(t) /\ Panel(t) = Affinity(t)[2]
        /\ <<o[3], "READ", Affinity(t)>> \in Operands(o[2])

LEMMA ZpotrfOut == ASSUME NEW t, NEW k, ZpotrfTask(t, k), NEW o \in Out(t) PROVE OutOK(t, o)
<1>1. PICK m \in k+1 .. mt-1 : o = <<"T", potrf_ztrsm(m, k), "T">>
  BY DEF ZpotrfTask, zpotrf_Out
<1>2. ZtrsmTask(potrf_ztrsm(m, k), m, k)
  BY ZtrsmIs, mtAssumption DEF ZpotrfTask, Is_zpotrf, Is_ztrsm
<1>3. <<"T", potrf_zpotrf(k), "T">> \in In(potrf_ztrsm(m, k))
  BY <1>2 DEF ZtrsmTask, ztrsm_In
<1> QED BY <1>1, <1>2, <1>3 DEF OutOK, ZpotrfTask, ZtrsmTask

LEMMA ZtrsmOut ==
  ASSUME NEW t, NEW m, NEW k, ZtrsmTask(t, m, k), NEW o \in Out(t) PROVE OutOK(t, o)
<1>1. \/ o = <<"C", potrf_zherk(k, m), "A">>
      \/ \E n \in k+1 .. m-1 : o = <<"C", potrf_zgemm(m, n, k), "A">>
      \/ \E i \in m+1 .. mt-1 : o = <<"C", potrf_zgemm(i, m, k), "B">>
  BY DEF ZtrsmTask, ztrsm_Out
<1>2. CASE o = <<"C", potrf_zherk(k, m), "A">>
  <2>1. ZherkTask(potrf_zherk(k, m), k, m)
    BY ZherkIs, mtAssumption DEF ZtrsmTask, Is_ztrsm, Is_zherk
  <2>2. <<"A", potrf_ztrsm(m, k), "C">> \in In(potrf_zherk(k, m))
    BY <2>1 DEF ZherkTask, zherk_In
  <2> QED BY <1>2, <2>1, <2>2 DEF OutOK, ZtrsmTask, ZherkTask
<1>3. CASE \E n \in k+1 .. m-1 : o = <<"C", potrf_zgemm(m, n, k), "A">>
  <2>1. PICK n \in k+1 .. m-1 : o = <<"C", potrf_zgemm(m, n, k), "A">>
    BY <1>3
  <2>2. ZgemmTask(potrf_zgemm(m, n, k), m, n, k)
    BY ZgemmIs, mtAssumption DEF ZtrsmTask, Is_ztrsm, Is_zgemm
  <2>3. <<"A", potrf_ztrsm(m, k), "C">> \in In(potrf_zgemm(m, n, k))
    BY <2>2 DEF ZgemmTask, zgemm_In
  <2> QED BY <2>1, <2>2, <2>3 DEF OutOK, ZtrsmTask, ZgemmTask
<1>4. CASE \E i \in m+1 .. mt-1 : o = <<"C", potrf_zgemm(i, m, k), "B">>
  <2>1. PICK i \in m+1 .. mt-1 : o = <<"C", potrf_zgemm(i, m, k), "B">>
    BY <1>4
  <2>2. ZgemmTask(potrf_zgemm(i, m, k), i, m, k)
    BY ZgemmIs, mtAssumption DEF ZtrsmTask, Is_ztrsm, Is_zgemm
  <2>3. <<"B", potrf_ztrsm(m, k), "C">> \in In(potrf_zgemm(i, m, k))
    BY <2>2 DEF ZgemmTask, zgemm_In
  <2> QED BY <2>1, <2>2, <2>3 DEF OutOK, ZtrsmTask, ZgemmTask
<1> QED BY <1>1, <1>2, <1>3, <1>4

LEMMA ZherkOut ==
  ASSUME NEW t, NEW k, NEW m, ZherkTask(t, k, m), NEW o \in Out(t) PROVE OutOK(t, o)
<1>1. \/ m = k+1 /\ o = <<"T", potrf_zpotrf(m), "T">>
      \/ m # k+1 /\ o = <<"T", potrf_zherk(k+1, m), "T">>
  BY DEF ZherkTask, zherk_Out, If
<1>2. CASE m = k+1 /\ o = <<"T", potrf_zpotrf(m), "T">>
  <2>1. ZpotrfTask(potrf_zpotrf(m), m)
    BY <1>2, ZpotrfIs, mtAssumption DEF ZherkTask, Is_zherk, Is_zpotrf
  <2>2. m # 0 /\ m - 1 = k
    BY <1>2 DEF ZherkTask
  <2>3. <<"T", potrf_zherk(k, m), "T">> \in In(potrf_zpotrf(m))
    BY <2>1, <2>2 DEF ZpotrfTask, zpotrf_In, If
  <2> QED BY <1>2, <2>1, <2>3 DEF OutOK, ZherkTask, ZpotrfTask
<1>3. CASE m # k+1 /\ o = <<"T", potrf_zherk(k+1, m), "T">>
  <2>0. Is_zherk(k+1, m)
    BY <1>3, mtAssumption DEF ZherkTask, Is_zherk
  <2>1. ZherkTask(potrf_zherk(k+1, m), k+1, m)
    BY <2>0, ZherkIs
  <2>2. k + 1 # 0 /\ (k+1) - 1 = k
    BY DEF ZherkTask
  <2>3. <<"T", potrf_zherk(k, m), "T">> \in In(potrf_zherk(k+1, m))
    BY <2>1, <2>2 DEF ZherkTask, zherk_In, If
  <2> QED BY <1>3, <2>1, <2>3 DEF OutOK, ZherkTask
<1> QED BY <1>1, <1>2, <1>3

LEMMA ZgemmOut ==
  ASSUME NEW t, NEW m, NEW n, NEW k, ZgemmTask(t, m, n, k), NEW o \in Out(t)
  PROVE  OutOK(t, o)
<1>1. \/ n = k+1 /\ o = <<"C", potrf_ztrsm(m, n), "C">>
      \/ n # k+1 /\ o = <<"C", potrf_zgemm(m, n, k+1), "C">>
  BY DEF ZgemmTask, zgemm_Out, If
<1>2. CASE n = k+1 /\ o = <<"C", potrf_ztrsm(m, n), "C">>
  <2>1. ZtrsmTask(potrf_ztrsm(m, n), m, n)
    BY <1>2, ZtrsmIs, mtAssumption DEF ZgemmTask, Is_zgemm, Is_ztrsm
  <2>2. n # 0 /\ n - 1 = k
    BY <1>2 DEF ZgemmTask
  <2>3. <<"C", potrf_zgemm(m, n, k), "C">> \in In(potrf_ztrsm(m, n))
    BY <2>1, <2>2 DEF ZtrsmTask, ztrsm_In, If
  <2> QED BY <1>2, <2>1, <2>3 DEF OutOK, ZgemmTask, ZtrsmTask
<1>3. CASE n # k+1 /\ o = <<"C", potrf_zgemm(m, n, k+1), "C">>
  <2>0. Is_zgemm(m, n, k+1)
    BY <1>3, mtAssumption DEF ZgemmTask, Is_zgemm
  <2>1. ZgemmTask(potrf_zgemm(m, n, k+1), m, n, k+1)
    BY <2>0, ZgemmIs
  <2>2. k + 1 # 0 /\ (k+1) - 1 = k
    BY DEF ZgemmTask
  <2>3. <<"C", potrf_zgemm(m, n, k), "C">> \in In(potrf_zgemm(m, n, k+1))
    BY <2>1, <2>2 DEF ZgemmTask, zgemm_In, If
  <2> QED BY <1>3, <2>1, <2>3 DEF OutOK, ZgemmTask
<1> QED BY <1>1, <1>2, <1>3

LEMMA OutAre == \A t \in Tasks : \A o \in Out(t) : OutOK(t, o)
BY TaskCases, ZpotrfOut, ZtrsmOut, ZherkOut, ZgemmOut

-----------------------------------------------------------------------------
(* Every input names a task that provides it, and every flow has a source. *)

InOK(t, d) ==
  d = <<d[1], d[2], d[3]>> /\ d[2] \in Tasks /\ <<d[3], t, d[1]>> \in Out(d[2])

\* The flow of operand o is read from memory or handed over by the task that
\* made the version before.
FedOK(t, o) ==
  \/ <<o[1], o[3]>> \in Load(t) /\ o[3] = Affinity(t) /\ Panel(t) = 0
  \/ \E d \in In(t) :
       /\ d[1] = o[1] /\ Affinity(d[2]) = o[3]
       /\ IF o[3] = Affinity(t) THEN Panel(d[2]) + 1 = Panel(t)
                                ELSE Panel(d[2]) = o[3][2]

LoadOK(t) == \A l \in Load(t) : <<l[1], "RW", l[2]>> \in Operands(t)

InputsOK(t) ==
  /\ \A d \in In(t) : InOK(t, d)
  /\ \A o \in Operands(t) : FedOK(t, o)
  /\ LoadOK(t)

LEMMA ZpotrfIn == ASSUME NEW t, NEW k, ZpotrfTask(t, k) PROVE InputsOK(t)
<1>1. LoadOK(t)
  BY DEF ZpotrfTask, LoadOK, If
<1>2. CASE k = 0
  BY <1>1, <1>2 DEF ZpotrfTask, zpotrf_In, If, InputsOK, InOK, FedOK
<1>3. CASE k # 0
  <2>1. ZherkTask(potrf_zherk(k-1, k), k-1, k)
    BY <1>3, ZherkIs, mtAssumption DEF ZpotrfTask, Is_zpotrf, Is_zherk
  <2>2. (k-1) + 1 = k /\ In(t) = {<<"T", potrf_zherk(k-1, k), "T">>}
    BY <1>3 DEF ZpotrfTask, zpotrf_In, If
  <2>3. <<"T", t, "T">> \in Out(potrf_zherk(k-1, k))
    BY <2>1, <2>2 DEF ZpotrfTask, ZherkTask, zherk_Out, If
  <2>4. \A d \in In(t) : InOK(t, d)
    BY <2>1, <2>2, <2>3 DEF InOK, ZherkTask
  <2>5. \A o \in Operands(t) : FedOK(t, o)
    BY <2>1, <2>2 DEF FedOK, ZpotrfTask, ZherkTask
  <2> QED BY <1>1, <2>4, <2>5 DEF InputsOK
<1> QED BY <1>2, <1>3

LEMMA ZtrsmIn == ASSUME NEW t, NEW m, NEW k, ZtrsmTask(t, m, k) PROVE InputsOK(t)
<1> DEFINE T == <<"T", potrf_zpotrf(k), "T">>
           C == <<"C", potrf_zgemm(m, k, k-1), "C">>
<1>1. LoadOK(t)
  BY DEF ZtrsmTask, LoadOK, If
<1>2. ZpotrfTask(potrf_zpotrf(k), k)
  BY ZpotrfIs, mtAssumption DEF ZtrsmTask, Is_ztrsm, Is_zpotrf
<1>3. T \in In(t) /\ InOK(t, T) /\ FedOK(t, <<"T", "READ", <<k, k>>>>)
  <2>1. T \in In(t)
    BY DEF ZtrsmTask, ztrsm_In
  <2>2. <<"T", t, "T">> \in Out(potrf_zpotrf(k))
    BY <1>2, mtAssumption DEF ZtrsmTask, Is_ztrsm, ZpotrfTask, zpotrf_Out
  <2> QED BY <1>2, <2>1, <2>2 DEF InOK, FedOK, ZtrsmTask, ZpotrfTask
<1>4. CASE k = 0
  <2>1. In(t) = {T}
    BY <1>4 DEF ZtrsmTask, ztrsm_In, If
  <2>2. FedOK(t, <<"C", "RW", <<m, k>>>>)
    BY <1>4 DEF ZtrsmTask, If, FedOK
  <2> QED BY <1>1, <1>3, <2>1, <2>2 DEF InputsOK, ZtrsmTask
<1>5. CASE k # 0
  <2>1. ZgemmTask(potrf_zgemm(m, k, k-1), m, k, k-1)
    BY <1>5, ZgemmIs, mtAssumption DEF ZtrsmTask, Is_ztrsm, Is_zgemm
  <2>2. (k-1) + 1 = k /\ In(t) = {T, C}
    BY <1>5 DEF ZtrsmTask, ztrsm_In, If
  <2>3. <<"C", t, "C">> \in Out(potrf_zgemm(m, k, k-1))
    BY <2>1, <2>2 DEF ZtrsmTask, ZgemmTask, zgemm_Out, If
  <2>4. InOK(t, C)
    BY <2>1, <2>3 DEF InOK, ZgemmTask
  <2>5. FedOK(t, <<"C", "RW", <<m, k>>>>)
    BY <2>1, <2>2 DEF FedOK, ZtrsmTask, ZgemmTask
  <2> QED BY <1>1, <1>3, <2>2, <2>4, <2>5 DEF InputsOK, ZtrsmTask
<1> QED BY <1>4, <1>5

LEMMA ZherkIn == ASSUME NEW t, NEW k, NEW m, ZherkTask(t, k, m) PROVE InputsOK(t)
<1> DEFINE A == <<"A", potrf_ztrsm(m, k), "C">>
           T == <<"T", potrf_zherk(k-1, m), "T">>
<1>1. LoadOK(t)
  BY DEF ZherkTask, LoadOK, If
<1>2. ZtrsmTask(potrf_ztrsm(m, k), m, k)
  BY ZtrsmIs, mtAssumption DEF ZherkTask, Is_ztrsm, Is_zherk
<1>3. A \in In(t) /\ InOK(t, A) /\ FedOK(t, <<"A", "READ", <<m, k>>>>)
  <2>1. A \in In(t)
    BY DEF ZherkTask, zherk_In
  <2>2. <<"C", t, "A">> \in Out(potrf_ztrsm(m, k))
    BY <1>2 DEF ZherkTask, ZtrsmTask, ztrsm_Out
  <2> QED BY <1>2, <2>1, <2>2 DEF InOK, FedOK, ZtrsmTask, ZherkTask
<1>4. CASE k = 0
  <2>1. In(t) = {A}
    BY <1>4 DEF ZherkTask, zherk_In, If
  <2>2. FedOK(t, <<"T", "RW", <<m, m>>>>)
    BY <1>4 DEF ZherkTask, If, FedOK
  <2> QED BY <1>1, <1>3, <2>1, <2>2 DEF InputsOK, ZherkTask
<1>5. CASE k # 0
  <2>0. Is_zherk(k-1, m)
    BY <1>5, mtAssumption DEF ZherkTask, Is_zherk
  <2>1. ZherkTask(potrf_zherk(k-1, m), k-1, m)
    BY <2>0, ZherkIs
  <2>2. (k-1) + 1 = k /\ m # k /\ In(t) = {A, T}
    BY <1>5 DEF ZherkTask, zherk_In, If
  <2>3. <<"T", t, "T">> \in Out(potrf_zherk(k-1, m))
    BY <2>1, <2>2 DEF ZherkTask, zherk_Out, If
  <2>4. InOK(t, T)
    BY <2>1, <2>3 DEF InOK, ZherkTask
  <2>5. FedOK(t, <<"T", "RW", <<m, m>>>>)
    BY <2>1, <2>2 DEF FedOK, ZherkTask
  <2> QED BY <1>1, <1>3, <2>2, <2>4, <2>5 DEF InputsOK, ZherkTask
<1> QED BY <1>4, <1>5

LEMMA ZgemmIn == ASSUME NEW t, NEW m, NEW n, NEW k, ZgemmTask(t, m, n, k) PROVE InputsOK(t)
<1> DEFINE A == <<"A", potrf_ztrsm(m, k), "C">>
           B == <<"B", potrf_ztrsm(n, k), "C">>
           C == <<"C", potrf_zgemm(m, n, k-1), "C">>
<1>1. LoadOK(t)
  BY DEF ZgemmTask, LoadOK, If
<1>2. ZtrsmTask(potrf_ztrsm(m, k), m, k) /\ ZtrsmTask(potrf_ztrsm(n, k), n, k)
  BY ZtrsmIs, mtAssumption DEF ZgemmTask, Is_ztrsm, Is_zgemm
<1>3. A \in In(t) /\ InOK(t, A) /\ FedOK(t, <<"A", "READ", <<m, k>>>>)
  <2>1. A \in In(t)
    BY DEF ZgemmTask, zgemm_In
  <2>2. <<"C", t, "A">> \in Out(potrf_ztrsm(m, k))
    BY <1>2, mtAssumption DEF ZgemmTask, Is_zgemm, ZtrsmTask, ztrsm_Out
  <2> QED BY <1>2, <2>1, <2>2 DEF InOK, FedOK, ZtrsmTask, ZgemmTask
<1>4. B \in In(t) /\ InOK(t, B) /\ FedOK(t, <<"B", "READ", <<n, k>>>>)
  <2>1. B \in In(t)
    BY DEF ZgemmTask, zgemm_In
  <2>2. <<"C", t, "B">> \in Out(potrf_ztrsm(n, k))
    BY <1>2, mtAssumption DEF ZgemmTask, Is_zgemm, ZtrsmTask, ztrsm_Out
  <2> QED BY <1>2, <2>1, <2>2 DEF InOK, FedOK, ZtrsmTask, ZgemmTask
<1>5. CASE k = 0
  <2>1. In(t) = {A, B}
    BY <1>5 DEF ZgemmTask, zgemm_In, If
  <2>2. FedOK(t, <<"C", "RW", <<m, n>>>>)
    BY <1>5 DEF ZgemmTask, If, FedOK
  <2> QED BY <1>1, <1>3, <1>4, <2>1, <2>2 DEF InputsOK, ZgemmTask
<1>6. CASE k # 0
  <2>0. Is_zgemm(m, n, k-1)
    BY <1>6, mtAssumption DEF ZgemmTask, Is_zgemm
  <2>1. ZgemmTask(potrf_zgemm(m, n, k-1), m, n, k-1)
    BY <2>0, ZgemmIs
  <2>2. (k-1) + 1 = k /\ n # k /\ In(t) = {A, B, C}
    BY <1>6 DEF ZgemmTask, zgemm_In, If
  <2>3. <<"C", t, "C">> \in Out(potrf_zgemm(m, n, k-1))
    BY <2>1, <2>2 DEF ZgemmTask, zgemm_Out, If
  <2>4. InOK(t, C)
    BY <2>1, <2>3 DEF InOK, ZgemmTask
  <2>5. FedOK(t, <<"C", "RW", <<m, n>>>>)
    BY <2>1, <2>2 DEF FedOK, ZgemmTask
  <2> QED BY <1>1, <1>3, <1>4, <2>2, <2>4, <2>5 DEF InputsOK, ZgemmTask
<1> QED BY <1>5, <1>6

LEMMA InputsAre == \A t \in Tasks : InputsOK(t)
BY TaskCases, ZpotrfIn, ZtrsmIn, ZherkIn, ZgemmIn

-----------------------------------------------------------------------------
\* The graph of zpotrf_L.jdf meets every condition of OwnerComputes, for every
\* number of tiles and every distribution.
THEOREM GraphWellFormed == WellFormed
<1>1. GraphTyped
  <2>1. ASSUME NEW t \in Tasks, NEW o \in Operands(t) PROVE Expect(t, o[3]) \in Nat
    BY OperandsAre, ExpectIs DEF OperandsOK, Tiles
  <2> QED BY <2>1, OperandsAre, OutAre, InputsAre
             DEF GraphTyped, OperandsOK, OutOK, InputsOK, InOK
<1>2. OwnerUpdates
  BY OperandsAre DEF OwnerUpdates, OperandsOK
<1>3. ArrowsMatch
  BY OutAre, InputsAre DEF ArrowsMatch, OutOK, InputsOK, InOK
<1>4. DataMatch
  <2> SUFFICES ASSUME NEW t \in Tasks, NEW o \in Out(t)
               PROVE  /\ o[1] \in DataFlows(t) <=> o[3] \in DataFlows(o[2])
                      /\ \A p \in Operands(t), q \in Operands(o[2]) :
                           p[1] = o[1] /\ q[1] = o[3] =>
                             /\ q[3] = p[3]
                             /\ Expect(o[2], q[3]) = After(t, p)
                             /\ q[3] = Affinity(o[2]) => p[3] = Affinity(t)
    BY DEF DataMatch
  <2>1. OutOK(t, o) /\ OperandsOK(t) /\ OperandsOK(o[2])
    BY OutAre, OperandsAre DEF OutOK
  <2>2. PICK mode : <<o[3], mode, Affinity(t)>> \in Operands(o[2])
    BY <2>1 DEF OutOK
  <2>3. o[1] \in DataFlows(t) /\ o[3] \in DataFlows(o[2])
    BY <2>1, <2>2 DEF DataFlows, OutOK
  <2>4. ASSUME NEW p \in Operands(t), NEW q \in Operands(o[2]), p[1] = o[1], q[1] = o[3]
        PROVE  /\ p = <<o[1], "RW", Affinity(t)>>
               /\ q[3] = Affinity(t)
    <3>1. <<o[1], "RW", Affinity(t)>> \in Operands(t)
      BY <2>1 DEF OutOK
    <3>2. p = <<o[1], "RW", Affinity(t)>>
      BY <2>1, <2>4, <3>1 DEF OperandsOK
    <3>3. q = <<o[3], mode, Affinity(t)>>
      BY <2>1, <2>2, <2>4 DEF OperandsOK
    <3> QED BY <3>2, <3>3
  <2>5. Expect(o[2], Affinity(t)) = Panel(t) + 1 /\ Expect(t, Affinity(t)) = Panel(t)
    BY <2>1, ExpectIs DEF OutOK
  <2> QED BY <2>3, <2>4, <2>5 DEF After
<1>5. FlowsFed
  <2>1. ASSUME NEW t \in Tasks, NEW o \in Operands(t)
        PROVE  (\E l \in Load(t) : l[1] = o[1]) \/ (\E d \in In(t) : d[1] = o[1])
    <3>1. FedOK(t, o)
      BY InputsAre DEF InputsOK
    <3>2. CASE <<o[1], o[3]>> \in Load(t)
      BY <3>2
    <3>3. CASE \E d \in In(t) : d[1] = o[1]
      BY <3>3
    <3> QED BY <3>1, <3>2, <3>3 DEF FedOK
  <2>2. ASSUME NEW t \in Tasks, NEW o \in Operands(t), NEW l \in Load(t), l[1] = o[1]
        PROVE  l[2] = o[3]
    <3>1. <<l[1], "RW", l[2]>> \in Operands(t)
      BY InputsAre DEF InputsOK, LoadOK
    <3>2. <<l[1], "RW", l[2]>> = o
      BY <3>1, <2>2, OperandsAre DEF OperandsOK
    <3> QED BY <3>2
  <2> QED BY <2>1, <2>2 DEF FlowsFed
<1>6. StoresOwned
  <2> SUFFICES ASSUME NEW t \in Tasks, NEW s \in Store(t)
               PROVE  s[2] = Affinity(t) /\ \E o \in Operands(t) : o[1] = s[1] /\ o[3] = s[2]
    BY DEF StoresOwned
  <2>1. s[2] = Affinity(t) /\ <<s[1], "RW", s[2]>> \in Operands(t)
    BY OperandsAre DEF OperandsOK
  <2> QED BY <2>1
<1>7. OrderEnforced
  <2> SUFFICES ASSUME NEW t \in Tasks, NEW u \in Tasks, Precedes(t, u)
               PROVE  \E d \in In(u) : d[2] = t \/ Precedes(t, d[2])
    BY DEF OrderEnforced
  <2>1. /\ Panel(t) \in Nat /\ Panel(u) \in Nat /\ Panel(t) <= Affinity(t)[2]
        /\ Affinity(t)[2] \in Nat
    BY OperandsAre DEF OperandsOK, Tiles
  <2>2. CASE Affinity(t) = Affinity(u) /\ Panel(t) < Panel(u)
    <3>1. PICK o \in Operands(u) : o[3] = Affinity(u)
      BY OperandsAre DEF OperandsOK
    <3>2. Panel(u) # 0
      BY <2>1, <2>2
    <3>3. PICK d \in In(u) : Affinity(d[2]) = Affinity(u) /\ Panel(d[2]) + 1 = Panel(u)
      <4>1. FedOK(u, o)
        BY InputsAre DEF InputsOK
      <4> QED BY <3>1, <3>2, <4>1 DEF FedOK
    <3>4. d[2] \in Tasks /\ Panel(d[2]) \in Nat
      BY InputsAre, OperandsAre DEF InputsOK, InOK, OperandsOK
    <3>5. CASE Panel(t) = Panel(d[2])
      BY <2>2, <3>3, <3>4, <3>5, WriterUnique
    <3>6. CASE Panel(t) # Panel(d[2])
      BY <2>1, <2>2, <3>3, <3>4, <3>6 DEF Precedes
    <3> QED BY <3>5, <3>6
  <2>3. CASE \E o \in Operands(u) : o[3] # Affinity(u) /\ o[3] = Affinity(t)
    <3>1. PICK o \in Operands(u) : o[3] # Affinity(u) /\ o[3] = Affinity(t)
      BY <2>3
    <3>2. PICK d \in In(u) : Affinity(d[2]) = o[3] /\ Panel(d[2]) = o[3][2]
      <4>1. FedOK(u, o)
        BY InputsAre DEF InputsOK
      <4> QED BY <3>1, <4>1 DEF FedOK
    <3>3. d[2] \in Tasks /\ Panel(d[2]) \in Nat
      BY InputsAre, OperandsAre DEF InputsOK, InOK, OperandsOK
    <3>4. CASE Panel(t) = Panel(d[2])
      BY <3>1, <3>2, <3>3, <3>4, WriterUnique
    <3>5. CASE Panel(t) # Panel(d[2])
      BY <2>1, <3>1, <3>2, <3>3, <3>5 DEF Precedes
    <3> QED BY <3>4, <3>5
  <2> QED BY <2>2, <2>3 DEF Precedes
<1> QED BY <1>1, <1>2, <1>3, <1>4, <1>5, <1>6, <1>7, VersionsOK, OrderOK DEF WellFormed

-----------------------------------------------------------------------------
(* The theorems of OwnerComputes_proofs, for this graph.                   *)

LEMMA SameGraph == WellFormed <=> G!WellFormed
BY DEF WellFormed, GraphTyped, OwnerUpdates, ArrowsMatch, DataMatch, FlowsFed,
       StoresOwned, VersionsCounted, OrderEnforced, OrderSufficient, DataFlows,
       Writes, After,
       G!WellFormed, G!GraphTyped, G!OwnerUpdates, G!ArrowsMatch, G!DataMatch,
       G!FlowsFed, G!StoresOwned, G!VersionsCounted, G!OrderEnforced,
       G!OrderSufficient, G!DataFlows, G!Writes, G!After

LEMMA SameInit == Init <=> G!Init
BY DEF Init, Home, G!Init, G!Home

LEMMA SameNext == [Next]_vars <=> [G!Next]_(G!vars)
BY DEF Next, vars, Start, Complete, Deliver, Enabled, AfterBody,
       Bound, Home, Net, NoCopy, DataFlows, Local, Remote, RankOf, Modified, Updated,
       WrittenBack,
       G!Next, G!vars, G!Start, G!Complete, G!Deliver,
       G!Enabled, G!AfterBody, G!Bound, G!Home, G!Net, G!NoCopy, G!DataFlows, G!Local,
       G!Remote, G!RankOf, G!Modified, G!Updated, G!WrittenBack

LEMMA SameSpec == Spec <=> G!Spec
BY SameInit, SameNext, PTL DEF Spec, G!Spec

\* Type correctness of every execution of zpotrf_L.
THEOREM TypeCorrect == Spec => []TypeOK
<1>1. TypeOK <=> G!TypeOK
  BY DEF TypeOK, G!TypeOK
<1> QED BY <1>1, GraphWellFormed, SameGraph, SameSpec, G!TypeCorrect, PTL

\* Every dependency zpotrf_L releases is one its target waits for.
THEOREM NoStray == Spec => []NoStrayDependency
<1>1. NoStrayDependency <=> G!NoStrayDependency
  BY DEF NoStrayDependency, G!NoStrayDependency
<1> QED BY <1>1, GraphWellFormed, SameGraph, SameSpec, G!NoStray, PTL

\* Every kernel of zpotrf_L works on the tiles, in the versions, the sequential
\* algorithm gives it, for the whole time it runs.
THEOREM Currency == Spec => []OperandsCurrent
<1>1. OperandsCurrent <=> G!OperandsCurrent
  BY DEF OperandsCurrent, Bound, DataFlows, Home, NoCopy,
         G!OperandsCurrent, G!Bound, G!DataFlows, G!Home, G!NoCopy
<1> QED BY <1>1, GraphWellFormed, SameGraph, SameSpec, G!Currency, PTL

\* No kernel of zpotrf_L updates a data copy that another kernel, or a transfer
\* to another process, is using.
THEOREM RaceFreedom == Spec => []NoRace
<1>1. NoRace <=> G!NoRace
  BY DEF NoRace, Modified, Touched, Bound, DataFlows, Home, NoCopy,
         G!NoRace, G!Modified, G!Touched, G!Bound, G!DataFlows, G!Home, G!NoCopy
<1> QED BY <1>1, GraphWellFormed, SameGraph, SameSpec, G!RaceFreedom, PTL

-----------------------------------------------------------------------------
(* zpotrf_L implements TiledCholesky.                                      *)

LEMMA UpdateIsStep ==
  ASSUME G!IInv, NEW t \in Tasks, Complete(t) PROVE Cholesky!Next
<1> DEFINE version == [x \in Tiles |-> val[Home(x)][2]]
<1>1. G!WellFormed /\ G!Complete(t)
  BY GraphWellFormed, SameGraph
     DEF Complete, G!Complete, AfterBody, G!AfterBody, Bound, G!Bound, Home, G!Home,
         NoCopy, G!NoCopy, DataFlows, G!DataFlows, Local, G!Local, Remote, G!Remote,
         RankOf, G!RankOf, Modified, G!Modified, Updated, G!Updated,
         WrittenBack, G!WrittenBack
<1>2. G!Writes(t)
  BY OperandsAre DEF OperandsOK, G!Writes
<1>3. \A x : G!Home(x) = Home(x)
  BY DEF Home, G!Home
<1>4. \A o \in Operands(t) : val[Home(o[3])][2] = Expect(t, o[3])
  BY <1>1, <1>3, G!CompleteEffect
<1>5. \A x \in Tiles :
        val'[Home(x)][2] = IF x = Affinity(t) THEN val[Home(x)][2] + 1 ELSE val[Home(x)][2]
  BY <1>1, <1>2, <1>3, G!CompleteEffect
<1>6. Affinity(t) \in Tiles /\ val[Home(Affinity(t))][2] = Panel(t)
  BY <1>4, OperandsAre, ExpectIs DEF OperandsOK
<1>7. /\ version[Affinity(t)] = Panel(t)
      /\ version' = [version EXCEPT ![Affinity(t)] = Panel(t) + 1]
  BY <1>5, <1>6
<1>8. \A o \in Operands(t) : o[2] = "READ" => version[o[3]] = o[3][2] + 1
  <2> SUFFICES ASSUME NEW o \in Operands(t), o[2] = "READ"
               PROVE  version[o[3]] = o[3][2] + 1
    OBVIOUS
  <2>1. o[3] \in Tiles /\ o[3] # Affinity(t)
    BY OperandsAre DEF OperandsOK
  <2> QED BY <1>4, <2>1, ExpectIs
<1> HIDE DEF version
<1>9. ASSUME NEW k, ZpotrfTask(t, k) PROVE Cholesky!Next
  <2>1. k \in Cholesky!Index
    BY <1>9 DEF ZpotrfTask, Is_zpotrf, Cholesky!Index
  <2>2. Cholesky!Factor(k)
    BY <1>7, <1>9 DEF ZpotrfTask, Cholesky!Factor, Cholesky!Advance, version
  <2> QED BY <2>1, <2>2 DEF Cholesky!Next
<1>10. ASSUME NEW m, NEW k, ZtrsmTask(t, m, k) PROVE Cholesky!Next
  <2>1. m \in Cholesky!Index /\ k \in Cholesky!Index
    BY <1>10, mtAssumption DEF ZtrsmTask, Is_ztrsm, Cholesky!Index
  <2>2. version[<<k, k>>] = k + 1
    BY <1>8, <1>10 DEF ZtrsmTask
  <2>3. Cholesky!Solve(m, k)
    BY <1>7, <1>10, <2>2
       DEF ZtrsmTask, Cholesky!Solve, Cholesky!Final, Cholesky!Advance, version
  <2> QED BY <2>1, <2>3 DEF Cholesky!Next
<1>11. ASSUME NEW k, NEW m, ZherkTask(t, k, m) PROVE Cholesky!Next
  <2>1. m \in Cholesky!Index /\ k \in Cholesky!Index
    BY <1>11, mtAssumption DEF ZherkTask, Is_zherk, Cholesky!Index
  <2>2. version[<<m, k>>] = k + 1
    BY <1>8, <1>11 DEF ZherkTask
  <2>3. Cholesky!Update(m, m, k)
    BY <1>7, <1>11, <2>2
       DEF ZherkTask, Cholesky!Update, Cholesky!Final, Cholesky!Advance, version
  <2> QED BY <2>1, <2>3 DEF Cholesky!Next
<1>12. ASSUME NEW m, NEW n, NEW k, ZgemmTask(t, m, n, k) PROVE Cholesky!Next
  <2>1. m \in Cholesky!Index /\ n \in Cholesky!Index /\ k \in Cholesky!Index
    BY <1>12, mtAssumption DEF ZgemmTask, Is_zgemm, Cholesky!Index
  <2>2. version[<<m, k>>] = k + 1 /\ version[<<n, k>>] = k + 1
    BY <1>8, <1>12 DEF ZgemmTask
  <2>3. Cholesky!Update(m, n, k)
    BY <1>7, <1>12, <2>2
       DEF ZgemmTask, Cholesky!Update, Cholesky!Final, Cholesky!Advance, version
  <2> QED BY <2>1, <2>3 DEF Cholesky!Next
<1> QED BY <1>9, <1>10, <1>11, <1>12, TaskCases

\* Every execution of zpotrf_L is, on the home copies of the tiles, a tile
\* Cholesky factorisation with atomic kernels.
THEOREM Refinement == Spec => ImplementsTiledCholesky
<1>1. Init => Cholesky!Init
  <2>1. Cholesky!Lower = Tiles
    BY DEF Cholesky!Lower, Cholesky!Index, Tiles
  <2>2. Init => [x \in Tiles |-> val[Home(x)][2]] = [x \in Tiles |-> 0]
    BY DEF Init, Home
  <2> QED BY <2>1, <2>2 DEF Cholesky!Init
<1>2. G!IInv /\ [Next]_vars => [Cholesky!Next]_([x \in Tiles |-> val[Home(x)][2]])
  <2> SUFFICES ASSUME G!IInv, [Next]_vars
               PROVE  Cholesky!Next \/ UNCHANGED [x \in Tiles |-> val[Home(x)][2]]
    OBVIOUS
  <2>1. CASE \E t \in Tasks : Complete(t)
    BY <2>1, UpdateIsStep
  <2>2. CASE ~ \E t \in Tasks : Complete(t)
    <3>1. \A x \in Tiles : val'[Home(x)] = val[Home(x)]
      BY <2>2, SameNext, G!OtherStepsStutter
         DEF Complete, G!Complete, AfterBody, G!AfterBody, Bound, G!Bound, Home, G!Home,
         NoCopy, G!NoCopy, DataFlows, G!DataFlows, Local, G!Local, Remote, G!Remote,
         RankOf, G!RankOf, Modified, G!Modified, Updated, G!Updated,
         WrittenBack, G!WrittenBack
    <3> QED BY <3>1
  <2> QED BY <2>1, <2>2
<1>3. Spec => []G!IInv
  BY GraphWellFormed, SameGraph, SameSpec, G!Invariance, PTL
<1> QED BY <1>1, <1>2, <1>3, PTL DEF Spec, ImplementsTiledCholesky, Cholesky!Spec
=============================================================================
