---------------------------- MODULE zlauum_L_proofs ----------------------------
(***************************************************************************)
(* The graph of zlauum_L.jdf is well formed for every number of tiles and  *)
(* every distribution: its CTL arrows order every reader of an original    *)
(* tile before the tile is overwritten in place.  Hence its execution is   *)
(* causal, race free and always works on current operands.                 *)
(***************************************************************************)
EXTENDS zlauum_L, TLAPS

G == INSTANCE OwnerComputes_proofs WITH Before <- Precedes

-----------------------------------------------------------------------------
(* The five classes, with their definitions resolved.                      *)

ReadATask(t, m, n) ==
  /\ t = readA(m, n) /\ t \in Tasks /\ Is_readA(m, n)
  /\ m \in Nat /\ n \in Nat /\ n <= m /\ m < mt /\ <<m, n>> \in Tiles
  /\ Affinity(t) = <<m, n>> /\ ~Updates(t)
  /\ Operands(t) = {<<"A", "READ", <<m, n>>>>}
  /\ Load(t) = {<<"A", <<m, n>>>>} /\ Store(t) = {}
  /\ In(t) = {} /\ Out(t) = readA_Out(m, n)

ZherkTask(t, k, n) ==
  /\ t = lauum_zherk(k, n) /\ t \in Tasks /\ Is_zherk(k, n)
  /\ k \in Nat /\ n \in Nat /\ n < k /\ k < mt /\ <<n, n>> \in Tiles /\ <<k, n>> \in Tiles
  /\ Affinity(t) = <<n, n>> /\ Row(t) = k /\ Updates(t)
  /\ Operands(t) = {<<"A", "READ", <<k, n>>>>, <<"C", "RW", <<n, n>>>>}
  /\ Load(t) = {} /\ Store(t) = If(k = mt-1, {<<"C", <<n, n>>>>})
  /\ In(t) = zherk_In(k, n) /\ Out(t) = zherk_Out(k, n)

ZgemmTask(t, k, n, m) ==
  /\ t = lauum_zgemm(k, n, m) /\ t \in Tasks /\ Is_zgemm(k, n, m)
  /\ k \in Nat /\ n \in Nat /\ m \in Nat /\ n < m /\ m < k /\ k < mt
  /\ <<m, n>> \in Tiles /\ <<k, m>> \in Tiles /\ <<k, n>> \in Tiles
  /\ Affinity(t) = <<m, n>> /\ Row(t) = k /\ Updates(t)
  /\ Operands(t) = {<<"A", "READ", <<k, m>>>>, <<"B", "READ", <<k, n>>>>,
                    <<"C", "RW", <<m, n>>>>}
  /\ Load(t) = {} /\ Store(t) = If(k = mt-1, {<<"C", <<m, n>>>>})
  /\ In(t) = zgemm_In(k, n, m) /\ Out(t) = zgemm_Out(k, n, m)

ZtrmmTask(t, k, n) ==
  /\ t = lauum_ztrmm(k, n) /\ t \in Tasks /\ Is_ztrmm(k, n)
  /\ k \in Nat /\ n \in Nat /\ n < k /\ k < mt /\ <<k, n>> \in Tiles /\ <<k, k>> \in Tiles
  /\ Affinity(t) = <<k, n>> /\ Row(t) = k /\ Updates(t)
  /\ Operands(t) = {<<"A", "READ", <<k, k>>>>, <<"B", "RW", <<k, n>>>>}
  /\ Load(t) = {} /\ Store(t) = If(k = mt-1, {<<"B", <<k, n>>>>})
  /\ In(t) = ztrmm_In(k, n) /\ Out(t) = ztrmm_Out(k, n)

ZlauumTask(t, k) ==
  /\ t = lauum_zlauum(k) /\ t \in Tasks /\ Is_zlauum(k)
  /\ k \in Nat /\ k < mt /\ <<k, k>> \in Tiles
  /\ Affinity(t) = <<k, k>> /\ Row(t) = k /\ Updates(t)
  /\ Operands(t) = {<<"A", "RW", <<k, k>>>>}
  /\ Load(t) = {} /\ Store(t) = If(k = mt-1, {<<"A", <<k, k>>>>})
  /\ In(t) = zlauum_In(k) /\ Out(t) = zlauum_Out(k)

LEMMA ReadAIs ==
  ASSUME NEW m, NEW n, Is_readA(m, n) PROVE ReadATask(readA(m, n), m, n)
<1>1. /\ m \in Nat /\ n \in Nat /\ n <= m /\ m < mt /\ <<m, n>> \in Tiles
      /\ readA(m, n) \in Tasks
  BY mtAssumption DEF Is_readA, Tiles, Tasks, AllReadA
<1> QED BY <1>1
  DEF ReadATask, readA, Affinity, readA_Affinity, In, Out, Load, readA_Load, Store,
      Operands, readA_Body, Updates

LEMMA ZherkIs ==
  ASSUME NEW k, NEW n, Is_zherk(k, n) PROVE ZherkTask(lauum_zherk(k, n), k, n)
<1>1. /\ k \in Nat /\ n \in Nat /\ n < k /\ k < mt /\ <<n, n>> \in Tiles /\ <<k, n>> \in Tiles
      /\ lauum_zherk(k, n) \in Tasks
  BY mtAssumption DEF Is_zherk, Tiles, Tasks, AllZherk
<1> QED BY <1>1
  DEF ZherkTask, lauum_zherk, Affinity, zherk_Affinity, Row, In, Out, Load, Store,
      zherk_Store, Operands, zherk_Body, Updates

LEMMA ZgemmIs ==
  ASSUME NEW k, NEW n, NEW m, Is_zgemm(k, n, m)
  PROVE  ZgemmTask(lauum_zgemm(k, n, m), k, n, m)
<1>1. /\ k \in Nat /\ n \in Nat /\ m \in Nat /\ n < m /\ m < k /\ k < mt
      /\ <<m, n>> \in Tiles /\ <<k, m>> \in Tiles /\ <<k, n>> \in Tiles
      /\ lauum_zgemm(k, n, m) \in Tasks
  BY mtAssumption DEF Is_zgemm, Tiles, Tasks, AllZgemm
<1> QED BY <1>1
  DEF ZgemmTask, lauum_zgemm, Affinity, zgemm_Affinity, Row, In, Out, Load, Store,
      zgemm_Store, Operands, zgemm_Body, Updates

LEMMA ZtrmmIs ==
  ASSUME NEW k, NEW n, Is_ztrmm(k, n) PROVE ZtrmmTask(lauum_ztrmm(k, n), k, n)
<1>1. /\ k \in Nat /\ n \in Nat /\ n < k /\ k < mt /\ <<k, n>> \in Tiles /\ <<k, k>> \in Tiles
      /\ lauum_ztrmm(k, n) \in Tasks
  BY mtAssumption DEF Is_ztrmm, Tiles, Tasks, AllZtrmm
<1> QED BY <1>1
  DEF ZtrmmTask, lauum_ztrmm, Affinity, ztrmm_Affinity, Row, In, Out, Load, Store,
      ztrmm_Store, Operands, ztrmm_Body, Updates

LEMMA ZlauumIs == ASSUME NEW k, Is_zlauum(k) PROVE ZlauumTask(lauum_zlauum(k), k)
<1>1. k \in Nat /\ k < mt /\ <<k, k>> \in Tiles /\ lauum_zlauum(k) \in Tasks
  BY mtAssumption DEF Is_zlauum, Tiles, Tasks, AllZlauum
<1> QED BY <1>1
  DEF ZlauumTask, lauum_zlauum, Affinity, zlauum_Affinity, Row, In, Out, Load, Store,
      zlauum_Store, Operands, zlauum_Body, Updates

LEMMA TaskCases ==
  ASSUME NEW t \in Tasks
  PROVE  \/ \E m, n : ReadATask(t, m, n)
         \/ \E k, n : ZherkTask(t, k, n)
         \/ \E k, n, m : ZgemmTask(t, k, n, m)
         \/ \E k, n : ZtrmmTask(t, k, n)
         \/ \E k : ZlauumTask(t, k)
<1>1. \/ \E m, n : Is_readA(m, n) /\ t = readA(m, n)
      \/ \E k, n : Is_zherk(k, n) /\ t = lauum_zherk(k, n)
      \/ \E k, n, m : Is_zgemm(k, n, m) /\ t = lauum_zgemm(k, n, m)
      \/ \E k, n : Is_ztrmm(k, n) /\ t = lauum_ztrmm(k, n)
      \/ \E k : Is_zlauum(k) /\ t = lauum_zlauum(k)
  BY DEF Tasks, AllReadA, AllZherk, AllZgemm, AllZtrmm, AllZlauum,
         Is_readA, Is_zherk, Is_zgemm, Is_ztrmm, Is_zlauum
<1> QED BY <1>1, ReadAIs, ZherkIs, ZgemmIs, ZtrmmIs, ZlauumIs

-----------------------------------------------------------------------------
\* The operands of a task: what it updates is its own tile; it reads others.
OperandsOK(t) ==
  /\ Affinity(t) \in Tiles
  /\ \A o \in Operands(t) :
       /\ o = <<o[1], o[2], o[3]>> /\ o[2] \in {"READ", "RW"} /\ o[1] # "ctl"
       /\ o[3] \in Tiles
       /\ o[2] = "RW" <=> Updates(t) /\ o[3] = Affinity(t)
  /\ Updates(t) => Row(t) \in Nat /\ Affinity(t)[1] <= Row(t) /\ Row(t) < mt
  /\ \A o, p \in Operands(t) : o[1] = p[1] => o = p
  /\ \A s \in Store(t) : s[2] = Affinity(t) /\ <<s[1], "RW", s[2]>> \in Operands(t)
  /\ \A l \in Load(t) : <<l[1], "READ", l[2]>> \in Operands(t)

LEMMA OperandsAre == \A t \in Tasks : OperandsOK(t)
<1> SUFFICES ASSUME NEW t \in Tasks PROVE OperandsOK(t)
  OBVIOUS
<1>1. ASSUME NEW m, NEW n, ReadATask(t, m, n) PROVE OperandsOK(t)
  BY <1>1 DEF ReadATask, OperandsOK
<1>2. ASSUME NEW k, NEW n, ZherkTask(t, k, n) PROVE OperandsOK(t)
  BY <1>2 DEF ZherkTask, OperandsOK, If
<1>3. ASSUME NEW k, NEW n, NEW m, ZgemmTask(t, k, n, m) PROVE OperandsOK(t)
  BY <1>3 DEF ZgemmTask, OperandsOK, If
<1>4. ASSUME NEW k, NEW n, ZtrmmTask(t, k, n) PROVE OperandsOK(t)
  BY <1>4 DEF ZtrmmTask, OperandsOK, If
<1>5. ASSUME NEW k, ZlauumTask(t, k) PROVE OperandsOK(t)
  BY <1>5 DEF ZlauumTask, OperandsOK, If
<1> QED BY <1>1, <1>2, <1>3, <1>4, <1>5, TaskCases

LEMMA ExpectIs ==
  \A t \in Tasks : \A x : Expect(t, x) =
    IF Updates(t) /\ x = Affinity(t) THEN Row(t) - Affinity(t)[1] ELSE 0
BY DEF Expect

-----------------------------------------------------------------------------
(* Tile (m, n) is updated with row k in exactly one task, for every k >= m. *)

Writer(m, n, k) ==
  IF m = n THEN IF k = m THEN lauum_zlauum(m) ELSE lauum_zherk(k, m)
           ELSE IF k = m THEN lauum_ztrmm(m, n) ELSE lauum_zgemm(k, n, m)

LEMMA WriterUnique ==
  \A t \in Tasks : Updates(t) => t = Writer(Affinity(t)[1], Affinity(t)[2], Row(t))
<1> SUFFICES ASSUME NEW t \in Tasks, Updates(t)
             PROVE  t = Writer(Affinity(t)[1], Affinity(t)[2], Row(t))
  OBVIOUS
<1> USE DEF Writer
<1>1. ASSUME NEW k, NEW n, ZherkTask(t, k, n)
      PROVE  t = Writer(Affinity(t)[1], Affinity(t)[2], Row(t))
  BY <1>1 DEF ZherkTask
<1>2. ASSUME NEW k, NEW n, NEW m, ZgemmTask(t, k, n, m)
      PROVE  t = Writer(Affinity(t)[1], Affinity(t)[2], Row(t))
  BY <1>2 DEF ZgemmTask
<1>3. ASSUME NEW k, NEW n, ZtrmmTask(t, k, n)
      PROVE  t = Writer(Affinity(t)[1], Affinity(t)[2], Row(t))
  BY <1>3 DEF ZtrmmTask
<1>4. ASSUME NEW k, ZlauumTask(t, k)
      PROVE  t = Writer(Affinity(t)[1], Affinity(t)[2], Row(t))
  BY <1>4 DEF ZlauumTask
<1>5. ~\E m, n : ReadATask(t, m, n)
  BY DEF ReadATask
<1> QED BY <1>1, <1>2, <1>3, <1>4, <1>5, TaskCases

LEMMA WriterExists ==
  ASSUME NEW x \in Tiles, NEW k \in Nat, x[1] <= k, k < mt
  PROVE  \E w \in Tasks : Updates(w) /\ Affinity(w) = x /\ Row(w) = k
<1>1. PICK m \in 0 .. mt-1, n \in 0 .. mt-1 : x = <<m, n>> /\ n <= m
  BY DEF Tiles
<1>2. m <= k
  BY <1>1
<1>3. CASE m = n /\ k = m
  <2>1. ZlauumTask(lauum_zlauum(k), k)
    BY <1>1, <1>3, ZlauumIs DEF Is_zlauum
  <2> QED BY <1>1, <1>3, <2>1 DEF ZlauumTask
<1>4. CASE m = n /\ k # m
  <2>1. ZherkTask(lauum_zherk(k, n), k, n)
    BY <1>1, <1>2, <1>4, mtAssumption, ZherkIs DEF Is_zherk
  <2> QED BY <1>1, <1>4, <2>1 DEF ZherkTask
<1>5. CASE m # n /\ k = m
  <2>1. ZtrmmTask(lauum_ztrmm(k, n), k, n)
    BY <1>1, <1>5, mtAssumption, ZtrmmIs DEF Is_ztrmm
  <2> QED BY <1>1, <1>5, <2>1 DEF ZtrmmTask
<1>6. CASE m # n /\ k # m
  <2>1. ZgemmTask(lauum_zgemm(k, n, m), k, n, m)
    BY <1>1, <1>2, <1>6, mtAssumption, ZgemmIs DEF Is_zgemm
  <2> QED BY <1>1, <2>1 DEF ZgemmTask
<1> QED BY <1>3, <1>4, <1>5, <1>6

LEMMA VersionsOK == VersionsCounted
<1>0. \A t \in Tasks : Writes(t) <=> Updates(t)
  BY DEF Writes, Updates
<1>1. ASSUME NEW t \in Tasks, NEW u \in Tasks, Updates(t), Updates(u),
             Affinity(t) = Affinity(u), Expect(t, Affinity(t)) = Expect(u, Affinity(u))
      PROVE  t = u
  <2>1. Row(t) - Affinity(t)[1] = Row(u) - Affinity(t)[1]
    BY <1>1, ExpectIs
  <2>2. Row(t) \in Nat /\ Row(u) \in Nat /\ Affinity(t)[1] \in Nat
    BY <1>1, OperandsAre DEF OperandsOK, Tiles
  <2>3. Row(t) = Row(u)
    BY <2>1, <2>2
  <2> QED BY <1>1, <2>3, WriterUnique
<1>2. ASSUME NEW t \in Tasks, NEW o \in Operands(t), Expect(t, o[3]) # 0
      PROVE  \E w \in Tasks : /\ Updates(w) /\ Affinity(w) = o[3]
                              /\ Expect(w, o[3]) + 1 = Expect(t, o[3])
  <2>1. Updates(t) /\ o[3] = Affinity(t) /\ Expect(t, o[3]) = Row(t) - o[3][1]
    BY <1>2, ExpectIs
  <2>2. /\ o[3] \in Tiles /\ o[3][1] \in Nat /\ Row(t) \in Nat
        /\ o[3][1] <= Row(t) /\ Row(t) < mt /\ mt \in Nat
    BY <2>1, OperandsAre, mtAssumption DEF OperandsOK, Tiles
  <2>3. Row(t) - 1 \in Nat /\ o[3][1] <= Row(t) - 1 /\ Row(t) - 1 < mt
    BY <1>2, <2>1, <2>2
  <2>4. PICK w \in Tasks : Updates(w) /\ Affinity(w) = o[3] /\ Row(w) = Row(t) - 1
    BY <2>2, <2>3, WriterExists
  <2>5. Expect(w, o[3]) = Row(w) - o[3][1]
    BY <2>4, ExpectIs
  <2> QED BY <2>1, <2>2, <2>4, <2>5
<1> QED BY <1>0, <1>1, <1>2 DEF VersionsCounted

LEMMA OrderOK == OrderSufficient
<1> SUFFICES ASSUME NEW t \in Tasks, NEW o \in Operands(t), NEW w \in Tasks, w # t,
                    Updates(w), Affinity(w) = o[3]
             PROVE  IF Expect(w, o[3]) < Expect(t, o[3])
                    THEN Precedes(w, t) ELSE Precedes(t, w)
  BY DEF OrderSufficient, Writes, Updates
<1>1. /\ Expect(w, o[3]) = Row(w) - o[3][1] /\ Row(w) \in Nat /\ o[3][1] \in Nat
      /\ o[3][1] <= Row(w)
  BY OperandsAre, ExpectIs DEF OperandsOK, Tiles
<1>2. CASE Updates(t) /\ o[3] = Affinity(t)
  <2>1. Expect(t, o[3]) = Row(t) - o[3][1] /\ Row(t) \in Nat
    BY <1>2, OperandsAre, ExpectIs DEF OperandsOK
  <2>2. Row(t) # Row(w)
    BY <1>2, WriterUnique
  <2> QED BY <1>1, <1>2, <2>1, <2>2 DEF Precedes
<1>3. CASE ~(Updates(t) /\ o[3] = Affinity(t))
  <2>1. Expect(t, o[3]) = 0
    BY <1>3, ExpectIs
  <2>2. ~(Expect(w, o[3]) < Expect(t, o[3]))
    BY <1>1, <2>1
  <2> QED BY <1>3, <2>2 DEF Precedes
<1> QED BY <1>2, <1>3
-----------------------------------------------------------------------------
(* The outputs.  readA hands the original of its tile to tasks that find    *)
(* version 0; an update goes to the update with the next row; the rest is   *)
(* CTL.                                                                     *)

HandsOut(t, o) ==
  /\ ~Updates(t) /\ <<o[1], "READ", Affinity(t)>> \in Operands(t)
  /\ \E mode : <<o[3], mode, Affinity(t)>> \in Operands(o[2])
  /\ Expect(o[2], Affinity(t)) = 0

PassesOn(t, o) ==
  /\ Updates(t) /\ <<o[1], "RW", Affinity(t)>> \in Operands(t)
  /\ Updates(o[2]) /\ Affinity(o[2]) = Affinity(t) /\ Row(o[2]) = Row(t) + 1
  /\ <<o[3], "RW", Affinity(t)>> \in Operands(o[2])

OutOK(t, o) ==
  /\ o = <<o[1], o[2], o[3]>> /\ o[2] \in Tasks
  /\ <<o[3], t, o[1]>> \in In(o[2])
  /\ (o[1] = "ctl" /\ o[3] = "ctl") \/ HandsOut(t, o) \/ PassesOn(t, o)

LEMMA ReadAOut ==
  ASSUME NEW t, NEW m, NEW n, ReadATask(t, m, n), NEW o \in Out(t) PROVE OutOK(t, o)
<1> USE DEF OutOK, HandsOut
<1>0. t = readA(m, n) /\ m \in Nat /\ n \in Nat /\ n <= m /\ m < mt /\ mt \in Nat
  BY mtAssumption DEF ReadATask
<1>1. \/ m = n /\ o = <<"A", lauum_zlauum(m), "A">>
      \/ m = n /\ m > 0 /\ \E i \in 0 .. n-1 : o = <<"A", lauum_ztrmm(n, i), "A">>
      \/ m > n /\ o = <<"A", lauum_zherk(m, n), "A">>
      \/ m > n /\ o = <<"A", lauum_ztrmm(m, n), "B">>
      \/ m > n /\ n > 0 /\ \E i \in 0 .. n-1 : o = <<"A", lauum_zgemm(m, i, n), "A">>
      \/ m > n+1 /\ \E i \in n+1 .. m-1 : o = <<"A", lauum_zgemm(m, n, i), "B">>
  BY DEF ReadATask, readA_Out, If
<1>2. CASE m = n /\ o = <<"A", lauum_zlauum(m), "A">>
  <2>1. ZlauumTask(lauum_zlauum(m), m)
    BY <1>0, ZlauumIs DEF Is_zlauum
  <2>2. <<"A", t, "A">> \in In(lauum_zlauum(m))
    BY <1>0, <1>2, <2>1 DEF ZlauumTask, zlauum_In
  <2>3. Expect(o[2], <<m, n>>) = 0
    BY <1>0, <1>2, <2>1, <2>2 DEF ZlauumTask, Expect
  <2> QED BY <1>0, <1>2, <2>1, <2>2, <2>3 DEF ReadATask, ZlauumTask
<1>3. CASE m = n /\ m > 0 /\ \E i \in 0 .. n-1 : o = <<"A", lauum_ztrmm(n, i), "A">>
  <2>1. PICK i \in 0 .. n-1 : o = <<"A", lauum_ztrmm(n, i), "A">>
    BY <1>3
  <2>2. ZtrmmTask(lauum_ztrmm(n, i), n, i)
    BY <1>0, <1>3, ZtrmmIs DEF Is_ztrmm
  <2>3. <<"A", t, "A">> \in In(lauum_ztrmm(n, i))
    BY <1>0, <1>3, <2>2 DEF ZtrmmTask, ztrmm_In
  <2>4. Expect(o[2], <<m, n>>) = 0
    BY <1>0, <1>3, <2>1, <2>2, <2>3 DEF ZtrmmTask, Expect
  <2> QED BY <1>0, <1>3, <2>1, <2>2, <2>3, <2>4 DEF ReadATask, ZtrmmTask
<1>4. CASE m > n /\ o = <<"A", lauum_zherk(m, n), "A">>
  <2>1. ZherkTask(lauum_zherk(m, n), m, n)
    BY <1>0, <1>4, ZherkIs DEF Is_zherk
  <2>2. <<"A", t, "A">> \in In(lauum_zherk(m, n))
    BY <1>0, <2>1 DEF ZherkTask, zherk_In
  <2>3. Expect(o[2], <<m, n>>) = 0
    BY <1>0, <1>4, <2>1, <2>2 DEF ZherkTask, Expect
  <2> QED BY <1>0, <1>4, <2>1, <2>2, <2>3 DEF ReadATask, ZherkTask
<1>5. CASE m > n /\ o = <<"A", lauum_ztrmm(m, n), "B">>
  <2>1. ZtrmmTask(lauum_ztrmm(m, n), m, n)
    BY <1>0, <1>5, ZtrmmIs DEF Is_ztrmm
  <2>2. <<"B", t, "A">> \in In(lauum_ztrmm(m, n))
    BY <1>0, <2>1 DEF ZtrmmTask, ztrmm_In
  <2>3. Expect(o[2], <<m, n>>) = 0
    BY <1>0, <1>5, <2>1, <2>2 DEF ZtrmmTask, Expect
  <2> QED BY <1>0, <1>5, <2>1, <2>2, <2>3 DEF ReadATask, ZtrmmTask
<1>6. CASE m > n /\ n > 0 /\ \E i \in 0 .. n-1 : o = <<"A", lauum_zgemm(m, i, n), "A">>
  <2>1. PICK i \in 0 .. n-1 : o = <<"A", lauum_zgemm(m, i, n), "A">>
    BY <1>6
  <2>2. ZgemmTask(lauum_zgemm(m, i, n), m, i, n)
    BY <1>0, <1>6, ZgemmIs DEF Is_zgemm
  <2>3. <<"A", t, "A">> \in In(lauum_zgemm(m, i, n))
    BY <1>0, <2>2 DEF ZgemmTask, zgemm_In
  <2>4. Expect(o[2], <<m, n>>) = 0
    BY <1>0, <1>6, <2>1, <2>2, <2>3 DEF ZgemmTask, Expect
  <2> QED BY <1>0, <1>6, <2>1, <2>2, <2>3, <2>4 DEF ReadATask, ZgemmTask
<1>7. CASE m > n+1 /\ \E i \in n+1 .. m-1 : o = <<"A", lauum_zgemm(m, n, i), "B">>
  <2>1. PICK i \in n+1 .. m-1 : o = <<"A", lauum_zgemm(m, n, i), "B">>
    BY <1>7
  <2>2. ZgemmTask(lauum_zgemm(m, n, i), m, n, i)
    BY <1>0, <1>7, ZgemmIs DEF Is_zgemm
  <2>3. <<"B", t, "A">> \in In(lauum_zgemm(m, n, i))
    BY <1>0, <2>2 DEF ZgemmTask, zgemm_In
  <2>4. Expect(o[2], <<m, n>>) = 0
    BY <1>0, <1>7, <2>1, <2>2, <2>3 DEF ZgemmTask, Expect
  <2> QED BY <1>0, <1>7, <2>1, <2>2, <2>3, <2>4 DEF ReadATask, ZgemmTask
<1> QED BY <1>1, <1>2, <1>3, <1>4, <1>5, <1>6, <1>7

LEMMA ZherkOut ==
  ASSUME NEW t, NEW k, NEW n, ZherkTask(t, k, n), NEW o \in Out(t) PROVE OutOK(t, o)
<1> USE DEF OutOK, PassesOn
<1>0. t = lauum_zherk(k, n) /\ k \in Nat /\ n \in Nat /\ n < k /\ k < mt /\ mt \in Nat
  BY mtAssumption DEF ZherkTask
<1>1. \/ o = <<"ctl", lauum_ztrmm(k, n), "ctl">>
      \/ k < mt-1 /\ o = <<"C", lauum_zherk(k+1, n), "C">>
  BY DEF ZherkTask, zherk_Out, If
<1>2. CASE o = <<"ctl", lauum_ztrmm(k, n), "ctl">>
  <2>1. ZtrmmTask(lauum_ztrmm(k, n), k, n)
    BY <1>0, ZtrmmIs DEF Is_ztrmm
  <2>2. <<"ctl", t, "ctl">> \in In(lauum_ztrmm(k, n))
    BY <1>0, <2>1 DEF ZtrmmTask, ztrmm_In
  <2> QED BY <1>2, <2>1, <2>2 DEF ZtrmmTask
<1>3. CASE k < mt-1 /\ o = <<"C", lauum_zherk(k+1, n), "C">>
  <2>1. ZherkTask(lauum_zherk(k+1, n), k+1, n)
    BY <1>0, <1>3, ZherkIs DEF Is_zherk
  <2>2. k+1 > n+1 /\ (k+1)-1 = k
    BY <1>0
  <2>3. <<"C", t, "C">> \in In(lauum_zherk(k+1, n))
    BY <1>0, <2>1, <2>2 DEF ZherkTask, zherk_In, If
  <2> QED BY <1>3, <2>1, <2>3 DEF ZherkTask
<1> QED BY <1>1, <1>2, <1>3

LEMMA ZgemmOut ==
  ASSUME NEW t, NEW k, NEW n, NEW m, ZgemmTask(t, k, n, m), NEW o \in Out(t)
  PROVE  OutOK(t, o)
<1> USE DEF OutOK, PassesOn
<1>0. /\ t = lauum_zgemm(k, n, m) /\ k \in Nat /\ n \in Nat /\ m \in Nat
      /\ n < m /\ m < k /\ k < mt /\ mt \in Nat
  BY mtAssumption DEF ZgemmTask
<1>1. \/ o = <<"ctl", lauum_ztrmm(k, m), "ctl">>
      \/ o = <<"ctl", lauum_ztrmm(k, n), "ctl">>
      \/ k < mt-1 /\ o = <<"C", lauum_zgemm(k+1, n, m), "C">>
  BY DEF ZgemmTask, zgemm_Out, If
<1>2. CASE o = <<"ctl", lauum_ztrmm(k, m), "ctl">>
  <2>1. ZtrmmTask(lauum_ztrmm(k, m), k, m)
    BY <1>0, ZtrmmIs DEF Is_ztrmm
  <2>2. <<"ctl", t, "ctl">> \in In(lauum_ztrmm(k, m))
    BY <1>0, <2>1 DEF ZtrmmTask, ztrmm_In
  <2> QED BY <1>2, <2>1, <2>2 DEF ZtrmmTask
<1>3. CASE o = <<"ctl", lauum_ztrmm(k, n), "ctl">>
  <2>1. ZtrmmTask(lauum_ztrmm(k, n), k, n)
    BY <1>0, ZtrmmIs DEF Is_ztrmm
  <2>2. <<"ctl", t, "ctl">> \in In(lauum_ztrmm(k, n))
    BY <1>0, <2>1 DEF ZtrmmTask, ztrmm_In
  <2> QED BY <1>3, <2>1, <2>2 DEF ZtrmmTask
<1>4. CASE k < mt-1 /\ o = <<"C", lauum_zgemm(k+1, n, m), "C">>
  <2>1. ZgemmTask(lauum_zgemm(k+1, n, m), k+1, n, m)
    BY <1>0, <1>4, ZgemmIs DEF Is_zgemm
  <2>2. k+1 > m+1 /\ (k+1)-1 = k
    BY <1>0
  <2>3. <<"C", t, "C">> \in In(lauum_zgemm(k+1, n, m))
    BY <1>0, <2>1, <2>2 DEF ZgemmTask, zgemm_In, If
  <2> QED BY <1>4, <2>1, <2>3 DEF ZgemmTask
<1> QED BY <1>1, <1>2, <1>3, <1>4

LEMMA ZtrmmOut ==
  ASSUME NEW t, NEW k, NEW n, ZtrmmTask(t, k, n), NEW o \in Out(t) PROVE OutOK(t, o)
<1> USE DEF OutOK, PassesOn
<1>0. t = lauum_ztrmm(k, n) /\ k \in Nat /\ n \in Nat /\ n < k /\ k < mt /\ mt \in Nat
  BY mtAssumption DEF ZtrmmTask
<1>1. \/ o = <<"ctl", lauum_zlauum(k), "ctl">>
      \/ k < mt-1 /\ o = <<"B", lauum_zgemm(k+1, n, k), "C">>
  BY DEF ZtrmmTask, ztrmm_Out, If
<1>2. CASE o = <<"ctl", lauum_zlauum(k), "ctl">>
  <2>1. ZlauumTask(lauum_zlauum(k), k)
    BY <1>0, ZlauumIs DEF Is_zlauum
  <2>2. <<"ctl", t, "ctl">> \in In(lauum_zlauum(k))
    BY <1>0, <2>1 DEF ZlauumTask, zlauum_In
  <2> QED BY <1>2, <2>1, <2>2 DEF ZlauumTask
<1>3. CASE k < mt-1 /\ o = <<"B", lauum_zgemm(k+1, n, k), "C">>
  <2>1. ZgemmTask(lauum_zgemm(k+1, n, k), k+1, n, k)
    BY <1>0, <1>3, ZgemmIs DEF Is_zgemm
  <2>2. <<"C", t, "B">> \in In(lauum_zgemm(k+1, n, k))
    BY <1>0, <2>1 DEF ZgemmTask, zgemm_In, If
  <2> QED BY <1>3, <2>1, <2>2 DEF ZtrmmTask, ZgemmTask
<1> QED BY <1>1, <1>2, <1>3

LEMMA ZlauumOut ==
  ASSUME NEW t, NEW k, ZlauumTask(t, k), NEW o \in Out(t) PROVE OutOK(t, o)
<1> USE DEF OutOK, PassesOn
<1>0. t = lauum_zlauum(k) /\ k \in Nat /\ mt \in Nat /\ k < mt-1
  BY mtAssumption DEF ZlauumTask, zlauum_Out, If
<1>1. o = <<"A", lauum_zherk(k+1, k), "C">>
  BY DEF ZlauumTask, zlauum_Out, If
<1>2. ZherkTask(lauum_zherk(k+1, k), k+1, k)
  BY <1>0, ZherkIs DEF Is_zherk
<1>3. <<"C", t, "A">> \in In(lauum_zherk(k+1, k))
  BY <1>0, <1>2 DEF ZherkTask, zherk_In, If
<1> QED BY <1>1, <1>2, <1>3 DEF ZlauumTask, ZherkTask

LEMMA OutAre == \A t \in Tasks : \A o \in Out(t) : OutOK(t, o)
BY TaskCases, ReadAOut, ZherkOut, ZgemmOut, ZtrmmOut, ZlauumOut
-----------------------------------------------------------------------------
(* The inputs.  Every input names a task that provides it, every flow has a *)
(* source, and a later update names the update before it.                   *)

InOK(t, d) ==
  d = <<d[1], d[2], d[3]>> /\ d[2] \in Tasks /\ <<d[3], t, d[1]>> \in Out(d[2])

FedOK(t, o) == (\E l \in Load(t) : l[1] = o[1]) \/ (\E d \in In(t) : d[1] = o[1])

Follows(t) ==
  Updates(t) /\ Row(t) # Affinity(t)[1] =>
    \E d \in In(t) :
      Updates(d[2]) /\ Affinity(d[2]) = Affinity(t) /\ Row(d[2]) + 1 = Row(t)

InputsOK(t) ==
  /\ \A d \in In(t) : InOK(t, d)
  /\ \A o \in Operands(t) : FedOK(t, o)
  /\ Follows(t)

LEMMA ReadAIn == ASSUME NEW t, NEW m, NEW n, ReadATask(t, m, n) PROVE InputsOK(t)
BY DEF ReadATask, InputsOK, InOK, FedOK, Follows

LEMMA ZherkIn == ASSUME NEW t, NEW k, NEW n, ZherkTask(t, k, n) PROVE InputsOK(t)
<1>0. t = lauum_zherk(k, n) /\ k \in Nat /\ n \in Nat /\ n < k /\ k < mt /\ mt \in Nat
  BY mtAssumption DEF ZherkTask
<1> DEFINE A == <<"A", readA(k, n), "A">>
<1>1. A \in In(t) /\ InOK(t, A)
  <2>1. ReadATask(readA(k, n), k, n)
    BY <1>0, ReadAIs DEF Is_readA
  <2>2. <<"A", t, "A">> \in Out(readA(k, n))
    BY <1>0, <2>1 DEF ReadATask, readA_Out, If
  <2> QED BY <2>1, <2>2 DEF ZherkTask, zherk_In, InOK, ReadATask
<1>2. CASE k = n+1
  <2> DEFINE C == <<"C", lauum_zlauum(n), "A">>
  <2>1. In(t) = {A, C}
    BY <1>0, <1>2 DEF ZherkTask, zherk_In, If
  <2>2. ZlauumTask(lauum_zlauum(n), n)
    BY <1>0, ZlauumIs DEF Is_zlauum
  <2>3. <<"A", t, "C">> \in Out(lauum_zlauum(n))
    BY <1>0, <1>2, <2>2 DEF ZlauumTask, zlauum_Out, If
  <2>4. InOK(t, C)
    BY <2>2, <2>3 DEF InOK, ZlauumTask
  <2>5. Follows(t)
    <3>1. C \in In(t) /\ C[2] = lauum_zlauum(n)
      BY <2>1
    <3>2. /\ Updates(C[2]) /\ Affinity(C[2]) = Affinity(t) /\ Row(C[2]) = n
          /\ Row(t) = n + 1
      BY <1>2, <2>2, <3>1 DEF ZherkTask, ZlauumTask
    <3> QED BY <3>1, <3>2 DEF Follows
  <2> QED BY <1>1, <2>1, <2>4, <2>5 DEF InputsOK, FedOK, ZherkTask
<1>3. CASE k > n+1
  <2> DEFINE C == <<"C", lauum_zherk(k-1, n), "C">>
  <2>1. In(t) = {A, C} /\ (k-1)+1 = k /\ k-1 < mt-1
    BY <1>0, <1>3 DEF ZherkTask, zherk_In, If
  <2>2. ZherkTask(lauum_zherk(k-1, n), k-1, n)
    BY <1>0, <1>3, ZherkIs DEF Is_zherk
  <2>3. <<"C", t, "C">> \in Out(lauum_zherk(k-1, n))
    BY <1>0, <2>1, <2>2 DEF ZherkTask, zherk_Out, If
  <2>4. InOK(t, C)
    BY <2>2, <2>3 DEF InOK, ZherkTask
  <2>5. Follows(t)
    BY <2>1, <2>2 DEF Follows, ZherkTask
  <2> QED BY <1>1, <2>1, <2>4, <2>5 DEF InputsOK, FedOK, ZherkTask
<1> QED BY <1>0, <1>2, <1>3

LEMMA ZgemmIn == ASSUME NEW t, NEW k, NEW n, NEW m, ZgemmTask(t, k, n, m) PROVE InputsOK(t)
<1>0. /\ t = lauum_zgemm(k, n, m) /\ k \in Nat /\ n \in Nat /\ m \in Nat
      /\ n < m /\ m < k /\ k < mt /\ mt \in Nat
  BY mtAssumption DEF ZgemmTask
<1> DEFINE A == <<"A", readA(k, m), "A">>
           B == <<"B", readA(k, n), "A">>
<1>1. A \in In(t) /\ InOK(t, A)
  <2>1. ReadATask(readA(k, m), k, m)
    BY <1>0, ReadAIs DEF Is_readA
  <2>2. <<"A", t, "A">> \in Out(readA(k, m))
    BY <1>0, <2>1 DEF ReadATask, readA_Out, If
  <2> QED BY <2>1, <2>2 DEF ZgemmTask, zgemm_In, InOK, ReadATask
<1>2. B \in In(t) /\ InOK(t, B)
  <2>1. ReadATask(readA(k, n), k, n)
    BY <1>0, ReadAIs DEF Is_readA
  <2>2. <<"A", t, "B">> \in Out(readA(k, n))
    BY <1>0, <2>1 DEF ReadATask, readA_Out, If
  <2> QED BY <2>1, <2>2 DEF ZgemmTask, zgemm_In, InOK, ReadATask
<1>3. CASE k = m+1
  <2> DEFINE C == <<"C", lauum_ztrmm(m, n), "B">>
  <2>1. In(t) = {A, B, C}
    BY <1>0, <1>3 DEF ZgemmTask, zgemm_In, If
  <2>2. ZtrmmTask(lauum_ztrmm(m, n), m, n)
    BY <1>0, ZtrmmIs DEF Is_ztrmm
  <2>3. <<"B", t, "C">> \in Out(lauum_ztrmm(m, n))
    BY <1>0, <1>3, <2>2 DEF ZtrmmTask, ztrmm_Out, If
  <2>4. InOK(t, C)
    BY <2>2, <2>3 DEF InOK, ZtrmmTask
  <2>5. Follows(t)
    <3>1. C \in In(t) /\ C[2] = lauum_ztrmm(m, n)
      BY <2>1
    <3>2. /\ Updates(C[2]) /\ Affinity(C[2]) = Affinity(t) /\ Row(C[2]) = m
          /\ Row(t) = m + 1
      BY <1>3, <2>2, <3>1 DEF ZgemmTask, ZtrmmTask
    <3> QED BY <3>1, <3>2 DEF Follows
  <2> QED BY <1>1, <1>2, <2>1, <2>4, <2>5 DEF InputsOK, FedOK, ZgemmTask
<1>4. CASE k > m+1
  <2> DEFINE C == <<"C", lauum_zgemm(k-1, n, m), "C">>
  <2>1. In(t) = {A, B, C} /\ (k-1)+1 = k /\ k-1 < mt-1
    BY <1>0, <1>4 DEF ZgemmTask, zgemm_In, If
  <2>2. ZgemmTask(lauum_zgemm(k-1, n, m), k-1, n, m)
    BY <1>0, <1>4, ZgemmIs DEF Is_zgemm
  <2>3. <<"C", t, "C">> \in Out(lauum_zgemm(k-1, n, m))
    BY <1>0, <2>1, <2>2 DEF ZgemmTask, zgemm_Out, If
  <2>4. InOK(t, C)
    BY <2>2, <2>3 DEF InOK, ZgemmTask
  <2>5. Follows(t)
    BY <2>1, <2>2 DEF Follows, ZgemmTask
  <2> QED BY <1>1, <1>2, <2>1, <2>4, <2>5 DEF InputsOK, FedOK, ZgemmTask
<1> QED BY <1>0, <1>3, <1>4

LEMMA ZtrmmIn == ASSUME NEW t, NEW k, NEW n, ZtrmmTask(t, k, n) PROVE InputsOK(t)
<1>0. t = lauum_ztrmm(k, n) /\ k \in Nat /\ n \in Nat /\ n < k /\ k < mt /\ mt \in Nat
  BY mtAssumption DEF ZtrmmTask
<1> DEFINE A == <<"A", readA(k, k), "A">>
           B == <<"B", readA(k, n), "A">>
<1>1. A \in In(t) /\ InOK(t, A)
  <2>1. ReadATask(readA(k, k), k, k)
    BY <1>0, ReadAIs DEF Is_readA
  <2>2. <<"A", t, "A">> \in Out(readA(k, k))
    BY <1>0, <2>1 DEF ReadATask, readA_Out, If
  <2> QED BY <2>1, <2>2 DEF ZtrmmTask, ztrmm_In, InOK, ReadATask
<1>2. B \in In(t) /\ InOK(t, B)
  <2>1. ReadATask(readA(k, n), k, n)
    BY <1>0, ReadAIs DEF Is_readA
  <2>2. <<"A", t, "B">> \in Out(readA(k, n))
    BY <1>0, <2>1 DEF ReadATask, readA_Out, If
  <2> QED BY <2>1, <2>2 DEF ZtrmmTask, ztrmm_In, InOK, ReadATask
<1>3. InOK(t, <<"ctl", lauum_zherk(k, n), "ctl">>)
  <2>1. ZherkTask(lauum_zherk(k, n), k, n)
    BY <1>0, ZherkIs DEF Is_zherk
  <2> QED BY <1>0, <2>1 DEF InOK, ZherkTask, zherk_Out
<1>4. ASSUME NEW m \in n+1 .. k-1 PROVE InOK(t, <<"ctl", lauum_zgemm(k, n, m), "ctl">>)
  <2>1. ZgemmTask(lauum_zgemm(k, n, m), k, n, m)
    BY <1>0, ZgemmIs DEF Is_zgemm
  <2> QED BY <1>0, <2>1 DEF InOK, ZgemmTask, zgemm_Out
<1>5. ASSUME NEW i \in 0 .. n-1 PROVE InOK(t, <<"ctl", lauum_zgemm(k, i, n), "ctl">>)
  <2>1. ZgemmTask(lauum_zgemm(k, i, n), k, i, n)
    BY <1>0, ZgemmIs DEF Is_zgemm
  <2> QED BY <1>0, <2>1 DEF InOK, ZgemmTask, zgemm_Out
<1>6. \A d \in In(t) : InOK(t, d)
  BY <1>1, <1>2, <1>3, <1>4, <1>5 DEF ZtrmmTask, ztrmm_In
<1>7. Follows(t)
  BY DEF Follows, ZtrmmTask
<1> QED BY <1>1, <1>2, <1>6, <1>7 DEF InputsOK, FedOK, ZtrmmTask

LEMMA ZlauumIn == ASSUME NEW t, NEW k, ZlauumTask(t, k) PROVE InputsOK(t)
<1>0. t = lauum_zlauum(k) /\ k \in Nat /\ k < mt /\ mt \in Nat
  BY mtAssumption DEF ZlauumTask
<1> DEFINE A == <<"A", readA(k, k), "A">>
<1>1. A \in In(t) /\ InOK(t, A)
  <2>1. ReadATask(readA(k, k), k, k)
    BY <1>0, ReadAIs DEF Is_readA
  <2>2. <<"A", t, "A">> \in Out(readA(k, k))
    BY <1>0, <2>1 DEF ReadATask, readA_Out, If
  <2> QED BY <2>1, <2>2 DEF ZlauumTask, zlauum_In, InOK, ReadATask
<1>2. ASSUME NEW n \in 0 .. k-1 PROVE InOK(t, <<"ctl", lauum_ztrmm(k, n), "ctl">>)
  <2>1. ZtrmmTask(lauum_ztrmm(k, n), k, n)
    BY <1>0, ZtrmmIs DEF Is_ztrmm
  <2> QED BY <1>0, <2>1 DEF InOK, ZtrmmTask, ztrmm_Out
<1>3. \A d \in In(t) : InOK(t, d)
  BY <1>1, <1>2 DEF ZlauumTask, zlauum_In
<1>4. Follows(t)
  BY DEF Follows, ZlauumTask
<1> QED BY <1>1, <1>3, <1>4 DEF InputsOK, FedOK, ZlauumTask

LEMMA InputsAre == \A t \in Tasks : InputsOK(t)
BY TaskCases, ReadAIn, ZherkIn, ZgemmIn, ZtrmmIn, ZlauumIn

-----------------------------------------------------------------------------
(* The first update of a tile names every reader of its original.           *)

Reads(t, x) == (\E o \in Operands(t) : o[3] = x) /\ ~(Updates(t) /\ Affinity(t) = x)

LEMMA ReadersOf ==
  ASSUME NEW t \in Tasks, NEW m, NEW n, Reads(t, <<m, n>>)
  PROVE  \/ ReadATask(t, m, n)
         \/ ZherkTask(t, m, n)
         \/ \E i : ZgemmTask(t, m, i, n)
         \/ \E i : ZgemmTask(t, m, n, i)
         \/ m = n /\ \E i : ZtrmmTask(t, n, i)
<1>1. ASSUME NEW a, NEW b, ReadATask(t, a, b) PROVE ReadATask(t, m, n)
  <2>1. <<a, b>> = <<m, n>> BY <1>1 DEF Reads, ReadATask
  <2> QED BY <1>1, <2>1
<1>2. ASSUME NEW a, NEW b, ZherkTask(t, a, b) PROVE ZherkTask(t, m, n)
  <2>1. <<a, b>> = <<m, n>> BY <1>2 DEF Reads, ZherkTask
  <2> QED BY <1>2, <2>1
<1>3. ASSUME NEW a, NEW b, NEW c, ZgemmTask(t, a, b, c)
      PROVE  (\E i : ZgemmTask(t, m, i, n)) \/ (\E i : ZgemmTask(t, m, n, i))
  <2>1. <<a, c>> = <<m, n>> \/ <<a, b>> = <<m, n>> BY <1>3 DEF Reads, ZgemmTask
  <2> QED BY <1>3, <2>1
<1>4. ASSUME NEW a, NEW b, ZtrmmTask(t, a, b) PROVE m = n /\ \E i : ZtrmmTask(t, n, i)
  <2>1. <<a, a>> = <<m, n>> BY <1>4 DEF Reads, ZtrmmTask
  <2> QED BY <1>4, <2>1
<1>5. ASSUME NEW a, ZlauumTask(t, a) PROVE FALSE
  BY <1>5 DEF Reads, ZlauumTask
<1> QED BY <1>1, <1>2, <1>3, <1>4, <1>5, TaskCases

LEMMA FirstUpdateWaits ==
  ASSUME NEW u \in Tasks, Updates(u), Row(u) = Affinity(u)[1],
         NEW t \in Tasks, Reads(t, Affinity(u))
  PROVE  \E d \in In(u) : d[2] = t
<1>1. ASSUME NEW k, NEW n, ZtrmmTask(u, k, n) PROVE \E d \in In(u) : d[2] = t
  <2>1. Reads(t, <<k, n>>) /\ k \in Nat /\ n \in Nat /\ n < k BY <1>1 DEF ZtrmmTask
  <2>2. CASE ReadATask(t, k, n)
    <3>1. <<"B", t, "A">> \in In(u) BY <1>1, <2>2 DEF ZtrmmTask, ztrmm_In, ReadATask
    <3> QED BY <3>1
  <2>3. CASE ZherkTask(t, k, n)
    <3>1. <<"ctl", t, "ctl">> \in In(u) BY <1>1, <2>3 DEF ZtrmmTask, ztrmm_In, ZherkTask
    <3> QED BY <3>1
  <2>4. ASSUME NEW i, ZgemmTask(t, k, i, n) PROVE \E d \in In(u) : d[2] = t
    <3>1. i \in 0 .. n-1 /\ t = lauum_zgemm(k, i, n) BY <2>4 DEF ZgemmTask
    <3>2. <<"ctl", t, "ctl">> \in In(u) BY <1>1, <3>1 DEF ZtrmmTask, ztrmm_In
    <3> QED BY <3>2
  <2>5. ASSUME NEW i, ZgemmTask(t, k, n, i) PROVE \E d \in In(u) : d[2] = t
    <3>1. i \in n+1 .. k-1 /\ t = lauum_zgemm(k, n, i) BY <2>5 DEF ZgemmTask
    <3>2. <<"ctl", t, "ctl">> \in In(u) BY <1>1, <3>1 DEF ZtrmmTask, ztrmm_In
    <3> QED BY <3>2
  <2> QED BY <2>1, <2>2, <2>3, <2>4, <2>5, ReadersOf
<1>2. ASSUME NEW k, ZlauumTask(u, k) PROVE \E d \in In(u) : d[2] = t
  <2>1. Reads(t, <<k, k>>) BY <1>2 DEF ZlauumTask
  <2>2. CASE ReadATask(t, k, k)
    <3>1. <<"A", t, "A">> \in In(u) BY <1>2, <2>2 DEF ZlauumTask, zlauum_In, ReadATask
    <3> QED BY <3>1
  <2>3. ASSUME NEW i, ZtrmmTask(t, k, i) PROVE \E d \in In(u) : d[2] = t
    <3>1. i \in 0 .. k-1 /\ t = lauum_ztrmm(k, i) BY <2>3 DEF ZtrmmTask
    <3>2. <<"ctl", t, "ctl">> \in In(u) BY <1>2, <3>1 DEF ZlauumTask, zlauum_In
    <3> QED BY <3>2
  <2>4. ~ZherkTask(t, k, k) /\ \A i : ~ZgemmTask(t, k, i, k) /\ ~ZgemmTask(t, k, k, i)
    BY DEF ZherkTask, ZgemmTask
  <2> QED BY <2>1, <2>2, <2>3, <2>4, ReadersOf
<1>3. ASSUME NEW m, NEW n, ReadATask(u, m, n) PROVE FALSE
  BY <1>3 DEF ReadATask
<1>4. ASSUME NEW k, NEW n, ZherkTask(u, k, n) PROVE FALSE
  BY <1>4 DEF ZherkTask
<1>5. ASSUME NEW k, NEW n, NEW m, ZgemmTask(u, k, n, m) PROVE FALSE
  BY <1>5 DEF ZgemmTask
<1> QED BY <1>1, <1>2, <1>3, <1>4, <1>5, TaskCases
-----------------------------------------------------------------------------
\* The graph of zlauum_L.jdf meets every condition of OwnerComputes, for every
\* number of tiles and every distribution.
THEOREM GraphWellFormed == WellFormed
<1>1. GraphTyped
  <2>1. ASSUME NEW t \in Tasks, NEW o \in Operands(t) PROVE Expect(t, o[3]) \in Nat
    BY OperandsAre, ExpectIs DEF OperandsOK, Tiles
  <2> QED BY <2>1, OperandsAre, OutAre, InputsAre
             DEF GraphTyped, OperandsOK, OutOK, InputsOK, InOK
<1>2. OwnerUpdates
  BY OperandsAre DEF OwnerUpdates, OperandsOK
<1>3. ArrowsMatch
  BY OutAre, InputsAre DEF ArrowsMatch, OutOK, InputsOK, InOK
<1>4. DataMatch
  <2> SUFFICES ASSUME NEW t \in Tasks, NEW o \in Out(t)
               PROVE  /\ o[1] \in DataFlows(t) <=> o[3] \in DataFlows(o[2])
                      /\ \A p \in Operands(t), q \in Operands(o[2]) :
                           p[1] = o[1] /\ q[1] = o[3] =>
                             /\ q[3] = p[3]
                             /\ Expect(o[2], q[3]) = After(t, p)
                             /\ q[3] = Affinity(o[2]) => p[3] = Affinity(t)
    BY DEF DataMatch
  <2>1. OutOK(t, o) /\ OperandsOK(t) /\ OperandsOK(o[2])
    BY OutAre, OperandsAre DEF OutOK
  <2>2. CASE o[1] = "ctl" /\ o[3] = "ctl"
    BY <2>1, <2>2 DEF DataFlows, OperandsOK
  <2>3. ASSUME NEW a, NEW b, <<o[1], a, Affinity(t)>> \in Operands(t),
               <<o[3], b, Affinity(t)>> \in Operands(o[2])
        PROVE  /\ o[1] \in DataFlows(t) /\ o[3] \in DataFlows(o[2])
               /\ \A p \in Operands(t), q \in Operands(o[2]) :
                    p[1] = o[1] /\ q[1] = o[3] =>
                      p = <<o[1], a, Affinity(t)>> /\ q = <<o[3], b, Affinity(t)>>
    BY <2>1, <2>3 DEF DataFlows, OperandsOK
  <2>4. CASE HandsOut(t, o)
    <3>1. PICK mode : <<o[3], mode, Affinity(t)>> \in Operands(o[2])
      BY <2>4 DEF HandsOut
    <3>2. <<o[1], "READ", Affinity(t)>> \in Operands(t) /\ Expect(o[2], Affinity(t)) = 0
      BY <2>4 DEF HandsOut
    <3>3. Expect(t, Affinity(t)) = 0
      BY <2>4 DEF HandsOut, Expect
    <3> QED BY <2>3, <3>1, <3>2, <3>3 DEF After
  <2>5. CASE PassesOn(t, o)
    <3>1. /\ <<o[1], "RW", Affinity(t)>> \in Operands(t)
          /\ <<o[3], "RW", Affinity(t)>> \in Operands(o[2])
      BY <2>5 DEF PassesOn
    <3>2. /\ Expect(t, Affinity(t)) = Row(t) - Affinity(t)[1]
          /\ Expect(o[2], Affinity(t)) = (Row(t) + 1) - Affinity(t)[1]
      BY <2>1, <2>5, ExpectIs DEF PassesOn, OutOK
    <3>3. Row(t) \in Nat /\ Affinity(t)[1] \in Nat
      BY <2>1, <2>5 DEF PassesOn, OperandsOK, Tiles
    <3>4. Expect(o[2], Affinity(t)) = Expect(t, Affinity(t)) + 1
      BY <3>2, <3>3
    <3> QED BY <2>3, <3>1, <3>4 DEF After
  <2> QED BY <2>1, <2>2, <2>4, <2>5 DEF OutOK
<1>5. FlowsFed
  <2>1. ASSUME NEW t \in Tasks, NEW o \in Operands(t), NEW l \in Load(t), l[1] = o[1]
        PROVE  l[2] = o[3]
    <3>1. <<l[1], "READ", l[2]>> \in Operands(t)
      BY OperandsAre DEF OperandsOK
    <3>2. <<l[1], "READ", l[2]>> = o
      BY <3>1, <2>1, OperandsAre DEF OperandsOK
    <3> QED BY <3>2
  <2> QED BY <2>1, InputsAre DEF FlowsFed, InputsOK, FedOK
<1>6. StoresOwned
  <2> SUFFICES ASSUME NEW t \in Tasks, NEW s \in Store(t)
               PROVE  s[2] = Affinity(t) /\ \E o \in Operands(t) : o[1] = s[1] /\ o[3] = s[2]
    BY DEF StoresOwned
  <2>1. s[2] = Affinity(t) /\ <<s[1], "RW", s[2]>> \in Operands(t)
    BY OperandsAre DEF OperandsOK
  <2> QED BY <2>1
<1>7. OrderEnforced
  <2> SUFFICES ASSUME NEW t \in Tasks, NEW u \in Tasks, Precedes(t, u)
               PROVE  \E d \in In(u) : d[2] = t \/ Precedes(t, d[2])
    BY DEF OrderEnforced
  <2>1. /\ Updates(u) /\ Row(u) \in Nat /\ Affinity(u)[1] \in Nat /\ Affinity(u)[1] <= Row(u)
    BY OperandsAre DEF Precedes, OperandsOK, Tiles
  <2>2. ASSUME Row(u) # Affinity(u)[1]
        PROVE  \E d \in In(u) :
                 /\ d[2] \in Tasks /\ Updates(d[2]) /\ Affinity(d[2]) = Affinity(u)
                 /\ Row(d[2]) \in Nat /\ Row(d[2]) + 1 = Row(u)
    BY <2>1, <2>2, InputsAre, OperandsAre DEF InputsOK, InOK, Follows, OperandsOK
  <2>3. CASE Updates(t) /\ Affinity(t) = Affinity(u) /\ Row(t) < Row(u)
    <3>1. Row(t) \in Nat /\ Affinity(u)[1] <= Row(t)
      BY <2>3, OperandsAre DEF OperandsOK
    <3>2. PICK d \in In(u) :
            /\ d[2] \in Tasks /\ Updates(d[2]) /\ Affinity(d[2]) = Affinity(u)
            /\ Row(d[2]) \in Nat /\ Row(d[2]) + 1 = Row(u)
      BY <2>1, <2>2, <2>3, <3>1
    <3>3. CASE Row(t) = Row(d[2])
      BY <2>3, <3>2, <3>3, WriterUnique
    <3>4. CASE Row(t) # Row(d[2])
      BY <2>1, <2>3, <3>1, <3>2, <3>4 DEF Precedes
    <3> QED BY <3>3, <3>4
  <2>4. CASE /\ t # u /\ ~(Updates(t) /\ Affinity(t) = Affinity(u))
             /\ \E o \in Operands(t) : o[3] = Affinity(u)
    <3>1. CASE Row(u) = Affinity(u)[1]
      BY <2>1, <2>4, <3>1, FirstUpdateWaits DEF Reads
    <3>2. CASE Row(u) # Affinity(u)[1]
      <4>1. PICK d \in In(u) :
              /\ d[2] \in Tasks /\ Updates(d[2]) /\ Affinity(d[2]) = Affinity(u)
        BY <2>2, <3>2
      <4>2. Precedes(t, d[2]) \/ t = d[2]
        BY <2>4, <4>1 DEF Precedes
      <4> QED BY <4>2
    <3> QED BY <3>1, <3>2
  <2> QED BY <2>3, <2>4 DEF Precedes
<1> QED BY <1>1, <1>2, <1>3, <1>4, <1>5, <1>6, <1>7, VersionsOK, OrderOK DEF WellFormed

-----------------------------------------------------------------------------
(* The theorems of OwnerComputes_proofs, for this graph.                   *)

LEMMA SameGraph == WellFormed <=> G!WellFormed
BY DEF WellFormed, GraphTyped, OwnerUpdates, ArrowsMatch, DataMatch, FlowsFed,
       StoresOwned, VersionsCounted, OrderEnforced, OrderSufficient, DataFlows,
       Writes, After,
       G!WellFormed, G!GraphTyped, G!OwnerUpdates, G!ArrowsMatch, G!DataMatch,
       G!FlowsFed, G!StoresOwned, G!VersionsCounted, G!OrderEnforced,
       G!OrderSufficient, G!DataFlows, G!Writes, G!After

LEMMA SameInit == Init <=> G!Init
BY DEF Init, Home, G!Init, G!Home

LEMMA SameNext == [Next]_vars <=> [G!Next]_(G!vars)
BY DEF Next, vars, Start, Complete, Deliver, Enabled, AfterBody,
       Bound, Home, Net, NoCopy, DataFlows, Local, Remote, RankOf, Modified, Updated,
       WrittenBack,
       G!Next, G!vars, G!Start, G!Complete, G!Deliver,
       G!Enabled, G!AfterBody, G!Bound, G!Home, G!Net, G!NoCopy, G!DataFlows, G!Local,
       G!Remote, G!RankOf, G!Modified, G!Updated, G!WrittenBack

LEMMA SameSpec == Spec <=> G!Spec
BY SameInit, SameNext, PTL DEF Spec, G!Spec

\* Type correctness of every execution of zlauum_L.
THEOREM TypeCorrect == Spec => []TypeOK
<1>1. TypeOK <=> G!TypeOK
  BY DEF TypeOK, G!TypeOK
<1> QED BY <1>1, GraphWellFormed, SameGraph, SameSpec, G!TypeCorrect, PTL

\* Every dependency zlauum_L releases is one its target waits for.
THEOREM NoStray == Spec => []NoStrayDependency
<1>1. NoStrayDependency <=> G!NoStrayDependency
  BY DEF NoStrayDependency, G!NoStrayDependency
<1> QED BY <1>1, GraphWellFormed, SameGraph, SameSpec, G!NoStray, PTL

\* Every kernel of zlauum_L works on the originals that it should, and on the
\* product as far as it should be, for the whole time it runs.
THEOREM Currency == Spec => []OperandsCurrent
<1>1. OperandsCurrent <=> G!OperandsCurrent
  BY DEF OperandsCurrent, Bound, DataFlows, Home, NoCopy,
         G!OperandsCurrent, G!Bound, G!DataFlows, G!Home, G!NoCopy
<1> QED BY <1>1, GraphWellFormed, SameGraph, SameSpec, G!Currency, PTL

\* No kernel of zlauum_L overwrites an original that another kernel, or a
\* transfer to another process, is using.
THEOREM RaceFreedom == Spec => []NoRace
<1>1. NoRace <=> G!NoRace
  BY DEF NoRace, Modified, Touched, Bound, DataFlows, Home, NoCopy,
         G!NoRace, G!Modified, G!Touched, G!Bound, G!DataFlows, G!Home, G!NoCopy
<1> QED BY <1>1, GraphWellFormed, SameGraph, SameSpec, G!RaceFreedom, PTL
=============================================================================
