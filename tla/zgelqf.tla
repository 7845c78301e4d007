-------------------------------- MODULE zgelqf -------------------------------
(*****************************************************************************)
(* LQ factorization with a flat tree (zgelqf.jdf), generation of Q           *)
(* (zunglq.jdf) and products with Q (zunmlq_*.jdf, side L or R,              *)
(* transposition N or C): the transposed form of zgeqrf.                     *)
(*****************************************************************************)
EXTENDS Dataflow

CONSTANTS descA, descB, descQ

A(m, n) == Halves("A", m, n)
T(m, n) == Whole("T", m, n)
Q(m, n) == Whole("Q", m, n)
B(m, n) == Whole("B", m, n)

\* The last panel of reflectors of zunglq, and the last one with tiles right of it.
Q_KT  == descA.mt-1
Q_KT2 == MinOf(Q_KT, descQ.nt-2)

-----------------------------------------------------------------------------
zgelqf_zgelqt_typechange ==
  Class1("zgelqt_typechange", 0 .. MinOf(descA.nt-1, descA.mt-1),
    LAMBDA k:
      Forward(A(k, k),
      [A |-> PASS(Upper(A(k, k)), {<<"A", "zgelqt", k>>},
                  If(k < descA.mt-1, Part(Upper(A(k, k)), {<<"A", "zunmlq", k, i>> : i \in k+1 .. descA.mt-1}))
                    \cup {Mem(Upper(A(k, k)))})]))

zgelqf_zgelqt ==
  Class1("zgelqt", 0 .. MinOf(descA.nt-1, descA.mt-1),
    LAMBDA k:
      Task(A(k, k), <<k, 0>>,
      [A |-> RW(A(k, k), IF 0 = k THEN {Mem(A(k, k))} ELSE {<<"A2", "ztsmlq", k-1, k, k>>},
                If(descA.nt = k+1, {Mem(Lower(A(k, k)))})
                  \cup If(descA.nt >= k+2, Part(Lower(A(k, k)), {<<"A1", "ztslqt", k, k+1>>}))
                  \cup {<<"A", "zgelqt_typechange", k>>}),
       T |-> RW(T(k, k), {Mem(T(k, k))},
                {Mem(T(k, k))}
                  \cup If(descA.mt-1 > k, {<<"T", "zunmlq", k, i>> : i \in k+1 .. descA.mt-1}))]))

zgelqf_zunmlq ==
  Class2("zunmlq", 0 .. MinOf(descA.nt-1, descA.mt-2), LAMBDA k: k+1 .. descA.mt-1,
    LAMBDA k, m:
      Task(A(m, k), <<k, 1>>,
      [A |-> READ(Upper(A(k, k)), Part(Upper(A(k, k)), {<<"A", "zgelqt_typechange", k>>}), {}),
       T |-> READ(T(k, k), {<<"T", "zgelqt", k>>}, {}),
       C |-> RW(A(m, k), IF k = 0 THEN {Mem(A(m, k))} ELSE {<<"A2", "ztsmlq", k-1, k, m>>},
                If(k = descA.nt-1, {Mem(A(m, k))})
                  \cup If(k < descA.nt-1, {<<"A1", "ztsmlq", k, k+1, m>>}))]))

zgelqf_ztslqt_out_A0 ==
  Class1("ztslqt_out_A0", 0 .. (IF descA.nt <= descA.mt THEN descA.nt-2 ELSE descA.mt-1),
    LAMBDA k:
      Forward(A(k, k),
      [A1 |-> PASS(Lower(A(k, k)), Part(Lower(A(k, k)), {<<"A1", "ztslqt", k, descA.nt-1>>}),
                   {Mem(Lower(A(k, k)))})]))

zgelqf_ztslqt ==
  Class2("ztslqt", 0 .. MinOf(descA.nt-2, descA.mt-1), LAMBDA k: k+1 .. descA.nt-1,
    LAMBDA k, n:
      Task(A(k, n), <<k, 2, n, 0>>,
      [A1 |-> RW(Lower(A(k, k)),
                 IF n = k+1 THEN Part(Lower(A(k, k)), {<<"A", "zgelqt", n-1>>})
                 ELSE Part(Lower(A(k, k)), {<<"A1", "ztslqt", k, n-1>>}),
                 IF n = descA.nt-1
                 THEN Part(Lower(A(k, k)), {<<"A1", "ztslqt_out_A0", k>>})
                 ELSE Part(Lower(A(k, k)), {<<"A1", "ztslqt", k, n+1>>})),
       A2 |-> RW(A(k, n), IF k = 0 THEN {Mem(A(k, n))} ELSE {<<"A2", "ztsmlq", k-1, n, k>>},
                 {Mem(A(k, n))}
                   \cup If(k < descA.mt-1, {<<"V", "ztsmlq", k, n, i>> : i \in k+1 .. descA.mt-1})),
       T |-> RW(T(k, n), {Mem(T(k, n))},
                {Mem(T(k, n))}
                  \cup If(k < descA.mt-1, {<<"T", "ztsmlq", k, n, i>> : i \in k+1 .. descA.mt-1}))]))

zgelqf_ztsmlq_out_A1 ==
  Class2("ztsmlq_out_A1", 0 .. MinOf(descA.nt-2, descA.mt-2), LAMBDA k: k+1 .. descA.mt-1,
    LAMBDA k, m:
      Forward(A(m, k),
      [A1 |-> PASS(A(m, k), {<<"A1", "ztsmlq", k, descA.nt-1, m>>}, {Mem(A(m, k))})]))

zgelqf_ztsmlq ==
  Class3("ztsmlq", 0 .. MinOf(descA.mt-2, descA.nt-2), LAMBDA k: k+1 .. descA.nt-1, LAMBDA k, n: k+1 .. descA.mt-1,
    LAMBDA k, n, m:
      Task(A(m, n), <<k, 2, n, 1>>,
      [A1 |-> RW(A(m, k),
                 IF k+1 = n THEN {<<"C", "zunmlq", k, m>>} ELSE {<<"A1", "ztsmlq", k, n-1, m>>},
                 IF n = descA.nt-1 THEN {<<"A1", "ztsmlq_out_A1", k, m>>}
                 ELSE {<<"A1", "ztsmlq", k, n+1, m>>}),
       A2 |-> RW(A(m, n), IF 0 = k THEN {Mem(A(m, n))} ELSE {<<"A2", "ztsmlq", k-1, n, m>>},
                 If(k+1 = n /\ k+1 = m, {<<"A", "zgelqt", m>>})
                   \cup If(k+1 = m /\ n > m, {<<"A2", "ztslqt", m, n>>})
                   \cup If(k+1 = n /\ m > n, {<<"C", "zunmlq", k+1, m>>})
                   \cup If(k+1 < n /\ 1+k < m, {<<"A2", "ztsmlq", k+1, n, m>>})),
       V |-> READ(A(k, n), {<<"A2", "ztslqt", k, n>>}, {}),
       T |-> READ(T(k, n), {<<"T", "ztslqt", k, n>>}, {})]))

zgelqf ==
  zgelqf_zgelqt_typechange @@ zgelqf_zgelqt @@ zgelqf_zunmlq @@ zgelqf_ztslqt_out_A0 @@
  zgelqf_ztslqt @@ zgelqf_ztsmlq_out_A1 @@ zgelqf_ztsmlq

-----------------------------------------------------------------------------
zunglq_zlaset ==
  Class2("zlaset", 0 .. descQ.mt-1, LAMBDA m: 0 .. descQ.nt-1,
    LAMBDA m, n:
      LET k == MinOf(Q_KT, MinOf(m, n))
          cc == descQ.nt = descA.mt /\ m = descQ.nt-1 /\ n = descQ.nt-1
      IN
      Task(Q(m, n), <<0>>,
      [A |-> WRITE(Q(m, n), {Mem(Q(m, n))},
                   If(cc, {<<"C", "zunmlq", k, m>>})
                     \cup If(~cc /\ n <= Q_KT /\ m >= n, {<<"A1", "ztsmlq", k, descQ.nt-1, m>>})
                     \cup If(~cc /\ (n > Q_KT \/ m < n), {<<"A2", "ztsmlq", k, n, m>>}))]))

zunglq_zunmlq ==
  Class2("zunmlq", 0 .. Q_KT, LAMBDA k: k .. descQ.mt-1,
    LAMBDA k, m:
      Task(Q(m, k), <<1, Q_KT-k, descQ.nt>>,
      [A |-> READ(Upper(A(k, k)), Part(Upper(A(k, k)), {<<"A", "zunmlq_in_data_A0", k>>}), {}),
       T |-> READ(T(k, k), {<<"T", "zunmlq_in_data_T1", k>>}, {}),
       C |-> RW(Q(m, k),
                If(k = descQ.nt-1, {<<"A", "zlaset", m, k>>})
                  \cup If(k < descQ.nt-1, {<<"A1", "ztsmlq", k, k+1, m>>}),
                If(k = 0, {Mem(Q(m, k))}) \cup If(k > 0, {<<"A2", "ztsmlq", k-1, k, m>>}))]))

zunglq_zunmlq_in_data_T1 ==
  Class1("zunmlq_in_data_T1", 0 .. Q_KT,
    LAMBDA k:
      Forward(T(k, k),
      [T |-> PASS(T(k, k), {Mem(T(k, k))}, {<<"T", "zunmlq", k, i>> : i \in k .. descQ.mt-1})]))

zunglq_zunmlq_in_data_A0 ==
  Class1("zunmlq_in_data_A0", 0 .. Q_KT,
    LAMBDA k:
      Forward(A(k, k),
      [A |-> PASS(Upper(A(k, k)), {Mem(A(k, k))},
                  Part(Upper(A(k, k)), {<<"A", "zunmlq", k, i>> : i \in k .. descQ.mt-1}))]))

zunglq_ztsmlq ==
  Class3("ztsmlq", 0 .. Q_KT, LAMBDA k: k+1 .. descQ.nt-1, LAMBDA k, n: k .. descQ.mt-1,
    LAMBDA k, n, m:
      Task(Q(m, n), <<1, Q_KT-k, descQ.nt-n>>,
      [A1 |-> RW(Q(m, k),
                 If(n = descQ.nt-1, {<<"A", "zlaset", m, k>>})
                   \cup If(n < descQ.nt-1, {<<"A1", "ztsmlq", k, n+1, m>>}),
                 If(n = k+1, {<<"C", "zunmlq", k, m>>})
                   \cup If(n > k+1, {<<"A1", "ztsmlq", k, n-1, m>>})),
       A2 |-> RW(Q(m, n),
                 If(k = Q_KT \/ m = k, {<<"A", "zlaset", m, n>>})
                   \cup If(k < Q_KT /\ m > k /\ n = k+1, {<<"C", "zunmlq", k+1, m>>})
                   \cup If(k < Q_KT /\ m > k /\ n > k+1, {<<"A2", "ztsmlq", k+1, n, m>>}),
                 If(k = 0, {Mem(Q(m, n))}) \cup If(k > 0, {<<"A2", "ztsmlq", k-1, n, m>>})),
       V |-> READ(A(k, n), {<<"V", "ztsmlq_in_data_A1", k, n>>}, {}),
       T |-> READ(T(k, n), {<<"T", "ztsmlq_in_data_T2", k, n>>}, {})]))

zunglq_ztsmlq_in_data_T2 ==
  Class2("ztsmlq_in_data_T2", 0 .. Q_KT2, LAMBDA k: k+1 .. descQ.nt-1,
    LAMBDA k, n:
      Forward(T(k, n),
      [T |-> PASS(T(k, n), {Mem(T(k, n))}, {<<"T", "ztsmlq", k, n, i>> : i \in k .. descQ.mt-1})]))

zunglq_ztsmlq_in_data_A1 ==
  Class2("ztsmlq_in_data_A1", 0 .. Q_KT2, LAMBDA k: k+1 .. descQ.nt-1,
    LAMBDA k, n:
      Forward(A(k, n),
      [V |-> PASS(A(k, n), {Mem(A(k, n))}, {<<"V", "ztsmlq", k, n, i>> : i \in k .. descQ.mt-1})]))

zunglq ==
  zunglq_zlaset @@ zunglq_zunmlq @@ zunglq_zunmlq_in_data_T1 @@ zunglq_zunmlq_in_data_A0 @@
  zunglq_ztsmlq @@ zunglq_ztsmlq_in_data_T2 @@ zunglq_ztsmlq_in_data_A1

-----------------------------------------------------------------------------
zunmlq_LN_zunmlq ==
  Class2("zunmlq", 0 .. descA.mt-1, LAMBDA k: 0 .. descB.nt-1,
    LAMBDA k, n:
      Task(B(k, n), <<k, 0>>,
      [A |-> READ(Upper(A(k, k)), Part(Upper(A(k, k)), {<<"A", "zunmlq_in_data_A0", k>>}), {}),
       T |-> READ(T(k, k), {<<"T", "zunmlq_in_data_T1", k>>}, {}),
       C |-> RW(B(k, n),
                If(k = 0, {Mem(B(k, n))}) \cup If(k > 0, {<<"A2", "ztsmlq", k-1, k, n>>}),
                If(k < descB.mt-1, {<<"A1", "ztsmlq", k, k+1, n>>})
                  \cup If(k = descB.mt-1, {Mem(B(k, n))}))]))

zunmlq_LN_zunmlq_in_data_T1 ==
  Class1("zunmlq_in_data_T1", 0 .. descA.mt-1,
    LAMBDA k:
      Forward(T(k, k),
      [T |-> PASS(T(k, k), {Mem(T(k, k))}, {<<"T", "zunmlq", k, i>> : i \in 0 .. descB.nt-1})]))

zunmlq_LN_zunmlq_in_data_A0 ==
  Class1("zunmlq_in_data_A0", 0 .. descA.mt-1,
    LAMBDA k:
      Forward(A(k, k),
      [A |-> PASS(Upper(A(k, k)), {Mem(A(k, k))},
                  Part(Upper(A(k, k)), {<<"A", "zunmlq", k, i>> : i \in 0 .. descB.nt-1}))]))

zunmlq_LN_ztsmlq ==
  Class3("ztsmlq", 0 .. MinOf(descA.nt-2, descA.mt-1), LAMBDA k: k+1 .. descB.mt-1, LAMBDA k, m: 0 .. descB.nt-1,
    LAMBDA k, m, n:
      Task(B(m, n), <<k, 1, m>>,
      [A1 |-> RW(B(k, n),
                 If(m = k+1, {<<"C", "zunmlq", k, n>>})
                   \cup If(m > k+1, {<<"A1", "ztsmlq", k, m-1, n>>}),
                 If(m < descB.mt-1, {<<"A1", "ztsmlq", k, m+1, n>>})
                   \cup If(m = descB.mt-1, {<<"A1", "ztsmlq_out_data_B0", k, n>>})),
       A2 |-> RW(B(m, n),
                 If(k = 0, {Mem(B(m, n))}) \cup If(k > 0, {<<"A2", "ztsmlq", k-1, m, n>>}),
                 If(k = descA.mt-1, {Mem(B(m, n))})
                   \cup If(k < descA.mt-1 /\ m = k+1, {<<"C", "zunmlq", k+1, n>>})
                   \cup If(k < descA.mt-1 /\ m > k+1, {<<"A2", "ztsmlq", k+1, m, n>>})),
       V |-> READ(A(k, m), {<<"V", "ztsmlq_in_data_A1", k, m>>}, {}),
       T |-> READ(T(k, m), {<<"T", "ztsmlq_in_data_T2", k, m>>}, {})]))

zunmlq_LN_ztsmlq_in_data_T2 ==
  Class2("ztsmlq_in_data_T2", 0 .. MinOf(descB.mt-2, descA.mt-1), LAMBDA k: k+1 .. descB.mt-1,
    LAMBDA k, m:
      Forward(T(k, m),
      [T |-> PASS(T(k, m), {Mem(T(k, m))}, {<<"T", "ztsmlq", k, m, i>> : i \in 0 .. descB.nt-1})]))

zunmlq_LN_ztsmlq_in_data_A1 ==
  Class2("ztsmlq_in_data_A1", 0 .. MinOf(descB.mt-2, descA.mt-1), LAMBDA k: k+1 .. descB.mt-1,
    LAMBDA k, m:
      Forward(A(k, m),
      [V |-> PASS(A(k, m), {Mem(A(k, m))}, {<<"V", "ztsmlq", k, m, i>> : i \in 0 .. descB.nt-1})]))

zunmlq_LN_ztsmlq_out_data_B0 ==
  Class2("ztsmlq_out_data_B0", 0 .. MinOf(descB.mt-2, descA.mt-1), LAMBDA k: 0 .. descB.nt-1,
    LAMBDA k, n:
      Forward(B(k, n),
      [A1 |-> PASS(B(k, n), {<<"A1", "ztsmlq", k, descB.mt-1, n>>}, {Mem(B(k, n))})]))

zunmlq_LN ==
  zunmlq_LN_zunmlq @@ zunmlq_LN_zunmlq_in_data_T1 @@ zunmlq_LN_zunmlq_in_data_A0 @@
  zunmlq_LN_ztsmlq @@ zunmlq_LN_ztsmlq_in_data_T2 @@ zunmlq_LN_ztsmlq_in_data_A1 @@
  zunmlq_LN_ztsmlq_out_data_B0

-----------------------------------------------------------------------------
zunmlq_LC_zunmlq ==
  Class2("zunmlq", 0 .. descA.mt-1, LAMBDA k: 0 .. descB.nt-1,
    LAMBDA k, n:
      Task(B(k, n), <<-k, 1>>,
      [A |-> READ(Upper(A(k, k)), Part(Upper(A(k, k)), {<<"A", "zunmlq_in_data_A0", k>>}), {}),
       T |-> READ(T(k, k), {<<"T", "zunmlq_in_data_T1", k>>}, {}),
       C |-> RW(B(k, n),
                If(k < descB.mt-1, {<<"A1", "ztsmlq", k, k+1, n>>})
                  \cup If(k = descB.mt-1, {Mem(B(k, n))}),
                If(k = 0, {Mem(B(k, n))}) \cup If(k > 0, {<<"A2", "ztsmlq", k-1, k, n>>}))]))

zunmlq_LC_zunmlq_in_data_T1 ==
  Class1("zunmlq_in_data_T1", 0 .. descA.mt-1,
    LAMBDA k:
      Forward(T(k, k),
      [T |-> PASS(T(k, k), {Mem(T(k, k))}, {<<"T", "zunmlq", k, i>> : i \in 0 .. descB.nt-1})]))

zunmlq_LC_zunmlq_in_data_A0 ==
  Class1("zunmlq_in_data_A0", 0 .. descA.mt-1,
    LAMBDA k:
      Forward(A(k, k),
      [A |-> PASS(Upper(A(k, k)), {Mem(A(k, k))},
                  Part(Upper(A(k, k)), {<<"A", "zunmlq", k, i>> : i \in 0 .. descB.nt-1}))]))

zunmlq_LC_ztsmlq ==
  Class3("ztsmlq", 0 .. MinOf(descA.nt-2, descA.mt-1), LAMBDA k: k+1 .. descB.mt-1, LAMBDA k, m: 0 .. descB.nt-1,
    LAMBDA k, m, n:
      Task(B(m, n), <<-k, 0, -m>>,
      [A1 |-> RW(B(k, n),
                 If(m < descB.mt-1, {<<"A1", "ztsmlq", k, m+1, n>>})
                   \cup If(m = descB.mt-1, {<<"A1", "ztsmlq_out_data_B0", k, n>>}),
                 If(m = k+1, {<<"C", "zunmlq", k, n>>})
                   \cup If(m > k+1, {<<"A1", "ztsmlq", k, m-1, n>>})),
       A2 |-> RW(B(m, n),
                 If(k = descA.mt-1, {Mem(B(m, n))})
                   \cup If(k < descA.mt-1 /\ m = k+1, {<<"C", "zunmlq", k+1, n>>})
                   \cup If(k < descA.mt-1 /\ m > k+1, {<<"A2", "ztsmlq", k+1, m, n>>}),
                 If(k = 0, {Mem(B(m, n))}) \cup If(k > 0, {<<"A2", "ztsmlq", k-1, m, n>>})),
       V |-> READ(A(k, m), {<<"V", "ztsmlq_in_data_A1", k, m>>}, {}),
       T |-> READ(T(k, m), {<<"T", "ztsmlq_in_data_T2", k, m>>}, {})]))

zunmlq_LC_ztsmlq_in_data_T2 ==
  Class2("ztsmlq_in_data_T2", 0 .. MinOf(descB.mt-2, descA.mt-1), LAMBDA k: k+1 .. descB.mt-1,
    LAMBDA k, m:
      Forward(T(k, m),
      [T |-> PASS(T(k, m), {Mem(T(k, m))}, {<<"T", "ztsmlq", k, m, i>> : i \in 0 .. descB.nt-1})]))

zunmlq_LC_ztsmlq_in_data_A1 ==
  Class2("ztsmlq_in_data_A1", 0 .. MinOf(descB.mt-2, descA.mt-1), LAMBDA k: k+1 .. descB.mt-1,
    LAMBDA k, m:
      Forward(A(k, m),
      [V |-> PASS(A(k, m), {Mem(A(k, m))}, {<<"V", "ztsmlq", k, m, i>> : i \in 0 .. descB.nt-1})]))

zunmlq_LC_ztsmlq_out_data_B0 ==
  Class2("ztsmlq_out_data_B0", 0 .. MinOf(descB.mt-2, descA.mt-1), LAMBDA k: 0 .. descB.nt-1,
    LAMBDA k, n:
      Forward(B(k, n),
      [A1 |-> PASS(B(k, n), {Mem(B(k, n))}, {<<"A1", "ztsmlq", k, descB.mt-1, n>>})]))

zunmlq_LC ==
  zunmlq_LC_zunmlq @@ zunmlq_LC_zunmlq_in_data_T1 @@ zunmlq_LC_zunmlq_in_data_A0 @@
  zunmlq_LC_ztsmlq @@ zunmlq_LC_ztsmlq_in_data_T2 @@ zunmlq_LC_ztsmlq_in_data_A1 @@
  zunmlq_LC_ztsmlq_out_data_B0

-----------------------------------------------------------------------------
zunmlq_RN_zunmlq ==
  Class2("zunmlq", 0 .. descA.mt-1, LAMBDA k: 0 .. descB.mt-1,
    LAMBDA k, m:
      Task(B(m, k), <<-k, 1>>,
      [A |-> READ(Upper(A(k, k)), Part(Upper(A(k, k)), {<<"A", "zunmlq_in_data_A0", k>>}), {}),
       T |-> READ(T(k, k), {<<"T", "zunmlq_in_data_T1", k>>}, {}),
       C |-> RW(B(m, k),
                If(k < descB.nt-1, {<<"A1", "ztsmlq", k, k+1, m>>})
                  \cup If(k = descB.nt-1, {Mem(B(m, k))}),
                If(k = 0, {Mem(B(m, k))}) \cup If(k > 0, {<<"A2", "ztsmlq", k-1, k, m>>}))]))

zunmlq_RN_zunmlq_in_data_T1 ==
  Class1("zunmlq_in_data_T1", 0 .. descA.mt-1,
    LAMBDA k:
      Forward(T(k, k),
      [T |-> PASS(T(k, k), {Mem(T(k, k))}, {<<"T", "zunmlq", k, i>> : i \in 0 .. descB.mt-1})]))

zunmlq_RN_zunmlq_in_data_A0 ==
  Class1("zunmlq_in_data_A0", 0 .. descA.mt-1,
    LAMBDA k:
      Forward(A(k, k),
      [A |-> PASS(Upper(A(k, k)), {Mem(A(k, k))},
                  Part(Upper(A(k, k)), {<<"A", "zunmlq", k, i>> : i \in 0 .. descB.mt-1}))]))

zunmlq_RN_ztsmlq ==
  Class3("ztsmlq", 0 .. MinOf(descB.nt-2, descA.mt-1), LAMBDA k: k+1 .. descB.nt-1, LAMBDA k, n: 0 .. descB.mt-1,
    LAMBDA k, n, m:
      Task(B(m, n), <<-k, 0, -n>>,
      [A1 |-> RW(B(m, k),
                 If(n < descB.nt-1, {<<"A1", "ztsmlq", k, n+1, m>>})
                   \cup If(n = descB.nt-1, {<<"A1", "ztsmlq_out_data_B0", k, m>>}),
                 If(n = k+1, {<<"C", "zunmlq", k, m>>})
                   \cup If(n > k+1, {<<"A1", "ztsmlq", k, n-1, m>>})),
       A2 |-> RW(B(m, n),
                 If(k = descA.mt-1, {Mem(B(m, n))})
                   \cup If(k < descA.mt-1 /\ n = k+1, {<<"C", "zunmlq", k+1, m>>})
                   \cup If(k < descA.mt-1 /\ n > k+1, {<<"A2", "ztsmlq", k+1, n, m>>}),
                 If(k = 0, {Mem(B(m, n))}) \cup If(k > 0, {<<"A2", "ztsmlq", k-1, n, m>>})),
       V |-> READ(A(k, n), {<<"V", "ztsmlq_in_data_A1", k, n>>}, {}),
       T |-> READ(T(k, n), {<<"T", "ztsmlq_in_data_T2", k, n>>}, {})]))

zunmlq_RN_ztsmlq_in_data_T2 ==
  Class2("ztsmlq_in_data_T2", 0 .. MinOf(descB.nt-2, descA.mt-1), LAMBDA k: k+1 .. descB.nt-1,
    LAMBDA k, n:
      Forward(T(k, n),
      [T |-> PASS(T(k, n), {Mem(T(k, n))}, {<<"T", "ztsmlq", k, n, i>> : i \in 0 .. descB.mt-1})]))

zunmlq_RN_ztsmlq_in_data_A1 ==
  Class2("ztsmlq_in_data_A1", 0 .. MinOf(descB.nt-2, descA.mt-1), LAMBDA k: k+1 .. descB.nt-1,
    LAMBDA k, n:
      Forward(A(k, n),
      [V |-> PASS(A(k, n), {Mem(A(k, n))}, {<<"V", "ztsmlq", k, n, i>> : i \in 0 .. descB.mt-1})]))

zunmlq_RN_ztsmlq_out_data_B0 ==
  Class2("ztsmlq_out_data_B0", 0 .. MinOf(descB.nt-2, descA.mt-1), LAMBDA k: 0 .. descB.mt-1,
    LAMBDA k, m:
      Forward(B(m, k),
      [A1 |-> PASS(B(m, k), {Mem(B(m, k))}, {<<"A1", "ztsmlq", k, descB.nt-1, m>>})]))

zunmlq_RN ==
  zunmlq_RN_zunmlq @@ zunmlq_RN_zunmlq_in_data_T1 @@ zunmlq_RN_zunmlq_in_data_A0 @@
  zunmlq_RN_ztsmlq @@ zunmlq_RN_ztsmlq_in_data_T2 @@ zunmlq_RN_ztsmlq_in_data_A1 @@
  zunmlq_RN_ztsmlq_out_data_B0

-----------------------------------------------------------------------------
zunmlq_RC_zunmlq ==
  Class2("zunmlq", 0 .. descA.mt-1, LAMBDA k: 0 .. descB.mt-1,
    LAMBDA k, m:
      Task(B(m, k), <<k, 0>>,
      [A |-> READ(Upper(A(k, k)), Part(Upper(A(k, k)), {<<"A", "zunmlq_in_data_A0", k>>}), {}),
       T |-> READ(T(k, k), {<<"T", "zunmlq_in_data_T1", k>>}, {}),
       C |-> RW(B(m, k),
                If(k = 0, {Mem(B(m, k))}) \cup If(k > 0, {<<"A2", "ztsmlq", k-1, k, m>>}),
                If(k < descB.nt-1, {<<"A1", "ztsmlq", k, k+1, m>>})
                  \cup If(k = descB.nt-1, {Mem(B(m, k))}))]))

zunmlq_RC_zunmlq_in_data_T1 ==
  Class1("zunmlq_in_data_T1", 0 .. descA.mt-1,
    LAMBDA k:
      Forward(T(k, k),
      [T |-> PASS(T(k, k), {Mem(T(k, k))}, {<<"T", "zunmlq", k, i>> : i \in 0 .. descB.mt-1})]))

zunmlq_RC_zunmlq_in_data_A0 ==
  Class1("zunmlq_in_data_A0", 0 .. descA.mt-1,
    LAMBDA k:
      Forward(A(k, k),
      [A |-> PASS(Upper(A(k, k)), {Mem(A(k, k))},
                  Part(Upper(A(k, k)), {<<"A", "zunmlq", k, i>> : i \in 0 .. descB.mt-1}))]))

zunmlq_RC_ztsmlq ==
  Class3("ztsmlq", 0 .. MinOf(descB.nt-2, descA.mt-1), LAMBDA k: k+1 .. descB.nt-1, LAMBDA k, n: 0 .. descB.mt-1,
    LAMBDA k, n, m:
      Task(B(m, n), <<k, 1, n>>,
      [A1 |-> RW(B(m, k),
                 If(n = k+1, {<<"C", "zunmlq", k, m>>})
                   \cup If(n > k+1, {<<"A1", "ztsmlq", k, n-1, m>>}),
                 If(n < descB.nt-1, {<<"A1", "ztsmlq", k, n+1, m>>})
                   \cup If(n = descB.nt-1, {<<"A1", "ztsmlq_out_data_B0", k, m>>})),
       A2 |-> RW(B(m, n),
                 If(k = 0, {Mem(B(m, n))}) \cup If(k > 0, {<<"A2", "ztsmlq", k-1, n, m>>}),
                 If(k = descA.mt-1, {Mem(B(m, n))})
                   \cup If(k < descA.mt-1 /\ n = k+1, {<<"C", "zunmlq", k+1, m>>})
                   \cup If(k < descA.mt-1 /\ n > k+1, {<<"A2", "ztsmlq", k+1, n, m>>})),
       V |-> READ(A(k, n), {<<"V", "ztsmlq_in_data_A1", k, n>>}, {}),
       T |-> READ(T(k, n), {<<"T", "ztsmlq_in_data_T2", k, n>>}, {})]))

zunmlq_RC_ztsmlq_in_data_T2 ==
  Class2("ztsmlq_in_data_T2", 0 .. MinOf(descB.nt-2, descA.mt-1), LAMBDA k: k+1 .. descB.nt-1,
    LAMBDA k, n:
      Forward(T(k, n),
      [T |-> PASS(T(k, n), {Mem(T(k, n))}, {<<"T", "ztsmlq", k, n, i>> : i \in 0 .. descB.mt-1})]))

zunmlq_RC_ztsmlq_in_data_A1 ==
  Class2("ztsmlq_in_data_A1", 0 .. MinOf(descB.nt-2, descA.mt-1), LAMBDA k: k+1 .. descB.nt-1,
    LAMBDA k, n:
      Forward(A(k, n),
      [V |-> PASS(A(k, n), {Mem(A(k, n))}, {<<"V", "ztsmlq", k, n, i>> : i \in 0 .. descB.mt-1})]))

zunmlq_RC_ztsmlq_out_data_B0 ==
  Class2("ztsmlq_out_data_B0", 0 .. MinOf(descB.nt-2, descA.mt-1), LAMBDA k: 0 .. descB.mt-1,
    LAMBDA k, m:
      Forward(B(m, k),
      [A1 |-> PASS(B(m, k), {<<"A1", "ztsmlq", k, descB.nt-1, m>>}, {Mem(B(m, k))})]))

zunmlq_RC ==
  zunmlq_RC_zunmlq @@ zunmlq_RC_zunmlq_in_data_T1 @@ zunmlq_RC_zunmlq_in_data_A0 @@
  zunmlq_RC_ztsmlq @@ zunmlq_RC_ztsmlq_in_data_T2 @@ zunmlq_RC_ztsmlq_in_data_A1 @@
  zunmlq_RC_ztsmlq_out_data_B0

-----------------------------------------------------------------------------
\* The shapes that dplasma_zunglq_New accepts.
zunglq_Legal == descQ.mt <= descQ.nt /\ descA.mt <= descQ.mt

\* dplasma_zunmlq_New: the shapes it accepts and the graph it chooses.
zunmlq_Legal(side) ==
  LET b == IF side = "Left" THEN descB.mt ELSE descB.nt
  IN  descA.nt = b /\ descA.mt <= b

zunmlq_New(side, trans) ==
  IF side = "Left" THEN IF trans = "NoTrans" THEN zunmlq_LN ELSE zunmlq_LC
  ELSE IF trans = "NoTrans" THEN zunmlq_RN ELSE zunmlq_RC
==============================================================================
