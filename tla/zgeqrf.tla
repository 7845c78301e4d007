-------------------------------- MODULE zgeqrf -------------------------------
(*****************************************************************************)
(* QR factorization with a flat tree (zgeqrf.jdf), generation of Q           *)
(* (zungqr.jdf) and products with Q (zunmqr_*.jdf, side L or R,              *)
(* transposition N or C). T holds the factors of the block reflectors. The   *)
(* two triangles of a diagonal tile go separate ways: the reflectors V       *)
(* below, and R, which the ztsqrt tasks of the column update on.             *)
(*                                                                           *)
(* With recursive bodies each kernel of zgeqrf.jdf is itself a graph         *)
(* (zgeqrfr_*.jdf) over the column panels of its tiles; ztsqrt works on      *)
(* the upper triangle of A1 only.                                            *)
(*****************************************************************************)
EXTENDS Dataflow

CONSTANTS descA, descB, descQ, ragged

A(m, n) == Halves("A", m, n)
T(m, n) == Whole("T", m, n)
Q(m, n) == Whole("Q", m, n)
B(m, n) == Whole("B", m, n)
A2(m, n) == Whole("A2", m, n)
V(m, n) == Whole("V", m, n)

\* The last panel of reflectors of zungqr, and the last one with tiles below it.
Q_KT  == descA.nt-1
Q_KT2 == MinOf(Q_KT, descQ.mt-2)

\* The last panel of reflectors with tiles below it.
KT == MinOf(descA.mt-2, descA.nt-1)

\* The recursive bodies cut a tile into column panels. Its rows are counted in blocks of
\* the width of a panel, of which the last one may be shorter (ragged).
PanelA(m, n)  == {<<"A", m, n, i>> : i \in 0 .. descA.mt-1}
PanelC(m, n)  == {<<"C", m, n, i>> : i \in 0 .. descA.mt-1}
PanelA1(m, n) == UNION {{<<"A1", m, n, i, "U">>, <<"A1", m, n, i, "L">>} : i \in 0 .. descA.nt-1}
From(k, panel)   == {r \in panel : r[4] >= k}
RowOf(k, panel)  == {r \in panel : r[4] = k}
DiagonalBlock(k) == {r \in RowOf(k, PanelA1(0, k)) : r[5] = "U"}

minMNT == MinOf(descA.nt, descA.mt)-1

\* CORE_zunmqr refuses to apply more reflectors than it has rows: a whole block of them to the last,
\* shorter block row.
Refused(k) == ragged /\ k = descA.mt-1

-----------------------------------------------------------------------------
\* Mutant of zgeqrf_zgeqrt_typechange. Sends the wrong triangle.
zgeqrt_typechange_Upper ==
  Class1("zgeqrt_typechange", 0 .. MinOf(descA.nt-1, descA.mt-1),
    LAMBDA k:
      Forward(A(k, k),
      [A |-> PASS(Lower(A(k, k)), {<<"A", "zgeqrt", k>>},
                  If(k < descA.nt-1, Part(Upper(A(k, k)), {<<"A", "zunmqr", k, i>> : i \in k+1 .. descA.nt-1}))
                    \cup {Mem(Lower(A(k, k)))})]))

zgeqrf_zgeqrt_typechange ==
  Class1("zgeqrt_typechange", 0 .. MinOf(descA.nt-1, descA.mt-1),
    LAMBDA k:
      Forward(A(k, k),
      [A |-> PASS(Lower(A(k, k)), {<<"A", "zgeqrt", k>>},
                  If(k < descA.nt-1, Part(Lower(A(k, k)), {<<"A", "zunmqr", k, i>> : i \in k+1 .. descA.nt-1}))
                    \cup {Mem(Lower(A(k, k)))})]))

zgeqrf_zgeqrt ==
  Class1("zgeqrt", 0 .. MinOf(descA.nt-1, descA.mt-1),
    LAMBDA k:
      Task(A(k, k), <<k, 0>>,
      [A |-> RW(A(k, k),
                If(0 = k, {Mem(A(k, k))}) \cup If(0 # k, {<<"A2", "ztsmqr", k-1, k, k>>}),
                If(descA.mt = k+1, {Mem(A(k, k))})
                  \cup If(descA.mt >= k+2, Part(Upper(A(k, k)), {<<"A1", "ztsqrt", k, k+1>>}))
                  \cup {<<"A", "zgeqrt_typechange", k>>}),
       T |-> RW(T(k, k), {Mem(T(k, k))},
                {Mem(T(k, k))}
                  \cup If(descA.nt-1 > k, {<<"T", "zunmqr", k, i>> : i \in k+1 .. descA.nt-1}))]))

zgeqrf_zunmqr ==
  Class2("zunmqr", 0 .. MinOf(descA.nt-2, descA.mt-1), LAMBDA k: k+1 .. descA.nt-1,
    LAMBDA k, n:
      Task(A(k, n), <<k, 1>>,
      [A |-> READ(Lower(A(k, k)), Part(Lower(A(k, k)), {<<"A", "zgeqrt_typechange", k>>}), {}),
       T |-> READ(T(k, k), {<<"T", "zgeqrt", k>>}, {}),
       C |-> RW(A(k, n),
                If(k = 0, {Mem(A(k, n))}) \cup If(k # 0, {<<"A2", "ztsmqr", k-1, k, n>>}),
                If(k = descA.mt-1, {Mem(A(k, n))})
                  \cup If(k < descA.mt-1, {<<"A1", "ztsmqr", k, k+1, n>>}))]))

\* Mutant of zgeqrf_ztsqrt_out_Ak. Does not store the triangle.
ztsqrt_out_Ak_Keep ==
  Class1("ztsqrt_out_Ak", 0 .. (IF descA.mt <= descA.nt THEN descA.mt-2 ELSE descA.nt-1),
    LAMBDA k:
      Forward(A(k, k),
      [A1 |-> PASS(Upper(A(k, k)), Part(Upper(A(k, k)), {<<"A1", "ztsqrt", k, descA.mt-1>>}),
                   {})]))

zgeqrf_ztsqrt_out_Ak ==
  Class1("ztsqrt_out_Ak", 0 .. (IF descA.mt <= descA.nt THEN descA.mt-2 ELSE descA.nt-1),
    LAMBDA k:
      Forward(A(k, k),
      [A1 |-> PASS(Upper(A(k, k)), Part(Upper(A(k, k)), {<<"A1", "ztsqrt", k, descA.mt-1>>}),
                   {Mem(Upper(A(k, k)))})]))

zgeqrf_ztsqrt ==
  Class2("ztsqrt", 0 .. MinOf(descA.nt-1, descA.mt-2), LAMBDA k: k+1 .. descA.mt-1,
    LAMBDA k, m:
      Task(A(m, k), <<k, 2, m, 0>>,
      [A1 |-> RW(Upper(A(k, k)),
                 IF m = k+1 THEN Part(Upper(A(k, k)), {<<"A", "zgeqrt", m-1>>})
                 ELSE Part(Upper(A(k, k)), {<<"A1", "ztsqrt", k, m-1>>}),
                 IF m = descA.mt-1
                 THEN Part(Upper(A(k, k)), {<<"A1", "ztsqrt_out_Ak", k>>})
                 ELSE Part(Upper(A(k, k)), {<<"A1", "ztsqrt", k, m+1>>})),
       A2 |-> RW(A(m, k),
                 If(k = 0, {Mem(A(m, k))}) \cup If(k # 0, {<<"A2", "ztsmqr", k-1, m, k>>}),
                 {Mem(A(m, k))}
                   \cup If(k < descA.nt-1, {<<"V", "ztsmqr", k, m, i>> : i \in k+1 .. descA.nt-1})),
       T |-> RW(T(m, k), {Mem(T(m, k))},
                {Mem(T(m, k))}
                  \cup If(k < descA.nt-1, {<<"T", "ztsmqr", k, m, i>> : i \in k+1 .. descA.nt-1}))]))

zgeqrf_ztsmqr_out_A1 ==
  Class2("ztsmqr_out_A1", 0 .. MinOf(descA.nt-2, descA.mt-2), LAMBDA k: k+1 .. descA.nt-1,
    LAMBDA k, n:
      Forward(A(k, n),
      [A1 |-> PASS(A(k, n), {<<"A1", "ztsmqr", k, descA.mt-1, n>>}, {Mem(A(k, n))})]))

zgeqrf_ztsmqr ==
  Class3("ztsmqr", 0 .. MinOf(descA.mt-2, descA.nt-2), LAMBDA k: k+1 .. descA.mt-1, LAMBDA k, m: k+1 .. descA.nt-1,
    LAMBDA k, m, n:
      Task(A(m, n), <<k, 2, m, 1>>,
      [A1 |-> RW(A(k, n),
                 IF k+1 = m THEN {<<"C", "zunmqr", m-1, n>>} ELSE {<<"A1", "ztsmqr", k, m-1, n>>},
                 IF m = descA.mt-1 THEN {<<"A1", "ztsmqr_out_A1", k, n>>}
                 ELSE {<<"A1", "ztsmqr", k, m+1, n>>}),
       A2 |-> RW(A(m, n),
                 If(0 = k, {Mem(A(m, n))}) \cup If(0 # k, {<<"A2", "ztsmqr", k-1, m, n>>}),
                 If(k+1 = n /\ k+1 = m, {<<"A", "zgeqrt", n>>})
                   \cup If(k+1 = m /\ n > m, {<<"C", "zunmqr", k+1, n>>})
                   \cup If(k+1 = n /\ m > n, {<<"A2", "ztsqrt", n, m>>})
                   \cup If(k+1 < n /\ 1+k < m, {<<"A2", "ztsmqr", k+1, m, n>>})),
       V |-> READ(A(m, k), {<<"A2", "ztsqrt", k, m>>}, {}),
       T |-> READ(T(m, k), {<<"T", "ztsqrt", k, m>>}, {})]))

zgeqrf ==
  zgeqrf_zgeqrt_typechange @@ zgeqrf_zgeqrt @@ zgeqrf_zunmqr @@ zgeqrf_ztsqrt_out_Ak @@
  zgeqrf_ztsqrt @@ zgeqrf_ztsmqr_out_A1 @@ zgeqrf_ztsmqr

-----------------------------------------------------------------------------
zungqr_zlaset ==
  Class2("zlaset", 0 .. descQ.mt-1, LAMBDA m: 0 .. descQ.nt-1,
    LAMBDA m, n:
      LET k == MinOf(Q_KT, MinOf(m, n))
          cq == descQ.mt = descA.nt /\ m = descQ.mt-1 /\ n = descQ.mt-1
      IN
      Task(Q(m, n), <<0>>,
      [A |-> WRITE(Q(m, n), {Mem(Q(m, n))},
                   If(cq, {<<"C", "zunmqr", k, n>>})
                     \cup If(~cq /\ m <= Q_KT /\ n >= m, {<<"A1", "ztsmqr", k, descQ.mt-1, n>>})
                     \cup If(~cq /\ (m > Q_KT \/ n < m), {<<"A2", "ztsmqr", k, m, n>>}))]))

zungqr_zunmqr ==
  Class2("zunmqr", 0 .. Q_KT, LAMBDA k: k .. descQ.nt-1,
    LAMBDA k, n:
      Task(Q(k, n), <<1, Q_KT-k, descQ.mt>>,
      [A |-> READ(Lower(A(k, k)), Part(Lower(A(k, k)), {<<"A", "zunmqr_in_data_A0", k>>}), {}),
       T |-> READ(T(k, k), {<<"T", "zunmqr_in_data_T1", k>>}, {}),
       C |-> RW(Q(k, n),
                If(k = descQ.mt-1, {<<"A", "zlaset", k, n>>})
                  \cup If(k < descQ.mt-1, {<<"A1", "ztsmqr", k, k+1, n>>}),
                If(k = 0, {Mem(Q(k, n))}) \cup If(k > 0, {<<"A2", "ztsmqr", k-1, k, n>>}))]))

zungqr_zunmqr_in_data_T1 ==
  Class1("zunmqr_in_data_T1", 0 .. Q_KT,
    LAMBDA k:
      Forward(T(k, k),
      [T |-> PASS(T(k, k), {Mem(T(k, k))}, {<<"T", "zunmqr", k, i>> : i \in k .. descQ.nt-1})]))

zungqr_zunmqr_in_data_A0 ==
  Class1("zunmqr_in_data_A0", 0 .. Q_KT,
    LAMBDA k:
      Forward(A(k, k),
      [A |-> PASS(Lower(A(k, k)), {Mem(A(k, k))},
                  Part(Lower(A(k, k)), {<<"A", "zunmqr", k, i>> : i \in k .. descQ.nt-1}))]))

zungqr_ztsmqr ==
  Class3("ztsmqr", 0 .. Q_KT, LAMBDA k: k+1 .. descQ.mt-1, LAMBDA k, m: k .. descQ.nt-1,
    LAMBDA k, m, n:
      Task(Q(m, n), <<1, Q_KT-k, descQ.mt-m>>,
      [A1 |-> RW(Q(k, n),
                 If(m = descQ.mt-1, {<<"A", "zlaset", k, n>>})
                   \cup If(m < descQ.mt-1, {<<"A1", "ztsmqr", k, m+1, n>>}),
                 If(m = k+1, {<<"C", "zunmqr", k, n>>})
                   \cup If(m > k+1, {<<"A1", "ztsmqr", k, m-1, n>>})),
       A2 |-> RW(Q(m, n),
                 If(k = Q_KT \/ n = k, {<<"A", "zlaset", m, n>>})
                   \cup If(k < Q_KT /\ n > k /\ m = k+1, {<<"C", "zunmqr", k+1, n>>})
                   \cup If(k < Q_KT /\ n > k /\ m > k+1, {<<"A2", "ztsmqr", k+1, m, n>>}),
                 If(k = 0, {Mem(Q(m, n))}) \cup If(k > 0, {<<"A2", "ztsmqr", k-1, m, n>>})),
       V |-> READ(A(m, k), {<<"V", "ztsmqr_in_data_A1", k, m>>}, {}),
       T |-> READ(T(m, k), {<<"T", "ztsmqr_in_data_T2", k, m>>}, {})]))

zungqr_ztsmqr_in_data_T2 ==
  Class2("ztsmqr_in_data_T2", 0 .. Q_KT2, LAMBDA k: k+1 .. descQ.mt-1,
    LAMBDA k, m:
      Forward(T(m, k),
      [T |-> PASS(T(m, k), {Mem(T(m, k))}, {<<"T", "ztsmqr", k, m, i>> : i \in k .. descQ.nt-1})]))

zungqr_ztsmqr_in_data_A1 ==
  Class2("ztsmqr_in_data_A1", 0 .. Q_KT2, LAMBDA k: k+1 .. descQ.mt-1,
    LAMBDA k, m:
      Forward(A(m, k),
      [V |-> PASS(A(m, k), {Mem(A(m, k))}, {<<"V", "ztsmqr", k, m, i>> : i \in k .. descQ.nt-1})]))

zungqr ==
  zungqr_zlaset @@ zungqr_zunmqr @@ zungqr_zunmqr_in_data_T1 @@ zungqr_zunmqr_in_data_A0 @@
  zungqr_ztsmqr @@ zungqr_ztsmqr_in_data_T2 @@ zungqr_ztsmqr_in_data_A1

-----------------------------------------------------------------------------
zunmqr_LN_zunmqr ==
  Class2("zunmqr", 0 .. descA.nt-1, LAMBDA k: 0 .. descB.nt-1,
    LAMBDA k, n:
      Task(B(k, n), <<-k, 1>>,
      [A |-> READ(Lower(A(k, k)), Part(Lower(A(k, k)), {<<"A", "zunmqr_in_data_A0", k>>}), {}),
       T |-> READ(T(k, k), {<<"T", "zunmqr_in_data_T1", k>>}, {}),
       C |-> RW(B(k, n),
                If(k < descB.mt-1, {<<"A1", "ztsmqr", k, k+1, n>>})
                  \cup If(k = descB.mt-1, {Mem(B(k, n))}),
                If(k = 0, {Mem(B(k, n))}) \cup If(k > 0, {<<"A2", "ztsmqr", k-1, k, n>>}))]))

zunmqr_LN_zunmqr_in_data_T1 ==
  Class1("zunmqr_in_data_T1", 0 .. descA.nt-1,
    LAMBDA k:
      Forward(T(k, k),
      [T |-> PASS(T(k, k), {Mem(T(k, k))}, {<<"T", "zunmqr", k, i>> : i \in 0 .. descB.nt-1})]))

zunmqr_LN_zunmqr_in_data_A0 ==
  Class1("zunmqr_in_data_A0", 0 .. descA.nt-1,
    LAMBDA k:
      Forward(A(k, k),
      [A |-> PASS(Lower(A(k, k)), {Mem(A(k, k))},
                  Part(Lower(A(k, k)), {<<"A", "zunmqr", k, i>> : i \in 0 .. descB.nt-1}))]))

zunmqr_LN_ztsmqr ==
  Class3("ztsmqr", 0 .. KT, LAMBDA k: k+1 .. descB.mt-1, LAMBDA k, m: 0 .. descB.nt-1,
    LAMBDA k, m, n:
      Task(B(m, n), <<-k, 0, -m>>,
      [A1 |-> RW(B(k, n),
                 If(m < descB.mt-1, {<<"A1", "ztsmqr", k, m+1, n>>})
                   \cup If(m = descB.mt-1, {<<"A1", "ztsmqr_out_data_B0", k, n>>}),
                 If(m = k+1, {<<"C", "zunmqr", k, n>>})
                   \cup If(m > k+1, {<<"A1", "ztsmqr", k, m-1, n>>})),
       A2 |-> RW(B(m, n),
                 If(k = descA.nt-1, {Mem(B(m, n))})
                   \cup If(k < descA.nt-1 /\ m = k+1, {<<"C", "zunmqr", k+1, n>>})
                   \cup If(k < descA.nt-1 /\ m > k+1, {<<"A2", "ztsmqr", k+1, m, n>>}),
                 If(k = 0, {Mem(B(m, n))}) \cup If(k > 0, {<<"A2", "ztsmqr", k-1, m, n>>})),
       V |-> READ(A(m, k), {<<"V", "ztsmqr_in_data_A1", k, m>>}, {}),
       T |-> READ(T(m, k), {<<"T", "ztsmqr_in_data_T2", k, m>>}, {})]))

zunmqr_LN_ztsmqr_in_data_T2 ==
  Class2("ztsmqr_in_data_T2", 0 .. KT, LAMBDA k: k+1 .. descB.mt-1,
    LAMBDA k, m:
      Forward(T(m, k),
      [T |-> PASS(T(m, k), {Mem(T(m, k))}, {<<"T", "ztsmqr", k, m, i>> : i \in 0 .. descB.nt-1})]))

zunmqr_LN_ztsmqr_in_data_A1 ==
  Class2("ztsmqr_in_data_A1", 0 .. KT, LAMBDA k: k+1 .. descB.mt-1,
    LAMBDA k, m:
      Forward(A(m, k),
      [V |-> PASS(A(m, k), {Mem(A(m, k))}, {<<"V", "ztsmqr", k, m, i>> : i \in 0 .. descB.nt-1})]))

zunmqr_LN_ztsmqr_out_data_B0 ==
  Class2("ztsmqr_out_data_B0", 0 .. KT, LAMBDA k: 0 .. descB.nt-1,
    LAMBDA k, n:
      Forward(B(k, n),
      [A1 |-> PASS(B(k, n), {Mem(B(k, n))}, {<<"A1", "ztsmqr", k, descB.mt-1, n>>})]))

zunmqr_LN ==
  zunmqr_LN_zunmqr @@ zunmqr_LN_zunmqr_in_data_T1 @@ zunmqr_LN_zunmqr_in_data_A0 @@
  zunmqr_LN_ztsmqr @@ zunmqr_LN_ztsmqr_in_data_T2 @@ zunmqr_LN_ztsmqr_in_data_A1 @@
  zunmqr_LN_ztsmqr_out_data_B0

-----------------------------------------------------------------------------
zunmqr_LC_zunmqr ==
  Class2("zunmqr", 0 .. descA.nt-1, LAMBDA k: 0 .. descB.nt-1,
    LAMBDA k, n:
      Task(B(k, n), <<k, 0>>,
      [A |-> READ(Lower(A(k, k)), Part(Lower(A(k, k)), {<<"A", "zunmqr_in_data_A0", k>>}), {}),
       T |-> READ(T(k, k), {<<"T", "zunmqr_in_data_T1", k>>}, {}),
       C |-> RW(B(k, n),
                If(k = 0, {Mem(B(k, n))}) \cup If(k > 0, {<<"A2", "ztsmqr", k-1, k, n>>}),
                If(k < descB.mt-1, {<<"A1", "ztsmqr", k, k+1, n>>})
                  \cup If(k = descB.mt-1, {Mem(B(k, n))}))]))

zunmqr_LC_zunmqr_in_data_T1 ==
  Class1("zunmqr_in_data_T1", 0 .. descA.nt-1,
    LAMBDA k:
      Forward(T(k, k),
      [T |-> PASS(T(k, k), {Mem(T(k, k))}, {<<"T", "zunmqr", k, i>> : i \in 0 .. descB.nt-1})]))

zunmqr_LC_zunmqr_in_data_A0 ==
  Class1("zunmqr_in_data_A0", 0 .. descA.nt-1,
    LAMBDA k:
      Forward(A(k, k),
      [A |-> PASS(Lower(A(k, k)), {Mem(A(k, k))},
                  Part(Lower(A(k, k)), {<<"A", "zunmqr", k, i>> : i \in 0 .. descB.nt-1}))]))

zunmqr_LC_ztsmqr ==
  Class3("ztsmqr", 0 .. KT, LAMBDA k: k+1 .. descB.mt-1, LAMBDA k, m: 0 .. descB.nt-1,
    LAMBDA k, m, n:
      Task(B(m, n), <<k, 1, m>>,
      [A1 |-> RW(B(k, n),
                 If(m = k+1, {<<"C", "zunmqr", k, n>>})
                   \cup If(m > k+1, {<<"A1", "ztsmqr", k, m-1, n>>}),
                 If(m < descB.mt-1, {<<"A1", "ztsmqr", k, m+1, n>>})
                   \cup If(m = descB.mt-1, {<<"A1", "ztsmqr_out_data_B0", k, n>>})),
       A2 |-> RW(B(m, n),
                 If(k = 0, {Mem(B(m, n))}) \cup If(k > 0, {<<"A2", "ztsmqr", k-1, m, n>>}),
                 If(k = descA.nt-1, {Mem(B(m, n))})
                   \cup If(k < descA.nt-1 /\ m = k+1, {<<"C", "zunmqr", k+1, n>>})
                   \cup If(k < descA.nt-1 /\ m > k+1, {<<"A2", "ztsmqr", k+1, m, n>>})),
       V |-> READ(A(m, k), {<<"V", "ztsmqr_in_data_A1", k, m>>}, {}),
       T |-> READ(T(m, k), {<<"T", "ztsmqr_in_data_T2", k, m>>}, {})]))

zunmqr_LC_ztsmqr_in_data_T2 ==
  Class2("ztsmqr_in_data_T2", 0 .. KT, LAMBDA k: k+1 .. descB.mt-1,
    LAMBDA k, m:
      Forward(T(m, k),
      [T |-> PASS(T(m, k), {Mem(T(m, k))}, {<<"T", "ztsmqr", k, m, i>> : i \in 0 .. descB.nt-1})]))

zunmqr_LC_ztsmqr_in_data_A1 ==
  Class2("ztsmqr_in_data_A1", 0 .. KT, LAMBDA k: k+1 .. descB.mt-1,
    LAMBDA k, m:
      Forward(A(m, k),
      [V |-> PASS(A(m, k), {Mem(A(m, k))}, {<<"V", "ztsmqr", k, m, i>> : i \in 0 .. descB.nt-1})]))

zunmqr_LC_ztsmqr_out_data_B0 ==
  Class2("ztsmqr_out_data_B0", 0 .. KT, LAMBDA k: 0 .. descB.nt-1,
    LAMBDA k, n:
      Forward(B(k, n),
      [A1 |-> PASS(B(k, n), {<<"A1", "ztsmqr", k, descB.mt-1, n>>}, {Mem(B(k, n))})]))

zunmqr_LC ==
  zunmqr_LC_zunmqr @@ zunmqr_LC_zunmqr_in_data_T1 @@ zunmqr_LC_zunmqr_in_data_A0 @@
  zunmqr_LC_ztsmqr @@ zunmqr_LC_ztsmqr_in_data_T2 @@ zunmqr_LC_ztsmqr_in_data_A1 @@
  zunmqr_LC_ztsmqr_out_data_B0

-----------------------------------------------------------------------------
zunmqr_RN_zunmqr ==
  Class2("zunmqr", 0 .. descA.nt-1, LAMBDA k: 0 .. descB.mt-1,
    LAMBDA k, m:
      Task(B(m, k), <<k, 0>>,
      [A |-> READ(Lower(A(k, k)), Part(Lower(A(k, k)), {<<"A", "zunmqr_in_data_A0", k>>}), {}),
       T |-> READ(T(k, k), {<<"T", "zunmqr_in_data_T1", k>>}, {}),
       C |-> RW(B(m, k),
                If(k = 0, {Mem(B(m, k))}) \cup If(k > 0, {<<"A2", "ztsmqr", k-1, k, m>>}),
                If(k < descB.nt-1, {<<"A1", "ztsmqr", k, k+1, m>>})
                  \cup If(k = descB.nt-1, {Mem(B(m, k))}))]))

zunmqr_RN_zunmqr_in_data_T1 ==
  Class1("zunmqr_in_data_T1", 0 .. descA.nt-1,
    LAMBDA k:
      Forward(T(k, k),
      [T |-> PASS(T(k, k), {Mem(T(k, k))}, {<<"T", "zunmqr", k, i>> : i \in 0 .. descB.mt-1})]))

zunmqr_RN_zunmqr_in_data_A0 ==
  Class1("zunmqr_in_data_A0", 0 .. descA.nt-1,
    LAMBDA k:
      Forward(A(k, k),
      [A |-> PASS(Lower(A(k, k)), {Mem(A(k, k))},
                  Part(Lower(A(k, k)), {<<"A", "zunmqr", k, i>> : i \in 0 .. descB.mt-1}))]))

zunmqr_RN_ztsmqr ==
  Class3("ztsmqr", 0 .. KT, LAMBDA k: k+1 .. descB.nt-1, LAMBDA k, n: 0 .. descB.mt-1,
    LAMBDA k, n, m:
      Task(B(m, n), <<k, 1, n>>,
      [A1 |-> RW(B(m, k),
                 If(n = k+1, {<<"C", "zunmqr", k, m>>})
                   \cup If(n > k+1, {<<"A1", "ztsmqr", k, n-1, m>>}),
                 If(n < descB.nt-1, {<<"A1", "ztsmqr", k, n+1, m>>})
                   \cup If(n = descB.nt-1, {<<"A1", "ztsmqr_out_data_B0", k, m>>})),
       A2 |-> RW(B(m, n),
                 If(k = 0, {Mem(B(m, n))}) \cup If(k > 0, {<<"A2", "ztsmqr", k-1, n, m>>}),
                 If(k = descA.nt-1, {Mem(B(m, n))})
                   \cup If(k < descA.nt-1 /\ n = k+1, {<<"C", "zunmqr", k+1, m>>})
                   \cup If(k < descA.nt-1 /\ n > k+1, {<<"A2", "ztsmqr", k+1, n, m>>})),
       V |-> READ(A(n, k), {<<"V", "ztsmqr_in_data_A1", k, n>>}, {}),
       T |-> READ(T(n, k), {<<"T", "ztsmqr_in_data_T2", k, n>>}, {})]))

zunmqr_RN_ztsmqr_in_data_T2 ==
  Class2("ztsmqr_in_data_T2", 0 .. KT, LAMBDA k: k+1 .. descB.nt-1,
    LAMBDA k, n:
      Forward(T(n, k),
      [T |-> PASS(T(n, k), {Mem(T(n, k))}, {<<"T", "ztsmqr", k, n, i>> : i \in 0 .. descB.mt-1})]))

zunmqr_RN_ztsmqr_in_data_A1 ==
  Class2("ztsmqr_in_data_A1", 0 .. KT, LAMBDA k: k+1 .. descB.nt-1,
    LAMBDA k, n:
      Forward(A(n, k),
      [V |-> PASS(A(n, k), {Mem(A(n, k))}, {<<"V", "ztsmqr", k, n, i>> : i \in 0 .. descB.mt-1})]))

zunmqr_RN_ztsmqr_out_data_B0 ==
  Class2("ztsmqr_out_data_B0", 0 .. KT, LAMBDA k: 0 .. descB.mt-1,
    LAMBDA k, m:
      Forward(B(m, k),
      [A1 |-> PASS(B(m, k), {<<"A1", "ztsmqr", k, descB.nt-1, m>>}, {Mem(B(m, k))})]))

zunmqr_RN ==
  zunmqr_RN_zunmqr @@ zunmqr_RN_zunmqr_in_data_T1 @@ zunmqr_RN_zunmqr_in_data_A0 @@
  zunmqr_RN_ztsmqr @@ zunmqr_RN_ztsmqr_in_data_T2 @@ zunmqr_RN_ztsmqr_in_data_A1 @@
  zunmqr_RN_ztsmqr_out_data_B0

-----------------------------------------------------------------------------
zunmqr_RC_zunmqr ==
  Class2("zunmqr", 0 .. descA.nt-1, LAMBDA k: 0 .. descB.mt-1,
    LAMBDA k, m:
      Task(B(m, k), <<-k, 1>>,
      [A |-> READ(Lower(A(k, k)), Part(Lower(A(k, k)), {<<"A", "zunmqr_in_data_A0", k>>}), {}),
       T |-> READ(T(k, k), {<<"T", "zunmqr_in_data_T1", k>>}, {}),
       C |-> RW(B(m, k),
                If(k < descB.nt-1, {<<"A1", "ztsmqr", k, k+1, m>>})
                  \cup If(k = descB.nt-1, {Mem(B(m, k))}),
                If(k = 0, {Mem(B(m, k))}) \cup If(k > 0, {<<"A2", "ztsmqr", k-1, k, m>>}))]))

zunmqr_RC_zunmqr_in_data_T1 ==
  Class1("zunmqr_in_data_T1", 0 .. descA.nt-1,
    LAMBDA k:
      Forward(T(k, k),
      [T |-> PASS(T(k, k), {Mem(T(k, k))}, {<<"T", "zunmqr", k, i>> : i \in 0 .. descB.mt-1})]))

zunmqr_RC_zunmqr_in_data_A0 ==
  Class1("zunmqr_in_data_A0", 0 .. descA.nt-1,
    LAMBDA k:
      Forward(A(k, k),
      [A |-> PASS(Lower(A(k, k)), {Mem(A(k, k))},
                  Part(Lower(A(k, k)), {<<"A", "zunmqr", k, i>> : i \in 0 .. descB.mt-1}))]))

zunmqr_RC_ztsmqr ==
  Class3("ztsmqr", 0 .. KT, LAMBDA k: k+1 .. descB.nt-1, LAMBDA k, n: 0 .. descB.mt-1,
    LAMBDA k, n, m:
      Task(B(m, n), <<-k, 0, -n>>,
      [A1 |-> RW(B(m, k),
                 If(n < descB.nt-1, {<<"A1", "ztsmqr", k, n+1, m>>})
                   \cup If(n = descB.nt-1, {<<"A1", "ztsmqr_out_data_B0", k, m>>}),
                 If(n = k+1, {<<"C", "zunmqr", k, m>>})
                   \cup If(n > k+1, {<<"A1", "ztsmqr", k, n-1, m>>})),
       A2 |-> RW(B(m, n),
                 If(k = descA.nt-1, {Mem(B(m, n))})
                   \cup If(k < descA.nt-1 /\ n = k+1, {<<"C", "zunmqr", k+1, m>>})
                   \cup If(k < descA.nt-1 /\ n > k+1, {<<"A2", "ztsmqr", k+1, n, m>>}),
                 If(k = 0, {Mem(B(m, n))}) \cup If(k > 0, {<<"A2", "ztsmqr", k-1, n, m>>})),
       V |-> READ(A(n, k), {<<"V", "ztsmqr_in_data_A1", k, n>>}, {}),
       T |-> READ(T(n, k), {<<"T", "ztsmqr_in_data_T2", k, n>>}, {})]))

zunmqr_RC_ztsmqr_in_data_T2 ==
  Class2("ztsmqr_in_data_T2", 0 .. KT, LAMBDA k: k+1 .. descB.nt-1,
    LAMBDA k, n:
      Forward(T(n, k),
      [T |-> PASS(T(n, k), {Mem(T(n, k))}, {<<"T", "ztsmqr", k, n, i>> : i \in 0 .. descB.mt-1})]))

zunmqr_RC_ztsmqr_in_data_A1 ==
  Class2("ztsmqr_in_data_A1", 0 .. KT, LAMBDA k: k+1 .. descB.nt-1,
    LAMBDA k, n:
      Forward(A(n, k),
      [V |-> PASS(A(n, k), {Mem(A(n, k))}, {<<"V", "ztsmqr", k, n, i>> : i \in 0 .. descB.mt-1})]))

zunmqr_RC_ztsmqr_out_data_B0 ==
  Class2("ztsmqr_out_data_B0", 0 .. KT, LAMBDA k: 0 .. descB.mt-1,
    LAMBDA k, m:
      Forward(B(m, k),
      [A1 |-> PASS(B(m, k), {Mem(B(m, k))}, {<<"A1", "ztsmqr", k, descB.nt-1, m>>})]))

zunmqr_RC ==
  zunmqr_RC_zunmqr @@ zunmqr_RC_zunmqr_in_data_T1 @@ zunmqr_RC_zunmqr_in_data_A0 @@
  zunmqr_RC_ztsmqr @@ zunmqr_RC_ztsmqr_in_data_T2 @@ zunmqr_RC_ztsmqr_in_data_A1 @@
  zunmqr_RC_ztsmqr_out_data_B0

-----------------------------------------------------------------------------
zgeqrfr_geqrt_zgeqrt_zgeqrt ==
  Class1("zgeqrt_zgeqrt", 0 .. minMNT,
    LAMBDA k:
      Task(PanelA(0, k), <<k, 0>>,
      [A |-> RW(From(k, PanelA(0, k)),
                IF 0 = k THEN {Mem(PanelA(0, k))} ELSE {<<"C", "zgeqrt_zunmqr", k-1, k>>},
                If(k < descA.nt-1, {<<"V", "zgeqrt_zunmqr", k, i>> : i \in k+1 .. descA.nt-1})
                  \cup {Mem(PanelA(0, k))}),
       T |-> RW(T(0, k), {Mem(T(0, k))},
                {Mem(T(0, k))}
                  \cup If(k < descA.nt-1, {<<"T", "zgeqrt_zunmqr", k, i>> : i \in k+1 .. descA.nt-1}))]))

zgeqrfr_geqrt_zgeqrt_zunmqr ==
  Class2("zgeqrt_zunmqr", 0 .. MinOf(descA.nt-2, minMNT), LAMBDA k: k+1 .. descA.nt-1,
    LAMBDA k, n:
      Task(PanelA(0, n), <<k, 1>>,
      [V |-> READ(From(k, PanelA(0, k)), {<<"A", "zgeqrt_zgeqrt", k>>}, {}),
       T |-> READ(T(0, k), {<<"T", "zgeqrt_zgeqrt", k>>}, {}),
       C |-> Flow(IF Refused(k) THEN "PASS" ELSE "RW", From(k, PanelA(0, n)),
                IF k = 0 THEN {Mem(PanelA(0, n))} ELSE {<<"C", "zgeqrt_zunmqr", k-1, n>>},
                If(k = minMNT, {Mem(PanelA(0, n))})
                  \cup If(k < minMNT /\ n = k+1, {<<"A", "zgeqrt_zgeqrt", k+1>>})
                  \cup If(k < minMNT /\ n > k+1, {<<"C", "zgeqrt_zunmqr", k+1, n>>}))]))

zgeqrfr_geqrt ==
  zgeqrfr_geqrt_zgeqrt_zgeqrt @@ zgeqrfr_geqrt_zgeqrt_zunmqr

-----------------------------------------------------------------------------
zgeqrfr_unmqr_zunmqr_zunmqr ==
  Class2("zunmqr_zunmqr", 0 .. minMNT, LAMBDA k: 0 .. descB.nt-1,
    LAMBDA k, n:
      Task(PanelC(0, n), <<k>>,
      [V |-> READ(From(k, PanelA(0, k)), {<<"A", "read_A", k>>}, {}),
       T |-> READ(T(0, k), {<<"T", "read_T", k>>}, {}),
       C |-> RW(From(k, PanelC(0, n)),
                IF k = 0 THEN {Mem(PanelC(0, n))} ELSE {<<"C", "zunmqr_zunmqr", k-1, n>>},
                If(k = descA.nt-1, {Mem(PanelC(0, n))})
                  \cup If(k < descA.nt-1, {<<"C", "zunmqr_zunmqr", k+1, n>>}))]))

zgeqrfr_unmqr_read_A ==
  Class1("read_A", 0 .. minMNT,
    LAMBDA k:
      Forward(PanelA(0, k),
      [A |-> PASS(PanelA(0, k), {Mem(PanelA(0, k))},
                  {<<"V", "zunmqr_zunmqr", k, i>> : i \in 0 .. descB.nt-1})]))

zgeqrfr_unmqr_read_T ==
  Class1("read_T", 0 .. descA.nt-1,
    LAMBDA k:
      Forward(T(0, k),
      [T |-> PASS(T(0, k), {Mem(T(0, k))},
                  {<<"T", "zunmqr_zunmqr", k, i>> : i \in 0 .. descB.nt-1})]))

zgeqrfr_unmqr ==
  zgeqrfr_unmqr_zunmqr_zunmqr @@ zgeqrfr_unmqr_read_A @@ zgeqrfr_unmqr_read_T

-----------------------------------------------------------------------------
zgeqrfr_tsqrt_ztsqrt_ztsqrt ==
  Class1("ztsqrt_ztsqrt", 0 .. descA.nt-1,
    LAMBDA k:
      Task(A2(0, k), <<k, 0>>,
      [A1 |-> RW(DiagonalBlock(k),
                 IF 0 = k THEN {Mem(PanelA1(0, k))} ELSE {<<"A1", "ztsqrt_ztsmqr", k-1, k>>},
                 {Mem(PanelA1(0, k))}),
       A2 |-> RW(A2(0, k),
                 IF 0 = k THEN {Mem(A2(0, k))} ELSE {<<"A2", "ztsqrt_ztsmqr", k-1, k>>},
                 If(k < descA.nt-1, {<<"V", "ztsqrt_ztsmqr", k, i>> : i \in k+1 .. descA.nt-1})
                   \cup {Mem(A2(0, k))}),
       T |-> RW(T(0, k), {Mem(T(0, k))},
                If(k < descA.nt-1, {<<"T", "ztsqrt_ztsmqr", k, i>> : i \in k+1 .. descA.nt-1})
                  \cup {Mem(T(0, k))})]))

zgeqrfr_tsqrt_ztsqrt_ztsmqr ==
  Class2("ztsqrt_ztsmqr", 0 .. descA.nt-2, LAMBDA k: k+1 .. descA.nt-1,
    LAMBDA k, n:
      Task(A2(0, n), <<k, 1>>,
      [A1 |-> RW(RowOf(k, PanelA1(0, n)),
                 IF k = 0 THEN {Mem(PanelA1(0, n))} ELSE {<<"A1", "ztsqrt_ztsmqr", k-1, n>>},
                 If(n = k+1, {<<"A1", "ztsqrt_ztsqrt", k+1>>})
                   \cup If(n > k+1, {<<"A1", "ztsqrt_ztsmqr", k+1, n>>})),
       A2 |-> RW(A2(0, n),
                 IF k = 0 THEN {Mem(A2(0, n))} ELSE {<<"A2", "ztsqrt_ztsmqr", k-1, n>>},
                 If(n = k+1, {<<"A2", "ztsqrt_ztsqrt", k+1>>})
                   \cup If(n > k+1, {<<"A2", "ztsqrt_ztsmqr", k+1, n>>})),
       V |-> READ(A2(0, k), {<<"A2", "ztsqrt_ztsqrt", k>>}, {}),
       T |-> READ(T(0, k), {<<"T", "ztsqrt_ztsqrt", k>>}, {})]))

zgeqrfr_tsqrt ==
  zgeqrfr_tsqrt_ztsqrt_ztsqrt @@ zgeqrfr_tsqrt_ztsqrt_ztsmqr

-----------------------------------------------------------------------------
zgeqrfr_tsmqr_ztsmqr_ztsmqr ==
  Class2("ztsmqr_ztsmqr", 0 .. descA.nt-1, LAMBDA k: 0 .. descB.nt-1,
    LAMBDA k, n:
      Task(A2(0, n), <<k>>,
      [A1 |-> RW(RowOf(k, PanelA1(0, n)),
                 IF k = 0 THEN {Mem(PanelA1(0, n))} ELSE {<<"A1", "ztsmqr_ztsmqr", k-1, n>>},
                 IF k = descA.nt-1 THEN {Mem(PanelA1(0, n))}
                 ELSE {<<"A1", "ztsmqr_ztsmqr", k+1, n>>}),
       A2 |-> RW(A2(0, n),
                 IF k = 0 THEN {Mem(A2(0, n))} ELSE {<<"A2", "ztsmqr_ztsmqr", k-1, n>>},
                 IF k = descA.nt-1 THEN {Mem(A2(0, n))} ELSE {<<"A2", "ztsmqr_ztsmqr", k+1, n>>}),
       V |-> READ(V(0, k), {<<"V", "read_VT", k>>}, {}),
       T |-> READ(T(0, k), {<<"T", "read_VT", k>>}, {})]))

zgeqrfr_tsmqr_read_VT ==
  Class1("read_VT", 0 .. descA.nt-1,
    LAMBDA k:
      Forward(V(0, k),
      [V |-> PASS(V(0, k), {Mem(V(0, k))},
                  {<<"V", "ztsmqr_ztsmqr", k, i>> : i \in 0 .. descB.nt-1}),
       T |-> PASS(T(0, k), {Mem(T(0, k))},
                  {<<"T", "ztsmqr_ztsmqr", k, i>> : i \in 0 .. descB.nt-1})]))

zgeqrfr_tsmqr ==
  zgeqrfr_tsmqr_ztsmqr_ztsmqr @@ zgeqrfr_tsmqr_read_VT

-----------------------------------------------------------------------------
\* The shapes that dplasma_zungqr_New accepts.
zungqr_Legal == descQ.nt <= descQ.mt /\ descA.nt <= descQ.nt

\* dplasma_zunmqr_New: the shapes it accepts and the graph it chooses.
zunmqr_Legal(side) ==
  LET b == IF side = "Left" THEN descB.mt ELSE descB.nt
  IN  descA.nt <= b /\ descA.mt = b

\* Mutant of zunmqr_New. The graphs for Q and its conjugate transpose from the right swapped.
zunmqr_New_Swapped(side, trans) ==
  IF side = "Left" THEN IF trans = "NoTrans" THEN zunmqr_LN ELSE zunmqr_LC
  ELSE IF trans = "NoTrans" THEN zunmqr_RC ELSE zunmqr_RN

zunmqr_New(side, trans) ==
  IF side = "Left" THEN IF trans = "NoTrans" THEN zunmqr_LN ELSE zunmqr_LC
  ELSE IF trans = "NoTrans" THEN zunmqr_RN ELSE zunmqr_RC
==============================================================================
