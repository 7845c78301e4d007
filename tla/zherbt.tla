-------------------------------- MODULE zherbt -------------------------------
(*****************************************************************************)
(* The Hermitian eigenvalue problem, lower: reduction to band form           *)
(* (zherbt_L.jdf) and from there to tridiagonal form by chasing bulges       *)
(* (zhbrdt.jdf). In the first graph a panel is a QR factorization below      *)
(* the diagonal, whose reflectors are applied from both sides to the one     *)
(* triangle that is stored: a tile (m1, i) is updated from the left with     *)
(* row i and, transposed, with column k+1.                                   *)
(*                                                                           *)
(* In the second one the band is a row of tiles W(0, i), each with NB of     *)
(* its columns. Every sweep (s1, s) eliminates a column and pushes the       *)
(* bulge along the band, tile by tile, with the last tile on its own         *)
(* (zhbrdt_half); sweeps follow each other in a pipeline. Guards of inputs   *)
(* overlap there: the first one that holds counts.                           *)
(*****************************************************************************)
EXTENDS Dataflow

CONSTANTS descA, NB

A(m, n) == Halves("A", m, n)
T(m, n) == Whole("T", m, n)
W(m, n) == Whole("W", m, n)

\* Tiles of the band, which zhbrdt is called with as its matrix.
NT == descA.nt

-----------------------------------------------------------------------------
zherbt_L_bcast_zgeqrt ==
  Class1("bcast_zgeqrt", 0 .. descA.nt-1-1,
    LAMBDA k:
      Forward(A(k+1, k),
      [A |-> PASS(A(k+1, k), {<<"A", "zgeqrt", k>>},
                  If(descA.mt >= k+3, {<<"F", "zunmqr", k, i>> : i \in k+2 .. descA.mt-1})),
       B |-> PASS(T(k+1, k), {<<"B", "zgeqrt", k>>},
                  If(descA.mt >= k+3, {<<"G", "zunmqr", k, i>> : i \in k+2 .. descA.mt-1}))]))

zherbt_L_zgeqrt_to_zherfb ==
  Class1("zgeqrt_to_zherfb", 0 .. descA.nt-1-1,
    LAMBDA k:
      Forward(A(k+1, k),
      [A |-> PASS(A(k+1, k), {<<"A", "zgeqrt", k>>}, {<<"C", "zherfb", k>>}),
       B |-> PASS(T(k+1, k), {<<"B", "zgeqrt", k>>}, {<<"D", "zherfb", k>>})]))

zherbt_L_zgeqrt ==
  Class1("zgeqrt", 0 .. descA.nt-1-1,
    LAMBDA k:
      Task(A(k+1, k), <<k, 0>>,
      [A |-> RW(A(k+1, k),
                If(2+k = descA.mt /\ k >= 1, {<<"V", "ztsmqr_corner", k+1-2, k+1>>})
                  \cup If(0 = k, {Mem(A(k+1, k))})
                  \cup If(k >= 1 /\ 1+k >= descA.mt, {Mem(A(k+1, k))})
                  \cup If(k >= 1 /\ descA.mt >= k+3, {<<"M", "ztsmqr_hetra1", k+1-2, descA.mt-1, k+1>>}),
                {<<"A", "zgeqrt_to_zherfb", k>>}
                  \cup If(k+2 >= descA.mt, {Mem(A(k+1, k))})
                  \cup {<<"A", "bcast_zgeqrt", k>>}
                  \cup If(descA.mt >= k+3, {<<"J", "ztsqrt", k, k+2>>})),
       B |-> RW(T(k+1, k), {Mem(T(k+1, k))},
                {Mem(T(k+1, k))}
                  \cup {<<"B", "zgeqrt_to_zherfb", k>>}
                  \cup {<<"B", "bcast_zgeqrt", k>>})]))

zherbt_L_zherfb ==
  Class1("zherfb", 0 .. descA.nt-1-1,
    LAMBDA k:
      Task(A(k+1, k+1), <<k, 1>>,
      [C |-> READ(Lower(A(k+1, k)), {<<"A", "zgeqrt_to_zherfb", k>>}, {}),
       D |-> READ(T(k+1, k), {<<"B", "zgeqrt_to_zherfb", k>>}, {}),
       E |-> RW(A(k+1, k+1),
                If(0 = k, {Mem(A(k+1, k+1))})
                  \cup If(k >= 1 /\ k+1 >= descA.mt, {Mem(A(k+1, k+1))})
                  \cup If(k >= 1 /\ descA.mt >= k+2, {<<"W", "ztsmqr_corner", k+1-2, k+1>>}),
                If(2+k >= descA.mt, {Mem(A(k+1, k+1))})
                  \cup If(descA.mt >= k+3, {<<"U", "ztsmqr_corner", k, k+2>>}))]))

zherbt_L_zunmqr ==
  Class2("zunmqr", 0 .. descA.nt-1-1, LAMBDA k: k+2 .. descA.mt-1,
    LAMBDA k, m:
      Task(A(m, k+1), <<k, 1>>,
      [F |-> READ(Lower(A(k+1, k)), {<<"A", "bcast_zgeqrt", k>>}, {}),
       G |-> READ(T(k+1, k), {<<"B", "bcast_zgeqrt", k>>}, {}),
       H |-> RW(A(m, k+1),
                If(0 = k, {Mem(A(m, k+1))})
                  \cup If(k >= 1, {<<"N", "ztsmqr_hetra1", k+1-2, m, k+1>>}),
                If(m >= k+3, {<<"Q", "ztsmqr", k, k+2, m>>})
                  \cup If(k+2 = m /\ descA.nt >= k+2, {<<"V", "ztsmqr_corner", m-2, m>>}))]))

zherbt_L_ztsqrt_out_A0 ==
  Class2("ztsqrt_out_A0", 0 .. descA.nt-3, LAMBDA k: {descA.mt-1},
    LAMBDA k, m1:
      Forward(A(k+1, k),
      [J |-> PASS(A(k+1, k), {<<"J", "ztsqrt", k, m1>>}, {Mem(A(k+1, k))})]))

zherbt_L_bcast_ztsqrt ==
  Class2("bcast_ztsqrt", 0 .. descA.nt-1-1, LAMBDA k: k+2 .. descA.mt-1,
    LAMBDA k, m1:
      Forward(A(m1, k),
      [K |-> PASS(A(m1, k), {<<"K", "ztsqrt", k, m1>>},
                  If(m1 >= 3+k, {<<"O", "ztsmqr_hetra1", k, m1, i>> : i \in k+2 .. m1-1})
                    \cup If(descA.mt >= 2+m1, {<<"S", "ztsmqr", k, m1, i>> : i \in m1+1 .. descA.mt-1})),
       L |-> PASS(T(m1, k), {<<"L", "ztsqrt", k, m1>>},
                  If(descA.mt >= m1+2, {<<"T", "ztsmqr", k, m1, i>> : i \in m1+1 .. descA.mt-1})
                    \cup If(m1 >= k+3, {<<"P", "ztsmqr_hetra1", k, m1, i>> : i \in k+2 .. m1-1}))]))

zherbt_L_ztsqrt ==
  Class2("ztsqrt", 0 .. descA.nt-1-1, LAMBDA k: k+2 .. descA.mt-1,
    LAMBDA k, m1:
      Task(A(m1, k), <<k, 2, m1, 0>>,
      [J |-> RW(Upper(A(k+1, k)),
                If(m1 = 2+k, {<<"A", "zgeqrt", m1-2>>})
                  \cup If(m1 >= 3+k, {<<"J", "ztsqrt", k, m1-1>>}),
                If(descA.mt = m1+1, {<<"J", "ztsqrt_out_A0", k, m1>>})
                  \cup If(descA.mt >= m1+2, {<<"J", "ztsqrt", k, m1+1>>})),
       K |-> RW(A(m1, k),
                If(m1+1 = descA.mt /\ k >= 1, {<<"V", "ztsmqr_corner", k-1, descA.mt-1>>})
                  \cup If(0 = k, {Mem(A(m1, k))})
                  \cup If(descA.mt >= m1+2 /\ k >= 1, {<<"M", "ztsmqr_hetra1", k-1, descA.mt-1, m1>>}),
                {<<"K", "bcast_ztsqrt", k, m1>>}
                  \cup {<<"X", "ztsmqr_corner", k, m1>>}
                  \cup {Mem(A(m1, k))}),
       L |-> RW(T(m1, k), {Mem(T(m1, k))},
                {<<"L", "bcast_ztsqrt", k, m1>>}
                  \cup {<<"Y", "ztsmqr_corner", k, m1>>}
                  \cup {Mem(T(m1, k))})]))

zherbt_L_ztsmqr_hetra1_out_A0 ==
  Class3("ztsmqr_hetra1_out_A0", (IF descA.nt >= 2 THEN descA.nt-2 ELSE descA.nt-1) .. descA.nt-2, LAMBDA k: k+2 .. descA.mt-1, LAMBDA k, m1: k+2 .. m1-1,
    LAMBDA k, m1, i:
      Forward(A(i, k+1),
      [M |-> PASS(A(i, k+1), {<<"M", "ztsmqr_hetra1", k, m1, i>>}, {Mem(A(i, k+1))})]))

zherbt_L_ztsmqr_hetra1 ==
  Class3("ztsmqr_hetra1", 0 .. descA.nt-1-1, LAMBDA k: k+2 .. descA.mt-1, LAMBDA k, m1: k+2 .. m1-1,
    LAMBDA k, m1, i:
      Task(A(m1, i), <<k, 2, m1, 1>>,
      [M |-> RW(A(i, k+1),
                If(m1 >= 2+i, {<<"M", "ztsmqr_hetra1", k, m1-1, i>>})
                  \cup If(1+i = m1, {<<"V", "ztsmqr_corner", k, m1-1>>}),
                If(descA.mt = m1+1 /\ k+2 = i /\ descA.nt >= k+3, {<<"A", "zgeqrt", i-1>>})
                  \cup If(descA.mt = m1+1 /\ i >= k+3 /\ descA.nt >= k+3, {<<"K", "ztsqrt", k+1, i>>})
                  \cup If(descA.mt >= 2+m1, {<<"M", "ztsmqr_hetra1", k, m1+1, i>>})
                  \cup If(descA.nt = i, {<<"M", "ztsmqr_hetra1_out_A0", k, m1, i>>})
                  \cup If(descA.nt = k+2 /\ i >= descA.nt+1, {<<"M", "ztsmqr_hetra1_out_A0", k, m1, i>>})),
       N |-> RW(A(m1, i), {<<"R", "ztsmqr", k, i, m1>>},
                If(i >= k+3 /\ descA.nt >= 3+k, {<<"R", "ztsmqr", k+1, i, m1>>})
                  \cup If(descA.nt = k+2, {Mem(A(m1, i))})
                  \cup If(i = k+2 /\ descA.nt >= i+1, {<<"H", "zunmqr", i-1, m1>>})),
       O |-> READ(A(m1, k), {<<"K", "bcast_ztsqrt", k, m1>>}, {}),
       P |-> READ(T(m1, k), {<<"L", "bcast_ztsqrt", k, m1>>}, {})]))

zherbt_L_ztsmqr ==
  Class3("ztsmqr", 0 .. descA.nt-1-1, LAMBDA k: k+2 .. descA.mt-1, LAMBDA k, m1: m1+1 .. descA.mt-1,
    LAMBDA k, m1, j:
      Task(A(j, m1), <<k, 2, m1, 1>>,
      [Q |-> RW(A(j, k+1),
                If(m1 >= 3+k, {<<"Q", "ztsmqr", k, m1-1, j>>})
                  \cup If(2+k = m1, {<<"H", "zunmqr", m1-2, j>>}),
                If(j >= 2+m1, {<<"Q", "ztsmqr", k, m1+1, j>>})
                  \cup If(1+m1 = j, {<<"V", "ztsmqr_corner", k, j>>})),
       R |-> RW(A(j, m1),
                If(k >= 1, {<<"N", "ztsmqr_hetra1", k-1, j, m1>>})
                  \cup If(0 = k, {Mem(A(j, m1))}),
                {<<"N", "ztsmqr_hetra1", k, j, m1>>}),
       S |-> READ(A(m1, k), {<<"K", "bcast_ztsqrt", k, m1>>}, {}),
       T |-> READ(T(m1, k), {<<"L", "bcast_ztsqrt", k, m1>>}, {})]))

zherbt_L_ztsmqr_corner_out_A0 ==
  Class2("ztsmqr_corner_out_A0", (IF descA.nt >= 2 THEN 0 ELSE descA.mt-2) .. descA.mt-3, LAMBDA k: {descA.mt-1},
    LAMBDA k, m1:
      Forward(A(k+1, k+1),
      [U |-> PASS(A(k+1, k+1), {<<"U", "ztsmqr_corner", k, m1>>}, {Mem(A(k+1, k+1))})]))

zherbt_L_ztsmqr_corner ==
  Class2("ztsmqr_corner", 0 .. descA.nt-1-1, LAMBDA k: k+2 .. descA.mt-1,
    LAMBDA k, m1:
      Task(A(m1, m1), <<k, 2, m1, 2>>,
      [U |-> RW(A(k+1, k+1),
                If(k+2 = m1, {<<"E", "zherfb", m1-2>>})
                  \cup If(m1 >= 3+k, {<<"U", "ztsmqr_corner", k, m1-1>>}),
                If(descA.mt = m1+1, {<<"U", "ztsmqr_corner_out_A0", k, m1>>})
                  \cup If(descA.mt >= m1+2, {<<"U", "ztsmqr_corner", k, m1+1>>})),
       V |-> RW(A(m1, k+1),
                If(k+2 = m1, {<<"H", "zunmqr", m1-2, m1>>})
                  \cup If(m1 >= k+3, {<<"Q", "ztsmqr", k, m1-1, m1>>}),
                If(descA.mt = 1+m1 /\ descA.mt = k+3 /\ descA.nt >= descA.mt, {<<"A", "zgeqrt", m1-1>>})
                  \cup If(m1+1 = descA.mt /\ m1 >= 3+k /\ descA.nt >= k+3, {<<"K", "ztsqrt", k+1, m1>>})
                  \cup If(descA.mt >= m1+2, {<<"M", "ztsmqr_hetra1", k, m1+1, m1>>})),
       W |-> RW(A(m1, m1),
                If(0 = k, {Mem(A(m1, m1))})
                  \cup If(k >= 1, {<<"W", "ztsmqr_corner", k-1, m1>>}),
                If(m1 >= k+3 /\ descA.nt >= k+3, {<<"W", "ztsmqr_corner", k+1, m1>>})
                  \cup If(descA.nt = k+2, {Mem(A(m1, m1))})
                  \cup If(k+2 = m1 /\ descA.nt >= k+3, {<<"E", "zherfb", m1-1>>})),
       X |-> READ(A(m1, k), {<<"K", "ztsqrt", k, m1>>}, {}),
       Y |-> READ(T(m1, k), {<<"L", "ztsqrt", k, m1>>}, {})]))

zherbt_L ==
  zherbt_L_bcast_zgeqrt @@ zherbt_L_zgeqrt_to_zherfb @@ zherbt_L_zgeqrt @@ zherbt_L_zherfb @@
  zherbt_L_zunmqr @@ zherbt_L_ztsqrt_out_A0 @@ zherbt_L_bcast_ztsqrt @@ zherbt_L_ztsqrt @@
  zherbt_L_ztsmqr_hetra1_out_A0 @@ zherbt_L_ztsmqr_hetra1 @@ zherbt_L_ztsmqr @@
  zherbt_L_ztsmqr_corner_out_A0 @@ zherbt_L_ztsmqr_corner

-----------------------------------------------------------------------------
zhbrdt_in_dat ==
  Class1("in_dat", 1 .. NT-1,
    LAMBDA i:
      Forward(W(0, i),
      [A |-> PASS(W(0, i), {Mem(W(0, i))}, {<<"B", "zhbrdt", 0, 0, i-1>>})]))

zhbrdt_zhbrdt ==
  Class3("zhbrdt", 0 .. NT-2, LAMBDA s1: 0 .. NB-1, LAMBDA s1, s: s1 .. NT-2,
    LAMBDA s1, s, i:
      Task(W(0, i), <<s1, s, i>>,
      [A |-> RW(W(0, i),
                If(i = s1 /\ 0 = s /\ 0 = i, {Mem(W(0, i))})
                  \cup If(i = s1 /\ 0 = s /\ i >= 1, {<<"A", "zhbrdt", s1-1, NB-1, s1>>})
                  \cup If(i = s1 /\ s >= 1, {<<"A", "zhbrdt", s1, s-1, s1>>})
                  \cup If(s1 < i, {<<"B", "zhbrdt", s1, s, i-1>>}),
                If(1+s = NB /\ i = s1, {Mem(W(0, i))})
                  \cup If(1+s = NB /\ 1+s1 = i, {<<"A", "zhbrdt", s1+1, 0, s1+1>>})
                  \cup If(1+s = NB /\ 1+s1 < i, {<<"B", "zhbrdt", s1+1, 0, i-1>>})
                  \cup If(i = s1 /\ 1+s < NB, {<<"A", "zhbrdt", s1, s+1, i>>})
                  \cup If(i > s1, {<<"B", "zhbrdt", s1, s+1, i-1>>})),
       B |-> RW(W(0, i+1),
                IF 0 = s /\ 0 = s1 THEN {<<"A", "in_dat", i+1>>}
                ELSE IF 0 = s /\ NT-2 = i THEN {<<"A", "zhbrdt_half", s1-1, NB-1>>}
                ELSE IF 0 = s THEN {<<"A", "zhbrdt", s1-1, NB-1, i+1>>}
                ELSE IF NT-2 = i THEN {<<"A", "zhbrdt_half", s1, s-1>>}
                ELSE {<<"A", "zhbrdt", s1, s-1, i+1>>},
                If(NT-2 = i, {<<"A", "zhbrdt_half", s1, s>>})
                  \cup {<<"A", "zhbrdt", s1, s, i+1>>})]))

zhbrdt_zhbrdt_half ==
  Class2("zhbrdt_half", 0 .. NT-1, LAMBDA s1: 0 .. NB-1,
    LAMBDA s1, s:
      Task(W(0, NT-1), <<s1, s, NT-1>>,
      [A |-> RW(W(0, NT-1),
                IF 1 = NT /\ 0 = s THEN {Mem(W(0, NT-1))}
                ELSE IF NT-1 # s1 THEN {<<"B", "zhbrdt", s1, s, NT-2>>}
                ELSE IF 0 = s /\ 1 # NT THEN {<<"A", "zhbrdt_half", s1-1, NB-1>>}
                ELSE IF 0 # s THEN {<<"A", "zhbrdt_half", s1, s-1>>}
                ELSE {},
                If(NT-1 = s1 /\ NB-1 = s, {Mem(W(0, NT-1))})
                  \cup If(NT-1 = s1, {<<"A", "zhbrdt_half", s1, s+1>>})
                  \cup If(NT-2 = s1 /\ NB-1 = s, {<<"A", "zhbrdt_half", s1+1, 0>>})
                  \cup (IF NB-1 = s THEN {<<"B", "zhbrdt", s1+1, 0, NT-2>>}
                        ELSE {<<"B", "zhbrdt", s1, s+1, NT-2>>}))]))

zhbrdt ==
  zhbrdt_in_dat @@ zhbrdt_zhbrdt @@ zhbrdt_zhbrdt_half
==============================================================================
