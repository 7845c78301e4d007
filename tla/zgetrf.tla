-------------------------------- MODULE zgetrf -------------------------------
(*****************************************************************************)
(* LU factorization without pivoting (zgetrf_nopiv.jdf) and with             *)
(* incremental pivoting (zgetrf_incpiv.jdf), and the application of the      *)
(* factors of the latter to a right-hand side (ztrsmpl_incpiv.jdf). With     *)
(* incremental pivoting the two triangles of a diagonal tile go separate     *)
(* ways: the lower one, with the first factors, to zgessm and to the         *)
(* collection, the upper one down the column through ztstrf.                 *)
(*                                                                           *)
(* The factorization A = L D L^H without pivoting of a Hermitian matrix      *)
(* (zhetrf.jdf) and the division by D (ztrdsm.jdf). ztrmdm scales the        *)
(* factor of a diagonal tile in place when all have read it: a chain of      *)
(* tasks GOK passes the updates of a step one by one.                        *)
(*****************************************************************************)
EXTENDS Dataflow

CONSTANTS descA, descB

A(m, n) == Halves("A", m, n)
L(m, n) == Whole("L", m, n)
IP(m, n) == Whole("IP", m, n)
B(m, n) == Whole("B", m, n)

\* Mutant of KT. The last panel of a matrix that is taller than wide.
KT_Wide == descA.nt-1

\* The last panel.
KT == MinOf(descA.mt, descA.nt)-1

-----------------------------------------------------------------------------
zgetrf_nopiv_zgetrf_nopiv ==
  Class1("zgetrf_nopiv", 0 .. KT,
    LAMBDA k:
      Task(A(k, k), <<k, 0>>,
      [A |-> RW(A(k, k), If(k = 0, {Mem(A(k, k))}) \cup If(k > 0, {<<"C", "zgemm", k-1, k, k>>}),
                {Mem(A(k, k))}
                  \cup If(k < descA.mt-1, {<<"A", "ztrsm_l", k, i>> : i \in k+1 .. descA.mt-1})
                  \cup If(k < descA.nt-1, {<<"A", "ztrsm_u", k, i>> : i \in k+1 .. descA.nt-1}))]))

zgetrf_nopiv_ztrsm_l ==
  Class2("ztrsm_l", 0 .. KT, LAMBDA k: k+1 .. descA.mt-1,
    LAMBDA k, m:
      Task(A(m, k), <<k, 1>>,
      [A |-> READ(A(k, k), {<<"A", "zgetrf_nopiv", k>>}, {}),
       B |-> RW(A(m, k), If(k = 0, {Mem(A(m, k))}) \cup If(k > 0, {<<"C", "zgemm", k-1, m, k>>}),
                If(k < descA.nt-1, {<<"A", "zgemm", k, m, i>> : i \in k+1 .. descA.nt-1})
                  \cup {Mem(A(m, k))})]))

zgetrf_nopiv_ztrsm_u ==
  Class2("ztrsm_u", 0 .. KT, LAMBDA k: k+1 .. descA.nt-1,
    LAMBDA k, n:
      Task(A(k, n), <<k, 1>>,
      [A |-> READ(A(k, k), {<<"A", "zgetrf_nopiv", k>>}, {}),
       B |-> RW(A(k, n), If(k = 0, {Mem(A(k, n))}) \cup If(k > 0, {<<"C", "zgemm", k-1, k, n>>}),
                If(k < descA.mt-1, {<<"B", "zgemm", k, i, n>> : i \in k+1 .. descA.mt-1})
                  \cup {Mem(A(k, n))})]))

zgetrf_nopiv_zgemm ==
  Class3("zgemm", 0 .. KT-1, LAMBDA k: k+1 .. descA.mt-1, LAMBDA k, m: k+1 .. descA.nt-1,
    LAMBDA k, m, n:
      Task(A(m, n), <<k, 2>>,
      [A |-> READ(A(m, k), {<<"B", "ztrsm_l", k, m>>}, {}),
       B |-> READ(A(k, n), {<<"B", "ztrsm_u", k, n>>}, {}),
       C |-> RW(A(m, n), If(k = 0, {Mem(A(m, n))}) \cup If(k > 0, {<<"C", "zgemm", k-1, m, n>>}),
                If(m = k+1 /\ n = k+1, {<<"A", "zgetrf_nopiv", k+1>>})
                  \cup If(m > k+1 /\ n = k+1, {<<"B", "ztrsm_l", k+1, m>>})
                  \cup If(m = k+1 /\ n > k+1, {<<"B", "ztrsm_u", k+1, n>>})
                  \cup If(m > k+1 /\ n > k+1, {<<"C", "zgemm", k+1, m, n>>}))]))

zgetrf_nopiv ==
  zgetrf_nopiv_zgetrf_nopiv @@ zgetrf_nopiv_ztrsm_l @@ zgetrf_nopiv_ztrsm_u @@
  zgetrf_nopiv_zgemm

-----------------------------------------------------------------------------
zgetrf_incpiv_zgetrf_out ==
  Class1("zgetrf_out", 0 .. KT,
    LAMBDA k:
      Forward(A(k, k),
      [A |-> PASS(Lower(A(k, k)), {<<"A", "zgetrf", k>>},
                  If(k < descA.nt-1, Part(Lower(A(k, k)), {<<"L", "zgessm", k, i>> : i \in k+1 .. descA.nt-1})))]))

zgetrf_incpiv_zgetrf ==
  Class1("zgetrf", 0 .. KT,
    LAMBDA k:
      Task(A(k, k), <<k, 0>>,
      [A |-> RW(A(k, k), IF k = 0 THEN {Mem(A(k, k))} ELSE {<<"C", "zssssm", k-1, k, k>>},
                If(k < descA.mt-1, Part(Upper(A(k, k)), {<<"U", "ztstrf", k, k+1>>}))
                  \cup If(k = descA.mt-1, {Mem(A(k, k))})
                  \cup {<<"A", "zgetrf_out", k>>}),
       IP |-> RW(IP(k, k), {Mem(IP(k, k))},
                 {Mem(IP(k, k))}
                   \cup If(k < descA.nt-1, {<<"IP", "zgessm", k, i>> : i \in k+1 .. descA.nt-1}))]))

zgetrf_incpiv_zgessm ==
  Class2("zgessm", 0 .. KT, LAMBDA k: k+1 .. descA.nt-1,
    LAMBDA k, n:
      Task(A(k, n), <<k, 1>>,
      [L |-> READ(Lower(A(k, k)), Part(Lower(A(k, k)), {<<"A", "zgetrf_out", k>>}), {}),
       IP |-> READ(IP(k, k), {<<"IP", "zgetrf", k>>}, {}),
       B |-> RW(A(k, n), IF k = 0 THEN {Mem(A(k, n))} ELSE {<<"C", "zssssm", k-1, k, n>>},
                If(k = descA.mt-1, {Mem(A(k, n))})
                  \cup If(k < descA.mt-1, {<<"B", "zssssm", k, k+1, n>>}))]))

zgetrf_incpiv_ztstrf_out ==
  Class1("ztstrf_out", 0 .. (IF descA.mt <= descA.nt THEN descA.mt-2 ELSE descA.nt-1),
    LAMBDA k:
      Forward(A(k, k),
      [A |-> PASS(Upper(A(k, k)), Part(Upper(A(k, k)), {<<"U", "ztstrf", k, descA.mt-1>>}),
                  {Mem(Upper(A(k, k)))})]))

zgetrf_incpiv_ztstrf ==
  Class2("ztstrf", 0 .. KT, LAMBDA k: k+1 .. descA.mt-1,
    LAMBDA k, m:
      Task(A(m, k), <<k, 2, m, 0>>,
      [U |-> RW(Upper(A(k, k)),
                IF m = k+1 THEN Part(Upper(A(k, k)), {<<"A", "zgetrf", m-1>>})
                ELSE Part(Upper(A(k, k)), {<<"U", "ztstrf", k, m-1>>}),
                IF m = descA.mt-1 THEN Part(Upper(A(k, k)), {<<"A", "ztstrf_out", k>>})
                ELSE Part(Upper(A(k, k)), {<<"U", "ztstrf", k, m+1>>})),
       B |-> RW(A(m, k), IF k = 0 THEN {Mem(A(m, k))} ELSE {<<"C", "zssssm", k-1, m, k>>},
                If(k < descA.nt-1, {<<"A", "zssssm", k, m, i>> : i \in k+1 .. descA.nt-1})
                  \cup {Mem(A(m, k))}),
       L |-> RW(L(m, k), {Mem(L(m, k))},
                {Mem(L(m, k))}
                  \cup If(k < descA.nt-1, {<<"L", "zssssm", k, m, i>> : i \in k+1 .. descA.nt-1})),
       IP |-> RW(IP(m, k), {Mem(IP(m, k))},
                 {Mem(IP(m, k))}
                   \cup If(k < descA.nt-1, {<<"IP", "zssssm", k, m, i>> : i \in k+1 .. descA.nt-1}))]))

zgetrf_incpiv_zssssm_out ==
  Class2("zssssm_out", 0 .. KT-1, LAMBDA k: k+1 .. descA.nt-1,
    LAMBDA k, n:
      Forward(A(k, n),
      [A |-> PASS(A(k, n), {<<"B", "zssssm", k, descA.mt-1, n>>}, {Mem(A(k, n))})]))

zgetrf_incpiv_zssssm ==
  Class3("zssssm", 0 .. KT, LAMBDA k: k+1 .. descA.mt-1, LAMBDA k, m: k+1 .. descA.nt-1,
    LAMBDA k, m, n:
      Task(A(m, n), <<k, 2, m, 1>>,
      [A |-> READ(A(m, k), {<<"B", "ztstrf", k, m>>}, {}),
       B |-> RW(A(k, n),
                IF m = k+1 THEN {<<"B", "zgessm", m-1, n>>} ELSE {<<"B", "zssssm", k, m-1, n>>},
                IF m = descA.mt-1 THEN {<<"A", "zssssm_out", k, n>>}
                ELSE {<<"B", "zssssm", k, m+1, n>>}),
       C |-> RW(A(m, n), IF k = 0 THEN {Mem(A(m, n))} ELSE {<<"C", "zssssm", k-1, m, n>>},
                If(n = k+1 /\ m = k+1, {<<"A", "zgetrf", n>>})
                  \cup If(n > k+1 /\ m = k+1, {<<"B", "zgessm", k+1, n>>})
                  \cup If(n = k+1 /\ m > k+1, {<<"B", "ztstrf", n, m>>})
                  \cup If(n > k+1 /\ m > k+1, {<<"C", "zssssm", k+1, m, n>>})),
       L |-> READ(L(m, k), {<<"L", "ztstrf", k, m>>}, {}),
       IP |-> READ(IP(m, k), {<<"IP", "ztstrf", k, m>>}, {})]))

zgetrf_incpiv ==
  zgetrf_incpiv_zgetrf_out @@ zgetrf_incpiv_zgetrf @@ zgetrf_incpiv_zgessm @@
  zgetrf_incpiv_ztstrf_out @@ zgetrf_incpiv_ztstrf @@ zgetrf_incpiv_zssssm_out @@
  zgetrf_incpiv_zssssm

-----------------------------------------------------------------------------
ztrsmpl_incpiv_zgessm_inAIPIV ==
  Class1("zgessm_inAIPIV", 0 .. KT,
    LAMBDA k:
      Forward(A(k, k),
      [A |-> PASS(A(k, k), {Mem(A(k, k))}, {<<"L", "zgessm", k, i>> : i \in 0 .. descB.nt-1}),
       IP |-> PASS(IP(k, k), {Mem(IP(k, k))},
                   {<<"IP", "zgessm", k, i>> : i \in 0 .. descB.nt-1})]))

ztrsmpl_incpiv_zgessm ==
  Class2("zgessm", 0 .. KT, LAMBDA k: 0 .. descB.nt-1,
    LAMBDA k, n:
      Task(B(k, n), <<k, 0>>,
      [L |-> READ(A(k, k), {<<"A", "zgessm_inAIPIV", k>>}, {}),
       IP |-> READ(IP(k, k), {<<"IP", "zgessm_inAIPIV", k>>}, {}),
       B |-> RW(B(k, n), IF k = 0 THEN {Mem(B(k, n))} ELSE {<<"C", "zssssm", k-1, k, n>>},
                If(k = descA.mt-1, {Mem(B(k, n))})
                  \cup If(k < descA.mt-1, {<<"B", "zssssm", k, k+1, n>>}))]))

ztrsmpl_incpiv_zssssm_inALIPIV ==
  Class2("zssssm_inALIPIV", 0 .. KT, LAMBDA k: k+1 .. descA.mt-1,
    LAMBDA k, m:
      Forward(A(m, k),
      [A |-> PASS(A(m, k), {Mem(A(m, k))}, {<<"A", "zssssm", k, m, i>> : i \in 0 .. descB.nt-1}),
       L |-> PASS(L(m, k), {Mem(L(m, k))}, {<<"L", "zssssm", k, m, i>> : i \in 0 .. descB.nt-1}),
       IP |-> PASS(IP(m, k), {Mem(IP(m, k))},
                   {<<"IP", "zssssm", k, m, i>> : i \in 0 .. descB.nt-1})]))

ztrsmpl_incpiv_zssssm_out ==
  Class2("zssssm_out", 0 .. KT-1, LAMBDA k: 0 .. descB.nt-1,
    LAMBDA k, n:
      Forward(B(k, n),
      [B |-> PASS(B(k, n), {<<"B", "zssssm", k, descA.mt-1, n>>}, {Mem(B(k, n))})]))

ztrsmpl_incpiv_zssssm ==
  Class3("zssssm", 0 .. KT, LAMBDA k: k+1 .. descA.mt-1, LAMBDA k, m: 0 .. descB.nt-1,
    LAMBDA k, m, n:
      Task(B(m, n), <<k, 1, m>>,
      [A |-> READ(A(m, k), {<<"A", "zssssm_inALIPIV", k, m>>}, {}),
       B |-> RW(B(k, n),
                IF m = k+1 THEN {<<"B", "zgessm", m-1, n>>} ELSE {<<"B", "zssssm", k, m-1, n>>},
                IF m = descA.mt-1 THEN {<<"B", "zssssm_out", k, n>>}
                ELSE {<<"B", "zssssm", k, m+1, n>>}),
       C |-> RW(B(m, n), IF k = 0 THEN {Mem(B(m, n))} ELSE {<<"C", "zssssm", k-1, m, n>>},
                If(k = descA.nt-1, {Mem(B(m, n))})
                  \cup If(k < descA.nt-1 /\ m = k+1, {<<"B", "zgessm", k+1, n>>})
                  \cup If(k < descA.nt-1 /\ m > k+1, {<<"C", "zssssm", k+1, m, n>>})),
       L |-> READ(L(m, k), {<<"L", "zssssm_inALIPIV", k, m>>}, {}),
       IP |-> READ(IP(m, k), {<<"IP", "zssssm_inALIPIV", k, m>>}, {})]))

ztrsmpl_incpiv ==
  ztrsmpl_incpiv_zgessm_inAIPIV @@ ztrsmpl_incpiv_zgessm @@ ztrsmpl_incpiv_zssssm_inALIPIV @@
  ztrsmpl_incpiv_zssssm_out @@ ztrsmpl_incpiv_zssssm

-----------------------------------------------------------------------------
zhetrf_zhetrf2_nopiv ==
  Class1("zhetrf2_nopiv", 0 .. descA.mt-2,
    LAMBDA k:
      Task(A(k, k), <<k, 0>>,
      [A |-> RW(A(k, k),
                If(k >= 1 /\ descA.mt >= k+2, {<<"F", "zhedrk", k-1, k>>})
                  \cup If(0 = k /\ descA.mt >= 2, {Mem(A(k, k))}),
                If(descA.mt >= k+2, {<<"O", "ztrmdm", k>>})
                  \cup If(descA.mt >= k+2, {<<"G", "zhedrk", k, i>> : i \in k+1 .. descA.mt-1})
                  \cup If(descA.mt >= k+3, {<<"H", "magic", k, i>> : i \in k+2 .. descA.mt-1})
                  \cup If(descA.mt >= k+2, {<<"C", "ztrsm", k, i>> : i \in k+1 .. descA.mt-1}))]))

zhetrf_zhetrf_nopiv ==
  Class1("zhetrf_nopiv", descA.mt-1 .. descA.mt-1,
    LAMBDA k:
      Task(A(k, k), <<k, 0>>,
      [B |-> RW(A(k, k),
                If(k >= 1 /\ k = descA.mt-1, {<<"F", "zhedrk", descA.mt-2, descA.mt-1>>})
                  \cup If(k = 0 /\ 1 = descA.mt, {Mem(A(k, k))}),
                If(k = descA.mt-1, {Mem(A(k, k))}))]))

zhetrf_ztrsm ==
  Class2("ztrsm", 0 .. descA.mt-2, LAMBDA k: k+1 .. descA.mt-1,
    LAMBDA k, m:
      Task(A(m, k), <<k, 1>>,
      [C |-> READ(A(k, k), {<<"A", "zhetrf2_nopiv", k>>}, {}),
       D |-> RW(A(m, k),
                If(k >= 1, {<<"M", "zgemdm", k-1, m, k>>}) \cup If(0 = k, {Mem(A(m, k))}),
                {Mem(A(m, k))}
                  \cup If(descA.mt >= 2+m, {<<"L", "zgemdm", k, i, m>> : i \in m+1 .. descA.mt-1})
                  \cup If(m >= 2+k, {<<"K", "zgemdm", k, m, i>> : i \in k+1 .. m-1})
                  \cup {<<"E", "zhedrk", k, m>>})]))

zhetrf_zhedrk ==
  Class2("zhedrk", 0 .. descA.mt-2, LAMBDA k: k+1 .. descA.mt-1,
    LAMBDA k, m1:
      Task(A(m1, m1), <<k, 2>>,
      [E |-> READ(A(m1, k), {<<"D", "ztrsm", k, m1>>}, {}),
       F |-> RW(A(m1, m1),
                If(k >= 1, {<<"F", "zhedrk", k-1, m1>>}) \cup If(0 = k, {Mem(A(m1, m1))}),
                If(k+1 = m1 /\ descA.mt >= k+3, {<<"A", "zhetrf2_nopiv", m1>>})
                  \cup If(k+1 = m1 /\ k+2 = descA.mt, {<<"B", "zhetrf_nopiv", m1>>})
                  \cup If(m1 >= k+2, {<<"F", "zhedrk", k+1, m1>>})),
       G |-> READ(A(k, k), {<<"A", "zhetrf2_nopiv", k>>}, {}),
       ctl |-> CTL({}, {<<"ctl2", "GOK", k, m1, k+1>>})]))

zhetrf_magic ==
  Class2("magic", 0 .. descA.mt-2, LAMBDA k: k+2 .. descA.mt-1,
    LAMBDA k, m1:
      Forward(A(k, k),
      [H |-> PASS(A(k, k), {<<"A", "zhetrf2_nopiv", k>>},
                  If(m1 >= 2+k, {<<"N", "zgemdm", k, m1, i>> : i \in k+1 .. m1-1}))]))

zhetrf_zgemdm ==
  Class3("zgemdm", 0 .. descA.mt-2, LAMBDA k: k+2 .. descA.mt-1, LAMBDA k, m1: k+1 .. m1-1,
    LAMBDA k, m1, n:
      Task(A(m1, n), <<k, 2>>,
      [K |-> READ(A(m1, k), {<<"D", "ztrsm", k, m1>>}, {}),
       L |-> READ(A(n, k), {<<"D", "ztrsm", k, n>>}, {}),
       M |-> RW(A(m1, n),
                If(k >= 1, {<<"M", "zgemdm", k-1, m1, n>>}) \cup If(0 = k, {Mem(A(m1, n))}),
                If(k+1 = n, {<<"D", "ztrsm", n, m1>>})
                  \cup If(n >= k+2, {<<"M", "zgemdm", k+1, m1, n>>})),
       N |-> READ(A(k, k), {<<"H", "magic", k, m1>>}, {}),
       ctl |-> CTL({}, {<<"ctl1", "GOK", k, m1, n>>})]))

zhetrf_ztrmdm ==
  Class1("ztrmdm", 0 .. descA.mt-2,
    LAMBDA k1:
      Task(A(k1, k1), <<k1, 3>>,
      [O |-> RW(A(k1, k1), {<<"A", "zhetrf2_nopiv", k1>>}, {Mem(A(k1, k1))}),
       ctl |-> CTL({<<"ctl", "GOK", k1, descA.mt-1, descA.mt-2>>}, {})]))

zhetrf_GOK ==
  Class3("GOK", 0 .. descA.mt-2, LAMBDA k: k+1 .. descA.mt-1, LAMBDA k, m: k+1 .. m,
    LAMBDA k, m, n:
      Forward(A(m, m),
      [ctl |-> CTL(If(n > k+1, {<<"ctl", "GOK", k, m, n-1>>})
                     \cup If(n = k+1 /\ m > k+1, {<<"ctl", "GOK", k, m-1, descA.mt-1>>}),
                   If(n < m, {<<"ctl", "GOK", k, m, n+1>>})
                     \cup If(n = m /\ m < descA.mt-1, {<<"ctl", "GOK", k, m+1, k+1>>})
                     \cup If(n = m /\ m = descA.mt-1, {<<"ctl", "ztrmdm", k>>})),
       ctl1 |-> CTL(If(n < m, {<<"ctl", "zgemdm", k, m, n>>}), {}),
       ctl2 |-> CTL(If(n = k+1, {<<"ctl", "zhedrk", k, m>>}), {})]))

zhetrf ==
  zhetrf_zhetrf2_nopiv @@ zhetrf_zhetrf_nopiv @@ zhetrf_ztrsm @@ zhetrf_zhedrk @@
  zhetrf_magic @@ zhetrf_zgemdm @@ zhetrf_ztrmdm @@ zhetrf_GOK

-----------------------------------------------------------------------------
ztrdsm_ztrdsm ==
  Class2("ztrdsm", 0 .. descB.mt-1, LAMBDA k: 0 .. descB.nt-1,
    LAMBDA k, n:
      Task(B(k, n), <<0>>,
      [A |-> READ(A(k, k), {<<"A", "ztrdsm_in_data_A0", k, n>>}, {}),
       B |-> RW(B(k, n), {Mem(B(k, n))}, {Mem(B(k, n))})]))

ztrdsm_ztrdsm_in_data_A0 ==
  Class2("ztrdsm_in_data_A0", 0 .. descB.mt-1, LAMBDA k: 0 .. descB.nt-1,
    LAMBDA k, n:
      Forward(A(k, k),
      [A |-> PASS(A(k, k), {Mem(A(k, k))}, {<<"A", "ztrdsm", k, n>>})]))

ztrdsm ==
  ztrdsm_ztrdsm @@ ztrdsm_ztrdsm_in_data_A0
==============================================================================
