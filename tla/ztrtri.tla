-------------------------------- MODULE ztrtri -------------------------------
(*****************************************************************************)
(* The inverse of a triangular matrix in place (ztrtri_L.jdf,                *)
(* ztrtri_U.jdf) and the product U U^H in place (zlauum_U.jdf). The tiles    *)
(* on the diagonal are sent and stored with a triangular type: the other     *)
(* half of the tile is not theirs.                                           *)
(*****************************************************************************)
EXTENDS Dataflow

CONSTANTS descA

A(m, n) == Halves("A", m, n)

-----------------------------------------------------------------------------
ztrtri_L_trtri_ztrsmR ==
  Class2("trtri_ztrsmR", 0 .. descA.mt-2, LAMBDA k: k+1 .. descA.mt-1,
    LAMBDA k, m:
      Task(A(m, k), <<k, 0>>,
      [ctl |-> CTL({}, If(k = 0, {<<"ctlr", "trtri_ztrtri", 0>>})),
       A |-> READ(Lower(A(k, k)), Part(Lower(A(k, k)), {<<"A", "ztrsm_in_A", k>>}), {}),
       B |-> RW(A(m, k), {Mem(A(m, k))},
                If(m = k+1 /\ k < descA.mt-2, {<<"B", "trtri_zgemm", k+1, i, k>> : i \in m+1 .. descA.mt-1})
                  \cup If(k > 0, {<<"A", "trtri_zgemm", k, m, i>> : i \in 0 .. k-1})
                  \cup If(m = k+1, {<<"B", "trtri_ztrsmL", k+1, k>>})
                  \cup If(m > k+1, {<<"C", "trtri_zgemm", k+1, m, k>>}))]))

ztrtri_L_trtri_zgemm ==
  Class3("trtri_zgemm", 1 .. descA.mt-2, LAMBDA k: k+1 .. descA.mt-1, LAMBDA k, m: 0 .. k-1,
    LAMBDA k, m, n:
      Task(A(m, n), <<k, 1>>,
      [ctlA |-> CTL({},
                    If(m = k+1, {<<"ctlA", "trtri_ztrsmL", k+1, k>>})
                      \cup If(m > k+1, {<<"ctlC", "trtri_zgemm", k+1, m, k>>})),
       ctlB |-> CTL({}, {<<"ctlB", "trtri_ztrsmL", k, n>>}),
       ctlC |-> CTL(If(n = k-1, {<<"ctlA", "trtri_zgemm", k-1, m, i>> : i \in 0 .. n-1}), {}),
       A |-> READ(A(m, k), {<<"B", "trtri_ztrsmR", k, m>>}, {}),
       B |-> READ(A(k, n),
                  If(k = n+1, {<<"B", "trtri_ztrsmR", k-1, k>>})
                    \cup If(k > n+1, {<<"C", "trtri_zgemm", k-1, k, n>>}),
                  {}),
       C |-> RW(A(m, n),
                If(k = n+1, {<<"B", "trtri_ztrsmR", k-1, m>>})
                  \cup If(k > n+1, {<<"C", "trtri_zgemm", k-1, m, n>>}),
                If(m = k+1, {<<"B", "trtri_ztrsmL", k+1, n>>})
                  \cup If(m > k+1, {<<"C", "trtri_zgemm", k+1, m, n>>})
                  \cup If(m = k+1 /\ k < descA.mt-2, {<<"B", "trtri_zgemm", k+1, i, n>> : i \in m+1 .. descA.mt-1}))]))

ztrtri_L_trtri_ztrsmL ==
  Class2("trtri_ztrsmL", 1 .. descA.nt-1, LAMBDA k: 0 .. k-1,
    LAMBDA k, n:
      Task(A(k, n), <<k, 2>>,
      [ctlA |-> CTL(If(n = k-1 /\ k > 1, {<<"ctlA", "trtri_zgemm", k-1, k, i>> : i \in 0 .. k-2}),
                    {}),
       ctlB |-> CTL(If(k < descA.mt-1, {<<"ctlB", "trtri_zgemm", k, i, n>> : i \in k+1 .. descA.mt-1}),
                    {}),
       ctl |-> CTL({}, {<<"ctll", "trtri_ztrtri", k>>}),
       A |-> READ(Lower(A(k, k)), Part(Lower(A(k, k)), {<<"A", "ztrsm_in_A", k>>}), {}),
       B |-> RW(A(k, n),
                If(k = n+1, {<<"B", "trtri_ztrsmR", k-1, k>>})
                  \cup If(k > n+1, {<<"C", "trtri_zgemm", k-1, k, n>>}),
                {Mem(A(k, n))})]))

ztrtri_L_ztrsm_in_A ==
  Class1("ztrsm_in_A", 0 .. descA.nt-1,
    LAMBDA k:
      Forward(A(k, k),
      [A |-> PASS(Lower(A(k, k)), {Mem(A(k, k))},
                  If(k < descA.mt-1, Part(Lower(A(k, k)), {<<"A", "trtri_ztrsmR", k, i>> : i \in k+1 .. descA.mt-1}))
                    \cup If(k > 0, Part(Lower(A(k, k)), {<<"A", "trtri_ztrsmL", k, i>> : i \in 0 .. k-1})))]))

ztrtri_L_trtri_ztrtri ==
  Class1("trtri_ztrtri", 0 .. descA.nt-1,
    LAMBDA k:
      Task(A(k, k), <<k, 3>>,
      [ctlr |-> CTL(If(k = 0 /\ descA.mt > 1, {<<"ctl", "trtri_ztrsmR", 0, i>> : i \in 1 .. descA.mt-1}),
                    {}),
       ctll |-> CTL(If(k > 0, {<<"ctl", "trtri_ztrsmL", k, i>> : i \in 0 .. k-1}), {}),
       A |-> RW(Lower(A(k, k)), {Mem(A(k, k))}, {Mem(Lower(A(k, k)))})]))

ztrtri_L ==
  ztrtri_L_trtri_ztrsmR @@ ztrtri_L_trtri_zgemm @@ ztrtri_L_trtri_ztrsmL @@
  ztrtri_L_ztrsm_in_A @@ ztrtri_L_trtri_ztrtri

-----------------------------------------------------------------------------
ztrtri_U_ztrsmL ==
  Class2("ztrsmL", 0 .. descA.nt-2, LAMBDA k: k+1 .. descA.nt-1,
    LAMBDA k, n:
      Task(A(k, n), <<k, 0>>,
      [ctl |-> CTL({}, If(k = 0, {<<"ctll", "ztrtri", 0>>})),
       A |-> READ(Upper(A(k, k)), Part(Upper(A(k, k)), {<<"A", "ztrsm_in_A", k>>}), {}),
       B |-> RW(A(k, n), {Mem(A(k, n))},
                If(n = k+1 /\ k < descA.nt-2, {<<"A", "zgemm", k+1, k, i>> : i \in n+1 .. descA.nt-1})
                  \cup If(k > 0, {<<"B", "zgemm", k, i, n>> : i \in 0 .. k-1})
                  \cup If(n = k+1, {<<"B", "ztrsmR", k+1, k>>})
                  \cup If(n > k+1, {<<"C", "zgemm", k+1, k, n>>}))]))

ztrtri_U_zgemm ==
  Class3("zgemm", 1 .. descA.nt-2, LAMBDA k: 0 .. k-1, LAMBDA k, m: k+1 .. descA.nt-1,
    LAMBDA k, m, n:
      Task(A(m, n), <<k, 1>>,
      [ctlA |-> CTL({},
                    If(n = k+1, {<<"ctlA", "ztrsmR", k+1, k>>})
                      \cup If(n > k+1, {<<"ctlC", "zgemm", k+1, k, n>>})),
       ctlB |-> CTL({}, {<<"ctlB", "ztrsmR", k, m>>}),
       ctlC |-> CTL(If(m = k-1, {<<"ctlA", "zgemm", k-1, i, n>> : i \in 0 .. m-1}), {}),
       A |-> READ(A(m, k),
                  If(k = m+1, {<<"B", "ztrsmL", k-1, k>>})
                    \cup If(k > m+1, {<<"C", "zgemm", k-1, m, k>>}),
                  {}),
       B |-> READ(A(k, n), {<<"B", "ztrsmL", k, n>>}, {}),
       C |-> RW(A(m, n),
                If(k = m+1, {<<"B", "ztrsmL", k-1, n>>})
                  \cup If(k > m+1, {<<"C", "zgemm", k-1, m, n>>}),
                If(n = k+1, {<<"B", "ztrsmR", k+1, m>>})
                  \cup If(n > k+1, {<<"C", "zgemm", k+1, m, n>>})
                  \cup If(n = k+1 /\ k < descA.mt-2, {<<"A", "zgemm", k+1, m, i>> : i \in n+1 .. descA.nt-1}))]))

ztrtri_U_ztrsmR ==
  Class2("ztrsmR", 1 .. descA.nt-1, LAMBDA k: 0 .. k-1,
    LAMBDA k, m:
      Task(A(m, k), <<k, 2>>,
      [ctlA |-> CTL(If(m = k-1 /\ k > 1, {<<"ctlA", "zgemm", k-1, i, k>> : i \in 0 .. k-2}), {}),
       ctlB |-> CTL(If(k < descA.nt-1, {<<"ctlB", "zgemm", k, m, i>> : i \in k+1 .. descA.nt-1}),
                    {}),
       ctl |-> CTL({}, {<<"ctlr", "ztrtri", k>>}),
       A |-> READ(Upper(A(k, k)), Part(Upper(A(k, k)), {<<"A", "ztrsm_in_A", k>>}), {}),
       B |-> RW(A(m, k),
                If(k = m+1, {<<"B", "ztrsmL", k-1, k>>})
                  \cup If(k > m+1, {<<"C", "zgemm", k-1, m, k>>}),
                {Mem(A(m, k))})]))

ztrtri_U_ztrsm_in_A ==
  Class1("ztrsm_in_A", 0 .. descA.nt-1,
    LAMBDA k:
      Forward(A(k, k),
      [A |-> PASS(Upper(A(k, k)), {Mem(A(k, k))},
                  If(k < descA.mt-1, Part(Upper(A(k, k)), {<<"A", "ztrsmL", k, i>> : i \in k+1 .. descA.mt-1}))
                    \cup If(k > 0, Part(Upper(A(k, k)), {<<"A", "ztrsmR", k, i>> : i \in 0 .. k-1})))]))

ztrtri_U_ztrtri ==
  Class1("ztrtri", 0 .. descA.nt-1,
    LAMBDA k:
      Task(A(k, k), <<k, 3>>,
      [ctll |-> CTL(If(k = 0 /\ descA.nt > 1, {<<"ctl", "ztrsmL", 0, i>> : i \in 1 .. descA.nt-1}),
                    {}),
       ctlr |-> CTL(If(k > 0, {<<"ctl", "ztrsmR", k, i>> : i \in 0 .. k-1}), {}),
       A |-> RW(Upper(A(k, k)), {Mem(A(k, k))}, {Mem(Upper(A(k, k)))})]))

ztrtri_U ==
  ztrtri_U_ztrsmL @@ ztrtri_U_zgemm @@ ztrtri_U_ztrsmR @@ ztrtri_U_ztrsm_in_A @@
  ztrtri_U_ztrtri

-----------------------------------------------------------------------------
zlauum_U_readA ==
  Class2("readA", 0 .. descA.mt-1, LAMBDA m: m .. descA.nt-1,
    LAMBDA m, n:
      Forward(A(m, n),
      [A |-> PASS(A(m, n), {Mem(A(m, n))},
                  If(m = n, Part(Upper(A(m, n)), {<<"A", "zlauum", n>>}))
                    \cup If(m = n /\ n > 0, Part(Upper(A(m, n)), {<<"A", "ztrmm", n, i>> : i \in 0 .. n-1}))
                    \cup If(n > m, {<<"A", "zherk", n, m>>})
                    \cup If(n > m, {<<"B", "ztrmm", n, m>>})
                    \cup If(n > m /\ m > 0, {<<"B", "zgemm", n, i, m>> : i \in 0 .. m-1})
                    \cup If(n > m+1, {<<"A", "zgemm", n, m, i>> : i \in m+1 .. n-1}))]))

zlauum_U_zherk ==
  Class2("zherk", 1 .. descA.mt-1, LAMBDA k: 0 .. k-1,
    LAMBDA k, m:
      Task(A(m, m), <<k, 0>>,
      [ctl0 |-> CTL({}, {<<"ctl0", "ztrmm", k, m>>}),
       A |-> READ(A(m, k), {<<"A", "readA", m, k>>}, {}),
       C |-> RW(Upper(A(m, m)),
                If(k = m+1, Part(Upper(A(m, m)), {<<"A", "zlauum", m>>}))
                  \cup If(k > m+1, Part(Upper(A(m, m)), {<<"C", "zherk", k-1, m>>})),
                If(k < descA.mt-1, Part(Upper(A(m, m)), {<<"C", "zherk", k+1, m>>}))
                  \cup If(k = descA.mt-1, {Mem(Upper(A(m, m)))}))]))

zlauum_U_zgemm ==
  Class3("zgemm", 2 .. descA.mt-1, LAMBDA k: 0 .. k-2, LAMBDA k, m: m+1 .. k-1,
    LAMBDA k, m, n:
      Task(A(m, n), <<k, 0>>,
      [ctl1 |-> CTL({}, {<<"ctl1", "ztrmm", k, n>>}),
       ctl2 |-> CTL({}, {<<"ctl2", "ztrmm", k, m>>}),
       A |-> READ(A(m, k), {<<"A", "readA", m, k>>}, {}),
       B |-> READ(A(n, k), {<<"A", "readA", n, k>>}, {}),
       C |-> RW(A(m, n),
                If(k = n+1, {<<"B", "ztrmm", n, m>>})
                  \cup If(k > n+1, {<<"C", "zgemm", k-1, m, n>>}),
                If(k = descA.mt-1, {Mem(A(m, n))})
                  \cup If(k < descA.mt-1, {<<"C", "zgemm", k+1, m, n>>}))]))

zlauum_U_ztrmm ==
  Class2("ztrmm", 1 .. descA.mt-1, LAMBDA k: 0 .. k-1,
    LAMBDA k, m:
      Task(A(m, k), <<k, 1>>,
      [ctl0 |-> CTL({<<"ctl0", "zherk", k, m>>}, {}),
       ctl1 |-> CTL({<<"ctl1", "zgemm", k, i, m>> : i \in 0 .. m-1}, {}),
       ctl2 |-> CTL({<<"ctl2", "zgemm", k, m, i>> : i \in m+1 .. k-1}, {}),
       ctl3 |-> CTL({}, {<<"ctl3", "zlauum", k>>}),
       A |-> READ(Upper(A(k, k)), Part(Upper(A(k, k)), {<<"A", "readA", k, k>>}), {}),
       B |-> RW(A(m, k), {<<"A", "readA", m, k>>},
                If(k < descA.mt-1, {<<"C", "zgemm", k+1, m, k>>})
                  \cup If(k = descA.mt-1, {Mem(A(m, k))}))]))

zlauum_U_zlauum ==
  Class1("zlauum", 0 .. descA.mt-1,
    LAMBDA k:
      Task(A(k, k), <<k, 2>>,
      [ctl3 |-> CTL({<<"ctl3", "ztrmm", k, i>> : i \in 0 .. k-1}, {}),
       A |-> RW(Upper(A(k, k)), Part(Upper(A(k, k)), {<<"A", "readA", k, k>>}),
                If(k < descA.mt-1, Part(Upper(A(k, k)), {<<"C", "zherk", k+1, k>>}))
                  \cup If(k = descA.mt-1, {Mem(Upper(A(k, k)))}))]))

zlauum_U ==
  zlauum_U_readA @@ zlauum_U_zherk @@ zlauum_U_zgemm @@ zlauum_U_ztrmm @@ zlauum_U_zlauum

-----------------------------------------------------------------------------
\* dplasma_ztrtri_New.
ztrtri_New(uplo) == IF uplo = "Lower" THEN ztrtri_L ELSE ztrtri_U
==============================================================================
