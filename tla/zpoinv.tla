-------------------------------- MODULE zpoinv -------------------------------
(*****************************************************************************)
(* The upper Cholesky factorization (zpotrf_U.jdf) and the inverse of a      *)
(* positive definite matrix in one graph (zpoinv_L.jdf, zpoinv_U.jdf): the   *)
(* factorization, the inverse of the triangle and its product with itself    *)
(* over the same tiles. Control flows keep the tasks of one phase that       *)
(* overwrite a tile behind those of the phase before that read it.           *)
(*****************************************************************************)
EXTENDS Dataflow

CONSTANTS descA

A(m, n) == Whole("A", m, n)

-----------------------------------------------------------------------------
\* Mutant of zpotrf_U_potrf_zpotrf. Guards that overlap: the second block is loaded and received.
potrf_zpotrf_Reload ==
  Class1("potrf_zpotrf", 0 .. descA.nt-1,
    LAMBDA k:
      Task(A(k, k), <<k, 0>>,
      [T |-> RW(A(k, k),
                If(k <= 1, {Mem(A(k, k))}) \cup If(k # 0, {<<"T", "potrf_zherk", k-1, k>>}),
                {<<"T", "potrf_ztrsm", k, i>> : i \in k+1 .. descA.nt-1} \cup {Mem(A(k, k))})]))

zpotrf_U_potrf_zpotrf ==
  Class1("potrf_zpotrf", 0 .. descA.nt-1,
    LAMBDA k:
      Task(A(k, k), <<k, 0>>,
      [T |-> RW(A(k, k),
                If(k = 0, {Mem(A(k, k))}) \cup If(k # 0, {<<"T", "potrf_zherk", k-1, k>>}),
                {<<"T", "potrf_ztrsm", k, i>> : i \in k+1 .. descA.nt-1} \cup {Mem(A(k, k))})]))

\* Mutant of zpotrf_U_potrf_ztrsm. Placed at the tile it reads.
potrf_ztrsm_Misplaced ==
  Class2("potrf_ztrsm", 0 .. descA.nt-2, LAMBDA k: k+1 .. descA.nt-1,
    LAMBDA k, n:
      Task(A(k, k), <<k, 1>>,
      [T |-> READ(A(k, k), {<<"T", "potrf_zpotrf", k>>}, {}),
       C |-> RW(A(k, n),
                If(k = 0, {Mem(A(k, n))})
                  \cup If(k # 0, {<<"C", "potrf_zgemm", k, n, k-1>>}),
                {<<"A", "potrf_zherk", k, n>>}
                  \cup {<<"A", "potrf_zgemm", n, i, k>> : i \in n+1 .. descA.nt-1}
                  \cup {<<"B", "potrf_zgemm", i, n, k>> : i \in k+1 .. n-1}
                  \cup {Mem(A(k, n))})]))

zpotrf_U_potrf_ztrsm ==
  Class2("potrf_ztrsm", 0 .. descA.nt-2, LAMBDA k: k+1 .. descA.nt-1,
    LAMBDA k, n:
      Task(A(k, n), <<k, 1>>,
      [T |-> READ(A(k, k), {<<"T", "potrf_zpotrf", k>>}, {}),
       C |-> RW(A(k, n),
                If(k = 0, {Mem(A(k, n))})
                  \cup If(k # 0, {<<"C", "potrf_zgemm", k, n, k-1>>}),
                {<<"A", "potrf_zherk", k, n>>}
                  \cup {<<"A", "potrf_zgemm", n, i, k>> : i \in n+1 .. descA.nt-1}
                  \cup {<<"B", "potrf_zgemm", i, n, k>> : i \in k+1 .. n-1}
                  \cup {Mem(A(k, n))})]))

zpotrf_U_potrf_zherk ==
  Class2("potrf_zherk", 0 .. descA.nt-2, LAMBDA k: k+1 .. descA.nt-1,
    LAMBDA k, n:
      Task(A(n, n), <<k, 2>>,
      [A |-> READ(A(k, n), {<<"C", "potrf_ztrsm", k, n>>}, {}),
       T |-> RW(A(n, n),
                If(k = 0, {Mem(A(n, n))}) \cup If(k # 0, {<<"T", "potrf_zherk", k-1, n>>}),
                IF n = k+1 THEN {<<"T", "potrf_zpotrf", n>>} ELSE {<<"T", "potrf_zherk", k+1, n>>})]))

zpotrf_U_potrf_zgemm ==
  Class3("potrf_zgemm", 1 .. descA.mt-1, LAMBDA m: m+1 .. descA.nt-1, LAMBDA m, n: 0 .. MinOf(descA.mt-3, m-1),
    LAMBDA m, n, k:
      Task(A(m, n), <<k, 2>>,
      [A |-> READ(A(k, m), {<<"C", "potrf_ztrsm", k, m>>}, {}),
       B |-> READ(A(k, n), {<<"C", "potrf_ztrsm", k, n>>}, {}),
       C |-> RW(A(m, n),
                If(k = 0, {Mem(A(m, n))})
                  \cup If(k # 0, {<<"C", "potrf_zgemm", m, n, k-1>>}),
                IF m = k+1 THEN {<<"C", "potrf_ztrsm", m, n>>}
                ELSE {<<"C", "potrf_zgemm", m, n, k+1>>})]))

zpotrf_U ==
  zpotrf_U_potrf_zpotrf @@ zpotrf_U_potrf_ztrsm @@ zpotrf_U_potrf_zherk @@
  zpotrf_U_potrf_zgemm

-----------------------------------------------------------------------------
zpoinv_L_potrf_zpotrf ==
  Class1("potrf_zpotrf", 0 .. descA.mt-1,
    LAMBDA k:
      Task(A(k, k), <<0, k, 0>>,
      [A |-> RW(A(k, k), IF k = 0 THEN {Mem(A(k, k))} ELSE {<<"C", "potrf_zherk", k-1, k>>},
                {<<"A", "potrf_ztrsm", k, i>> : i \in k+1 .. descA.mt-1}
                  \cup {<<"A", "trtri_ztrsmL", k, i>> : i \in 0 .. k-1}
                  \cup {<<"A", "trtri_ztrsmR", k, i>> : i \in k+1 .. descA.mt-1}
                  \cup {<<"A", "trtri_ztrtri", k>>})]))

zpoinv_L_potrf_ztrsm ==
  Class2("potrf_ztrsm", 0 .. descA.mt-2, LAMBDA k: k+1 .. descA.mt-1,
    LAMBDA k, m:
      Task(A(m, k), <<0, k, 1>>,
      [A |-> READ(A(k, k), {<<"A", "potrf_zpotrf", k>>}, {}),
       B |-> RW(A(m, k), IF k = 0 THEN {Mem(A(m, k))} ELSE {<<"C", "potrf_zgemm", k-1, m, k>>},
                {<<"A", "potrf_zherk", k, m>>}
                  \cup {<<"A", "potrf_zgemm", k, m, i>> : i \in k+1 .. m-1}
                  \cup {<<"B", "potrf_zgemm", k, i, m>> : i \in m+1 .. descA.mt-1}
                  \cup {<<"B", "trtri_ztrsmR", k, m>>})]))

zpoinv_L_potrf_zherk ==
  Class2("potrf_zherk", 0 .. descA.mt-2, LAMBDA k: k+1 .. descA.mt-1,
    LAMBDA k, m:
      Task(A(m, m), <<0, k, 2>>,
      [A |-> READ(A(m, k), {<<"B", "potrf_ztrsm", k, m>>}, {}),
       C |-> RW(A(m, m), IF k = 0 THEN {Mem(A(m, m))} ELSE {<<"C", "potrf_zherk", k-1, m>>},
                IF m = k+1 THEN {<<"A", "potrf_zpotrf", m>>} ELSE {<<"C", "potrf_zherk", k+1, m>>}),
       ctl0 |-> CTL({}, {<<"ctl0", "trtri_ztrsmR", k, m>>})]))

zpoinv_L_potrf_zgemm ==
  Class3("potrf_zgemm", 0 .. descA.mt-2, LAMBDA k: k+2 .. descA.mt-1, LAMBDA k, m: k+1 .. m-1,
    LAMBDA k, m, n:
      Task(A(m, n), <<0, k, 2>>,
      [A |-> READ(A(m, k), {<<"B", "potrf_ztrsm", k, m>>}, {}),
       B |-> READ(A(n, k), {<<"B", "potrf_ztrsm", k, n>>}, {}),
       C |-> RW(A(m, n), IF k = 0 THEN {Mem(A(m, n))} ELSE {<<"C", "potrf_zgemm", k-1, m, n>>},
                IF n = k+1 THEN {<<"B", "potrf_ztrsm", n, m>>}
                ELSE {<<"C", "potrf_zgemm", k+1, m, n>>}),
       ctl1 |-> CTL({}, {<<"ctl1", "trtri_ztrsmR", k, m>>}),
       ctl2 |-> CTL({}, {<<"ctl2", "trtri_ztrsmR", k, n>>})]))

zpoinv_L_trtri_ztrsmR ==
  Class2("trtri_ztrsmR", 0 .. descA.mt-2, LAMBDA k: k+1 .. descA.mt-1,
    LAMBDA k, m:
      Task(A(m, k), <<1, k, 0>>,
      [A |-> READ(A(k, k), {<<"A", "potrf_zpotrf", k>>}, {}),
       B |-> RW(A(m, k), {<<"B", "potrf_ztrsm", k, m>>},
                If(m = k+1, {<<"B", "trtri_zgemm", m, i, m-1>> : i \in m+1 .. descA.mt-1})
                  \cup If(m = k+1, {<<"B", "trtri_ztrsmL", m, m-1>>})
                  \cup If(m > k+1, {<<"C", "trtri_zgemm", k+1, m, k>>})
                  \cup {<<"A", "trtri_zgemm", k, m, i>> : i \in 0 .. k-1}),
       ctl0 |-> CTL({<<"ctl0", "potrf_zherk", k, m>>}, {}),
       ctl1 |-> CTL({<<"ctl1", "potrf_zgemm", k, m, i>> : i \in k+1 .. m-1}, {}),
       ctl2 |-> CTL({<<"ctl2", "potrf_zgemm", k, i, m>> : i \in m+1 .. descA.mt-1}, {}),
       ctl3 |-> CTL({}, If(k = 0, {<<"ctl3", "trtri_ztrtri", k>>}))]))

zpoinv_L_trtri_zgemm ==
  Class3("trtri_zgemm", 1 .. descA.nt-2, LAMBDA k: k+1 .. descA.nt-1, LAMBDA k, m: 0 .. k-1,
    LAMBDA k, m, n:
      Task(A(m, n), <<1, k, 1>>,
      [A |-> READ(A(m, k), {<<"B", "trtri_ztrsmR", k, m>>}, {}),
       B |-> READ(A(k, n),
                  IF k = n+1 THEN {<<"B", "trtri_ztrsmR", k-1, k>>}
                  ELSE {<<"C", "trtri_zgemm", k-1, k, n>>},
                  {}),
       C |-> RW(A(m, n),
                IF k = n+1 THEN {<<"B", "trtri_ztrsmR", k-1, m>>}
                ELSE {<<"C", "trtri_zgemm", k-1, m, n>>},
                (IF m = k+1 THEN {<<"B", "trtri_ztrsmL", k+1, n>>}
                 ELSE {<<"C", "trtri_zgemm", k+1, m, n>>})
                  \cup If(m = k+1, {<<"B", "trtri_zgemm", k+1, i, n>> : i \in k+2 .. descA.mt-1})),
       ctl4 |-> CTL({}, If(m = k+1, {<<"ctl4", "trtri_ztrsmL", k+1, k>>})),
       ctl5 |-> CTL({<<"ctl5", "trtri_zgemm", n, m, i>> : i \in 0 .. n-1},
                    {<<"ctl5", "trtri_zgemm", i, m, k>> : i \in k+1 .. m-1}),
       ctl6 |-> CTL({}, {<<"ctl6", "trtri_ztrsmL", k, n>>})]))

zpoinv_L_trtri_ztrsmL ==
  Class2("trtri_ztrsmL", 1 .. descA.nt-1, LAMBDA k: 0 .. k-1,
    LAMBDA k, n:
      Task(A(k, n), <<1, k, 2>>,
      [A |-> READ(A(k, k), {<<"A", "potrf_zpotrf", k>>}, {}),
       B |-> RW(A(k, n),
                IF k = n+1 THEN {<<"B", "trtri_ztrsmR", k-1, k>>}
                ELSE {<<"C", "trtri_zgemm", k-1, k, n>>},
                {<<"A", "lauum_zherk", k, n>>}
                  \cup {<<"B", "lauum_ztrmm", k, n>>}
                  \cup {<<"B", "lauum_zgemm", k, n, i>> : i \in n+1 .. k-1}
                  \cup {<<"A", "lauum_zgemm", k, i, n>> : i \in 0 .. n-1}),
       ctl4 |-> CTL(If(k = n+1, {<<"ctl4", "trtri_zgemm", k-1, k, i>> : i \in 0 .. k-2}), {}),
       ctl6 |-> CTL({<<"ctl6", "trtri_zgemm", k, i, n>> : i \in k+1 .. descA.mt-1}, {}),
       ctl7 |-> CTL({}, {<<"ctl7", "trtri_ztrtri", k>>})]))

zpoinv_L_trtri_ztrtri ==
  Class1("trtri_ztrtri", 0 .. descA.nt-1,
    LAMBDA k:
      Task(A(k, k), <<1, k, 3>>,
      [A |-> RW(A(k, k), {<<"A", "potrf_zpotrf", k>>},
                {<<"A", "lauum_zlauum", k>>}
                  \cup {<<"A", "lauum_ztrmm", k, i>> : i \in 0 .. k-1}),
       ctl3 |-> CTL(If(k = 0, {<<"ctl3", "trtri_ztrsmR", 0, i>> : i \in 1 .. descA.mt-1}), {}),
       ctl7 |-> CTL(If(k > 0, {<<"ctl7", "trtri_ztrsmL", k, i>> : i \in 0 .. k-1}), {})]))

zpoinv_L_lauum_zherk ==
  Class2("lauum_zherk", 1 .. descA.mt-1, LAMBDA k: 0 .. k-1,
    LAMBDA k, n:
      Task(A(n, n), <<2, k, 0>>,
      [A |-> READ(A(k, n), {<<"B", "trtri_ztrsmL", k, n>>}, {}),
       C |-> RW(A(n, n),
                IF k = n+1 THEN {<<"A", "lauum_zlauum", k-1>>}
                ELSE {<<"C", "lauum_zherk", k-1, n>>},
                If(k < descA.nt-1, {<<"C", "lauum_zherk", k+1, n>>})
                  \cup If(k = descA.nt-1, {Mem(A(n, n))})),
       ctl8 |-> CTL({}, {<<"ctl8", "lauum_ztrmm", k, n>>})]))

zpoinv_L_lauum_zgemm ==
  Class3("lauum_zgemm", 2 .. descA.mt-1, LAMBDA k: 0 .. k-2, LAMBDA k, n: n+1 .. k-1,
    LAMBDA k, n, m:
      Task(A(m, n), <<2, k, 0>>,
      [A |-> READ(A(k, m), {<<"B", "trtri_ztrsmL", k, m>>}, {}),
       B |-> READ(A(k, n), {<<"B", "trtri_ztrsmL", k, n>>}, {}),
       C |-> RW(A(m, n),
                IF k = m+1 THEN {<<"B", "lauum_ztrmm", k-1, n>>}
                ELSE {<<"C", "lauum_zgemm", k-1, n, m>>},
                If(k = descA.nt-1, {Mem(A(m, n))})
                  \cup If(k < descA.nt-1, {<<"C", "lauum_zgemm", k+1, n, m>>})),
       ctl9 |-> CTL({}, {<<"ctl9", "lauum_ztrmm", k, n>>}),
       ctl10 |-> CTL({}, {<<"ctl10", "lauum_ztrmm", k, m>>})]))

zpoinv_L_lauum_ztrmm ==
  Class2("lauum_ztrmm", 1 .. descA.mt-1, LAMBDA k: 0 .. k-1,
    LAMBDA k, n:
      Task(A(k, n), <<2, k, 1>>,
      [A |-> READ(A(k, k), {<<"A", "trtri_ztrtri", k>>}, {}),
       B |-> RW(A(k, n), {<<"B", "trtri_ztrsmL", k, n>>},
                If(k = descA.nt-1, {Mem(A(k, n))})
                  \cup If(k < descA.nt-1, {<<"C", "lauum_zgemm", k+1, n, k>>})),
       ctl8 |-> CTL({<<"ctl8", "lauum_zherk", k, n>>}, {}),
       ctl9 |-> CTL({<<"ctl9", "lauum_zgemm", k, n, i>> : i \in n+1 .. k-1}, {}),
       ctl10 |-> CTL({<<"ctl10", "lauum_zgemm", k, i, n>> : i \in 0 .. n-1}, {}),
       ctl11 |-> CTL({}, {<<"ctl11", "lauum_zlauum", k>>})]))

zpoinv_L_lauum_zlauum ==
  Class1("lauum_zlauum", 0 .. descA.mt-1,
    LAMBDA k:
      Task(A(k, k), <<2, k, 2>>,
      [A |-> RW(A(k, k), {<<"A", "trtri_ztrtri", k>>},
                If(k = descA.nt-1, {Mem(A(k, k))})
                  \cup If(k < descA.nt-1, {<<"C", "lauum_zherk", k+1, k>>})),
       ctl11 |-> CTL({<<"ctl11", "lauum_ztrmm", k, i>> : i \in 0 .. k-1}, {})]))

zpoinv_L ==
  zpoinv_L_potrf_zpotrf @@ zpoinv_L_potrf_ztrsm @@ zpoinv_L_potrf_zherk @@
  zpoinv_L_potrf_zgemm @@ zpoinv_L_trtri_ztrsmR @@ zpoinv_L_trtri_zgemm @@
  zpoinv_L_trtri_ztrsmL @@ zpoinv_L_trtri_ztrtri @@ zpoinv_L_lauum_zherk @@
  zpoinv_L_lauum_zgemm @@ zpoinv_L_lauum_ztrmm @@ zpoinv_L_lauum_zlauum

-----------------------------------------------------------------------------
zpoinv_U_potrf_zpotrf ==
  Class1("potrf_zpotrf", 0 .. descA.nt-1,
    LAMBDA k:
      Task(A(k, k), <<0, k, 0>>,
      [A |-> RW(A(k, k), IF k = 0 THEN {Mem(A(k, k))} ELSE {<<"B", "potrf_zherk", k-1, k>>},
                {<<"A", "potrf_ztrsm", k, i>> : i \in k+1 .. descA.nt-1}
                  \cup {<<"A", "trtri_ztrsmR", k, i>> : i \in 0 .. k-1}
                  \cup {<<"A", "trtri_ztrsmL", k, i>> : i \in k+1 .. descA.nt-1}
                  \cup {<<"A", "trtri_ztrtri", k>>})]))

zpoinv_U_potrf_ztrsm ==
  Class2("potrf_ztrsm", 0 .. descA.nt-2, LAMBDA k: k+1 .. descA.nt-1,
    LAMBDA k, m:
      Task(A(k, m), <<0, k, 1>>,
      [A |-> READ(A(k, k), {<<"A", "potrf_zpotrf", k>>}, {}),
       B |-> RW(A(k, m), IF k = 0 THEN {Mem(A(k, m))} ELSE {<<"C", "potrf_zgemm", k-1, m, k>>},
                {<<"A", "potrf_zherk", k, m>>}
                  \cup {<<"A", "potrf_zgemm", k, i, m>> : i \in m+1 .. descA.nt-1}
                  \cup {<<"B", "potrf_zgemm", k, m, i>> : i \in k+1 .. m-1}
                  \cup {<<"B", "trtri_ztrsmL", k, m>>})]))

zpoinv_U_potrf_zherk ==
  Class2("potrf_zherk", 0 .. descA.nt-2, LAMBDA k: k+1 .. descA.nt-1,
    LAMBDA k, m:
      Task(A(m, m), <<0, k, 2>>,
      [A |-> READ(A(k, m), {<<"B", "potrf_ztrsm", k, m>>}, {}),
       B |-> RW(A(m, m), IF k = 0 THEN {Mem(A(m, m))} ELSE {<<"B", "potrf_zherk", k-1, m>>},
                IF m = k+1 THEN {<<"A", "potrf_zpotrf", m>>} ELSE {<<"B", "potrf_zherk", k+1, m>>}),
       ctl0 |-> CTL({}, {<<"ctl0", "trtri_ztrsmL", k, m>>})]))

zpoinv_U_potrf_zgemm ==
  Class3("potrf_zgemm", 0 .. descA.nt-2, LAMBDA k: k+2 .. descA.nt-1, LAMBDA k, m: k+1 .. m-1,
    LAMBDA k, m, n:
      Task(A(n, m), <<0, k, 2>>,
      [A |-> READ(A(k, n), {<<"B", "potrf_ztrsm", k, n>>}, {}),
       B |-> READ(A(k, m), {<<"B", "potrf_ztrsm", k, m>>}, {}),
       C |-> RW(A(n, m), IF k = 0 THEN {Mem(A(n, m))} ELSE {<<"C", "potrf_zgemm", k-1, m, n>>},
                IF n = k+1 THEN {<<"B", "potrf_ztrsm", n, m>>}
                ELSE {<<"C", "potrf_zgemm", k+1, m, n>>}),
       ctl1 |-> CTL({}, {<<"ctl1", "trtri_ztrsmL", k, m>>}),
       ctl2 |-> CTL({}, {<<"ctl2", "trtri_ztrsmL", k, n>>})]))

zpoinv_U_trtri_ztrsmL ==
  Class2("trtri_ztrsmL", 0 .. descA.nt-2, LAMBDA k: k+1 .. descA.nt-1,
    LAMBDA k, n:
      Task(A(k, n), <<1, k, 0>>,
      [A |-> READ(A(k, k), {<<"A", "potrf_zpotrf", k>>}, {}),
       B |-> RW(A(k, n), {<<"B", "potrf_ztrsm", k, n>>},
                If(n = k+1, {<<"A", "trtri_zgemm", n, n-1, i>> : i \in n+1 .. descA.nt-1})
                  \cup If(n = k+1, {<<"B", "trtri_ztrsmR", n, n-1>>})
                  \cup If(n > k+1, {<<"C", "trtri_zgemm", k+1, k, n>>})
                  \cup {<<"B", "trtri_zgemm", k, i, n>> : i \in 0 .. k-1}),
       ctl0 |-> CTL({<<"ctl0", "potrf_zherk", k, n>>}, {}),
       ctl1 |-> CTL({<<"ctl1", "potrf_zgemm", k, i, n>> : i \in n+1 .. descA.nt-1}, {}),
       ctl2 |-> CTL({<<"ctl2", "potrf_zgemm", k, n, i>> : i \in k+1 .. n-1}, {}),
       ctl3 |-> CTL({}, If(k = 0, {<<"ctl3", "trtri_ztrtri", k>>}))]))

zpoinv_U_trtri_zgemm ==
  Class3("trtri_zgemm", 1 .. descA.nt-2, LAMBDA k: 0 .. k-1, LAMBDA k, m: k+1 .. descA.nt-1,
    LAMBDA k, m, n:
      Task(A(m, n), <<1, k, 1>>,
      [A |-> READ(A(m, k),
                  IF k = m+1 THEN {<<"B", "trtri_ztrsmL", m+1-1, m+1>>}
                  ELSE {<<"C", "trtri_zgemm", k-1, m, k>>},
                  {}),
       B |-> READ(A(k, n), {<<"B", "trtri_ztrsmL", k, n>>}, {}),
       C |-> RW(A(m, n),
                IF k = m+1 THEN {<<"B", "trtri_ztrsmL", m, n>>}
                ELSE {<<"C", "trtri_zgemm", k-1, m, n>>},
                (IF n = k+1 THEN {<<"B", "trtri_ztrsmR", n, m>>}
                 ELSE {<<"C", "trtri_zgemm", k+1, m, n>>})
                  \cup If(n = k+1, {<<"A", "trtri_zgemm", n, m, i>> : i \in n+1 .. descA.nt-1})),
       ctl4 |-> CTL({}, {<<"ctl4", "trtri_ztrsmR", k, m>>}),
       ctl5 |-> CTL({<<"ctl5", "trtri_zgemm", m, i, n>> : i \in 0 .. m-1},
                    {<<"ctl5", "trtri_zgemm", i, k, n>> : i \in k+1 .. n-1}),
       ctl6 |-> CTL({}, If(n = k+1, {<<"ctl6", "trtri_ztrsmR", k+1, k>>}))]))

zpoinv_U_trtri_ztrsmR ==
  Class2("trtri_ztrsmR", 1 .. descA.mt-1, LAMBDA k: 0 .. k-1,
    LAMBDA k, m:
      Task(A(m, k), <<1, k, 2>>,
      [A |-> READ(A(k, k), {<<"A", "potrf_zpotrf", k>>}, {}),
       B |-> RW(A(m, k),
                IF k = m+1 THEN {<<"B", "trtri_ztrsmL", k-1, k>>}
                ELSE {<<"C", "trtri_zgemm", k-1, m, k>>},
                {<<"A", "lauum_zherk", k, m>>}
                  \cup {<<"B", "lauum_ztrmm", k, m>>}
                  \cup {<<"A", "lauum_zgemm", k, m, i>> : i \in m+1 .. k-1}
                  \cup {<<"B", "lauum_zgemm", k, i, m>> : i \in 0 .. m-1}),
       ctl4 |-> CTL({<<"ctl4", "trtri_zgemm", k, m, i>> : i \in k+1 .. descA.nt-1}, {}),
       ctl6 |-> CTL(If(k = m+1, {<<"ctl6", "trtri_zgemm", k-1, i, k>> : i \in 0 .. k-2}), {}),
       ctl7 |-> CTL({}, {<<"ctl7", "trtri_ztrtri", k>>})]))

zpoinv_U_trtri_ztrtri ==
  Class1("trtri_ztrtri", 0 .. descA.mt-1,
    LAMBDA k:
      Task(A(k, k), <<1, k, 3>>,
      [A |-> RW(A(k, k), {<<"A", "potrf_zpotrf", k>>},
                {<<"A", "lauum_zlauum", k>>}
                  \cup {<<"A", "lauum_ztrmm", k, i>> : i \in 0 .. k-1}),
       ctl3 |-> CTL(If(k = 0, {<<"ctl3", "trtri_ztrsmL", 0, i>> : i \in 1 .. descA.nt-1}), {}),
       ctl7 |-> CTL(If(k > 0, {<<"ctl7", "trtri_ztrsmR", k, i>> : i \in 0 .. k-1}), {})]))

zpoinv_U_lauum_zherk ==
  Class2("lauum_zherk", 1 .. descA.mt-1, LAMBDA k: 0 .. k-1,
    LAMBDA k, m:
      Task(A(m, m), <<2, k, 0>>,
      [A |-> READ(A(m, k), {<<"B", "trtri_ztrsmR", k, m>>}, {}),
       B |-> RW(A(m, m),
                IF k = m+1 THEN {<<"A", "lauum_zlauum", k-1>>}
                ELSE {<<"B", "lauum_zherk", k-1, m>>},
                If(k < descA.nt-1, {<<"B", "lauum_zherk", k+1, m>>})
                  \cup If(k = descA.nt-1, {Mem(A(m, m))})),
       ctl8 |-> CTL({}, {<<"ctl8", "lauum_ztrmm", k, m>>})]))

zpoinv_U_lauum_zgemm ==
  Class3("lauum_zgemm", 2 .. descA.mt-1, LAMBDA k: 0 .. k-2, LAMBDA k, m: m+1 .. k-1,
    LAMBDA k, m, n:
      Task(A(m, n), <<2, k, 0>>,
      [A |-> READ(A(m, k), {<<"B", "trtri_ztrsmR", k, m>>}, {}),
       B |-> READ(A(n, k), {<<"B", "trtri_ztrsmR", k, n>>}, {}),
       C |-> RW(A(m, n),
                IF k = n+1 THEN {<<"B", "lauum_ztrmm", k-1, m>>}
                ELSE {<<"C", "lauum_zgemm", k-1, m, n>>},
                If(k = descA.nt-1, {Mem(A(m, n))})
                  \cup If(k < descA.nt-1, {<<"C", "lauum_zgemm", k+1, m, n>>})),
       ctl9 |-> CTL({}, {<<"ctl9", "lauum_ztrmm", k, m>>}),
       ctl10 |-> CTL({}, {<<"ctl10", "lauum_ztrmm", k, n>>})]))

zpoinv_U_lauum_ztrmm ==
  Class2("lauum_ztrmm", 1 .. descA.mt-1, LAMBDA k: 0 .. k-1,
    LAMBDA k, m:
      Task(A(m, k), <<2, k, 1>>,
      [A |-> READ(A(k, k), {<<"A", "trtri_ztrtri", k>>}, {}),
       B |-> RW(A(m, k), {<<"B", "trtri_ztrsmR", k, m>>},
                If(k = descA.nt-1, {Mem(A(m, k))})
                  \cup If(k < descA.nt-1, {<<"C", "lauum_zgemm", k+1, m, k>>})),
       ctl8 |-> CTL({<<"ctl8", "lauum_zherk", k, m>>}, {}),
       ctl9 |-> CTL({<<"ctl9", "lauum_zgemm", k, m, i>> : i \in m+1 .. k-1}, {}),
       ctl10 |-> CTL({<<"ctl10", "lauum_zgemm", k, i, m>> : i \in 0 .. m-1}, {}),
       ctl11 |-> CTL({}, {<<"ctl11", "lauum_zlauum", k>>})]))

zpoinv_U_lauum_zlauum ==
  Class1("lauum_zlauum", 0 .. descA.mt-1,
    LAMBDA k:
      Task(A(k, k), <<2, k, 2>>,
      [A |-> RW(A(k, k), {<<"A", "trtri_ztrtri", k>>},
                If(k = descA.nt-1, {Mem(A(k, k))})
                  \cup If(k < descA.nt-1, {<<"B", "lauum_zherk", k+1, k>>})),
       ctl11 |-> CTL({<<"ctl11", "lauum_ztrmm", k, i>> : i \in 0 .. k-1}, {})]))

zpoinv_U ==
  zpoinv_U_potrf_zpotrf @@ zpoinv_U_potrf_ztrsm @@ zpoinv_U_potrf_zherk @@
  zpoinv_U_potrf_zgemm @@ zpoinv_U_trtri_ztrsmL @@ zpoinv_U_trtri_zgemm @@
  zpoinv_U_trtri_ztrsmR @@ zpoinv_U_trtri_ztrtri @@ zpoinv_U_lauum_zherk @@
  zpoinv_U_lauum_zgemm @@ zpoinv_U_lauum_ztrmm @@ zpoinv_U_lauum_zlauum

-----------------------------------------------------------------------------
\* dplasma_zpoinv_New.
zpoinv_New(uplo) == IF uplo = "Lower" THEN zpoinv_L ELSE zpoinv_U
==============================================================================
