----------------------------- MODULE zgelqf_param ----------------------------
(*****************************************************************************)
(* LQ factorization with a reduction tree (zgelqf_param.jdf), generation     *)
(* of Q (zunglq_param.jdf) and products with Q (zunmlq_param_*.jdf): the     *)
(* transposed form of zgeqrf_param, over the columns of a row of tiles.      *)
(*****************************************************************************)
EXTENDS Dataflow

CONSTANTS descA, descB, descQ, qrtree

A(m, n) == Halves("A", m, n)
TS(m, n) == Whole("TS", m, n)
TT(m, n) == Whole("TT", m, n)
Q(m, n) == Whole("Q", m, n)
B(m, n) == Whole("B", m, n)

\* qrtree holds the seven functions of the tree.  What a kill leaves of its victim (column)
\* for the updates: a full tile if the type of the victim is 0, or else a triangle.
Killed(k, m) ==
  IF qrtree.gettype[k][m] = 0 THEN A(k, m) ELSE Lower(A(k, m))

\* The round of panel k in which column m is killed: after the kill before it in the
\* list of its pivot, and after the last of its own.
Turn(k, m) ==
  LET none    == descA.nt
      T[i \in k .. none] ==
        IF i = none THEN 0
        ELSE 1 + MaxOf(T[qrtree.prevpiv[k][qrtree.currpiv[k][i]][i]], T[qrtree.prevpiv[k][i][i]])
  IN  T[m]

minMN == IF descA.mt < descA.nt THEN descA.mt ELSE descA.nt

\* The last panel of reflectors, and the last one with tiles right of it.
KT    == descA.mt-1
KT2   == MinOf(KT, descA.nt-2)
Q_KT2 == MinOf(KT, descQ.nt-2)

-----------------------------------------------------------------------------
zgelqf_param_zgelqt ==
  Class2("zgelqt", 0 .. minMN-1, LAMBDA k: 0 .. qrtree.getnbgeqrf[k]-1,
    LAMBDA k, i:
      LET n == qrtree.getm[k][i]
          nextn == qrtree.nextpiv[k][n][descA.nt]
      IN
      Task(A(k, n), <<k, 0>>,
      [A |-> RW(A(k, n),
                If(k = 0, {Mem(A(k, n))}) \cup If(k > 0, {<<"A2", "zttmlq", k-1, k, n>>}),
                {<<"A", "zgelqt_typechange", k, i>>}
                  \cup If(k = descA.nt-1, {Mem(Lower(A(k, n)))})
                  \cup If(k < descA.nt-1 /\ nextn # descA.nt, Part(Lower(A(k, n)), {<<"A1", "zttlqt", k, nextn>>}))
                  \cup If(k < descA.nt-1 /\ nextn = descA.nt, Part(Lower(A(k, n)), {<<"A2", "zttlqt", k, n>>}))),
       T |-> RW(TS(k, n), {Mem(TS(k, n))},
                {Mem(TS(k, n))}
                  \cup If(k < descA.mt-1, {<<"T", "zunmlq", k, i, j>> : j \in k+1 .. descA.mt-1}))]))

zgelqf_param_zgelqt_typechange ==
  Class2("zgelqt_typechange", 0 .. minMN-1, LAMBDA k: 0 .. qrtree.getnbgeqrf[k]-1,
    LAMBDA k, i:
      LET n == qrtree.getm[k][i]
      IN
      Forward(A(k, n),
      [A |-> PASS(Upper(A(k, n)), {<<"A", "zgelqt", k, i>>},
                  If(k < descA.mt-1, Part(Upper(A(k, n)), {<<"A", "zunmlq", k, i, j>> : j \in k+1 .. descA.mt-1}))
                    \cup {Mem(Upper(A(k, n)))})]))

zgelqf_param_zunmlq ==
  Class3("zunmlq", 0 .. minMN-1, LAMBDA k: 0 .. qrtree.getnbgeqrf[k]-1, LAMBDA k, i: k+1 .. descA.mt-1,
    LAMBDA k, i, m:
      LET n == qrtree.getm[k][i]
          nextn == qrtree.nextpiv[k][n][descA.nt]
      IN
      Task(A(m, n), <<k, 1>>,
      [A |-> READ(Upper(A(k, n)), Part(Upper(A(k, n)), {<<"A", "zgelqt_typechange", k, i>>}),
                  {}),
       T |-> READ(TS(k, n), {<<"T", "zgelqt", k, i>>}, {}),
       C |-> RW(A(m, n),
                If(0 = k, {Mem(A(m, n))}) \cup If(k > 0, {<<"A2", "zttmlq", k-1, m, n>>}),
                If(k = descA.nt-1, {Mem(A(m, n))})
                  \cup If(k < descA.nt-1 /\ nextn # descA.nt, {<<"A1", "zttmlq", k, m, nextn>>})
                  \cup If(k < descA.nt-1 /\ nextn = descA.nt, {<<"A2", "zttmlq", k, m, n>>}))]))

zgelqf_param_zttlqt ==
  Class2("zttlqt", 0 .. minMN-1, LAMBDA k: k+1 .. descA.nt-1,
    LAMBDA k, n:
      LET p == qrtree.currpiv[k][n]
          nextp == qrtree.nextpiv[k][p][n]
          prevp == qrtree.prevpiv[k][p][n]
          prevn == qrtree.prevpiv[k][n][n]
          type == qrtree.gettype[k][n]
          ip == qrtree.geti[k][p]
          in == qrtree.geti[k][n]
      IN
      Task(A(k, n), <<k, 2, Turn(k, n), 0>>,
      [A1 |-> RW(Lower(A(k, p)),
                 IF prevp = descA.nt
                 THEN Part(Lower(A(k, p)), {<<"A", "zgelqt", k, ip>>})
                 ELSE Part(Lower(A(k, p)), {<<"A1", "zttlqt", k, prevp>>}),
                 If(nextp # descA.nt, Part(Lower(A(k, p)), {<<"A1", "zttlqt", k, nextp>>}))
                   \cup If(nextp = descA.nt /\ p = k, Part(Lower(A(k, p)), {<<"A", "zttlqt_out_A1", k>>}))
                   \cup If(nextp = descA.nt /\ p # k, Part(Lower(A(k, p)), {<<"A2", "zttlqt", k, p>>}))),
       A2 |-> RW(Killed(k, n),
                 If(type = 0 /\ k = 0, {Mem(A(k, n))})
                   \cup If(type = 0 /\ k # 0, {<<"A2", "zttmlq", k-1, k, n>>})
                   \cup If(type # 0 /\ prevn = descA.nt, Part(Lower(Killed(k, n)), {<<"A", "zgelqt", k, in>>}))
                   \cup If(type # 0 /\ prevn # descA.nt, Part(Lower(Killed(k, n)), {<<"A1", "zttlqt", k, prevn>>})),
                 If(type = 0, {Mem(A(k, n))})
                   \cup If(type # 0, {Mem(Lower(A(k, n)))})
                   \cup If(type = 0 /\ descA.mt-1 > k, {<<"V", "zttmlq", k, i, n>> : i \in k+1 .. descA.mt-1})
                   \cup If(type # 0 /\ descA.mt-1 > k, Part(Lower(Killed(k, n)), {<<"V", "zttmlq", k, i, n>> : i \in k+1 .. descA.mt-1}))),
       T |-> RW(TT(k, n), {Mem(TT(k, n))},
                {Mem(TT(k, n))}
                  \cup If(descA.mt-1 > k, {<<"T", "zttmlq", k, i, n>> : i \in k+1 .. descA.mt-1}))]))

zgelqf_param_zttlqt_out_A1 ==
  Class1("zttlqt_out_A1", 0 .. (IF descA.nt <= descA.mt THEN descA.nt-2 ELSE descA.mt-1),
    LAMBDA k:
      LET prevp == qrtree.prevpiv[k][k][k]
      IN
      Forward(A(k, k),
      [A |-> PASS(Lower(A(k, k)), Part(Lower(A(k, k)), {<<"A1", "zttlqt", k, prevp>>}),
                  {Mem(Lower(A(k, k)))})]))

zgelqf_param_zttmlq ==
  Class3("zttmlq", 0 .. minMN-1, LAMBDA k: k+1 .. descA.mt-1, LAMBDA k, m: k+1 .. descA.nt-1,
    LAMBDA k, m, n:
      LET p == qrtree.currpiv[k][n]
          nextp == qrtree.nextpiv[k][p][n]
          prevp == qrtree.prevpiv[k][p][n]
          prevn == qrtree.prevpiv[k][n][n]
          type == qrtree.gettype[k][n]
          type1 == qrtree.gettype[k+1][n]
          ip == qrtree.geti[k][p]
          in == qrtree.geti[k][n]
          in1 == qrtree.geti[k+1][n]
      IN
      Task(A(m, n), <<k, 2, Turn(k, n), 1>>,
      [A1 |-> RW(A(m, p),
                 IF prevp = descA.nt THEN {<<"C", "zunmlq", k, ip, m>>}
                 ELSE {<<"A1", "zttmlq", k, m, prevp>>},
                 If(nextp # descA.nt, {<<"A1", "zttmlq", k, m, nextp>>})
                   \cup If(nextp = descA.nt /\ p = k, {<<"A", "zttmlq_out_A1", p, m>>})
                   \cup If(nextp = descA.nt /\ p # k, {<<"A2", "zttmlq", k, m, p>>})),
       A2 |-> RW(A(m, n),
                 If(type = 0 /\ k = 0, {Mem(A(m, n))})
                   \cup If(type = 0 /\ k # 0, {<<"A2", "zttmlq", k-1, m, n>>})
                   \cup If(type # 0 /\ prevn = descA.nt, {<<"C", "zunmlq", k, in, m>>})
                   \cup If(type # 0 /\ prevn # descA.nt, {<<"A1", "zttmlq", k, m, prevn>>}),
                 If(type1 # 0 /\ m = k+1, {<<"A", "zgelqt", k+1, in1>>})
                   \cup If(type1 # 0 /\ m > k+1, {<<"C", "zunmlq", k+1, in1, m>>})
                   \cup If(type1 = 0 /\ m = k+1, {<<"A2", "zttlqt", k+1, n>>})
                   \cup If(type1 = 0 /\ m > k+1, {<<"A2", "zttmlq", k+1, m, n>>})),
       V |-> READ(Killed(k, n),
                  If(type = 0, {<<"A2", "zttlqt", k, n>>})
                    \cup If(type # 0, Part(Lower(Killed(k, n)), {<<"A2", "zttlqt", k, n>>})),
                  {}),
       T |-> READ(TT(k, n), {<<"T", "zttlqt", k, n>>}, {})]))

zgelqf_param_zttmlq_out_A1 ==
  Class2("zttmlq_out_A1", 0 .. minMN-2, LAMBDA k: k+1 .. descA.mt-1,
    LAMBDA k, m:
      LET prevp == qrtree.prevpiv[k][k][k]
      IN
      Forward(A(m, k),
      [A |-> PASS(A(m, k), {<<"A1", "zttmlq", k, m, prevp>>}, {Mem(A(m, k))})]))

zgelqf_param ==
  zgelqf_param_zgelqt @@ zgelqf_param_zgelqt_typechange @@ zgelqf_param_zunmlq @@
  zgelqf_param_zttlqt @@ zgelqf_param_zttlqt_out_A1 @@ zgelqf_param_zttmlq @@
  zgelqf_param_zttmlq_out_A1

-----------------------------------------------------------------------------
zunglq_param_zlaset ==
  Class2("zlaset", 0 .. descQ.mt-1, LAMBDA m: 0 .. descQ.nt-1,
    LAMBDA m, n:
      LET k == MinOf(KT, MinOf(m, n))
          prevn == qrtree.prevpiv[k][n][n]
          cc == descQ.nt = descA.mt /\ m = descQ.nt-1 /\ n = descQ.nt-1
      IN
      Task(Q(m, n), <<0>>,
      [A |-> WRITE(Q(m, n), {Mem(Q(m, n))},
                   If(cc, {<<"C", "zunmlq", k, 0, m>>})
                     \cup If(~cc /\ n <= KT /\ m >= n, {<<"A1", "zttmlq", k, m, prevn>>})
                     \cup If(~cc /\ (n > KT \/ m < n), {<<"A2", "zttmlq", k, m, n>>}))]))

zunglq_param_zunmlq ==
  Class3("zunmlq", 0 .. KT, LAMBDA k: 0 .. qrtree.getnbgeqrf[k]-1, LAMBDA k, i: k .. descQ.mt-1,
    LAMBDA k, i, m:
      LET n == qrtree.getm[k][i]
          nextn == qrtree.nextpiv[k][n][descQ.nt]
      IN
      Task(Q(m, n), <<1, -k, 1>>,
      [A |-> READ(Upper(A(k, n)), Part(Upper(A(k, n)), {<<"A", "zunmlq_in_A", k, i>>}), {}),
       T |-> READ(TS(k, n), {<<"T", "zunmlq_in_T", k, i>>}, {}),
       C |-> RW(Q(m, n),
                If(k = descQ.nt-1, {<<"A", "zlaset", m, n>>})
                  \cup If(k < descQ.nt-1 /\ nextn # descQ.nt, {<<"A1", "zttmlq", k, m, nextn>>})
                  \cup If(k < descQ.nt-1 /\ nextn = descQ.nt, {<<"A2", "zttmlq", k, m, n>>}),
                If(k = 0, {Mem(Q(m, n))}) \cup If(k > 0, {<<"A2", "zttmlq", k-1, m, n>>}))]))

zunglq_param_zunmlq_in_A ==
  Class2("zunmlq_in_A", 0 .. KT, LAMBDA k: 0 .. qrtree.getnbgeqrf[k]-1,
    LAMBDA k, i:
      LET n == qrtree.getm[k][i]
      IN
      Forward(A(k, n),
      [A |-> PASS(Upper(A(k, n)), {Mem(A(k, n))},
                  Part(Upper(A(k, n)), {<<"A", "zunmlq", k, i, j>> : j \in k .. descQ.mt-1}))]))

zunglq_param_zunmlq_in_T ==
  Class2("zunmlq_in_T", 0 .. KT, LAMBDA k: 0 .. qrtree.getnbgeqrf[k]-1,
    LAMBDA k, i:
      LET n == qrtree.getm[k][i]
      IN
      Forward(TS(k, n),
      [T |-> PASS(TS(k, n), {Mem(TS(k, n))},
                  {<<"T", "zunmlq", k, i, j>> : j \in k .. descQ.mt-1})]))

zunglq_param_zttmlq ==
  Class3("zttmlq", 0 .. Q_KT2, LAMBDA k: k .. descQ.mt-1, LAMBDA k, m: k+1 .. descQ.nt-1,
    LAMBDA k, m, n:
      LET p == qrtree.currpiv[k][n]
          nextp == qrtree.nextpiv[k][p][n]
          prevp == qrtree.prevpiv[k][p][n]
          prevn == qrtree.prevpiv[k][n][n]
          type == qrtree.gettype[k][n]
          ip == qrtree.geti[k][p]
          in == qrtree.geti[k][n]
          type1 == IF k = KT THEN -1 ELSE qrtree.gettype[k+1][n]
          in1 == IF k = KT THEN -1 ELSE qrtree.geti[k+1][n]
      IN
      Task(Q(m, n), <<1, -k, 0, -Turn(k, n)>>,
      [A1 |-> RW(Q(m, p),
                 If(nextp # descQ.nt, {<<"A1", "zttmlq", k, m, nextp>>})
                   \cup If(nextp = descQ.nt /\ p = k, {<<"A", "zlaset", m, p>>})
                   \cup If(nextp = descQ.nt /\ p # k, {<<"A2", "zttmlq", k, m, p>>}),
                 IF prevp = descQ.nt THEN {<<"C", "zunmlq", k, ip, m>>}
                 ELSE {<<"A1", "zttmlq", k, m, prevp>>}),
       A2 |-> RW(Q(m, n),
                 If(k = KT \/ m = k, {<<"A", "zlaset", m, n>>})
                   \cup If(k # KT /\ m # k /\ type1 # 0, {<<"C", "zunmlq", k+1, in1, m>>})
                   \cup If(k # KT /\ m # k /\ type1 = 0, {<<"A2", "zttmlq", k+1, m, n>>}),
                 If(type = 0 /\ k = 0, {Mem(Q(m, n))})
                   \cup If(type = 0 /\ k # 0, {<<"A2", "zttmlq", k-1, m, n>>})
                   \cup If(type # 0 /\ prevn = descA.nt, {<<"C", "zunmlq", k, in, m>>})
                   \cup If(type # 0 /\ prevn # descA.nt, {<<"A1", "zttmlq", k, m, prevn>>})),
       V |-> READ(Killed(k, n),
                  If(type = 0, {<<"A", "zttmlq_in_A", k, n>>})
                    \cup If(type # 0, Part(Lower(Killed(k, n)), {<<"A", "zttmlq_in_A", k, n>>})),
                  {}),
       T |-> READ(TT(k, n), {<<"T", "zttmlq_in_T", k, n>>}, {})]))

zunglq_param_zttmlq_in_A ==
  Class2("zttmlq_in_A", 0 .. Q_KT2, LAMBDA k: k+1 .. descQ.nt-1,
    LAMBDA k, n:
      LET type == qrtree.gettype[k][n]
      IN
      Forward(A(k, n),
      [A |-> PASS(A(k, n), {Mem(A(k, n))},
                  If(type = 0, {<<"V", "zttmlq", k, i, n>> : i \in k .. descQ.mt-1})
                    \cup If(type # 0, Part(Lower(A(k, n)), {<<"V", "zttmlq", k, i, n>> : i \in k .. descQ.mt-1})))]))

zunglq_param_zttmlq_in_T ==
  Class2("zttmlq_in_T", 0 .. Q_KT2, LAMBDA k: k+1 .. descQ.nt-1,
    LAMBDA k, n:
      Forward(TT(k, n),
      [T |-> PASS(TT(k, n), {Mem(TT(k, n))},
                  {<<"T", "zttmlq", k, i, n>> : i \in k .. descQ.mt-1})]))

zunglq_param ==
  zunglq_param_zlaset @@ zunglq_param_zunmlq @@ zunglq_param_zunmlq_in_A @@
  zunglq_param_zunmlq_in_T @@ zunglq_param_zttmlq @@ zunglq_param_zttmlq_in_A @@
  zunglq_param_zttmlq_in_T

-----------------------------------------------------------------------------
zunmlq_param_LN_zunmlq ==
  Class3("zunmlq", 0 .. KT, LAMBDA k: 0 .. qrtree.getnbgeqrf[k]-1, LAMBDA k, i: 0 .. descB.nt-1,
    LAMBDA k, i, n:
      LET p == qrtree.getm[k][i]
          nextp == qrtree.nextpiv[k][p][descA.nt]
      IN
      Task(B(p, n), <<k, 0>>,
      [A |-> READ(Upper(A(k, p)), Part(Upper(A(k, p)), {<<"A", "zunmlq_in", k, i>>}), {}),
       T |-> READ(TS(k, p), {<<"T", "zunmlq_in", k, i>>}, {}),
       C |-> RW(B(p, n),
                If(k = 0, {Mem(B(p, n))}) \cup If(k > 0, {<<"A2", "zttmlq", k-1, p, n>>}),
                If(k = descA.nt-1, {Mem(B(p, n))})
                  \cup If(k < descA.nt-1 /\ nextp # descA.nt, {<<"A1", "zttmlq", k, nextp, n>>})
                  \cup If(k < descA.nt-1 /\ nextp = descA.nt, {<<"A2", "zttmlq", k, p, n>>}))]))

zunmlq_param_LN_zunmlq_in ==
  Class2("zunmlq_in", 0 .. KT, LAMBDA k: 0 .. qrtree.getnbgeqrf[k]-1,
    LAMBDA k, i:
      LET p == qrtree.getm[k][i]
      IN
      Forward(A(k, p),
      [A |-> PASS(Upper(A(k, p)), {Mem(A(k, p))},
                  Part(Upper(A(k, p)), {<<"A", "zunmlq", k, i, j>> : j \in 0 .. descB.nt-1})),
       T |-> PASS(TS(k, p), {Mem(TS(k, p))},
                  {<<"T", "zunmlq", k, i, j>> : j \in 0 .. descB.nt-1})]))

zunmlq_param_LN_zttmlq ==
  Class3("zttmlq", 0 .. KT2, LAMBDA k: k+1 .. descB.mt-1, LAMBDA k, m: 0 .. descB.nt-1,
    LAMBDA k, m, n:
      LET p == qrtree.currpiv[k][m]
          nextp == qrtree.nextpiv[k][p][m]
          prevp == qrtree.prevpiv[k][p][m]
          prevm == qrtree.prevpiv[k][m][m]
          type == qrtree.gettype[k][m]
          ip == qrtree.geti[k][p]
          im == qrtree.geti[k][m]
          type1 == IF k = KT THEN -1 ELSE qrtree.gettype[k+1][m]
          im1 == IF k = KT THEN -1 ELSE qrtree.geti[k+1][m]
      IN
      Task(B(m, n), <<k, 1, Turn(k, m)>>,
      [A1 |-> RW(B(p, n),
                 IF prevp = descA.nt THEN {<<"C", "zunmlq", k, ip, n>>}
                 ELSE {<<"A1", "zttmlq", k, prevp, n>>},
                 If(nextp = descA.nt /\ p = k, {<<"A", "zttmlq_out_B", p, n>>})
                   \cup If(nextp = descA.nt /\ p # k, {<<"A2", "zttmlq", k, p, n>>})
                   \cup If(nextp # descA.nt, {<<"A1", "zttmlq", k, nextp, n>>})),
       A2 |-> RW(B(m, n),
                 If(type = 0 /\ k = 0, {Mem(B(m, n))})
                   \cup If(type = 0 /\ k # 0, {<<"A2", "zttmlq", k-1, m, n>>})
                   \cup If(type # 0 /\ prevm = descA.nt, {<<"C", "zunmlq", k, im, n>>})
                   \cup If(type # 0 /\ prevm # descA.nt, {<<"A1", "zttmlq", k, prevm, n>>}),
                 If(k = KT, {Mem(B(m, n))})
                   \cup If(k < KT /\ type1 # 0, {<<"C", "zunmlq", k+1, im1, n>>})
                   \cup If(k < KT /\ type1 = 0, {<<"A2", "zttmlq", k+1, m, n>>})),
       V |-> READ(Killed(k, m),
                  If(type = 0, {<<"A", "zttmlq_in", k, m>>})
                    \cup If(type # 0, Part(Lower(Killed(k, m)), {<<"A", "zttmlq_in", k, m>>})),
                  {}),
       T |-> READ(TT(k, m), {<<"T", "zttmlq_in", k, m>>}, {})]))

zunmlq_param_LN_zttmlq_in ==
  Class2("zttmlq_in", 0 .. KT2, LAMBDA k: k+1 .. descA.nt-1,
    LAMBDA k, n:
      LET type == qrtree.gettype[k][n]
      IN
      Forward(A(k, n),
      [A |-> PASS(A(k, n), {Mem(A(k, n))},
                  If(type = 0, {<<"V", "zttmlq", k, n, i>> : i \in 0 .. descB.nt-1})
                    \cup If(type # 0, Part(Lower(A(k, n)), {<<"V", "zttmlq", k, n, i>> : i \in 0 .. descB.nt-1}))),
       T |-> PASS(TT(k, n), {Mem(TT(k, n))},
                  {<<"T", "zttmlq", k, n, i>> : i \in 0 .. descB.nt-1})]))

zunmlq_param_LN_zttmlq_out_B ==
  Class2("zttmlq_out_B", 0 .. KT2, LAMBDA k: 0 .. descB.nt-1,
    LAMBDA k, n:
      LET prevp == qrtree.prevpiv[k][k][k]
      IN
      Forward(B(k, n),
      [A |-> PASS(B(k, n), {<<"A1", "zttmlq", k, prevp, n>>}, {Mem(B(k, n))})]))

zunmlq_param_LN ==
  zunmlq_param_LN_zunmlq @@ zunmlq_param_LN_zunmlq_in @@ zunmlq_param_LN_zttmlq @@
  zunmlq_param_LN_zttmlq_in @@ zunmlq_param_LN_zttmlq_out_B

-----------------------------------------------------------------------------
zunmlq_param_LC_zunmlq ==
  Class3("zunmlq", 0 .. KT, LAMBDA k: 0 .. qrtree.getnbgeqrf[k]-1, LAMBDA k, i: 0 .. descB.nt-1,
    LAMBDA k, i, n:
      LET p == qrtree.getm[k][i]
          nextp == qrtree.nextpiv[k][p][descA.nt]
      IN
      Task(B(p, n), <<-k, 1>>,
      [A |-> READ(Upper(A(k, p)), Part(Upper(A(k, p)), {<<"A", "zunmlq_in", k, i>>}), {}),
       T |-> READ(TS(k, p), {<<"T", "zunmlq_in", k, i>>}, {}),
       C |-> RW(B(p, n),
                If(k = descA.nt-1, {Mem(B(p, n))})
                  \cup If(k < descA.nt-1 /\ nextp # descA.nt, {<<"A1", "zttmlq", k, nextp, n>>})
                  \cup If(k < descA.nt-1 /\ nextp = descA.nt, {<<"A2", "zttmlq", k, p, n>>}),
                If(k = 0, {Mem(B(p, n))}) \cup If(k > 0, {<<"A2", "zttmlq", k-1, p, n>>}))]))

zunmlq_param_LC_zunmlq_in ==
  Class2("zunmlq_in", 0 .. KT, LAMBDA k: 0 .. qrtree.getnbgeqrf[k]-1,
    LAMBDA k, i:
      LET p == qrtree.getm[k][i]
      IN
      Forward(A(k, p),
      [A |-> PASS(Upper(A(k, p)), {Mem(A(k, p))},
                  Part(Upper(A(k, p)), {<<"A", "zunmlq", k, i, j>> : j \in 0 .. descB.nt-1})),
       T |-> PASS(TS(k, p), {Mem(TS(k, p))},
                  {<<"T", "zunmlq", k, i, j>> : j \in 0 .. descB.nt-1})]))

zunmlq_param_LC_zttmlq ==
  Class3("zttmlq", 0 .. KT2, LAMBDA k: k+1 .. descB.mt-1, LAMBDA k, m: 0 .. descB.nt-1,
    LAMBDA k, m, n:
      LET p == qrtree.currpiv[k][m]
          nextp == qrtree.nextpiv[k][p][m]
          prevp == qrtree.prevpiv[k][p][m]
          prevm == qrtree.prevpiv[k][m][m]
          type == qrtree.gettype[k][m]
          ip == qrtree.geti[k][p]
          im == qrtree.geti[k][m]
          type1 == IF k = KT THEN -1 ELSE qrtree.gettype[k+1][m]
          im1 == IF k = KT THEN -1 ELSE qrtree.geti[k+1][m]
      IN
      Task(B(m, n), <<-k, 0, -Turn(k, m)>>,
      [A1 |-> RW(B(p, n),
                 If(nextp = descA.nt /\ p = k, {<<"A", "zttmlq_out_B", p, n>>})
                   \cup If(nextp = descA.nt /\ p # k, {<<"A2", "zttmlq", k, p, n>>})
                   \cup If(nextp # descA.nt, {<<"A1", "zttmlq", k, nextp, n>>}),
                 IF prevp = descA.nt THEN {<<"C", "zunmlq", k, ip, n>>}
                 ELSE {<<"A1", "zttmlq", k, prevp, n>>}),
       A2 |-> RW(B(m, n),
                 If(k = KT, {Mem(B(m, n))})
                   \cup If(k < KT /\ type1 # 0, {<<"C", "zunmlq", k+1, im1, n>>})
                   \cup If(k < KT /\ type1 = 0, {<<"A2", "zttmlq", k+1, m, n>>}),
                 If(type = 0 /\ k = 0, {Mem(B(m, n))})
                   \cup If(type = 0 /\ k # 0, {<<"A2", "zttmlq", k-1, m, n>>})
                   \cup If(type # 0 /\ prevm = descA.nt, {<<"C", "zunmlq", k, im, n>>})
                   \cup If(type # 0 /\ prevm # descA.nt, {<<"A1", "zttmlq", k, prevm, n>>})),
       V |-> READ(Killed(k, m),
                  If(type = 0, {<<"A", "zttmlq_in", k, m>>})
                    \cup If(type # 0, Part(Lower(Killed(k, m)), {<<"A", "zttmlq_in", k, m>>})),
                  {}),
       T |-> READ(TT(k, m), {<<"T", "zttmlq_in", k, m>>}, {})]))

zunmlq_param_LC_zttmlq_in ==
  Class2("zttmlq_in", 0 .. KT2, LAMBDA k: k+1 .. descA.nt-1,
    LAMBDA k, n:
      LET type == qrtree.gettype[k][n]
      IN
      Forward(A(k, n),
      [A |-> PASS(A(k, n), {Mem(A(k, n))},
                  If(type = 0, {<<"V", "zttmlq", k, n, i>> : i \in 0 .. descB.nt-1})
                    \cup If(type # 0, Part(Lower(A(k, n)), {<<"V", "zttmlq", k, n, i>> : i \in 0 .. descB.nt-1}))),
       T |-> PASS(TT(k, n), {Mem(TT(k, n))},
                  {<<"T", "zttmlq", k, n, i>> : i \in 0 .. descB.nt-1})]))

zunmlq_param_LC_zttmlq_out_B ==
  Class2("zttmlq_out_B", 0 .. KT2, LAMBDA k: 0 .. descB.nt-1,
    LAMBDA k, n:
      LET prevp == qrtree.prevpiv[k][k][k]
      IN
      Forward(B(k, n),
      [A |-> PASS(B(k, n), {Mem(B(k, n))}, {<<"A1", "zttmlq", k, prevp, n>>})]))

zunmlq_param_LC ==
  zunmlq_param_LC_zunmlq @@ zunmlq_param_LC_zunmlq_in @@ zunmlq_param_LC_zttmlq @@
  zunmlq_param_LC_zttmlq_in @@ zunmlq_param_LC_zttmlq_out_B

-----------------------------------------------------------------------------
zunmlq_param_RN_zunmlq ==
  Class3("zunmlq", 0 .. KT, LAMBDA k: 0 .. qrtree.getnbgeqrf[k]-1, LAMBDA k, i: 0 .. descB.mt-1,
    LAMBDA k, i, m:
      LET p == qrtree.getm[k][i]
          nextp == qrtree.nextpiv[k][p][descA.nt]
      IN
      Task(B(m, p), <<-k, 1>>,
      [A |-> READ(Upper(A(k, p)), Part(Upper(A(k, p)), {<<"A", "zunmlq_in", k, i>>}), {}),
       T |-> READ(TS(k, p), {<<"T", "zunmlq_in", k, i>>}, {}),
       C |-> RW(B(m, p),
                If(k = descA.nt-1, {Mem(B(m, p))})
                  \cup If(k < descA.nt-1 /\ nextp # descA.nt, {<<"A1", "zttmlq", k, m, nextp>>})
                  \cup If(k < descA.nt-1 /\ nextp = descA.nt, {<<"A2", "zttmlq", k, m, p>>}),
                If(k = 0, {Mem(B(m, p))}) \cup If(k > 0, {<<"A2", "zttmlq", k-1, m, p>>}))]))

zunmlq_param_RN_zunmlq_in ==
  Class2("zunmlq_in", 0 .. KT, LAMBDA k: 0 .. qrtree.getnbgeqrf[k]-1,
    LAMBDA k, i:
      LET p == qrtree.getm[k][i]
      IN
      Forward(A(k, p),
      [A |-> PASS(Upper(A(k, p)), {Mem(A(k, p))},
                  Part(Upper(A(k, p)), {<<"A", "zunmlq", k, i, j>> : j \in 0 .. descB.mt-1})),
       T |-> PASS(TS(k, p), {Mem(TS(k, p))},
                  {<<"T", "zunmlq", k, i, j>> : j \in 0 .. descB.mt-1})]))

zunmlq_param_RN_zttmlq ==
  Class3("zttmlq", 0 .. KT2, LAMBDA k: 0 .. descB.mt-1, LAMBDA k, m: k+1 .. descB.nt-1,
    LAMBDA k, m, n:
      LET p == qrtree.currpiv[k][n]
          nextp == qrtree.nextpiv[k][p][n]
          prevp == qrtree.prevpiv[k][p][n]
          prevn == qrtree.prevpiv[k][n][n]
          type == qrtree.gettype[k][n]
          ip == qrtree.geti[k][p]
          in == qrtree.geti[k][n]
          type1 == IF k = KT THEN -1 ELSE qrtree.gettype[k+1][n]
          in1 == IF k = KT THEN -1 ELSE qrtree.geti[k+1][n]
      IN
      Task(B(m, n), <<-k, 0, -Turn(k, n)>>,
      [A1 |-> RW(B(m, p),
                 If(nextp = descA.nt /\ p = k, {<<"A", "zttmlq_out_B", p, m>>})
                   \cup If(nextp = descA.nt /\ p # k, {<<"A2", "zttmlq", k, m, p>>})
                   \cup If(nextp # descA.nt, {<<"A1", "zttmlq", k, m, nextp>>}),
                 IF prevp = descA.nt THEN {<<"C", "zunmlq", k, ip, m>>}
                 ELSE {<<"A1", "zttmlq", k, m, prevp>>}),
       A2 |-> RW(B(m, n),
                 If(k = KT, {Mem(B(m, n))})
                   \cup If(k < KT /\ type1 # 0, {<<"C", "zunmlq", k+1, in1, m>>})
                   \cup If(k < KT /\ type1 = 0, {<<"A2", "zttmlq", k+1, m, n>>}),
                 If(type = 0 /\ k = 0, {Mem(B(m, n))})
                   \cup If(type = 0 /\ k # 0, {<<"A2", "zttmlq", k-1, m, n>>})
                   \cup If(type # 0 /\ prevn = descA.nt, {<<"C", "zunmlq", k, in, m>>})
                   \cup If(type # 0 /\ prevn # descA.nt, {<<"A1", "zttmlq", k, m, prevn>>})),
       V |-> READ(Killed(k, n),
                  If(type = 0, {<<"A", "zttmlq_in", k, n>>})
                    \cup If(type # 0, Part(Lower(Killed(k, n)), {<<"A", "zttmlq_in", k, n>>})),
                  {}),
       T |-> READ(TT(k, n), {<<"T", "zttmlq_in", k, n>>}, {})]))

zunmlq_param_RN_zttmlq_in ==
  Class2("zttmlq_in", 0 .. KT2, LAMBDA k: k+1 .. descA.nt-1,
    LAMBDA k, n:
      LET type == qrtree.gettype[k][n]
      IN
      Forward(A(k, n),
      [A |-> PASS(A(k, n), {Mem(A(k, n))},
                  If(type = 0, {<<"V", "zttmlq", k, i, n>> : i \in 0 .. descB.mt-1})
                    \cup If(type # 0, Part(Lower(A(k, n)), {<<"V", "zttmlq", k, i, n>> : i \in 0 .. descB.mt-1}))),
       T |-> PASS(TT(k, n), {Mem(TT(k, n))},
                  {<<"T", "zttmlq", k, i, n>> : i \in 0 .. descB.mt-1})]))

zunmlq_param_RN_zttmlq_out_B ==
  Class2("zttmlq_out_B", 0 .. KT2, LAMBDA k: 0 .. descB.mt-1,
    LAMBDA k, m:
      LET prevp == qrtree.prevpiv[k][k][k]
      IN
      Forward(B(m, k),
      [A |-> PASS(B(m, k), {Mem(B(m, k))}, {<<"A1", "zttmlq", k, m, prevp>>})]))

zunmlq_param_RN ==
  zunmlq_param_RN_zunmlq @@ zunmlq_param_RN_zunmlq_in @@ zunmlq_param_RN_zttmlq @@
  zunmlq_param_RN_zttmlq_in @@ zunmlq_param_RN_zttmlq_out_B

-----------------------------------------------------------------------------
zunmlq_param_RC_zunmlq ==
  Class3("zunmlq", 0 .. KT, LAMBDA k: 0 .. qrtree.getnbgeqrf[k]-1, LAMBDA k, i: 0 .. descB.mt-1,
    LAMBDA k, i, m:
      LET p == qrtree.getm[k][i]
          nextp == qrtree.nextpiv[k][p][descA.nt]
      IN
      Task(B(m, p), <<k, 0>>,
      [A |-> READ(Upper(A(k, p)), Part(Upper(A(k, p)), {<<"A", "zunmlq_in", k, i>>}), {}),
       T |-> READ(TS(k, p), {<<"T", "zunmlq_in", k, i>>}, {}),
       C |-> RW(B(m, p),
                If(k = 0, {Mem(B(m, p))}) \cup If(k > 0, {<<"A2", "zttmlq", k-1, m, p>>}),
                If(k = descA.nt-1, {Mem(B(m, p))})
                  \cup If(k < descA.nt-1 /\ nextp # descA.nt, {<<"A1", "zttmlq", k, m, nextp>>})
                  \cup If(k < descA.nt-1 /\ nextp = descA.nt, {<<"A2", "zttmlq", k, m, p>>}))]))

zunmlq_param_RC_zunmlq_in ==
  Class2("zunmlq_in", 0 .. KT, LAMBDA k: 0 .. qrtree.getnbgeqrf[k]-1,
    LAMBDA k, i:
      LET p == qrtree.getm[k][i]
      IN
      Forward(A(k, p),
      [A |-> PASS(Upper(A(k, p)), {Mem(A(k, p))},
                  Part(Upper(A(k, p)), {<<"A", "zunmlq", k, i, j>> : j \in 0 .. descB.mt-1})),
       T |-> PASS(TS(k, p), {Mem(TS(k, p))},
                  {<<"T", "zunmlq", k, i, j>> : j \in 0 .. descB.mt-1})]))

zunmlq_param_RC_zttmlq ==
  Class3("zttmlq", 0 .. KT2, LAMBDA k: 0 .. descB.mt-1, LAMBDA k, m: k+1 .. descB.nt-1,
    LAMBDA k, m, n:
      LET p == qrtree.currpiv[k][n]
          nextp == qrtree.nextpiv[k][p][n]
          prevp == qrtree.prevpiv[k][p][n]
          prevn == qrtree.prevpiv[k][n][n]
          type == qrtree.gettype[k][n]
          ip == qrtree.geti[k][p]
          in == qrtree.geti[k][n]
          type1 == IF k = KT THEN -1 ELSE qrtree.gettype[k+1][n]
          in1 == IF k = KT THEN -1 ELSE qrtree.geti[k+1][n]
      IN
      Task(B(m, n), <<k, 1, Turn(k, n)>>,
      [A1 |-> RW(B(m, p),
                 IF prevp = descA.nt THEN {<<"C", "zunmlq", k, ip, m>>}
                 ELSE {<<"A1", "zttmlq", k, m, prevp>>},
                 If(nextp = descA.nt /\ p = k, {<<"A", "zttmlq_out_B", p, m>>})
                   \cup If(nextp = descA.nt /\ p # k, {<<"A2", "zttmlq", k, m, p>>})
                   \cup If(nextp # descA.nt, {<<"A1", "zttmlq", k, m, nextp>>})),
       A2 |-> RW(B(m, n),
                 If(type = 0 /\ k = 0, {Mem(B(m, n))})
                   \cup If(type = 0 /\ k # 0, {<<"A2", "zttmlq", k-1, m, n>>})
                   \cup If(type # 0 /\ prevn = descA.nt, {<<"C", "zunmlq", k, in, m>>})
                   \cup If(type # 0 /\ prevn # descA.nt, {<<"A1", "zttmlq", k, m, prevn>>}),
                 If(k = KT, {Mem(B(m, n))})
                   \cup If(k < KT /\ type1 # 0, {<<"C", "zunmlq", k+1, in1, m>>})
                   \cup If(k < KT /\ type1 = 0, {<<"A2", "zttmlq", k+1, m, n>>})),
       V |-> READ(Killed(k, n),
                  If(type = 0, {<<"A", "zttmlq_in", k, n>>})
                    \cup If(type # 0, Part(Lower(Killed(k, n)), {<<"A", "zttmlq_in", k, n>>})),
                  {}),
       T |-> READ(TT(k, n), {<<"T", "zttmlq_in", k, n>>}, {})]))

zunmlq_param_RC_zttmlq_in ==
  Class2("zttmlq_in", 0 .. KT2, LAMBDA k: k+1 .. descA.nt-1,
    LAMBDA k, n:
      LET type == qrtree.gettype[k][n]
      IN
      Forward(A(k, n),
      [A |-> PASS(A(k, n), {Mem(A(k, n))},
                  If(type = 0, {<<"V", "zttmlq", k, i, n>> : i \in 0 .. descB.mt-1})
                    \cup If(type # 0, Part(Lower(A(k, n)), {<<"V", "zttmlq", k, i, n>> : i \in 0 .. descB.mt-1}))),
       T |-> PASS(TT(k, n), {Mem(TT(k, n))},
                  {<<"T", "zttmlq", k, i, n>> : i \in 0 .. descB.mt-1})]))

zunmlq_param_RC_zttmlq_out_B ==
  Class2("zttmlq_out_B", 0 .. KT2, LAMBDA k: 0 .. descB.mt-1,
    LAMBDA k, m:
      LET prevp == qrtree.prevpiv[k][k][k]
      IN
      Forward(B(m, k),
      [A |-> PASS(B(m, k), {<<"A1", "zttmlq", k, m, prevp>>}, {Mem(B(m, k))})]))

zunmlq_param_RC ==
  zunmlq_param_RC_zunmlq @@ zunmlq_param_RC_zunmlq_in @@ zunmlq_param_RC_zttmlq @@
  zunmlq_param_RC_zttmlq_in @@ zunmlq_param_RC_zttmlq_out_B

-----------------------------------------------------------------------------
\* The shapes that dplasma_zunglq_param_New accepts.
zunglq_param_Legal == descQ.mt <= descQ.nt /\ descA.mt <= descQ.mt

\* dplasma_zunmlq_param_New: the shapes it accepts and the graph it chooses.
zunmlq_param_Legal(side) ==
  LET b == IF side = "Left" THEN descB.mt ELSE descB.nt
  IN  descA.nt = b /\ descA.mt <= b

zunmlq_param_New(side, trans) ==
  IF side = "Left" THEN IF trans = "NoTrans" THEN zunmlq_param_LN ELSE zunmlq_param_LC
  ELSE IF trans = "NoTrans" THEN zunmlq_param_RN ELSE zunmlq_param_RC
==============================================================================
