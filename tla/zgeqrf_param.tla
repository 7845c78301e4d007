----------------------------- MODULE zgeqrf_param ----------------------------
(*****************************************************************************)
(* QR factorization with a reduction tree (zgeqrf_param.jdf), generation     *)
(* of Q (zungqr_param.jdf) and products with Q (zunmqr_param_*.jdf). The     *)
(* graphs follow the lists of the tree: a tile row is factorized on its      *)
(* own (zgeqrt) and then kills the rows of its list, or is killed as a       *)
(* full tile; the arrows between two kills, forwards and backwards, and      *)
(* those to the next panel are found with nextpiv, prevpiv, currpiv and      *)
(* geti. TS holds the factors of the zgeqrt, TT those of the kills.          *)
(*****************************************************************************)
EXTENDS Dataflow

CONSTANTS descA, descB, descQ, qrtree

A(m, n) == Halves("A", m, n)
TS(m, n) == Whole("TS", m, n)
TT(m, n) == Whole("TT", m, n)
Q(m, n) == Whole("Q", m, n)
B(m, n) == Whole("B", m, n)

\* qrtree holds the seven functions of the tree.  What a kill leaves of its victim (row)
\* for the updates: a full tile if the type of the victim is 0, or else a triangle.
Killed(k, m) ==
  IF qrtree.gettype[k][m] = 0 THEN A(m, k) ELSE Upper(A(m, k))

\* The round of panel k in which row m is killed: after the kill before it in the
\* list of its pivot, and after the last of its own.
Turn(k, m) ==
  LET none    == descA.mt
      T[i \in k .. none] ==
        IF i = none THEN 0
        ELSE 1 + MaxOf(T[qrtree.prevpiv[k][qrtree.currpiv[k][i]][i]], T[qrtree.prevpiv[k][i][i]])
  IN  T[m]

minMN == IF descA.mt < descA.nt THEN descA.mt ELSE descA.nt

\* The last panel of reflectors, and the last one with tiles below it.
KT    == descA.nt-1
KT2   == MinOf(KT, descA.mt-2)
Q_KT2 == MinOf(KT, descQ.mt-2)

-----------------------------------------------------------------------------
zgeqrf_param_zgeqrt ==
  Class2("zgeqrt", 0 .. minMN-1, LAMBDA k: 0 .. qrtree.getnbgeqrf[k]-1,
    LAMBDA k, i:
      LET m == qrtree.getm[k][i]
          nextm == qrtree.nextpiv[k][m][descA.mt]
      IN
      Task(A(m, k), <<k, 0>>,
      [A |-> RW(A(m, k),
                If(k = 0, {Mem(A(m, k))}) \cup If(k > 0, {<<"A2", "zttmqr", k-1, m, k>>}),
                {<<"A", "zgeqrt_typechange", k, i>>}
                  \cup If(k = descA.mt-1, {Mem(Upper(A(m, k)))})
                  \cup If(k < descA.mt-1 /\ nextm # descA.mt, Part(Upper(A(m, k)), {<<"A1", "zttqrt", k, nextm>>}))
                  \cup If(k < descA.mt-1 /\ nextm = descA.mt, Part(Upper(A(m, k)), {<<"A2", "zttqrt", k, m>>}))),
       T |-> RW(TS(m, k), {Mem(TS(m, k))},
                {Mem(TS(m, k))}
                  \cup If(k < descA.nt-1, {<<"T", "zunmqr", k, i, j>> : j \in k+1 .. descA.nt-1}))]))

zgeqrf_param_zgeqrt_typechange ==
  Class2("zgeqrt_typechange", 0 .. minMN-1, LAMBDA k: 0 .. qrtree.getnbgeqrf[k]-1,
    LAMBDA k, i:
      LET m == qrtree.getm[k][i]
      IN
      Forward(A(m, k),
      [A |-> PASS(Lower(A(m, k)), {<<"A", "zgeqrt", k, i>>},
                  If(k < descA.nt-1, Part(Lower(A(m, k)), {<<"A", "zunmqr", k, i, j>> : j \in k+1 .. descA.nt-1}))
                    \cup {Mem(Lower(A(m, k)))})]))

zgeqrf_param_zunmqr ==
  Class3("zunmqr", 0 .. minMN-1, LAMBDA k: 0 .. qrtree.getnbgeqrf[k]-1, LAMBDA k, i: k+1 .. descA.nt-1,
    LAMBDA k, i, n:
      LET m == qrtree.getm[k][i]
          nextm == qrtree.nextpiv[k][m][descA.mt]
      IN
      Task(A(m, n), <<k, 1>>,
      [A |-> READ(Lower(A(m, k)), Part(Lower(A(m, k)), {<<"A", "zgeqrt_typechange", k, i>>}),
                  {}),
       T |-> READ(TS(m, k), {<<"T", "zgeqrt", k, i>>}, {}),
       C |-> RW(A(m, n),
                If(0 = k, {Mem(A(m, n))}) \cup If(k > 0, {<<"A2", "zttmqr", k-1, m, n>>}),
                If(k = descA.mt-1, {Mem(A(m, n))})
                  \cup If(k < descA.mt-1 /\ nextm # descA.mt, {<<"A1", "zttmqr", k, nextm, n>>})
                  \cup If(k < descA.mt-1 /\ nextm = descA.mt, {<<"A2", "zttmqr", k, m, n>>}))]))

zgeqrf_param_zttqrt ==
  Class2("zttqrt", 0 .. minMN-1, LAMBDA k: k+1 .. descA.mt-1,
    LAMBDA k, m:
      LET p == qrtree.currpiv[k][m]
          nextp == qrtree.nextpiv[k][p][m]
          prevp == qrtree.prevpiv[k][p][m]
          prevm == qrtree.prevpiv[k][m][m]
          type == qrtree.gettype[k][m]
          ip == qrtree.geti[k][p]
          im == qrtree.geti[k][m]
      IN
      Task(A(m, k), <<k, 2, Turn(k, m), 0>>,
      [A1 |-> RW(Upper(A(p, k)),
                 IF prevp = descA.mt
                 THEN Part(Upper(A(p, k)), {<<"A", "zgeqrt", k, ip>>})
                 ELSE Part(Upper(A(p, k)), {<<"A1", "zttqrt", k, prevp>>}),
                 If(nextp # descA.mt, Part(Upper(A(p, k)), {<<"A1", "zttqrt", k, nextp>>}))
                   \cup If(nextp = descA.mt /\ p = k, Part(Upper(A(p, k)), {<<"A", "zttqrt_out_A1", k>>}))
                   \cup If(nextp = descA.mt /\ p # k, Part(Upper(A(p, k)), {<<"A2", "zttqrt", k, p>>}))),
       A2 |-> RW(Killed(k, m),
                 If(type = 0 /\ k = 0, {Mem(A(m, k))})
                   \cup If(type = 0 /\ k # 0, {<<"A2", "zttmqr", k-1, m, k>>})
                   \cup If(type # 0 /\ prevm = descA.mt, Part(Upper(Killed(k, m)), {<<"A", "zgeqrt", k, im>>}))
                   \cup If(type # 0 /\ prevm # descA.mt, Part(Upper(Killed(k, m)), {<<"A1", "zttqrt", k, prevm>>})),
                 If(type = 0, {Mem(A(m, k))})
                   \cup If(type # 0, {Mem(Upper(A(m, k)))})
                   \cup If(type = 0 /\ descA.nt-1 > k, {<<"V", "zttmqr", k, m, i>> : i \in k+1 .. descA.nt-1})
                   \cup If(type # 0 /\ descA.nt-1 > k, Part(Upper(Killed(k, m)), {<<"V", "zttmqr", k, m, i>> : i \in k+1 .. descA.nt-1}))),
       T |-> RW(TT(m, k), {Mem(TT(m, k))},
                {Mem(TT(m, k))}
                  \cup If(descA.nt-1 > k, {<<"T", "zttmqr", k, m, i>> : i \in k+1 .. descA.nt-1}))]))

zgeqrf_param_zttqrt_out_A1 ==
  Class1("zttqrt_out_A1", 0 .. (IF descA.mt <= descA.nt THEN descA.mt-2 ELSE descA.nt-1),
    LAMBDA k:
      LET prevp == qrtree.prevpiv[k][k][k]
      IN
      Forward(A(k, k),
      [A |-> PASS(Upper(A(k, k)), Part(Upper(A(k, k)), {<<"A1", "zttqrt", k, prevp>>}),
                  {Mem(Upper(A(k, k)))})]))

zgeqrf_param_zttmqr ==
  Class3("zttmqr", 0 .. minMN-1, LAMBDA k: k+1 .. descA.mt-1, LAMBDA k, m: k+1 .. descA.nt-1,
    LAMBDA k, m, n:
      LET p == qrtree.currpiv[k][m]
          nextp == qrtree.nextpiv[k][p][m]
          prevp == qrtree.prevpiv[k][p][m]
          prevm == qrtree.prevpiv[k][m][m]
          type == qrtree.gettype[k][m]
          type1 == qrtree.gettype[k+1][m]
          ip == qrtree.geti[k][p]
          im == qrtree.geti[k][m]
          im1 == qrtree.geti[k+1][m]
      IN
      Task(A(m, n), <<k, 2, Turn(k, m), 1>>,
      [A1 |-> RW(A(p, n),
                 IF prevp = descA.mt THEN {<<"C", "zunmqr", k, ip, n>>}
                 ELSE {<<"A1", "zttmqr", k, prevp, n>>},
                 If(nextp # descA.mt, {<<"A1", "zttmqr", k, nextp, n>>})
                   \cup If(nextp = descA.mt /\ p = k, {<<"A", "zttmqr_out_A1", p, n>>})
                   \cup If(nextp = descA.mt /\ p # k, {<<"A2", "zttmqr", k, p, n>>})),
       A2 |-> RW(A(m, n),
                 If(type = 0 /\ k = 0, {Mem(A(m, n))})
                   \cup If(type = 0 /\ k # 0, {<<"A2", "zttmqr", k-1, m, n>>})
                   \cup If(type # 0 /\ prevm = descA.mt, {<<"C", "zunmqr", k, im, n>>})
                   \cup If(type # 0 /\ prevm # descA.mt, {<<"A1", "zttmqr", k, prevm, n>>}),
                 If(type1 # 0 /\ n = k+1, {<<"A", "zgeqrt", k+1, im1>>})
                   \cup If(type1 # 0 /\ n > k+1, {<<"C", "zunmqr", k+1, im1, n>>})
                   \cup If(type1 = 0 /\ n = k+1, {<<"A2", "zttqrt", k+1, m>>})
                   \cup If(type1 = 0 /\ n > k+1, {<<"A2", "zttmqr", k+1, m, n>>})),
       V |-> READ(Killed(k, m),
                  If(type = 0, {<<"A2", "zttqrt", k, m>>})
                    \cup If(type # 0, Part(Upper(Killed(k, m)), {<<"A2", "zttqrt", k, m>>})),
                  {}),
       T |-> READ(TT(m, k), {<<"T", "zttqrt", k, m>>}, {})]))

zgeqrf_param_zttmqr_out_A1 ==
  Class2("zttmqr_out_A1", 0 .. minMN-2, LAMBDA k: k+1 .. descA.nt-1,
    LAMBDA k, n:
      LET prevp == qrtree.prevpiv[k][k][k]
      IN
      Forward(A(k, n),
      [A |-> PASS(A(k, n), {<<"A1", "zttmqr", k, prevp, n>>}, {Mem(A(k, n))})]))

zgeqrf_param ==
  zgeqrf_param_zgeqrt @@ zgeqrf_param_zgeqrt_typechange @@ zgeqrf_param_zunmqr @@
  zgeqrf_param_zttqrt @@ zgeqrf_param_zttqrt_out_A1 @@ zgeqrf_param_zttmqr @@
  zgeqrf_param_zttmqr_out_A1

-----------------------------------------------------------------------------
zungqr_param_zlaset ==
  Class2("zlaset", 0 .. descQ.mt-1, LAMBDA m: 0 .. descQ.nt-1,
    LAMBDA m, n:
      LET k == MinOf(KT, MinOf(m, n))
          prevm == qrtree.prevpiv[k][m][m]
          cc == descQ.mt = descA.nt /\ m = descQ.mt-1 /\ n = descQ.mt-1
      IN
      Task(Q(m, n), <<0>>,
      [A |-> WRITE(Q(m, n), {Mem(Q(m, n))},
                   If(cc, {<<"C", "zunmqr", k, 0, n>>})
                     \cup If(~cc /\ m <= KT /\ n >= m, {<<"A1", "zttmqr", k, prevm, n>>})
                     \cup If(~cc /\ (m > KT \/ n < m), {<<"A2", "zttmqr", k, m, n>>}))]))

zungqr_param_zunmqr ==
  Class3("zunmqr", 0 .. KT, LAMBDA k: 0 .. qrtree.getnbgeqrf[k]-1, LAMBDA k, i: k .. descQ.nt-1,
    LAMBDA k, i, n:
      LET m == qrtree.getm[k][i]
          nextm == qrtree.nextpiv[k][m][descQ.mt]
      IN
      Task(Q(m, n), <<1, -k, 1>>,
      [A |-> READ(Lower(A(m, k)), Part(Lower(A(m, k)), {<<"A", "zunmqr_in_A", k, i>>}), {}),
       T |-> READ(TS(m, k), {<<"T", "zunmqr_in_T", k, i>>}, {}),
       C |-> RW(Q(m, n),
                If(k = descQ.mt-1, {<<"A", "zlaset", m, n>>})
                  \cup If(k < descQ.mt-1 /\ nextm # descQ.mt, {<<"A1", "zttmqr", k, nextm, n>>})
                  \cup If(k < descQ.mt-1 /\ nextm = descQ.mt, {<<"A2", "zttmqr", k, m, n>>}),
                If(k = 0, {Mem(Q(m, n))}) \cup If(k > 0, {<<"A2", "zttmqr", k-1, m, n>>}))]))

zungqr_param_zunmqr_in_A ==
  Class2("zunmqr_in_A", 0 .. KT, LAMBDA k: 0 .. qrtree.getnbgeqrf[k]-1,
    LAMBDA k, i:
      LET m == qrtree.getm[k][i]
      IN
      Forward(A(m, k),
      [A |-> PASS(Lower(A(m, k)), {Mem(A(m, k))},
                  Part(Lower(A(m, k)), {<<"A", "zunmqr", k, i, j>> : j \in k .. descQ.nt-1}))]))

zungqr_param_zunmqr_in_T ==
  Class2("zunmqr_in_T", 0 .. KT, LAMBDA k: 0 .. qrtree.getnbgeqrf[k]-1,
    LAMBDA k, i:
      LET m == qrtree.getm[k][i]
      IN
      Forward(TS(m, k),
      [T |-> PASS(TS(m, k), {Mem(TS(m, k))},
                  {<<"T", "zunmqr", k, i, j>> : j \in k .. descQ.nt-1})]))

zungqr_param_zttmqr ==
  Class3("zttmqr", 0 .. KT, LAMBDA k: k+1 .. descQ.mt-1, LAMBDA k, m: k .. descQ.nt-1,
    LAMBDA k, m, n:
      LET p == qrtree.currpiv[k][m]
          nextp == qrtree.nextpiv[k][p][m]
          prevp == qrtree.prevpiv[k][p][m]
          prevm == qrtree.prevpiv[k][m][m]
          type == qrtree.gettype[k][m]
          ip == qrtree.geti[k][p]
          im == qrtree.geti[k][m]
          type1 == IF k = KT THEN -1 ELSE qrtree.gettype[k+1][m]
          im1 == IF k = KT THEN -1 ELSE qrtree.geti[k+1][m]
      IN
      Task(Q(m, n), <<1, -k, 0, -Turn(k, m)>>,
      [A1 |-> RW(Q(p, n),
                 If(nextp # descQ.mt, {<<"A1", "zttmqr", k, nextp, n>>})
                   \cup If(nextp = descQ.mt /\ p = k, {<<"A", "zlaset", p, n>>})
                   \cup If(nextp = descQ.mt /\ p # k, {<<"A2", "zttmqr", k, p, n>>}),
                 IF prevp = descQ.mt THEN {<<"C", "zunmqr", k, ip, n>>}
                 ELSE {<<"A1", "zttmqr", k, prevp, n>>}),
       A2 |-> RW(Q(m, n),
                 If(k = KT \/ n = k, {<<"A", "zlaset", m, n>>})
                   \cup If(k # KT /\ n # k /\ type1 # 0, {<<"C", "zunmqr", k+1, im1, n>>})
                   \cup If(k # KT /\ n # k /\ type1 = 0, {<<"A2", "zttmqr", k+1, m, n>>}),
                 If(type = 0 /\ k = 0, {Mem(Q(m, n))})
                   \cup If(type = 0 /\ k # 0, {<<"A2", "zttmqr", k-1, m, n>>})
                   \cup If(type # 0 /\ prevm = descQ.mt, {<<"C", "zunmqr", k, im, n>>})
                   \cup If(type # 0 /\ prevm # descQ.mt, {<<"A1", "zttmqr", k, prevm, n>>})),
       V |-> READ(Killed(k, m),
                  If(type = 0, {<<"V", "zttmqr_in_V", k, m>>})
                    \cup If(type # 0, Part(Upper(Killed(k, m)), {<<"V", "zttmqr_in_V", k, m>>})),
                  {}),
       T |-> READ(TT(m, k), {<<"T", "zttmqr_in_T", k, m>>}, {})]))

zungqr_param_zttmqr_in_V ==
  Class2("zttmqr_in_V", 0 .. Q_KT2, LAMBDA k: k+1 .. descQ.mt-1,
    LAMBDA k, m:
      LET type == qrtree.gettype[k][m]
      IN
      Forward(A(m, k),
      [V |-> PASS(A(m, k), {Mem(A(m, k))},
                  If(type = 0, {<<"V", "zttmqr", k, m, i>> : i \in k .. descQ.nt-1})
                    \cup If(type # 0, Part(Upper(A(m, k)), {<<"V", "zttmqr", k, m, i>> : i \in k .. descQ.nt-1})))]))

zungqr_param_zttmqr_in_T ==
  Class2("zttmqr_in_T", 0 .. Q_KT2, LAMBDA k: k+1 .. descQ.mt-1,
    LAMBDA k, m:
      Forward(TT(m, k),
      [T |-> PASS(TT(m, k), {Mem(TT(m, k))},
                  {<<"T", "zttmqr", k, m, i>> : i \in k .. descQ.nt-1})]))

zungqr_param ==
  zungqr_param_zlaset @@ zungqr_param_zunmqr @@ zungqr_param_zunmqr_in_A @@
  zungqr_param_zunmqr_in_T @@ zungqr_param_zttmqr @@ zungqr_param_zttmqr_in_V @@
  zungqr_param_zttmqr_in_T

-----------------------------------------------------------------------------
zunmqr_param_LN_zunmqr ==
  Class3("zunmqr", 0 .. KT, LAMBDA k: 0 .. qrtree.getnbgeqrf[k]-1, LAMBDA k, i: 0 .. descB.nt-1,
    LAMBDA k, i, n:
      LET p == qrtree.getm[k][i]
          nextp == qrtree.nextpiv[k][p][descA.mt]
      IN
      Task(B(p, n), <<-k, 1>>,
      [A |-> READ(Lower(A(p, k)), Part(Lower(A(p, k)), {<<"A", "zunmqr_in", k, i>>}), {}),
       T |-> READ(TS(p, k), {<<"T", "zunmqr_in", k, i>>}, {}),
       C |-> RW(B(p, n),
                If(k = descA.mt-1, {Mem(B(p, n))})
                  \cup If(k < descA.mt-1 /\ nextp # descA.mt, {<<"A1", "zttmqr", k, nextp, n>>})
                  \cup If(k < descA.mt-1 /\ nextp = descA.mt, {<<"A2", "zttmqr", k, p, n>>}),
                If(k = 0, {Mem(B(p, n))}) \cup If(k > 0, {<<"A2", "zttmqr", k-1, p, n>>}))]))

zunmqr_param_LN_zunmqr_in ==
  Class2("zunmqr_in", 0 .. KT, LAMBDA k: 0 .. qrtree.getnbgeqrf[k]-1,
    LAMBDA k, i:
      LET p == qrtree.getm[k][i]
      IN
      Forward(A(p, k),
      [A |-> PASS(Lower(A(p, k)), {Mem(A(p, k))},
                  Part(Lower(A(p, k)), {<<"A", "zunmqr", k, i, j>> : j \in 0 .. descB.nt-1})),
       T |-> PASS(TS(p, k), {Mem(TS(p, k))},
                  {<<"T", "zunmqr", k, i, j>> : j \in 0 .. descB.nt-1})]))

zunmqr_param_LN_zttmqr ==
  Class3("zttmqr", 0 .. KT2, LAMBDA k: k+1 .. descB.mt-1, LAMBDA k, m: 0 .. descB.nt-1,
    LAMBDA k, m, n:
      LET p == qrtree.currpiv[k][m]
          nextp == qrtree.nextpiv[k][p][m]
          prevp == qrtree.prevpiv[k][p][m]
          prevm == qrtree.prevpiv[k][m][m]
          type == qrtree.gettype[k][m]
          ip == qrtree.geti[k][p]
          im == qrtree.geti[k][m]
          type1 == IF k = KT THEN -1 ELSE qrtree.gettype[k+1][m]
          im1 == IF k = KT THEN -1 ELSE qrtree.geti[k+1][m]
      IN
      Task(B(m, n), <<-k, 0, -Turn(k, m)>>,
      [A1 |-> RW(B(p, n),
                 If(nextp = descA.mt /\ p = k, {<<"A", "zttmqr_out_B", p, n>>})
                   \cup If(nextp = descA.mt /\ p # k, {<<"A2", "zttmqr", k, p, n>>})
                   \cup If(nextp # descA.mt, {<<"A1", "zttmqr", k, nextp, n>>}),
                 IF prevp = descA.mt THEN {<<"C", "zunmqr", k, ip, n>>}
                 ELSE {<<"A1", "zttmqr", k, prevp, n>>}),
       A2 |-> RW(B(m, n),
                 If(k = KT, {Mem(B(m, n))})
                   \cup If(k < KT /\ type1 # 0, {<<"C", "zunmqr", k+1, im1, n>>})
                   \cup If(k < KT /\ type1 = 0, {<<"A2", "zttmqr", k+1, m, n>>}),
                 If(type = 0 /\ k = 0, {Mem(B(m, n))})
                   \cup If(type = 0 /\ k # 0, {<<"A2", "zttmqr", k-1, m, n>>})
                   \cup If(type # 0 /\ prevm = descA.mt, {<<"C", "zunmqr", k, im, n>>})
                   \cup If(type # 0 /\ prevm # descA.mt, {<<"A1", "zttmqr", k, prevm, n>>})),
       V |-> READ(Killed(k, m),
                  If(type = 0, {<<"A", "zttmqr_in", k, m>>})
                    \cup If(type # 0, Part(Upper(Killed(k, m)), {<<"A", "zttmqr_in", k, m>>})),
                  {}),
       T |-> READ(TT(m, k), {<<"T", "zttmqr_in", k, m>>}, {})]))

zunmqr_param_LN_zttmqr_in ==
  Class2("zttmqr_in", 0 .. MinOf(descA.mt-2, KT), LAMBDA k: k+1 .. descA.mt-1,
    LAMBDA k, m:
      LET type == qrtree.gettype[k][m]
      IN
      Forward(A(m, k),
      [A |-> PASS(A(m, k), {Mem(A(m, k))},
                  If(type = 0, {<<"V", "zttmqr", k, m, i>> : i \in 0 .. descB.nt-1})
                    \cup If(type # 0, Part(Upper(A(m, k)), {<<"V", "zttmqr", k, m, i>> : i \in 0 .. descB.nt-1}))),
       T |-> PASS(TT(m, k), {Mem(TT(m, k))},
                  {<<"T", "zttmqr", k, m, i>> : i \in 0 .. descB.nt-1})]))

zunmqr_param_LN_zttmqr_out_B ==
  Class2("zttmqr_out_B", 0 .. MinOf(descA.mt-2, KT), LAMBDA k: 0 .. descB.nt-1,
    LAMBDA k, n:
      LET prevp == qrtree.prevpiv[k][k][k]
      IN
      Forward(B(k, n),
      [A |-> PASS(B(k, n), {Mem(B(k, n))}, {<<"A1", "zttmqr", k, prevp, n>>})]))

zunmqr_param_LN ==
  zunmqr_param_LN_zunmqr @@ zunmqr_param_LN_zunmqr_in @@ zunmqr_param_LN_zttmqr @@
  zunmqr_param_LN_zttmqr_in @@ zunmqr_param_LN_zttmqr_out_B

-----------------------------------------------------------------------------
zunmqr_param_LC_zunmqr ==
  Class3("zunmqr", 0 .. KT, LAMBDA k: 0 .. qrtree.getnbgeqrf[k]-1, LAMBDA k, i: 0 .. descB.nt-1,
    LAMBDA k, i, n:
      LET p == qrtree.getm[k][i]
          nextp == qrtree.nextpiv[k][p][descA.mt]
      IN
      Task(B(p, n), <<k, 0>>,
      [A |-> READ(Lower(A(p, k)), Part(Lower(A(p, k)), {<<"A", "zunmqr_in", k, i>>}), {}),
       T |-> READ(TS(p, k), {<<"T", "zunmqr_in", k, i>>}, {}),
       C |-> RW(B(p, n),
                If(k = 0, {Mem(B(p, n))}) \cup If(k > 0, {<<"A2", "zttmqr", k-1, p, n>>}),
                If(k = descA.mt-1, {Mem(B(p, n))})
                  \cup If(k < descA.mt-1 /\ nextp # descA.mt, {<<"A1", "zttmqr", k, nextp, n>>})
                  \cup If(k < descA.mt-1 /\ nextp = descA.mt, {<<"A2", "zttmqr", k, p, n>>}))]))

zunmqr_param_LC_zunmqr_in ==
  Class2("zunmqr_in", 0 .. KT, LAMBDA k: 0 .. qrtree.getnbgeqrf[k]-1,
    LAMBDA k, i:
      LET p == qrtree.getm[k][i]
      IN
      Forward(A(p, k),
      [A |-> PASS(Lower(A(p, k)), {Mem(A(p, k))},
                  Part(Lower(A(p, k)), {<<"A", "zunmqr", k, i, j>> : j \in 0 .. descB.nt-1})),
       T |-> PASS(TS(p, k), {Mem(TS(p, k))},
                  {<<"T", "zunmqr", k, i, j>> : j \in 0 .. descB.nt-1})]))

zunmqr_param_LC_zttmqr ==
  Class3("zttmqr", 0 .. KT2, LAMBDA k: k+1 .. descB.mt-1, LAMBDA k, m: 0 .. descB.nt-1,
    LAMBDA k, m, n:
      LET p == qrtree.currpiv[k][m]
          nextp == qrtree.nextpiv[k][p][m]
          prevp == qrtree.prevpiv[k][p][m]
          prevm == qrtree.prevpiv[k][m][m]
          type == qrtree.gettype[k][m]
          ip == qrtree.geti[k][p]
          im == qrtree.geti[k][m]
          type1 == IF k = KT THEN -1 ELSE qrtree.gettype[k+1][m]
          im1 == IF k = KT THEN -1 ELSE qrtree.geti[k+1][m]
      IN
      Task(B(m, n), <<k, 1, Turn(k, m)>>,
      [A1 |-> RW(B(p, n),
                 IF prevp = descA.mt THEN {<<"C", "zunmqr", k, ip, n>>}
                 ELSE {<<"A1", "zttmqr", k, prevp, n>>},
                 If(nextp = descA.mt /\ p = k, {<<"A", "zttmqr_out_B", p, n>>})
                   \cup If(nextp = descA.mt /\ p # k, {<<"A2", "zttmqr", k, p, n>>})
                   \cup If(nextp # descA.mt, {<<"A1", "zttmqr", k, nextp, n>>})),
       A2 |-> RW(B(m, n),
                 If(type = 0 /\ k = 0, {Mem(B(m, n))})
                   \cup If(type = 0 /\ k # 0, {<<"A2", "zttmqr", k-1, m, n>>})
                   \cup If(type # 0 /\ prevm = descA.mt, {<<"C", "zunmqr", k, im, n>>})
                   \cup If(type # 0 /\ prevm # descA.mt, {<<"A1", "zttmqr", k, prevm, n>>}),
                 If(k = KT, {Mem(B(m, n))})
                   \cup If(k < KT /\ type1 # 0, {<<"C", "zunmqr", k+1, im1, n>>})
                   \cup If(k < KT /\ type1 = 0, {<<"A2", "zttmqr", k+1, m, n>>})),
       V |-> READ(Killed(k, m),
                  If(type = 0, {<<"A", "zttmqr_in", k, m>>})
                    \cup If(type # 0, Part(Upper(Killed(k, m)), {<<"A", "zttmqr_in", k, m>>})),
                  {}),
       T |-> READ(TT(m, k), {<<"T", "zttmqr_in", k, m>>}, {})]))

zunmqr_param_LC_zttmqr_in ==
  Class2("zttmqr_in", 0 .. MinOf(descA.mt-2, KT), LAMBDA k: k+1 .. descA.mt-1,
    LAMBDA k, m:
      LET type == qrtree.gettype[k][m]
      IN
      Forward(A(m, k),
      [A |-> PASS(A(m, k), {Mem(A(m, k))},
                  If(type = 0, {<<"V", "zttmqr", k, m, i>> : i \in 0 .. descB.nt-1})
                    \cup If(type # 0, Part(Upper(A(m, k)), {<<"V", "zttmqr", k, m, i>> : i \in 0 .. descB.nt-1}))),
       T |-> PASS(TT(m, k), {Mem(TT(m, k))},
                  {<<"T", "zttmqr", k, m, i>> : i \in 0 .. descB.nt-1})]))

zunmqr_param_LC_zttmqr_out_B ==
  Class2("zttmqr_out_B", 0 .. MinOf(descA.mt-2, KT), LAMBDA k: 0 .. descB.nt-1,
    LAMBDA k, n:
      LET prevp == qrtree.prevpiv[k][k][k]
      IN
      Forward(B(k, n),
      [A |-> PASS(B(k, n), {<<"A1", "zttmqr", k, prevp, n>>}, {Mem(B(k, n))})]))

zunmqr_param_LC ==
  zunmqr_param_LC_zunmqr @@ zunmqr_param_LC_zunmqr_in @@ zunmqr_param_LC_zttmqr @@
  zunmqr_param_LC_zttmqr_in @@ zunmqr_param_LC_zttmqr_out_B

-----------------------------------------------------------------------------
zunmqr_param_RN_zunmqr ==
  Class3("zunmqr", 0 .. KT, LAMBDA k: 0 .. qrtree.getnbgeqrf[k]-1, LAMBDA k, i: 0 .. descB.mt-1,
    LAMBDA k, i, m:
      LET p == qrtree.getm[k][i]
          nextp == qrtree.nextpiv[k][p][descA.mt]
      IN
      Task(B(m, p), <<k, 0>>,
      [A |-> READ(Lower(A(p, k)), Part(Lower(A(p, k)), {<<"A", "zunmqr_in", k, i>>}), {}),
       T |-> READ(TS(p, k), {<<"T", "zunmqr_in", k, i>>}, {}),
       C |-> RW(B(m, p),
                If(k = 0, {Mem(B(m, p))}) \cup If(k > 0, {<<"A2", "zttmqr", k-1, m, p>>}),
                If(k = descA.mt-1, {Mem(B(m, p))})
                  \cup If(k < descA.mt-1 /\ nextp # descA.mt, {<<"A1", "zttmqr", k, m, nextp>>})
                  \cup If(k < descA.mt-1 /\ nextp = descA.mt, {<<"A2", "zttmqr", k, m, p>>}))]))

zunmqr_param_RN_zunmqr_in ==
  Class2("zunmqr_in", 0 .. KT, LAMBDA k: 0 .. qrtree.getnbgeqrf[k]-1,
    LAMBDA k, i:
      LET p == qrtree.getm[k][i]
      IN
      Forward(A(p, k),
      [A |-> PASS(Lower(A(p, k)), {Mem(A(p, k))},
                  Part(Lower(A(p, k)), {<<"A", "zunmqr", k, i, j>> : j \in 0 .. descB.mt-1})),
       T |-> PASS(TS(p, k), {Mem(TS(p, k))},
                  {<<"T", "zunmqr", k, i, j>> : j \in 0 .. descB.mt-1})]))

zunmqr_param_RN_zttmqr ==
  Class3("zttmqr", 0 .. KT2, LAMBDA k: 0 .. descB.mt-1, LAMBDA k, m: k+1 .. descB.nt-1,
    LAMBDA k, m, n:
      LET p == qrtree.currpiv[k][n]
          nextp == qrtree.nextpiv[k][p][n]
          prevp == qrtree.prevpiv[k][p][n]
          prevn == qrtree.prevpiv[k][n][n]
          type == qrtree.gettype[k][n]
          ip == qrtree.geti[k][p]
          in == qrtree.geti[k][n]
          type1 == IF k = KT THEN -1 ELSE qrtree.gettype[k+1][n]
          in1 == IF k = KT THEN -1 ELSE qrtree.geti[k+1][n]
      IN
      Task(B(m, n), <<k, 1, Turn(k, n)>>,
      [A1 |-> RW(B(m, p),
                 IF prevp = descA.mt THEN {<<"C", "zunmqr", k, ip, m>>}
                 ELSE {<<"A1", "zttmqr", k, m, prevp>>},
                 If(nextp = descA.mt /\ p = k, {<<"A", "zttmqr_out_B", p, m>>})
                   \cup If(nextp = descA.mt /\ p # k, {<<"A2", "zttmqr", k, m, p>>})
                   \cup If(nextp # descA.mt, {<<"A1", "zttmqr", k, m, nextp>>})),
       A2 |-> RW(B(m, n),
                 If(type = 0 /\ k = 0, {Mem(B(m, n))})
                   \cup If(type = 0 /\ k # 0, {<<"A2", "zttmqr", k-1, m, n>>})
                   \cup If(type # 0 /\ prevn = descA.mt, {<<"C", "zunmqr", k, in, m>>})
                   \cup If(type # 0 /\ prevn # descA.mt, {<<"A1", "zttmqr", k, m, prevn>>}),
                 If(k = KT, {Mem(B(m, n))})
                   \cup If(k < KT /\ type1 # 0, {<<"C", "zunmqr", k+1, in1, m>>})
                   \cup If(k < KT /\ type1 = 0, {<<"A2", "zttmqr", k+1, m, n>>})),
       V |-> READ(Killed(k, n),
                  If(type = 0, {<<"A", "zttmqr_in", k, n>>})
                    \cup If(type # 0, Part(Upper(Killed(k, n)), {<<"A", "zttmqr_in", k, n>>})),
                  {}),
       T |-> READ(TT(n, k), {<<"T", "zttmqr_in", k, n>>}, {})]))

zunmqr_param_RN_zttmqr_in ==
  Class2("zttmqr_in", 0 .. KT2, LAMBDA k: k+1 .. descA.mt-1,
    LAMBDA k, m:
      LET type == qrtree.gettype[k][m]
      IN
      Forward(A(m, k),
      [A |-> PASS(A(m, k), {Mem(A(m, k))},
                  If(type = 0, {<<"V", "zttmqr", k, i, m>> : i \in 0 .. descB.mt-1})
                    \cup If(type # 0, Part(Upper(A(m, k)), {<<"V", "zttmqr", k, i, m>> : i \in 0 .. descB.mt-1}))),
       T |-> PASS(TT(m, k), {Mem(TT(m, k))},
                  {<<"T", "zttmqr", k, i, m>> : i \in 0 .. descB.mt-1})]))

zunmqr_param_RN_zttmqr_out_B ==
  Class2("zttmqr_out_B", 0 .. KT2, LAMBDA k: 0 .. descB.mt-1,
    LAMBDA k, m:
      LET prevp == qrtree.prevpiv[k][k][k]
      IN
      Forward(B(m, k),
      [A |-> PASS(B(m, k), {<<"A1", "zttmqr", k, m, prevp>>}, {Mem(B(m, k))})]))

zunmqr_param_RN ==
  zunmqr_param_RN_zunmqr @@ zunmqr_param_RN_zunmqr_in @@ zunmqr_param_RN_zttmqr @@
  zunmqr_param_RN_zttmqr_in @@ zunmqr_param_RN_zttmqr_out_B

-----------------------------------------------------------------------------
zunmqr_param_RC_zunmqr ==
  Class3("zunmqr", 0 .. KT, LAMBDA k: 0 .. qrtree.getnbgeqrf[k]-1, LAMBDA k, i: 0 .. descB.mt-1,
    LAMBDA k, i, m:
      LET p == qrtree.getm[k][i]
          nextp == qrtree.nextpiv[k][p][descA.mt]
      IN
      Task(B(m, p), <<-k, 1>>,
      [A |-> READ(Lower(A(p, k)), Part(Lower(A(p, k)), {<<"A", "zunmqr_in", k, i>>}), {}),
       T |-> READ(TS(p, k), {<<"T", "zunmqr_in", k, i>>}, {}),
       C |-> RW(B(m, p),
                If(k = descA.mt-1, {Mem(B(m, p))})
                  \cup If(k < descA.mt-1 /\ nextp # descA.mt, {<<"A1", "zttmqr", k, m, nextp>>})
                  \cup If(k < descA.mt-1 /\ nextp = descA.mt, {<<"A2", "zttmqr", k, m, p>>}),
                If(k = 0, {Mem(B(m, p))}) \cup If(k > 0, {<<"A2", "zttmqr", k-1, m, p>>}))]))

zunmqr_param_RC_zunmqr_in ==
  Class2("zunmqr_in", 0 .. KT, LAMBDA k: 0 .. qrtree.getnbgeqrf[k]-1,
    LAMBDA k, i:
      LET p == qrtree.getm[k][i]
      IN
      Forward(A(p, k),
      [A |-> PASS(Lower(A(p, k)), {Mem(A(p, k))},
                  Part(Lower(A(p, k)), {<<"A", "zunmqr", k, i, j>> : j \in 0 .. descB.mt-1})),
       T |-> PASS(TS(p, k), {Mem(TS(p, k))},
                  {<<"T", "zunmqr", k, i, j>> : j \in 0 .. descB.mt-1})]))

zunmqr_param_RC_zttmqr ==
  Class3("zttmqr", 0 .. KT2, LAMBDA k: 0 .. descB.mt-1, LAMBDA k, m: k+1 .. descB.nt-1,
    LAMBDA k, m, n:
      LET p == qrtree.currpiv[k][n]
          nextp == qrtree.nextpiv[k][p][n]
          prevp == qrtree.prevpiv[k][p][n]
          prevn == qrtree.prevpiv[k][n][n]
          type == qrtree.gettype[k][n]
          ip == qrtree.geti[k][p]
          in == qrtree.geti[k][n]
          type1 == IF k = KT THEN -1 ELSE qrtree.gettype[k+1][n]
          in1 == IF k = KT THEN -1 ELSE qrtree.geti[k+1][n]
      IN
      Task(B(m, n), <<-k, 0, -Turn(k, n)>>,
      [A1 |-> RW(B(m, p),
                 If(nextp = descA.mt /\ p = k, {<<"A", "zttmqr_out_B", p, m>>})
                   \cup If(nextp = descA.mt /\ p # k, {<<"A2", "zttmqr", k, m, p>>})
                   \cup If(nextp # descA.mt, {<<"A1", "zttmqr", k, m, nextp>>}),
                 IF prevp = descA.mt THEN {<<"C", "zunmqr", k, ip, m>>}
                 ELSE {<<"A1", "zttmqr", k, m, prevp>>}),
       A2 |-> RW(B(m, n),
                 If(k = KT, {Mem(B(m, n))})
                   \cup If(k < KT /\ type1 # 0, {<<"C", "zunmqr", k+1, in1, m>>})
                   \cup If(k < KT /\ type1 = 0, {<<"A2", "zttmqr", k+1, m, n>>}),
                 If(type = 0 /\ k = 0, {Mem(B(m, n))})
                   \cup If(type = 0 /\ k # 0, {<<"A2", "zttmqr", k-1, m, n>>})
                   \cup If(type # 0 /\ prevn = descA.mt, {<<"C", "zunmqr", k, in, m>>})
                   \cup If(type # 0 /\ prevn # descA.mt, {<<"A1", "zttmqr", k, m, prevn>>})),
       V |-> READ(Killed(k, n),
                  If(type = 0, {<<"A", "zttmqr_in", k, n>>})
                    \cup If(type # 0, Part(Upper(Killed(k, n)), {<<"A", "zttmqr_in", k, n>>})),
                  {}),
       T |-> READ(TT(n, k), {<<"T", "zttmqr_in", k, n>>}, {})]))

zunmqr_param_RC_zttmqr_in ==
  Class2("zttmqr_in", 0 .. KT2, LAMBDA k: k+1 .. descA.mt-1,
    LAMBDA k, m:
      LET type == qrtree.gettype[k][m]
      IN
      Forward(A(m, k),
      [A |-> PASS(A(m, k), {Mem(A(m, k))},
                  If(type = 0, {<<"V", "zttmqr", k, i, m>> : i \in 0 .. descB.mt-1})
                    \cup If(type # 0, Part(Upper(A(m, k)), {<<"V", "zttmqr", k, i, m>> : i \in 0 .. descB.mt-1}))),
       T |-> PASS(TT(m, k), {Mem(TT(m, k))},
                  {<<"T", "zttmqr", k, i, m>> : i \in 0 .. descB.mt-1})]))

zunmqr_param_RC_zttmqr_out_B ==
  Class2("zttmqr_out_B", 0 .. KT2, LAMBDA k: 0 .. descB.mt-1,
    LAMBDA k, m:
      LET prevp == qrtree.prevpiv[k][k][k]
      IN
      Forward(B(m, k),
      [A |-> PASS(B(m, k), {Mem(B(m, k))}, {<<"A1", "zttmqr", k, m, prevp>>})]))

zunmqr_param_RC ==
  zunmqr_param_RC_zunmqr @@ zunmqr_param_RC_zunmqr_in @@ zunmqr_param_RC_zttmqr @@
  zunmqr_param_RC_zttmqr_in @@ zunmqr_param_RC_zttmqr_out_B

-----------------------------------------------------------------------------
\* The shapes that dplasma_zungqr_param_New accepts.
zungqr_param_Legal == descQ.nt <= descQ.mt /\ descA.nt <= descQ.nt

\* dplasma_zunmqr_param_New: the shapes it accepts and the graph it chooses.
zunmqr_param_Legal(side) ==
  LET b == IF side = "Left" THEN descB.mt ELSE descB.nt
  IN  descA.nt <= b /\ descA.mt = b

zunmqr_param_New(side, trans) ==
  IF side = "Left" THEN IF trans = "NoTrans" THEN zunmqr_param_LN ELSE zunmqr_param_LC
  ELSE IF trans = "NoTrans" THEN zunmqr_param_RN ELSE zunmqr_param_RC
==============================================================================
