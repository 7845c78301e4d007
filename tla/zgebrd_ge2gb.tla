----------------------------- MODULE zgebrd_ge2gb ----------------------------
(*****************************************************************************)
(* Reduction of a matrix to band form (zgebrd_ge2gb.jdf): QR steps with      *)
(* tree qrtree on the columns and LQ steps with tree lqtree on the rows,     *)
(* in turns; before them a QR factorization with tree qrtre0, of the first   *)
(* column (rbidiag = FALSE) or of the whole matrix, whose R is then          *)
(* reduced (rbidiag = TRUE). The band, a triangle of every diagonal tile     *)
(* and of the one right of it, goes to Band. The functions of a tree are     *)
(* those of zgeqrf_param.                                                    *)
(*****************************************************************************)
EXTENDS Dataflow

CONSTANTS descA, qrtre0, qrtree, lqtree, rbidiag

A(m, n) == Halves("A", m, n)
TS(m, n) == Whole("TS", m, n)
TT(m, n) == Whole("TT", m, n)
Band(m, n) == Whole("Band", m, n)

TS0(m, n) == Whole(IF rbidiag THEN "TS0" ELSE "TS", m, n)
TT0(m, n) == Whole(IF rbidiag THEN "TT0" ELSE "TT", m, n)

\* Panels of the first factorization, and the part of A that is reduced to band form.
KT == IF rbidiag THEN descA.nt ELSE 1
NT == descA.nt
MT == IF rbidiag THEN NT ELSE descA.mt

\* All four matrices of block factors are there.
collectT == TRUE

\* What a kill of the first factorization, of a QR step and of an LQ step leaves of its
\* victim for the updates: a full tile if the type of the victim is 0, or else a triangle.
Victim0(k, m) == IF qrtre0.gettype[k][m] = 0 THEN A(m, k) ELSE Upper(A(m, k))
VictimR(k, m) == IF qrtree.gettype[k][m] = 0 THEN A(m, k) ELSE Upper(A(m, k))
VictimL(k, n) == IF lqtree.gettype[k][n] = 0 THEN A(k-1, n) ELSE Lower(A(k-1, n))

\* The round of panel k in which m is killed: after the kill before it in the list
\* of its pivot, and after the last of its own.
Turn(t, k, m) ==
  LET T[i \in k .. t.mt] ==
        IF i = t.mt THEN 0
        ELSE 1 + MaxOf(T[t.prevpiv[k][t.currpiv[k][i]][i]], T[t.prevpiv[k][i][i]])
  IN  T[m]

-----------------------------------------------------------------------------
geqrf_zgeqrt ==
  Class2("geqrf_zgeqrt", 0 .. KT-1, LAMBDA k: 0 .. qrtre0.getnbgeqrf[k]-1,
    LAMBDA k, i:
      LET m == qrtre0.getm[k][i]
          nextm == qrtre0.nextpiv[k][m][descA.mt]
      IN
      Task(A(m, k), <<0, k, 0>>,
      [T |-> RW(TS0(m, k), If(collectT, {Mem(TS0(m, k))}) \cup If(~collectT, {New}),
                If(collectT, {Mem(TS0(m, k))})
                  \cup If(k < descA.nt-1, {<<"T", "geqrf_zunmqr", k, i, j>> : j \in k+1 .. descA.nt-1})),
       A |-> RW(A(m, k),
                If(k = 0, {Mem(A(m, k))})
                  \cup If(k > 0, {<<"A2", "geqrf_zttmqr", k-1, m, k>>}),
                {<<"A", "geqrf_zgeqrt_typechange", k, i>>}
                  \cup If(k = descA.mt-1, Part(Upper(A(m, k)), {<<"A", "collectA", m, k>>}))
                  \cup If(k < descA.mt-1 /\ nextm # descA.mt, Part(Upper(A(m, k)), {<<"A1", "geqrf_zttqrt", k, nextm>>}))
                  \cup If(k < descA.mt-1 /\ nextm = descA.mt, Part(Upper(A(m, k)), {<<"A2", "geqrf_zttqrt", k, m>>})))]))

geqrf_zgeqrt_typechange ==
  Class2("geqrf_zgeqrt_typechange", 0 .. KT-1, LAMBDA k: 0 .. qrtre0.getnbgeqrf[k]-1,
    LAMBDA k, i:
      LET m == qrtre0.getm[k][i]
      IN
      Forward(A(m, k),
      [A |-> PASS(A(m, k), {<<"A", "geqrf_zgeqrt", k, i>>},
                  {<<"B", "collectA", m, k>>}
                    \cup If(k < descA.nt-1, Part(Lower(A(m, k)), {<<"A", "geqrf_zunmqr", k, i, j>> : j \in k+1 .. NT-1})))]))

geqrf_zunmqr ==
  Class3("geqrf_zunmqr", 0 .. KT-1, LAMBDA k: 0 .. qrtre0.getnbgeqrf[k]-1, LAMBDA k, i: k+1 .. descA.nt-1,
    LAMBDA k, i, n:
      LET m == qrtre0.getm[k][i]
          nextm == qrtre0.nextpiv[k][m][descA.mt]
      IN
      Task(A(m, n), <<0, k, 1>>,
      [A |-> READ(Lower(A(m, k)),
                  Part(Lower(A(m, k)), {<<"A", "geqrf_zgeqrt_typechange", k, i>>}),
                  {}),
       T |-> READ(TS0(m, k), {<<"T", "geqrf_zgeqrt", k, i>>}, {}),
       C |-> RW(A(m, n),
                If(0 = k, {Mem(A(m, n))})
                  \cup If(k > 0, {<<"A2", "geqrf_zttmqr", k-1, m, n>>}),
                If(k < descA.mt-1 /\ nextm # descA.mt, {<<"A1", "geqrf_zttmqr", k, nextm, n>>})
                  \cup If(k < descA.mt-1 /\ nextm = descA.mt, {<<"A2", "geqrf_zttmqr", k, m, n>>}))]))

geqrf_zttqrt ==
  Class2("geqrf_zttqrt", 0 .. KT-1, LAMBDA k: k+1 .. descA.mt-1,
    LAMBDA k, m:
      LET p == qrtre0.currpiv[k][m]
          nextp == qrtre0.nextpiv[k][p][m]
          prevp == qrtre0.prevpiv[k][p][m]
          prevm == qrtre0.prevpiv[k][m][m]
          type == qrtre0.gettype[k][m]
          ip == qrtre0.geti[k][p]
          im == qrtre0.geti[k][m]
      IN
      Task(A(m, k), <<0, k, 2, Turn(qrtre0, k, m), 0>>,
      [A2 |-> RW(Victim0(k, m),
                 If(type = 0 /\ k = 0, {Mem(A(m, k))})
                   \cup If(type = 0 /\ k # 0, {<<"A2", "geqrf_zttmqr", k-1, m, k>>})
                   \cup If(type # 0 /\ prevm = descA.mt, Part(Upper(Victim0(k, m)), {<<"A", "geqrf_zgeqrt", k, im>>}))
                   \cup If(type # 0 /\ prevm # descA.mt, Part(Upper(Victim0(k, m)), {<<"A1", "geqrf_zttqrt", k, prevm>>})),
                 If(type = 0, {<<"B", "collectA", m, k>>})
                   \cup If(type # 0, Part(Upper(Victim0(k, m)), {<<"A", "collectA", m, k>>}))
                   \cup If(type = 0 /\ descA.nt-1 > k, {<<"V", "geqrf_zttmqr", k, m, i>> : i \in k+1 .. descA.nt-1})
                   \cup If(type # 0 /\ descA.nt-1 > k, Part(Upper(Victim0(k, m)), {<<"V", "geqrf_zttmqr", k, m, i>> : i \in k+1 .. descA.nt-1}))),
       T |-> RW(TT0(m, k), If(collectT, {Mem(TT0(m, k))}) \cup If(~collectT, {New}),
                If(collectT, {Mem(TT0(m, k))})
                  \cup If(descA.nt-1 > k, {<<"T", "geqrf_zttmqr", k, m, i>> : i \in k+1 .. descA.nt-1})),
       A1 |-> RW(Upper(A(p, k)),
                 IF prevp = descA.mt
                 THEN Part(Upper(A(p, k)), {<<"A", "geqrf_zgeqrt", k, ip>>})
                 ELSE Part(Upper(A(p, k)), {<<"A1", "geqrf_zttqrt", k, prevp>>}),
                 If(nextp # descA.mt, Part(Upper(A(p, k)), {<<"A1", "geqrf_zttqrt", k, nextp>>}))
                   \cup If(nextp = descA.mt /\ p = k, Part(Upper(A(p, k)), {<<"A", "collectA", k, k>>}))
                   \cup If(nextp = descA.mt /\ p # k, Part(Upper(A(p, k)), {<<"A2", "geqrf_zttqrt", k, p>>})))]))

geqrf_zttmqr ==
  Class3("geqrf_zttmqr", 0 .. KT-1, LAMBDA k: k+1 .. descA.mt-1, LAMBDA k, m: k+1 .. descA.nt-1,
    LAMBDA k, m, n:
      LET p == qrtre0.currpiv[k][m]
          nextp == qrtre0.nextpiv[k][p][m]
          prevp == qrtre0.prevpiv[k][p][m]
          prevm == qrtre0.prevpiv[k][m][m]
          type == qrtre0.gettype[k][m]
          type1 == qrtre0.gettype[k+1][m]
          ip == qrtre0.geti[k][p]
          im == qrtre0.geti[k][m]
          im1 == qrtre0.geti[k+1][m]
      IN
      Task(A(m, n), <<0, k, 2, Turn(qrtre0, k, m), 1>>,
      [A2 |-> RW(A(m, n),
                 If(type = 0 /\ k = 0, {Mem(A(m, n))})
                   \cup If(type = 0 /\ k # 0, {<<"A2", "geqrf_zttmqr", k-1, m, n>>})
                   \cup If(type # 0 /\ prevm = descA.mt, {<<"C", "geqrf_zunmqr", k, im, n>>})
                   \cup If(type # 0 /\ prevm # descA.mt, {<<"A1", "geqrf_zttmqr", k, prevm, n>>}),
                 If(k < KT-1 /\ type1 # 0 /\ n = k+1, {<<"A", "geqrf_zgeqrt", k+1, im1>>})
                   \cup If(k < KT-1 /\ type1 # 0 /\ n > k+1, {<<"C", "geqrf_zunmqr", k+1, im1, n>>})
                   \cup If(k < KT-1 /\ type1 = 0 /\ n = k+1, {<<"A2", "geqrf_zttqrt", k+1, m>>})
                   \cup If(k < KT-1 /\ type1 = 0 /\ n > k+1, {<<"A2", "geqrf_zttmqr", k+1, m, n>>})
                   \cup If(k = KT-1, {<<"B", "collectA", m, n>>})),
       V |-> READ(Victim0(k, m),
                  If(type = 0, {<<"A2", "geqrf_zttqrt", k, m>>})
                    \cup If(type # 0, Part(Upper(Victim0(k, m)), {<<"A2", "geqrf_zttqrt", k, m>>})),
                  {}),
       T |-> READ(TT0(m, k), {<<"T", "geqrf_zttqrt", k, m>>}, {}),
       A1 |-> RW(A(p, n),
                 IF prevp = descA.mt THEN {<<"C", "geqrf_zunmqr", k, ip, n>>}
                 ELSE {<<"A1", "geqrf_zttmqr", k, prevp, n>>},
                 If(nextp # descA.mt, {<<"A1", "geqrf_zttmqr", k, nextp, n>>})
                   \cup If(nextp = descA.mt /\ p = k, {<<"B", "collectA", k, n>>})
                   \cup If(nextp = descA.mt /\ p # k, {<<"A2", "geqrf_zttmqr", k, p, n>>}))]))

\* The triangles that the kills left apart come back into their tile (flow B). If all of A was
\* factorized, the tiles below and on the diagonal, with the reflectors, are done, and R
\* goes on in new tiles with zeros below (flow C).
collectA ==
  Class2("collectA", 0 .. descA.mt-1, LAMBDA m: 0 .. descA.nt-1,
    LAMBDA m, n:
      LET typem == qrtre0.gettype[n][m]
          prevn == qrtre0.prevpiv[n][n][n]
          prevm == IF m < KT THEN qrtre0.prevpiv[m][m][m] ELSE -1
          im == qrtre0.geti[n][m]
          typen == IF n > 0 THEN lqtree.gettype[1][n] ELSE -1
          in == IF n > 0 THEN lqtree.geti[1][n] ELSE -1
          inq == rbidiag /\ n > 0 /\ m >= n
          triangle ==
            If(m = n /\ KT = descA.mt /\ m = KT-1, {<<"A", "geqrf_zgeqrt", n, im>>})
              \cup If(m = n /\ KT = descA.mt /\ m < KT-1, {<<"A1", "geqrf_zttqrt", n, prevn>>})
              \cup If(m = n /\ KT # descA.mt /\ m <= KT-1, {<<"A1", "geqrf_zttqrt", n, prevn>>})
              \cup If(m > n /\ n < KT /\ typem # 0, {<<"A2", "geqrf_zttqrt", n, m>>})
          copied == triangle # {}
      IN
      Task(A(m, n), <<1>>,
      [A |-> READ(If(copied, Upper(A(m, n))),
                  IF copied THEN Part(Upper(A(m, n)), triangle) ELSE Null,
                  If(m = 0 /\ n = 0, Part(Upper(A(m, n)), {<<"A", "gebrdR_zttqrt_out_A1", 0>>}))),
       B |-> COPY(If(copied, Upper(A(m, n))),
                If(m >= n /\ n < KT /\ typem = 0, {<<"A2", "geqrf_zttqrt", n, m>>})
                  \cup If(m >= n /\ n < KT /\ typem # 0, {<<"A", "geqrf_zgeqrt_typechange", n, im>>})
                  \cup If(m < n /\ m < KT, {<<"A1", "geqrf_zttmqr", m, prevm, n>>})
                  \cup If(n >= KT /\ m >= KT, {<<"A2", "geqrf_zttmqr", KT-1, m, n>>}),
                If(n = 0 \/ inq, {Mem(A(m, n))})
                  \cup If(n > 0 /\ ~inq /\ m = 0 /\ typen # 0, {<<"A", "gebrdL_zgelqt", 1, in>>})
                  \cup If(n > 0 /\ ~inq /\ m = 0 /\ typen = 0, {<<"A2", "gebrdL_zttlqt", 1, n>>})
                  \cup If(n > 0 /\ ~inq /\ m # 0 /\ typen # 0, {<<"C", "gebrdL_zunmlq", 1, in, m>>})
                  \cup If(n > 0 /\ ~inq /\ m # 0 /\ typen = 0, {<<"A2", "gebrdL_zttmlq", 1, m, n>>})),
       C |-> WRITE(If(inq /\ m < MT, A(m, n)), IF inq THEN {New} ELSE Null,
                If(inq /\ typen # 0, {<<"C", "gebrdL_zunmlq", 1, in, m>>})
                  \cup If(inq /\ typen = 0, {<<"A2", "gebrdL_zttmlq", 1, m, n>>}))]))

gebrdR_zgeqrt ==
  Class2("gebrdR_zgeqrt", 1 .. NT-1, LAMBDA k: 0 .. qrtree.getnbgeqrf[k]-1,
    LAMBDA k, i:
      LET m == qrtree.getm[k][i]
          nextm == qrtree.nextpiv[k][m][MT]
          prevk == lqtree.prevpiv[k][k][k]
          ik == lqtree.geti[k][k]
      IN
      Task(A(m, k), <<2, k, 1, 0>>,
      [T |-> RW(TS(m, k), If(collectT, {Mem(TS(m, k))}) \cup If(~collectT, {New}),
                If(collectT, {Mem(TS(m, k))})
                  \cup If(k < NT-1, {<<"T", "gebrdR_zunmqr", k, i, j>> : j \in k+1 .. NT-1})),
       A |-> RW(A(m, k),
                If(k = 0, {Mem(A(m, k))})
                  \cup If(k > 0 /\ prevk = NT, {<<"C", "gebrdL_zunmlq", k, ik, m>>})
                  \cup If(k > 0 /\ prevk # NT, {<<"A1", "gebrdL_zttmlq", k, m, prevk>>}),
                {<<"A", "gebrdR_zgeqrt_typechange", k, i>>}
                  \cup If(k = MT-1, Part(Upper(A(m, k)), {<<"A", "gebrdR_zttqrt_out_A1", k>>}))
                  \cup If(k < MT-1 /\ nextm # MT, Part(Upper(A(m, k)), {<<"A1", "gebrdR_zttqrt", k, nextm>>}))
                  \cup If(k < MT-1 /\ nextm = MT, Part(Upper(A(m, k)), {<<"A2", "gebrdR_zttqrt", k, m>>})))]))

gebrdR_zgeqrt_typechange ==
  Class2("gebrdR_zgeqrt_typechange", 1 .. NT-1, LAMBDA k: 0 .. qrtree.getnbgeqrf[k]-1,
    LAMBDA k, i:
      LET m == qrtree.getm[k][i]
      IN
      Forward(A(m, k),
      [A |-> PASS(Lower(A(m, k)), {<<"A", "gebrdR_zgeqrt", k, i>>},
                  If(k < NT-1, Part(Lower(A(m, k)), {<<"A", "gebrdR_zunmqr", k, i, j>> : j \in k+1 .. NT-1}))
                    \cup {Mem(Lower(A(m, k)))})]))

gebrdR_zunmqr ==
  Class3("gebrdR_zunmqr", 1 .. NT-1, LAMBDA k: 0 .. qrtree.getnbgeqrf[k]-1, LAMBDA k, i: k+1 .. NT-1,
    LAMBDA k, i, n:
      LET m == qrtree.getm[k][i]
          nextm == qrtree.nextpiv[k][m][MT]
      IN
      Task(A(m, n), <<2, k, 1, 1>>,
      [A |-> READ(Lower(A(m, k)),
                  Part(Lower(A(m, k)), {<<"A", "gebrdR_zgeqrt_typechange", k, i>>}),
                  {}),
       T |-> READ(TS(m, k), {<<"T", "gebrdR_zgeqrt", k, i>>}, {}),
       C |-> RW(A(m, n),
                If(k = 0, {Mem(A(m, n))})
                  \cup If(k > 0, {<<"A2", "gebrdL_zttmlq", k, m, n>>}),
                If(k = MT-1, {Mem(A(m, n))})
                  \cup If(k < MT-1 /\ nextm # MT, {<<"A1", "gebrdR_zttmqr", k, nextm, n>>})
                  \cup If(k < MT-1 /\ nextm = MT, {<<"A2", "gebrdR_zttmqr", k, m, n>>}))]))

gebrdR_zttqrt ==
  Class2("gebrdR_zttqrt", 1 .. NT-1, LAMBDA k: k+1 .. MT-1,
    LAMBDA k, m:
      LET p == qrtree.currpiv[k][m]
          nextp == qrtree.nextpiv[k][p][m]
          prevp == qrtree.prevpiv[k][p][m]
          prevm == qrtree.prevpiv[k][m][m]
          type == qrtree.gettype[k][m]
          ip == qrtree.geti[k][p]
          im == qrtree.geti[k][m]
          prevk == lqtree.prevpiv[k][k][k]
          ik == lqtree.geti[k][k]
      IN
      Task(A(m, k), <<2, k, 1, 2, Turn(qrtree, k, m), 0>>,
      [A2 |-> RW(VictimR(k, m),
                 If(type = 0 /\ k = 0, {Mem(A(m, k))})
                   \cup If(type = 0 /\ k # 0 /\ prevk = NT, {<<"C", "gebrdL_zunmlq", k, ik, m>>})
                   \cup If(type = 0 /\ k # 0 /\ prevk # NT, {<<"A1", "gebrdL_zttmlq", k, m, prevk>>})
                   \cup If(type # 0 /\ prevm = MT, Part(Upper(VictimR(k, m)), {<<"A", "gebrdR_zgeqrt", k, im>>}))
                   \cup If(type # 0 /\ prevm # MT, Part(Upper(VictimR(k, m)), {<<"A1", "gebrdR_zttqrt", k, prevm>>})),
                 If(type = 0, {Mem(A(m, k))})
                   \cup If(type # 0, {Mem(Upper(A(m, k)))})
                   \cup If(type = 0 /\ k < NT-1, {<<"V", "gebrdR_zttmqr", k, m, i>> : i \in k+1 .. NT-1})
                   \cup If(type # 0 /\ k < NT-1, Part(Upper(VictimR(k, m)), {<<"V", "gebrdR_zttmqr", k, m, i>> : i \in k+1 .. NT-1}))),
       T |-> RW(TT(m, k), If(collectT, {Mem(TT(m, k))}) \cup If(~collectT, {New}),
                If(collectT, {Mem(TT(m, k))})
                  \cup If(k < NT-1, {<<"T", "gebrdR_zttmqr", k, m, i>> : i \in k+1 .. NT-1})),
       A1 |-> RW(Upper(A(p, k)),
                 IF prevp = MT
                 THEN Part(Upper(A(p, k)), {<<"A", "gebrdR_zgeqrt", k, ip>>})
                 ELSE Part(Upper(A(p, k)), {<<"A1", "gebrdR_zttqrt", k, prevp>>}),
                 If(nextp # MT, Part(Upper(A(p, k)), {<<"A1", "gebrdR_zttqrt", k, nextp>>}))
                   \cup If(nextp = MT /\ p = k, Part(Upper(A(p, k)), {<<"A", "gebrdR_zttqrt_out_A1", k>>}))
                   \cup If(nextp = MT /\ p # k, Part(Upper(A(p, k)), {<<"A2", "gebrdR_zttqrt", k, p>>})))]))

gebrdR_zttmqr ==
  Class3("gebrdR_zttmqr", 1 .. NT-1, LAMBDA k: k+1 .. MT-1, LAMBDA k, m: k+1 .. NT-1,
    LAMBDA k, m, n:
      LET p == qrtree.currpiv[k][m]
          nextp == qrtree.nextpiv[k][p][m]
          prevp == qrtree.prevpiv[k][p][m]
          prevm == qrtree.prevpiv[k][m][m]
          typem == qrtree.gettype[k][m]
          ip == qrtree.geti[k][p]
          im == qrtree.geti[k][m]
          typen == lqtree.gettype[k+1][n]
          in == lqtree.geti[k+1][n]
      IN
      Task(A(m, n), <<2, k, 1, 2, Turn(qrtree, k, m), 1>>,
      [A2 |-> RW(A(m, n),
                 If(typem = 0 /\ k = 0, {Mem(A(m, n))})
                   \cup If(typem = 0 /\ k # 0, {<<"A2", "gebrdL_zttmlq", k, m, n>>})
                   \cup If(typem # 0 /\ prevm = MT, {<<"C", "gebrdR_zunmqr", k, im, n>>})
                   \cup If(typem # 0 /\ prevm # MT, {<<"A1", "gebrdR_zttmqr", k, prevm, n>>}),
                 If(typen # 0, {<<"C", "gebrdL_zunmlq", k+1, in, m>>})
                   \cup If(typen = 0, {<<"A2", "gebrdL_zttmlq", k+1, m, n>>})),
       V |-> READ(VictimR(k, m),
                  If(typem = 0, {<<"A2", "gebrdR_zttqrt", k, m>>})
                    \cup If(typem # 0, Part(Upper(VictimR(k, m)), {<<"A2", "gebrdR_zttqrt", k, m>>})),
                  {}),
       T |-> READ(TT(m, k), {<<"T", "gebrdR_zttqrt", k, m>>}, {}),
       A1 |-> RW(A(p, n),
                 IF prevp = MT THEN {<<"C", "gebrdR_zunmqr", k, ip, n>>}
                 ELSE {<<"A1", "gebrdR_zttmqr", k, prevp, n>>},
                 If(nextp # MT, {<<"A1", "gebrdR_zttmqr", k, nextp, n>>})
                   \cup If(nextp = MT /\ p # k, {<<"A2", "gebrdR_zttmqr", k, p, n>>})
                   \cup If(nextp = MT /\ p = k /\ typen # 0, {<<"A", "gebrdL_zgelqt", k+1, in>>})
                   \cup If(nextp = MT /\ p = k /\ typen = 0, {<<"A2", "gebrdL_zttlqt", k+1, n>>}))]))

gebrdL_zgelqt ==
  Class2("gebrdL_zgelqt", 1 .. NT-1, LAMBDA k: 0 .. lqtree.getnbgeqrf[k]-1,
    LAMBDA k, i:
      LET n == lqtree.getm[k][i]
          nextn == lqtree.nextpiv[k][n][NT]
          prevk == qrtree.prevpiv[k-1][k-1][k-1]
      IN
      Task(A(k-1, n), <<2, k, 0, 0>>,
      [T |-> RW(TS(k-1, n), If(collectT, {Mem(TS(k-1, n))}) \cup If(~collectT, {New}),
                If(collectT, {Mem(TS(k-1, n))})
                  \cup If(k < MT, {<<"T", "gebrdL_zunmlq", k, i, j>> : j \in k .. MT-1})),
       A |-> RW(A(k-1, n),
                If(k = 1, {<<"B", "collectA", k-1, n>>})
                  \cup If(k > 1 /\ prevk # MT, {<<"A1", "gebrdR_zttmqr", k, prevk, n>>}),
                {<<"A", "gebrdL_zgelqt_typechange", k, i>>}
                  \cup If(k = NT-1, Part(Lower(A(k-1, n)), {<<"A", "gebrdL_zttlqt_out_A1", k>>}))
                  \cup If(k < NT-1 /\ nextn # NT, Part(Lower(A(k-1, n)), {<<"A1", "gebrdL_zttlqt", k, nextn>>}))
                  \cup If(k < NT-1 /\ nextn = NT, Part(Lower(A(k-1, n)), {<<"A2", "gebrdL_zttlqt", k, n>>})))]))

gebrdL_zgelqt_typechange ==
  Class2("gebrdL_zgelqt_typechange", 1 .. NT-1, LAMBDA k: 0 .. lqtree.getnbgeqrf[k]-1,
    LAMBDA k, i:
      LET n == lqtree.getm[k][i]
      IN
      Forward(A(k-1, n),
      [A |-> PASS(Upper(A(k-1, n)), {<<"A", "gebrdL_zgelqt", k, i>>},
                  If(k < MT, Part(Upper(A(k-1, n)), {<<"A", "gebrdL_zunmlq", k, i, j>> : j \in k .. MT-1}))
                    \cup {Mem(Upper(A(k-1, n)))})]))

gebrdL_zunmlq ==
  Class3("gebrdL_zunmlq", 1 .. NT-1, LAMBDA k: 0 .. lqtree.getnbgeqrf[k]-1, LAMBDA k, i: k .. MT-1,
    LAMBDA k, i, m:
      LET n == lqtree.getm[k][i]
          nextn == lqtree.nextpiv[k][n][NT]
          typem == qrtree.gettype[k][m]
          im == qrtree.geti[k][m]
      IN
      Task(A(m, n), <<2, k, 0, 1>>,
      [A |-> READ(Upper(A(k-1, n)),
                  Part(Upper(A(k-1, n)), {<<"A", "gebrdL_zgelqt_typechange", k, i>>}),
                  {}),
       T |-> READ(TS(k-1, n), {<<"T", "gebrdL_zgelqt", k, i>>}, {}),
       C |-> RW(A(m, n),
                If(k = 1 /\ (~rbidiag \/ m < n), {<<"B", "collectA", m, n>>})
                  \cup If(k = 1 /\ rbidiag /\ m >= n, {<<"C", "collectA", m, n>>})
                  \cup If(k # 1, {<<"A2", "gebrdR_zttmqr", k-1, m, n>>}),
                If(k = NT-1 /\ typem # 0, {<<"A", "gebrdR_zgeqrt", k, im>>})
                  \cup If(k = NT-1 /\ typem = 0, {<<"A2", "gebrdR_zttqrt", k, m>>})
                  \cup If(k < NT-1 /\ nextn # NT, {<<"A1", "gebrdL_zttmlq", k, m, nextn>>})
                  \cup If(k < NT-1 /\ nextn = NT, {<<"A2", "gebrdL_zttmlq", k, m, n>>}))]))

gebrdL_zttlqt ==
  Class2("gebrdL_zttlqt", 1 .. NT-1, LAMBDA k: k+1 .. NT-1,
    LAMBDA k, n:
      LET p == lqtree.currpiv[k][n]
          nextp == lqtree.nextpiv[k][p][n]
          prevp == lqtree.prevpiv[k][p][n]
          prevn == lqtree.prevpiv[k][n][n]
          type == lqtree.gettype[k][n]
          ip == lqtree.geti[k][p]
          in == lqtree.geti[k][n]
          prevk == qrtree.prevpiv[k-1][k-1][k-1]
      IN
      Task(A(k-1, n), <<2, k, 0, 2, Turn(lqtree, k, n), 0>>,
      [A2 |-> RW(VictimL(k, n),
                 If(type = 0 /\ k = 1, {<<"B", "collectA", k-1, n>>})
                   \cup If(type = 0 /\ k # 1 /\ prevk # MT, {<<"A1", "gebrdR_zttmqr", k-1, prevk, n>>})
                   \cup If(type # 0 /\ prevn = NT, Part(Lower(VictimL(k, n)), {<<"A", "gebrdL_zgelqt", k, in>>}))
                   \cup If(type # 0 /\ prevn # NT, Part(Lower(VictimL(k, n)), {<<"A1", "gebrdL_zttlqt", k, prevn>>})),
                 If(type = 0, {Mem(A(k-1, n))})
                   \cup If(type # 0, {Mem(Lower(A(k-1, n)))})
                   \cup If(type = 0 /\ k < MT, {<<"V", "gebrdL_zttmlq", k, i, n>> : i \in k .. MT-1})
                   \cup If(type # 0 /\ k < MT, Part(Lower(VictimL(k, n)), {<<"V", "gebrdL_zttmlq", k, i, n>> : i \in k .. MT-1}))),
       T |-> RW(TT(k-1, n), If(collectT, {Mem(TT(k-1, n))}) \cup If(~collectT, {New}),
                If(collectT, {Mem(TT(k-1, n))})
                  \cup If(k < MT, {<<"T", "gebrdL_zttmlq", k, i, n>> : i \in k .. MT-1})),
       A1 |-> RW(Lower(A(k-1, p)),
                 IF prevp = NT
                 THEN Part(Lower(A(k-1, p)), {<<"A", "gebrdL_zgelqt", k, ip>>})
                 ELSE Part(Lower(A(k-1, p)), {<<"A1", "gebrdL_zttlqt", k, prevp>>}),
                 If(nextp # NT, Part(Lower(A(k-1, p)), {<<"A1", "gebrdL_zttlqt", k, nextp>>}))
                   \cup If(nextp = NT /\ p = k, Part(Lower(A(k-1, p)), {<<"A", "gebrdL_zttlqt_out_A1", k>>}))
                   \cup If(nextp = NT /\ p # k, Part(Lower(A(k-1, p)), {<<"A2", "gebrdL_zttlqt", k, p>>})))]))

gebrdL_zttmlq ==
  Class3("gebrdL_zttmlq", 1 .. NT-1, LAMBDA k: k .. MT-1, LAMBDA k, m: k+1 .. NT-1,
    LAMBDA k, m, n:
      LET p == lqtree.currpiv[k][n]
          nextp == lqtree.nextpiv[k][p][n]
          prevp == lqtree.prevpiv[k][p][n]
          prevn == lqtree.prevpiv[k][n][n]
          typen == lqtree.gettype[k][n]
          ip == lqtree.geti[k][p]
          in == lqtree.geti[k][n]
          typem == qrtree.gettype[k][m]
          im == qrtree.geti[k][m]
      IN
      Task(A(m, n), <<2, k, 0, 2, Turn(lqtree, k, n), 1>>,
      [A2 |-> RW(A(m, n),
                 If(typen = 0 /\ k = 1 /\ (~rbidiag \/ m < n), {<<"B", "collectA", m, n>>})
                   \cup If(typen = 0 /\ k = 1 /\ rbidiag /\ m >= n, {<<"C", "collectA", m, n>>})
                   \cup If(typen = 0 /\ k # 1, {<<"A2", "gebrdR_zttmqr", k-1, m, n>>})
                   \cup If(typen # 0 /\ prevn = NT, {<<"C", "gebrdL_zunmlq", k, in, m>>})
                   \cup If(typen # 0 /\ prevn # NT, {<<"A1", "gebrdL_zttmlq", k, m, prevn>>}),
                 If(typem # 0, {<<"C", "gebrdR_zunmqr", k, im, n>>})
                   \cup If(typem = 0, {<<"A2", "gebrdR_zttmqr", k, m, n>>})),
       V |-> READ(VictimL(k, n),
                  If(typen = 0, {<<"A2", "gebrdL_zttlqt", k, n>>})
                    \cup If(typen # 0, Part(Lower(VictimL(k, n)), {<<"A2", "gebrdL_zttlqt", k, n>>})),
                  {}),
       T |-> READ(TT(k-1, n), {<<"T", "gebrdL_zttlqt", k, n>>}, {}),
       A1 |-> RW(A(m, p),
                 IF prevp = NT THEN {<<"C", "gebrdL_zunmlq", k, ip, m>>}
                 ELSE {<<"A1", "gebrdL_zttmlq", k, m, prevp>>},
                 If(nextp # NT, {<<"A1", "gebrdL_zttmlq", k, m, nextp>>})
                   \cup If(nextp = NT /\ p # k, {<<"A2", "gebrdL_zttmlq", k, m, p>>})
                   \cup If(nextp = NT /\ p = k /\ typem # 0, {<<"A", "gebrdR_zgeqrt", k, im>>})
                   \cup If(nextp = NT /\ p = k /\ typem = 0, {<<"A2", "gebrdR_zttqrt", k, m>>}))]))

gebrdR_zttqrt_out_A1 ==
  Class1("gebrdR_zttqrt_out_A1", 0 .. NT-1,
    LAMBDA k:
      LET prevk == qrtree.prevpiv[k][k][k]
          ik == qrtree.geti[k][k]
      IN
      Task(Band(0, k), <<3, k, 1>>,
      [A |-> READ(Upper(A(k, k)),
                  If(k = 0, Part(Upper(A(k, k)), {<<"A", "collectA", k, k>>}))
                    \cup If(k # 0 /\ k = NT-1 /\ MT = NT, Part(Upper(A(k, k)), {<<"A", "gebrdR_zgeqrt", k, ik>>}))
                    \cup If(k # 0 /\ (k # NT-1 \/ MT # NT), Part(Upper(A(k, k)), {<<"A1", "gebrdR_zttqrt", k, prevk>>})),
                  {}),
       B |-> RW(Band(0, k),
                If(k > 0, {<<"B", "gebrdL_zttlqt_out_A1", k>>})
                  \cup If(k <= 0, {Mem(Band(0, k))}),
                {Mem(Band(0, k))})]))

gebrdL_zttlqt_out_A1 ==
  Class1("gebrdL_zttlqt_out_A1", 1 .. NT-1,
    LAMBDA k:
      LET prevk == IF NT > 2 THEN lqtree.prevpiv[k][k][k] ELSE -1
          ik == lqtree.geti[k][k]
      IN
      Task(Band(0, k), <<3, k, 0>>,
      [A |-> READ(Lower(A(k-1, k)),
                  If(k = NT-1, Part(Lower(A(k-1, k)), {<<"A", "gebrdL_zgelqt", k, ik>>}))
                    \cup If(k # NT-1, Part(Lower(A(k-1, k)), {<<"A1", "gebrdL_zttlqt", k, prevk>>})),
                  {}),
       B |-> RW(Band(0, k), {Mem(Band(0, k))}, {<<"B", "gebrdR_zttqrt_out_A1", k>>})]))

zgebrd_ge2gb ==
  geqrf_zgeqrt @@ geqrf_zgeqrt_typechange @@ geqrf_zunmqr @@ geqrf_zttqrt @@ geqrf_zttmqr @@
  collectA @@ gebrdR_zgeqrt @@ gebrdR_zgeqrt_typechange @@ gebrdR_zunmqr @@ gebrdR_zttqrt @@
  gebrdR_zttmqr @@ gebrdL_zgelqt @@ gebrdL_zgelqt_typechange @@ gebrdL_zunmlq @@
  gebrdL_zttlqt @@ gebrdL_zttmlq @@ gebrdR_zttqrt_out_A1 @@ gebrdL_zttlqt_out_A1
==============================================================================
