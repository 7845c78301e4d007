-------------------------------- MODULE zgemm --------------------------------
(*****************************************************************************)
(* The matrix product C := op(A) op(B) + C, in its default form              *)
(* (zgemm_NN.jdf .. zgemm_TT.jdf) and in the form for several processes      *)
(* (zgemm_NN_summa.jdf .. zgemm_TT_summa.jdf).                               *)
(*                                                                           *)
(* In the default form the tasks READ_A and READ_B send the tiles to all     *)
(* their users; lookP and lookQ are the look-ahead parameters of the         *)
(* files. In the other one they hand a tile to a ring of tasks (RING_A       *)
(* along a row of the P x Q grid of C, RING_B down a column), each of        *)
(* which serves the users of its process; the control flows let a tile of    *)
(* step k into the ring of a process when that process is done with step k   *)
(* - look-ahead. Cdist places the rings.                                     *)
(*****************************************************************************)
EXTENDS Dataflow

CONSTANTS descA, descB, descC, lookP, lookQ, P, Q

A(m, n) == Whole("A", m, n)
B(m, n) == Whole("B", m, n)
C(m, n) == Whole("C", m, n)
Cdist(m, n) == Whole("Cdist", m, n)

-----------------------------------------------------------------------------
zgemm_NN_READ_A ==
  Class2("READ_A", 0 .. descA.mt-1, LAMBDA m: 0 .. descA.nt-1,
    LAMBDA m, k:
      Forward(A(m, k),
      [A |-> PASS(A(m, k), {Mem(A(m, k))}, {<<"A", "GEMM", m, i, k>> : i \in 0 .. descC.nt-1}),
       ctla |-> CTL(If(k >= lookQ, {<<"ctla", "GEMM", m, i, k-lookQ>> : i \in 0 .. descC.nt-1}),
                    {})]))

zgemm_NN_READ_B ==
  Class2("READ_B", 0 .. descB.mt-1, LAMBDA k: 0 .. descB.nt-1,
    LAMBDA k, n:
      Forward(B(k, n),
      [B |-> PASS(B(k, n), {Mem(B(k, n))}, {<<"B", "GEMM", i, n, k>> : i \in 0 .. descC.mt-1}),
       ctlb |-> CTL(If(k >= lookP, {<<"ctlb", "GEMM", i, n, k-lookP>> : i \in 0 .. descC.mt-1}),
                    {})]))

zgemm_NN_GEMM ==
  Class3("GEMM", 0 .. descC.mt-1, LAMBDA m: 0 .. descC.nt-1, LAMBDA m, n: 0 .. descA.nt-1,
    LAMBDA m, n, k:
      Task(C(m, n), <<k>>,
      [A |-> READ(A(m, k), {<<"A", "READ_A", m, k>>}, {}),
       B |-> READ(B(k, n), {<<"B", "READ_B", k, n>>}, {}),
       C |-> RW(C(m, n), If(k = 0, {Mem(C(m, n))}) \cup If(k # 0, {<<"C", "GEMM", m, n, k-1>>}),
                If(k = descA.nt-1, {Mem(C(m, n))})
                  \cup If(k # descA.nt-1, {<<"C", "GEMM", m, n, k+1>>})),
       ctla |-> CTL({}, If(k < descA.nt-lookQ, {<<"ctla", "READ_A", m, k+lookQ>>})),
       ctlb |-> CTL({}, If(k < descA.nt-lookP, {<<"ctlb", "READ_B", k+lookP, n>>}))]))

zgemm_NN ==
  zgemm_NN_READ_A @@ zgemm_NN_READ_B @@ zgemm_NN_GEMM

-----------------------------------------------------------------------------
zgemm_NT_READ_A ==
  Class2("READ_A", 0 .. descA.mt-1, LAMBDA m: 0 .. descA.nt-1,
    LAMBDA m, k:
      Forward(A(m, k),
      [A |-> PASS(A(m, k), {Mem(A(m, k))}, {<<"A", "GEMM", m, i, k>> : i \in 0 .. descC.nt-1}),
       ctla |-> CTL(If(k >= lookQ, {<<"ctla", "GEMM", m, i, k-lookQ>> : i \in 0 .. descC.nt-1}),
                    {})]))

zgemm_NT_READ_B ==
  Class2("READ_B", 0 .. descB.mt-1, LAMBDA n: 0 .. descB.nt-1,
    LAMBDA n, k:
      Forward(B(n, k),
      [B |-> PASS(B(n, k), {Mem(B(n, k))}, {<<"B", "GEMM", i, n, k>> : i \in 0 .. descC.mt-1}),
       ctlb |-> CTL(If(k >= lookP, {<<"ctlb", "GEMM", i, n, k-lookP>> : i \in 0 .. descC.mt-1}),
                    {})]))

zgemm_NT_GEMM ==
  Class3("GEMM", 0 .. descC.mt-1, LAMBDA m: 0 .. descC.nt-1, LAMBDA m, n: 0 .. descA.nt-1,
    LAMBDA m, n, k:
      Task(C(m, n), <<k>>,
      [A |-> READ(A(m, k), {<<"A", "READ_A", m, k>>}, {}),
       B |-> READ(B(n, k), {<<"B", "READ_B", n, k>>}, {}),
       C |-> RW(C(m, n), If(k = 0, {Mem(C(m, n))}) \cup If(k # 0, {<<"C", "GEMM", m, n, k-1>>}),
                If(k = descA.nt-1, {Mem(C(m, n))})
                  \cup If(k # descA.nt-1, {<<"C", "GEMM", m, n, k+1>>})),
       ctla |-> CTL({}, If(k < descA.nt-lookQ, {<<"ctla", "READ_A", m, k+lookQ>>})),
       ctlb |-> CTL({}, If(k < descA.nt-lookP, {<<"ctlb", "READ_B", n, k+lookP>>}))]))

zgemm_NT ==
  zgemm_NT_READ_A @@ zgemm_NT_READ_B @@ zgemm_NT_GEMM

-----------------------------------------------------------------------------
zgemm_TN_READ_A ==
  Class2("READ_A", 0 .. descA.mt-1, LAMBDA k: 0 .. descA.nt-1,
    LAMBDA k, m:
      Forward(A(k, m),
      [A |-> PASS(A(k, m), {Mem(A(k, m))}, {<<"A", "GEMM", m, i, k>> : i \in 0 .. descC.nt-1}),
       ctla |-> CTL(If(k >= lookQ, {<<"ctla", "GEMM", m, i, k-lookQ>> : i \in 0 .. descC.nt-1}),
                    {})]))

zgemm_TN_READ_B ==
  Class2("READ_B", 0 .. descB.mt-1, LAMBDA k: 0 .. descB.nt-1,
    LAMBDA k, n:
      Forward(B(k, n),
      [B |-> PASS(B(k, n), {Mem(B(k, n))}, {<<"B", "GEMM", i, n, k>> : i \in 0 .. descC.mt-1}),
       ctlb |-> CTL(If(k >= lookP, {<<"ctlb", "GEMM", i, n, k-lookP>> : i \in 0 .. descC.mt-1}),
                    {})]))

zgemm_TN_GEMM ==
  Class3("GEMM", 0 .. descC.mt-1, LAMBDA m: 0 .. descC.nt-1, LAMBDA m, n: 0 .. descA.mt-1,
    LAMBDA m, n, k:
      Task(C(m, n), <<k>>,
      [A |-> READ(A(k, m), {<<"A", "READ_A", k, m>>}, {}),
       B |-> READ(B(k, n), {<<"B", "READ_B", k, n>>}, {}),
       C |-> RW(C(m, n), If(k = 0, {Mem(C(m, n))}) \cup If(k # 0, {<<"C", "GEMM", m, n, k-1>>}),
                If(k = descA.mt-1, {Mem(C(m, n))})
                  \cup If(k # descA.mt-1, {<<"C", "GEMM", m, n, k+1>>})),
       ctla |-> CTL({}, If(k < descA.mt-lookQ, {<<"ctla", "READ_A", k+lookQ, m>>})),
       ctlb |-> CTL({}, If(k < descA.mt-lookP, {<<"ctlb", "READ_B", k+lookP, n>>}))]))

zgemm_TN ==
  zgemm_TN_READ_A @@ zgemm_TN_READ_B @@ zgemm_TN_GEMM

-----------------------------------------------------------------------------
zgemm_TT_READ_A ==
  Class2("READ_A", 0 .. descA.mt-1, LAMBDA k: 0 .. descA.nt-1,
    LAMBDA k, m:
      Forward(A(k, m),
      [A |-> PASS(A(k, m), {Mem(A(k, m))}, {<<"A", "GEMM", m, i, k>> : i \in 0 .. descC.nt-1}),
       ctla |-> CTL(If(k >= lookQ, {<<"ctla", "GEMM", m, i, k-lookQ>> : i \in 0 .. descC.nt-1}),
                    {})]))

zgemm_TT_READ_B ==
  Class2("READ_B", 0 .. descB.mt-1, LAMBDA n: 0 .. descB.nt-1,
    LAMBDA n, k:
      Forward(B(n, k),
      [B |-> PASS(B(n, k), {Mem(B(n, k))}, {<<"B", "GEMM", i, n, k>> : i \in 0 .. descC.mt-1}),
       ctlb |-> CTL(If(k >= lookP, {<<"ctlb", "GEMM", i, n, k-lookP>> : i \in 0 .. descC.mt-1}),
                    {})]))

zgemm_TT_GEMM ==
  Class3("GEMM", 0 .. descC.mt-1, LAMBDA m: 0 .. descC.nt-1, LAMBDA m, n: 0 .. descA.mt-1,
    LAMBDA m, n, k:
      Task(C(m, n), <<k>>,
      [A |-> READ(A(k, m), {<<"A", "READ_A", k, m>>}, {}),
       B |-> READ(B(n, k), {<<"B", "READ_B", n, k>>}, {}),
       C |-> RW(C(m, n), If(k = 0, {Mem(C(m, n))}) \cup If(k # 0, {<<"C", "GEMM", m, n, k-1>>}),
                If(k = descA.mt-1, {Mem(C(m, n))})
                  \cup If(k # descA.mt-1, {<<"C", "GEMM", m, n, k+1>>})),
       ctla |-> CTL({}, If(k < descA.mt-lookQ, {<<"ctla", "READ_A", k+lookQ, m>>})),
       ctlb |-> CTL({}, If(k < descA.mt-lookP, {<<"ctlb", "READ_B", n, k+lookP>>}))]))

zgemm_TT ==
  zgemm_TT_READ_A @@ zgemm_TT_READ_B @@ zgemm_TT_GEMM

-----------------------------------------------------------------------------
zgemm_NN_summa_READ_A ==
  Class2("READ_A", 0 .. descA.mt-1, LAMBDA m: 0 .. descA.nt-1,
    LAMBDA m, k:
      Forward(A(m, k),
      [A |-> PASS(A(m, k), {Mem(A(m, k))}, {<<"A", "RING_A", m, k, (k % Q)>>})]))

zgemm_NN_summa_RING_A ==
  Class3("RING_A", 0 .. descA.mt-1, LAMBDA m: 0 .. descA.nt-1, LAMBDA m, k: 0 .. Q-1,
    LAMBDA m, k, q:
      LET prevq == ((q-1+Q) % Q)
          nextq == ((q+1) % Q)
      IN
      Forward(Cdist(m, q),
      [A |-> PASS(A(m, k),
                  IF (k % Q) = q THEN {<<"A", "READ_A", m, k>>}
                  ELSE {<<"A", "RING_A", m, k, prevq>>},
                  {<<"A", "GEMM", m, i, k>> : i \in Steps(q, descC.nt-1, Q)}
                    \cup If(nextq # (k % Q), {<<"A", "RING_A", m, k, nextq>>})),
       ctla |-> CTL(If(k >= lookQ, {<<"ctla", "GEMM", m, i, k-lookQ>> : i \in Steps(q, descC.nt-1, Q)}),
                    {})]))

zgemm_NN_summa_READ_B ==
  Class2("READ_B", 0 .. descB.mt-1, LAMBDA k: 0 .. descB.nt-1,
    LAMBDA k, n:
      Forward(B(k, n),
      [B |-> PASS(B(k, n), {Mem(B(k, n))}, {<<"B", "RING_B", k, n, (k % P)>>})]))

zgemm_NN_summa_RING_B ==
  Class3("RING_B", 0 .. descB.mt-1, LAMBDA k: 0 .. descB.nt-1, LAMBDA k, n: 0 .. P-1,
    LAMBDA k, n, p:
      LET prevp == ((p-1+P) % P)
          nextp == ((p+1) % P)
      IN
      Forward(Cdist(p, n),
      [B |-> PASS(B(k, n),
                  IF (k % P) = p THEN {<<"B", "READ_B", k, n>>}
                  ELSE {<<"B", "RING_B", k, n, prevp>>},
                  {<<"B", "GEMM", i, n, k>> : i \in Steps(p, descC.mt-1, P)}
                    \cup If(nextp # (k % P), {<<"B", "RING_B", k, n, nextp>>})),
       ctlb |-> CTL(If(k >= lookP, {<<"ctlb", "GEMM", i, n, k-lookP>> : i \in Steps(p, descC.mt-1, P)}),
                    {})]))

zgemm_NN_summa_GEMM ==
  Class3("GEMM", 0 .. descC.mt-1, LAMBDA m: 0 .. descC.nt-1, LAMBDA m, n: 0 .. descA.nt-1,
    LAMBDA m, n, k:
      Task(C(m, n), <<k>>,
      [A |-> READ(A(m, k), {<<"A", "RING_A", m, k, (n % Q)>>}, {}),
       B |-> READ(B(k, n), {<<"B", "RING_B", k, n, (m % P)>>}, {}),
       C |-> RW(C(m, n), If(k = 0, {Mem(C(m, n))}) \cup If(k # 0, {<<"C", "GEMM", m, n, k-1>>}),
                If(k = descA.nt-1, {Mem(C(m, n))})
                  \cup If(k # descA.nt-1, {<<"C", "GEMM", m, n, k+1>>})),
       ctla |-> CTL({}, If(k < descA.nt-lookQ, {<<"ctla", "RING_A", m, k+lookQ, (n % Q)>>})),
       ctlb |-> CTL({}, If(k < descA.nt-lookP, {<<"ctlb", "RING_B", k+lookP, n, (m % P)>>}))]))

zgemm_NN_summa ==
  zgemm_NN_summa_READ_A @@ zgemm_NN_summa_RING_A @@ zgemm_NN_summa_READ_B @@
  zgemm_NN_summa_RING_B @@ zgemm_NN_summa_GEMM

-----------------------------------------------------------------------------
zgemm_NT_summa_READ_A ==
  Class2("READ_A", 0 .. descA.mt-1, LAMBDA m: 0 .. descA.nt-1,
    LAMBDA m, k:
      Forward(A(m, k),
      [A |-> PASS(A(m, k), {Mem(A(m, k))}, {<<"A", "RING_A", m, k, (k % Q)>>})]))

zgemm_NT_summa_RING_A ==
  Class3("RING_A", 0 .. descA.mt-1, LAMBDA m: 0 .. descA.nt-1, LAMBDA m, k: 0 .. Q-1,
    LAMBDA m, k, q:
      LET prevq == ((q-1+Q) % Q)
          nextq == ((q+1) % Q)
      IN
      Forward(Cdist(m, q),
      [A |-> PASS(A(m, k),
                  IF (k % Q) = q THEN {<<"A", "READ_A", m, k>>}
                  ELSE {<<"A", "RING_A", m, k, prevq>>},
                  {<<"A", "GEMM", m, i, k>> : i \in Steps(q, descC.nt-1, Q)}
                    \cup If(nextq # (k % Q), {<<"A", "RING_A", m, k, nextq>>})),
       ctla |-> CTL(If(k >= lookQ, {<<"ctla", "GEMM", m, i, k-lookQ>> : i \in Steps(q, descC.nt-1, Q)}),
                    {})]))

zgemm_NT_summa_READ_B ==
  Class2("READ_B", 0 .. descB.mt-1, LAMBDA n: 0 .. descB.nt-1,
    LAMBDA n, k:
      Forward(B(n, k),
      [B |-> PASS(B(n, k), {Mem(B(n, k))}, {<<"B", "RING_B", n, k, (k % P)>>})]))

zgemm_NT_summa_RING_B ==
  Class3("RING_B", 0 .. descB.mt-1, LAMBDA n: 0 .. descB.nt-1, LAMBDA n, k: 0 .. P-1,
    LAMBDA n, k, p:
      LET prevp == ((p-1+P) % P)
          nextp == ((p+1) % P)
      IN
      Forward(Cdist(p, n),
      [B |-> PASS(B(n, k),
                  IF (k % P) = p THEN {<<"B", "READ_B", n, k>>}
                  ELSE {<<"B", "RING_B", n, k, prevp>>},
                  {<<"B", "GEMM", i, n, k>> : i \in Steps(p, descC.mt-1, P)}
                    \cup If(nextp # (k % P), {<<"B", "RING_B", n, k, nextp>>})),
       ctlb |-> CTL(If(k >= lookP, {<<"ctlb", "GEMM", i, n, k-lookP>> : i \in Steps(p, descC.mt-1, P)}),
                    {})]))

zgemm_NT_summa_GEMM ==
  Class3("GEMM", 0 .. descC.mt-1, LAMBDA m: 0 .. descC.nt-1, LAMBDA m, n: 0 .. descA.nt-1,
    LAMBDA m, n, k:
      Task(C(m, n), <<k>>,
      [A |-> READ(A(m, k), {<<"A", "RING_A", m, k, (n % Q)>>}, {}),
       B |-> READ(B(n, k), {<<"B", "RING_B", n, k, (m % P)>>}, {}),
       C |-> RW(C(m, n), If(k = 0, {Mem(C(m, n))}) \cup If(k # 0, {<<"C", "GEMM", m, n, k-1>>}),
                If(k = descA.nt-1, {Mem(C(m, n))})
                  \cup If(k # descA.nt-1, {<<"C", "GEMM", m, n, k+1>>})),
       ctla |-> CTL({}, If(k < descA.nt-lookQ, {<<"ctla", "RING_A", m, k+lookQ, (n % Q)>>})),
       ctlb |-> CTL({}, If(k < descA.nt-lookP, {<<"ctlb", "RING_B", n, k+lookP, (m % P)>>}))]))

zgemm_NT_summa ==
  zgemm_NT_summa_READ_A @@ zgemm_NT_summa_RING_A @@ zgemm_NT_summa_READ_B @@
  zgemm_NT_summa_RING_B @@ zgemm_NT_summa_GEMM

-----------------------------------------------------------------------------
zgemm_TN_summa_READ_A ==
  Class2("READ_A", 0 .. descA.mt-1, LAMBDA k: 0 .. descA.nt-1,
    LAMBDA k, m:
      Forward(A(k, m),
      [A |-> PASS(A(k, m), {Mem(A(k, m))}, {<<"A", "RING_A", k, m, (k % Q)>>})]))

zgemm_TN_summa_RING_A ==
  Class3("RING_A", 0 .. descA.mt-1, LAMBDA k: 0 .. descA.nt-1, LAMBDA k, m: 0 .. Q-1,
    LAMBDA k, m, q:
      LET prevq == ((q-1+Q) % Q)
          nextq == ((q+1) % Q)
      IN
      Forward(Cdist(m, q),
      [A |-> PASS(A(k, m),
                  IF (k % Q) = q THEN {<<"A", "READ_A", k, m>>}
                  ELSE {<<"A", "RING_A", k, m, prevq>>},
                  {<<"A", "GEMM", m, i, k>> : i \in Steps(q, descC.nt-1, Q)}
                    \cup If(nextq # (k % Q), {<<"A", "RING_A", k, m, nextq>>})),
       ctla |-> CTL(If(k >= lookQ, {<<"ctla", "GEMM", m, i, k-lookQ>> : i \in Steps(q, descC.nt-1, Q)}),
                    {})]))

zgemm_TN_summa_READ_B ==
  Class2("READ_B", 0 .. descB.mt-1, LAMBDA k: 0 .. descB.nt-1,
    LAMBDA k, n:
      Forward(B(k, n),
      [B |-> PASS(B(k, n), {Mem(B(k, n))}, {<<"B", "RING_B", k, n, (k % P)>>})]))

zgemm_TN_summa_RING_B ==
  Class3("RING_B", 0 .. descB.mt-1, LAMBDA k: 0 .. descB.nt-1, LAMBDA k, n: 0 .. P-1,
    LAMBDA k, n, p:
      LET prevp == ((p-1+P) % P)
          nextp == ((p+1) % P)
      IN
      Forward(Cdist(p, n),
      [B |-> PASS(B(k, n),
                  IF (k % P) = p THEN {<<"B", "READ_B", k, n>>}
                  ELSE {<<"B", "RING_B", k, n, prevp>>},
                  {<<"B", "GEMM", i, n, k>> : i \in Steps(p, descC.mt-1, P)}
                    \cup If(nextp # (k % P), {<<"B", "RING_B", k, n, nextp>>})),
       ctlb |-> CTL(If(k >= lookP, {<<"ctlb", "GEMM", i, n, k-lookP>> : i \in Steps(p, descC.mt-1, P)}),
                    {})]))

zgemm_TN_summa_GEMM ==
  Class3("GEMM", 0 .. descC.mt-1, LAMBDA m: 0 .. descC.nt-1, LAMBDA m, n: 0 .. descA.mt-1,
    LAMBDA m, n, k:
      Task(C(m, n), <<k>>,
      [A |-> READ(A(k, m), {<<"A", "RING_A", k, m, (n % Q)>>}, {}),
       B |-> READ(B(k, n), {<<"B", "RING_B", k, n, (m % P)>>}, {}),
       C |-> RW(C(m, n), If(k = 0, {Mem(C(m, n))}) \cup If(k # 0, {<<"C", "GEMM", m, n, k-1>>}),
                If(k = descA.mt-1, {Mem(C(m, n))})
                  \cup If(k # descA.mt-1, {<<"C", "GEMM", m, n, k+1>>})),
       ctla |-> CTL({}, If(k < descA.mt-lookQ, {<<"ctla", "RING_A", k+lookQ, m, (n % Q)>>})),
       ctlb |-> CTL({}, If(k < descA.mt-lookP, {<<"ctlb", "RING_B", k+lookP, n, (m % P)>>}))]))

zgemm_TN_summa ==
  zgemm_TN_summa_READ_A @@ zgemm_TN_summa_RING_A @@ zgemm_TN_summa_READ_B @@
  zgemm_TN_summa_RING_B @@ zgemm_TN_summa_GEMM

-----------------------------------------------------------------------------
zgemm_TT_summa_READ_A ==
  Class2("READ_A", 0 .. descA.mt-1, LAMBDA k: 0 .. descA.nt-1,
    LAMBDA k, m:
      Forward(A(k, m),
      [A |-> PASS(A(k, m), {Mem(A(k, m))}, {<<"A", "RING_A", k, m, (k % Q)>>})]))

zgemm_TT_summa_RING_A ==
  Class3("RING_A", 0 .. descA.mt-1, LAMBDA k: 0 .. descA.nt-1, LAMBDA k, m: 0 .. Q-1,
    LAMBDA k, m, q:
      LET prevq == ((q-1+Q) % Q)
          nextq == ((q+1) % Q)
      IN
      Forward(Cdist(m, q),
      [A |-> PASS(A(k, m),
                  IF (k % Q) = q THEN {<<"A", "READ_A", k, m>>}
                  ELSE {<<"A", "RING_A", k, m, prevq>>},
                  {<<"A", "GEMM", m, i, k>> : i \in Steps(q, descC.nt-1, Q)}
                    \cup If(nextq # (k % Q), {<<"A", "RING_A", k, m, nextq>>})),
       ctla |-> CTL(If(k >= lookQ, {<<"ctla", "GEMM", m, i, k-lookQ>> : i \in Steps(q, descC.nt-1, Q)}),
                    {})]))

zgemm_TT_summa_READ_B ==
  Class2("READ_B", 0 .. descB.mt-1, LAMBDA n: 0 .. descB.nt-1,
    LAMBDA n, k:
      Forward(B(n, k),
      [B |-> PASS(B(n, k), {Mem(B(n, k))}, {<<"B", "RING_B", n, k, (k % P)>>})]))

zgemm_TT_summa_RING_B ==
  Class3("RING_B", 0 .. descB.mt-1, LAMBDA n: 0 .. descB.nt-1, LAMBDA n, k: 0 .. P-1,
    LAMBDA n, k, p:
      LET prevp == ((p-1+P) % P)
          nextp == ((p+1) % P)
      IN
      Forward(Cdist(p, n),
      [B |-> PASS(B(n, k),
                  IF (k % P) = p THEN {<<"B", "READ_B", n, k>>}
                  ELSE {<<"B", "RING_B", n, k, prevp>>},
                  {<<"B", "GEMM", i, n, k>> : i \in Steps(p, descC.mt-1, P)}
                    \cup If(nextp # (k % P), {<<"B", "RING_B", n, k, nextp>>})),
       ctlb |-> CTL(If(k >= lookP, {<<"ctlb", "GEMM", i, n, k-lookP>> : i \in Steps(p, descC.mt-1, P)}),
                    {})]))

zgemm_TT_summa_GEMM ==
  Class3("GEMM", 0 .. descC.mt-1, LAMBDA m: 0 .. descC.nt-1, LAMBDA m, n: 0 .. descA.mt-1,
    LAMBDA m, n, k:
      Task(C(m, n), <<k>>,
      [A |-> READ(A(k, m), {<<"A", "RING_A", k, m, (n % Q)>>}, {}),
       B |-> READ(B(n, k), {<<"B", "RING_B", n, k, (m % P)>>}, {}),
       C |-> RW(C(m, n), If(k = 0, {Mem(C(m, n))}) \cup If(k # 0, {<<"C", "GEMM", m, n, k-1>>}),
                If(k = descA.mt-1, {Mem(C(m, n))})
                  \cup If(k # descA.mt-1, {<<"C", "GEMM", m, n, k+1>>})),
       ctla |-> CTL({}, If(k < descA.mt-lookQ, {<<"ctla", "RING_A", k+lookQ, m, (n % Q)>>})),
       ctlb |-> CTL({}, If(k < descA.mt-lookP, {<<"ctlb", "RING_B", n, k+lookP, (m % P)>>}))]))

zgemm_TT_summa ==
  zgemm_TT_summa_READ_A @@ zgemm_TT_summa_RING_A @@ zgemm_TT_summa_READ_B @@
  zgemm_TT_summa_RING_B @@ zgemm_TT_summa_GEMM

-----------------------------------------------------------------------------
\* dplasma_zgemm_default_new: the graph for the documented arguments.
zgemm_default_new(transA, transB) ==
  IF transA = "NoTrans" THEN IF transB = "NoTrans" THEN zgemm_NN ELSE zgemm_NT
  ELSE IF transB = "NoTrans" THEN zgemm_TN ELSE zgemm_TT

\* dplasma_zgemm_summa_new: the graph for the documented arguments.
zgemm_summa_new(transA, transB) ==
  IF transA = "NoTrans" THEN IF transB = "NoTrans" THEN zgemm_NN_summa ELSE zgemm_NT_summa
  ELSE IF transB = "NoTrans" THEN zgemm_TN_summa ELSE zgemm_TT_summa
==============================================================================
