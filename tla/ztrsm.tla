-------------------------------- MODULE ztrsm --------------------------------
(*****************************************************************************)
(* Triangular matrices: the solution of op(A) X = B or X op(A) = B, X over   *)
(* B (ztrsm_*.jdf, eight files), and the product B := op(A) B or B op(A),    *)
(* in place (ztrmm_*.jdf, eight files). The letters after the name are the   *)
(* variants of the file names: side (L, R), triangle of A (L, U),            *)
(* transposition of A (N, T or C).                                           *)
(*                                                                           *)
(* In the solution every tile of B is solved after the updates by all        *)
(* tiles before it. In the product a tile of B is overwritten by ztrmm       *)
(* while zgemm tasks of other rows (columns) still need the original: they   *)
(* get it from read_B, which reads the tile of the collection itself, and    *)
(* the flow ctl0 holds the ztrmm of a tile back until they are done.         *)
(*****************************************************************************)
EXTENDS Dataflow

CONSTANTS descA, descB

A(m, n) == Whole("A", m, n)
B(m, n) == Whole("B", m, n)

-----------------------------------------------------------------------------
ztrsm_LLN_ztrsm ==
  Class2("ztrsm", 0 .. descB.mt-1, LAMBDA k: 0 .. descB.nt-1,
    LAMBDA k, n:
      Task(B(k, n), <<k, 0>>,
      [A |-> READ(A(k, k), {<<"A", "ztrsm_in_A0", k>>}, {}),
       B |-> RW(B(k, n),
                If(k >= 1, {<<"E", "zgemm", k-1, k, n>>}) \cup If(0 = k, {Mem(B(k, n))}),
                {Mem(B(k, n))}
                  \cup If(descB.mt >= k+2, {<<"D", "zgemm", k, i, n>> : i \in k+1 .. descB.mt-1}))]))

ztrsm_LLN_ztrsm_in_A0 ==
  Class1("ztrsm_in_A0", 0 .. descB.mt-1,
    LAMBDA k:
      Forward(A(k, k),
      [A |-> PASS(A(k, k), {Mem(A(k, k))}, {<<"A", "ztrsm", k, i>> : i \in 0 .. descB.nt-1})]))

ztrsm_LLN_zgemm ==
  Class3("zgemm", 0 .. descB.mt-2, LAMBDA k: k+1 .. descB.mt-1, LAMBDA k, m: 0 .. descB.nt-1,
    LAMBDA k, m, n:
      Task(B(m, n), <<k, 1>>,
      [C |-> READ(A(m, k), {<<"C", "zgemm_in_A0", k, m>>}, {}),
       D |-> READ(B(k, n), {<<"B", "ztrsm", k, n>>}, {}),
       E |-> RW(B(m, n),
                If(k >= 1, {<<"E", "zgemm", k-1, m, n>>}) \cup If(0 = k, {Mem(B(m, n))}),
                If(m >= k+2, {<<"E", "zgemm", k+1, m, n>>})
                  \cup If(k+1 = m, {<<"B", "ztrsm", m, n>>}))]))

ztrsm_LLN_zgemm_in_A0 ==
  Class2("zgemm_in_A0", 0 .. descB.mt-2, LAMBDA k: k+1 .. descB.mt-1,
    LAMBDA k, m:
      Forward(A(m, k),
      [C |-> PASS(A(m, k), {Mem(A(m, k))}, {<<"C", "zgemm", k, m, i>> : i \in 0 .. descB.nt-1})]))

ztrsm_LLN ==
  ztrsm_LLN_ztrsm @@ ztrsm_LLN_ztrsm_in_A0 @@ ztrsm_LLN_zgemm @@ ztrsm_LLN_zgemm_in_A0

-----------------------------------------------------------------------------
ztrsm_LLT_ztrsm ==
  Class2("ztrsm", 0 .. descB.mt-1, LAMBDA k: 0 .. descB.nt-1,
    LAMBDA k, n:
      Task(B(descB.mt-1-k, n), <<k, 0>>,
      [A |-> READ(A(descB.mt-1-k, descB.mt-1-k), {<<"A", "ztrsm_in_A0", k>>}, {}),
       B |-> RW(B(descB.mt-1-k, n),
                If(0 = k, {Mem(B(descB.mt-1-k, n))})
                  \cup If(k >= 1, {<<"E", "zgemm", k-1, k, n>>}),
                {Mem(B(descB.mt-1-k, n))}
                  \cup If(descB.mt >= 2+k, {<<"D", "zgemm", k, i, n>> : i \in k+1 .. descB.mt-1}))]))

ztrsm_LLT_ztrsm_in_A0 ==
  Class1("ztrsm_in_A0", 0 .. descB.mt-1,
    LAMBDA k:
      Forward(A(descB.mt-1-k, descB.mt-1-k),
      [A |-> PASS(A(descB.mt-1-k, descB.mt-1-k), {Mem(A(descB.mt-1-k, descB.mt-1-k))},
                  {<<"A", "ztrsm", k, i>> : i \in 0 .. descB.nt-1})]))

ztrsm_LLT_zgemm ==
  Class3("zgemm", 0 .. descB.mt-2, LAMBDA k: k+1 .. descB.mt-1, LAMBDA k, m: 0 .. descB.nt-1,
    LAMBDA k, m, n:
      Task(B(descB.mt-1-m, n), <<k, 1>>,
      [C |-> READ(A(descB.mt-1-k, descB.mt-1-m), {<<"C", "zgemm_in_A0", k, m>>}, {}),
       D |-> READ(B(descB.mt-1-k, n), {<<"B", "ztrsm", k, n>>}, {}),
       E |-> RW(B(descB.mt-1-m, n),
                If(k >= 1, {<<"E", "zgemm", k-1, m, n>>})
                  \cup If(0 = k, {Mem(B(descB.mt-1-m, n))}),
                If(1+k = m, {<<"B", "ztrsm", m, n>>})
                  \cup If(m >= k+2, {<<"E", "zgemm", k+1, m, n>>}))]))

ztrsm_LLT_zgemm_in_A0 ==
  Class2("zgemm_in_A0", 0 .. descB.mt-2, LAMBDA k: k+1 .. descB.mt-1,
    LAMBDA k, m:
      Forward(A(descB.mt-1-k, descB.mt-1-m),
      [C |-> PASS(A(descB.mt-1-k, descB.mt-1-m), {Mem(A(descB.mt-1-k, descB.mt-1-m))},
                  {<<"C", "zgemm", k, m, i>> : i \in 0 .. descB.nt-1})]))

ztrsm_LLT ==
  ztrsm_LLT_ztrsm @@ ztrsm_LLT_ztrsm_in_A0 @@ ztrsm_LLT_zgemm @@ ztrsm_LLT_zgemm_in_A0

-----------------------------------------------------------------------------
ztrsm_LUN_ztrsm ==
  Class2("ztrsm", 0 .. descB.mt-1, LAMBDA k: 0 .. descB.nt-1,
    LAMBDA k, n:
      Task(B(descB.mt-1-k, n), <<k, 0>>,
      [A |-> READ(A(descB.mt-1-k, descB.mt-1-k), {<<"A", "ztrsm_in_A0", k>>}, {}),
       B |-> RW(B(descB.mt-1-k, n),
                If(0 = k, {Mem(B(descB.mt-1-k, n))})
                  \cup If(k >= 1, {<<"E", "zgemm", k-1, k, n>>}),
                {Mem(B(descB.mt-1-k, n))}
                  \cup If(descB.mt >= 2+k, {<<"D", "zgemm", k, i, n>> : i \in k+1 .. descB.mt-1}))]))

ztrsm_LUN_ztrsm_in_A0 ==
  Class1("ztrsm_in_A0", 0 .. descB.mt-1,
    LAMBDA k:
      Forward(A(descB.mt-1-k, descB.mt-1-k),
      [A |-> PASS(A(descB.mt-1-k, descB.mt-1-k), {Mem(A(descB.mt-1-k, descB.mt-1-k))},
                  {<<"A", "ztrsm", k, i>> : i \in 0 .. descB.nt-1})]))

ztrsm_LUN_zgemm ==
  Class3("zgemm", 0 .. descB.mt-2, LAMBDA k: k+1 .. descB.mt-1, LAMBDA k, m: 0 .. descB.nt-1,
    LAMBDA k, m, n:
      Task(B(descB.mt-1-m, n), <<k, 1>>,
      [C |-> READ(A(descB.mt-1-m, descB.mt-1-k), {<<"C", "zgemm_in_A0", k, m>>}, {}),
       D |-> READ(B(descB.mt-1-k, n), {<<"B", "ztrsm", k, n>>}, {}),
       E |-> RW(B(descB.mt-1-m, n),
                If(k >= 1, {<<"E", "zgemm", k-1, m, n>>})
                  \cup If(0 = k, {Mem(B(descB.mt-1-m, n))}),
                If(1+k = m, {<<"B", "ztrsm", m, n>>})
                  \cup If(m >= k+2, {<<"E", "zgemm", k+1, m, n>>}))]))

ztrsm_LUN_zgemm_in_A0 ==
  Class2("zgemm_in_A0", 0 .. descB.mt-2, LAMBDA k: k+1 .. descB.mt-1,
    LAMBDA k, m:
      Forward(A(descB.mt-1-m, descB.mt-1-k),
      [C |-> PASS(A(descB.mt-1-m, descB.mt-1-k), {Mem(A(descB.mt-1-m, descB.mt-1-k))},
                  {<<"C", "zgemm", k, m, i>> : i \in 0 .. descB.nt-1})]))

ztrsm_LUN ==
  ztrsm_LUN_ztrsm @@ ztrsm_LUN_ztrsm_in_A0 @@ ztrsm_LUN_zgemm @@ ztrsm_LUN_zgemm_in_A0

-----------------------------------------------------------------------------
ztrsm_LUT_ztrsm ==
  Class2("ztrsm", 0 .. descB.mt-1, LAMBDA k: 0 .. descB.nt-1,
    LAMBDA k, n:
      Task(B(k, n), <<k, 0>>,
      [A |-> READ(A(k, k), {<<"A", "ztrsm_in_A0", k>>}, {}),
       B |-> RW(B(k, n),
                If(k >= 1, {<<"E", "zgemm", k-1, k, n>>}) \cup If(0 = k, {Mem(B(k, n))}),
                {Mem(B(k, n))}
                  \cup If(descB.mt >= k+2, {<<"D", "zgemm", k, i, n>> : i \in k+1 .. descB.mt-1}))]))

ztrsm_LUT_ztrsm_in_A0 ==
  Class1("ztrsm_in_A0", 0 .. descB.mt-1,
    LAMBDA k:
      Forward(A(k, k),
      [A |-> PASS(A(k, k), {Mem(A(k, k))}, {<<"A", "ztrsm", k, i>> : i \in 0 .. descB.nt-1})]))

ztrsm_LUT_zgemm ==
  Class3("zgemm", 0 .. descB.mt-2, LAMBDA k: k+1 .. descB.mt-1, LAMBDA k, m: 0 .. descB.nt-1,
    LAMBDA k, m, n:
      Task(B(m, n), <<k, 1>>,
      [C |-> READ(A(k, m), {<<"C", "zgemm_in_A0", k, m>>}, {}),
       D |-> READ(B(k, n), {<<"B", "ztrsm", k, n>>}, {}),
       E |-> RW(B(m, n),
                If(k >= 1, {<<"E", "zgemm", k-1, m, n>>}) \cup If(0 = k, {Mem(B(m, n))}),
                If(m >= k+2, {<<"E", "zgemm", k+1, m, n>>})
                  \cup If(k+1 = m, {<<"B", "ztrsm", m, n>>}))]))

ztrsm_LUT_zgemm_in_A0 ==
  Class2("zgemm_in_A0", 0 .. descB.mt-2, LAMBDA k: k+1 .. descB.mt-1,
    LAMBDA k, m:
      Forward(A(k, m),
      [C |-> PASS(A(k, m), {Mem(A(k, m))}, {<<"C", "zgemm", k, m, i>> : i \in 0 .. descB.nt-1})]))

ztrsm_LUT ==
  ztrsm_LUT_ztrsm @@ ztrsm_LUT_ztrsm_in_A0 @@ ztrsm_LUT_zgemm @@ ztrsm_LUT_zgemm_in_A0

-----------------------------------------------------------------------------
ztrsm_RLN_ztrsm ==
  Class2("ztrsm", 0 .. descB.nt-1, LAMBDA k: 0 .. descB.mt-1,
    LAMBDA k, m:
      Task(B(m, descB.nt-1-k), <<k, 0>>,
      [A |-> READ(A(descB.nt-1-k, descB.nt-1-k), {<<"A", "ztrsm_in_A0", k>>}, {}),
       B |-> RW(B(m, descB.nt-1-k),
                If(0 = k, {Mem(B(m, descB.nt-1-k))})
                  \cup If(k >= 1, {<<"E", "zgemm", k-1, m, k>>}),
                If(descB.nt >= 2+k, {<<"C", "zgemm", k, m, i>> : i \in k+1 .. descB.nt-1})
                  \cup {Mem(B(m, descB.nt-1-k))})]))

ztrsm_RLN_ztrsm_in_A0 ==
  Class1("ztrsm_in_A0", 0 .. descB.nt-1,
    LAMBDA k:
      Forward(A(descB.nt-1-k, descB.nt-1-k),
      [A |-> PASS(A(descB.nt-1-k, descB.nt-1-k), {Mem(A(descB.nt-1-k, descB.nt-1-k))},
                  {<<"A", "ztrsm", k, i>> : i \in 0 .. descB.mt-1})]))

ztrsm_RLN_zgemm ==
  Class3("zgemm", 0 .. descB.nt-2, LAMBDA k: 0 .. descB.mt-1, LAMBDA k, m: k+1 .. descB.nt-1,
    LAMBDA k, m, n:
      Task(B(m, descB.nt-1-n), <<k, 1>>,
      [C |-> READ(B(m, descB.nt-1-k), {<<"B", "ztrsm", k, m>>}, {}),
       D |-> READ(A(descB.nt-1-k, descB.nt-1-n), {<<"D", "zgemm_in_A0", k, n>>}, {}),
       E |-> RW(B(m, descB.nt-1-n),
                If(k >= 1, {<<"E", "zgemm", k-1, m, n>>})
                  \cup If(0 = k, {Mem(B(m, descB.nt-1-n))}),
                If(n >= k+2, {<<"E", "zgemm", k+1, m, n>>})
                  \cup If(k+1 = n, {<<"B", "ztrsm", n, m>>}))]))

ztrsm_RLN_zgemm_in_A0 ==
  Class2("zgemm_in_A0", 0 .. descB.nt-2, LAMBDA k: k+1 .. descB.nt-1,
    LAMBDA k, n:
      Forward(A(descB.nt-1-k, descB.nt-1-n),
      [D |-> PASS(A(descB.nt-1-k, descB.nt-1-n), {Mem(A(descB.nt-1-k, descB.nt-1-n))},
                  {<<"D", "zgemm", k, i, n>> : i \in 0 .. descB.mt-1})]))

ztrsm_RLN ==
  ztrsm_RLN_ztrsm @@ ztrsm_RLN_ztrsm_in_A0 @@ ztrsm_RLN_zgemm @@ ztrsm_RLN_zgemm_in_A0

-----------------------------------------------------------------------------
ztrsm_RLT_ztrsm ==
  Class2("ztrsm", 0 .. descB.nt-1, LAMBDA k: 0 .. descB.mt-1,
    LAMBDA k, m:
      Task(B(m, k), <<k, 0>>,
      [A |-> READ(A(k, k), {<<"A", "ztrsm_in_A0", k>>}, {}),
       B |-> RW(B(m, k),
                If(0 = k, {Mem(B(m, k))}) \cup If(k >= 1, {<<"E", "zgemm", k-1, m, k>>}),
                If(descB.nt >= k+2, {<<"C", "zgemm", k, m, i>> : i \in k+1 .. descB.nt-1})
                  \cup {Mem(B(m, k))})]))

ztrsm_RLT_ztrsm_in_A0 ==
  Class1("ztrsm_in_A0", 0 .. descB.nt-1,
    LAMBDA k:
      Forward(A(k, k),
      [A |-> PASS(A(k, k), {Mem(A(k, k))}, {<<"A", "ztrsm", k, i>> : i \in 0 .. descB.mt-1})]))

ztrsm_RLT_zgemm ==
  Class3("zgemm", 0 .. descB.nt-2, LAMBDA k: 0 .. descB.mt-1, LAMBDA k, m: k+1 .. descB.nt-1,
    LAMBDA k, m, n:
      Task(B(m, n), <<k, 1>>,
      [C |-> READ(B(m, k), {<<"B", "ztrsm", k, m>>}, {}),
       D |-> READ(A(n, k), {<<"D", "zgemm_in_A0", k, n>>}, {}),
       E |-> RW(B(m, n),
                If(0 = k, {Mem(B(m, n))}) \cup If(k >= 1, {<<"E", "zgemm", k-1, m, n>>}),
                If(1+k = n, {<<"B", "ztrsm", n, m>>})
                  \cup If(n >= 2+k, {<<"E", "zgemm", k+1, m, n>>}))]))

ztrsm_RLT_zgemm_in_A0 ==
  Class2("zgemm_in_A0", 0 .. descB.nt-2, LAMBDA k: k+1 .. descB.nt-1,
    LAMBDA k, n:
      Forward(A(n, k),
      [D |-> PASS(A(n, k), {Mem(A(n, k))}, {<<"D", "zgemm", k, i, n>> : i \in 0 .. descB.mt-1})]))

ztrsm_RLT ==
  ztrsm_RLT_ztrsm @@ ztrsm_RLT_ztrsm_in_A0 @@ ztrsm_RLT_zgemm @@ ztrsm_RLT_zgemm_in_A0

-----------------------------------------------------------------------------
ztrsm_RUN_ztrsm ==
  Class2("ztrsm", 0 .. descB.nt-1, LAMBDA k: 0 .. descB.mt-1,
    LAMBDA k, m:
      Task(B(m, k), <<k, 0>>,
      [A |-> READ(A(k, k), {<<"A", "ztrsm_in_A0", k>>}, {}),
       B |-> RW(B(m, k),
                If(0 = k, {Mem(B(m, k))}) \cup If(k >= 1, {<<"E", "zgemm", k-1, m, k>>}),
                If(descB.nt >= k+2, {<<"C", "zgemm", k, m, i>> : i \in k+1 .. descB.nt-1})
                  \cup {Mem(B(m, k))})]))

ztrsm_RUN_ztrsm_in_A0 ==
  Class1("ztrsm_in_A0", 0 .. descB.nt-1,
    LAMBDA k:
      Forward(A(k, k),
      [A |-> PASS(A(k, k), {Mem(A(k, k))}, {<<"A", "ztrsm", k, i>> : i \in 0 .. descB.mt-1})]))

ztrsm_RUN_zgemm ==
  Class3("zgemm", 0 .. descB.nt-2, LAMBDA k: 0 .. descB.mt-1, LAMBDA k, m: k+1 .. descB.nt-1,
    LAMBDA k, m, n:
      Task(B(m, n), <<k, 1>>,
      [C |-> READ(B(m, k), {<<"B", "ztrsm", k, m>>}, {}),
       D |-> READ(A(k, n), {<<"D", "zgemm_in_A0", k, n>>}, {}),
       E |-> RW(B(m, n),
                If(0 = k, {Mem(B(m, n))}) \cup If(k >= 1, {<<"E", "zgemm", k-1, m, n>>}),
                If(1+k = n, {<<"B", "ztrsm", n, m>>})
                  \cup If(n >= 2+k, {<<"E", "zgemm", k+1, m, n>>}))]))

ztrsm_RUN_zgemm_in_A0 ==
  Class2("zgemm_in_A0", 0 .. descB.nt-2, LAMBDA k: k+1 .. descB.nt-1,
    LAMBDA k, n:
      Forward(A(k, n),
      [D |-> PASS(A(k, n), {Mem(A(k, n))}, {<<"D", "zgemm", k, i, n>> : i \in 0 .. descB.mt-1})]))

ztrsm_RUN ==
  ztrsm_RUN_ztrsm @@ ztrsm_RUN_ztrsm_in_A0 @@ ztrsm_RUN_zgemm @@ ztrsm_RUN_zgemm_in_A0

-----------------------------------------------------------------------------
ztrsm_RUT_ztrsm ==
  Class2("ztrsm", 0 .. descB.nt-1, LAMBDA k: 0 .. descB.mt-1,
    LAMBDA k, m:
      Task(B(m, descB.nt-1-k), <<k, 0>>,
      [A |-> READ(A(descB.nt-1-k, descB.nt-1-k), {<<"A", "ztrsm_in_A0", k>>}, {}),
       B |-> RW(B(m, descB.nt-1-k),
                If(0 = k, {Mem(B(m, descB.nt-1-k))})
                  \cup If(k >= 1, {<<"E", "zgemm", k-1, m, k>>}),
                If(descB.nt >= 2+k, {<<"C", "zgemm", k, m, i>> : i \in k+1 .. descB.nt-1})
                  \cup {Mem(B(m, descB.nt-1-k))})]))

ztrsm_RUT_ztrsm_in_A0 ==
  Class1("ztrsm_in_A0", 0 .. descB.nt-1,
    LAMBDA k:
      Forward(A(descB.nt-1-k, descB.nt-1-k),
      [A |-> PASS(A(descB.nt-1-k, descB.nt-1-k), {Mem(A(descB.nt-1-k, descB.nt-1-k))},
                  {<<"A", "ztrsm", k, i>> : i \in 0 .. descB.mt-1})]))

ztrsm_RUT_zgemm ==
  Class3("zgemm", 0 .. descB.nt-2, LAMBDA k: 0 .. descB.mt-1, LAMBDA k, m: k+1 .. descB.nt-1,
    LAMBDA k, m, n:
      Task(B(m, descB.nt-1-n), <<k, 1>>,
      [C |-> READ(B(m, descB.nt-1-k), {<<"B", "ztrsm", k, m>>}, {}),
       D |-> READ(A(descB.nt-1-n, descB.nt-1-k), {<<"D", "zgemm_in_A0", k, n>>}, {}),
       E |-> RW(B(m, descB.nt-1-n),
                If(k >= 1, {<<"E", "zgemm", k-1, m, n>>})
                  \cup If(0 = k, {Mem(B(m, descB.nt-1-n))}),
                If(n >= k+2, {<<"E", "zgemm", k+1, m, n>>})
                  \cup If(k+1 = n, {<<"B", "ztrsm", n, m>>}))]))

ztrsm_RUT_zgemm_in_A0 ==
  Class2("zgemm_in_A0", 0 .. descB.nt-2, LAMBDA k: k+1 .. descB.nt-1,
    LAMBDA k, n:
      Forward(A(descB.nt-1-n, descB.nt-1-k),
      [D |-> PASS(A(descB.nt-1-n, descB.nt-1-k), {Mem(A(descB.nt-1-n, descB.nt-1-k))},
                  {<<"D", "zgemm", k, i, n>> : i \in 0 .. descB.mt-1})]))

ztrsm_RUT ==
  ztrsm_RUT_ztrsm @@ ztrsm_RUT_ztrsm_in_A0 @@ ztrsm_RUT_zgemm @@ ztrsm_RUT_zgemm_in_A0

-----------------------------------------------------------------------------
ztrmm_LLN_read_A ==
  Class2("read_A", 0 .. descB.mt-1, LAMBDA m: 0 .. descB.mt-m-1,
    LAMBDA m, k:
      Forward(A(descB.mt-1-m, k),
      [A |-> PASS(A(descB.mt-1-m, k), {Mem(A(descB.mt-1-m, k))},
                  If(k = descB.mt-1-m, {<<"A", "ztrmm", m, i>> : i \in 0 .. descB.nt-1})
                    \cup If(k # descB.mt-1-m, {<<"A", "zgemm", m, i, k>> : i \in 0 .. descB.nt-1}))]))

ztrmm_LLN_read_B ==
  Class2("read_B", 0 .. descB.nt-1, LAMBDA n: 0 .. descB.mt-2,
    LAMBDA n, k:
      Forward(B(k, n),
      [B |-> PASS(B(k, n), {Mem(B(k, n))},
                  {<<"B", "zgemm", i, n, k>> : i \in 0 .. descB.mt-k-2})]))

\* Mutant of ztrmm_LLN_ztrmm. Does not wait for the readers of the original.
ztrmm_LLN_ztrmm_Early ==
  Class2("ztrmm", 0 .. descB.mt-1, LAMBDA m: 0 .. descB.nt-1,
    LAMBDA m, n:
      Task(B(descB.mt-1-m, n), <<m, 0>>,
      [ctl0 |-> CTL({}, {}),
       A |-> READ(A(descB.mt-1-m, descB.mt-1-m), {<<"A", "read_A", m, descB.mt-1-m>>}, {}),
       B |-> RW(B(descB.mt-1-m, n), {Mem(B(descB.mt-1-m, n))},
                If(m < descB.mt-1, {<<"C", "zgemm", m, n, 0>>})
                  \cup If(m = descB.mt-1, {Mem(B(descB.mt-1-m, n))}))]))

ztrmm_LLN_ztrmm ==
  Class2("ztrmm", 0 .. descB.mt-1, LAMBDA m: 0 .. descB.nt-1,
    LAMBDA m, n:
      Task(B(descB.mt-1-m, n), <<m, 0>>,
      [ctl0 |-> CTL({<<"ctl0", "zgemm", i, n, descB.mt-m-1>> : i \in 0 .. m-1}, {}),
       A |-> READ(A(descB.mt-1-m, descB.mt-1-m), {<<"A", "read_A", m, descB.mt-1-m>>}, {}),
       B |-> RW(B(descB.mt-1-m, n), {Mem(B(descB.mt-1-m, n))},
                If(m < descB.mt-1, {<<"C", "zgemm", m, n, 0>>})
                  \cup If(m = descB.mt-1, {Mem(B(descB.mt-1-m, n))}))]))

ztrmm_LLN_zgemm ==
  Class3("zgemm", 0 .. descB.mt-2, LAMBDA m: 0 .. descB.nt-1, LAMBDA m, n: 0 .. descB.mt-m-2,
    LAMBDA m, n, k:
      Task(B(descB.mt-1-m, n), <<m, 1, k>>,
      [ctl0 |-> CTL({}, {<<"ctl0", "ztrmm", descB.mt-k-1, n>>}),
       A |-> READ(A(descB.mt-1-m, k), {<<"A", "read_A", m, k>>}, {}),
       B |-> READ(B(k, n), {<<"B", "read_B", n, k>>}, {}),
       C |-> RW(B(descB.mt-1-m, n),
                If(k = 0, {<<"B", "ztrmm", m, n>>})
                  \cup If(k > 0, {<<"C", "zgemm", m, n, k-1>>}),
                If(k+m = descB.mt-2, {Mem(B(descB.mt-1-m, n))})
                  \cup If(k+m < descB.mt-2, {<<"C", "zgemm", m, n, k+1>>}))]))

ztrmm_LLN ==
  ztrmm_LLN_read_A @@ ztrmm_LLN_read_B @@ ztrmm_LLN_ztrmm @@ ztrmm_LLN_zgemm

-----------------------------------------------------------------------------
ztrmm_LLT_read_A ==
  Class2("read_A", 0 .. descB.mt-1, LAMBDA m: m .. descA.mt-1,
    LAMBDA m, k:
      Forward(A(k, m),
      [A |-> PASS(A(k, m), {Mem(A(k, m))},
                  If(m = k, {<<"A", "ztrmm", m, i>> : i \in 0 .. descB.nt-1})
                    \cup If(m # k, {<<"A", "zgemm", m, i, k>> : i \in 0 .. descB.nt-1}))]))

ztrmm_LLT_read_B ==
  Class2("read_B", 0 .. descB.nt-1, LAMBDA n: 1 .. descB.mt-1,
    LAMBDA n, k:
      Forward(B(k, n),
      [B |-> PASS(B(k, n), {Mem(B(k, n))}, {<<"B", "zgemm", i, n, k>> : i \in 0 .. k-1})]))

ztrmm_LLT_ztrmm ==
  Class2("ztrmm", 0 .. descB.mt-1, LAMBDA m: 0 .. descB.nt-1,
    LAMBDA m, n:
      Task(B(m, n), <<m, 0>>,
      [ctl0 |-> CTL({<<"ctl0", "zgemm", i, n, m>> : i \in 0 .. m-1}, {}),
       A |-> READ(A(m, m), {<<"A", "read_A", m, m>>}, {}),
       B |-> RW(B(m, n), {Mem(B(m, n))},
                If(m = descB.mt-1, {Mem(B(m, n))})
                  \cup If(m < descB.mt-1, {<<"C", "zgemm", m, n, m+1>>}))]))

ztrmm_LLT_zgemm ==
  Class3("zgemm", 0 .. descB.mt-2, LAMBDA m: 0 .. descB.nt-1, LAMBDA m, n: m+1 .. descB.mt-1,
    LAMBDA m, n, k:
      Task(B(m, n), <<m, 1, k>>,
      [ctl0 |-> CTL({}, {<<"ctl0", "ztrmm", k, n>>}),
       A |-> READ(A(k, m), {<<"A", "read_A", m, k>>}, {}),
       B |-> READ(B(k, n), {<<"B", "read_B", n, k>>}, {}),
       C |-> RW(B(m, n),
                If(k > m+1, {<<"C", "zgemm", m, n, k-1>>})
                  \cup If(k = m+1, {<<"B", "ztrmm", k-1, n>>}),
                If(k = descB.mt-1, {Mem(B(m, n))})
                  \cup If(k < descB.mt-1, {<<"C", "zgemm", m, n, k+1>>}))]))

ztrmm_LLT ==
  ztrmm_LLT_read_A @@ ztrmm_LLT_read_B @@ ztrmm_LLT_ztrmm @@ ztrmm_LLT_zgemm

-----------------------------------------------------------------------------
ztrmm_LUN_read_A ==
  Class2("read_A", 0 .. descB.mt-1, LAMBDA m: m .. descA.mt-1,
    LAMBDA m, k:
      Forward(A(m, k),
      [A |-> PASS(A(m, k), {Mem(A(m, k))},
                  If(m = k, {<<"A", "ztrmm", m, i>> : i \in 0 .. descB.nt-1})
                    \cup If(m # k, {<<"A", "zgemm", m, i, k>> : i \in 0 .. descB.nt-1}))]))

ztrmm_LUN_read_B ==
  Class2("read_B", 0 .. descB.nt-1, LAMBDA n: 1 .. descB.mt-1,
    LAMBDA n, k:
      Forward(B(k, n),
      [B |-> PASS(B(k, n), {Mem(B(k, n))}, {<<"B", "zgemm", i, n, k>> : i \in 0 .. k-1})]))

ztrmm_LUN_ztrmm ==
  Class2("ztrmm", 0 .. descB.mt-1, LAMBDA m: 0 .. descB.nt-1,
    LAMBDA m, n:
      Task(B(m, n), <<m, 0>>,
      [ctl0 |-> CTL({<<"ctl0", "zgemm", i, n, m>> : i \in 0 .. m-1}, {}),
       A |-> READ(A(m, m), {<<"A", "read_A", m, m>>}, {}),
       B |-> RW(B(m, n), {Mem(B(m, n))},
                If(m = descB.mt-1, {Mem(B(m, n))})
                  \cup If(m < descB.mt-1, {<<"C", "zgemm", m, n, m+1>>}))]))

ztrmm_LUN_zgemm ==
  Class3("zgemm", 0 .. descB.mt-2, LAMBDA m: 0 .. descB.nt-1, LAMBDA m, n: m+1 .. descB.mt-1,
    LAMBDA m, n, k:
      Task(B(m, n), <<m, 1, k>>,
      [ctl0 |-> CTL({}, {<<"ctl0", "ztrmm", k, n>>}),
       A |-> READ(A(m, k), {<<"A", "read_A", m, k>>}, {}),
       B |-> READ(B(k, n), {<<"B", "read_B", n, k>>}, {}),
       C |-> RW(B(m, n),
                If(k > m+1, {<<"C", "zgemm", m, n, k-1>>})
                  \cup If(k = m+1, {<<"B", "ztrmm", k-1, n>>}),
                If(k = descB.mt-1, {Mem(B(m, n))})
                  \cup If(k < descB.mt-1, {<<"C", "zgemm", m, n, k+1>>}))]))

ztrmm_LUN ==
  ztrmm_LUN_read_A @@ ztrmm_LUN_read_B @@ ztrmm_LUN_ztrmm @@ ztrmm_LUN_zgemm

-----------------------------------------------------------------------------
ztrmm_LUT_read_A ==
  Class2("read_A", 0 .. descB.mt-1, LAMBDA m: 0 .. descB.mt-m-1,
    LAMBDA m, k:
      Forward(A(k, descB.mt-1-m),
      [A |-> PASS(A(k, descB.mt-1-m), {Mem(A(k, descB.mt-1-m))},
                  If(k = descB.mt-1-m, {<<"A", "ztrmm", m, i>> : i \in 0 .. descB.nt-1})
                    \cup If(k # descB.mt-1-m, {<<"A", "zgemm", m, i, k>> : i \in 0 .. descB.nt-1}))]))

ztrmm_LUT_read_B ==
  Class2("read_B", 0 .. descB.nt-1, LAMBDA n: 0 .. descB.mt-2,
    LAMBDA n, k:
      Forward(B(k, n),
      [B |-> PASS(B(k, n), {Mem(B(k, n))},
                  {<<"B", "zgemm", i, n, k>> : i \in 0 .. descB.mt-k-2})]))

ztrmm_LUT_ztrmm ==
  Class2("ztrmm", 0 .. descB.mt-1, LAMBDA m: 0 .. descB.nt-1,
    LAMBDA m, n:
      Task(B(descB.mt-1-m, n), <<m, 0>>,
      [ctl0 |-> CTL({<<"ctl0", "zgemm", i, n, descB.mt-m-1>> : i \in 0 .. m-1}, {}),
       A |-> READ(A(descB.mt-1-m, descB.mt-1-m), {<<"A", "read_A", m, descB.mt-1-m>>}, {}),
       B |-> RW(B(descB.mt-1-m, n), {Mem(B(descB.mt-1-m, n))},
                If(m < descB.mt-1, {<<"C", "zgemm", m, n, 0>>})
                  \cup If(m = descB.mt-1, {Mem(B(descB.mt-1-m, n))}))]))

ztrmm_LUT_zgemm ==
  Class3("zgemm", 0 .. descB.mt-2, LAMBDA m: 0 .. descB.nt-1, LAMBDA m, n: 0 .. descB.mt-m-2,
    LAMBDA m, n, k:
      Task(B(descB.mt-1-m, n), <<m, 1, k>>,
      [ctl0 |-> CTL({}, {<<"ctl0", "ztrmm", descB.mt-k-1, n>>}),
       A |-> READ(A(k, descB.mt-1-m), {<<"A", "read_A", m, k>>}, {}),
       B |-> READ(B(k, n), {<<"B", "read_B", n, k>>}, {}),
       C |-> RW(B(descB.mt-1-m, n),
                If(k = 0, {<<"B", "ztrmm", m, n>>})
                  \cup If(k > 0, {<<"C", "zgemm", m, n, k-1>>}),
                If(k+m = descB.mt-2, {Mem(B(descB.mt-1-m, n))})
                  \cup If(k+m < descB.mt-2, {<<"C", "zgemm", m, n, k+1>>}))]))

ztrmm_LUT ==
  ztrmm_LUT_read_A @@ ztrmm_LUT_read_B @@ ztrmm_LUT_ztrmm @@ ztrmm_LUT_zgemm

-----------------------------------------------------------------------------
ztrmm_RLN_read_A ==
  Class2("read_A", 0 .. descB.nt-1, LAMBDA n: n .. descB.nt-1,
    LAMBDA n, k:
      Forward(A(k, n),
      [A |-> PASS(A(k, n), {Mem(A(k, n))},
                  If(n = k, {<<"A", "ztrmm", n, i>> : i \in 0 .. descB.mt-1})
                    \cup If(n # k, {<<"B", "zgemm", n, i, k>> : i \in 0 .. descB.mt-1}))]))

ztrmm_RLN_read_B ==
  Class2("read_B", 0 .. descB.mt-1, LAMBDA m: 1 .. descB.nt-1,
    LAMBDA m, k:
      Forward(B(m, k),
      [B |-> PASS(B(m, k), {Mem(B(m, k))}, {<<"A", "zgemm", i, m, k>> : i \in 0 .. k-1})]))

ztrmm_RLN_ztrmm ==
  Class2("ztrmm", 0 .. descB.nt-1, LAMBDA n: 0 .. descB.mt-1,
    LAMBDA n, m:
      Task(B(m, n), <<n, 0>>,
      [ctl0 |-> CTL({<<"ctl0", "zgemm", i, m, n>> : i \in 0 .. n-1}, {}),
       A |-> READ(A(n, n), {<<"A", "read_A", n, n>>}, {}),
       B |-> RW(B(m, n), {Mem(B(m, n))},
                If(n < descB.nt-1, {<<"C", "zgemm", n, m, n+1>>})
                  \cup If(n = descB.nt-1, {Mem(B(m, n))}))]))

ztrmm_RLN_zgemm ==
  Class3("zgemm", 0 .. descB.nt-2, LAMBDA n: 0 .. descB.mt-1, LAMBDA n, m: n+1 .. descB.nt-1,
    LAMBDA n, m, k:
      Task(B(m, n), <<n, 1, k>>,
      [ctl0 |-> CTL({}, {<<"ctl0", "ztrmm", k, m>>}),
       A |-> READ(B(m, k), {<<"B", "read_B", m, k>>}, {}),
       B |-> READ(A(k, n), {<<"A", "read_A", n, k>>}, {}),
       C |-> RW(B(m, n),
                If(k >= n+2, {<<"C", "zgemm", n, m, k-1>>})
                  \cup If(k = n+1, {<<"B", "ztrmm", k-1, m>>}),
                If(k = descB.nt-1, {Mem(B(m, n))})
                  \cup If(k < descB.nt-1, {<<"C", "zgemm", n, m, k+1>>}))]))

ztrmm_RLN ==
  ztrmm_RLN_read_A @@ ztrmm_RLN_read_B @@ ztrmm_RLN_ztrmm @@ ztrmm_RLN_zgemm

-----------------------------------------------------------------------------
ztrmm_RLT_read_A ==
  Class2("read_A", 0 .. descB.nt-1, LAMBDA n: 0 .. descB.nt-n-1,
    LAMBDA n, k:
      Forward(A(descB.nt-1-n, k),
      [A |-> PASS(A(descB.nt-1-n, k), {Mem(A(descB.nt-1-n, k))},
                  If(k = descB.nt-1-n, {<<"A", "ztrmm", n, i>> : i \in 0 .. descB.mt-1})
                    \cup If(k # descB.nt-1-n, {<<"B", "zgemm", n, i, k>> : i \in 0 .. descB.mt-1}))]))

ztrmm_RLT_read_B ==
  Class2("read_B", 0 .. descB.mt-1, LAMBDA m: 0 .. descB.nt-2,
    LAMBDA m, k:
      Forward(B(m, k),
      [B |-> PASS(B(m, k), {Mem(B(m, k))},
                  {<<"A", "zgemm", i, m, k>> : i \in 0 .. descB.nt-k-2})]))

ztrmm_RLT_ztrmm ==
  Class2("ztrmm", 0 .. descB.nt-1, LAMBDA n: 0 .. descB.mt-1,
    LAMBDA n, m:
      Task(B(m, descB.nt-1-n), <<n, 0>>,
      [ctl0 |-> CTL({<<"ctl0", "zgemm", i, m, descB.nt-n-1>> : i \in 0 .. n-1}, {}),
       A |-> READ(A(descB.nt-1-n, descB.nt-1-n), {<<"A", "read_A", n, descB.nt-1-n>>}, {}),
       B |-> RW(B(m, descB.nt-1-n), {Mem(B(m, descB.nt-1-n))},
                If(n < descB.nt-1, {<<"C", "zgemm", n, m, 0>>})
                  \cup If(n = descB.nt-1, {Mem(B(m, descB.nt-1-n))}))]))

ztrmm_RLT_zgemm ==
  Class3("zgemm", 0 .. descB.nt-2, LAMBDA n: 0 .. descB.mt-1, LAMBDA n, m: 0 .. descB.nt-n-2,
    LAMBDA n, m, k:
      Task(B(m, descB.nt-1-n), <<n, 1, k>>,
      [ctl0 |-> CTL({}, {<<"ctl0", "ztrmm", descB.nt-k-1, m>>}),
       A |-> READ(B(m, k), {<<"B", "read_B", m, k>>}, {}),
       B |-> READ(A(descB.nt-1-n, k), {<<"A", "read_A", n, k>>}, {}),
       C |-> RW(B(m, descB.nt-1-n),
                If(k > 0, {<<"C", "zgemm", n, m, k-1>>})
                  \cup If(k = 0, {<<"B", "ztrmm", n, m>>}),
                If(n+k = descB.nt-2, {Mem(B(m, descB.nt-1-n))})
                  \cup If(n+k < descB.nt-2, {<<"C", "zgemm", n, m, k+1>>}))]))

ztrmm_RLT ==
  ztrmm_RLT_read_A @@ ztrmm_RLT_read_B @@ ztrmm_RLT_ztrmm @@ ztrmm_RLT_zgemm

-----------------------------------------------------------------------------
ztrmm_RUN_read_A ==
  Class2("read_A", 0 .. descB.nt-1, LAMBDA n: 0 .. descB.nt-n-1,
    LAMBDA n, k:
      Forward(A(k, descB.nt-1-n),
      [A |-> PASS(A(k, descB.nt-1-n), {Mem(A(k, descB.nt-1-n))},
                  If(k = descB.nt-1-n, {<<"A", "ztrmm", n, i>> : i \in 0 .. descB.mt-1})
                    \cup If(k # descB.nt-1-n, {<<"B", "zgemm", n, i, k>> : i \in 0 .. descB.mt-1}))]))

ztrmm_RUN_read_B ==
  Class2("read_B", 0 .. descB.mt-1, LAMBDA m: 0 .. descB.nt-2,
    LAMBDA m, k:
      Forward(B(m, k),
      [B |-> PASS(B(m, k), {Mem(B(m, k))},
                  {<<"A", "zgemm", i, m, k>> : i \in 0 .. descB.nt-k-2})]))

ztrmm_RUN_ztrmm ==
  Class2("ztrmm", 0 .. descB.nt-1, LAMBDA n: 0 .. descB.mt-1,
    LAMBDA n, m:
      Task(B(m, descB.nt-1-n), <<n, 0>>,
      [ctl0 |-> CTL({<<"ctl0", "zgemm", i, m, descB.nt-n-1>> : i \in 0 .. n-1}, {}),
       A |-> READ(A(descB.nt-1-n, descB.nt-1-n), {<<"A", "read_A", n, descB.nt-1-n>>}, {}),
       B |-> RW(B(m, descB.nt-1-n), {Mem(B(m, descB.nt-1-n))},
                If(n < descB.nt-1, {<<"C", "zgemm", n, m, 0>>})
                  \cup If(n = descB.nt-1, {Mem(B(m, descB.nt-1-n))}))]))

ztrmm_RUN_zgemm ==
  Class3("zgemm", 0 .. descB.nt-2, LAMBDA n: 0 .. descB.mt-1, LAMBDA n, m: 0 .. descB.nt-n-2,
    LAMBDA n, m, k:
      Task(B(m, descB.nt-1-n), <<n, 1, k>>,
      [ctl0 |-> CTL({}, {<<"ctl0", "ztrmm", descB.nt-k-1, m>>}),
       A |-> READ(B(m, k), {<<"B", "read_B", m, k>>}, {}),
       B |-> READ(A(k, descB.nt-1-n), {<<"A", "read_A", n, k>>}, {}),
       C |-> RW(B(m, descB.nt-1-n),
                If(k > 0, {<<"C", "zgemm", n, m, k-1>>})
                  \cup If(k = 0, {<<"B", "ztrmm", n, m>>}),
                If(n+k = descB.nt-2, {Mem(B(m, descB.nt-1-n))})
                  \cup If(n+k < descB.nt-2, {<<"C", "zgemm", n, m, k+1>>}))]))

ztrmm_RUN ==
  ztrmm_RUN_read_A @@ ztrmm_RUN_read_B @@ ztrmm_RUN_ztrmm @@ ztrmm_RUN_zgemm

-----------------------------------------------------------------------------
ztrmm_RUT_read_A ==
  Class2("read_A", 0 .. descB.nt-1, LAMBDA n: n .. descB.nt-1,
    LAMBDA n, k:
      Forward(A(n, k),
      [A |-> PASS(A(n, k), {Mem(A(n, k))},
                  If(n = k, {<<"A", "ztrmm", n, i>> : i \in 0 .. descB.mt-1})
                    \cup If(n # k, {<<"B", "zgemm", n, i, k>> : i \in 0 .. descB.mt-1}))]))

ztrmm_RUT_read_B ==
  Class2("read_B", 0 .. descB.mt-1, LAMBDA m: 1 .. descB.nt-1,
    LAMBDA m, k:
      Forward(B(m, k),
      [B |-> PASS(B(m, k), {Mem(B(m, k))}, {<<"A", "zgemm", i, m, k>> : i \in 0 .. k-1})]))

ztrmm_RUT_ztrmm ==
  Class2("ztrmm", 0 .. descB.nt-1, LAMBDA n: 0 .. descB.mt-1,
    LAMBDA n, m:
      Task(B(m, n), <<n, 0>>,
      [ctl0 |-> CTL({<<"ctl0", "zgemm", i, m, n>> : i \in 0 .. n-1}, {}),
       A |-> READ(A(n, n), {<<"A", "read_A", n, n>>}, {}),
       B |-> RW(B(m, n), {Mem(B(m, n))},
                If(n < descB.nt-1, {<<"C", "zgemm", n, m, n+1>>})
                  \cup If(n = descB.nt-1, {Mem(B(m, n))}))]))

ztrmm_RUT_zgemm ==
  Class3("zgemm", 0 .. descB.nt-2, LAMBDA n: 0 .. descB.mt-1, LAMBDA n, m: n+1 .. descB.nt-1,
    LAMBDA n, m, k:
      Task(B(m, n), <<n, 1, k>>,
      [ctl0 |-> CTL({}, {<<"ctl0", "ztrmm", k, m>>}),
       A |-> READ(B(m, k), {<<"B", "read_B", m, k>>}, {}),
       B |-> READ(A(n, k), {<<"A", "read_A", n, k>>}, {}),
       C |-> RW(B(m, n),
                If(k >= n+2, {<<"C", "zgemm", n, m, k-1>>})
                  \cup If(k = n+1, {<<"B", "ztrmm", k-1, m>>}),
                If(k = descB.nt-1, {Mem(B(m, n))})
                  \cup If(k < descB.nt-1, {<<"C", "zgemm", n, m, k+1>>}))]))

ztrmm_RUT ==
  ztrmm_RUT_read_A @@ ztrmm_RUT_read_B @@ ztrmm_RUT_ztrmm @@ ztrmm_RUT_zgemm

-----------------------------------------------------------------------------
\* dplasma_ztrsm_New: the graph for the documented arguments.
ztrsm_New(side, uplo, trans) ==
  LET plain == trans = "NoTrans"
  IN  CASE side = "Left"  /\ uplo = "Lower" -> IF plain THEN ztrsm_LLN ELSE ztrsm_LLT
        [] side = "Left"  /\ uplo # "Lower" -> IF plain THEN ztrsm_LUN ELSE ztrsm_LUT
        [] side # "Left"  /\ uplo = "Lower" -> IF plain THEN ztrsm_RLN ELSE ztrsm_RLT
        [] OTHER                             -> IF plain THEN ztrsm_RUN ELSE ztrsm_RUT

\* dplasma_ztrmm_New: the graph for the documented arguments.
ztrmm_New(side, uplo, trans) ==
  LET plain == trans = "NoTrans"
  IN  CASE side = "Left"  /\ uplo = "Lower" -> IF plain THEN ztrmm_LLN ELSE ztrmm_LLT
        [] side = "Left"  /\ uplo # "Lower" -> IF plain THEN ztrmm_LUN ELSE ztrmm_LUT
        [] side # "Left"  /\ uplo = "Lower" -> IF plain THEN ztrmm_RLN ELSE ztrmm_RLT
        [] OTHER                             -> IF plain THEN ztrmm_RUN ELSE ztrmm_RUT
==============================================================================
