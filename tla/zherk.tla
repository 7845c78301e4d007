-------------------------------- MODULE zherk --------------------------------
(*****************************************************************************)
(* Symmetric and Hermitian matrices, of which one triangle is stored: the    *)
(* updates of rank k and 2k (zherk_*.jdf, zsyrk_*.jdf, zher2k_*.jdf,         *)
(* zsyr2k_*.jdf, sixteen files; the letters after the name: the triangle     *)
(* L, U, transposition N, T or C), and the product with a general matrix     *)
(* (zsymm.jdf, zhemm.jdf, which take the side and the triangle as            *)
(* parameters).                                                              *)
(*****************************************************************************)
EXTENDS Dataflow

CONSTANTS descA, descB, descC

A(m, n) == Whole("A", m, n)
C(m, n) == Whole("C", m, n)
B(m, n) == Whole("B", m, n)

\* The tile of A, of which only the uplo triangle is stored, that holds block (i, j).
Stored(uplo, i, j) == IF (uplo = "Lower") = (i >= j) THEN A(i, j) ELSE A(j, i)

\* The parameter c of zsymm.jdf and zhemm.jdf: the four forms of the product.
Form(side, uplo) ==
  IF side = "Left" THEN (IF uplo = "Lower" THEN 0 ELSE 1)
  ELSE (IF uplo = "Lower" THEN 2 ELSE 3)

-----------------------------------------------------------------------------
zherk_LN_zherk ==
  Class2("zherk", 0 .. descC.nt-1, LAMBDA n: 0 .. descA.nt-1,
    LAMBDA n, k:
      Task(C(n, n), <<k>>,
      [A |-> READ(A(n, k), {<<"A", "zherk_in_data_A0", n, k>>}, {}),
       C |-> RW(C(n, n), If(k >= 1, {<<"C", "zherk", n, k-1>>}) \cup If(0 = k, {Mem(C(n, n))}),
                If(descA.nt >= k+2, {<<"C", "zherk", n, k+1>>})
                  \cup If(descA.nt = k+1, {Mem(C(n, n))}))]))

zherk_LN_zherk_in_data_A0 ==
  Class2("zherk_in_data_A0", 0 .. descC.nt-1, LAMBDA n: 0 .. descA.nt-1,
    LAMBDA n, k:
      Forward(A(n, k),
      [A |-> PASS(A(n, k), {Mem(A(n, k))}, {<<"A", "zherk", n, k>>})]))

zherk_LN_zgemm ==
  Class3("zgemm", 0 .. descC.mt-2, LAMBDA n: n+1 .. descC.mt-1, LAMBDA n, m: 0 .. descA.nt-1,
    LAMBDA n, m, k:
      Task(C(m, n), <<k>>,
      [A |-> READ(A(m, k), {<<"A", "zgemm_in_data_A0", m, k>>}, {}),
       B |-> READ(A(n, k), {<<"B", "zgemm_in_data_A1", n, k>>}, {}),
       C |-> RW(C(m, n),
                If(0 = k, {Mem(C(m, n))}) \cup If(k >= 1, {<<"C", "zgemm", n, m, k-1>>}),
                If(descA.nt = k+1, {Mem(C(m, n))})
                  \cup If(descA.nt >= k+2, {<<"C", "zgemm", n, m, k+1>>}))]))

zherk_LN_zgemm_in_data_A1 ==
  Class2("zgemm_in_data_A1", 0 .. descC.mt-2, LAMBDA n: 0 .. descA.nt-1,
    LAMBDA n, k:
      Forward(A(n, k),
      [B |-> PASS(A(n, k), {Mem(A(n, k))},
                  {<<"B", "zgemm", n, i, k>> : i \in n+1 .. descC.mt-1})]))

zherk_LN_zgemm_in_data_A0 ==
  Class2("zgemm_in_data_A0", 1 .. descC.mt-1, LAMBDA m: 0 .. descA.nt-1,
    LAMBDA m, k:
      Forward(A(m, k),
      [A |-> PASS(A(m, k), {Mem(A(m, k))}, {<<"A", "zgemm", i, m, k>> : i \in 0 .. descC.mt-2})]))

zherk_LN ==
  zherk_LN_zherk @@ zherk_LN_zherk_in_data_A0 @@ zherk_LN_zgemm @@
  zherk_LN_zgemm_in_data_A1 @@ zherk_LN_zgemm_in_data_A0

-----------------------------------------------------------------------------
zherk_LC_zherk ==
  Class2("zherk", 0 .. descC.nt-1, LAMBDA n: 0 .. descA.mt-1,
    LAMBDA n, k:
      Task(C(n, n), <<k>>,
      [A |-> READ(A(k, n), {<<"A", "zherk_in_data_A0", n, k>>}, {}),
       C |-> RW(C(n, n), If(0 = k, {Mem(C(n, n))}) \cup If(k >= 1, {<<"C", "zherk", n, k-1>>}),
                If(descA.mt >= 2+k, {<<"C", "zherk", n, k+1>>})
                  \cup If(descA.mt = 1+k, {Mem(C(n, n))}))]))

zherk_LC_zherk_in_data_A0 ==
  Class2("zherk_in_data_A0", 0 .. descC.nt-1, LAMBDA n: 0 .. descA.mt-1,
    LAMBDA n, k:
      Forward(A(k, n),
      [A |-> PASS(A(k, n), {Mem(A(k, n))}, {<<"A", "zherk", n, k>>})]))

zherk_LC_zgemm ==
  Class3("zgemm", 0 .. descC.mt-2, LAMBDA n: n+1 .. descC.mt-1, LAMBDA n, m: 0 .. descA.mt-1,
    LAMBDA n, m, k:
      Task(C(m, n), <<k>>,
      [A |-> READ(A(k, m), {<<"A", "zgemm_in_data_A0", m, k>>}, {}),
       B |-> READ(A(k, n), {<<"B", "zgemm_in_data_A1", n, k>>}, {}),
       C |-> RW(C(m, n),
                If(k >= 1, {<<"C", "zgemm", n, m, k-1>>}) \cup If(0 = k, {Mem(C(m, n))}),
                If(descA.mt = k+1, {Mem(C(m, n))})
                  \cup If(descA.mt >= 2+k, {<<"C", "zgemm", n, m, k+1>>}))]))

zherk_LC_zgemm_in_data_A1 ==
  Class2("zgemm_in_data_A1", 0 .. descC.mt-2, LAMBDA n: 0 .. descA.mt-1,
    LAMBDA n, k:
      Forward(A(k, n),
      [B |-> PASS(A(k, n), {Mem(A(k, n))},
                  {<<"B", "zgemm", n, i, k>> : i \in n+1 .. descC.mt-1})]))

zherk_LC_zgemm_in_data_A0 ==
  Class2("zgemm_in_data_A0", 1 .. descC.mt-1, LAMBDA m: 0 .. descA.mt-1,
    LAMBDA m, k:
      Forward(A(k, m),
      [A |-> PASS(A(k, m), {Mem(A(k, m))}, {<<"A", "zgemm", i, m, k>> : i \in 0 .. descC.mt-2})]))

zherk_LC ==
  zherk_LC_zherk @@ zherk_LC_zherk_in_data_A0 @@ zherk_LC_zgemm @@
  zherk_LC_zgemm_in_data_A1 @@ zherk_LC_zgemm_in_data_A0

-----------------------------------------------------------------------------
zherk_UN_zherk ==
  Class2("zherk", 0 .. descC.nt-1, LAMBDA n: 0 .. descA.nt-1,
    LAMBDA n, k:
      Task(C(n, n), <<k>>,
      [A |-> READ(A(n, k), {<<"A", "zherk_in_data_A0", n, k>>}, {}),
       C |-> RW(C(n, n), If(0 = k, {Mem(C(n, n))}) \cup If(k >= 1, {<<"C", "zherk", n, k-1>>}),
                If(descA.nt >= 2+k, {<<"C", "zherk", n, k+1>>})
                  \cup If(descA.nt = k+1, {Mem(C(n, n))}))]))

zherk_UN_zherk_in_data_A0 ==
  Class2("zherk_in_data_A0", 0 .. descC.nt-1, LAMBDA n: 0 .. descA.nt-1,
    LAMBDA n, k:
      Forward(A(n, k),
      [A |-> PASS(A(n, k), {Mem(A(n, k))}, {<<"A", "zherk", n, k>>})]))

zherk_UN_zgemm ==
  Class3("zgemm", 0 .. descC.mt-2, LAMBDA n: n+1 .. descC.mt-1, LAMBDA n, m: 0 .. descA.nt-1,
    LAMBDA n, m, k:
      Task(C(n, m), <<k>>,
      [A |-> READ(A(n, k), {<<"A", "zgemm_in_data_A0", n, k>>}, {}),
       B |-> READ(A(m, k), {<<"B", "zgemm_in_data_A1", m, k>>}, {}),
       C |-> RW(C(n, m),
                If(0 = k, {Mem(C(n, m))}) \cup If(k >= 1, {<<"C", "zgemm", n, m, k-1>>}),
                If(descA.nt >= k+2, {<<"C", "zgemm", n, m, k+1>>})
                  \cup If(descA.nt = k+1, {Mem(C(n, m))}))]))

zherk_UN_zgemm_in_data_A1 ==
  Class2("zgemm_in_data_A1", 1 .. descC.mt-1, LAMBDA m: 0 .. descA.nt-1,
    LAMBDA m, k:
      Forward(A(m, k),
      [B |-> PASS(A(m, k), {Mem(A(m, k))}, {<<"B", "zgemm", i, m, k>> : i \in 0 .. descC.mt-2})]))

zherk_UN_zgemm_in_data_A0 ==
  Class2("zgemm_in_data_A0", 0 .. descC.mt-2, LAMBDA n: 0 .. descA.nt-1,
    LAMBDA n, k:
      Forward(A(n, k),
      [A |-> PASS(A(n, k), {Mem(A(n, k))},
                  {<<"A", "zgemm", n, i, k>> : i \in n+1 .. descC.mt-1})]))

zherk_UN ==
  zherk_UN_zherk @@ zherk_UN_zherk_in_data_A0 @@ zherk_UN_zgemm @@
  zherk_UN_zgemm_in_data_A1 @@ zherk_UN_zgemm_in_data_A0

-----------------------------------------------------------------------------
zherk_UC_zherk ==
  Class2("zherk", 0 .. descC.nt-1, LAMBDA n: 0 .. descA.mt-1,
    LAMBDA n, k:
      Task(C(n, n), <<k>>,
      [A |-> READ(A(k, n), {<<"A", "zherk_in_data_A0", n, k>>}, {}),
       C |-> RW(C(n, n), If(0 = k, {Mem(C(n, n))}) \cup If(k >= 1, {<<"C", "zherk", n, k-1>>}),
                If(descA.mt-1 > k, {<<"C", "zherk", n, k+1>>})
                  \cup If(descA.mt-1 = k, {Mem(C(n, n))}))]))

zherk_UC_zherk_in_data_A0 ==
  Class2("zherk_in_data_A0", 0 .. descC.nt-1, LAMBDA n: 0 .. descA.mt-1,
    LAMBDA n, k:
      Forward(A(k, n),
      [A |-> PASS(A(k, n), {Mem(A(k, n))}, {<<"A", "zherk", n, k>>})]))

zherk_UC_zgemm ==
  Class3("zgemm", 0 .. descC.mt-2, LAMBDA n: n+1 .. descC.mt-1, LAMBDA n, m: 0 .. descA.mt-1,
    LAMBDA n, m, k:
      Task(C(n, m), <<k>>,
      [A |-> READ(A(k, n), {<<"A", "zgemm_in_data_A0", n, k>>}, {}),
       B |-> READ(A(k, m), {<<"B", "zgemm_in_data_A1", m, k>>}, {}),
       C |-> RW(C(n, m),
                If(k >= 1, {<<"C", "zgemm", n, m, k-1>>}) \cup If(0 = k, {Mem(C(n, m))}),
                If(descA.mt = k+1, {Mem(C(n, m))})
                  \cup If(descA.mt >= 2+k, {<<"C", "zgemm", n, m, k+1>>}))]))

zherk_UC_zgemm_in_data_A1 ==
  Class2("zgemm_in_data_A1", 1 .. descC.mt-1, LAMBDA m: 0 .. descA.mt-1,
    LAMBDA m, k:
      Forward(A(k, m),
      [B |-> PASS(A(k, m), {Mem(A(k, m))}, {<<"B", "zgemm", i, m, k>> : i \in 0 .. descC.mt-2})]))

zherk_UC_zgemm_in_data_A0 ==
  Class2("zgemm_in_data_A0", 0 .. descC.mt-2, LAMBDA n: 0 .. descA.mt-1,
    LAMBDA n, k:
      Forward(A(k, n),
      [A |-> PASS(A(k, n), {Mem(A(k, n))},
                  {<<"A", "zgemm", n, i, k>> : i \in n+1 .. descC.mt-1})]))

zherk_UC ==
  zherk_UC_zherk @@ zherk_UC_zherk_in_data_A0 @@ zherk_UC_zgemm @@
  zherk_UC_zgemm_in_data_A1 @@ zherk_UC_zgemm_in_data_A0

-----------------------------------------------------------------------------
zsyrk_LN_zsyrk ==
  Class2("zsyrk", 0 .. descC.nt-1, LAMBDA n: 0 .. descA.nt-1,
    LAMBDA n, k:
      Task(C(n, n), <<k>>,
      [A |-> READ(A(n, k), {<<"A", "zsyrk_in_data_A0", n, k>>}, {}),
       C |-> RW(C(n, n), If(k >= 1, {<<"C", "zsyrk", n, k-1>>}) \cup If(0 = k, {Mem(C(n, n))}),
                If(descA.nt >= k+2, {<<"C", "zsyrk", n, k+1>>})
                  \cup If(descA.nt = k+1, {Mem(C(n, n))}))]))

zsyrk_LN_zsyrk_in_data_A0 ==
  Class2("zsyrk_in_data_A0", 0 .. descC.nt-1, LAMBDA n: 0 .. descA.nt-1,
    LAMBDA n, k:
      Forward(A(n, k),
      [A |-> PASS(A(n, k), {Mem(A(n, k))}, {<<"A", "zsyrk", n, k>>})]))

zsyrk_LN_zgemm ==
  Class3("zgemm", 0 .. descC.mt-2, LAMBDA n: n+1 .. descC.mt-1, LAMBDA n, m: 0 .. descA.nt-1,
    LAMBDA n, m, k:
      Task(C(m, n), <<k>>,
      [A |-> READ(A(m, k), {<<"A", "zgemm_in_data_A0", m, k>>}, {}),
       B |-> READ(A(n, k), {<<"B", "zgemm_in_data_A1", n, k>>}, {}),
       C |-> RW(C(m, n),
                If(0 = k, {Mem(C(m, n))}) \cup If(k >= 1, {<<"C", "zgemm", n, m, k-1>>}),
                If(descA.nt = k+1, {Mem(C(m, n))})
                  \cup If(descA.nt >= k+2, {<<"C", "zgemm", n, m, k+1>>}))]))

zsyrk_LN_zgemm_in_data_A1 ==
  Class2("zgemm_in_data_A1", 0 .. descC.mt-2, LAMBDA n: 0 .. descA.nt-1,
    LAMBDA n, k:
      Forward(A(n, k),
      [B |-> PASS(A(n, k), {Mem(A(n, k))},
                  {<<"B", "zgemm", n, i, k>> : i \in n+1 .. descC.mt-1})]))

zsyrk_LN_zgemm_in_data_A0 ==
  Class2("zgemm_in_data_A0", 1 .. descC.mt-1, LAMBDA m: 0 .. descA.nt-1,
    LAMBDA m, k:
      Forward(A(m, k),
      [A |-> PASS(A(m, k), {Mem(A(m, k))}, {<<"A", "zgemm", i, m, k>> : i \in 0 .. descC.mt-2})]))

zsyrk_LN ==
  zsyrk_LN_zsyrk @@ zsyrk_LN_zsyrk_in_data_A0 @@ zsyrk_LN_zgemm @@
  zsyrk_LN_zgemm_in_data_A1 @@ zsyrk_LN_zgemm_in_data_A0

-----------------------------------------------------------------------------
zsyrk_LT_zsyrk ==
  Class2("zsyrk", 0 .. descC.nt-1, LAMBDA n: 0 .. descA.mt-1,
    LAMBDA n, k:
      Task(C(n, n), <<k>>,
      [A |-> READ(A(k, n), {<<"A", "zsyrk_in_data_A0", n, k>>}, {}),
       C |-> RW(C(n, n), If(0 = k, {Mem(C(n, n))}) \cup If(k >= 1, {<<"C", "zsyrk", n, k-1>>}),
                If(descA.mt >= 2+k, {<<"C", "zsyrk", n, k+1>>})
                  \cup If(descA.mt = 1+k, {Mem(C(n, n))}))]))

zsyrk_LT_zsyrk_in_data_A0 ==
  Class2("zsyrk_in_data_A0", 0 .. descC.nt-1, LAMBDA n: 0 .. descA.mt-1,
    LAMBDA n, k:
      Forward(A(k, n),
      [A |-> PASS(A(k, n), {Mem(A(k, n))}, {<<"A", "zsyrk", n, k>>})]))

zsyrk_LT_zgemm ==
  Class3("zgemm", 0 .. descC.mt-2, LAMBDA n: n+1 .. descC.mt-1, LAMBDA n, m: 0 .. descA.mt-1,
    LAMBDA n, m, k:
      Task(C(m, n), <<k>>,
      [A |-> READ(A(k, m), {<<"A", "zgemm_in_data_A0", m, k>>}, {}),
       B |-> READ(A(k, n), {<<"B", "zgemm_in_data_A1", n, k>>}, {}),
       C |-> RW(C(m, n),
                If(k >= 1, {<<"C", "zgemm", n, m, k-1>>}) \cup If(0 = k, {Mem(C(m, n))}),
                If(descA.mt = k+1, {Mem(C(m, n))})
                  \cup If(descA.mt >= 2+k, {<<"C", "zgemm", n, m, k+1>>}))]))

zsyrk_LT_zgemm_in_data_A1 ==
  Class2("zgemm_in_data_A1", 0 .. descC.mt-2, LAMBDA n: 0 .. descA.mt-1,
    LAMBDA n, k:
      Forward(A(k, n),
      [B |-> PASS(A(k, n), {Mem(A(k, n))},
                  {<<"B", "zgemm", n, i, k>> : i \in n+1 .. descC.mt-1})]))

zsyrk_LT_zgemm_in_data_A0 ==
  Class2("zgemm_in_data_A0", 1 .. descC.mt-1, LAMBDA m: 0 .. descA.mt-1,
    LAMBDA m, k:
      Forward(A(k, m),
      [A |-> PASS(A(k, m), {Mem(A(k, m))}, {<<"A", "zgemm", i, m, k>> : i \in 0 .. descC.mt-2})]))

zsyrk_LT ==
  zsyrk_LT_zsyrk @@ zsyrk_LT_zsyrk_in_data_A0 @@ zsyrk_LT_zgemm @@
  zsyrk_LT_zgemm_in_data_A1 @@ zsyrk_LT_zgemm_in_data_A0

-----------------------------------------------------------------------------
zsyrk_UN_zsyrk ==
  Class2("zsyrk", 0 .. descC.nt-1, LAMBDA n: 0 .. descA.nt-1,
    LAMBDA n, k:
      Task(C(n, n), <<k>>,
      [A |-> READ(A(n, k), {<<"A", "zsyrk_in_data_A0", n, k>>}, {}),
       C |-> RW(C(n, n), If(0 = k, {Mem(C(n, n))}) \cup If(k >= 1, {<<"C", "zsyrk", n, k-1>>}),
                If(descA.nt >= 2+k, {<<"C", "zsyrk", n, k+1>>})
                  \cup If(descA.nt = k+1, {Mem(C(n, n))}))]))

zsyrk_UN_zsyrk_in_data_A0 ==
  Class2("zsyrk_in_data_A0", 0 .. descC.nt-1, LAMBDA n: 0 .. descA.nt-1,
    LAMBDA n, k:
      Forward(A(n, k),
      [A |-> PASS(A(n, k), {Mem(A(n, k))}, {<<"A", "zsyrk", n, k>>})]))

zsyrk_UN_zgemm ==
  Class3("zgemm", 0 .. descC.mt-2, LAMBDA n: n+1 .. descC.mt-1, LAMBDA n, m: 0 .. descA.nt-1,
    LAMBDA n, m, k:
      Task(C(n, m), <<k>>,
      [A |-> READ(A(n, k), {<<"A", "zgemm_in_data_A0", n, k>>}, {}),
       B |-> READ(A(m, k), {<<"B", "zgemm_in_data_A1", m, k>>}, {}),
       C |-> RW(C(n, m),
                If(0 = k, {Mem(C(n, m))}) \cup If(k >= 1, {<<"C", "zgemm", n, m, k-1>>}),
                If(descA.nt >= k+2, {<<"C", "zgemm", n, m, k+1>>})
                  \cup If(descA.nt = k+1, {Mem(C(n, m))}))]))

zsyrk_UN_zgemm_in_data_A1 ==
  Class2("zgemm_in_data_A1", 1 .. descC.mt-1, LAMBDA m: 0 .. descA.nt-1,
    LAMBDA m, k:
      Forward(A(m, k),
      [B |-> PASS(A(m, k), {Mem(A(m, k))}, {<<"B", "zgemm", i, m, k>> : i \in 0 .. descC.mt-2})]))

zsyrk_UN_zgemm_in_data_A0 ==
  Class2("zgemm_in_data_A0", 0 .. descC.mt-2, LAMBDA n: 0 .. descA.nt-1,
    LAMBDA n, k:
      Forward(A(n, k),
      [A |-> PASS(A(n, k), {Mem(A(n, k))},
                  {<<"A", "zgemm", n, i, k>> : i \in n+1 .. descC.mt-1})]))

zsyrk_UN ==
  zsyrk_UN_zsyrk @@ zsyrk_UN_zsyrk_in_data_A0 @@ zsyrk_UN_zgemm @@
  zsyrk_UN_zgemm_in_data_A1 @@ zsyrk_UN_zgemm_in_data_A0

-----------------------------------------------------------------------------
zsyrk_UT_zsyrk ==
  Class2("zsyrk", 0 .. descC.nt-1, LAMBDA n: 0 .. descA.mt-1,
    LAMBDA n, k:
      Task(C(n, n), <<k>>,
      [A |-> READ(A(k, n), {<<"A", "zsyrk_in_data_A0", n, k>>}, {}),
       C |-> RW(C(n, n), If(0 = k, {Mem(C(n, n))}) \cup If(k >= 1, {<<"C", "zsyrk", n, k-1>>}),
                If(descA.mt-1 > k, {<<"C", "zsyrk", n, k+1>>})
                  \cup If(descA.mt-1 = k, {Mem(C(n, n))}))]))

zsyrk_UT_zsyrk_in_data_A0 ==
  Class2("zsyrk_in_data_A0", 0 .. descC.nt-1, LAMBDA n: 0 .. descA.mt-1,
    LAMBDA n, k:
      Forward(A(k, n),
      [A |-> PASS(A(k, n), {Mem(A(k, n))}, {<<"A", "zsyrk", n, k>>})]))

zsyrk_UT_zgemm ==
  Class3("zgemm", 0 .. descC.mt-2, LAMBDA n: n+1 .. descC.mt-1, LAMBDA n, m: 0 .. descA.mt-1,
    LAMBDA n, m, k:
      Task(C(n, m), <<k>>,
      [A |-> READ(A(k, n), {<<"A", "zgemm_in_data_A0", n, k>>}, {}),
       B |-> READ(A(k, m), {<<"B", "zgemm_in_data_A1", m, k>>}, {}),
       C |-> RW(C(n, m),
                If(k >= 1, {<<"C", "zgemm", n, m, k-1>>}) \cup If(0 = k, {Mem(C(n, m))}),
                If(descA.mt = k+1, {Mem(C(n, m))})
                  \cup If(descA.mt >= 2+k, {<<"C", "zgemm", n, m, k+1>>}))]))

zsyrk_UT_zgemm_in_data_A1 ==
  Class2("zgemm_in_data_A1", 1 .. descC.mt-1, LAMBDA m: 0 .. descA.mt-1,
    LAMBDA m, k:
      Forward(A(k, m),
      [B |-> PASS(A(k, m), {Mem(A(k, m))}, {<<"B", "zgemm", i, m, k>> : i \in 0 .. descC.mt-2})]))

zsyrk_UT_zgemm_in_data_A0 ==
  Class2("zgemm_in_data_A0", 0 .. descC.mt-2, LAMBDA n: 0 .. descA.mt-1,
    LAMBDA n, k:
      Forward(A(k, n),
      [A |-> PASS(A(k, n), {Mem(A(k, n))},
                  {<<"A", "zgemm", n, i, k>> : i \in n+1 .. descC.mt-1})]))

zsyrk_UT ==
  zsyrk_UT_zsyrk @@ zsyrk_UT_zsyrk_in_data_A0 @@ zsyrk_UT_zgemm @@
  zsyrk_UT_zgemm_in_data_A1 @@ zsyrk_UT_zgemm_in_data_A0

-----------------------------------------------------------------------------
zher2k_LN_zher2k ==
  Class2("zher2k", 0 .. descC.nt-1, LAMBDA n: 0 .. descA.nt-1,
    LAMBDA n, k:
      Task(C(n, n), <<k>>,
      [A |-> READ(A(n, k), {<<"A", "in_data_A", n, k>>}, {}),
       B |-> READ(B(n, k), {<<"B", "in_data_B", n, k>>}, {}),
       C |-> RW(C(n, n), If(k = 0, {Mem(C(n, n))}) \cup If(k > 0, {<<"C", "zher2k", n, k-1>>}),
                If(k < descA.nt-1, {<<"C", "zher2k", n, k+1>>})
                  \cup If(k = descA.nt-1, {Mem(C(n, n))}))]))

zher2k_LN_zgemm_AB ==
  Class3("zgemm_AB", 1 .. descC.mt-1, LAMBDA m: 0 .. m-1, LAMBDA m, n: 0 .. descA.nt-1,
    LAMBDA m, n, k:
      Task(C(m, n), <<k, 0>>,
      [A |-> READ(A(m, k), {<<"A", "in_data_A", m, k>>}, {}),
       B |-> READ(B(n, k), {<<"B", "in_data_B", n, k>>}, {}),
       C |-> RW(C(m, n),
                If(k = 0, {Mem(C(m, n))}) \cup If(k > 0, {<<"C", "zgemm_BA", m, n, k-1>>}),
                {<<"C", "zgemm_BA", m, n, k>>})]))

zher2k_LN_zgemm_BA ==
  Class3("zgemm_BA", 1 .. descC.mt-1, LAMBDA m: 0 .. m-1, LAMBDA m, n: 0 .. descA.nt-1,
    LAMBDA m, n, k:
      Task(C(m, n), <<k, 1>>,
      [A |-> READ(B(m, k), {<<"B", "in_data_B", m, k>>}, {}),
       B |-> READ(A(n, k), {<<"A", "in_data_A", n, k>>}, {}),
       C |-> RW(C(m, n), {<<"C", "zgemm_AB", m, n, k>>},
                If(k < descA.nt-1, {<<"C", "zgemm_AB", m, n, k+1>>})
                  \cup If(k = descA.nt-1, {Mem(C(m, n))}))]))

zher2k_LN_in_data_A ==
  Class2("in_data_A", 0 .. descA.mt-1, LAMBDA m: 0 .. descA.nt-1,
    LAMBDA m, n:
      Forward(A(m, n),
      [A |-> PASS(A(m, n), {Mem(A(m, n))},
                  {<<"A", "zher2k", m, n>>}
                    \cup {<<"A", "zgemm_AB", m, i, n>> : i \in 0 .. m-1}
                    \cup {<<"B", "zgemm_BA", i, m, n>> : i \in m+1 .. descC.mt-1})]))

zher2k_LN_in_data_B ==
  Class2("in_data_B", 0 .. descB.mt-1, LAMBDA m: 0 .. descB.nt-1,
    LAMBDA m, n:
      Forward(B(m, n),
      [B |-> PASS(B(m, n), {Mem(B(m, n))},
                  {<<"B", "zher2k", m, n>>}
                    \cup {<<"B", "zgemm_AB", i, m, n>> : i \in m+1 .. descC.mt-1}
                    \cup {<<"A", "zgemm_BA", m, i, n>> : i \in 0 .. m-1})]))

zher2k_LN ==
  zher2k_LN_zher2k @@ zher2k_LN_zgemm_AB @@ zher2k_LN_zgemm_BA @@ zher2k_LN_in_data_A @@
  zher2k_LN_in_data_B

-----------------------------------------------------------------------------
zher2k_LC_zher2k ==
  Class2("zher2k", 0 .. descC.nt-1, LAMBDA n: 0 .. descA.mt-1,
    LAMBDA n, k:
      Task(C(n, n), <<k>>,
      [A |-> READ(A(k, n), {<<"A", "in_data_A", k, n>>}, {}),
       B |-> READ(B(k, n), {<<"B", "in_data_B", k, n>>}, {}),
       C |-> RW(C(n, n), If(k = 0, {Mem(C(n, n))}) \cup If(k > 0, {<<"C", "zher2k", n, k-1>>}),
                If(k < descA.mt-1, {<<"C", "zher2k", n, k+1>>})
                  \cup If(k = descA.mt-1, {Mem(C(n, n))}))]))

zher2k_LC_zgemm_AB ==
  Class3("zgemm_AB", 1 .. descC.mt-1, LAMBDA m: 0 .. m-1, LAMBDA m, n: 0 .. descA.mt-1,
    LAMBDA m, n, k:
      Task(C(m, n), <<k, 0>>,
      [A |-> READ(A(k, m), {<<"A", "in_data_A", k, m>>}, {}),
       B |-> READ(B(k, n), {<<"B", "in_data_B", k, n>>}, {}),
       C |-> RW(C(m, n),
                If(k = 0, {Mem(C(m, n))}) \cup If(k > 0, {<<"C", "zgemm_BA", m, n, k-1>>}),
                {<<"C", "zgemm_BA", m, n, k>>})]))

zher2k_LC_zgemm_BA ==
  Class3("zgemm_BA", 1 .. descC.mt-1, LAMBDA m: 0 .. m-1, LAMBDA m, n: 0 .. descA.mt-1,
    LAMBDA m, n, k:
      Task(C(m, n), <<k, 1>>,
      [A |-> READ(B(k, m), {<<"B", "in_data_B", k, m>>}, {}),
       B |-> READ(A(k, n), {<<"A", "in_data_A", k, n>>}, {}),
       C |-> RW(C(m, n), {<<"C", "zgemm_AB", m, n, k>>},
                If(k < descA.mt-1, {<<"C", "zgemm_AB", m, n, k+1>>})
                  \cup If(k = descA.mt-1, {Mem(C(m, n))}))]))

zher2k_LC_in_data_A ==
  Class2("in_data_A", 0 .. descA.mt-1, LAMBDA m: 0 .. descA.nt-1,
    LAMBDA m, n:
      Forward(A(m, n),
      [A |-> PASS(A(m, n), {Mem(A(m, n))},
                  {<<"A", "zher2k", n, m>>}
                    \cup {<<"A", "zgemm_AB", n, i, m>> : i \in 0 .. n-1}
                    \cup {<<"B", "zgemm_BA", i, n, m>> : i \in n+1 .. descC.mt-1})]))

zher2k_LC_in_data_B ==
  Class2("in_data_B", 0 .. descB.mt-1, LAMBDA m: 0 .. descB.nt-1,
    LAMBDA m, n:
      Forward(B(m, n),
      [B |-> PASS(B(m, n), {Mem(B(m, n))},
                  {<<"B", "zher2k", n, m>>}
                    \cup {<<"B", "zgemm_AB", i, n, m>> : i \in n+1 .. descC.mt-1}
                    \cup {<<"A", "zgemm_BA", n, i, m>> : i \in 0 .. n-1})]))

zher2k_LC ==
  zher2k_LC_zher2k @@ zher2k_LC_zgemm_AB @@ zher2k_LC_zgemm_BA @@ zher2k_LC_in_data_A @@
  zher2k_LC_in_data_B

-----------------------------------------------------------------------------
zher2k_UN_zher2k ==
  Class2("zher2k", 0 .. descC.nt-1, LAMBDA n: 0 .. descA.nt-1,
    LAMBDA n, k:
      Task(C(n, n), <<k>>,
      [A |-> READ(A(n, k), {<<"A", "in_data_A", n, k>>}, {}),
       B |-> READ(B(n, k), {<<"B", "in_data_B", n, k>>}, {}),
       C |-> RW(C(n, n), If(k = 0, {Mem(C(n, n))}) \cup If(k > 0, {<<"C", "zher2k", n, k-1>>}),
                If(k < descA.nt-1, {<<"C", "zher2k", n, k+1>>})
                  \cup If(k = descA.nt-1, {Mem(C(n, n))}))]))

zher2k_UN_zgemm_AB ==
  Class3("zgemm_AB", 0 .. descC.mt-2, LAMBDA m: m+1 .. descC.nt-1, LAMBDA m, n: 0 .. descA.nt-1,
    LAMBDA m, n, k:
      Task(C(m, n), <<k, 0>>,
      [A |-> READ(A(m, k), {<<"A", "in_data_A", m, k>>}, {}),
       B |-> READ(B(n, k), {<<"B", "in_data_B", n, k>>}, {}),
       C |-> RW(C(m, n),
                If(k = 0, {Mem(C(m, n))}) \cup If(k > 0, {<<"C", "zgemm_BA", m, n, k-1>>}),
                {<<"C", "zgemm_BA", m, n, k>>})]))

zher2k_UN_zgemm_BA ==
  Class3("zgemm_BA", 0 .. descC.mt-2, LAMBDA m: m+1 .. descC.nt-1, LAMBDA m, n: 0 .. descA.nt-1,
    LAMBDA m, n, k:
      Task(C(m, n), <<k, 1>>,
      [A |-> READ(B(m, k), {<<"B", "in_data_B", m, k>>}, {}),
       B |-> READ(A(n, k), {<<"A", "in_data_A", n, k>>}, {}),
       C |-> RW(C(m, n), {<<"C", "zgemm_AB", m, n, k>>},
                If(k < descA.nt-1, {<<"C", "zgemm_AB", m, n, k+1>>})
                  \cup If(k = descA.nt-1, {Mem(C(m, n))}))]))

zher2k_UN_in_data_A ==
  Class2("in_data_A", 0 .. descA.mt-1, LAMBDA m: 0 .. descA.nt-1,
    LAMBDA m, n:
      Forward(A(m, n),
      [A |-> PASS(A(m, n), {Mem(A(m, n))},
                  {<<"A", "zher2k", m, n>>}
                    \cup {<<"A", "zgemm_AB", m, i, n>> : i \in m+1 .. descC.nt-1}
                    \cup {<<"B", "zgemm_BA", i, m, n>> : i \in 0 .. m-1})]))

zher2k_UN_in_data_B ==
  Class2("in_data_B", 0 .. descB.mt-1, LAMBDA m: 0 .. descB.nt-1,
    LAMBDA m, n:
      Forward(B(m, n),
      [B |-> PASS(B(m, n), {Mem(B(m, n))},
                  {<<"B", "zher2k", m, n>>}
                    \cup {<<"B", "zgemm_AB", i, m, n>> : i \in 0 .. m-1}
                    \cup {<<"A", "zgemm_BA", m, i, n>> : i \in m+1 .. descC.nt-1})]))

zher2k_UN ==
  zher2k_UN_zher2k @@ zher2k_UN_zgemm_AB @@ zher2k_UN_zgemm_BA @@ zher2k_UN_in_data_A @@
  zher2k_UN_in_data_B

-----------------------------------------------------------------------------
zher2k_UC_zher2k ==
  Class2("zher2k", 0 .. descC.nt-1, LAMBDA n: 0 .. descA.mt-1,
    LAMBDA n, k:
      Task(C(n, n), <<k>>,
      [A |-> READ(A(k, n), {<<"A", "in_data_A", k, n>>}, {}),
       B |-> READ(B(k, n), {<<"B", "in_data_B", k, n>>}, {}),
       C |-> RW(C(n, n), If(k = 0, {Mem(C(n, n))}) \cup If(k > 0, {<<"C", "zher2k", n, k-1>>}),
                If(k < descA.mt-1, {<<"C", "zher2k", n, k+1>>})
                  \cup If(k = descA.mt-1, {Mem(C(n, n))}))]))

zher2k_UC_zgemm_AB ==
  Class3("zgemm_AB", 0 .. descC.mt-2, LAMBDA m: m+1 .. descC.nt-1, LAMBDA m, n: 0 .. descA.mt-1,
    LAMBDA m, n, k:
      Task(C(m, n), <<k, 0>>,
      [A |-> READ(A(k, m), {<<"A", "in_data_A", k, m>>}, {}),
       B |-> READ(B(k, n), {<<"B", "in_data_B", k, n>>}, {}),
       C |-> RW(C(m, n),
                If(k = 0, {Mem(C(m, n))}) \cup If(k > 0, {<<"C", "zgemm_BA", m, n, k-1>>}),
                {<<"C", "zgemm_BA", m, n, k>>})]))

zher2k_UC_zgemm_BA ==
  Class3("zgemm_BA", 0 .. descC.mt-2, LAMBDA m: m+1 .. descC.nt-1, LAMBDA m, n: 0 .. descA.mt-1,
    LAMBDA m, n, k:
      Task(C(m, n), <<k, 1>>,
      [A |-> READ(B(k, m), {<<"B", "in_data_B", k, m>>}, {}),
       B |-> READ(A(k, n), {<<"A", "in_data_A", k, n>>}, {}),
       C |-> RW(C(m, n), {<<"C", "zgemm_AB", m, n, k>>},
                If(k < descA.mt-1, {<<"C", "zgemm_AB", m, n, k+1>>})
                  \cup If(k = descA.mt-1, {Mem(C(m, n))}))]))

zher2k_UC_in_data_A ==
  Class2("in_data_A", 0 .. descA.mt-1, LAMBDA m: 0 .. descA.nt-1,
    LAMBDA m, n:
      Forward(A(m, n),
      [A |-> PASS(A(m, n), {Mem(A(m, n))},
                  {<<"A", "zher2k", n, m>>}
                    \cup {<<"A", "zgemm_AB", n, i, m>> : i \in n+1 .. descC.nt-1}
                    \cup {<<"B", "zgemm_BA", i, n, m>> : i \in 0 .. n-1})]))

zher2k_UC_in_data_B ==
  Class2("in_data_B", 0 .. descB.mt-1, LAMBDA m: 0 .. descB.nt-1,
    LAMBDA m, n:
      Forward(B(m, n),
      [B |-> PASS(B(m, n), {Mem(B(m, n))},
                  {<<"B", "zher2k", n, m>>}
                    \cup {<<"B", "zgemm_AB", i, n, m>> : i \in 0 .. n-1}
                    \cup {<<"A", "zgemm_BA", n, i, m>> : i \in n+1 .. descC.nt-1})]))

zher2k_UC ==
  zher2k_UC_zher2k @@ zher2k_UC_zgemm_AB @@ zher2k_UC_zgemm_BA @@ zher2k_UC_in_data_A @@
  zher2k_UC_in_data_B

-----------------------------------------------------------------------------
zsyr2k_LN_zsyr2k ==
  Class2("zsyr2k", 0 .. descC.nt-1, LAMBDA n: 0 .. descA.nt-1,
    LAMBDA n, k:
      Task(C(n, n), <<k>>,
      [A |-> READ(A(n, k), {<<"A", "in_data_A", n, k>>}, {}),
       B |-> READ(B(n, k), {<<"B", "in_data_B", n, k>>}, {}),
       C |-> RW(C(n, n), If(k = 0, {Mem(C(n, n))}) \cup If(k > 0, {<<"C", "zsyr2k", n, k-1>>}),
                If(k < descA.nt-1, {<<"C", "zsyr2k", n, k+1>>})
                  \cup If(k = descA.nt-1, {Mem(C(n, n))}))]))

zsyr2k_LN_zgemm_AB ==
  Class3("zgemm_AB", 1 .. descC.mt-1, LAMBDA m: 0 .. m-1, LAMBDA m, n: 0 .. descA.nt-1,
    LAMBDA m, n, k:
      Task(C(m, n), <<k, 0>>,
      [A |-> READ(A(m, k), {<<"A", "in_data_A", m, k>>}, {}),
       B |-> READ(B(n, k), {<<"B", "in_data_B", n, k>>}, {}),
       C |-> RW(C(m, n),
                If(k = 0, {Mem(C(m, n))}) \cup If(k > 0, {<<"C", "zgemm_BA", m, n, k-1>>}),
                {<<"C", "zgemm_BA", m, n, k>>})]))

zsyr2k_LN_zgemm_BA ==
  Class3("zgemm_BA", 1 .. descC.mt-1, LAMBDA m: 0 .. m-1, LAMBDA m, n: 0 .. descA.nt-1,
    LAMBDA m, n, k:
      Task(C(m, n), <<k, 1>>,
      [A |-> READ(B(m, k), {<<"B", "in_data_B", m, k>>}, {}),
       B |-> READ(A(n, k), {<<"A", "in_data_A", n, k>>}, {}),
       C |-> RW(C(m, n), {<<"C", "zgemm_AB", m, n, k>>},
                If(k < descA.nt-1, {<<"C", "zgemm_AB", m, n, k+1>>})
                  \cup If(k = descA.nt-1, {Mem(C(m, n))}))]))

zsyr2k_LN_in_data_A ==
  Class2("in_data_A", 0 .. descA.mt-1, LAMBDA m: 0 .. descA.nt-1,
    LAMBDA m, n:
      Forward(A(m, n),
      [A |-> PASS(A(m, n), {Mem(A(m, n))},
                  {<<"A", "zsyr2k", m, n>>}
                    \cup {<<"A", "zgemm_AB", m, i, n>> : i \in 0 .. m-1}
                    \cup {<<"B", "zgemm_BA", i, m, n>> : i \in m+1 .. descC.mt-1})]))

zsyr2k_LN_in_data_B ==
  Class2("in_data_B", 0 .. descB.mt-1, LAMBDA m: 0 .. descB.nt-1,
    LAMBDA m, n:
      Forward(B(m, n),
      [B |-> PASS(B(m, n), {Mem(B(m, n))},
                  {<<"B", "zsyr2k", m, n>>}
                    \cup {<<"B", "zgemm_AB", i, m, n>> : i \in m+1 .. descC.mt-1}
                    \cup {<<"A", "zgemm_BA", m, i, n>> : i \in 0 .. m-1})]))

zsyr2k_LN ==
  zsyr2k_LN_zsyr2k @@ zsyr2k_LN_zgemm_AB @@ zsyr2k_LN_zgemm_BA @@ zsyr2k_LN_in_data_A @@
  zsyr2k_LN_in_data_B

-----------------------------------------------------------------------------
zsyr2k_LT_zsyr2k ==
  Class2("zsyr2k", 0 .. descC.nt-1, LAMBDA n: 0 .. descA.mt-1,
    LAMBDA n, k:
      Task(C(n, n), <<k>>,
      [A |-> READ(A(k, n), {<<"A", "in_data_A", k, n>>}, {}),
       B |-> READ(B(k, n), {<<"B", "in_data_B", k, n>>}, {}),
       C |-> RW(C(n, n), If(k = 0, {Mem(C(n, n))}) \cup If(k > 0, {<<"C", "zsyr2k", n, k-1>>}),
                If(k < descA.mt-1, {<<"C", "zsyr2k", n, k+1>>})
                  \cup If(k = descA.mt-1, {Mem(C(n, n))}))]))

zsyr2k_LT_zgemm_AB ==
  Class3("zgemm_AB", 1 .. descC.mt-1, LAMBDA m: 0 .. m-1, LAMBDA m, n: 0 .. descA.mt-1,
    LAMBDA m, n, k:
      Task(C(m, n), <<k, 0>>,
      [A |-> READ(A(k, m), {<<"A", "in_data_A", k, m>>}, {}),
       B |-> READ(B(k, n), {<<"B", "in_data_B", k, n>>}, {}),
       C |-> RW(C(m, n),
                If(k = 0, {Mem(C(m, n))}) \cup If(k > 0, {<<"C", "zgemm_BA", m, n, k-1>>}),
                {<<"C", "zgemm_BA", m, n, k>>})]))

zsyr2k_LT_zgemm_BA ==
  Class3("zgemm_BA", 1 .. descC.mt-1, LAMBDA m: 0 .. m-1, LAMBDA m, n: 0 .. descA.mt-1,
    LAMBDA m, n, k:
      Task(C(m, n), <<k, 1>>,
      [A |-> READ(B(k, m), {<<"B", "in_data_B", k, m>>}, {}),
       B |-> READ(A(k, n), {<<"A", "in_data_A", k, n>>}, {}),
       C |-> RW(C(m, n), {<<"C", "zgemm_AB", m, n, k>>},
                If(k < descA.mt-1, {<<"C", "zgemm_AB", m, n, k+1>>})
                  \cup If(k = descA.mt-1, {Mem(C(m, n))}))]))

zsyr2k_LT_in_data_A ==
  Class2("in_data_A", 0 .. descA.mt-1, LAMBDA m: 0 .. descA.nt-1,
    LAMBDA m, n:
      Forward(A(m, n),
      [A |-> PASS(A(m, n), {Mem(A(m, n))},
                  {<<"A", "zsyr2k", n, m>>}
                    \cup {<<"A", "zgemm_AB", n, i, m>> : i \in 0 .. n-1}
                    \cup {<<"B", "zgemm_BA", i, n, m>> : i \in n+1 .. descC.mt-1})]))

zsyr2k_LT_in_data_B ==
  Class2("in_data_B", 0 .. descB.mt-1, LAMBDA m: 0 .. descB.nt-1,
    LAMBDA m, n:
      Forward(B(m, n),
      [B |-> PASS(B(m, n), {Mem(B(m, n))},
                  {<<"B", "zsyr2k", n, m>>}
                    \cup {<<"B", "zgemm_AB", i, n, m>> : i \in n+1 .. descC.mt-1}
                    \cup {<<"A", "zgemm_BA", n, i, m>> : i \in 0 .. n-1})]))

zsyr2k_LT ==
  zsyr2k_LT_zsyr2k @@ zsyr2k_LT_zgemm_AB @@ zsyr2k_LT_zgemm_BA @@ zsyr2k_LT_in_data_A @@
  zsyr2k_LT_in_data_B

-----------------------------------------------------------------------------
zsyr2k_UN_zsyr2k ==
  Class2("zsyr2k", 0 .. descC.nt-1, LAMBDA n: 0 .. descA.nt-1,
    LAMBDA n, k:
      Task(C(n, n), <<k>>,
      [A |-> READ(A(n, k), {<<"A", "in_data_A", n, k>>}, {}),
       B |-> READ(B(n, k), {<<"B", "in_data_B", n, k>>}, {}),
       C |-> RW(C(n, n), If(k = 0, {Mem(C(n, n))}) \cup If(k > 0, {<<"C", "zsyr2k", n, k-1>>}),
                If(k < descA.nt-1, {<<"C", "zsyr2k", n, k+1>>})
                  \cup If(k = descA.nt-1, {Mem(C(n, n))}))]))

zsyr2k_UN_zgemm_AB ==
  Class3("zgemm_AB", 0 .. descC.mt-2, LAMBDA m: m+1 .. descC.nt-1, LAMBDA m, n: 0 .. descA.nt-1,
    LAMBDA m, n, k:
      Task(C(m, n), <<k, 0>>,
      [A |-> READ(A(m, k), {<<"A", "in_data_A", m, k>>}, {}),
       B |-> READ(B(n, k), {<<"B", "in_data_B", n, k>>}, {}),
       C |-> RW(C(m, n),
                If(k = 0, {Mem(C(m, n))}) \cup If(k > 0, {<<"C", "zgemm_BA", m, n, k-1>>}),
                {<<"C", "zgemm_BA", m, n, k>>})]))

zsyr2k_UN_zgemm_BA ==
  Class3("zgemm_BA", 0 .. descC.mt-2, LAMBDA m: m+1 .. descC.nt-1, LAMBDA m, n: 0 .. descA.nt-1,
    LAMBDA m, n, k:
      Task(C(m, n), <<k, 1>>,
      [A |-> READ(B(m, k), {<<"B", "in_data_B", m, k>>}, {}),
       B |-> READ(A(n, k), {<<"A", "in_data_A", n, k>>}, {}),
       C |-> RW(C(m, n), {<<"C", "zgemm_AB", m, n, k>>},
                If(k < descA.nt-1, {<<"C", "zgemm_AB", m, n, k+1>>})
                  \cup If(k = descA.nt-1, {Mem(C(m, n))}))]))

zsyr2k_UN_in_data_A ==
  Class2("in_data_A", 0 .. descA.mt-1, LAMBDA m: 0 .. descA.nt-1,
    LAMBDA m, n:
      Forward(A(m, n),
      [A |-> PASS(A(m, n), {Mem(A(m, n))},
                  {<<"A", "zsyr2k", m, n>>}
                    \cup {<<"A", "zgemm_AB", m, i, n>> : i \in m+1 .. descC.nt-1}
                    \cup {<<"B", "zgemm_BA", i, m, n>> : i \in 0 .. m-1})]))

zsyr2k_UN_in_data_B ==
  Class2("in_data_B", 0 .. descB.mt-1, LAMBDA m: 0 .. descB.nt-1,
    LAMBDA m, n:
      Forward(B(m, n),
      [B |-> PASS(B(m, n), {Mem(B(m, n))},
                  {<<"B", "zsyr2k", m, n>>}
                    \cup {<<"B", "zgemm_AB", i, m, n>> : i \in 0 .. m-1}
                    \cup {<<"A", "zgemm_BA", m, i, n>> : i \in m+1 .. descC.nt-1})]))

zsyr2k_UN ==
  zsyr2k_UN_zsyr2k @@ zsyr2k_UN_zgemm_AB @@ zsyr2k_UN_zgemm_BA @@ zsyr2k_UN_in_data_A @@
  zsyr2k_UN_in_data_B

-----------------------------------------------------------------------------
zsyr2k_UT_zsyr2k ==
  Class2("zsyr2k", 0 .. descC.nt-1, LAMBDA n: 0 .. descA.mt-1,
    LAMBDA n, k:
      Task(C(n, n), <<k>>,
      [A |-> READ(A(k, n), {<<"A", "in_data_A", k, n>>}, {}),
       B |-> READ(B(k, n), {<<"B", "in_data_B", k, n>>}, {}),
       C |-> RW(C(n, n), If(k = 0, {Mem(C(n, n))}) \cup If(k > 0, {<<"C", "zsyr2k", n, k-1>>}),
                If(k < descA.mt-1, {<<"C", "zsyr2k", n, k+1>>})
                  \cup If(k = descA.mt-1, {Mem(C(n, n))}))]))

zsyr2k_UT_zgemm_AB ==
  Class3("zgemm_AB", 0 .. descC.mt-2, LAMBDA m: m+1 .. descC.nt-1, LAMBDA m, n: 0 .. descA.mt-1,
    LAMBDA m, n, k:
      Task(C(m, n), <<k, 0>>,
      [A |-> READ(A(k, m), {<<"A", "in_data_A", k, m>>}, {}),
       B |-> READ(B(k, n), {<<"B", "in_data_B", k, n>>}, {}),
       C |-> RW(C(m, n),
                If(k = 0, {Mem(C(m, n))}) \cup If(k > 0, {<<"C", "zgemm_BA", m, n, k-1>>}),
                {<<"C", "zgemm_BA", m, n, k>>})]))

zsyr2k_UT_zgemm_BA ==
  Class3("zgemm_BA", 0 .. descC.mt-2, LAMBDA m: m+1 .. descC.nt-1, LAMBDA m, n: 0 .. descA.mt-1,
    LAMBDA m, n, k:
      Task(C(m, n), <<k, 1>>,
      [A |-> READ(B(k, m), {<<"B", "in_data_B", k, m>>}, {}),
       B |-> READ(A(k, n), {<<"A", "in_data_A", k, n>>}, {}),
       C |-> RW(C(m, n), {<<"C", "zgemm_AB", m, n, k>>},
                If(k < descA.mt-1, {<<"C", "zgemm_AB", m, n, k+1>>})
                  \cup If(k = descA.mt-1, {Mem(C(m, n))}))]))

zsyr2k_UT_in_data_A ==
  Class2("in_data_A", 0 .. descA.mt-1, LAMBDA m: 0 .. descA.nt-1,
    LAMBDA m, n:
      Forward(A(m, n),
      [A |-> PASS(A(m, n), {Mem(A(m, n))},
                  {<<"A", "zsyr2k", n, m>>}
                    \cup {<<"A", "zgemm_AB", n, i, m>> : i \in n+1 .. descC.nt-1}
                    \cup {<<"B", "zgemm_BA", i, n, m>> : i \in 0 .. n-1})]))

zsyr2k_UT_in_data_B ==
  Class2("in_data_B", 0 .. descB.mt-1, LAMBDA m: 0 .. descB.nt-1,
    LAMBDA m, n:
      Forward(B(m, n),
      [B |-> PASS(B(m, n), {Mem(B(m, n))},
                  {<<"B", "zsyr2k", n, m>>}
                    \cup {<<"B", "zgemm_AB", i, n, m>> : i \in 0 .. n-1}
                    \cup {<<"A", "zgemm_BA", n, i, m>> : i \in n+1 .. descC.nt-1})]))

zsyr2k_UT ==
  zsyr2k_UT_zsyr2k @@ zsyr2k_UT_zgemm_AB @@ zsyr2k_UT_zgemm_BA @@ zsyr2k_UT_in_data_A @@
  zsyr2k_UT_in_data_B

-----------------------------------------------------------------------------
zsymm_symm_in_A(side, uplo) ==
  LET c == Form(side, uplo) IN
  Class2("symm_in_A", 0 .. descA.mt-1, LAMBDA m: (IF uplo = "Upper" THEN m ELSE 0) .. (IF uplo = "Upper" THEN descA.nt-1 ELSE m),
    LAMBDA m, n:
      Forward(A(m, n),
      [A |-> PASS(A(m, n), {Mem(A(m, n))},
                  If(c = 0 \/ c = 1, {<<"A", "SYMM", m, i, n>> : i \in 0 .. descC.nt-1})
                    \cup If((c = 0 \/ c = 1) /\ m # n, {<<"A", "SYMM", n, i, m>> : i \in 0 .. descC.nt-1})
                    \cup If(c = 2 \/ c = 3, {<<"B", "SYMM", i, n, m>> : i \in 0 .. descC.mt-1})
                    \cup If((c = 2 \/ c = 3) /\ m # n, {<<"B", "SYMM", i, m, n>> : i \in 0 .. descC.mt-1}))]))

zsymm_symm_in_B(side, uplo) ==
  LET c == Form(side, uplo) IN
  Class2("symm_in_B", 0 .. descB.mt-1, LAMBDA m: 0 .. descB.nt-1,
    LAMBDA m, n:
      Forward(B(m, n),
      [B |-> PASS(B(m, n), {Mem(B(m, n))},
                  If(c = 0 \/ c = 1, {<<"B", "SYMM", i, n, m>> : i \in 0 .. descB.mt-1})
                    \cup If(c = 2 \/ c = 3, {<<"A", "SYMM", m, i, n>> : i \in 0 .. descB.nt-1}))]))

zsymm_SYMM(side, uplo) ==
  LET c == Form(side, uplo) IN
  Class3("SYMM", 0 .. descC.mt-1, LAMBDA m: 0 .. descC.nt-1, LAMBDA m, n: 0 .. (IF side = "Left" THEN descC.mt-1 ELSE descC.nt-1),
    LAMBDA m, n, k:
      Task(C(m, n), <<k>>,
      [A |-> READ(IF side = "Left" THEN Stored(uplo, m, k) ELSE B(m, k),
                  If(c = 0 /\ k <= m, {<<"A", "symm_in_A", m, k>>})
                    \cup If(c = 0 /\ k > m, {<<"A", "symm_in_A", k, m>>})
                    \cup If(c = 1 /\ k <= m, {<<"A", "symm_in_A", k, m>>})
                    \cup If(c = 1 /\ k > m, {<<"A", "symm_in_A", m, k>>})
                    \cup If(c = 2 \/ c = 3, {<<"B", "symm_in_B", m, k>>}),
                  {}),
       B |-> READ(IF side = "Left" THEN B(k, n) ELSE Stored(uplo, k, n),
                  If(c = 2 /\ k <= n, {<<"A", "symm_in_A", n, k>>})
                    \cup If(c = 2 /\ k > n, {<<"A", "symm_in_A", k, n>>})
                    \cup If(c = 3 /\ k <= n, {<<"A", "symm_in_A", k, n>>})
                    \cup If(c = 3 /\ k > n, {<<"A", "symm_in_A", n, k>>})
                    \cup If(c = 0 \/ c = 1, {<<"B", "symm_in_B", k, n>>}),
                  {}),
       C |-> RW(C(m, n), IF k = 0 THEN {Mem(C(m, n))} ELSE {<<"C", "SYMM", m, n, k-1>>},
                IF (side = "Left" /\ k = descC.mt-1) \/ (side = "Right" /\ k = descC.nt-1) THEN {Mem(C(m, n))}
                ELSE {<<"C", "SYMM", m, n, k+1>>})]))

zsymm(side, uplo) ==
  zsymm_symm_in_A(side, uplo) @@ zsymm_symm_in_B(side, uplo) @@ zsymm_SYMM(side, uplo)

-----------------------------------------------------------------------------
zhemm_hemm_in_A(side, uplo) ==
  LET c == Form(side, uplo) IN
  Class2("hemm_in_A", 0 .. descA.mt-1, LAMBDA m: (IF uplo = "Upper" THEN m ELSE 0) .. (IF uplo = "Upper" THEN descA.nt-1 ELSE m),
    LAMBDA m, n:
      Forward(A(m, n),
      [A |-> PASS(A(m, n), {Mem(A(m, n))},
                  If(c = 0 \/ c = 1, {<<"A", "HEMM", m, i, n>> : i \in 0 .. descC.nt-1})
                    \cup If((c = 0 \/ c = 1) /\ m # n, {<<"A", "HEMM", n, i, m>> : i \in 0 .. descC.nt-1})
                    \cup If(c = 2 \/ c = 3, {<<"B", "HEMM", i, n, m>> : i \in 0 .. descC.mt-1})
                    \cup If((c = 2 \/ c = 3) /\ m # n, {<<"B", "HEMM", i, m, n>> : i \in 0 .. descC.mt-1}))]))

zhemm_hemm_in_B(side, uplo) ==
  LET c == Form(side, uplo) IN
  Class2("hemm_in_B", 0 .. descB.mt-1, LAMBDA m: 0 .. descB.nt-1,
    LAMBDA m, n:
      Forward(B(m, n),
      [B |-> PASS(B(m, n), {Mem(B(m, n))},
                  If(c = 0 \/ c = 1, {<<"B", "HEMM", i, n, m>> : i \in 0 .. descB.mt-1})
                    \cup If(c = 2 \/ c = 3, {<<"A", "HEMM", m, i, n>> : i \in 0 .. descB.nt-1}))]))

zhemm_HEMM(side, uplo) ==
  LET c == Form(side, uplo) IN
  Class3("HEMM", 0 .. descC.mt-1, LAMBDA m: 0 .. descC.nt-1, LAMBDA m, n: 0 .. (IF side = "Left" THEN descC.mt-1 ELSE descC.nt-1),
    LAMBDA m, n, k:
      Task(C(m, n), <<k>>,
      [A |-> READ(IF side = "Left" THEN Stored(uplo, m, k) ELSE B(m, k),
                  If(c = 0 /\ k <= m, {<<"A", "hemm_in_A", m, k>>})
                    \cup If(c = 0 /\ k > m, {<<"A", "hemm_in_A", k, m>>})
                    \cup If(c = 1 /\ k <= m, {<<"A", "hemm_in_A", k, m>>})
                    \cup If(c = 1 /\ k > m, {<<"A", "hemm_in_A", m, k>>})
                    \cup If(c = 2 \/ c = 3, {<<"B", "hemm_in_B", m, k>>}),
                  {}),
       B |-> READ(IF side = "Left" THEN B(k, n) ELSE Stored(uplo, k, n),
                  If(c = 2 /\ k <= n, {<<"A", "hemm_in_A", n, k>>})
                    \cup If(c = 2 /\ k > n, {<<"A", "hemm_in_A", k, n>>})
                    \cup If(c = 3 /\ k <= n, {<<"A", "hemm_in_A", k, n>>})
                    \cup If(c = 3 /\ k > n, {<<"A", "hemm_in_A", n, k>>})
                    \cup If(c = 0 \/ c = 1, {<<"B", "hemm_in_B", k, n>>}),
                  {}),
       C |-> RW(C(m, n), IF k = 0 THEN {Mem(C(m, n))} ELSE {<<"C", "HEMM", m, n, k-1>>},
                IF (side = "Left" /\ k = descC.mt-1) \/ (side = "Right" /\ k = descC.nt-1) THEN {Mem(C(m, n))}
                ELSE {<<"C", "HEMM", m, n, k+1>>})]))

zhemm(side, uplo) ==
  zhemm_hemm_in_A(side, uplo) @@ zhemm_hemm_in_B(side, uplo) @@ zhemm_HEMM(side, uplo)

-----------------------------------------------------------------------------
\* dplasma_zherk_New: the graph for the documented arguments.
zherk_New(uplo, trans) ==
  IF uplo = "Lower" THEN IF trans = "NoTrans" THEN zherk_LN ELSE zherk_LC
  ELSE IF trans = "NoTrans" THEN zherk_UN ELSE zherk_UC

\* dplasma_zsyrk_New: the graph for the documented arguments.
zsyrk_New(uplo, trans) ==
  IF uplo = "Lower" THEN IF trans = "NoTrans" THEN zsyrk_LN ELSE zsyrk_LT
  ELSE IF trans = "NoTrans" THEN zsyrk_UN ELSE zsyrk_UT

\* dplasma_zher2k_New: the graph for the documented arguments.
zher2k_New(uplo, trans) ==
  IF uplo = "Lower" THEN IF trans = "NoTrans" THEN zher2k_LN ELSE zher2k_LC
  ELSE IF trans = "NoTrans" THEN zher2k_UN ELSE zher2k_UC

\* dplasma_zsyr2k_New: the graph for the documented arguments.
zsyr2k_New(uplo, trans) ==
  IF uplo = "Lower" THEN IF trans = "NoTrans" THEN zsyr2k_LN ELSE zsyr2k_LT
  ELSE IF trans = "NoTrans" THEN zsyr2k_UN ELSE zsyr2k_UT
==============================================================================
