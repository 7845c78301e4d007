--------------------------- MODULE dplasma_qrtree ---------------------------
(***************************************************************************)
(* The reduction trees of the QR and LQ factorizations.  In panel k of a   *)
(* matrix with mt rows of tiles, every row below k is killed by another    *)
(* row, its pivot.  A tree says which rows are factorized on their own     *)
(* first (type > 0; the others, of type 0, are killed as full tiles), who  *)
(* kills a row, and in which order a row kills others: nextpiv and prevpiv *)
(* walk that list in the two directions, and mt stands for its ends.       *)
(*                                                                         *)
(* A hierarchical tree (dplasma_hqr.c) has four levels: domains of a rows  *)
(* of one process row (TS), a low-level tree over the domains of a process *)
(* row, the domino along the diagonal, and a high-level tree over the p    *)
(* process rows.  The adaptive tree of the bidiagonal reduction is a       *)
(* hierarchical one whose domain size changes from panel to panel, and the *)
(* systolic tree (dplasma_systolic_qr.c) consists of three flat trees.     *)
(*                                                                         *)
(* A tree is a record, as the structure of the source is; the arrays of    *)
(* the levels (ipiv, perm) are functions from row, panel and domain.       *)
(***************************************************************************)
EXTENDS Integers, Sequences, FiniteSets

imin(x, y)  == IF x <= y THEN x ELSE y
imax(x, y)  == IF x >= y THEN x ELSE y
iceil(x, y) == (x + y - 1) \div y

TS == 0
LOCALTREE == 1
DOMINO == 2
DISTTREE == 3

\* The lowest, and the highest, i in a range with ipiv[i] = x; else none.
SearchUp(ipiv, range, x, none) ==
  LET I == {i \in range : ipiv[i] = x}
  IN  IF I = {} THEN none ELSE CHOOSE i \in I : \A j \in I : i <= j
SearchDown(ipiv, range, x, none) ==
  LET I == {i \in range : ipiv[i] = x}
  IN  IF I = {} THEN none ELSE CHOOSE i \in I : \A j \in I : i >= j

\* The candidate of the first level in a range that has one; else none.
FirstLevel(levels, Candidate(_), none) ==
  LET L == {l \in levels : Candidate(l) # none}
  IN  IF L = {} THEN none ELSE Candidate(CHOOSE l \in L : \A j \in L : l <= j)

-----------------------------------------------------------------------------
\* Elimination orders.  All are tables <<row of a level>> |-> its pivot.

\* Row d below the pivot of a binary tree is killed by d less its lowest bit.
RECURSIVE LowestBit(_)
LowestBit(d) == IF d % 2 = 1 THEN 1 ELSE 2 * LowestBit(d \div 2)
BitOf(d, bit) == (d \div 2^bit) % 2
LowestBitIndex(d) == CHOOSE b \in 0 .. d : 2^b = LowestBit(d)
Log2(x) == CHOOSE b \in 0 .. x : 2^b <= x /\ x < 2^(b+1)
SetBit(d, bit) == IF BitOf(d, bit) = 1 THEN d ELSE d + 2^bit

\* Groups of 1, 2, 3, ... rows, each of which the rows before it kill.
Group(m) == CHOOSE f \in 1 .. m : (f * (f-1)) \div 2 < m /\ m <= (f * (f+1)) \div 2
Fibonacci(n) == [m \in 0 .. n-1 |-> IF m = 0 THEN 0 ELSE m - Group(m)]

\* The upper half of the rows that are left kills the lower half.
RECURSIVE Halve(_, _, _, _)
Halve(ipiv, mt, nT, nZ) ==
  LET height == (nT - nZ) \div 2
  IN  IF nZ >= nT - 1 THEN ipiv
      ELSE Halve([j \in DOMAIN ipiv |-> IF j \in mt-nZ-height .. mt-nZ-1 THEN j - height ELSE ipiv[j]],
                 mt, nT, nZ + height)
Zeros(n) == [j \in 0 .. n-1 |-> 0]

\* The greedy order over all panels: rows killed in panel k take part in
\* panel k+1 at once.  nT counts the rows that have reached a panel and nZ
\* those killed in it; a panel is over when its nT2DO rows are there and all
\* but one are killed.  That one joins the next panel, except for the panels
\* in stays.  The rows that reach the next panel are those killed now, in
\* addition to those before, or all that are killed so far.
PanelOver(s, k, nT2DO) == s.nT[k] = nT2DO[k] /\ s.nZ[k] + 1 = s.nT[k]

RECURSIVE SkipPanels(_, _, _, _)
SkipPanels(s, n, nT2DO, stays) ==
  IF s.firstk < n /\ PanelOver(s, s.firstk, nT2DO)
  THEN SkipPanels([s EXCEPT !.firstk = @ + 1,
                            !.nT = [k \in DOMAIN @ |-> IF k = s.firstk + 1 /\ s.firstk \notin stays
                                                       THEN @[k] + 1 ELSE @[k]]],
                  n, nT2DO, stays)
  ELSE [s EXCEPT !.k = s.firstk]

RECURSIVE Greedy(_, _, _, _, _, _)
Greedy(s, mt, n, nT2DO, reached, stays) ==
  LET height == (s.nT[s.k] - s.nZ[s.k]) \div 2
      start  == mt - s.nZ[s.k] - 1
      killed == start-height+1 .. start
  IN  IF s.firstk >= n \/ PanelOver(s, n-1, nT2DO) THEN s.ipiv
      ELSE IF height = 0
      THEN LET z == SkipPanels(s, n, nT2DO, stays)
           IN  IF z.k >= n THEN z.ipiv ELSE Greedy(z, mt, n, nT2DO, reached, stays)
      ELSE Greedy([s EXCEPT !.nZ[s.k] = @ + height,
                            !.nT = [k \in DOMAIN @ |-> IF k = s.k + 1
                                                       THEN (IF reached = "more" THEN @[k] + height ELSE s.nZ[s.k] + height)
                                                       ELSE @[k]],
                            !.ipiv[s.k] = [j \in DOMAIN @ |-> IF j \in killed THEN j - height ELSE @[j]],
                            !.k = IF s.k + 1 > n - 1 THEN s.firstk ELSE s.k + 1],
                  mt, n, nT2DO, reached, stays)

-----------------------------------------------------------------------------
\* The low-level tree: over the ldd domains of a process row.  Its rows m and
\* p are rows of the matrix, what it returns is the number of a domain, and
\* ldd stands for none.  k_a is the domain of the diagonal.
low_k_a(l, k, m) == IF l.domino THEN k \div l.a ELSE (k + l.p - 1 - (m % l.p)) \div (l.p * l.a)
low_p_pa(l, m)   == m \div (l.p * l.a)

hqr_low_flat_currpiv(l, k, m) == low_k_a(l, k, m)
hqr_low_flat_nextpiv(l, k, p, start_pa) ==
  LET k_a == low_k_a(l, k, p)
      p_pa == low_p_pa(l, p)
  IN  CASE start_pa <= p_pa \/ p_pa # k_a \/ l.ldd - k_a <= 1 -> l.ldd
        [] start_pa = l.ldd -> p_pa + 1
        [] OTHER            -> start_pa + 1
hqr_low_flat_prevpiv(l, k, p, start_pa) ==
  LET k_a == low_k_a(l, k, p)
      p_pa == low_p_pa(l, p)
  IN  CASE p_pa # k_a \/ l.ldd - k_a <= 1 -> l.ldd
        [] start_pa = p_pa     -> l.ldd - 1
        [] start_pa > p_pa + 1 -> start_pa - 1
        [] OTHER               -> l.ldd

\* Both binary trees number the rows of a panel from their root: the root
\* kills 1, 2, 4, ..., and row d the rows d + 1, d + 2, ... below its lowest bit.
BinaryPivot(d) == IF d = 0 THEN 0 ELSE d - LowestBit(d)
BinaryNext(offset, start, first) ==
  SetBit(offset, IF first THEN 0 ELSE LowestBitIndex(start) + 1)
BinaryLast(offset, size, Valid(_)) ==
  LET bit == IF offset = 0 THEN Log2(size) ELSE LowestBitIndex(offset)
      B   == {b \in 0 .. bit : SetBit(offset, b) # offset /\ Valid(SetBit(offset, b))}
  IN  IF B = {} THEN -1 ELSE SetBit(offset, CHOOSE b \in B : \A c \in B : c <= b)

hqr_low_binary_currpiv(l, k, m) ==
  LET k_a == low_k_a(l, k, m)
      m_pa == low_p_pa(l, m)
  IN  IF m_pa = k_a THEN 0 ELSE k_a + BinaryPivot(m_pa - k_a)
hqr_low_binary_nextpiv(l, k, p, start_pa) ==
  LET k_a == low_k_a(l, k, p)
      p_pa == low_p_pa(l, p)
      next == BinaryNext(p_pa - k_a, start_pa - k_a, start_pa = l.ldd)
  IN  CASE ~(\/ start_pa = l.ldd \/ ~l.domino
             \/ hqr_low_binary_currpiv(l, k, start_pa * l.a * l.p) = p_pa) -> -1
        [] OTHER -> IF start_pa > p_pa /\ next # p_pa - k_a /\ next + k_a < l.ldd
                    THEN next + k_a ELSE l.ldd
hqr_low_binary_prevpiv(l, k, p, start_pa) ==
  LET k_a == low_k_a(l, k, p)
      p_pa == low_p_pa(l, p)
      last == BinaryLast(p_pa - k_a, l.ldd - k_a, LAMBDA d : d + k_a < l.ldd)
  IN  CASE ~(start_pa >= p_pa /\ (\/ start_pa = p_pa \/ ~l.domino
                                  \/ hqr_low_binary_currpiv(l, k, start_pa * l.a * l.p) = p_pa)) -> -1
        [] start_pa = p_pa /\ (p_pa - k_a) % 2 = 0 -> IF last = -1 THEN l.ldd ELSE last + k_a
        [] start_pa - p_pa > 1 -> p_pa + ((start_pa - p_pa) \div 2)
        [] OTHER -> l.ldd

\* Trees that are kept in a table, one column per panel or per domain of them.
hqr_low_fibonacci_currpiv(l, k, m) == l.ipiv[low_k_a(l, k, m)][low_p_pa(l, m)]
hqr_low_fibonacci_prevpiv(l, k, p, start_pa) ==
  SearchUp(l.ipiv[low_k_a(l, k, p)], start_pa+1 .. l.ldd-1, low_p_pa(l, p), l.ldd)
hqr_low_fibonacci_nextpiv(l, k, p, start_pa) ==
  SearchDown(l.ipiv[low_k_a(l, k, p)], low_k_a(l, k, p)+1 .. start_pa-1, low_p_pa(l, p), l.ldd)

RECURSIVE FibonacciColumns(_, _, _)
FibonacciColumns(ipiv, k, minMN) ==
  IF k = minMN THEN ipiv
  ELSE FibonacciColumns([j \in 0 .. k |-> IF j < k THEN ipiv[j]
                           ELSE [m \in DOMAIN ipiv[0] |-> IF m <= k THEN 0 ELSE ipiv[k-1][m-1] + 1]],
                        k + 1, minMN)
hqr_low_fibonacci_init(l, minMN) ==
  [l EXCEPT !.ipiv = FibonacciColumns([j \in 0 .. 0 |-> Fibonacci(l.ldd)], 1, minMN)]

\* With the domino all process rows share a table, without it each has its own.
low_rank(l, m) == IF l.domino THEN 0 ELSE m % l.p
hqr_low_greedy_currpiv(l, k, m) == l.ipiv[low_rank(l, m)][k][low_p_pa(l, m)]
\* Mutant: all process rows search the table of the first one.
hqr_low_greedy_prevpiv_First(l, k, p, start_pa) ==
  SearchUp(l.ipiv[0][k], start_pa+1 .. l.ldd-1, low_p_pa(l, p), l.ldd)

hqr_low_greedy_prevpiv(l, k, p, start_pa) ==
  SearchUp(l.ipiv[low_rank(l, p)][k], start_pa+1 .. l.ldd-1, low_p_pa(l, p), l.ldd)
hqr_low_greedy_nextpiv(l, k, p, start_pa) ==
  SearchDown(l.ipiv[low_rank(l, p)][k], low_k_a(l, k, p)+1 .. start_pa-1, low_p_pa(l, p), l.ldd)

\* The number of domains of a process row that take part in panel k.
low_nT2DO(l, rank, k) ==
  IF l.domino THEN l.ldd - (k \div l.a)
  ELSE imax(l.ldd - ((k + l.p - 1 - rank) \div (l.p * l.a)), 0)
low_ranks(l) == IF l.domino THEN {0} ELSE 0 .. l.p - 1
low_panels(l, rank, minMN) ==
  IF l.domino THEN imin(minMN, l.ldd * l.a)
  ELSE Cardinality({k \in 0 .. minMN-1 : \A j \in 0 .. k : low_nT2DO(l, rank, j) # 0})

hqr_low_greedy_init(l, minMN) ==
  [l EXCEPT !.ipiv =
     [rank \in low_ranks(l) |->
        LET n == low_panels(l, rank, minMN)
        IN  Greedy([k |-> 0, firstk |-> 0,
                    nT |-> [k \in 0 .. n-1 |-> IF k = 0 THEN l.ldd ELSE 0],
                    nZ |-> [k \in 0 .. n-1 |-> 0],
                    ipiv |-> [k \in 0 .. (IF l.domino THEN n ELSE minMN) - 1 |-> Zeros(l.ldd)]],
                   l.ldd, n, [k \in 0 .. n-1 |-> low_nT2DO(l, rank, k)],
                   "more",
                   {k \in 0 .. n-1 : IF l.domino THEN k % l.a = l.a - 1
                                     ELSE k % (l.p * l.a) = (l.a - 1) * l.p + rank})]]

\* Greedy within each panel.  Its currpiv, nextpiv and prevpiv read the table
\* as those of the greedy tree do.
hqr_low_greedy1p_init(l, minMN) ==
  [l EXCEPT !.ipiv = [rank \in low_ranks(l) |->
                        LET n == low_panels(l, rank, minMN)
                        IN  [k \in 0 .. (IF l.domino THEN n ELSE minMN) - 1 |->
                               IF k >= n THEN Zeros(l.ldd)
                               ELSE Halve(Zeros(l.ldd), l.ldd, low_nT2DO(l, rank, k), 0)]]]

\* The adaptive tree of the bidiagonal reduction: a table per process row and
\* panel, with the size of a domain in that panel and the number of domains.
svd_a(gmt, gnt, p, k, work) ==
  LET height == iceil(gmt - k, p)
      a      == imax((height * (gnt - k)) \div work, 1)
  IN  iceil(gmt - k, iceil(height, a))
svd_low_adaptiv_init(l, gmt, gnt, nbcores, ratio) ==
  [l EXCEPT !.ipiv =
     [rank \in 0 .. l.p-1 |->
        [k \in 0 .. imin(gmt, gnt)-1 |->
           LET a  == svd_a(gmt, gnt, l.p, k, ratio * nbcores)
               mt == iceil(gmt, l.p * a)
               nT == imax(mt - ((k + l.p - 1 - rank) \div (l.p * a)), 0)
           IN  [a |-> a, ldd |-> mt, piv |-> Halve(Zeros(mt), mt, nT, 0)]]]]
svd_low_adaptiv_currpiv(l, k, m) ==
  LET t == l.ipiv[m % l.p][k] IN t.piv[m \div (l.p * t.a)]
svd_low_adaptiv_prevpiv(l, k, p, start_pa) ==
  LET t == l.ipiv[p % l.p][k]
  IN  SearchUp(t.piv, start_pa+1 .. t.ldd-1, p \div (l.p * t.a), t.ldd)
svd_low_adaptiv_nextpiv(l, k, p, start_pa) ==
  LET t == l.ipiv[p % l.p][k]
      k_a == (k + l.p - 1 - (p % l.p)) \div (l.p * t.a)
  IN  SearchDown(t.piv, k_a+1 .. start_pa-1, p \div (l.p * t.a), t.ldd)

low_currpiv(l, k, m) ==
  CASE l.tree = "flat"      -> hqr_low_flat_currpiv(l, k, m)
    [] l.tree = "binary"    -> hqr_low_binary_currpiv(l, k, m)
    [] l.tree = "fibonacci" -> hqr_low_fibonacci_currpiv(l, k, m)
    [] l.tree \in {"greedy", "greedy1p"} -> hqr_low_greedy_currpiv(l, k, m)
    [] l.tree = "adaptive"  -> svd_low_adaptiv_currpiv(l, k, m)
low_nextpiv(l, k, p, start_pa) ==
  CASE l.tree = "flat"      -> hqr_low_flat_nextpiv(l, k, p, start_pa)
    [] l.tree = "binary"    -> hqr_low_binary_nextpiv(l, k, p, start_pa)
    [] l.tree = "fibonacci" -> hqr_low_fibonacci_nextpiv(l, k, p, start_pa)
    [] l.tree \in {"greedy", "greedy1p"} -> hqr_low_greedy_nextpiv(l, k, p, start_pa)
    [] l.tree = "adaptive"  -> svd_low_adaptiv_nextpiv(l, k, p, start_pa)
low_prevpiv(l, k, p, start_pa) ==
  CASE l.tree = "flat"      -> hqr_low_flat_prevpiv(l, k, p, start_pa)
    [] l.tree = "binary"    -> hqr_low_binary_prevpiv(l, k, p, start_pa)
    [] l.tree = "fibonacci" -> hqr_low_fibonacci_prevpiv(l, k, p, start_pa)
    [] l.tree \in {"greedy", "greedy1p"} -> hqr_low_greedy_prevpiv(l, k, p, start_pa)
    [] l.tree = "adaptive"  -> svd_low_adaptiv_prevpiv(l, k, p, start_pa)
low_init(l, minMN) ==
  CASE l.tree \in {"flat", "binary"} -> l
    [] l.tree = "fibonacci" -> hqr_low_fibonacci_init(l, minMN)
    [] l.tree = "greedy"    -> hqr_low_greedy_init(l, minMN)
    [] l.tree = "greedy1p"  -> hqr_low_greedy1p_init(l, minMN)

-----------------------------------------------------------------------------
\* The high-level tree: over the p rows k .. k+p-1, one of each process row.
\* It speaks about rows of the matrix, and ldd is their number.
hqr_high_flat_currpiv(h, k, m) == k
\* Mutant: the last row of the band is forgotten.
hqr_high_flat_nextpiv_Short(h, k, p, start) ==
  CASE p # k \/ h.ldd <= 1 -> h.ldd
    [] start = h.ldd       -> p + 1
    [] start < h.ldd /\ start - k < h.p - 2 -> start + 1
    [] OTHER               -> h.ldd

hqr_high_flat_nextpiv(h, k, p, start) ==
  CASE p # k \/ h.ldd <= 1 -> h.ldd
    [] start = h.ldd       -> p + 1
    [] start < h.ldd /\ start - k < h.p - 1 -> start + 1
    [] OTHER               -> h.ldd
hqr_high_flat_prevpiv(h, k, p, start) ==
  CASE p # k \/ h.ldd <= 1 -> h.ldd
    [] start = p /\ p # h.ldd - 1 -> imin(p + h.p - 1, h.ldd - 1)
    [] start > p + 1 /\ start - k < h.p -> start - 1
    [] OTHER -> h.ldd

hqr_high_binary_currpiv(h, k, m) == IF m = k THEN 0 ELSE k + BinaryPivot(m - k)
hqr_high_binary_nextpiv(h, k, p, start) ==
  LET next == BinaryNext(p - k, start - k, start = h.ldd)
  IN  CASE ~(start = h.ldd \/ hqr_high_binary_currpiv(h, k, start) = p) -> -1
        [] OTHER -> IF start > p /\ next # p - k /\ next < h.p /\ next + k < h.ldd
                    THEN next + k ELSE h.ldd
hqr_high_binary_prevpiv(h, k, p, start) ==
  LET last == BinaryLast(p - k, imin(h.p, h.ldd - k), LAMBDA d : d < h.p /\ d + k < h.ldd)
  IN  CASE ~(start >= p /\ (start = p \/ hqr_high_binary_currpiv(h, k, start) = p)) -> -1
        [] start = p /\ (p - k) % 2 = 0 -> IF last = -1 THEN h.ldd ELSE last + k
        [] start - p > 1 -> p + ((start - p) \div 2)
        [] OTHER -> h.ldd

\* One table for all panels.
hqr_high_fibonacci_currpiv(h, k, m) == h.ipiv[m - k] + k
hqr_high_fibonacci_prevpiv(h, k, p, start) ==
  LET i == SearchUp(h.ipiv, start-k+1 .. imin(h.ldd - k, h.p)-1, p - k, -1)
  IN  CASE ~(p >= k /\ start >= p /\ start - k <= h.p) -> -1
        [] OTHER -> IF i = -1 THEN h.ldd ELSE i + k
hqr_high_fibonacci_nextpiv(h, k, p, start) ==
  LET i == SearchDown(h.ipiv, 1 .. imin(start - k - 1, h.p - 1), p - k, -1)
  IN  CASE ~(p >= k /\ (start = h.ldd \/ start - k <= h.p)) -> -1
        [] OTHER -> IF i = -1 THEN h.ldd ELSE i + k
hqr_high_fibonacci_init(h) == [h EXCEPT !.ipiv = Fibonacci(h.p)]
hqr_high_greedy1p_init(h) ==
  [h EXCEPT !.ipiv = Halve(Zeros(h.p), h.ldd, h.ldd, imax(h.ldd - h.p, 0))]

\* A table per panel.
hqr_high_greedy_currpiv(h, k, m) == IF m >= k /\ m < k + h.p THEN h.ipiv[k][m] ELSE -1
hqr_high_greedy_nextpiv(h, k, p, start) ==
  IF (start >= k /\ start < k + h.p) \/ start = h.ldd
  THEN SearchDown(h.ipiv[k], k+1 .. imin(start - 1, k + h.p - 1), p, h.ldd) ELSE -1
hqr_high_greedy_prevpiv(h, k, p, start) ==
  IF (start >= k /\ start < k + h.p) \/ start = p
  THEN SearchUp(h.ipiv[k], start+1 .. k+h.p-1, p, h.ldd) ELSE -1
hqr_high_greedy_init(h, minMN) ==
  [h EXCEPT !.ipiv =
     Greedy([k |-> 0, firstk |-> 0,
             nT |-> [k \in 0 .. minMN-1 |-> IF k = 0 THEN h.ldd ELSE imax(h.ldd - k - h.p, 0)],
             nZ |-> [k \in 0 .. minMN-1 |-> imax(h.ldd - k - h.p, 0)],
             ipiv |-> [k \in 0 .. minMN-1 |-> [j \in k .. k+h.p-1 |-> 0]]],
            h.ldd, minMN, [k \in 0 .. minMN-1 |-> h.ldd - k],
            "all killed", 0 .. minMN-1)]

high_currpiv(h, k, m) ==
  CASE h.tree = "flat"   -> hqr_high_flat_currpiv(h, k, m)
    [] h.tree = "binary" -> hqr_high_binary_currpiv(h, k, m)
    [] h.tree \in {"fibonacci", "greedy1p"} -> hqr_high_fibonacci_currpiv(h, k, m)
    [] h.tree = "greedy" -> hqr_high_greedy_currpiv(h, k, m)
high_nextpiv(h, k, p, start) ==
  CASE h.tree = "flat"   -> hqr_high_flat_nextpiv(h, k, p, start)
    [] h.tree = "binary" -> hqr_high_binary_nextpiv(h, k, p, start)
    [] h.tree \in {"fibonacci", "greedy1p"} -> hqr_high_fibonacci_nextpiv(h, k, p, start)
    [] h.tree = "greedy" -> hqr_high_greedy_nextpiv(h, k, p, start)
high_prevpiv(h, k, p, start) ==
  CASE h.tree = "flat"   -> hqr_high_flat_prevpiv(h, k, p, start)
    [] h.tree = "binary" -> hqr_high_binary_prevpiv(h, k, p, start)
    [] h.tree \in {"fibonacci", "greedy1p"} -> hqr_high_fibonacci_prevpiv(h, k, p, start)
    [] h.tree = "greedy" -> hqr_high_greedy_prevpiv(h, k, p, start)
high_init(h, minMN) ==
  CASE h.tree \in {"flat", "binary"} -> h
    [] h.tree = "fibonacci" -> hqr_high_fibonacci_init(h)
    [] h.tree = "greedy1p"  -> hqr_high_greedy1p_init(h)
    [] h.tree = "greedy"    -> hqr_high_greedy_init(h, minMN)

-----------------------------------------------------------------------------
\* The hierarchical tree.  Rows of a panel are permuted first, in whole
\* domains, when the killers of the domains take turns (tsrr).
panel_pa(t) == t.p * t.a

\* Rows of type 1 between the diagonal rows and the first whole domain, which
\* starts at row pos1; with the domino there are k rows of it per process row.
nbextra1(t, k) == LET pa == panel_pa(t) IN IF k % pa > pa - t.p THEN pa - (k % pa) ELSE 0
nb23(t, k)     == t.p + (IF t.domino THEN k * (t.p - 1) ELSE nbextra1(t, k))
end2(t, k)     == t.p + (IF t.domino THEN k * t.p ELSE k + nbextra1(t, k))
pos1(t, k)     == iceil(IF t.domino THEN t.p * (k + 1) ELSE t.p + k, panel_pa(t)) * panel_pa(t)

hqr_genperm(t) ==
  LET pa == panel_pa(t)
      endpa == t.mt - (t.mt % pa)
      first(k) == imin(iceil(end2(t, k), pa) * pa, t.mt)
  IN  [k \in 0 .. imin(t.mt, t.nt)-1 |->
         [i \in 0 .. t.mt |->
            CASE t.tsrr /\ i < k -> -1
              [] t.tsrr /\ i >= first(k) /\ i < endpa ->
                   (i - (i % pa)) + (((i % pa) + t.p * (k % t.a)) % pa)
              [] OTHER -> i]]

hqr_getinvperm(t, k, m) ==
  LET pa == panel_pa(t)
      start == (m \div pa) * pa
      I == {i \in start .. imin(start + pa, t.mt + 1) - 1 : i % t.p = m % t.p /\ t.perm[k][i] = m}
  IN  CASE t.a = 1 -> m
        [] t.a # 1 /\ I = {} -> -1
        [] OTHER -> CHOOSE i \in I : \A j \in I : i <= j

hqr_getnbgeqrf(t, k) ==
  LET nb_12 == (t.mt \div panel_pa(t)) * panel_pa(t)
      nb_1  == ((nb_12 - pos1(t, k)) \div t.a) + imin(t.p, t.mt - nb_12)
  IN  imin(nb_1 + nb23(t, k), t.mt - k)

hqr_getm(t, k, i) ==
  LET j == i - nb23(t, k)
  IN  IF i < nb23(t, k) THEN k + i
      ELSE t.perm[k][pos1(t, k) + (j \div t.p) * panel_pa(t) + (j % t.p)]

\* Only rows whose type is not TS have a number; no caller asks for another's.
hqr_geti(t, k, m) ==
  LET lm == hqr_getinvperm(t, k, m)
      j  == lm - pos1(t, k)
  IN  IF lm < end2(t, k) THEN lm - k
      ELSE nb23(t, k) + (j \div panel_pa(t)) * t.p + (j % panel_pa(t))

\* Mutant: the band of the high-level tree is one row too short.
hqr_gettype_Short(t, k, m) ==
  LET lm == hqr_getinvperm(t, k, m)
  IN  CASE lm < k       -> -1
        [] lm \in k .. k + t.p - 2 -> DISTTREE
        [] lm >= k + t.p - 1 /\ t.domino /\ lm < t.p * (k + 1) -> DOMINO
        [] OTHER        -> IF (lm \div t.p) % t.a = 0 THEN LOCALTREE ELSE TS

hqr_gettype(t, k, m) ==
  LET lm == hqr_getinvperm(t, k, m)
  IN  CASE lm < k       -> -1
        [] lm \in k .. k + t.p - 1 -> DISTTREE
        [] lm >= k + t.p /\ t.domino /\ lm < t.p * (k + 1) -> DOMINO
        [] OTHER        -> IF (lm \div t.p) % t.a = 0 THEN LOCALTREE ELSE TS

\* The row at the head of a domain, which is one of the diagonal rows if the
\* domain is the one of the diagonal.
DomainHead(t, k, lm, domain) ==
  IF t.domino
  THEN IF domain = k \div t.a THEN k * t.p + (lm % t.p) ELSE domain * panel_pa(t) + (lm % t.p)
  ELSE IF domain = k \div panel_pa(t) THEN k + ((lm - k) % t.p) ELSE domain * panel_pa(t) + (lm % t.p)

hqr_currpiv(t, k, m) ==
  LET lm   == hqr_getinvperm(t, k, m)
      type == hqr_gettype(t, k, m)
  IN  CASE t.p # 1 /\ (lm \div panel_pa(t) # m \div panel_pa(t) \/ lm % t.p # m % t.p) -> -1
        [] type = TS        -> t.perm[k][DomainHead(t, k, lm, lm \div panel_pa(t))]
        [] type = LOCALTREE -> t.perm[k][DomainHead(t, k, lm, low_currpiv(t.llvl, k, lm))]
        [] type = DOMINO    -> m - t.p
        [] type = DISTTREE /\ t.p > 1 ->
             IF t.domino THEN high_currpiv(t.hlvl, k, lm) ELSE t.perm[k][high_currpiv(t.hlvl, k, lm)]
        [] OTHER -> t.mt

\* A second search when the low-level tree names a domain beyond the matrix.
LowStep(t, Step(_), domain, rank) ==
  LET d == Step(domain)
      e == IF d * panel_pa(t) + rank >= t.mt /\ d = t.llvl.ldd - 1 THEN Step(d) ELSE d
  IN  IF e = t.llvl.ldd THEN t.mt ELSE e * panel_pa(t) + rank

\* The levels in the order in which a row kills: each goes on behind start if
\* start is one of its rows, and begins anew otherwise.
hqr_nextpiv(t, k, opivot, ostart) ==
  LET start == hqr_getinvperm(t, k, ostart)
      pivot == hqr_getinvperm(t, k, opivot)
      ls    == IF start < t.mt THEN hqr_gettype(t, k, ostart) ELSE -1
      lp    == hqr_gettype(t, k, opivot)
      above == t.domino /\ pivot \div t.p < k
      From(level) == IF level = imax(ls, 0) THEN start ELSE t.mt
      Next(level) ==
        CASE level = TS ->
               LET n == IF From(TS) = t.mt THEN pivot + t.p ELSE start + t.p
               IN  IF ~above /\ n < t.mt /\ n < pivot + panel_pa(t) /\ (n \div t.p) % t.a # 0
                   THEN n ELSE t.mt
          [] level = LOCALTREE ->
               IF above THEN t.mt
               ELSE LowStep(t, LAMBDA d : low_nextpiv(t.llvl, k, pivot, d),
                            IF From(LOCALTREE) = t.mt THEN t.llvl.ldd ELSE start \div panel_pa(t),
                            pivot % t.p)
          [] level = DOMINO ->
               IF lp >= DOMINO /\ above /\ From(DOMINO) = t.mt /\ pivot + t.p < t.mt
               THEN pivot + t.p ELSE t.mt
          [] level = DISTTREE ->
               IF lp >= DISTTREE /\ t.p > 1 THEN high_nextpiv(t.hlvl, k, pivot, From(DISTTREE)) ELSE t.mt
  IN  CASE ~(start > pivot /\ pivot >= k) -> -1
        [] start # t.mt /\ opivot # hqr_currpiv(t, k, ostart) -> -1
        [] ls = -1 /\ lp = TS -> t.mt
        [] OTHER -> t.perm[k][FirstLevel(imax(ls, 0) .. 3, Next, t.mt)]

\* The other way round: from the high-level tree down to the domain.
hqr_prevpiv(t, k, opivot, ostart) ==
  LET start == hqr_getinvperm(t, k, ostart)
      pivot == hqr_getinvperm(t, k, opivot)
      ls    == hqr_gettype(t, k, ostart)
      lp    == hqr_gettype(t, k, opivot)
      above == t.domino /\ pivot \div t.p < k
      From(level) == IF level = ls THEN start ELSE pivot
      Previous(level) ==
        CASE level = DISTTREE ->
               IF t.p > 1 THEN high_prevpiv(t.hlvl, k, pivot, start) ELSE t.mt
          [] level = DOMINO ->
               IF above /\ From(DOMINO) = pivot /\ pivot + t.p < t.mt THEN pivot + t.p ELSE t.mt
          [] level = LOCALTREE ->
               IF above THEN t.mt
               ELSE LowStep(t, LAMBDA d : low_prevpiv(t.llvl, k, pivot, d),
                            From(LOCALTREE) \div panel_pa(t), pivot % t.p)
          [] level = TS ->
               LET last == (pivot \div t.p + t.a - 1 - ((pivot \div t.p) % t.a)) * t.p + (pivot % t.p)
                   N    == IF From(TS) = pivot
                           THEN {x \in pivot .. imin(last, t.mt - 1) : (last - x) % t.p = 0}
                           ELSE {start - t.p}
                   n    == CHOOSE x \in N : \A y \in N : y <= x
               IN  IF (ls = TS \/ ~above) /\ n > pivot THEN n ELSE t.mt
      Order(i) == Previous(3 - i)
  IN  CASE ~(start >= pivot /\ pivot >= k /\ start < t.mt) -> -1
        [] start # pivot /\ opivot # hqr_currpiv(t, k, ostart) -> -1
        [] lp = TS -> t.mt
        [] lp < ls -> -1
        [] OTHER -> t.perm[k][FirstLevel(3 - ls .. 3, Order, t.mt)]

\* What the caller gets for its arguments: -i if the i-th is wrong, else the tree.
TransArgs == {"NoTrans", "Trans", "ConjTrans"}
IsNULL(A) == DOMAIN A = {}
dplasma_hqr_init(trans, A, type_llvl, type_hlvl, a_, p_, domino_, tsrr) ==
  LET mt     == IF trans = "NoTrans" THEN A.mt ELSE A.nt
      nt     == IF trans = "NoTrans" THEN A.nt ELSE A.mt
      a      == imin(IF a_ = -1 THEN 4 ELSE imax(a_, 1), mt)
      p      == imax(p_, 1)
      flat   == domino_ < 0 /\ 2 * nt >= mt   \* ratio >= 0.5
      domino == IF domino_ >= 0 THEN domino_ # 0 ELSE ~flat
      minMN  == imin(mt, nt)
      llvl   == [tree |-> IF type_llvl = "default" THEN "greedy" ELSE type_llvl,
                 ldd |-> iceil(mt, p * a), a |-> a, p |-> p, domino |-> domino, ipiv |-> <<>>]
      hlvl   == [tree |-> CASE type_hlvl # "default" -> type_hlvl
                            [] type_hlvl = "default" /\ flat -> "flat"
                            [] OTHER -> "fibonacci",
                 ldd |-> mt, p |-> p, ipiv |-> <<>>]
      tree   == [kind |-> "hqr", mt |-> mt, nt |-> nt, a |-> a, p |-> p,
                 domino |-> domino, tsrr |-> tsrr, perm |-> <<>>,
                 llvl |-> low_init(llvl, minMN),
                 hlvl |-> IF p > 1 THEN high_init(hlvl, minMN) ELSE hlvl]
  IN  CASE trans \notin TransArgs -> -2
        [] trans \in TransArgs /\ IsNULL(A) -> -3
        [] OTHER -> [tree EXCEPT !.perm = hqr_genperm(tree)]

-----------------------------------------------------------------------------
\* The adaptive tree: in panel k, the hierarchical one for the domains that
\* process row 0 has in it.
dplasma_svd_init(trans, A, type_hlvl, p_, nbthread_per_node, ratio) ==
  LET mt    == IF trans = "NoTrans" THEN A.mt ELSE A.nt
      nt    == IF trans = "NoTrans" THEN A.nt ELSE A.mt
      p     == imax(p_, 1)
      minMN == imin(mt, nt)
      llvl  == [tree |-> "adaptive", ldd |-> iceil(mt, p), a |-> -1, p |-> p, domino |-> FALSE,
                ipiv |-> <<>>]
      hlvl  == [tree |-> IF type_hlvl = "default" THEN "fibonacci" ELSE type_hlvl,
                ldd |-> mt, p |-> p, ipiv |-> <<>>]
  IN  CASE trans \notin TransArgs -> -2
        [] trans \in TransArgs /\ IsNULL(A) -> -3
        [] OTHER ->
             [kind |-> "svd", mt |-> mt, nt |-> nt, a |-> -1, p |-> p, domino |-> FALSE, tsrr |-> FALSE,
              perm |-> [k \in 0 .. minMN-1 |-> [i \in 0 .. mt |-> i]],
              llvl |-> svd_low_adaptiv_init(llvl, mt, nt, nbthread_per_node * (A.nodes \div p), ratio),
              hlvl |-> IF p > 1 THEN high_init(hlvl, minMN) ELSE hlvl]

svd_getipiv(t, k) ==
  LET d == t.llvl.ipiv[0][k] IN [t EXCEPT !.a = d.a, !.llvl = [@ EXCEPT !.a = d.a, !.ldd = d.ldd]]
svd_getnbgeqrf(t, k)            == hqr_getnbgeqrf(svd_getipiv(t, k), k)
svd_getm(t, k, i)               == hqr_getm(svd_getipiv(t, k), k, i)
svd_geti(t, k, m)               == hqr_geti(svd_getipiv(t, k), k, m)
svd_gettype(t, k, m)            == hqr_gettype(svd_getipiv(t, k), k, m)
svd_currpiv(t, k, m)            == hqr_currpiv(svd_getipiv(t, k), k, m)
svd_nextpiv(t, k, pivot, start) == hqr_nextpiv(svd_getipiv(t, k), k, pivot, start)
svd_prevpiv(t, k, pivot, start) == hqr_prevpiv(svd_getipiv(t, k), k, pivot, start)

-----------------------------------------------------------------------------
\* The systolic tree: pq rows are factorized in a panel, and kill the others
\* as full tiles; p of them kill the rest of the pq; and the first kills those.
dplasma_systolic_init(trans, A, p, q) ==
  CASE trans \notin TransArgs -> -2
    [] trans \in TransArgs /\ IsNULL(A) -> -3
    [] trans \in TransArgs /\ ~IsNULL(A) /\ p < 0 -> -4
    [] trans \in TransArgs /\ ~IsNULL(A) /\ p >= 0 /\ q < -1 -> -5
    [] OTHER -> [kind |-> "systolic", a |-> imax(q, 1), p |-> imax(p, 1),
                 mt |-> IF trans = "NoTrans" THEN A.mt ELSE A.nt,
                 nt |-> IF trans = "NoTrans" THEN A.nt ELSE A.mt]

systolic_getnbgeqrf(t, k) == imin(panel_pa(t), t.mt - k)
systolic_getm(t, k, i)    == k + i
systolic_geti(t, k, m)    == m - k
systolic_gettype(t, k, m) ==
  CASE m >= k + panel_pa(t) -> TS
    [] m \in k + t.p .. k + panel_pa(t) - 1 -> LOCALTREE
    [] OTHER -> DISTTREE
systolic_currpiv(t, k, m) ==
  LET type == systolic_gettype(t, k, m)
  IN  CASE type = TS -> ((m - k) % panel_pa(t)) + k
        [] type = LOCALTREE -> ((m - k) % t.p) + k
        [] type = DISTTREE -> k

systolic_nextpiv(t, k, pivot, start) ==
  LET ls == IF start < t.mt THEN systolic_gettype(t, k, start) ELSE -1
      lp == systolic_gettype(t, k, pivot)
      After(level, step) == (IF level = imax(ls, 0) /\ start # t.mt THEN start ELSE pivot) + step
      Next(level) ==
        CASE level = TS -> LET n == After(TS, panel_pa(t)) IN IF n < t.mt THEN n ELSE t.mt
          [] level = LOCALTREE ->
               LET n == After(LOCALTREE, t.p)
               IN  IF lp >= DISTTREE /\ n >= k + t.p /\ n < k + panel_pa(t) /\ n < t.mt THEN n ELSE t.mt
          [] level = DISTTREE ->
               LET n == After(DISTTREE, 1) IN IF lp >= DISTTREE /\ pivot <= k /\ n < k + t.p THEN n ELSE t.mt
  IN  CASE ~(start > pivot /\ pivot >= k) -> -1
        [] start # t.mt /\ pivot # systolic_currpiv(t, k, start) -> -1
        [] ls = -1 /\ lp = TS -> t.mt
        [] OTHER -> FirstLevel(imax(ls, 0) .. 3 \ {DOMINO}, Next, t.mt)

\* The last row below mt, and not above pivot, that lies a multiple of step before n.
Below(t, pivot, n, step) ==
  IF n < t.mt \/ n <= pivot THEN n
  ELSE LET N == {x \in pivot - step .. t.mt - 1 : (n - x) % step = 0}
       IN  CHOOSE x \in N : \A y \in N : y <= x
systolic_prevpiv(t, k, pivot, start) ==
  LET pq == panel_pa(t)
      ls == systolic_gettype(t, k, start)
      lp == systolic_gettype(t, k, pivot)
      Before(level, last, step) ==
        IF level # ls \/ start = pivot THEN Below(t, pivot, last, step) ELSE start - step
      Previous(level) ==
        CASE level = DISTTREE ->
               LET n == Before(DISTTREE, pivot + t.p - 1, 1)
               IN  IF pivot = k /\ n > pivot /\ n < k + t.p THEN n ELSE t.mt
          [] level = LOCALTREE ->
               LET n == Before(LOCALTREE, pivot + (t.a - 1) * t.p, t.p)
               IN  IF lp > LOCALTREE /\ n > pivot /\ n < k + pq THEN n ELSE t.mt
          [] level = TS ->
               LET n == Before(TS, t.mt - ((t.mt - (pivot % pq) - 1) % pq) - 1, pq)
               IN  IF lp > TS /\ n > pivot THEN n ELSE t.mt
      Order(i) == Previous(3 - i)
  IN  CASE ~(start >= pivot /\ pivot >= k /\ start < t.mt) -> -1
        [] start # pivot /\ pivot # systolic_currpiv(t, k, start) -> -1
        [] lp = TS -> t.mt
        [] lp < ls -> -1
        [] OTHER -> FirstLevel(3 - ls .. 3 \ {3 - DOMINO}, Order, t.mt)

-----------------------------------------------------------------------------
\* The functions of a tree.
getnbgeqrf(t, k) ==
  CASE t.kind = "hqr" -> hqr_getnbgeqrf(t, k) [] t.kind = "svd" -> svd_getnbgeqrf(t, k)
    [] t.kind = "systolic" -> systolic_getnbgeqrf(t, k)
getm(t, k, i) ==
  CASE t.kind = "hqr" -> hqr_getm(t, k, i) [] t.kind = "svd" -> svd_getm(t, k, i)
    [] t.kind = "systolic" -> systolic_getm(t, k, i)
geti(t, k, m) ==
  CASE t.kind = "hqr" -> hqr_geti(t, k, m) [] t.kind = "svd" -> svd_geti(t, k, m)
    [] t.kind = "systolic" -> systolic_geti(t, k, m)
gettype(t, k, m) ==
  CASE t.kind = "hqr" -> hqr_gettype(t, k, m) [] t.kind = "svd" -> svd_gettype(t, k, m)
    [] t.kind = "systolic" -> systolic_gettype(t, k, m)
currpiv(t, k, m) ==
  CASE t.kind = "hqr" -> hqr_currpiv(t, k, m) [] t.kind = "svd" -> svd_currpiv(t, k, m)
    [] t.kind = "systolic" -> systolic_currpiv(t, k, m)
nextpiv(t, k, p, m) ==
  CASE t.kind = "hqr" -> hqr_nextpiv(t, k, p, m) [] t.kind = "svd" -> svd_nextpiv(t, k, p, m)
    [] t.kind = "systolic" -> systolic_nextpiv(t, k, p, m)
prevpiv(t, k, p, m) ==
  CASE t.kind = "hqr" -> hqr_prevpiv(t, k, p, m) [] t.kind = "svd" -> svd_prevpiv(t, k, p, m)
    [] t.kind = "systolic" -> systolic_prevpiv(t, k, p, m)
=============================================================================
