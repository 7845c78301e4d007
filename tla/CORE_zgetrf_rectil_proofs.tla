----------------------- MODULE CORE_zgetrf_rectil_proofs -----------------------
(***************************************************************************)
(* The threads of a panel share it without a lock.  Every row, and every   *)
(* column of a swap or a solve, belongs to exactly one thread, and the     *)
(* triangle U to thread 0.  The programs of the threads make the same      *)
(* calls of CORE_zamax1_thread in the same order, and the number of calls  *)
(* from which a thread has returned tells what it may touch.  Hence two    *)
(* threads inside the same call mean the same one (ThreadsMeet), and no    *)
(* two threads ever touch the same element, one of them to change it       *)
(* (RaceFree), for all sizes of the panel, of its tiles and of the gang,   *)
(* and for all pivots.                                                     *)
(***************************************************************************)
EXTENDS CORE_zgetrf_rectil, FiniteSetTheorems, SequenceTheorems, TLAPS

\* Division with remainder, for the provers.
LEMMA DivMod ==
  ASSUME NEW a \in Nat, NEW b \in Nat \ {0}
  PROVE  /\ a \div b \in Nat /\ a % b \in 0 .. b-1
         /\ a = b * (a \div b) + (a % b)
  BY SMT

\* A product grows with its first factor.
LEMMA Monotone ==
  ASSUME NEW a \in Int, NEW b \in Int, NEW c \in Nat, a <= b
  PROVE  a * c <= b * c
  BY SMT

\* A number lies in the multiple of b that its quotient names, and in no other.
LEMMA Block ==
  ASSUME NEW a \in Nat, NEW b \in Nat \ {0}
  PROVE  a \div b \in Nat /\ (a \div b) * b <= a /\ a < (a \div b + 1) * b
<1> DEFINE d == a \div b
           e == a % b
<1>1. d \in Nat /\ e \in 0 .. b-1 /\ a = b * d + e
  BY DivMod
<1> HIDE DEF d, e
<1>2. d \in Nat /\ d * b <= a /\ a < (d + 1) * b
  BY <1>1
<1> QED BY <1>2 DEF d

-----------------------------------------------------------------------------
\* psplit deals the numbers below size out to cnt threads, each number to exactly one of them, also
\* where there are fewer numbers than threads (psplit of core_zgetrf_reclap.c; the tiles of a thread in
\* core_zgetrf_rectil.c are dealt the same way).
THEOREM SplitPartitions ==
  ASSUME NEW size \in Nat, NEW cnt \in Nat \ {0}
  PROVE  /\ \A t \in 0 .. cnt-1 : psplit(size, t, cnt) \subseteq 0 .. size-1
         /\ \A x \in 0 .. size-1 : \E t \in 0 .. cnt-1 : x \in psplit(size, t, cnt)
         /\ \A t, u \in 0 .. cnt-1 : t # u => psplit(size, t, cnt) \cap psplit(size, u, cnt) = {}
<1> DEFINE k   == size \div cnt
           e   == size % cnt
           off(t) == IF t < e THEN t * (k + 1) ELSE e * (k + 1) + (t - e) * k
<1>1. k \in Nat /\ e \in 0 .. cnt-1 /\ size = cnt * k + e
  BY DivMod
<1>2. \A t \in 0 .. cnt : off(t) \in Nat
  <2> HIDE DEF k, e
  <2> QED BY <1>1
<1>3. \A t \in 0 .. cnt-1 : psplit(size, t, cnt) = off(t) .. off(t + 1) - 1
  <2> SUFFICES ASSUME NEW t \in 0 .. cnt-1
               PROVE  psplit(size, t, cnt) = off(t) .. off(t + 1) - 1
    OBVIOUS
  <2>1. psplit(size, t, cnt) = off(t) .. off(t) + (IF t < e THEN k + 1 ELSE k) - 1
    BY DEF psplit
  <2> HIDE DEF k, e
  <2>2. CASE t + 1 < e
    BY <1>1, <2>1, <2>2
  <2>3. CASE t + 1 = e
    BY <1>1, <2>1, <2>3
  <2>4. CASE t + 1 > e
    BY <1>1, <2>1, <2>4
  <2> QED BY <1>1, <2>2, <2>3, <2>4
<1>4. off(0) = 0 /\ off(cnt) = size
  <2> HIDE DEF k, e
  <2> QED BY <1>1
<1>5. \A t, u \in 0 .. cnt : t <= u => off(t) <= off(u)
  <2> HIDE DEF k, e
  <2> SUFFICES ASSUME NEW t \in 0 .. cnt, NEW u \in 0 .. cnt, t <= u
               PROVE  off(t) <= off(u)
    OBVIOUS
  <2>1. CASE u < e
    BY <1>1, <2>1, Monotone
  <2>2. CASE t >= e
    BY <1>1, <2>2, Monotone
  <2>3. CASE t < e /\ u >= e
    <3>1. t * (k + 1) <= e * (k + 1)
      BY <1>1, <2>3, Monotone
    <3>2. (u - e) * k >= 0
      BY <1>1, <2>3
    <3> QED BY <1>1, <2>3, <3>1, <3>2
  <2> QED BY <1>1, <2>1, <2>2, <2>3
<1>6. ASSUME NEW x \in 0 .. size-1
      PROVE  \E t \in 0 .. cnt-1 : x \in off(t) .. off(t + 1) - 1
  <2>1. CASE x < e * (k + 1)
    <3> DEFINE t == x \div (k + 1)
    <3>1. t \in Nat /\ t * (k + 1) <= x /\ x < (t + 1) * (k + 1)
      <4> HIDE DEF k, e, t
      <4>1. x \in Nat /\ k + 1 \in Nat \ {0}
        BY <1>1
      <4> QED BY <4>1, Block DEF t
    <3> HIDE DEF k, e, t
    <3>2. t < e
      BY <1>1, <2>1, <3>1, Monotone
    <3>3. off(t) <= x /\ x < off(t + 1)
      BY <1>1, <3>1, <3>2
    <3>4. t \in 0 .. cnt-1 /\ off(t) \in Int /\ off(t + 1) \in Int
      BY <1>1, <1>2, <3>1, <3>2
    <3> QED BY <3>3, <3>4
  <2>2. CASE x >= e * (k + 1)
    <3> DEFINE y == x - e * (k + 1)
               t == y \div k
    <3> HIDE DEF k, e
    <3>1. y \in Nat /\ y < (cnt - e) * k
      BY <1>1, <2>2
    <3>2. k \in Nat \ {0}
      BY <1>1, <3>1
    <3>3. t \in Nat /\ t * k <= y /\ y < (t + 1) * k
      <4> HIDE DEF y, t
      <4> QED BY <3>1, <3>2, Block DEF t
    <3>4. t < cnt - e
      <4> HIDE DEF y, t
      <4> QED BY <1>1, <3>1, <3>3, Monotone
    <3>5. off(e + t) <= x /\ x < off(e + t + 1)
      <4> HIDE DEF t
      <4> QED BY <1>1, <2>2, <3>3
    <3> HIDE DEF t
    <3>6. e + t \in 0 .. cnt-1 /\ off(e + t) \in Int /\ off(e + t + 1) \in Int
      BY <1>1, <1>2, <3>3, <3>4
    <3> QED BY <3>5, <3>6
  <2> HIDE DEF k, e
  <2> QED BY <1>1, <2>1, <2>2
<1> HIDE DEF off, k, e
<1>7. \A t \in 0 .. cnt-1 : psplit(size, t, cnt) \subseteq 0 .. size-1
  BY <1>2, <1>3, <1>4, <1>5
<1>8. \A t, u \in 0 .. cnt-1 : t < u => psplit(size, t, cnt) \cap psplit(size, u, cnt) = {}
  <2> SUFFICES ASSUME NEW t \in 0 .. cnt-1, NEW u \in 0 .. cnt-1, t < u
               PROVE  psplit(size, t, cnt) \cap psplit(size, u, cnt) = {}
    OBVIOUS
  <2>1. off(t + 1) <= off(u) /\ off(t + 1) \in Nat /\ off(u) \in Nat /\ off(t) \in Nat /\ off(u + 1) \in Nat
    BY <1>2, <1>5
  <2> QED BY <1>3, <2>1
<1>9. \A x \in 0 .. size-1 : \E t \in 0 .. cnt-1 : x \in psplit(size, t, cnt)
  BY <1>3, <1>6
<1> QED BY <1>7, <1>8, <1>9

\* The number of threads, of tiles, and the first and last tile of a thread.
LEMMA Counts ==
  /\ mt \in Nat \ {0} /\ (mt - 1) * mb < m /\ m <= mt * mb
  /\ \A s \in {"TILED", "LAPACK"} : thcnt[s] \in Nat \ {0}
  /\ thcnt["TILED"] <= mt
  /\ m < n => thcnt["LAPACK"] = 1
  /\ m >= n => thcnt["LAPACK"] * n <= m
<1>1. mt \in Nat \ {0} /\ (mt - 1) * mb < m /\ m <= mt * mb
  <2> DEFINE a == m + mb - 1
             d == a \div mb
  <2>1. a \in Nat /\ mb \in Nat \ {0}
    BY SizeAssumption
  <2> HIDE DEF a, d
  <2>2. d \in Nat /\ d * mb <= a /\ a < (d + 1) * mb
    BY <2>1, Block DEF d
  <2>3. (d - 1) * mb < m /\ m <= d * mb
    BY <2>1, <2>2, SizeAssumption DEF a
  <2>4. d # 0
    BY <2>3, SizeAssumption
  <2> QED BY <2>2, <2>3, <2>4 DEF d, a, mt
<1> DEFINE h == m \div n
<1>2. h \in Nat /\ h * n <= m /\ m < (h + 1) * n
  BY SizeAssumption, Block
<1> HIDE DEF h
<1>3. thcnt["TILED"] = Least(nbthrd, mt) /\ thcnt["LAPACK"] = Least(nbthrd, IF h = 0 THEN 1 ELSE h)
  BY DEF thcnt, h
<1>4. thcnt["TILED"] \in Nat \ {0} /\ thcnt["LAPACK"] \in Nat \ {0} /\ thcnt["TILED"] <= mt
  BY <1>1, <1>2, <1>3, SizeAssumption DEF Least
<1>5. ASSUME m < n PROVE thcnt["LAPACK"] = 1
  <2>1. h = 0
    BY <1>2, <1>5, SizeAssumption
  <2> QED BY <1>3, <2>1, SizeAssumption DEF Least
<1>6. ASSUME m >= n PROVE thcnt["LAPACK"] * n <= m
  <2>1. h # 0
    BY <1>2, <1>6, SizeAssumption
  <2>2. thcnt["LAPACK"] <= h
    BY <1>2, <1>3, <2>1, SizeAssumption DEF Least
  <2>3. thcnt["LAPACK"] * n <= h * n
    BY <1>2, <1>4, <2>2, SizeAssumption, Monotone
  <2> QED BY <1>2, <1>4, <2>3, SizeAssumption
<1> QED BY <1>1, <1>4, <1>5, <1>6

\* The tile rows ft .. lt-1 are those that psplit deals to the thread.
LEMMA TilesDealt ==
  \A t \in Gang("TILED") : ft(t) .. lt(t)-1 = psplit(mt, t, thcnt["TILED"])
<1> SUFFICES ASSUME NEW t \in Gang("TILED")
             PROVE  ft(t) .. lt(t)-1 = psplit(mt, t, thcnt["TILED"])
  OBVIOUS
<1> DEFINE c == thcnt["TILED"]
<1>1. c \in Nat \ {0} /\ mt \in Nat /\ t \in 0 .. c-1
  BY Counts DEF Gang
<1>2. q \in Nat /\ r \in 0 .. c-1 /\ mt = c * q + r
  BY <1>1, DivMod DEF q, r
<1>3. psplit(mt, t, c) = ft(t) .. ft(t) + (IF t < r THEN q + 1 ELSE q) - 1
  BY DEF psplit, ft, q, r
<1> HIDE DEF c
<1>4. ft(t) \in Nat
  BY <1>1, <1>2 DEF ft
<1>5. CASE t < r
  BY <1>2, <1>3, <1>4, <1>5 DEF lt, c
<1>6. CASE t >= r
  <2>1. ft(t) + q = r + (t + 1) * q
    BY <1>1, <1>2, <1>6 DEF ft
  <2>2. (t + 1) * q <= c * q
    BY <1>1, <1>2, Monotone
  <2>3. ft(t) + q <= mt
    BY <1>1, <1>2, <1>4, <2>1, <2>2
  <2>4. lt(t) = ft(t) + q
    BY <1>1, <1>2, <1>4, <1>6, <2>3 DEF lt, Least
  <2> QED BY <1>1, <1>2, <1>3, <1>4, <1>6, <2>4 DEF c
<1> QED BY <1>1, <1>2, <1>5, <1>6

\* Every row of the panel has exactly one owner, in both layouts, however the rows, the tiles and the
\* threads divide: a row without an owner would never be updated, one with two be updated twice.
THEOREM RowsPartitioned ==
  \A s \in Storages :
    /\ \A t \in Gang(s) : Share(s, t) \subseteq Rows
    /\ \A i \in Rows : \E t \in Gang(s) : i \in Share(s, t)
    /\ \A t, u \in Gang(s) : t # u => Share(s, t) \cap Share(s, u) = {}
<1>1. m \in Nat \ {0} /\ mb \in Nat \ {0} /\ Storages \subseteq {"TILED", "LAPACK"}
  BY SizeAssumption
<1>2. /\ \A t \in Gang("LAPACK") : Share("LAPACK", t) \subseteq Rows
      /\ \A i \in Rows : \E t \in Gang("LAPACK") : i \in Share("LAPACK", t)
      /\ \A t, u \in Gang("LAPACK") : t # u => Share("LAPACK", t) \cap Share("LAPACK", u) = {}
  <2> DEFINE c    == thcnt["LAPACK"]
             P(t) == psplit(m, t, c)
  <2>1. c \in Nat \ {0} /\ m \in Nat
    BY Counts, <1>1
  <2>2. Gang("LAPACK") = 0 .. c-1 /\ Rows = 0 .. m-1
    BY DEF Gang, Rows
  <2>3. \A t \in 0 .. c-1 : Share("LAPACK", t) = P(t)
    BY DEF Share
  <2>4. /\ \A t \in 0 .. c-1 : P(t) \subseteq 0 .. m-1
        /\ \A x \in 0 .. m-1 : \E t \in 0 .. c-1 : x \in P(t)
        /\ \A t, u \in 0 .. c-1 : t # u => P(t) \cap P(u) = {}
    <3> HIDE DEF c
    <3> QED BY <2>1, SplitPartitions, ZenonT(30)
  <2> HIDE DEF c, P
  <2>5. ASSUME NEW t \in Gang("LAPACK")
        PROVE  Share("LAPACK", t) \subseteq Rows
    <3>1. t \in 0 .. c-1
      BY <2>2
    <3>2. Share("LAPACK", t) = P(t) /\ P(t) \subseteq 0 .. m-1
      BY <2>3, <2>4, <3>1
    <3> QED BY <2>2, <3>2, ZenonT(30)
  <2>6. ASSUME NEW i \in Rows
        PROVE  \E t \in Gang("LAPACK") : i \in Share("LAPACK", t)
    <3>1. i \in 0 .. m-1
      BY <2>2
    <3>2. PICK t \in 0 .. c-1 : i \in P(t)
      BY <2>4, <3>1
    <3>3. i \in Share("LAPACK", t)
      BY <2>3, <3>2
    <3> QED BY <2>2, <3>2, <3>3, ZenonT(30)
  <2>7. ASSUME NEW t \in Gang("LAPACK"), NEW u \in Gang("LAPACK"), t # u
        PROVE  Share("LAPACK", t) \cap Share("LAPACK", u) = {}
    BY <2>2, <2>3, <2>4, <2>7
  <2> QED BY <2>5, <2>6, <2>7
<1>3. /\ \A t \in Gang("TILED") : Share("TILED", t) \subseteq Rows
      /\ \A i \in Rows : \E t \in Gang("TILED") : i \in Share("TILED", t)
      /\ \A t, u \in Gang("TILED") : t # u => Share("TILED", t) \cap Share("TILED", u) = {}
  <2> DEFINE c == thcnt["TILED"]
             P(t) == psplit(mt, t, c)
  <2>1. c \in Nat \ {0} /\ mt \in Nat
    BY Counts
  <2>2. Gang("TILED") = 0 .. c-1
    BY DEF Gang
  <2>3. \A t \in 0 .. c-1 : Share("TILED", t) = {i \in Rows : i \div mb \in P(t)}
    <3> TAKE t \in 0 .. c-1
    <3>1. Share("TILED", t) = UNION {TileRows(it) : it \in P(t)}
      BY <2>2, TilesDealt DEF Share
    <3> HIDE DEF P
    <3> QED BY <3>1 DEF TileRows
  <2>4. /\ \A x \in 0 .. mt-1 : \E t \in 0 .. c-1 : x \in P(t)
        /\ \A t, u \in 0 .. c-1 : t # u => P(t) \cap P(u) = {}
    <3> HIDE DEF c
    <3> QED BY <2>1, SplitPartitions, ZenonT(30)
  <2>5. \A i \in Rows : i \div mb \in 0 .. mt-1
    <3> TAKE i \in Rows
    <3> DEFINE d == i \div mb
    <3>1. i \in Nat /\ i < m
      BY <1>1 DEF Rows
    <3>2. d \in Nat /\ d * mb <= i
      BY <1>1, <3>1, Block
    <3> HIDE DEF d
    <3>3. mt \in Nat /\ m <= mt * mb
      BY Counts
    <3>4. d < mt
      BY <1>1, <3>1, <3>2, <3>3, Monotone
    <3> QED BY <3>2, <3>3, <3>4 DEF d
  <2> HIDE DEF c, P
  <2>6. \A t \in Gang("TILED") : Share("TILED", t) \subseteq Rows
    BY <2>2, <2>3
  <2>7. \A i \in Rows : \E t \in Gang("TILED") : i \in Share("TILED", t)
    BY <2>2, <2>3, <2>4, <2>5
  <2>8. ASSUME NEW t \in Gang("TILED"), NEW u \in Gang("TILED"), t # u
        PROVE  Share("TILED", t) \cap Share("TILED", u) = {}
    <3>1. t \in 0 .. c-1 /\ u \in 0 .. c-1
      BY <2>2
    <3>2. P(t) \cap P(u) = {}
      BY <2>4, <2>8, <3>1
    <3>3. \A i \in Share("TILED", t) : i \div mb \in P(t)
      BY <2>3, <3>1
    <3>4. \A i \in Share("TILED", u) : i \div mb \in P(u)
      BY <2>3, <3>1
    <3> QED BY <3>2, <3>3, <3>4, ZenonT(30)
  <2> QED BY <2>6, <2>7, <2>8
<1> QED BY <1>1, <1>2, <1>3

\* The triangle U and the diagonal lie in the rows of thread 0: it alone swaps and solves there, and
\* the other threads update all of their rows from the first one on without a look at the column.
THEOREM TriangleOfThread0 ==
  \A s \in Storages : Pivoted \subseteq Share(s, 0)
<1>1. m \in Nat \ {0} /\ n \in Nat \ {0} /\ mb \in Nat \ {0} /\ Storages \subseteq {"TILED", "LAPACK"} /\ (m > mb => n <= mb)
  BY SizeAssumption
<1>2. minMN \in Nat /\ minMN <= m /\ minMN <= n
  BY <1>1 DEF minMN, Least
<1>3. Pivoted \subseteq Share("LAPACK", 0)
  <2> DEFINE c == thcnt["LAPACK"]
             k == m \div c
             e == m % c
  <2>1. c \in Nat \ {0} /\ (m < n => c = 1) /\ (m >= n => c * n <= m)
    BY Counts
  <2>2. k \in Nat /\ e \in 0 .. c-1 /\ m = c * k + e
    <3> HIDE DEF c
    <3> QED BY <1>1, <2>1, DivMod
  <2>3. Share("LAPACK", 0) = IF 0 < e THEN 0 .. k ELSE 0 .. k - 1
    <3>1. Share("LAPACK", 0) = psplit(m, 0, c)
      BY DEF Share
    <3> HIDE DEF c
    <3>2. psplit(m, 0, c) = LET off == IF 0 < e THEN 0 * (k + 1) ELSE e * (k + 1) + (0 - e) * k
                            IN  off .. off + (IF 0 < e THEN k + 1 ELSE k) - 1
      BY DEF psplit
    <3> HIDE DEF k, e
    <3> QED BY <2>1, <2>2, <3>1, <3>2
  <2> HIDE DEF c, k, e
  <2>4. minMN <= k
    <3>1. CASE m < n
      BY <1>1, <1>2, <2>1, <2>2, <3>1
    <3>2. CASE m >= n
      <4>1. k < n => (k + 1) * c <= n * c
        BY <1>1, <2>1, <2>2, Monotone
      <4> QED BY <1>1, <1>2, <2>1, <2>2, <3>2, <4>1
    <3> QED BY <1>1, <3>1, <3>2
  <2> QED BY <1>2, <2>2, <2>3, <2>4 DEF Pivoted
<1>4. Pivoted \subseteq Share("TILED", 0)
  <2>1. mt \in Nat \ {0} /\ (mt - 1) * mb < m /\ thcnt["TILED"] \in Nat \ {0} /\ thcnt["TILED"] <= mt
    BY Counts
  <2>2. 0 \in ft(0) .. lt(0)-1
    <3>1. q \in Nat /\ r \in Nat /\ mt = thcnt["TILED"] * q + r
      <4> DEFINE c == thcnt["TILED"]
      <4>1. mt \in Nat /\ c \in Nat \ {0} /\ q = mt \div c /\ r = mt % c
        BY <2>1 DEF q, r
      <4> HIDE DEF c
      <4>2. q \in Nat /\ r \in 0 .. c-1 /\ mt = c * q + r
        BY <4>1, DivMod
      <4> QED BY <4>1, <4>2 DEF c
    <3>2. ft(0) = 0
      BY <3>1 DEF ft
    <3>3. q + r > 0
      BY <2>1, <3>1
    <3> QED BY <2>1, <3>1, <3>2, <3>3 DEF lt, Least
  <2>3. minMN <= mb
    BY <1>1, <1>2
  <2>4. \A i \in Pivoted : i \in Rows /\ i \div mb = 0
    BY <1>1, <1>2, <2>3 DEF Pivoted, Rows
  <2> QED BY <2>2, <2>4 DEF Share, TileRows
<1> QED BY <1>1, <1>3, <1>4

\* The threads share the columns of a swap and a solve on an array: each column of the range a .. b is
\* taken by exactly one of them, also where there are fewer columns than threads.
THEOREM ColumnsPartitioned ==
  ASSUME NEW a \in Nat, NEW b \in Nat, a <= b
  PROVE  /\ \A t \in Gang("LAPACK") : ColumnsOf(t, a .. b) \subseteq a .. b
         /\ \A x \in a .. b : \E t \in Gang("LAPACK") : x \in ColumnsOf(t, a .. b)
         /\ \A t, u \in Gang("LAPACK") : t # u => ColumnsOf(t, a .. b) \cap ColumnsOf(u, a .. b) = {}
<1> DEFINE c    == thcnt["LAPACK"]
           size == b - a + 1
           P(t) == psplit(size, t, c)
<1>1. c \in Nat \ {0} /\ size \in Nat
  BY Counts
<1>2. Gang("LAPACK") = 0 .. c-1
  BY DEF Gang
<1>3. \A t : ColumnsOf(t, a .. b) = {a + i : i \in P(t)}
  <2>1. Cardinality(a .. b) = size
    BY FS_Interval
  <2>2. (CHOOSE x \in a .. b : \A y \in a .. b : x <= y) = a
    BY SMT
  <2> HIDE DEF c, size
  <2> QED BY <2>1, <2>2 DEF ColumnsOf, c
<1>4. /\ \A t \in 0 .. c-1 : P(t) \subseteq 0 .. size-1
      /\ \A x \in 0 .. size-1 : \E t \in 0 .. c-1 : x \in P(t)
      /\ \A t, u \in 0 .. c-1 : t # u => P(t) \cap P(u) = {}
  <2> HIDE DEF c, size
  <2> QED BY <1>1, SplitPartitions, ZenonT(30)
<1> HIDE DEF c, P
<1>5. \A t \in 0 .. c-1 : ColumnsOf(t, a .. b) \subseteq a .. b
  BY <1>3, <1>4
<1>6. \A x \in a .. b : \E t \in 0 .. c-1 : x \in ColumnsOf(t, a .. b)
  <2> TAKE x \in a .. b
  <2>1. x - a \in 0 .. size-1 /\ x = a + (x - a)
    OBVIOUS
  <2>2. PICK t \in 0 .. c-1 : x - a \in P(t)
    BY <1>4, <2>1
  <2> QED BY <1>3, <2>1, <2>2
<1>7. ASSUME NEW t \in 0 .. c-1, NEW u \in 0 .. c-1, t # u
      PROVE  ColumnsOf(t, a .. b) \cap ColumnsOf(u, a .. b) = {}
  <2>1. \A i \in P(t), j \in P(u) : i \in Int /\ j \in Int /\ i # j
    BY <1>4, <1>7
  <2> QED BY <1>3, <2>1
<1> QED BY <1>2, <1>5, <1>6, <1>7

-----------------------------------------------------------------------------
\* A set of numbers that is not empty has a least one: what the recursions of the panel are unfolded with.
LEMMA LeastNumber ==
  ASSUME NEW S, S \subseteq Nat, S # {}
  PROVE  \E k \in S : \A j \in S : k <= j
<1> DEFINE F == {0 .. k : k \in S}
           R == StrictSubsetOrdering(Nat)
<1>1. F \subseteq FiniteSubsetsOf(Nat)
  <2> SUFFICES ASSUME NEW k \in S PROVE 0 .. k \in FiniteSubsetsOf(Nat)
    OBVIOUS
  <2>1. IsFiniteSet(0 .. k)
    BY FS_Interval
  <2> QED BY <2>1 DEF FiniteSubsetsOf
<1>2. F # {}
  OBVIOUS
<1>3. IsWellFoundedOn(R, FiniteSubsetsOf(Nat))
  BY FS_StrictSubsetOrderingWellFounded
<1>4. \E X \in F : \A Y \in F : ~(<<Y, X>> \in R)
  <2> HIDE DEF F, R
  <2> QED BY <1>1, <1>2, <1>3, WFMin
<1>5. PICK k \in S : \A j \in S : ~(<<0 .. j, 0 .. k>> \in R)
  BY <1>4
<1>6. ASSUME NEW j \in S, j < k PROVE FALSE
  <2>1. 0 .. j \subseteq 0 .. k /\ 0 .. j # 0 .. k /\ 0 .. j \subseteq Nat /\ 0 .. k \subseteq Nat
    BY <1>6
  <2>2. <<0 .. j, 0 .. k>> \in R
    BY <2>1 DEF StrictSubsetOrdering
  <2> QED BY <1>5, <2>2
<1> QED BY <1>5, <1>6

\* What the definition of CORE_zgetrf_rectil_rec says of one call, g being the calls it makes.
TiledBody(g, call) ==
  LET t      == call[1]
      column == call[2]
      width  == call[3]
      n1     == width \div 2
      n2     == width - n1
      L      == column .. column+n1-1
      R      == column+n1 .. column+width-1
  IN  IF width = 1 THEN Leaf(t, column)
      ELSE g[<<t, column, n1>>]
             \o check(column+n1-1)
             \o ScaleAndUpdate(t, L, R)
             \o zamax("TILED", t, column+n1) \o exchange(column+n1)
             \o g[<<t, column+n1, n2>>]
             \o SwapLeft(t, L, R)

\* The recursion on tiles, one level unfolded.
LEMMA TiledEquation ==
  CORE_zgetrf_rectil_rec =
    [call \in Gang("TILED") \X Nat \X (1 .. minMN) |-> TiledBody(CORE_zgetrf_rectil_rec, call)]
<1> DEFINE G == Gang("TILED")
           D(w) == G \X Nat \X (1 .. w)
           Solves(g, w) == g = [call \in D(w) |-> TiledBody(g, call)]
<1>1. ASSUME NEW g, NEW h, NEW w \in Nat, NEW call \in D(w),
             \A c \in D(w - 1) : g[c] = h[c]
      PROVE  TiledBody(g, call) = TiledBody(h, call)
  <2> DEFINE n1 == call[3] \div 2
             n2 == call[3] - n1
  <2>1. CASE call[3] = 1
    BY <2>1 DEF TiledBody
  <2>2. CASE call[3] # 1
    <3>1. call[1] \in G /\ call[2] \in Nat /\ call[3] \in 2 .. w
      BY <2>2
    <3>2. n1 \in 1 .. w-1 /\ n2 \in 1 .. w-1 /\ call[2] + n1 \in Nat
      BY <3>1
    <3> HIDE DEF n1, n2, G
    <3>3. <<call[1], call[2], n1>> \in D(w - 1) /\ <<call[1], call[2] + n1, n2>> \in D(w - 1)
      BY <3>1, <3>2
    <3>4. /\ g[<<call[1], call[2], n1>>] = h[<<call[1], call[2], n1>>]
          /\ g[<<call[1], call[2] + n1, n2>>] = h[<<call[1], call[2] + n1, n2>>]
      BY <1>1, <3>3
    <3> QED BY <3>4, Zenon DEF TiledBody, n1, n2
  <2> QED BY <2>1, <2>2
<1> HIDE DEF G
<1>2. \A w \in Nat : \E g : Solves(g, w)
  <2> DEFINE S == {w \in Nat : ~ \E g : Solves(g, w)}
  <2> SUFFICES ASSUME S # {} PROVE FALSE
    OBVIOUS
  <2>1. PICK w \in S : \A j \in S : w <= j
    <3>1. S \subseteq Nat
      OBVIOUS
    <3> HIDE DEF S
    <3> QED BY <3>1, LeastNumber
  <2>2. CASE w = 0
    <3>1. D(0) = {}
      OBVIOUS
    <3> DEFINE g == [call \in D(0) |-> TiledBody(<< >>, call)]
    <3>2. g = [call \in D(0) |-> TiledBody(g, call)]
      <4> HIDE DEF D
      <4> QED BY <3>1
    <3> QED BY <2>1, <2>2, <3>2
  <2>3. CASE w # 0
    <3>1. w - 1 \in Nat /\ w \in Nat
      BY <2>1, <2>3
    <3>2. PICK g : Solves(g, w - 1)
      <4>1. w - 1 \notin S
        <5> HIDE DEF S
        <5> QED BY <2>1, <3>1
      <4> QED BY <3>1, <4>1
    <3> DEFINE h == [call \in D(w) |-> TiledBody(g, call)]
    <3>3. D(w - 1) \subseteq D(w)
      BY <3>1
    <3>4. ASSUME NEW c \in D(w - 1) PROVE g[c] = h[c]
      <4>1. g[c] = TiledBody(g, c)
        <5> HIDE DEF D
        <5> QED BY <3>2
      <4> QED BY <3>3, <4>1
    <3>5. ASSUME NEW call \in D(w) PROVE TiledBody(g, call) = TiledBody(h, call)
      <4> HIDE DEF h
      <4> QED BY <1>1, <3>1, <3>4
    <3>6. h = [call \in D(w) |-> TiledBody(h, call)]
      <4> HIDE DEF D
      <4> DEFINE h2 == [call \in D(w) |-> TiledBody(h, call)]
      <4>1. \A call \in D(w) : h[call] = h2[call]
        BY <3>5
      <4> QED BY <4>1
    <3> QED BY <2>1, <3>6
  <2> QED BY <2>2, <2>3
<1>3. minMN \in Nat
  BY SizeAssumption DEF minMN, Least
<1>4. \E g : Solves(g, minMN)
  BY <1>2, <1>3
<1>5. CORE_zgetrf_rectil_rec = CHOOSE g : Solves(g, minMN)
  BY Zenon DEF CORE_zgetrf_rectil_rec, TiledBody, G
<1> QED BY <1>4, <1>5, Zenon DEF G

-----------------------------------------------------------------------------
Steps ==
  [do : {"swap", "trsm", "scale", "gemm", "zamax", "barrier", "exchange", "check", "store", "replace"},
   rows : SUBSET Rows, inner : SUBSET Pivoted, cols : SUBSET Columns]

\* A step that is a call of CORE_zamax1_thread counts for one.
Met(step) == IF step.do \in {"zamax", "barrier"} THEN 1 ELSE 0

\* The recursion halves the columns d[1] .. d[3]-1 at d[2].
Left(d)  == d[1] .. d[2]-1
Right(d) == d[2] .. d[3]-1

Halved(D, lo, hi) ==
  /\ D \subseteq Nat \X Nat \X Nat
  /\ \A d \in D : lo <= d[1] /\ d[1] < d[2] /\ d[2] < d[3] /\ d[3] <= hi
  /\ \A d, e \in D : d[2] = e[2] => d = e
  /\ \A d, e \in D : d[3] = e[3] => d = e \/ d[2] <= e[1] \/ e[2] <= d[1]

\* The steps that thread t takes after it has returned from k calls. On tiles every column c takes three
\* calls (the barrier before its update, its search, the barrier behind it), on an array five.
FitsTiled(D, t, step, k) ==
  \/ \E c \in Pivoted :
       \/ k = 3*c /\ step = Step("zamax", Below("TILED", t, c-1), {}, {c})
       \/ k = 3*c + 1 /\ step = Step("barrier", {}, {}, {c})
       \/ k = 3*c + 1 /\ step = Step("exchange", {}, {}, {c})
       \/ k = 3*c + 2 /\ step = Step("check", {}, {}, {c})
       \/ /\ k = 3*c + 3 \/ (k = 3*c + 2 /\ (t # 0 \/ c = minMN-1))
          /\ \E I \in SUBSET Below("TILED", t, c) : step = Step("scale", I, {}, {c})
  \/ \E d \in D :
       \/ k = 3*d[2] - 1 /\ step = Step("barrier", {}, {}, Right(d))
       \/ k = 3*d[2] - 1 /\ t = 0 /\ step = Step("swap", {}, Left(d), Right(d))
       \/ k = 3*d[2] - 1 /\ t = 0 /\ step = Step("trsm", {}, Left(d), Right(d))
       \/ k = 3*d[3] - 1 /\ t = 0 /\ step = Step("swap", {}, Right(d), Left(d))
       \/ k = 3*d[2] /\ \E I \in SUBSET Below("TILED", t, d[2]-1) : step = Step("gemm", I, Left(d), Right(d))

FitsArray(D, t, step, k) ==
  \/ \E c \in Pivoted :
       \/ (k = 5*c \/ k = 5*c + 2) /\ step = Step("barrier", {}, {}, {c})
       \/ k = 5*c + 1 /\ step = Step("zamax", Below("LAPACK", t, c-1), {}, {c})
       \/ k = 5*c + 2 /\ step = Step("store", {}, {}, {c})
       \/ k = 5*c + 2 /\ step = Step("check", {}, {}, {c})
       \/ k = 5*c + 2 /\ step = Step("scale", Below("LAPACK", t, c), {}, {c})
       \/ k = 5*c + 2 /\ step = Step("replace", {}, {}, {c})
  \/ \E d \in D :
       \/ (k = 5*d[2] - 2 \/ k = 5*d[2] - 1) /\ step = Step("barrier", {}, {}, Right(d))
       \/ k = 5*d[2] - 1 /\ step = Step("swap", {}, Left(d), ColumnsOf(t, Right(d)))
       \/ k = 5*d[2] - 1 /\ step = Step("trsm", {}, Left(d), ColumnsOf(t, Right(d)))
       \/ k = 5*d[2] /\ step = Step("gemm", Below("LAPACK", t, d[2]-1), Left(d), Right(d))
       \/ k = 5*d[3] - 2 /\ step = Step("swap", {}, Right(d), ColumnsOf(t, Left(d)))

Fits(D, s, t, step, k) == IF s = "TILED" THEN FitsTiled(D, t, step, k) ELSE FitsArray(D, t, step, k)

\* The steps P fit one after the other, the first one after a calls, with b calls at their end.
Runs(D, s, t, P, a, b) ==
  /\ P \in Seq(Steps)
  /\ \E at \in [1 .. Len(P) + 1 -> Nat] :
       /\ at[1] = a /\ at[Len(P) + 1] = b
       /\ \A i \in 1 .. Len(P) : Fits(D, s, t, P[i], at[i]) /\ at[i+1] = at[i] + Met(P[i])

\* No steps: no calls.
LEMMA RunsEmpty ==
  ASSUME NEW D, NEW s, NEW t, NEW a \in Nat
  PROVE  Runs(D, s, t, << >>, a, a)
<1> DEFINE at == [i \in 1 .. 1 |-> a]
<1>1. << >> \in Seq(Steps) /\ Len(<< >>) = 0
  BY EmptySeq
<1>2. at \in [1 .. Len(<< >>) + 1 -> Nat] /\ at[1] = a /\ at[Len(<< >>) + 1] = a
  BY <1>1
<1>3. \A i \in 1 .. Len(<< >>) : FALSE
  BY <1>1
<1> HIDE DEF at
<1> QED BY <1>1, <1>2, <1>3 DEF Runs

\* Steps without a call, all of which fit in the same place.
LEMMA RunsInPlace ==
  ASSUME NEW D, NEW s, NEW t, NEW a \in Nat, NEW P \in Seq(Steps),
         \A i \in 1 .. Len(P) : Fits(D, s, t, P[i], a) /\ Met(P[i]) = 0
  PROVE  Runs(D, s, t, P, a, a)
<1> DEFINE at == [i \in 1 .. Len(P) + 1 |-> a]
<1>1. Len(P) \in Nat
  BY LenProperties
<1>2. at \in [1 .. Len(P) + 1 -> Nat] /\ at[1] = a /\ at[Len(P) + 1] = a
  BY <1>1
<1>3. \A i \in 1 .. Len(P) : Fits(D, s, t, P[i], at[i]) /\ at[i+1] = at[i] + Met(P[i])
  BY <1>1
<1> HIDE DEF at
<1> QED BY <1>2, <1>3 DEF Runs

\* One step.
LEMMA RunsStep ==
  ASSUME NEW D, NEW s, NEW t, NEW a \in Nat, NEW p \in Steps, Fits(D, s, t, p, a)
  PROVE  Runs(D, s, t, <<p>>, a, a + Met(p))
<1> DEFINE at == [i \in 1 .. 2 |-> IF i = 1 THEN a ELSE a + Met(p)]
<1>1. <<p>> \in Seq(Steps) /\ Len(<<p>>) = 1 /\ <<p>>[1] = p
  OBVIOUS
<1>2. Met(p) \in {0, 1}
  BY DEF Met
<1>3. at \in [1 .. 2 -> Nat] /\ at[1] = a /\ at[2] = a + Met(p)
  BY <1>2
<1>4. \A i \in 1 .. Len(<<p>>) : i = 1
  BY <1>1
<1> HIDE DEF at
<1>5. \A i \in 1 .. Len(<<p>>) : Fits(D, s, t, <<p>>[i], at[i]) /\ at[i+1] = at[i] + Met(<<p>>[i])
  BY <1>1, <1>3, <1>4
<1>6. \E f \in [1 .. Len(<<p>>) + 1 -> Nat] :
        /\ f[1] = a /\ f[Len(<<p>>) + 1] = a + Met(p)
        /\ \A i \in 1 .. Len(<<p>>) : Fits(D, s, t, <<p>>[i], f[i]) /\ f[i+1] = f[i] + Met(<<p>>[i])
  BY <1>1, <1>3, <1>5
<1> QED BY <1>1, <1>6 DEF Runs

\* One program after another.
LEMMA RunsConcat ==
  ASSUME NEW D, NEW s, NEW t, NEW P, NEW Q, NEW a, NEW b, NEW c,
         Runs(D, s, t, P, a, b), Runs(D, s, t, Q, b, c)
  PROVE  Runs(D, s, t, P \o Q, a, c)
<1>1. P \in Seq(Steps) /\ Q \in Seq(Steps)
  BY DEF Runs
<1>2. Len(P) \in Nat /\ Len(Q) \in Nat
  BY <1>1, LenProperties
<1>3. PICK f \in [1 .. Len(P) + 1 -> Nat] :
        /\ f[1] = a /\ f[Len(P) + 1] = b
        /\ \A i \in 1 .. Len(P) : Fits(D, s, t, P[i], f[i]) /\ f[i+1] = f[i] + Met(P[i])
  BY DEF Runs
<1>4. PICK g \in [1 .. Len(Q) + 1 -> Nat] :
        /\ g[1] = b /\ g[Len(Q) + 1] = c
        /\ \A i \in 1 .. Len(Q) : Fits(D, s, t, Q[i], g[i]) /\ g[i+1] = g[i] + Met(Q[i])
  BY DEF Runs
<1>5. /\ P \o Q \in Seq(Steps) /\ Len(P \o Q) = Len(P) + Len(Q)
      /\ \A i \in 1 .. Len(P) + Len(Q) : (P \o Q)[i] = IF i <= Len(P) THEN P[i] ELSE Q[i - Len(P)]
  BY <1>1, ConcatProperties
<1> DEFINE h == [i \in 1 .. Len(P) + Len(Q) + 1 |-> IF i <= Len(P) THEN f[i] ELSE g[i - Len(P)]]
<1>6. h \in [1 .. Len(P) + Len(Q) + 1 -> Nat]
  BY <1>2, <1>3, <1>4
<1>7. h[1] = a /\ h[Len(P) + Len(Q) + 1] = c
  BY <1>2, <1>3, <1>4
<1>8. ASSUME NEW i \in 1 .. Len(P) + Len(Q)
      PROVE  Fits(D, s, t, (P \o Q)[i], h[i]) /\ h[i+1] = h[i] + Met((P \o Q)[i])
  <2>1. CASE i < Len(P)
    BY <1>2, <1>3, <1>5, <2>1
  <2>2. CASE i = Len(P)
    <3>1. h[i] = f[i] /\ h[i+1] = g[1] /\ (P \o Q)[i] = P[i] /\ i \in 1 .. Len(P)
      BY <1>2, <1>5, <2>2
    <3> QED BY <1>3, <1>4, <2>2, <3>1
  <2>3. CASE i > Len(P)
    <3>1. i - Len(P) \in 1 .. Len(Q) /\ (P \o Q)[i] = Q[i - Len(P)]
      BY <1>2, <1>5, <2>3
    <3>2. h[i] = g[i - Len(P)] /\ h[i+1] = g[i - Len(P) + 1]
      BY <1>2, <2>3
    <3> QED BY <1>4, <3>1, <3>2
  <2> QED BY <1>2, <2>1, <2>2, <2>3
<1> HIDE DEF h
<1>9. \E e \in [1 .. Len(P \o Q) + 1 -> Nat] :
        /\ e[1] = a /\ e[Len(P \o Q) + 1] = c
        /\ \A i \in 1 .. Len(P \o Q) : Fits(D, s, t, (P \o Q)[i], e[i]) /\ e[i+1] = e[i] + Met((P \o Q)[i])
  BY <1>5, <1>6, <1>7, <1>8
<1> QED BY <1>5, <1>9, Zenon DEF Runs

\* What is left of a program when its first step has been taken.
LEMMA RunsTail ==
  ASSUME NEW D, NEW s, NEW t, NEW P, NEW a, NEW b, Runs(D, s, t, P, a, b), P # << >>
  PROVE  /\ Head(P) \in Steps /\ Fits(D, s, t, Head(P), a)
         /\ Runs(D, s, t, Tail(P), a + Met(Head(P)), b)
<1>1. P \in Seq(Steps)
  BY DEF Runs
<1>2. /\ Len(P) \in Nat \ {0} /\ Head(P) \in Steps /\ Head(P) = P[1]
      /\ Tail(P) \in Seq(Steps) /\ Len(Tail(P)) = Len(P) - 1
      /\ \A i \in 1 .. Len(Tail(P)) : Tail(P)[i] = P[i+1]
  BY <1>1, LenProperties, EmptySeq, HeadTailProperties
<1>3. PICK f \in [1 .. Len(P) + 1 -> Nat] :
        /\ f[1] = a /\ f[Len(P) + 1] = b
        /\ \A i \in 1 .. Len(P) : Fits(D, s, t, P[i], f[i]) /\ f[i+1] = f[i] + Met(P[i])
  BY DEF Runs
<1> DEFINE g == [i \in 1 .. Len(P) |-> f[i+1]]
<1>4. Fits(D, s, t, Head(P), a) /\ f[2] = a + Met(Head(P))
  BY <1>2, <1>3
<1>5. g \in [1 .. Len(P) -> Nat] /\ g[1] = a + Met(Head(P)) /\ g[Len(P)] = b
  BY <1>2, <1>3, <1>4
<1>6. \A i \in 1 .. Len(P)-1 : Fits(D, s, t, Tail(P)[i], g[i]) /\ g[i+1] = g[i] + Met(Tail(P)[i])
  BY <1>2, <1>3
<1> HIDE DEF g
<1>7. \E e \in [1 .. Len(Tail(P)) + 1 -> Nat] :
        /\ e[1] = a + Met(Head(P)) /\ e[Len(Tail(P)) + 1] = b
        /\ \A i \in 1 .. Len(Tail(P)) : Fits(D, s, t, Tail(P)[i], e[i]) /\ e[i+1] = e[i] + Met(Tail(P)[i])
  BY <1>2, <1>5, <1>6
<1> QED BY <1>2, <1>4, <1>7, Zenon DEF Runs

\* With more halves, what fitted still fits.
LEMMA RunsMonotone ==
  ASSUME NEW D, NEW E, D \subseteq E, NEW s, NEW t, NEW P, NEW a, NEW b, Runs(D, s, t, P, a, b)
  PROVE  Runs(E, s, t, P, a, b)
<1>1. ASSUME NEW p, NEW k, FitsTiled(D, t, p, k) PROVE FitsTiled(E, t, p, k)
  BY <1>1, Zenon DEF FitsTiled
<1>2. ASSUME NEW p, NEW k, FitsArray(D, t, p, k) PROVE FitsArray(E, t, p, k)
  BY <1>2, Zenon DEF FitsArray
<1>3. \A p, k : Fits(D, s, t, p, k) => Fits(E, s, t, p, k)
  BY <1>1, <1>2 DEF Fits
<1> QED BY <1>3, Zenon DEF Runs

-----------------------------------------------------------------------------
\* The least of height and width.
LEMMA Sizes ==
  /\ m \in Nat \ {0} /\ n \in Nat \ {0} /\ mb \in Nat \ {0}
  /\ minMN \in Nat \ {0} /\ minMN <= m /\ minMN <= n
  /\ Pivoted \subseteq Rows /\ Pivoted \subseteq Columns
BY SizeAssumption DEF minMN, Least, Pivoted, Rows, Columns

\* What makes a record a step.
LEMMA IsAStep ==
  ASSUME NEW do \in {"swap", "trsm", "scale", "gemm", "zamax", "barrier", "exchange", "check", "store", "replace"},
         NEW I \in SUBSET Rows, NEW J \in SUBSET Pivoted, NEW X \in SUBSET Columns
  PROVE  Step(do, I, J, X) \in Steps
BY DEF Step, Steps

\* One step with no call.
LEMMA RunsWork ==
  ASSUME NEW D, NEW s, NEW t, NEW a \in Nat, NEW p \in Steps, Fits(D, s, t, p, a),
         p.do \notin {"zamax", "barrier"}
  PROVE  Runs(D, s, t, <<p>>, a, a)
<1>1. Met(p) = 0
  BY DEF Met
<1>2. Runs(D, s, t, <<p>>, a, a + Met(p))
  BY RunsStep
<1> QED BY <1>1, <1>2

\* One call.
LEMMA RunsCall ==
  ASSUME NEW D, NEW s, NEW t, NEW a \in Nat, NEW p \in Steps, Fits(D, s, t, p, a),
         p.do \in {"zamax", "barrier"}
  PROVE  Runs(D, s, t, <<p>>, a, a + 1)
<1>1. Met(p) = 1
  BY DEF Met
<1>2. Runs(D, s, t, <<p>>, a, a + Met(p))
  BY RunsStep
<1> QED BY <1>1, <1>2

\* The last column of the left half.
LEMMA LastOfLeft ==
  ASSUME NEW lo \in Nat, NEW mid \in Nat, NEW hi \in Nat, lo < mid, mid < hi
  PROVE  (CHOOSE j \in lo .. mid-1 : j + 1 \in mid .. hi-1) = mid-1
BY SMT

\* Rows below those of thread 0.
LEMMA BelowPanel ==
  ASSUME NEW s \in Storages, NEW t \in Gang(s), t # 0, NEW i \in Share(s, t), NEW x \in Pivoted
  PROVE  i \in Rows /\ i > x
<1>1. 0 \in Gang(s)
  <2>1. s \in {"TILED", "LAPACK"}
    BY SizeAssumption
  <2>2. thcnt[s] \in Nat \ {0}
    BY <2>1, Counts
  <2> QED BY <2>2 DEF Gang
<1>2. i \in Rows /\ Share(s, t) \cap Share(s, 0) = {}
  BY <1>1, RowsPartitioned
<1>3. Pivoted \subseteq Share(s, 0)
  BY TriangleOfThread0
<1>4. i \notin Pivoted
  BY <1>2, <1>3
<1> QED BY <1>2, <1>4, Sizes DEF Pivoted, Rows

\* The rows of a thread below another row are rows of the panel.
LEMMA BelowWithin ==
  ASSUME NEW s \in Storages, NEW t \in Gang(s), NEW x
  PROVE  Below(s, t, x) \subseteq Share(s, t) /\ Below(s, t, x) \subseteq Rows
<1>1. Share(s, t) \subseteq Rows
  BY RowsPartitioned
<1> QED BY <1>1 DEF Below

\* The rows of a tile of thread t that are below row x.
LEMMA TileWithin ==
  ASSUME "TILED" \in Storages, NEW t \in Gang("TILED"), NEW it \in ft(t) .. lt(t)-1, NEW x \in Pivoted
  PROVE  /\ Tile(t, it, x) \subseteq Below("TILED", t, x)
         /\ t # 0 => TileRows(it) \subseteq Below("TILED", t, x)
<1>1. TileRows(it) \subseteq Share("TILED", t)
  BY DEF Share
<1>2. t # 0 => \A i \in Share("TILED", t) : i > x
  BY BelowPanel
<1> QED BY <1>1, <1>2 DEF Tile, Below

\* Every thread has a tile.
LEMMA FirstTileOwned ==
  ASSUME NEW t \in Gang("TILED")
  PROVE  /\ ft(t) \in Nat /\ lt(t) \in Int /\ ft(t) \in ft(t) .. lt(t)-1
         /\ t = 0 => ft(t) = 0
<1> DEFINE c == thcnt["TILED"]
<1>1. c \in Nat \ {0} /\ mt \in Nat /\ t \in 0 .. c-1 /\ c <= mt
  BY Counts DEF Gang
<1>2. q \in Nat /\ r \in 0 .. c-1 /\ mt = c * q + r
  <2> HIDE DEF c
  <2> QED BY <1>1, DivMod DEF q, r, c
<1>3. ft(t) \in Nat /\ lt(t) \in Int /\ (t = 0 => ft(t) = 0)
  BY <1>1, <1>2 DEF ft, lt, Least
<1>4. psplit(mt, t, c) = ft(t) .. ft(t) + (IF t < r THEN q + 1 ELSE q) - 1
  BY DEF psplit, ft, q, r
<1> HIDE DEF c
<1>5. q >= 1
  <2>1. CASE q = 0
    <3>1. c * q = 0
      BY <1>1, <2>1
    <3> QED BY <1>1, <1>2, <3>1
  <2> QED BY <1>2, <2>1
<1>6. ft(t) \in psplit(mt, t, c)
  BY <1>2, <1>3, <1>4, <1>5
<1>7. ft(t) .. lt(t)-1 = psplit(mt, t, c)
  BY TilesDealt DEF c
<1> QED BY <1>3, <1>6, <1>7

\* The tiles of a thread, divided and updated.
LEMMA UpdatesRun ==
  ASSUME "TILED" \in Storages, NEW t \in Gang("TILED"), NEW first \in Nat, first >= ft(t),
         NEW D, D \subseteq Nat \X Nat \X Nat, NEW d \in D, d[1] < d[2], d[2] < d[3], d[3] <= minMN
  PROVE  Runs(D, "TILED", t, Updates(t, first, Left(d), Right(d)), 3 * d[2], 3 * d[2])
<1> DEFINE N    == 2 * (lt(t) - first)
           x    == d[2] - 1
           I(i) == Tile(t, first + (i - 1) \div 2, x)
           S(i) == Step("scale", I(i), {}, {x})
           G(i) == Step("gemm", I(i), Left(d), Right(d))
           P    == [i \in 1 .. N |-> IF i % 2 = 1 THEN S(i) ELSE G(i)]
<1>1. d[1] \in Nat /\ d[2] \in Nat /\ d[3] \in Nat /\ x \in Pivoted
  BY Sizes DEF Pivoted
<1>2. Updates(t, first, Left(d), Right(d)) = P
  <2> DEFINE y    == CHOOSE j \in Left(d) : j + 1 \in Right(d)
             W(z) == [i \in 1 .. 2 * (lt(t) - first) |->
                        LET K == Tile(t, first + (i - 1) \div 2, z)
                        IN  IF i % 2 = 1 THEN Step("scale", K, {}, {z}) ELSE Step("gemm", K, Left(d), Right(d))]
  <2>1. y = x
    BY <1>1, LastOfLeft DEF Left, Right
  <2>2. Updates(t, first, Left(d), Right(d)) = W(y)
    BY Zenon DEF Updates
  <2>3. W(x) = P
    BY Zenon
  <2> HIDE DEF W, x, y
  <2> QED BY <2>1, <2>2, <2>3
<1>3. ft(t) \in Nat /\ lt(t) \in Int /\ N \in Int
  BY FirstTileOwned
<1>4. ASSUME NEW i \in 1 .. N PROVE I(i) \in SUBSET Below("TILED", t, x)
  <2>1. first + (i - 1) \div 2 \in ft(t) .. lt(t)-1
    BY <1>3
  <2> HIDE DEF x
  <2> QED BY <1>1, <2>1, TileWithin
<1>5. Left(d) \subseteq Pivoted /\ Right(d) \subseteq Columns /\ x \in Columns
  BY <1>1, Sizes DEF Left, Right, Pivoted, Columns
<1>6. Below("TILED", t, x) \subseteq Rows
  BY BelowWithin
<1> HIDE DEF N, I, x
<1>7. ASSUME NEW i \in 1 .. N
      PROVE  /\ S(i) \in Steps /\ Fits(D, "TILED", t, S(i), 3 * d[2]) /\ Met(S(i)) = 0
             /\ G(i) \in Steps /\ Fits(D, "TILED", t, G(i), 3 * d[2]) /\ Met(G(i)) = 0
  <2>1. I(i) \in SUBSET Below("TILED", t, x) /\ I(i) \in SUBSET Rows
    BY <1>4, <1>6
  <2>2. S(i) \in Steps /\ G(i) \in Steps
    BY <1>5, <2>1, IsAStep
  <2>3. Fits(D, "TILED", t, S(i), 3 * d[2])
    <3>1. 3 * d[2] = 3 * x + 3
      BY <1>1 DEF x
    <3> QED BY <1>1, <2>1, <3>1 DEF Fits, FitsTiled
  <2>4. Fits(D, "TILED", t, G(i), 3 * d[2])
    <3>1. I(i) \in SUBSET Below("TILED", t, d[2] - 1)
      BY <2>1 DEF x
    <3>2. FitsTiled(D, t, G(i), 3 * d[2])
      BY <3>1, Zenon DEF FitsTiled
    <3> QED BY <3>2 DEF Fits
  <2>5. Met(S(i)) = 0 /\ Met(G(i)) = 0
    BY DEF Step, Met
  <2> QED BY <2>2, <2>3, <2>4, <2>5
<1>8. P \in Seq(Steps) /\ \A i \in 1 .. Len(P) : i \in 1 .. N
  <2> HIDE DEF S, G
  <2>1. P \in [1 .. N -> Steps]
    BY <1>7
  <2>2. DOMAIN P = 1 .. N
    OBVIOUS
  <2> HIDE DEF P
  <2>3. P \in Seq(Steps)
    <3>1. CASE N >= 0
      <4>1. N \in Nat
        BY <1>3, <3>1
      <4> QED BY <2>1, <4>1, SeqDef
    <3>2. CASE N < 0
      <4>1. 1 .. N = 1 .. 0
        BY <1>3, <3>2
      <4> QED BY <2>1, <4>1, SeqDef
    <3> QED BY <1>3, <3>1, <3>2
  <2> QED BY <2>2, <2>3, LenProperties
<1>9. \A i \in 1 .. Len(P) : Fits(D, "TILED", t, P[i], 3 * d[2]) /\ Met(P[i]) = 0
  <2> TAKE i \in 1 .. Len(P)
  <2>1. i \in 1 .. N
    BY <1>8
  <2>2. P[i] = IF i % 2 = 1 THEN S(i) ELSE G(i)
    BY <2>1
  <2> HIDE DEF P, S, G
  <2> QED BY <1>7, <2>1, <2>2
<1> HIDE DEF P
<1>10. Runs(D, "TILED", t, P, 3 * d[2], 3 * d[2])
  BY <1>1, <1>8, <1>9, RunsInPlace
<1> QED BY <1>2, <1>10

-----------------------------------------------------------------------------
\* The search of a column, with the barrier before it where there are columns to the left.
LEMMA SearchRuns ==
  ASSUME "TILED" \in Storages, NEW t \in Gang("TILED"), NEW c \in Pivoted, NEW D
  PROVE  /\ Runs(D, "TILED", t, zamax("TILED", t, c), 3*c, 3*c + 1)
         /\ Runs(D, "TILED", t, exchange(c), 3*c + 1, 3*c + 1)
<1> DEFINE p == Step("zamax", Below("TILED", t, c-1), {}, {c})
           e == Step("exchange", {}, {}, {c})
<1>1. c \in Nat /\ c \in Columns /\ Below("TILED", t, c-1) \in SUBSET Rows
  BY Sizes, BelowWithin DEF Pivoted
<1>2. p \in Steps /\ e \in Steps
  BY <1>1, IsAStep
<1>3. Fits(D, "TILED", t, p, 3*c) /\ Fits(D, "TILED", t, e, 3*c + 1)
  BY Zenon DEF Fits, FitsTiled
<1>4. p.do = "zamax" /\ e.do = "exchange"
  BY DEF Step
<1> HIDE DEF p, e
<1>5. Runs(D, "TILED", t, <<p>>, 3*c, 3*c + 1)
  BY <1>1, <1>2, <1>3, <1>4, RunsCall
<1>6. Runs(D, "TILED", t, <<e>>, 3*c + 1, 3*c + 1)
  BY <1>1, <1>2, <1>3, <1>4, RunsWork
<1> QED BY <1>5, <1>6 DEF p, e, zamax, exchange

\* A barrier before a column, on tiles.
LEMMA BarrierRuns ==
  ASSUME "TILED" \in Storages, NEW t \in Gang("TILED"), NEW c \in Pivoted, NEW D
  PROVE  Runs(D, "TILED", t, barrier({c}), 3*c + 1, 3*c + 2)
<1> DEFINE p == Step("barrier", {}, {}, {c})
<1>1. c \in Nat /\ c \in Columns
  BY Sizes DEF Pivoted
<1>2. p \in Steps
  BY <1>1, IsAStep
<1>3. Fits(D, "TILED", t, p, 3*c + 1)
  BY Zenon DEF Fits, FitsTiled
<1>4. p.do = "barrier"
  BY DEF Step
<1> HIDE DEF p
<1>5. Runs(D, "TILED", t, <<p>>, 3*c + 1, 3*c + 1 + 1)
  BY <1>1, <1>2, <1>3, <1>4, RunsCall
<1>6. 3*c + 1 + 1 = 3*c + 2
  BY <1>1
<1> QED BY <1>5, <1>6 DEF p, barrier

\* The look at the pivot.
LEMMA CheckRuns ==
  ASSUME "TILED" \in Storages, NEW t \in Gang("TILED"), NEW c \in Pivoted, NEW D
  PROVE  Runs(D, "TILED", t, check(c), 3*c + 2, 3*c + 2)
<1> DEFINE p == Step("check", {}, {}, {c})
<1>1. c \in Nat /\ c \in Columns
  BY Sizes DEF Pivoted
<1>2. p \in Steps
  BY <1>1, IsAStep
<1>3. Fits(D, "TILED", t, p, 3*c + 2)
  BY Zenon DEF Fits, FitsTiled
<1>4. p.do = "check"
  BY DEF Step
<1> HIDE DEF p
<1>5. Runs(D, "TILED", t, <<p>>, 3*c + 2, 3*c + 2)
  BY <1>1, <1>2, <1>3, <1>4, RunsWork
<1> QED BY <1>5 DEF p, check

\* One column: its search, if nobody has searched it yet, the barrier, and the division of the last one.
LEMMA LeafRuns ==
  ASSUME "TILED" \in Storages, NEW t \in Gang("TILED"), NEW c \in Pivoted, NEW D
  PROVE  Runs(D, "TILED", t, Leaf(t, c), IF c = 0 THEN 0 ELSE 3*c + 1, 3*c + 2)
<1> DEFINE P == IF c = 0 THEN zamax("TILED", t, 0) \o exchange(0) ELSE << >>
           Q == IF c = minMN-1 THEN check(c) \o scale(Below("TILED", t, c), c) ELSE << >>
           s == Step("scale", Below("TILED", t, c), {}, {c})
<1>1. c \in Nat /\ c \in Columns /\ Below("TILED", t, c) \in SUBSET Rows
  BY Sizes, BelowWithin DEF Pivoted
<1>2. Runs(D, "TILED", t, P, IF c = 0 THEN 0 ELSE 3*c + 1, 3*c + 1)
  <2>1. CASE c = 0
    <3>1. Runs(D, "TILED", t, zamax("TILED", t, 0), 0, 1) /\ Runs(D, "TILED", t, exchange(0), 1, 1)
      BY <2>1, SearchRuns
    <3>2. Runs(D, "TILED", t, zamax("TILED", t, 0) \o exchange(0), 0, 1)
      BY <3>1, RunsConcat
    <3> QED BY <2>1, <3>2
  <2>2. CASE c # 0
    <3>1. 3*c + 1 \in Nat
      BY <1>1
    <3> QED BY <2>2, <3>1, RunsEmpty
  <2> QED BY <2>1, <2>2
<1>3. Runs(D, "TILED", t, Q, 3*c + 2, 3*c + 2)
  <2>0. 3*c + 2 \in Nat
    BY <1>1
  <2>1. CASE c = minMN-1
    <3>1. s \in Steps
      BY <1>1, IsAStep
    <3>2. Fits(D, "TILED", t, s, 3*c + 2)
      BY <2>1, Zenon DEF Fits, FitsTiled
    <3>3. s.do = "scale"
      BY DEF Step
    <3> HIDE DEF s
    <3>4. Runs(D, "TILED", t, <<s>>, 3*c + 2, 3*c + 2)
      BY <2>0, <3>1, <3>2, <3>3, RunsWork
    <3>5. Runs(D, "TILED", t, check(c) \o <<s>>, 3*c + 2, 3*c + 2)
      BY <3>4, CheckRuns, RunsConcat
    <3> QED BY <2>1, <3>5 DEF s, scale
  <2>2. CASE c # minMN-1
    BY <2>0, <2>2, RunsEmpty
  <2> QED BY <2>1, <2>2
<1>4. Runs(D, "TILED", t, barrier({c}), 3*c + 1, 3*c + 2)
  BY BarrierRuns
<1>5. Leaf(t, c) = P \o barrier({c}) \o Q
  BY Zenon DEF Leaf
<1> HIDE DEF P, Q
<1>6. Runs(D, "TILED", t, P \o barrier({c}), IF c = 0 THEN 0 ELSE 3*c + 1, 3*c + 2)
  BY <1>2, <1>4, RunsConcat
<1> QED BY <1>3, <1>5, <1>6, RunsConcat

\* What the lemmas on one halving have in common.
LEMMA HalvingFacts ==
  ASSUME NEW d \in Nat \X Nat \X Nat, d[1] < d[2], d[2] < d[3], d[3] <= minMN
  PROVE  /\ d[1] \in Nat /\ d[2] \in Nat /\ d[3] \in Nat /\ 3 * d[2] - 1 \in Nat /\ 3 * d[2] \in Nat /\ 3 * d[3] - 1 \in Nat
         /\ 3 * d[2] - 1 + 1 = 3 * d[2]
         /\ d[2] - 1 \in Pivoted /\ d[2] - 1 \in Columns /\ d[2] \in Pivoted /\ d[2] \in Columns
         /\ Left(d) \subseteq Pivoted /\ Left(d) \subseteq Columns
         /\ Right(d) \subseteq Pivoted /\ Right(d) \subseteq Columns
         /\ (CHOOSE j \in Left(d) : j + 1 \in Right(d)) = d[2] - 1
<1>1. d[1] \in Nat /\ d[2] \in Nat /\ d[3] \in Nat
  OBVIOUS
<1>2. (CHOOSE j \in Left(d) : j + 1 \in Right(d)) = d[2] - 1
  BY <1>1, LastOfLeft DEF Left, Right
<1>3. Left(d) \subseteq Pivoted /\ Left(d) \subseteq Columns
  BY <1>1, Sizes DEF Left, Pivoted, Columns
<1>4. Right(d) \subseteq Pivoted /\ Right(d) \subseteq Columns
  BY <1>1, Sizes DEF Right, Pivoted, Columns
<1>5. d[2] - 1 \in Pivoted /\ d[2] - 1 \in Columns /\ d[2] \in Pivoted /\ d[2] \in Columns
  BY <1>1, Sizes DEF Pivoted, Columns
<1> QED BY <1>1, <1>2, <1>3, <1>4, <1>5

\* Thread 0 swaps and solves, and the barrier lets the others use what it has left.
LEMMA TopRuns ==
  ASSUME "TILED" \in Storages, 0 \in Gang("TILED"),
         NEW D, D \subseteq Nat \X Nat \X Nat, NEW d \in D, d[1] < d[2], d[2] < d[3], d[3] <= minMN
  PROVE  Runs(D, "TILED", 0, swap(Left(d), Right(d)) \o trsm(Left(d), Right(d)) \o barrier(Right(d)), 3*d[2] - 1, 3*d[2])
<1> DEFINE k == 3*d[2] - 1
           p == Step("swap", {}, Left(d), Right(d))
           s == Step("trsm", {}, Left(d), Right(d))
           b == Step("barrier", {}, {}, Right(d))
<1>1. k \in Nat /\ k + 1 = 3*d[2] /\ Left(d) \subseteq Pivoted /\ Right(d) \subseteq Columns
  BY HalvingFacts
<1>2. p \in Steps /\ s \in Steps /\ b \in Steps
  BY <1>1, IsAStep
<1>3. Fits(D, "TILED", 0, p, k) /\ Fits(D, "TILED", 0, s, k) /\ Fits(D, "TILED", 0, b, k)
  BY Zenon DEF Fits, FitsTiled
<1>4. p.do = "swap" /\ s.do = "trsm" /\ b.do = "barrier"
  BY DEF Step
<1> HIDE DEF k, p, s, b
<1>5. Runs(D, "TILED", 0, <<p>>, k, k) /\ Runs(D, "TILED", 0, <<s>>, k, k)
  BY <1>1, <1>2, <1>3, <1>4, RunsWork
<1>6. Runs(D, "TILED", 0, <<b>>, k, k + 1)
  BY <1>1, <1>2, <1>3, <1>4, RunsCall
<1>7. Runs(D, "TILED", 0, <<p>> \o <<s>>, k, k)
  BY <1>5, RunsConcat
<1>8. Runs(D, "TILED", 0, <<p>> \o <<s>> \o <<b>>, k, k + 1)
  BY <1>6, <1>7, RunsConcat
<1> QED BY <1>1, <1>8 DEF k, p, s, b, swap, trsm, barrier

\* A worker divides its first tile before the barrier and updates it behind.
LEMMA FirstTileRuns ==
  ASSUME "TILED" \in Storages, NEW t \in Gang("TILED"), t # 0,
         NEW D, D \subseteq Nat \X Nat \X Nat, NEW d \in D, d[1] < d[2], d[2] < d[3], d[3] <= minMN
  PROVE  Runs(D, "TILED", t, FirstTile(t, Left(d), Right(d)), 3*d[2] - 1, 3*d[2])
<1> DEFINE x == d[2] - 1
           k == 3*d[2] - 1
           I == TileRows(ft(t))
           s == Step("scale", I, {}, {x})
           b == Step("barrier", {}, {}, Right(d))
           g == Step("gemm", I, Left(d), Right(d))
<1>1. /\ k \in Nat /\ k + 1 = 3*d[2] /\ Left(d) \subseteq Pivoted /\ Right(d) \subseteq Columns
      /\ x \in Pivoted /\ x \in Columns /\ (CHOOSE j \in Left(d) : j + 1 \in Right(d)) = x
  BY HalvingFacts
<1>2. I \in SUBSET Below("TILED", t, x) /\ I \in SUBSET Rows
  <2>1. ft(t) \in ft(t) .. lt(t)-1
    BY FirstTileOwned
  <2> HIDE DEF x
  <2>2. I \subseteq Below("TILED", t, x)
    BY <1>1, <2>1, TileWithin
  <2>3. Below("TILED", t, x) \subseteq Rows
    BY BelowWithin
  <2> QED BY <2>2, <2>3
<1>3. s \in Steps /\ b \in Steps /\ g \in Steps
  <2> HIDE DEF x, I
  <2> QED BY <1>1, <1>2, IsAStep
<1>4. FirstTile(t, Left(d), Right(d)) = <<s>> \o <<b>> \o <<g>>
  <2> DEFINE y == CHOOSE j \in Left(d) : j + 1 \in Right(d)
  <2>1. FirstTile(t, Left(d), Right(d)) = <<Step("scale", I, {}, {y})>> \o <<b>> \o <<g>>
    BY Zenon DEF FirstTile, scale, barrier, gemm
  <2>2. y = x
    BY <1>1
  <2> HIDE DEF x, y
  <2> QED BY <2>1, <2>2
<1>5. /\ Fits(D, "TILED", t, s, k) /\ Fits(D, "TILED", t, b, k)
      /\ Fits(D, "TILED", t, g, k + 1)
  <2>1. k = 3*x + 2
    BY HalvingFacts
  <2>2. Fits(D, "TILED", t, s, k)
    <3> HIDE DEF k, x, I
    <3> QED BY <1>1, <1>2, <2>1, Zenon DEF Fits, FitsTiled
  <2>3. Fits(D, "TILED", t, b, k)
    BY Zenon DEF Fits, FitsTiled
  <2>4. Fits(D, "TILED", t, g, 3*d[2])
    <3>1. I \in SUBSET Below("TILED", t, d[2] - 1)
      BY <1>2
    <3> HIDE DEF I
    <3> QED BY <3>1, Zenon DEF Fits, FitsTiled
  <2> HIDE DEF k, s, b, g
  <2> QED BY <1>1, <2>2, <2>3, <2>4
<1>6. s.do = "scale" /\ b.do = "barrier" /\ g.do = "gemm"
  BY DEF Step
<1> HIDE DEF k, s, b, g
<1>7. Runs(D, "TILED", t, <<s>>, k, k)
  BY <1>1, <1>3, <1>5, <1>6, RunsWork
<1>8. Runs(D, "TILED", t, <<b>>, k, k + 1)
  BY <1>1, <1>3, <1>5, <1>6, RunsCall
<1>9. Runs(D, "TILED", t, <<g>>, k + 1, k + 1)
  <2>1. k + 1 \in Nat
    BY <1>1
  <2> QED BY <1>3, <1>5, <1>6, <2>1, RunsWork
<1>10. Runs(D, "TILED", t, <<s>> \o <<b>>, k, k + 1)
  BY <1>7, <1>8, RunsConcat
<1>11. Runs(D, "TILED", t, <<s>> \o <<b>> \o <<g>>, k, k + 1)
  BY <1>9, <1>10, RunsConcat
<1> QED BY <1>1, <1>4, <1>11 DEF k

\* The update of the right half on tiles: thread 0 swaps and solves before the barrier, the others divide.
LEMMA ScaleAndUpdateRuns ==
  ASSUME "TILED" \in Storages, NEW t \in Gang("TILED"),
         NEW D, D \subseteq Nat \X Nat \X Nat, NEW d \in D, d[1] < d[2], d[2] < d[3], d[3] <= minMN
  PROVE  Runs(D, "TILED", t, ScaleAndUpdate(t, Left(d), Right(d)), 3*d[2] - 1, 3*d[2])
<1>1. CASE t = 0
  <2>1. ft(0) = 0
    BY <1>1, FirstTileOwned
  <2>2. Runs(D, "TILED", 0, Updates(0, 0, Left(d), Right(d)), 3*d[2], 3*d[2])
    BY <1>1, <2>1, UpdatesRun
  <2>3. Runs(D, "TILED", 0, swap(Left(d), Right(d)) \o trsm(Left(d), Right(d)) \o barrier(Right(d)), 3*d[2] - 1, 3*d[2])
    BY <1>1, TopRuns
  <2>4. Runs(D, "TILED", 0, swap(Left(d), Right(d)) \o trsm(Left(d), Right(d)) \o barrier(Right(d))
                              \o Updates(0, 0, Left(d), Right(d)), 3*d[2] - 1, 3*d[2])
    BY <2>2, <2>3, RunsConcat
  <2> QED BY <1>1, <2>4, Zenon DEF ScaleAndUpdate
<1>2. CASE t # 0
  <2>1. ft(t) + 1 \in Nat /\ ft(t) + 1 >= ft(t)
    BY FirstTileOwned
  <2>2. Runs(D, "TILED", t, Updates(t, ft(t) + 1, Left(d), Right(d)), 3*d[2], 3*d[2])
    BY <2>1, UpdatesRun
  <2>3. Runs(D, "TILED", t, FirstTile(t, Left(d), Right(d)), 3*d[2] - 1, 3*d[2])
    BY <1>2, FirstTileRuns
  <2>4. Runs(D, "TILED", t, FirstTile(t, Left(d), Right(d)) \o Updates(t, ft(t) + 1, Left(d), Right(d)), 3*d[2] - 1, 3*d[2])
    BY <2>2, <2>3, RunsConcat
  <2> QED BY <1>2, <2>4, Zenon DEF ScaleAndUpdate
<1> QED BY <1>1, <1>2

\* The interchanges of the right half, on the left one, behind the last barrier of the right half.
LEMMA SwapLeftRuns ==
  ASSUME "TILED" \in Storages, NEW t \in Gang("TILED"),
         NEW D, D \subseteq Nat \X Nat \X Nat, NEW d \in D, d[1] < d[2], d[2] < d[3], d[3] <= minMN
  PROVE  Runs(D, "TILED", t, SwapLeft(t, Left(d), Right(d)), 3*d[3] - 1, 3*d[3] - 1)
<1> DEFINE k == 3*d[3] - 1
           p == Step("swap", {}, Right(d), Left(d))
<1>1. k \in Nat /\ Right(d) \subseteq Pivoted /\ Left(d) \subseteq Columns
  BY HalvingFacts
<1>2. CASE t = 0
  <2>1. p \in Steps
    BY <1>1, IsAStep
  <2>2. Fits(D, "TILED", t, p, k)
    BY <1>2, Zenon DEF Fits, FitsTiled
  <2>3. p.do = "swap"
    BY DEF Step
  <2> HIDE DEF k, p
  <2>4. Runs(D, "TILED", t, <<p>>, k, k)
    BY <1>1, <2>1, <2>2, <2>3, RunsWork
  <2> QED BY <1>2, <2>4, Zenon DEF k, p, SwapLeft, swap
<1>3. CASE t # 0
  <2>1. SwapLeft(t, Left(d), Right(d)) = << >>
    BY <1>3 DEF SwapLeft
  <2> HIDE DEF k
  <2>2. Runs(D, "TILED", t, << >>, k, k)
    BY <1>1, RunsEmpty
  <2> QED BY <2>1, <2>2 DEF k
<1> QED BY <1>2, <1>3

-----------------------------------------------------------------------------
\* The halves of two neighbouring ranges, and the halving that made them.
LEMMA HalvedJoin ==
  ASSUME NEW lo \in Nat, NEW mid \in Nat, NEW hi \in Nat, lo < mid, mid < hi,
         NEW C, NEW E, Halved(C, lo, mid), Halved(E, mid, hi)
  PROVE  Halved(C \cup E \cup {<<lo, mid, hi>>}, lo, hi)
<1> DEFINE top == <<lo, mid, hi>>
           D   == C \cup E \cup {top}
<1>1. top \in Nat \X Nat \X Nat /\ top[1] = lo /\ top[2] = mid /\ top[3] = hi
  OBVIOUS
<1>2. /\ C \subseteq Nat \X Nat \X Nat
      /\ \A d \in C : lo <= d[1] /\ d[1] < d[2] /\ d[2] < d[3] /\ d[3] <= mid
      /\ \A d, e \in C : d[2] = e[2] => d = e
      /\ \A d, e \in C : d[3] = e[3] => d = e \/ d[2] <= e[1] \/ e[2] <= d[1]
  BY DEF Halved
<1>3. /\ E \subseteq Nat \X Nat \X Nat
      /\ \A d \in E : mid <= d[1] /\ d[1] < d[2] /\ d[2] < d[3] /\ d[3] <= hi
      /\ \A d, e \in E : d[2] = e[2] => d = e
      /\ \A d, e \in E : d[3] = e[3] => d = e \/ d[2] <= e[1] \/ e[2] <= d[1]
  BY DEF Halved
<1> HIDE DEF top
<1>4. D \subseteq Nat \X Nat \X Nat
  BY <1>1, <1>2, <1>3
<1>5. \A d \in D : d[1] \in Nat /\ d[2] \in Nat /\ d[3] \in Nat
  BY <1>4
<1>6. \A d \in D : lo <= d[1] /\ d[1] < d[2] /\ d[2] < d[3] /\ d[3] <= hi
  <2> TAKE d \in D
  <2>1. d[1] \in Nat /\ d[2] \in Nat /\ d[3] \in Nat
    BY <1>5
  <2>2. CASE d \in C
    BY <1>2, <2>1, <2>2
  <2>3. CASE d \in E
    BY <1>3, <2>1, <2>3
  <2>4. CASE d = top
    BY <1>1, <2>4
  <2> QED BY <2>2, <2>3, <2>4
<1>7. ASSUME NEW d \in D, NEW e \in D
      PROVE  /\ d[2] = e[2] => d = e
             /\ d[3] = e[3] => d = e \/ d[2] <= e[1] \/ e[2] <= d[1]
  <2>1. d[1] \in Nat /\ d[2] \in Nat /\ d[3] \in Nat /\ e[1] \in Nat /\ e[2] \in Nat /\ e[3] \in Nat
    BY <1>5
  <2>2. CASE d \in C /\ e \in C
    BY <1>2, <2>2
  <2>3. CASE d \in E /\ e \in E
    BY <1>3, <2>3
  <2>4. CASE d \in C /\ e \in E
    <3>1. d[2] < d[3] /\ d[3] <= mid /\ mid <= e[1] /\ e[1] < e[2] /\ e[2] < e[3]
      BY <1>2, <1>3, <2>4
    <3> QED BY <2>1, <3>1
  <2>5. CASE d \in E /\ e \in C
    <3>1. e[2] < e[3] /\ e[3] <= mid /\ mid <= d[1] /\ d[1] < d[2] /\ d[2] < d[3]
      BY <1>2, <1>3, <2>5
    <3> QED BY <2>1, <3>1
  <2>6. CASE d = top /\ e \in C
    <3>1. e[2] < e[3] /\ e[3] <= mid
      BY <1>2, <2>6
    <3> QED BY <1>1, <2>1, <2>6, <3>1
  <2>7. CASE d = top /\ e \in E
    <3>1. mid <= e[1] /\ e[1] < e[2]
      BY <1>3, <2>7
    <3> QED BY <1>1, <2>1, <2>7, <3>1
  <2>8. CASE e = top /\ d \in C
    <3>1. d[2] < d[3] /\ d[3] <= mid
      BY <1>2, <2>8
    <3> QED BY <1>1, <2>1, <2>8, <3>1
  <2>9. CASE e = top /\ d \in E
    <3>1. mid <= d[1] /\ d[1] < d[2]
      BY <1>3, <2>9
    <3> QED BY <1>1, <2>1, <2>9, <3>1
  <2>10. CASE d = top /\ e = top
    BY <2>10
  <2> QED BY <2>2, <2>3, <2>4, <2>5, <2>6, <2>7, <2>8, <2>9, <2>10
<1> HIDE DEF D
<1>8. Halved(D, lo, hi)
  BY <1>4, <1>6, <1>7, Zenon DEF Halved
<1> QED BY <1>8 DEF D, top

\* The calls from which a thread has returned when it comes to column c.
TiledStart(c) == IF c = 0 THEN 0 ELSE 3*c + 1

\* The recursion on tiles runs from column to column, over halves that are the same for all threads.
LEMMA TiledRuns ==
  ASSUME "TILED" \in Storages, NEW w \in 1 .. minMN, NEW c \in Nat, c + w <= minMN
  PROVE  \E D : /\ Halved(D, c, c + w)
                /\ \A t \in Gang("TILED") :
                     Runs(D, "TILED", t, CORE_zgetrf_rectil_rec[<<t, c, w>>], TiledStart(c), 3*(c + w) - 1)
<1> DEFINE Good(v, a, D) ==
             /\ Halved(D, a, a + v)
             /\ \A t \in Gang("TILED") :
                  Runs(D, "TILED", t, CORE_zgetrf_rectil_rec[<<t, a, v>>], TiledStart(a), 3*(a + v) - 1)
           All(v) == \A a \in Nat : a + v <= minMN => \E D : Good(v, a, D)
           S      == {v \in 1 .. minMN : ~All(v)}
<1>0. minMN \in Nat
  BY Sizes
<1>1. ASSUME NEW v \in 1 .. minMN, NEW a \in Nat, a + v <= minMN, NEW t \in Gang("TILED")
      PROVE  CORE_zgetrf_rectil_rec[<<t, a, v>>] = TiledBody(CORE_zgetrf_rectil_rec, <<t, a, v>>)
  <2>1. <<t, a, v>> \in Gang("TILED") \X Nat \X (1 .. minMN)
    OBVIOUS
  <2> QED BY <2>1, TiledEquation
<1>2. ASSUME 1 \in 1 .. minMN PROVE All(1)
  <2> SUFFICES ASSUME NEW a \in Nat, a + 1 <= minMN PROVE Good(1, a, {})
    OBVIOUS
  <2>1. Halved({}, a, a + 1)
    BY DEF Halved
  <2>2. a \in Pivoted /\ 3*(a + 1) - 1 = 3*a + 2
    BY <1>0 DEF Pivoted
  <2>3. ASSUME NEW t \in Gang("TILED")
        PROVE  Runs({}, "TILED", t, CORE_zgetrf_rectil_rec[<<t, a, 1>>], TiledStart(a), 3*(a + 1) - 1)
    <3>1. CORE_zgetrf_rectil_rec[<<t, a, 1>>] = TiledBody(CORE_zgetrf_rectil_rec, <<t, a, 1>>)
      BY <1>1, <1>2
    <3>2. TiledBody(CORE_zgetrf_rectil_rec, <<t, a, 1>>) = Leaf(t, a)
      BY DEF TiledBody
    <3>3. Runs({}, "TILED", t, Leaf(t, a), IF a = 0 THEN 0 ELSE 3*a + 1, 3*a + 2)
      BY <2>2, LeafRuns
    <3> QED BY <2>2, <3>1, <3>2, <3>3 DEF TiledStart
  <2> QED BY <2>1, <2>3
<1>3. ASSUME NEW v \in 2 .. minMN, \A u \in 1 .. v-1 : All(u), NEW a \in Nat, a + v <= minMN
      PROVE  \E D : Good(v, a, D)
  <2> DEFINE n1  == v \div 2
             n2  == v - n1
             mid == a + n1
             hi  == a + v
             d   == <<a, mid, hi>>
  <2>1. n1 \in 1 .. v-1 /\ n2 \in 1 .. v-1 /\ mid \in Nat /\ hi \in Nat /\ mid + n2 = hi
        /\ a < mid /\ mid < hi /\ hi <= minMN /\ a + n1 <= minMN
    <3>1. n1 \in 1 .. v-1
      BY <1>0
    <3> HIDE DEF n1
    <3> QED BY <1>0, <1>3, <3>1
  <2> HIDE DEF n1, n2
  <2>2. All(n1) /\ All(n2)
    BY <1>3, <2>1
  <2>3. PICK C : Good(n1, a, C)
    BY <2>1, <2>2
  <2>4. PICK E : Good(n2, mid, E)
    <3>1. mid + n2 <= minMN
      BY <2>1
    <3> HIDE DEF mid
    <3> QED BY <2>1, <2>2, <3>1
  <2> DEFINE D == C \cup E \cup {d}
  <2>5. Halved(D, a, hi)
    <3>1. Halved(C, a, mid) /\ Halved(E, mid, hi)
      BY <2>1, <2>3, <2>4
    <3> HIDE DEF mid, hi
    <3> QED BY <2>1, <3>1, HalvedJoin
  <2>6. d \in D /\ C \subseteq D /\ E \subseteq D /\ D \subseteq Nat \X Nat \X Nat
        /\ d[1] = a /\ d[2] = mid /\ d[3] = hi
    BY <2>5 DEF Halved
  <2>7. Left(d) = a .. mid-1 /\ Right(d) = mid .. hi-1
    <3> HIDE DEF d, D, mid, hi
    <3> QED BY <2>6 DEF Left, Right
  <2>8. ASSUME NEW t \in Gang("TILED")
        PROVE  Runs(D, "TILED", t, CORE_zgetrf_rectil_rec[<<t, a, v>>], TiledStart(a), 3*(a + v) - 1)
    <3> DEFINE rec1 == CORE_zgetrf_rectil_rec[<<t, a, n1>>]
               rec2 == CORE_zgetrf_rectil_rec[<<t, mid, n2>>]
    <3>1. CORE_zgetrf_rectil_rec[<<t, a, v>>] =
            rec1 \o check(mid - 1) \o ScaleAndUpdate(t, Left(d), Right(d))
                 \o zamax("TILED", t, mid) \o exchange(mid) \o rec2 \o SwapLeft(t, Left(d), Right(d))
      <4>1. CORE_zgetrf_rectil_rec[<<t, a, v>>] = TiledBody(CORE_zgetrf_rectil_rec, <<t, a, v>>)
        BY <1>1, <1>3
      <4>2. v # 1
        BY <1>0
      <4> HIDE DEF d
      <4>3. TiledBody(CORE_zgetrf_rectil_rec, <<t, a, v>>) =
              rec1 \o check(mid - 1) \o ScaleAndUpdate(t, a .. mid-1, mid .. hi-1)
                   \o zamax("TILED", t, mid) \o exchange(mid) \o rec2 \o SwapLeft(t, a .. mid-1, mid .. hi-1)
        <5> DEFINE g    == CORE_zgetrf_rectil_rec
                   call == <<t, a, v>>
                   W(x, y, z) ==
                     LET h == z \div 2
                         L == y .. y+h-1
                         R == y+h .. y+z-1
                     IN  IF z = 1 THEN Leaf(x, y)
                         ELSE g[<<x, y, h>>] \o check(y+h-1) \o ScaleAndUpdate(x, L, R)
                                \o zamax("TILED", x, y+h) \o exchange(y+h) \o g[<<x, y+h, z-h>>] \o SwapLeft(x, L, R)
        <5> HIDE DEF g
        <5>1. TiledBody(g, call) =
                rec1 \o check(a + n1 - 1) \o ScaleAndUpdate(t, a .. a + n1 - 1, mid .. a + v - 1)
                     \o zamax("TILED", t, mid) \o exchange(mid) \o rec2 \o SwapLeft(t, a .. a + n1 - 1, mid .. a + v - 1)
          <6>1. call[1] = t /\ call[2] = a /\ call[3] = v
            OBVIOUS
          <6> HIDE DEF call
          <6>2. TiledBody(g, call) = W(call[1], call[2], call[3])
            BY Zenon DEF TiledBody
          <6>3. W(call[1], call[2], call[3]) = W(t, a, v)
            <7> HIDE DEF W
            <7> QED BY <6>1
          <6>4. W(t, a, v) =
                  rec1 \o check(a + n1 - 1) \o ScaleAndUpdate(t, a .. a + n1 - 1, mid .. a + v - 1)
                     \o zamax("TILED", t, mid) \o exchange(mid) \o rec2 \o SwapLeft(t, a .. a + n1 - 1, mid .. a + v - 1)
            BY <4>2, Zenon DEF n1, n2, g
          <6> HIDE DEF W, rec1, rec2, mid
          <6> QED BY <6>2, <6>3, <6>4
        <5>2. a + n1 - 1 = mid - 1 /\ a + v - 1 = hi - 1
          BY <2>1
        <5> HIDE DEF rec1, rec2, n1, n2, mid, hi
        <5> QED BY <5>1, <5>2 DEF g, call
      <4> HIDE DEF rec1, rec2, n1, n2, mid, hi
      <4> QED BY <2>7, <4>1, <4>3
    <3>2. Runs(D, "TILED", t, rec1, TiledStart(a), 3*mid - 1)
      <4>1. Runs(C, "TILED", t, rec1, TiledStart(a), 3*mid - 1)
        BY <2>3
      <4> HIDE DEF D, rec1, mid
      <4> QED BY <2>6, <4>1, RunsMonotone
    <3>3. Runs(D, "TILED", t, rec2, 3*mid + 1, 3*hi - 1)
      <4>1. Runs(E, "TILED", t, CORE_zgetrf_rectil_rec[<<t, mid, n2>>], TiledStart(mid), 3*(mid + n2) - 1)
        BY <2>4
      <4>2. TiledStart(mid) = 3*mid + 1
        <5>1. mid # 0
          BY <2>1
        <5> HIDE DEF mid
        <5> QED BY <5>1 DEF TiledStart
      <4>3. Runs(E, "TILED", t, rec2, 3*mid + 1, 3*hi - 1)
        BY <2>1, <4>1, <4>2
      <4> HIDE DEF D, rec2, mid, hi
      <4> QED BY <2>6, <4>3, RunsMonotone
    <3>4. Runs(D, "TILED", t, check(mid - 1), 3*mid - 1, 3*mid - 1)
      <4>1. mid - 1 \in Pivoted
        BY <1>0, <2>1 DEF Pivoted
      <4>2. 3*(mid - 1) + 2 = 3*mid - 1
        BY <2>1
      <4> HIDE DEF D, mid
      <4>3. Runs(D, "TILED", t, check(mid - 1), 3*(mid - 1) + 2, 3*(mid - 1) + 2)
        BY <4>1, CheckRuns
      <4>4. Runs(D, "TILED", t, check(mid - 1), 3*mid - 1, 3*mid - 1)
        BY <4>2, <4>3
      <4> QED BY <4>4
    <3>5. Runs(D, "TILED", t, ScaleAndUpdate(t, Left(d), Right(d)), 3*mid - 1, 3*mid)
      <4>1. d \in D /\ D \subseteq Nat \X Nat \X Nat /\ d[1] < d[2] /\ d[2] < d[3] /\ d[3] <= minMN
        BY <2>1, <2>6
      <4> HIDE DEF D, d, mid
      <4>2. Runs(D, "TILED", t, ScaleAndUpdate(t, Left(d), Right(d)), 3*d[2] - 1, 3*d[2])
        BY <4>1, ScaleAndUpdateRuns
      <4> QED BY <2>6, <4>2
    <3>6. /\ Runs(D, "TILED", t, zamax("TILED", t, mid), 3*mid, 3*mid + 1)
          /\ Runs(D, "TILED", t, exchange(mid), 3*mid + 1, 3*mid + 1)
      <4>1. mid \in Pivoted
        BY <1>0, <2>1 DEF Pivoted
      <4> HIDE DEF D, mid
      <4> QED BY <4>1, SearchRuns
    <3>7. Runs(D, "TILED", t, SwapLeft(t, Left(d), Right(d)), 3*hi - 1, 3*hi - 1)
      <4>1. d \in D /\ D \subseteq Nat \X Nat \X Nat /\ d[1] < d[2] /\ d[2] < d[3] /\ d[3] <= minMN
        BY <2>1, <2>6
      <4> HIDE DEF D, d, hi
      <4>2. Runs(D, "TILED", t, SwapLeft(t, Left(d), Right(d)), 3*d[3] - 1, 3*d[3] - 1)
        BY <4>1, SwapLeftRuns
      <4> QED BY <2>6, <4>2
    <3> DEFINE P1 == rec1
               P2 == check(mid - 1)
               P3 == ScaleAndUpdate(t, Left(d), Right(d))
               P4 == zamax("TILED", t, mid)
               P5 == exchange(mid)
               P6 == rec2
               P7 == SwapLeft(t, Left(d), Right(d))
    <3> HIDE DEF P1, P2, P3, P4, P5, P6, P7, D, mid, hi
    <3>10. Runs(D, "TILED", t, P1 \o P2, TiledStart(a), 3*mid - 1)
      BY <3>2, <3>4, RunsConcat DEF P1, P2
    <3>11. Runs(D, "TILED", t, P1 \o P2 \o P3, TiledStart(a), 3*mid)
      BY <3>5, <3>10, RunsConcat DEF P3
    <3>12. Runs(D, "TILED", t, P1 \o P2 \o P3 \o P4, TiledStart(a), 3*mid + 1)
      BY <3>6, <3>11, RunsConcat DEF P4
    <3>13. Runs(D, "TILED", t, P1 \o P2 \o P3 \o P4 \o P5, TiledStart(a), 3*mid + 1)
      BY <3>6, <3>12, RunsConcat DEF P5
    <3>14. Runs(D, "TILED", t, P1 \o P2 \o P3 \o P4 \o P5 \o P6, TiledStart(a), 3*hi - 1)
      BY <3>3, <3>13, RunsConcat DEF P6
    <3>15. Runs(D, "TILED", t, P1 \o P2 \o P3 \o P4 \o P5 \o P6 \o P7, TiledStart(a), 3*hi - 1)
      BY <3>7, <3>14, RunsConcat DEF P7
    <3> QED BY <3>1, <3>15 DEF P1, P2, P3, P4, P5, P6, P7, hi
  <2> HIDE DEF D
  <2>9. Good(v, a, D)
    BY <2>5, <2>8
  <2> QED BY <2>9
<1> HIDE DEF Good
<1>4. S = {}
  <2> SUFFICES ASSUME S # {} PROVE FALSE
    OBVIOUS
  <2>1. PICK v \in S : \A j \in S : v <= j
    <3>1. S \subseteq Nat
      OBVIOUS
    <3> HIDE DEF S
    <3> QED BY <3>1, LeastNumber
  <2>2. v \in 1 .. minMN /\ ~All(v)
    BY <2>1
  <2>3. CASE v = 1
    <3> HIDE DEF All
    <3> QED BY <1>2, <2>2, <2>3
  <2>4. CASE v # 1
    <3>1. v \in 2 .. minMN
      BY <1>0, <2>2, <2>4
    <3>2. \A u \in 1 .. v-1 : All(u)
      <4> TAKE u \in 1 .. v-1
      <4>1. u \in 1 .. minMN /\ u < v
        BY <1>0, <3>1
      <4>2. u \notin S
        <5> HIDE DEF S
        <5> QED BY <2>1, <3>1, <4>1
      <4> HIDE DEF All
      <4> QED BY <4>1, <4>2
    <3>3. All(v)
      BY <1>3, <3>1, <3>2
    <3> HIDE DEF All
    <3> QED BY <2>2, <3>3
  <2> QED BY <2>3, <2>4
<1>5. All(w)
  <2> HIDE DEF All
  <2> QED BY <1>4
<1> QED BY <1>5 DEF Good

-----------------------------------------------------------------------------
\* What the definition of CORE_zgetrf_reclap_rec says of one call, g being the calls it makes.
ArrayBody(g, call) ==
  LET t      == call[1]
      column == call[2]
      width  == call[3]
      n1     == width \div 2
      n2     == width - n1
      L      == column .. column+n1-1
      R      == column+n1 .. column+width-1
      X      == ColumnsOf(t, L)
  IN  IF width = 1
      THEN barrier({column}) \o zamax("LAPACK", t, column) \o store(column) \o check(column)
             \o scale(Below("LAPACK", t, column), column) \o replace(column) \o barrier({column})
      ELSE g[<<t, column, n1>>]
             \o CORE_zgetrf_reclap_update(t, L, R)
             \o g[<<t, column+n1, n2>>]
             \o (IF X = {} THEN << >> ELSE swap(R, X))

\* The recursion on an array, one level unfolded.
LEMMA ArrayEquation ==
  CORE_zgetrf_reclap_rec =
    [call \in Gang("LAPACK") \X Nat \X (1 .. minMN) |-> ArrayBody(CORE_zgetrf_reclap_rec, call)]
<1> DEFINE G == Gang("LAPACK")
           D(w) == G \X Nat \X (1 .. w)
           Solves(g, w) == g = [call \in D(w) |-> ArrayBody(g, call)]
<1>1. ASSUME NEW g, NEW h, NEW w \in Nat, NEW call \in D(w),
             \A c \in D(w - 1) : g[c] = h[c]
      PROVE  ArrayBody(g, call) = ArrayBody(h, call)
  <2> DEFINE n1 == call[3] \div 2
             n2 == call[3] - n1
  <2>1. CASE call[3] = 1
    BY <2>1 DEF ArrayBody
  <2>2. CASE call[3] # 1
    <3>1. call[1] \in G /\ call[2] \in Nat /\ call[3] \in 2 .. w
      BY <2>2
    <3>2. n1 \in 1 .. w-1 /\ n2 \in 1 .. w-1 /\ call[2] + n1 \in Nat
      BY <3>1
    <3> HIDE DEF n1, n2, G
    <3>3. <<call[1], call[2], n1>> \in D(w - 1) /\ <<call[1], call[2] + n1, n2>> \in D(w - 1)
      BY <3>1, <3>2
    <3>4. /\ g[<<call[1], call[2], n1>>] = h[<<call[1], call[2], n1>>]
          /\ g[<<call[1], call[2] + n1, n2>>] = h[<<call[1], call[2] + n1, n2>>]
      BY <1>1, <3>3
    <3> QED BY <3>4, Zenon DEF ArrayBody, n1, n2
  <2> QED BY <2>1, <2>2
<1> HIDE DEF G
<1>2. \A w \in Nat : \E g : Solves(g, w)
  <2> DEFINE S == {w \in Nat : ~ \E g : Solves(g, w)}
  <2> SUFFICES ASSUME S # {} PROVE FALSE
    OBVIOUS
  <2>1. PICK w \in S : \A j \in S : w <= j
    <3>1. S \subseteq Nat
      OBVIOUS
    <3> HIDE DEF S
    <3> QED BY <3>1, LeastNumber
  <2>2. CASE w = 0
    <3>1. D(0) = {}
      OBVIOUS
    <3> DEFINE g == [call \in D(0) |-> ArrayBody(<< >>, call)]
    <3>2. g = [call \in D(0) |-> ArrayBody(g, call)]
      <4> HIDE DEF D
      <4> QED BY <3>1
    <3> QED BY <2>1, <2>2, <3>2
  <2>3. CASE w # 0
    <3>1. w - 1 \in Nat /\ w \in Nat
      BY <2>1, <2>3
    <3>2. PICK g : Solves(g, w - 1)
      <4>1. w - 1 \notin S
        <5> HIDE DEF S
        <5> QED BY <2>1, <3>1
      <4> QED BY <3>1, <4>1
    <3> DEFINE h == [call \in D(w) |-> ArrayBody(g, call)]
    <3>3. D(w - 1) \subseteq D(w)
      BY <3>1
    <3>4. ASSUME NEW c \in D(w - 1) PROVE g[c] = h[c]
      <4>1. g[c] = ArrayBody(g, c)
        <5> HIDE DEF D
        <5> QED BY <3>2
      <4> QED BY <3>3, <4>1
    <3>5. ASSUME NEW call \in D(w) PROVE ArrayBody(g, call) = ArrayBody(h, call)
      <4> HIDE DEF h
      <4> QED BY <1>1, <3>1, <3>4
    <3>6. h = [call \in D(w) |-> ArrayBody(h, call)]
      <4> HIDE DEF D
      <4> DEFINE h2 == [call \in D(w) |-> ArrayBody(h, call)]
      <4>1. \A call \in D(w) : h[call] = h2[call]
        BY <3>5
      <4> QED BY <4>1
    <3> QED BY <2>1, <3>6
  <2> QED BY <2>2, <2>3
<1>3. minMN \in Nat
  BY SizeAssumption DEF minMN, Least
<1>4. \E g : Solves(g, minMN)
  BY <1>2, <1>3
<1>5. CORE_zgetrf_reclap_rec = CHOOSE g : Solves(g, minMN)
  BY Zenon DEF CORE_zgetrf_reclap_rec, ArrayBody, G
<1> QED BY <1>4, <1>5, Zenon DEF G

-----------------------------------------------------------------------------
\* A column of the recursion on an array: two barriers with the search between them.
LEMMA ColumnRuns ==
  ASSUME "LAPACK" \in Storages, NEW t \in Gang("LAPACK"), NEW c \in Pivoted, NEW D
  PROVE  Runs(D, "LAPACK", t,
              barrier({c}) \o zamax("LAPACK", t, c) \o store(c) \o check(c)
                \o scale(Below("LAPACK", t, c), c) \o replace(c) \o barrier({c}), 5*c, 5*c + 3)
<1> DEFINE b == Step("barrier", {}, {}, {c})
           z == Step("zamax", Below("LAPACK", t, c-1), {}, {c})
           o == Step("store", {}, {}, {c})
           h == Step("check", {}, {}, {c})
           s == Step("scale", Below("LAPACK", t, c), {}, {c})
           e == Step("replace", {}, {}, {c})
           k == 5*c
           Run(P, x, y) == Runs(D, "LAPACK", t, P, x, y)
<1>1. /\ c \in Nat /\ c \in Columns
      /\ Below("LAPACK", t, c-1) \in SUBSET Rows /\ Below("LAPACK", t, c) \in SUBSET Rows
  BY Sizes, BelowWithin DEF Pivoted
<1>2. k \in Nat /\ k + 1 \in Nat /\ k + 2 \in Nat /\ k + 1 + 1 = k + 2 /\ k + 2 + 1 = k + 3
  BY <1>1
<1>3. b \in Steps /\ z \in Steps /\ o \in Steps /\ h \in Steps /\ s \in Steps /\ e \in Steps
  BY <1>1, IsAStep
<1>4. /\ Fits(D, "LAPACK", t, b, k) /\ Fits(D, "LAPACK", t, z, k + 1) /\ Fits(D, "LAPACK", t, o, k + 2)
      /\ Fits(D, "LAPACK", t, h, k + 2) /\ Fits(D, "LAPACK", t, s, k + 2) /\ Fits(D, "LAPACK", t, e, k + 2)
      /\ Fits(D, "LAPACK", t, b, k + 2)
  <2>1. ASSUME NEW p, NEW l, FitsArray(D, t, p, l) PROVE Fits(D, "LAPACK", t, p, l)
    BY <2>1 DEF Fits
  <2>2. /\ FitsArray(D, t, b, k) /\ FitsArray(D, t, z, k + 1) /\ FitsArray(D, t, o, k + 2)
    BY Zenon DEF FitsArray
  <2>3. FitsArray(D, t, h, k + 2) /\ FitsArray(D, t, s, k + 2)
    BY Zenon DEF FitsArray
  <2>4. FitsArray(D, t, e, k + 2) /\ FitsArray(D, t, b, k + 2)
    BY Zenon DEF FitsArray
  <2> HIDE DEF b, z, o, h, s, e, k
  <2> QED BY <2>1, <2>2, <2>3, <2>4
<1>5. b.do = "barrier" /\ z.do = "zamax" /\ o.do = "store" /\ h.do = "check" /\ s.do = "scale" /\ e.do = "replace"
  BY DEF Step
<1> HIDE DEF b, z, o, h, s, e, k
<1>6. Run(<<b>>, k, k + 1)
  BY <1>2, <1>3, <1>4, <1>5, RunsCall
<1>7. Run(<<z>>, k + 1, k + 2)
  BY <1>2, <1>3, <1>4, <1>5, RunsCall
<1>8. Run(<<o>>, k + 2, k + 2) /\ Run(<<h>>, k + 2, k + 2)
  BY <1>2, <1>3, <1>4, <1>5, RunsWork
<1>9. Run(<<s>>, k + 2, k + 2) /\ Run(<<e>>, k + 2, k + 2)
  BY <1>2, <1>3, <1>4, <1>5, RunsWork
<1>10. Run(<<b>>, k + 2, k + 3)
  BY <1>2, <1>3, <1>4, <1>5, RunsCall
<1> HIDE DEF Run
<1>11. ASSUME NEW P, NEW Q, NEW x, NEW y, NEW v, Run(P, x, y), Run(Q, y, v)
       PROVE  Run(P \o Q, x, v)
  BY <1>11, RunsConcat DEF Run
<1>12. Run(<<b>> \o <<z>>, k, k + 2)
  BY <1>6, <1>7, <1>11
<1>13. Run(<<b>> \o <<z>> \o <<o>>, k, k + 2)
  BY <1>8, <1>12, <1>11
<1>14. Run(<<b>> \o <<z>> \o <<o>> \o <<h>>, k, k + 2)
  BY <1>8, <1>13, <1>11
<1>15. Run(<<b>> \o <<z>> \o <<o>> \o <<h>> \o <<s>>, k, k + 2)
  BY <1>9, <1>14, <1>11
<1>16. Run(<<b>> \o <<z>> \o <<o>> \o <<h>> \o <<s>> \o <<e>>, k, k + 2)
  BY <1>9, <1>15, <1>11
<1>17. Run(<<b>> \o <<z>> \o <<o>> \o <<h>> \o <<s>> \o <<e>> \o <<b>>, k, k + 3)
  BY <1>10, <1>16, <1>11
<1> QED BY <1>17 DEF Run, b, z, o, h, s, e, k, barrier, zamax, store, check, scale, replace

\* The columns that a thread takes of either half.
LEMMA ColumnsTaken ==
  ASSUME NEW t \in Gang("LAPACK"), NEW d \in Nat \X Nat \X Nat, d[1] < d[2], d[2] < d[3], d[3] <= minMN
  PROVE  ColumnsOf(t, Left(d)) \subseteq Left(d) /\ ColumnsOf(t, Right(d)) \subseteq Right(d)
<1>1. d[1] \in Nat /\ d[2] - 1 \in Nat /\ d[2] \in Nat /\ d[3] - 1 \in Nat /\ d[1] <= d[2] - 1 /\ d[2] <= d[3] - 1
  OBVIOUS
<1>2. ColumnsOf(t, d[1] .. d[2]-1) \subseteq d[1] .. d[2]-1
  BY <1>1, ColumnsPartitioned
<1>3. ColumnsOf(t, d[2] .. d[3]-1) \subseteq d[2] .. d[3]-1
  BY <1>1, ColumnsPartitioned
<1> QED BY <1>2, <1>3 DEF Left, Right

\* The update of the right half on an array.
LEMMA ArrayUpdateRuns ==
  ASSUME "LAPACK" \in Storages, NEW t \in Gang("LAPACK"),
         NEW D, D \subseteq Nat \X Nat \X Nat, NEW d \in D, d[1] < d[2], d[2] < d[3], d[3] <= minMN
  PROVE  Runs(D, "LAPACK", t, CORE_zgetrf_reclap_update(t, Left(d), Right(d)), 5*d[2] - 2, 5*d[2])
<1> DEFINE k == 5*d[2] - 2
           X == ColumnsOf(t, Right(d))
           I == Below("LAPACK", t, d[2] - 1)
           b == Step("barrier", {}, {}, Right(d))
           p == Step("swap", {}, Left(d), X)
           s == Step("trsm", {}, Left(d), X)
           g == Step("gemm", I, Left(d), Right(d))
           M == IF X = {} THEN << >> ELSE <<p>> \o <<s>>
           Run(P, x, y) == Runs(D, "LAPACK", t, P, x, y)
<1>1. /\ Left(d) \subseteq Pivoted /\ Right(d) \subseteq Columns /\ d[2] \in Nat \ {0}
      /\ (CHOOSE j \in Left(d) : j + 1 \in Right(d)) = d[2] - 1
  BY HalvingFacts
<1>2. k \in Nat /\ k + 1 \in Nat /\ k + 2 \in Nat /\ k + 1 + 1 = k + 2
      /\ k + 1 = 5*d[2] - 1 /\ k + 2 = 5*d[2]
  BY <1>1
<1>3. X \subseteq Columns /\ I \in SUBSET Rows
  BY <1>1, ColumnsTaken, BelowWithin
<1>4. CORE_zgetrf_reclap_update(t, Left(d), Right(d)) = <<b>> \o M \o <<b>> \o <<g>>
  <2> DEFINE y == CHOOSE j \in Left(d) : j + 1 \in Right(d)
             G(x) == Step("gemm", Below("LAPACK", t, x), Left(d), Right(d))
  <2>1. CORE_zgetrf_reclap_update(t, Left(d), Right(d)) = <<b>> \o M \o <<b>> \o <<G(y)>>
    BY Zenon DEF CORE_zgetrf_reclap_update, barrier, swap, trsm, gemm
  <2>2. G(y) = G(d[2] - 1)
    BY <1>1
  <2>3. G(d[2] - 1) = g
    BY Zenon
  <2> HIDE DEF G, g, b, M, y
  <2> QED BY <2>1, <2>2, <2>3
<1>5. b \in Steps /\ p \in Steps /\ s \in Steps /\ g \in Steps
  <2> HIDE DEF X, I
  <2> QED BY <1>1, <1>3, IsAStep
<1>6. /\ Fits(D, "LAPACK", t, b, k) /\ Fits(D, "LAPACK", t, b, k + 1) /\ Fits(D, "LAPACK", t, g, k + 2)
      /\ Fits(D, "LAPACK", t, p, k + 1) /\ Fits(D, "LAPACK", t, s, k + 1)
  <2>1. ASSUME NEW f, NEW l, FitsArray(D, t, f, l) PROVE Fits(D, "LAPACK", t, f, l)
    BY <2>1 DEF Fits
  <2>2. FitsArray(D, t, b, 5*d[2] - 2) /\ FitsArray(D, t, b, 5*d[2] - 1)
    BY Zenon DEF FitsArray
  <2>3. FitsArray(D, t, g, 5*d[2]) /\ FitsArray(D, t, p, 5*d[2] - 1) /\ FitsArray(D, t, s, 5*d[2] - 1)
    BY Zenon DEF FitsArray
  <2>4. k = 5*d[2] - 2
    OBVIOUS
  <2> HIDE DEF b, p, s, g, k
  <2> QED BY <1>2, <2>1, <2>2, <2>3, <2>4
<1>7. b.do = "barrier" /\ p.do = "swap" /\ s.do = "trsm" /\ g.do = "gemm"
  BY DEF Step
<1> HIDE DEF b, p, s, g, k, X
<1>8. Run(<<b>>, k, k + 1) /\ Run(<<b>>, k + 1, k + 2)
  BY <1>2, <1>5, <1>6, <1>7, RunsCall
<1>9. Run(<<p>>, k + 1, k + 1) /\ Run(<<s>>, k + 1, k + 1)
  BY <1>2, <1>5, <1>6, <1>7, RunsWork
<1>10. Run(<<g>>, k + 2, k + 2)
  BY <1>2, <1>5, <1>6, <1>7, RunsWork
<1>11. ASSUME NEW P, NEW Q, NEW x, NEW y, NEW v, Run(P, x, y), Run(Q, y, v)
       PROVE  Run(P \o Q, x, v)
  BY <1>11, RunsConcat
<1>12. Run(M, k + 1, k + 1)
  <2>1. CASE X = {}
    BY <1>2, <2>1, RunsEmpty
  <2>2. CASE X # {}
    <3>1. Run(<<p>> \o <<s>>, k + 1, k + 1)
      <4> HIDE DEF Run
      <4> QED BY <1>9, <1>11
    <3> QED BY <2>2, <3>1
  <2> QED BY <2>1, <2>2
<1> HIDE DEF M, Run
<1>13. Run(<<b>> \o M, k, k + 1)
  BY <1>8, <1>11, <1>12
<1>14. Run(<<b>> \o M \o <<b>>, k, k + 2)
  BY <1>8, <1>11, <1>13
<1>15. Run(<<b>> \o M \o <<b>> \o <<g>>, k, k + 2)
  BY <1>10, <1>11, <1>14
<1>16. Run(CORE_zgetrf_reclap_update(t, Left(d), Right(d)), k, k + 2)
  BY <1>4, <1>15
<1>17. k = 5*d[2] - 2 /\ k + 2 = 5*d[2]
  BY <1>2 DEF k
<1> HIDE DEF k
<1> QED BY <1>16, <1>17 DEF Run

\* The interchanges on the left half, by columns.
LEMMA ArrayLeftRuns ==
  ASSUME "LAPACK" \in Storages, NEW t \in Gang("LAPACK"),
         NEW D, D \subseteq Nat \X Nat \X Nat, NEW d \in D, d[1] < d[2], d[2] < d[3], d[3] <= minMN
  PROVE  Runs(D, "LAPACK", t, IF ColumnsOf(t, Left(d)) = {} THEN << >> ELSE swap(Right(d), ColumnsOf(t, Left(d))),
              5*d[3] - 2, 5*d[3] - 2)
<1> DEFINE k == 5*d[3] - 2
           X == ColumnsOf(t, Left(d))
           p == Step("swap", {}, Right(d), X)
<1>1. k \in Nat /\ Right(d) \subseteq Pivoted /\ X \subseteq Columns
  BY HalvingFacts, ColumnsTaken
<1>2. CASE X = {}
  <2> HIDE DEF k
  <2>1. Runs(D, "LAPACK", t, << >>, k, k)
    BY <1>1, RunsEmpty
  <2> QED BY <1>2, <2>1 DEF k
<1>3. CASE X # {}
  <2>1. p \in Steps
    <3> HIDE DEF X
    <3> QED BY <1>1, IsAStep
  <2>2. Fits(D, "LAPACK", t, p, k)
    <3>1. FitsArray(D, t, p, k)
      BY Zenon DEF FitsArray
    <3> QED BY <3>1 DEF Fits
  <2>3. p.do = "swap"
    BY DEF Step
  <2> HIDE DEF k, p
  <2>4. Runs(D, "LAPACK", t, <<p>>, k, k)
    BY <1>1, <2>1, <2>2, <2>3, RunsWork
  <2> HIDE DEF X
  <2>5. swap(Right(d), X) = <<p>>
    BY Zenon DEF p, swap
  <2>6. Runs(D, "LAPACK", t, IF X = {} THEN << >> ELSE swap(Right(d), X), k, k)
    BY <1>3, <2>4, <2>5
  <2> QED BY <2>6 DEF X, k
<1> QED BY <1>2, <1>3

-----------------------------------------------------------------------------
\* The recursion on an array runs from column to column, over halves that are the same for all threads.
LEMMA ArrayRuns ==
  ASSUME "LAPACK" \in Storages, NEW w \in 1 .. minMN, NEW c \in Nat, c + w <= minMN
  PROVE  \E D : /\ Halved(D, c, c + w)
                /\ \A t \in Gang("LAPACK") :
                     Runs(D, "LAPACK", t, CORE_zgetrf_reclap_rec[<<t, c, w>>], 5*c, 5*(c + w) - 2)
<1> DEFINE Good(v, a, D) ==
             /\ Halved(D, a, a + v)
             /\ \A t \in Gang("LAPACK") :
                  Runs(D, "LAPACK", t, CORE_zgetrf_reclap_rec[<<t, a, v>>], 5*a, 5*(a + v) - 2)
           All(v) == \A a \in Nat : a + v <= minMN => \E D : Good(v, a, D)
           S      == {v \in 1 .. minMN : ~All(v)}
<1>0. minMN \in Nat
  BY Sizes
<1>1. ASSUME NEW v \in 1 .. minMN, NEW a \in Nat, a + v <= minMN, NEW t \in Gang("LAPACK")
      PROVE  CORE_zgetrf_reclap_rec[<<t, a, v>>] = ArrayBody(CORE_zgetrf_reclap_rec, <<t, a, v>>)
  <2>1. <<t, a, v>> \in Gang("LAPACK") \X Nat \X (1 .. minMN)
    OBVIOUS
  <2> QED BY <2>1, ArrayEquation
<1>2. ASSUME 1 \in 1 .. minMN PROVE All(1)
  <2> SUFFICES ASSUME NEW a \in Nat, a + 1 <= minMN PROVE Good(1, a, {})
    OBVIOUS
  <2>1. Halved({}, a, a + 1)
    BY DEF Halved
  <2>2. a \in Pivoted /\ 5*(a + 1) - 2 = 5*a + 3
    BY <1>0 DEF Pivoted
  <2>3. ASSUME NEW t \in Gang("LAPACK")
        PROVE  Runs({}, "LAPACK", t, CORE_zgetrf_reclap_rec[<<t, a, 1>>], 5*a, 5*(a + 1) - 2)
    <3>1. CORE_zgetrf_reclap_rec[<<t, a, 1>>] = ArrayBody(CORE_zgetrf_reclap_rec, <<t, a, 1>>)
      BY <1>1, <1>2
    <3>2. ArrayBody(CORE_zgetrf_reclap_rec, <<t, a, 1>>) =
            barrier({a}) \o zamax("LAPACK", t, a) \o store(a) \o check(a)
              \o scale(Below("LAPACK", t, a), a) \o replace(a) \o barrier({a})
      BY DEF ArrayBody
    <3> DEFINE P == barrier({a}) \o zamax("LAPACK", t, a) \o store(a) \o check(a)
                      \o scale(Below("LAPACK", t, a), a) \o replace(a) \o barrier({a})
    <3>3. Runs({}, "LAPACK", t, P, 5*a, 5*a + 3)
      BY <2>2, ColumnRuns
    <3> HIDE DEF P
    <3> QED BY <2>2, <3>1, <3>2, <3>3 DEF P
  <2> QED BY <2>1, <2>3
<1>3. ASSUME NEW v \in 2 .. minMN, \A u \in 1 .. v-1 : All(u), NEW a \in Nat, a + v <= minMN
      PROVE  \E D : Good(v, a, D)
  <2> DEFINE n1  == v \div 2
             n2  == v - n1
             mid == a + n1
             hi  == a + v
             d   == <<a, mid, hi>>
  <2>1. n1 \in 1 .. v-1 /\ n2 \in 1 .. v-1 /\ mid \in Nat /\ hi \in Nat /\ mid + n2 = hi
        /\ a < mid /\ mid < hi /\ hi <= minMN /\ a + n1 <= minMN
    <3>1. n1 \in 1 .. v-1
      BY <1>0
    <3> HIDE DEF n1
    <3> QED BY <1>0, <1>3, <3>1
  <2> HIDE DEF n1, n2
  <2>2. All(n1) /\ All(n2)
    BY <1>3, <2>1
  <2>3. PICK C : Good(n1, a, C)
    BY <2>1, <2>2
  <2>4. PICK E : Good(n2, mid, E)
    <3>1. mid + n2 <= minMN
      BY <2>1
    <3> HIDE DEF mid
    <3> QED BY <2>1, <2>2, <3>1
  <2> DEFINE D == C \cup E \cup {d}
  <2>5. Halved(D, a, hi)
    <3>1. Halved(C, a, mid) /\ Halved(E, mid, hi)
      BY <2>1, <2>3, <2>4
    <3> HIDE DEF mid, hi
    <3> QED BY <2>1, <3>1, HalvedJoin
  <2>6. d \in D /\ C \subseteq D /\ E \subseteq D /\ D \subseteq Nat \X Nat \X Nat
        /\ d[1] = a /\ d[2] = mid /\ d[3] = hi
    BY <2>5 DEF Halved
  <2>7. Left(d) = a .. mid-1 /\ Right(d) = mid .. hi-1
    <3> HIDE DEF d, D, mid, hi
    <3> QED BY <2>6 DEF Left, Right
  <2>8. ASSUME NEW t \in Gang("LAPACK")
        PROVE  Runs(D, "LAPACK", t, CORE_zgetrf_reclap_rec[<<t, a, v>>], 5*a, 5*(a + v) - 2)
    <3> DEFINE rec1 == CORE_zgetrf_reclap_rec[<<t, a, n1>>]
               rec2 == CORE_zgetrf_reclap_rec[<<t, mid, n2>>]
    <3> DEFINE Y    == ColumnsOf(t, Left(d))
               P2   == CORE_zgetrf_reclap_update(t, Left(d), Right(d))
               P4   == IF Y = {} THEN << >> ELSE swap(Right(d), Y)
    <3>1. CORE_zgetrf_reclap_rec[<<t, a, v>>] = rec1 \o P2 \o rec2 \o P4
      <4>1. CORE_zgetrf_reclap_rec[<<t, a, v>>] = ArrayBody(CORE_zgetrf_reclap_rec, <<t, a, v>>)
        BY <1>1, <1>3
      <4>2. v # 1
        BY <1>0
      <4> DEFINE g    == CORE_zgetrf_reclap_rec
                 call == <<t, a, v>>
                 B(L, R) == rec1 \o CORE_zgetrf_reclap_update(t, L, R) \o rec2
                              \o (IF ColumnsOf(t, L) = {} THEN << >> ELSE swap(R, ColumnsOf(t, L)))
                 W(x, y, z) ==
                   LET h == z \div 2
                       L == y .. y+h-1
                       R == y+h .. y+z-1
                       X == ColumnsOf(x, L)
                   IN  IF z = 1
                       THEN barrier({y}) \o zamax("LAPACK", x, y) \o store(y) \o check(y)
                              \o scale(Below("LAPACK", x, y), y) \o replace(y) \o barrier({y})
                       ELSE g[<<x, y, h>>] \o CORE_zgetrf_reclap_update(x, L, R) \o g[<<x, y+h, z-h>>]
                              \o (IF X = {} THEN << >> ELSE swap(R, X))
      <4> HIDE DEF g, d
      <4>3. ArrayBody(g, call) = B(a .. a + n1 - 1, mid .. a + v - 1)
        <5>1. call[1] = t /\ call[2] = a /\ call[3] = v
          OBVIOUS
        <5> HIDE DEF call
        <5>2. ArrayBody(g, call) = W(call[1], call[2], call[3])
          BY Zenon DEF ArrayBody
        <5>3. W(call[1], call[2], call[3]) = W(t, a, v)
          <6> HIDE DEF W
          <6> QED BY <5>1
        <5>4. W(t, a, v) = B(a .. a + n1 - 1, mid .. a + v - 1)
          BY <4>2, Zenon DEF n1, n2, g
        <5> HIDE DEF W, B, mid
        <5> QED BY <5>2, <5>3, <5>4
      <4>4. a + n1 - 1 = mid - 1 /\ a + v - 1 = hi - 1
        BY <2>1
      <4>5. B(a .. a + n1 - 1, mid .. a + v - 1) = B(Left(d), Right(d))
        <5> HIDE DEF B, n1, mid, hi
        <5> QED BY <2>7, <4>4
      <4>6. B(Left(d), Right(d)) = rec1 \o P2 \o rec2 \o P4
        BY Zenon
      <4> HIDE DEF B, P2, P4, rec1, rec2, n1, mid
      <4> QED BY <4>1, <4>3, <4>5, <4>6 DEF g, call
    <3>2. Runs(D, "LAPACK", t, rec1, 5*a, 5*mid - 2)
      <4>1. Runs(C, "LAPACK", t, rec1, 5*a, 5*mid - 2)
        BY <2>3
      <4> HIDE DEF D, rec1, mid
      <4> QED BY <2>6, <4>1, RunsMonotone
    <3>3. Runs(D, "LAPACK", t, rec2, 5*mid, 5*hi - 2)
      <4>1. Runs(E, "LAPACK", t, rec2, 5*mid, 5*(mid + n2) - 2)
        BY <2>4
      <4>2. Runs(E, "LAPACK", t, rec2, 5*mid, 5*hi - 2)
        BY <2>1, <4>1
      <4> HIDE DEF D, rec2, mid, hi
      <4> QED BY <2>6, <4>2, RunsMonotone
    <3>4. d \in D /\ D \subseteq Nat \X Nat \X Nat /\ d[1] < d[2] /\ d[2] < d[3] /\ d[3] <= minMN
      BY <2>1, <2>6
    <3>5. Runs(D, "LAPACK", t, P2, 5*mid - 2, 5*mid)
      <4> HIDE DEF D, d, mid
      <4>1. Runs(D, "LAPACK", t, P2, 5*d[2] - 2, 5*d[2])
        BY <3>4, ArrayUpdateRuns
      <4> QED BY <2>6, <4>1
    <3>6. Runs(D, "LAPACK", t, P4, 5*hi - 2, 5*hi - 2)
      <4> HIDE DEF D, d, hi
      <4>1. Runs(D, "LAPACK", t, P4, 5*d[3] - 2, 5*d[3] - 2)
        BY <3>4, ArrayLeftRuns
      <4> QED BY <2>6, <4>1
    <3> HIDE DEF P2, P4, rec1, rec2, D, mid
    <3>7. Runs(D, "LAPACK", t, rec1 \o P2, 5*a, 5*mid)
      BY <3>2, <3>5, RunsConcat
    <3>8. Runs(D, "LAPACK", t, rec1 \o P2 \o rec2, 5*a, 5*hi - 2)
      <4> HIDE DEF hi
      <4> QED BY <3>3, <3>7, RunsConcat
    <3>9. Runs(D, "LAPACK", t, rec1 \o P2 \o rec2 \o P4, 5*a, 5*hi - 2)
      <4> HIDE DEF hi
      <4> QED BY <3>6, <3>8, RunsConcat
    <3> QED BY <3>1, <3>9
  <2> HIDE DEF D
  <2>9. Good(v, a, D)
    BY <2>5, <2>8
  <2> QED BY <2>9
<1> HIDE DEF Good
<1>4. S = {}
  <2> SUFFICES ASSUME S # {} PROVE FALSE
    OBVIOUS
  <2>1. PICK v \in S : \A j \in S : v <= j
    <3>1. S \subseteq Nat
      OBVIOUS
    <3> HIDE DEF S
    <3> QED BY <3>1, LeastNumber
  <2>2. v \in 1 .. minMN /\ ~All(v)
    BY <2>1
  <2>3. CASE v = 1
    <3> HIDE DEF All
    <3> QED BY <1>2, <2>2, <2>3
  <2>4. CASE v # 1
    <3>1. v \in 2 .. minMN
      BY <1>0, <2>2, <2>4
    <3>2. \A u \in 1 .. v-1 : All(u)
      <4> TAKE u \in 1 .. v-1
      <4>1. u \in 1 .. minMN /\ u < v
        BY <1>0, <3>1
      <4>2. u \notin S
        <5> HIDE DEF S
        <5> QED BY <2>1, <3>1, <4>1
      <4> HIDE DEF All
      <4> QED BY <4>1, <4>2
    <3>3. All(v)
      BY <1>3, <3>1, <3>2
    <3> HIDE DEF All
    <3> QED BY <2>2, <3>3
  <2> QED BY <2>3, <2>4
<1>5. All(w)
  <2> HIDE DEF All
  <2> QED BY <1>4
<1> QED BY <1>5 DEF Good

-----------------------------------------------------------------------------
\* The layouts there are.
LEMMA StoragesKnown == Storages \subseteq {"TILED", "LAPACK"}
BY SizeAssumption

\* A panel that is wider than high has one thread.
LEMMA WideAlone ==
  ASSUME NEW s \in Storages, n # minMN
  PROVE  Gang(s) = {0}
<1>1. m < n /\ m \in Nat /\ n \in Nat /\ mb \in Nat \ {0} /\ (m > mb => n <= mb)
  BY SizeAssumption DEF minMN, Least
<1>2. thcnt["LAPACK"] = 1
  BY <1>1, Counts
<1>3. thcnt["TILED"] = 1
  <2>1. m <= mb
    BY <1>1
  <2>2. mt \in Nat \ {0} /\ (mt - 1) * mb < m /\ thcnt["TILED"] \in Nat \ {0} /\ thcnt["TILED"] <= mt
    BY Counts
  <2>3. CASE mt >= 2
    <3>1. 1 * mb <= (mt - 1) * mb
      BY <1>1, <2>2, <2>3, Monotone
    <3> QED BY <1>1, <2>1, <2>2, <3>1
  <2> QED BY <2>2, <2>3
<1>4. thcnt[s] = 1
  BY <1>2, <1>3, StoragesKnown
<1> QED BY <1>4 DEF Gang

\* The number of calls a thread has made at the end of its program, and the halves the program is made of.
LastCall(s) == IF s = "TILED" THEN 3*minMN - 1 ELSE 5*minMN - 2

Follows(D, s) ==
  Halved(D, 0, minMN) /\ \A t \in Gang(s) : Runs(D, s, t, Program(s, t), 0, LastCall(s))

Halves(s) == CHOOSE D : Follows(D, s)

\* The whole program of every thread fits the same halves.
LEMMA ProgramRuns ==
  ASSUME NEW s \in Storages, n = minMN
  PROVE  Follows(Halves(s), s)
<1>1. minMN \in 1 .. minMN /\ 0 \in Nat /\ 0 + minMN <= minMN /\ 0 + minMN = minMN
  BY Sizes
<1>2. CASE s = "TILED"
  <2>1. PICK D : /\ Halved(D, 0, minMN)
                 /\ \A t \in Gang("TILED") :
                      Runs(D, "TILED", t, CORE_zgetrf_rectil_rec[<<t, 0, minMN>>], TiledStart(0), 3*minMN - 1)
    <3>1. \E D : /\ Halved(D, 0, 0 + minMN)
                 /\ \A t \in Gang("TILED") :
                      Runs(D, "TILED", t, CORE_zgetrf_rectil_rec[<<t, 0, minMN>>], TiledStart(0), 3*(0 + minMN) - 1)
      BY <1>1, <1>2, TiledRuns
    <3> QED BY <1>1, <3>1
  <2>2. \A t \in Gang("TILED") : Runs(D, "TILED", t, Program("TILED", t), 0, 3*minMN - 1)
    <3> TAKE t \in Gang("TILED")
    <3> DEFINE P == CORE_zgetrf_rectil_rec[<<t, 0, minMN>>]
    <3>1. Program("TILED", t) = P \o << >>
      BY Zenon DEF Program, Wide
    <3>2. Runs(D, "TILED", t, P, 0, 3*minMN - 1)
      BY <2>1 DEF TiledStart
    <3> HIDE DEF P
    <3>3. P \in Seq(Steps)
      BY <3>2 DEF Runs
    <3>4. P \o << >> = P
      BY <3>3, ConcatEmptySeq
    <3> QED BY <3>1, <3>2, <3>4
  <2>3. Follows(D, s)
    BY <1>2, <2>1, <2>2 DEF Follows, LastCall
  <2> QED BY <2>3, Zenon DEF Halves
<1>3. CASE s = "LAPACK"
  <2>1. PICK D : /\ Halved(D, 0, minMN)
                 /\ \A t \in Gang("LAPACK") :
                      Runs(D, "LAPACK", t, CORE_zgetrf_reclap_rec[<<t, 0, minMN>>], 0, 5*minMN - 2)
    <3>1. \E D : /\ Halved(D, 0, 0 + minMN)
                 /\ \A t \in Gang("LAPACK") :
                      Runs(D, "LAPACK", t, CORE_zgetrf_reclap_rec[<<t, 0, minMN>>], 5*0, 5*(0 + minMN) - 2)
      BY <1>1, <1>3, ArrayRuns
    <3> QED BY <1>1, <3>1
  <2>2. \A t \in Gang("LAPACK") : Runs(D, "LAPACK", t, Program("LAPACK", t), 0, 5*minMN - 2)
    <3> TAKE t \in Gang("LAPACK")
    <3> DEFINE P == CORE_zgetrf_reclap_rec[<<t, 0, minMN>>]
    <3>1. Program("LAPACK", t) = P \o << >>
      BY "LAPACK" # "TILED" DEF Program, Wide
    <3>2. Runs(D, "LAPACK", t, P, 0, 5*minMN - 2)
      BY <2>1
    <3> HIDE DEF P
    <3>3. P \in Seq(Steps)
      BY <3>2 DEF Runs
    <3>4. P \o << >> = P
      BY <3>3, ConcatEmptySeq
    <3> QED BY <3>1, <3>2, <3>4
  <2>3. Follows(D, s)
    BY <1>3, <2>1, <2>2 DEF Follows, LastCall
  <2> QED BY <2>3, Zenon DEF Halves
<1> QED BY <1>2, <1>3, StoragesKnown

-----------------------------------------------------------------------------
\* The calls from which thread t has returned.
Returned(t) == calls[t] - (IF inside[t] THEN 1 ELSE 0)

\* The steps a thread has before it fit where it is.
Placed(t) == \E b : Runs(Halves(storage), storage, t, todo[t], Returned(t), b)

\* A thread inside a call is at the step that makes it.
AtCall(t) == inside[t] => todo[t] # << >> /\ Head(todo[t]).do \in {"zamax", "barrier"}

\* No thread has returned from a call that another one has not begun.
Together == \A t, u \in Threads : calls[u] >= Returned(t)

PanelTypes ==
  /\ calls \in [Threads -> Nat] /\ inside \in [Threads -> BOOLEAN]
  /\ DOMAIN todo = Threads /\ DOMAIN found = Pivoted
  /\ \A c \in Pivoted : found[c].row \in Rows

PanelInv ==
  /\ PanelTypes
  /\ \A t \in Threads : Placed(t) /\ AtCall(t)
  /\ Together

Square == n = minMN => PanelInv

\* The invariant holds at the start.
LEMMA SquareInit == Init => storage \in Storages /\ Square
<1> SUFFICES ASSUME Init, n = minMN PROVE storage \in Storages /\ PanelInv
  <2>1. Init => storage \in Storages
    BY DEF Init
  <2> QED BY <2>1 DEF Square
<1>1. storage \in Storages
  BY DEF Init
<1>2. PanelTypes
  <2>1. \A c \in Pivoted : found[c].row = 0
    BY DEF Init, Unknown
  <2>2. 0 \in Rows
    BY Sizes DEF Rows
  <2> QED BY <2>1, <2>2 DEF Init, PanelTypes
<1>3. ASSUME NEW t \in Threads PROVE Placed(t) /\ AtCall(t) /\ Returned(t) = 0 /\ calls[t] = 0
  <2>1. calls[t] = 0 /\ inside[t] = FALSE /\ todo[t] = Program(storage, t)
    BY DEF Init
  <2>2. Returned(t) = 0
    <3>1. ~inside[t] /\ calls[t] = 0
      BY <2>1
    <3> DEFINE w == IF inside[t] THEN 1 ELSE 0
    <3>2. w = 0
      BY <3>1
    <3>3. Returned(t) = calls[t] - w
      BY Zenon DEF Returned
    <3> HIDE DEF w
    <3> QED BY <3>1, <3>2, <3>3
  <2>3. Runs(Halves(storage), storage, t, Program(storage, t), 0, LastCall(storage))
    BY <1>1, ProgramRuns DEF Follows, Threads
  <2> QED BY <2>1, <2>2, <2>3 DEF Placed, AtCall
<1>4. Together
  BY <1>3 DEF Together
<1> QED BY <1>1, <1>2, <1>3, <1>4 DEF PanelInv

\* Where a thread is.
LEMMA Place ==
  ASSUME PanelInv, NEW t \in Threads
  PROVE  /\ Returned(t) \in Nat /\ calls[t] \in Nat /\ inside[t] \in BOOLEAN /\ todo[t] \in Seq(Steps)
         /\ ~Done(t) => Here(t) \in Steps /\ Fits(Halves(storage), storage, t, Here(t), Returned(t))
<1>1. PICK b : Runs(Halves(storage), storage, t, todo[t], Returned(t), b)
  BY DEF PanelInv, Placed
<1>2. todo[t] \in Seq(Steps)
  BY <1>1 DEF Runs
<1>3. Returned(t) \in Nat
  <2>1. PICK at \in [1 .. Len(todo[t]) + 1 -> Nat] : at[1] = Returned(t)
    BY <1>1 DEF Runs
  <2>2. Len(todo[t]) \in Nat
    BY <1>2, LenProperties
  <2> QED BY <2>1, <2>2
<1>4. ~Done(t) => Here(t) \in Steps /\ Fits(Halves(storage), storage, t, Here(t), Returned(t))
  BY <1>1, RunsTail DEF Done, Here
<1> QED BY <1>2, <1>3, <1>4 DEF PanelInv, PanelTypes

-----------------------------------------------------------------------------
\* The column of a step that has one.
LEMMA OneColumn ==
  ASSUME PanelInv, storage \in Storages, NEW t \in Threads, ~Done(t),
         Here(t).do \in {"zamax", "exchange", "check", "store", "replace"}
  PROVE  Col(t) \in Pivoted /\ Here(t).cols = {Col(t)}
<1> DEFINE D == Halves(storage)
           k == Returned(t)
           p == Here(t)
<1>1. Fits(D, storage, t, p, k)
  BY Place
<1>2. \E c \in Pivoted : p.cols = {c}
  <2> HIDE DEF D, k, p
  <2>1. p.do \in {"zamax", "exchange", "check", "store", "replace"}
    BY DEF p
  <2>2. CASE FitsTiled(D, t, p, k)
    <3>1. PICK c \in Pivoted : \/ p = Step("zamax", Below("TILED", t, c-1), {}, {c})
                               \/ p = Step("barrier", {}, {}, {c})
                               \/ p = Step("exchange", {}, {}, {c})
                               \/ p = Step("check", {}, {}, {c})
                               \/ \E I \in SUBSET Below("TILED", t, c) : p = Step("scale", I, {}, {c})
      <4>1. ASSUME NEW d \in D, \/ p = Step("barrier", {}, {}, Right(d))
                                \/ p = Step("swap", {}, Left(d), Right(d))
                                \/ p = Step("trsm", {}, Left(d), Right(d))
                                \/ p = Step("swap", {}, Right(d), Left(d))
                                \/ \E I \in SUBSET Below("TILED", t, d[2]-1) : p = Step("gemm", I, Left(d), Right(d))
            PROVE FALSE
        <5>1. p.do \in {"barrier", "swap", "trsm", "gemm"}
          BY <4>1 DEF Step
        <5> QED BY <2>1, <5>1
      <4> QED BY <2>2, <4>1, Zenon DEF FitsTiled
    <3> QED BY <2>1, <3>1 DEF Step
  <2>3. CASE FitsArray(D, t, p, k)
    <3>1. PICK c \in Pivoted : \/ p = Step("barrier", {}, {}, {c})
                               \/ p = Step("zamax", Below("LAPACK", t, c-1), {}, {c})
                               \/ p = Step("store", {}, {}, {c})
                               \/ p = Step("check", {}, {}, {c})
                               \/ p = Step("scale", Below("LAPACK", t, c), {}, {c})
                               \/ p = Step("replace", {}, {}, {c})
      <4>1. ASSUME NEW d \in D, \/ p = Step("barrier", {}, {}, Right(d))
                                \/ p = Step("swap", {}, Left(d), ColumnsOf(t, Right(d)))
                                \/ p = Step("trsm", {}, Left(d), ColumnsOf(t, Right(d)))
                                \/ p = Step("gemm", Below("LAPACK", t, d[2]-1), Left(d), Right(d))
                                \/ p = Step("swap", {}, Right(d), ColumnsOf(t, Left(d)))
            PROVE FALSE
        <5>1. p.do \in {"barrier", "swap", "trsm", "gemm"}
          BY <4>1 DEF Step
        <5> QED BY <2>1, <5>1
      <4> QED BY <2>3, <4>1, Zenon DEF FitsArray
    <3> QED BY <2>1, <3>1 DEF Step
  <2> QED BY <1>1, <2>2, <2>3 DEF Fits
<1>3. PICK c \in Pivoted : Here(t).cols = {c}
  BY <1>2
<1>4. Col(t) = c
  BY <1>3 DEF Col
<1> QED BY <1>3, <1>4

\* A step of one thread that is not a call leaves the others where they are.
LEMMA WorkStep ==
  ASSUME PanelInv, storage' = storage, NEW t \in Threads, ~Done(t), Here(t).do \notin {"zamax", "barrier"},
         todo' = [todo EXCEPT ![t] = Tail(@)] \/ todo' = [todo EXCEPT ![t] = << >>],
         UNCHANGED <<found, calls, inside>>
  PROVE  PanelInv'
<1>1. PanelTypes' /\ Threads' = Threads
  BY DEF PanelInv, PanelTypes, Threads
<1>2. \A u \in Threads : Returned(u)' = Returned(u)
  BY DEF Returned
<1>3. Together'
  BY <1>1, <1>2 DEF PanelInv, Together
<1>4. ASSUME NEW u \in Threads PROVE Placed(u)' /\ AtCall(u)'
  <2>1. CASE u # t
    <3>1. todo'[u] = todo[u]
      BY <2>1 DEF PanelInv, PanelTypes
    <3> QED BY <1>2, <3>1 DEF PanelInv, Placed, AtCall
  <2>2. CASE u = t
    <3>1. ~inside[t]
      BY DEF PanelInv, AtCall, Done, Here
    <3>2. todo'[t] = Tail(todo[t]) \/ todo'[t] = << >>
      BY DEF PanelInv, PanelTypes
    <3>3. \E b : Runs(Halves(storage), storage, t, todo'[t], Returned(t), b)
      <4>1. CASE todo'[t] = Tail(todo[t])
        <5>1. PICK b : Runs(Halves(storage), storage, t, todo[t], Returned(t), b)
          BY DEF PanelInv, Placed
        <5>2. Met(Head(todo[t])) = 0 /\ todo[t] # << >> /\ Returned(t) \in Nat
          BY Place DEF Met, Here, Done
        <5>3. Runs(Halves(storage), storage, t, Tail(todo[t]), Returned(t) + Met(Head(todo[t])), b)
          BY <5>1, <5>2, RunsTail
        <5> QED BY <4>1, <5>2, <5>3
      <4>2. CASE todo'[t] = << >>
        <5>1. Returned(t) \in Nat
          BY Place
        <5> QED BY <4>2, <5>1, RunsEmpty
      <4> QED BY <3>2, <4>1, <4>2
    <3>4. Placed(t)'
      BY <1>2, <3>3 DEF Placed, Halves, Follows
    <3>5. AtCall(t)'
      BY <3>1 DEF AtCall
    <3> QED BY <2>2, <3>4, <3>5
  <2> QED BY <2>1, <2>2
<1> QED BY <1>1, <1>3, <1>4 DEF PanelInv

\* A thread that comes to a call does not disturb the others.
LEMMA ArriveStep ==
  ASSUME PanelInv, storage \in Storages, storage' = storage, NEW t \in Threads, Arrive(t)
  PROVE  PanelInv'
<1>1. /\ ~Done(t) /\ Here(t).do \in {"zamax", "barrier"} /\ ~inside[t]
      /\ inside' = [inside EXCEPT ![t] = TRUE]
      /\ calls' = [calls EXCEPT ![t] = @ + 1]
      /\ todo' = todo
  BY DEF Arrive, At
<1>2. Threads' = Threads
  BY DEF Threads
<1>3. \A u \in Threads : calls[u] \in Nat /\ inside[u] \in BOOLEAN
  BY DEF PanelInv, PanelTypes
<1>4. \A u \in Threads : calls'[u] >= calls[u] /\ Returned(u)' = Returned(u)
  <2> TAKE u \in Threads
  <2>1. CASE u = t
    <3>1. calls'[t] = calls[t] + 1 /\ inside'[t] /\ ~inside[t]
      BY <1>1 DEF PanelInv, PanelTypes
    <3> QED BY <1>3, <2>1, <3>1 DEF Returned
  <2>2. CASE u # t
    <3>1. calls'[u] = calls[u] /\ inside'[u] = inside[u]
      BY <1>1, <2>2 DEF PanelInv, PanelTypes
    <3> QED BY <1>3, <3>1 DEF Returned
  <2> QED BY <2>1, <2>2
<1>5. calls' \in [Threads -> Nat] /\ inside' \in [Threads -> BOOLEAN]
  BY <1>1, <1>3 DEF PanelInv, PanelTypes
<1>6. DOMAIN found' = Pivoted /\ \A c \in Pivoted : found'[c].row \in Rows
  <2>1. CASE found' = found
    BY <2>1 DEF PanelInv, PanelTypes
  <2>2. CASE At(t, "zamax") /\ \E i \in Candidates(Col(t)), zero \in BOOLEAN :
                                  found' = [found EXCEPT ![Col(t)] = Result(i, zero, Col(t))]
    <3>1. Col(t) \in Rows
      BY <1>1, <2>2, OneColumn, Sizes DEF At
    <3>2. PICK i \in Candidates(Col(t)), zero \in BOOLEAN : found' = [found EXCEPT ![Col(t)] = Result(i, zero, Col(t))]
      BY <2>2
    <3>3. PivotRows[storage] \subseteq Rows
      BY SizeAssumption DEF Rows
    <3>4. i \in Rows
      BY <3>1, <3>3 DEF Candidates
    <3>5. Result(i, zero, Col(t)).row = i
      BY DEF Result
    <3> HIDE DEF PanelInv
    <3>6. PanelTypes
      BY DEF PanelInv
    <3> QED BY <3>2, <3>4, <3>5, <3>6 DEF PanelTypes
  <2> QED BY <2>1, <2>2 DEF Arrive
<1>7. PanelTypes'
  BY <1>1, <1>2, <1>5, <1>6 DEF PanelInv, PanelTypes
<1>8. Together'
  <2>1. ASSUME NEW u \in Threads, NEW v \in Threads PROVE calls'[u] >= Returned(v)'
    <3>1. calls[u] >= Returned(v) /\ Returned(v) \in Nat
      BY Place DEF PanelInv, Together
    <3>2. calls'[u] \in Nat
      BY <1>5
    <3> QED BY <1>3, <1>4, <3>1, <3>2
  <2> QED BY <1>2, <2>1 DEF Together
<1>9. ASSUME NEW u \in Threads PROVE Placed(u)' /\ AtCall(u)'
  <2>1. Placed(u)'
    BY <1>1, <1>4 DEF PanelInv, Placed, Halves, Follows
  <2>2. AtCall(u)'
    <3>1. CASE u = t
      BY <1>1, <3>1 DEF AtCall, Done, Here
    <3>2. CASE u # t
      <4>1. inside'[u] = inside[u]
        BY <1>1, <3>2 DEF PanelInv, PanelTypes
      <4> QED BY <1>1, <4>1 DEF PanelInv, AtCall
    <3> QED BY <3>1, <3>2
  <2> QED BY <2>1, <2>2
<1> QED BY <1>2, <1>7, <1>8, <1>9 DEF PanelInv

\* A thread returns from a call only when all have come to it.
LEMMA ReturnStep ==
  ASSUME PanelInv, storage \in Storages, storage' = storage, NEW t \in Threads, Return(t)
  PROVE  PanelInv'
<1>1. /\ inside[t] /\ \A u \in Threads : calls[u] >= calls[t]
      /\ inside' = [inside EXCEPT ![t] = FALSE]
      /\ todo' = [todo EXCEPT ![t] = Tail(@)]
      /\ calls' = calls /\ found' = found
  BY DEF Return, Advance
<1>2. Threads' = Threads
  BY DEF Threads
<1>3. \A u \in Threads : calls[u] \in Nat /\ inside[u] \in BOOLEAN
  BY DEF PanelInv, PanelTypes
<1>4. todo[t] # << >> /\ Met(Head(todo[t])) = 1
  BY <1>1 DEF PanelInv, AtCall, Met
<1>5. Returned(t)' = calls[t] /\ calls[t] = Returned(t) + 1
  <2>1. ~inside'[t]
    BY <1>1 DEF PanelInv, PanelTypes
  <2> QED BY <1>1, <1>3, <2>1 DEF Returned
<1>6. \A u \in Threads : u # t => Returned(u)' = Returned(u) /\ todo'[u] = todo[u] /\ inside'[u] = inside[u]
  BY <1>1 DEF Returned, PanelInv, PanelTypes
<1>7. PanelTypes'
  BY <1>1, <1>2 DEF PanelInv, PanelTypes
<1>8. Together'
  <2>1. ASSUME NEW u \in Threads, NEW v \in Threads PROVE calls[u] >= Returned(v)'
    BY <1>1, <1>5, <1>6 DEF PanelInv, Together
  <2> QED BY <1>1, <1>2, <2>1 DEF Together
<1>9. ASSUME NEW u \in Threads PROVE Placed(u)' /\ AtCall(u)'
  <2>1. CASE u = t
    <3>1. PICK b : Runs(Halves(storage), storage, t, todo[t], Returned(t), b)
      BY DEF PanelInv, Placed
    <3>2. Runs(Halves(storage), storage, t, Tail(todo[t]), Returned(t) + Met(Head(todo[t])), b)
      BY <1>4, <3>1, RunsTail
    <3>3. todo'[t] = Tail(todo[t])
      BY <1>1 DEF PanelInv, PanelTypes
    <3>4. Placed(t)'
      BY <1>4, <1>5, <3>2, <3>3 DEF Placed, Halves, Follows
    <3>5. AtCall(t)'
      BY <1>1 DEF AtCall, PanelInv, PanelTypes
    <3> QED BY <2>1, <3>4, <3>5
  <2>2. CASE u # t
    BY <1>6, <2>2 DEF PanelInv, Placed, AtCall, Halves, Follows
  <2> QED BY <2>1, <2>2
<1> QED BY <1>2, <1>7, <1>8, <1>9 DEF PanelInv

\* Every step of every thread keeps the invariant, in a panel that is not wider than high.
LEMMA SquareStep ==
  ASSUME storage \in Storages, Square, [Next]_vars
  PROVE  storage' \in Storages /\ Square'
<1>1. storage' = storage
  BY DEF Next, Thread, vars
<1> SUFFICES ASSUME n = minMN PROVE PanelInv'
  BY <1>1 DEF Square
<1>2. PanelInv
  BY DEF Square
<1>3. CASE UNCHANGED vars
  BY <1>2, <1>3 DEF vars, PanelInv, PanelTypes, Placed, AtCall, Together, Returned, Threads, Halves, Follows
<1>4. ASSUME NEW t \in Threads, Thread(t) PROVE PanelInv'
  <2>1. CASE Swap(t)
    BY <1>1, <1>2, <2>1, WorkStep DEF Swap, Update, Work, Advance, At
  <2>2. CASE Trsm(t)
    BY <1>1, <1>2, <2>2, WorkStep DEF Trsm, Update, Work, Advance, At
  <2>3. CASE Scale(t)
    BY <1>1, <1>2, <2>3, WorkStep DEF Scale, Update, Work, Advance, At
  <2>4. CASE Gemm(t)
    BY <1>1, <1>2, <2>4, WorkStep DEF Gemm, Update, Work, Advance, At
  <2>5. CASE Exchange(t)
    BY <1>1, <1>2, <2>5, WorkStep DEF Exchange, Work, Advance, At
  <2>6. CASE Store(t)
    BY <1>1, <1>2, <2>6, WorkStep DEF Store, Work, Advance, At
  <2>7. CASE Replace(t)
    BY <1>1, <1>2, <2>7, WorkStep DEF Replace, Work, Advance, At
  <2>8. CASE Check(t)
    <3>1. Wide(storage, t) = << >>
      BY DEF Wide
    <3> QED BY <1>1, <1>2, <2>8, <3>1, WorkStep DEF Check, Advance, At
  <2>9. CASE Arrive(t)
    BY <1>1, <1>2, <2>9, ArriveStep
  <2>10. CASE Return(t)
    BY <1>1, <1>2, <2>10, ReturnStep
  <2> QED BY <1>4, <2>1, <2>2, <2>3, <2>4, <2>5, <2>6, <2>7, <2>8, <2>9, <2>10 DEF Thread
<1> QED BY <1>3, <1>4 DEF Next

-----------------------------------------------------------------------------
\* What the steps touch.
LEMMA Touches ==
  ASSUME NEW t, ~Done(t)
  PROVE  LET p == Here(t) IN
         /\ p.do = "swap" => /\ Reads(t) = Pivots(p.inner) /\ Stores(t) = {}
                             /\ Writes(t) = Cells(p.inner \cup {IPIV[j] : j \in p.inner}, p.cols)
         /\ p.do = "trsm" => /\ Reads(t) = Cells(p.inner, p.inner) /\ Stores(t) = {}
                             /\ Writes(t) = Cells(p.inner, p.cols)
         /\ p.do = "gemm" => /\ Reads(t) = Cells(p.rows, p.inner) \cup Cells(p.inner, p.cols) /\ Stores(t) = {}
                             /\ Writes(t) = Cells(p.rows, p.cols)
         /\ p.do = "scale" => Reads(t) = {} /\ Stores(t) = {} /\ Writes(t) = Cells(p.rows, p.cols)
         /\ p.do \in {"barrier", "check"} => Reads(t) = {} /\ Stores(t) = {} /\ Writes(t) = {}
         /\ p.do = "store" => Reads(t) = {} /\ Writes(t) = {} /\ Stores(t) = Cells(p.cols, p.cols)
<1> DEFINE p == Here(t)
<1>1. Stores(t) = IF p.do = "store" THEN Cells(p.cols, p.cols) ELSE {}
  BY DEF Stores, At
<1>2. CASE p.do = "swap"
  BY <1>1, <1>2 DEF Reads, Writes
<1>3. CASE p.do = "trsm"
  BY <1>1, <1>3 DEF Reads, Writes
<1>4. CASE p.do = "gemm"
  BY <1>1, <1>4 DEF Reads, Writes
<1>5. CASE p.do = "scale"
  BY <1>1, <1>5 DEF Reads, Writes
<1>6. CASE p.do \in {"barrier", "check", "store"}
  BY <1>1, <1>6 DEF Reads, Writes
<1> HIDE DEF p
<1>7. CASE p.do \notin {"swap", "trsm", "gemm", "scale", "barrier", "check", "store"}
  BY <1>7 DEF p
<1> QED BY <1>2, <1>3, <1>4, <1>5, <1>6, <1>7 DEF p

\* The same of the steps whose effect depends on the pivot that was found.
LEMMA TouchesSearch ==
  ASSUME NEW t, ~Done(t)
  PROVE  LET p == Here(t) IN
         /\ p.do = "zamax" /\ inside[t] => /\ Reads(t) = {} /\ Stores(t) = {}
                                           /\ Writes(t) = IF OwnerOf(found[Col(t)].row) = t THEN Pivots(p.cols) ELSE {}
         /\ p.do = "zamax" /\ ~inside[t] => /\ Stores(t) = {} /\ Writes(t) = {}
                                            /\ Reads(t) = Cells(p.rows \cup (IF storage = "LAPACK" THEN p.cols ELSE {}), p.cols)
         /\ p.do = "exchange" =>
              /\ Reads(t) = {} /\ Stores(t) = {}
              /\ Writes(t) = Cells((IF t = 0 THEN {Col(t)} ELSE {})
                                     \cup (IF OwnerOf(found[Col(t)].row) = t THEN {found[Col(t)].row} ELSE {}), p.cols)
         /\ p.do = "replace" =>
              /\ Reads(t) = {} /\ Stores(t) = {}
              /\ Writes(t) = IF OwnerOf(found[Col(t)].row) = t THEN Cells({found[Col(t)].row} \ {Col(t)}, p.cols) ELSE {}
<1> DEFINE p == Here(t)
<1>1. Stores(t) = IF p.do = "store" THEN Cells(p.cols, p.cols) ELSE {}
  BY DEF Stores, At
<1>2. CASE p.do = "zamax" /\ inside[t]
  BY <1>1, <1>2 DEF Reads, Writes
<1>3. CASE p.do = "zamax" /\ ~inside[t]
  BY <1>1, <1>3 DEF Reads, Writes
<1>4. CASE p.do = "exchange"
  BY <1>1, <1>4 DEF Reads, Writes
<1>5. CASE p.do = "replace"
  BY <1>1, <1>5 DEF Reads, Writes
<1> HIDE DEF p
<1>6. CASE p.do \notin {"zamax", "exchange", "replace"}
  BY <1>6 DEF p
<1> QED BY <1>2, <1>3, <1>4, <1>5, <1>6 DEF p

\* A thread at its end touches nothing.
LEMMA NothingTouched ==
  ASSUME NEW t, Done(t)
  PROVE  Reads(t) = {} /\ Writes(t) = {} /\ Stores(t) = {}
BY DEF Reads, Writes, Stores, At

-----------------------------------------------------------------------------
\* On tiles, the steps between two calls: those before the search of column c, those after it, and those
\* after the barrier behind it.
TiledBefore(D, t, p, c) ==
  \/ c \in Pivoted /\ p = Step("zamax", Below("TILED", t, c-1), {}, {c})
  \/ c-1 \in Pivoted /\ \E I \in SUBSET Below("TILED", t, c-1) : p = Step("scale", I, {}, {c-1})
  \/ \E d \in D : d[2] = c /\ \E I \in SUBSET Below("TILED", t, c-1) : p = Step("gemm", I, Left(d), Right(d))

TiledFound(p, c) ==
  c \in Pivoted /\ (p = Step("barrier", {}, {}, {c}) \/ p = Step("exchange", {}, {}, {c}))

TiledBehind(D, t, p, c) ==
  \/ c \in Pivoted /\ p = Step("check", {}, {}, {c})
  \/ /\ c \in Pivoted /\ (t # 0 \/ c = minMN-1)
     /\ \E I \in SUBSET Below("TILED", t, c) : p = Step("scale", I, {}, {c})
  \/ \E d \in D :
       \/ d[2] = c+1 /\ p = Step("barrier", {}, {}, Right(d))
       \/ d[2] = c+1 /\ t = 0 /\ p = Step("swap", {}, Left(d), Right(d))
       \/ d[2] = c+1 /\ t = 0 /\ p = Step("trsm", {}, Left(d), Right(d))
       \/ d[3] = c+1 /\ t = 0 /\ p = Step("swap", {}, Right(d), Left(d))

\* The number of calls from which a thread has returned tells in which of these it is.
LEMMA TiledPhases ==
  ASSUME NEW D, Halved(D, 0, minMN), NEW t, NEW p, NEW c \in Nat, NEW k \in Nat, FitsTiled(D, t, p, k)
  PROVE  /\ k = 3*c => TiledBefore(D, t, p, c)
         /\ k = 3*c + 1 => TiledFound(p, c)
         /\ k = 3*c + 2 => TiledBehind(D, t, p, c)
<1>0. \A d \in D : d[1] \in Nat /\ d[2] \in Nat /\ d[3] \in Nat
  BY DEF Halved
<1>1. minMN \in Nat /\ \A j \in Pivoted : j \in Nat
  BY Sizes DEF Pivoted
<1>2. ASSUME FitsTiled(D, t, p, k)
      PROVE  \/ \E j \in Pivoted :
                  \/ k = 3*j /\ p = Step("zamax", Below("TILED", t, j-1), {}, {j})
                  \/ k = 3*j + 1 /\ (p = Step("barrier", {}, {}, {j}) \/ p = Step("exchange", {}, {}, {j}))
                  \/ k = 3*j + 2 /\ p = Step("check", {}, {}, {j})
                  \/ k = 3*j + 3 /\ \E I \in SUBSET Below("TILED", t, j) : p = Step("scale", I, {}, {j})
                  \/ k = 3*j + 2 /\ (t # 0 \/ j = minMN-1) /\ \E I \in SUBSET Below("TILED", t, j) : p = Step("scale", I, {}, {j})
             \/ \E d \in D :
                  \/ k = 3*d[2] - 1 /\ p = Step("barrier", {}, {}, Right(d))
                  \/ k = 3*d[2] - 1 /\ t = 0 /\ p = Step("swap", {}, Left(d), Right(d))
                  \/ k = 3*d[2] - 1 /\ t = 0 /\ p = Step("trsm", {}, Left(d), Right(d))
                  \/ k = 3*d[3] - 1 /\ t = 0 /\ p = Step("swap", {}, Right(d), Left(d))
                  \/ k = 3*d[2] /\ \E I \in SUBSET Below("TILED", t, d[2]-1) : p = Step("gemm", I, Left(d), Right(d))
  BY <1>2, Zenon DEF FitsTiled
<1>3. ASSUME k = 3*c
      PROVE  \/ c \in Pivoted /\ p = Step("zamax", Below("TILED", t, c-1), {}, {c})
             \/ c-1 \in Pivoted /\ \E I \in SUBSET Below("TILED", t, c-1) : p = Step("scale", I, {}, {c-1})
             \/ \E d \in D : d[2] = c /\ \E I \in SUBSET Below("TILED", t, c-1) : p = Step("gemm", I, Left(d), Right(d))
  <2>2. CASE \E j \in Pivoted : 3*c = 3*j /\ p = Step("zamax", Below("TILED", t, j-1), {}, {j})
    <3>1. PICK j \in Pivoted : 3*c = 3*j /\ p = Step("zamax", Below("TILED", t, j-1), {}, {j})
      BY <2>2
    <3>2. j = c
      BY <1>1, <3>1
    <3> QED BY <3>1, <3>2
  <2>3. CASE \E j \in Pivoted : 3*c = 3*j + 3 /\ \E I \in SUBSET Below("TILED", t, j) : p = Step("scale", I, {}, {j})
    <3>1. PICK j \in Pivoted : 3*c = 3*j + 3 /\ \E I \in SUBSET Below("TILED", t, j) : p = Step("scale", I, {}, {j})
      BY <2>3
    <3>2. j \in Nat /\ 3*c = 3*j + 3
      BY <1>1, <3>1
    <3>3. j = c-1
      BY <3>2
    <3> QED BY <3>1, <3>3
  <2>4. CASE \E d \in D : 3*c = 3*d[2] /\ \E I \in SUBSET Below("TILED", t, d[2]-1) : p = Step("gemm", I, Left(d), Right(d))
    <3>1. PICK d \in D : 3*c = 3*d[2] /\ \E I \in SUBSET Below("TILED", t, d[2]-1) : p = Step("gemm", I, Left(d), Right(d))
      BY <2>4
    <3>2. d[2] = c
      BY <1>0, <3>1
    <3> QED BY <3>1, <3>2
  <2>5. /\ \A j \in Pivoted : 3*c # 3*j + 1 /\ 3*c # 3*j + 2
        /\ \A d \in D : 3*c # 3*d[2] - 1 /\ 3*c # 3*d[3] - 1
    BY <1>0, <1>1
  <2> QED BY <1>2, <1>3, <2>2, <2>3, <2>4, <2>5
<1>4. ASSUME k = 3*c + 1
      PROVE  c \in Pivoted /\ (p = Step("barrier", {}, {}, {c}) \/ p = Step("exchange", {}, {}, {c}))
  <2>2. /\ \A j \in Pivoted : 3*c + 1 # 3*j /\ 3*c + 1 # 3*j + 2 /\ 3*c + 1 # 3*j + 3 /\ (3*c + 1 = 3*j + 1 => j = c)
        /\ \A d \in D : 3*c + 1 # 3*d[2] - 1 /\ 3*c + 1 # 3*d[3] - 1 /\ 3*c + 1 # 3*d[2]
    BY <1>0, <1>1
  <2> QED BY <1>2, <1>4, <2>2
<1>5. ASSUME k = 3*c + 2
      PROVE  \/ c \in Pivoted /\ p = Step("check", {}, {}, {c})
             \/ /\ c \in Pivoted /\ (t # 0 \/ c = minMN-1)
                /\ \E I \in SUBSET Below("TILED", t, c) : p = Step("scale", I, {}, {c})
             \/ \E d \in D :
                  \/ d[2] = c+1 /\ p = Step("barrier", {}, {}, Right(d))
                  \/ d[2] = c+1 /\ t = 0 /\ p = Step("swap", {}, Left(d), Right(d))
                  \/ d[2] = c+1 /\ t = 0 /\ p = Step("trsm", {}, Left(d), Right(d))
                  \/ d[3] = c+1 /\ t = 0 /\ p = Step("swap", {}, Right(d), Left(d))
  <2>2. /\ \A j \in Pivoted : 3*c + 2 # 3*j /\ 3*c + 2 # 3*j + 1 /\ 3*c + 2 # 3*j + 3 /\ (3*c + 2 = 3*j + 2 => j = c)
        /\ \A d \in D : 3*c + 2 # 3*d[2] /\ (3*c + 2 = 3*d[2] - 1 => d[2] = c+1) /\ (3*c + 2 = 3*d[3] - 1 => d[3] = c+1)
    BY <1>0, <1>1
  <2> QED BY <1>2, <1>5, <2>2
<1> QED BY <1>3, <1>4, <1>5 DEF TiledBefore, TiledFound, TiledBehind

\* The same on an array, where a column takes five calls: two barriers, with its search between them, and
\* the two barriers of the update of the columns to its right.
ArrayBefore(D, t, p, c) ==
  \/ c \in Pivoted /\ p = Step("barrier", {}, {}, {c})
  \/ \E d \in D : d[2] = c /\ p = Step("gemm", Below("LAPACK", t, c-1), Left(d), Right(d))

ArraySearch(t, p, c) == c \in Pivoted /\ p = Step("zamax", Below("LAPACK", t, c-1), {}, {c})

ArrayFound(t, p, c) ==
  /\ c \in Pivoted
  /\ p \in {Step("barrier", {}, {}, {c}), Step("store", {}, {}, {c}), Step("check", {}, {}, {c}),
            Step("scale", Below("LAPACK", t, c), {}, {c}), Step("replace", {}, {}, {c})}

ArrayBehind(D, t, p, c) ==
  \E d \in D :
    \/ d[2] = c+1 /\ p = Step("barrier", {}, {}, Right(d))
    \/ d[3] = c+1 /\ p = Step("swap", {}, Right(d), ColumnsOf(t, Left(d)))

ArrayShared(D, t, p, c) ==
  \E d \in D : d[2] = c+1 /\ p \in {Step("barrier", {}, {}, Right(d)),
                                    Step("swap", {}, Left(d), ColumnsOf(t, Right(d))),
                                    Step("trsm", {}, Left(d), ColumnsOf(t, Right(d)))}

\* The number of calls tells the place, on an array.
LEMMA ArrayPhases ==
  ASSUME NEW D, Halved(D, 0, minMN), NEW t, NEW p, NEW c \in Nat, NEW k \in Nat, FitsArray(D, t, p, k)
  PROVE  /\ k = 5*c => ArrayBefore(D, t, p, c)
         /\ k = 5*c + 1 => ArraySearch(t, p, c)
         /\ k = 5*c + 2 => ArrayFound(t, p, c)
         /\ k = 5*c + 3 => ArrayBehind(D, t, p, c)
         /\ k = 5*c + 4 => ArrayShared(D, t, p, c)
<1>0. \A d \in D : d[1] \in Nat /\ d[2] \in Nat /\ d[3] \in Nat
  BY DEF Halved
<1>1. minMN \in Nat /\ \A j \in Pivoted : j \in Nat
  BY Sizes DEF Pivoted
<1>2. ASSUME FitsArray(D, t, p, k)
      PROVE  \/ \E j \in Pivoted :
                  \/ (k = 5*j \/ k = 5*j + 2) /\ p = Step("barrier", {}, {}, {j})
                  \/ k = 5*j + 1 /\ p = Step("zamax", Below("LAPACK", t, j-1), {}, {j})
                  \/ k = 5*j + 2 /\ p = Step("store", {}, {}, {j})
                  \/ k = 5*j + 2 /\ p = Step("check", {}, {}, {j})
                  \/ k = 5*j + 2 /\ p = Step("scale", Below("LAPACK", t, j), {}, {j})
                  \/ k = 5*j + 2 /\ p = Step("replace", {}, {}, {j})
             \/ \E d \in D :
                  \/ (k = 5*d[2] - 2 \/ k = 5*d[2] - 1) /\ p = Step("barrier", {}, {}, Right(d))
                  \/ k = 5*d[2] - 1 /\ p = Step("swap", {}, Left(d), ColumnsOf(t, Right(d)))
                  \/ k = 5*d[2] - 1 /\ p = Step("trsm", {}, Left(d), ColumnsOf(t, Right(d)))
                  \/ k = 5*d[2] /\ p = Step("gemm", Below("LAPACK", t, d[2]-1), Left(d), Right(d))
                  \/ k = 5*d[3] - 2 /\ p = Step("swap", {}, Right(d), ColumnsOf(t, Left(d)))
  BY <1>2, Zenon DEF FitsArray
<1>3. ASSUME k = 5*c
      PROVE  \/ c \in Pivoted /\ p = Step("barrier", {}, {}, {c})
             \/ \E d \in D : d[2] = c /\ p = Step("gemm", Below("LAPACK", t, c-1), Left(d), Right(d))
  <2>2. /\ \A j \in Pivoted : 5*c # 5*j + 1 /\ 5*c # 5*j + 2 /\ (5*c = 5*j => j = c)
        /\ \A d \in D : 5*c # 5*d[2] - 1 /\ 5*c # 5*d[2] - 2 /\ 5*c # 5*d[3] - 2 /\ (5*c = 5*d[2] => d[2] = c)
    BY <1>0, <1>1
  <2> QED BY <1>2, <1>3, <2>2
<1>4. ASSUME k = 5*c + 1
      PROVE  c \in Pivoted /\ p = Step("zamax", Below("LAPACK", t, c-1), {}, {c})
  <2>2. /\ \A j \in Pivoted : 5*c + 1 # 5*j /\ 5*c + 1 # 5*j + 2 /\ (5*c + 1 = 5*j + 1 => j = c)
        /\ \A d \in D : 5*c + 1 # 5*d[2] - 1 /\ 5*c + 1 # 5*d[2] - 2 /\ 5*c + 1 # 5*d[3] - 2 /\ 5*c + 1 # 5*d[2]
    BY <1>0, <1>1
  <2> QED BY <1>2, <1>4, <2>2
<1>5. ASSUME k = 5*c + 2
      PROVE  /\ c \in Pivoted
             /\ p \in {Step("barrier", {}, {}, {c}), Step("store", {}, {}, {c}), Step("check", {}, {}, {c}),
                       Step("scale", Below("LAPACK", t, c), {}, {c}), Step("replace", {}, {}, {c})}
  <2>2. /\ \A j \in Pivoted : 5*c + 2 # 5*j /\ 5*c + 2 # 5*j + 1 /\ (5*c + 2 = 5*j + 2 => j = c)
        /\ \A d \in D : 5*c + 2 # 5*d[2] - 1 /\ 5*c + 2 # 5*d[2] - 2 /\ 5*c + 2 # 5*d[3] - 2 /\ 5*c + 2 # 5*d[2]
    BY <1>0, <1>1
  <2> QED BY <1>2, <1>5, <2>2
<1>6. ASSUME k = 5*c + 3
      PROVE  \E d \in D :
               \/ d[2] = c+1 /\ p = Step("barrier", {}, {}, Right(d))
               \/ d[3] = c+1 /\ p = Step("swap", {}, Right(d), ColumnsOf(t, Left(d)))
  <2>2. /\ \A j \in Pivoted : 5*c + 3 # 5*j /\ 5*c + 3 # 5*j + 1 /\ 5*c + 3 # 5*j + 2
        /\ \A d \in D : /\ 5*c + 3 # 5*d[2] - 1 /\ 5*c + 3 # 5*d[2]
                        /\ (5*c + 3 = 5*d[2] - 2 => d[2] = c+1) /\ (5*c + 3 = 5*d[3] - 2 => d[3] = c+1)
    BY <1>0, <1>1
  <2> QED BY <1>2, <1>6, <2>2
<1>7. ASSUME k = 5*c + 4
      PROVE  \E d \in D : d[2] = c+1 /\ p \in {Step("barrier", {}, {}, Right(d)),
                                               Step("swap", {}, Left(d), ColumnsOf(t, Right(d))),
                                               Step("trsm", {}, Left(d), ColumnsOf(t, Right(d)))}
  <2>2. /\ \A j \in Pivoted : 5*c + 4 # 5*j /\ 5*c + 4 # 5*j + 1 /\ 5*c + 4 # 5*j + 2
        /\ \A d \in D : /\ 5*c + 4 # 5*d[2] - 2 /\ 5*c + 4 # 5*d[2] /\ 5*c + 4 # 5*d[3] - 2
                        /\ (5*c + 4 = 5*d[2] - 1 => d[2] = c+1)
    BY <1>0, <1>1
  <2> QED BY <1>2, <1>7, <2>2
<1> QED BY <1>3, <1>4, <1>5, <1>6, <1>7 DEF ArrayBefore, ArraySearch, ArrayFound, ArrayBehind, ArrayShared

-----------------------------------------------------------------------------
\* The fields of a step.
LEMMA StepFields ==
  ASSUME NEW do, NEW I, NEW J, NEW X
  PROVE  /\ Step(do, I, J, X).do = do /\ Step(do, I, J, X).rows = I
         /\ Step(do, I, J, X).inner = J /\ Step(do, I, J, X).cols = X
BY DEF Step

\* Every row of the panel has one owner among the threads.
LEMMA OneOwner ==
  ASSUME storage \in Storages, NEW i \in Rows
  PROVE  OwnerOf(i) \in Threads /\ i \in Share(storage, OwnerOf(i))
<1>1. \E t \in Threads : i \in Share(storage, t)
  BY RowsPartitioned DEF Threads
<1> QED BY <1>1 DEF OwnerOf, RowsOf

\* The rows of two threads are apart.
LEMMA SharesApart ==
  ASSUME storage \in Storages, NEW t \in Threads, NEW u \in Threads, t # u
  PROVE  Share(storage, t) \cap Share(storage, u) = {}
BY RowsPartitioned DEF Threads

\* The rows of a thread are rows of the panel.
LEMMA SharesOfRows ==
  ASSUME storage \in Storages, NEW t \in Threads
  PROVE  Share(storage, t) \subseteq Rows /\ \A x : Below(storage, t, x) = {i \in Share(storage, t) : i > x}
BY RowsPartitioned DEF Threads, Below

\* Every number of calls falls to a column.
LEMMA InPhase ==
  ASSUME NEW k \in Nat
  PROVE  /\ \E c \in Nat : k = 3*c \/ k = 3*c + 1 \/ k = 3*c + 2
         /\ \E c \in Nat : k = 5*c \/ k = 5*c + 1 \/ k = 5*c + 2 \/ k = 5*c + 3 \/ k = 5*c + 4
<1>1. k \div 3 \in Nat /\ k % 3 \in 0 .. 2 /\ k = 3 * (k \div 3) + (k % 3)
  BY DivMod
<1>2. k \div 5 \in Nat /\ k % 5 \in 0 .. 4 /\ k = 5 * (k \div 5) + (k % 5)
  BY DivMod
<1>3. \E c \in Nat : k = 3*c \/ k = 3*c + 1 \/ k = 3*c + 2
  BY <1>1
<1>4. \E c \in Nat : k = 5*c \/ k = 5*c + 1 \/ k = 5*c + 2 \/ k = 5*c + 3 \/ k = 5*c + 4
  BY <1>2
<1> QED BY <1>3, <1>4

\* What the proofs about the steps of a thread start from.
LEMMA Start ==
  ASSUME n = minMN, storage \in Storages, PanelInv, NEW t \in Threads
  PROVE  /\ Halved(Halves(storage), 0, minMN)
         /\ Returned(t) \in Nat
         /\ ~Done(t) => Here(t) \in Steps
         /\ ~Done(t) /\ storage = "TILED" => FitsTiled(Halves("TILED"), t, Here(t), Returned(t))
         /\ ~Done(t) /\ storage = "LAPACK" => FitsArray(Halves("LAPACK"), t, Here(t), Returned(t))
         /\ inside[t] => ~Done(t) /\ Here(t).do \in {"zamax", "barrier"}
<1>1. Halved(Halves(storage), 0, minMN)
  BY ProgramRuns DEF Follows
<1>2. /\ Returned(t) \in Nat
      /\ ~Done(t) => Here(t) \in Steps /\ Fits(Halves(storage), storage, t, Here(t), Returned(t))
  BY Place
<1>3. inside[t] => ~Done(t) /\ Here(t).do \in {"zamax", "barrier"}
  BY DEF PanelInv, AtCall, Done, Here
<1>4. ~Done(t) /\ storage = "TILED" => FitsTiled(Halves("TILED"), t, Here(t), Returned(t))
  BY <1>2 DEF Fits
<1>5. ~Done(t) /\ storage = "LAPACK" => FitsArray(Halves("LAPACK"), t, Here(t), Returned(t))
  BY <1>2, "LAPACK" # "TILED" DEF Fits
<1> QED BY <1>1, <1>2, <1>3, <1>4, <1>5

\* Threads inside the same call are at the same one, on tiles and on an array.
LEMMA SquareSameCall ==
  ASSUME n = minMN, storage \in Storages, PanelInv
  PROVE  SameCall
<1> SUFFICES ASSUME NEW t \in Threads, NEW u \in Threads, inside[t], inside[u], calls[t] = calls[u]
             PROVE  Here(t).do = Here(u).do /\ Here(t).cols = Here(u).cols
  BY DEF SameCall
<1>1. PICK k : k = Returned(t) /\ k = Returned(u)
  BY DEF Returned
<1>2. k \in Nat /\ ~Done(t) /\ ~Done(u)
  BY <1>1, Start
<1>3. PICK p : p = Here(t)
  OBVIOUS
<1>4. PICK f : f = Here(u)
  OBVIOUS
<1>5. p.do \in {"zamax", "barrier"} /\ f.do \in {"zamax", "barrier"}
  BY <1>3, <1>4, Start
<1>6. CASE storage = "TILED"
  <2>1. PICK D : D = Halves("TILED")
    OBVIOUS
  <2>2. Halved(D, 0, minMN) /\ FitsTiled(D, t, p, k) /\ FitsTiled(D, u, f, k)
    BY <1>1, <1>2, <1>3, <1>4, <1>6, <2>1, Start
  <2>3. PICK c \in Nat : k = 3*c \/ k = 3*c + 1 \/ k = 3*c + 2
    BY <1>2, InPhase
  <2>4. CASE k = 3*c
    <3>1. ASSUME NEW v, NEW e, TiledBefore(D, v, e, c), e.do \in {"zamax", "barrier"}
          PROVE  e.do = "zamax" /\ e.cols = {c}
      BY <3>1, StepFields DEF TiledBefore
    <3>2. TiledBefore(D, t, p, c) /\ TiledBefore(D, u, f, c)
      BY <1>2, <2>2, <2>4, TiledPhases
    <3> QED BY <1>3, <1>4, <1>5, <3>1, <3>2
  <2>5. CASE k = 3*c + 1
    <3>1. ASSUME NEW e, TiledFound(e, c), e.do \in {"zamax", "barrier"}
          PROVE  e.do = "barrier" /\ e.cols = {c}
      BY <3>1, StepFields DEF TiledFound
    <3>2. TiledFound(p, c) /\ TiledFound(f, c)
      BY <1>2, <2>2, <2>5, TiledPhases
    <3> QED BY <1>3, <1>4, <1>5, <3>1, <3>2
  <2>6. CASE k = 3*c + 2
    <3>1. ASSUME NEW v, NEW e, TiledBehind(D, v, e, c), e.do \in {"zamax", "barrier"}
          PROVE  \E d \in D : d[2] = c+1 /\ e.do = "barrier" /\ e.cols = Right(d)
      BY <3>1, StepFields DEF TiledBehind
    <3>2. TiledBehind(D, t, p, c) /\ TiledBehind(D, u, f, c)
      BY <1>2, <2>2, <2>6, TiledPhases
    <3>3. PICK d \in D : d[2] = c+1 /\ p.do = "barrier" /\ p.cols = Right(d)
      BY <1>5, <3>1, <3>2
    <3>4. PICK e \in D : e[2] = c+1 /\ f.do = "barrier" /\ f.cols = Right(e)
      BY <1>5, <3>1, <3>2
    <3>5. d = e
      BY <2>2, <3>3, <3>4 DEF Halved
    <3> QED BY <1>3, <1>4, <3>3, <3>4, <3>5
  <2> QED BY <2>3, <2>4, <2>5, <2>6
<1>7. CASE storage = "LAPACK"
  <2>1. PICK D : D = Halves("LAPACK")
    OBVIOUS
  <2>2. Halved(D, 0, minMN) /\ FitsArray(D, t, p, k) /\ FitsArray(D, u, f, k)
    BY <1>1, <1>2, <1>3, <1>4, <1>7, <2>1, Start
  <2>3. PICK c \in Nat : k = 5*c \/ k = 5*c + 1 \/ k = 5*c + 2 \/ k = 5*c + 3 \/ k = 5*c + 4
    BY <1>2, InPhase
  <2>4. CASE k = 5*c
    <3>1. ASSUME NEW v, NEW e, ArrayBefore(D, v, e, c), e.do \in {"zamax", "barrier"}
          PROVE  e.do = "barrier" /\ e.cols = {c}
      BY <3>1, StepFields DEF ArrayBefore
    <3>2. ArrayBefore(D, t, p, c) /\ ArrayBefore(D, u, f, c)
      BY <1>2, <2>2, <2>4, ArrayPhases
    <3> QED BY <1>3, <1>4, <1>5, <3>1, <3>2
  <2>5. CASE k = 5*c + 1
    <3>1. ASSUME NEW v, NEW e, ArraySearch(v, e, c)
          PROVE  e.do = "zamax" /\ e.cols = {c}
      BY <3>1, StepFields DEF ArraySearch
    <3>2. ArraySearch(t, p, c) /\ ArraySearch(u, f, c)
      BY <1>2, <2>2, <2>5, ArrayPhases
    <3> QED BY <1>3, <1>4, <3>1, <3>2
  <2>6. CASE k = 5*c + 2
    <3>1. ASSUME NEW v, NEW e, ArrayFound(v, e, c), e.do \in {"zamax", "barrier"}
          PROVE  e.do = "barrier" /\ e.cols = {c}
      BY <3>1, StepFields DEF ArrayFound
    <3>2. ArrayFound(t, p, c) /\ ArrayFound(u, f, c)
      BY <1>2, <2>2, <2>6, ArrayPhases
    <3> QED BY <1>3, <1>4, <1>5, <3>1, <3>2
  <2>7. ASSUME k = 5*c + 3 \/ k = 5*c + 4
        PROVE  Here(t).do = Here(u).do /\ Here(t).cols = Here(u).cols
    <3>1. ASSUME NEW v, NEW e, ArrayBehind(D, v, e, c) \/ ArrayShared(D, v, e, c), e.do \in {"zamax", "barrier"}
          PROVE  \E d \in D : d[2] = c+1 /\ e.do = "barrier" /\ e.cols = Right(d)
      BY <3>1, StepFields DEF ArrayBehind, ArrayShared
    <3>2. /\ ArrayBehind(D, t, p, c) \/ ArrayShared(D, t, p, c)
          /\ ArrayBehind(D, u, f, c) \/ ArrayShared(D, u, f, c)
      BY <1>2, <2>2, <2>7, ArrayPhases
    <3>3. PICK d \in D : d[2] = c+1 /\ p.do = "barrier" /\ p.cols = Right(d)
      BY <1>5, <3>1, <3>2
    <3>4. PICK e \in D : e[2] = c+1 /\ f.do = "barrier" /\ f.cols = Right(e)
      BY <1>5, <3>1, <3>2
    <3>5. d = e
      BY <2>2, <3>3, <3>4 DEF Halved
    <3> QED BY <1>3, <1>4, <3>3, <3>4, <3>5
  <2> QED BY <2>3, <2>4, <2>5, <2>6, <2>7
<1> QED BY <1>6, <1>7, StoragesKnown

\* All threads of a gang meet in the call they mean, whatever the size of the panel.
THEOREM ThreadsMeet == Spec => []SameCall
<1>1. storage \in Storages /\ Square => SameCall
  <2> SUFFICES ASSUME storage \in Storages, Square PROVE SameCall
    OBVIOUS
  <2>1. CASE n = minMN
    BY <2>1, SquareSameCall DEF Square
  <2>2. CASE n # minMN
    <3>1. Threads = {0}
      BY <2>2, WideAlone DEF Threads
    <3> QED BY <3>1 DEF SameCall
  <2> QED BY <2>1, <2>2
<1>2. Init => storage \in Storages /\ Square
  BY SquareInit
<1>3. (storage \in Storages /\ Square) /\ [Next]_vars => (storage \in Storages /\ Square)'
  BY SquareStep
<1> QED BY <1>1, <1>2, <1>3, PTL DEF Spec

-----------------------------------------------------------------------------
\* Where elements and pivot indices are in the panel.
LEMMA CellsAt ==
  /\ \A I, X : \A e \in Cells(I, X) : e[1] = "A" /\ e[2] \in I /\ e[3] \in X
  /\ \A J : \A e \in Pivots(J) : e[1] = "IPIV" /\ e[2] \in J
<1>1. ASSUME NEW I, NEW X, NEW e \in Cells(I, X) PROVE e[1] = "A" /\ e[2] \in I /\ e[3] \in X
  BY <1>1 DEF Cells
<1>2. ASSUME NEW J, NEW e \in Pivots(J) PROVE e[1] = "IPIV" /\ e[2] \in J
  BY <1>2 DEF Pivots
<1> QED BY <1>1, <1>2

\* The row of a pivot belongs to its owner.
LEMMA PivotOwned ==
  ASSUME PanelInv, storage \in Storages, NEW c \in Pivoted, NEW t, OwnerOf(found[c].row) = t
  PROVE  found[c].row \in Share(storage, t)
BY OneOwner DEF PanelInv, PanelTypes

\* The column of a step on one column.
LEMMA ColumnOf ==
  ASSUME NEW t, NEW c, Here(t).cols = {c}
  PROVE  Col(t) = c
BY DEF Col

\* The rows of a thread, as numbers.
LEMMA SharesAreNumbers ==
  ASSUME storage \in Storages, NEW t \in Threads
  PROVE  /\ \A i \in Share(storage, t) : i \in Nat
         /\ \A c \in Int : Below(storage, t, c) = {i \in Share(storage, t) : i > c}
<1>1. Share(storage, t) \subseteq 0 .. m-1
  BY SharesOfRows DEF Rows
<1>2. m \in Nat
  BY SizeAssumption
<1> QED BY <1>1, <1>2 DEF Below

\* Before the search of a column on tiles: a thread writes its own rows from the column on, and the winner
\* of the search its pivot; it reads its own rows, and those of U.
LEMMA BeforeTouches ==
  ASSUME PanelInv, storage \in Storages, storage = "TILED", NEW t \in Threads, ~Done(t), NEW D, NEW c \in Nat,
         TiledBefore(D, t, Here(t), c)
  PROVE  /\ Stores(t) = {}
         /\ \A e \in Reads(t) : e[1] = "A" /\ (e[2] \in Share("TILED", t) \/ e[2] < c)
         /\ \A e \in Writes(t) : \/ e[1] = "A" /\ e[2] \in Share("TILED", t) /\ e[2] >= c
                                 \/ e[1] = "IPIV" /\ OwnerOf(found[c].row) = t
<1>0. PICK p : p = Here(t)
  OBVIOUS
<1>1. Below("TILED", t, c-1) = {i \in Share("TILED", t) : i > c-1} /\ \A i \in Share("TILED", t) : i \in Nat
  BY SharesAreNumbers
<1>2. CASE p = Step("zamax", Below("TILED", t, c-1), {}, {c})
  <2>1. p.do = "zamax" /\ p.rows = Below("TILED", t, c-1) /\ p.cols = {c}
    BY <1>2, StepFields
  <2>2. Col(t) = c
    BY <1>0, <2>1, ColumnOf
  <2>3. /\ Stores(t) = {}
        /\ Reads(t) = {} \/ Reads(t) = Cells(p.rows, p.cols)
        /\ Writes(t) = {} \/ (Writes(t) = Pivots(p.cols) /\ OwnerOf(found[c].row) = t)
    BY <1>0, <2>1, <2>2, TouchesSearch
  <2> QED BY <1>1, <2>1, <2>3, CellsAt
<1>3. CASE \E I \in SUBSET Below("TILED", t, c-1) : p = Step("scale", I, {}, {c-1})
  <2>1. PICK I \in SUBSET Below("TILED", t, c-1) : p = Step("scale", I, {}, {c-1})
    BY <1>3
  <2>2. p.do = "scale" /\ p.rows = I
    BY <2>1, StepFields
  <2>3. Stores(t) = {} /\ Reads(t) = {} /\ Writes(t) = Cells(p.rows, p.cols)
    BY <1>0, <2>2, Touches
  <2> QED BY <1>1, <2>2, <2>3, CellsAt
<1>4. CASE \E d \in D : d[2] = c /\ \E I \in SUBSET Below("TILED", t, c-1) : p = Step("gemm", I, Left(d), Right(d))
  <2>1. PICK d \in D, I \in SUBSET Below("TILED", t, c-1) : d[2] = c /\ p = Step("gemm", I, Left(d), Right(d))
    BY <1>4
  <2>2. p.do = "gemm" /\ p.rows = I /\ p.inner = Left(d)
    BY <2>1, StepFields
  <2>3. Stores(t) = {} /\ Reads(t) = Cells(p.rows, p.inner) \cup Cells(p.inner, p.cols) /\ Writes(t) = Cells(p.rows, p.cols)
    BY <1>0, <2>2, Touches
  <2>4. \A x \in Left(d) : x < c
    BY <2>1 DEF Left
  <2> QED BY <1>1, <2>2, <2>3, <2>4, CellsAt
<1> QED BY <1>0, <1>2, <1>3, <1>4 DEF TiledBefore

\* Between the search and the barrier behind it a thread exchanges elements of its own rows.
LEMMA FoundTouches ==
  ASSUME PanelInv, storage \in Storages, storage = "TILED", NEW t \in Threads, ~Done(t), NEW c \in Nat,
         TiledFound(Here(t), c)
  PROVE  /\ Stores(t) = {} /\ Reads(t) = {}
         /\ \A e \in Writes(t) : e[1] = "A" /\ e[2] \in Share("TILED", t)
<1>0. PICK p : p = Here(t)
  OBVIOUS
<1>1. CASE p = Step("barrier", {}, {}, {c})
  <2>1. p.do = "barrier"
    BY <1>1, StepFields
  <2> QED BY <1>0, <2>1, Touches
<1>2. CASE p = Step("exchange", {}, {}, {c})
  <2>1. p.do = "exchange" /\ p.cols = {c} /\ c \in Pivoted
    BY <1>0, <1>2, StepFields DEF TiledFound
  <2>2. Col(t) = c
    BY <1>0, <2>1, ColumnOf
  <2> DEFINE I == (IF t = 0 THEN {c} ELSE {}) \cup (IF OwnerOf(found[c].row) = t THEN {found[c].row} ELSE {})
  <2>3. Reads(t) = {} /\ Stores(t) = {} /\ Writes(t) = Cells(I, p.cols)
    BY <1>0, <2>1, <2>2, TouchesSearch
  <2>4. I \subseteq Share("TILED", t)
    BY <2>1, PivotOwned, TriangleOfThread0
  <2> QED BY <2>3, <2>4, CellsAt
<1> QED BY <1>0, <1>1, <1>2 DEF TiledFound

\* Behind that barrier the workers divide column c in their own rows, and thread 0, which swaps the rows of
\* all, touches its own or leaves the column alone.
LEMMA BehindTouches ==
  ASSUME PanelInv, storage \in Storages, storage = "TILED", NEW t \in Threads, ~Done(t),
         NEW D, Halved(D, 0, minMN), NEW c \in Nat, TiledBehind(D, t, Here(t), c)
  PROVE  /\ Stores(t) = {}
         /\ t # 0 => /\ Reads(t) = {}
                     /\ \A e \in Writes(t) : e[1] = "A" /\ e[2] \in Share("TILED", t) /\ e[3] = c
         /\ t = 0 => /\ \A e \in Reads(t) : e[1] = "IPIV" \/ e[2] \in Share("TILED", t)
                     /\ \A e \in Writes(t) : e[1] = "A" /\ (e[2] \in Share("TILED", t) \/ e[3] # c)
<1>0. PICK p : p = Here(t)
  OBVIOUS
<1>1. CASE p.do \in {"barrier", "check"}
  BY <1>0, <1>1, Touches
<1>2. CASE \E I \in SUBSET Below("TILED", t, c) : p = Step("scale", I, {}, {c})
  <2>1. PICK I \in SUBSET Below("TILED", t, c) : p = Step("scale", I, {}, {c})
    BY <1>2
  <2>2. p.do = "scale" /\ p.rows = I /\ p.cols = {c}
    BY <2>1, StepFields
  <2>3. Stores(t) = {} /\ Reads(t) = {} /\ Writes(t) = Cells(p.rows, p.cols)
    BY <1>0, <2>2, Touches
  <2>4. I \subseteq Share("TILED", t)
    BY <2>1, SharesAreNumbers
  <2> QED BY <2>2, <2>3, <2>4, CellsAt
<1>3. ASSUME NEW d \in D, t = 0, \/ d[2] = c+1 /\ p = Step("swap", {}, Left(d), Right(d))
                                 \/ d[2] = c+1 /\ p = Step("trsm", {}, Left(d), Right(d))
                                 \/ d[3] = c+1 /\ p = Step("swap", {}, Right(d), Left(d))
      PROVE  /\ Stores(t) = {}
             /\ \A e \in Reads(t) : e[1] = "IPIV" \/ e[2] \in Share("TILED", t)
             /\ \A e \in Writes(t) : e[1] = "A" /\ (e[2] \in Share("TILED", t) \/ e[3] # c)
  <2>1. d[1] \in Nat /\ d[2] \in Nat /\ d[3] \in Nat /\ d[1] < d[2] /\ d[2] < d[3] /\ d[3] <= minMN
    BY <1>3 DEF Halved
  <2>2. CASE p.do = "swap"
    <3>1. (d[2] = c+1 /\ p.cols = Right(d)) \/ (d[3] = c+1 /\ p.cols = Left(d))
      BY <1>3, <2>2, StepFields
    <3>2. \A x \in p.cols : x # c
      BY <2>1, <3>1 DEF Left, Right
    <3>3. Reads(t) = Pivots(p.inner) /\ Stores(t) = {} /\ Writes(t) = Cells(p.inner \cup {IPIV[j] : j \in p.inner}, p.cols)
      BY <1>0, <2>2, Touches
    <3> DEFINE I == p.inner \cup {IPIV[j] : j \in p.inner}
    <3>4. Writes(t) = Cells(I, p.cols)
      BY <3>3
    <3> HIDE DEF I
    <3> QED BY <3>2, <3>3, <3>4, CellsAt
  <2>3. CASE p = Step("trsm", {}, Left(d), Right(d))
    <3>1. p.do = "trsm" /\ p.inner = Left(d)
      BY <2>3, StepFields
    <3>2. Reads(t) = Cells(p.inner, p.inner) /\ Stores(t) = {} /\ Writes(t) = Cells(p.inner, p.cols)
      BY <1>0, <3>1, Touches
    <3>3. Left(d) \subseteq Share("TILED", t)
      <4>1. Left(d) \subseteq Pivoted
        BY <2>1, Sizes DEF Left, Pivoted
      <4> QED BY <1>3, <4>1, TriangleOfThread0
    <3> QED BY <3>1, <3>2, <3>3, CellsAt
  <2> QED BY <1>3, <2>2, <2>3, StepFields
<1>4. \/ p.do \in {"barrier", "check"}
      \/ \E I \in SUBSET Below("TILED", t, c) : p = Step("scale", I, {}, {c})
      \/ \E d \in D : t = 0 /\ \/ d[2] = c+1 /\ p = Step("swap", {}, Left(d), Right(d))
                               \/ d[2] = c+1 /\ p = Step("trsm", {}, Left(d), Right(d))
                               \/ d[3] = c+1 /\ p = Step("swap", {}, Right(d), Left(d))
  <2>1. ASSUME NEW X, p = Step("check", {}, {}, X) \/ p = Step("barrier", {}, {}, X)
        PROVE  p.do \in {"barrier", "check"}
    BY <2>1, StepFields
  <2>2. TiledBehind(D, t, p, c)
    BY <1>0
  <2> QED BY <2>1, <2>2, Zenon DEF TiledBehind
<1>5. CASE \E d \in D : t = 0 /\ \/ d[2] = c+1 /\ p = Step("swap", {}, Left(d), Right(d))
                                 \/ d[2] = c+1 /\ p = Step("trsm", {}, Left(d), Right(d))
                                 \/ d[3] = c+1 /\ p = Step("swap", {}, Right(d), Left(d))
  BY <1>3, <1>5
<1> QED BY <1>1, <1>2, <1>4, <1>5

-----------------------------------------------------------------------------
\* On an array, before the barrier of a column: a thread updates its own rows, with U above the column.
ArrayTouches(t, c) ==
  /\ Stores(t) = {}
  /\ \A e \in Reads(t) : e[1] = "A" /\ (e[2] \in Share("LAPACK", t) \/ e[2] < c)
  /\ \A e \in Writes(t) : e[1] = "A" /\ e[2] \in Share("LAPACK", t) /\ e[2] >= c

\* What a thread touches before the search of a column on an array.
LEMMA ArrayBeforeTouches ==
  ASSUME PanelInv, storage \in Storages, storage = "LAPACK", NEW t \in Threads, ~Done(t), NEW D, NEW c \in Nat,
         ArrayBefore(D, t, Here(t), c)
  PROVE  ArrayTouches(t, c)
<1>0. PICK p : p = Here(t)
  OBVIOUS
<1>1. Below("LAPACK", t, c-1) = {i \in Share("LAPACK", t) : i > c-1} /\ \A i \in Share("LAPACK", t) : i \in Nat
  BY SharesAreNumbers
<1>2. CASE p = Step("barrier", {}, {}, {c})
  <2>1. p.do = "barrier"
    BY <1>2, StepFields
  <2> QED BY <1>0, <2>1, Touches DEF ArrayTouches
<1>3. CASE \E d \in D : d[2] = c /\ p = Step("gemm", Below("LAPACK", t, c-1), Left(d), Right(d))
  <2>1. PICK d \in D : d[2] = c /\ p = Step("gemm", Below("LAPACK", t, c-1), Left(d), Right(d))
    BY <1>3
  <2>2. p.do = "gemm" /\ p.rows = Below("LAPACK", t, c-1) /\ p.inner = Left(d)
    BY <2>1, StepFields
  <2>3. Stores(t) = {} /\ Reads(t) = Cells(p.rows, p.inner) \cup Cells(p.inner, p.cols) /\ Writes(t) = Cells(p.rows, p.cols)
    BY <1>0, <2>2, Touches
  <2>4. \A x \in Left(d) : x < c
    BY <2>1 DEF Left
  <2> QED BY <1>1, <2>2, <2>3, <2>4, CellsAt DEF ArrayTouches
<1> QED BY <1>0, <1>2, <1>3 DEF ArrayBefore

\* In the search the panel is read, and the winner writes its pivot.
LEMMA SearchTouches ==
  ASSUME PanelInv, storage \in Storages, storage = "LAPACK", NEW t \in Threads, ~Done(t), NEW c \in Nat,
         ArraySearch(t, Here(t), c)
  PROVE  /\ Stores(t) = {}
         /\ \A e \in Reads(t) : e[1] = "A"
         /\ \A e \in Writes(t) : e[1] = "IPIV" /\ OwnerOf(found[c].row) = t
<1>0. PICK p : p = Here(t)
  OBVIOUS
<1>1. p.do = "zamax" /\ p.cols = {c}
  BY <1>0, StepFields DEF ArraySearch
<1>2. Col(t) = c
  BY <1>0, <1>1, ColumnOf
<1> DEFINE I == p.rows \cup (IF storage = "LAPACK" THEN p.cols ELSE {})
<1>3. /\ Stores(t) = {}
      /\ Reads(t) = {} \/ Reads(t) = Cells(I, p.cols)
      /\ Writes(t) = {} \/ (Writes(t) = Pivots(p.cols) /\ OwnerOf(found[c].row) = t)
  BY <1>0, <1>1, <1>2, TouchesSearch
<1> HIDE DEF I
<1> QED BY <1>3, CellsAt

\* Behind the search all threads store the pivot on the diagonal, and touch nothing else but their own rows
\* off the diagonal.
LEMMA StoreTouches ==
  ASSUME PanelInv, storage \in Storages, storage = "LAPACK", NEW t \in Threads, ~Done(t), NEW c \in Nat,
         ArrayFound(t, Here(t), c)
  PROVE  /\ Reads(t) = {}
         /\ \A e \in Stores(t) : e[1] = "A" /\ e[2] = c
         /\ \A e \in Writes(t) : e[1] = "A" /\ e[2] \in Share("LAPACK", t) /\ e[2] # c
<1>0. PICK p : p = Here(t)
  OBVIOUS
<1>1. Below("LAPACK", t, c) = {i \in Share("LAPACK", t) : i > c}
  BY SharesAreNumbers
<1>2. CASE p.do \in {"barrier", "check"}
  BY <1>0, <1>2, Touches
<1>3. CASE p = Step("store", {}, {}, {c})
  <2>1. p.do = "store" /\ p.cols = {c}
    BY <1>3, StepFields
  <2>2. Reads(t) = {} /\ Writes(t) = {} /\ Stores(t) = Cells(p.cols, p.cols)
    BY <1>0, <2>1, Touches
  <2> QED BY <2>1, <2>2, CellsAt
<1>4. CASE p = Step("scale", Below("LAPACK", t, c), {}, {c})
  <2>1. p.do = "scale" /\ p.rows = Below("LAPACK", t, c)
    BY <1>4, StepFields
  <2>2. Stores(t) = {} /\ Reads(t) = {} /\ Writes(t) = Cells(p.rows, p.cols)
    BY <1>0, <2>1, Touches
  <2>3. \A i \in p.rows : i \in Share("LAPACK", t) /\ i # c
    BY <1>1, <2>1
  <2> QED BY <2>2, <2>3, CellsAt
<1>5. CASE p = Step("replace", {}, {}, {c})
  <2>1. p.do = "replace" /\ p.cols = {c} /\ c \in Pivoted
    BY <1>0, <1>5, StepFields DEF ArrayFound
  <2>2. Col(t) = c
    BY <1>0, <2>1, ColumnOf
  <2> DEFINE I == {found[c].row} \ {c}
  <2>3. /\ Reads(t) = {} /\ Stores(t) = {}
        /\ Writes(t) = IF OwnerOf(found[c].row) = t THEN Cells(I, p.cols) ELSE {}
    BY <1>0, <2>1, <2>2, TouchesSearch
  <2>4. OwnerOf(found[c].row) = t => \A i \in I : i \in Share("LAPACK", t) /\ i # c
    BY <2>1, PivotOwned
  <2> HIDE DEF I
  <2> QED BY <2>3, <2>4, CellsAt
<1>6. p.do \in {"barrier", "check"} \/ p \in {Step("store", {}, {}, {c}), Step("scale", Below("LAPACK", t, c), {}, {c}),
                                            Step("replace", {}, {}, {c})}
  BY <1>0, StepFields DEF ArrayFound
<1> QED BY <1>2, <1>3, <1>4, <1>5, <1>6

\* Between a column and the update behind it a thread swaps its part of the left half of a recursion that
\* ends with the column.
LEMMA LeftTouches ==
  ASSUME PanelInv, storage \in Storages, storage = "LAPACK", NEW t \in Threads, ~Done(t), NEW D, NEW c \in Nat,
         ArrayBehind(D, t, Here(t), c)
  PROVE  /\ Stores(t) = {}
         /\ \A e \in Reads(t) : e[1] = "IPIV"
         /\ \A e \in Writes(t) : e[1] = "A" /\ \E d \in D : d[3] = c+1 /\ e[3] \in ColumnsOf(t, Left(d))
<1>0. PICK p : p = Here(t)
  OBVIOUS
<1>1. PICK d \in D : \/ d[2] = c+1 /\ p = Step("barrier", {}, {}, Right(d))
                     \/ d[3] = c+1 /\ p = Step("swap", {}, Right(d), ColumnsOf(t, Left(d)))
  BY <1>0 DEF ArrayBehind
<1>2. CASE p = Step("barrier", {}, {}, Right(d))
  <2>1. p.do = "barrier"
    BY <1>2, StepFields
  <2> QED BY <1>0, <2>1, Touches
<1>3. CASE d[3] = c+1 /\ p = Step("swap", {}, Right(d), ColumnsOf(t, Left(d)))
  <2>1. p.do = "swap" /\ p.cols = ColumnsOf(t, Left(d))
    BY <1>3, StepFields
  <2> DEFINE I == p.inner \cup {IPIV[j] : j \in p.inner}
  <2>2. Reads(t) = Pivots(p.inner) /\ Stores(t) = {} /\ Writes(t) = Cells(I, p.cols)
    BY <1>0, <2>1, Touches
  <2> HIDE DEF I
  <2> QED BY <1>3, <2>1, <2>2, CellsAt
<1> QED BY <1>1, <1>2, <1>3

\* Between the two barriers of an update a thread swaps and solves its part of the right half, with the
\* left one.
LEMMA RightTouches ==
  ASSUME PanelInv, storage \in Storages, storage = "LAPACK", NEW t \in Threads, ~Done(t), NEW D, NEW c \in Nat,
         Halved(D, 0, minMN), ArrayShared(D, t, Here(t), c)
  PROVE  /\ Stores(t) = {}
         /\ \A e \in Reads(t) : e[1] = "IPIV" \/ e[3] <= c
         /\ \A e \in Writes(t) : e[1] = "A" /\ \E d \in D : d[2] = c+1 /\ e[3] \in ColumnsOf(t, Right(d))
<1>0. PICK p : p = Here(t)
  OBVIOUS
<1>1. PICK d \in D : d[2] = c+1 /\ p \in {Step("barrier", {}, {}, Right(d)),
                                          Step("swap", {}, Left(d), ColumnsOf(t, Right(d))),
                                          Step("trsm", {}, Left(d), ColumnsOf(t, Right(d)))}
  BY <1>0 DEF ArrayShared
<1>2. CASE p = Step("barrier", {}, {}, Right(d))
  <2>1. p.do = "barrier"
    BY <1>2, StepFields
  <2> QED BY <1>0, <2>1, Touches
<1>3. CASE p = Step("swap", {}, Left(d), ColumnsOf(t, Right(d)))
  <2>1. p.do = "swap" /\ p.cols = ColumnsOf(t, Right(d))
    BY <1>3, StepFields
  <2> DEFINE I == p.inner \cup {IPIV[j] : j \in p.inner}
  <2>2. Reads(t) = Pivots(p.inner) /\ Stores(t) = {} /\ Writes(t) = Cells(I, p.cols)
    BY <1>0, <2>1, Touches
  <2> HIDE DEF I
  <2> QED BY <1>1, <2>1, <2>2, CellsAt
<1>4. CASE p = Step("trsm", {}, Left(d), ColumnsOf(t, Right(d)))
  <2>1. p.do = "trsm" /\ p.cols = ColumnsOf(t, Right(d)) /\ p.inner = Left(d)
    BY <1>4, StepFields
  <2>2. Reads(t) = Cells(p.inner, p.inner) /\ Stores(t) = {} /\ Writes(t) = Cells(p.inner, p.cols)
    BY <1>0, <2>1, Touches
  <2>3. \A x \in Left(d) : x <= c
    BY <1>1 DEF Left
  <2> QED BY <1>1, <2>1, <2>2, <2>3, CellsAt
<1> QED BY <1>1, <1>2, <1>3, <1>4

-----------------------------------------------------------------------------
\* Thread t does not change what thread u touches, and does not store what it reads.
Apart(t, u) ==
  /\ \A e \in Writes(t) : e \notin Reads(u) /\ e \notin Writes(u) /\ e \notin Stores(u)
  /\ \A e \in Stores(t) : e \notin Reads(u)

\* Two threads between the same calls.
LEMMA TiledApart ==
  ASSUME n = minMN, storage \in Storages, storage = "TILED", PanelInv, NEW t \in Threads, NEW u \in Threads, t # u,
         ~Done(t), ~Done(u), Returned(t) = Returned(u)
  PROVE  Apart(t, u)
<1>1. PICK D : D = Halves("TILED")
  OBVIOUS
<1>2. PICK k \in Nat : k = Returned(t) /\ k = Returned(u)
  BY Start
<1>3. Halved(D, 0, minMN) /\ FitsTiled(D, t, Here(t), k) /\ FitsTiled(D, u, Here(u), k)
  BY <1>1, <1>2, Start
<1>4. PICK c \in Nat : k = 3*c \/ k = 3*c + 1 \/ k = 3*c + 2
  BY <1>2, InPhase
<1>5. Share("TILED", t) \cap Share("TILED", u) = {}
  BY SharesApart
<1>6. \A i \in Share("TILED", t) : i \in Nat
  BY SharesAreNumbers
<1>7. CASE k = 3*c
  <2>1. TiledBefore(D, t, Here(t), c) /\ TiledBefore(D, u, Here(u), c)
    BY <1>2, <1>3, <1>7, TiledPhases
  <2>2. /\ Stores(t) = {} /\ Stores(u) = {}
        /\ \A e \in Writes(t) : \/ e[1] = "A" /\ e[2] \in Share("TILED", t) /\ e[2] >= c
                                \/ e[1] = "IPIV" /\ OwnerOf(found[c].row) = t
        /\ \A e \in Reads(u) : e[1] = "A" /\ (e[2] \in Share("TILED", u) \/ e[2] < c)
        /\ \A e \in Writes(u) : \/ e[1] = "A" /\ e[2] \in Share("TILED", u)
                                \/ e[1] = "IPIV" /\ OwnerOf(found[c].row) = u
    BY <2>1, BeforeTouches
  <2>3. \A e \in Writes(t) : e \notin Reads(u)
    BY <1>5, <1>6, <2>2
  <2>4. \A e \in Writes(t) : e \notin Writes(u)
    BY <1>5, <2>2
  <2> QED BY <2>2, <2>3, <2>4 DEF Apart
<1>8. CASE k = 3*c + 1
  <2>1. TiledFound(Here(t), c) /\ TiledFound(Here(u), c)
    BY <1>2, <1>3, <1>8, TiledPhases
  <2>2. /\ Stores(t) = {} /\ Stores(u) = {} /\ Reads(u) = {}
        /\ \A e \in Writes(t) : e[2] \in Share("TILED", t)
        /\ \A e \in Writes(u) : e[2] \in Share("TILED", u)
    BY <2>1, FoundTouches
  <2> QED BY <1>5, <2>2 DEF Apart
<1>9. CASE k = 3*c + 2
  <2>1. TiledBehind(D, t, Here(t), c) /\ TiledBehind(D, u, Here(u), c)
    BY <1>2, <1>3, <1>9, TiledPhases
  <2> DEFINE Worker(v) == /\ Reads(v) = {}
                          /\ \A e \in Writes(v) : e[1] = "A" /\ e[2] \in Share("TILED", v) /\ e[3] = c
             First(v)  == /\ \A e \in Reads(v) : e[1] = "IPIV" \/ e[2] \in Share("TILED", v)
                          /\ \A e \in Writes(v) : e[1] = "A" /\ (e[2] \in Share("TILED", v) \/ e[3] # c)
  <2>2. /\ Stores(t) = {} /\ Stores(u) = {}
        /\ (t # 0 => Worker(t)) /\ (t = 0 => First(t))
        /\ (u # 0 => Worker(u)) /\ (u = 0 => First(u))
    BY <1>3, <2>1, BehindTouches
  <2>3. (Worker(t) /\ Worker(u)) \/ (Worker(t) /\ First(u)) \/ (First(t) /\ Worker(u))
    BY <2>2
  <2>4. CASE Worker(t) /\ Worker(u)
    BY <1>5, <2>2, <2>4 DEF Apart
  <2>5. CASE Worker(t) /\ First(u)
    BY <1>5, <2>2, <2>5, "IPIV" # "A" DEF Apart
  <2>6. CASE First(t) /\ Worker(u)
    BY <1>5, <2>2, <2>6 DEF Apart
  <2> QED BY <2>3, <2>4, <2>5, <2>6
<1> QED BY <1>4, <1>7, <1>8, <1>9

\* Two threads between the same calls, on an array.
LEMMA ArrayApart ==
  ASSUME n = minMN, storage \in Storages, storage = "LAPACK", PanelInv, NEW t \in Threads, NEW u \in Threads, t # u,
         ~Done(t), ~Done(u), Returned(t) = Returned(u)
  PROVE  Apart(t, u)
<1>1. PICK D : D = Halves("LAPACK")
  OBVIOUS
<1>2. PICK k \in Nat : k = Returned(t) /\ k = Returned(u)
  BY Start
<1>3. Halved(D, 0, minMN) /\ FitsArray(D, t, Here(t), k) /\ FitsArray(D, u, Here(u), k)
  BY <1>1, <1>2, Start
<1>4. PICK c \in Nat : k = 5*c \/ k = 5*c + 1 \/ k = 5*c + 2 \/ k = 5*c + 3 \/ k = 5*c + 4
  BY <1>2, InPhase
<1>5. Share("LAPACK", t) \cap Share("LAPACK", u) = {}
  BY SharesApart
<1>6. \A i \in Share("LAPACK", t) : i \in Nat
  BY SharesAreNumbers
<1>7. CASE k = 5*c
  <2>1. ArrayBefore(D, t, Here(t), c) /\ ArrayBefore(D, u, Here(u), c)
    BY <1>2, <1>3, <1>7, ArrayPhases
  <2>2. ArrayTouches(t, c) /\ ArrayTouches(u, c)
    BY <2>1, ArrayBeforeTouches
  <2> QED BY <1>5, <1>6, <2>2 DEF ArrayTouches, Apart
<1>8. CASE k = 5*c + 1
  <2>1. ArraySearch(t, Here(t), c) /\ ArraySearch(u, Here(u), c)
    BY <1>2, <1>3, <1>8, ArrayPhases
  <2>2. /\ Stores(t) = {} /\ Stores(u) = {}
        /\ \A e \in Writes(t) : e[1] = "IPIV" /\ OwnerOf(found[c].row) = t
        /\ \A e \in Reads(u) : e[1] = "A"
        /\ \A e \in Writes(u) : e[1] = "IPIV" /\ OwnerOf(found[c].row) = u
    BY <2>1, SearchTouches
  <2> QED BY <2>2 DEF Apart
<1>9. CASE k = 5*c + 2
  <2>1. ArrayFound(t, Here(t), c) /\ ArrayFound(u, Here(u), c)
    BY <1>2, <1>3, <1>9, ArrayPhases
  <2>2. /\ Reads(u) = {}
        /\ \A e \in Stores(u) : e[2] = c
        /\ \A e \in Writes(t) : e[2] \in Share("LAPACK", t) /\ e[2] # c
        /\ \A e \in Writes(u) : e[2] \in Share("LAPACK", u)
    BY <2>1, StoreTouches
  <2> QED BY <1>5, <2>2 DEF Apart
<1>10. CASE k = 5*c + 3
  <2>1. ArrayBehind(D, t, Here(t), c) /\ ArrayBehind(D, u, Here(u), c)
    BY <1>2, <1>3, <1>10, ArrayPhases
  <2>2. /\ Stores(t) = {} /\ Stores(u) = {}
        /\ \A e \in Reads(u) : e[1] = "IPIV"
        /\ \A e \in Writes(t) : e[1] = "A" /\ \E d \in D : d[3] = c+1 /\ e[3] \in ColumnsOf(t, Left(d))
        /\ \A e \in Writes(u) : e[1] = "A" /\ \E d \in D : d[3] = c+1 /\ e[3] \in ColumnsOf(u, Left(d))
    BY <2>1, LeftTouches
  <2>3. ASSUME NEW d \in D, NEW f \in D, d[3] = c+1, f[3] = c+1,
               NEW x \in ColumnsOf(t, Left(d)), x \in ColumnsOf(u, Left(f))
        PROVE  FALSE
    <3>1. /\ d \in Nat \X Nat \X Nat /\ d[1] < d[2] /\ d[2] < d[3] /\ d[3] <= minMN
          /\ f \in Nat \X Nat \X Nat /\ f[1] < f[2] /\ f[2] < f[3] /\ f[3] <= minMN
          /\ d = f \/ d[2] <= f[1] \/ f[2] <= d[1]
      BY <1>3, <2>3 DEF Halved
    <3>2. t \in Gang("LAPACK") /\ u \in Gang("LAPACK")
      BY DEF Threads
    <3>3. ColumnsOf(t, Left(d)) \subseteq Left(d) /\ ColumnsOf(u, Left(f)) \subseteq Left(f)
      BY <3>1, <3>2, ColumnsTaken
    <3>4. d = f
      BY <2>3, <3>1, <3>3 DEF Left
    <3>5. ColumnsOf(t, Left(d)) \cap ColumnsOf(u, Left(d)) = {}
      <4>1. d[1] \in Nat /\ d[2]-1 \in Nat /\ d[1] <= d[2]-1
        BY <3>1
      <4> QED BY <3>2, <4>1, ColumnsPartitioned DEF Left
    <3> QED BY <2>3, <3>4, <3>5
  <2>4. \A e \in Writes(t) : e \notin Writes(u)
    BY <2>2, <2>3
  <2> QED BY <2>2, <2>4, "IPIV" # "A" DEF Apart
<1>11. CASE k = 5*c + 4
  <2>1. ArrayShared(D, t, Here(t), c) /\ ArrayShared(D, u, Here(u), c)
    BY <1>2, <1>3, <1>11, ArrayPhases
  <2>2. /\ Stores(t) = {} /\ Stores(u) = {}
        /\ \A e \in Reads(u) : e[1] = "IPIV" \/ e[3] <= c
        /\ \A e \in Writes(t) : e[1] = "A" /\ \E d \in D : d[2] = c+1 /\ e[3] \in ColumnsOf(t, Right(d))
        /\ \A e \in Writes(u) : e[1] = "A" /\ \E d \in D : d[2] = c+1 /\ e[3] \in ColumnsOf(u, Right(d))
    BY <1>3, <2>1, RightTouches
  <2>3. ASSUME NEW d \in D, d[2] = c+1
        PROVE  /\ \A x \in ColumnsOf(t, Right(d)) : x \in Nat /\ x > c
               /\ ColumnsOf(t, Right(d)) \cap ColumnsOf(u, Right(d)) = {}
    <3>1. d[2] \in Nat /\ d[3] \in Nat /\ d[2] < d[3] /\ d[3]-1 \in Nat /\ d[2] <= d[3]-1
      BY <1>3, <2>3 DEF Halved
    <3>2. t \in Gang("LAPACK") /\ u \in Gang("LAPACK")
      BY DEF Threads
    <3>3. ColumnsOf(t, Right(d)) \subseteq Right(d) /\ ColumnsOf(t, Right(d)) \cap ColumnsOf(u, Right(d)) = {}
      BY <3>1, <3>2, ColumnsPartitioned DEF Right
    <3> QED BY <2>3, <3>1, <3>3 DEF Right
  <2>4. \A d, f \in D : d[2] = c+1 /\ f[2] = c+1 => d = f
    BY <1>3 DEF Halved
  <2>5. \A e \in Writes(t) : e \notin Writes(u)
    BY <2>2, <2>3, <2>4
  <2>6. \A e \in Writes(t) : e \notin Reads(u)
    BY <2>2, <2>3, "IPIV" # "A"
  <2> QED BY <2>2, <2>5, <2>6 DEF Apart
<1> QED BY <1>4, <1>7, <1>8, <1>9, <1>10, <1>11


\* A thread that has returned from the call in which another one still is touches no pivot index, and the
\* other one nothing else.
LEMMA AheadApart ==
  ASSUME n = minMN, storage \in Storages, PanelInv, NEW t \in Threads, NEW u \in Threads,
         ~Done(t), Returned(t) = Returned(u) + 1, inside[u]
  PROVE  Apart(t, u) /\ Apart(u, t)
<1>1. PICK k \in Nat : k = Returned(u) /\ k + 1 = Returned(t) /\ k + 1 \in Nat
  BY Start
<1>2. ~Done(u) /\ Here(u).do \in {"zamax", "barrier"}
  BY Start
<1>3. CASE Here(u).do = "barrier"
  <2>1. Reads(u) = {} /\ Writes(u) = {} /\ Stores(u) = {}
    BY <1>2, <1>3, Touches
  <2> QED BY <2>1 DEF Apart
<1>4. CASE Here(u).do = "zamax"
  <2>1. /\ Reads(u) = {} /\ Stores(u) = {}
        /\ Writes(u) = {} \/ Writes(u) = Pivots(Here(u).cols)
    BY <1>2, <1>4, TouchesSearch
  <2>2. (\A e \in Reads(t) : e[1] = "A") /\ (\A e \in Writes(t) : e[1] = "A") /\ (\A e \in Stores(t) : e[1] = "A")
    <3>1. CASE storage = "TILED"
      <4>1. PICK D : D = Halves("TILED")
        OBVIOUS
      <4>2. Halved(D, 0, minMN) /\ FitsTiled(D, u, Here(u), k) /\ FitsTiled(D, t, Here(t), k+1)
        BY <1>1, <1>2, <3>1, <4>1, Start
      <4>3. PICK c \in Nat : k = 3*c \/ k = 3*c + 1 \/ k = 3*c + 2
        BY <1>1, InPhase
      <4>4. k # 3*c + 1
        <5>1. k = 3*c + 1 => TiledFound(Here(u), c)
          BY <4>2, TiledPhases
        <5>2. TiledFound(Here(u), c) => Here(u).do \in {"barrier", "exchange"}
          BY StepFields DEF TiledFound
        <5> QED BY <1>4, <5>1, <5>2
      <4>5. k # 3*c + 2
        <5>1. k = 3*c + 2 => TiledBehind(D, u, Here(u), c)
          BY <4>2, TiledPhases
        <5>2. TiledBehind(D, u, Here(u), c) => Here(u).do # "zamax"
          BY StepFields DEF TiledBehind
        <5> QED BY <1>4, <5>1, <5>2
      <4>6. PICK l \in Nat : l = k + 1 /\ l = 3*c + 1
        BY <1>1, <4>3, <4>4, <4>5
      <4>7. FitsTiled(D, t, Here(t), l)
        BY <4>2, <4>6
      <4>8. TiledFound(Here(t), c)
        BY <4>2, <4>6, <4>7, TiledPhases
      <4> QED BY <3>1, <4>8, FoundTouches
    <3>2. CASE storage = "LAPACK"
      <4>1. PICK D : D = Halves("LAPACK")
        OBVIOUS
      <4>2. Halved(D, 0, minMN) /\ FitsArray(D, u, Here(u), k) /\ FitsArray(D, t, Here(t), k+1)
        BY <1>1, <1>2, <3>2, <4>1, Start
      <4>3. PICK c \in Nat : k = 5*c \/ k = 5*c + 1 \/ k = 5*c + 2 \/ k = 5*c + 3 \/ k = 5*c + 4
        BY <1>1, InPhase
      <4>4. k = 5*c + 1
        <5>1. k # 5*c + 1 => \/ ArrayBefore(D, u, Here(u), c) \/ ArrayFound(u, Here(u), c)
                             \/ ArrayBehind(D, u, Here(u), c) \/ ArrayShared(D, u, Here(u), c)
          BY <4>2, <4>3, ArrayPhases
        <5>2. ArrayBefore(D, u, Here(u), c) \/ ArrayFound(u, Here(u), c) => Here(u).do # "zamax"
          BY StepFields DEF ArrayBefore, ArrayFound
        <5>3. ArrayBehind(D, u, Here(u), c) \/ ArrayShared(D, u, Here(u), c) => Here(u).do # "zamax"
          BY StepFields DEF ArrayBehind, ArrayShared
        <5> QED BY <1>4, <5>1, <5>2, <5>3
      <4>5. PICK l \in Nat : l = k + 1 /\ l = 5*c + 2
        BY <1>1, <4>4
      <4>6. FitsArray(D, t, Here(t), l)
        BY <4>2, <4>5
      <4>7. ArrayFound(t, Here(t), c)
        BY <4>2, <4>5, <4>6, ArrayPhases
      <4> QED BY <3>2, <4>7, StoreTouches
    <3> QED BY <3>1, <3>2, StoragesKnown
  <2>3. \A e \in Writes(u) : e[1] = "IPIV"
    BY <2>1, CellsAt
  <2> QED BY <2>1, <2>2, <2>3, "IPIV" # "A" DEF Apart
<1> QED BY <1>2, <1>3, <1>4

\* No two threads of a panel that is not wider than high touch the same element, one of them to change it.
LEMMA SquareNoConflict ==
  ASSUME n = minMN, storage \in Storages, PanelInv
  PROVE  NoConflict
<1>1. ASSUME NEW t \in Threads, NEW u \in Threads, t # u PROVE Apart(t, u)
  <2>1. /\ Returned(t) \in Nat /\ calls[t] \in Nat /\ inside[t] \in BOOLEAN
        /\ Returned(u) \in Nat /\ calls[u] \in Nat /\ inside[u] \in BOOLEAN
    BY <1>1, Place
  <2>2. /\ Returned(t) = calls[t] - (IF inside[t] THEN 1 ELSE 0) /\ calls[t] >= Returned(u)
        /\ Returned(u) = calls[u] - (IF inside[u] THEN 1 ELSE 0) /\ calls[u] >= Returned(t)
    BY <1>1 DEF Returned, PanelInv, Together
  <2>3. \/ Returned(t) = Returned(u)
        \/ Returned(t) = Returned(u) + 1 /\ inside[u]
        \/ Returned(u) = Returned(t) + 1 /\ inside[t]
    BY <2>1, <2>2
  <2>4. CASE Done(t) \/ Done(u)
    <3>1. CASE Done(t)
      BY <3>1, NothingTouched DEF Apart
    <3>2. CASE Done(u)
      BY <3>2, NothingTouched DEF Apart
    <3> QED BY <2>4, <3>1, <3>2
  <2>5. CASE ~Done(t) /\ ~Done(u) /\ Returned(t) = Returned(u)
    BY <1>1, <2>5, TiledApart, ArrayApart, StoragesKnown
  <2>6. CASE ~Done(t) /\ ~Done(u) /\ Returned(t) = Returned(u) + 1 /\ inside[u]
    BY <1>1, <2>6, AheadApart
  <2>7. CASE ~Done(t) /\ ~Done(u) /\ Returned(u) = Returned(t) + 1 /\ inside[t]
    BY <1>1, <2>7, AheadApart
  <2> QED BY <2>3, <2>4, <2>5, <2>6, <2>7
<1> QED BY <1>1 DEF Apart, NoConflict

\* The threads of a gang never touch the same element of a panel, or the same pivot index, one of them to
\* change it, whatever the size of the panel, the tiles, the number of threads and the pivots.
THEOREM RaceFree == Spec => []NoConflict
<1>1. storage \in Storages /\ Square => NoConflict
  <2> SUFFICES ASSUME storage \in Storages, Square PROVE NoConflict
    OBVIOUS
  <2>1. CASE n = minMN
    BY <2>1, SquareNoConflict DEF Square
  <2>2. CASE n # minMN
    <3>1. Threads = {0}
      BY <2>2, WideAlone DEF Threads
    <3> QED BY <3>1 DEF NoConflict
  <2> QED BY <2>1, <2>2
<1>2. Init => storage \in Storages /\ Square
  BY SquareInit
<1>3. (storage \in Storages /\ Square) /\ [Next]_vars => (storage \in Storages /\ Square)'
  BY SquareStep
<1> QED BY <1>1, <1>2, <1>3, PTL DEF Spec
=============================================================================
