----------------------------- MODULE zlange_proofs -----------------------------
(***************************************************************************)
(* The norms of zlange, for every grid, matrix, norm and triangle.         *)
(*                                                                         *)
(* Every task holds the tiles of a part of the matrix: in the first steps  *)
(* a part of a row (or column), which grows along the chain of a process   *)
(* and then over the processes, in the others some whole rows.  The bodies *)
(* make what a task holds from what its sources hold (frb_Holds, one_Holds,*)
(* sy_Holds), which is all that NormExact needs.  That nothing gets stuck  *)
(* follows from the two ends of the arrows: what a task expects is sent by *)
(* an earlier task, in the order of the steps and along their chains.      *)
(***************************************************************************)
EXTENDS zlange, FiniteSetTheorems, TLAPS

-----------------------------------------------------------------------------
(* Division with remainder, for the provers.                               *)
LEMMA DivMod ==
  ASSUME NEW a \in Nat, NEW b \in Nat \ {0}
  PROVE  /\ a \div b \in Nat /\ a % b \in 0 .. b-1
         /\ a = b * (a \div b) + (a % b)
  BY SMT

\* A product grows with its first factor.
LEMMA Monotone ==
  ASSUME NEW a \in Int, NEW b \in Int, NEW c \in Nat, a <= b
  PROVE  a * c <= b * c
  BY SMT

\* Quotient and remainder are determined by where the number lies.
LEMMA Remainder ==
  ASSUME NEW g \in Nat \ {0}, NEW d \in Nat, NEW e \in 0 .. g-1
  PROVE  (g * d + e) % g = e
<1>1. PICK a \in Nat : a = g * d + e
  OBVIOUS
<1> DEFINE x == a \div g
           y == a % g
<1>2. x \in Nat /\ y \in 0 .. g-1 /\ a = g * x + y
  BY DivMod
<1>3. y = e
  <2> HIDE DEF x, y
  <2>1. CASE x = d
    BY <1>1, <1>2, <2>1
  <2>2. CASE x < d
    <3>1. (x + 1) * g <= d * g
      BY <1>2, <2>2, Monotone
    <3>2. (x + 1) * g = g * x + g /\ d * g = g * d
      BY <1>2
    <3>3. g * x \in Nat /\ g * d \in Nat
      BY <1>2
    <3> QED BY <1>1, <1>2, <3>1, <3>2, <3>3
  <2>3. CASE x > d
    <3>1. (d + 1) * g <= x * g
      BY <1>2, <2>3, Monotone
    <3>2. (d + 1) * g = g * d + g /\ x * g = g * x
      BY <1>2
    <3>3. g * x \in Nat /\ g * d \in Nat
      BY <1>2
    <3> QED BY <1>1, <1>2, <3>1, <3>2, <3>3
  <2> QED BY <1>2, <2>1, <2>2, <2>3
<1> QED BY <1>1, <1>3

\* A number below the divisor is its own remainder.
LEMMA OwnRemainder ==
  ASSUME NEW g \in Nat \ {0}, NEW e \in 0 .. g-1
  PROVE  e % g = e
<1>1. (g * 0 + e) % g = e
  BY Remainder, 0 \in Nat, Zenon
<1>2. g * 0 + e = e
  OBVIOUS
<1> QED BY <1>1, <1>2

\* The next number with the same remainder.
LEMMA SameRemainder ==
  ASSUME NEW g \in Nat \ {0}, NEW a \in Nat
  PROVE  /\ (a + g) % g = a % g
         /\ \A b \in Nat : b % g = a % g /\ b > a => b >= a + g
<1> DEFINE x == a \div g
           y == a % g
<1>1. x \in Nat /\ y \in 0 .. g-1 /\ a = g * x + y
  BY DivMod
<1> HIDE DEF x, y
<1>2. (a + g) % g = y
  <2>1. a + g = g * (x + 1) + y /\ x + 1 \in Nat /\ a + g \in Nat
    BY <1>1
  <2>2. (g * (x + 1) + y) % g = y
    BY <1>1, <2>1, Remainder, Zenon
  <2> QED BY <2>1, <2>2
<1>3. ASSUME NEW b \in Nat, b % g = y, b > a PROVE b >= a + g
  <2> DEFINE u == b \div g
  <2>1. u \in Nat /\ b = g * u + y
    BY <1>3, DivMod
  <2> HIDE DEF u
  <2>2. CASE u <= x
    <3>1. u * g <= x * g
      BY <1>1, <2>1, <2>2, Monotone
    <3> QED BY <1>1, <1>3, <2>1, <3>1
  <2>3. CASE u > x
    <3>1. (x + 1) * g <= u * g
      BY <1>1, <2>1, <2>3, Monotone
    <3>2. (x + 1) * g = g * x + g /\ u * g = g * u /\ g * x \in Nat /\ g * u \in Nat
      BY <1>1, <2>1
    <3> QED BY <1>1, <2>1, <3>1, <3>2
  <2> QED BY <1>1, <2>1, <2>2, <2>3
<1> QED BY <1>2, <1>3 DEF y

-----------------------------------------------------------------------------
(* How the numbers of an interval are handed out in turn to g owners: the  *)
(* chain of i, which are the ones from i on that i's owner has, and the    *)
(* ones of the owners 0 .. i.                                              *)
Chain(lo, hi, g, i) == {c \in lo .. hi : c >= i /\ c % g = i % g}
Turn(lo, hi, g, i)  == {c \in lo .. hi : c % g = i}
Turns(lo, hi, g, i) == {c \in lo .. hi : c % g <= i}

\* A chain is its first number and the chain from the next one on.
LEMMA ChainStep ==
  ASSUME NEW lo \in Nat, NEW hi \in Int, NEW g \in Nat \ {0}, NEW i \in lo .. hi
  PROVE  /\ Chain(lo, hi, g, i) = {i} \cup Chain(lo, hi, g, i + g)
         /\ i \notin Chain(lo, hi, g, i + g)
         /\ i + g > hi => Chain(lo, hi, g, i) = {i}
<1>0. i \in Nat /\ i + g \in Nat /\ lo .. hi \subseteq Nat
  OBVIOUS
<1>1. (i + g) % g = i % g
  BY <1>0, SameRemainder, Zenon
<1>2. \A b \in Nat : b % g = i % g /\ b > i => b >= i + g
  BY <1>0, SameRemainder
<1>3. ASSUME NEW c \in lo .. hi
      PROVE  c \in Chain(lo, hi, g, i) <=> c = i \/ c \in Chain(lo, hi, g, i + g)
  <2>1. c \in Nat
    BY <1>0
  <2> QED BY <1>0, <1>1, <1>2, <2>1 DEF Chain
<1>4. /\ Chain(lo, hi, g, i) \subseteq lo .. hi /\ Chain(lo, hi, g, i + g) \subseteq lo .. hi
      /\ i \notin Chain(lo, hi, g, i + g)
      /\ i + g > hi => Chain(lo, hi, g, i + g) = {}
  BY <1>0 DEF Chain
<1> QED BY <1>3, <1>4

\* The numbers of an owner are the chain of the first one, f.
StartsAt(lo, hi, g, i, f) ==
  /\ f \in Nat /\ f >= lo /\ f < lo + g /\ f % g = i
  /\ f <= hi => Turn(lo, hi, g, i) = Chain(lo, hi, g, f)
  /\ f > hi => Turn(lo, hi, g, i) = {}

\* All that an owner has is the chain from its first number on.
LEMMA TurnIsChain ==
  ASSUME NEW lo \in Nat, NEW hi \in Int, NEW g \in Nat \ {0}, NEW i \in 0 .. g-1, NEW f,
         f = IF i >= lo % g THEN lo + i - (lo % g) ELSE lo + i + g - (lo % g)
  PROVE  StartsAt(lo, hi, g, i, f)
<1> DEFINE x == lo \div g
           y == lo % g
<1>1. x \in Nat /\ y \in 0 .. g-1 /\ lo = g * x + y
  BY DivMod
<1>2. f = IF i >= y THEN lo + i - y ELSE lo + i + g - y
  OBVIOUS
<1> HIDE DEF x, y
<1>3. f \in Nat /\ f >= lo /\ f < lo + g
  BY <1>1, <1>2
<1>4. f % g = i
  <2>1. CASE i >= y
    <3>1. f = g * x + i
      BY <1>1, <1>2, <2>1
    <3>2. (g * x + i) % g = i
      BY <1>1, Remainder, Zenon
    <3> QED BY <3>1, <3>2
  <2>2. CASE i < y
    <3>1. f = g * (x + 1) + i /\ x + 1 \in Nat
      BY <1>1, <1>2, <2>2
    <3>2. (g * (x + 1) + i) % g = i
      BY <3>1, Remainder, Zenon
    <3> QED BY <3>1, <3>2
  <2> QED BY <1>1, <2>1, <2>2
<1>5. ASSUME NEW c \in lo .. hi, c % g = i PROVE c >= f
  <2>1. CASE c < f
    <3>1. c \in Nat
      OBVIOUS
    <3>2. f > c /\ f % g = c % g
      BY <1>3, <1>4, <1>5, <2>1, <3>1
    <3>3. f >= c + g
      BY <1>3, <3>1, <3>2, SameRemainder, Zenon
    <3> QED BY <1>3, <3>1, <3>3
  <2> QED BY <1>3, <2>1
<1>6. i % g = i
  BY OwnRemainder
<1> QED BY <1>3, <1>4, <1>5, <1>6 DEF Turn, Chain, StartsAt

\* What the owners 0 .. i have: what the ones before i have, and what i has.
LEMMA TurnsStep ==
  ASSUME NEW lo \in Nat, NEW hi \in Int, NEW g \in Nat \ {0}, NEW i \in 0 .. g-1
  PROVE  /\ Turns(lo, hi, g, i) = Turns(lo, hi, g, i - 1) \cup Turn(lo, hi, g, i)
         /\ Turns(lo, hi, g, i - 1) \cap Turn(lo, hi, g, i) = {}
         /\ i = 0 => Turns(lo, hi, g, i - 1) = {}
         /\ Turns(lo, hi, g, g - 1) = lo .. hi
<1>1. \A c \in lo .. hi : c \in Nat /\ c % g \in 0 .. g-1
  <2> TAKE c \in lo .. hi
  <2> QED BY DivMod
<1> QED BY <1>1 DEF Turns, Turn

\* From 0 on, the chain of an owner is what it owns.
LEMMA TurnOfOwner ==
  ASSUME NEW hi \in Int, NEW g \in Nat \ {0}, NEW i \in 0 .. g-1
  PROVE  /\ Turn(0, hi, g, i) = Chain(0, hi, g, i)
         /\ i > hi => Turn(0, hi, g, i) = {}
<1>1. i % g = i
  BY OwnRemainder
<1>2. ASSUME NEW c \in 0 .. hi, c % g = i PROVE c >= i
  <2>1. c \in Nat
    OBVIOUS
  <2>2. c \div g \in Nat /\ c = g * (c \div g) + i
    BY <1>2, <2>1, DivMod
  <2>3. g * (c \div g) \in Nat
    BY <2>2
  <2> QED BY <2>2, <2>3
<1> QED BY <1>1, <1>2 DEF Turn, Chain

-----------------------------------------------------------------------------
(* What a call can be.                                                     *)
Numbers == Nat \ {0}

CallOK ==
  /\ P \in Numbers /\ Q \in Numbers /\ call.mt \in Numbers /\ call.nt \in Numbers
  /\ call.routine \in {"zlange", "zlantr", "zlansy"}
  /\ ntype \in {"Max", "One", "Inf", "Frobenius"}
  /\ uplo \in {"Upper", "Lower", "UpperLower"}
  /\ (call.routine = "zlange") = (uplo = "UpperLower")
  /\ call.routine = "zlansy" => call.mt = call.nt
  /\ call.zero # {} => ntype = "Frobenius"

(* The reduction in terms of the matrix: the positions that are reduced    *)
(* (a symmetric matrix has all, each of them in a stored tile), and the    *)
(* lines that the first two steps sum up: rows, or columns for the one     *)
(* norm of a matrix that is not symmetric.                                 *)
Symmetric == call.routine = "zlansy"
Columnwise == ~Symmetric /\ ntype = "One"

Positions == IF Symmetric THEN Rows \X Columns ELSE Stored
at(x) == IF Symmetric THEN sy_at(x[1], x[2]) ELSE x

LineOf(x) == IF Columnwise THEN x[2] ELSE x[1]
Lines == 0 .. (IF Columnwise THEN NT ELSE MT) - 1
Stride == IF Columnwise THEN Q ELSE P
Line(l) == {x \in Positions : LineOf(x) = l}

\* How often a stored tile is at one of these positions.
Times(S, x) ==
  (IF x \in S THEN 1 ELSE 0) + (IF Symmetric /\ x[1] # x[2] /\ <<x[2], x[1]>> \in S THEN 1 ELSE 0)

\* What a sum over these positions must hold, and a maximum over these lines.
Content(S) ==
  IF ntype = "Max" THEN {x \in Stored : Times(S, x) > 0}
  ELSE [x \in {y \in Stored \ call.zero : Times(S, y) > 0} |-> Times(S, x)]
Reduced(M) ==
  IF ntype \in {"One", "Inf"} THEN {Content(Line(l)) : l \in M}
  ELSE Content({x \in Positions : LineOf(x) \in M})

\* A sum with this content, which is a number unless a share of a row is 0.
Holds(w, c) ==
  \E b \in BOOLEAN : /\ w = [sum |-> c, nan |-> b]
                     /\ b => ntype = "Frobenius" /\ ZeroShare

-----------------------------------------------------------------------------
(* Contents.                                                               *)
LEMMA SumIsDefined ==
  ASSUME NEW c, NEW b PROVE [sum |-> c, nan |-> b] # Undefined
<1>1. DOMAIN [sum |-> c, nan |-> b] = {"sum", "nan"} /\ DOMAIN Undefined = {"undefined"}
  BY DEF Undefined
<1>2. "sum" # "undefined"
  OBVIOUS
<1> QED BY <1>1, <1>2

\* A stored tile is at two positions at most.
LEMMA TimesIs ==
  ASSUME NEW S, NEW x
  PROVE  /\ Times(S, x) \in 0 .. 2
         /\ Times(S, x) > 0 <=> x \in S \/ (Symmetric /\ x[1] # x[2] /\ <<x[2], x[1]>> \in S)
  BY DEF Times

\* Times is additive.
LEMMA TimesOfUnion ==
  ASSUME NEW A, NEW B, A \cap B = {}, NEW x
  PROVE  Times(A \cup B, x) = Times(A, x) + Times(B, x)
<1>1. ~(x \in A /\ x \in B) /\ ~(<<x[2], x[1]>> \in A /\ <<x[2], x[1]>> \in B)
  OBVIOUS
<1> QED BY <1>1 DEF Times

\* The content of disjoint parts is joined as the kernels join two sums.
LEMMA JoinedIs ==
  ASSUME NEW A, NEW B, A \cap B = {}
  PROVE  Joined(Content(A), Content(B)) = Content(A \cup B)
<1>1. \A x : /\ Times(A \cup B, x) = Times(A, x) + Times(B, x)
             /\ Times(A, x) \in 0 .. 2 /\ Times(B, x) \in 0 .. 2
  <2> TAKE x
  <2>1. Times(A \cup B, x) = Times(A, x) + Times(B, x)
    BY TimesOfUnion
  <2>2. Times(A, x) \in 0 .. 2 /\ Times(B, x) \in 0 .. 2
    BY TimesIs, Zenon
  <2> QED BY <2>1, <2>2
<1>2. CASE ntype = "Max"
  <2>1. \A x : Times(A \cup B, x) > 0 <=> Times(A, x) > 0 \/ Times(B, x) > 0
    BY <1>1
  <2> QED BY <1>2, <2>1 DEF Joined, Content
<1>3. CASE ntype # "Max"
  <2> DEFINE D(S) == {y \in Stored \ call.zero : Times(S, y) > 0}
             a == [x \in D(A) |-> Times(A, x)]
             b == [x \in D(B) |-> Times(B, x)]
             c == [x \in D(A \cup B) |-> Times(A \cup B, x)]
  <2>1. Content(A) = a /\ Content(B) = b /\ Content(A \cup B) = c
    BY <1>3 DEF Content
  <2>2. DOMAIN a = D(A) /\ DOMAIN b = D(B)
    OBVIOUS
  <2>3. D(A) \cup D(B) = D(A \cup B)
    BY <1>1
  <2>4. Joined(a, b) =
          [e \in D(A) \cup D(B) |->
             (IF e \in D(A) THEN a[e] ELSE 0) + (IF e \in D(B) THEN b[e] ELSE 0)]
    <3> HIDE DEF a, b, D
    <3> QED BY <1>3, <2>2 DEF Joined, (+)
  <2>5. ASSUME NEW e \in D(A \cup B)
        PROVE  (IF e \in D(A) THEN a[e] ELSE 0) + (IF e \in D(B) THEN b[e] ELSE 0) = Times(A \cup B, e)
    <3>1. (IF e \in D(A) THEN a[e] ELSE 0) = Times(A, e)
      BY <1>1
    <3>2. (IF e \in D(B) THEN b[e] ELSE 0) = Times(B, e)
      BY <1>1
    <3> QED BY <1>1, <3>1, <3>2
  <2>6. Joined(a, b) = c
    <3> HIDE DEF a, b, D
    <3> QED BY <2>3, <2>4, <2>5 DEF c
  <2> QED BY <2>1, <2>6
<1> QED BY <1>2, <1>3

\* A new copy that was cleared holds no tile.
LEMMA ContentOfNothing == Content({}) = Nothing.sum
<1>1. \A x : Times({}, x) = 0
  BY DEF Times
<1>2. CASE ntype = "Max"
  BY <1>1, <1>2 DEF Content, Nothing
<1>3. CASE ntype # "Max"
  <2>1. Content({}) = [x \in {} |-> Times({}, x)]
    BY <1>1, <1>3 DEF Content
  <2>2. [x \in {} |-> Times({}, x)] = [x \in {} |-> 1]
    OBVIOUS
  <2>3. Nothing.sum = [x \in {} |-> 1]
    BY <1>3 DEF Nothing, EmptyBag, SetToBag
  <2> QED BY <2>1, <2>2, <2>3
<1> QED BY <1>2, <1>3

\* The same, as a sum.
LEMMA NothingHolds == Holds(Nothing, Content({}))
  BY ContentOfNothing DEF Holds, Nothing

\* A sum of the Frobenius norm is empty where all tiles are 0.
LEMMA EmptyContent ==
  ASSUME ntype = "Frobenius", NEW S, Content(S) = EmptyBag, NEW x \in Stored, Times(S, x) > 0
  PROVE  x \in call.zero
<1> DEFINE D == {y \in Stored \ call.zero : Times(S, y) > 0}
<1>1. DOMAIN Content(S) = D
  BY DEF Content
<1>2. DOMAIN EmptyBag = {}
  BY DEF EmptyBag, SetToBag
<1>3. D = {}
  BY <1>1, <1>2
<1> QED BY <1>3

\* The dimensions that the graphs use, which stop where the triangle stops.
LEMMA Triangle ==
  ASSUME CallOK
  PROVE  /\ uplo = "UpperLower" \/ uplo = "Upper" \/ uplo = "Lower"
         /\ Symmetric => uplo # "UpperLower"
         /\ MT \in Numbers /\ NT \in Numbers
         /\ Symmetric => MT = call.mt /\ NT = call.nt /\ call.mt = call.nt
         /\ MT <= call.mt /\ NT <= call.nt
         /\ ~Symmetric /\ uplo = "Upper" => NT = call.nt /\ MT <= NT /\ (MT = NT \/ MT = call.mt)
         /\ ~Symmetric /\ uplo = "Lower" => MT = call.mt /\ NT <= MT /\ (MT = NT \/ NT = call.nt)
         /\ ~Symmetric /\ uplo = "UpperLower" => MT = call.mt /\ NT = call.nt
<1>1. call.mt \in Numbers /\ call.nt \in Numbers
  BY DEF CallOK
<1>2. uplo \in {"Upper", "Lower", "UpperLower"} /\ (Symmetric => uplo # "UpperLower" /\ call.mt = call.nt)
  BY DEF CallOK, Symmetric
<1>3. minMNT \in Numbers /\ minMNT <= call.mt /\ minMNT <= call.nt /\ (minMNT = call.mt \/ minMNT = call.nt)
  BY <1>1 DEF minMNT, imin, Numbers
<1> HIDE DEF CallOK
<1>4. /\ MT = IF uplo = "Upper" /\ ~Symmetric THEN minMNT ELSE call.mt
      /\ NT = IF uplo = "Lower" /\ ~Symmetric THEN minMNT ELSE call.nt
  BY DEF MT, NT, Symmetric
<1>5. CASE Symmetric
  BY <1>1, <1>2, <1>4, <1>5 DEF Numbers
<1>6. CASE ~Symmetric
  <2>1. CASE uplo = "Upper"
    BY <1>1, <1>2, <1>3, <1>4, <1>6, <2>1 DEF Numbers
  <2>2. CASE uplo = "Lower"
    BY <1>1, <1>2, <1>3, <1>4, <1>6, <2>2 DEF Numbers
  <2>3. CASE uplo = "UpperLower"
    BY <1>1, <1>2, <1>3, <1>4, <1>6, <2>3 DEF Numbers
  <2> QED BY <1>2, <2>1, <2>2, <2>3
<1> QED BY <1>5, <1>6

\* Which tiles are stored.
LEMMA StoredIs ==
  ASSUME CallOK
  PROVE  \A x : x \in Stored <=>
           /\ x \in Rows \X Columns
           /\ uplo = "Upper" => x[1] <= x[2]
           /\ uplo = "Lower" => x[1] >= x[2]
  BY DEF Stored

\* Positions are pairs of a row and a column of the graph.
LEMMA PairsAre ==
  ASSUME CallOK
  PROVE  /\ \A x \in Rows \X Columns :
              x = <<x[1], x[2]>> /\ x[1] \in 0 .. call.mt-1 /\ x[2] \in 0 .. call.nt-1
         /\ \A x \in Positions : x = <<x[1], x[2]>> /\ x[1] \in 0 .. MT-1 /\ x[2] \in 0 .. NT-1
         /\ Stored \subseteq Positions /\ Positions \subseteq Rows \X Columns
<1>1. call.mt \in Numbers /\ call.nt \in Numbers
  BY DEF CallOK
<1>2. ASSUME NEW x \in Rows \X Columns
      PROVE  x = <<x[1], x[2]>> /\ x[1] \in 0 .. call.mt-1 /\ x[2] \in 0 .. call.nt-1
  BY DEF Rows, Columns
<1>3. Stored \subseteq Positions /\ Positions \subseteq Rows \X Columns
  BY DEF Stored, Positions
<1>4. ASSUME NEW x \in Positions
      PROVE  x = <<x[1], x[2]>> /\ x[1] \in 0 .. MT-1 /\ x[2] \in 0 .. NT-1
  <2>1. x = <<x[1], x[2]>> /\ x[1] \in 0 .. call.mt-1 /\ x[2] \in 0 .. call.nt-1
    BY <1>2, <1>3
  <2>2. ~Symmetric => x \in Stored
    BY DEF Positions
  <2>3. ~Symmetric /\ uplo = "Upper" => x[1] <= x[2]
    BY <2>2, StoredIs
  <2>4. ~Symmetric /\ uplo = "Lower" => x[1] >= x[2]
    BY <2>2, StoredIs
  <2> QED BY <1>1, <2>1, <2>3, <2>4, Triangle DEF Numbers
<1> QED BY <1>2, <1>3, <1>4

\* A position is that of one stored tile, once.
LEMMA TileAt ==
  ASSUME CallOK, NEW x \in Positions
  PROVE  /\ at(x) \in Stored
         /\ \A y \in Stored : Times({x}, y) = IF y = at(x) THEN 1 ELSE 0
<1>1. x = <<x[1], x[2]>> /\ x \in Rows \X Columns
  BY PairsAre
<1>2. CASE ~Symmetric
  BY <1>2 DEF at, Times, Positions
<1>3. CASE Symmetric
  <2>1. /\ uplo = "Upper" \/ uplo = "Lower"
        /\ call.mt = call.nt /\ call.mt \in Numbers
    BY <1>3, Triangle DEF CallOK
  <2>2. at(x) = IF (uplo = "Lower" /\ x[1] < x[2]) \/ (uplo = "Upper" /\ x[2] < x[1])
                THEN <<x[2], x[1]>> ELSE x
    BY <1>1, <1>3 DEF at, sy_at
  <2>3. x[1] \in 0 .. call.mt-1 /\ x[2] \in 0 .. call.mt-1
    BY <1>1, <2>1, PairsAre
  <2>4. <<x[2], x[1]>> \in Rows \X Columns
    BY <2>1, <2>3 DEF Rows, Columns
  <2>5. at(x) \in Stored
    <3>1. /\ uplo = "Upper" => at(x)[1] <= at(x)[2]
          /\ uplo = "Lower" => at(x)[1] >= at(x)[2]
      BY <1>1, <2>1, <2>2, <2>3 DEF Numbers
    <3>2. at(x) \in Rows \X Columns
      BY <1>1, <2>2, <2>4
    <3> QED BY <3>1, <3>2, StoredIs
  <2>6. ASSUME NEW y \in Stored
        PROVE  Times({x}, y) = IF y = at(x) THEN 1 ELSE 0
    <3>1. /\ y = <<y[1], y[2]>> /\ y[1] \in 0 .. call.mt-1 /\ y[2] \in 0 .. call.mt-1
          /\ uplo = "Upper" => y[1] <= y[2]
          /\ uplo = "Lower" => y[1] >= y[2]
      BY <2>1, StoredIs, PairsAre
    <3>2. Times({x}, y) = (IF y = x THEN 1 ELSE 0) + (IF y[1] # y[2] /\ <<y[2], y[1]>> = x THEN 1 ELSE 0)
      BY <1>3 DEF Times
    <3>3. y = x <=> y[1] = x[1] /\ y[2] = x[2]
      BY <1>1, <3>1
    <3>4. <<y[2], y[1]>> = x <=> y[2] = x[1] /\ y[1] = x[2]
      BY <1>1, <3>1
    <3>5. y = <<x[2], x[1]>> <=> y[1] = x[2] /\ y[2] = x[1]
      BY <3>1
    <3>6. CASE uplo = "Upper"
      BY <2>1, <2>2, <2>3, <3>1, <3>2, <3>3, <3>4, <3>5, <3>6 DEF Numbers
    <3>7. CASE uplo = "Lower"
      BY <2>1, <2>2, <2>3, <3>1, <3>2, <3>3, <3>4, <3>5, <3>7 DEF Numbers
    <3> QED BY <2>1, <3>6, <3>7
  <2> QED BY <2>5, <2>6
<1> QED BY <1>2, <1>3

\* The tile that the kernel adds is the content of its position.
LEMMA TileIsContent ==
  ASSUME CallOK, NEW x \in Positions
  PROVE  Tile(at(x)[1], at(x)[2]) = Content({x})
<1> DEFINE y == at(x)
<1>1. /\ y \in Stored
      /\ \A z \in Stored : Times({x}, z) = IF z = y THEN 1 ELSE 0
  BY TileAt
<1>2. y = <<y[1], y[2]>>
  <2>1. y \in Rows \X Columns
    BY <1>1, StoredIs
  <2> QED BY <2>1, PairsAre
<1> HIDE DEF y
<1>3. CASE ntype = "Max"
  <2>1. Content({x}) = {y}
    BY <1>1, <1>3 DEF Content
  <2>2. Tile(y[1], y[2]) = {y}
    BY <1>2, <1>3 DEF Tile
  <2> QED BY <2>1, <2>2 DEF y
<1>4. CASE ntype # "Max"
  <2> DEFINE D == {z \in Stored \ call.zero : Times({x}, z) > 0}
  <2>1. D = IF y \in call.zero THEN {} ELSE {y}
    BY <1>1
  <2>2. Content({x}) = [z \in D |-> Times({x}, z)]
    BY <1>4 DEF Content
  <2>3. [z \in D |-> Times({x}, z)] = [z \in D |-> 1]
    BY <1>1, <2>1
  <2>4. Tile(y[1], y[2]) = [z \in D |-> 1]
    <3>1. y \in call.zero => ntype = "Frobenius"
      BY DEF CallOK
    <3>2. CASE y \in call.zero
      <4>1. D = {}
        BY <2>1, <3>2
      <4>2. Tile(y[1], y[2]) = EmptyBag
        BY <1>2, <1>4, <3>1, <3>2 DEF Tile
      <4> HIDE DEF D
      <4> QED BY <4>1, <4>2 DEF EmptyBag, SetToBag
    <3>3. CASE y \notin call.zero
      <4>1. D = {y}
        BY <2>1, <3>3
      <4>2. Tile(y[1], y[2]) = SetToBag({y})
        BY <1>2, <1>4, <3>3 DEF Tile
      <4> HIDE DEF D
      <4> QED BY <4>1, <4>2 DEF SetToBag
    <3> QED BY <3>2, <3>3
  <2> QED BY <2>2, <2>3, <2>4 DEF y
<1> QED BY <1>3, <1>4

-----------------------------------------------------------------------------
(* What the bodies do to sums.                                             *)
LEMMA AddTileHolds ==
  ASSUME CallOK, NEW S, NEW x \in Positions, x \notin S, NEW w, Holds(w, Content(S))
  PROVE  Holds(AddTile(w, at(x)[1], at(x)[2]), Content({x} \cup S))
<1>1. PICK b \in BOOLEAN : w = [sum |-> Content(S), nan |-> b] /\ (b => ntype = "Frobenius" /\ ZeroShare)
  BY DEF Holds
<1>2. Tile(at(x)[1], at(x)[2]) = Content({x})
  BY TileIsContent
<1>3. Joined(Content(S), Content({x})) = Content({x} \cup S)
  <2>1. S \cup {x} = {x} \cup S /\ S \cap {x} = {}
    OBVIOUS
  <2> QED BY <2>1, JoinedIs
<1>4. w # Undefined
  BY <1>1, SumIsDefined
<1>5. AddTile(w, at(x)[1], at(x)[2]) = [w EXCEPT !.sum = Joined(w.sum, Content({x}))]
  BY <1>2, <1>4 DEF AddTile
<1>6. AddTile(w, at(x)[1], at(x)[2]) = [sum |-> Content({x} \cup S), nan |-> b]
  BY <1>1, <1>3, <1>5
<1> QED BY <1>1, <1>6 DEF Holds

\* Adding two sums joins their contents.  For the Frobenius norm one of them may be empty
\* only if a share of a row is zero.
LEMMA AddHolds ==
  ASSUME NEW A, NEW B, A \cap B = {}, NEW w, NEW a, Holds(w, Content(A)), Holds(a, Content(B)),
         ntype = "Frobenius" /\ Content(A) = EmptyBag /\ Content(B) = EmptyBag => ZeroShare
  PROVE  Holds(Add(w, a), Content(A \cup B))
<1>1. PICK b \in BOOLEAN : w = [sum |-> Content(A), nan |-> b] /\ (b => ntype = "Frobenius" /\ ZeroShare)
  BY DEF Holds
<1>2. PICK c \in BOOLEAN : a = [sum |-> Content(B), nan |-> c] /\ (c => ntype = "Frobenius" /\ ZeroShare)
  BY DEF Holds
<1>3. w # Undefined /\ a # Undefined
  BY <1>1, <1>2, SumIsDefined
<1> DEFINE d == b \/ c \/ (ntype = "Frobenius" /\ Content(A) = EmptyBag /\ Content(B) = EmptyBag)
<1>4. Add(w, a) = [sum |-> Joined(Content(A), Content(B)), nan |-> d]
  BY <1>1, <1>2, <1>3 DEF Add
<1>5. d \in BOOLEAN /\ (d => ntype = "Frobenius" /\ ZeroShare)
  BY <1>1, <1>2
<1>6. Joined(Content(A), Content(B)) = Content(A \cup B)
  BY JoinedIs
<1> HIDE DEF d
<1> QED BY <1>4, <1>5, <1>6 DEF Holds

\* The same where the body tests for an empty sum first.
LEMMA AddNonZeroHolds ==
  ASSUME NEW A, NEW B, A \cap B = {}, NEW w, NEW a, Holds(w, Content(A)), Holds(a, Content(B))
  PROVE  Holds(AddNonZero(w, a), Content(A \cup B))
<1>1. a.sum = Content(B)
  BY DEF Holds
<1>2. CASE ntype = "Frobenius" /\ Content(B) = EmptyBag
  <2>1. AddNonZero(w, a) = w
    BY <1>1, <1>2 DEF AddNonZero
  <2>2. Content(A \cup B) = Content(A)
    <3> DEFINE D(S) == {y \in Stored \ call.zero : Times(S, y) > 0}
    <3>1. Content(B) = [x \in D(B) |-> Times(B, x)]
      BY <1>2 DEF Content
    <3>2. D(B) = {}
      <4>1. DOMAIN [x \in D(B) |-> Times(B, x)] = D(B) /\ DOMAIN EmptyBag = {}
        BY DEF EmptyBag, SetToBag
      <4> HIDE DEF D
      <4> QED BY <1>2, <3>1, <4>1
    <3>3. \A y \in Stored \ call.zero : Times(B, y) = 0 /\ Times(A \cup B, y) = Times(A, y)
      <4> TAKE y \in Stored \ call.zero
      <4>1. Times(B, y) \in 0 .. 2 /\ Times(A, y) \in 0 .. 2
        BY TimesIs, Zenon
      <4>2. Times(A \cup B, y) = Times(A, y) + Times(B, y)
        BY TimesOfUnion
      <4> QED BY <3>2, <4>1, <4>2
    <3>4. D(A \cup B) = D(A) /\ \A y \in D(A) : Times(A \cup B, y) = Times(A, y)
      BY <3>3
    <3>5. [x \in D(A \cup B) |-> Times(A \cup B, x)] = [x \in D(A) |-> Times(A, x)]
      <4> HIDE DEF D
      <4> QED BY <3>4
    <3> QED BY <1>2, <3>5 DEF Content
  <2> QED BY <2>1, <2>2
<1>3. CASE ~(ntype = "Frobenius" /\ Content(B) = EmptyBag)
  <2>1. AddNonZero(w, a) = Add(w, a)
    BY <1>1, <1>3 DEF AddNonZero
  <2> QED BY <1>3, <2>1, AddHolds
<1> QED BY <1>2, <1>3

-----------------------------------------------------------------------------
(* Lines.                                                                  *)
LEMMA LineHasTile ==
  ASSUME CallOK, NEW l \in Lines
  PROVE  \E x \in Stored : x \in Line(l)
<1>1. call.mt \in Numbers /\ call.nt \in Numbers
  BY DEF CallOK
<1>2. \A x \in Stored : x \in Positions
  BY PairsAre
<1>3. CASE Columnwise
  <2>1. l \in 0 .. NT-1 /\ ~Symmetric
    BY <1>3 DEF Lines, Columnwise
  <2>2. CASE uplo = "Lower"
    <3>1. l \in 0 .. call.mt-1 /\ l \in 0 .. call.nt-1
      BY <1>1, <2>1, <2>2, Triangle DEF Numbers
    <3>2. <<l, l>> \in Stored
      BY <2>2, <3>1, StoredIs DEF Rows, Columns
    <3> QED BY <1>2, <1>3, <3>2 DEF Line, LineOf
  <2>3. CASE uplo # "Lower"
    <3>1. 0 \in 0 .. call.mt-1 /\ l \in 0 .. call.nt-1
      BY <1>1, <2>1, <2>3, Triangle DEF Numbers
    <3>2. <<0, l>> \in Stored
      BY <2>3, <3>1, StoredIs DEF Rows, Columns
    <3> QED BY <1>2, <1>3, <3>2 DEF Line, LineOf
  <2> QED BY <2>2, <2>3
<1>4. CASE ~Columnwise
  <2>1. l \in 0 .. MT-1
    BY <1>4 DEF Lines
  <2>2. CASE uplo = "Upper"
    <3>1. l \in 0 .. call.mt-1 /\ l \in 0 .. call.nt-1
      BY <1>1, <2>1, <2>2, Triangle DEF Numbers
    <3>2. <<l, l>> \in Stored
      BY <2>2, <3>1, StoredIs DEF Rows, Columns
    <3> QED BY <1>2, <1>4, <3>2 DEF Line, LineOf
  <2>3. CASE uplo # "Upper"
    <3>1. 0 \in 0 .. call.nt-1 /\ l \in 0 .. call.mt-1
      BY <1>1, <2>1, <2>3, Triangle DEF Numbers
    <3>2. <<l, 0>> \in Stored
      BY <2>3, <3>1, StoredIs DEF Rows, Columns
    <3> QED BY <1>2, <1>4, <3>2 DEF Line, LineOf
  <2> QED BY <2>2, <2>3
<1> QED BY <1>3, <1>4

\* Where a line that was summed up is all 0, so is every share of it.
LEMMA LineOfZeros ==
  ASSUME CallOK, ntype = "Frobenius", NEW l \in Lines, Content(Line(l)) = EmptyBag
  PROVE  ZeroShare
<1>1. ~Columnwise
  BY DEF Columnwise
<1>2. PICK x \in Stored : x \in Line(l)
  BY LineHasTile
<1>3. x[1] = l
  BY <1>1, <1>2 DEF Line, LineOf
<1>4. ASSUME NEW y \in Stored, y[1] = l PROVE y \in call.zero
  <2>1. y \in Line(l)
    BY <1>1, <1>4, PairsAre DEF Line, LineOf
  <2>2. Times(Line(l), y) > 0
    BY <2>1, TimesIs
  <2> QED BY <2>2, EmptyContent
<1>5. {y \in Stored : y[1] = x[1] /\ y[2] % Q = x[2] % Q} \subseteq call.zero
  BY <1>3, <1>4
<1> QED BY <1>5 DEF ZeroShare

\* The content of some lines is empty only if all of them are zero.
LEMMA LinesOfZeros ==
  ASSUME CallOK, ntype = "Frobenius", NEW M, M \subseteq Lines, M # {}, Reduced(M) = EmptyBag
  PROVE  ZeroShare
<1>1. PICK l \in M : l \in Lines
  OBVIOUS
<1> DEFINE S == {x \in Positions : LineOf(x) \in M}
           D(T) == {y \in Stored \ call.zero : Times(T, y) > 0}
<1>2. Content(S) = EmptyBag
  BY DEF Reduced
<1>3. Line(l) \subseteq S
  BY <1>1 DEF Line
<1>4. D(Line(l)) \subseteq D(S)
  <2>1. \A y : Times(Line(l), y) > 0 => Times(S, y) > 0
    BY <1>3, TimesIs
  <2> QED BY <2>1
<1>5. D(S) = {}
  <2> SUFFICES ASSUME NEW y \in D(S) PROVE FALSE
    OBVIOUS
  <2> HIDE DEF S
  <2>1. y \in call.zero
    BY <1>2, EmptyContent
  <2> QED BY <2>1
<1>6. Content(Line(l)) = EmptyBag
  <2>1. D(Line(l)) = {}
    <3> HIDE DEF D
    <3> QED BY <1>4, <1>5
  <2>2. Content(Line(l)) = [x \in D(Line(l)) |-> Times(Line(l), x)]
    BY DEF Content
  <2>3. Content(Line(l)) = [x \in {} |-> 1]
    <3> HIDE DEF D
    <3> QED BY <2>1, <2>2
  <2> QED BY <2>3 DEF EmptyBag, SetToBag
<1> QED BY <1>1, <1>6, LineOfZeros

-----------------------------------------------------------------------------
(* From the third step on, lines are compared.                             *)
LEMMA ReducedJoins ==
  ASSUME NEW M, NEW N, M \cap N = {}
  PROVE  /\ ntype \in {"One", "Inf"} => Reduced(M) \cup Reduced(N) = Reduced(M \cup N)
         /\ ntype = "Max" => Reduced(M) \cup Reduced(N) = Reduced(M \cup N)
         /\ ntype \notin {"One", "Inf"} => Joined(Reduced(M), Reduced(N)) = Reduced(M \cup N)
<1>1. ntype \in {"One", "Inf"} => Reduced(M) \cup Reduced(N) = Reduced(M \cup N)
  BY DEF Reduced
<1>2. ntype \notin {"One", "Inf"} => Joined(Reduced(M), Reduced(N)) = Reduced(M \cup N)
  <2> SUFFICES ASSUME ntype \notin {"One", "Inf"}
               PROVE  Joined(Reduced(M), Reduced(N)) = Reduced(M \cup N)
    OBVIOUS
  <2> DEFINE S(X) == {x \in Positions : LineOf(x) \in X}
  <2>1. S(M) \cap S(N) = {} /\ S(M) \cup S(N) = S(M \cup N)
    OBVIOUS
  <2>2. Reduced(M) = Content(S(M)) /\ Reduced(N) = Content(S(N)) /\ Reduced(M \cup N) = Content(S(M \cup N))
    BY DEF Reduced
  <2> HIDE DEF S
  <2> QED BY <2>1, <2>2, JoinedIs
<1>3. ntype = "Max" => Joined(Reduced(M), Reduced(N)) = Reduced(M) \cup Reduced(N)
  BY DEF Joined
<1> QED BY <1>1, <1>2, <1>3

\* The larger of two maxima is the maximum over the lines of both.
LEMMA LargerHolds ==
  ASSUME CallOK, NEW M, NEW N, M \cap N = {}, N \subseteq Lines, N # {},
         NEW w, NEW a, Holds(w, Reduced(M)), Holds(a, Reduced(N))
  PROVE  Holds(Larger(w, a), Reduced(M \cup N))
<1>1. PICK b \in BOOLEAN : w = [sum |-> Reduced(M), nan |-> b] /\ (b => ntype = "Frobenius" /\ ZeroShare)
  BY DEF Holds
<1>2. PICK c \in BOOLEAN : a = [sum |-> Reduced(N), nan |-> c] /\ (c => ntype = "Frobenius" /\ ZeroShare)
  BY DEF Holds
<1>3. w # Undefined /\ a # Undefined
  BY <1>1, <1>2, SumIsDefined
<1>4. CASE ntype = "Frobenius"
  <2> DEFINE S(X) == {x \in Positions : LineOf(x) \in X}
  <2>1. S(M) \cap S(N) = {} /\ S(M) \cup S(N) = S(M \cup N)
    OBVIOUS
  <2>2. Reduced(M) = Content(S(M)) /\ Reduced(N) = Content(S(N)) /\ Reduced(M \cup N) = Content(S(M \cup N))
    BY <1>4 DEF Reduced
  <2>3. Content(S(N)) = EmptyBag => ZeroShare
    BY <1>4, <2>2, LinesOfZeros
  <2>4. Larger(w, a) = Add(w, a)
    BY <1>4 DEF Larger
  <2> HIDE DEF S
  <2>5. Holds(w, Content(S(M))) /\ Holds(a, Content(S(N)))
    BY <2>2
  <2>6. Holds(Add(w, a), Content(S(M) \cup S(N)))
    BY <2>1, <2>3, <2>5, AddHolds
  <2> QED BY <2>1, <2>2, <2>4, <2>6
<1>5. CASE ntype # "Frobenius"
  <2>1. Larger(w, a) = [sum |-> Reduced(M) \cup Reduced(N), nan |-> FALSE]
    BY <1>1, <1>2, <1>3, <1>5 DEF Larger
  <2>2. ntype \in {"Max", "One", "Inf"}
    BY <1>5 DEF CallOK
  <2>3. Reduced(M) \cup Reduced(N) = Reduced(M \cup N)
    <3>1. CASE ntype = "Max"
      BY <3>1, ReducedJoins
    <3>2. CASE ntype \in {"One", "Inf"}
      BY <3>2, ReducedJoins
    <3> QED BY <2>2, <3>1, <3>2
  <2> QED BY <2>1, <2>3 DEF Holds
<1> QED BY <1>4, <1>5

\* A sum over a line, seen as a maximum.
LEMMA LargestHolds ==
  ASSUME CallOK, NEW l, NEW a, Holds(a, Content(Line(l)))
  PROVE  Holds(Largest(a), Reduced({l}))
<1>1. PICK c \in BOOLEAN : a = [sum |-> Content(Line(l)), nan |-> c] /\ (c => ntype = "Frobenius" /\ ZeroShare)
  BY DEF Holds
<1>2. a # Undefined
  BY <1>1, SumIsDefined
<1>3. CASE ntype \in {"One", "Inf"}
  <2>1. Largest(a) = [sum |-> {Content(Line(l))}, nan |-> c]
    BY <1>1, <1>2, <1>3 DEF Largest
  <2>2. Reduced({l}) = {Content(Line(l))}
    BY <1>3 DEF Reduced
  <2> QED BY <1>1, <2>1, <2>2 DEF Holds
<1>4. CASE ntype \notin {"One", "Inf"}
  <2>1. Largest(a) = a
    BY <1>4 DEF Largest
  <2>2. Line(l) = {x \in Positions : LineOf(x) \in {l}}
    BY DEF Line
  <2>3. Reduced({l}) = Content(Line(l))
    BY <1>4, <2>2 DEF Reduced
  <2> QED BY <1>1, <2>1, <2>3 DEF Holds
<1> QED BY <1>3, <1>4

\* The maximum over no line.
LEMMA NoMaximumHolds ==
  ASSUME CallOK PROVE Holds(NoMaximum, Reduced({}))
<1>1. CASE ntype \in {"One", "Inf"}
  <2>1. Reduced({}) = {} /\ NoMaximum = [sum |-> {}, nan |-> FALSE]
    BY <1>1 DEF Reduced, NoMaximum
  <2> QED BY <2>1 DEF Holds
<1>2. CASE ntype \notin {"One", "Inf"}
  <2>1. {x \in Positions : LineOf(x) \in {}} = {}
    OBVIOUS
  <2>2. Reduced({}) = Content({})
    BY <1>2, <2>1 DEF Reduced
  <2>3. NoMaximum = Nothing
    BY <1>2 DEF NoMaximum, Nothing, CallOK
  <2> QED BY <2>2, <2>3, NothingHolds
<1> QED BY <1>1, <1>2

\* All lines together are what is to be reduced.
LEMMA LineIs ==
  ASSUME CallOK, NEW l \in Lines, ntype \in {"One", "Inf"}
  PROVE  Content(Line(l)) = IF ntype = "One" THEN SetToBag(Column(l)) ELSE SetToBag(Row(l))
<1> DEFINE R == IF ntype = "One" THEN Column(l) ELSE Row(l)
<1>1. call.zero = {}
  BY DEF CallOK
<1>2. ASSUME NEW x \in Stored
      PROVE  Times(Line(l), x) = IF x \in R THEN 1 ELSE 0
  <2>1. x = <<x[1], x[2]>> /\ x \in Positions /\ x \in Rows \X Columns
    BY PairsAre
  <2>2. CASE ~Symmetric
    <3>1. x \in Line(l) <=> IF ntype = "One" THEN x[2] = l ELSE x[1] = l
      BY <2>1, <2>2 DEF Line, LineOf, Columnwise
    <3>2. x \in R <=> IF ntype = "One" THEN x[2] = l ELSE x[1] = l
      BY <2>2 DEF Row, Column, Symmetric
    <3>3. Times(Line(l), x) = IF x \in Line(l) THEN 1 ELSE 0
      BY <2>2 DEF Times
    <3> QED BY <3>1, <3>2, <3>3
  <2>3. CASE Symmetric
    <3>1. <<x[2], x[1]>> \in Positions
      <4>1. call.mt = call.nt
        BY <2>3, Triangle
      <4> QED BY <2>1, <2>3, <4>1, PairsAre DEF Positions, Rows, Columns
    <3>2. x \in Line(l) <=> x[1] = l
      BY <2>1, <2>3 DEF Line, LineOf, Columnwise
    <3>3. <<x[2], x[1]>> \in Line(l) <=> x[2] = l
      BY <2>3, <3>1 DEF Line, LineOf, Columnwise
    <3>4. x \in R <=> x[1] = l \/ x[2] = l
      BY <2>3 DEF Row, Column, Symmetric
    <3>5. Times(Line(l), x) = (IF x[1] = l THEN 1 ELSE 0) + (IF x[1] # x[2] /\ x[2] = l THEN 1 ELSE 0)
      BY <2>3, <3>2, <3>3 DEF Times
    <3> QED BY <3>4, <3>5
  <2> QED BY <2>2, <2>3
<1>3. R \subseteq Stored
  BY DEF Row, Column
<1>4. {y \in Stored \ call.zero : Times(Line(l), y) > 0} = R
  BY <1>1, <1>2, <1>3
<1>5. Content(Line(l)) = [x \in R |-> Times(Line(l), x)]
  BY <1>4 DEF Content
<1>6. [x \in R |-> Times(Line(l), x)] = [x \in R |-> 1]
  BY <1>2, <1>3
<1>7. Content(Line(l)) = SetToBag(R)
  BY <1>5, <1>6 DEF SetToBag
<1> QED BY <1>7

\* A bag is empty if it has no element.
LEMMA BagOfNone ==
  ASSUME NEW S PROVE SetToBag(S) = EmptyBag <=> S = {}
<1>1. DOMAIN SetToBag(S) = S /\ DOMAIN EmptyBag = {}
  BY DEF SetToBag, EmptyBag
<1> QED BY <1>1 DEF EmptyBag

\* The maximum over all lines is what the norm is defined to be.
LEMMA ReducedIsExact ==
  ASSUME CallOK PROVE Reduced(Lines) = Exact
<1>1. \A x \in Positions : LineOf(x) \in Lines
  BY PairsAre DEF LineOf, Lines
<1>2. ntype \notin {"One", "Inf"} => Reduced(Lines) = Content(Positions)
  <2>1. {x \in Positions : LineOf(x) \in Lines} = Positions
    BY <1>1
  <2> QED BY <2>1 DEF Reduced
<1>3. ASSUME NEW x \in Stored
      PROVE  Times(Positions, x) = IF Symmetric /\ x[1] # x[2] THEN 2 ELSE 1
  <2>1. x = <<x[1], x[2]>> /\ x \in Positions /\ x \in Rows \X Columns
    BY PairsAre
  <2>2. Symmetric => <<x[2], x[1]>> \in Positions
    <3>1. Symmetric => call.mt = call.nt
      BY Triangle
    <3> QED BY <2>1, <3>1, PairsAre DEF Positions, Rows, Columns
  <2> QED BY <2>1, <2>2 DEF Times
<1>4. CASE ntype = "Max"
  <2>1. Content(Positions) = Stored
    BY <1>3, <1>4 DEF Content
  <2> QED BY <1>2, <1>4, <2>1 DEF Exact
<1>5. CASE ntype = "Frobenius"
  <2>1. {y \in Stored \ call.zero : Times(Positions, y) > 0} = Stored \ call.zero
    BY <1>3
  <2>2. Content(Positions) = [x \in Stored \ call.zero |-> Times(Positions, x)]
    BY <1>5, <2>1 DEF Content
  <2>3. [x \in Stored \ call.zero |-> Times(Positions, x)] =
        [x \in Stored \ call.zero |-> IF call.routine = "zlansy" /\ x[1] # x[2] THEN 2 ELSE 1]
    BY <1>3 DEF Symmetric
  <2> QED BY <1>2, <1>5, <2>2, <2>3 DEF Exact
<1>6. CASE ntype = "Inf"
  <2> DEFINE B(l) == SetToBag(Row(l))
  <2>1. ~Columnwise /\ Lines = 0 .. MT-1
    BY <1>6 DEF Columnwise, Lines
  <2>2. Reduced(Lines) = {B(l) : l \in Lines}
    <3>1. Reduced(Lines) = {Content(Line(l)) : l \in Lines}
      BY <1>6 DEF Reduced
    <3>2. \A l \in Lines : Content(Line(l)) = B(l)
      BY <1>6, LineIs
    <3> HIDE DEF B
    <3> QED BY <3>1, <3>2
  <2>3. ASSUME NEW l \in Lines PROVE B(l) # EmptyBag /\ l \in Rows
    <3>1. PICK x \in Stored : x \in Line(l)
      BY LineHasTile
    <3>2. x \in Row(l)
      BY <2>1, <3>1 DEF Row, Line, LineOf
    <3>3. l \in Rows
      BY <2>1, Triangle DEF Rows, CallOK, Numbers
    <3> QED BY <3>2, <3>3, BagOfNone
  <2>4. ASSUME NEW l \in Rows, l \notin Lines PROVE B(l) = EmptyBag
    <3>1. l \in 0 .. call.mt-1 /\ l >= MT /\ MT \in Numbers
      BY <2>1, <2>4, Triangle DEF Rows, CallOK, Numbers
    <3>2. ~Symmetric
      BY <3>1, Triangle DEF Numbers
    <3>3. ASSUME NEW x \in Row(l) PROVE FALSE
      <4>1. x \in Positions /\ x[1] = l
        BY <3>2, PairsAre DEF Row, Symmetric
      <4>2. x[1] \in 0 .. MT-1
        BY <4>1, PairsAre
      <4> QED BY <3>1, <4>1, <4>2 DEF Numbers
    <3> QED BY <3>3, BagOfNone
  <2>5. Exact = {B(m) : m \in Rows} \ {EmptyBag}
    BY <1>6 DEF Exact
  <2> HIDE DEF B
  <2> QED BY <2>2, <2>3, <2>4, <2>5
<1>7. CASE ntype = "One"
  <2> DEFINE B(l) == SetToBag(Column(l))
  <2>1. Lines = 0 .. NT-1
    BY <1>7, Triangle DEF Columnwise, Lines
  <2>2. Reduced(Lines) = {B(l) : l \in Lines}
    <3>1. Reduced(Lines) = {Content(Line(l)) : l \in Lines}
      BY <1>7 DEF Reduced
    <3>2. \A l \in Lines : Content(Line(l)) = B(l)
      BY <1>7, LineIs
    <3> HIDE DEF B
    <3> QED BY <3>1, <3>2
  <2>3. ASSUME NEW l \in Lines PROVE B(l) # EmptyBag /\ l \in Columns
    <3>1. PICK x \in Stored : x \in Line(l)
      BY LineHasTile
    <3>2. x \in Column(l)
      BY <1>7, <3>1 DEF Column, Line, LineOf, Columnwise, Symmetric
    <3>3. l \in Columns
      BY <2>1, Triangle DEF Columns, CallOK, Numbers
    <3> QED BY <3>2, <3>3, BagOfNone
  <2>4. ASSUME NEW l \in Columns, l \notin Lines PROVE B(l) = EmptyBag
    <3>1. l \in 0 .. call.nt-1 /\ l >= NT /\ NT \in Numbers
      BY <2>1, <2>4, Triangle DEF Columns, CallOK, Numbers
    <3>2. ~Symmetric
      BY <3>1, Triangle DEF Numbers
    <3>3. ASSUME NEW x \in Column(l) PROVE FALSE
      <4>1. x \in Positions /\ x[2] = l
        BY <3>2, PairsAre DEF Column, Symmetric
      <4>2. x[2] \in 0 .. NT-1
        BY <4>1, PairsAre
      <4> QED BY <3>1, <4>1, <4>2 DEF Numbers
    <3> QED BY <3>3, BagOfNone
  <2>5. Exact = {B(m) : m \in Columns} \ {EmptyBag}
    BY <1>7 DEF Exact
  <2> HIDE DEF B
  <2> QED BY <2>2, <2>3, <2>4, <2>5
<1> QED BY <1>4, <1>5, <1>6, <1>7 DEF CallOK

-----------------------------------------------------------------------------
(* What every task holds: a part of a line in the first steps, some lines  *)
(* in the others.  The tiles of a line are handed out to the processes     *)
(* along it by their index, those of a symmetric matrix by their process.  *)
key(t) == IF Columnwise THEN t[3] ELSE t[2]
pos(t) == IF Columnwise THEN t[2] ELSE t[3]

Along(x) ==
  IF Symmetric THEN sy_rank(x[1], x[2]) ELSE IF Columnwise THEN x[1] ELSE x[2]
Across == IF Columnwise THEN P ELSE Q
from(l) == IF Symmetric THEN 0 ELSE IF Columnwise THEN one_mmin(l) ELSE frb_nmin(l)
upto(l) == IF Symmetric THEN P*Q-1 ELSE IF Columnwise THEN one_mmax(l) ELSE frb_nmax(l)

Share(l, S) == {x \in Line(l) : Along(x) \in S}
SharesUpTo(l, i) == Share(l, Turns(from(l), upto(l), Across, i))
ChainOf(l, i)    == Share(l, Chain(from(l), upto(l), Across, i))
RowChain(m, n)   == {x \in Line(m) : Along(x) = sy_rank(m, n) /\ x[2] <= n}

Part(t) ==
  CASE t[1] = "STEP1" -> IF Symmetric THEN RowChain(t[2], t[3]) ELSE ChainOf(key(t), pos(t))
    [] t[1] = "STEP2" -> IF Symmetric THEN ChainOf(t[2], t[3]) ELSE SharesUpTo(key(t), pos(t))
    [] t[1] = "STEP2BIS" -> SharesUpTo(t[2], t[3])

LinesFrom(i) == Chain(0, (IF Columnwise THEN NT ELSE MT) - 1, Stride, i)
LinesUpTo(i) == Turns(0, (IF Columnwise THEN NT ELSE MT) - 1, Stride, i)

Span(t) ==
  CASE t[1] = "STEP3" -> LinesFrom(key(t))
    [] t[1] = "STEP4" -> LinesUpTo(key(t))
    [] t[1] = "WRITE_RES" -> Lines

Val(t) ==
  IF t[1] \in {"STEP1", "STEP2", "STEP2BIS"} THEN Content(Part(t)) ELSE Reduced(Span(t))

\* The flows of a task bring what their sources hold.
Fed(E, W, A) ==
  \A x \in E : /\ x[1] = "W" => Holds(W, Val(x[2]))
               /\ x[1] = "A" => Holds(A, Val(x[2]))

-----------------------------------------------------------------------------
(* The last three steps, which are the same in the three graphs.           *)
LEMMA STEP3Holds ==
  ASSUME CallOK, NEW i \in Lines, NEW W, NEW A,
         NEW last, last = (IF Columnwise THEN NT ELSE MT) - Stride,
         Holds(A, Content(Line(i))),
         i < last => Holds(W, Reduced(LinesFrom(i + Stride)))
  PROVE  /\ i < last => Holds(Larger(W, Largest(A)), Reduced(LinesFrom(i)))
         /\ ~(i < last) /\ ntype = "Frobenius" => Holds(Larger(NoMaximum, A), Reduced(LinesFrom(i)))
         /\ ~(i < last) /\ ntype # "Frobenius" => Holds(Largest(A), Reduced(LinesFrom(i)))
<1> DEFINE L == IF Columnwise THEN NT ELSE MT
<1>1. L \in Numbers /\ Stride \in Numbers /\ Lines = 0 .. L-1
  BY Triangle DEF CallOK, Stride, Lines
<1>2. \A j : LinesFrom(j) = Chain(0, L-1, Stride, j)
  BY DEF LinesFrom
<1>3. last = L - Stride
  OBVIOUS
<1> HIDE DEF L
<1>4. i \in 0 .. L-1 /\ L-1 \in Int /\ Stride \in Nat \ {0} /\ 0 \in Nat /\ i \in Nat
  BY <1>1 DEF Numbers
<1>5. /\ LinesFrom(i) = {i} \cup LinesFrom(i + Stride)
      /\ i \notin LinesFrom(i + Stride)
      /\ i + Stride > L-1 => LinesFrom(i) = {i}
  <2>1. /\ Chain(0, L-1, Stride, i) = {i} \cup Chain(0, L-1, Stride, i + Stride)
        /\ i \notin Chain(0, L-1, Stride, i + Stride)
        /\ i + Stride > L-1 => Chain(0, L-1, Stride, i) = {i}
    <3>1. ASSUME NEW h \in Int, NEW g \in Nat \ {0}, NEW j \in 0 .. h
          PROVE  /\ Chain(0, h, g, j) = {j} \cup Chain(0, h, g, j + g)
                 /\ j \notin Chain(0, h, g, j + g)
                 /\ j + g > h => Chain(0, h, g, j) = {j}
      BY ChainStep
    <3>2. PICK h \in Int : h = L-1
      BY <1>4
    <3>3. PICK g \in Nat \ {0} : g = Stride
      BY <1>4
    <3>4. i \in 0 .. h
      BY <1>4, <3>2
    <3>5. Chain(0, h, g, i) = {i} \cup Chain(0, h, g, i + g)
      BY <3>1, <3>4
    <3>6. i \notin Chain(0, h, g, i + g)
      BY <3>1, <3>4
    <3>7. i + g > h => Chain(0, h, g, i) = {i}
      BY <3>1, <3>4
    <3>8. Chain(0, L-1, Stride, i) = {i} \cup Chain(0, L-1, Stride, i + Stride)
      BY <3>5, <3>2, <3>3
    <3>9. i \notin Chain(0, L-1, Stride, i + Stride)
      BY <3>6, <3>2, <3>3
    <3>10. i + Stride > L-1 => Chain(0, L-1, Stride, i) = {i}
      BY <3>7, <3>2, <3>3
    <3> QED BY <3>8, <3>9, <3>10
  <2> QED BY <1>2, <2>1, Zenon
<1>6. Holds(Largest(A), Reduced({i}))
  BY LargestHolds
<1>7. CASE i < last
  <2>1. Holds(Larger(W, Largest(A)), Reduced(LinesFrom(i + Stride) \cup {i}))
    <3>1. LinesFrom(i + Stride) \cap {i} = {} /\ {i} \subseteq Lines /\ {i} # {}
      BY <1>5
    <3> QED BY <1>6, <1>7, <3>1, LargerHolds
  <2>2. LinesFrom(i + Stride) \cup {i} = LinesFrom(i)
    BY <1>5
  <2> QED BY <1>7, <2>1, <2>2
<1>8. CASE ~(i < last)
  <2>1. LinesFrom(i) = {i}
    BY <1>1, <1>3, <1>4, <1>5, <1>8 DEF Numbers
  <2>2. ntype = "Frobenius" => Holds(Larger(NoMaximum, A), Reduced({i}))
    <3> SUFFICES ASSUME ntype = "Frobenius" PROVE Holds(Larger(NoMaximum, A), Reduced({i}))
      OBVIOUS
    <3>1. Largest(A) = A
      BY DEF Largest
    <3>2. {} \cap {i} = {} /\ {i} \subseteq Lines /\ {i} # {} /\ {} \cup {i} = {i}
      OBVIOUS
    <3>3. Holds(Larger(NoMaximum, A), Reduced({} \cup {i}))
      BY <1>6, <3>1, <3>2, NoMaximumHolds, LargerHolds
    <3> QED BY <3>2, <3>3
  <2> QED BY <1>6, <1>8, <2>1, <2>2
<1> QED BY <1>7, <1>8

\* STEP4: lines 0 .. key, one grid row (or column) after the other.
LEMMA STEP4Holds ==
  ASSUME CallOK, NEW i \in 0 .. Stride-1, NEW W, NEW A, NEW L, L = IF Columnwise THEN NT ELSE MT,
         i <= L-1 => Holds(W, Reduced(LinesFrom(i))),
         i # 0 => Holds(A, Reduced(LinesUpTo(i - 1)))
  PROVE  /\ i = 0 => Holds(W, Reduced(LinesUpTo(i)))
         /\ i # 0 => Holds(Larger(IF i > L-1 THEN NoMaximum ELSE W, A), Reduced(LinesUpTo(i)))
<1>1. L \in Numbers /\ Stride \in Numbers /\ Lines = 0 .. L-1
  BY Triangle DEF CallOK, Stride, Lines
<1>2. \A j : LinesFrom(j) = Chain(0, L-1, Stride, j) /\ LinesUpTo(j) = Turns(0, L-1, Stride, j)
  BY DEF LinesFrom, LinesUpTo
<1>3. L-1 \in Int /\ Stride \in Nat \ {0} /\ 0 \in Nat
  BY <1>1 DEF Numbers
<1> DEFINE T == Turn(0, L-1, Stride, i)
<1>4. T = LinesFrom(i) /\ (i > L-1 => T = {})
  BY <1>2, <1>3, TurnOfOwner, Zenon
<1>5. /\ LinesUpTo(i) = LinesUpTo(i - 1) \cup T
      /\ LinesUpTo(i - 1) \cap T = {}
      /\ i = 0 => LinesUpTo(i - 1) = {}
  <2>1. /\ Turns(0, L-1, Stride, i) = Turns(0, L-1, Stride, i - 1) \cup Turn(0, L-1, Stride, i)
        /\ Turns(0, L-1, Stride, i - 1) \cap Turn(0, L-1, Stride, i) = {}
        /\ i = 0 => Turns(0, L-1, Stride, i - 1) = {}
    BY <1>3, TurnsStep
  <2> QED BY <1>2, <2>1, Zenon DEF T
<1> HIDE DEF T
<1>6. CASE i = 0
  <2>1. LinesUpTo(i) = LinesFrom(i)
    BY <1>4, <1>5, <1>6
  <2> QED BY <1>1, <1>6, <2>1 DEF Numbers
<1>7. CASE i # 0
  <2> DEFINE w == IF i > L-1 THEN NoMaximum ELSE W
  <2>1. Holds(w, Reduced(T))
    <3>1. CASE i > L-1
      BY <1>4, <3>1, NoMaximumHolds
    <3>2. CASE ~(i > L-1)
      <4>1. i <= L-1
        BY <1>1, <3>2 DEF Numbers
      <4> QED BY <1>4, <3>2, <4>1
    <3> QED BY <3>1, <3>2
  <2>2. LinesUpTo(i - 1) \subseteq Lines /\ LinesUpTo(i - 1) # {}
    <3>1. LinesUpTo(i - 1) \subseteq Lines
      BY <1>1, <1>2 DEF Turns
    <3>2. 0 \in LinesUpTo(i - 1)
      <4>1. 0 % Stride = 0
        BY <1>3, OwnRemainder
      <4> QED BY <1>1, <1>2, <1>7, <4>1 DEF Turns, Numbers
    <3> QED BY <3>1, <3>2
  <2> HIDE DEF w
  <2>3. T \cap LinesUpTo(i - 1) = {} /\ T \cup LinesUpTo(i - 1) = LinesUpTo(i)
    BY <1>5
  <2>4. Holds(Larger(w, A), Reduced(T \cup LinesUpTo(i - 1)))
    BY <1>7, <2>1, <2>2, <2>3, LargerHolds
  <2> QED BY <1>7, <2>3, <2>4 DEF w
<1> QED BY <1>6, <1>7

\* The last task of STEP4 has all lines.
LEMMA AllLines ==
  ASSUME CallOK PROVE LinesUpTo(Stride - 1) = Lines
<1> DEFINE L == IF Columnwise THEN NT ELSE MT
<1>1. L \in Numbers /\ Stride \in Numbers /\ Lines = 0 .. L-1 /\ LinesUpTo(Stride - 1) = Turns(0, L-1, Stride, Stride - 1)
  BY Triangle DEF CallOK, Stride, Lines, LinesUpTo
<1> HIDE DEF L
<1>2. L-1 \in Int /\ Stride \in Nat \ {0} /\ 0 \in Nat /\ 0 \in 0 .. Stride-1
  BY <1>1 DEF Numbers
<1> QED BY <1>1, <1>2, TurnsStep, Zenon

-----------------------------------------------------------------------------
(* Along a line.                                                           *)
LEMMA ShareJoins ==
  ASSUME NEW l, NEW S, NEW T, S \cap T = {}
  PROVE  Share(l, S \cup T) = Share(l, S) \cup Share(l, T) /\ Share(l, S) \cap Share(l, T) = {}
  BY DEF Share

\* The chain of a process along a line, tile by tile.
LEMMA ChainOfStep ==
  ASSUME NEW l, from(l) \in Nat, upto(l) \in Int, Across \in Nat \ {0}, NEW i, i \in from(l) .. upto(l)
  PROVE  /\ ChainOf(l, i) = Share(l, {i}) \cup ChainOf(l, i + Across)
         /\ Share(l, {i}) \cap ChainOf(l, i + Across) = {}
         /\ i + Across > upto(l) => ChainOf(l, i + Across) = {}
<1>1. PICK a \in Nat : a = from(l)
  OBVIOUS
<1>2. PICK b \in Int : b = upto(l)
  OBVIOUS
<1>3. PICK g \in Nat \ {0} : g = Across
  OBVIOUS
<1>4. i \in a .. b
  BY <1>1, <1>2
<1> DEFINE C == Chain(a, b, g, i)
           D == Chain(a, b, g, i + g)
<1>5. C = {i} \cup D
  BY <1>4, ChainStep
<1>6. i \notin D
  BY <1>4, ChainStep
<1>7. i + g > b => C = {i}
  BY <1>4, ChainStep
<1>8. ChainOf(l, i) = Share(l, C) /\ ChainOf(l, i + Across) = Share(l, D)
  BY <1>1, <1>2, <1>3 DEF ChainOf
<1> HIDE DEF C, D
<1>9. {i} \cap D = {} /\ (i + g > b => D = {})
  BY <1>5, <1>6, <1>7
<1>10. Share(l, {}) = {}
  BY DEF Share
<1>11. Share(l, C) = Share(l, {i}) \cup Share(l, D) /\ Share(l, {i}) \cap Share(l, D) = {}
  BY <1>5, <1>9, ShareJoins
<1>12. i + Across > upto(l) => D = {}
  BY <1>2, <1>3, <1>9
<1> QED BY <1>8, <1>10, <1>11, <1>12

\* The shares of a line, process by process.
LEMMA SharesUpToStep ==
  ASSUME NEW l, from(l) \in Nat, upto(l) \in Int, Across \in Nat \ {0}, NEW i, i \in 0 .. Across-1
  PROVE  /\ SharesUpTo(l, i) = SharesUpTo(l, i - 1) \cup Share(l, Turn(from(l), upto(l), Across, i))
         /\ SharesUpTo(l, i - 1) \cap Share(l, Turn(from(l), upto(l), Across, i)) = {}
         /\ i = 0 => SharesUpTo(l, i - 1) = {}
         /\ SharesUpTo(l, Across - 1) = Share(l, from(l) .. upto(l))
<1>1. PICK a \in Nat : a = from(l)
  OBVIOUS
<1>2. PICK b \in Int : b = upto(l)
  OBVIOUS
<1>3. PICK g \in Nat \ {0} : g = Across
  OBVIOUS
<1>4. i \in 0 .. g-1
  BY <1>3
<1> DEFINE C == Turns(a, b, g, i)
           D == Turns(a, b, g, i - 1)
           E == Turn(a, b, g, i)
<1>5. /\ C = D \cup E
      /\ D \cap E = {}
  BY <1>4, TurnsStep
<1>6. i = 0 => D = {}
  BY <1>4, TurnsStep
<1>7. Turns(a, b, g, g - 1) = a .. b
  BY <1>4, TurnsStep
<1>8. /\ SharesUpTo(l, i) = Share(l, C) /\ SharesUpTo(l, i - 1) = Share(l, D)
      /\ Share(l, Turn(from(l), upto(l), Across, i)) = Share(l, E)
      /\ SharesUpTo(l, Across - 1) = Share(l, from(l) .. upto(l))
  BY <1>1, <1>2, <1>3, <1>7 DEF SharesUpTo
<1> HIDE DEF C, D, E
<1>9. Share(l, {}) = {}
  BY DEF Share
<1>10. Share(l, C) = Share(l, D) \cup Share(l, E) /\ Share(l, D) \cap Share(l, E) = {}
  BY <1>5, ShareJoins
<1> QED BY <1>6, <1>8, <1>9, <1>10

\* zlange_frb_cyclic.
Rowwise == ~Symmetric /\ ~Columnwise

\* The lines of the graph, and the tiles on them.
LEMMA frb_Ranges ==
  ASSUME CallOK, Rowwise, NEW m \in 0 .. MT-1
  PROVE  /\ m \in Lines /\ m \in Nat
         /\ from(m) = frb_nmin(m) /\ upto(m) = frb_nmax(m) /\ Across = Q /\ Stride = P
         /\ frb_nmin(m) \in Nat /\ frb_nmax(m) \in Nat /\ frb_nmin(m) <= frb_nmax(m)
         /\ Q \in Nat \ {0} /\ P \in Nat \ {0}
         /\ \A n : <<m, n>> \in Positions <=> n \in frb_nmin(m) .. frb_nmax(m)
         /\ \A n : <<m, n>> \in Line(m) <=> n \in frb_nmin(m) .. frb_nmax(m)
         /\ \A x \in Line(m) : x = <<m, x[2]>>
         /\ \A n : Along(<<m, n>>) = n
<1>1. /\ call.mt \in Numbers /\ call.nt \in Numbers /\ MT \in Numbers /\ NT \in Numbers
      /\ MT <= call.mt /\ NT <= call.nt
      /\ ~Symmetric /\ ~Columnwise
      /\ uplo = "UpperLower" \/ uplo = "Upper" \/ uplo = "Lower"
      /\ uplo = "Upper" => NT = call.nt /\ MT <= NT
      /\ uplo = "Lower" => MT = call.mt /\ NT <= MT /\ (MT = NT \/ NT = call.nt)
      /\ uplo = "UpperLower" => NT = call.nt
  BY Triangle DEF CallOK, Rowwise
<1>2. from(m) = frb_nmin(m) /\ upto(m) = frb_nmax(m) /\ Across = Q /\ Stride = P
  BY <1>1 DEF from, upto, Across, Stride
<1>3. /\ frb_nmin(m) = IF uplo = "Upper" THEN m ELSE 0
      /\ frb_nmax(m) = IF uplo = "Lower" THEN IF m <= NT-1 THEN m ELSE NT-1 ELSE NT-1
  BY DEF frb_nmin, frb_nmax, imin
<1>4. Positions = Stored
  BY <1>1 DEF Positions
<1>5. ASSUME NEW n PROVE <<m, n>> \in Stored <=> n \in frb_nmin(m) .. frb_nmax(m)
  <2>1. <<m, n>> \in Stored <=>
          /\ m \in 0 .. call.mt-1 /\ n \in 0 .. call.nt-1
          /\ uplo = "Upper" => m <= n
          /\ uplo = "Lower" => m >= n
    BY StoredIs DEF Rows, Columns
  <2>2. CASE uplo = "Upper"
    BY <1>1, <1>3, <2>1, <2>2 DEF Numbers
  <2>3. CASE uplo = "Lower"
    BY <1>1, <1>3, <2>1, <2>3 DEF Numbers
  <2>4. CASE uplo = "UpperLower"
    BY <1>1, <1>3, <2>1, <2>4 DEF Numbers
  <2> QED BY <1>1, <2>2, <2>3, <2>4
<1>6. \A n : <<m, n>> \in Line(m) <=> <<m, n>> \in Stored
  BY <1>1, <1>4 DEF Line, LineOf
<1>7. \A x \in Line(m) : x = <<m, x[2]>>
  <2> TAKE x \in Line(m)
  <2>1. x \in Positions /\ x[1] = m
    BY <1>1 DEF Line, LineOf
  <2> QED BY <2>1, PairsAre
<1>8. \A n : Along(<<m, n>>) = n
  BY <1>1 DEF Along
<1>9. /\ m \in Lines /\ m \in Nat
      /\ frb_nmin(m) \in Nat /\ frb_nmax(m) \in Nat /\ frb_nmin(m) <= frb_nmax(m)
      /\ Q \in Nat \ {0} /\ P \in Nat \ {0}
  BY <1>1, <1>3 DEF Lines, Numbers, CallOK
<1> QED BY <1>2, <1>4, <1>5, <1>6, <1>7, <1>8, <1>9

\* The first index of a task names its line, the second the place on it.
LEMMA frb_Keys ==
  ASSUME Rowwise, NEW s, NEW m, NEW n
  PROVE  key(<<s, m, n>>) = m /\ pos(<<s, m, n>>) = n
  BY DEF key, pos, Rowwise

\* What the tasks hold.
LEMMA frb_Values ==
  ASSUME Rowwise, NEW m, NEW n
  PROVE  /\ Val(<<"STEP1", m, n>>) = Content(ChainOf(m, n))
         /\ Val(<<"STEP2", m, n>>) = Content(SharesUpTo(m, n))
         /\ Val(<<"STEP3", m, n>>) = Reduced(LinesFrom(m))
         /\ Val(<<"STEP4", m, n>>) = Reduced(LinesUpTo(m))
         /\ Val(<<"WRITE_RES", m, n>>) = Reduced(Lines)
<1>1. ~Symmetric
  BY DEF Rowwise
<1> QED BY <1>1, frb_Keys DEF Val, Part, Span

\* STEP1 adds its tile to the chain that a process owns in a row.
LEMMA frb_STEP1 ==
  ASSUME CallOK, Rowwise, NEW m, NEW n, <<m, n>> \in frb_Space("STEP1"),
         NEW W, NEW A, Fed(frb_Expects("STEP1", m, n), W, A)
  PROVE  Holds(frb_Body("STEP1", m, n, W, A), Val(<<"STEP1", m, n>>))
<1>1. m \in 0 .. MT-1 /\ n \in frb_nmin(m) .. frb_nmax(m)
  BY DEF frb_Space
<1>2. /\ from(m) = frb_nmin(m) /\ upto(m) = frb_nmax(m) /\ Across = Q
      /\ frb_nmin(m) \in Nat /\ frb_nmax(m) \in Nat /\ Q \in Nat \ {0} /\ n \in Nat
      /\ <<m, n>> \in Positions /\ <<m, n>> \in Line(m)
      /\ \A x \in Line(m) : x = <<m, x[2]>>
      /\ \A c : Along(<<m, c>>) = c
  BY <1>1, frb_Ranges
<1> DEFINE b == frb_nmax(m)
           D == ChainOf(m, n + Q)
           w == IF n > b-Q THEN Nothing ELSE W
<1>3. Share(m, {n}) = {<<m, n>>}
  BY <1>2 DEF Share
<1>4. /\ ChainOf(m, n) = {<<m, n>>} \cup D
      /\ <<m, n>> \notin D
      /\ n + Q > b => D = {}
  BY <1>1, <1>2, <1>3, ChainOfStep
<1>5. Holds(w, Content(D))
  <2>1. CASE n > b-Q
    <3>1. n + Q > b
      BY <1>2, <2>1
    <3> HIDE DEF D
    <3> QED BY <1>4, <2>1, <3>1, NothingHolds
  <2>2. CASE ~(n > b-Q)
    <3>1. n < b+1-Q
      BY <1>2, <2>2
    <3>2. <<"W", <<"STEP1", m, n+Q>>>> \in frb_Expects("STEP1", m, n)
      BY <3>1 DEF frb_Expects
    <3>3. Holds(W, Val(<<"STEP1", m, n+Q>>))
      BY <3>2 DEF Fed
    <3> QED BY <2>2, <3>3, frb_Values
  <2> QED BY <2>1, <2>2
<1>6. frb_Body("STEP1", m, n, W, A) = AddTile(w, m, n)
  BY DEF frb_Body
<1>7. at(<<m, n>>) = <<m, n>>
  BY DEF at, Rowwise
<1> HIDE DEF w, D
<1>8. Holds(AddTile(w, at(<<m, n>>)[1], at(<<m, n>>)[2]), Content({<<m, n>>} \cup D))
  BY <1>2, <1>4, <1>5, AddTileHolds
<1>9. Holds(AddTile(w, m, n), Content({<<m, n>>} \cup D))
  BY <1>7, <1>8
<1> QED BY <1>4, <1>6, <1>9, frb_Values

\* A process has the share of a line that starts with its first tile, f.
ShareStartsAt(l, i, f) ==
  /\ f \in Nat /\ f >= from(l) /\ f < from(l) + Across /\ f % Across = i
  /\ f <= upto(l) => Share(l, Turn(from(l), upto(l), Across, i)) = ChainOf(l, f)
  /\ f > upto(l) => Share(l, Turn(from(l), upto(l), Across, i)) = {}

\* The chain of a process starts at the number that the graphs compute for it.
LEMMA ShareOfProcess ==
  ASSUME NEW l, from(l) \in Nat, upto(l) \in Int, Across \in Nat \ {0}, NEW i, i \in 0 .. Across-1, NEW f,
         f = IF i >= from(l) % Across THEN from(l) + i - (from(l) % Across)
             ELSE from(l) + i + Across - (from(l) % Across)
  PROVE  ShareStartsAt(l, i, f)
<1>1. PICK a \in Nat : a = from(l)
  OBVIOUS
<1>2. PICK b \in Int : b = upto(l)
  OBVIOUS
<1>3. PICK g \in Nat \ {0} : g = Across
  OBVIOUS
<1>4. PICK j \in 0 .. g-1 : j = i
  BY <1>3
<1>5. PICK e : e = f
  OBVIOUS
<1>6. e = IF j >= a % g THEN a + j - (a % g) ELSE a + j + g - (a % g)
  BY <1>1, <1>3, <1>4, <1>5
<1>7. /\ e \in Nat /\ e >= a /\ e < a + g /\ e % g = j
      /\ e <= b => Turn(a, b, g, j) = Chain(a, b, g, e)
      /\ e > b => Turn(a, b, g, j) = {}
  <2>1. StartsAt(a, b, g, j, e)
    BY <1>6, TurnIsChain
  <2> QED BY <2>1 DEF StartsAt
<1>8. Share(l, {}) = {}
  BY DEF Share
<1> QED BY <1>1, <1>2, <1>3, <1>4, <1>5, <1>7, <1>8 DEF ChainOf, ShareStartsAt

\* A sum of the Frobenius norm is empty only if the share of a process is zero.
LEMMA frb_ShareOfZeros ==
  ASSUME CallOK, Rowwise, ntype = "Frobenius", NEW m \in 0 .. MT-1, NEW c \in frb_nmin(m) .. frb_nmax(m),
         Content(Share(m, Turn(from(m), upto(m), Across, c % Q))) = EmptyBag
  PROVE  ZeroShare
<1>1. /\ from(m) = frb_nmin(m) /\ upto(m) = frb_nmax(m) /\ Across = Q
      /\ \A n : <<m, n>> \in Positions <=> n \in frb_nmin(m) .. frb_nmax(m)
      /\ \A n : <<m, n>> \in Line(m) <=> n \in frb_nmin(m) .. frb_nmax(m)
      /\ \A n : Along(<<m, n>>) = n
  BY frb_Ranges
<1>2. Positions = Stored
  BY DEF Positions, Rowwise
<1> DEFINE S == Share(m, Turn(from(m), upto(m), Across, c % Q))
<1>3. ASSUME NEW y \in Stored, y[1] = m, y[2] % Q = c % Q PROVE y \in call.zero
  <2>1. y = <<m, y[2]>>
    BY <1>3, StoredIs, PairsAre
  <2>2. y[2] \in frb_nmin(m) .. frb_nmax(m) /\ y \in Line(m) /\ Along(y) = y[2]
    BY <1>1, <1>2, <2>1
  <2>3. y \in S
    BY <1>1, <1>3, <2>2 DEF Share, Turn
  <2>4. Times(S, y) > 0
    BY <2>3, TimesIs
  <2> HIDE DEF S
  <2>5. Content(S) = EmptyBag
    BY DEF S
  <2> QED BY <2>4, <2>5, EmptyContent
<1>4. <<m, c>> \in Stored
  BY <1>1, <1>2
<1>5. <<m, c>>[1] = m /\ <<m, c>>[2] = c
  OBVIOUS
<1>6. {y \in Stored : y[1] = <<m, c>>[1] /\ y[2] % Q = <<m, c>>[2] % Q} \subseteq call.zero
  BY <1>3, <1>5
<1> QED BY <1>4, <1>6 DEF ZeroShare

\* STEP2 adds the shares of a row, process by process; a process without a tile in the row
\* passes on what it got.
LEMMA frb_STEP2 ==
  ASSUME CallOK, Rowwise, NEW m, NEW n, <<m, n>> \in frb_Space("STEP2"),
         NEW W, NEW A, Fed(frb_Expects("STEP2", m, n), W, A)
  PROVE  Holds(frb_Body("STEP2", m, n, W, A), Val(<<"STEP2", m, n>>))
<1>1. m \in 0 .. MT-1 /\ n \in 0 .. Q-1
  BY DEF frb_Space
<1> DEFINE c == frb_col(m, n)
           b == frb_nmax(m)
           T == Turn(from(m), upto(m), Across, n)
           S == Share(m, T)
           w == IF c > b THEN Nothing ELSE W
<1>2. /\ from(m) = frb_nmin(m) /\ upto(m) = b /\ Across = Q
      /\ frb_nmin(m) \in Nat /\ b \in Nat /\ Q \in Nat \ {0} /\ m \in Nat /\ n \in Nat
  BY <1>1, frb_Ranges
<1>3. c = IF n >= from(m) % Across THEN from(m) + n - (from(m) % Across)
          ELSE from(m) + n + Across - (from(m) % Across)
  <2>1. CASE uplo = "Upper"
    BY <1>2, <2>1 DEF frb_col, frb_nmin
  <2>2. CASE uplo # "Upper"
    <3>1. c = n /\ from(m) = 0
      BY <1>2, <2>2 DEF frb_col, frb_nmin
    <3>2. 0 % Q = 0
      BY <1>2, OwnRemainder
    <3> QED BY <1>2, <3>1, <3>2
  <2> QED BY <2>1, <2>2
<1>4. /\ c \in Nat /\ c >= frb_nmin(m) /\ c % Q = n
      /\ c <= b => S = ChainOf(m, c)
      /\ c > b => S = {}
  <2> HIDE DEF c, b
  <2>1. n \in 0 .. Across-1
    BY <1>1, <1>2
  <2>2. ShareStartsAt(m, n, c)
    BY <1>2, <1>3, <2>1, ShareOfProcess
  <2> QED BY <1>2, <2>2 DEF ShareStartsAt
<1>5. /\ SharesUpTo(m, n) = SharesUpTo(m, n - 1) \cup S
      /\ SharesUpTo(m, n - 1) \cap S = {}
      /\ n = 0 => SharesUpTo(m, n - 1) = {}
  <2> HIDE DEF b
  <2>1. from(m) \in Nat /\ upto(m) \in Int /\ Across \in Nat \ {0} /\ n \in 0 .. Across-1
    BY <1>1, <1>2
  <2>2. SharesUpTo(m, n) = SharesUpTo(m, n - 1) \cup S
    BY <2>1, SharesUpToStep
  <2>3. SharesUpTo(m, n - 1) \cap S = {}
    BY <2>1, SharesUpToStep
  <2>4. n = 0 => SharesUpTo(m, n - 1) = {}
    BY <2>1, SharesUpToStep
  <2> QED BY <2>2, <2>3, <2>4
<1>6. Holds(w, Content(S))
  <2>1. CASE c > b
    BY <1>4, <2>1, NothingHolds
  <2>2. CASE ~(c > b)
    <3>1. c <= b
      BY <1>2, <1>4, <2>2
    <3>2. <<"W", <<"STEP1", m, c>>>> \in frb_Expects("STEP2", m, n)
      BY <3>1 DEF frb_Expects
    <3>3. Holds(W, Val(<<"STEP1", m, c>>))
      BY <3>2 DEF Fed
    <3> QED BY <1>4, <2>2, <3>1, <3>3, frb_Values
  <2> QED BY <2>1, <2>2
<1>7. n # 0 => Holds(A, Content(SharesUpTo(m, n - 1)))
  <2> SUFFICES ASSUME n # 0 PROVE Holds(A, Content(SharesUpTo(m, n - 1)))
    OBVIOUS
  <2>1. <<"A", <<"STEP2", m, n-1>>>> \in frb_Expects("STEP2", m, n)
    BY DEF frb_Expects
  <2>2. Holds(A, Val(<<"STEP2", m, n-1>>))
    BY <2>1 DEF Fed
  <2> QED BY <2>2, frb_Values
<1>8. frb_Body("STEP2", m, n, W, A) =
        CASE n = 0 -> w
          [] n > 0 /\ ntype = "Frobenius" /\ c > b -> A
          [] OTHER -> Add(w, A)
  BY DEF frb_Body
<1>9. Val(<<"STEP2", m, n>>) = Content(SharesUpTo(m, n))
  BY frb_Values
<1>10. CASE n = 0
  <2>1. frb_Body("STEP2", m, n, W, A) = w
    BY <1>8, <1>10
  <2>2. SharesUpTo(m, n) = S
    BY <1>5, <1>10
  <2> QED BY <1>6, <1>9, <2>1, <2>2
<1>11. CASE n # 0 /\ ntype = "Frobenius" /\ c > b
  <2>1. frb_Body("STEP2", m, n, W, A) = A
    BY <1>2, <1>8, <1>11
  <2>2. SharesUpTo(m, n) = SharesUpTo(m, n - 1)
    BY <1>4, <1>5, <1>11
  <2> QED BY <1>7, <1>9, <1>11, <2>1, <2>2
<1>12. CASE n # 0 /\ ~(ntype = "Frobenius" /\ c > b)
  <2>1. frb_Body("STEP2", m, n, W, A) = Add(w, A)
    BY <1>8, <1>12
  <2>2. ntype = "Frobenius" /\ Content(S) = EmptyBag => ZeroShare
    <3> SUFFICES ASSUME ntype = "Frobenius", Content(S) = EmptyBag PROVE ZeroShare
      OBVIOUS
    <3>1. c \in frb_nmin(m) .. frb_nmax(m)
      BY <1>2, <1>4, <1>12
    <3>2. Content(Share(m, Turn(from(m), upto(m), Across, c % Q))) = EmptyBag
      BY <1>4
    <3> HIDE DEF c
    <3> QED BY <1>1, <3>1, <3>2, frb_ShareOfZeros
  <2> HIDE DEF S, w
  <2>3. S \cap SharesUpTo(m, n - 1) = {} /\ S \cup SharesUpTo(m, n - 1) = SharesUpTo(m, n)
    BY <1>5
  <2>4. Holds(Add(w, A), Content(S \cup SharesUpTo(m, n - 1)))
    BY <1>6, <1>7, <1>12, <2>2, <2>3, AddHolds
  <2> QED BY <1>9, <2>1, <2>3, <2>4
<1> QED BY <1>10, <1>11, <1>12

\* The last task of STEP2 has the row.
LEMMA frb_WholeLine ==
  ASSUME CallOK, Rowwise, NEW m \in 0 .. MT-1
  PROVE  SharesUpTo(m, Q - 1) = Line(m)
<1>1. /\ from(m) = frb_nmin(m) /\ upto(m) = frb_nmax(m) /\ Across = Q
      /\ frb_nmin(m) \in Nat /\ frb_nmax(m) \in Nat /\ Q \in Nat \ {0}
      /\ \A n : <<m, n>> \in Line(m) <=> n \in frb_nmin(m) .. frb_nmax(m)
      /\ \A x \in Line(m) : x = <<m, x[2]>>
      /\ \A n : Along(<<m, n>>) = n
  BY frb_Ranges
<1>2. 0 \in 0 .. Across-1 /\ upto(m) \in Int
  BY <1>1
<1>3. SharesUpTo(m, Across - 1) = Share(m, from(m) .. upto(m))
  BY <1>1, <1>2, SharesUpToStep
<1>4. Share(m, frb_nmin(m) .. frb_nmax(m)) = Line(m)
  BY <1>1 DEF Share
<1> QED BY <1>1, <1>3, <1>4

\* STEP3 takes the maximum over the rows of a grid row.
LEMMA frb_STEP3 ==
  ASSUME CallOK, Rowwise, NEW m, NEW n, <<m, n>> \in frb_Space("STEP3"),
         NEW W, NEW A, Fed(frb_Expects("STEP3", m, n), W, A)
  PROVE  Holds(frb_Body("STEP3", m, n, W, A), Val(<<"STEP3", m, n>>))
<1>1. m \in 0 .. MT-1
  BY DEF frb_Space
<1>2. m \in Lines /\ Stride = P /\ ~Columnwise
  BY <1>1, frb_Ranges DEF Rowwise
<1>3. Holds(A, Content(Line(m)))
  <2>1. <<"A", <<"STEP2", m, Q-1>>>> \in frb_Expects("STEP3", m, n)
    BY DEF frb_Expects
  <2>2. Holds(A, Val(<<"STEP2", m, Q-1>>))
    BY <2>1 DEF Fed
  <2> QED BY <1>1, <2>2, frb_Values, frb_WholeLine
<1>4. m < MT-P => Holds(W, Reduced(LinesFrom(m + P)))
  <2> SUFFICES ASSUME m < MT-P PROVE Holds(W, Reduced(LinesFrom(m + P)))
    OBVIOUS
  <2>1. <<"W", <<"STEP3", m+P, n>>>> \in frb_Expects("STEP3", m, n)
    BY DEF frb_Expects
  <2>2. Holds(W, Val(<<"STEP3", m+P, n>>))
    BY <2>1 DEF Fed
  <2> QED BY <2>2, frb_Values
<1>5. frb_Body("STEP3", m, n, W, A) =
        IF m < MT-P THEN Larger(W, Largest(A))
        ELSE IF ntype = "Frobenius" THEN Larger(NoMaximum, A) ELSE Largest(A)
  BY DEF frb_Body
<1>6. PICK last : last = MT-P
  OBVIOUS
<1>7. /\ m < last => Holds(Larger(W, Largest(A)), Reduced(LinesFrom(m)))
      /\ ~(m < last) /\ ntype = "Frobenius" => Holds(Larger(NoMaximum, A), Reduced(LinesFrom(m)))
      /\ ~(m < last) /\ ntype # "Frobenius" => Holds(Largest(A), Reduced(LinesFrom(m)))
  BY <1>2, <1>3, <1>4, <1>6, STEP3Holds
<1>8. Val(<<"STEP3", m, n>>) = Reduced(LinesFrom(m))
  BY frb_Values
<1> QED BY <1>5, <1>6, <1>7, <1>8

\* STEP4 takes the maximum over the grid rows.
LEMMA frb_STEP4 ==
  ASSUME CallOK, Rowwise, NEW m, NEW n, <<m, n>> \in frb_Space("STEP4"),
         NEW W, NEW A, Fed(frb_Expects("STEP4", m, n), W, A)
  PROVE  Holds(frb_Body("STEP4", m, n, W, A), Val(<<"STEP4", m, n>>))
<1>1. m \in 0 .. P-1
  BY DEF frb_Space
<1>2. Stride = P /\ ~Columnwise
  BY DEF Rowwise, Stride
<1>3. m <= MT-1 => Holds(W, Reduced(LinesFrom(m)))
  <2> SUFFICES ASSUME m <= MT-1 PROVE Holds(W, Reduced(LinesFrom(m)))
    OBVIOUS
  <2>1. <<"W", <<"STEP3", m, n>>>> \in frb_Expects("STEP4", m, n)
    BY DEF frb_Expects
  <2>2. Holds(W, Val(<<"STEP3", m, n>>))
    BY <2>1 DEF Fed
  <2> QED BY <2>2, frb_Values
<1>4. m # 0 => Holds(A, Reduced(LinesUpTo(m - 1)))
  <2> SUFFICES ASSUME m # 0 PROVE Holds(A, Reduced(LinesUpTo(m - 1)))
    OBVIOUS
  <2>1. <<"A", <<"STEP4", m-1, n>>>> \in frb_Expects("STEP4", m, n)
    BY DEF frb_Expects
  <2>2. Holds(A, Val(<<"STEP4", m-1, n>>))
    BY <2>1 DEF Fed
  <2> QED BY <2>2, frb_Values
<1>5. frb_Body("STEP4", m, n, W, A) = IF m = 0 THEN W ELSE Larger(IF m > MT-1 THEN NoMaximum ELSE W, A)
  BY DEF frb_Body
<1>6. PICK L : L = MT
  OBVIOUS
<1>7. /\ m = 0 => Holds(W, Reduced(LinesUpTo(m)))
      /\ m # 0 => Holds(Larger(IF m > L-1 THEN NoMaximum ELSE W, A), Reduced(LinesUpTo(m)))
  BY <1>1, <1>2, <1>3, <1>4, <1>6, STEP4Holds
<1>8. Val(<<"STEP4", m, n>>) = Reduced(LinesUpTo(m))
  BY frb_Values
<1> QED BY <1>5, <1>6, <1>7, <1>8

\* WRITE_RES writes the maximum over all rows.
LEMMA frb_WRITE_RES ==
  ASSUME CallOK, Rowwise, NEW m, NEW n,
         NEW W, NEW A, Fed(frb_Expects("WRITE_RES", m, n), W, A)
  PROVE  Holds(frb_Body("WRITE_RES", m, n, W, A), Val(<<"WRITE_RES", m, n>>))
<1>1. <<"W", <<"STEP4", P-1, n>>>> \in frb_Expects("WRITE_RES", m, n)
  BY DEF frb_Expects
<1>2. Holds(W, Val(<<"STEP4", P-1, n>>))
  BY <1>1 DEF Fed
<1>3. LinesUpTo(P - 1) = Lines
  BY AllLines DEF Stride, Rowwise
<1>4. frb_Body("WRITE_RES", m, n, W, A) = W
  BY DEF frb_Body
<1> QED BY <1>2, <1>3, <1>4, frb_Values

-----------------------------------------------------------------------------
(* zlange_one_cyclic: the same along columns.                              *)
\* The lines of the graph, and the tiles on them.
LEMMA one_Ranges ==
  ASSUME CallOK, Columnwise, NEW n \in 0 .. NT-1
  PROVE  /\ n \in Lines /\ n \in Nat
         /\ from(n) = one_mmin(n) /\ upto(n) = one_mmax(n) /\ Across = P /\ Stride = Q
         /\ one_mmin(n) \in Nat /\ one_mmax(n) \in Nat /\ one_mmin(n) <= one_mmax(n)
         /\ Q \in Nat \ {0} /\ P \in Nat \ {0}
         /\ \A m : <<m, n>> \in Positions <=> m \in one_mmin(n) .. one_mmax(n)
         /\ \A m : <<m, n>> \in Line(n) <=> m \in one_mmin(n) .. one_mmax(n)
         /\ \A x \in Line(n) : x = <<x[1], n>>
         /\ \A m : Along(<<m, n>>) = m
<1>1. /\ call.mt \in Numbers /\ call.nt \in Numbers /\ MT \in Numbers /\ NT \in Numbers
      /\ MT <= call.mt /\ NT <= call.nt
      /\ ~Symmetric /\ Columnwise
      /\ uplo = "UpperLower" \/ uplo = "Upper" \/ uplo = "Lower"
      /\ uplo = "Upper" => NT = call.nt /\ MT <= NT /\ (MT = NT \/ MT = call.mt)
      /\ uplo = "Lower" => MT = call.mt /\ NT <= MT
      /\ uplo = "UpperLower" => MT = call.mt
  BY Triangle DEF CallOK, Columnwise
<1>2. from(n) = one_mmin(n) /\ upto(n) = one_mmax(n) /\ Across = P /\ Stride = Q
  BY <1>1 DEF from, upto, Across, Stride
<1>3. /\ one_mmin(n) = IF uplo = "Lower" THEN n ELSE 0
      /\ one_mmax(n) = IF uplo = "Upper" THEN IF n <= MT-1 THEN n ELSE MT-1 ELSE MT-1
  BY DEF one_mmin, one_mmax, imin
<1>4. Positions = Stored
  BY <1>1 DEF Positions
<1>5. ASSUME NEW m PROVE <<m, n>> \in Stored <=> m \in one_mmin(n) .. one_mmax(n)
  <2>1. <<m, n>> \in Stored <=>
          /\ m \in 0 .. call.mt-1 /\ n \in 0 .. call.nt-1
          /\ uplo = "Upper" => m <= n
          /\ uplo = "Lower" => m >= n
    BY StoredIs DEF Rows, Columns
  <2>2. CASE uplo = "Upper"
    BY <1>1, <1>3, <2>1, <2>2 DEF Numbers
  <2>3. CASE uplo = "Lower"
    BY <1>1, <1>3, <2>1, <2>3 DEF Numbers
  <2>4. CASE uplo = "UpperLower"
    BY <1>1, <1>3, <2>1, <2>4 DEF Numbers
  <2> QED BY <1>1, <2>2, <2>3, <2>4
<1>6. \A m : <<m, n>> \in Line(n) <=> <<m, n>> \in Stored
  BY <1>1, <1>4 DEF Line, LineOf
<1>7. \A x \in Line(n) : x = <<x[1], n>>
  <2> TAKE x \in Line(n)
  <2>1. x \in Positions /\ x[2] = n
    BY <1>1 DEF Line, LineOf
  <2> QED BY <2>1, PairsAre
<1>8. \A m : Along(<<m, n>>) = m
  BY <1>1 DEF Along
<1>9. /\ n \in Lines /\ n \in Nat
      /\ one_mmin(n) \in Nat /\ one_mmax(n) \in Nat /\ one_mmin(n) <= one_mmax(n)
      /\ Q \in Nat \ {0} /\ P \in Nat \ {0}
  BY <1>1, <1>3 DEF Lines, Numbers, CallOK
<1> QED BY <1>2, <1>4, <1>5, <1>6, <1>7, <1>8, <1>9

\* The tasks of the first step are the positions.
LEMMA FirstSpaces ==
  ASSUME CallOK
  PROVE  /\ Rowwise => frb_Space("STEP1") = Positions
         /\ Columnwise => one_Space("STEP1") = Positions
         /\ Symmetric => sy_Space("STEP1") = Positions
<1> DEFINE S == {x \in (0 .. MT-1) \X (0 .. NT-1) : x[2] \in frb_nmin(x[1]) .. frb_nmax(x[1])}
<1>1. ~Symmetric => S = Positions
  <2> SUFFICES ASSUME ~Symmetric PROVE S = Positions
    OBVIOUS
  <2>1. /\ call.mt \in Numbers /\ call.nt \in Numbers /\ MT \in Numbers /\ NT \in Numbers
        /\ MT <= call.mt /\ NT <= call.nt
        /\ uplo = "UpperLower" \/ uplo = "Upper" \/ uplo = "Lower"
        /\ uplo = "Upper" => NT = call.nt /\ MT <= NT
        /\ uplo = "Lower" => MT = call.mt /\ NT <= MT
    BY Triangle DEF CallOK
  <2>2. \A m : /\ frb_nmin(m) = IF uplo = "Upper" THEN m ELSE 0
               /\ frb_nmax(m) = IF uplo = "Lower" THEN IF m <= NT-1 THEN m ELSE NT-1 ELSE NT-1
    BY DEF frb_nmin, frb_nmax, imin
  <2>3. Positions = Stored
    BY DEF Positions
  <2>4. ASSUME NEW x \in S PROVE x \in Positions
    <3>1. x = <<x[1], x[2]>> /\ x[1] \in 0 .. MT-1 /\ x[2] \in 0 .. NT-1
          /\ x[2] \in frb_nmin(x[1]) .. frb_nmax(x[1])
      OBVIOUS
    <3>2. x \in Rows \X Columns
      BY <2>1, <3>1 DEF Rows, Columns, Numbers
    <3>3. CASE uplo = "Upper"
      BY <2>1, <2>2, <2>3, <3>1, <3>2, <3>3, StoredIs DEF Numbers
    <3>4. CASE uplo = "Lower"
      BY <2>1, <2>2, <2>3, <3>1, <3>2, <3>4, StoredIs DEF Numbers
    <3>5. CASE uplo = "UpperLower"
      BY <2>1, <2>2, <2>3, <3>1, <3>2, <3>5, StoredIs DEF Numbers
    <3> QED BY <2>1, <3>3, <3>4, <3>5
  <2>5. ASSUME NEW x \in Positions PROVE x \in S
    <3>1. x = <<x[1], x[2]>> /\ x[1] \in 0 .. MT-1 /\ x[2] \in 0 .. NT-1
      BY PairsAre
    <3>2. (uplo = "Upper" => x[1] <= x[2]) /\ (uplo = "Lower" => x[1] >= x[2])
      BY <2>3, StoredIs
    <3>3. x[2] \in frb_nmin(x[1]) .. frb_nmax(x[1])
      BY <2>1, <2>2, <3>1, <3>2 DEF Numbers
    <3> QED BY <3>1, <3>3
  <2> QED BY <2>4, <2>5
<1>2. frb_Space("STEP1") = S
  BY DEF frb_Space
<1>3. one_Space("STEP1") = S
  BY DEF one_Space, one_nmin, one_nmax, frb_nmin, frb_nmax
<1>4. Symmetric => sy_Space("STEP1") = Positions
  BY Triangle DEF sy_Space, Positions, Rows, Columns
<1> HIDE DEF S
<1> QED BY <1>1, <1>2, <1>3, <1>4 DEF Rowwise, Columnwise

\* The second index of a task names its line, the first the place on it.
LEMMA one_Keys ==
  ASSUME Columnwise, NEW s, NEW m, NEW n
  PROVE  key(<<s, m, n>>) = n /\ pos(<<s, m, n>>) = m
  BY DEF key, pos

\* What the tasks hold.
LEMMA one_Values ==
  ASSUME Columnwise, NEW m, NEW n
  PROVE  /\ Val(<<"STEP1", m, n>>) = Content(ChainOf(n, m))
         /\ Val(<<"STEP2", m, n>>) = Content(SharesUpTo(n, m))
         /\ Val(<<"STEP3", m, n>>) = Reduced(LinesFrom(n))
         /\ Val(<<"STEP4", m, n>>) = Reduced(LinesUpTo(n))
         /\ Val(<<"WRITE_RES", m, n>>) = Reduced(Lines)
<1>1. ~Symmetric
  BY DEF Columnwise
<1> QED BY <1>1, one_Keys DEF Val, Part, Span

\* STEP1 adds its tile to the chain that a process owns in a column.
LEMMA one_STEP1 ==
  ASSUME CallOK, Columnwise, NEW m, NEW n, <<m, n>> \in one_Space("STEP1"),
         NEW W, NEW A, Fed(one_Expects("STEP1", m, n), W, A)
  PROVE  Holds(one_Body("STEP1", m, n, W, A), Val(<<"STEP1", m, n>>))
<1>1. n \in 0 .. NT-1 /\ m \in one_mmin(n) .. one_mmax(n)
  <2>1. <<m, n>> \in Positions
    BY FirstSpaces
  <2>2. n \in 0 .. NT-1
    BY <2>1, PairsAre
  <2> QED BY <2>1, <2>2, one_Ranges
<1>2. /\ from(n) = one_mmin(n) /\ upto(n) = one_mmax(n) /\ Across = P
      /\ one_mmin(n) \in Nat /\ one_mmax(n) \in Nat /\ P \in Nat \ {0} /\ m \in Nat
      /\ <<m, n>> \in Positions /\ <<m, n>> \in Line(n)
      /\ \A x \in Line(n) : x = <<x[1], n>>
      /\ \A c : Along(<<c, n>>) = c
  BY <1>1, one_Ranges
<1> DEFINE b == one_mmax(n)
           D == ChainOf(n, m + P)
           w == IF m > b-P THEN Nothing ELSE W
<1>3. Share(n, {m}) = {<<m, n>>}
  BY <1>2 DEF Share
<1>4. /\ ChainOf(n, m) = {<<m, n>>} \cup D
      /\ <<m, n>> \notin D
      /\ m + P > b => D = {}
  BY <1>1, <1>2, <1>3, ChainOfStep
<1>5. Holds(w, Content(D))
  <2>1. CASE m > b-P
    <3>1. m + P > b
      BY <1>2, <2>1
    <3> HIDE DEF D
    <3> QED BY <1>4, <2>1, <3>1, NothingHolds
  <2>2. CASE ~(m > b-P)
    <3>1. m < b+1-P
      BY <1>2, <2>2
    <3>2. <<"W", <<"STEP1", m+P, n>>>> \in one_Expects("STEP1", m, n)
      BY <3>1 DEF one_Expects
    <3>3. Holds(W, Val(<<"STEP1", m+P, n>>))
      BY <3>2 DEF Fed
    <3> QED BY <2>2, <3>3, one_Values
  <2> QED BY <2>1, <2>2
<1>6. one_Body("STEP1", m, n, W, A) = AddTile(w, m, n)
  BY DEF one_Body
<1>7. at(<<m, n>>) = <<m, n>>
  BY DEF at, Columnwise
<1> HIDE DEF w, D
<1>8. Holds(AddTile(w, at(<<m, n>>)[1], at(<<m, n>>)[2]), Content({<<m, n>>} \cup D))
  BY <1>2, <1>4, <1>5, AddTileHolds
<1>9. Holds(AddTile(w, m, n), Content({<<m, n>>} \cup D))
  BY <1>7, <1>8
<1> QED BY <1>4, <1>6, <1>9, one_Values

\* STEP2 adds the shares of a column, process by process.
LEMMA one_STEP2 ==
  ASSUME CallOK, Columnwise, NEW m, NEW n, <<m, n>> \in one_Space("STEP2"),
         NEW W, NEW A, Fed(one_Expects("STEP2", m, n), W, A)
  PROVE  Holds(one_Body("STEP2", m, n, W, A), Val(<<"STEP2", m, n>>))
<1>1. n \in 0 .. NT-1 /\ m \in 0 .. P-1
  BY DEF one_Space
<1> DEFINE c == one_row(m, n)
           b == one_mmax(n)
           T == Turn(from(n), upto(n), Across, m)
           S == Share(n, T)
           w == IF c > b THEN Nothing ELSE W
<1>2. /\ from(n) = one_mmin(n) /\ upto(n) = b /\ Across = P
      /\ one_mmin(n) \in Nat /\ b \in Nat /\ P \in Nat \ {0} /\ n \in Nat /\ m \in Nat
  BY <1>1, one_Ranges
<1>3. c = IF m >= from(n) % Across THEN from(n) + m - (from(n) % Across)
          ELSE from(n) + m + Across - (from(n) % Across)
  <2>1. CASE uplo = "Lower"
    BY <1>2, <2>1 DEF one_row, one_mmin
  <2>2. CASE uplo # "Lower"
    <3>1. c = m /\ from(n) = 0
      BY <1>2, <2>2 DEF one_row, one_mmin
    <3>2. 0 % P = 0
      BY <1>2, OwnRemainder
    <3> QED BY <1>2, <3>1, <3>2
  <2> QED BY <2>1, <2>2
<1>4. /\ c \in Nat /\ c >= one_mmin(n) /\ c % P = m
      /\ c <= b => S = ChainOf(n, c)
      /\ c > b => S = {}
  <2> HIDE DEF c, b
  <2>1. m \in 0 .. Across-1
    BY <1>1, <1>2
  <2>2. ShareStartsAt(n, m, c)
    BY <1>2, <1>3, <2>1, ShareOfProcess
  <2> QED BY <1>2, <2>2 DEF ShareStartsAt
<1>5. /\ SharesUpTo(n, m) = SharesUpTo(n, m - 1) \cup S
      /\ SharesUpTo(n, m - 1) \cap S = {}
      /\ m = 0 => SharesUpTo(n, m - 1) = {}
  <2> HIDE DEF b
  <2>1. from(n) \in Nat /\ upto(n) \in Int /\ Across \in Nat \ {0} /\ m \in 0 .. Across-1
    BY <1>1, <1>2
  <2>2. SharesUpTo(n, m) = SharesUpTo(n, m - 1) \cup S
    BY <2>1, SharesUpToStep
  <2>3. SharesUpTo(n, m - 1) \cap S = {}
    BY <2>1, SharesUpToStep
  <2>4. m = 0 => SharesUpTo(n, m - 1) = {}
    BY <2>1, SharesUpToStep
  <2> QED BY <2>2, <2>3, <2>4
<1>6. Holds(w, Content(S))
  <2>1. CASE c > b
    BY <1>4, <2>1, NothingHolds
  <2>2. CASE ~(c > b)
    <3>1. c <= b
      BY <1>2, <1>4, <2>2
    <3>2. <<"W", <<"STEP1", c, n>>>> \in one_Expects("STEP2", m, n)
      BY <3>1 DEF one_Expects
    <3>3. Holds(W, Val(<<"STEP1", c, n>>))
      BY <3>2 DEF Fed
    <3> QED BY <1>4, <2>2, <3>1, <3>3, one_Values
  <2> QED BY <2>1, <2>2
<1>7. m # 0 => Holds(A, Content(SharesUpTo(n, m - 1)))
  <2> SUFFICES ASSUME m # 0 PROVE Holds(A, Content(SharesUpTo(n, m - 1)))
    OBVIOUS
  <2>1. <<"A", <<"STEP2", m-1, n>>>> \in one_Expects("STEP2", m, n)
    BY DEF one_Expects
  <2>2. Holds(A, Val(<<"STEP2", m-1, n>>))
    BY <2>1 DEF Fed
  <2> QED BY <2>2, one_Values
<1>8. one_Body("STEP2", m, n, W, A) = IF m > 0 THEN Add(w, A) ELSE w
  BY DEF one_Body
<1>9. Val(<<"STEP2", m, n>>) = Content(SharesUpTo(n, m))
  BY one_Values
<1> HIDE DEF S, w
<1>10. CASE m = 0
  <2>1. one_Body("STEP2", m, n, W, A) = w
    BY <1>8, <1>10
  <2>2. SharesUpTo(n, m) = S
    BY <1>5, <1>10
  <2> QED BY <1>6, <1>9, <2>1, <2>2
<1>11. CASE m # 0
  <2>1. one_Body("STEP2", m, n, W, A) = Add(w, A)
    BY <1>2, <1>8, <1>11
  <2>2. ntype # "Frobenius"
    BY DEF Columnwise
  <2>3. S \cap SharesUpTo(n, m - 1) = {} /\ S \cup SharesUpTo(n, m - 1) = SharesUpTo(n, m)
    BY <1>5
  <2>4. Holds(Add(w, A), Content(S \cup SharesUpTo(n, m - 1)))
    BY <1>6, <1>7, <1>11, <2>2, <2>3, AddHolds
  <2> QED BY <1>9, <2>1, <2>3, <2>4
<1> QED BY <1>10, <1>11

\* The last task of STEP2 has the column.
LEMMA one_WholeLine ==
  ASSUME CallOK, Columnwise, NEW n \in 0 .. NT-1
  PROVE  SharesUpTo(n, P - 1) = Line(n)
<1>1. /\ from(n) = one_mmin(n) /\ upto(n) = one_mmax(n) /\ Across = P
      /\ one_mmin(n) \in Nat /\ one_mmax(n) \in Nat /\ P \in Nat \ {0}
      /\ \A m : <<m, n>> \in Line(n) <=> m \in one_mmin(n) .. one_mmax(n)
      /\ \A x \in Line(n) : x = <<x[1], n>>
      /\ \A m : Along(<<m, n>>) = m
  BY one_Ranges
<1>2. 0 \in 0 .. Across-1 /\ upto(n) \in Int
  BY <1>1
<1>3. SharesUpTo(n, Across - 1) = Share(n, from(n) .. upto(n))
  BY <1>1, <1>2, SharesUpToStep
<1>4. Share(n, one_mmin(n) .. one_mmax(n)) = Line(n)
  BY <1>1 DEF Share
<1> QED BY <1>1, <1>3, <1>4

\* STEP3 takes the maximum over the columns of a grid column.
LEMMA one_STEP3 ==
  ASSUME CallOK, Columnwise, NEW m, NEW n, <<m, n>> \in one_Space("STEP3"),
         NEW W, NEW A, Fed(one_Expects("STEP3", m, n), W, A)
  PROVE  Holds(one_Body("STEP3", m, n, W, A), Val(<<"STEP3", m, n>>))
<1>1. n \in 0 .. NT-1
  BY DEF one_Space
<1>2. n \in Lines /\ Stride = Q /\ ntype # "Frobenius"
  BY <1>1, one_Ranges DEF Columnwise
<1>3. Holds(A, Content(Line(n)))
  <2>1. <<"A", <<"STEP2", P-1, n>>>> \in one_Expects("STEP3", m, n)
    BY DEF one_Expects
  <2>2. Holds(A, Val(<<"STEP2", P-1, n>>))
    BY <2>1 DEF Fed
  <2> QED BY <1>1, <2>2, one_Values, one_WholeLine
<1>4. n < NT-Q => Holds(W, Reduced(LinesFrom(n + Q)))
  <2> SUFFICES ASSUME n < NT-Q PROVE Holds(W, Reduced(LinesFrom(n + Q)))
    OBVIOUS
  <2>1. <<"W", <<"STEP3", m, n+Q>>>> \in one_Expects("STEP3", m, n)
    BY DEF one_Expects
  <2>2. Holds(W, Val(<<"STEP3", m, n+Q>>))
    BY <2>1 DEF Fed
  <2> QED BY <2>2, one_Values
<1>5. one_Body("STEP3", m, n, W, A) =
        IF n < NT-Q THEN Larger(W, Largest(A)) ELSE Largest(A)
  BY DEF one_Body
<1>6. PICK last : last = NT-Q
  OBVIOUS
<1>7. /\ n < last => Holds(Larger(W, Largest(A)), Reduced(LinesFrom(n)))
      /\ ~(n < last) => Holds(Largest(A), Reduced(LinesFrom(n)))
  BY <1>2, <1>3, <1>4, <1>6, STEP3Holds
<1>8. Val(<<"STEP3", m, n>>) = Reduced(LinesFrom(n))
  BY one_Values
<1> QED BY <1>5, <1>6, <1>7, <1>8

\* STEP4 takes the maximum over the grid columns.
LEMMA one_STEP4 ==
  ASSUME CallOK, Columnwise, NEW m, NEW n, <<m, n>> \in one_Space("STEP4"),
         NEW W, NEW A, Fed(one_Expects("STEP4", m, n), W, A)
  PROVE  Holds(one_Body("STEP4", m, n, W, A), Val(<<"STEP4", m, n>>))
<1>1. n \in 0 .. Q-1
  BY DEF one_Space
<1>2. Stride = Q
  BY DEF Stride
<1>3. n <= NT-1 => Holds(W, Reduced(LinesFrom(n)))
  <2> SUFFICES ASSUME n <= NT-1 PROVE Holds(W, Reduced(LinesFrom(n)))
    OBVIOUS
  <2>1. <<"W", <<"STEP3", m, n>>>> \in one_Expects("STEP4", m, n)
    BY DEF one_Expects
  <2>2. Holds(W, Val(<<"STEP3", m, n>>))
    BY <2>1 DEF Fed
  <2> QED BY <2>2, one_Values
<1>4. n # 0 => Holds(A, Reduced(LinesUpTo(n - 1)))
  <2> SUFFICES ASSUME n # 0 PROVE Holds(A, Reduced(LinesUpTo(n - 1)))
    OBVIOUS
  <2>1. <<"A", <<"STEP4", m, n-1>>>> \in one_Expects("STEP4", m, n)
    BY DEF one_Expects
  <2>2. Holds(A, Val(<<"STEP4", m, n-1>>))
    BY <2>1 DEF Fed
  <2> QED BY <2>2, one_Values
<1>5. one_Body("STEP4", m, n, W, A) = IF n = 0 THEN W ELSE Larger(IF n > NT-1 THEN NoMaximum ELSE W, A)
  <2>1. NT \in Numbers /\ Q \in Numbers
    BY Triangle DEF CallOK
  <2>2. n = 0 => ~(n > NT-1)
    BY <2>1 DEF Numbers
  <2>3. n # 0 <=> n > 0
    BY <1>1, <2>1 DEF Numbers
  <2> QED BY <2>2, <2>3 DEF one_Body
<1>6. PICK L : L = NT
  OBVIOUS
<1>7. /\ n = 0 => Holds(W, Reduced(LinesUpTo(n)))
      /\ n # 0 => Holds(Larger(IF n > L-1 THEN NoMaximum ELSE W, A), Reduced(LinesUpTo(n)))
  BY <1>1, <1>2, <1>3, <1>4, <1>6, STEP4Holds
<1>8. Val(<<"STEP4", m, n>>) = Reduced(LinesUpTo(n))
  BY one_Values
<1> QED BY <1>5, <1>6, <1>7, <1>8

\* WRITE_RES writes the maximum over all columns.
LEMMA one_WRITE_RES ==
  ASSUME CallOK, Columnwise, NEW m, NEW n,
         NEW W, NEW A, Fed(one_Expects("WRITE_RES", m, n), W, A)
  PROVE  Holds(one_Body("WRITE_RES", m, n, W, A), Val(<<"WRITE_RES", m, n>>))
<1>1. <<"W", <<"STEP4", m, Q-1>>>> \in one_Expects("WRITE_RES", m, n)
  BY DEF one_Expects
<1>2. Holds(W, Val(<<"STEP4", m, Q-1>>))
  BY <1>1 DEF Fed
<1>3. LinesUpTo(Q - 1) = Lines
  BY AllLines DEF Stride, Columnwise
<1>4. one_Body("WRITE_RES", m, n, W, A) = W
  BY DEF one_Body
<1> QED BY <1>2, <1>3, <1>4, one_Values

-----------------------------------------------------------------------------
(* The first and the last of some numbers.                                 *)
LEMMA LeastNumber ==
  ASSUME NEW S, S \subseteq Nat, S # {}
  PROVE  \E k \in S : \A j \in S : k <= j
<1> DEFINE F == {0 .. k : k \in S}
           R == StrictSubsetOrdering(Nat)
<1>1. F \subseteq FiniteSubsetsOf(Nat)
  <2> SUFFICES ASSUME NEW k \in S PROVE 0 .. k \in FiniteSubsetsOf(Nat)
    OBVIOUS
  <2>1. IsFiniteSet(0 .. k)
    BY FS_Interval
  <2> QED BY <2>1 DEF FiniteSubsetsOf
<1>2. F # {}
  OBVIOUS
<1>3. IsWellFoundedOn(R, FiniteSubsetsOf(Nat))
  BY FS_StrictSubsetOrderingWellFounded
<1>4. \E X \in F : \A Y \in F : ~(<<Y, X>> \in R)
  <2> HIDE DEF F, R
  <2> QED BY <1>1, <1>2, <1>3, WFMin
<1>5. PICK k \in S : \A j \in S : ~(<<0 .. j, 0 .. k>> \in R)
  BY <1>4
<1>6. ASSUME NEW j \in S, j < k PROVE FALSE
  <2>1. 0 .. j \subseteq 0 .. k /\ 0 .. j # 0 .. k /\ 0 .. j \subseteq Nat /\ 0 .. k \subseteq Nat
    BY <1>6
  <2>2. <<0 .. j, 0 .. k>> \in R
    BY <2>1 DEF StrictSubsetOrdering
  <2> QED BY <1>5, <2>2
<1> QED BY <1>5, <1>6

\* First is the least number of a set.
LEMMA FirstIs ==
  ASSUME NEW S, S \subseteq Nat, S # {}, NEW none
  PROVE  First(S, none) \in S /\ \A y \in S : First(S, none) <= y
<1>1. \E x \in S : \A y \in S : x <= y
  BY LeastNumber
<1> QED BY <1>1 DEF First

\* Last is the greatest number of a bounded set.
LEMMA LastIs ==
  ASSUME NEW h \in Nat, NEW S, S \subseteq 0 .. h, S # {}, NEW none
  PROVE  Last(S, none) \in S /\ \A y \in S : y <= Last(S, none)
<1> DEFINE T == {h - x : x \in S}
<1>1. T \subseteq Nat /\ T # {}
  OBVIOUS
<1>2. PICK k \in T : \A j \in T : k <= j
  <2> HIDE DEF T
  <2> QED BY <1>1, LeastNumber
<1>3. PICK x \in S : k = h - x
  BY <1>2
<1>4. ASSUME NEW y \in S PROVE y <= x
  <2>1. h - y \in T
    OBVIOUS
  <2>2. k <= h - y
    BY <1>2, <2>1
  <2>3. x \in 0 .. h /\ y \in 0 .. h
    OBVIOUS
  <2> QED BY <1>3, <2>2, <2>3
<1>5. \E z \in S : \A y \in S : y <= z
  BY <1>3, <1>4
<1> QED BY <1>5 DEF Last

-----------------------------------------------------------------------------
(* zlansy: the rows of a symmetric matrix.                                 *)
\* The P x Q processes are numbered row by row.
LEMMA RankBound ==
  ASSUME CallOK, NEW p \in 0 .. P - 1, NEW q \in 0 .. Q - 1
  PROVE  Q * p + q \in 0 .. P * Q - 1
<1>1. p \in Nat /\ q \in Nat /\ P \in Nat /\ Q \in Nat /\ p + 1 <= P
  BY DEF CallOK, Numbers
<1>2. (p + 1) * Q <= P * Q
  BY <1>1, Monotone
<1>3. (p + 1) * Q = p * Q + Q
  BY <1>1
<1>4. p * Q = Q * p /\ Q * p \in Nat /\ P * Q \in Nat
  BY <1>1
<1> QED BY <1>1, <1>2, <1>3, <1>4

\* The lines of the graph, and the processes along them.
LEMMA sy_Ranges ==
  ASSUME CallOK, Symmetric
  PROVE  /\ ~Columnwise /\ Across = Q /\ Stride = P /\ Lines = 0 .. MT-1
         /\ \A l : from(l) = 0 /\ upto(l) = P*Q-1
         /\ Q \in Nat \ {0} /\ P \in Nat \ {0} /\ P*Q \in Nat \ {0} /\ Q <= P*Q
         /\ MT \in Nat \ {0} /\ NT \in Nat \ {0} /\ NT = MT
         /\ Positions = (0 .. MT-1) \X (0 .. NT-1)
         /\ \A m \in 0 .. MT-1 : Line(m) = {<<m, n>> : n \in 0 .. NT-1}
         /\ \A x \in Positions : Along(x) = sy_rank(x[1], x[2]) /\ Along(x) \in 0 .. P*Q-1
<1>1. ~Columnwise /\ Across = Q /\ Stride = P /\ Lines = 0 .. MT-1
  BY DEF Columnwise, Across, Stride, Lines
<1>2. \A l : from(l) = 0 /\ upto(l) = P*Q-1
  BY DEF from, upto
<1>3. Q \in Nat \ {0} /\ P \in Nat \ {0}
  BY DEF CallOK, Numbers
<1>4. P*Q \in Nat \ {0} /\ Q <= P*Q
  <2>1. 1 * Q <= P * Q
    BY <1>3, Monotone
  <2> QED BY <1>3, <2>1
<1>5. /\ MT \in Nat \ {0} /\ NT \in Nat \ {0} /\ NT = MT
      /\ MT = call.mt /\ NT = call.nt
  BY Triangle DEF Numbers
<1>6. Positions = (0 .. MT-1) \X (0 .. NT-1)
  BY <1>5 DEF Positions, Rows, Columns
<1>7. ASSUME NEW m \in 0 .. MT-1 PROVE Line(m) = {<<m, n>> : n \in 0 .. NT-1}
  <2>1. Line(m) = {x \in (0 .. MT-1) \X (0 .. NT-1) : x[1] = m}
    BY <1>1, <1>6 DEF Line, LineOf
  <2> QED BY <2>1
<1>8. ASSUME NEW x \in Positions PROVE Along(x) = sy_rank(x[1], x[2]) /\ Along(x) \in 0 .. P*Q-1
  <2>1. Along(x) = sy_rank(x[1], x[2])
    BY DEF Along
  <2> DEFINE y == sy_at(x[1], x[2])
  <2>2. y = at(x)
    BY DEF at
  <2>3. y \in Stored
    BY <2>2, TileAt
  <2>4. y[1] \in Nat /\ y[2] \in Nat
    BY <2>3, PairsAre, StoredIs
  <2>5. sy_rank(x[1], x[2]) = Q * (y[1] % P) + (y[2] % Q)
    BY DEF sy_rank
  <2> HIDE DEF y
  <2>6. y[1] % P \in 0 .. P-1 /\ y[2] % Q \in 0 .. Q-1
    BY <1>3, <2>4, DivMod
  <2>7. Q * (y[1] % P) + (y[2] % Q) \in 0 .. P*Q-1
    BY <2>6, RankBound
  <2> QED BY <2>1, <2>5, <2>7
<1> QED BY <1>1, <1>2, <1>3, <1>4, <1>5, <1>6, <1>7, <1>8

\* What the tasks hold.
LEMMA sy_Values ==
  ASSUME Symmetric, NEW m, NEW n
  PROVE  /\ Val(<<"STEP1", m, n>>) = Content(RowChain(m, n))
         /\ Val(<<"STEP2", m, n>>) = Content(ChainOf(m, n))
         /\ Val(<<"STEP2BIS", m, n>>) = Content(SharesUpTo(m, n))
         /\ Val(<<"STEP3", m, n>>) = Reduced(LinesFrom(m))
         /\ Val(<<"STEP4", m, n>>) = Reduced(LinesUpTo(m))
         /\ Val(<<"WRITE_RES", m, n>>) = Reduced(Lines)
<1>1. ~Columnwise
  BY DEF Columnwise
<1> QED BY <1>1 DEF Val, Part, Span, key, pos

\* The tiles of a row that the process of tile (m, n) has, up to that tile.
LEMMA OwnedIs ==
  ASSUME CallOK, Symmetric, NEW m \in 0 .. MT-1, NEW r
  PROVE  /\ sy_owned(m, r) \subseteq 0 .. NT-1
         /\ \A n : n \in sy_owned(m, r) <=> n \in 0 .. NT-1 /\ <<m, n>> \in Share(m, {r})
<1>1. sy_owned(m, r) \subseteq 0 .. NT-1
  BY DEF sy_owned
<1>2. ASSUME NEW n \in 0 .. NT-1
      PROVE  <<m, n>> \in Share(m, {r}) <=> sy_rank(m, n) = r
  <2>1. <<m, n>> \in Line(m)
    BY sy_Ranges
  <2>2. Along(<<m, n>>) = sy_rank(m, n)
    BY DEF Along
  <2> QED BY <2>1, <2>2 DEF Share
<1> QED BY <1>1, <1>2 DEF sy_owned

\* Membership in a chain.
LEMMA RowChainIs ==
  ASSUME CallOK, Symmetric, NEW m \in 0 .. MT-1, NEW n, NEW k
  PROVE  <<m, k>> \in RowChain(m, n) <=> k \in 0 .. NT-1 /\ sy_rank(m, k) = sy_rank(m, n) /\ k <= n
<1>1. <<m, k>> \in Line(m) <=> k \in 0 .. NT-1
  BY sy_Ranges
<1>2. Along(<<m, k>>) = sy_rank(m, k)
  BY DEF Along
<1> QED BY <1>1, <1>2 DEF RowChain

\* A chain is its last tile and the chain up to the tile before it.
LEMMA RowChainStep ==
  ASSUME CallOK, Symmetric, NEW m \in 0 .. MT-1, NEW n \in 0 .. NT-1
  PROVE  /\ sy_prevn(m, n) + 1 > 0 =>
              /\ sy_prevn(m, n) \in 0 .. NT-1 /\ sy_prevn(m, n) < n
              /\ sy_rank(m, sy_prevn(m, n)) = sy_rank(m, n)
              /\ \A x \in sy_owned(m, sy_rank(m, n)) : x < n => x <= sy_prevn(m, n)
              /\ RowChain(m, n) = {<<m, n>>} \cup RowChain(m, sy_prevn(m, n))
              /\ <<m, n>> \notin RowChain(m, sy_prevn(m, n))
         /\ ~(sy_prevn(m, n) + 1 > 0) => RowChain(m, n) = {<<m, n>>}
         /\ ~(sy_prevn(m, n) + 1 > 0) => \A x \in sy_owned(m, sy_rank(m, n)) : ~(x < n)
<1> DEFINE S == {x \in sy_owned(m, sy_rank(m, n)) : x < n}
           p == sy_prevn(m, n)
<1>1. p = Last(S, -1)
  BY DEF sy_prevn
<1>2. NT \in Nat \ {0} /\ n \in Nat
  BY sy_Ranges
<1>3. S \subseteq 0 .. NT-1
  BY DEF sy_owned
<1>4. \A k : k \in S <=> k \in 0 .. NT-1 /\ sy_rank(m, k) = sy_rank(m, n) /\ k < n
  BY DEF sy_owned
<1>5. \A x \in RowChain(m, n) : x = <<m, x[2]>> /\ x[2] \in 0 .. NT-1
  BY sy_Ranges DEF RowChain
<1>6. \A k : <<m, k>> \in RowChain(m, n) <=> k \in 0 .. NT-1 /\ sy_rank(m, k) = sy_rank(m, n) /\ k <= n
  BY RowChainIs
<1>7. <<m, n>> \in RowChain(m, n)
  BY <1>2, <1>6
<1> HIDE DEF p, S
<1>8. CASE S = {}
  <2>1. p = -1
    BY <1>1, <1>8 DEF Last
  <2>2. \A x \in RowChain(m, n) : x[2] = n
    <3> TAKE x \in RowChain(m, n)
    <3>1. x = <<m, x[2]>> /\ x[2] \in 0 .. NT-1
      BY <1>5
    <3>2. sy_rank(m, x[2]) = sy_rank(m, n) /\ x[2] <= n
      BY <1>6, <3>1
    <3>3. ~(x[2] < n)
      BY <1>4, <1>8, <3>1, <3>2
    <3> QED BY <1>2, <3>1, <3>2, <3>3
  <2>3. RowChain(m, n) = {<<m, n>>}
    BY <1>5, <1>7, <2>2
  <2>4. ~(p + 1 > 0)
    BY <2>1
  <2> QED BY <1>8, <2>3, <2>4 DEF p, S
<1>9. CASE S # {}
  <2>0. NT-1 \in Nat
    BY <1>2
  <2>1. p \in S /\ \A y \in S : y <= p
    BY <1>1, <1>3, <1>9, <2>0, LastIs
  <2>2. p \in 0 .. NT-1 /\ sy_rank(m, p) = sy_rank(m, n) /\ p < n /\ p + 1 > 0
    BY <1>3, <1>4, <2>1
  <2>3. \A k : <<m, k>> \in RowChain(m, p) <=> k \in 0 .. NT-1 /\ sy_rank(m, k) = sy_rank(m, p) /\ k <= p
    BY RowChainIs
  <2>4. \A x \in RowChain(m, p) : x = <<m, x[2]>> /\ x[2] \in 0 .. NT-1
    BY sy_Ranges DEF RowChain
  <2>5. <<m, n>> \notin RowChain(m, p)
    BY <1>2, <2>2, <2>3
  <2>6. ASSUME NEW k \in 0 .. NT-1
        PROVE  <<m, k>> \in RowChain(m, n) <=> k = n \/ <<m, k>> \in RowChain(m, p)
    <3>1. k < n /\ sy_rank(m, k) = sy_rank(m, n) => k <= p
      BY <1>4, <2>1
    <3> QED BY <1>2, <1>6, <2>2, <2>3, <3>1
  <2>7. RowChain(m, n) = {<<m, n>>} \cup RowChain(m, p)
    BY <1>5, <1>7, <2>4, <2>6
  <2>8. \A x \in sy_owned(m, sy_rank(m, n)) : x < n => x <= p
    BY <2>1 DEF S
  <2> QED BY <2>2, <2>5, <2>7, <2>8 DEF p
<1> QED BY <1>8, <1>9

\* STEP1 adds its tile to the chain of the process that owns it.
LEMMA sy_STEP1 ==
  ASSUME CallOK, Symmetric, NEW m, NEW n, <<m, n>> \in sy_Space("STEP1"),
         NEW W, NEW A, Fed(sy_Expects("STEP1", m, n), W, A)
  PROVE  Holds(sy_Body("STEP1", m, n, W, A), Val(<<"STEP1", m, n>>))
<1>1. m \in 0 .. MT-1 /\ n \in 0 .. NT-1
  BY DEF sy_Space
<1>2. <<m, n>> \in Positions
  BY <1>1, sy_Ranges
<1> DEFINE p == sy_prevn(m, n)
           w == IF ~(p + 1 > 0) THEN Nothing ELSE W
           D == IF p + 1 > 0 THEN RowChain(m, p) ELSE {}
<1>3. /\ RowChain(m, n) = {<<m, n>>} \cup D
      /\ <<m, n>> \notin D
  BY <1>1, RowChainStep
<1>4. Holds(w, Content(D))
  <2>1. CASE p + 1 > 0
    <3>1. <<"W", <<"STEP1", m, p>>>> \in sy_Expects("STEP1", m, n)
      BY <2>1 DEF sy_Expects
    <3>2. Holds(W, Val(<<"STEP1", m, p>>))
      BY <3>1 DEF Fed
    <3> QED BY <2>1, <3>2, sy_Values
  <2>2. CASE ~(p + 1 > 0)
    BY <2>2, NothingHolds
  <2> QED BY <2>1, <2>2
<1>5. sy_Body("STEP1", m, n, W, A) = AddTile(w, sy_at(m, n)[1], sy_at(m, n)[2])
  BY DEF sy_Body
<1>6. at(<<m, n>>) = sy_at(m, n)
  BY DEF at
<1> HIDE DEF w, D
<1>7. Holds(AddTile(w, at(<<m, n>>)[1], at(<<m, n>>)[2]), Content({<<m, n>>} \cup D))
  BY <1>2, <1>3, <1>4, AddTileHolds
<1>8. Holds(AddTile(w, sy_at(m, n)[1], sy_at(m, n)[2]), Content({<<m, n>>} \cup D))
  BY <1>6, <1>7
<1> QED BY <1>3, <1>5, <1>8, sy_Values

\* The last tile that a process has in a row closes its chain.
LEMMA HadTile ==
  ASSUME CallOK, Symmetric, NEW m \in 0 .. MT-1, NEW r
  PROVE  LET h == sy_hadtile(m, r)
         IN  /\ h + 1 # 0 => /\ h \in 0 .. NT-1 /\ sy_rank(m, h) = r
                             /\ \A n \in sy_owned(m, r) : n <= h
                             /\ Share(m, {r}) = RowChain(m, h)
             /\ h + 1 = 0 => sy_owned(m, r) = {} /\ Share(m, {r}) = {}
<1> DEFINE h == sy_hadtile(m, r)
           S == sy_owned(m, r)
<1>1. h = Last(S, -1)
  BY DEF sy_hadtile
<1>2. NT \in Nat \ {0} /\ NT-1 \in Nat
  BY sy_Ranges
<1>3. /\ S \subseteq 0 .. NT-1
      /\ \A n : n \in S <=> n \in 0 .. NT-1 /\ <<m, n>> \in Share(m, {r})
  BY OwnedIs
<1>4. \A x \in Share(m, {r}) : x = <<m, x[2]>> /\ x[2] \in 0 .. NT-1
  BY sy_Ranges DEF Share
<1>5. \A n : n \in S <=> n \in 0 .. NT-1 /\ sy_rank(m, n) = r
  BY DEF sy_owned
<1> HIDE DEF h, S
<1>6. CASE S = {}
  <2>1. h = -1
    BY <1>1, <1>6 DEF Last
  <2>2. Share(m, {r}) = {}
    BY <1>3, <1>4, <1>6
  <2> QED BY <1>6, <2>1, <2>2 DEF h, S
<1>7. CASE S # {}
  <2>1. h \in S /\ \A n \in S : n <= h
    BY <1>1, <1>2, <1>3, <1>7, LastIs
  <2>2. h \in 0 .. NT-1 /\ sy_rank(m, h) = r /\ h + 1 # 0
    BY <1>3, <1>5, <2>1
  <2>3. \A k : <<m, k>> \in RowChain(m, h) <=> k \in 0 .. NT-1 /\ sy_rank(m, k) = sy_rank(m, h) /\ k <= h
    BY RowChainIs
  <2>4. \A x \in RowChain(m, h) : x = <<m, x[2]>> /\ x[2] \in 0 .. NT-1
    BY sy_Ranges DEF RowChain
  <2>5. \A k \in 0 .. NT-1 : <<m, k>> \in RowChain(m, h) <=> <<m, k>> \in Share(m, {r})
    BY <1>3, <1>5, <2>1, <2>2, <2>3
  <2>6. Share(m, {r}) = RowChain(m, h)
    <3>1. ASSUME NEW x \in Share(m, {r}) PROVE x \in RowChain(m, h)
      BY <1>4, <2>5
    <3>2. ASSUME NEW x \in RowChain(m, h) PROVE x \in Share(m, {r})
      BY <2>4, <2>5
    <3> QED BY <3>1, <3>2
  <2> QED BY <2>1, <2>2, <2>6 DEF h, S
<1> QED BY <1>6, <1>7

\* STEP2 adds the shares of the processes of one grid column.
LEMMA sy_STEP2 ==
  ASSUME CallOK, Symmetric, NEW m, NEW n, <<m, n>> \in sy_Space("STEP2"),
         NEW W, NEW A, Fed(sy_Expects("STEP2", m, n), W, A)
  PROVE  Holds(sy_Body("STEP2", m, n, W, A), Val(<<"STEP2", m, n>>))
<1>1. m \in 0 .. MT-1 /\ n \in 0 .. P*Q-1
  BY DEF sy_Space
<1>2. /\ Across = Q /\ Q \in Nat \ {0} /\ P*Q \in Nat \ {0}
      /\ from(m) = 0 /\ upto(m) = P*Q-1
  BY sy_Ranges
<1> DEFINE h == sy_hadtile(m, n)
           w == IF h + 1 = 0 THEN Nothing ELSE W
           S == Share(m, {n})
           D == ChainOf(m, n + Q)
<1>3. Holds(w, Content(S))
  <2>1. CASE h + 1 # 0
    <3>1. <<"W", <<"STEP1", m, h>>>> \in sy_Expects("STEP2", m, n)
      BY <2>1 DEF sy_Expects
    <3>2. Holds(W, Val(<<"STEP1", m, h>>))
      BY <3>1 DEF Fed
    <3>3. S = RowChain(m, h)
      BY <1>1, <2>1, HadTile
    <3> QED BY <2>1, <3>2, <3>3, sy_Values
  <2>2. CASE h + 1 = 0
    <3>1. S = {}
      BY <1>1, <2>2, HadTile
    <3> HIDE DEF S
    <3> QED BY <2>2, <3>1, NothingHolds
  <2> QED BY <2>1, <2>2
<1>4. ChainOf(m, n) = S \cup D /\ S \cap D = {} /\ (n + Q > P*Q-1 => D = {})
  <2>1. from(m) \in Nat /\ upto(m) \in Int /\ Across \in Nat \ {0} /\ n \in from(m) .. upto(m)
    BY <1>1, <1>2
  <2>2. ChainOf(m, n) = Share(m, {n}) \cup ChainOf(m, n + Across)
    BY <2>1, ChainOfStep
  <2>3. Share(m, {n}) \cap ChainOf(m, n + Across) = {}
    BY <2>1, ChainOfStep
  <2>4. n + Across > upto(m) => ChainOf(m, n + Across) = {}
    BY <2>1, ChainOfStep
  <2> QED BY <1>2, <2>2, <2>3, <2>4
<1>5. sy_Body("STEP2", m, n, W, A) = IF n+Q < P*Q THEN AddNonZero(w, A) ELSE w
  BY DEF sy_Body
<1>6. n+Q < P*Q => Holds(A, Content(D))
  <2> SUFFICES ASSUME n+Q < P*Q PROVE Holds(A, Content(D))
    OBVIOUS
  <2>1. <<"A", <<"STEP2", m, n+Q>>>> \in sy_Expects("STEP2", m, n)
    BY DEF sy_Expects
  <2>2. Holds(A, Val(<<"STEP2", m, n+Q>>))
    BY <2>1 DEF Fed
  <2> QED BY <2>2, sy_Values
<1> HIDE DEF w, S, D
<1>7. CASE n+Q < P*Q
  <2>1. Holds(AddNonZero(w, A), Content(S \cup D))
    BY <1>3, <1>4, <1>6, <1>7, AddNonZeroHolds
  <2> QED BY <1>4, <1>5, <1>7, <2>1, sy_Values
<1>8. CASE ~(n+Q < P*Q)
  <2>1. n + Q > P*Q-1
    BY <1>1, <1>2, <1>8
  <2>2. ChainOf(m, n) = S
    BY <1>4, <2>1
  <2> QED BY <1>3, <1>5, <1>8, <2>2, sy_Values
<1> QED BY <1>7, <1>8

\* STEP2BIS adds the grid columns.
LEMMA sy_STEP2BIS ==
  ASSUME CallOK, Symmetric, NEW m, NEW n, <<m, n>> \in sy_Space("STEP2BIS"),
         NEW W, NEW A, Fed(sy_Expects("STEP2BIS", m, n), W, A)
  PROVE  Holds(sy_Body("STEP2BIS", m, n, W, A), Val(<<"STEP2BIS", m, n>>))
<1>1. m \in 0 .. MT-1 /\ n \in 0 .. Q-1
  BY DEF sy_Space
<1>2. /\ Across = Q /\ Q \in Nat \ {0} /\ P*Q \in Nat \ {0} /\ Q <= P*Q
      /\ from(m) = 0 /\ upto(m) = P*Q-1
  BY sy_Ranges
<1> DEFINE S == ChainOf(m, n)
           D == SharesUpTo(m, n - 1)
<1>3. S = Share(m, Turn(from(m), upto(m), Across, n))
  <2>1. PICK b \in Int : b = P*Q-1
    BY <1>2
  <2>2. Turn(0, b, Q, n) = Chain(0, b, Q, n)
    BY <1>1, <1>2, TurnOfOwner
  <2> QED BY <1>2, <2>1, <2>2 DEF ChainOf
<1>4. SharesUpTo(m, n) = D \cup S /\ D \cap S = {} /\ (n = 0 => D = {})
  <2>1. from(m) \in Nat /\ upto(m) \in Int /\ Across \in Nat \ {0} /\ n \in 0 .. Across-1
    BY <1>1, <1>2
  <2> DEFINE T == Share(m, Turn(from(m), upto(m), Across, n))
  <2>2. SharesUpTo(m, n) = SharesUpTo(m, n - 1) \cup T
    BY <2>1, SharesUpToStep
  <2>3. SharesUpTo(m, n - 1) \cap T = {}
    BY <2>1, SharesUpToStep
  <2>4. n = 0 => SharesUpTo(m, n - 1) = {}
    BY <2>1, SharesUpToStep
  <2> QED BY <1>3, <2>2, <2>3, <2>4
<1>5. Holds(W, Content(S))
  <2>1. <<"W", <<"STEP2", m, n>>>> \in sy_Expects("STEP2BIS", m, n)
    BY DEF sy_Expects
  <2>2. Holds(W, Val(<<"STEP2", m, n>>))
    BY <2>1 DEF Fed
  <2> QED BY <2>2, sy_Values
<1>6. n # 0 => Holds(A, Content(D))
  <2> SUFFICES ASSUME n # 0 PROVE Holds(A, Content(D))
    OBVIOUS
  <2>1. <<"A", <<"STEP2BIS", m, n-1>>>> \in sy_Expects("STEP2BIS", m, n)
    BY DEF sy_Expects
  <2>2. Holds(A, Val(<<"STEP2BIS", m, n-1>>))
    BY <2>1 DEF Fed
  <2> QED BY <2>2, sy_Values
<1>7. sy_Body("STEP2BIS", m, n, W, A) = IF n > 0 THEN AddNonZero(W, A) ELSE W
  BY DEF sy_Body
<1> HIDE DEF S, D
<1>8. CASE n # 0
  <2>1. n > 0
    BY <1>1, <1>2, <1>8
  <2>2. S \cap D = {} /\ S \cup D = SharesUpTo(m, n)
    BY <1>4
  <2>3. Holds(AddNonZero(W, A), Content(S \cup D))
    BY <1>5, <1>6, <1>8, <2>2, AddNonZeroHolds
  <2> QED BY <1>7, <2>1, <2>2, <2>3, sy_Values
<1>9. CASE n = 0
  <2>1. SharesUpTo(m, n) = S
    BY <1>4, <1>9
  <2>2. sy_Body("STEP2BIS", m, n, W, A) = W
    BY <1>7, <1>9
  <2>3. Val(<<"STEP2BIS", m, n>>) = Content(S)
    BY <2>1, sy_Values
  <2> QED BY <1>5, <2>2, <2>3
<1> QED BY <1>8, <1>9

\* The last task of STEP2BIS has the row.
LEMMA sy_WholeLine ==
  ASSUME CallOK, Symmetric, NEW m \in 0 .. MT-1
  PROVE  SharesUpTo(m, Q - 1) = Line(m)
<1>1. /\ Across = Q /\ Q \in Nat \ {0} /\ P*Q \in Nat \ {0}
      /\ from(m) = 0 /\ upto(m) = P*Q-1
      /\ \A x \in Positions : Along(x) \in 0 .. P*Q-1
  BY sy_Ranges
<1>2. 0 \in 0 .. Across-1 /\ from(m) \in Nat /\ upto(m) \in Int /\ Across \in Nat \ {0}
  BY <1>1
<1>3. SharesUpTo(m, Across - 1) = Share(m, from(m) .. upto(m))
  BY <1>2, SharesUpToStep
<1>4. Share(m, 0 .. P*Q-1) = Line(m)
  BY <1>1 DEF Share, Line
<1> QED BY <1>1, <1>3, <1>4
\* STEP3 takes the maximum over the rows of a grid row.
LEMMA sy_STEP3 ==
  ASSUME CallOK, Symmetric, NEW m, NEW n, <<m, n>> \in sy_Space("STEP3"),
         NEW W, NEW A, Fed(sy_Expects("STEP3", m, n), W, A)
  PROVE  Holds(sy_Body("STEP3", m, n, W, A), Val(<<"STEP3", m, n>>))
<1>1. m \in 0 .. MT-1
  BY DEF sy_Space
<1>2. m \in Lines /\ Stride = P /\ ~Columnwise
  BY <1>1, sy_Ranges
<1>3. Holds(A, Content(Line(m)))
  <2>1. <<"A", <<"STEP2BIS", m, Q-1>>>> \in sy_Expects("STEP3", m, n)
    BY DEF sy_Expects
  <2>2. Holds(A, Val(<<"STEP2BIS", m, Q-1>>))
    BY <2>1 DEF Fed
  <2> QED BY <1>1, <2>2, sy_Values, sy_WholeLine
<1>4. m < MT-P => Holds(W, Reduced(LinesFrom(m + P)))
  <2> SUFFICES ASSUME m < MT-P PROVE Holds(W, Reduced(LinesFrom(m + P)))
    OBVIOUS
  <2>1. <<"W", <<"STEP3", m+P, n>>>> \in sy_Expects("STEP3", m, n)
    BY DEF sy_Expects
  <2>2. Holds(W, Val(<<"STEP3", m+P, n>>))
    BY <2>1 DEF Fed
  <2> QED BY <2>2, sy_Values
<1>5. sy_Body("STEP3", m, n, W, A) =
        IF m < MT-P THEN Larger(W, Largest(A))
        ELSE IF ntype = "Frobenius" THEN Larger(NoMaximum, A) ELSE Largest(A)
  BY DEF sy_Body
<1>6. PICK last : last = MT-P
  OBVIOUS
<1>7. /\ m < last => Holds(Larger(W, Largest(A)), Reduced(LinesFrom(m)))
      /\ ~(m < last) /\ ntype = "Frobenius" => Holds(Larger(NoMaximum, A), Reduced(LinesFrom(m)))
      /\ ~(m < last) /\ ntype # "Frobenius" => Holds(Largest(A), Reduced(LinesFrom(m)))
  BY <1>2, <1>3, <1>4, <1>6, STEP3Holds
<1>8. Val(<<"STEP3", m, n>>) = Reduced(LinesFrom(m))
  BY sy_Values
<1> QED BY <1>5, <1>6, <1>7, <1>8

\* STEP4 takes the maximum over the grid rows.
LEMMA sy_STEP4 ==
  ASSUME CallOK, Symmetric, NEW m, NEW n, <<m, n>> \in sy_Space("STEP4"),
         NEW W, NEW A, Fed(sy_Expects("STEP4", m, n), W, A)
  PROVE  Holds(sy_Body("STEP4", m, n, W, A), Val(<<"STEP4", m, n>>))
<1>1. m \in 0 .. P-1
  BY DEF sy_Space
<1>2. Stride = P /\ ~Columnwise
  BY sy_Ranges
<1>3. m <= MT-1 => Holds(W, Reduced(LinesFrom(m)))
  <2> SUFFICES ASSUME m <= MT-1 PROVE Holds(W, Reduced(LinesFrom(m)))
    OBVIOUS
  <2>1. <<"W", <<"STEP3", m, n>>>> \in sy_Expects("STEP4", m, n)
    BY DEF sy_Expects
  <2>2. Holds(W, Val(<<"STEP3", m, n>>))
    BY <2>1 DEF Fed
  <2> QED BY <2>2, sy_Values
<1>4. m # 0 => Holds(A, Reduced(LinesUpTo(m - 1)))
  <2> SUFFICES ASSUME m # 0 PROVE Holds(A, Reduced(LinesUpTo(m - 1)))
    OBVIOUS
  <2>1. <<"A", <<"STEP4", m-1, n>>>> \in sy_Expects("STEP4", m, n)
    BY DEF sy_Expects
  <2>2. Holds(A, Val(<<"STEP4", m-1, n>>))
    BY <2>1 DEF Fed
  <2> QED BY <2>2, sy_Values
<1>5. sy_Body("STEP4", m, n, W, A) = IF m = 0 THEN W ELSE Larger(IF m > MT-1 THEN NoMaximum ELSE W, A)
  <2>1. MT \in Nat \ {0} /\ P \in Nat \ {0}
    BY sy_Ranges
  <2>2. m = 0 => ~(m > MT-1)
    BY <2>1
  <2>3. m # 0 <=> m > 0
    BY <1>1, <2>1
  <2> QED BY <2>2, <2>3 DEF sy_Body
<1>6. PICK L : L = MT
  OBVIOUS
<1>7. /\ m = 0 => Holds(W, Reduced(LinesUpTo(m)))
      /\ m # 0 => Holds(Larger(IF m > L-1 THEN NoMaximum ELSE W, A), Reduced(LinesUpTo(m)))
  BY <1>1, <1>2, <1>3, <1>4, <1>6, STEP4Holds
<1>8. Val(<<"STEP4", m, n>>) = Reduced(LinesUpTo(m))
  BY sy_Values
<1> QED BY <1>5, <1>6, <1>7, <1>8

\* WRITE_RES writes the maximum over all rows.
LEMMA sy_WRITE_RES ==
  ASSUME CallOK, Symmetric, NEW m, NEW n,
         NEW W, NEW A, Fed(sy_Expects("WRITE_RES", m, n), W, A)
  PROVE  Holds(sy_Body("WRITE_RES", m, n, W, A), Val(<<"WRITE_RES", m, n>>))
<1>1. <<"W", <<"STEP4", P-1, n>>>> \in sy_Expects("WRITE_RES", m, n)
  BY DEF sy_Expects
<1>2. Holds(W, Val(<<"STEP4", P-1, n>>))
  BY <1>1 DEF Fed
<1>3. LinesUpTo(P - 1) = Lines
  BY AllLines, sy_Ranges
<1>4. sy_Body("WRITE_RES", m, n, W, A) = W
  BY DEF sy_Body
<1> QED BY <1>2, <1>3, <1>4, sy_Values

-----------------------------------------------------------------------------
(* All steps of the three graphs.                                          *)
\* zlange_frb_cyclic: every body makes what its task holds of what its flows bring.
LEMMA frb_Holds ==
  ASSUME CallOK, Rowwise, NEW step \in Steps, NEW m, NEW n, <<m, n>> \in frb_Space(step),
         NEW W, NEW A, Fed(frb_Expects(step, m, n), W, A)
  PROVE  Holds(frb_Body(step, m, n, W, A), Val(<<step, m, n>>))
<1>1. CASE step = "STEP1"
  BY <1>1, frb_STEP1
<1>2. CASE step = "STEP2"
  BY <1>2, frb_STEP2
<1>3. CASE step = "STEP2BIS"
  BY <1>3 DEF frb_Space
<1>4. CASE step = "STEP3"
  BY <1>4, frb_STEP3
<1>5. CASE step = "STEP4"
  BY <1>5, frb_STEP4
<1>6. CASE step = "WRITE_RES"
  BY <1>6, frb_WRITE_RES
<1> QED BY <1>1, <1>2, <1>3, <1>4, <1>5, <1>6 DEF Steps

\* zlange_one_cyclic: the same.
LEMMA one_Holds ==
  ASSUME CallOK, Columnwise, NEW step \in Steps, NEW m, NEW n, <<m, n>> \in one_Space(step),
         NEW W, NEW A, Fed(one_Expects(step, m, n), W, A)
  PROVE  Holds(one_Body(step, m, n, W, A), Val(<<step, m, n>>))
<1>1. CASE step = "STEP1"
  BY <1>1, one_STEP1
<1>2. CASE step = "STEP2"
  BY <1>2, one_STEP2
<1>3. CASE step = "STEP2BIS"
  BY <1>3 DEF one_Space
<1>4. CASE step = "STEP3"
  BY <1>4, one_STEP3
<1>5. CASE step = "STEP4"
  BY <1>5, one_STEP4
<1>6. CASE step = "WRITE_RES"
  BY <1>6, one_WRITE_RES
<1> QED BY <1>1, <1>2, <1>3, <1>4, <1>5, <1>6 DEF Steps

\* zlansy: the same.
LEMMA sy_Holds ==
  ASSUME CallOK, Symmetric, NEW step \in Steps, NEW m, NEW n, <<m, n>> \in sy_Space(step),
         NEW W, NEW A, Fed(sy_Expects(step, m, n), W, A)
  PROVE  Holds(sy_Body(step, m, n, W, A), Val(<<step, m, n>>))
<1>1. CASE step = "STEP1"
  BY <1>1, sy_STEP1
<1>2. CASE step = "STEP2"
  BY <1>2, sy_STEP2
<1>3. CASE step = "STEP2BIS"
  BY <1>3, sy_STEP2BIS
<1>4. CASE step = "STEP3"
  BY <1>4, sy_STEP3
<1>5. CASE step = "STEP4"
  BY <1>5, sy_STEP4
<1>6. CASE step = "WRITE_RES"
  BY <1>6, sy_WRITE_RES
<1> QED BY <1>1, <1>2, <1>3, <1>4, <1>5, <1>6 DEF Steps

\* Every flow has at most one source.
OneSource(E) ==
  /\ \A x \in E : x = <<x[1], x[2]>>
  /\ \A x \in E, y \in E : x[1] = y[1] => x = y

\* No flow has two sources.
LEMMA OneSourceEach ==
  ASSUME NEW step \in Steps, NEW m, NEW n
  PROVE  /\ step # "STEP2BIS" => OneSource(frb_Expects(step, m, n)) /\ OneSource(one_Expects(step, m, n))
         /\ OneSource(sy_Expects(step, m, n))
<1>1. CASE step = "STEP1"
  BY <1>1 DEF OneSource, frb_Expects, one_Expects, sy_Expects
<1>2. CASE step = "STEP2"
  BY <1>2 DEF OneSource, frb_Expects, one_Expects, sy_Expects
<1>3. CASE step = "STEP2BIS"
  BY <1>3 DEF OneSource, sy_Expects
<1>4. CASE step = "STEP3"
  BY <1>4 DEF OneSource, frb_Expects, one_Expects, sy_Expects
<1>5. CASE step = "STEP4"
  BY <1>5 DEF OneSource, frb_Expects, one_Expects, sy_Expects
<1>6. CASE step = "WRITE_RES"
  BY <1>6 DEF OneSource, frb_Expects, one_Expects, sy_Expects
<1> QED BY <1>1, <1>2, <1>3, <1>4, <1>5, <1>6 DEF Steps

\* What a flow of a task brings.
Brings(t, f) ==
  LET e == {x \in Expects(t) : x[2] = f} IN IF e = {} THEN Undefined ELSE sent[CHOOSE x \in e : TRUE]

SentHolds == \A e \in DOMAIN sent : Holds(sent[e], Val(e[3]))

\* If every arrow brought what its source holds, then so do the flows of a ready task.
LEMMA BringsFed ==
  ASSUME NEW t, NEW E, Expects(t) = {<<t, x[1], x[2]>> : x \in E}, OneSource(E),
         Expects(t) \subseteq DOMAIN sent, SentHolds
  PROVE  Fed(E, Brings(t, "W"), Brings(t, "A"))
<1>1. ASSUME NEW x \in E PROVE Holds(Brings(t, x[1]), Val(x[2]))
  <2> DEFINE e == {y \in Expects(t) : y[2] = x[1]}
             c == CHOOSE y \in e : TRUE
  <2>1. <<t, x[1], x[2]>> \in Expects(t)
    OBVIOUS
  <2>2. <<t, x[1], x[2]>> \in e
    BY <2>1
  <2>3. c \in e
    <3> HIDE DEF e
    <3> QED BY <2>2
  <2>4. c \in Expects(t) /\ c[2] = x[1]
    <3> HIDE DEF c
    <3> QED BY <2>3
  <2> HIDE DEF c
  <2>5. PICK y \in E : c = <<t, y[1], y[2]>>
    BY <2>4
  <2>6. y = x
    BY <2>4, <2>5 DEF OneSource
  <2>7. c[3] = x[2]
    BY <2>5, <2>6
  <2>8. Holds(sent[c], Val(x[2]))
    BY <2>4, <2>7 DEF SentHolds
  <2>9. Brings(t, x[1]) = sent[c]
    BY <2>2 DEF Brings, c
  <2> QED BY <2>8, <2>9
<1> QED BY <1>1 DEF Fed

\* The graph of the call.
LEMMA Kinds ==
  /\ Rowwise \/ Columnwise \/ Symmetric
  /\ Rowwise => \A a, b, c : Of(a, b, c) = a
  /\ Columnwise => \A a, b, c : Of(a, b, c) = b
  /\ Symmetric => \A a, b, c : Of(a, b, c) = c
  BY DEF Rowwise, Columnwise, Symmetric, Of

RawSpace(step) == Of(frb_Space(step), one_Space(step), sy_Space(step))

\* Tasks are triples of a step and two indices.
LEMMA SpaceIs ==
  ASSUME NEW step \in Steps, NEW t, t \in Space(step)
  PROVE  /\ t = <<step, t[2], t[3]>> /\ <<t[2], t[3]>> \in RawSpace(step)
         /\ step = "STEP2BIS" => Symmetric
<1>1. PICK x \in RawSpace(step) : t = <<step, x[1], x[2]>>
  BY DEF Space, RawSpace
<1>2. x = <<x[1], x[2]>>
  <2>1. \A y \in frb_Space(step) : y = <<y[1], y[2]>>
    BY DEF frb_Space, Steps
  <2>2. \A y \in one_Space(step) : y = <<y[1], y[2]>>
    BY DEF one_Space, Steps
  <2>3. \A y \in sy_Space(step) : y = <<y[1], y[2]>>
    BY DEF sy_Space, Steps
  <2> QED BY <2>1, <2>2, <2>3, Kinds DEF RawSpace
<1>3. step = "STEP2BIS" /\ ~Symmetric => FALSE
  <2>1. frb_Space("STEP2BIS") = {} /\ one_Space("STEP2BIS") = {}
    BY DEF frb_Space, one_Space
  <2> QED BY <2>1, Kinds DEF RawSpace
<1> QED BY <1>1, <1>2, <1>3

\* The result of a ready task is what it holds.
LEMMA ResultHolds ==
  ASSUME CallOK, SentHolds, NEW step \in Steps, NEW t \in Space(step), Expects(t) \subseteq DOMAIN sent
  PROVE  Holds(Result(t), Val(t))
<1> DEFINE m == t[2]
           n == t[3]
           W == Brings(t, "W")
           A == Brings(t, "A")
<1>1. /\ t = <<step, m, n>> /\ <<m, n>> \in RawSpace(step) /\ t[1] = step
      /\ step = "STEP2BIS" => Symmetric
  BY SpaceIs
<1>2. Result(t) = Of(frb_Body(step, m, n, W, A), one_Body(step, m, n, W, A), sy_Body(step, m, n, W, A))
  BY <1>1 DEF Result, Brings
<1>3. Expects(t) =
        {<<t, x[1], x[2]>> : x \in Of(frb_Expects(step, m, n), one_Expects(step, m, n), sy_Expects(step, m, n))}
  BY <1>1 DEF Expects
<1>4. CASE Rowwise
  <2> DEFINE E == frb_Expects(step, m, n)
  <2>1. Expects(t) = {<<t, x[1], x[2]>> : x \in E} /\ <<m, n>> \in frb_Space(step)
        /\ Result(t) = frb_Body(step, m, n, W, A)
    BY <1>1, <1>2, <1>3, <1>4, Kinds DEF RawSpace
  <2>2. OneSource(E)
    BY <1>1, <1>4, OneSourceEach DEF Rowwise
  <2> HIDE DEF W, A
  <2>3. Fed(E, W, A)
    <3> HIDE DEF E
    <3> QED BY <2>1, <2>2, BringsFed DEF W, A
  <2> QED BY <1>1, <1>4, <2>1, <2>3, frb_Holds
<1>5. CASE Columnwise
  <2> DEFINE E == one_Expects(step, m, n)
  <2>1. Expects(t) = {<<t, x[1], x[2]>> : x \in E} /\ <<m, n>> \in one_Space(step)
        /\ Result(t) = one_Body(step, m, n, W, A)
    BY <1>1, <1>2, <1>3, <1>5, Kinds DEF RawSpace
  <2>2. OneSource(E)
    BY <1>1, <1>5, OneSourceEach DEF Columnwise
  <2> HIDE DEF W, A
  <2>3. Fed(E, W, A)
    <3> HIDE DEF E
    <3> QED BY <2>1, <2>2, BringsFed DEF W, A
  <2> QED BY <1>1, <1>5, <2>1, <2>3, one_Holds
<1>6. CASE Symmetric
  <2> DEFINE E == sy_Expects(step, m, n)
  <2>1. Expects(t) = {<<t, x[1], x[2]>> : x \in E} /\ <<m, n>> \in sy_Space(step)
        /\ Result(t) = sy_Body(step, m, n, W, A)
    BY <1>1, <1>2, <1>3, <1>6, Kinds DEF RawSpace
  <2>2. OneSource(E)
    BY OneSourceEach
  <2> HIDE DEF W, A
  <2>3. Fed(E, W, A)
    <3> HIDE DEF E
    <3> QED BY <2>1, <2>2, BringsFed DEF W, A
  <2> QED BY <1>1, <1>6, <2>1, <2>3, sy_Holds
<1> QED BY <1>4, <1>5, <1>6, Kinds

\* The tasks of the call.
Tasks == UNION {Space(step) : step \in Steps}
-----------------------------------------------------------------------------
(* The invariant of a call: every arrow that was used brought what its     *)
(* source holds, and every norm that was written is exact.                 *)
\* The call is the same ever after: what is defined from it stays.
LEMMA CallStaysOf ==
  ASSUME call' = call
  PROVE  /\ P' = P /\ Q' = Q /\ ntype' = ntype /\ uplo' = uplo /\ MT' = MT /\ NT' = NT
         /\ Symmetric' = Symmetric /\ Columnwise' = Columnwise
         /\ Rows' = Rows /\ Columns' = Columns
         /\ Stored' = Stored
  BY DEF P, Q, ntype, uplo, MT, NT, minMNT, Symmetric, Columnwise, Rows, Columns, Stored

\* So do the lines,
LEMMA LinesStay ==
  ASSUME call' = call
  PROVE  /\ Positions' = Positions /\ Lines' = Lines /\ Stride' = Stride /\ Across' = Across
         /\ \A l : from(l)' = from(l) /\ upto(l)' = upto(l)
         /\ \A x : Along(x)' = Along(x) /\ LineOf(x)' = LineOf(x)
         /\ \A m, n : sy_rank(m, n)' = sy_rank(m, n)
<1>1. \A m, n : sy_rank(m, n)' = sy_rank(m, n)
  BY CallStaysOf DEF sy_rank, sy_at
<1>2. /\ Positions' = Positions /\ Lines' = Lines /\ Stride' = Stride /\ Across' = Across
  BY CallStaysOf DEF Positions, Lines, Stride, Across
<1>3. \A l : from(l)' = from(l) /\ upto(l)' = upto(l)
  BY CallStaysOf DEF from, upto, one_mmin, one_mmax, frb_nmin, frb_nmax
<1>4. \A x : Along(x)' = Along(x) /\ LineOf(x)' = LineOf(x)
  BY <1>1, CallStaysOf DEF Along, LineOf
<1> QED BY <1>1, <1>2, <1>3, <1>4

\* the shares of the processes,
LEMMA SharesStay ==
  ASSUME call' = call
  PROVE  /\ \A l : Line(l)' = Line(l)
         /\ \A l, i : SharesUpTo(l, i)' = SharesUpTo(l, i) /\ ChainOf(l, i)' = ChainOf(l, i)
         /\ \A m, n : RowChain(m, n)' = RowChain(m, n)
         /\ \A i : LinesFrom(i)' = LinesFrom(i) /\ LinesUpTo(i)' = LinesUpTo(i)
         /\ \A t : key(t)' = key(t) /\ pos(t)' = pos(t)
<1>1. \A l : Line(l)' = Line(l)
  BY LinesStay DEF Line
<1>2. \A l, S : Share(l, S)' = Share(l, S)
  BY <1>1, LinesStay DEF Share
<1>3. \A l, i : SharesUpTo(l, i)' = SharesUpTo(l, i) /\ ChainOf(l, i)' = ChainOf(l, i)
  BY <1>2, LinesStay DEF SharesUpTo, ChainOf
<1>4. \A m, n : RowChain(m, n)' = RowChain(m, n)
  BY <1>1, LinesStay DEF RowChain
<1>5. \A i : LinesFrom(i)' = LinesFrom(i) /\ LinesUpTo(i)' = LinesUpTo(i)
  BY CallStaysOf, LinesStay DEF LinesFrom, LinesUpTo
<1>6. \A t : key(t)' = key(t) /\ pos(t)' = pos(t)
  BY CallStaysOf DEF key, pos
<1> QED BY <1>1, <1>3, <1>4, <1>5, <1>6

\* and what the tasks hold.
LEMMA ValuesStay ==
  ASSUME call' = call
  PROVE  /\ \A t : Val(t)' = Val(t)
         /\ Exact' = Exact
         /\ \A w, c : Holds(w, c)' <=> Holds(w, c)
<1>0. call'.zero = call.zero /\ call'.routine = call.routine
  OBVIOUS
<1>1. \A S, x : Times(S, x)' = Times(S, x)
  BY CallStaysOf DEF Times
<1>2. \A S : Content(S)' = Content(S)
  <2> TAKE S
  <2>1. CASE ntype = "Max"
    BY <1>1, <2>1, CallStaysOf DEF Content
  <2>2. CASE ntype # "Max"
    <3>1. {y \in Stored \ call.zero : Times(S, y) > 0}' = {y \in Stored \ call.zero : Times(S, y) > 0}
      BY <1>0, <1>1, CallStaysOf
    <3> QED BY <1>1, <2>2, <3>1, CallStaysOf DEF Content
  <2> QED BY <2>1, <2>2
<1>3. \A M : Reduced(M)' = Reduced(M)
  BY <1>2, LinesStay, SharesStay, CallStaysOf DEF Reduced
<1>4. \A t : Part(t)' = Part(t)
  <2> TAKE t
  <2>1. RowChain(t[2], t[3])' = RowChain(t[2], t[3]) /\ ChainOf(t[2], t[3])' = ChainOf(t[2], t[3])
        /\ SharesUpTo(t[2], t[3])' = SharesUpTo(t[2], t[3])
    BY SharesStay
  <2>2. ChainOf(key(t), pos(t))' = ChainOf(key(t), pos(t)) /\ SharesUpTo(key(t), pos(t))' = SharesUpTo(key(t), pos(t))
    BY SharesStay
  <2>3. Symmetric' = Symmetric
    BY CallStaysOf
  <2> QED BY <2>1, <2>2, <2>3 DEF Part
<1>5. \A t : Span(t)' = Span(t)
  BY SharesStay, LinesStay DEF Span
<1>6. \A t : Val(t)' = Val(t)
  BY <1>2, <1>3, <1>4, <1>5 DEF Val
<1>7. ZeroShare' <=> ZeroShare
  BY <1>0, CallStaysOf DEF ZeroShare
<1>8. \A w, c : Holds(w, c)' <=> Holds(w, c)
  BY <1>7, CallStaysOf DEF Holds
<1>9. Exact' = Exact
  <2>1. \A m : Row(m)' = Row(m) /\ Column(m)' = Column(m)
    BY <1>0, CallStaysOf DEF Row, Column
  <2>2. {SetToBag(Row(m)) : m \in Rows}' = {SetToBag(Row(m)) : m \in Rows}
    BY <2>1, CallStaysOf
  <2>3. {SetToBag(Column(m)) : m \in Columns}' = {SetToBag(Column(m)) : m \in Columns}
    BY <2>1, CallStaysOf
  <2>4. [x \in Stored \ call.zero |-> IF call.routine = "zlansy" /\ x[1] # x[2] THEN 2 ELSE 1]'
        = [x \in Stored \ call.zero |-> IF call.routine = "zlansy" /\ x[1] # x[2] THEN 2 ELSE 1]
    BY <1>0, CallStaysOf
  <2> QED BY <2>2, <2>3, <2>4, CallStaysOf DEF Exact
<1> QED BY <1>6, <1>8, <1>9

\* The grids and matrices are not empty (GridsAssumption and ShapesAssumption of MCReductions).
NormAssumption ==
  Grids \subseteq (Nat \ {0}) \X (Nat \ {0}) /\ Shapes \subseteq (Nat \ {0}) \X (Nat \ {0})

NormHolds == \A p \in DOMAIN norm : Holds(norm[p], Exact)
GraphInv == CallOK /\ SentHolds /\ NormHolds

\* Every call is one that the proofs are about, and nothing was sent yet.
LEMMA InitGraphInv ==
  ASSUME NormAssumption, Init PROVE GraphInv
<1>1. CallOK
  <2>1. PICK g \in Grids, s \in Shapes, z \in ZeroTiles, r \in {"zlange", "zlantr", "zlansy"},
             type \in {"Max", "One", "Inf", "Frobenius"}, u \in {"Upper", "Lower", "UpperLower"} :
          /\ (r = "zlange") = (u = "UpperLower")
          /\ r = "zlansy" => s[1] = s[2]
          /\ z # {} => type = "Frobenius"
          /\ call = [routine |-> r, ntype |-> type, uplo |-> u, mt |-> s[1], nt |-> s[2],
                      P |-> g[1], Q |-> g[2], zero |-> z]
    BY DEF Init
  <2>2. g[1] \in Nat \ {0} /\ g[2] \in Nat \ {0} /\ s[1] \in Nat \ {0} /\ s[2] \in Nat \ {0}
    BY DEF NormAssumption
  <2> QED BY <2>1, <2>2 DEF CallOK, Numbers, P, Q, ntype, uplo
<1>2. DOMAIN sent = {} /\ DOMAIN norm = {}
  BY DEF Init
<1> QED BY <1>1, <1>2 DEF GraphInv, SentHolds, NormHolds

\* It stays such a call.
LEMMA CallStays ==
  ASSUME CallOK, call' = call PROVE CallOK'
  BY CallStaysOf DEF CallOK

\* The tasks that run send what they hold.
LEMMA RunHolds ==
  ASSUME GraphInv, NEW step \in Steps, Run(step)
  PROVE  /\ CallOK' /\ SentHolds'
         /\ \A t \in Ready(step) : Holds(Result(t), Val(t))
<1>1. call' = call /\ CallOK /\ SentHolds
  BY DEF Run, GraphInv
<1>2. CallOK'
  BY <1>1, CallStays
<1>3. ASSUME NEW t \in Ready(step) PROVE Holds(Result(t), Val(t))
  BY <1>1, ResultHolds DEF Ready
<1>4. ASSUME NEW e \in DOMAIN sent' PROVE Holds(sent'[e], Val(e[3]))
  <2> DEFINE D == UNION {Sends(t) : t \in Ready(step)}
  <2>1. sent' = [x \in D \cup DOMAIN sent |-> IF x \in D THEN Result(x[3]) ELSE sent[x]]
    BY DEF Run
  <2>2. CASE e \in D
    <3>1. PICK t \in Ready(step) : e \in Sends(t)
      BY <2>2
    <3>2. e[3] = t
      BY <3>1 DEF Sends
    <3>3. sent'[e] = Result(t)
      <4> HIDE DEF D
      <4> QED BY <2>1, <2>2, <3>2
    <3> QED BY <1>3, <3>2, <3>3
  <2>3. CASE e \notin D
    <3> HIDE DEF D
    <3>1. e \in DOMAIN sent /\ sent'[e] = sent[e]
      BY <2>1, <2>3
    <3> QED BY <1>1, <3>1 DEF SentHolds
  <2> QED BY <2>2, <2>3
<1>5. SentHolds'
  BY <1>1, <1>4, ValuesStay DEF SentHolds
<1> QED BY <1>2, <1>3, <1>5

\* The invariant is inductive.
LEMMA NextGraphInv ==
  ASSUME GraphInv, [Next]_vars PROVE GraphInv'
<1>1. CASE UNCHANGED vars
  <2>1. call' = call /\ sent' = sent /\ norm' = norm /\ CallOK /\ SentHolds /\ NormHolds
    BY <1>1 DEF vars, GraphInv
  <2>2. CallOK'
    BY <2>1, CallStays
  <2>3. SentHolds'
    BY <2>1, ValuesStay DEF SentHolds
  <2>4. NormHolds'
    BY <2>1, ValuesStay DEF NormHolds
  <2> QED BY <2>2, <2>3, <2>4 DEF GraphInv
<1>2. ASSUME NEW step \in Steps, Run(step), UNCHANGED norm PROVE GraphInv'
  <2>1. call' = call /\ norm' = norm /\ NormHolds
    BY <1>2 DEF Run, GraphInv
  <2>2. NormHolds'
    BY <2>1, ValuesStay DEF NormHolds
  <2> QED BY <1>2, <2>2, RunHolds DEF GraphInv
<1>3. CASE WRITE_RES
  <2>1. Run("WRITE_RES") /\ "WRITE_RES" \in Steps
    BY <1>3 DEF WRITE_RES, Steps
  <2>2. call' = call /\ CallOK /\ NormHolds
    BY <2>1 DEF Run, GraphInv
  <2> DEFINE T == {<<t[2], t[3]>> : t \in Ready("WRITE_RES")}
  <2>3. norm' = [p \in T \cup DOMAIN norm |-> IF p \in T THEN Result(<<"WRITE_RES", p[1], p[2]>>) ELSE norm[p]]
    BY <1>3 DEF WRITE_RES
  <2>4. ASSUME NEW p \in T PROVE Holds(Result(<<"WRITE_RES", p[1], p[2]>>), Exact)
    <3>1. PICK t \in Ready("WRITE_RES") : p = <<t[2], t[3]>>
      OBVIOUS
    <3>2. t \in Space("WRITE_RES")
      BY <3>1 DEF Ready
    <3>3. t = <<"WRITE_RES", p[1], p[2]>>
      BY <2>1, <3>1, <3>2, SpaceIs
    <3>4. Holds(Result(t), Val(t))
      BY <2>1, <3>1, RunHolds
    <3>5. Val(t) = Reduced(Lines)
      <4>1. t[1] = "WRITE_RES"
        BY <3>3
      <4> QED BY <4>1 DEF Val, Span
    <3>6. Val(t) = Exact
      BY <2>2, <3>5, ReducedIsExact
    <3> QED BY <3>3, <3>4, <3>6
  <2>5. ASSUME NEW p \in DOMAIN norm' PROVE Holds(norm'[p], Exact)
    <3>1. CASE p \in T
      <4>1. norm'[p] = Result(<<"WRITE_RES", p[1], p[2]>>)
        <5> HIDE DEF T
        <5> QED BY <2>3, <3>1
      <4> QED BY <2>4, <3>1, <4>1
    <3>2. CASE p \notin T
      <4> HIDE DEF T
      <4>1. p \in DOMAIN norm /\ norm'[p] = norm[p]
        BY <2>3, <3>2
      <4> QED BY <2>2, <4>1 DEF NormHolds
    <3> QED BY <3>1, <3>2
  <2>6. NormHolds'
    BY <2>2, <2>5, ValuesStay DEF NormHolds
  <2> QED BY <2>1, <2>6, RunHolds DEF GraphInv
<1>4. CASE Return
  BY <1>1, <1>4 DEF Return
<1>5. CASE Next
  <2>1. {"STEP1", "STEP2", "STEP2BIS", "STEP3", "STEP4"} \subseteq Steps
    BY DEF Steps
  <2>2. CASE STEP1
    BY <1>2, <2>1, <2>2 DEF STEP1
  <2>3. CASE STEP2
    BY <1>2, <2>1, <2>3 DEF STEP2
  <2>4. CASE STEP2BIS
    BY <1>2, <2>1, <2>4 DEF STEP2BIS
  <2>5. CASE STEP3
    BY <1>2, <2>1, <2>5 DEF STEP3
  <2>6. CASE STEP4
    BY <1>2, <2>1, <2>6 DEF STEP4
  <2> QED BY <1>3, <1>4, <1>5, <2>2, <2>3, <2>4, <2>5, <2>6 DEF Next
<1> QED BY <1>1, <1>5

\* A sum with the exact content is the norm.
LEMMA GraphInvGivesNormExact ==
  ASSUME GraphInv PROVE NormExact
<1>1. ASSUME NEW p \in DOMAIN norm
      PROVE  /\ norm[p] # Undefined
             /\ norm[p].sum = Exact
             /\ norm[p].nan => ntype = "Frobenius" /\ ZeroShare
  <2>1. PICK b \in BOOLEAN : norm[p] = [sum |-> Exact, nan |-> b] /\ (b => ntype = "Frobenius" /\ ZeroShare)
    BY DEF GraphInv, NormHolds, Holds
  <2>2. [sum |-> Exact, nan |-> b] # Undefined
    BY SumIsDefined
  <2> QED BY <2>1, <2>2
<1> QED BY <1>1 DEF NormExact

\* For every grid, matrix, norm and triangle, and whichever tiles are zero: a norm that a
\* process has written (WRITE_RES of zlange_frb_cyclic.jdf, zlange_one_cyclic.jdf and
\* zlansy.jdf) has every tile of the matrix as often as it occurs there, nothing of a copy
\* that no body has cleared, and is a number unless a share of a row is zero.
THEOREM NormIsExact ==
  ASSUME NormAssumption PROVE Spec => []NormExact
<1>1. Init => GraphInv
  BY InitGraphInv
<1>2. GraphInv /\ [Next]_vars => GraphInv'
  BY NextGraphInv
<1>3. GraphInv => NormExact
  BY GraphInvGivesNormExact
<1> QED BY <1>1, <1>2, <1>3, PTL DEF Spec

-----------------------------------------------------------------------------
(* The two sides of an arrow: what task t sends to a flow of task x, and   *)
(* what the flow f of task x expects from task t.                          *)
RawSends(t) == Of(frb_Sends(t[1], t[2], t[3]), one_Sends(t[1], t[2], t[3]), sy_Sends(t[1], t[2], t[3]))
RawExpects(t) ==
  Of(frb_Expects(t[1], t[2], t[3]), one_Expects(t[1], t[2], t[3]), sy_Expects(t[1], t[2], t[3]))

IsTask(t) == t = <<t[1], t[2], t[3]>> /\ t[1] \in Steps /\ <<t[2], t[3]>> \in RawSpace(t[1])

\* The tasks are the members of the spaces.
LEMMA TaskIs ==
  ASSUME NEW t
  PROVE  t \in Tasks <=> IsTask(t)
<1>1. ASSUME t \in Tasks PROVE IsTask(t)
  <2>1. PICK step \in Steps : t \in Space(step)
    BY <1>1 DEF Tasks
  <2>2. t = <<step, t[2], t[3]>> /\ <<t[2], t[3]>> \in RawSpace(step)
    BY <2>1, SpaceIs
  <2> QED BY <2>2 DEF IsTask
<1>2. ASSUME IsTask(t) PROVE t \in Tasks
  <2>1. t = <<t[1], t[2], t[3]>> /\ t[1] \in Steps /\ <<t[2], t[3]>> \in RawSpace(t[1])
    BY <1>2 DEF IsTask
  <2>2. <<t[1], <<t[2], t[3]>>[1], <<t[2], t[3]>>[2]>> \in Space(t[1])
    BY <2>1 DEF Space, RawSpace
  <2>3. t \in Space(t[1])
    BY <2>1, <2>2
  <2> QED BY <2>1, <2>3 DEF Tasks
<1> QED BY <1>1, <1>2

\* The order of the graphs: by step, and along the chain of a step.
Stage(t) ==
  CASE t[1] = "STEP1" -> 1 [] t[1] = "STEP2" -> 2 [] t[1] = "STEP2BIS" -> 3
    [] t[1] = "STEP3" -> 4 [] t[1] = "STEP4" -> 5 [] t[1] = "WRITE_RES" -> 6
Place(t) ==
  CASE t[1] = "STEP1" -> IF Symmetric THEN t[3] ELSE call.mt + call.nt - pos(t)
    [] t[1] = "STEP2" -> IF Symmetric THEN P*Q - t[3] ELSE pos(t)
    [] t[1] = "STEP2BIS" -> t[3]
    [] t[1] = "STEP3" -> call.mt + call.nt - key(t)
    [] t[1] = "STEP4" -> key(t)
    [] t[1] = "WRITE_RES" -> 0
Earlier(s, t) == Stage(s) < Stage(t) \/ (Stage(s) = Stage(t) /\ Place(s) < Place(t))

\* x = <<task, flow>> to which task t sends, and which expects it.
Received(x, t) == x = <<x[1], x[2]>> /\ IsTask(x[1]) /\ <<x[2], t>> \in RawExpects(x[1])
\* x = <<flow, task>> that task t expects, and which sends to it.
Delivered(x, t) ==
  /\ x = <<x[1], x[2]>> /\ IsTask(x[2]) /\ <<t, x[1]>> \in RawSends(x[2])
  /\ Earlier(x[2], t)

\* zlange_frb_cyclic: its arrows and tasks.
LEMMA frb_Raw ==
  ASSUME CallOK, Rowwise
  PROVE  /\ \A s, m, n : RawSends(<<s, m, n>>) = frb_Sends(s, m, n)
         /\ \A s, m, n : RawExpects(<<s, m, n>>) = frb_Expects(s, m, n)
         /\ \A s, m, n : IsTask(<<s, m, n>>) <=> s \in Steps /\ <<m, n>> \in frb_Space(s)
  BY Kinds DEF RawSends, RawExpects, IsTask, RawSpace

\* The ranges of its indices.
LEMMA frb_Spaces ==
  ASSUME CallOK, Rowwise
  PROVE  /\ P \in Nat \ {0} /\ Q \in Nat \ {0} /\ MT \in Nat \ {0} /\ NT \in Nat \ {0}
         /\ MT <= call.mt /\ NT <= call.nt /\ call.mt \in Nat /\ call.nt \in Nat
         /\ \A m, n : IsTask(<<"STEP1", m, n>>) <=> m \in 0 .. MT-1 /\ n \in frb_nmin(m) .. frb_nmax(m)
         /\ \A m, n : IsTask(<<"STEP2", m, n>>) <=> m \in 0 .. MT-1 /\ n \in 0 .. Q-1
         /\ \A m, n : IsTask(<<"STEP3", m, n>>) <=> m \in 0 .. MT-1 /\ n \in 0 .. Q-1
         /\ \A m, n : IsTask(<<"STEP4", m, n>>) <=> m \in 0 .. P-1 /\ n \in 0 .. Q-1
         /\ \A m, n : IsTask(<<"WRITE_RES", m, n>>) <=> m \in 0 .. P-1 /\ n \in 0 .. Q-1
         /\ \A m, n : ~IsTask(<<"STEP2BIS", m, n>>)
<1>1. /\ P \in Nat \ {0} /\ Q \in Nat \ {0} /\ MT \in Nat \ {0} /\ NT \in Nat \ {0}
      /\ MT <= call.mt /\ NT <= call.nt /\ call.mt \in Nat /\ call.nt \in Nat
  BY Triangle DEF CallOK, Numbers
<1>2. \A s, m, n : IsTask(<<s, m, n>>) <=> s \in Steps /\ <<m, n>> \in frb_Space(s)
  BY frb_Raw
<1>3. ASSUME NEW m, NEW n
      PROVE  <<m, n>> \in frb_Space("STEP1") <=> m \in 0 .. MT-1 /\ n \in frb_nmin(m) .. frb_nmax(m)
  <2>1. frb_Space("STEP1") = Positions
    BY FirstSpaces
  <2>2. <<m, n>> \in Positions => m \in 0 .. MT-1
    BY PairsAre
  <2> QED BY <2>1, <2>2, frb_Ranges
<1>4. ASSUME NEW m, NEW n
      PROVE  /\ <<m, n>> \in frb_Space("STEP2") <=> m \in 0 .. MT-1 /\ n \in 0 .. Q-1
             /\ <<m, n>> \in frb_Space("STEP3") <=> m \in 0 .. MT-1 /\ n \in 0 .. Q-1
             /\ <<m, n>> \in frb_Space("STEP4") <=> m \in 0 .. P-1 /\ n \in 0 .. Q-1
             /\ <<m, n>> \in frb_Space("WRITE_RES") <=> m \in 0 .. P-1 /\ n \in 0 .. Q-1
             /\ <<m, n>> \notin frb_Space("STEP2BIS")
  BY DEF frb_Space
<1> QED BY <1>1, <1>2, <1>3, <1>4 DEF Steps

\* Where the chain of a process ends, its column (row) is the one that STEP2 names.
LEMMA frb_ColIs ==
  ASSUME CallOK, Rowwise, NEW m \in 0 .. MT-1, NEW n \in 0 .. Q-1
  PROVE  /\ frb_col(m, n) \in Nat /\ frb_col(m, n) >= frb_nmin(m) /\ frb_col(m, n) < frb_nmin(m) + Q
         /\ frb_col(m, n) % Q = n
<1>1. /\ from(m) = frb_nmin(m) /\ Across = Q
      /\ frb_nmin(m) \in Nat /\ Q \in Nat \ {0} /\ m \in Nat /\ n \in Nat
      /\ upto(m) = frb_nmax(m) /\ frb_nmax(m) \in Nat
  BY frb_Ranges
<1>2. frb_col(m, n) = IF n >= from(m) % Across THEN from(m) + n - (from(m) % Across)
          ELSE from(m) + n + Across - (from(m) % Across)
  <2>1. CASE uplo = "Upper"
    BY <1>1, <2>1 DEF frb_col, frb_nmin
  <2>2. CASE uplo # "Upper"
    <3>1. frb_col(m, n) = n /\ from(m) = 0
      BY <1>1, <2>2 DEF frb_col, frb_nmin
    <3>2. 0 % Q = 0
      BY <1>1, OwnRemainder
    <3> QED BY <1>1, <3>1, <3>2
  <2> QED BY <2>1, <2>2
<1>3. from(m) \in Nat /\ upto(m) \in Int /\ Across \in Nat \ {0} /\ n \in 0 .. Across-1
  BY <1>1
<1>4. ShareStartsAt(m, n, frb_col(m, n))
  BY <1>2, <1>3, ShareOfProcess
<1> QED BY <1>1, <1>4 DEF ShareStartsAt

\* There is one such column only.
LEMMA SameColumn ==
  ASSUME NEW g \in Nat \ {0}, NEW a \in Nat, NEW x \in Nat, NEW y \in Nat,
         x >= a, x < a + g, y >= a, y < a + g, x % g = y % g
  PROVE  x = y
<1>1. x < y => x + g <= y
  BY SameRemainder
<1>2. y < x => y + g <= x
  BY SameRemainder
<1> QED BY <1>1, <1>2

\* Who is sent a sum expects it from the sender.
LEMMA frb_Sent ==
  ASSUME CallOK, Rowwise, NEW step, NEW m, NEW n, IsTask(<<step, m, n>>),
         NEW x \in frb_Sends(step, m, n)
  PROVE  Received(x, <<step, m, n>>)
<1> DEFINE t == <<step, m, n>>
<1> USE DEF Received
<1>1. step \in Steps
  BY frb_Raw
<1>2. CASE step = "STEP1"
  <2>1. m \in 0 .. MT-1 /\ n \in frb_nmin(m) .. frb_nmax(m)
    BY <1>2, frb_Spaces
  <2>2. frb_nmin(m) \in Nat /\ frb_nmax(m) \in Nat /\ Q \in Nat \ {0} /\ n \in Nat
    BY <2>1, frb_Ranges
  <2>3. CASE n < frb_nmin(m)+Q
    <3>1. x = <<<<"STEP2", m, n % Q>>, "W">>
      BY <1>2, <2>3 DEF frb_Sends
    <3>2. n % Q \in 0 .. Q-1
      BY <2>2, DivMod
    <3>3. frb_col(m, n % Q) = n
      <4>1. /\ frb_col(m, n % Q) \in Nat /\ frb_col(m, n % Q) >= frb_nmin(m)
            /\ frb_col(m, n % Q) < frb_nmin(m) + Q /\ frb_col(m, n % Q) % Q = n % Q
        BY <2>1, <3>2, frb_ColIs
      <4>2. n >= frb_nmin(m) /\ n < frb_nmin(m) + Q
        BY <2>1, <2>2, <2>3
      <4> QED BY <2>2, <4>1, <4>2, SameColumn
    <3>4. frb_col(m, n % Q) <= frb_nmax(m)
      BY <2>1, <3>3
    <3>5. <<"W", t>> \in frb_Expects("STEP2", m, n % Q)
      BY <1>2, <3>3, <3>4 DEF frb_Expects
    <3> QED BY <2>1, <3>1, <3>2, <3>5, frb_Raw, frb_Spaces
  <2>4. CASE ~(n < frb_nmin(m)+Q)
    <3>1. x = <<<<"STEP1", m, n-Q>>, "W">>
      BY <1>2, <2>4 DEF frb_Sends
    <3>2. n-Q \in frb_nmin(m) .. frb_nmax(m) /\ n-Q < frb_nmax(m)+1-Q /\ n-Q+Q = n
      BY <2>1, <2>2, <2>4
    <3>3. <<"W", t>> \in frb_Expects("STEP1", m, n-Q)
      BY <1>2, <3>2 DEF frb_Expects
    <3> QED BY <2>1, <3>1, <3>2, <3>3, frb_Raw, frb_Spaces
  <2> QED BY <2>3, <2>4
<1>3. CASE step = "STEP2"
  <2>1. m \in 0 .. MT-1 /\ n \in 0 .. Q-1 /\ Q \in Nat \ {0}
    BY <1>3, frb_Spaces
  <2>2. CASE n = Q-1
    <3>1. PICK j \in 0 .. Q-1 : x = <<<<"STEP3", m, j>>, "A">>
      BY <1>3, <2>2 DEF frb_Sends
    <3>2. <<"A", t>> \in frb_Expects("STEP3", m, j)
      BY <1>3, <2>2 DEF frb_Expects
    <3> QED BY <2>1, <3>1, <3>2, frb_Raw, frb_Spaces
  <2>3. CASE n # Q-1
    <3>1. x = <<<<"STEP2", m, n+1>>, "A">>
      BY <1>3, <2>3 DEF frb_Sends
    <3>2. n+1 \in 0 .. Q-1 /\ n+1 # 0 /\ n+1-1 = n
      BY <2>1, <2>3
    <3>3. <<"A", t>> \in frb_Expects("STEP2", m, n+1)
      <4>1. PICK k \in Int : k = n+1 /\ k # 0 /\ k-1 = n
        BY <2>1, <3>2
      <4>2. <<"A", <<"STEP2", m, k-1>>>> \in frb_Expects("STEP2", m, k)
        BY <4>1 DEF frb_Expects
      <4> QED BY <1>3, <4>1, <4>2
    <3> QED BY <2>1, <3>1, <3>2, <3>3, frb_Raw, frb_Spaces
  <2> QED BY <2>2, <2>3
<1>4. CASE step = "STEP2BIS"
  BY <1>4, frb_Spaces
<1>5. CASE step = "STEP3"
  <2>1. m \in 0 .. MT-1 /\ n \in 0 .. Q-1 /\ P \in Nat \ {0} /\ MT \in Nat
    BY <1>5, frb_Spaces
  <2>2. CASE m < P
    <3>1. x = <<<<"STEP4", m, n>>, "W">>
      BY <1>5, <2>2 DEF frb_Sends
    <3>2. m \in 0 .. P-1 /\ m <= MT-1
      BY <2>1, <2>2
    <3>3. <<"W", t>> \in frb_Expects("STEP4", m, n)
      BY <1>5, <3>2 DEF frb_Expects
    <3> QED BY <2>1, <3>1, <3>2, <3>3, frb_Raw, frb_Spaces
  <2>3. CASE ~(m < P)
    <3>1. x = <<<<"STEP3", m-P, n>>, "W">>
      BY <1>5, <2>3 DEF frb_Sends
    <3>2. m-P \in 0 .. MT-1 /\ m-P < MT-P /\ m-P+P = m
      BY <2>1, <2>3
    <3>3. <<"W", t>> \in frb_Expects("STEP3", m-P, n)
      BY <1>5, <3>2 DEF frb_Expects
    <3> QED BY <2>1, <3>1, <3>2, <3>3, frb_Raw, frb_Spaces
  <2> QED BY <2>2, <2>3
<1>6. CASE step = "STEP4"
  <2>1. m \in 0 .. P-1 /\ n \in 0 .. Q-1 /\ P \in Nat \ {0}
    BY <1>6, frb_Spaces
  <2>2. CASE m = P-1
    <3>1. PICK i \in 0 .. P-1 : x = <<<<"WRITE_RES", i, n>>, "W">>
      BY <1>6, <2>2 DEF frb_Sends
    <3>2. <<"W", t>> \in frb_Expects("WRITE_RES", i, n)
      BY <1>6, <2>2 DEF frb_Expects
    <3> QED BY <2>1, <3>1, <3>2, frb_Raw, frb_Spaces
  <2>3. CASE m # P-1
    <3>1. x = <<<<"STEP4", m+1, n>>, "A">>
      BY <1>6, <2>3 DEF frb_Sends
    <3>2. m+1 \in 0 .. P-1 /\ m+1 # 0 /\ m+1-1 = m
      BY <2>1, <2>3
    <3>3. <<"A", t>> \in frb_Expects("STEP4", m+1, n)
      <4>1. PICK k \in Int : k = m+1 /\ k # 0 /\ k-1 = m
        BY <2>1, <3>2
      <4>2. <<"A", <<"STEP4", k-1, n>>>> \in frb_Expects("STEP4", k, n)
        BY <4>1 DEF frb_Expects
      <4> QED BY <1>6, <4>1, <4>2
    <3> QED BY <2>1, <3>1, <3>2, <3>3, frb_Raw, frb_Spaces
  <2> QED BY <2>2, <2>3
<1>7. CASE step = "WRITE_RES"
  BY <1>7 DEF frb_Sends
<1> QED BY <1>1, <1>2, <1>3, <1>4, <1>5, <1>6, <1>7 DEF Steps

\* The steps in their order.
LEMMA Stages ==
  /\ \A m, n : Stage(<<"STEP1", m, n>>) = 1
  /\ \A m, n : Stage(<<"STEP2", m, n>>) = 2
  /\ \A m, n : Stage(<<"STEP2BIS", m, n>>) = 3
  /\ \A m, n : Stage(<<"STEP3", m, n>>) = 4
  /\ \A m, n : Stage(<<"STEP4", m, n>>) = 5
  /\ \A m, n : Stage(<<"WRITE_RES", m, n>>) = 6
  BY DEF Stage

\* The tasks of a step in their order.
LEMMA frb_Places ==
  ASSUME CallOK, Rowwise
  PROVE  /\ \A m, n : Place(<<"STEP1", m, n>>) = call.mt + call.nt - n
         /\ \A m, n : Place(<<"STEP2", m, n>>) = n
         /\ \A m, n : Place(<<"STEP3", m, n>>) = call.mt + call.nt - m
         /\ \A m, n : Place(<<"STEP4", m, n>>) = m
         /\ \A m, n : Place(<<"WRITE_RES", m, n>>) = 0
  BY DEF Place, Rowwise, pos, key

\* What is expected is sent, by an earlier task.
LEMMA frb_Delivered ==
  ASSUME CallOK, Rowwise, NEW step, NEW m, NEW n, IsTask(<<step, m, n>>),
         NEW x \in frb_Expects(step, m, n)
  PROVE  Delivered(x, <<step, m, n>>)
<1> DEFINE t == <<step, m, n>>
<1> USE DEF Delivered
<1>1. step \in Steps /\ Q \in Nat \ {0} /\ P \in Nat \ {0} /\ MT \in Nat /\ call.mt \in Nat /\ call.nt \in Nat
  BY frb_Raw, frb_Spaces
<1>2. CASE step = "STEP1"
  <2>1. m \in 0 .. MT-1 /\ n \in frb_nmin(m) .. frb_nmax(m)
    BY <1>2, frb_Spaces
  <2>2. frb_nmin(m) \in Nat /\ frb_nmax(m) \in Nat /\ n \in Nat
    BY <2>1, frb_Ranges
  <2>3. n < frb_nmax(m)+1-Q /\ x = <<"W", <<"STEP1", m, n+Q>>>>
    BY <1>2 DEF frb_Expects
  <2>4. n+Q \in frb_nmin(m) .. frb_nmax(m) /\ ~(n+Q < frb_nmin(m)+Q) /\ n+Q-Q = n
    BY <1>1, <2>1, <2>2, <2>3
  <2>5. <<t, "W">> \in frb_Sends("STEP1", m, n+Q)
    <3>1. PICK k \in Int : k = n+Q /\ ~(k < frb_nmin(m)+Q) /\ k-Q = n
      BY <1>1, <2>2, <2>4
    <3>2. <<<<"STEP1", m, k-Q>>, "W">> \in frb_Sends("STEP1", m, k)
      BY <3>1 DEF frb_Sends
    <3> QED BY <1>2, <3>1, <3>2
  <2>6. Earlier(<<"STEP1", m, n+Q>>, t)
    <3>1. Stage(<<"STEP1", m, n+Q>>) = Stage(t)
      BY <1>2, Stages
    <3>2. Place(<<"STEP1", m, n+Q>>) = call.mt + call.nt - (n+Q) /\ Place(t) = call.mt + call.nt - n
      BY <1>2, frb_Places
    <3> QED BY <1>1, <2>2, <3>1, <3>2 DEF Earlier
  <2> QED BY <2>1, <2>3, <2>4, <2>5, <2>6, frb_Raw, frb_Spaces
<1>3. CASE step = "STEP2"
  <2>1. m \in 0 .. MT-1 /\ n \in 0 .. Q-1
    BY <1>3, frb_Spaces
  <2>2. \/ n # 0 /\ x = <<"A", <<"STEP2", m, n-1>>>>
        \/ frb_col(m, n) <= frb_nmax(m) /\ x = <<"W", <<"STEP1", m, frb_col(m, n)>>>>
    BY <1>3 DEF frb_Expects
  <2>3. CASE n # 0 /\ x = <<"A", <<"STEP2", m, n-1>>>>
    <3>1. n-1 \in 0 .. Q-1 /\ n-1 # Q-1 /\ n-1+1 = n
      BY <1>1, <2>1, <2>3
    <3>2. <<t, "A">> \in frb_Sends("STEP2", m, n-1)
      <4>1. PICK k \in Int : k = n-1 /\ k # Q-1 /\ k+1 = n
        BY <2>1, <3>1
      <4>2. <<<<"STEP2", m, k+1>>, "A">> \in frb_Sends("STEP2", m, k)
        BY <4>1 DEF frb_Sends
      <4> QED BY <1>3, <4>1, <4>2
    <3>3. Earlier(<<"STEP2", m, n-1>>, t)
      <4>1. Stage(<<"STEP2", m, n-1>>) = Stage(t)
        BY <1>3, Stages
      <4>2. Place(<<"STEP2", m, n-1>>) = n-1 /\ Place(t) = n
        BY <1>3, frb_Places
      <4> QED BY <2>1, <4>1, <4>2 DEF Earlier
    <3> QED BY <2>1, <2>3, <3>1, <3>2, <3>3, frb_Raw, frb_Spaces
  <2>4. CASE frb_col(m, n) <= frb_nmax(m) /\ x = <<"W", <<"STEP1", m, frb_col(m, n)>>>>
    <3>1. /\ frb_col(m, n) \in Nat /\ frb_col(m, n) >= frb_nmin(m)
          /\ frb_col(m, n) < frb_nmin(m) + Q /\ frb_col(m, n) % Q = n
      BY <2>1, frb_ColIs
    <3>2. frb_nmin(m) \in Nat /\ frb_nmax(m) \in Nat
      BY <2>1, frb_Ranges
    <3>3. frb_col(m, n) \in frb_nmin(m) .. frb_nmax(m)
      BY <2>4, <3>1, <3>2
    <3>4. <<t, "W">> \in frb_Sends("STEP1", m, frb_col(m, n))
      BY <1>3, <3>1 DEF frb_Sends
    <3>5. Earlier(<<"STEP1", m, frb_col(m, n)>>, t)
      BY <1>3, Stages DEF Earlier
    <3> QED BY <2>1, <2>4, <3>3, <3>4, <3>5, frb_Raw, frb_Spaces
  <2> QED BY <2>2, <2>3, <2>4
<1>4. CASE step = "STEP2BIS"
  BY <1>4, frb_Spaces
<1>5. CASE step = "STEP3"
  <2>1. m \in 0 .. MT-1 /\ n \in 0 .. Q-1
    BY <1>5, frb_Spaces
  <2>2. \/ x = <<"A", <<"STEP2", m, Q-1>>>>
        \/ m < MT-P /\ x = <<"W", <<"STEP3", m+P, n>>>>
    BY <1>5 DEF frb_Expects
  <2>3. CASE x = <<"A", <<"STEP2", m, Q-1>>>>
    <3>1. Q-1 \in 0 .. Q-1
      BY <1>1
    <3>2. <<t, "A">> \in frb_Sends("STEP2", m, Q-1)
      BY <1>5, <2>1 DEF frb_Sends
    <3>3. Earlier(<<"STEP2", m, Q-1>>, t)
      BY <1>5, Stages DEF Earlier
    <3> QED BY <2>1, <2>3, <3>1, <3>2, <3>3, frb_Raw, frb_Spaces
  <2>4. CASE m < MT-P /\ x = <<"W", <<"STEP3", m+P, n>>>>
    <3>1. m+P \in 0 .. MT-1 /\ ~(m+P < P) /\ m+P-P = m
      BY <1>1, <2>1, <2>4
    <3>2. <<t, "W">> \in frb_Sends("STEP3", m+P, n)
      <4>1. PICK k \in Int : k = m+P /\ ~(k < P) /\ k-P = m
        BY <1>1, <2>1, <3>1
      <4>2. <<<<"STEP3", k-P, n>>, "W">> \in frb_Sends("STEP3", k, n)
        BY <4>1 DEF frb_Sends
      <4> QED BY <1>5, <4>1, <4>2
    <3>3. Earlier(<<"STEP3", m+P, n>>, t)
      <4>1. Stage(<<"STEP3", m+P, n>>) = Stage(t)
        BY <1>5, Stages
      <4>2. Place(<<"STEP3", m+P, n>>) = call.mt + call.nt - (m+P) /\ Place(t) = call.mt + call.nt - m
        BY <1>5, frb_Places
      <4> QED BY <1>1, <2>1, <4>1, <4>2 DEF Earlier
    <3> QED BY <2>1, <2>4, <3>1, <3>2, <3>3, frb_Raw, frb_Spaces
  <2> QED BY <2>2, <2>3, <2>4
<1>6. CASE step = "STEP4"
  <2>1. m \in 0 .. P-1 /\ n \in 0 .. Q-1
    BY <1>6, frb_Spaces
  <2>2. \/ m # 0 /\ x = <<"A", <<"STEP4", m-1, n>>>>
        \/ m <= MT-1 /\ x = <<"W", <<"STEP3", m, n>>>>
    BY <1>6 DEF frb_Expects
  <2>3. CASE m # 0 /\ x = <<"A", <<"STEP4", m-1, n>>>>
    <3>1. m-1 \in 0 .. P-1 /\ m-1 # P-1 /\ m-1+1 = m
      BY <1>1, <2>1, <2>3
    <3>2. <<t, "A">> \in frb_Sends("STEP4", m-1, n)
      <4>1. PICK k \in Int : k = m-1 /\ k # P-1 /\ k+1 = m
        BY <2>1, <3>1
      <4>2. <<<<"STEP4", k+1, n>>, "A">> \in frb_Sends("STEP4", k, n)
        BY <4>1 DEF frb_Sends
      <4> QED BY <1>6, <4>1, <4>2
    <3>3. Earlier(<<"STEP4", m-1, n>>, t)
      <4>1. Stage(<<"STEP4", m-1, n>>) = Stage(t)
        BY <1>6, Stages
      <4>2. Place(<<"STEP4", m-1, n>>) = m-1 /\ Place(t) = m
        BY <1>6, frb_Places
      <4> QED BY <2>1, <4>1, <4>2 DEF Earlier
    <3> QED BY <2>1, <2>3, <3>1, <3>2, <3>3, frb_Raw, frb_Spaces
  <2>4. CASE m <= MT-1 /\ x = <<"W", <<"STEP3", m, n>>>>
    <3>1. m \in 0 .. MT-1 /\ m < P
      BY <1>1, <2>1, <2>4
    <3>2. <<t, "W">> \in frb_Sends("STEP3", m, n)
      BY <1>6, <3>1 DEF frb_Sends
    <3>3. Earlier(<<"STEP3", m, n>>, t)
      BY <1>6, Stages DEF Earlier
    <3> QED BY <2>1, <2>4, <3>1, <3>2, <3>3, frb_Raw, frb_Spaces
  <2> QED BY <2>2, <2>3, <2>4
<1>7. CASE step = "WRITE_RES"
  <2>1. m \in 0 .. P-1 /\ n \in 0 .. Q-1 /\ x = <<"W", <<"STEP4", P-1, n>>>>
    BY <1>7, frb_Spaces DEF frb_Expects
  <2>2. P-1 \in 0 .. P-1
    BY <1>1
  <2>3. <<t, "W">> \in frb_Sends("STEP4", P-1, n)
    BY <1>7, <2>1 DEF frb_Sends
  <2>4. Earlier(<<"STEP4", P-1, n>>, t)
    BY <1>7, Stages DEF Earlier
  <2> QED BY <2>1, <2>2, <2>3, <2>4, frb_Raw, frb_Spaces
<1> QED BY <1>1, <1>2, <1>3, <1>4, <1>5, <1>6, <1>7 DEF Steps

\* zlange_one_cyclic: its arrows and tasks.
LEMMA one_Raw ==
  ASSUME CallOK, Columnwise
  PROVE  /\ \A s, m, n : RawSends(<<s, m, n>>) = one_Sends(s, m, n)
         /\ \A s, m, n : RawExpects(<<s, m, n>>) = one_Expects(s, m, n)
         /\ \A s, m, n : IsTask(<<s, m, n>>) <=> s \in Steps /\ <<m, n>> \in one_Space(s)
  BY Kinds DEF RawSends, RawExpects, IsTask, RawSpace

\* The ranges of its indices.
LEMMA one_Spaces ==
  ASSUME CallOK, Columnwise
  PROVE  /\ Q \in Nat \ {0} /\ P \in Nat \ {0} /\ NT \in Nat \ {0} /\ MT \in Nat \ {0}
         /\ NT <= call.nt /\ MT <= call.mt /\ call.nt \in Nat /\ call.mt \in Nat
         /\ \A m, n : IsTask(<<"STEP1", m, n>>) <=> n \in 0 .. NT-1 /\ m \in one_mmin(n) .. one_mmax(n)
         /\ \A m, n : IsTask(<<"STEP2", m, n>>) <=> n \in 0 .. NT-1 /\ m \in 0 .. P-1
         /\ \A m, n : IsTask(<<"STEP3", m, n>>) <=> n \in 0 .. NT-1 /\ m \in 0 .. P-1
         /\ \A m, n : IsTask(<<"STEP4", m, n>>) <=> n \in 0 .. Q-1 /\ m \in 0 .. P-1
         /\ \A m, n : IsTask(<<"WRITE_RES", m, n>>) <=> n \in 0 .. Q-1 /\ m \in 0 .. P-1
         /\ \A m, n : ~IsTask(<<"STEP2BIS", m, n>>)
<1>1. /\ Q \in Nat \ {0} /\ P \in Nat \ {0} /\ NT \in Nat \ {0} /\ MT \in Nat \ {0}
      /\ NT <= call.nt /\ MT <= call.mt /\ call.nt \in Nat /\ call.mt \in Nat
  BY Triangle DEF CallOK, Numbers
<1>2. \A s, m, n : IsTask(<<s, m, n>>) <=> s \in Steps /\ <<m, n>> \in one_Space(s)
  BY one_Raw
<1>3. ASSUME NEW n, NEW m
      PROVE  <<m, n>> \in one_Space("STEP1") <=> n \in 0 .. NT-1 /\ m \in one_mmin(n) .. one_mmax(n)
  <2>1. one_Space("STEP1") = Positions
    BY FirstSpaces
  <2>2. <<m, n>> \in Positions => n \in 0 .. NT-1
    BY PairsAre
  <2> QED BY <2>1, <2>2, one_Ranges
<1>4. ASSUME NEW n, NEW m
      PROVE  /\ <<m, n>> \in one_Space("STEP2") <=> n \in 0 .. NT-1 /\ m \in 0 .. P-1
             /\ <<m, n>> \in one_Space("STEP3") <=> n \in 0 .. NT-1 /\ m \in 0 .. P-1
             /\ <<m, n>> \in one_Space("STEP4") <=> n \in 0 .. Q-1 /\ m \in 0 .. P-1
             /\ <<m, n>> \in one_Space("WRITE_RES") <=> n \in 0 .. Q-1 /\ m \in 0 .. P-1
             /\ <<m, n>> \notin one_Space("STEP2BIS")
  BY DEF one_Space
<1> QED BY <1>1, <1>2, <1>3, <1>4 DEF Steps

\* Where the chain of a process ends.
LEMMA one_RowIs ==
  ASSUME CallOK, Columnwise, NEW n \in 0 .. NT-1, NEW m \in 0 .. P-1
  PROVE  /\ one_row(m, n) \in Nat /\ one_row(m, n) >= one_mmin(n) /\ one_row(m, n) < one_mmin(n) + P
         /\ one_row(m, n) % P = m
<1>1. /\ from(n) = one_mmin(n) /\ Across = P
      /\ one_mmin(n) \in Nat /\ P \in Nat \ {0} /\ n \in Nat /\ m \in Nat
      /\ upto(n) = one_mmax(n) /\ one_mmax(n) \in Nat
  BY one_Ranges
<1>2. one_row(m, n) = IF m >= from(n) % Across THEN from(n) + m - (from(n) % Across)
          ELSE from(n) + m + Across - (from(n) % Across)
  <2>1. CASE uplo = "Lower"
    BY <1>1, <2>1 DEF one_row, one_mmin
  <2>2. CASE uplo # "Lower"
    <3>1. one_row(m, n) = m /\ from(n) = 0
      BY <1>1, <2>2 DEF one_row, one_mmin
    <3>2. 0 % P = 0
      BY <1>1, OwnRemainder
    <3> QED BY <1>1, <3>1, <3>2
  <2> QED BY <2>1, <2>2
<1>3. from(n) \in Nat /\ upto(n) \in Int /\ Across \in Nat \ {0} /\ m \in 0 .. Across-1
  BY <1>1
<1>4. ShareStartsAt(n, m, one_row(m, n))
  BY <1>2, <1>3, ShareOfProcess
<1> QED BY <1>1, <1>4 DEF ShareStartsAt

\* The tasks of a step in their order.
LEMMA one_Places ==
  ASSUME CallOK, Columnwise
  PROVE  /\ \A m, n : Place(<<"STEP1", m, n>>) = call.mt + call.nt - m
         /\ \A m, n : Place(<<"STEP2", m, n>>) = m
         /\ \A m, n : Place(<<"STEP3", m, n>>) = call.mt + call.nt - n
         /\ \A m, n : Place(<<"STEP4", m, n>>) = n
         /\ \A m, n : Place(<<"WRITE_RES", m, n>>) = 0
  BY DEF Place, Columnwise, pos, key

\* Who is sent a sum expects it from the sender.
LEMMA one_Sent ==
  ASSUME CallOK, Columnwise, NEW step, NEW m, NEW n, IsTask(<<step, m, n>>),
         NEW x \in one_Sends(step, m, n)
  PROVE  Received(x, <<step, m, n>>)
<1> DEFINE t == <<step, m, n>>
<1> USE DEF Received
<1>1. step \in Steps
  BY one_Raw
<1>2. CASE step = "STEP1"
  <2>1. n \in 0 .. NT-1 /\ m \in one_mmin(n) .. one_mmax(n)
    BY <1>2, one_Spaces
  <2>2. one_mmin(n) \in Nat /\ one_mmax(n) \in Nat /\ P \in Nat \ {0} /\ m \in Nat
    BY <2>1, one_Ranges
  <2>3. CASE m < one_mmin(n)+P
    <3>1. x = <<<<"STEP2", m % P, n>>, "W">>
      BY <1>2, <2>3 DEF one_Sends
    <3>2. m % P \in 0 .. P-1
      BY <2>2, DivMod
    <3>3. one_row(m % P, n) = m
      <4>1. /\ one_row(m % P, n) \in Nat /\ one_row(m % P, n) >= one_mmin(n)
            /\ one_row(m % P, n) < one_mmin(n) + P /\ one_row(m % P, n) % P = m % P
        BY <2>1, <3>2, one_RowIs
      <4>2. m >= one_mmin(n) /\ m < one_mmin(n) + P
        BY <2>1, <2>2, <2>3
      <4> QED BY <2>2, <4>1, <4>2, SameColumn
    <3>4. one_row(m % P, n) <= one_mmax(n)
      BY <2>1, <3>3
    <3>5. <<"W", t>> \in one_Expects("STEP2", m % P, n)
      BY <1>2, <3>3, <3>4 DEF one_Expects
    <3> QED BY <2>1, <3>1, <3>2, <3>5, one_Raw, one_Spaces
  <2>4. CASE ~(m < one_mmin(n)+P)
    <3>1. x = <<<<"STEP1", m-P, n>>, "W">>
      BY <1>2, <2>4 DEF one_Sends
    <3>2. m-P \in one_mmin(n) .. one_mmax(n) /\ m-P < one_mmax(n)+1-P /\ m-P+P = m
      BY <2>1, <2>2, <2>4
    <3>3. <<"W", t>> \in one_Expects("STEP1", m-P, n)
      BY <1>2, <3>2 DEF one_Expects
    <3> QED BY <2>1, <3>1, <3>2, <3>3, one_Raw, one_Spaces
  <2> QED BY <2>3, <2>4
<1>3. CASE step = "STEP2"
  <2>1. n \in 0 .. NT-1 /\ m \in 0 .. P-1 /\ P \in Nat \ {0}
    BY <1>3, one_Spaces
  <2>2. CASE m = P-1
    <3>1. PICK i \in 0 .. P-1 : x = <<<<"STEP3", i, n>>, "A">>
      BY <1>3, <2>2 DEF one_Sends
    <3>2. <<"A", t>> \in one_Expects("STEP3", i, n)
      BY <1>3, <2>2 DEF one_Expects
    <3> QED BY <2>1, <3>1, <3>2, one_Raw, one_Spaces
  <2>3. CASE m # P-1
    <3>1. x = <<<<"STEP2", m+1, n>>, "A">>
      BY <1>3, <2>3 DEF one_Sends
    <3>2. m+1 \in 0 .. P-1 /\ m+1 # 0 /\ m+1-1 = m
      BY <2>1, <2>3
    <3>3. <<"A", t>> \in one_Expects("STEP2", m+1, n)
      <4>1. PICK k \in Int : k = m+1 /\ k # 0 /\ k-1 = m
        BY <2>1, <3>2
      <4>2. <<"A", <<"STEP2", k-1, n>>>> \in one_Expects("STEP2", k, n)
        BY <4>1 DEF one_Expects
      <4> QED BY <1>3, <4>1, <4>2
    <3> QED BY <2>1, <3>1, <3>2, <3>3, one_Raw, one_Spaces
  <2> QED BY <2>2, <2>3
<1>4. CASE step = "STEP2BIS"
  BY <1>4, one_Spaces
<1>5. CASE step = "STEP3"
  <2>1. n \in 0 .. NT-1 /\ m \in 0 .. P-1 /\ Q \in Nat \ {0} /\ NT \in Nat
    BY <1>5, one_Spaces
  <2>2. CASE n < Q
    <3>1. x = <<<<"STEP4", m, n>>, "W">>
      BY <1>5, <2>2 DEF one_Sends
    <3>2. n \in 0 .. Q-1 /\ n <= NT-1
      BY <2>1, <2>2
    <3>3. <<"W", t>> \in one_Expects("STEP4", m, n)
      BY <1>5, <3>2 DEF one_Expects
    <3> QED BY <2>1, <3>1, <3>2, <3>3, one_Raw, one_Spaces
  <2>3. CASE ~(n < Q)
    <3>1. x = <<<<"STEP3", m, n-Q>>, "W">>
      BY <1>5, <2>3 DEF one_Sends
    <3>2. n-Q \in 0 .. NT-1 /\ n-Q < NT-Q /\ n-Q+Q = n
      BY <2>1, <2>3
    <3>3. <<"W", t>> \in one_Expects("STEP3", m, n-Q)
      BY <1>5, <3>2 DEF one_Expects
    <3> QED BY <2>1, <3>1, <3>2, <3>3, one_Raw, one_Spaces
  <2> QED BY <2>2, <2>3
<1>6. CASE step = "STEP4"
  <2>1. n \in 0 .. Q-1 /\ m \in 0 .. P-1 /\ Q \in Nat \ {0}
    BY <1>6, one_Spaces
  <2>2. CASE n = Q-1
    <3>1. PICK j \in 0 .. Q-1 : x = <<<<"WRITE_RES", m, j>>, "W">>
      BY <1>6, <2>2 DEF one_Sends
    <3>2. <<"W", t>> \in one_Expects("WRITE_RES", m, j)
      BY <1>6, <2>2 DEF one_Expects
    <3> QED BY <2>1, <3>1, <3>2, one_Raw, one_Spaces
  <2>3. CASE n # Q-1
    <3>1. x = <<<<"STEP4", m, n+1>>, "A">>
      BY <1>6, <2>3 DEF one_Sends
    <3>2. n+1 \in 0 .. Q-1 /\ n+1 # 0 /\ n+1-1 = n
      BY <2>1, <2>3
    <3>3. <<"A", t>> \in one_Expects("STEP4", m, n+1)
      <4>1. PICK k \in Int : k = n+1 /\ k # 0 /\ k-1 = n
        BY <2>1, <3>2
      <4>2. <<"A", <<"STEP4", m, k-1>>>> \in one_Expects("STEP4", m, k)
        BY <4>1 DEF one_Expects
      <4> QED BY <1>6, <4>1, <4>2
    <3> QED BY <2>1, <3>1, <3>2, <3>3, one_Raw, one_Spaces
  <2> QED BY <2>2, <2>3
<1>7. CASE step = "WRITE_RES"
  BY <1>7 DEF one_Sends
<1> QED BY <1>1, <1>2, <1>3, <1>4, <1>5, <1>6, <1>7 DEF Steps

\* What is expected is sent, by an earlier task.
LEMMA one_Delivered ==
  ASSUME CallOK, Columnwise, NEW step, NEW m, NEW n, IsTask(<<step, m, n>>),
         NEW x \in one_Expects(step, m, n)
  PROVE  Delivered(x, <<step, m, n>>)
<1> DEFINE t == <<step, m, n>>
<1> USE DEF Delivered
<1>1. step \in Steps /\ P \in Nat \ {0} /\ Q \in Nat \ {0} /\ NT \in Nat /\ call.nt \in Nat /\ call.mt \in Nat
  BY one_Raw, one_Spaces
<1>2. CASE step = "STEP1"
  <2>1. n \in 0 .. NT-1 /\ m \in one_mmin(n) .. one_mmax(n)
    BY <1>2, one_Spaces
  <2>2. one_mmin(n) \in Nat /\ one_mmax(n) \in Nat /\ m \in Nat
    BY <2>1, one_Ranges
  <2>3. m < one_mmax(n)+1-P /\ x = <<"W", <<"STEP1", m+P, n>>>>
    BY <1>2 DEF one_Expects
  <2>4. m+P \in one_mmin(n) .. one_mmax(n) /\ ~(m+P < one_mmin(n)+P) /\ m+P-P = m
    BY <1>1, <2>1, <2>2, <2>3
  <2>5. <<t, "W">> \in one_Sends("STEP1", m+P, n)
    <3>1. PICK k \in Int : k = m+P /\ ~(k < one_mmin(n)+P) /\ k-P = m
      BY <1>1, <2>2, <2>4
    <3>2. <<<<"STEP1", k-P, n>>, "W">> \in one_Sends("STEP1", k, n)
      BY <3>1 DEF one_Sends
    <3> QED BY <1>2, <3>1, <3>2
  <2>6. Earlier(<<"STEP1", m+P, n>>, t)
    <3>1. Stage(<<"STEP1", m+P, n>>) = Stage(t)
      BY <1>2, Stages
    <3>2. Place(<<"STEP1", m+P, n>>) = call.mt + call.nt - (m+P) /\ Place(t) = call.mt + call.nt - m
      BY <1>2, one_Places
    <3> QED BY <1>1, <2>2, <3>1, <3>2 DEF Earlier
  <2> QED BY <2>1, <2>3, <2>4, <2>5, <2>6, one_Raw, one_Spaces
<1>3. CASE step = "STEP2"
  <2>1. n \in 0 .. NT-1 /\ m \in 0 .. P-1
    BY <1>3, one_Spaces
  <2>2. \/ m # 0 /\ x = <<"A", <<"STEP2", m-1, n>>>>
        \/ one_row(m, n) <= one_mmax(n) /\ x = <<"W", <<"STEP1", one_row(m, n), n>>>>
    BY <1>3 DEF one_Expects
  <2>3. CASE m # 0 /\ x = <<"A", <<"STEP2", m-1, n>>>>
    <3>1. m-1 \in 0 .. P-1 /\ m-1 # P-1 /\ m-1+1 = m
      BY <1>1, <2>1, <2>3
    <3>2. <<t, "A">> \in one_Sends("STEP2", m-1, n)
      <4>1. PICK k \in Int : k = m-1 /\ k # P-1 /\ k+1 = m
        BY <2>1, <3>1
      <4>2. <<<<"STEP2", k+1, n>>, "A">> \in one_Sends("STEP2", k, n)
        BY <4>1 DEF one_Sends
      <4> QED BY <1>3, <4>1, <4>2
    <3>3. Earlier(<<"STEP2", m-1, n>>, t)
      <4>1. Stage(<<"STEP2", m-1, n>>) = Stage(t)
        BY <1>3, Stages
      <4>2. Place(<<"STEP2", m-1, n>>) = m-1 /\ Place(t) = m
        BY <1>3, one_Places
      <4> QED BY <2>1, <4>1, <4>2 DEF Earlier
    <3> QED BY <2>1, <2>3, <3>1, <3>2, <3>3, one_Raw, one_Spaces
  <2>4. CASE one_row(m, n) <= one_mmax(n) /\ x = <<"W", <<"STEP1", one_row(m, n), n>>>>
    <3>1. /\ one_row(m, n) \in Nat /\ one_row(m, n) >= one_mmin(n)
          /\ one_row(m, n) < one_mmin(n) + P /\ one_row(m, n) % P = m
      BY <2>1, one_RowIs
    <3>2. one_mmin(n) \in Nat /\ one_mmax(n) \in Nat
      BY <2>1, one_Ranges
    <3>3. one_row(m, n) \in one_mmin(n) .. one_mmax(n)
      BY <2>4, <3>1, <3>2
    <3>4. <<t, "W">> \in one_Sends("STEP1", one_row(m, n), n)
      BY <1>3, <3>1 DEF one_Sends
    <3>5. Earlier(<<"STEP1", one_row(m, n), n>>, t)
      BY <1>3, Stages DEF Earlier
    <3> QED BY <2>1, <2>4, <3>3, <3>4, <3>5, one_Raw, one_Spaces
  <2> QED BY <2>2, <2>3, <2>4
<1>4. CASE step = "STEP2BIS"
  BY <1>4, one_Spaces
<1>5. CASE step = "STEP3"
  <2>1. n \in 0 .. NT-1 /\ m \in 0 .. P-1
    BY <1>5, one_Spaces
  <2>2. \/ x = <<"A", <<"STEP2", P-1, n>>>>
        \/ n < NT-Q /\ x = <<"W", <<"STEP3", m, n+Q>>>>
    BY <1>5 DEF one_Expects
  <2>3. CASE x = <<"A", <<"STEP2", P-1, n>>>>
    <3>1. P-1 \in 0 .. P-1
      BY <1>1
    <3>2. <<t, "A">> \in one_Sends("STEP2", P-1, n)
      BY <1>5, <2>1 DEF one_Sends
    <3>3. Earlier(<<"STEP2", P-1, n>>, t)
      BY <1>5, Stages DEF Earlier
    <3> QED BY <2>1, <2>3, <3>1, <3>2, <3>3, one_Raw, one_Spaces
  <2>4. CASE n < NT-Q /\ x = <<"W", <<"STEP3", m, n+Q>>>>
    <3>1. n+Q \in 0 .. NT-1 /\ ~(n+Q < Q) /\ n+Q-Q = n
      BY <1>1, <2>1, <2>4
    <3>2. <<t, "W">> \in one_Sends("STEP3", m, n+Q)
      <4>1. PICK k \in Int : k = n+Q /\ ~(k < Q) /\ k-Q = n
        BY <1>1, <2>1, <3>1
      <4>2. <<<<"STEP3", m, k-Q>>, "W">> \in one_Sends("STEP3", m, k)
        BY <4>1 DEF one_Sends
      <4> QED BY <1>5, <4>1, <4>2
    <3>3. Earlier(<<"STEP3", m, n+Q>>, t)
      <4>1. Stage(<<"STEP3", m, n+Q>>) = Stage(t)
        BY <1>5, Stages
      <4>2. Place(<<"STEP3", m, n+Q>>) = call.mt + call.nt - (n+Q) /\ Place(t) = call.mt + call.nt - n
        BY <1>5, one_Places
      <4> QED BY <1>1, <2>1, <4>1, <4>2 DEF Earlier
    <3> QED BY <2>1, <2>4, <3>1, <3>2, <3>3, one_Raw, one_Spaces
  <2> QED BY <2>2, <2>3, <2>4
<1>6. CASE step = "STEP4"
  <2>1. n \in 0 .. Q-1 /\ m \in 0 .. P-1
    BY <1>6, one_Spaces
  <2>2. \/ n # 0 /\ x = <<"A", <<"STEP4", m, n-1>>>>
        \/ n <= NT-1 /\ x = <<"W", <<"STEP3", m, n>>>>
    BY <1>6 DEF one_Expects
  <2>3. CASE n # 0 /\ x = <<"A", <<"STEP4", m, n-1>>>>
    <3>1. n-1 \in 0 .. Q-1 /\ n-1 # Q-1 /\ n-1+1 = n
      BY <1>1, <2>1, <2>3
    <3>2. <<t, "A">> \in one_Sends("STEP4", m, n-1)
      <4>1. PICK k \in Int : k = n-1 /\ k # Q-1 /\ k+1 = n
        BY <2>1, <3>1
      <4>2. <<<<"STEP4", m, k+1>>, "A">> \in one_Sends("STEP4", m, k)
        BY <4>1 DEF one_Sends
      <4> QED BY <1>6, <4>1, <4>2
    <3>3. Earlier(<<"STEP4", m, n-1>>, t)
      <4>1. Stage(<<"STEP4", m, n-1>>) = Stage(t)
        BY <1>6, Stages
      <4>2. Place(<<"STEP4", m, n-1>>) = n-1 /\ Place(t) = n
        BY <1>6, one_Places
      <4> QED BY <2>1, <4>1, <4>2 DEF Earlier
    <3> QED BY <2>1, <2>3, <3>1, <3>2, <3>3, one_Raw, one_Spaces
  <2>4. CASE n <= NT-1 /\ x = <<"W", <<"STEP3", m, n>>>>
    <3>1. n \in 0 .. NT-1 /\ n < Q
      BY <1>1, <2>1, <2>4
    <3>2. <<t, "W">> \in one_Sends("STEP3", m, n)
      BY <1>6, <3>1 DEF one_Sends
    <3>3. Earlier(<<"STEP3", m, n>>, t)
      BY <1>6, Stages DEF Earlier
    <3> QED BY <2>1, <2>4, <3>1, <3>2, <3>3, one_Raw, one_Spaces
  <2> QED BY <2>2, <2>3, <2>4
<1>7. CASE step = "WRITE_RES"
  <2>1. n \in 0 .. Q-1 /\ m \in 0 .. P-1 /\ x = <<"W", <<"STEP4", m, Q-1>>>>
    BY <1>7, one_Spaces DEF one_Expects
  <2>2. Q-1 \in 0 .. Q-1
    BY <1>1
  <2>3. <<t, "W">> \in one_Sends("STEP4", m, Q-1)
    BY <1>7, <2>1 DEF one_Sends
  <2>4. Earlier(<<"STEP4", m, Q-1>>, t)
    BY <1>7, Stages DEF Earlier
  <2> QED BY <2>1, <2>2, <2>3, <2>4, one_Raw, one_Spaces
<1> QED BY <1>1, <1>2, <1>3, <1>4, <1>5, <1>6, <1>7 DEF Steps

\* The tile before is the one whose next tile this is, and the last has none.
LEMMA NextTile ==
  ASSUME CallOK, Symmetric, NEW m \in 0 .. MT-1, NEW n \in 0 .. NT-1
  PROVE  /\ sy_nextn(m, n) < NT =>
              /\ sy_nextn(m, n) \in 0 .. NT-1 /\ n < sy_nextn(m, n)
              /\ sy_rank(m, sy_nextn(m, n)) = sy_rank(m, n)
              /\ \A x \in sy_owned(m, sy_rank(m, n)) : n < x => sy_nextn(m, n) <= x
         /\ ~(sy_nextn(m, n) < NT) => \A x \in sy_owned(m, sy_rank(m, n)) : ~(n < x)
<1> DEFINE S == {x \in sy_owned(m, sy_rank(m, n)) : x > n}
           k == sy_nextn(m, n)
<1>1. k = First(S, NT)
  BY DEF sy_nextn
<1>2. NT \in Nat \ {0} /\ n \in Nat
  BY sy_Ranges
<1>3. S \subseteq 0 .. NT-1 /\ S \subseteq Nat
  BY DEF sy_owned
<1>4. \A x : x \in S <=> x \in 0 .. NT-1 /\ sy_rank(m, x) = sy_rank(m, n) /\ x > n
  BY DEF sy_owned
<1> HIDE DEF k
<1>5. CASE S = {}
  <2>1. k = NT
    BY <1>1, <1>5 DEF First
  <2>2. \A x \in sy_owned(m, sy_rank(m, n)) : ~(n < x)
    <3> TAKE x \in sy_owned(m, sy_rank(m, n))
    <3>1. x \in Int
      BY DEF sy_owned
    <3> QED BY <1>2, <1>5, <3>1
  <2> QED BY <1>2, <2>1, <2>2 DEF k
<1>6. CASE S # {}
  <2>1. k \in S /\ \A y \in S : k <= y
    <3> HIDE DEF S
    <3> QED BY <1>1, <1>3, <1>6, FirstIs
  <2>2. k \in 0 .. NT-1 /\ sy_rank(m, k) = sy_rank(m, n) /\ n < k /\ k < NT
    <3>1. k \in 0 .. NT-1 /\ sy_rank(m, k) = sy_rank(m, n) /\ k > n
      BY <1>4, <2>1
    <3> QED BY <1>2, <3>1
  <2>3. \A x \in sy_owned(m, sy_rank(m, n)) : n < x => k <= x
    <3> TAKE x \in sy_owned(m, sy_rank(m, n))
    <3>1. x \in Int
      BY DEF sy_owned
    <3> QED BY <1>2, <2>1, <3>1
  <2> QED BY <2>2, <2>3 DEF k
<1> QED BY <1>5, <1>6

\* The tile after the one before is the tile itself.
LEMMA TileBefore ==
  ASSUME CallOK, Symmetric, NEW m \in 0 .. MT-1, NEW n \in 0 .. NT-1, sy_prevn(m, n) + 1 > 0
  PROVE  /\ sy_prevn(m, n) \in 0 .. NT-1 /\ sy_prevn(m, n) < n
         /\ sy_nextn(m, sy_prevn(m, n)) = n
<1> DEFINE p == sy_prevn(m, n)
           q == sy_nextn(m, p)
           R == sy_owned(m, sy_rank(m, n))
<1>1. /\ p \in 0 .. NT-1 /\ p < n /\ sy_rank(m, p) = sy_rank(m, n)
      /\ \A x \in R : x < n => x <= p
  BY RowChainStep
<1>2. R \subseteq 0 .. NT-1 /\ n \in R /\ NT \in Nat
  BY sy_Ranges DEF sy_owned
<1>3. /\ q < NT => /\ q \in 0 .. NT-1 /\ p < q /\ sy_rank(m, q) = sy_rank(m, p)
                   /\ \A x \in sy_owned(m, sy_rank(m, p)) : p < x => q <= x
      /\ ~(q < NT) => \A x \in sy_owned(m, sy_rank(m, p)) : ~(p < x)
  <2> HIDE DEF p
  <2> QED BY <1>1, NextTile
<1>4. q < NT
  BY <1>1, <1>2, <1>3
<1>5. q \in R
  BY <1>1, <1>3, <1>4 DEF sy_owned
<1>6. q <= n
  BY <1>1, <1>2, <1>3, <1>4
<1>7. ~(q < n)
  <2> HIDE DEF q, R
  <2> QED BY <1>1, <1>2, <1>3, <1>4, <1>5
<1>8. q = n
  <2> HIDE DEF q, R
  <2> QED BY <1>2, <1>5, <1>6, <1>7
<1> QED BY <1>1, <1>8

\* The tile before the one after is the tile itself; with none after it, it is the last.
LEMMA TileAfter ==
  ASSUME CallOK, Symmetric, NEW m \in 0 .. MT-1, NEW n \in 0 .. NT-1
  PROVE  /\ sy_nextn(m, n) < NT =>
              /\ sy_nextn(m, n) \in 0 .. NT-1
              /\ sy_prevn(m, sy_nextn(m, n)) = n
         /\ ~(sy_nextn(m, n) < NT) => sy_hadtile(m, sy_rank(m, n)) = n
<1> DEFINE q == sy_nextn(m, n)
           p == sy_prevn(m, q)
           R == sy_owned(m, sy_rank(m, n))
<1>1. R \subseteq 0 .. NT-1 /\ n \in R /\ NT \in Nat
  BY sy_Ranges DEF sy_owned
<1>2. ASSUME q < NT PROVE q \in 0 .. NT-1 /\ p = n
  <2>1. /\ q \in 0 .. NT-1 /\ n < q /\ sy_rank(m, q) = sy_rank(m, n)
        /\ \A x \in R : n < x => q <= x
    BY <1>2, NextTile
  <2> HIDE DEF q
  <2>2. /\ p + 1 > 0 => /\ p \in 0 .. NT-1 /\ p < q /\ sy_rank(m, p) = sy_rank(m, q)
                        /\ \A x \in sy_owned(m, sy_rank(m, q)) : x < q => x <= p
        /\ ~(p + 1 > 0) => \A x \in sy_owned(m, sy_rank(m, q)) : ~(x < q)
    BY <2>1, RowChainStep
  <2>3. p + 1 > 0
    BY <1>1, <2>1, <2>2
  <2>4. p \in R /\ n <= p
    BY <1>1, <2>1, <2>2, <2>3 DEF sy_owned
  <2>5. ~(n < p)
    <3> HIDE DEF p, R
    <3> QED BY <1>1, <2>1, <2>2, <2>3, <2>4
  <2>6. p = n
    <3> HIDE DEF p, R
    <3> QED BY <1>1, <2>4, <2>5
  <2> QED BY <2>1, <2>6
<1>3. ASSUME ~(q < NT) PROVE sy_hadtile(m, sy_rank(m, n)) = n
  <2> DEFINE h == sy_hadtile(m, sy_rank(m, n))
  <2>1. \A x \in R : ~(n < x)
    BY <1>3, NextTile
  <2>2. h + 1 # 0 => h \in 0 .. NT-1 /\ sy_rank(m, h) = sy_rank(m, n) /\ \A x \in R : x <= h
    BY HadTile
  <2>3. h + 1 = 0 => R = {}
    BY HadTile
  <2>4. h \in R /\ n <= h
    BY <1>1, <2>2, <2>3 DEF sy_owned
  <2>5. h = n
    <3> HIDE DEF h, R
    <3>1. ~(n < h)
      BY <2>1, <2>4
    <3>2. h \in 0 .. NT-1
      BY <1>1, <2>4
    <3> QED BY <1>1, <2>4, <3>1, <3>2
  <2> QED BY <2>5
<1> QED BY <1>2, <1>3

\* No tile is after the last one.
LEMMA LastTile ==
  ASSUME CallOK, Symmetric, NEW m \in 0 .. MT-1, NEW r, sy_hadtile(m, r) + 1 # 0
  PROVE  /\ sy_hadtile(m, r) \in 0 .. NT-1
         /\ sy_rank(m, sy_hadtile(m, r)) = r
         /\ ~(sy_nextn(m, sy_hadtile(m, r)) < NT)
<1> DEFINE h == sy_hadtile(m, r)
           q == sy_nextn(m, h)
<1>1. h \in 0 .. NT-1 /\ sy_rank(m, h) = r /\ \A x \in sy_owned(m, r) : x <= h
  BY HadTile
<1> HIDE DEF h
<1>2. q < NT => q \in 0 .. NT-1 /\ h < q /\ sy_rank(m, q) = sy_rank(m, h)
  BY <1>1, NextTile
<1>3. q < NT => q \in sy_owned(m, r)
  BY <1>1, <1>2 DEF sy_owned
<1>4. ~(q < NT)
  <2> HIDE DEF q
  <2> QED BY <1>1, <1>2, <1>3
<1> QED BY <1>1, <1>4 DEF h

\* zlansy: its arrows and tasks.
LEMMA sy_Raw ==
  ASSUME CallOK, Symmetric
  PROVE  /\ \A s, m, n : RawSends(<<s, m, n>>) = sy_Sends(s, m, n)
         /\ \A s, m, n : RawExpects(<<s, m, n>>) = sy_Expects(s, m, n)
         /\ \A s, m, n : IsTask(<<s, m, n>>) <=> s \in Steps /\ <<m, n>> \in sy_Space(s)
  BY Kinds DEF RawSends, RawExpects, IsTask, RawSpace

\* The ranges of its indices.
LEMMA sy_Spaces ==
  ASSUME CallOK, Symmetric
  PROVE  /\ P \in Nat \ {0} /\ Q \in Nat \ {0} /\ MT \in Nat \ {0} /\ NT \in Nat \ {0}
         /\ P*Q \in Nat \ {0} /\ Q <= P*Q
         /\ MT <= call.mt /\ NT <= call.nt /\ call.mt \in Nat /\ call.nt \in Nat
         /\ \A m, n : IsTask(<<"STEP1", m, n>>) <=> m \in 0 .. MT-1 /\ n \in 0 .. NT-1
         /\ \A m, n : IsTask(<<"STEP2", m, n>>) <=> m \in 0 .. MT-1 /\ n \in 0 .. P*Q-1
         /\ \A m, n : IsTask(<<"STEP2BIS", m, n>>) <=> m \in 0 .. MT-1 /\ n \in 0 .. Q-1
         /\ \A m, n : IsTask(<<"STEP3", m, n>>) <=> m \in 0 .. MT-1 /\ n \in 0 .. Q-1
         /\ \A m, n : IsTask(<<"STEP4", m, n>>) <=> m \in 0 .. P-1 /\ n \in 0 .. Q-1
         /\ \A m, n : IsTask(<<"WRITE_RES", m, n>>) <=> m \in 0 .. P-1 /\ n \in 0 .. Q-1
<1>1. /\ P \in Nat \ {0} /\ Q \in Nat \ {0} /\ MT \in Nat \ {0} /\ NT \in Nat \ {0}
      /\ P*Q \in Nat \ {0} /\ Q <= P*Q
      /\ MT <= call.mt /\ NT <= call.nt /\ call.mt \in Nat /\ call.nt \in Nat
  <2>1. P \in Nat \ {0} /\ Q \in Nat \ {0} /\ P*Q \in Nat \ {0} /\ Q <= P*Q
    BY sy_Ranges
  <2>2. MT \in Nat \ {0} /\ NT \in Nat \ {0} /\ MT <= call.mt /\ NT <= call.nt
        /\ call.mt \in Nat /\ call.nt \in Nat
    BY Triangle DEF CallOK, Numbers
  <2> QED BY <2>1, <2>2
<1>2. \A s, m, n : IsTask(<<s, m, n>>) <=> s \in Steps /\ <<m, n>> \in sy_Space(s)
  BY sy_Raw
<1>3. ASSUME NEW m, NEW n
      PROVE  /\ <<m, n>> \in sy_Space("STEP1") <=> m \in 0 .. MT-1 /\ n \in 0 .. NT-1
             /\ <<m, n>> \in sy_Space("STEP2") <=> m \in 0 .. MT-1 /\ n \in 0 .. P*Q-1
             /\ <<m, n>> \in sy_Space("STEP2BIS") <=> m \in 0 .. MT-1 /\ n \in 0 .. Q-1
             /\ <<m, n>> \in sy_Space("STEP3") <=> m \in 0 .. MT-1 /\ n \in 0 .. Q-1
             /\ <<m, n>> \in sy_Space("STEP4") <=> m \in 0 .. P-1 /\ n \in 0 .. Q-1
             /\ <<m, n>> \in sy_Space("WRITE_RES") <=> m \in 0 .. P-1 /\ n \in 0 .. Q-1
  BY DEF sy_Space
<1> QED BY <1>1, <1>2, <1>3 DEF Steps

\* The tasks of a step in their order.
LEMMA sy_Places ==
  ASSUME CallOK, Symmetric
  PROVE  /\ \A m, n : Place(<<"STEP1", m, n>>) = n
         /\ \A m, n : Place(<<"STEP2", m, n>>) = P*Q - n
         /\ \A m, n : Place(<<"STEP2BIS", m, n>>) = n
         /\ \A m, n : Place(<<"STEP3", m, n>>) = call.mt + call.nt - m
         /\ \A m, n : Place(<<"STEP4", m, n>>) = m
         /\ \A m, n : Place(<<"WRITE_RES", m, n>>) = 0
  BY DEF Place, Columnwise, pos, key

\* Every tile is on one of the P x Q processes.
LEMMA sy_RankIs ==
  ASSUME CallOK, Symmetric, NEW m \in 0 .. MT-1, NEW n \in 0 .. NT-1
  PROVE  sy_rank(m, n) \in 0 .. P*Q-1
<1>1. <<m, n>> \in Positions
  BY sy_Ranges
<1>2. sy_rank(<<m, n>>[1], <<m, n>>[2]) \in 0 .. P*Q-1
  BY <1>1, sy_Ranges
<1> QED BY <1>2

\* Who is sent a sum expects it from the sender.
LEMMA sy_Sent ==
  ASSUME CallOK, Symmetric, NEW step, NEW m, NEW n, IsTask(<<step, m, n>>),
         NEW x \in sy_Sends(step, m, n)
  PROVE  Received(x, <<step, m, n>>)
<1> DEFINE t == <<step, m, n>>
<1> USE DEF Received
<1>1. step \in Steps /\ Q \in Nat \ {0} /\ P*Q \in Nat
  BY sy_Raw, sy_Spaces
<1>2. CASE step = "STEP1"
  <2>1. m \in 0 .. MT-1 /\ n \in 0 .. NT-1
    BY <1>2, sy_Spaces
  <2>2. CASE sy_nextn(m, n) < NT
    <3>1. x = <<<<"STEP1", m, sy_nextn(m, n)>>, "W">>
      BY <1>2, <2>2 DEF sy_Sends
    <3>2. PICK k \in 0 .. NT-1 : k = sy_nextn(m, n) /\ sy_prevn(m, k) = n
      BY <2>1, <2>2, TileAfter
    <3>3. sy_prevn(m, k) + 1 > 0
      BY <2>1, <3>2
    <3>4. <<"W", t>> \in sy_Expects("STEP1", m, k)
      BY <1>2, <3>2, <3>3 DEF sy_Expects
    <3> QED BY <2>1, <3>1, <3>2, <3>4, sy_Raw, sy_Spaces
  <2>3. CASE ~(sy_nextn(m, n) < NT)
    <3>1. x = <<<<"STEP2", m, sy_rank(m, n)>>, "W">>
      BY <1>2, <2>3 DEF sy_Sends
    <3>2. PICK r \in 0 .. P*Q-1 : r = sy_rank(m, n)
      BY <2>1, sy_RankIs
    <3>3. sy_hadtile(m, r) = n
      BY <2>1, <2>3, <3>2, TileAfter
    <3>4. sy_hadtile(m, r) + 1 # 0
      BY <2>1, <3>3
    <3>5. <<"W", t>> \in sy_Expects("STEP2", m, r)
      BY <1>2, <3>3, <3>4 DEF sy_Expects
    <3> QED BY <2>1, <3>1, <3>2, <3>5, sy_Raw, sy_Spaces
  <2> QED BY <2>2, <2>3
<1>3. CASE step = "STEP2"
  <2>1. m \in 0 .. MT-1 /\ n \in 0 .. P*Q-1
    BY <1>3, sy_Spaces
  <2>2. CASE n < Q
    <3>1. x = <<<<"STEP2BIS", m, n>>, "W">> /\ n \in 0 .. Q-1
      BY <1>1, <1>3, <2>1, <2>2 DEF sy_Sends
    <3>2. <<"W", t>> \in sy_Expects("STEP2BIS", m, n)
      BY <1>3 DEF sy_Expects
    <3> QED BY <2>1, <3>1, <3>2, sy_Raw, sy_Spaces
  <2>3. CASE ~(n < Q)
    <3>1. x = <<<<"STEP2", m, n-Q>>, "A">>
      BY <1>3, <2>3 DEF sy_Sends
    <3>2. PICK k \in 0 .. P*Q-1 : k = n-Q /\ k+Q < P*Q /\ k+Q = n
      BY <1>1, <2>1, <2>3
    <3>3. <<"A", <<"STEP2", m, k+Q>>>> \in sy_Expects("STEP2", m, k)
      BY <3>2 DEF sy_Expects
    <3>4. <<"A", t>> \in sy_Expects("STEP2", m, k)
      BY <1>3, <3>2, <3>3
    <3> QED BY <2>1, <3>1, <3>2, <3>4, sy_Raw, sy_Spaces
  <2> QED BY <2>2, <2>3
<1>4. CASE step = "STEP2BIS"
  <2>1. m \in 0 .. MT-1 /\ n \in 0 .. Q-1 /\ Q \in Nat \ {0}
    BY <1>4, sy_Spaces
  <2>2. CASE n = Q-1
    <3>1. PICK j \in 0 .. Q-1 : x = <<<<"STEP3", m, j>>, "A">>
      BY <1>4, <2>2 DEF sy_Sends
    <3>2. <<"A", t>> \in sy_Expects("STEP3", m, j)
      BY <1>4, <2>2 DEF sy_Expects
    <3> QED BY <2>1, <3>1, <3>2, sy_Raw, sy_Spaces
  <2>3. CASE n # Q-1
    <3>1. x = <<<<"STEP2BIS", m, n+1>>, "A">>
      BY <1>4, <2>3 DEF sy_Sends
    <3>2. n+1 \in 0 .. Q-1 /\ n+1 # 0 /\ n+1-1 = n
      BY <2>1, <2>3
    <3>3. <<"A", t>> \in sy_Expects("STEP2BIS", m, n+1)
      <4>1. PICK k \in Int : k = n+1 /\ k # 0 /\ k-1 = n
        BY <2>1, <3>2
      <4>2. <<"A", <<"STEP2BIS", m, k-1>>>> \in sy_Expects("STEP2BIS", m, k)
        BY <4>1 DEF sy_Expects
      <4> QED BY <1>4, <4>1, <4>2
    <3> QED BY <2>1, <3>1, <3>2, <3>3, sy_Raw, sy_Spaces
  <2> QED BY <2>2, <2>3
<1>5. CASE step = "STEP3"
  <2>1. m \in 0 .. MT-1 /\ n \in 0 .. Q-1 /\ P \in Nat \ {0} /\ MT \in Nat
    BY <1>5, sy_Spaces
  <2>2. CASE m < P
    <3>1. x = <<<<"STEP4", m, n>>, "W">>
      BY <1>5, <2>2 DEF sy_Sends
    <3>2. m \in 0 .. P-1 /\ m <= MT-1
      BY <2>1, <2>2
    <3>3. <<"W", t>> \in sy_Expects("STEP4", m, n)
      BY <1>5, <3>2 DEF sy_Expects
    <3> QED BY <2>1, <3>1, <3>2, <3>3, sy_Raw, sy_Spaces
  <2>3. CASE ~(m < P)
    <3>1. x = <<<<"STEP3", m-P, n>>, "W">>
      BY <1>5, <2>3 DEF sy_Sends
    <3>2. m-P \in 0 .. MT-1 /\ m-P < MT-P /\ m-P+P = m
      BY <2>1, <2>3
    <3>3. <<"W", t>> \in sy_Expects("STEP3", m-P, n)
      BY <1>5, <3>2 DEF sy_Expects
    <3> QED BY <2>1, <3>1, <3>2, <3>3, sy_Raw, sy_Spaces
  <2> QED BY <2>2, <2>3
<1>6. CASE step = "STEP4"
  <2>1. m \in 0 .. P-1 /\ n \in 0 .. Q-1 /\ P \in Nat \ {0}
    BY <1>6, sy_Spaces
  <2>2. CASE m = P-1
    <3>1. PICK i \in 0 .. P-1 : x = <<<<"WRITE_RES", i, n>>, "W">>
      BY <1>6, <2>2 DEF sy_Sends
    <3>2. <<"W", t>> \in sy_Expects("WRITE_RES", i, n)
      BY <1>6, <2>2 DEF sy_Expects
    <3> QED BY <2>1, <3>1, <3>2, sy_Raw, sy_Spaces
  <2>3. CASE m # P-1
    <3>1. x = <<<<"STEP4", m+1, n>>, "A">>
      BY <1>6, <2>3 DEF sy_Sends
    <3>2. m+1 \in 0 .. P-1 /\ m+1 # 0 /\ m+1-1 = m
      BY <2>1, <2>3
    <3>3. <<"A", t>> \in sy_Expects("STEP4", m+1, n)
      <4>1. PICK k \in Int : k = m+1 /\ k # 0 /\ k-1 = m
        BY <2>1, <3>2
      <4>2. <<"A", <<"STEP4", k-1, n>>>> \in sy_Expects("STEP4", k, n)
        BY <4>1 DEF sy_Expects
      <4> QED BY <1>6, <4>1, <4>2
    <3> QED BY <2>1, <3>1, <3>2, <3>3, sy_Raw, sy_Spaces
  <2> QED BY <2>2, <2>3
<1>7. CASE step = "WRITE_RES"
  BY <1>7 DEF sy_Sends
<1> QED BY <1>1, <1>2, <1>3, <1>4, <1>5, <1>6, <1>7 DEF Steps

\* What is expected is sent, by an earlier task.
LEMMA sy_Delivered ==
  ASSUME CallOK, Symmetric, NEW step, NEW m, NEW n, IsTask(<<step, m, n>>),
         NEW x \in sy_Expects(step, m, n)
  PROVE  Delivered(x, <<step, m, n>>)
<1> DEFINE t == <<step, m, n>>
<1> USE DEF Delivered
<1>1. step \in Steps /\ Q \in Nat \ {0} /\ P \in Nat \ {0} /\ MT \in Nat /\ call.mt \in Nat /\ call.nt \in Nat
      /\ P*Q \in Nat
  BY sy_Raw, sy_Spaces
<1>2. CASE step = "STEP1"
  <2>1. m \in 0 .. MT-1 /\ n \in 0 .. NT-1
    BY <1>2, sy_Spaces
  <2>2. sy_prevn(m, n)+1 > 0 /\ x = <<"W", <<"STEP1", m, sy_prevn(m, n)>>>>
    BY <1>2 DEF sy_Expects
  <2>3. PICK k \in 0 .. NT-1 : k = sy_prevn(m, n) /\ k < n /\ sy_nextn(m, k) = n
    BY <2>1, <2>2, TileBefore
  <2>4. sy_nextn(m, k) < NT
    BY <2>1, <2>3, sy_Spaces
  <2>5. <<t, "W">> \in sy_Sends("STEP1", m, k)
    BY <1>2, <2>3, <2>4 DEF sy_Sends
  <2>6. Earlier(<<"STEP1", m, k>>, t)
    <3>1. Stage(<<"STEP1", m, k>>) = Stage(t)
      BY <1>2, Stages
    <3>2. Place(<<"STEP1", m, k>>) = k /\ Place(t) = n
      BY <1>2, sy_Places
    <3> QED BY <2>3, <3>1, <3>2 DEF Earlier
  <2> QED BY <2>1, <2>2, <2>3, <2>5, <2>6, sy_Raw, sy_Spaces
<1>3. CASE step = "STEP2"
  <2>1. m \in 0 .. MT-1 /\ n \in 0 .. P*Q-1
    BY <1>3, sy_Spaces
  <2>2. \/ n+Q < P*Q /\ x = <<"A", <<"STEP2", m, n+Q>>>>
        \/ sy_hadtile(m, n)+1 # 0 /\ x = <<"W", <<"STEP1", m, sy_hadtile(m, n)>>>>
    BY <1>3 DEF sy_Expects
  <2>3. CASE n+Q < P*Q /\ x = <<"A", <<"STEP2", m, n+Q>>>>
    <3>1. PICK k \in 0 .. P*Q-1 : k = n+Q /\ ~(k < Q) /\ k-Q = n
      BY <1>1, <2>1, <2>3
    <3>2. <<<<"STEP2", m, k-Q>>, "A">> \in sy_Sends("STEP2", m, k)
      BY <3>1 DEF sy_Sends
    <3>3. <<t, "A">> \in sy_Sends("STEP2", m, k)
      BY <1>3, <3>1, <3>2
    <3>4. Earlier(<<"STEP2", m, k>>, t)
      <4>1. Stage(<<"STEP2", m, k>>) = Stage(t)
        BY <1>3, Stages
      <4>2. Place(<<"STEP2", m, k>>) = P*Q - k /\ Place(t) = P*Q - n
        BY <1>3, sy_Places
      <4>3. P*Q - k < P*Q - n
        BY <1>1, <2>1, <3>1
      <4> QED BY <4>1, <4>2, <4>3 DEF Earlier
    <3> QED BY <2>1, <2>3, <3>1, <3>3, <3>4, sy_Raw, sy_Spaces
  <2>4. CASE sy_hadtile(m, n)+1 # 0 /\ x = <<"W", <<"STEP1", m, sy_hadtile(m, n)>>>>
    <3>1. PICK k \in 0 .. NT-1 : k = sy_hadtile(m, n) /\ sy_rank(m, k) = n /\ ~(sy_nextn(m, k) < NT)
      BY <2>1, <2>4, LastTile
    <3>2. <<t, "W">> \in sy_Sends("STEP1", m, k)
      BY <1>3, <3>1 DEF sy_Sends
    <3>3. Earlier(<<"STEP1", m, k>>, t)
      BY <1>3, Stages DEF Earlier
    <3> QED BY <2>1, <2>4, <3>1, <3>2, <3>3, sy_Raw, sy_Spaces
  <2> QED BY <2>2, <2>3, <2>4
<1>4. CASE step = "STEP2BIS"
  <2>1. m \in 0 .. MT-1 /\ n \in 0 .. Q-1
    BY <1>4, sy_Spaces
  <2>2. \/ n # 0 /\ x = <<"A", <<"STEP2BIS", m, n-1>>>>
        \/ x = <<"W", <<"STEP2", m, n>>>>
    BY <1>4 DEF sy_Expects
  <2>3. CASE n # 0 /\ x = <<"A", <<"STEP2BIS", m, n-1>>>>
    <3>1. PICK k \in 0 .. Q-1 : k = n-1 /\ k # Q-1 /\ k+1 = n
      BY <1>1, <2>1, <2>3
    <3>2. <<<<"STEP2BIS", m, k+1>>, "A">> \in sy_Sends("STEP2BIS", m, k)
      BY <3>1 DEF sy_Sends
    <3>3. <<t, "A">> \in sy_Sends("STEP2BIS", m, k)
      BY <1>4, <3>1, <3>2
    <3>4. Earlier(<<"STEP2BIS", m, k>>, t)
      <4>1. Stage(<<"STEP2BIS", m, k>>) = Stage(t)
        BY <1>4, Stages
      <4>2. Place(<<"STEP2BIS", m, k>>) = k /\ Place(t) = n
        BY <1>4, sy_Places
      <4> QED BY <2>1, <3>1, <4>1, <4>2 DEF Earlier
    <3> QED BY <2>1, <2>3, <3>1, <3>3, <3>4, sy_Raw, sy_Spaces
  <2>4. CASE x = <<"W", <<"STEP2", m, n>>>>
    <3>1. n \in 0 .. P*Q-1 /\ n < Q
      BY <1>1, <2>1, sy_Spaces
    <3>2. <<t, "W">> \in sy_Sends("STEP2", m, n)
      BY <1>4, <3>1 DEF sy_Sends
    <3>3. Earlier(<<"STEP2", m, n>>, t)
      BY <1>4, Stages DEF Earlier
    <3> QED BY <2>1, <2>4, <3>1, <3>2, <3>3, sy_Raw, sy_Spaces
  <2> QED BY <2>2, <2>3, <2>4
<1>5. CASE step = "STEP3"
  <2>1. m \in 0 .. MT-1 /\ n \in 0 .. Q-1
    BY <1>5, sy_Spaces
  <2>2. \/ x = <<"A", <<"STEP2BIS", m, Q-1>>>>
        \/ m < MT-P /\ x = <<"W", <<"STEP3", m+P, n>>>>
    BY <1>5 DEF sy_Expects
  <2>3. CASE x = <<"A", <<"STEP2BIS", m, Q-1>>>>
    <3>1. Q-1 \in 0 .. Q-1
      BY <1>1
    <3>2. <<t, "A">> \in sy_Sends("STEP2BIS", m, Q-1)
      BY <1>5, <2>1 DEF sy_Sends
    <3>3. Earlier(<<"STEP2BIS", m, Q-1>>, t)
      BY <1>5, Stages DEF Earlier
    <3> QED BY <2>1, <2>3, <3>1, <3>2, <3>3, sy_Raw, sy_Spaces
  <2>4. CASE m < MT-P /\ x = <<"W", <<"STEP3", m+P, n>>>>
    <3>1. m+P \in 0 .. MT-1 /\ ~(m+P < P) /\ m+P-P = m
      BY <1>1, <2>1, <2>4
    <3>2. <<t, "W">> \in sy_Sends("STEP3", m+P, n)
      <4>1. PICK k \in Int : k = m+P /\ ~(k < P) /\ k-P = m
        BY <1>1, <2>1, <3>1
      <4>2. <<<<"STEP3", k-P, n>>, "W">> \in sy_Sends("STEP3", k, n)
        BY <4>1 DEF sy_Sends
      <4> QED BY <1>5, <4>1, <4>2
    <3>3. Earlier(<<"STEP3", m+P, n>>, t)
      <4>1. Stage(<<"STEP3", m+P, n>>) = Stage(t)
        BY <1>5, Stages
      <4>2. Place(<<"STEP3", m+P, n>>) = call.mt + call.nt - (m+P) /\ Place(t) = call.mt + call.nt - m
        BY <1>5, sy_Places
      <4> QED BY <1>1, <2>1, <4>1, <4>2 DEF Earlier
    <3> QED BY <2>1, <2>4, <3>1, <3>2, <3>3, sy_Raw, sy_Spaces
  <2> QED BY <2>2, <2>3, <2>4
<1>6. CASE step = "STEP4"
  <2>1. m \in 0 .. P-1 /\ n \in 0 .. Q-1
    BY <1>6, sy_Spaces
  <2>2. \/ m # 0 /\ x = <<"A", <<"STEP4", m-1, n>>>>
        \/ m <= MT-1 /\ x = <<"W", <<"STEP3", m, n>>>>
    BY <1>6 DEF sy_Expects
  <2>3. CASE m # 0 /\ x = <<"A", <<"STEP4", m-1, n>>>>
    <3>1. m-1 \in 0 .. P-1 /\ m-1 # P-1 /\ m-1+1 = m
      BY <1>1, <2>1, <2>3
    <3>2. <<t, "A">> \in sy_Sends("STEP4", m-1, n)
      <4>1. PICK k \in Int : k = m-1 /\ k # P-1 /\ k+1 = m
        BY <2>1, <3>1
      <4>2. <<<<"STEP4", k+1, n>>, "A">> \in sy_Sends("STEP4", k, n)
        BY <4>1 DEF sy_Sends
      <4> QED BY <1>6, <4>1, <4>2
    <3>3. Earlier(<<"STEP4", m-1, n>>, t)
      <4>1. Stage(<<"STEP4", m-1, n>>) = Stage(t)
        BY <1>6, Stages
      <4>2. Place(<<"STEP4", m-1, n>>) = m-1 /\ Place(t) = m
        BY <1>6, sy_Places
      <4> QED BY <2>1, <4>1, <4>2 DEF Earlier
    <3> QED BY <2>1, <2>3, <3>1, <3>2, <3>3, sy_Raw, sy_Spaces
  <2>4. CASE m <= MT-1 /\ x = <<"W", <<"STEP3", m, n>>>>
    <3>1. m \in 0 .. MT-1 /\ m < P
      BY <1>1, <2>1, <2>4
    <3>2. <<t, "W">> \in sy_Sends("STEP3", m, n)
      BY <1>6, <3>1 DEF sy_Sends
    <3>3. Earlier(<<"STEP3", m, n>>, t)
      BY <1>6, Stages DEF Earlier
    <3> QED BY <2>1, <2>4, <3>1, <3>2, <3>3, sy_Raw, sy_Spaces
  <2> QED BY <2>2, <2>3, <2>4
<1>7. CASE step = "WRITE_RES"
  <2>1. m \in 0 .. P-1 /\ n \in 0 .. Q-1 /\ x = <<"W", <<"STEP4", P-1, n>>>>
    BY <1>7, sy_Spaces DEF sy_Expects
  <2>2. P-1 \in 0 .. P-1
    BY <1>1
  <2>3. <<t, "W">> \in sy_Sends("STEP4", P-1, n)
    BY <1>7, <2>1 DEF sy_Sends
  <2>4. Earlier(<<"STEP4", P-1, n>>, t)
    BY <1>7, Stages DEF Earlier
  <2> QED BY <2>1, <2>2, <2>3, <2>4, sy_Raw, sy_Spaces
<1> QED BY <1>1, <1>2, <1>3, <1>4, <1>5, <1>6, <1>7 DEF Steps

\* The two ends of the arrows.
LEMMA Ends ==
  ASSUME NEW t
  PROVE  /\ Sends(t) = {<<x[1], x[2], t>> : x \in RawSends(t)}
         /\ Expects(t) = {<<t, x[1], x[2]>> : x \in RawExpects(t)}
  BY DEF Sends, Expects, RawSends, RawExpects

\* All graphs: what a task expects is sent by an earlier task.
LEMMA ExpectedIsSent ==
  ASSUME CallOK, NEW t \in Tasks, NEW e \in Expects(t)
  PROVE  \E s \in Tasks : Earlier(s, t) /\ e \in Sends(s)
<1>1. PICK x \in RawExpects(t) : e = <<t, x[1], x[2]>>
  BY Ends
<1>2. IsTask(t)
  BY TaskIs
<1>3. PICK step, m, n : t = <<step, m, n>>
  BY <1>2 DEF IsTask
<1>4. Delivered(x, t)
  <2>1. CASE Rowwise
    BY <1>1, <1>2, <1>3, <2>1, frb_Raw, frb_Delivered
  <2>2. CASE Columnwise
    BY <1>1, <1>2, <1>3, <2>2, one_Raw, one_Delivered
  <2>3. CASE Symmetric
    BY <1>1, <1>2, <1>3, <2>3, sy_Raw, sy_Delivered
  <2> QED BY <2>1, <2>2, <2>3, Kinds
<1>5. PICK s : s = x[2] /\ IsTask(s) /\ <<t, x[1]>> \in RawSends(s) /\ Earlier(s, t)
  BY <1>4 DEF Delivered
<1>6. PICK y \in RawSends(s) : y = <<t, x[1]>>
  BY <1>5
<1>7. <<y[1], y[2], s>> \in Sends(s)
  BY Ends
<1>8. e = <<y[1], y[2], s>>
  BY <1>1, <1>5, <1>6
<1> QED BY <1>5, <1>7, <1>8, TaskIs

\* All graphs: what a task sends is expected.
LEMMA SentIsExpected ==
  ASSUME CallOK, NEW t \in Tasks, NEW e \in Sends(t)
  PROVE  \E s \in Tasks : e \in Expects(s)
<1>1. PICK x \in RawSends(t) : e = <<x[1], x[2], t>>
  BY Ends
<1>2. IsTask(t)
  BY TaskIs
<1>3. PICK step, m, n : t = <<step, m, n>>
  BY <1>2 DEF IsTask
<1>4. Received(x, t)
  <2>1. CASE Rowwise
    BY <1>1, <1>2, <1>3, <2>1, frb_Raw, frb_Sent
  <2>2. CASE Columnwise
    BY <1>1, <1>2, <1>3, <2>2, one_Raw, one_Sent
  <2>3. CASE Symmetric
    BY <1>1, <1>2, <1>3, <2>3, sy_Raw, sy_Sent
  <2> QED BY <2>1, <2>2, <2>3, Kinds
<1>5. PICK s : s = x[1] /\ IsTask(s) /\ <<x[2], t>> \in RawExpects(s)
  BY <1>4 DEF Received
<1>6. PICK y \in RawExpects(s) : y = <<x[2], t>>
  BY <1>5
<1>7. <<s, y[1], y[2]>> \in Expects(s)
  BY Ends
<1>8. e = <<s, y[1], y[2]>>
  BY <1>1, <1>5, <1>6
<1> QED BY <1>5, <1>7, <1>8, TaskIs

\* The order of the tasks is one of numbers,
LEMMA OrderIsNatural ==
  ASSUME CallOK, NEW t \in Tasks
  PROVE  Stage(t) \in Nat /\ Place(t) \in Nat
<1>1. IsTask(t)
  BY TaskIs
<1>2. PICK step, m, n : t = <<step, m, n>> /\ step \in Steps
  BY <1>1 DEF IsTask
<1>3. Stage(t) \in Nat
  BY <1>2, Stages DEF Steps
<1>4. IsTask(<<step, m, n>>)
  BY <1>1, <1>2
<1>5. CASE Rowwise
  <2>1. step = "STEP1" => m \in 0 .. MT-1 /\ n \in frb_nmin(m) .. frb_nmax(m)
    BY <1>4, <1>5, frb_Spaces
  <2>2. step = "STEP1" => n \in 0 .. NT-1
    <3>1. step = "STEP1" => <<m, n>> \in Positions
      BY <2>1, <1>5, frb_Ranges
    <3> QED BY <3>1, PairsAre
  <2>3. /\ MT \in Nat /\ NT \in Nat /\ MT <= call.mt /\ NT <= call.nt /\ call.mt \in Nat /\ call.nt \in Nat
        /\ Q \in Nat /\ P \in Nat
        /\ step = "STEP2" => n \in 0 .. Q-1
        /\ step = "STEP3" => m \in 0 .. MT-1
        /\ step = "STEP4" => m \in 0 .. P-1
        /\ step # "STEP2BIS"
    BY <1>4, <1>5, frb_Spaces
  <2>4. /\ step = "STEP1" => Place(t) = call.mt + call.nt - n
        /\ step = "STEP2" => Place(t) = n
        /\ step = "STEP3" => Place(t) = call.mt + call.nt - m
        /\ step = "STEP4" => Place(t) = m
        /\ step = "WRITE_RES" => Place(t) = 0
    BY <1>2, <1>5, frb_Places
  <2> QED BY <1>2, <1>3, <2>2, <2>3, <2>4 DEF Steps
<1>6. CASE Columnwise
  <2>1. step = "STEP1" => n \in 0 .. NT-1 /\ m \in one_mmin(n) .. one_mmax(n)
    BY <1>4, <1>6, one_Spaces
  <2>2. step = "STEP1" => m \in 0 .. MT-1
    <3>1. step = "STEP1" => <<m, n>> \in Positions
      BY <2>1, <1>6, one_Ranges
    <3> QED BY <3>1, PairsAre
  <2>3. /\ MT \in Nat /\ NT \in Nat /\ MT <= call.mt /\ NT <= call.nt /\ call.mt \in Nat /\ call.nt \in Nat
        /\ Q \in Nat /\ P \in Nat
        /\ step = "STEP2" => m \in 0 .. P-1
        /\ step = "STEP3" => n \in 0 .. NT-1
        /\ step = "STEP4" => n \in 0 .. Q-1
        /\ step # "STEP2BIS"
    BY <1>4, <1>6, one_Spaces
  <2>4. /\ step = "STEP1" => Place(t) = call.mt + call.nt - m
        /\ step = "STEP2" => Place(t) = m
        /\ step = "STEP3" => Place(t) = call.mt + call.nt - n
        /\ step = "STEP4" => Place(t) = n
        /\ step = "WRITE_RES" => Place(t) = 0
    BY <1>2, <1>6, one_Places
  <2> QED BY <1>2, <1>3, <2>2, <2>3, <2>4 DEF Steps
<1>7. CASE Symmetric
  <2>1. /\ MT \in Nat /\ NT \in Nat /\ MT <= call.mt /\ NT <= call.nt /\ call.mt \in Nat /\ call.nt \in Nat
        /\ Q \in Nat /\ P \in Nat /\ P*Q \in Nat
        /\ step = "STEP1" => n \in 0 .. NT-1
        /\ step = "STEP2" => n \in 0 .. P*Q-1
        /\ step = "STEP2BIS" => n \in 0 .. Q-1
        /\ step = "STEP3" => m \in 0 .. MT-1
        /\ step = "STEP4" => m \in 0 .. P-1
    BY <1>4, <1>7, sy_Spaces
  <2>2. /\ step = "STEP1" => Place(t) = n
        /\ step = "STEP2" => Place(t) = P*Q - n
        /\ step = "STEP2BIS" => Place(t) = n
        /\ step = "STEP3" => Place(t) = call.mt + call.nt - m
        /\ step = "STEP4" => Place(t) = m
        /\ step = "WRITE_RES" => Place(t) = 0
    BY <1>2, <1>7, sy_Places
  <2> QED BY <1>2, <1>3, <2>1, <2>2 DEF Steps
<1> QED BY <1>5, <1>6, <1>7, Kinds

\* so that some tasks have a first one.
LEMMA FirstTask ==
  ASSUME CallOK, NEW S, S \subseteq Tasks, S # {}
  PROVE  \E t \in S : \A s \in S : ~Earlier(s, t)
<1> DEFINE A == {Stage(t) : t \in S}
<1>1. \A t \in S : Stage(t) \in Nat /\ Place(t) \in Nat
  BY OrderIsNatural
<1>2. PICK a \in A : \A b \in A : a <= b
  <2>1. A \subseteq Nat /\ A # {}
    BY <1>1
  <2> HIDE DEF A
  <2> QED BY <2>1, LeastNumber
<1> DEFINE B == {Place(t) : t \in {u \in S : Stage(u) = a}}
<1>3. PICK c \in B : \A b \in B : c <= b
  <2>1. B \subseteq Nat /\ B # {}
    BY <1>1, <1>2
  <2> HIDE DEF B
  <2> QED BY <2>1, LeastNumber
<1>4. PICK t \in S : Stage(t) = a /\ Place(t) = c
  BY <1>3
<1>5. ASSUME NEW s \in S, Earlier(s, t) PROVE FALSE
  <2>1. Stage(s) \in A /\ a <= Stage(s) /\ a \in Nat /\ Stage(s) \in Nat
    BY <1>1, <1>2
  <2>2. Stage(s) = a /\ Place(s) < c
    BY <1>4, <1>5, <2>1 DEF Earlier
  <2>3. Place(s) \in B
    BY <2>2
  <2>4. c <= Place(s) /\ Place(s) \in Nat /\ c \in Nat
    BY <1>1, <1>3, <1>4, <2>3
  <2> QED BY <2>2, <2>4
<1> QED BY <1>4, <1>5

-----------------------------------------------------------------------------
(* The second invariant: which arrows were used and who has written, from  *)
(* the tasks that have completed.                                          *)
Writers(S) == {<<t[2], t[3]>> : t \in {u \in S : u[1] = "WRITE_RES"}}
ProgressInv ==
  /\ done \subseteq Tasks
  /\ DOMAIN sent = UNION {Sends(t) : t \in done}
  /\ DOMAIN norm = Writers(done)

\* The graph stays.
LEMMA GraphStays ==
  ASSUME call' = call
  PROVE  Tasks' = Tasks /\ \A t : Sends(t)' = Sends(t)
<1>1. \A m, r : sy_owned(m, r)' = sy_owned(m, r)
  BY LinesStay, CallStaysOf DEF sy_owned
<1>2. \A a, b, c, d, e, f : a = b /\ c = d /\ e = f => Of(a, c, e)' = Of(b, d, f)
  BY CallStaysOf DEF Of
<1>3. ASSUME NEW step PROVE Space(step)' = Space(step)
  <2>1. /\ frb_Space(step)' = frb_Space(step)
        /\ one_Space(step)' = one_Space(step)
        /\ sy_Space(step)' = sy_Space(step)
    BY CallStaysOf DEF frb_Space, one_Space, sy_Space, frb_nmin, frb_nmax, one_nmin, one_nmax
  <2> QED BY <2>1, CallStaysOf DEF Space, Of
<1>4. ASSUME NEW t PROVE Sends(t)' = Sends(t)
  <2> DEFINE m == t[2]
             n == t[3]
  <2>1. frb_Sends(t[1], m, n)' = frb_Sends(t[1], m, n)
    BY CallStaysOf DEF frb_Sends, frb_nmin
  <2>2. one_Sends(t[1], m, n)' = one_Sends(t[1], m, n)
    BY CallStaysOf DEF one_Sends, one_mmin
  <2>3. sy_nextn(m, n)' = sy_nextn(m, n)
    BY <1>1, LinesStay, CallStaysOf DEF sy_nextn
  <2>4. sy_Sends(t[1], m, n)' = sy_Sends(t[1], m, n)
    BY <2>3, LinesStay, CallStaysOf DEF sy_Sends
  <2> QED BY <2>1, <2>2, <2>4, CallStaysOf DEF Sends, Of
<1>5. Tasks' = Tasks
  BY <1>3 DEF Tasks, Steps
<1> QED BY <1>4, <1>5

\* No task has run.
LEMMA InitProgressInv ==
  ASSUME Init PROVE ProgressInv
<1>1. done = {} /\ DOMAIN sent = {} /\ DOMAIN norm = {}
  BY DEF Init
<1> QED BY <1>1 DEF ProgressInv, Writers

\* Ready tasks are tasks of the step, and their arrows are sent.
LEMMA RunProgress ==
  ASSUME ProgressInv, NEW step \in Steps, Run(step)
  PROVE  /\ done' = done \cup Ready(step) /\ call' = call
         /\ done' \subseteq Tasks'
         /\ (DOMAIN sent = UNION {Sends(t) : t \in done})'
         /\ \A t \in Ready(step) : t[1] = step
<1>1. /\ done' = done \cup Ready(step) /\ call' = call
      /\ DOMAIN sent' = (UNION {Sends(t) : t \in Ready(step)}) \cup DOMAIN sent
  BY DEF Run
<1>2. Ready(step) \subseteq Space(step)
  BY DEF Ready
<1>3. done' \subseteq Tasks'
  <2>1. Tasks' = Tasks
    BY <1>1, GraphStays
  <2>2. Space(step) \subseteq Tasks
    BY DEF Tasks
  <2> QED BY <1>1, <1>2, <2>1, <2>2 DEF ProgressInv
<1>4. DOMAIN sent' = UNION {Sends(t) : t \in done'}
  BY <1>1 DEF ProgressInv
<1>5. (DOMAIN sent = UNION {Sends(t) : t \in done})'
  BY <1>1, <1>4, GraphStays
<1>6. \A t \in Ready(step) : t[1] = step
  <2> TAKE t \in Ready(step)
  <2>1. t \in Space(step)
    BY <1>2
  <2>2. t = <<step, t[2], t[3]>>
    BY <2>1, SpaceIs
  <2> QED BY <2>2
<1> QED BY <1>1, <1>3, <1>5, <1>6

\* The invariant is inductive.
LEMMA NextProgressInv ==
  ASSUME ProgressInv, [Next]_vars PROVE ProgressInv'
<1>1. CASE UNCHANGED vars
  <2>1. call' = call /\ done' = done /\ sent' = sent /\ norm' = norm
    BY <1>1 DEF vars
  <2>2. done' \subseteq Tasks' /\ (DOMAIN norm = Writers(done))'
    BY <2>1, GraphStays DEF ProgressInv, Writers
  <2>3. (DOMAIN sent = UNION {Sends(t) : t \in done})'
    BY <2>1, GraphStays DEF ProgressInv
  <2> QED BY <2>2, <2>3 DEF ProgressInv
<1>2. ASSUME NEW step \in Steps, step # "WRITE_RES", Run(step), UNCHANGED norm PROVE ProgressInv'
  <2>1. /\ done' = done \cup Ready(step)
        /\ \A t \in Ready(step) : t[1] = step
    BY <1>2, RunProgress
  <2>2. Writers(done') = Writers(done)
    BY <1>2, <2>1 DEF Writers
  <2>3. (DOMAIN norm = Writers(done))'
    BY <1>2, <2>2 DEF ProgressInv, Writers
  <2> QED BY <1>2, <2>3, RunProgress DEF ProgressInv
<1>3. CASE WRITE_RES
  <2> DEFINE R == Ready("WRITE_RES")
  <2>1. Run("WRITE_RES") /\ "WRITE_RES" \in Steps
    BY <1>3 DEF WRITE_RES, Steps
  <2>2. done' = done \cup R /\ \A t \in R : t[1] = "WRITE_RES"
    BY <2>1, RunProgress
  <2>3. DOMAIN norm' = {<<t[2], t[3]>> : t \in R} \cup DOMAIN norm
    BY <1>3 DEF WRITE_RES
  <2> HIDE DEF R
  <2>4. DOMAIN norm' = Writers(done')
    BY <2>2, <2>3 DEF ProgressInv, Writers
  <2>5. (DOMAIN norm = Writers(done))'
    BY <2>4 DEF Writers
  <2> QED BY <2>1, <2>5, RunProgress DEF ProgressInv
<1>4. CASE Return
  BY <1>1, <1>4 DEF Return
<1>5. CASE Next
  <2>1. \A step \in {"STEP1", "STEP2", "STEP2BIS", "STEP3", "STEP4"} :
          step \in Steps /\ step # "WRITE_RES"
    BY DEF Steps
  <2>2. CASE STEP1
    BY <1>2, <2>1, <2>2 DEF STEP1
  <2>3. CASE STEP2
    BY <1>2, <2>1, <2>3 DEF STEP2
  <2>4. CASE STEP2BIS
    BY <1>2, <2>1, <2>4 DEF STEP2BIS
  <2>5. CASE STEP3
    BY <1>2, <2>1, <2>5 DEF STEP3
  <2>6. CASE STEP4
    BY <1>2, <2>1, <2>6 DEF STEP4
  <2> QED BY <1>3, <1>4, <1>5, <2>2, <2>3, <2>4, <2>5, <2>6 DEF Next
<1> QED BY <1>1, <1>5

\* If a task had not run, the first such would be ready.
LEMMA QuietMeansDone ==
  ASSUME CallOK, ProgressInv, Quiet PROVE done = Tasks
<1> DEFINE S == Tasks \ done
<1>1. ASSUME S # {} PROVE FALSE
  <2>1. PICK t \in S : \A s \in S : ~Earlier(s, t)
    BY <1>1, FirstTask
  <2>2. Expects(t) \subseteq DOMAIN sent
    <3> SUFFICES ASSUME NEW e \in Expects(t) PROVE e \in DOMAIN sent
      OBVIOUS
    <3>1. PICK s \in Tasks : Earlier(s, t) /\ e \in Sends(s)
      BY <2>1, ExpectedIsSent
    <3>2. s \in done
      BY <2>1, <3>1
    <3> QED BY <3>1, <3>2 DEF ProgressInv
  <2>3. PICK step \in Steps : t \in Space(step)
    BY <2>1 DEF Tasks
  <2>4. t \in Ready(step)
    BY <2>1, <2>2, <2>3 DEF Ready
  <2> QED BY <2>4 DEF Quiet
<1> QED BY <1>1 DEF ProgressInv

\* One task of WRITE_RES per process.
LEMMA WritersAre ==
  ASSUME CallOK PROVE Writers(Tasks) = (0 .. P-1) \X (0 .. Q-1)
<1>1. ASSUME NEW t \in Tasks, t[1] = "WRITE_RES"
      PROVE  <<t[2], t[3]>> \in (0 .. P-1) \X (0 .. Q-1)
  <2>1. IsTask(t)
    BY TaskIs
  <2>2. <<t[2], t[3]>> \in RawSpace("WRITE_RES")
    BY <1>1, <2>1 DEF IsTask
  <2> QED BY <2>2 DEF RawSpace, Of, frb_Space, one_Space, sy_Space
<1>2. ASSUME NEW p \in 0 .. P-1, NEW q \in 0 .. Q-1
      PROVE  <<"WRITE_RES", p, q>> \in Tasks
  <2>1. IsTask(<<"WRITE_RES", p, q>>)
    BY frb_Spaces, one_Spaces, sy_Spaces, Kinds
  <2> QED BY <2>1, TaskIs
<1>3. Writers(Tasks) \subseteq (0 .. P-1) \X (0 .. Q-1)
  BY <1>1 DEF Writers
<1>4. ASSUME NEW x \in (0 .. P-1) \X (0 .. Q-1) PROVE x \in Writers(Tasks)
  <2>1. PICK p \in 0 .. P-1, q \in 0 .. Q-1 : x = <<p, q>>
    OBVIOUS
  <2>2. PICK t \in Tasks : t = <<"WRITE_RES", p, q>>
    BY <1>2
  <2>3. t[1] = "WRITE_RES" /\ x = <<t[2], t[3]>>
    BY <2>1, <2>2
  <2> QED BY <2>3 DEF Writers
<1> QED BY <1>3, <1>4

\* At the end every arrow was used and every process has written.
LEMMA QuietMeansKnown ==
  ASSUME CallOK, ProgressInv PROVE EveryProcessKnows
<1> SUFFICES ASSUME Quiet
             PROVE  /\ done = Tasks
                    /\ DOMAIN sent = UNION {Expects(t) : t \in Tasks}
                    /\ DOMAIN norm = (0 .. P-1) \X (0 .. Q-1)
  BY DEF EveryProcessKnows, Tasks
<1>1. done = Tasks
  BY QuietMeansDone
<1>2. DOMAIN sent = UNION {Sends(t) : t \in Tasks}
  BY <1>1 DEF ProgressInv
<1>3. \A t \in Tasks : \A e \in Sends(t) : \E s \in Tasks : e \in Expects(s)
  BY SentIsExpected
<1>4. \A t \in Tasks : \A e \in Expects(t) : \E s \in Tasks : e \in Sends(s)
  BY ExpectedIsSent
<1>5. DOMAIN sent = UNION {Expects(t) : t \in Tasks}
  BY <1>2, <1>3, <1>4
<1>6. DOMAIN norm = (0 .. P-1) \X (0 .. Q-1)
  BY <1>1, WritersAre DEF ProgressInv
<1> QED BY <1>1, <1>5, <1>6

\* For every grid, matrix, norm and triangle the call does not get stuck: when nothing is
\* ready, every task has run, every sum went to the flow that expects it, and every process
\* of the grid has the norm (the arrows of the three graphs, both ways).
THEOREM EveryProcessHasIt ==
  ASSUME NormAssumption PROVE Spec => []EveryProcessKnows
<1>1. Init => GraphInv /\ ProgressInv
  BY InitGraphInv, InitProgressInv
<1>2. GraphInv /\ ProgressInv /\ [Next]_vars => GraphInv' /\ ProgressInv'
  BY NextGraphInv, NextProgressInv
<1>3. GraphInv /\ ProgressInv => EveryProcessKnows
  BY QuietMeansKnown DEF GraphInv
<1> QED BY <1>1, <1>2, <1>3, PTL DEF Spec
=============================================================================
