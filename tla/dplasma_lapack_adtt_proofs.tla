---------------------- MODULE dplasma_lapack_adtt_proofs ----------------------
(***************************************************************************)
(* The table of datatypes for any number of threads and addresses, any     *)
(* matrices and any calls of dplasma_setup_adtt_all_loc: a running         *)
(* taskpool finds for each of its tiles a datatype that covers exactly the *)
(* tile (TypesFound), and nothing outlives the collection or the taskpool  *)
(* it was made for (TablesClean).                                          *)
(*                                                                         *)
(* The inductive invariant says of each thread which of its entries are in *)
(* the tables: those it has come to while it sets up (Built), those it has *)
(* not come to while it cleans up (Cleaned).  Addresses of different       *)
(* threads are disjoint and every key starts with one of them, so a step   *)
(* of one thread leaves what the others see alone (Agree).  The references *)
(* of an arena are counted: one for each entry that holds it, one for an   *)
(* entry between its two steps, one for the setup of a default arena.      *)
(***************************************************************************)
EXTENDS dplasma_lapack_adtt, FiniteSetTheorems, TLAPS

-----------------------------------------------------------------------------
(* Arithmetic, and the orders of the locations.                             *)

LEMMA DivMod ==
  ASSUME NEW a \in Nat, NEW b \in Nat \ {0}
  PROVE  /\ a \div b \in Nat /\ a % b \in 0 .. b-1
         /\ a = b * (a \div b) + (a % b)
  BY SMT

LEMMA Quotient ==
  ASSUME NEW q \in Nat, NEW b \in Nat \ {0}, NEW r \in 0 .. b-1
  PROVE  (b * q + r) \div b = q /\ (b * q + r) % b = r
  BY SMT

(* Each order names every location once, dplasma_clean_adtt_all_loc too.    *)
LEMMA OrdersDistinct ==
  \A x, y \in 0 .. 8 :
    /\ LocOrder[x + 1] = LocOrder[y + 1] => x = y
    /\ TiledOrder[x + 1] = TiledOrder[y + 1] => x = y
  BY DEF LocOrder, TiledOrder

LEMMA OrdersComplete ==
  \A loc \in Locs :
    /\ \E x \in 0 .. 8 : LocOrder[x + 1] = loc
    /\ \E x \in 0 .. 8 : TiledOrder[x + 1] = loc
    /\ \E x \in 0 .. 8 : LocCodes[x + 1] = loc
<1> SUFFICES ASSUME NEW loc \in Locs
             PROVE  /\ \E x \in 0 .. 8 : LocOrder[x + 1] = loc
                    /\ \E x \in 0 .. 8 : TiledOrder[x + 1] = loc
                    /\ \E x \in 0 .. 8 : LocCodes[x + 1] = loc
  OBVIOUS
<1>1. /\ LocOrder[0+1] = "DFULL_T" /\ LocOrder[1+1] = "DC00" /\ LocOrder[2+1] = "DC0N"
      /\ LocOrder[3+1] = "DCM0" /\ LocOrder[4+1] = "DCMN" /\ LocOrder[5+1] = "DTOP"
      /\ LocOrder[6+1] = "DBOTTOM" /\ LocOrder[7+1] = "DLEFT" /\ LocOrder[8+1] = "DRIGHT"
  BY DEF LocOrder
<1>2. /\ TiledOrder[0+1] = "DFULL_T" /\ TiledOrder[1+1] = "DC00" /\ TiledOrder[2+1] = "DCM0"
      /\ TiledOrder[3+1] = "DC0N" /\ TiledOrder[4+1] = "DCMN" /\ TiledOrder[5+1] = "DTOP"
      /\ TiledOrder[6+1] = "DBOTTOM" /\ TiledOrder[7+1] = "DLEFT" /\ TiledOrder[8+1] = "DRIGHT"
  BY DEF TiledOrder
<1>3. LocCodes = TiledOrder BY DEF LocCodes, TiledOrder
<1> QED BY <1>1, <1>2, <1>3 DEF Locs

LEMMA OrdersTyped ==
  \A x \in 0 .. 8 : LocOrder[x + 1] \in Locs /\ TiledOrder[x + 1] \in Locs
  BY DEF LocOrder, TiledOrder, Locs

-----------------------------------------------------------------------------
Layouts == {"LAPACK", "TILED"}

(* The slots of a shape have different locations or layouts, and together   *)
(* all of them.                                                             *)
LEMMA SlotTyped ==
  ASSUME NEW d \in Matrices, NEW uplo, NEW s \in 0 .. 17
  PROVE  /\ Slot(d, uplo, s).loc \in Locs
         /\ Slot(d, uplo, s).layout \in Layouts
         /\ Slot(d, uplo, s).reuse \in BOOLEAN
<1>1. CASE d.storage = "TILED"
  <2>1. s \div 2 \in 0 .. 8 BY SMT
  <2>2. TiledOrder[s \div 2 + 1] \in Locs BY <2>1, OrdersTyped
  <2> QED BY <1>1, <2>2 DEF Slot, Layouts
<1>2. CASE d.storage # "TILED"
  <2>1. s % 9 \in 0 .. 8 BY SMT
  <2>2. LocOrder[(s % 9) + 1] \in Locs BY <2>1, OrdersTyped
  <2> QED BY <1>2, <2>2 DEF Slot, Layouts
<1> QED BY <1>1, <1>2

LEMMA SlotsDistinct ==
  ASSUME NEW d \in Matrices, NEW uplo, NEW s \in 0 .. 17, NEW u \in 0 .. 17,
         Slot(d, uplo, s).loc = Slot(d, uplo, u).loc,
         Slot(d, uplo, s).layout = Slot(d, uplo, u).layout
  PROVE  s = u
<1>1. CASE d.storage = "TILED"
  <2>1. s \div 2 \in 0 .. 8 /\ u \div 2 \in 0 .. 8 BY SMT
  <2>2. TiledOrder[s \div 2 + 1] = TiledOrder[u \div 2 + 1] /\ (s % 2 = 0 <=> u % 2 = 0)
    BY <1>1 DEF Slot
  <2>3. s \div 2 = u \div 2 BY <2>1, <2>2, OrdersDistinct
  <2> QED BY <2>2, <2>3
<1>2. CASE d.storage # "TILED"
  <2>1. s % 9 \in 0 .. 8 /\ u % 9 \in 0 .. 8 BY SMT
  <2>2. LocOrder[(s % 9) + 1] = LocOrder[(u % 9) + 1] /\ (s < 9 <=> u < 9)
    BY <1>2 DEF Slot
  <2>3. s % 9 = u % 9 BY <2>1, <2>2, OrdersDistinct
  <2> QED BY <2>2, <2>3
<1> QED BY <1>1, <1>2

(* One of the 18 slots of a shape is for this location and layout.         *)
HasSlot(d, uplo, loc, layout) ==
  \E s \in 0 .. 17 : Slot(d, uplo, s).loc = loc /\ Slot(d, uplo, s).layout = layout

LEMMA SlotsComplete ==
  \A d \in Matrices, loc \in Locs, layout \in Layouts : \A uplo : HasSlot(d, uplo, loc, layout)
<1> SUFFICES ASSUME NEW d \in Matrices, NEW uplo, NEW loc \in Locs, NEW layout \in Layouts
             PROVE  \E s \in 0 .. 17 : Slot(d, uplo, s).loc = loc /\ Slot(d, uplo, s).layout = layout
  BY DEF HasSlot
<1>1. CASE d.storage = "TILED"
  <2>1. PICK x \in 0 .. 8 : TiledOrder[x + 1] = loc BY OrdersComplete
  <2> DEFINE s == 2 * x + (IF layout = "TILED" THEN 0 ELSE 1)
  <2>2. s \in 0 .. 17 /\ s \div 2 = x /\ (s % 2 = 0 <=> layout = "TILED") BY SMT
  <2>3. Slot(d, uplo, s).loc = TiledOrder[s \div 2 + 1]
        /\ Slot(d, uplo, s).layout = IF s % 2 = 0 THEN "TILED" ELSE "LAPACK" BY <1>1 DEF Slot
  <2> HIDE DEF s
  <2> QED BY <2>1, <2>2, <2>3 DEF Layouts
<1>2. CASE d.storage # "TILED"
  <2>1. PICK x \in 0 .. 8 : LocOrder[x + 1] = loc BY OrdersComplete
  <2> DEFINE s == x + (IF layout = "LAPACK" THEN 0 ELSE 9)
  <2>2. s \in 0 .. 17 /\ s % 9 = x /\ (s < 9 <=> layout = "LAPACK") BY SMT
  <2>3. Slot(d, uplo, s).loc = LocOrder[(s % 9) + 1]
        /\ Slot(d, uplo, s).layout = IF s < 9 THEN "LAPACK" ELSE "TILED" BY <1>2 DEF Slot
  <2> HIDE DEF s
  <2> QED BY <2>1, <2>2, <2>3 DEF Layouts
<1> QED BY <1>1, <1>2

\* The slots that share the datatype of the collection agree in what it describes.
LEMMA SlotsAgree ==
  ASSUME NEW d \in Matrices, NEW uplo, NEW s \in 0 .. 17, NEW vplo, NEW u \in 0 .. 17,
         Slot(d, uplo, s).reuse, Slot(d, vplo, u).reuse
  PROVE  /\ Slot(d, uplo, s).lda = Slot(d, vplo, u).lda
         /\ Slot(d, uplo, s).rows = Slot(d, vplo, u).rows
         /\ Slot(d, uplo, s).cols = Slot(d, vplo, u).cols
<1>1. CASE d.storage = "TILED" BY <1>1 DEF Slot
<1>2. CASE d.storage # "TILED"
  <2>1. s < 9 /\ u < 9 BY <1>2 DEF Slot
  <2> QED BY <1>2, <2>1 DEF Slot
<1> QED BY <1>1, <1>2

-----------------------------------------------------------------------------
\* A taskpool whose matrices are wrapped at different addresses.
-----------------------------------------------------------------------------
(* The entries of a taskpool: entry x is made for slot x % Slots of call    *)
(* x \div Slots.                                                            *)
Owned(pool) == {pool.ddcs[i] : i \in DOMAIN pool.ddcs}

WorkOK(pool) ==
  /\ pool.mats \in Seq(Matrices)
  /\ pool.shapes \in Setups(pool.mats)
  /\ pool.ddcs \in [1 .. Len(pool.mats) -> Nat]
  /\ \A i, j \in 1 .. Len(pool.mats) : pool.ddcs[i] = pool.ddcs[j] => i = j

Entries(pool) == Slots * Len(pool.shapes)
CallOf(pool, x) == pool.shapes[x \div Slots + 1]
MatOf(pool, x)  == pool.mats[CallOf(pool, x).mat]
SlotOf(pool, x) == Slot(MatOf(pool, x), CallOf(pool, x).uplo, x % Slots)

LEMMA CallTyped ==
  ASSUME NEW pool, WorkOK(pool), NEW x \in 0 .. Entries(pool) - 1
  PROVE  /\ x \div Slots \in 0 .. Len(pool.shapes) - 1
         /\ x % Slots \in 0 .. 17
         /\ x = 18 * (x \div Slots) + (x % Slots)
         /\ CallOf(pool, x).mat \in 1 .. Len(pool.mats)
         /\ MatOf(pool, x) \in Matrices
         /\ CallOf(pool, x) \in [mat : 1 .. Len(pool.mats), uplo : {"FULL", "LOWER", "UPPER"}]
<1>1. Len(pool.shapes) \in Nat /\ Slots = 18 /\ Entries(pool) = 18 * Len(pool.shapes)
  BY DEF WorkOK, Setups, Entries, Slots
<1>2. x \div 18 \in 0 .. Len(pool.shapes) - 1 /\ x % 18 \in 0 .. 17
       /\ x = 18 * (x \div 18) + (x % 18)
  <2>1. x \in Nat /\ x < 18 * Len(pool.shapes) BY <1>1
  <2>2. x \div 18 \in Nat /\ x % 18 \in 0 .. 17 /\ x = 18 * (x \div 18) + (x % 18)
    BY <2>1, SMT
  <2> QED BY <1>1, <2>1, <2>2, SMT
<1>3. CallOf(pool, x) \in [mat : 1 .. Len(pool.mats), uplo : {"FULL", "LOWER", "UPPER"}]
  <2> DEFINE C == [mat : 1 .. Len(pool.mats), uplo : {"FULL", "LOWER", "UPPER"}]
  <2>1. x \div 18 + 1 \in 1 .. Len(pool.shapes) BY <1>1, <1>2
  <2>2. pool.shapes \in Seq(C) BY DEF WorkOK, Setups
  <2> HIDE DEF C
  <2>3. pool.shapes[x \div 18 + 1] \in C BY <2>1, <2>2
  <2> QED BY <2>3, <1>1 DEF CallOf, C
<1>4. MatOf(pool, x) \in Matrices
  BY <1>3 DEF MatOf, WorkOK
<1> QED BY <1>1, <1>2, <1>3, <1>4

LEMMA EntryIs ==
  ASSUME NEW t, NEW pool, NEW x
  PROVE  /\ Entry(t, pool, x).ddc = pool.ddcs[CallOf(pool, x).mat]
         /\ Entry(t, pool, x).info.lda = SlotOf(pool, x).lda
         /\ Entry(t, pool, x).info.rows = SlotOf(pool, x).rows
         /\ Entry(t, pool, x).info.cols = SlotOf(pool, x).cols
         /\ Entry(t, pool, x).info.loc = SlotOf(pool, x).loc
         /\ Entry(t, pool, x).info.shape = x \div Slots
         /\ Entry(t, pool, x).info.layout = SlotOf(pool, x).layout
  BY DEF Entry, SlotOf, CallOf, MatOf

LEMMA SharedEntry ==
  ASSUME NEW t, NEW pool, NEW x, SlotOf(pool, x).reuse
  PROVE  /\ Entry(t, pool, x).dtt = <<"default_dtt", CallOf(pool, x).mat>>
         /\ Entry(t, pool, x).arena = <<t, x \div Slots>>
  BY DEF Entry, SlotOf, CallOf, MatOf

LEMMA OwnEntry ==
  ASSUME NEW t, NEW pool, NEW x, ~SlotOf(pool, x).reuse
  PROVE  /\ Entry(t, pool, x).dtt = <<t, x \div Slots, SlotOf(pool, x).loc, SlotOf(pool, x).layout>>
         /\ Entry(t, pool, x).arena = Entry(t, pool, x).dtt
  BY DEF Entry, SlotOf, CallOf, MatOf

LEMMA EntryFacts ==
  ASSUME NEW t, NEW pool, WorkOK(pool), NEW x \in 0 .. Entries(pool) - 1
  PROVE  /\ Entry(t, pool, x).ddc \in Owned(pool)
         /\ Entry(t, pool, x).arena[1] = t
         /\ Len(Entry(t, pool, x).arena) \in {2, 4}
         /\ Entry(t, pool, x).info.loc \in Locs
         /\ Entry(t, pool, x).info.layout \in Layouts
         /\ Entry(t, pool, x).info.shape = x \div Slots
<1>1. SlotOf(pool, x).loc \in Locs /\ SlotOf(pool, x).layout \in Layouts
       /\ SlotOf(pool, x).reuse \in BOOLEAN
  BY CallTyped, SlotTyped DEF SlotOf
<1>2. CallOf(pool, x).mat \in DOMAIN pool.ddcs
  BY CallTyped DEF WorkOK
<1>3. Entry(t, pool, x).ddc \in Owned(pool)
  BY <1>2, EntryIs DEF Owned
<1>4. /\ Entry(t, pool, x).info.loc \in Locs
      /\ Entry(t, pool, x).info.layout \in Layouts
      /\ Entry(t, pool, x).info.shape = x \div Slots
  BY <1>1, EntryIs
<1>5. CASE SlotOf(pool, x).reuse
  <2>1. Entry(t, pool, x).arena = <<t, x \div Slots>> BY <1>5, SharedEntry
  <2> QED BY <1>3, <1>4, <2>1
<1>6. CASE ~SlotOf(pool, x).reuse
  <2>1. Entry(t, pool, x).arena = <<t, x \div Slots, SlotOf(pool, x).loc, SlotOf(pool, x).layout>>
    BY <1>6, OwnEntry
  <2> QED BY <1>3, <1>4, <2>1
<1> QED BY <1>5, <1>6

\* Two entries of a taskpool have different keys in the table of descriptions.
LEMMA KeysDistinct ==
  ASSUME NEW t, NEW pool, WorkOK(pool), NEW x \in 0 .. Entries(pool) - 1,
         NEW y \in 0 .. Entries(pool) - 1,
         InfoKey(Entry(t, pool, x).ddc, Entry(t, pool, x).info)
           = InfoKey(Entry(t, pool, y).ddc, Entry(t, pool, y).info)
  PROVE  x = y
<1>1. /\ Entry(t, pool, x).info.loc = Entry(t, pool, y).info.loc
      /\ Entry(t, pool, x).info.shape = Entry(t, pool, y).info.shape
      /\ Entry(t, pool, x).info.layout = Entry(t, pool, y).info.layout
  BY DEF InfoKey
<1>2. x \div Slots = y \div Slots /\ SlotOf(pool, x).loc = SlotOf(pool, y).loc
       /\ SlotOf(pool, x).layout = SlotOf(pool, y).layout
  BY <1>1, EntryIs
<1>3. CallOf(pool, x) = CallOf(pool, y) /\ MatOf(pool, x) = MatOf(pool, y)
  BY <1>2 DEF CallOf, MatOf
<1>4. /\ x % Slots \in 0 .. 17 /\ x = 18 * (x \div Slots) + (x % Slots)
       /\ MatOf(pool, x) \in Matrices
      /\ y % Slots \in 0 .. 17 /\ y = 18 * (y \div Slots) + (y % Slots)
  BY CallTyped
<1>5. x % Slots = y % Slots
  BY <1>2, <1>3, <1>4, SlotsDistinct DEF SlotOf
<1> QED BY <1>2, <1>4, <1>5

\* Two entries with the same datatype describe the same memory.
LEMMA SameDatatype ==
  ASSUME NEW t, NEW pool, WorkOK(pool), NEW x \in 0 .. Entries(pool) - 1,
         NEW y \in 0 .. Entries(pool) - 1,
         Entry(t, pool, x).ddc = Entry(t, pool, y).ddc,
         Entry(t, pool, x).dtt = Entry(t, pool, y).dtt
  PROVE  /\ Entry(t, pool, x).info.lda = Entry(t, pool, y).info.lda
         /\ Entry(t, pool, x).info.rows = Entry(t, pool, y).info.rows
         /\ Entry(t, pool, x).info.cols = Entry(t, pool, y).info.cols
<1>1. /\ SlotOf(pool, x).loc \in Locs /\ SlotOf(pool, x).layout \in Layouts
       /\ SlotOf(pool, x).reuse \in BOOLEAN
      /\ SlotOf(pool, y).loc \in Locs /\ SlotOf(pool, y).layout \in Layouts
         /\ SlotOf(pool, y).reuse \in BOOLEAN
  BY CallTyped, SlotTyped DEF SlotOf
<1>2. SlotOf(pool, x).reuse <=> SlotOf(pool, y).reuse
  <2>1. ASSUME NEW u \in {x, y} PROVE Len(Entry(t, pool, u).dtt)
         = IF SlotOf(pool, u).reuse THEN 2 ELSE 4
    <3>1. CASE SlotOf(pool, u).reuse
      <4>1. Entry(t, pool, u).dtt = <<"default_dtt", CallOf(pool, u).mat>> BY <3>1, SharedEntry
      <4> QED BY <3>1, <4>1
    <3>2. CASE ~SlotOf(pool, u).reuse
      <4>1. Entry(t, pool, u).dtt = <<t, u \div Slots, SlotOf(pool, u).loc, SlotOf(pool, u).layout>>
        BY <3>2, OwnEntry
      <4> QED BY <3>2, <4>1
    <3> QED BY <3>1, <3>2
  <2>2. Len(Entry(t, pool, x).dtt) = IF SlotOf(pool, x).reuse THEN 2 ELSE 4 BY <2>1
  <2>3. Len(Entry(t, pool, y).dtt) = IF SlotOf(pool, y).reuse THEN 2 ELSE 4 BY <2>1
  <2> QED BY <1>1, <2>2, <2>3
<1>3. CASE SlotOf(pool, x).reuse
  <2>1. CallOf(pool, x).mat = CallOf(pool, y).mat
    <3>1. Entry(t, pool, x).dtt = <<"default_dtt", CallOf(pool, x).mat>> BY <1>3, SharedEntry
    <3>2. Entry(t, pool, y).dtt = <<"default_dtt", CallOf(pool, y).mat>> BY <1>2, <1>3, SharedEntry
    <3>3. <<"default_dtt", CallOf(pool, x).mat>> = <<"default_dtt", CallOf(pool, y).mat>>
      BY <3>1, <3>2
    <3> QED BY <3>3
  <2>2. MatOf(pool, x) = MatOf(pool, y) BY <2>1 DEF MatOf
  <2>3. /\ SlotOf(pool, x).lda = SlotOf(pool, y).lda
        /\ SlotOf(pool, x).rows = SlotOf(pool, y).rows
        /\ SlotOf(pool, x).cols = SlotOf(pool, y).cols
    <3>1. x % Slots \in 0 .. 17 /\ y % Slots \in 0 .. 17 /\ MatOf(pool, x) \in Matrices BY CallTyped
    <3> DEFINE d == MatOf(pool, x)
               u == x % Slots
               v == y % Slots
               uplo == CallOf(pool, x).uplo
               vplo == CallOf(pool, y).uplo
    <3>2. SlotOf(pool, x) = Slot(d, uplo, u) /\ SlotOf(pool, y) = Slot(d, vplo, v)
      BY <2>2 DEF SlotOf
    <3>3. d \in Matrices /\ u \in 0 .. 17 /\ v \in 0 .. 17 BY <3>1
    <3>4. Slot(d, uplo, u).reuse /\ Slot(d, vplo, v).reuse BY <1>2, <1>3, <3>2
    <3> HIDE DEF d, u, v, uplo, vplo
    <3>5. /\ Slot(d, uplo, u).lda = Slot(d, vplo, v).lda
          /\ Slot(d, uplo, u).rows = Slot(d, vplo, v).rows
          /\ Slot(d, uplo, u).cols = Slot(d, vplo, v).cols
      BY <3>3, <3>4, SlotsAgree, Zenon
    <3> QED BY <3>2, <3>5
  <2> QED BY <2>3, EntryIs
<1>4. CASE ~SlotOf(pool, x).reuse
  <2>1. x \div Slots = y \div Slots /\ SlotOf(pool, x).loc = SlotOf(pool, y).loc
         /\ SlotOf(pool, x).layout = SlotOf(pool, y).layout
    <3>1. Entry(t, pool, x).dtt = <<t, x \div Slots, SlotOf(pool, x).loc, SlotOf(pool, x).layout>>
      BY <1>4, OwnEntry
    <3>2. Entry(t, pool, y).dtt = <<t, y \div Slots, SlotOf(pool, y).loc, SlotOf(pool, y).layout>>
      BY <1>2, <1>4, OwnEntry
    <3>3. <<t, x \div Slots, SlotOf(pool, x).loc, SlotOf(pool, x).layout>>
          = <<t, y \div Slots, SlotOf(pool, y).loc, SlotOf(pool, y).layout>> BY <3>1, <3>2
    <3> QED BY <3>3
  <2>2. CallOf(pool, x) = CallOf(pool, y) /\ MatOf(pool, x) = MatOf(pool, y)
    BY <2>1 DEF CallOf, MatOf
  <2>3. /\ x % Slots \in 0 .. 17 /\ x = 18 * (x \div Slots) + (x % Slots)
         /\ MatOf(pool, x) \in Matrices
        /\ y % Slots \in 0 .. 17 /\ y = 18 * (y \div Slots) + (y % Slots)
    BY CallTyped
  <2>4. x % Slots = y % Slots
    BY <2>1, <2>2, <2>3, SlotsDistinct DEF SlotOf
  <2>5. x = y BY <2>1, <2>3, <2>4
  <2> QED BY <2>5
<1> QED BY <1>1, <1>3, <1>4

-----------------------------------------------------------------------------
(* What a thread has in the tables.                                         *)
KeyD(e) == <<e.ddc, e.dtt>>
KeyI(e) == InfoKey(e.ddc, e.info)
TypeOf(e) == [dtt |-> e.dtt, arena |-> e.arena, info |-> e.info]

\* The arena of an entry between its two steps, when entered and when removed.
Pending(t, p) ==
  IF p.pc = "setup" /\ p.step % 2 = 1 THEN {Entry(t, p, p.step \div 2).arena}
  ELSE IF p.pc = "removing" THEN {p.held.arena} ELSE {}

\* While it sets up: the entries up to its step, of which the last may be half made.
Built(t, p, I, T) ==
  /\ \A x \in 0 .. (p.step \div 2) - 1 :
       KeyI(Entry(t, p, x)) \in DOMAIN T /\ T[KeyI(Entry(t, p, x))] = TypeOf(Entry(t, p, x))
  /\ \A x \in 0 .. ((p.step + 1) \div 2) - 1 : KeyD(Entry(t, p, x)) \in DOMAIN I
  /\ \A k \in DOMAIN I : k[1] \in Owned(p) =>
       \E x \in 0 .. ((p.step + 1) \div 2) - 1 : k = KeyD(Entry(t, p, x))
         /\ I[k] = Entry(t, p, x).info
  /\ \A k \in DOMAIN T : k[1] \in Owned(p) =>
       \E x \in 0 .. (p.step \div 2) - 1 : k = KeyI(Entry(t, p, x))

\* While it cleans up: the keys it has not come to, with both parts of their entries.
Cleaned(p, I, T) ==
  /\ \A k \in DOMAIN T : k[1] \in Owned(p) =>
       \E x \in p.step .. CleanTotal(p) - 1 :
         k = KeyToClean(p, x) /\ (p.pc = "removing" => x # p.step)
  /\ \A k \in DOMAIN I : k[1] \in Owned(p) =>
       \/ \E j \in DOMAIN T : k = <<j[1], T[j].dtt>>
       \/ p.pc = "removing" /\ k = <<KeyToClean(p, p.step)[1], p.held.dtt>>

\* The taskpool of a thread is well formed.
PoolOK(p) ==
  /\ p = [pc |-> p.pc, mats |-> p.mats, ddcs |-> p.ddcs, shapes |-> p.shapes,
          step |-> p.step, held |-> p.held]
  /\ \/ p = NoPool
     \/ /\ p.pc \in {"setup", "run", "clean", "removing"}
        /\ WorkOK(p)
        /\ p.step \in Nat
        /\ p.pc = "setup" => p.step <= Total(p)
        /\ p.pc = "run" => p.step = Total(p)
        /\ p.pc \in {"clean", "removing"} => p.step <= CleanTotal(p)
        /\ p.pc = "removing" => p.step < CleanTotal(p)
        /\ p.pc # "removing" => p.held = <<>>

\* A thread finds its part of the tables as its step says.
ThreadOK(t, p, I, T) ==
  /\ p.pc \in {"setup", "run"} => Built(t, p, I, T)
  /\ p.pc \in {"clean", "removing"} => Cleaned(p, I, T)
  /\ \A k \in DOMAIN T : k[1] \in Owned(p) => T[k].arena[1] = t
  /\ \A a \in Pending(t, p) : a[1] = t

\* Two tables agree on the entries of the addresses O, and everywhere else.
Agree(f, g, O) ==
  \A k : k[1] \in O => /\ k \in DOMAIN f <=> k \in DOMAIN g
                       /\ k \in DOMAIN f => g[k] = f[k]

\* f and g differ in entries about O only.
Only(f, g, O) ==
  \A k : k[1] \notin O => /\ k \in DOMAIN f <=> k \in DOMAIN g
                          /\ k \in DOMAIN f => g[k] = f[k]

LEMMA OnlyAgree ==
  ASSUME NEW f, NEW g, NEW O, NEW S, Only(f, g, O), O \cap S = {}
  PROVE  Agree(f, g, S)
<1>1. \A x : x \in S => x \notin O OBVIOUS
<1> QED BY <1>1 DEF Only, Agree

\* What a taskpool sees does not depend on the entries of other collections.
LEMMA OthersUntouched ==
  ASSUME NEW t, NEW p, NEW I, NEW T, NEW I2, NEW T2,
         ThreadOK(t, p, I, T), Agree(I, I2, Owned(p)), Agree(T, T2, Owned(p)), PoolOK(p)
  PROVE  ThreadOK(t, p, I2, T2)
<1>1. ASSUME p.pc \in {"setup", "run"} PROVE Built(t, p, I2, T2)
  <2>1. Built(t, p, I, T) /\ WorkOK(p) /\ p.step \in Nat /\ p.step <= Total(p)
    BY <1>1 DEF ThreadOK, PoolOK, NoPool
  <2>2. ASSUME NEW x \in 0 .. Entries(p) - 1
        PROVE  KeyI(Entry(t, p, x))[1] \in Owned(p) /\ KeyD(Entry(t, p, x))[1] \in Owned(p)
    BY <2>1, EntryFacts DEF KeyI, KeyD, InfoKey
  <2>3. /\ Len(p.shapes) \in Nat /\ Entries(p) = 18 * Len(p.shapes) /\ Total(p) = 36 * Len(p.shapes)
    BY <2>1 DEF WorkOK, Setups, Entries, Total, Slots
  <2>4. p.step \div 2 \in Nat /\ (p.step + 1) \div 2 \in Nat
        /\ p.step \div 2 <= Entries(p) /\ (p.step + 1) \div 2 <= Entries(p)
    <3>1. ASSUME NEW n \in Nat, NEW l \in Nat, n <= 36 * l
          PROVE  /\ n \div 2 \in Nat /\ (n + 1) \div 2 \in Nat
                 /\ n \div 2 <= 18 * l /\ (n + 1) \div 2 <= 18 * l
      BY <3>1, SMT
    <3>2. p.step \in Nat /\ Len(p.shapes) \in Nat /\ p.step <= 36 * Len(p.shapes) BY <2>1, <2>3
    <3> QED BY <2>3, <3>1, <3>2
  <2>5. \A x \in 0 .. (p.step \div 2) - 1 :
       KeyI(Entry(t, p, x)) \in DOMAIN T2 /\ T2[KeyI(Entry(t, p, x))] = TypeOf(Entry(t, p, x))
    <3>1. TAKE x \in 0 .. (p.step \div 2) - 1
    <3>2. x \in 0 .. Entries(p) - 1 BY <2>3, <2>4
    <3> QED BY <2>1, <2>2, <3>2 DEF Built, Agree
  <2>6. \A x \in 0 .. ((p.step + 1) \div 2) - 1 : KeyD(Entry(t, p, x)) \in DOMAIN I2
    <3>1. TAKE x \in 0 .. ((p.step + 1) \div 2) - 1
    <3>2. x \in 0 .. Entries(p) - 1 BY <2>3, <2>4
    <3> QED BY <2>1, <2>2, <3>2 DEF Built, Agree
  <2>7. /\ \A k \in DOMAIN I2 : k[1] \in Owned(p) => k \in DOMAIN I /\ I2[k] = I[k]
        /\ \A k \in DOMAIN T2 : k[1] \in Owned(p) => k \in DOMAIN T
    BY DEF Agree
  <2> QED BY <2>1, <2>5, <2>6, <2>7 DEF Built
<1>2. ASSUME p.pc \in {"clean", "removing"} PROVE Cleaned(p, I2, T2)
  <2>1. Cleaned(p, I, T) BY <1>2 DEF ThreadOK
  <2>2. /\ \A k \in DOMAIN I2 : k[1] \in Owned(p) => k \in DOMAIN I
        /\ \A k \in DOMAIN T2 : k[1] \in Owned(p) => k \in DOMAIN T
        /\ \A k \in DOMAIN T : k[1] \in Owned(p) => k \in DOMAIN T2 /\ T2[k] = T[k]
    BY DEF Agree
  <2> QED BY <2>1, <2>2 DEF Cleaned
<1>3. \A k \in DOMAIN T2 : k[1] \in Owned(p) => T2[k].arena[1] = t
  BY DEF ThreadOK, Agree
<1>4. \A a \in Pending(t, p) : a[1] = t BY DEF ThreadOK
<1> QED BY <1>1, <1>2, <1>3, <1>4 DEF ThreadOK

\* A thread between two steps that change nothing of its collections.
LEMMA SameWork ==
  ASSUME NEW t, NEW p, NEW q, q.mats = p.mats, q.ddcs = p.ddcs, q.shapes = p.shapes
  PROVE  /\ Owned(q) = Owned(p) /\ (WorkOK(q) <=> WorkOK(p))
         /\ Entries(q) = Entries(p) /\ Total(q) = Total(p) /\ CleanTotal(q) = CleanTotal(p)
         /\ \A x : Entry(t, q, x) = Entry(t, p, x)
         /\ \A x : KeyToClean(q, x) = KeyToClean(p, x)
<1>1. Owned(q) = Owned(p) BY DEF Owned
<1>2. WorkOK(q) <=> WorkOK(p) BY DEF WorkOK
<1>3. Entries(q) = Entries(p) /\ Total(q) = Total(p) /\ CleanTotal(q) = CleanTotal(p)
  BY DEF Entries, Total, CleanTotal
<1>4. \A x : Entry(t, q, x) = Entry(t, p, x) BY DEF Entry
<1>5. \A x : KeyToClean(q, x) = KeyToClean(p, x) BY DEF KeyToClean
<1> QED BY <1>1, <1>2, <1>3, <1>4, <1>5

\* The sizes of a taskpool.
LEMMA PoolSizes ==
  ASSUME NEW p, WorkOK(p)
  PROVE  /\ Len(p.shapes) \in Nat /\ Len(p.mats) \in Nat /\ Len(p.ddcs) = Len(p.mats)
         /\ DOMAIN p.ddcs = 1 .. Len(p.mats)
         /\ Entries(p) = 18 * Len(p.shapes) /\ Total(p) = 36 * Len(p.shapes)
         /\ Entries(p) \in Nat /\ Total(p) \in Nat /\ Total(p) = 2 * Entries(p)
         /\ CleanTotal(p) = Entries(p) * Len(p.mats) /\ CleanTotal(p) \in Nat
<1>1. Len(p.shapes) \in Nat /\ Len(p.mats) \in Nat BY DEF WorkOK, Setups
<1>2. DOMAIN p.ddcs = 1 .. Len(p.mats) /\ Len(p.ddcs) = Len(p.mats)
  <2>1. p.ddcs \in Seq(Nat) BY <1>1 DEF WorkOK
  <2>2. DOMAIN p.ddcs = 1 .. Len(p.mats) BY DEF WorkOK
  <2>3. Len(p.ddcs) \in Nat /\ DOMAIN p.ddcs = 1 .. Len(p.ddcs) BY <2>1
  <2>4. Len(p.ddcs) = Len(p.mats) BY <1>1, <2>2, <2>3
  <2> QED BY <2>2, <2>4
<1>3. Entries(p) = 18 * Len(p.shapes) /\ Total(p) = 36 * Len(p.shapes)
      /\ CleanTotal(p) = Entries(p) * Len(p.mats)
  BY <1>1, <1>2 DEF Entries, Total, CleanTotal, Slots
<1>4. Entries(p) \in Nat /\ Total(p) \in Nat /\ Total(p) = 2 * Entries(p) BY <1>1, <1>3
<1>5. CleanTotal(p) \in Nat
  <2>1. \A a, b \in Nat : a * b \in Nat OBVIOUS
  <2> QED BY <1>1, <1>3, <1>4, <2>1
<1> QED BY <1>1, <1>2, <1>3, <1>4, <1>5

\* Each half of an entry moves one of the two frontiers.
LEMMA Halves ==
  ASSUME NEW n \in Nat
  PROVE  /\ n \div 2 \in Nat /\ (n + 1) \div 2 \in Nat
         /\ n % 2 = 0 => n = 2 * (n \div 2) /\ (n + 1) \div 2 = n \div 2
            /\ (n + 2) \div 2 = n \div 2 + 1
                         /\ (n + 1) % 2 = 1
         /\ n % 2 # 0 => n = 2 * (n \div 2) + 1 /\ (n + 1) \div 2 = n \div 2 + 1
            /\ (n + 2) \div 2 = n \div 2 + 1
                         /\ n % 2 = 1 /\ (n + 1) % 2 = 0
  BY SMT

LEMMA FirstHalf ==
  ASSUME NEW t, NEW p, NEW q, NEW I, NEW T, NEW I2,
         WorkOK(p), p.step \in Nat, p.step < Total(p), p.step % 2 = 0, Built(t, p, I, T),
         q.mats = p.mats, q.ddcs = p.ddcs, q.shapes = p.shapes, q.step = p.step + 1,
         LET e == Entry(t, p, p.step \div 2)
         IN I2 = IF KeyD(e) \in DOMAIN I THEN I ELSE Extend(I, KeyD(e), e.info)
  PROVE  Built(t, q, I2, T)
<1> DEFINE n == p.step \div 2
           e == Entry(t, p, n)
<1>1. /\ n \in Nat /\ p.step = 2 * n /\ (p.step + 1) \div 2 = n
      /\ q.step \div 2 = n /\ (q.step + 1) \div 2 = n + 1
  BY Halves
<1>2. n \in 0 .. Entries(p) - 1
  <2>1. ASSUME NEW x \in Nat, NEW y \in Nat, 2 * x < 2 * y PROVE x \in 0 .. y - 1
    BY <2>1, SMT
  <2>2. Entries(p) \in Nat /\ Total(p) = 2 * Entries(p) BY PoolSizes
  <2>3. n \in Nat /\ p.step = 2 * n BY <1>1
  <2> HIDE DEF n
  <2> QED BY <2>1, <2>2, <2>3
<1>3. Owned(q) = Owned(p) /\ \A x : Entry(t, q, x) = Entry(t, p, x) BY SameWork
<1>4. KeyD(e)[1] \in Owned(p) BY <1>2, EntryFacts DEF KeyD
<1> HIDE DEF n
<1>5. \A x \in 0 .. n - 1 :
        KeyI(Entry(t, q, x)) \in DOMAIN T /\ T[KeyI(Entry(t, q, x))] = TypeOf(Entry(t, q, x))
  BY <1>1, <1>3 DEF Built, n
<1>6. \A k \in DOMAIN T : k[1] \in Owned(q) => \E x \in 0 .. n - 1 : k = KeyI(Entry(t, q, x))
  BY <1>1, <1>3 DEF Built, n
<1>7. /\ \A x \in 0 .. n - 1 : KeyD(Entry(t, p, x)) \in DOMAIN I
      /\ \A k \in DOMAIN I : k[1] \in Owned(p) =>
           \E x \in 0 .. n - 1 : k = KeyD(Entry(t, p, x)) /\ I[k] = Entry(t, p, x).info
  BY <1>1 DEF Built
<1>8. I2 = IF KeyD(e) \in DOMAIN I THEN I ELSE Extend(I, KeyD(e), e.info) BY DEF n
<1> HIDE DEF e
<1>9. /\ DOMAIN I2 = DOMAIN I \cup {KeyD(e)}
      /\ \A k \in DOMAIN I : I2[k] = I[k]
      /\ KeyD(e) \notin DOMAIN I => I2[KeyD(e)] = e.info
  BY <1>8 DEF Extend
<1>10. \A x \in 0 .. n : KeyD(Entry(t, p, x)) \in DOMAIN I2
  <2>1. TAKE x \in 0 .. n
  <2>2. CASE x = n BY <2>2, <1>9 DEF e
  <2>3. CASE x # n
    <3>1. x \in 0 .. n - 1 BY <1>1, <2>3
    <3> QED BY <3>1, <1>7, <1>9
  <2> QED BY <2>2, <2>3
<1>11. \A k \in DOMAIN I2 : k[1] \in Owned(p) =>
           \E x \in 0 .. n : k = KeyD(Entry(t, p, x)) /\ I2[k] = Entry(t, p, x).info
  <2>1. SUFFICES ASSUME NEW k \in DOMAIN I2, k[1] \in Owned(p)
                 PROVE \E x \in 0 .. n : k = KeyD(Entry(t, p, x)) /\ I2[k] = Entry(t, p, x).info
    OBVIOUS
  <2>2. CASE k \in DOMAIN I
    <3>1. PICK x \in 0 .. n - 1 : k = KeyD(Entry(t, p, x)) /\ I[k] = Entry(t, p, x).info
      BY <1>7, <2>1, <2>2
    <3>2. x \in 0 .. n BY <1>1
    <3> QED BY <3>1, <3>2, <1>9, <2>2
  <2>3. CASE k \notin DOMAIN I
    <3>1. k = KeyD(e) /\ I2[k] = e.info BY <1>9, <2>3, <2>1
    <3>2. n \in 0 .. n BY <1>1
    <3> QED BY <3>1, <3>2 DEF e
  <2> QED BY <2>2, <2>3
<1>12. q.step \div 2 = n /\ (q.step + 1) \div 2 = n + 1 BY <1>1 DEF n
<1>13. 0 .. (q.step \div 2) - 1 = 0 .. n - 1 /\ 0 .. ((q.step + 1) \div 2) - 1 = 0 .. n
  BY <1>1, <1>12
<1>14. /\ \A x \in 0 .. n : KeyD(Entry(t, q, x)) \in DOMAIN I2
       /\ \A k \in DOMAIN I2 : k[1] \in Owned(q) =>
           \E x \in 0 .. n : k = KeyD(Entry(t, q, x)) /\ I2[k] = Entry(t, q, x).info
  BY <1>3, <1>10, <1>11
<1> QED BY <1>5, <1>6, <1>13, <1>14, Zenon DEF Built

LEMMA SecondHalf ==
  ASSUME NEW t, NEW p, NEW q, NEW I, NEW T, NEW T2,
         WorkOK(p), p.step \in Nat, p.step < Total(p), p.step % 2 # 0, Built(t, p, I, T),
         q.mats = p.mats, q.ddcs = p.ddcs, q.shapes = p.shapes, q.step = p.step + 1,
         LET e == Entry(t, p, p.step \div 2)
         IN T2 = IF KeyI(e) \in DOMAIN T THEN T ELSE Extend(T, KeyI(e), TypeOf(e))
  PROVE  /\ Built(t, q, I, T2)
         /\ KeyI(Entry(t, p, p.step \div 2)) \notin DOMAIN T
<1> DEFINE n == p.step \div 2
           e == Entry(t, p, n)
<1>1. /\ n \in Nat /\ p.step = 2 * n + 1 /\ (p.step + 1) \div 2 = n + 1
      /\ q.step \div 2 = n + 1 /\ (q.step + 1) \div 2 = n + 1
  BY Halves
<1>2. n \in 0 .. Entries(p) - 1
  <2>1. ASSUME NEW x \in Nat, NEW y \in Nat, 2 * x + 1 < 2 * y PROVE x \in 0 .. y - 1
    BY <2>1, SMT
  <2>2. Entries(p) \in Nat /\ Total(p) = 2 * Entries(p) BY PoolSizes
  <2>3. n \in Nat /\ p.step = 2 * n + 1 BY <1>1
  <2> HIDE DEF n
  <2> QED BY <2>1, <2>2, <2>3
<1>3. Owned(q) = Owned(p) /\ \A x : Entry(t, q, x) = Entry(t, p, x) BY SameWork
<1>4. KeyI(e)[1] \in Owned(p) BY <1>2, EntryFacts DEF KeyI, InfoKey
<1>5. T2 = IF KeyI(e) \in DOMAIN T THEN T ELSE Extend(T, KeyI(e), TypeOf(e)) BY DEF n
<1> HIDE DEF n
<1>6. /\ \A x \in 0 .. n - 1 :
           KeyI(Entry(t, p, x)) \in DOMAIN T /\ T[KeyI(Entry(t, p, x))] = TypeOf(Entry(t, p, x))
      /\ \A k \in DOMAIN T : k[1] \in Owned(p) => \E x \in 0 .. n - 1 : k = KeyI(Entry(t, p, x))
  BY <1>1 DEF Built, n
<1>7. /\ \A x \in 0 .. n : KeyD(Entry(t, q, x)) \in DOMAIN I
      /\ \A k \in DOMAIN I : k[1] \in Owned(q) =>
           \E x \in 0 .. n : k = KeyD(Entry(t, q, x)) /\ I[k] = Entry(t, q, x).info
  <2>1. n + 1 - 1 = n BY <1>1
  <2> QED BY <1>1, <1>3, <2>1 DEF Built
<1>8. KeyI(e) \notin DOMAIN T
  <2>1. SUFFICES ASSUME KeyI(e) \in DOMAIN T PROVE FALSE OBVIOUS
  <2>2. PICK x \in 0 .. n - 1 : KeyI(e) = KeyI(Entry(t, p, x)) BY <2>1, <1>4, <1>6
  <2>3. Entries(p) \in Nat BY PoolSizes
  <2>4. x \in 0 .. Entries(p) - 1 /\ x # n BY <1>1, <1>2, <2>2, <2>3
  <2> QED BY <2>2, <2>4, <1>2, KeysDistinct DEF KeyI
<1> HIDE DEF e
<1>9. /\ DOMAIN T2 = DOMAIN T \cup {KeyI(e)}
      /\ \A k \in DOMAIN T : T2[k] = T[k]
      /\ T2[KeyI(e)] = TypeOf(e)
  BY <1>5, <1>8 DEF Extend
<1>10. \A x \in 0 .. n : KeyI(Entry(t, p, x)) \in DOMAIN T2
        /\ T2[KeyI(Entry(t, p, x))] = TypeOf(Entry(t, p, x))
  <2>1. TAKE x \in 0 .. n
  <2>2. CASE x = n BY <2>2, <1>9 DEF e
  <2>3. CASE x # n
    <3>1. x \in 0 .. n - 1 BY <1>1, <2>3
    <3> QED BY <3>1, <1>6, <1>9
  <2> QED BY <2>2, <2>3
<1>11. \A k \in DOMAIN T2 : k[1] \in Owned(p) => \E x \in 0 .. n : k = KeyI(Entry(t, p, x))
  <2>1. SUFFICES ASSUME NEW k \in DOMAIN T2, k[1] \in Owned(p)
                 PROVE \E x \in 0 .. n : k = KeyI(Entry(t, p, x))
    OBVIOUS
  <2>2. CASE k \in DOMAIN T
    <3>1. PICK x \in 0 .. n - 1 : k = KeyI(Entry(t, p, x)) BY <1>6, <2>1, <2>2
    <3>2. x \in 0 .. n BY <1>1
    <3> QED BY <3>1, <3>2
  <2>3. CASE k \notin DOMAIN T
    <3>1. k = KeyI(e) BY <1>9, <2>3, <2>1
    <3>2. n \in 0 .. n BY <1>1
    <3> QED BY <3>1, <3>2 DEF e
  <2> QED BY <2>2, <2>3
<1>12. Built(t, q, I, T2)
  <2>1. q.step \div 2 = n + 1 /\ (q.step + 1) \div 2 = n + 1 BY <1>1
  <2>2. 0 .. (q.step \div 2) - 1 = 0 .. n /\ 0 .. ((q.step + 1) \div 2) - 1 = 0 .. n BY <1>1, <2>1
  <2>3. /\ \A x \in 0 .. n : KeyI(Entry(t, q, x)) \in DOMAIN T2
                                /\ T2[KeyI(Entry(t, q, x))] = TypeOf(Entry(t, q, x))
        /\ \A k \in DOMAIN T2 : k[1] \in Owned(q) => \E x \in 0 .. n : k = KeyI(Entry(t, q, x))
    BY <1>3, <1>10, <1>11
  <2> QED BY <1>7, <2>2, <2>3, Zenon DEF Built
<1> QED BY <1>8, <1>12 DEF e, n

LEMMA Multiples ==
  ASSUME NEW a \in Nat, NEW i \in Nat, NEW n \in Nat
  PROVE  /\ a * i \in Nat /\ a * n \in Nat /\ a * (i + 1) = a * i + a
         /\ i + 1 <= n => a * (i + 1) <= a * n
<1>1. a * i \in Nat /\ a * n \in Nat /\ a * (i + 1) = a * i + a OBVIOUS
<1>2. ASSUME i + 1 <= n PROVE a * (i + 1) <= a * n
  <2>1. n - (i + 1) \in Nat /\ n = (i + 1) + (n - (i + 1)) BY <1>2
  <2>2. PICK k \in Nat : n = (i + 1) + k BY <2>1
  <2>3. a * ((i + 1) + k) = a * (i + 1) + a * k OBVIOUS
  <2>4. a * k \in Nat /\ a * (i + 1) \in Nat OBVIOUS
  <2>5. a * n = a * (i + 1) + a * k BY <2>2, <2>3
  <2> QED BY <2>4, <2>5
<1> QED BY <1>1, <1>2

\* Every entry a taskpool makes is one of those it comes to when it cleans.
LEMMA KeyCovered ==
  ASSUME NEW t, NEW p, WorkOK(p), NEW x \in 0 .. Entries(p) - 1
  PROVE  \E y \in 0 .. CleanTotal(p) - 1 : KeyI(Entry(t, p, x)) = KeyToClean(p, y)
<1> DEFINE e == Entry(t, p, x)
           E == Entries(p)
           M == Len(p.mats)
           m == CallOf(p, x).mat
           h == x \div Slots
<1>1. E \in Nat /\ M \in Nat /\ E = 18 * Len(p.shapes) /\ CleanTotal(p) = E * M /\ Slots = 18
      /\ Len(p.shapes) \in Nat
  BY PoolSizes DEF Slots
<1>2. h \in 0 .. Len(p.shapes) - 1 /\ m \in 1 .. M BY CallTyped
<1>3. e.info.loc \in Locs /\ e.info.layout \in Layouts /\ e.info.shape = h /\ e.ddc = p.ddcs[m]
  BY EntryFacts, EntryIs
<1>4. PICK c \in 0 .. 8 : LocCodes[c + 1] = e.info.loc BY <1>3, OrdersComplete
<1>5. PICK b \in {0, 1} : b = 0 <=> e.info.layout = "LAPACK"
  <2>1. CASE e.info.layout = "LAPACK" BY <2>1
  <2>2. CASE e.info.layout # "LAPACK" BY <2>2
  <2> QED BY <2>1, <2>2
<1> HIDE DEF e, E, M, m, h
<1> DEFINE rest == 18 * h + (9 * b + c)
<1>6. /\ rest \in 0 .. E - 1 /\ rest \in Nat
      /\ rest % 9 = c /\ rest \div 18 = h /\ (rest % 18) \div 9 = b
  <2>1. h \in Nat /\ h <= Len(p.shapes) - 1 /\ 9 * b + c \in 0 .. 17 BY <1>1, <1>2, SMT
  <2>2. rest \div 18 = h /\ rest % 18 = 9 * b + c BY <2>1, SMT
  <2>3. (9 * b + c) \div 9 = b /\ (9 * b + c) % 9 = c BY SMT
  <2>4. rest % 9 = c BY <2>1, SMT
  <2>5. rest \in 0 .. E - 1 /\ rest \in Nat BY <1>1, <2>1, SMTT(30)
  <2> QED BY <2>2, <2>3, <2>4, <2>5
<1> HIDE DEF rest
<1> DEFINE y == E * (m - 1) + rest
<1>7. y \div E = m - 1 /\ y % E = rest
  <2>1. m - 1 \in Nat /\ E \in Nat \ {0} /\ rest \in 0 .. E - 1 BY <1>1, <1>2, <1>6
  <2> QED BY <2>1, Quotient
<1>8. y \in 0 .. CleanTotal(p) - 1
  <2>1. PICK i \in Nat : m = i + 1 /\ i + 1 <= M
    <3>1. m - 1 \in Nat /\ m = (m - 1) + 1 /\ m <= M BY <1>1, <1>2
    <3> QED BY <3>1
  <2>2. E * (i + 1) <= E * M /\ E * i \in Nat /\ E * M \in Nat BY <1>1, <2>1, Multiples
  <2>3. E * (i + 1) = E * i + E BY <1>1, <2>1, Multiples
  <2>4. y = E * i + rest
    <3>1. m - 1 = i BY <2>1
    <3> QED BY <3>1
  <2> HIDE DEF y
  <2>5. ASSUME NEW u \in Nat, NEW v \in Nat, u + E <= v PROVE u + rest \in 0 .. v - 1
    BY <1>1, <1>6, <2>5
  <2>6. E * i + E <= E * M BY <2>2, <2>3
  <2>7. E * i + rest \in 0 .. E * M - 1 BY <2>2, <2>5, <2>6
  <2> QED BY <1>1, <2>4, <2>7
<1> HIDE DEF y
<1>9. KeyToClean(p, y) = <<p.ddcs[m], e.info.loc, h, e.info.layout>>
  <2>1. y \div (Slots * Len(p.shapes)) + 1 = m /\ y % (Slots * Len(p.shapes)) = rest
    <3>1. Slots * Len(p.shapes) = E BY <1>1
    <3>2. m \in Int BY <1>2, <1>1
    <3> QED BY <3>1, <3>2, <1>7
  <2>2. KeyToClean(p, y) = <<p.ddcs[m], LocCodes[(rest % 9) + 1], rest \div Slots,
                            IF (rest % Slots) \div 9 = 0 THEN "LAPACK" ELSE "TILED">>
    BY <2>1 DEF KeyToClean
  <2>3. (IF (rest % Slots) \div 9 = 0 THEN "LAPACK" ELSE "TILED") = e.info.layout
    BY <1>1, <1>3, <1>5, <1>6 DEF Layouts
  <2>4. LocCodes[(rest % 9) + 1] = e.info.loc /\ rest \div Slots = h BY <1>1, <1>4, <1>6
  <2> QED BY <2>2, <2>3, <2>4
<1>10. KeyI(e) = <<p.ddcs[m], e.info.loc, h, e.info.layout>> BY <1>3 DEF KeyI, InfoKey
<1> QED BY <1>8, <1>9, <1>10 DEF e

\* A taskpool that has set up everything finds it all when it starts to clean.
LEMMA StopCleans ==
  ASSUME NEW t, NEW p, NEW q, NEW I, NEW T, WorkOK(p), Built(t, p, I, T), p.step = Total(p),
         q.mats = p.mats, q.ddcs = p.ddcs, q.shapes = p.shapes, q.step = 0, q.pc = "clean"
  PROVE  Cleaned(q, I, T)
<1>1. /\ p.step \div 2 = Entries(p) /\ (p.step + 1) \div 2 = Entries(p) /\ Entries(p) \in Nat
  <2>1. \A n \in Nat : (2 * n) \div 2 = n /\ (2 * n + 1) \div 2 = n OBVIOUS
  <2> QED BY <2>1, PoolSizes
<1>2. /\ Owned(q) = Owned(p) /\ CleanTotal(q) = CleanTotal(p)
      /\ \A x : KeyToClean(q, x) = KeyToClean(p, x)
  BY SameWork
<1>3. ASSUME NEW k \in DOMAIN T, k[1] \in Owned(q)
      PROVE  \E x \in q.step .. CleanTotal(q) - 1 :
               k = KeyToClean(q, x) /\ (q.pc = "removing" => x # q.step)
  <2>1. PICK x \in 0 .. Entries(p) - 1 : k = KeyI(Entry(t, p, x)) BY <1>1, <1>2, <1>3 DEF Built
  <2>2. PICK y \in 0 .. CleanTotal(p) - 1 : k = KeyToClean(p, y) BY <2>1, KeyCovered
  <2> QED BY <1>2, <2>2
<1>4. ASSUME NEW k \in DOMAIN I, k[1] \in Owned(q)
      PROVE  \E j \in DOMAIN T : k = <<j[1], T[j].dtt>>
  <2>1. PICK x \in 0 .. Entries(p) - 1 : k = KeyD(Entry(t, p, x)) BY <1>1, <1>2, <1>4 DEF Built
  <2>2. KeyI(Entry(t, p, x)) \in DOMAIN T /\ T[KeyI(Entry(t, p, x))] = TypeOf(Entry(t, p, x))
    BY <1>1 DEF Built
  <2> QED BY <2>1, <2>2 DEF KeyI, KeyD, InfoKey, TypeOf
<1> QED BY <1>3, <1>4 DEF Cleaned

\* The three steps of the clean-up keep what Cleaned says.
LEMMA CleanSkip ==
  ASSUME NEW p, NEW q, NEW I, NEW T, Cleaned(p, I, T), p.step \in Nat, WorkOK(p),
         p.pc = "clean", KeyToClean(p, p.step) \notin DOMAIN T,
         q.mats = p.mats, q.ddcs = p.ddcs, q.shapes = p.shapes, q.step = p.step + 1, q.pc = "clean"
  PROVE  Cleaned(q, I, T)
<1>1. /\ Owned(q) = Owned(p) /\ CleanTotal(q) = CleanTotal(p) /\ CleanTotal(p) \in Nat
      /\ \A x : KeyToClean(q, x) = KeyToClean(p, x)
  BY SameWork, PoolSizes
<1>2. ASSUME NEW k \in DOMAIN T, k[1] \in Owned(q)
      PROVE  \E x \in q.step .. CleanTotal(q) - 1 : k = KeyToClean(q, x)
  <2>1. PICK x \in p.step .. CleanTotal(p) - 1 : k = KeyToClean(p, x) BY <1>1, <1>2 DEF Cleaned
  <2>2. x \in q.step .. CleanTotal(q) - 1 BY <1>1, <1>2, <2>1
  <2> QED BY <1>1, <2>1, <2>2
<1>3. ASSUME NEW k \in DOMAIN I, k[1] \in Owned(q)
      PROVE  \E j \in DOMAIN T : k = <<j[1], T[j].dtt>>
  BY <1>1, <1>3 DEF Cleaned
<1> QED BY <1>2, <1>3 DEF Cleaned

LEMMA CleanFirst ==
  ASSUME NEW p, NEW q, NEW I, NEW T, NEW T2, Cleaned(p, I, T), p.step \in Nat, WorkOK(p),
         p.pc = "clean", KeyToClean(p, p.step) \in DOMAIN T, T2 = Without(T, KeyToClean(p, p.step)),
         q.mats = p.mats, q.ddcs = p.ddcs, q.shapes = p.shapes, q.step = p.step, q.pc = "removing",
         q.held = T[KeyToClean(p, p.step)]
  PROVE  Cleaned(q, I, T2)
<1> DEFINE c == KeyToClean(p, p.step)
<1>1. /\ Owned(q) = Owned(p) /\ CleanTotal(q) = CleanTotal(p)
      /\ \A x : KeyToClean(q, x) = KeyToClean(p, x)
  BY SameWork
<1>2. DOMAIN T2 = DOMAIN T \ {c} /\ \A k \in DOMAIN T2 : T2[k] = T[k] BY DEF Without
<1>3. ASSUME NEW k \in DOMAIN T2, k[1] \in Owned(q)
      PROVE  \E x \in q.step .. CleanTotal(q) - 1 :
               k = KeyToClean(q, x) /\ (q.pc = "removing" => x # q.step)
  <2>1. PICK x \in p.step .. CleanTotal(p) - 1 : k = KeyToClean(p, x)
    BY <1>1, <1>2, <1>3 DEF Cleaned
  <2>2. x # p.step BY <1>2, <1>3, <2>1
  <2> QED BY <1>1, <2>1, <2>2
<1>4. ASSUME NEW k \in DOMAIN I, k[1] \in Owned(q)
      PROVE  \/ \E j \in DOMAIN T2 : k = <<j[1], T2[j].dtt>>
             \/ q.pc = "removing" /\ k = <<KeyToClean(q, q.step)[1], q.held.dtt>>
  <2>1. PICK j \in DOMAIN T : k = <<j[1], T[j].dtt>> BY <1>1, <1>4 DEF Cleaned
  <2>2. CASE j # c BY <1>2, <2>1, <2>2
  <2>3. CASE j = c BY <1>1, <2>1, <2>3
  <2> QED BY <2>2, <2>3
<1> QED BY <1>3, <1>4 DEF Cleaned

LEMMA CleanSecond ==
  ASSUME NEW p, NEW q, NEW I, NEW T, NEW I2, Cleaned(p, I, T), p.step \in Nat, WorkOK(p),
         p.pc = "removing", I2 = Without(I, <<KeyToClean(p, p.step)[1], p.held.dtt>>),
         q.mats = p.mats, q.ddcs = p.ddcs, q.shapes = p.shapes, q.step = p.step + 1, q.pc = "clean"
  PROVE  Cleaned(q, I2, T)
<1> DEFINE c == <<KeyToClean(p, p.step)[1], p.held.dtt>>
<1>1. /\ Owned(q) = Owned(p) /\ CleanTotal(q) = CleanTotal(p) /\ CleanTotal(p) \in Nat
      /\ \A x : KeyToClean(q, x) = KeyToClean(p, x)
  BY SameWork, PoolSizes
<1>2. DOMAIN I2 = DOMAIN I \ {c} BY DEF Without
<1>3. ASSUME NEW k \in DOMAIN T, k[1] \in Owned(q)
      PROVE  \E x \in q.step .. CleanTotal(q) - 1 : k = KeyToClean(q, x)
  <2>1. PICK x \in p.step .. CleanTotal(p) - 1 : k = KeyToClean(p, x) /\ x # p.step
    BY <1>1, <1>3 DEF Cleaned
  <2>2. x \in q.step .. CleanTotal(q) - 1 BY <1>1, <2>1
  <2> QED BY <1>1, <2>1, <2>2
<1>4. ASSUME NEW k \in DOMAIN I2, k[1] \in Owned(q)
      PROVE  \E j \in DOMAIN T : k = <<j[1], T[j].dtt>>
  BY <1>1, <1>2, <1>4 DEF Cleaned
<1> QED BY <1>3, <1>4 DEF Cleaned

-----------------------------------------------------------------------------
(* References to the arenas.                                                *)
Users(T, a) == {k \in DOMAIN T : T[k].arena = a}
OneIf(b) == IF b THEN 1 ELSE 0

\* D holds the arenas that a thread has retained for an entry it is making or removing.
Counted(R, T, D) ==
  /\ IsFiniteSet(DOMAIN T)
  /\ \A k \in DOMAIN T : T[k].arena \in DOMAIN R
  /\ D \subseteq DOMAIN R
  /\ \A a \in DOMAIN R :
       /\ R[a] = Cardinality(Users(T, a)) + OneIf(Len(a) = 2) + OneIf(a \in D)
       /\ Len(a) = 2 \/ Users(T, a) # {} \/ a \in D

LEMMA UsersCount ==
  ASSUME NEW T, IsFiniteSet(DOMAIN T), NEW a
  PROVE  /\ IsFiniteSet(Users(T, a)) /\ Cardinality(Users(T, a)) \in Nat
         /\ Cardinality(Users(T, a)) = 0 <=> Users(T, a) = {}
<1>1. IsFiniteSet(Users(T, a)) BY FS_Subset DEF Users
<1> QED BY <1>1, FS_CardinalityType, FS_EmptySet

\* An arena retained, entered, taken out of the table, and released.
LEMMA CountFirst ==
  ASSUME NEW R, NEW T, NEW D, Counted(R, T, D), NEW e, e.arena \notin D,
         NEW R2, R2 = Extend(R, e.arena, Held(e, R))
  PROVE  Counted(R2, T, D \cup {e.arena})
<1> DEFINE a == e.arena
           D2 == D \cup {a}
<1>1. DOMAIN R2 = DOMAIN R \cup {a} /\ R2[a] = Held(e, R)
       /\ \A b \in DOMAIN R : b # a => R2[b] = R[b]
  BY DEF Extend
<1>2. R2[a] = Cardinality(Users(T, a)) + OneIf(Len(a) = 2) + 1
  <2>1. CASE a \in DOMAIN R
    <3>1. R[a] = Cardinality(Users(T, a)) + OneIf(Len(a) = 2) + OneIf(a \in D) BY <2>1 DEF Counted
    <3>2. OneIf(a \in D) = 0 BY DEF OneIf
    <3>3. R2[a] = R[a] + 1 BY <1>1, <2>1 DEF Held
    <3>4. Cardinality(Users(T, a)) \in Nat BY UsersCount DEF Counted
    <3>5. OneIf(Len(a) = 2) \in Nat BY DEF OneIf
    <3> HIDE DEF a
    <3> QED BY <3>1, <3>2, <3>3, <3>4, <3>5
  <2>2. CASE a \notin DOMAIN R
    <3>1. Users(T, a) = {} BY <2>2 DEF Users, Counted
    <3>2. Cardinality(Users(T, a)) = 0 BY <3>1, FS_EmptySet
    <3>3. R2[a] = IF Len(a) = 2 THEN 2 ELSE 1 BY <1>1, <2>2 DEF Held
    <3> HIDE DEF a
    <3> QED BY <3>2, <3>3 DEF OneIf
  <2> QED BY <2>1, <2>2
<1>3. ASSUME NEW b \in DOMAIN R2
      PROVE  /\ R2[b] = Cardinality(Users(T, b)) + OneIf(Len(b) = 2) + OneIf(b \in D2)
             /\ Len(b) = 2 \/ Users(T, b) # {} \/ b \in D2
  <2>1. CASE b = a
    <3>1. b \in D2 /\ OneIf(b \in D2) = 1 BY <2>1 DEF OneIf
    <3> QED BY <3>1, <1>2, <2>1
  <2>2. CASE b # a
    <3>1. b \in DOMAIN R /\ R2[b] = R[b] /\ (b \in D2 <=> b \in D) BY <1>1, <1>3, <2>2
    <3> QED BY <3>1 DEF Counted, OneIf
  <2> QED BY <2>1, <2>2
<1>4. \A k \in DOMAIN T : T[k].arena \in DOMAIN R2 BY <1>1 DEF Counted
<1>5. D2 \subseteq DOMAIN R2 BY <1>1 DEF Counted
<1> QED BY <1>3, <1>4, <1>5 DEF Counted

LEMMA CountSecond ==
  ASSUME NEW R, NEW T, NEW D, Counted(R, T, D), NEW a \in D, NEW key, key \notin DOMAIN T,
         NEW v, v.arena = a, NEW T2, T2 = Extend(T, key, v)
  PROVE  Counted(R, T2, D \ {a})
<1>1. DOMAIN T2 = DOMAIN T \cup {key} /\ T2[key] = v /\ \A k \in DOMAIN T : T2[k] = T[k]
  BY DEF Extend
<1>2. IsFiniteSet(DOMAIN T2) BY <1>1, FS_AddElement DEF Counted
<1>3. \A k \in DOMAIN T2 : T2[k].arena \in DOMAIN R
  <2>1. TAKE k \in DOMAIN T2
  <2>2. CASE k = key BY <1>1, <2>2 DEF Counted
  <2>3. CASE k # key BY <1>1, <2>3 DEF Counted
  <2> QED BY <2>2, <2>3
<1>4. /\ Users(T2, a) = Users(T, a) \cup {key} /\ key \notin Users(T, a)
      /\ \A b : b # a => Users(T2, b) = Users(T, b)
  BY <1>1 DEF Users
<1>5. Cardinality(Users(T2, a)) = Cardinality(Users(T, a)) + 1 /\ Cardinality(Users(T, a)) \in Nat
  <2>1. IsFiniteSet(Users(T, a)) /\ Cardinality(Users(T, a)) \in Nat BY UsersCount DEF Counted
  <2> QED BY <2>1, <1>4, FS_AddElement, SMTT(30)
<1>6. ASSUME NEW b \in DOMAIN R
      PROVE  /\ R[b] = Cardinality(Users(T2, b)) + OneIf(Len(b) = 2) + OneIf(b \in D \ {a})
             /\ Len(b) = 2 \/ Users(T2, b) # {} \/ b \in D \ {a}
  <2>1. R[b] = Cardinality(Users(T, b)) + OneIf(Len(b) = 2) + OneIf(b \in D) BY DEF Counted
  <2>2. CASE b = a
    <3>1. OneIf(b \in D) = 1 /\ OneIf(b \in D \ {a}) = 0 BY <2>2 DEF OneIf
    <3>2. OneIf(Len(b) = 2) \in Nat BY DEF OneIf
    <3>3. R[b] = Cardinality(Users(T2, b)) + OneIf(Len(b) = 2) + OneIf(b \in D \ {a})
      BY <2>1, <2>2, <3>1, <3>2, <1>5
    <3> QED BY <3>3, <2>2, <1>4
  <2>3. CASE b # a
    <3>1. Users(T2, b) = Users(T, b) BY <1>4, <2>3
    <3>2. b \in D \ {a} <=> b \in D BY <2>3
    <3>3. Len(b) = 2 \/ Users(T, b) # {} \/ b \in D BY DEF Counted
    <3> QED BY <2>1, <3>1, <3>2, <3>3 DEF OneIf
  <2> QED BY <2>2, <2>3
<1>7. D \ {a} \subseteq DOMAIN R BY DEF Counted
<1> QED BY <1>2, <1>3, <1>6, <1>7 DEF Counted

LEMMA CountTake ==
  ASSUME NEW R, NEW T, NEW D, Counted(R, T, D), NEW key \in DOMAIN T, NEW a, a = T[key].arena,
         a \notin D, NEW T2, T2 = Without(T, key)
  PROVE  Counted(R, T2, D \cup {a})
<1>1. DOMAIN T2 = DOMAIN T \ {key} /\ \A k \in DOMAIN T2 : T2[k] = T[k] BY DEF Without
<1>2. IsFiniteSet(DOMAIN T2) BY <1>1, FS_RemoveElement DEF Counted
<1>3. \A k \in DOMAIN T2 : T2[k].arena \in DOMAIN R BY <1>1 DEF Counted
<1>4. /\ Users(T2, a) = Users(T, a) \ {key} /\ key \in Users(T, a)
      /\ \A b : b # a => Users(T2, b) = Users(T, b)
  BY <1>1 DEF Users
<1>5. /\ Cardinality(Users(T2, a)) = Cardinality(Users(T, a)) - 1
      /\ Cardinality(Users(T, a)) \in Nat /\ Cardinality(Users(T2, a)) \in Nat
  <2>1. IsFiniteSet(Users(T, a)) /\ Cardinality(Users(T, a)) \in Nat BY UsersCount DEF Counted
  <2>2. Cardinality(Users(T2, a)) \in Nat BY UsersCount, <1>2
  <2> QED BY <2>1, <2>2, <1>4, FS_RemoveElement
<1>6. ASSUME NEW b \in DOMAIN R
      PROVE  /\ R[b] = Cardinality(Users(T2, b)) + OneIf(Len(b) = 2) + OneIf(b \in D \cup {a})
             /\ Len(b) = 2 \/ Users(T2, b) # {} \/ b \in D \cup {a}
  <2>1. R[b] = Cardinality(Users(T, b)) + OneIf(Len(b) = 2) + OneIf(b \in D) BY DEF Counted
  <2>2. CASE b = a
    <3>1. OneIf(b \in D) = 0 /\ OneIf(b \in D \cup {a}) = 1 BY <2>2 DEF OneIf
    <3>2. OneIf(Len(b) = 2) \in Nat BY DEF OneIf
    <3> QED BY <2>1, <2>2, <3>1, <3>2, <1>5
  <2>3. CASE b # a
    <3>1. Users(T2, b) = Users(T, b) BY <1>4, <2>3
    <3>2. b \in D \cup {a} <=> b \in D BY <2>3
    <3>3. Len(b) = 2 \/ Users(T, b) # {} \/ b \in D BY DEF Counted
    <3> QED BY <2>1, <3>1, <3>2, <3>3 DEF OneIf
  <2> QED BY <2>2, <2>3
<1>7. D \cup {a} \subseteq DOMAIN R BY DEF Counted
<1> QED BY <1>2, <1>3, <1>6, <1>7 DEF Counted

LEMMA CountRelease ==
  ASSUME NEW R, NEW T, NEW D, Counted(R, T, D), NEW a \in D, NEW R2, R2 = Release(R, a)
  PROVE  Counted(R2, T, D \ {a}) /\ DOMAIN R2 \subseteq DOMAIN R
<1>1. a \in DOMAIN R BY DEF Counted
<1>2. Cardinality(Users(T, a)) \in Nat /\ (Cardinality(Users(T, a)) = 0 <=> Users(T, a) = {})
  BY UsersCount DEF Counted
<1>3. R[a] = Cardinality(Users(T, a)) + OneIf(Len(a) = 2) + 1
  <2>1. OneIf(a \in D) = 1 BY DEF OneIf
  <2> QED BY <1>1, <2>1 DEF Counted
<1>4. OneIf(Len(a) = 2) \in {0, 1} /\ (OneIf(Len(a) = 2) = 1 <=> Len(a) = 2) BY DEF OneIf
<1>5. CASE R[a] > 1
  <2>1. DOMAIN R2 = DOMAIN R /\ R2[a] = R[a] - 1 /\ \A b \in DOMAIN R : b # a => R2[b] = R[b]
    BY <1>1, <1>5 DEF Release
  <2>2. ASSUME NEW b \in DOMAIN R
        PROVE  /\ R2[b] = Cardinality(Users(T, b)) + OneIf(Len(b) = 2) + OneIf(b \in D \ {a})
               /\ Len(b) = 2 \/ Users(T, b) # {} \/ b \in D \ {a}
    <3>1. CASE b = a
      <4>1. OneIf(b \in D \ {a}) = 0 BY <3>1 DEF OneIf
      <4> QED BY <4>1, <3>1, <2>1, <1>2, <1>3, <1>4, <1>5
    <3>2. CASE b # a
      <4>1. b \in D \ {a} <=> b \in D BY <3>2
      <4> QED BY <4>1, <3>2, <2>1 DEF Counted, OneIf
    <3> QED BY <3>1, <3>2
  <2> QED BY <2>1, <2>2 DEF Counted
<1>6. CASE ~(R[a] > 1)
  <2>1. R2 = Without(R, a) BY <1>6 DEF Release
  <2>2. DOMAIN R2 = DOMAIN R \ {a} /\ \A b \in DOMAIN R2 : R2[b] = R[b] BY <2>1 DEF Without
  <2>3. Users(T, a) = {} BY <1>2, <1>3, <1>4, <1>6
  <2>4. \A k \in DOMAIN T : T[k].arena \in DOMAIN R2 BY <2>2, <2>3 DEF Counted, Users
  <2>5. D \ {a} \subseteq DOMAIN R2 BY <2>2 DEF Counted
  <2>6. ASSUME NEW b \in DOMAIN R2
        PROVE  /\ R2[b] = Cardinality(Users(T, b)) + OneIf(Len(b) = 2) + OneIf(b \in D \ {a})
               /\ Len(b) = 2 \/ Users(T, b) # {} \/ b \in D \ {a}
    <3>1. b \in DOMAIN R /\ R2[b] = R[b] /\ (b \in D \ {a} <=> b \in D) BY <2>2
    <3> QED BY <3>1 DEF Counted, OneIf
  <2> QED BY <2>2, <2>4, <2>5, <2>6 DEF Counted
<1> QED BY <1>5, <1>6

-----------------------------------------------------------------------------
(* The invariant of the tables.                                             *)

Pends(P) == UNION {Pending(t, P[t]) : t \in Threads}

TablesOK(I, T, R, P) ==
  /\ DOMAIN P = Threads
  /\ \A t \in Threads : PoolOK(P[t]) /\ ThreadOK(t, P[t], I, T)
  /\ \A t, u \in Threads : t # u => Owned(P[t]) \cap Owned(P[u]) = {}
  /\ \A k \in DOMAIN I \cup DOMAIN T : \E t \in Threads : k[1] \in Owned(P[t])
  /\ Counted(R, T, Pends(P))
  /\ \A a \in DOMAIN R : a[1] \in Threads /\ P[a[1]] # NoPool

TableInv == TablesOK(infos, types, refs, pools)

(* A step of one thread keeps the invariant when it keeps its own part and  *)
(* touches only its own addresses.                                          *)
LEMMA OneMoves ==
  ASSUME NEW I, NEW T, NEW R, NEW P, TablesOK(I, T, R, P), NEW t \in Threads,
         NEW I2, NEW T2, NEW R2, NEW P2, NEW q, P2 = [P EXCEPT ![t] = q],
         PoolOK(q), ThreadOK(t, q, I2, T2),
         \A u \in Threads \ {t} : Owned(q) \cap Owned(P[u]) = {},
         Only(I, I2, Owned(q) \cup Owned(P[t])), Only(T, T2, Owned(q) \cup Owned(P[t])),
         \A k \in DOMAIN I2 \cup DOMAIN T2 : k[1] \in Owned(q) \/ k[1] \notin Owned(P[t]),
         Counted(R2, T2, (Pends(P) \ Pending(t, P[t])) \cup Pending(t, q)),
         \A a \in DOMAIN R2 : IF a[1] = t THEN q # NoPool ELSE a \in DOMAIN R
  PROVE  TablesOK(I2, T2, R2, P2)
<1>1. DOMAIN P = Threads /\ DOMAIN P2 = Threads /\ P2[t] = q
       /\ \A u \in Threads : u # t => P2[u] = P[u]
  BY DEF TablesOK
<1>2. \A u \in Threads : PoolOK(P2[u]) /\ ThreadOK(u, P2[u], I2, T2)
  <2>1. TAKE u \in Threads
  <2>2. CASE u = t BY <1>1, <2>2
  <2>3. CASE u # t
    <3>1. P2[u] = P[u] /\ PoolOK(P[u]) /\ ThreadOK(u, P[u], I, T) BY <1>1, <2>3 DEF TablesOK
    <3> DEFINE O == Owned(q) \cup Owned(P[t])
    <3>2. O \cap Owned(P[u]) = {}
      <4>1. Owned(q) \cap Owned(P[u]) = {} /\ Owned(P[t]) \cap Owned(P[u]) = {} BY <2>3 DEF TablesOK
      <4> QED BY <4>1
    <3>3. Agree(I, I2, Owned(P[u])) BY <3>2, OnlyAgree
    <3>4. Agree(T, T2, Owned(P[u])) BY <3>2, OnlyAgree
    <3> QED BY <3>1, <3>3, <3>4, OthersUntouched
  <2> QED BY <2>2, <2>3
<1>3. \A v, u \in Threads : v # u => Owned(P2[v]) \cap Owned(P2[u]) = {}
  <2>1. TAKE v \in Threads, u \in Threads
  <2>2. CASE v = t /\ u # t BY <1>1, <2>2
  <2>3. CASE v # t /\ u = t BY <1>1, <2>3
  <2>4. CASE v # t /\ u # t BY <1>1, <2>4 DEF TablesOK
  <2> QED BY <2>2, <2>3, <2>4
<1>4. \A k \in DOMAIN I2 \cup DOMAIN T2 : \E u \in Threads : k[1] \in Owned(P2[u])
  <2>1. TAKE k \in DOMAIN I2 \cup DOMAIN T2
  <2>2. CASE k[1] \in Owned(q) BY <1>1, <2>2
  <2>3. CASE k[1] \notin Owned(q)
    <3>1. k \in DOMAIN I \cup DOMAIN T /\ k[1] \notin Owned(P[t])
      <4>1. k[1] \notin Owned(P[t]) BY <2>3
      <4>2. k[1] \notin Owned(q) \cup Owned(P[t]) BY <4>1, <2>3
      <4> QED BY <4>1, <4>2 DEF Only
    <3>2. PICK u \in Threads : k[1] \in Owned(P[u]) BY <3>1 DEF TablesOK
    <3>3. u # t BY <3>1, <3>2
    <3> QED BY <3>2, <3>3, <1>1
  <2> QED BY <2>2, <2>3
<1>5. Pends(P2) = (Pends(P) \ Pending(t, P[t])) \cup Pending(t, q)
  <2>1. \A u \in Threads : \A a \in Pending(u, P[u]) : a[1] = u BY DEF TablesOK, ThreadOK
  <2>2. ASSUME NEW a \in Pends(P2) PROVE a \in (Pends(P) \ Pending(t, P[t])) \cup Pending(t, q)
    <3>1. PICK u \in Threads : a \in Pending(u, P2[u]) BY <2>2 DEF Pends
    <3>2. CASE u = t BY <1>1, <3>1, <3>2
    <3>3. CASE u # t
      <4>1. a \in Pending(u, P[u]) BY <1>1, <3>1, <3>3
      <4>2. a \in Pends(P) BY <4>1 DEF Pends
      <4> QED BY <4>1, <4>2, <2>1, <3>3
    <3> QED BY <3>2, <3>3
  <2>3. ASSUME NEW a \in Pends(P), a \notin Pending(t, P[t]) PROVE a \in Pends(P2)
    <3>1. PICK u \in Threads : a \in Pending(u, P[u]) BY <2>3 DEF Pends
    <3>2. u # t BY <2>3, <3>1
    <3>3. a \in Pending(u, P2[u]) BY <1>1, <3>1, <3>2
    <3> QED BY <3>3 DEF Pends
  <2>4. Pending(t, q) \subseteq Pends(P2) BY <1>1 DEF Pends
  <2> QED BY <2>2, <2>3, <2>4
<1>6. Counted(R2, T2, Pends(P2)) BY <1>5
<1>7. \A a \in DOMAIN R2 : a[1] \in Threads /\ P2[a[1]] # NoPool
  <2>1. TAKE a \in DOMAIN R2
  <2>2. CASE a[1] = t BY <1>1, <2>2
  <2>3. CASE a[1] # t
    <3>1. a[1] \in Threads /\ P[a[1]] # NoPool BY <2>3 DEF TablesOK
    <3> QED BY <3>1, <2>3, <1>1
  <2> QED BY <2>2, <2>3
<1> QED BY <1>1, <1>2, <1>3, <1>4, <1>6, <1>7 DEF TablesOK

\* The same for a taskpool that keeps its collections.
LEMMA OneWorks ==
  ASSUME NEW I, NEW T, NEW R, NEW P, TablesOK(I, T, R, P), NEW t \in Threads,
         NEW I2, NEW T2, NEW R2, NEW P2, NEW q, P2 = [P EXCEPT ![t] = q],
         PoolOK(q), ThreadOK(t, q, I2, T2), Owned(q) = Owned(P[t]), q.pc # "none",
         Only(I, I2, Owned(q)), Only(T, T2, Owned(q)),
         Counted(R2, T2, (Pends(P) \ Pending(t, P[t])) \cup Pending(t, q)),
         \A a \in DOMAIN R2 : a \in DOMAIN R \/ a[1] = t
  PROVE  TablesOK(I2, T2, R2, P2)
<1>1. \A u \in Threads \ {t} : Owned(q) \cap Owned(P[u]) = {} BY DEF TablesOK
<1>2. q # NoPool BY DEF NoPool
<1>3. Owned(q) = Owned(q) \cup Owned(P[t]) OBVIOUS
<1>4. \A k \in DOMAIN I2 \cup DOMAIN T2 : k[1] \in Owned(q) \/ k[1] \notin Owned(P[t]) OBVIOUS
<1>5. \A a \in DOMAIN R2 : IF a[1] = t THEN q # NoPool ELSE a \in DOMAIN R BY <1>2
<1>6. Only(I, I2, Owned(q) \cup Owned(P[t])) /\ Only(T, T2, Owned(q) \cup Owned(P[t])) BY <1>3
<1> QED BY <1>1, <1>4, <1>5, <1>6, OneMoves, ZenonT(30)

\* The record of a taskpool after a step of its thread.
LEMMA Advanced ==
  ASSUME NEW t \in Threads, DOMAIN pools = Threads, PoolOK(pools[t]),
         Advance(t)
  PROVE  /\ pools' = [pools EXCEPT ![t] = pools'[t]]
         /\ pools'[t].pc = pools[t].pc /\ pools'[t].mats = pools[t].mats
         /\ pools'[t].ddcs = pools[t].ddcs /\ pools'[t].shapes = pools[t].shapes
         /\ pools'[t].step = pools[t].step + 1 /\ pools'[t].held = pools[t].held
         /\ pools'[t] = [pc |-> pools'[t].pc, mats |-> pools'[t].mats, ddcs |-> pools'[t].ddcs,
                         shapes |-> pools'[t].shapes, step |-> pools'[t].step, held |-> pools'[t].held]
<1> DEFINE p == pools[t]
           r == [pc |-> p.pc, mats |-> p.mats, ddcs |-> p.ddcs, shapes |-> p.shapes,
                 step |-> p.step, held |-> p.held]
           q == [pc |-> p.pc, mats |-> p.mats, ddcs |-> p.ddcs, shapes |-> p.shapes,
                 step |-> p.step + 1, held |-> p.held]
<1>1. p = r BY DEF PoolOK
<1>2. [r EXCEPT !.step = @ + 1] = q OBVIOUS
<1>3. pools'[t] = [p EXCEPT !.step = @ + 1]
       /\ pools' = [pools EXCEPT ![t] = [p EXCEPT !.step = @ + 1]]
  BY DEF Advance
<1>4. [p EXCEPT !.step = @ + 1] = [r EXCEPT !.step = @ + 1] BY <1>1
<1>5. pools'[t] = q /\ pools' = [pools EXCEPT ![t] = pools'[t]] BY <1>2, <1>3, <1>4
<1> QED BY <1>5

LEMMA NoPoolFacts ==
  /\ NoPool.pc = "none" /\ Owned(NoPool) = {} /\ PoolOK(NoPool)
  /\ \A t : Pending(t, NoPool) = {}
  /\ \A t, I, T : ThreadOK(t, NoPool, I, T)
<1>1. NoPool.pc = "none" /\ NoPool.ddcs = <<>> BY DEF NoPool
<1>2. Owned(NoPool) = {} BY <1>1 DEF Owned
<1>3. PoolOK(NoPool) BY DEF PoolOK, NoPool
<1>4. \A t : Pending(t, NoPool) = {} BY <1>1 DEF Pending
<1>5. \A t, I, T : ThreadOK(t, NoPool, I, T) BY <1>1, <1>2, <1>4 DEF ThreadOK
<1> QED BY <1>1, <1>2, <1>3, <1>4, <1>5

-----------------------------------------------------------------------------
(* The initial state and the steps.                                         *)
LEMMA InvInit == AdttInit => TableInv
<1> SUFFICES ASSUME AdttInit PROVE TableInv OBVIOUS
<1>1. DOMAIN pools = Threads /\ \A t \in Threads : pools[t] = NoPool BY DEF AdttInit
<1>2. DOMAIN infos = {} /\ DOMAIN types = {} /\ DOMAIN refs = {} BY DEF AdttInit
<1>3. Pends(pools) = {} BY <1>1, NoPoolFacts DEF Pends
<1>4. Counted(refs, types, Pends(pools)) BY <1>2, <1>3, FS_EmptySet DEF Counted
<1>5. \A t \in Threads : PoolOK(pools[t]) /\ ThreadOK(t, pools[t], infos, types)
  BY <1>1, NoPoolFacts
<1>6. \A t, u \in Threads : t # u => Owned(pools[t]) \cap Owned(pools[u]) = {}
  BY <1>1, NoPoolFacts
<1> QED BY <1>1, <1>2, <1>4, <1>5, <1>6 DEF TableInv, TablesOK

LEMMA InvWrap ==
  ASSUME TableInv, NEW t \in Threads, NEW mats \in Seq(Matrices), NEW shapes \in Setups(mats),
         Wrap(t, mats, shapes)
  PROVE  TableInv'
<1>1. PICK ddcs \in Allocations(Len(mats)) :
        pools' = [pools EXCEPT ![t] = [pc |-> "setup", mats |-> mats, ddcs |-> ddcs,
                                       shapes |-> shapes, step |-> 0, held |-> <<>>]]
  BY DEF Wrap
<1> DEFINE q == [pc |-> "setup", mats |-> mats, ddcs |-> ddcs,
                 shapes |-> shapes, step |-> 0, held |-> <<>>]
           n == Len(mats)
<1>2. n \in Nat /\ pools[t] = NoPool /\ DOMAIN pools = Threads
      /\ infos' = infos /\ types' = types /\ refs' = refs
  BY DEF Wrap, TableInv, TablesOK, tableVars
<1>3. /\ ddcs \in [1 .. n -> Addresses \ InUse]
      /\ \A i, j \in 1 .. n : i < j => ddcs[i] < ddcs[j]
  BY DEF Allocations
<1>4. ddcs \in [1 .. n -> Nat] /\ \A i, j \in 1 .. n : ddcs[i] = ddcs[j] => i = j
  <2>1. ddcs \in [1 .. n -> Nat] BY <1>3, AddressAssumption
  <2>2. ASSUME NEW i \in 1 .. n, NEW j \in 1 .. n, ddcs[i] = ddcs[j] PROVE i = j
    <3>1. ddcs[i] \in Nat /\ ddcs[j] \in Nat BY <2>1
    <3>2. ~(i < j) /\ ~(j < i) BY <3>1, <2>2, <1>3
    <3> QED BY <3>2, <1>2
  <2> QED BY <2>1, <2>2
<1>5. q.pc = "setup" /\ q.mats = mats /\ q.ddcs = ddcs /\ q.shapes = shapes /\ q.step = 0
       /\ q.held = <<>>
  OBVIOUS
<1>6. WorkOK(q) BY <1>4, <1>5 DEF WorkOK
<1>7. PoolOK(q)
  <2>1. Total(q) \in Nat BY <1>6, PoolSizes
  <2> QED BY <1>5, <1>6, <2>1 DEF PoolOK
<1>8. \A x \in Owned(q) : x \notin InUse BY <1>3, <1>5 DEF Owned
<1>9. \A u \in Threads : Owned(pools[u]) \subseteq InUse BY DEF Owned, InUse
<1>10. \A k \in DOMAIN infos \cup DOMAIN types : k[1] \notin Owned(q)
  BY <1>8, <1>9 DEF TableInv, TablesOK
<1>11. Pending(t, q) = {} BY <1>5 DEF Pending
<1>12. Owned(pools[t]) = {} /\ Pending(t, pools[t]) = {} BY <1>2, NoPoolFacts
<1>13. ThreadOK(t, q, infos, types)
  <2>1. Built(t, q, infos, types)
    <3>1. q.step \div 2 = 0 /\ (q.step + 1) \div 2 = 0 BY <1>5
    <3>2. 0 .. (q.step \div 2) - 1 = {} /\ 0 .. ((q.step + 1) \div 2) - 1 = {} BY <3>1
    <3> QED BY <3>2, <1>10 DEF Built
  <2> QED BY <2>1, <1>5, <1>10, <1>11 DEF ThreadOK
<1> HIDE DEF q
<1>14. \A u \in Threads \ {t} : Owned(q) \cap Owned(pools[u]) = {} BY <1>8, <1>9
<1>15. \A k \in DOMAIN infos \cup DOMAIN types : k[1] \in Owned(q) \/ k[1] \notin Owned(pools[t])
  BY <1>12
<1>16. Counted(refs, types, (Pends(pools) \ Pending(t, pools[t])) \cup Pending(t, q))
  <2>1. (Pends(pools) \ Pending(t, pools[t])) \cup Pending(t, q) = Pends(pools) BY <1>11, <1>12
  <2> QED BY <2>1 DEF TableInv, TablesOK
<1>17. \A a \in DOMAIN refs : IF a[1] = t THEN q # NoPool ELSE a \in DOMAIN refs
  BY <1>5, NoPoolFacts
<1>18. pools' = [pools EXCEPT ![t] = q] BY <1>1 DEF q
<1>19. TablesOK(infos, types, refs, pools) BY DEF TableInv
<1>20. Only(infos, infos, Owned(q) \cup Owned(pools[t]))
        /\ Only(types, types, Owned(q) \cup Owned(pools[t])) BY DEF Only
<1>21. TablesOK(infos, types, refs, pools')
  BY <1>7, <1>13, <1>14, <1>15, <1>16, <1>17, <1>18, <1>19, <1>20, OneMoves, Zenon
<1> QED BY <1>2, <1>21 DEF TableInv

\* What a working thread knows about its taskpool.
LEMMA Working ==
  ASSUME TableInv, NEW t \in Threads, pools[t].pc # "none"
  PROVE  /\ DOMAIN pools = Threads /\ PoolOK(pools[t]) /\ WorkOK(pools[t]) /\ pools[t].step \in Nat
         /\ ThreadOK(t, pools[t], infos, types) /\ Counted(refs, types, Pends(pools))
         /\ \A u \in Threads : \A a \in Pending(u, pools[u]) : a[1] = u
  BY NoPoolFacts DEF TableInv, TablesOK, PoolOK, ThreadOK

LEMMA InvSetDttToInfo ==
  ASSUME TableInv, NEW t \in Threads, SetDttToInfo(t)
  PROVE  TableInv'
<1> DEFINE p == pools[t]
           q == pools'[t]
           e == Entry(t, p, p.step \div 2)
           key == KeyD(e)
<1>1. /\ p.pc = "setup" /\ p.step < Total(p) /\ p.step % 2 = 0 /\ types' = types
      /\ refs' = Extend(refs, e.arena, Held(e, refs))
      /\ infos' = IF key \in DOMAIN infos THEN infos ELSE Extend(infos, key, e.info)
      /\ Advance(t)
  BY DEF SetDttToInfo, Building, EntryOf, KeyD
<1>2. /\ DOMAIN pools = Threads /\ PoolOK(p) /\ WorkOK(p) /\ p.step \in Nat
       /\ ThreadOK(t, p, infos, types)
      /\ Counted(refs, types, Pends(pools)) /\ p.held = <<>>
      /\ \A u \in Threads : \A a \in Pending(u, pools[u]) : a[1] = u
  <2>1. p.held = <<>> BY <1>1 DEF TableInv, TablesOK, PoolOK, NoPool
  <2> QED BY <1>1, <2>1, Working
<1>3. /\ pools' = [pools EXCEPT ![t] = q] /\ q.pc = p.pc /\ q.mats = p.mats
      /\ q.ddcs = p.ddcs /\ q.shapes = p.shapes /\ q.step = p.step + 1 /\ q.held = p.held
      /\ q = [pc |-> q.pc, mats |-> q.mats, ddcs |-> q.ddcs, shapes |-> q.shapes,
              step |-> q.step, held |-> q.held]
  BY <1>1, <1>2, Advanced
<1>4. p.step \div 2 \in 0 .. Entries(p) - 1 BY <1>1, <1>2, Halves, PoolSizes
<1>5. key[1] \in Owned(p) /\ e.arena[1] = t BY <1>2, <1>4, EntryFacts DEF KeyD
<1>6. Built(t, q, infos', types)
  <2>1. Built(t, p, infos, types) BY <1>1, <1>2 DEF ThreadOK
  <2> QED BY <1>1, <1>2, <1>3, <2>1, FirstHalf
<1>7. Owned(q) = Owned(p) /\ WorkOK(q) /\ Total(q) = Total(p)
       /\ \A x : Entry(t, q, x) = Entry(t, p, x)
  BY <1>2, <1>3, SameWork
<1>8. Pending(t, p) = {} /\ Pending(t, q) = {e.arena}
  <2>1. (p.step + 1) % 2 = 1 /\ (p.step + 1) \div 2 = p.step \div 2 BY <1>1, <1>2, Halves
  <2>2. q.step % 2 = 1 /\ q.step \div 2 = p.step \div 2 BY <1>3, <2>1
  <2>3. Pending(t, p) = {} BY <1>1 DEF Pending
  <2>4. Pending(t, q) = {e.arena} BY <1>1, <1>3, <1>7, <2>2 DEF Pending
  <2> QED BY <2>3, <2>4
<1> HIDE DEF q, e
<1>9. PoolOK(q)
  <2>1. Total(p) \in Nat BY <1>2, PoolSizes
  <2>2. q.step \in Nat /\ q.step <= Total(q) BY <1>1, <1>2, <1>3, <1>7, <2>1
  <2> QED BY <1>1, <1>2, <1>3, <1>7, <2>2 DEF PoolOK
<1>10. ThreadOK(t, q, infos', types)
  <2>1. \A k \in DOMAIN types : k[1] \in Owned(q) => types[k].arena[1] = t
    BY <1>2, <1>7 DEF ThreadOK
  <2> QED BY <1>1, <1>3, <1>5, <1>6, <1>8, <2>1 DEF ThreadOK
<1>11. Only(infos, infos', Owned(q)) /\ Only(types, types, Owned(q))
  BY <1>1, <1>5, <1>7 DEF Only, Extend
<1>12. Counted(refs', types, (Pends(pools) \ Pending(t, p)) \cup Pending(t, q))
  <2>1. e.arena \notin Pends(pools) BY <1>2, <1>5, <1>8 DEF Pends
  <2>2. Counted(refs', types, Pends(pools) \cup {e.arena}) BY <1>1, <1>2, <2>1, CountFirst
  <2>3. (Pends(pools) \ Pending(t, p)) \cup Pending(t, q) = Pends(pools) \cup {e.arena} BY <1>8
  <2> QED BY <2>2, <2>3
<1>13. \A a \in DOMAIN refs' : a \in DOMAIN refs \/ a[1] = t BY <1>1, <1>5 DEF Extend
<1>14. q.pc # "none" BY <1>1, <1>3
<1>15. TablesOK(infos, types, refs, pools) BY DEF TableInv
<1>16. TablesOK(infos', types, refs', pools')
  BY <1>3, <1>7, <1>9, <1>10, <1>11, <1>12, <1>13, <1>14, <1>15, OneWorks, ZenonT(30)
<1> QED BY <1>1, <1>16 DEF TableInv

LEMMA InvSetInfoToDtt ==
  ASSUME TableInv, NEW t \in Threads, SetInfoToDtt(t)
  PROVE  TableInv'
<1> DEFINE p == pools[t]
           q == pools'[t]
           e == Entry(t, p, p.step \div 2)
           key == KeyI(e)
<1>1. /\ p.pc = "setup" /\ p.step < Total(p) /\ p.step % 2 # 0 /\ infos' = infos /\ refs' = refs
      /\ types' = IF key \in DOMAIN types THEN types ELSE Extend(types, key, TypeOf(e))
      /\ Advance(t)
  BY DEF SetInfoToDtt, Building, EntryOf, KeyI, TypeOf
<1>2. /\ DOMAIN pools = Threads /\ PoolOK(p) /\ WorkOK(p) /\ p.step \in Nat
       /\ ThreadOK(t, p, infos, types)
      /\ Counted(refs, types, Pends(pools)) /\ p.held = <<>>
      /\ \A u \in Threads : \A a \in Pending(u, pools[u]) : a[1] = u
  <2>1. p.held = <<>> BY <1>1 DEF TableInv, TablesOK, PoolOK, NoPool
  <2> QED BY <1>1, <2>1, Working
<1>3. /\ pools' = [pools EXCEPT ![t] = q] /\ q.pc = p.pc /\ q.mats = p.mats
      /\ q.ddcs = p.ddcs /\ q.shapes = p.shapes /\ q.step = p.step + 1 /\ q.held = p.held
      /\ q = [pc |-> q.pc, mats |-> q.mats, ddcs |-> q.ddcs, shapes |-> q.shapes,
              step |-> q.step, held |-> q.held]
  BY <1>1, <1>2, Advanced
<1>4. p.step \div 2 \in 0 .. Entries(p) - 1 BY <1>1, <1>2, Halves, PoolSizes
<1>5. key[1] \in Owned(p) /\ e.arena[1] = t BY <1>2, <1>4, EntryFacts DEF KeyI, InfoKey
<1>6. Built(t, q, infos, types') /\ key \notin DOMAIN types
  <2>1. Built(t, p, infos, types) BY <1>1, <1>2 DEF ThreadOK
  <2> QED BY <1>1, <1>2, <1>3, <2>1, SecondHalf
<1>7. Owned(q) = Owned(p) /\ WorkOK(q) /\ Total(q) = Total(p) BY <1>2, <1>3, SameWork
<1>8. Pending(t, p) = {e.arena} /\ Pending(t, q) = {}
  <2>1. p.step % 2 = 1 /\ q.step % 2 = 0 BY <1>1, <1>2, <1>3, Halves
  <2> QED BY <2>1, <1>1, <1>3 DEF Pending
<1> HIDE DEF q, e
<1>9. PoolOK(q)
  <2>1. Total(p) \in Nat BY <1>2, PoolSizes
  <2>2. q.step \in Nat /\ q.step <= Total(q) BY <1>1, <1>2, <1>3, <1>7, <2>1
  <2> QED BY <1>1, <1>2, <1>3, <1>7, <2>2 DEF PoolOK
<1>10. /\ types' = Extend(types, key, TypeOf(e)) /\ TypeOf(e).arena = e.arena
       /\ DOMAIN types' = DOMAIN types \cup {key} /\ types'[key] = TypeOf(e)
       /\ \A k \in DOMAIN types : types'[k] = types[k]
  BY <1>1, <1>6 DEF Extend, TypeOf
<1>11. ThreadOK(t, q, infos, types')
  <2>1. \A k \in DOMAIN types' : k[1] \in Owned(q) => types'[k].arena[1] = t
    BY <1>2, <1>5, <1>7, <1>10 DEF ThreadOK
  <2> QED BY <1>1, <1>3, <1>6, <1>8, <2>1 DEF ThreadOK
<1>12. Only(infos, infos, Owned(q)) /\ Only(types, types', Owned(q))
  BY <1>10, <1>5, <1>7 DEF Only
<1>13. Counted(refs, types', (Pends(pools) \ Pending(t, p)) \cup Pending(t, q))
  <2>1. e.arena \in Pends(pools) BY <1>8 DEF Pends
  <2>2. Counted(refs, types', Pends(pools) \ {e.arena}) BY <1>6, <1>10, <1>2, <2>1, CountSecond
  <2>3. (Pends(pools) \ Pending(t, p)) \cup Pending(t, q) = Pends(pools) \ {e.arena} BY <1>8
  <2> QED BY <2>2, <2>3
<1>14. \A a \in DOMAIN refs : a \in DOMAIN refs \/ a[1] = t OBVIOUS
<1>15. q.pc # "none" BY <1>1, <1>3
<1>16. TablesOK(infos, types, refs, pools) BY DEF TableInv
<1>17. TablesOK(infos, types', refs, pools')
  BY <1>3, <1>7, <1>9, <1>11, <1>12, <1>13, <1>14, <1>15, <1>16, OneWorks, Zenon
<1> QED BY <1>1, <1>17 DEF TableInv

LEMMA InvStart ==
  ASSUME TableInv, NEW t \in Threads, Start(t)
  PROVE  TableInv'
<1> DEFINE p == pools[t]
           r == [pc |-> p.pc, mats |-> p.mats, ddcs |-> p.ddcs, shapes |-> p.shapes,
                 step |-> p.step, held |-> p.held]
           q == [pc |-> "run", mats |-> p.mats, ddcs |-> p.ddcs, shapes |-> p.shapes,
                 step |-> p.step, held |-> p.held]
<1>1. /\ p.pc = "setup" /\ p.step = Total(p) /\ pools' = [pools EXCEPT ![t].pc = "run"]
      /\ types' = types /\ infos' = infos /\ refs' = refs
  BY DEF Start, tableVars
<1>2. /\ DOMAIN pools = Threads /\ PoolOK(p) /\ WorkOK(p) /\ p.step \in Nat
       /\ ThreadOK(t, p, infos, types)
      /\ Counted(refs, types, Pends(pools)) /\ p.held = <<>>
  <2>1. p.held = <<>> BY <1>1 DEF TableInv, TablesOK, PoolOK, NoPool
  <2> QED BY <1>1, <2>1, Working
<1>3. pools' = [pools EXCEPT ![t] = q]
  <2>1. p = r BY <1>2 DEF PoolOK
  <2>2. [r EXCEPT !.pc = "run"] = q OBVIOUS
  <2>3. pools' = [pools EXCEPT ![t] = [p EXCEPT !.pc = "run"]] BY <1>1
  <2> QED BY <2>1, <2>2, <2>3
<1>4. q.pc = "run" /\ q.mats = p.mats /\ q.ddcs = p.ddcs /\ q.shapes = p.shapes /\ q.step = p.step
      /\ q.held = <<>>
  BY <1>2
<1>5. /\ Owned(q) = Owned(p) /\ WorkOK(q) /\ Total(q) = Total(p)
      /\ \A x : Entry(t, q, x) = Entry(t, p, x)
  BY <1>2, <1>4, SameWork
<1>6. Pending(t, p) = {} /\ Pending(t, q) = {}
  <2>1. p.step % 2 # 1
    <3>1. \A n \in Nat : (2 * n) % 2 # 1 OBVIOUS
    <3> QED BY <3>1, <1>1, <1>2, PoolSizes
  <2> QED BY <1>1, <1>4, <2>1 DEF Pending
<1>7. PoolOK(q) BY <1>1, <1>2, <1>4, <1>5 DEF PoolOK
<1> HIDE DEF q
<1>8. ThreadOK(t, q, infos, types)
  <2>1. Built(t, q, infos, types) BY <1>1, <1>2, <1>4, <1>5 DEF ThreadOK, Built
  <2> QED BY <1>2, <1>4, <1>5, <1>6, <2>1 DEF ThreadOK
<1>9. Counted(refs, types, (Pends(pools) \ Pending(t, p)) \cup Pending(t, q))
  <2>1. (Pends(pools) \ Pending(t, p)) \cup Pending(t, q) = Pends(pools) BY <1>6
  <2> QED BY <2>1, <1>2
<1>10. Only(infos, infos, Owned(q)) /\ Only(types, types, Owned(q)) BY DEF Only
<1>11. TablesOK(infos, types, refs, pools) BY DEF TableInv
<1>12. (\A a \in DOMAIN refs : a \in DOMAIN refs \/ a[1] = t) /\ q.pc # "none" BY <1>4
<1>13. TablesOK(infos, types, refs, pools')
  BY <1>3, <1>5, <1>7, <1>8, <1>9, <1>10, <1>11, <1>12, OneWorks, Zenon
<1> QED BY <1>1, <1>13 DEF TableInv

LEMMA InvStop ==
  ASSUME TableInv, NEW t \in Threads, Stop(t)
  PROVE  TableInv'
<1> DEFINE p == pools[t]
           r == [pc |-> p.pc, mats |-> p.mats, ddcs |-> p.ddcs, shapes |-> p.shapes,
                 step |-> p.step, held |-> p.held]
           q == [pc |-> "clean", mats |-> p.mats, ddcs |-> p.ddcs, shapes |-> p.shapes,
                 step |-> 0, held |-> p.held]
<1>1. /\ p.pc = "run" /\ pools' = [pools EXCEPT ![t].pc = "clean", ![t].step = 0]
      /\ types' = types /\ infos' = infos /\ refs' = refs
  BY DEF Stop, tableVars
<1>2. /\ DOMAIN pools = Threads /\ PoolOK(p) /\ WorkOK(p) /\ p.step \in Nat
       /\ ThreadOK(t, p, infos, types)
      /\ Counted(refs, types, Pends(pools))
  BY <1>1, Working
<1>3. p.held = <<>> /\ p.step = Total(p) BY <1>1, <1>2 DEF PoolOK, NoPool
<1>4. pools' = [pools EXCEPT ![t] = q]
  <2>1. p = r BY <1>2 DEF PoolOK
  <2>2. [r EXCEPT !.pc = "clean", !.step = 0] = q
    <3> DEFINE c == [pc |-> "clean", mats |-> p.mats, ddcs |-> p.ddcs, shapes |-> p.shapes,
                     step |-> p.step, held |-> p.held]
    <3>1. [r EXCEPT !.pc = "clean"] = c OBVIOUS
    <3>2. [c EXCEPT !.step = 0] = q OBVIOUS
    <3>3. [r EXCEPT !.pc = "clean", !.step = 0] = [[r EXCEPT !.pc = "clean"] EXCEPT !.step = 0]
      <4> HIDE DEF r
      <4> QED OBVIOUS
    <3> QED BY <3>1, <3>2, <3>3
  <2>3. pools' = [pools EXCEPT ![t] = [p EXCEPT !.pc = "clean", !.step = 0]] BY <1>1, <1>2
  <2> QED BY <2>1, <2>2, <2>3
<1>5. q.pc = "clean" /\ q.mats = p.mats /\ q.ddcs = p.ddcs /\ q.shapes = p.shapes /\ q.step = 0
      /\ q.held = <<>>
  BY <1>3
<1>6. /\ Owned(q) = Owned(p) /\ WorkOK(q) /\ CleanTotal(q) = CleanTotal(p)
  BY <1>2, <1>5, SameWork
<1>7. Pending(t, p) = {} /\ Pending(t, q) = {} BY <1>1, <1>5 DEF Pending
<1>8. PoolOK(q)
  <2>1. CleanTotal(q) \in Nat BY <1>6, PoolSizes
  <2> QED BY <1>5, <1>6, <2>1 DEF PoolOK
<1> HIDE DEF q
<1>9. ThreadOK(t, q, infos, types)
  <2>1. Cleaned(q, infos, types) BY <1>1, <1>2, <1>3, <1>5, StopCleans DEF ThreadOK
  <2> QED BY <1>2, <1>5, <1>6, <1>7, <2>1 DEF ThreadOK
<1>10. Counted(refs, types, (Pends(pools) \ Pending(t, p)) \cup Pending(t, q))
  <2>1. (Pends(pools) \ Pending(t, p)) \cup Pending(t, q) = Pends(pools) BY <1>7
  <2> QED BY <2>1, <1>2
<1>11. Only(infos, infos, Owned(q)) /\ Only(types, types, Owned(q)) BY DEF Only
<1>12. TablesOK(infos, types, refs, pools) BY DEF TableInv
<1>13. (\A a \in DOMAIN refs : a \in DOMAIN refs \/ a[1] = t) /\ q.pc # "none" BY <1>5
<1>14. TablesOK(infos, types, refs, pools')
  BY <1>4, <1>6, <1>8, <1>9, <1>10, <1>11, <1>12, <1>13, OneWorks, Zenon
<1> QED BY <1>1, <1>14 DEF TableInv

LEMMA InvNothingToClean ==
  ASSUME TableInv, NEW t \in Threads, NothingToClean(t)
  PROVE  TableInv'
<1> DEFINE p == pools[t]
           q == pools'[t]
<1>1. /\ p.pc = "clean" /\ p.step < CleanTotal(p) /\ KeyToClean(p, p.step) \notin DOMAIN types
      /\ types' = types /\ infos' = infos /\ refs' = refs /\ Advance(t)
  BY DEF NothingToClean, Cleaning, CleanKey, tableVars
<1>2. /\ DOMAIN pools = Threads /\ PoolOK(p) /\ WorkOK(p) /\ p.step \in Nat
       /\ ThreadOK(t, p, infos, types)
      /\ Counted(refs, types, Pends(pools))
  BY <1>1, Working
<1>3. /\ pools' = [pools EXCEPT ![t] = q] /\ q.pc = p.pc /\ q.mats = p.mats
      /\ q.ddcs = p.ddcs /\ q.shapes = p.shapes /\ q.step = p.step + 1 /\ q.held = p.held
      /\ q = [pc |-> q.pc, mats |-> q.mats, ddcs |-> q.ddcs, shapes |-> q.shapes,
              step |-> q.step, held |-> q.held]
  BY <1>1, <1>2, Advanced
<1>4. p.held = <<>> BY <1>1, <1>2 DEF PoolOK, NoPool
<1>5. Owned(q) = Owned(p) /\ WorkOK(q) /\ CleanTotal(q) = CleanTotal(p) BY <1>2, <1>3, SameWork
<1>6. Cleaned(q, infos, types) BY <1>1, <1>2, <1>3, CleanSkip DEF ThreadOK
<1>7. Pending(t, p) = {} /\ Pending(t, q) = {} BY <1>1, <1>3 DEF Pending
<1> HIDE DEF q
<1>8. PoolOK(q)
  <2>1. CleanTotal(p) \in Nat BY <1>2, PoolSizes
  <2>2. q.step \in Nat /\ q.step <= CleanTotal(q) BY <1>1, <1>2, <1>3, <1>5, <2>1
  <2> QED BY <1>1, <1>3, <1>4, <1>5, <2>2 DEF PoolOK
<1>9. ThreadOK(t, q, infos, types) BY <1>1, <1>2, <1>3, <1>5, <1>6, <1>7 DEF ThreadOK
<1>10. Counted(refs, types, (Pends(pools) \ Pending(t, p)) \cup Pending(t, q))
  <2>1. (Pends(pools) \ Pending(t, p)) \cup Pending(t, q) = Pends(pools) BY <1>7
  <2> QED BY <2>1, <1>2
<1>11. Only(infos, infos, Owned(q)) /\ Only(types, types, Owned(q)) BY DEF Only
<1>12. TablesOK(infos, types, refs, pools) BY DEF TableInv
<1>13. (\A a \in DOMAIN refs : a \in DOMAIN refs \/ a[1] = t) /\ q.pc # "none" BY <1>1, <1>3
<1>14. TablesOK(infos, types, refs, pools')
  BY <1>3, <1>5, <1>8, <1>9, <1>10, <1>11, <1>12, <1>13, OneWorks, Zenon
<1> QED BY <1>1, <1>14 DEF TableInv

LEMMA CleanKeyOwned ==
  ASSUME NEW p, WorkOK(p), NEW x \in 0 .. CleanTotal(p) - 1
  PROVE  KeyToClean(p, x)[1] \in Owned(p)
<1> DEFINE E == Entries(p)
           M == Len(p.mats)
           i == x \div E
<1>1. E \in Nat /\ M \in Nat /\ Slots * Len(p.shapes) = E /\ CleanTotal(p) = E * M
       /\ CleanTotal(p) \in Nat
      /\ DOMAIN p.ddcs = 1 .. M
  BY PoolSizes DEF Slots
<1>2. x \in Nat /\ x < E * M BY <1>1
<1>3. KeyToClean(p, x)[1] = p.ddcs[i + 1] BY <1>1 DEF KeyToClean
<1>4. i \in 0 .. M - 1
  <2> HIDE DEF E, M
  <2>1. E # 0 BY <1>1, <1>2
  <2>2. E \in Nat \ {0} BY <2>1, <1>1
  <2>3. i \in Nat /\ x % E \in 0 .. E - 1 /\ x = E * i + (x % E) BY <1>2, <2>2, DivMod
  <2>4. ASSUME ~(i < M) PROVE FALSE
    <3>1. i - M \in Nat BY <1>1, <2>3, <2>4
    <3>2. PICK k \in Nat : i = M + k
      <4>1. i = M + (i - M) BY <1>1, <2>3
      <4> QED BY <3>1, <4>1
    <3>3. E * k \in Nat /\ E * M \in Nat BY <1>1, Multiples
    <3>4. E * (M + k) = E * M + E * k BY <1>1
    <3>5. E * i = E * M + E * k BY <3>2, <3>4
    <3>6. ASSUME NEW u \in Nat, NEW v \in Nat, NEW w \in Nat, u < v PROVE u # v + w BY <3>6
    <3>7. PICK w \in Nat : x = E * M + w
      <4>1. x % E \in Nat BY <2>2, <2>3
      <4>2. E * k + (x % E) \in Nat BY <3>3, <4>1
      <4>3. x = E * M + (E * k + (x % E)) BY <2>3, <3>3, <3>5, <4>1
      <4> QED BY <4>2, <4>3
    <3> QED BY <1>2, <3>3, <3>6, <3>7
  <2> QED BY <1>1, <2>3, <2>4
<1>5. i + 1 \in DOMAIN p.ddcs BY <1>1, <1>4
<1> QED BY <1>3, <1>5 DEF Owned

LEMMA InvRemoveInfoToDtt ==
  ASSUME TableInv, NEW t \in Threads, RemoveInfoToDtt(t)
  PROVE  TableInv'
<1> DEFINE p == pools[t]
           key == KeyToClean(p, p.step)
           r == [pc |-> p.pc, mats |-> p.mats, ddcs |-> p.ddcs, shapes |-> p.shapes,
                 step |-> p.step, held |-> p.held]
           q == [pc |-> "removing", mats |-> p.mats, ddcs |-> p.ddcs, shapes |-> p.shapes,
                 step |-> p.step, held |-> types[key]]
           a == types[key].arena
<1>1. /\ p.pc = "clean" /\ p.step < CleanTotal(p) /\ key \in DOMAIN types
      /\ pools' = [pools EXCEPT ![t].pc = "removing", ![t].held = types[key]]
      /\ types' = Without(types, key) /\ infos' = infos /\ refs' = refs
  BY DEF RemoveInfoToDtt, Cleaning, CleanKey
<1>2. /\ DOMAIN pools = Threads /\ PoolOK(p) /\ WorkOK(p) /\ p.step \in Nat
       /\ ThreadOK(t, p, infos, types)
      /\ Counted(refs, types, Pends(pools))
      /\ \A u \in Threads : \A b \in Pending(u, pools[u]) : b[1] = u
  BY <1>1, Working
<1>3. pools' = [pools EXCEPT ![t] = q]
  <2> DEFINE v == types[key]
             c == [pc |-> "removing", mats |-> p.mats, ddcs |-> p.ddcs, shapes |-> p.shapes,
                   step |-> p.step, held |-> p.held]
  <2>1. p = r BY <1>2 DEF PoolOK
  <2>2. pools' = [pools EXCEPT ![t] = [p EXCEPT !.pc = "removing", !.held = v]] BY <1>1, <1>2
  <2> HIDE DEF v
  <2>3. [r EXCEPT !.pc = "removing", !.held = v] = [c EXCEPT !.held = v]
    <3>1. [r EXCEPT !.pc = "removing"] = c OBVIOUS
    <3>2. [r EXCEPT !.pc = "removing", !.held = v] = [[r EXCEPT !.pc
           = "removing"] EXCEPT !.held = v]
      <4> HIDE DEF r
      <4> QED OBVIOUS
    <3> QED BY <3>1, <3>2
  <2>4. [c EXCEPT !.held = v] = q BY DEF v
  <2> QED BY <2>1, <2>2, <2>3, <2>4
<1>4. q.pc = "removing" /\ q.mats = p.mats /\ q.ddcs = p.ddcs /\ q.shapes = p.shapes
       /\ q.step = p.step
      /\ q.held = types[key]
  OBVIOUS
<1>5. Owned(q) = Owned(p) /\ WorkOK(q) /\ CleanTotal(q) = CleanTotal(p) BY <1>2, <1>4, SameWork
<1>6. Cleaned(q, infos, types') BY <1>1, <1>2, <1>4, CleanFirst DEF ThreadOK
<1>7. Pending(t, p) = {} /\ Pending(t, q) = {a} BY <1>1, <1>4 DEF Pending
<1>8. PoolOK(q)
  <2>1. q.step <= CleanTotal(q) /\ CleanTotal(q) \in Nat
    BY <1>1, <1>2, <1>4, <1>5, PoolSizes, SMTT(30)
  <2> QED BY <1>1, <1>2, <1>4, <1>5, <2>1 DEF PoolOK
<1>9. key[1] \in Owned(p)
  <2>1. p.step \in 0 .. CleanTotal(p) - 1 BY <1>1, <1>2, PoolSizes
  <2> QED BY <1>2, <2>1, CleanKeyOwned
<1> HIDE DEF q
<1>10. a[1] = t BY <1>1, <1>2, <1>9 DEF ThreadOK
<1>11. DOMAIN types' = DOMAIN types \ {key} /\ \A k \in DOMAIN types' : types'[k] = types[k]
  BY <1>1 DEF Without
<1>12. ThreadOK(t, q, infos, types')
  <2>1. \A k \in DOMAIN types' : k[1] \in Owned(q) => types'[k].arena[1] = t
    BY <1>2, <1>5, <1>11 DEF ThreadOK
  <2> QED BY <1>4, <1>6, <1>7, <1>10, <2>1 DEF ThreadOK
<1>13. Counted(refs, types', (Pends(pools) \ Pending(t, p)) \cup Pending(t, q))
  <2>1. a \notin Pends(pools) BY <1>2, <1>7, <1>10 DEF Pends
  <2>2. Counted(refs, types', Pends(pools) \cup {a}) BY <1>1, <1>2, <2>1, CountTake
  <2>3. (Pends(pools) \ Pending(t, p)) \cup Pending(t, q) = Pends(pools) \cup {a} BY <1>7
  <2> QED BY <2>2, <2>3
<1>14. Only(infos, infos, Owned(q)) /\ Only(types, types', Owned(q)) BY <1>5, <1>9, <1>11 DEF Only
<1>15. TablesOK(infos, types, refs, pools) BY DEF TableInv
<1>16. (\A b \in DOMAIN refs : b \in DOMAIN refs \/ b[1] = t) /\ q.pc # "none" BY <1>4
<1>17. TablesOK(infos, types', refs, pools')
  BY <1>3, <1>5, <1>8, <1>12, <1>13, <1>14, <1>15, <1>16, OneWorks, Zenon
<1> QED BY <1>1, <1>17 DEF TableInv

LEMMA InvRemoveDttToInfo ==
  ASSUME TableInv, NEW t \in Threads, RemoveDttToInfo(t)
  PROVE  TableInv'
<1> DEFINE p == pools[t]
           key == <<KeyToClean(p, p.step)[1], p.held.dtt>>
           r == [pc |-> p.pc, mats |-> p.mats, ddcs |-> p.ddcs, shapes |-> p.shapes,
                 step |-> p.step, held |-> p.held]
           q == [pc |-> "clean", mats |-> p.mats, ddcs |-> p.ddcs, shapes |-> p.shapes,
                 step |-> p.step + 1, held |-> <<>>]
           a == p.held.arena
<1>1. /\ p.pc = "removing"
      /\ pools' = [pools EXCEPT ![t].pc = "clean", ![t].held = <<>>, ![t].step = @ + 1]
      /\ types' = types /\ infos' = Without(infos, key) /\ refs' = Release(refs, a)
  BY DEF RemoveDttToInfo, CleanKey
<1>2. /\ DOMAIN pools = Threads /\ PoolOK(p) /\ WorkOK(p) /\ p.step \in Nat
       /\ ThreadOK(t, p, infos, types)
      /\ Counted(refs, types, Pends(pools))
      /\ \A u \in Threads : \A b \in Pending(u, pools[u]) : b[1] = u
  BY <1>1, Working
<1>3. pools' = [pools EXCEPT ![t] = q]
  <2> DEFINE c == [pc |-> "clean", mats |-> p.mats, ddcs |-> p.ddcs, shapes |-> p.shapes,
                   step |-> p.step, held |-> p.held]
             d == [pc |-> "clean", mats |-> p.mats, ddcs |-> p.ddcs, shapes |-> p.shapes,
                   step |-> p.step, held |-> <<>>]
  <2>1. p = r BY <1>2 DEF PoolOK
  <2>2. pools' = [pools EXCEPT ![t] = [p EXCEPT !.pc = "clean", !.held = <<>>, !.step = @ + 1]]
    BY <1>1, <1>2
  <2>3. [r EXCEPT !.pc = "clean", !.held = <<>>, !.step = @ + 1]
        = [[[r EXCEPT !.pc = "clean"] EXCEPT !.held = <<>>] EXCEPT !.step = @ + 1]
    <3> HIDE DEF r
    <3> QED OBVIOUS
  <2>4. [r EXCEPT !.pc = "clean"] = c OBVIOUS
  <2>5. [c EXCEPT !.held = <<>>] = d OBVIOUS
  <2>6. [d EXCEPT !.step = d.step + 1] = q OBVIOUS
  <2>7. [p EXCEPT !.pc = "clean", !.held = <<>>, !.step = @ + 1]
        = [r EXCEPT !.pc = "clean", !.held = <<>>, !.step = @ + 1]
    BY <2>1
  <2> HIDE DEF r, c, d, q
  <2>8. [[r EXCEPT !.pc = "clean"] EXCEPT !.held = <<>>] = d BY <2>4, <2>5
  <2>9. [[[r EXCEPT !.pc = "clean"] EXCEPT !.held = <<>>] EXCEPT !.step = @ + 1] = q BY <2>6, <2>8
  <2> QED BY <2>2, <2>3, <2>7, <2>9
<1>4. q.pc = "clean" /\ q.mats = p.mats /\ q.ddcs = p.ddcs /\ q.shapes = p.shapes
       /\ q.step = p.step + 1
      /\ q.held = <<>>
  OBVIOUS
<1>5. Owned(q) = Owned(p) /\ WorkOK(q) /\ CleanTotal(q) = CleanTotal(p) BY <1>2, <1>4, SameWork
<1>6. Cleaned(q, infos', types) BY <1>1, <1>2, <1>4, CleanSecond DEF ThreadOK
<1>7. Pending(t, p) = {a} /\ Pending(t, q) = {} BY <1>1, <1>4 DEF Pending
<1>8. p.step < CleanTotal(p) /\ CleanTotal(p) \in Nat
  BY <1>1, <1>2, NoPoolFacts, PoolSizes DEF PoolOK
<1>9. PoolOK(q)
  <2>1. q.step \in Nat /\ q.step <= CleanTotal(q) BY <1>2, <1>4, <1>5, <1>8
  <2> QED BY <1>4, <1>5, <2>1 DEF PoolOK
<1>10. key[1] \in Owned(p)
  <2>1. p.step \in 0 .. CleanTotal(p) - 1 BY <1>2, <1>8
  <2>2. KeyToClean(p, p.step)[1] \in Owned(p) BY <1>2, <2>1, CleanKeyOwned
  <2> QED BY <2>2
<1> HIDE DEF q
<1>11. DOMAIN infos' = DOMAIN infos \ {key} /\ \A k \in DOMAIN infos' : infos'[k] = infos[k]
  BY <1>1 DEF Without
<1>12. ThreadOK(t, q, infos', types) BY <1>2, <1>4, <1>5, <1>6, <1>7 DEF ThreadOK
<1>13. Counted(refs', types, (Pends(pools) \ Pending(t, p)) \cup Pending(t, q))
       /\ DOMAIN refs' \subseteq DOMAIN refs
  <2>1. a \in Pends(pools) BY <1>7 DEF Pends
  <2>2. Counted(refs', types, Pends(pools) \ {a}) /\ DOMAIN refs' \subseteq DOMAIN refs
    BY <1>1, <1>2, <2>1, CountRelease
  <2>3. (Pends(pools) \ Pending(t, p)) \cup Pending(t, q) = Pends(pools) \ {a} BY <1>7
  <2> QED BY <2>2, <2>3
<1>14. Only(infos, infos', Owned(q)) /\ Only(types, types, Owned(q)) BY <1>5, <1>10, <1>11 DEF Only
<1>15. TablesOK(infos, types, refs, pools) BY DEF TableInv
<1>16. (\A b \in DOMAIN refs' : b \in DOMAIN refs \/ b[1] = t) /\ q.pc # "none" BY <1>4, <1>13
<1>17. TablesOK(infos', types, refs', pools')
  BY <1>3, <1>5, <1>9, <1>12, <1>13, <1>14, <1>15, <1>16, OneWorks, Zenon
<1> QED BY <1>1, <1>17 DEF TableInv

LEMMA InvUnwrap ==
  ASSUME TableInv, NEW t \in Threads, Unwrap(t)
  PROVE  TableInv'
<1> DEFINE p == pools[t]
<1>1. /\ p.pc = "clean" /\ p.step = CleanTotal(p) /\ pools' = [pools EXCEPT ![t] = NoPool]
      /\ types' = types /\ infos' = infos /\ refs' = [a \in DOMAIN refs \ Leaked(t) |-> refs[a]]
  BY DEF Unwrap
<1>2. /\ DOMAIN pools = Threads /\ WorkOK(p) /\ ThreadOK(t, p, infos, types)
      /\ Counted(refs, types, Pends(pools))
      /\ \A u \in Threads : \A b \in Pending(u, pools[u]) : b[1] = u
  BY <1>1, Working
<1>3. Pending(t, p) = {} BY <1>1 DEF Pending
<1>4. \A k \in DOMAIN infos \cup DOMAIN types : k[1] \notin Owned(p)
  <2>1. Cleaned(p, infos, types) BY <1>1, <1>2 DEF ThreadOK
  <2>2. p.step .. CleanTotal(p) - 1 = {} BY <1>1, <1>2, PoolSizes
  <2>3. \A k \in DOMAIN types : k[1] \notin Owned(p) BY <2>1, <2>2 DEF Cleaned
  <2>4. \A k \in DOMAIN infos : k[1] \notin Owned(p)
    <3>1. SUFFICES ASSUME NEW k \in DOMAIN infos, k[1] \in Owned(p) PROVE FALSE OBVIOUS
    <3>2. PICK j \in DOMAIN types : k = <<j[1], types[j].dtt>> BY <1>1, <2>1, <3>1 DEF Cleaned
    <3>3. k[1] = j[1] BY <3>2
    <3> QED BY <2>3, <3>1, <3>3
  <2> QED BY <2>3, <2>4
<1>5. \A a \in DOMAIN refs : a[1] = t => Users(types, a) = {} /\ a \notin Pends(pools)
  <2>1. SUFFICES ASSUME NEW a \in DOMAIN refs, a[1] = t
                 PROVE  Users(types, a) = {} /\ a \notin Pends(pools)
    OBVIOUS
  <2>2. \A k \in DOMAIN types : types[k].arena[1] # t
    <3>1. TAKE k \in DOMAIN types
    <3>2. PICK u \in Threads : k[1] \in Owned(pools[u]) BY DEF TableInv, TablesOK
    <3>3. u # t /\ ThreadOK(u, pools[u], infos, types) BY <1>4, <3>2 DEF TableInv, TablesOK
    <3> QED BY <3>2, <3>3 DEF ThreadOK
  <2>3. Users(types, a) = {} BY <2>1, <2>2 DEF Users
  <2>4. a \notin Pends(pools) BY <1>2, <1>3, <2>1 DEF Pends
  <2> QED BY <2>3, <2>4
<1>6. \A a \in DOMAIN refs : a[1] = t => a \in Leaked(t)
  <2>1. SUFFICES ASSUME NEW a \in DOMAIN refs, a[1] = t PROVE a \in Leaked(t) OBVIOUS
  <2>2. Users(types, a) = {} /\ a \notin Pends(pools) BY <1>5, <2>1
  <2>3. Len(a) = 2 BY <1>2, <2>2 DEF Counted
  <2>4. refs[a] = Cardinality(Users(types, a)) + OneIf(Len(a) = 2) + OneIf(a \in Pends(pools))
    BY <1>2 DEF Counted
  <2>5. Cardinality(Users(types, a)) = 0 BY <2>2, FS_EmptySet
  <2>6. refs[a] = 1 BY <2>2, <2>3, <2>4, <2>5 DEF OneIf
  <2> QED BY <2>1, <2>3, <2>6 DEF Leaked
<1>7. /\ DOMAIN refs' = {a \in DOMAIN refs : a[1] # t}
      /\ \A a \in DOMAIN refs' : refs'[a] = refs[a]
  BY <1>1, <1>6 DEF Leaked
<1>8. Counted(refs', types, Pends(pools))
  <2>1. \A k \in DOMAIN types : types[k].arena \in DOMAIN refs'
    BY <1>2, <1>5, <1>7 DEF Counted, Users
  <2>2. Pends(pools) \subseteq DOMAIN refs' BY <1>2, <1>5, <1>7 DEF Counted
  <2> QED BY <1>2, <1>7, <2>1, <2>2 DEF Counted
<1> DEFINE q == NoPool
<1>9. PoolOK(q) /\ ThreadOK(t, q, infos, types) /\ Owned(q) = {} /\ Pending(t, q) = {}
  BY NoPoolFacts
<1>10. \A u \in Threads \ {t} : Owned(q) \cap Owned(pools[u]) = {} BY <1>9
<1>11. /\ Only(infos, infos, Owned(q) \cup Owned(pools[t]))
       /\ Only(types, types, Owned(q) \cup Owned(pools[t]))
  BY DEF Only
<1>12. \A k \in DOMAIN infos \cup DOMAIN types : k[1] \in Owned(q) \/ k[1] \notin Owned(pools[t])
  BY <1>4
<1>13. Counted(refs', types, (Pends(pools) \ Pending(t, pools[t])) \cup Pending(t, q))
  <2>1. (Pends(pools) \ Pending(t, pools[t])) \cup Pending(t, q) = Pends(pools) BY <1>3, <1>9
  <2> QED BY <2>1, <1>8
<1>14. \A a \in DOMAIN refs' : IF a[1] = t THEN q # NoPool ELSE a \in DOMAIN refs BY <1>7
<1>15. TablesOK(infos, types, refs, pools) /\ pools' = [pools EXCEPT ![t] = q] BY <1>1 DEF TableInv
<1> HIDE DEF q
<1>16. TablesOK(infos, types, refs', pools')
  BY <1>9, <1>10, <1>11, <1>12, <1>13, <1>14, <1>15, OneMoves, Zenon
<1> QED BY <1>1, <1>16 DEF TableInv

LEMMA InvFini ==
  ASSUME TableInv, Fini
  PROVE  TableInv'
<1>1. /\ \A t \in Threads : pools[t] = NoPool
      /\ infos' = <<>> /\ types' = <<>> /\ refs' = refs /\ pools' = pools
  BY DEF Fini
<1>2. DOMAIN pools = Threads /\ DOMAIN refs = {} BY <1>1 DEF TableInv, TablesOK
<1>3. DOMAIN infos' = {} /\ DOMAIN types' = {} /\ DOMAIN refs' = {} BY <1>1, <1>2
<1>4. Pends(pools) = {} BY <1>1, NoPoolFacts DEF Pends
<1>5. Counted(refs', types', Pends(pools')) BY <1>1, <1>3, <1>4, FS_EmptySet DEF Counted
<1>6. \A t \in Threads : PoolOK(pools'[t]) /\ ThreadOK(t, pools'[t], infos', types')
  BY <1>1, NoPoolFacts
<1>7. \A t, u \in Threads : t # u => Owned(pools'[t]) \cap Owned(pools'[u]) = {}
  BY <1>1, NoPoolFacts
<1> QED BY <1>1, <1>2, <1>3, <1>5, <1>6, <1>7 DEF TableInv, TablesOK

\* Every step of the table keeps it.
LEMMA TableNextKept == TableInv /\ [TableNext]_adttVars => TableInv'
<1> SUFFICES ASSUME TableInv, [TableNext]_adttVars PROVE TableInv' OBVIOUS
<1>1. CASE UNCHANGED adttVars BY <1>1 DEF adttVars, TableInv
<1>2. ASSUME NEW t \in Threads, MakeTable(t) \/ PlaceTable(t) PROVE TableInv'
  BY <1>2 DEF MakeTable, PlaceTable, TableInv
<1>3. ASSUME NEW t \in Threads, SetDttToInfo(t) PROVE TableInv' BY <1>3, InvSetDttToInfo
<1>4. ASSUME NEW t \in Threads, SetInfoToDtt(t) PROVE TableInv' BY <1>4, InvSetInfoToDtt
<1>5. ASSUME NEW t \in Threads, Start(t) PROVE TableInv' BY <1>5, InvStart
<1>6. ASSUME NEW t \in Threads, NothingToClean(t) PROVE TableInv' BY <1>6, InvNothingToClean
<1>7. ASSUME NEW t \in Threads, RemoveInfoToDtt(t) PROVE TableInv' BY <1>7, InvRemoveInfoToDtt
<1>8. ASSUME NEW t \in Threads, RemoveDttToInfo(t) PROVE TableInv' BY <1>8, InvRemoveDttToInfo
<1>9. ASSUME NEW t \in Threads, Stop(t) PROVE TableInv' BY <1>9, InvStop
<1>10. ASSUME NEW t \in Threads, Unwrap(t) PROVE TableInv' BY <1>10, InvUnwrap
<1>11. ASSUME NEW t \in Threads, NEW mats \in Seq(Matrices), NEW shapes \in Setups(mats),
              Wrap(t, mats, shapes)
       PROVE  TableInv'
  BY <1>11, InvWrap
<1>12. CASE Fini BY <1>12, InvFini
<1> QED BY <1>1, <1>2, <1>3, <1>4, <1>5, <1>6, <1>7, <1>8, <1>9, <1>10, <1>11, <1>12
        DEF TableNext, TableStep

\* The invariant holds in every behaviour of the table.
LEMMA TableInvariant == TableSpec => []TableInv
  BY InvInit, TableNextKept, PTL DEF TableSpec

\* It implies TableClean.
LEMMA CleanFromInv == TableInv => TableClean
<1> SUFFICES ASSUME TableInv PROVE TableClean OBVIOUS
<1>1. \A key \in DOMAIN infos \cup DOMAIN types : key[1] \in InUse
  BY DEF TableInv, TablesOK, Owned, InUse
<1>2. \A key \in DOMAIN types : types[key].arena \in DOMAIN refs BY DEF TableInv, TablesOK, Counted
<1>3. ASSUME NEW t \in Threads, pools[t].held # <<>> PROVE pools[t].held.arena \in DOMAIN refs
  <2>1. pools[t].pc = "removing" BY <1>3 DEF TableInv, TablesOK, PoolOK, NoPool
  <2>2. Pending(t, pools[t]) = {pools[t].held.arena} BY <2>1 DEF Pending
  <2>3. pools[t].held.arena \in Pends(pools) BY <2>2 DEF Pends
  <2> QED BY <2>3 DEF TableInv, TablesOK, Counted
<1>4. ASSUME NEW t \in Threads, pools[t] = NoPool PROVE \A a \in DOMAIN refs : a[1] # t
  BY <1>4 DEF TableInv, TablesOK
<1>5. ASSUME NEW t \in Threads, Building(t)
      PROVE  LET e == EntryOf(t)
                 key == <<e.ddc, e.dtt>>
             IN IF pools[t].step % 2 = 0
                THEN key \in DOMAIN infos => infos[key].lda = e.info.lda
                ELSE InfoKey(e.ddc, e.info) \in DOMAIN types
                       => types[InfoKey(e.ddc, e.info)].dtt = e.dtt
  <2> DEFINE p == pools[t]
             n == p.step \div 2
             e == Entry(t, p, n)
  <2>1. p.pc = "setup" /\ p.step < Total(p) BY <1>5 DEF Building
  <2>2. WorkOK(p) /\ p.step \in Nat /\ Built(t, p, infos, types) BY <2>1, Working DEF ThreadOK
  <2>3. n \in 0 .. Entries(p) - 1 /\ n \in Nat BY <2>1, <2>2, Halves, PoolSizes
  <2>4. CASE p.step % 2 = 0
    <3>1. ASSUME KeyD(e) \in DOMAIN infos PROVE infos[KeyD(e)].lda = e.info.lda
      <4>1. KeyD(e)[1] \in Owned(p) BY <2>2, <2>3, EntryFacts DEF KeyD
      <4>2. (p.step + 1) \div 2 = n BY <2>2, <2>4, Halves
      <4>3. PICK x \in 0 .. n - 1 : KeyD(e) = KeyD(Entry(t, p, x))
             /\ infos[KeyD(e)] = Entry(t, p, x).info
        BY <2>2, <3>1, <4>1, <4>2 DEF Built
      <4>4. x \in 0 .. Entries(p) - 1 BY <2>3, <2>2, PoolSizes
      <4>5. e.ddc = Entry(t, p, x).ddc /\ e.dtt = Entry(t, p, x).dtt
        <5>1. <<e.ddc, e.dtt>> = <<Entry(t, p, x).ddc, Entry(t, p, x).dtt>> BY <4>3 DEF KeyD
        <5> QED BY <5>1
      <4>6. e.info.lda = Entry(t, p, x).info.lda BY <2>2, <2>3, <4>4, <4>5, SameDatatype
      <4> QED BY <4>3, <4>6
    <3> QED BY <2>4, <3>1 DEF EntryOf, KeyD
  <2>5. CASE p.step % 2 # 0
    <3> DEFINE T2 == IF KeyI(e) \in DOMAIN types THEN types ELSE Extend(types, KeyI(e), TypeOf(e))
               q == [mats |-> p.mats, ddcs |-> p.ddcs, shapes |-> p.shapes, step |-> p.step + 1]
    <3>1. q.mats = p.mats /\ q.ddcs = p.ddcs /\ q.shapes = p.shapes /\ q.step = p.step + 1 OBVIOUS
    <3> HIDE DEF q
    <3>2. KeyI(e) \notin DOMAIN types BY <2>1, <2>2, <2>5, <3>1, SecondHalf
    <3> QED BY <2>5, <3>2 DEF EntryOf, KeyI
  <2> QED BY <2>4, <2>5
<1> QED BY <1>1, <1>2, <1>3, <1>4, <1>5 DEF TableClean

(* The datatype table is clean and consistent, whatever the threads, the    *)
(* matrices and the shapes.                                                 *)
THEOREM TablesClean == TableSpec => []TableClean
BY TableInvariant, CleanFromInv, PTL

-----------------------------------------------------------------------------
(* The look-ups: the extent that is entered for the location of a tile is   *)
(* that of the tile.                                                        *)
LEMMA ExtentOfTile ==
  ASSUME NEW off \in Nat, NEW len \in Nat \ {0}, NEW b \in Nat \ {0},
         NEW x \in 0 .. TileCount(off, len, b) - 1
  PROVE  /\ x = 0 => Extent(off, len, b, 0) = TileExtent(off, len, b, x)
         /\ x = TileCount(off, len, b) - 1 => Extent(off, len, b, len) = TileExtent(off, len, b, x)
         /\ x # 0 /\ x # TileCount(off, len, b) - 1 =>
              Extent(off, len, b, 1) = TileExtent(off, len, b, x)
<1> DEFINE q == off \div b
           r == off % b
           u == (off + len) \div b
           v == (off + len) % b
           w == (off + len - 1) \div b
           z == (off + len - 1) % b
<1>1. q \in Nat /\ r \in 0 .. b - 1 /\ off = b * q + r BY DivMod
<1>2. u \in Nat /\ v \in 0 .. b - 1 /\ off + len = b * u + v
  <2>1. off + len \in Nat OBVIOUS
  <2> QED BY <2>1, DivMod
<1>3. w \in Nat /\ z \in 0 .. b - 1 /\ off + len - 1 = b * w + z
  <2>1. off + len - 1 \in Nat OBVIOUS
  <2> QED BY <2>1, DivMod
<1>4. TileCount(off, len, b) = w - q + 1 BY DEF TileCount
<1>5. x \in Nat /\ x <= w - q BY <1>1, <1>3, <1>4
<1> DEFINE s == (q + x) * b
<1>6. TileExtent(off, len, b, x) = LocalMin(off + len, s + b) - (IF s < off THEN off ELSE s)
  BY DEF TileExtent
<1>7. Extent(off, len, b, 0) = LocalMin(b - r, len) BY DEF Extent
<1>8. Extent(off, len, b, len) = LocalMin(IF v # 0 THEN v ELSE b, len) BY DEF Extent
<1>9. len # 1 => Extent(off, len, b, 1) = LocalMin(b, len) BY DEF Extent
<1>10. len = 1 => w = q BY DEF w, q
<1>11. v = IF z + 1 = b THEN 0 ELSE z + 1
  <2>1. off + len = b * w + (z + 1) BY <1>3
  <2>2. CASE z + 1 = b
    <3>1. off + len = b * (w + 1) + 0 BY <1>3, <2>1, <2>2, Multiples
    <3>2. w + 1 \in Nat /\ 0 \in 0 .. b - 1 BY <1>3
    <3>3. (b * (w + 1) + 0) % b = 0 BY <3>2, Quotient
    <3> QED BY <2>2, <3>1, <3>3
  <2>3. CASE z + 1 # b
    <3>1. z + 1 \in 0 .. b - 1 BY <1>3, <2>3
    <3>2. (b * w + (z + 1)) % b = z + 1 BY <1>3, <3>1, Quotient
    <3> QED BY <2>1, <2>3, <3>2
  <2> QED BY <2>2, <2>3
<1> HIDE DEF q, r, u, v, w, z
<1>12. s = b * q + b * x /\ b * x \in Nat /\ b * q \in Nat /\ b * w \in Nat
  <2>1. \A i, j, k \in Nat : (i + j) * k = k * i + k * j OBVIOUS
  <2> QED BY <1>1, <1>3, <1>5, <2>1, Multiples
<1> HIDE DEF s
<1>13. s \in Nat BY <1>12
<1>14. ASSUME x = 0 PROVE Extent(off, len, b, 0) = TileExtent(off, len, b, x)
  <2>1. b * x = 0 BY <1>14
  <2>2. s = off - r BY <1>1, <1>12, <2>1
  <2> QED BY <1>1, <1>6, <1>7, <1>13, <2>2 DEF LocalMin
<1>15. ASSUME x = w - q PROVE Extent(off, len, b, len) = TileExtent(off, len, b, x)
  <2>1. s = off + len - 1 - z
    <3>1. q + x = w BY <1>1, <1>3, <1>15
    <3>2. s = w * b BY <3>1 DEF s
    <3>3. w * b = b * w BY <1>3
    <3> QED BY <1>3, <3>2, <3>3
  <2> QED BY <1>3, <1>6, <1>8, <1>11, <1>13, <2>1 DEF LocalMin
<1>16. ASSUME x # 0, x # w - q PROVE Extent(off, len, b, 1) = TileExtent(off, len, b, x)
  <2>1. PICK k \in Nat : x = k + 1
    <3>1. x - 1 \in Nat /\ x = (x - 1) + 1 BY <1>5, <1>16
    <3> QED BY <3>1
  <2>2. b * x >= b
    <3>1. b * (k + 1) = b * k + b /\ b * k \in Nat BY Multiples
    <3> QED BY <2>1, <3>1
  <2>3. s + b <= b * w
    <3>1. (q + x) + 1 <= w /\ q + x \in Nat BY <1>1, <1>3, <1>5, <1>16
    <3>2. b * ((q + x) + 1) <= b * w /\ b * ((q + x) + 1) = b * (q + x) + b BY <1>3, <3>1, Multiples
    <3>3. b * (q + x) = s BY <3>1 DEF s
    <3> QED BY <3>2, <3>3
  <2>4. s > off BY <1>1, <1>12, <2>2
  <2>5. s + b <= off + len - 1 BY <1>3, <1>12, <1>13, <2>3
  <2>6. len # 1 BY <2>4, <2>5, <1>13
  <2>7. b < len BY <1>13, <2>4, <2>5
  <2> QED BY <1>6, <1>9, <1>13, <2>4, <2>5, <2>6, <2>7 DEF LocalMin
<1> QED
  <2>1. TileCount(off, len, b) - 1 = w - q BY <1>1, <1>3, <1>4
  <2> QED BY <2>1, <1>14, <1>15, <1>16

LEMMA LocOfTile ==
  ASSUME NEW d \in Matrices, NEW x \in 0 .. mt_of(d) - 1, NEW y \in 0 .. nt_of(d) - 1
  PROVE  /\ dplasma_tile_location(d, x, y) \in Locs
         /\ LocRows(d, dplasma_tile_location(d, x, y)) = TileExtent(d.i, d.m, d.mb, x)
         /\ LocCols(d, dplasma_tile_location(d, x, y)) = TileExtent(d.j, d.n, d.nb, y)
<1> DEFINE loc == dplasma_tile_location(d, x, y)
<1>1. /\ d.i \in Nat /\ d.j \in Nat /\ d.m \in Nat \ {0} /\ d.n \in Nat \ {0}
      /\ d.mb \in Nat \ {0} /\ d.nb \in Nat \ {0}
  BY DEF Matrices
<1>2. /\ x = 0 => dplasma_get_rows(d, 0) = TileExtent(d.i, d.m, d.mb, x)
      /\ x = mt_of(d) - 1 => dplasma_get_rows(d, d.m) = TileExtent(d.i, d.m, d.mb, x)
      /\ x # 0 /\ x # mt_of(d) - 1 => dplasma_get_rows(d, 1) = TileExtent(d.i, d.m, d.mb, x)
  BY <1>1, ExtentOfTile DEF mt_of, dplasma_get_rows
<1>3. /\ y = 0 => dplasma_get_cols(d, 0) = TileExtent(d.j, d.n, d.nb, y)
      /\ y = nt_of(d) - 1 => dplasma_get_cols(d, d.n) = TileExtent(d.j, d.n, d.nb, y)
      /\ y # 0 /\ y # nt_of(d) - 1 => dplasma_get_cols(d, 1) = TileExtent(d.j, d.n, d.nb, y)
  BY <1>1, ExtentOfTile DEF nt_of, dplasma_get_cols
<1>4. /\ loc \in {"DC00", "DC0N", "DTOP"} => x = 0
      /\ loc \in {"DCM0", "DCMN", "DBOTTOM"} => x = mt_of(d) - 1
      /\ loc \notin {"DC00", "DC0N", "DTOP", "DCM0", "DCMN", "DBOTTOM"} => x # 0 /\ x # mt_of(d) - 1
      /\ loc \in {"DC00", "DCM0", "DLEFT"} => y = 0
      /\ loc \in {"DC0N", "DCMN", "DRIGHT"} => y = nt_of(d) - 1
      /\ loc \notin {"DC00", "DCM0", "DLEFT", "DC0N", "DCMN", "DRIGHT"} => y # 0 /\ y # nt_of(d) - 1
      /\ loc \in Locs
  BY DEF dplasma_tile_location, Locs
<1> HIDE DEF loc
<1>5. LocRows(d, loc) = TileExtent(d.i, d.m, d.mb, x) BY <1>2, <1>4 DEF LocRows
<1>6. LocCols(d, loc) = TileExtent(d.j, d.n, d.nb, y) BY <1>3, <1>4 DEF LocCols
<1> QED BY <1>4, <1>5, <1>6 DEF loc

\* What an entry records depends on its matrix, location and layout only.
LEMMA EntrySize ==
  ASSUME NEW t, NEW p, NEW x, NEW e, e = Entry(t, p, x), NEW d, d = MatOf(p, x)
  PROVE  IF d.storage = "TILED"
         THEN e.info.rows = d.mb /\ e.info.cols = d.nb /\ e.info.lda = d.mb
         ELSE /\ e.info.rows = LocRows(d, e.info.loc) /\ e.info.cols = LocCols(d, e.info.loc)
              /\ e.info.lda = IF e.info.layout = "LAPACK" THEN d.llm ELSE e.info.rows
<1>1. SlotOf(p, x) = Slot(d, CallOf(p, x).uplo, x % Slots) BY DEF SlotOf
<1>2. CASE d.storage = "TILED" BY <1>1, <1>2, EntryIs DEF Slot
<1>3. CASE d.storage # "TILED"
  <2>1. /\ SlotOf(p, x).rows = LocRows(d, SlotOf(p, x).loc)
         /\ SlotOf(p, x).cols = LocCols(d, SlotOf(p, x).loc)
        /\ SlotOf(p, x).lda = IF SlotOf(p, x).layout = "LAPACK" THEN d.llm ELSE SlotOf(p, x).rows
    BY <1>1, <1>3 DEF Slot
  <2> QED BY <1>3, <2>1, EntryIs
<1> QED BY <1>2, <1>3

EntryAt(t, p, x, h, loc, layout) ==
  /\ x \div Slots = h /\ CallOf(p, x) = p.shapes[h + 1]
  /\ SlotOf(p, x).loc = loc /\ SlotOf(p, x).layout = layout
  /\ KeyI(Entry(t, p, x)) = <<p.ddcs[p.shapes[h + 1].mat], loc, h, layout>>

\* Every location and layout of every shape has its entry.
\* Every location, shape and layout of a taskpool has its entry.
LEMMA EntryFor ==
  ASSUME NEW t, NEW p, WorkOK(p)
  PROVE  \A h \in 0 .. Len(p.shapes) - 1, loc \in Locs, layout \in Layouts :
           \E x \in 0 .. Entries(p) - 1 : EntryAt(t, p, x, h, loc, layout)
<1> SUFFICES ASSUME NEW h \in 0 .. Len(p.shapes) - 1, NEW loc \in Locs, NEW layout \in Layouts
             PROVE \E x \in 0 .. Entries(p) - 1 : EntryAt(t, p, x, h, loc, layout)
  OBVIOUS
<1> DEFINE c == p.shapes[h + 1]
<1>1. PICK s \in 0 .. 17 : Slot(p.mats[c.mat], c.uplo, s).loc = loc
                           /\ Slot(p.mats[c.mat], c.uplo, s).layout = layout
  <2>1. c \in [mat : 1 .. Len(p.mats), uplo : {"FULL", "LOWER", "UPPER"}]
    <3> DEFINE C == [mat : 1 .. Len(p.mats), uplo : {"FULL", "LOWER", "UPPER"}]
    <3>1. p.shapes \in Seq(C) BY DEF WorkOK, Setups
    <3>2. h + 1 \in 1 .. Len(p.shapes) BY PoolSizes
    <3> HIDE DEF C
    <3>3. p.shapes[h + 1] \in C BY <3>1, <3>2
    <3> QED BY <3>3 DEF C
  <2>2. p.mats[c.mat] \in Matrices BY <2>1 DEF WorkOK
  <2> DEFINE d == p.mats[c.mat]
             uplo == c.uplo
  <2>3. d \in Matrices BY <2>2
  <2> HIDE DEF d, uplo, c
  <2>4. HasSlot(d, uplo, loc, layout) BY <2>3, SlotsComplete, Zenon
  <2> QED BY <2>4 DEF HasSlot, d, uplo
<1> DEFINE x == 18 * h + s
<1>2. x \in 0 .. Entries(p) - 1 /\ x \div 18 = h /\ x % 18 = s
  <2>1. h \in Nat /\ h <= Len(p.shapes) - 1 /\ Len(p.shapes) \in Nat
         /\ Entries(p) = 18 * Len(p.shapes)
    BY PoolSizes
  <2> QED BY <2>1
<1> HIDE DEF x
<1>3. CallOf(p, x) = c BY <1>2 DEF CallOf, Slots
<1>4. SlotOf(p, x).loc = loc /\ SlotOf(p, x).layout = layout
  BY <1>1, <1>2, <1>3 DEF SlotOf, MatOf, Slots
<1>5. KeyI(Entry(t, p, x)) = <<p.ddcs[c.mat], loc, h, layout>>
  BY <1>2, <1>3, <1>4, EntryIs DEF KeyI, InfoKey, Slots
<1> QED BY <1>2, <1>3, <1>4, <1>5 DEF Slots, EntryAt

\* A taskpool that runs has all its entries, and they describe its tiles.
LEMMA TypesFromInv == TableInv => TypesExact
<1> SUFFICES ASSUME TableInv, NEW t \in Threads, pools[t].pc = "run",
                    NEW s \in DOMAIN pools[t].shapes
             PROVE  LET i   == pools[t].shapes[s].mat
                        d   == pools[t].mats[i]
                        ddc == pools[t].ddcs[i]
                    IN \A x \in 0 .. mt_of(d) - 1, y \in 0 .. nt_of(d) - 1 :
                         LET loc == dplasma_tile_location(d, x, y)
                         IN /\ \A layout \in {"LAPACK", "TILED"} :
                                 /\ <<ddc, loc, s - 1, layout>> \in DOMAIN types
                                 /\ Describes(ddc, ADTT_DC(ddc, loc, s - 1, layout), d, x, y, layout)
                            /\ pools[t].shapes[s].uplo = "FULL" =>
                                 Describes(ddc, data_of(ddc, d, <<"default_dtt", i>>, x, y), d, x, y, "LAPACK")
  BY DEF TypesExact
<1>a. SUFFICES ASSUME NEW p, p = pools[t], NEW i, i = p.shapes[s].mat, NEW d, d = p.mats[i],
                    NEW ddc, ddc = p.ddcs[i]
             PROVE  \A x \in 0 .. mt_of(d) - 1, y \in 0 .. nt_of(d) - 1 :
                      LET loc == dplasma_tile_location(d, x, y)
                      IN /\ \A layout \in {"LAPACK", "TILED"} :
                              /\ <<ddc, loc, s - 1, layout>> \in DOMAIN types
                              /\ Describes(ddc, ADTT_DC(ddc, loc, s - 1, layout), d, x, y, layout)
                         /\ p.shapes[s].uplo = "FULL" =>
                              Describes(ddc, data_of(ddc, d, <<"default_dtt", i>>, x, y), d, x, y, "LAPACK")
  OBVIOUS
<1> DEFINE E(x) == Entry(t, p, x)
<1>1. /\ WorkOK(p) /\ p.step = Total(p) /\ Built(t, p, infos, types)
  BY <1>a, Working, NoPoolFacts DEF PoolOK, ThreadOK
<1>2. /\ p.step \div 2 = Entries(p) /\ (p.step + 1) \div 2 = Entries(p) /\ Entries(p) \in Nat
  <2>1. \A n \in Nat : (2 * n) \div 2 = n /\ (2 * n + 1) \div 2 = n OBVIOUS
  <2> QED BY <2>1, <1>1, PoolSizes
<1>3. \A x \in 0 .. Entries(p) - 1 :
        KeyI(E(x)) \in DOMAIN types /\ types[KeyI(E(x))].dtt = E(x).dtt
  <2>1. \A x \in 0 .. Entries(p) - 1 :
          KeyI(Entry(t, p, x)) \in DOMAIN types
            /\ types[KeyI(Entry(t, p, x))] = TypeOf(Entry(t, p, x))
    BY <1>1, <1>2 DEF Built
  <2>2. \A e : TypeOf(e).dtt = e.dtt BY DEF TypeOf
  <2> QED BY <2>1, <2>2
<1>4. ASSUME NEW x \in 0 .. Entries(p) - 1
      PROVE  \E z \in 0 .. Entries(p) - 1 :
               /\ <<E(x).ddc, E(x).dtt>> \in DOMAIN infos
               /\ infos[<<E(x).ddc, E(x).dtt>>] = E(z).info
               /\ E(z).ddc = E(x).ddc /\ E(z).dtt = E(x).dtt
  <2>1. KeyD(E(x)) \in DOMAIN infos BY <1>1, <1>2 DEF Built
  <2>2. KeyD(E(x))[1] \in Owned(p) BY <1>1, EntryFacts DEF KeyD
  <2>3. PICK z \in 0 .. Entries(p) - 1 : KeyD(E(x)) = KeyD(E(z)) /\ infos[KeyD(E(x))] = E(z).info
    BY <1>1, <1>2, <2>1, <2>2 DEF Built
  <2>4. <<E(x).ddc, E(x).dtt>> = <<E(z).ddc, E(z).dtt>> BY <2>3 DEF KeyD
  <2>5. E(z).ddc = E(x).ddc /\ E(z).dtt = E(x).dtt BY <2>4
  <2> QED BY <2>1, <2>3, <2>5 DEF KeyD
<1>5. s - 1 \in 0 .. Len(p.shapes) - 1 /\ s = (s - 1) + 1
  <2>1. p.shapes \in Seq([mat : 1 .. Len(p.mats), uplo : {"FULL", "LOWER", "UPPER"}])
    BY <1>1 DEF WorkOK, Setups
  <2> QED BY <2>1, <1>a
<1>6. \A h \in 0 .. Len(p.shapes) - 1, l \in Locs, o \in Layouts :
         \E u \in 0 .. Entries(p) - 1 : EntryAt(t, p, u, h, l, o)
  BY <1>1, EntryFor
<1>b. SUFFICES ASSUME NEW x \in 0 .. mt_of(d) - 1, NEW y \in 0 .. nt_of(d) - 1,
                    NEW loc, loc = dplasma_tile_location(d, x, y)
             PROVE  /\ \A layout \in {"LAPACK", "TILED"} :
                         /\ <<ddc, loc, s - 1, layout>> \in DOMAIN types
                         /\ Describes(ddc, ADTT_DC(ddc, loc, s - 1, layout), d, x, y, layout)
                    /\ p.shapes[s].uplo = "FULL" =>
                         Describes(ddc, data_of(ddc, d, <<"default_dtt", i>>, x, y), d, x, y, "LAPACK")
  OBVIOUS
<1>7. d \in Matrices /\ i \in 1 .. Len(p.mats)
  <2> DEFINE C == [mat : 1 .. Len(p.mats), uplo : {"FULL", "LOWER", "UPPER"}]
  <2>1. p.shapes \in Seq(C) BY <1>1 DEF WorkOK, Setups
  <2> HIDE DEF C
  <2>2. p.shapes[s] \in C BY <2>1, <1>a
  <2>3. i \in 1 .. Len(p.mats) BY <2>2, <1>a DEF C
  <2> QED BY <2>3, <1>1, <1>a DEF WorkOK
<1>8. /\ loc \in Locs /\ LocRows(d, loc) = TileExtent(d.i, d.m, d.mb, x)
      /\ LocCols(d, loc) = TileExtent(d.j, d.n, d.nb, y)
  BY <1>7, <1>b, LocOfTile
<1>9. ASSUME NEW u \in 0 .. Entries(p) - 1, E(u).info.loc = loc, MatOf(p, u) = d
      PROVE  /\ Describes(E(u).ddc, E(u).dtt, d, x, y, E(u).info.layout)
             /\ d.storage = "TILED" => Describes(E(u).ddc, E(u).dtt, d, x, y, "LAPACK")
  <2>1. PICK z \in 0 .. Entries(p) - 1 :
               /\ <<E(u).ddc, E(u).dtt>> \in DOMAIN infos
               /\ infos[<<E(u).ddc, E(u).dtt>>] = E(z).info
               /\ E(z).ddc = E(u).ddc /\ E(z).dtt = E(u).dtt
    BY <1>4
  <2>2. E(z).info.lda = E(u).info.lda /\ E(z).info.rows = E(u).info.rows
         /\ E(z).info.cols = E(u).info.cols
    BY <1>1, <2>1, SameDatatype
  <2>3. IF d.storage = "TILED"
        THEN E(u).info.rows = d.mb /\ E(u).info.cols = d.nb /\ E(u).info.lda = d.mb
        ELSE /\ E(u).info.rows = LocRows(d, loc) /\ E(u).info.cols = LocCols(d, loc)
             /\ E(u).info.lda = IF E(u).info.layout = "LAPACK" THEN d.llm ELSE E(u).info.rows
    BY <1>9, EntrySize
  <2>4. d.storage = "TILED" \/ d.storage = "LAPACK" BY <1>7 DEF Matrices
  <2> HIDE DEF E
  <2> QED BY <1>8, <1>b, <2>1, <2>2, <2>3, <2>4 DEF Describes, TileRows, TileCols
<1>10. ASSUME NEW layout \in Layouts
      PROVE  /\ <<ddc, loc, s - 1, layout>> \in DOMAIN types
             /\ Describes(ddc, ADTT_DC(ddc, loc, s - 1, layout), d, x, y, layout)
  <2>1. PICK u \in 0 .. Entries(p) - 1 : EntryAt(t, p, u, s - 1, loc, layout) BY <1>5, <1>8, <1>6
  <2>2. /\ CallOf(p, u) = p.shapes[(s - 1) + 1] /\ SlotOf(p, u).loc = loc
         /\ SlotOf(p, u).layout = layout
        /\ KeyI(E(u)) = <<p.ddcs[p.shapes[(s - 1) + 1].mat], loc, s - 1, layout>>
    BY <2>1 DEF EntryAt
  <2>3. CallOf(p, u) = p.shapes[s] /\ KeyI(E(u)) = <<ddc, loc, s - 1, layout>>
    BY <1>5, <1>a, <2>2
  <2>4. MatOf(p, u) = d /\ E(u).ddc = ddc /\ E(u).info.loc = loc /\ E(u).info.layout = layout
    BY <2>2, <2>3, <1>a, EntryIs DEF MatOf
  <2>5. <<ddc, loc, s - 1, layout>> \in DOMAIN types /\ ADTT_DC(ddc, loc, s - 1, layout) = E(u).dtt
    BY <1>3, <2>3 DEF ADTT_DC
  <2>6. Describes(E(u).ddc, E(u).dtt, d, x, y, E(u).info.layout) BY <1>9, <2>4
  <2> QED BY <2>4, <2>5, <2>6
<1>11. ASSUME p.shapes[s].uplo = "FULL"
       PROVE  Describes(ddc, data_of(ddc, d, <<"default_dtt", i>>, x, y), d, x, y, "LAPACK")
  <2> DEFINE default == <<"default_dtt", i>>
             cp == infos[<<ddc, default>>]
  <2>1. PICK u \in 0 .. Entries(p) - 1 :
           CallOf(p, u) = p.shapes[s] /\ SlotOf(p, u).loc = "DFULL_T"
             /\ SlotOf(p, u).layout = "LAPACK"
    <3>1. "DFULL_T" \in Locs /\ "LAPACK" \in Layouts BY DEF Locs, Layouts
    <3>2. PICK u \in 0 .. Entries(p) - 1 : EntryAt(t, p, u, s - 1, "DFULL_T", "LAPACK")
      BY <1>5, <3>1, <1>6
    <3> QED BY <1>5, <3>2 DEF EntryAt
  <2>2. MatOf(p, u) = d /\ E(u).ddc = ddc /\ CallOf(p, u).mat = i /\ CallOf(p, u).uplo = "FULL"
    BY <1>11, <2>1, <1>a, EntryIs DEF MatOf
  <2>3. SlotOf(p, u).reuse
    <3>1. SlotOf(p, u) = Slot(d, "FULL", u % Slots) BY <2>2 DEF SlotOf
    <3>2. CASE d.storage = "TILED"
      <4>1. SlotOf(p, u).reuse = ("FULL" = "FULL") BY <3>1, <3>2 DEF Slot
      <4> QED BY <4>1
    <3>3. CASE d.storage # "TILED"
      <4>1. u % Slots < 9 BY <2>1, <3>1, <3>3 DEF Slot
      <4>2. /\ SlotOf(p, u).rows = LocRows(d, "DFULL_T")
             /\ SlotOf(p, u).cols = LocCols(d, "DFULL_T")
        BY <2>1, <3>1, <3>3 DEF Slot
      <4>3. LocRows(d, "DFULL_T") = dplasma_get_rows(d, 1)
             /\ LocCols(d, "DFULL_T") = dplasma_get_cols(d, 1)
        BY DEF LocRows, LocCols
      <4>4. SlotOf(p, u).reuse = (/\ u % Slots < 9 /\ "FULL" = "FULL"
                                  /\ SlotOf(p, u).rows = dplasma_get_rows(d, 1)
                                  /\ SlotOf(p, u).cols = dplasma_get_cols(d, 1))
        BY <3>1, <3>3 DEF Slot
      <4> QED BY <4>1, <4>2, <4>3, <4>4
    <3> QED BY <3>2, <3>3
  <2>4. E(u).dtt = default BY <2>2, <2>3, SharedEntry
  <2>5. PICK z \in 0 .. Entries(p) - 1 :
          /\ <<ddc, default>> \in DOMAIN infos /\ cp = E(z).info /\ E(z).ddc = ddc
             /\ E(z).dtt = default
    <3>1. PICK z \in 0 .. Entries(p) - 1 :
               /\ <<E(u).ddc, E(u).dtt>> \in DOMAIN infos
               /\ infos[<<E(u).ddc, E(u).dtt>>] = E(z).info
               /\ E(z).ddc = E(u).ddc /\ E(z).dtt = E(u).dtt
      BY <1>4
    <3>2. <<E(u).ddc, E(u).dtt>> = <<ddc, default>> BY <2>2, <2>4
    <3> QED BY <3>1, <3>2, <2>2, <2>4
  <2>6. SlotOf(p, z).reuse
    <3>1. ASSUME ~SlotOf(p, z).reuse PROVE FALSE
      <4>1. E(z).dtt = <<t, z \div Slots, SlotOf(p, z).loc, SlotOf(p, z).layout>> BY <3>1, OwnEntry
      <4>2. Len(E(z).dtt) = 4 BY <4>1
      <4>3. Len(E(z).dtt) = 2 BY <2>5
      <4> QED BY <4>2, <4>3
    <3> QED BY <3>1
  <2>7. CallOf(p, z).mat = i /\ MatOf(p, z) = d
    <3>1. p.ddcs[CallOf(p, z).mat] = p.ddcs[i]
      <4>1. E(z).ddc = p.ddcs[CallOf(p, z).mat] BY EntryIs
      <4>2. ddc = p.ddcs[i] BY <1>a
      <4> QED BY <4>1, <4>2, <2>5
    <3>2. CallOf(p, z).mat \in 1 .. Len(p.mats) BY <1>1, CallTyped
    <3>3. CallOf(p, z).mat = i BY <1>1, <1>7, <3>1, <3>2 DEF WorkOK
    <3> QED BY <3>3, <1>a DEF MatOf
  <2>8. d.storage = "LAPACK" => E(z).info.layout = "LAPACK"
    <3>1. SlotOf(p, z) = Slot(d, CallOf(p, z).uplo, z % Slots) BY <2>7 DEF SlotOf
    <3>2. d.storage = "LAPACK" => SlotOf(p, z).layout = "LAPACK" BY <2>6, <3>1 DEF Slot
    <3> QED BY <3>2, EntryIs
  <2>9. d.storage = "TILED" \/ d.storage = "LAPACK" BY <1>7 DEF Matrices
  <2>10. CASE loc = cp.loc
    <3>1. data_of(ddc, d, default, x, y) = default BY <2>10, <1>b DEF data_of
    <3>2. E(z).info.loc = loc BY <2>5, <2>10
    <3>3. /\ Describes(ddc, default, d, x, y, E(z).info.layout)
          /\ d.storage = "TILED" => Describes(ddc, default, d, x, y, "LAPACK")
      BY <1>9, <2>5, <2>7, <3>2
    <3> QED BY <2>8, <2>9, <3>1, <3>3
  <2>11. CASE loc # cp.loc
    <3> DEFINE h == z \div Slots
               layout == E(z).info.layout
    <3>1. h \in 0 .. Len(p.shapes) - 1 /\ layout \in Layouts /\ cp.shape = h /\ cp.layout = layout
      BY <1>1, <2>5, CallTyped, EntryFacts
    <3>2. PICK v \in 0 .. Entries(p) - 1 : EntryAt(t, p, v, h, loc, layout)
      <4> HIDE DEF h, layout
      <4> QED BY <1>8, <3>1, <1>6
    <3>3. /\ CallOf(p, v) = p.shapes[h + 1] /\ SlotOf(p, v).loc = loc
           /\ SlotOf(p, v).layout = layout
          /\ KeyI(E(v)) = <<p.ddcs[p.shapes[h + 1].mat], loc, h, layout>>
      BY <3>2 DEF EntryAt
    <3>4. CallOf(p, v) = CallOf(p, z) BY <3>3 DEF CallOf
    <3>5. MatOf(p, v) = d /\ E(v).ddc = ddc /\ KeyI(E(v)) = <<ddc, loc, h, layout>>
      <4>1. CallOf(p, v).mat = i /\ p.shapes[h + 1].mat = i BY <2>7, <3>3, <3>4
      <4>2. p.mats[i] = d /\ p.ddcs[i] = ddc BY <1>a
      <4> QED BY <3>3, <4>1, <4>2, EntryIs DEF MatOf
    <3>6. E(v).info.loc = loc /\ E(v).info.layout = layout BY <3>3, EntryIs
    <3>7. data_of(ddc, d, default, x, y) = E(v).dtt
      <4>1. data_of(ddc, d, default, x, y) = types[<<ddc, loc, cp.shape, cp.layout>>].dtt
        BY <2>11, <1>b DEF data_of
      <4>2. types[KeyI(E(v))].dtt = E(v).dtt BY <1>3
      <4>3. <<ddc, loc, cp.shape, cp.layout>> = KeyI(E(v)) BY <3>1, <3>5
      <4> QED BY <4>1, <4>2, <4>3
    <3>8. /\ Describes(ddc, E(v).dtt, d, x, y, layout)
          /\ d.storage = "TILED" => Describes(ddc, E(v).dtt, d, x, y, "LAPACK")
      BY <1>9, <3>5, <3>6
    <3> QED BY <2>8, <2>9, <3>7, <3>8
  <2> QED BY <2>10, <2>11
<1> QED BY <1>10, <1>11 DEF Layouts

(* A running taskpool finds the datatype of every tile of its matrices.     *)
THEOREM TypesFound == TableSpec => []TypesExact
BY TableInvariant, TypesFromInv, PTL
=============================================================================
