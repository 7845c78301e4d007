-------------------------- MODULE dplasma_lapack_adtt --------------------------
(***************************************************************************)
(* Datatypes of tiles.  A matrix may be stored by tiles or, as LAPACK      *)
(* stores it, by columns, and its first and last tiles may be short: a     *)
(* taskpool wraps each of its matrices in a collection of its own (ddc)    *)
(* and enters the datatype of every location, shape and layout of a tile   *)
(* in one table of the process, in both directions (type -> what it        *)
(* describes, description -> type).  Taskpools of several threads use the  *)
(* table at the same time, among them those that recursive bodies create.  *)
(*                                                                         *)
(* dplasma_lapack_adtt.c, .h (the table), types_lapack.h (what a taskpool  *)
(* enters and removes), dplasmajdf_lapack_dtt.h (look-ups of the bodies).  *)
(* The locks of hash table buckets are PaRSEC's: an operation on one key   *)
(* is one step.                                                            *)
(***************************************************************************)
EXTENDS Integers, Sequences, FiniteSets

CONSTANTS
  Threads,    \* threads that create and destroy taskpools
  Addresses   \* where malloc may put a wrapped collection

ASSUME AddressAssumption == Addresses \subseteq Nat /\ IsFiniteSet(Addresses)

LocalMin(a, b) == IF a < b THEN a ELSE b
-----------------------------------------------------------------------------
(* A matrix d is part of a larger one: it starts at element (d.i, d.j), has *)
(* d.m by d.n elements in tiles of d.mb by d.nb, and is stored by tiles     *)
(* ("TILED") or by columns of d.llm elements ("LAPACK").                    *)

\* Rows, or columns, of the first tile (x = 0), of the last (x = len) and of others.
Extent(off, len, b, x) ==
  LET full == IF x = len THEN (IF (off + len) % b # 0 THEN (off + len) % b ELSE b)
              ELSE IF x = 0 THEN b - (off % b)
              ELSE b
  IN LocalMin(full, len)

dplasma_get_rows(d, x) == Extent(d.i, d.m, d.mb, x)
dplasma_get_cols(d, x) == Extent(d.j, d.n, d.nb, x)

\* Tiles of a matrix (parsec_tiled_matrix_init), and what is in one of them.
TileCount(off, len, b) == (off + len - 1) \div b - off \div b + 1
TileExtent(off, len, b, x) ==
  LET start == (off \div b + x) * b
  IN LocalMin(off + len, start + b) - (IF start < off THEN off ELSE start)
mt_of(d) == TileCount(d.i, d.m, d.mb)
nt_of(d) == TileCount(d.j, d.n, d.nb)

Matrices ==
  [i : Nat, j : Nat, m : Nat \ {0}, n : Nat \ {0}, mb : Nat \ {0}, nb : Nat \ {0},
   storage : {"TILED", "LAPACK"}, llm : Nat \ {0}]

Locs == {"DFULL_T", "DC00", "DCM0", "DC0N", "DCMN", "DTOP", "DBOTTOM", "DLEFT", "DRIGHT"}

dplasma_tile_location(d, x, y) ==
  LET last_m == x = mt_of(d) - 1
      last_n == y = nt_of(d) - 1
  IN IF x = 0 /\ y = 0 THEN "DC00" ELSE IF last_m /\ last_n THEN "DCMN"
     ELSE IF x = 0 /\ last_n THEN "DC0N" ELSE IF last_m /\ y = 0 THEN "DCM0"
     ELSE IF x = 0 THEN "DTOP" ELSE IF last_m THEN "DBOTTOM"
     ELSE IF y = 0 THEN "DLEFT" ELSE IF last_n THEN "DRIGHT" ELSE "DFULL_T"

\* Rows and columns entered for a location of a matrix stored by columns.
LocRows(d, loc) ==
  dplasma_get_rows(d, IF loc \in {"DC00", "DC0N", "DTOP"} THEN 0
                      ELSE IF loc \in {"DCM0", "DCMN", "DBOTTOM"} THEN d.m ELSE 1)
LocCols(d, loc) ==
  dplasma_get_cols(d, IF loc \in {"DC00", "DCM0", "DLEFT"} THEN 0
                      ELSE IF loc \in {"DC0N", "DCMN", "DRIGHT"} THEN d.n ELSE 1)

(* dplasma_setup_adtt_all_loc: what it enters, in order; "reuse" says that  *)
(* the datatype is the collection's own (only a FULL shape has one).        *)
LocOrder == <<"DFULL_T", "DC00", "DC0N", "DCM0", "DCMN", "DTOP", "DBOTTOM", "DLEFT", "DRIGHT">>
TiledOrder == <<"DFULL_T", "DC00", "DCM0", "DC0N", "DCMN", "DTOP", "DBOTTOM", "DLEFT", "DRIGHT">>
Slots == 18

Slot(d, uplo, s) ==
  IF d.storage = "TILED"
  THEN [loc |-> TiledOrder[s \div 2 + 1], layout |-> IF s % 2 = 0 THEN "TILED" ELSE "LAPACK",
        rows |-> d.mb, cols |-> d.nb, lda |-> d.mb, reuse |-> uplo = "FULL"]
  ELSE LET loc  == LocOrder[(s % 9) + 1]
           rows == LocRows(d, loc)
           cols == LocCols(d, loc)
           lapack == s < 9
       IN [loc |-> loc, layout |-> IF lapack THEN "LAPACK" ELSE "TILED",
           rows |-> rows, cols |-> cols, lda |-> IF lapack THEN d.llm ELSE rows,
           reuse |-> /\ lapack /\ uplo = "FULL"
                     /\ rows = dplasma_get_rows(d, 1) /\ cols = dplasma_get_cols(d, 1)]
-----------------------------------------------------------------------------
VARIABLES
  helper,    \* dplasma_datatypes_lapack_helper: "NULL" or "table"
  new_ht,    \* threads that found NULL and have made a table of their own
  infos,     \* the entries "ddc|dtt": what a datatype describes
  types,     \* the entries "ddc|loc|shape|layout": datatype and arena
  refs,      \* references to every arena, the constructed datatypes with theirs
  pools      \* the taskpool each thread is working on
tableVars == <<helper, new_ht, infos, types, refs>>
adttVars == <<helper, new_ht, infos, types, refs, pools>>

NoPool == [pc |-> "none", mats |-> <<>>, ddcs |-> <<>>, shapes |-> <<>>, step |-> 0,
           held |-> <<>>]

(* shapes is the sequence of calls of dplasma_setup_adtt_all_loc of a       *)
(* routine, as pairs of a matrix and a part of the tile; MAX_SHAPES is      *)
(* their number.                                                            *)
Setups(mats) == Seq([mat : 1 .. Len(mats), uplo : {"FULL", "LOWER", "UPPER"}])

AdttInit ==
  /\ helper = "NULL" /\ new_ht = {}
  /\ infos = <<>> /\ types = <<>> /\ refs = <<>>
  /\ pools = [t \in Threads |-> NoPool]

Extend(f, x, v) == [y \in DOMAIN f \cup {x} |-> IF y = x THEN v ELSE f[y]]
Without(f, x) == [y \in DOMAIN f \ {x} |-> f[y]]

InUse == UNION {{pools[t].ddcs[i] : i \in DOMAIN pools[t].ddcs} : t \in Threads}
(* dplasma_wrap_data_collection for every matrix: malloc returns memory that *)
(* is not in use, here the lowest addresses (a bound).                      *)
Allocations(n) ==
  {s \in [1 .. n -> Addresses \ InUse] :
    /\ \A i, j \in 1 .. n : i < j => s[i] < s[j]
    /\ \A i \in 1 .. n, a \in Addresses \ InUse :
         a < s[i] => \E j \in 1 .. n : s[j] = a}

Wrap(t, mats, shapes) ==
  /\ pools[t] = NoPool
  /\ \E ddcs \in Allocations(Len(mats)) :
       pools' = [pools EXCEPT ![t] = [pc |-> "setup", mats |-> mats, ddcs |-> ddcs,
                                      shapes |-> shapes, step |-> 0, held |-> <<>>]]
  /\ UNCHANGED tableVars

(* dplasma_set_helper_hash_table_atomic: the thread that finds NULL makes a *)
(* table and tries to put it in place; the loser drops its own.             *)
MakeTable(t) ==
  /\ pools[t].pc = "setup" /\ helper = "NULL" /\ t \notin new_ht
  /\ new_ht' = new_ht \cup {t}
  /\ UNCHANGED <<helper, infos, types, refs, pools>>

\* A variant that stores its table without a comparison.
PlaceTable_store(t) ==
  /\ t \in new_ht
  /\ helper' = "table"
  /\ infos' = <<>> /\ types' = <<>>
  /\ new_ht' = new_ht \ {t}
  /\ UNCHANGED <<refs, pools>>

PlaceTable(t) ==
  /\ t \in new_ht
  /\ helper' = "table"
  /\ new_ht' = new_ht \ {t}
  /\ UNCHANGED <<infos, types, refs, pools>>

(* The entries a taskpool makes, and the one a thread is working on: two    *)
(* steps for each slot of each shape.                                       *)
Total(pool) == 2 * Slots * Len(pool.shapes)
Entry(t, pool, x) ==
  LET shape == x \div Slots
      call  == pool.shapes[shape + 1]
      slot  == Slot(pool.mats[call.mat], call.uplo, x % Slots)
      id    == IF slot.reuse THEN <<t, shape>> ELSE <<t, shape, slot.loc, slot.layout>>
  IN [ddc |-> pool.ddcs[call.mat],
      dtt |-> IF slot.reuse THEN <<"default_dtt", call.mat>> ELSE id,
      arena |-> id,
      info |-> [lda |-> slot.lda, rows |-> slot.rows, cols |-> slot.cols, loc |-> slot.loc,
                shape |-> shape, layout |-> slot.layout]]
EntryOf(t) == Entry(t, pools[t], pools[t].step \div 2)
Advance(t) == pools' = [pools EXCEPT ![t].step = @ + 1]
InfoKey(ddc, info) == <<ddc, info.loc, info.shape, info.layout>>

Building(t) ==
  /\ pools[t].pc = "setup" /\ pools[t].step < Total(pools[t])
  /\ helper = "table" /\ t \notin new_ht

\* References to the arena of entry e after one more entry holds it; the
\* default arena of a shape is made with one reference for the setup itself.
Held(e, r) ==
  IF e.arena \in DOMAIN r THEN r[e.arena] + 1
  ELSE IF Len(e.arena) = 2 THEN 2 ELSE 1

(* dplasma_setup_adtt_loc, first half: the arena is retained or made, and   *)
(* dplasma_set_dtt_to_info enters the type unless it is there.              *)
SetDttToInfo(t) ==
  /\ Building(t) /\ pools[t].step % 2 = 0
  /\ LET e == EntryOf(t)
         key == <<e.ddc, e.dtt>>
     IN /\ refs' = Extend(refs, e.arena, Held(e, refs))
        /\ infos' = IF key \in DOMAIN infos THEN infos ELSE Extend(infos, key, e.info)
  /\ Advance(t)
  /\ UNCHANGED <<helper, new_ht, types>>

(* Second half, dplasma_set_info_to_dtt.                                    *)
SetInfoToDtt(t) ==
  /\ Building(t) /\ pools[t].step % 2 = 1
  /\ LET e == EntryOf(t)
         key == InfoKey(e.ddc, e.info)
     IN types' = IF key \in DOMAIN types THEN types
                 ELSE Extend(types, key, [dtt |-> e.dtt, arena |-> e.arena, info |-> e.info])
  /\ Advance(t)
  /\ UNCHANGED <<helper, new_ht, infos, refs>>

(* _New returns the taskpool; it is added to the context and runs.          *)
Start(t) ==
  /\ pools[t].pc = "setup" /\ pools[t].step = Total(pools[t])
  /\ pools' = [pools EXCEPT ![t].pc = "run"]
  /\ UNCHANGED tableVars

(* _Destruct, once the taskpool has completed.                              *)
Stop(t) ==
  /\ pools[t].pc = "run"
  /\ pools' = [pools EXCEPT ![t].pc = "clean", ![t].step = 0]
  /\ UNCHANGED tableVars

(* dplasma_clean_adtt_all_loc for every collection: each shape below        *)
(* MAX_SHAPES, layout and location.                                         *)
LocCodes == <<"DFULL_T", "DC00", "DCM0", "DC0N", "DCMN", "DTOP", "DBOTTOM", "DLEFT", "DRIGHT">>
\* A variant that cleans the entries of the first shape only.
CleanTotal_shape(pool) == Slots * Len(pool.ddcs)

CleanTotal(pool) == Slots * Len(pool.shapes) * Len(pool.ddcs)
KeyToClean(pool, x) ==
  LET ddc  == pool.ddcs[x \div (Slots * Len(pool.shapes)) + 1]
      rest == x % (Slots * Len(pool.shapes))
  IN <<ddc, LocCodes[(rest % 9) + 1], rest \div Slots,
       IF (rest % Slots) \div 9 = 0 THEN "LAPACK" ELSE "TILED">>
CleanKey(t) == KeyToClean(pools[t], pools[t].step)
Cleaning(t) == pools[t].pc = "clean" /\ pools[t].step < CleanTotal(pools[t])

NothingToClean(t) ==
  /\ Cleaning(t) /\ CleanKey(t) \notin DOMAIN types
  /\ Advance(t)
  /\ UNCHANGED tableVars

(* dplasma_cleanup_datatype_info: the entry of the description goes first,  *)
(* under the lock of its bucket.                                            *)
RemoveInfoToDtt(t) ==
  /\ Cleaning(t) /\ CleanKey(t) \in DOMAIN types
  /\ pools' = [pools EXCEPT ![t].pc = "removing", ![t].held = types[CleanKey(t)]]
  /\ types' = Without(types, CleanKey(t))
  /\ UNCHANGED <<helper, new_ht, infos, refs>>

\* Release an arena, freed with its datatype when nobody holds it any more.
Release(r, arena) ==
  IF arena \in DOMAIN r /\ r[arena] > 1 THEN [r EXCEPT ![arena] = @ - 1]
  ELSE Without(r, arena)

(* ... then the entry of its datatype, if another location has not removed  *)
(* it already, under another lock; then the arena is released.              *)
RemoveDttToInfo(t) ==
  LET held == pools[t].held
      key  == <<CleanKey(t)[1], held.dtt>>
  IN /\ pools[t].pc = "removing"
     /\ infos' = Without(infos, key)
     /\ refs' = Release(refs, held.arena)
     /\ pools' = [pools EXCEPT ![t].pc = "clean", ![t].held = <<>>, ![t].step = @ + 1]
     /\ UNCHANGED <<helper, new_ht, types>>

\* Default arenas of a thread, at their last reference: that of the setup,
\* which nobody releases.
Leaked(t) == {a \in DOMAIN refs : a[1] = t /\ Len(a) = 2 /\ refs[a] = 1}

(* dplasma_unwrap_data_collection.                                          *)
Unwrap(t) ==
  /\ pools[t].pc = "clean" /\ pools[t].step = CleanTotal(pools[t])
  /\ pools' = [pools EXCEPT ![t] = NoPool]
  /\ refs' = [a \in DOMAIN refs \ Leaked(t) |-> refs[a]]
  /\ UNCHANGED <<helper, new_ht, infos, types>>

(* dplasma_datatypes_info_fini, called by parsec_fini.                      *)
Fini ==
  /\ helper = "table" /\ \A t \in Threads : pools[t] = NoPool
  /\ helper' = "NULL" /\ infos' = <<>> /\ types' = <<>>
  /\ UNCHANGED <<new_ht, refs, pools>>

TableStep(t) ==
  \/ MakeTable(t) \/ PlaceTable(t) \/ SetDttToInfo(t) \/ SetInfoToDtt(t) \/ Start(t)
  \/ NothingToClean(t) \/ RemoveInfoToDtt(t) \/ RemoveDttToInfo(t)

(* The table by itself: any thread creates and destroys any taskpools.       *)
TableNext ==
  \/ \E t \in Threads : TableStep(t) \/ Stop(t) \/ Unwrap(t)
  \/ \E t \in Threads, mats \in Seq(Matrices) : \E shapes \in Setups(mats) : Wrap(t, mats, shapes)
  \/ Fini

TableSpec == AdttInit /\ [][TableNext]_adttVars
-----------------------------------------------------------------------------
(* The look-ups of a running taskpool.                                      *)

\* data_of: the datatype of tile (x, y) of the collection at address ddc.
data_of(ddc, d, default, x, y) ==
  LET cp  == infos[<<ddc, default>>]
      loc == dplasma_tile_location(d, x, y)
  IN IF loc = cp.loc THEN default
     ELSE types[<<ddc, loc, cp.shape, cp.layout>>].dtt

\* ADTT_DC, and ADTT_CP of a copy with datatype dtt.
ADTT_DC(ddc, loc, shape, layout) == types[<<ddc, loc, shape, layout>>].dtt
ADTT_CP(ddc, dtt, loc, shape) ==
  LET cp == infos[<<ddc, dtt>>]
  IN IF cp.shape = shape THEN dtt ELSE types[<<ddc, loc, shape, cp.layout>>].dtt
-----------------------------------------------------------------------------
\* Rows and columns of tile (x, y); tiles of their own are always full.
TileRows(d, x) == IF d.storage = "TILED" THEN d.mb ELSE TileExtent(d.i, d.m, d.mb, x)
TileCols(d, y) == IF d.storage = "TILED" THEN d.nb ELSE TileExtent(d.j, d.n, d.nb, y)

\* The datatype dtt of the collection at address ddc describes tile (x, y).
Describes(ddc, dtt, d, x, y, layout) ==
  /\ <<ddc, dtt>> \in DOMAIN infos
  /\ LET i == infos[<<ddc, dtt>>]
     IN /\ i.rows = TileRows(d, x) /\ i.cols = TileCols(d, y)
        /\ i.lda = IF d.storage = "LAPACK" /\ layout = "LAPACK" THEN d.llm ELSE i.rows

(* A running taskpool finds, for every tile of its matrices, in every shape *)
(* and layout it has set up, a datatype that covers exactly the tile, and   *)
(* from that datatype the way back to its description; data_of gives the    *)
(* tile the datatype of its location.                                       *)
TypesExact ==
  \A t \in Threads : pools[t].pc = "run" =>
    \A s \in DOMAIN pools[t].shapes :
      LET i   == pools[t].shapes[s].mat
          d   == pools[t].mats[i]
          ddc == pools[t].ddcs[i]
      IN \A x \in 0 .. mt_of(d) - 1, y \in 0 .. nt_of(d) - 1 :
           LET loc == dplasma_tile_location(d, x, y)
           IN /\ \A layout \in {"LAPACK", "TILED"} :
                   /\ <<ddc, loc, s - 1, layout>> \in DOMAIN types
                   /\ Describes(ddc, ADTT_DC(ddc, loc, s - 1, layout), d, x, y, layout)
              /\ pools[t].shapes[s].uplo = "FULL" =>
                   Describes(ddc, data_of(ddc, d, <<"default_dtt", i>>, x, y), d, x, y, "LAPACK")

(* No entry outlives the collection it is about, so that a collection at    *)
(* the same address starts afresh; an entry, or the one being removed,      *)
(* holds an arena that has not been freed; no arena outlives its taskpool;  *)
(* and the asserts of the table hold.                                       *)
TableClean ==
  /\ \A key \in DOMAIN infos \cup DOMAIN types : key[1] \in InUse
  /\ \A key \in DOMAIN types : types[key].arena \in DOMAIN refs
  /\ \A t \in Threads :
       /\ pools[t].held # <<>> => pools[t].held.arena \in DOMAIN refs
       /\ pools[t] = NoPool => \A a \in DOMAIN refs : a[1] # t
       /\ Building(t) =>
            LET e == EntryOf(t)
                key == <<e.ddc, e.dtt>>
            IN IF pools[t].step % 2 = 0
               THEN key \in DOMAIN infos => infos[key].lda = e.info.lda
               ELSE InfoKey(e.ddc, e.info) \in DOMAIN types
                      => types[InfoKey(e.ddc, e.info)].dtt = e.dtt
=============================================================================
