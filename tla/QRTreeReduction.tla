--------------------------- MODULE QRTreeReduction ---------------------------
(***************************************************************************)
(* The elimination of all panels of a matrix in the order of a reduction   *)
(* tree, as the parameterized QR and LQ graphs carry it out.  They follow  *)
(* the list of every pivot by nextpiv: a row kills the next of its list    *)
(* when that one has gone through a list of its own.  All kills that can   *)
(* happen do happen in one step.                                           *)
(*                                                                         *)
(* The tree is what dplasma_hqr_init, dplasma_svd_init or                  *)
(* dplasma_systolic_init makes of its arguments.                           *)
(***************************************************************************)
EXTENDS dplasma_qrtree

CONSTANTS Heights, Widths  \* tiles in a column, and in a row, of the matrix

VARIABLES
  tree,   \* the reduction tree
  k,      \* the panel
  alive,  \* rows of the panel that have not been killed
  last,   \* the row that a row has killed last in this panel, mt for none
  next    \* the row that a row kills next in this panel, mt for none
vars == <<tree, k, alive, last, next>>

Lists == {"flat", "greedy", "fibonacci", "binary", "greedy1p"}
LevelTrees ==
  {<<x, x>> : x \in Lists} \cup ({"greedy"} \X Lists) \cup (Lists \X {"flat"}) \cup {<<"default", "default">>}

Panels     == imin(tree.mt, tree.nt)
Rows(j)    == j .. tree.mt - 1
Killing    == {p \in alive : next[p] \in alive /\ next[next[p]] = tree.mt}
Victims    == {next[p] : p \in Killing}

Init ==
  /\ \E A \in {[mt |-> mt, nt |-> nt, nodes |-> 6] : mt \in Heights, nt \in Widths} :
       \/ \E l \in LevelTrees, a \in {-1, 1, 2, 3}, p \in 1 .. 3, domino \in {-1, 0, 1}, tsrr \in BOOLEAN :
            tree = dplasma_hqr_init("NoTrans", A, l[1], l[2], a, p, domino, tsrr)
       \/ \E h \in Lists, p \in 1 .. 3, threads \in {1, 2} :
            tree = dplasma_svd_init("Trans", A, h, p, threads, 2)
       \/ \E p \in 1 .. 3, q \in 1 .. 3 : tree = dplasma_systolic_init("ConjTrans", A, p, q)
  /\ k = 0
  /\ alive = Rows(0)
  /\ last = [m \in Rows(0) |-> tree.mt]
  /\ next = [m \in Rows(0) |-> nextpiv(tree, 0, m, tree.mt)]

Kill ==
  /\ Killing # {}
  /\ alive' = alive \ Victims
  /\ last' = [m \in DOMAIN last |-> IF m \in Killing THEN next[m] ELSE last[m]]
  /\ next' = [m \in DOMAIN next |-> IF m \in Killing THEN nextpiv(tree, k, m, next[m]) ELSE next[m]]
  /\ UNCHANGED <<tree, k>>

NextPanel ==
  /\ alive = {k}
  /\ k + 1 < Panels
  /\ k' = k + 1
  /\ alive' = Rows(k + 1)
  /\ last' = [m \in Rows(k + 1) |-> tree.mt]
  /\ next' = [m \in Rows(k + 1) |-> nextpiv(tree, k + 1, m, tree.mt)]
  /\ UNCHANGED tree

Return == alive = {k} /\ k + 1 = Panels /\ UNCHANGED vars

Step == Kill \/ NextPanel \/ Return
Spec == Init /\ [][Step]_vars

-----------------------------------------------------------------------------
\* The rows that are factorized in a panel: getm and geti are inverse to each
\* other on the rows whose type is not 0, and getnbgeqrf counts them.
GeqrtNumbered ==
  LET R == {m \in Rows(k) : gettype(tree, k, m) # TS}
      N == 0 .. getnbgeqrf(tree, k) - 1
  IN  /\ {getm(tree, k, i) : i \in N} = R
      /\ \A i \in N : geti(tree, k, getm(tree, k, i)) = i

\* The closed formulas and tables of a tree agree with each other.  The rows that
\* are factorized are numbered without gaps; the list that nextpiv walks for a
\* row holds the rows whose currpiv it is, each still there when its turn comes,
\* and prevpiv walks the same list backwards.
ListsAgree ==
  /\ GeqrtNumbered
  /\ \A p \in alive :
       /\ prevpiv(tree, k, p, IF next[p] = tree.mt THEN p ELSE next[p]) = last[p]
       /\ next[p] # tree.mt => next[p] \in alive /\ currpiv(tree, k, next[p]) = p

\* A panel is over when one row is left: no list waits for another list that
\* waits for it, and no row is forgotten.
PanelReduced == Killing = {} => alive = {k}

\* A row that is killed as a full tile kills nobody; a row kills level after
\* level and never above its own; and only the last level, the tree over the
\* process rows, makes two process rows exchange tiles.
LevelsHold ==
  LET type == [m \in Rows(k) |-> gettype(tree, k, m)]
  IN  \A p \in {q \in alive : next[q] \in alive} :
        /\ type[p] # TS
        /\ type[next[p]] <= type[p]
        /\ last[p] # tree.mt => type[last[p]] <= type[next[p]]
        /\ type[next[p]] # DISTTREE => next[p] % tree.p = p % tree.p
=============================================================================
