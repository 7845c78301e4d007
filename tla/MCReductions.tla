------------------------------ MODULE MCReductions ------------------------------
(* The two reductions whose shape is computed rather than written down: a   *)
(* behaviour reduces a matrix to its norm (zlange), or eliminates the       *)
(* panels of a matrix in the order of a tree while a norm of one tile is    *)
(* not begun.                                                               *)
EXTENDS zlange

CONSTANTS Heights, Widths
ASSUME TreeSizesAssumption == Heights \subseteq Nat \ {0} /\ Widths \subseteq Nat \ {0}
ASSUME GridsAssumption == Grids \subseteq (Nat \ {0}) \X (Nat \ {0})
ASSUME ShapesAssumption == Shapes \subseteq (Nat \ {0}) \X (Nat \ {0})

VARIABLES tree, k, alive, last, next

Tree == INSTANCE QRTreeReduction

None == [none |-> TRUE]
IsTree == tree # None

NotBegun ==
  /\ call = [routine |-> "zlange", ntype |-> "Max", uplo |-> "UpperLower", mt |-> 1, nt |-> 1,
             P |-> 1, Q |-> 1, zero |-> {}]
  /\ done = {} /\ sent = <<>> /\ norm = <<>>

MCInit ==
  \/ Tree!Init /\ NotBegun
  \/ Init /\ tree = None /\ k = None /\ alive = None /\ last = None /\ next = None
MCNext ==
  \/ IsTree /\ Tree!Step /\ UNCHANGED vars
  \/ ~IsTree /\ Next /\ UNCHANGED <<tree, k, alive, last, next>>
MCSpec == MCInit /\ [][MCNext]_<<vars, tree, k, alive, last, next>>

\* The functions of a tree that number the rows, name the pivots and walk their
\* lists in both directions agree with each other at every point of a panel.
ListsAgree == IsTree => Tree!ListsAgree

\* Following the lists reduces every panel to one row: nobody waits for ever.
PanelReduced == IsTree => Tree!PanelReduced

\* Who may kill whom, level by level, and that only the last level makes two
\* process rows exchange tiles.
LevelsHold == IsTree => Tree!LevelsHold

-----------------------------------------------------------------------------
MCGrids == {<<1, 1>>, <<1, 3>>, <<2, 1>>, <<2, 2>>, <<2, 3>>, <<3, 2>>}
MCShapes == {1, 2, 3, 5} \X {1, 2, 4, 5}
MCZeroTiles == {{}, {<<0, 0>>}, {2} \X (0 .. 4)}
=============================================================================
