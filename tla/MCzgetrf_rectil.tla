---------------------------- MODULE MCzgetrf_rectil ----------------------------
(***************************************************************************)
(* Three threads.  On tiles thread 0 has the first two of four, and a row  *)
(* may be interchanged with one of the top tile, of the second tile of     *)
(* thread 0, or of the tile of another thread; on an array the threads     *)
(* have rows 0..4, 5..8 and 9..12, and the row is of thread 0 or 2.        *)
(***************************************************************************)
EXTENDS CORE_zgetrf_rectil

MCPivotRows == [TILED |-> {2, 6, 9, 12}, LAPACK |-> {2, 12}]

\* A panel that is wider than high has one tile, hence one thread.
WidePivotRows == [TILED |-> {1, 2}, LAPACK |-> {1, 2}]
=============================================================================
