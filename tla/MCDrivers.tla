------------------------------- MODULE MCDrivers -------------------------------
(* Instances of Drivers: a matrix of three tiles on two processes, the last *)
(* tile short, recursive calls on tiles of two; the matrices of unrelated   *)
(* taskpools, among them a part that starts and ends within tiles of a      *)
(* larger matrix; and calls with arguments that fit and that do not.        *)
EXTENDS Drivers, TLC

Part == [i |-> 2, j |-> 1, m |-> 5, n |-> 4, mb |-> 3, nb |-> 2, storage |-> "LAPACK", llm |-> 9]
Thin == [i |-> 1, j |-> 0, m |-> 1, n |-> 5, mb |-> 3, nb |-> 2, storage |-> "LAPACK", llm |-> 9]
Full(i) == [mat |-> i, uplo |-> "FULL"]

Work(mats, shapes) == [mats |-> mats, shapes |-> shapes]
PartAndThin == Work(<<Part, Thin>>, <<Full(1), [mat |-> 2, uplo |-> "LOWER"]>>)
PartAlone == Work(<<Part>>, <<Full(1)>>)

Sizes == {3, 4, 7}  \* a whole tile, and two that end inside a tile
Uplos == {"Upper", "Lower", "bad"}
Transposes == {"N", "T", "C", "bad"}

\* Numbers of tiles that fit A, and that do not.
Fitting(a) == [mt |-> Tiles(a.m), nt |-> Tiles(a.n)]
Around(a) == {Fitting(a), [Fitting(a) EXCEPT !.nt = @ + 1]}

Shape(a) ==
  [A |-> a, storage |-> "TILED", bodies |-> {{"CPU"}}, beside |-> {}, uplo |-> "Lower",
   trans |-> "N", T |-> Fitting(a), TT |-> Fitting(a), L |-> Fitting(a), IPIV |-> Fitting(a)]
Make(routine, a, b) == Shape(a) @@ [routine |-> routine, B |-> b]
Shapes == {[m |-> x, n |-> y] : x, y \in Sizes}
A == [m |-> m, n |-> m]

PotrfCalls ==
  {[Make("zpotrs", A, b) EXCEPT !.uplo = u] : u \in Uplos, b \in {m, m - 1}}
  \cup {[Make(r, A, m) EXCEPT !.uplo = u] : r \in {"zposv", "zpotri", "zpoinv_sync"}, u \in Uplos}
  \cup {[Make("zpotrf", A, m) EXCEPT !.storage = "LAPACK", !.beside = {PartAndThin}],
        [Make("zpotrf", A, m) EXCEPT !.bodies = {{"CPU", "RECURSIVE"}}, !.beside = {PartAlone}],
        [Make("zpotrf", A, m) EXCEPT !.bodies = DeviceSets, !.storage = "LAPACK"]}
LUCalls ==
  {[Make(r, a, b) EXCEPT !.IPIV = [mt |-> 1, nt |-> x], !.trans = t] :
     r \in {"zgesv_1d", "zgetrs"}, a \in Shapes, b \in {4, 7}, x \in {1, 3}, t \in Transposes}
  \cup UNION {{[Make(r, a, b) EXCEPT !.L = l, !.IPIV = p, !.trans = t] :
                 r \in {"zgesv_incpiv", "zgetrs_incpiv"}, b \in {4, 7}, l \in Around(a),
                 p \in Around(a), t \in {"N", "C"}} : a \in Shapes}
QRCalls ==
  UNION {{[Make(r, a, b) EXCEPT !.T = t, !.TT = tt, !.trans = x] :
            r \in {"zgels", "zgeqrs", "zgelqs", "zgeqrs_param", "zgelqs_param"},
            b \in Sizes, t \in Around(a), tt \in Around(a), x \in {"N", "C", "bad"}} :
          a \in Shapes}
MCCalls ==
  PotrfCalls \cup LUCalls \cup
  {c \in QRCalls : /\ c.routine \notin {"zgeqrs_param", "zgelqs_param"} => c.TT = c.T
                   /\ c.routine # "zgels" => c.trans = "N"}
=============================================================================
