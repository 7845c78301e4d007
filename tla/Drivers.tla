-------------------------------- MODULE Drivers --------------------------------
(***************************************************************************)
(* The routines that solve a problem by a sequence of others: every        *)
(* process of the context makes the same call, which checks its arguments  *)
(* and goes from one operation to the next.  An operation is a taskpool of *)
(* all processes: it ends when all of them have come to it, and a process  *)
(* learns a status of its own from it.  Some statuses are returned, some   *)
(* decide what comes next, some are dropped.                               *)
(*                                                                         *)
(* Contents are words: A is a product of factors, B the word of what has   *)
(* been applied to the right-hand side.  The operations are those of       *)
(* *_wrapper.c, dplasma_zpotrf step by step as in zpotrf_wrapper.          *)
(***************************************************************************)
EXTENDS zpotrf_wrapper, Functions

CONSTANT Calls  \* the calls that may be made: routine, arguments, and two bounds: the
                \* sets of bodies they are tried with, and what the third thread may
                \* work on beside them

(* The calls are of these routines, and the third thread wraps matrices with *)
(* shapes they may have.                                                    *)
Routines == {"zpotrf", "zposv", "zpotrs", "zpotri", "zpoinv_sync", "zgesv_1d", "zgetrs",
             "zgesv_incpiv", "zgetrs_incpiv", "zgels", "zgeqrs", "zgelqs", "zgeqrs_param",
             "zgelqs_param"}

ASSUME CallsAssumption ==
  \A c \in Calls :
    /\ c.routine \in Routines
    /\ c.storage \in {"TILED", "LAPACK"}
    /\ c.A.m \in Nat /\ c.A.n \in Nat /\ c.B \in Nat
    /\ \A work \in c.beside : work.mats \in Seq(Matrices) /\ work.shapes \in Setups(work.mats)

VARIABLES
  call,      \* the call and its arguments
  program,   \* its operations
  at,        \* every process: operation of the call it is at, 0 before the first
  status,    \* every process: its variable info
  entered,   \* processes inside the operation
  returned,  \* every process: what the call returned, or Inside
  factors,   \* content of A
  rhs        \* content of B: the word and its rows; whether the rows behind them are
             \* zero; whether any operation has begun to overwrite B
driverVars == <<call, program, at, status, entered, returned, factors, rhs>>
allVars == <<callVars, driverVars>>
-----------------------------------------------------------------------------
(* A symbol is a factor, transposed or not, inverted or not.  Q is unitary, *)
(* P a permutation, E the first columns of the identity.                    *)
Sym(f) == [of |-> f, op |-> "N", inv |-> FALSE]
Unitary == {"Q", "P", "E"}
Op(s, t) ==
  IF t = "N" THEN s
  ELSE [s EXCEPT !.op = IF @ # "N" THEN "N" ELSE IF s.of \in Unitary THEN "C" ELSE t]
Inv(s) == IF s.of \in Unitary THEN Op(s, "C") ELSE [s EXCEPT !.inv = ~@]

MapReversed(w, F(_)) == [i \in DOMAIN w |-> F(w[Len(w) + 1 - i])]
OpWord(w, t) == IF t = "N" THEN w ELSE MapReversed(w, LAMBDA s : Op(s, t))
PseudoInverse(w) == MapReversed(w, Inv)

Junk == <<Sym("junk")>>

\* What the factorizations leave in A.
Chol(uplo) == IF uplo = "Upper" THEN <<Op(Sym("U"), "C"), Sym("U")>>
              ELSE <<Sym("L"), Op(Sym("L"), "C")>>
QR(a) == IF a.m > a.n THEN <<Sym("Q"), Sym("E"), Sym("R")>> ELSE <<Sym("Q"), Sym("R")>>
LQ(a) == IF a.n > a.m THEN <<Sym("L"), Op(Sym("E"), "C"), Sym("Q")>> ELSE <<Sym("L"), Sym("Q")>>
LU == <<Op(Sym("P"), "C"), Sym("L1"), Sym("U")>>
LUIncpiv == <<Sym("Lp"), Sym("U")>>

\* The triangle of A a factor is stored in.
Triangle(f) == CASE f \in {"U", "R"} -> <<"Upper", "NonUnit">>
                 [] f = "L"  -> <<"Lower", "NonUnit">>
                 [] f = "L1" -> <<"Lower", "Unit">>
                 [] OTHER -> <<>>
-----------------------------------------------------------------------------
(* Checks of the arguments: the code of the first that fails, 0 if none.    *)
FirstCode(checks) ==
  LET failed == {i \in DOMAIN checks : checks[i][1]}
  IN IF failed = {} THEN 0 ELSE checks[Min(failed)][2]

BadUplo(uplo)  == uplo \notin {"Upper", "Lower"}
BadTrans(t)    == t \notin {"N", "T", "C"}
Tiles(x)       == (x + mb - 1) \div mb
TilesDiffer(t, a) == t.nt # Tiles(a.n) \/ t.mt # Tiles(a.m)

\* The routines of one taskpool, applied from the left.
ztrsm(uplo, trans, diag, a, bm) ==
  [name |-> "ztrsm", uplo |-> uplo, trans |-> trans, diag |-> diag, bm |-> bm,
   code |-> FirstCode(<< <<BadUplo(uplo), -2>>, <<BadTrans(trans), -3>>,
                         <<diag \notin {"Unit", "NonUnit"}, -4>>,
                         <<a.m # a.n \/ a.n # bm, -6>> >>)]
ztrtri(uplo, a) ==
  [name |-> "ztrtri", uplo |-> uplo,
   code |-> FirstCode(<< <<BadUplo(uplo), -1>>, <<a.m # a.n, -6>> >>)]
zlauum(uplo, a) ==
  [name |-> "zlauum", uplo |-> uplo,
   code |-> FirstCode(<< <<BadUplo(uplo), -1>>, <<a.m # a.n, -6>> >>)]
zgeqrf(a, t) == [name |-> "zgeqrf", code |-> FirstCode(<< <<TilesDiffer(t, a), -101>> >>)]
zgelqf(a, t) == [name |-> "zgelqf", code |-> FirstCode(<< <<TilesDiffer(t, a), -101>> >>)]
zunmqr(trans, a, ts, bm) ==
  [name |-> "zunmqr", trans |-> trans,
   code |-> FirstCode(<< <<BadTrans(trans), -2>>, <<a.m # bm, -3>>, <<a.n > bm, -5>>,
                         <<\E t \in ts : TilesDiffer(t, a), -20>> >>)]
zunmlq(trans, a, ts, bm) ==
  [name |-> "zunmlq", trans |-> trans,
   code |-> FirstCode(<< <<BadTrans(trans), -2>>, <<a.n # bm, -3>>, <<a.m > bm, -5>>,
                         <<\E t \in ts : TilesDiffer(t, a), -20>> >>)]
zgetrf_1d(a, ipiv) ==
  [name |-> "zgetrf_1d",
   code |-> FirstCode(<< <<ipiv.mt # 1 \/ Less(Tiles(a.n), Tiles(a.m)) > ipiv.nt, -3>> >>)]
zgetrf_incpiv(a, l, ipiv) ==
  [name |-> "zgetrf_incpiv",
   code |-> FirstCode(<< <<TilesDiffer(l, a), -3>>, <<TilesDiffer(ipiv, a), -4>> >>)]
ztrsmpl_incpiv(a, l, ipiv) ==
  [name |-> "ztrsmpl_incpiv",
   code |-> FirstCode(<< <<TilesDiffer(l, a), -3>>, <<TilesDiffer(ipiv, a), -4>> >>)]
zlaswp(inc) == [name |-> "zlaswp", inc |-> inc, code |-> 0]
zlaset(from, rows) == [name |-> "zlaset", from |-> from, rows |-> rows, code |-> 0]
zpotrf == [name |-> "zpotrf", code |-> 0]

\* A call whose status is assigned to info, and "if( info == 0 )", "if (info != 0)".
Info(op) == [name |-> "info", op |-> op]
IfZero == [name |-> "if"]
-----------------------------------------------------------------------------
(* The drivers: argument checks, and the operations in their order.  c.A    *)
(* and c.B are sizes, c.T, c.TT, c.L and c.IPIV numbers of tiles.           *)
Square(n) == [m |-> n, n |-> n]

zpotrs(c) ==
  IF c.uplo = "Upper"
  THEN <<ztrsm(c.uplo, "C", "NonUnit", c.A, c.B), ztrsm(c.uplo, "N", "NonUnit", c.A, c.B)>>
  ELSE <<ztrsm(c.uplo, "N", "NonUnit", c.A, c.B), ztrsm(c.uplo, "C", "NonUnit", c.A, c.B)>>

\* A variant that does not look at the status of the factorization.
zposv_blind(c) == <<Info(zpotrf)>> \o zpotrs(c)

zposv(c) == <<Info(zpotrf), IfZero>> \o zpotrs(c)

zpotri(c) == <<Info(ztrtri(c.uplo, c.A)), zlauum(c.uplo, c.A)>>

zpoinv_sync(c) == <<Info(zpotrf)>> \o zpotri(c)

zgetrs(c, trans) ==
  IF trans = "N"
  THEN <<zlaswp(1), ztrsm("Lower", "N", "Unit", c.A, c.B), ztrsm("Upper", "N", "NonUnit", c.A, c.B)>>
  ELSE <<ztrsm("Upper", trans, "NonUnit", c.A, c.B), ztrsm("Lower", trans, "Unit", c.A, c.B),
         zlaswp(-1)>>

zgesv_1d(c) == <<Info(zgetrf_1d(c.A, c.IPIV)), IfZero>> \o zgetrs(c, "N")

zgetrs_incpiv(c) ==
  <<ztrsmpl_incpiv(c.A, c.L, c.IPIV), ztrsm("Upper", "N", "NonUnit", c.A, c.B)>>

zgesv_incpiv(c) == <<Info(zgetrf_incpiv(c.A, c.L, c.IPIV)), IfZero>> \o zgetrs_incpiv(c)

zgeqrs(c, ts) ==
  <<zunmqr("C", c.A, ts, c.B), ztrsm("Upper", "N", "NonUnit", Square(c.A.n), c.A.n)>>

zgelqs(c, ts) ==
  <<ztrsm("Lower", "N", "NonUnit", Square(c.A.m), c.A.m), zunmlq("C", c.A, ts, c.B)>>

\* A variant of Clear that does nothing.
Clear_never(from, to) == <<>>

\* Clearing the rows of B behind those of a solve.
Clear(from, to) == IF to > from THEN <<zlaset(from, to - from)>> ELSE <<>>

zgels(c) ==
  IF c.A.m >= c.A.n
  THEN <<zgeqrf(c.A, c.T)>> \o
       IF c.trans = "N"
       THEN <<zunmqr("C", c.A, {c.T}, c.B),
              Info(ztrsm("Upper", "N", "NonUnit", Square(c.A.n), c.A.n))>>
       ELSE <<Info(ztrsm("Upper", "C", "NonUnit", Square(c.A.n), c.A.n)), IfZero>>
            \o Clear(c.A.n, c.A.m) \o <<zunmqr("N", c.A, {c.T}, c.B)>>
  ELSE <<zgelqf(c.A, c.T)>> \o
       IF c.trans = "N"
       THEN <<Info(ztrsm("Lower", "N", "NonUnit", Square(c.A.m), c.A.m)), IfZero>>
            \o Clear(c.A.m, c.A.n) \o <<zunmlq("C", c.A, {c.T}, c.B)>>
       ELSE <<zunmlq("N", c.A, {c.T}, c.B),
              Info(ztrsm("Lower", "C", "NonUnit", Square(c.A.m), c.A.m))>>

Program(c) ==
  CASE c.routine = "zpotrf" -> <<Info(zpotrf)>>
    [] c.routine = "zposv" -> zposv(c)
    [] c.routine = "zpotrs" -> zpotrs(c)
    [] c.routine = "zpotri" -> zpotri(c)
    [] c.routine = "zpoinv_sync" -> zpoinv_sync(c)
    [] c.routine = "zgesv_1d" -> zgesv_1d(c)
    [] c.routine = "zgetrs" -> zgetrs(c, c.trans)
    [] c.routine = "zgesv_incpiv" -> zgesv_incpiv(c)
    [] c.routine = "zgetrs_incpiv" -> zgetrs_incpiv(c)
    [] c.routine = "zgels" -> zgels(c)
    [] c.routine = "zgeqrs" -> zgeqrs(c, {c.T})
    [] c.routine = "zgelqs" -> zgelqs(c, {c.T})
    [] c.routine = "zgeqrs_param" -> zgeqrs(c, {c.T, c.TT})
    [] c.routine = "zgelqs_param" -> zgelqs(c, {c.T, c.TT})

\* The checks each of them starts with.
Rejects(c) ==
  CASE c.routine \in {"zposv", "zpotrs", "zpotri", "zpoinv_sync"} ->
         FirstCode(<< <<BadUplo(c.uplo), -1>> >>)
    [] c.routine = "zgetrs" -> FirstCode(<< <<BadTrans(c.trans), -1>> >>)
    [] c.routine = "zgetrs_incpiv" -> FirstCode(<< <<c.trans # "N", -1>> >>)
    [] c.routine = "zgels" ->
         FirstCode(<< <<c.trans \notin {"N", "C"}, -1>>, <<TilesDiffer(c.T, c.A), -3>>,
                      <<c.B < c.A.n /\ c.B < c.A.m, -4>> >>)
    [] c.routine = "zgeqrs" ->
         FirstCode(<< <<c.A.n > c.A.m, -1>>, <<TilesDiffer(c.T, c.A), -2>>, <<c.B < c.A.m, -3>> >>)
    [] c.routine = "zgelqs" ->
         FirstCode(<< <<c.A.m > c.A.n, -1>>, <<TilesDiffer(c.T, c.A), -2>>, <<c.B < c.A.n, -3>> >>)
    [] c.routine = "zgeqrs_param" ->
         FirstCode(<< <<c.A.n > c.A.m, -2>>, <<TilesDiffer(c.T, c.A), -3>>,
                      <<TilesDiffer(c.TT, c.A), -4>>, <<c.B < c.A.m, -5>> >>)
    [] c.routine = "zgelqs_param" ->
         FirstCode(<< <<c.A.m > c.A.n, -1>>, <<TilesDiffer(c.T, c.A), -2>>,
                      <<TilesDiffer(c.TT, c.A), -2>>, <<c.B < c.A.n, -3>> >>)
    [] OTHER -> 0

\* Those that return info; the others return 0.
ReturnsInfo == {"zpotrf", "zposv", "zpotri", "zpoinv_sync", "zgesv_1d", "zgesv_incpiv", "zgels"}
UsesPotrf == {"zpotrf", "zposv", "zpoinv_sync"}
-----------------------------------------------------------------------------
(* What the caller provides: the factors of A, if it has been factorized,   *)
(* and the right-hand side.                                                 *)
Factorization(c) ==
  CASE c.routine \in {"zposv", "zpotrs", "zpotri", "zpoinv_sync", "zpotrf"} -> Chol(c.uplo)
    [] c.routine \in {"zgesv_1d", "zgetrs"} -> LU
    [] c.routine \in {"zgesv_incpiv", "zgetrs_incpiv"} -> LUIncpiv
    [] c.routine \in {"zgeqrs", "zgeqrs_param"} -> QR(c.A)
    [] c.routine \in {"zgelqs", "zgelqs_param"} -> LQ(c.A)
    [] OTHER -> IF c.A.m >= c.A.n THEN QR(c.A) ELSE LQ(c.A)
Trans(c) == IF c.routine \in {"zgels", "zgetrs"} THEN c.trans ELSE "N"
FactorizesItself == UsesPotrf \cup {"zgesv_1d", "zgesv_incpiv", "zgels"}

Inside == -1000
NoCall == [routine |-> "none"]
NoRhs == [word |-> <<>>, rows |-> 0, zero |-> FALSE, begun |-> FALSE]

DriversInit ==
  /\ Init /\ AdttInit
  /\ call = NoCall
  /\ program = <<>>
  /\ at = [n \in Nodes |-> 0]
  /\ status = [n \in Nodes |-> 0]
  /\ entered = {}
  /\ returned = [n \in Nodes |-> Inside]
  /\ factors = <<>>
  /\ rhs = NoRhs

(* Which minor is bad concerns the callers of dplasma_zpotrf alone.         *)
Invoke(c) ==
  /\ devices \in c.bodies
  /\ c.routine \notin UsesPotrf => minor = 0
  /\ call' = c
  /\ program' = IF Rejects(c) = 0 THEN Program(c) ELSE <<>>
  /\ factors' = IF c.routine \in FactorizesItself THEN <<>> ELSE Factorization(c)
  /\ rhs' = [NoRhs EXCEPT !.rows = Less(c.B, IF Trans(c) = "N" THEN c.A.m ELSE c.A.n)]
  /\ UNCHANGED <<callVars, at, status, entered, returned>>

Check(n) ==
  /\ call # NoCall /\ at[n] = 0 /\ returned[n] = Inside
  /\ IF Rejects(call) # 0
     THEN returned' = [returned EXCEPT ![n] = Rejects(call)] /\ UNCHANGED at
     ELSE at' = [at EXCEPT ![n] = 1] /\ UNCHANGED returned
  /\ UNCHANGED <<callVars, call, program, status, entered, factors, rhs>>

Last == Len(program) + 1
Active(n) == at[n] > 0 /\ at[n] < Last
Step(n) == program[at[n]]
Operation(n) == IF Step(n).name = "info" THEN Step(n).op ELSE Step(n)

(* "if( info == 0 )"                                                        *)
Branch(n) ==
  /\ Active(n) /\ Step(n) = IfZero
  /\ at' = [at EXCEPT ![n] = IF status[n] = 0 THEN @ + 1 ELSE Last]
  /\ UNCHANGED <<callVars, call, program, status, entered, returned, factors, rhs>>

(* An operation that rejects its arguments does nothing, on every process.  *)
Reject(n) ==
  /\ Active(n) /\ Step(n) # IfZero /\ Operation(n).code # 0
  /\ status' = IF Step(n).name = "info" THEN [status EXCEPT ![n] = Operation(n).code] ELSE status
  /\ at' = [at EXCEPT ![n] = @ + 1]
  /\ UNCHANGED <<callVars, call, program, entered, returned, factors, rhs>>

OnRhs == {"ztrsm", "zunmqr", "zunmlq", "zlaswp", "ztrsmpl_incpiv", "zlaset"}

(* A process adds its part of the taskpool, whose first tasks may run.      *)
Enter(n) ==
  /\ Active(n) /\ Step(n) # IfZero /\ Operation(n).code = 0
  /\ n \notin entered
  /\ entered' = entered \cup {n}
  /\ rhs' = [rhs EXCEPT !.begun = @ \/ Operation(n).name \in OnRhs]
  /\ UNCHANGED <<callVars, call, program, at, status, returned, factors>>

Apply(s) == [rhs EXCEPT !.word = <<s>> \o @]
Spoiled == [rhs EXCEPT !.word = Junk]

\* B after an operation.
Solve(op) ==
  LET found == {s \in Range(factors) : Triangle(s.of) = <<op.uplo, op.diag>>}
      s == Inv(Op(Sym((CHOOSE x \in found : TRUE).of), op.trans))
  IN IF found = {} \/ op.bm > rhs.rows THEN Spoiled
     ELSE IF op.bm = rhs.rows THEN Apply(s)
     ELSE [rhs EXCEPT !.word = <<s, Op(Sym("E"), "C")>> \o @, !.rows = op.bm]
Rotate(trans) ==
  IF Sym("Q") \notin Range(factors) THEN Spoiled
  ELSE IF rhs.rows = call.B THEN Apply(Op(Sym("Q"), trans))
  ELSE IF rhs.zero THEN [rhs EXCEPT !.word = <<Op(Sym("Q"), trans), Sym("E")>> \o @, !.rows = call.B]
  ELSE Spoiled

\* The operator of dplasma_zlaset gets the beginning of a whole tile and counts rows as if
\* the matrix started there: B keeps its first rows only if they are not in that tile.
Overwritten(op) ==
  LET first == op.from \div mb
      last == (op.from + op.rows - 1) \div mb
      tempmm(t) == IF t = last THEN op.rows - (t - first) * mb ELSE mb
  IN UNION {t * mb .. t * mb + tempmm(t) - 1 : t \in first .. last}
Blank(op) ==
  IF Overwritten(op) \cap (0 .. rhs.rows-1) # {} THEN Spoiled
  ELSE [rhs EXCEPT !.zero = rhs.rows .. call.B-1 \subseteq Overwritten(op)]
RhsAfter(op) ==
  CASE op.name = "ztrsm" -> Solve(op)
    [] op.name \in {"zunmqr", "zunmlq"} -> Rotate(op.trans)
    [] op.name = "zlaswp" -> Apply(Op(Sym("P"), IF op.inc = 1 THEN "N" ELSE "C"))
    [] op.name = "ztrsmpl_incpiv" -> Apply(Inv(Sym("Lp")))
    [] op.name = "zlaset" -> Blank(op)
    [] OTHER -> rhs

\* A after an operation; a zero pivot leaves nothing of use.
FactorsAfter(op, singular) ==
  CASE op.name \in {"zgeqrf", "zgelqf"} -> Factorization(call)
    [] op.name \in {"zgetrf_1d", "zgetrf_incpiv"} -> IF singular THEN Junk ELSE Factorization(call)
    [] op.name = "ztrtri" -> IF factors = Chol(op.uplo) /\ ~singular
                             THEN <<Inv(Sym(IF op.uplo = "Upper" THEN "U" ELSE "L"))>> ELSE Junk
    [] op.name = "zlauum" -> IF factors = Junk THEN Junk
                             ELSE IF op.uplo = "Upper" THEN factors \o <<Op(factors[1], "C")>>
                             ELSE <<Op(factors[1], "C")>> \o factors
    [] OTHER -> factors

\* A zero on the diagonal: the processes that own one learn of it, and no other.
MayBeSingular(op) == \/ op.name \in {"zgetrf_1d", "zgetrf_incpiv"}
                     \/ (op.name = "ztrtri" /\ factors = Junk)

(* The operation ends on all processes.                                     *)
Complete ==
  /\ entered = Nodes
  /\ \A n \in Nodes : Active(n) /\ at[n] = at[0]
  /\ LET op == Operation(0)
     IN /\ op.name # "zpotrf"
        /\ \E owners \in SUBSET Nodes :
             /\ owners # {} => MayBeSingular(op)
             /\ status' = IF Step(0).name = "info"
                          THEN [n \in Nodes |-> IF n \in owners THEN 1 ELSE 0] ELSE status
             /\ factors' = FactorsAfter(op, owners # {})
        /\ rhs' = RhsAfter(op)
  /\ at' = [n \in Nodes |-> at[n] + 1]
  /\ entered' = {}
  /\ UNCHANGED <<callVars, call, program, returned>>

(* dplasma_zpotrf: its own steps, and the status of the reduction.          *)
InPotrf(n) == n \in entered /\ Active(n) /\ Operation(n).name = "zpotrf"

PotrfStep ==
  /\ \/ InPotrf(Here) /\ dplasma_zpotrf_New(call.storage)
     \/ /\ \A n \in Nodes : InPotrf(n)
        /\ SequentialBody \/ RecursiveBody \/ SubBody \/ Callback
     \/ dplasma_zpotrf_Destruct
     \/ Table
     \/ (call # NoCall /\ Companion(call.beside))
  /\ UNCHANGED driverVars

PotrfReturns(n) ==
  /\ InPotrf(n)
  /\ IF n = Here THEN ReturnHere ELSE ReturnElsewhere
  /\ result'[n] # result[n]
  /\ status' = [status EXCEPT ![n] = result'[n]]
  /\ factors' = IF minor = 0 THEN Chol(call.uplo) ELSE Junk
  /\ entered' = entered \ {n}
  /\ at' = [at EXCEPT ![n] = @ + 1]
  /\ UNCHANGED <<call, program, returned, rhs>>

Leave(n) ==
  /\ call # NoCall /\ at[n] = Last /\ returned[n] = Inside
  /\ returned' = [returned EXCEPT ![n] = IF call.routine \in ReturnsInfo THEN status[n] ELSE 0]
  /\ UNCHANGED <<callVars, call, program, at, status, entered, factors, rhs>>

(* parsec_fini, after the call.                                             *)
Finalize ==
  /\ returned[Here] # Inside
  /\ Fini
  /\ UNCHANGED <<vars, driverVars>>

DriversNext ==
  \/ call = NoCall /\ \E c \in Calls : Invoke(c)
  \/ \E n \in Nodes : Check(n) \/ Branch(n) \/ Reject(n) \/ Enter(n) \/ PotrfReturns(n) \/ Leave(n)
  \/ Complete \/ PotrfStep \/ Finalize

DriversSpec == DriversInit /\ [][DriversNext]_allVars
-----------------------------------------------------------------------------
(* Arguments as the documentation asks for them.                            *)
Legal(c) ==
  /\ c.routine \in {"zpotrf", "zposv", "zpotrs", "zpotri", "zpoinv_sync"} => ~BadUplo(c.uplo)
  /\ c.routine \in {"zgels", "zgeqrs", "zgelqs", "zgeqrs_param", "zgelqs_param"} =>
       /\ c.trans \in {"N", "C"}
       /\ ~TilesDiffer(c.T, c.A) /\ ~TilesDiffer(c.TT, c.A)
       /\ c.B = Max({c.A.m, c.A.n})
       /\ c.routine \in {"zgeqrs", "zgeqrs_param"} => c.A.m >= c.A.n
       /\ c.routine \in {"zgelqs", "zgelqs_param"} => c.A.n >= c.A.m
  /\ c.routine \notin {"zgels", "zgeqrs", "zgelqs", "zgeqrs_param", "zgelqs_param"} =>
       /\ c.A.m = c.A.n /\ c.B = c.A.n
       /\ c.routine \in {"zgesv_1d", "zgetrs"} => c.IPIV.mt = 1 /\ c.IPIV.nt = Tiles(c.A.n)
       /\ c.routine \in {"zgesv_incpiv", "zgetrs_incpiv"} =>
            ~TilesDiffer(c.L, c.A) /\ ~TilesDiffer(c.IPIV, c.A)
       /\ c.routine = "zgetrs" => ~BadTrans(c.trans)
       /\ c.routine = "zgetrs_incpiv" => c.trans = "N"

(* Calls that return 0 without the result, each noted in the README: zgels  *)
(* clears other rows of B when the first one is inside a tile, the minimum  *)
(* norm solution of zgelqs keeps what was in the rows of B behind the       *)
(* solve, and zpoinv_sync forgets the status of its factorization.          *)
ClearsInsideTile(c) ==
  /\ c.routine = "zgels"
  /\ IF c.trans = "N" THEN c.A.m < c.A.n /\ c.A.m % mb # 0 ELSE c.A.n < c.A.m /\ c.A.n % mb # 0
KnownUnsolved(c) ==
  \/ ClearsInsideTile(c)
  \/ (c.routine \in {"zgelqs", "zgelqs_param"} /\ c.A.m < c.A.n)
  \/ (c.routine = "zpoinv_sync" /\ minor # 0)

Result(c) ==
  CASE c.routine = "zpotrf" -> factors = Chol(c.uplo)
    [] c.routine \in {"zpotri", "zpoinv_sync"} -> factors = PseudoInverse(Chol(c.uplo))
    [] OTHER -> /\ rhs.word = PseudoInverse(OpWord(Factorization(c), Trans(c)))
                /\ rhs.rows = IF Trans(c) = "N" THEN c.A.n ELSE c.A.m

(* A legal call is not rejected, and where it returns 0 B holds the          *)
(* solution, or the least squares or minimum norm solution, of the system    *)
(* asked for, or A its inverse: factors, solves, rotations, interchanges and *)
(* cleared rows came in an order that gives exactly the pseudo-inverse of    *)
(* op(A), whatever operations rejected or failed on the way.                 *)
LegalSolved ==
  \A n \in Nodes :
    returned[n] # Inside /\ Legal(call) /\ ~KnownUnsolved(call) /\ devices = {"CPU"} =>
      /\ returned[n] >= 0
      /\ returned[n] = 0 => Result(call)

(* A call that is rejected by its own checks, and a Cholesky solve whose     *)
(* factorization failed, have not begun to overwrite the right-hand side.    *)
FailureStops ==
  \A n \in Nodes :
    returned[n] # Inside /\ (at[n] = 0 \/ (call.routine = "zposv" /\ returned[n] # 0))
      => ~rhs.begun

(* The processes go the same way: when one has left the call no other is     *)
(* inside an operation, where it would wait for ever.  (Only dplasma_zpotrf, *)
(* the first operation of its drivers, lets one process go before another.)  *)
Together ==
  \A n, o \in Nodes :
    returned[n] # Inside /\ o \in entered => Operation(o).name = "zpotrf"

(* Together holds for the drivers whose branches depend on a reduced status. *)
TogetherIfReduced == call # NoCall /\ call.routine \notin {"zgesv_1d", "zgesv_incpiv"} => Together
=============================================================================
