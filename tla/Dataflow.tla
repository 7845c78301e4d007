------------------------------ MODULE Dataflow ------------------------------
(***************************************************************************)
(* The vocabulary of a JDF file, in which the task graphs of the library   *)
(* are written.  A graph maps every task, a tuple <<class, parameters>>,   *)
(* to the tiles it is placed at, its place in the sequential algorithm and *)
(* its flows.  A flow has the access mode of the file, the part of a tile  *)
(* that the kernel works on, and two sets of ends: where its data come     *)
(* from and where they go.  An end is                                      *)
(*                                                                         *)
(*   <<flow, class, parameters>>    a flow of another task,                *)
(*   <<"part", regions, end>>       the same, sent with a datatype that    *)
(*                                  holds only these regions of the tile,  *)
(*   <<"mem", regions>>             the tile in the data collection,       *)
(*   <<"new">>                      fresh memory.                          *)
(*                                                                         *)
(* A tile is a set of regions: one for a tile that all kernels use as a    *)
(* whole, two for one whose triangles go separate ways.                    *)
(***************************************************************************)
EXTENDS Integers, TLC

MinOf(a, b) == IF a <= b THEN a ELSE b
MaxOf(a, b) == IF a >= b THEN a ELSE b

\* A range a .. b .. s.
Steps(a, b, s) == {x \in a .. b : (x - a) % s = 0}

-----------------------------------------------------------------------------
\* Tiles and their triangles.
Whole(name, m, n)  == {<<name, m, n>>}
Halves(name, m, n) == {<<name, m, n, "U">>, <<name, m, n, "L">>}
Upper(tile)        == {r \in tile : r[4] = "U"}
Lower(tile)        == {r \in tile : r[4] = "L"}

-----------------------------------------------------------------------------
\* Ends of arrows: a guarded arrow, and the ends listed above.
If(guard, ends)       == IF guard THEN ends ELSE {}
Mem(regions)          == <<"mem", regions>>
New                   == <<"new">>
Null                  == {New}   \* NULL as an input: no data, which nobody reads
Part(regions, arrows) == {<<"part", regions, a>> : a \in arrows}

\* Flows: READ, RW and WRITE as in the file; PASS is a flow of a task with an
\* empty body, which hands its data on; COPY is a flow to which the kernel copies the
\* regions from another flow, that reads them; CTL carries no data.
Flow(mode, tile, in, out) == [mode |-> mode, tile |-> tile, in |-> in, out |-> out]
READ(tile, in, out)  == Flow("READ", tile, in, out)
RW(tile, in, out)    == Flow("RW", tile, in, out)
WRITE(tile, in, out) == Flow("WRITE", tile, in, out)
PASS(tile, in, out)  == Flow("PASS", tile, in, out)
COPY(tile, in, out)  == Flow("COPY", tile, in, out)
CTL(in, out)         == Flow("CTL", {}, in, out)

\* A task with a kernel, at its place in the sequential algorithm (tuples are
\* compared element by element), and a task that only forwards data.
Task(at, seq, flows) == [at |-> at, seq |-> seq, flow |-> flows]
Forward(at, flows)   == Task(at, <<>>, flows)

-----------------------------------------------------------------------------
\* A task class: its name, the range of each parameter, and the task.
Class0(name, task) == [t \in {<<name>>} |-> task]
Class1(name, I, task(_)) ==
  [t \in {<<name, i>> : i \in I} |-> task(t[2])]
Class2(name, I, J(_), task(_, _)) ==
  [t \in UNION {{<<name, i, j>> : j \in J(i)} : i \in I} |-> task(t[2], t[3])]
Class3(name, I, J(_), K(_, _), task(_, _, _)) ==
  [t \in UNION {UNION {{<<name, i, j, k>> : k \in K(i, j)} : j \in J(i)} : i \in I}
     |-> task(t[2], t[3], t[4])]
Class4(name, I, J(_), K(_, _), L(_, _, _), task(_, _, _, _)) ==
  [t \in UNION {UNION {UNION {{<<name, i, j, k, l>> : l \in L(i, j, k)}
                              : k \in K(i, j)} : j \in J(i)} : i \in I}
     |-> task(t[2], t[3], t[4], t[5])]
=============================================================================
