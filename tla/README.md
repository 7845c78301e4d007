# A TLA+ development of DPLASMA

DPLASMA is a library of dense linear algebra for distributed-memory machines.
Its algorithms are parameterised task graphs (JDF files), compiled to C and
executed by the PaRSEC runtime on the threads and processes of a machine; the
tasks call sequential kernels on tiles. Above the graphs are C wrappers that
check arguments, build and destroy taskpools and combine status codes; beside
them are tables (datatypes, reduction trees) that several graphs consult, and, in
the LU panel, a gang of threads that synchronises through shared words.

This directory models the parts whose correctness depends on the order of
events, on two pieces of code agreeing with each other, or on index formulas
that hold at every boundary. TLC checks the models on small instances, TLAPS
proves the central properties for every size.

Contents: 1 inventory - 2 how the parts interact - 3 modules - 4 runs and
bounds - 5 proofs - 6 findings - 7 observations - 8 what is not modelled -
9 plan.

## 1 Inventory

`PROJECT.json` lists the same components with their sources and status.

| component | state | operations | hard behaviour | what makes it correct | modules |
|---|---|---|---|---|---|
| PaRSEC runtime (external: `src/parsec` is an empty submodule) | stage of each task, released dependencies, data copies, messages | start, complete, release, deliver, write back | local successors share one copy; messages are read late | each body on current operands, no unordered conflict, completion | `TaskRuntime`, `OwnerComputes`, `Dataflow`, `GraphExecution` |
| Cholesky, lower: `zpotrf_L.jdf` | tiles | potrf, trsm, herk, gemm | two ends of every arrow, placement, several users of one copy | the tiles of the sequential tile algorithm | `zpotrf_L`, `TiledCholesky` |
| its status: `INFO`, `zpotrf_wrapper.c` | one integer per process, one per recursive task | record, callback, reduction | failures in several blocks, recursive taskpools, GPUs | 0 exactly for a definite matrix, the first bad minor kept | `zpotrf_INFO`, `zpotrf_wrapper` |
| `zlauum_L.jdf` | tiles | L^H L over L | readers of an original held before its overwriting by CTL arrows alone | each original is read before it is overwritten | `zlauum_L` |
| Cholesky upper, inverses: `zpotrf_U`, `ztrtri_*`, `zlauum_U`, `zpoinv_*` | tiles | three algorithms in one graph, in place | tiles pass between phases, triangles travel apart | current operands, results stored | `zpoinv`, `ztrtri` |
| Level 3 BLAS | tiles | trsm, trmm, herk, her2k, syrk, syr2k, symm, hemm, gemm, all variants | ranges at two ends of an arrow, in-place products, rings and look-ahead of gemm | the sequential algorithm, every kernel once | `ztrsm`, `zherk`, `zgemm`, `TaskGraphs` |
| QR and LQ, flat tree | tiles, T | factorization, generation of Q, products; the graphs of recursive bodies | the two triangles of a tile travel apart; short last rows | the same | `zgeqrf`, `zgelqf`, `TaskGraphs` |
| QR and LQ along a tree (`*_param`) | tiles, TS, TT | the same | arrows found by walking a list both ways | the same, for every tree | `zgeqrf_param`, `zgelqf_param`, `TaskGraphs` |
| reduction trees: `dplasma_hqr.c`, `dplasma_systolic_qr.c` | tables of the levels | gettype, getm, geti, getnbgeqrf, currpiv, nextpiv, prevpiv | functions inverse to each other, written apart | every row killed once, by a living pivot, lists agree | `dplasma_qrtree`, `QRTreeReduction` |
| LU 1D: `zgetrf_1d.jdf` | tiles, IPIV, gang record | panel, swap and solve, product, backward swap | kernels touch tiles that the runtime does not know of | as Cholesky, with in-place tiles | `zgetrf_1d` |
| LU panel: `core_zgetrf_rectil.c`, `core_zgetrf_reclap.c` | panel, IPIV, spin words | recursion over columns by a gang | lock-free reduction and barrier, swaps across owners, early return | P A = L U, no conflict, everybody returns | `CORE_zamax1_thread`, `PivotReduction`, `CORE_zgetrf_rectil` |
| LU without and with incremental pivoting; L D L^H without pivoting | tiles, L, IPIV, work space | nopiv, incpiv, ztrsmpl, `zhetrf`, `ztrdsm` | a chain of empty tasks holds back the scaling of a diagonal tile | as QR | `zgetrf` |
| other LU: `ptgpanel`, `qrf`, `zlaswp` | tiles, pivots | - | choice between LU and QR at run time | as QR | - |
| norms: `zlange_*_cyclic.jdf`, `zlansy.jdf` | partial sums | four reductions and two broadcasts | ends of chains, cleared copies, small matrices, zero scales | every tile as often as the matrix has it, on every process | `zlange` |
| datatype table: `dplasma_lapack_adtt.c`, `types_lapack.h` | hash table of two maps, arenas, wrapped collections | set, get, clean up, New, Destruct | two bucket locks for one entry, lazy creation, several threads | both maps agree, nothing outlives its taskpool | `dplasma_lapack_adtt` |
| drivers: `zposv`, `zpotrs`, `zpotri`, `zpoinv_sync`, `zgesv_1d`, `zgetrs`, `zgesv_incpiv`, `zgetrs_incpiv`, `zgels`, `zgeqrs*`, `zgelqs*` | status on each process, A, B | argument checks, operations in order, branches | processes branch on statuses of their own | the solution where 0 is returned, nobody left behind | `Drivers` |
| reduction to band form, general: `zgebrd_ge2gb.jdf` | tiles, TS, TT, band | QR and LQ steps in turns, collection of the band | three trees in one graph, triangles of a tile in different places | as QR | `zgebrd_ge2gb`, `TaskGraphs` |
| Hermitian eigenvalues: `zherbt_L.jdf`, `zhbrdt.jdf` | tiles, T, band | reduction to band form, bulge chasing | one triangle updated from both sides; pipelined sweeps over a band | as QR; no sweep overtakes another | `zherbt`, `TaskGraphs` |
| butterfly transformation, map operators, generation, printing | - | - | index maps | independent of order | - |
| info, tuning, CUDA staging, DTD and ScaLAPACK wrappers, sequential kernels, precision generator, tests | - | - | external libraries | - | - |

## 2 How the parts interact

A wrapper (`*_wrapper.c`) checks its arguments, creates a taskpool from a graph
(New: wrap the matrices, enter their datatypes in the table of the process),
hands it to the runtime, waits, destroys it (Destruct: remove the datatypes) and,
in places, reduces a status over the processes. A driver calls several
wrappers in turn and looks at the statuses in between.

The runtime evaluates the arrows of a JDF file: a task starts when all its
inputs are there, and its completion releases its outputs. A flow `RW T <- T
potrf_zherk(k-1, k)` binds the *same* copy of a tile on the same process and a
private one after a message. `CTL` arrows carry no data. In `zgetrf_1d` the
kernels reach, from the first tile of a column, all tiles below it: those are
invisible to the runtime, and only CTL arrows order their use. The tasks
`getrf(k, 0..)` of a panel form a gang whose threads meet in
`CORE_zamax1_thread`, the only synchronisation inside a panel. Tree graphs ask
the tree for every arrow. Recursive bodies create taskpools of their own that
use the same datatype table.

    Drivers ----- zpotrf_wrapper --+-- zpotrf_INFO
       |                           +-- dplasma_lapack_adtt
       |
    task graphs   zpotrf_L, zlauum_L, zgetrf_1d ------------- TaskRuntime
       |          ztrsm zherk zgemm zpoinv ztrtri
       |            zgetrf zgeqrf zgelqf zherbt
       |            zgeqrf_param zgelqf_param
       |            zgebrd_ge2gb -- TaskGraphs -------------- GraphExecution
       |                                   |
       |                            dplasma_qrtree ---------- QRTreeReduction
       +-- norms  zlange
    panel kernel  CORE_zgetrf_rectil -- PivotReduction <== CORE_zamax1_thread

## 3 Modules

### Graphs under every interleaving

**`TaskRuntime`** - the runtime, parameterised by the graph: `Tasks`, `In`,
`Out`, `Load`, `Store`, `Operands`, `Affinity`, `rank_of`. State: the `stage` of
each task, the dependencies `released`, the messages `inflight`, and `val`, the
tile and version that each data copy holds. Actions `Start`, `Complete`,
`Deliver`. A version counts the updates of a tile, and `Expect(t, x)` is the
one the sequential algorithm gives task t, so "the right operand" is a
comparison. A body takes its time: it occupies the interval between `Start` and
`Complete`, its updates appear at the end, and `NoRace` and `OperandsCurrent`
speak about every moment in between. A message reads the sender's copy when it
is served, not when the task completes. All of it is external to this
repository: it is what the JDF files assume.

**`OwnerComputes`** - nine conditions on a graph alone (`WellFormed`), by which
the graphs of the library are written: every task updates only the tile it is
placed on, the two ends of every arrow name each other, an arrow joins flows on
the same tile in matching versions, and the arrows order every reader against
every writer of a tile.

**`zpotrf_L`** - the four task classes of `zpotrf_L.jdf`, an operator for each
part of a class (`_In`, `_Out`, `_Load`, `_Store`, `_Affinity`, `_Body`) with
one member per arrow; it instantiates the runtime. **`TiledCholesky`** is the
tile algorithm it implements, on versions of tiles: `Factor`, `Solve`,
`Update`, each on final operands.

**`zlauum_L`** - the five task classes of `zlauum_L.jdf` on the same runtime. A
tile (m, n) starts as the original, version 0, is multiplied by the diagonal
tile of its row and gets a product of every row below it, so row k finds version
k - m; `readA` hands the copy in the collection to all readers of the original
on its process, and the `CTL` arrows must keep the overwriting task behind each
of them. The control flows `ctl0` .. `ctl3` are one flow, as the runtime counts
control inputs of a task without regard to their names. That is what makes the
file work: the outputs `ctl1`, `ctl2` of `lauum_zgemm` (lines 83-84) go to the
inputs `ctl1`, `ctl2` of `lauum_ztrmm` (120-121), whose ranges are written the
other way round. The sets of tasks agree, and this is harmless.

**`zgetrf_1d`** - the graph of `zgetrf_1d.jdf` on the runtime, for tile storage.
Tiles that a kernel touches in place become flows `<<"A", i>>`, `<<"B", i>>` of
the task that are loaded from the collection but have no arrow, exactly as the
runtime sees (does not see) them; the tiles of IPIV are `<<-1, k>>`. The gang of
panel k is one task `CORE_zgetrf(k)` for what it does together, up to its last
barrier, followed by `getrf(k, t)`, the division of its own tiles by each thread.

### Graphs in the vocabulary of the files

**`Dataflow`** has one word for each construct of a JDF file: a class with its
parameters, a flow with its mode, guarded arrows, a tile in the collection, a
type that restricts an arrow to a triangle. The graph modules are written in it,
class by class and arrow by arrow: **`ztrsm`** (16 files: solution and product with a
triangular matrix), **`zherk`** (18: herk, syrk, her2k, syr2k, symm, hemm), **`zgemm`**
(8: the default form, and SUMMA for several processes), **`ztrtri`** (triangular inverse,
U U^H), **`zpoinv`** (upper Cholesky, fused inverse), **`zgetrf`** (nopiv, incpiv,
ztrsmpl_incpiv, and zhetrf, ztrdsm for L D L^H), **`zgeqrf`** and **`zgelqf`** (factorization,
generation of Q, products from both sides; in `zgeqrf` also the four graphs that the kernels of a
factorization become with recursive bodies), **`zherbt`** (Hermitian reduction to band form, bulge chasing),
**`zgeqrf_param`**, **`zgelqf_param`** (QR and LQ along a reduction tree), and
**`zgebrd_ge2gb`** (reduction to band form along three trees). With the three graphs
above and those of the norms these are 90 of the 112 JDF files.

**`GraphExecution`** executes such a graph: ready tasks run, find on every flow
what its source left there (or what the collection holds at that moment) and
leave their own updates; the content of a region is the task that wrote it last.
It states what an execution has to satisfy. `fresh` marks flows whose data are in memory of their own (NEW, or
what came from it) rather than in the collection; a kernel of mode COPY copies another of its
flows into the tile. Two tasks conflict if they use the same region of the same memory, one of them to
change it; storing a region that a reader has the same content of does not disturb it. `dropped` are
regions of the collection that a routine leaves in no promised state (the triangles that
`zgebrd_ge2gb` moves to the band). **`TaskGraphs`** is the
catalogue: for every routine and every call they give the
graph and, independently of it, the kernels of the sequential tile
algorithm with their operands, written from the mathematics of the operation.

In `zgebrd_ge2gb` one arrow is read as the runtime binds it (`AsReleased`): the input of
`gebrdL_zgelqt(k, .)` names a task of step k (`zgebrd_ge2gb.jdf:805`), the task that releases it is of
step k - 1. In `zhetrf.jdf` the first `GOK` of a row and `ztrmdm` name tasks that do not send to them, or do not
exist (`zhetrf.jdf:344`, 316); the runtime counts the messages of the tasks that do (`AsCounted`). In `zhbrdt.jdf` the guards of inputs overlap; the first that holds counts.

### Trees and norms

**`dplasma_qrtree`** - the seven functions of a tree and the three initialisers:
hierarchical (four levels, with flat, greedy, Fibonacci, binary and greedy1p
trees, domino, round robin), adaptive (`dplasma_svd_init`) and systolic. The
arrays that `dplasma_hqr.c` fills are functions of the same indices, with the
simulation of the greedy trees as recursive functions.
**`QRTreeReduction`** eliminates the panels of a matrix by walking the lists, as
the graphs do: a row kills the next of its list when that one has been through a
list of its own. **`zlange`** - the three reduction graphs of the norms with the conditions of
their bodies; a sum is the bag of tiles added to it, a maximum the set of what
was compared, a Frobenius sum is no number when two sums of zeros are combined.
**`MCReductions`** runs both: it extends `zlange` and has a tree as an instance.

### The LU panel

**`PivotReduction`** - what the reduction of a panel promises: in its r-th call
a thread gets the winner, the diagonal value and the value of the r-th call of
all threads, nobody leaves before all have entered, the winner alone writes the
pivot. **`CORE_zamax1_thread`** - the routine itself, one action for each access to
`CORE_zamax[]`, `CORE_zstep[]` and `ipiv`, thread 0 and the workers in their own
order, called again and again on the same words.

**`CORE_zgetrf_rectil`** - the gang on a panel, in tiles (`core_zgetrf_rectil.c`)
or on a column-major array (`core_zgetrf_reclap.c`). The recursion is unfolded to
a program per thread (`CORE_zgetrf_rectil_rec`, `CORE_zgetrf_reclap_rec` and their
updates of the right part), whose steps are executed one at a time: `Swap`,
`Trsm`, `Scale`, `Gemm`, `Exchange`, `Store`, `Replace`, `Check`, and `Arrive` /
`Return` for a call of the reduction, atomic as `PivotReduction` has it. An
element is symbolic: the row it comes from, the number of columns it has been
eliminated with, and whether it has been divided. A product whose operands are
not what they should be yields `Garbage`. On tiles thread 0 swaps the rows of all; on an
array the threads share swaps and solves by columns, and divisions and products by rows.
Two details are abstracted: whether a column is scaled by a multiplication
or a division, and that the search of a tile follows its product directly
rather than the products of all tiles of the thread; the search reads only
tiles of its own thread in both. The model takes n <= mb, as square tiles give.

### Calls

**`zpotrf_INFO`** - the status of the Cholesky factorization: the body that
records it, the GPU bodies, the recursive body with its sub-taskpool and
callback, and the reduction at the end. The matrix is `minor`, the order of its
first leading minor that is not positive definite; whatever is computed behind a
failure may fail anywhere or nowhere. The tasks potrf_zpotrf(k) run in the order
of k, as the graph of `zpotrf_L` makes them.

**`dplasma_lapack_adtt`** - the table of datatypes, one access to one bucket per
step: a thread wraps a matrix, enters the nine locations of each shape and
layout in both directions (under two bucket locks, so two steps), and removes
them again; the arenas the entries hold, and the sizes of first, last and inner
tiles of submatrices. `TableSpec` is the table by itself: any threads wrap any
matrices with any setups, at any free address; the module `zpotrf_wrapper` makes its
steps from a factorization.

**`zpotrf_wrapper`** joins the two: a call of `dplasma_zpotrf` step by step, its
New and Destruct on the table, recursive bodies with taskpools of their own, a third
thread with unrelated taskpools. **`Drivers`** puts the solvers on top: argument
checks, operations that all processes enter and leave together, branches on the
status of a process. The content of A is a product of factors, that of B the word
of what has been applied to it, so that the solution is a comparison with the
pseudo-inverse of op(A). `dplasma_zlaset` is modelled by the rows its operator
really writes (`Overwritten`): whole tiles from their first row, whatever row the
submatrix starts at; if they meet rows of the solution, B is spoiled (`Blank`).

## 4 Runs and bounds

| run | instance | shows |
|---|---|---|
| `zpotrf_L` | 4 x 4 tiles, grid 2 x 1, every interleaving of tasks and messages | right operands, no race, completion, refinement of `TiledCholesky` |
| `zlauum_L` | 3 x 3 tiles, grid 2 x 1, every interleaving | originals read before they are overwritten, no race, completion |
| `zgetrf_1d` | 3 x 3 tiles, 2 processes, gangs of 1 | the same, with tiles touched in place |
| `graphs` | every routine and every argument on matrices of 1 to 3 by 1 to 3 tiles; Hermitian reductions and bands of up to 6 tiles; tree graphs of 1, 3, 6 tile rows with ten trees each; SUMMA on grids 1 x 1, 2 x 1, 2 x 3; 1829 graphs in all, graphs of up to 6 tasks in every order | arrows agree at both ends, one source per flow, memory of the own process only, current operands, conflicts ordered, results stored, every kernel of the sequential algorithm once |
| `reductions` | trees over 1, 5, 9 by 3, 7 tiles, 1 to 3 process rows, all level trees; norms of 1, 2, 3, 5 by 1, 2, 4, 5 tiles on six grids | lists agree, every panel reduced, levels respected; norms exact and known everywhere |
| `zamax1` | 3 threads, 4 calls | refinement of `PivotReduction`, termination |
| `zgetrf_rectil` | 13 x 4 panel, 4 tiles or an array, 3 threads | no conflict, common calls, correct factors, common `info`, termination |
| `drivers` | 3 tiles, 2 processes, fourteen routines, legal and illegal arguments, a third thread | status of Cholesky, table of datatypes, solution where 0 is returned, nobody left behind |
| `zgetrf_wide`, `zgetrf_1d_gang`, `drivers_apart`, `zpotrf_lost` | small | the findings of section 6 |

Why the bounds are enough. *Cholesky*: 4 tiles are the least with every class,
with both guards of every arrow true and false, and with a product that follows
a product; two processes give local and remote successors of the same flow. *L^H L*:
3 tiles give every class, one product that follows a trmm, updates that continue
over two rows, and every control arrow; 4 tiles were out of reach of TLC and are covered by
the proof. *Graphs*: every guard of these files compares an index with 0, with
the last tile, with another index or with its neighbour; 3 tiles in each
direction give a first, an inner and a last one, in square, tall and wide
matrices. Bands of 6 tiles with 1, 2 or 3 columns let a sweep follow one that is still at work; reductions to band form run
on p x q tiles with p >= q, with SVD trees over one and two process rows, and a flat or binary first tree. The recursive bodies of QR run on
1 to 3 panels of 1 to 3 block rows, with and without a short last one. SUMMA runs with the
look-ahead that `dplasma_aux_getGEMMLookahead` computes for one thread per process. *Trees*: 9 rows over 3 process rows in domains of up to 3 give two domains
per process row, incomplete ones, and panels that start within a domain; 7 columns let
the band and the domino run to the end of the matrix. The functions of `dplasma_qrtree` were
also compared with the compiled C code on some sixteen thousand trees of up to 14
rows, all seven functions at all arguments, without a difference. *Norms*: matrices smaller and larger than
the grid in each direction, for all triangles; zero tiles: none, one, a row of them.
*Reduction*: two calls are what it takes for a call to meet the words of the one before,
three threads for two workers to be in different calls of thread 0's loops.
*Panel*: 13 rows in 4 tiles over 3 threads give a thread with two tiles, a short
last tile and a remainder in the split (5, 4, 4 rows on an array); 4 columns
give two levels of recursion with a leaf, an inner and a last column, and threads
without a column to swap. *Drivers*: 7 rows in tiles of 3 give a short last tile
and a process with two diagonal tiles; 3, 4 and 7 rows and columns give square, tall and wide
systems whose cleared rows start with a tile (from 3) and inside one (from 4).

Named bounds: `Sizes`, `TreeHeights` (tiles of the matrices), `Interleaved`
(tasks of a graph that is run in every order), `Heights`, `Widths`, `Grids`,
`Shapes`, `ZeroTiles`, the calls of each thread of the reduction, `PivotRows`
(rows that may win a search), `Addresses` (where a collection may be allocated),
`Calls` (the calls of drivers). All other quantities are bounded by the code.

One order of tasks in `graphs`. Larger graphs run all ready tasks in one step.
`ConflictsOrdered` speaks about arrows between two tasks, not about when they
happened to run, and where it holds, all orders compute the same; graphs of up to
`Interleaved` tasks, which are run in every order, show that nothing else matters.

Fairness. On the runtime weak fairness of the next-state relation: as long as
something can be done - a ready task, a running body, a pending message - the
runtime does something; a graph is finite, so this completes it. In a gang weak
fairness of each thread: the tasks of a gang run on threads of their own
(`nbmaxthrd` is one less than the threads of a process) and a spinning thread
does not keep the others from running. `graphs` and `reductions` need none: a
state in which nothing can be done is a deadlock, which TLC reports, unless the
call has returned. Deadlock checking is off where a finished system stops.

Memory. The words of the reduction are `volatile`; the model lets the accesses
of a thread take effect in program order, which the C language does not promise
for processors that reorder stores; this is an assumption of the model.

### The properties

* Runtime: `NoStrayDependency` (no release that the target does not wait for),
  `OperandsCurrent`, `NoRace`, `Completion`, `ImplementsTiledCholesky`.
* Graphs: `ArrowsMatch`, `OneSource`, `LocalMemory` speak about the graph as it is
  written, `Current`, `ConflictsOrdered`, `ResultStored`, `Complete` about its
  execution.
* Trees: `ListsAgree` (numbering, currpiv, nextpiv, prevpiv fit together),
  `PanelReduced`, `LevelsHold`. Norms: `NormExact`, `EveryProcessKnows`.
* Panel: `NoConflict` (no two threads at steps that touch the same element or
  pivot, one of them to write), `SameCall` (the threads meet in the same search or
  barrier), `PivotsUpToDate`, `Factorized`, `EveryThreadReturns`,
  `ImplementsPivotReduction`, `EveryCallReturns`.
* Calls: `SequentialExact` (0 exactly for definite matrices, with sequential
  bodies), `NoFalseAlarm`, `TypesExact`, `TableClean`, `LegalSolved` (a legal call that returns
  0 has left the solution, but for the gaps of `KnownUnsolved`, section 7), `FailureStops`, `TogetherIfReduced`.

## 5 Proofs

* `OwnerComputes_proofs`: for **any** graph with `WellFormed`, any distribution
  and any number of tasks, `Spec => []TypeOK`, `[]NoStrayDependency`,
  `[]OperandsCurrent`, `[]NoRace`. The properties are not inductive: a running
  body keeps its operands only because no writer of its tiles has started or
  will before it ends. The inductive invariant `IInv` says, besides types, that
  a task that has started has all its inputs released, that the version of a
  home copy is the number of completed writers of its tile, that a received copy
  holds the version its sender left, that releases and messages come from
  completed tasks, and that whatever must precede a started task (`Before`) is
  done. One lemma per action: `StartInvariant`, `CompleteInvariant`,
  `DeliverInvariant`.
* `zpotrf_L_proofs`: `GraphWellFormed` - the Cholesky graph satisfies the nine
  conditions for every number of tiles - and with it the four theorems above for
  it, and `Refinement`: `Spec => ImplementsTiledCholesky`. `Before` is given
  explicitly (`Precedes`), so that no transitive closure is needed.
* `zlauum_L_proofs`: `GraphWellFormed` and the same four theorems for the
  product in place. Here `Before` orders readers of an original before every
  writer of its tile: along a control arrow to the first writer (directly to
  `ztrmm`, or to `zlauum` through the `ztrmm` of its row), and from there
  through the chain of updates.
* `CORE_zamax1_thread_proofs`: `TypeCorrect`, and `Refinement`: `Spec =>
  ImplementsPivotReduction` for every number of threads and calls and all
  values. The inductive invariant relates the place of thread 0 and the place of
  every worker (who can be in which call, what the words hold for those who
  still have to look at them), and what the loops of thread 0 have found so far.
* `Drivers_proofs`, first section, for the factorization alone: `NeverFalseAlarm` for every set of bodies, and
  `StatusIsExact` for the sequential bodies alone (section 6
  shows that it fails with others), for every order, tile size and grid.
  `SoundInv` says that no INFO precedes the first bad minor, and carries a
  witness of the largest INFO (`HasMax`) from step to step, so that the maximum
  of the reduction exists without an induction over processes. `ExactInv` adds
  that no INFO is set before the failing block, and that its owner holds the
  order behind it.
* `CORE_zgetrf_rectil_proofs`: the panel is written without locks because each
  row and column has one owner. `SplitPartitions`: `psplit` deals numbers out to
  exactly one thread each, for every size and count. `RowsPartitioned`: every row
  of the panel has one owner, in tiles (`ft`, `lt`) and in an array. `TriangleOfThread0`: U and
  the diagonal lie in the rows of thread 0, which needs that a first tile shorter
  than the panel has n rows at least, and that there are at most m div n threads.
  `ColumnsPartitioned`: the columns of a swap or a solve on an array are shared
  likewise. On them rest `ThreadsMeet` (`Spec => []SameCall`) and `RaceFree`
  (`Spec => []NoConflict`), for every size of panel, tile and gang, both layouts, all pivots and
  zero pivots anywhere. Neither is inductive. The programs differ from thread to thread, by rows, tiles and
  columns, in all but their calls of the reduction: the
  number of calls from which a thread has returned tells the column it is at and what
  it may touch there (`FitsTiled`, `FitsArray`; on tiles a column takes three calls, on an array five).
  `Runs` says that a program has only steps that fit where they stand. That the recursion unfolds to such a
  program (`TiledRuns`, `ArrayRuns`) is an induction over the width of a call, done with the least number
  of a set (`LeastNumber`, from well-founded induction on finite sets), which also gives the
  equations of the two recursive functions (`TiledEquation`, `ArrayEquation`). `Halved` are the pairs of halves
  of the recursion, the same for all threads: two of them that meet at a column are equal, two that
  end at one have disjoint left halves, which is what keeps apart the swaps to the left on an array.
  The inductive invariant `PanelInv` says that what a thread still has to do fits its
  number of calls (also when a zero pivot has cut it off), that a thread inside a call stands at
  one, and that nobody has returned from a call that another one has not begun (`Together`).
  Hence two threads are between the same calls, or one of them has left a call in which the other still is;
  the lemmas `...Touches` say what each may touch in each of the eight places, and
  `TiledApart`, `ArrayApart` and `AheadApart` that they are disjoint. A panel that is wider than high has one
  thread (`WideAlone`), and there is nothing to show.
* `dplasma_lapack_adtt_proofs`: `TypesFound` (`TableSpec => []TypesExact`) and `TablesClean`
  (`TableSpec => []TableClean`) for any threads, addresses, matrices and setups. The
  invariant `TablesOK` says of every thread which of its entries are in which map:
  those it has come to while it sets up (`Built`), those it has not come to while it
  cleans up (`Cleaned`), half an entry at the step between the two bucket
  locks. Every key starts with the address of a collection, and the addresses of two
  threads are disjoint, so a step of one (`OneMoves`) leaves what the others
  have alone (`Agree`, `Only`). References are counted exactly
  (`Counted`): an arena has one for each entry that holds it, one for an entry
  between its two steps, one for the setup of a default arena; without the count
  nothing would keep an arena in an entry from being freed. That the entry
  found for the location of a tile describes the tile is arithmetic on first, last
  and inner tiles (`LocOfTile`, `ExtentOfTile`).
* `Drivers_proofs`, for the calls: all seven properties of the run `drivers` for any calls, matrices,
  grids, bodies and work of the third thread. A step of a driver is a step of
  the factorization and a step of the table, or leaves them alone
  (`StepsOfParts`), so the invariants above carry over to `DriversSpec`. On top
  stands `Course`, for the processes of a call: behind its first operation a
  factorization is complete (`Decided`); who stands at a branch has the status
  all others will test there, and who has passed it has found 0 (`Obeyed`); and an
  operation between a process and one behind it rejects its arguments, is
  the factorization, or is skipped by a branch (`Followed`). This needs facts about the
  programs of the fourteen routines (`ProgramsOK`), among them that a branch follows a
  factorization with reduced status or a solve; the LU solvers lack it, and `drivers_apart` shows
  what comes of it. `Posv` adds that the branch of `dplasma_zposv` stands between the
  factorization and everything that writes B.
  `DriversSolve` is the property the drivers exist for: `DriversSpec => []LegalSolved`, for
  every size and shape of A and B. Its proof follows B and A through a call. `Trail(c)` lists what they hold before
  each operation and behind the last; an operation takes one of them to the next
  (`Link`: it accepts its arguments, finds the factor it asks for, and sees as many rows of B
  as it needs), and the last is the result (`Route`, proved driver by driver and
  for each shape, `AllRoutes`). The inductive invariant `Words` says that
  processes are on that trail, and what makes that true while they move apart: nobody
  completes the operation behind `dplasma_zpotrf` before it has returned everywhere
  (`Waiting`), so B is not touched while the factorization may still fail; a nonzero status
  stands only at a branch or at the end of the call (`Statuses`); and where an LU factorization meets
  a zero pivot that one process has learnt of, this one leaves and the others
  stay in the solve for ever (`Parted`, the finding of `drivers_apart`): none of them
  returns 0. TLC checked `Words` on the bounds of `drivers` before it was proved. What
  `LegalSolved` leaves out stays left out: bodies other than the sequential ones and the three gaps in
  `KnownUnsolved`: `zgels` where the rows it clears start inside a tile, `zgelqs` for wide
  matrices and `zpoinv_sync` of an indefinite matrix (all in section 7). That `zlaset` clears just the rows asked for when the first of them
  starts a tile is arithmetic on tiles (`TileOfRow`, `Blanks`).
* `zlange_proofs`: both properties of the norms, for every grid of processes, size of matrix, norm, triangle
  and set of zero tiles, in the three graphs. `NormIsExact` (`Spec => []NormExact`): `Val(t)` is what
  task t holds, the content of a part of the matrix. In the first steps that is a part of a line (a row, or
  a column in `zlange_one_cyclic`), which grows along the chain of tiles of one process (`ChainStep`,
  `RowChainStep`) and then over the processes (`TurnsStep`); in the others it is the maximum over some lines. The
  invariant `GraphInv` says that every arrow that was used brought what its source holds
  (`SentHolds`). That it is inductive is one lemma for each step of each graph (`frb_STEP1` .. `sy_WRITE_RES`):
  the body adds its tile or its second flow to disjoint lines or parts of lines, and starts with a new copy
  exactly where the chain ends. This is arithmetic of remainders: that the tile `frb_col`, `one_row` or `sy_hadtile` names
  is the end of the chain of a process, and that it lies outside of the matrix exactly if the process has no
  tile in the line (`ShareOfProcess`, `HadTile`). A Frobenius sum is no number only
  where two empty sums met; `LinesOfZeros` and `frb_ShareOfZeros` say that then a share of a row is all zero.
  `EveryProcessHasIt` (`Spec => []EveryProcessKnows`): `ExpectedIsSent` and `SentIsExpected` are the two ends
  of every arrow of the three graphs, with the inverse functions of `zlansy` (`TileBefore`, `TileAfter`, `LastTile`). What a task
  expects comes from a task before it in the order of the steps, and along the chain within a step; the first task
  that had not run would therefore be ready (`FirstTask`, `QuietMeansDone`), so nothing gets stuck, without fairness or
  ENABLED. The hypothesis `NormAssumption` is what `MCReductions` assumes of its constants.

Assumptions are those in the modules: sizes are positive, a panel of several tiles
is no wider than one, values are numbers, `rank_of` is any function, addresses
are numbers and finitely many, a factorization has three threads at its table, and a call is of one of the
fourteen routines, on a matrix in tiles or in LAPACK layout whose sizes are natural numbers
(`CallsAssumption`; legal or not otherwise is `Legal`, a condition of the theorem). There are no
axioms.

Only model-checked: that the factors of the panel are right (`PivotsUpToDate`, `Factorized`), `zgetrf_1d`, all graphs of
`TaskGraphs`, the trees (their functions are recursive); and all liveness (fairness and ENABLED are beyond the provers).

## 6 Findings

Each is a run that TLC ends with a behaviour; `PROJECT.json` has the quotations.

1. `zgetrf_wide`: on a panel that is wider than high, in either layout, the
   update of the right part runs after an early return and swaps rows by pivot indices
   nobody has written.
2. `zgetrf_1d_gang`: products wait for thread 0 of a gang only, and can use a
   tile that another thread still has to divide by the last pivot.
3. `drivers_apart`: `dplasma_zgesv_1d` branches on the status of its own process:
   the process that owns a zero pivot leaves, the others wait in the solve.
4. `zpotrf_lost`: a failure in a tile that is factorized by a recursive call
   never reaches `INFO`: the callback tests and writes the one of the
   sub-taskpool. (GPU bodies never read the status of
   their solver either.)

## 7 Observations

Met while modelling, without a run of their own; the models have the code's
behaviour unless it says otherwise.

* `dplasma_zpotrf`: the documentation of the status has i on the owner and 0
  elsewhere, and a negative value for a bad argument; the code reduces by MAX over
  all processes, and a bad `uplo` gives 0 (and leaks a wrapped collection).
* `CORE_zgetrf_rectil`: the header says of U(k,k) = 0 that the factorization has been completed; it is given
  up at column k (`SingularCompleted` states the promise).
* `CORE_zgetrf_reclap`: threads other than 0 swap the columns to the left after
  the last barrier, so a caller that goes on when thread 0 has returned meets the
  same race as finding 2; with N = 0 it divides by 0 before its quick return.
* Frobenius norms combine two sums of zeros to 0/0: a matrix with a zero tile row
  among its last P has no number for a norm (`zlange_frb_cyclic.jdf` STEP3 and STEP4,
  `zlansy.jdf` STEP3 and STEP4; the kernels and STEP2 of `zlansy` test for it).
* `zgelqs`, `zgelqs_param` do not clear the rows of B behind the solve: for
  A.m < A.n the result is not the minimum norm solution that
  `zgelqs_wrapper.c:19` promises. `zgels`, `zgeqrs`, `zposv` and `zgetrs` ignore
  a rejected operation and return 0 for a B of the wrong size. The documentation of `zgels`
  says that only NoTrans is supported; both directions work, with the limit that follows.
* `zgels` clears the rows of B behind a triangular solve (A.m < A.n with NoTrans, A.m > A.n with
  ConjTrans) through a submatrix that starts at row A.m (or A.n), and `dplasma_zlaset` clears whole tiles from
  their first row (`zlaset_wrapper.c:30-42`; the runtime's `data_of` returns the beginning of the full tile,
  says `scalapack_wrappers/common.h:60-63`). If that row does not start a tile, rows of the solution
  are lost and the last rows keep what they had: for a 4 x 7 system and tiles of 3, rows 3 .. 5 are cleared instead of
  4 .. 6, counted from 0, the call returns 0, and B does not hold the minimum norm solution of
  `zgels_wrapper.c:81-84`. `LegalSolved` without the first line of `KnownUnsolved` is violated by just these calls.
  (`parsec_tiled_matrix_submatrix` is the runtime's, not part of this repository; if it
  refused such a row, the call would not get that far.)
* `zpoinv_sync` overwrites the status of the factorization with that of the
  inverse; the fused `zpoinv` never sets one. `zungqr`, `zunglq` and their
  tree forms return 0 without running when T is smaller than A; `zunglq`
  has A->n in its quick return.
* `ztrsmpl_incpiv` drops a tile row of B for A taller than wide (the catalogue
  has square A). `zherk` and `zsyrk` send tiles to tasks outside their execution
  space, which the runtime drops. `zpoinv_U` and `ztrtri_L` cross the names of CTL flows.
* `zgebrd_ge2gb`: see `AsReleased` above; without it `ArrowsMatch` is violated. The wrapper's refusal of M < N
  (`zgebrd_ge2gb_wrapper.c:326`) is switched off by an `|| 1` in its condition: a wide matrix gets a graph that asks its
  tree for panels that do not exist, so the catalogue has p >= q. With a first QR factorization of the whole matrix
  the reflectors of the later QR steps overwrite those of the first one in A, where the documentation lists
  both; no task needs the old ones any more (`ConflictsOrdered`).
* `zhetrf.jdf`: see `AsCounted` above; without it `ArrowsMatch` is violated. `ztrmdm.jdf` alone is not used: its call in the
  wrapper is commented out.
* `zgeqrfr_geqrt.jdf` applies a whole block of nb reflectors in `zunmqr` also when the block row has fewer rows, at the
  right of the last row of a tile that is wider than high (`dplasma_zgeqrf_rec`, say M = 150, N = 200, blocks of
  64). `CORE_zunmqr` refuses K > M (`core_zunmqr.c:152`), nobody looks at its result, and the columns behind stay as
  they were. `Refused` has it so; the catalogue leaves these shapes out, for with them `Complete` is violated. The prototype of
  `dplasma_zgeqrfr_tsqrt_New` in `dplasma_z.h` has tau and work in the other order than its definition and its call.
* `zgetrf_qrf` and its wrapper, read but not modelled: `zgetrf_qrf_wrapper.c` says that even steps are LU and odd ones QR, its code has
  it the other way round; INFO and the entries of `lu_tab` on a process without a tile of the step, both documented as output,
  are not set; with the MUMPS criterion the `copypanel` tasks share a work space outside of the lock.
* `zlaswp.jdf` uses the increment 1 inside a tile also for a backward swap.
* `zheev_wrapper.c` passes `grid.krows` for rows and for columns when it makes T, so T is not distributed as A when the two
  differ; T is never freed.
* `zhetrd_h2b_L.jdf` and `zhetrd_b2s.jdf` are second copies of `zherbt_L.jdf` and `zhbrdt.jdf`; the wrapper that
  uses them is not compiled.
* The GPU form of gemm waits for ever when processes disagree on the number of blocks they own (`zgemm_wrapper.c`,
  xMax and yMax, for a remainder of rows between 0 and p); it is not modelled.
* `gemm_gpu` computes b = mt / (p * fact), which can be 0; `dplasma_svd_init`
  divides by 0 with fewer nodes than p; `dplasma_hqr_init` takes Fibonacci for the
  high level when only `domino >= 0` is given.
* The default arena of every FULL shape is never released
  (`REUSE_ARENA_DATATYPE` is undefined); `rank_of` of a wrapped collection passes
  a `va_list` through `...`; several New functions (`zhebut`, `zgebut`, `zgebmm`, `zhetrf`)
  create memory pools that Destruct does not free.
* Branches under `PARSEC_COMPOSITION` are not compiled, and destroy pools with
  the wrong Destruct; `gkkleader.c` and `primes.c` are compiled and unused;
  `zhetrd_h2b_U`, `zherbt_U` are not compiled.

## 8 Not modelled

Floating-point content of kernels (versions, symbolic elements, words and bags
stand for it), priorities (orders of ready tasks are checked), the choice of
devices other than for `INFO`, the copying between layouts, logging.

Components without a module: *butterfly transformation*,
index maps of data between processes; *map operators, generation, printing*,
independent tile operations; *info and tuning*, lookup tables (but the look-ahead of gemm); *CUDA staging,
DTD and ScaLAPACK wrappers*, translation of arguments around what is modelled;
*kernels*, numerical; *precision generation, tests*. Of *other LU*, `ptgpanel`
and `qrf` choose between pivoting and QR by the data, and `zlaswp` is a single
sweep. Of *level 3 BLAS*, the GPU form of `zgemm` and `zger` are left, of the *two-sided
factorizations* the copy of the band between two graphs, which is the runtime's. GPU bodies of QR are left out, and its recursive
bodies are checked as calls of their own: that a task of the outer graph ends when its inner graph has is the runtime's part.

How much of the code that is. The algorithms are in the JDF files, of which
90 of 112 are modelled class by class. Of the C files most lines are not
algorithm: a quarter of all lines is `lapacke.h`, a vendored interface; the largest
others are numerical kernels (`cores/`), `*_wrapper.c` whose code is the same few
lines for each routine under a page of documentation, the prime-number tables of
`primes.c` and `gkkleader.c`, and headers of prototypes. The share of C lines
that a model can translate is therefore far below that of the behaviour.

## 9 Plan

1. `zgemm_NN_gpu`: its blocks and barriers.
2. `zheev` as one call: reduction, copy of the band, bulge chasing.
3. `zgetrf_ptgpanel`, `zgetrf_qrf`: the choice between LU and QR at run time, and
   the tasks of the other branch.
4. A pool of threads that runs the gangs of several panels on one record of
   synchronisation words.
5. Proofs: the order of in-place operations in `zgetrf_1d` for panels of one thread
   (with more the graph does not order them, section 6): `OwnerComputes` with several
   updated tiles per task, all on its process, and with the pivots, which CORE_zgetrf updates
   in a received copy where they live on another process than their column. The numbering of
   rows in a flat and a binary tree; that the factors of a panel are right (`Factorized`).
