--------------------------- MODULE GraphExecution ---------------------------
(***************************************************************************)
(* The execution of a task graph that is written down in the vocabulary of *)
(* Dataflow.  `graph' is chosen at the start of a call and stays.  A task  *)
(* is ready when the tasks its inputs name are done.  It finds on every    *)
(* flow what the source of the flow left there, or what the collection     *)
(* holds at that moment, and leaves its own updates.                       *)
(*                                                                         *)
(* The content of a region is the task that wrote it last.  The sequential *)
(* algorithm, of which every graph is the parallel form, is the order of   *)
(* the seq components; the content that a task must find is the last       *)
(* writer before it in that order.                                         *)
(*                                                                         *)
(* All ready tasks run in one step, or one at a time in graphs of at most  *)
(* Interleaved tasks.  For what is checked here one order stands for all:  *)
(* data travel along arrows, loads and stores of the same region are       *)
(* ordered by arrows (ConflictsOrdered), and ConflictsOrdered speaks about *)
(* the arrows between two tasks, not about when they happened to run.      *)
(***************************************************************************)
EXTENDS Dataflow, FiniteSets, Sequences

CONSTANT Interleaved
ASSUME InterleavedAssumption == Interleaved \in Nat

VARIABLES
  call,    \* which graph it is: its name and parameters
  graph,   \* the graph
  want,    \* the kernels that the sequential algorithm calls
  dropped, \* regions whose last content the routine does not keep
  done,    \* tasks that have completed
  wave,    \* tasks of the last step
  past,    \* for every task done, all tasks that arrows put before it
  got,     \* for every task done, what it found on its flows
  inplace, \* flows <<t, f>> whose copy is the tile in the collection itself
  fresh,   \* flows <<t, f>> whose data are not in the collection but in NEW memory
  home     \* the content of the collections
vars == <<call, graph, want, dropped, done, wave, past, got, inplace, fresh, home>>

Tasks      == DOMAIN graph
Flows(t)   == DOMAIN graph[t].flow
In(t, f)   == graph[t].flow[f].in
Out(t, f)  == graph[t].flow[f].out
Mode(t, f) == graph[t].flow[f].mode
Tile(t, f) == graph[t].flow[f].tile
Data(t)    == {f \in Flows(t) : Mode(t, f) # "CTL"}
Ctl(t)     == Flows(t) \ Data(t)

\* The arrows among some ends, without the regions they are restricted to.
Arrows(ends) ==
  {IF e[1] = "part" THEN e[3] ELSE e : e \in {x \in ends : x[1] \notin {"mem", "new"}}}
MemOf(ends) == UNION {e[2] : e \in {x \in ends : x[1] = "mem"}}

Pred(t) == UNION {{Tail(a) : a \in Arrows(In(t, f))} : f \in Flows(t)}
Ready   == {t \in Tasks \ done : Pred(t) \subseteq done}

TilesOf(t, modes) == UNION {Tile(t, f) : f \in {g \in Flows(t) : Mode(t, g) \in modes}}
Reads(t)  == TilesOf(t, {"READ", "RW"})
Writes(t) == TilesOf(t, {"RW", "WRITE"})

\* What a task loads, unless it only hands it on and nobody is there to take it.
Loads(t) ==
  UNION {MemOf(In(t, f)) : f \in {g \in Data(t) : \/ Mode(t, g) # "PASS"
                                                  \/ \E a \in Arrows(Out(t, g)) : Tail(a) \in Tasks}}

\* The number of ends (In or Out) of arrows without data from t that name u.
CtlArrows(t, Ends(_, _), u) ==
  Cardinality(UNION {{<<f, a>> : a \in {x \in Arrows(Ends(t, f)) : Tail(x) = u}} : f \in Ctl(t)})

-----------------------------------------------------------------------------
\* What task t leaves on flow f, given G, what the tasks found.
Left(G, t, f) ==
  LET Copied(r) == CHOOSE g \in Data(t) : Mode(t, g) = "READ" /\ r \in Tile(t, g)
  IN  [r \in DOMAIN G[t][f] \cup (Tile(t, f) \cap Writes(t)) |->
         CASE Mode(t, f) \in {"RW", "WRITE"} /\ r \in Tile(t, f) -> t
           [] Mode(t, f) = "COPY" /\ r \in Tile(t, f) -> G[t][Copied(r)][r]
           [] OTHER -> G[t][f][r]]

Only(content, regions) == [r \in DOMAIN content \cap regions |-> content[r]]

\* What arrow a brings to flow f of task t.  A datatype at the sending end
\* restricts it to a part of the tile.
Sent(a, f, t) ==
  LET s     == Tail(a)
      parts == {e \in Out(s, a[1]) : e[1] = "part" /\ e[3] = <<f>> \o t}
  IN  IF parts = {} THEN Left(got, s, a[1])
      ELSE Only(Left(got, s, a[1]), UNION {e[2] : e \in parts})

Content(e, f, t) ==
  CASE e[1] = "mem"  -> Only(home, e[2])
    [] e[1] = "new"  -> <<>>
    [] e[1] = "part" -> Only(Sent(e[3], f, t), e[2])
    [] OTHER         -> Sent(e, f, t)

Source(t, f) == CHOOSE e \in In(t, f) : TRUE
Bound(t) ==
  [f \in Data(t) |-> IF In(t, f) = {} THEN <<>> ELSE Content(Source(t, f), f, t)]

\* A copy that was loaded from the collection is the tile itself, as long as
\* it passes between tasks that are placed at that tile.
InPlace(t) ==
  {<<t, f>> : f \in {g \in Data(t) : /\ In(t, g) # {}
                                     /\ LET e == Source(t, g)
                                        IN  CASE e[1] = "mem"  -> TRUE
                                              [] e[1] = "new"  -> FALSE
                                              [] e[1] = "part" -> FALSE
                                              [] OTHER -> /\ <<Tail(e), e[1]>> \in inplace
                                                          /\ graph[Tail(e)].at = graph[t].at}}

Fresh(t) ==
  {<<t, f>> : f \in {g \in Data(t) :
     \E e \in In(t, g) : CASE e[1] = "mem"  -> FALSE
                           [] e[1] = "new"  -> TRUE
                           [] e[1] = "part" -> <<Tail(e[3]), e[3][1]>> \in fresh
                           [] OTHER -> <<Tail(e), e[1]>> \in fresh}}

\* The content that the tasks in T, given that they found G, give the collection.
Stored(G, T, P) ==
  LET Ends == UNION {{<<t, f>> : f \in Data(t)} : t \in T}
      Put(x) == MemOf(Out(x[1], x[2]))
                  \cup (IF x \in P THEN Tile(x[1], x[2]) \cap Writes(x[1]) ELSE {})
      From(r) == CHOOSE x \in Ends : r \in Put(x)
  IN  [r \in UNION {Put(x) : x \in Ends} |->
         LET c == Left(G, From(r)[1], From(r)[2])
         IN  IF r \in DOMAIN c THEN c[r] ELSE "lost"]

-----------------------------------------------------------------------------
StartDropping(c, g, w, regions) ==
  /\ call = c
  /\ graph = g
  /\ want = w
  /\ dropped = regions
  /\ done = {} /\ wave = {} /\ inplace = {} /\ fresh = {}
  /\ past = <<>> /\ got = <<>>
  /\ home = [r \in UNION {UNION {MemOf(In(t, f) \cup Out(t, f)) : f \in Data(t)} : t \in Tasks}
               |-> "initial"]

Start(c, g, w) == StartDropping(c, g, w, {})

Run(T) ==
  /\ wave' = T
  /\ done' = done \cup T
  /\ past' = [t \in T |-> Pred(t) \cup UNION {past[p] : p \in Pred(t)}] @@ past
  /\ got'  = [t \in T |-> Bound(t)] @@ got
  /\ inplace' = inplace \cup UNION {InPlace(t) : t \in T}
  /\ fresh' = fresh \cup UNION {Fresh(t) : t \in T}
  /\ home' = Stored(got', T, inplace') @@ home
  /\ UNCHANGED <<call, graph, want, dropped>>

RunAll == Cardinality(Tasks) > Interleaved /\ Ready # {} /\ Run(Ready)
RunOne == Cardinality(Tasks) <= Interleaved /\ \E t \in Ready : Run({t})

Return == done = Tasks /\ UNCHANGED vars

Next == RunAll \/ RunOne \/ Return

-----------------------------------------------------------------------------
\* Tuples that place tasks in the sequential algorithm.
Earlier(a, b) ==
  \E i \in 1 .. MinOf(Len(a), Len(b)) : a[i] < b[i] /\ \A j \in 1 .. i - 1 : a[j] = b[j]
Before(u, t) == Earlier(graph[u].seq, graph[t].seq)

\* The last of the tasks in W that write region r.
Last(r, W) ==
  LET V == {w \in W : r \in Writes(w)}
  IN  IF V = {} THEN "initial" ELSE CHOOSE w \in V : \A x \in V \ {w} : Before(x, w)

\* Every arrow is written at both its ends, and in the same way.  An output to
\* a task that does not exist is dropped by the runtime; an input from one, or one
\* that the other end does not know, is waited for for ever, and an output
\* that the other end does not expect starts a task too early.  Data arrows
\* name their flow; of arrows without data the runtime keeps a count per task.
ArrowsMatch ==
  done = {} =>
    \A t \in Tasks :
      /\ \A f \in Flows(t) : \A a \in Arrows(In(t, f)) : Tail(a) \in Tasks
      /\ \A f \in Data(t) :
           /\ \A a \in Arrows(Out(t, f)) :
                Tail(a) \in Tasks => <<f>> \o t \in Arrows(In(Tail(a), a[1]))
           /\ \A a \in Arrows(In(t, f)) : <<f>> \o t \in Arrows(Out(Tail(a), a[1]))
      /\ \A u \in {Tail(a) : a \in UNION {Arrows(Out(t, f)) : f \in Ctl(t)}} \cap Tasks :
           CtlArrows(t, Out, u) = CtlArrows(u, In, t)
      /\ \A u \in {Tail(a) : a \in UNION {Arrows(In(t, f)) : f \in Ctl(t)}} :
           CtlArrows(t, In, u) = CtlArrows(u, Out, t)

\* The guards of the inputs of a flow exclude each other and leave no gap:
\* a flow has one source, or none if its kernel only writes.
OneSource ==
  done = {} =>
    \A t \in Tasks : \A f \in Data(t) :
      Cardinality(In(t, f)) = 1 \/ (In(t, f) = {} /\ Mode(t, f) = "WRITE")

\* A task loads and stores only the tiles of the process it is placed on,
\* whatever the distribution: a tile at the indices of its placement.
LocalMemory ==
  done = {} =>
    \A t \in Tasks : \A f \in Data(t) : \A r \in MemOf(In(t, f) \cup Out(t, f)) :
      \E x \in graph[t].at : x[2] = r[2] /\ x[3] = r[3]

\* A kernel finds every region it reads, as the sequential algorithm has it.
Current ==
  \A t \in wave : \A f \in Data(t) :
    Mode(t, f) \in {"READ", "RW"} =>
      \A r \in Tile(t, f) :
        /\ r \in DOMAIN got[t][f]
        /\ got[t][f][r] = Last(r, {w \in Tasks : Before(w, t)})

\* A region of the collection with its copies, or of fresh memory.
Regions(t, modes) ==
  UNION {Tile(t, f) \X {(<<t, f>> \in fresh)} : f \in {g \in Flows(t) : Mode(t, g) \in modes}}

\* What flow f of t stores, or copies into the tile.
Puts(t, f) == MemOf(Out(t, f)) \cup If(Mode(t, f) = "COPY", Tile(t, f))

Touched(t) == UNION {Tile(t, f) \cup MemOf(In(t, f)) \cup MemOf(Out(t, f)) : f \in Data(t)}

\* To put something into the tile does not disturb a task that reads the same content.
Disturbs(t, u) ==
  \E f \in Data(t), g \in {h \in Data(u) : Mode(u, h) = "READ" /\ <<u, h>> \notin fresh} :
    \E r \in Puts(t, f) \cap Tile(u, g) : Only(got[u][g], {r}) # Only(Left(got, t, f), {r})

Conflict(t, u) ==
  LET Put(x)     == (UNION {Puts(x, f) : f \in Data(x)}) \X {FALSE}
      Changes(x) == Regions(x, {"RW", "WRITE"})
      Loaded(x)  == Loads(x) \X {FALSE}
      Over(x, y) == Changes(x) \cap (Regions(y, {"READ"}) \cup Loaded(y) \cup Put(y)) # {}
  IN  /\ Touched(t) \cap Touched(u) # {}
      /\ \/ Changes(t) \cap Changes(u) # {} \/ Over(t, u) \/ Over(u, t)
         \/ Put(t) \cap (Loaded(u) \cup Put(u)) # {} \/ Put(u) \cap Loaded(t) # {}
         \/ Disturbs(t, u) \/ Disturbs(u, t)

\* Of two tasks that use the same region, one to change it, the arrows order
\* one behind the other: neither can change a copy that the other works on.
ConflictsOrdered ==
  \A t \in wave : \A u \in done \ {t} :
    u \in past[t] \/ t \in past[u] \/ ~Conflict(t, u)

\* At the end the collections hold what the last writers left.
ResultStored ==
  done = Tasks => \A r \in DOMAIN home \ dropped : home[r] = Last(r, Tasks)

\* The kernels that were called are those of the sequential algorithm, each once
\* and on the same operands.
Complete ==
  done = Tasks =>
    LET K == {t \in Tasks : Reads(t) \cup Writes(t) # {}}
    IN  /\ {<<graph[t].seq, Reads(t), Writes(t)>> : t \in K} = want
        /\ Cardinality(K) = Cardinality(want)

-----------------------------------------------------------------------------
(***************************************************************************)
(* What the catalogues of task graphs share.  A catalogue names the graphs *)
(* of some routines and the kernels that their sequential tile algorithms  *)
(* call; every shape with at most the number of tiles in Sizes is the      *)
(* initial state of an execution.                                          *)
(*                                                                         *)
(* A sequential algorithm is a set of calls <<position, reads, writes>>:   *)
(* the tuples of positions are ordered element by element, and calls at    *)
(* the same position do not disturb each other.  It is written down        *)
(* without regard to the graph: from the mathematics of the operation.     *)
(***************************************************************************)
CONSTANT Sizes
ASSUME SizesAssumption == Sizes \subseteq Nat \ {0}

\* A matrix of m x n tiles.
Mat(m, n) == [mt |-> m, nt |-> n]
Rows(X)   == 0 .. X.mt-1
Cols(X)   == 0 .. X.nt-1

\* The tiles of a stored triangle.
Triangle(uplo, X) ==
  {x \in Rows(X) \X Cols(X) : IF uplo = "Lower" THEN x[1] >= x[2] ELSE x[1] <= x[2]}

\* The tile in row i and column j of a matrix or of its transpose.
Op(X(_, _), trans, i, j) == IF trans = "NoTrans" THEN X(i, j) ELSE X(j, i)

\* A kernel that updates a tile, and the same algorithm at a later position.
Kernel(at, reads, tile) == <<at, reads \cup tile, tile>>
After(at, kernels)      == {<<at \o k[1], k[2], k[3]>> : k \in kernels}

Sides  == {"Left", "Right"}
Uplos  == {"Lower", "Upper"}
=============================================================================
