------------------------------ MODULE Coloring ------------------------------
(***************************************************************************)
(* The greedy Welsh-Powell colouring (src/coloring.rs) that gives the      *)
(* chromatic Gibbs and packed annealing kernels their independent sets.    *)
(* One action colours one node; `taken` is the scratch array that is       *)
(* reused from node to node and never cleared.                             *)
(*                                                                         *)
(* The graph is what CpuGraph::from_base makes of an edge list: no         *)
(* self-loops, but an edge may be listed more than once, and then counts   *)
(* more than once in a degree.                                             *)
(***************************************************************************)
EXTENDS Integers, FiniteSets

CONSTANTS
  NumNodes,    \* how many nodes the graph has
  MaxCopies    \* how often an edge may be listed

ASSUME NumNodesAssumption == NumNodes \in Nat
ASSUME MaxCopiesAssumption == MaxCopies \in Nat

Nodes == 0 .. NumNodes - 1
Edges == {e \in Nodes \X Nodes : e[1] < e[2]}

VARIABLES
  copies,       \* the graph: how often each edge is listed
  color,        \* the colour of each node, Uncolored before it has one
  taken,        \* per colour, the last node that had a neighbour of the colour
  numClasses,
  classes       \* the result, <<>> until it is collected

vars == <<copies, color, taken, numClasses, classes>>

Uncolored == -1
Nobody == -1

CopiesOf(u, v) ==
  IF u < v THEN copies[<<u, v>>] ELSE IF v < u THEN copies[<<v, u>>] ELSE 0

Adjacent(u, v) == CopiesOf(u, v) > 0

Degree(v) ==
  Cardinality({p \in Nodes \X (1 .. MaxCopies) : p[2] <= CopiesOf(p[1], v)})

Colored == {v \in Nodes : color[v] # Uncolored}

\* order.sort_by_key(Reverse(degree)), a stable sort: highest degree first,
\* then the lower id.
ComesBefore(u, v) ==
  Degree(u) > Degree(v) \/ (Degree(u) = Degree(v) /\ u < v)

NextInOrder(v) ==
  /\ v \in Nodes \ Colored
  /\ \A u \in Nodes \ (Colored \cup {v}) : ComesBefore(v, u)

Init ==
  /\ copies \in [Edges -> 0 .. MaxCopies]
  /\ color = [v \in Nodes |-> Uncolored]
  /\ taken = [c \in Nodes |-> Nobody]
  /\ numClasses = 0
  /\ classes = <<>>

\* Faulty variant of Marked: one neighbour's mark too few is made.
MarkedButLast(v) ==
  [c \in Nodes |-> IF \E u \in Nodes : u < v /\ Adjacent(u, v) /\ color[u] = c
                   THEN v ELSE taken[c]]

\* The scratch array after the colours of v's neighbours are marked.
Marked(v) ==
  [c \in Nodes |-> IF \E u \in Nodes : Adjacent(u, v) /\ color[u] = c
                   THEN v ELSE taken[c]]

\* The loop stops at a colour not marked by v, or past the last.
Free(v, c) == c \in Nodes => Marked(v)[c] # v

LeastFree(v, c) ==
  /\ Free(v, c)
  /\ \A d \in 0 .. c - 1 : ~Free(v, d)

Paint(v, c) ==
  /\ taken' = Marked(v)
  /\ color' = [color EXCEPT ![v] = c]
  /\ UNCHANGED <<copies, classes>>

ColorNode(v) ==
  /\ NextInOrder(v)
  /\ \E c \in 0 .. NumNodes :
       /\ LeastFree(v, c)
       /\ Paint(v, c)
       /\ numClasses' = IF c + 1 > numClasses THEN c + 1 ELSE numClasses

\* The classes, by ascending id inside each: every node with a colour is put
\* in its class.
Collect ==
  /\ Colored = Nodes
  /\ classes = <<>>
  /\ classes' = [c \in 1 .. numClasses |-> {v \in Nodes : color[v] = c - 1}]
  /\ UNCHANGED <<copies, color, taken, numClasses>>

Returned == Colored = Nodes /\ (classes # <<>> \/ numClasses = 0) /\ UNCHANGED vars

Next == (\E v \in Nodes : ColorNode(v)) \/ Collect \/ Returned

Spec == Init /\ [][Next]_vars

-----------------------------------------------------------------------------
\* A colour is always an index into the scratch array and the class list:
\* neither taken[c] nor classes[c] is out of bounds (coloring.rs 47-61).
TypeOK ==
  /\ copies \in [Edges -> 0 .. MaxCopies]
  /\ color \in [Nodes -> Nodes \cup {Uncolored}]
  /\ taken \in [Nodes -> Nodes \cup {Nobody}]
  /\ numClasses \in 0 .. NumNodes
  /\ \A v \in Nodes : color[v] < numClasses

\* Neighbours never share a colour, whatever the scratch array still holds
\* from earlier nodes (coloring.rs 46-58; the test at 84-101 tries a ring).
ProperColoring ==
  \A u, v \in Colored : Adjacent(u, v) => color[u] # color[v]

\* No class is empty, so the class count that max_colors is compared with is
\* the number of classes in use (coloring.rs 53-58, gibbs_parallel.rs 310-315).
NoEmptyClass ==
  \A c \in Nodes : c < numClasses => \E v \in Nodes : color[v] = c

\* The greedy bound: a node's colour never exceeds the number of neighbours
\* coloured before it, so the classes are at most one more than the largest
\* degree.
GreedyBound ==
  \A v \in Colored : color[v] <= Cardinality({u \in Nodes : Adjacent(u, v)})

\* The classes returned hold every node exactly once and only independent
\* nodes together.
ClassesPartition ==
  classes # <<>> =>
    /\ \A v \in Nodes : Cardinality({c \in DOMAIN classes : v \in classes[c]}) = 1
    /\ \A c \in DOMAIN classes : \A u, v \in classes[c] : ~Adjacent(u, v)
=============================================================================
