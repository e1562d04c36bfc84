--------------------------- MODULE SamplerProofs ---------------------------
(***************************************************************************)
(* Proofs about what happens around the annealers: Coloring, for every     *)
(* graph, every multiplicity of its edges and every order of the nodes.    *)
(*                                                                         *)
(* The argument: the scratch array only holds nodes that have a colour, so *)
(* an entry equal to the node at hand was written for it; and the colours  *)
(* in use are 0 .. numClasses - 1, so the search ends at numClasses at     *)
(* the latest, which is at most the number of nodes coloured so far.       *)
(*                                                                         *)
(* And about ColoringCache, for any number of threads, jobs and graphs: an *)
(* entry that is held is compared or built for the job that holds it, and  *)
(* an entry is never changed once it is in the slot.                       *)
(*                                                                         *)
(* And about Research with FloatPacked, for any requests, models, words    *)
(* and streams: what a layer of checks lets pass is known to the layers    *)
(* after it, and the leading words of a run hold the walks of the shorter  *)
(* run lane by lane.                                                       *)
(*                                                                         *)
(* And about TensorSampler, for any jobs: the gates of a chain and the     *)
(* bonds of a network are the problem that is scored, what they cost stays *)
(* within the budget, a state is sampled in canonical form, and a polish   *)
(* goes downhill on fields that are kept flip by flip.                     *)
(***************************************************************************)
EXTENDS Coloring, ColoringCache, Research, TensorSampler, SumProofs, FiniteSetTheorems,
        FunctionTheorems, SequenceTheorems, WellFoundedInduction, TLAPS

OldMarks == \A c \in Nodes : taken[c] \in Colored \cup {Nobody}

EnoughNodes == numClasses <= Cardinality(Colored)

CollectedOnce ==
  classes # <<>> =>
    /\ Colored = Nodes
    /\ classes = [c \in 1 .. numClasses |-> {v \in Nodes : color[v] = c - 1}]

CInv ==
  /\ TypeOK
  /\ OldMarks
  /\ EnoughNodes
  /\ ProperColoring
  /\ NoEmptyClass
  /\ GreedyBound
  /\ CollectedOnce

-----------------------------------------------------------------------------
LEMMA NodesFinite ==
  /\ IsFiniteSet(Nodes)
  /\ Cardinality(Nodes) = NumNodes
  /\ \A S \in SUBSET Nodes :
       /\ IsFiniteSet(S)
       /\ Cardinality(S) \in 0 .. NumNodes
       /\ \A v \in Nodes \ S : Cardinality(S \cup {v}) = Cardinality(S) + 1
<1>1. IsFiniteSet(Nodes) /\ Cardinality(Nodes) = NumNodes
  BY FS_Interval, NumNodesAssumption DEF Nodes
<1>2. ASSUME NEW S \in SUBSET Nodes
      PROVE  /\ IsFiniteSet(S)
             /\ Cardinality(S) \in 0 .. NumNodes
             /\ \A v \in Nodes \ S : Cardinality(S \cup {v}) = Cardinality(S) + 1
  <2>1. IsFiniteSet(S) /\ Cardinality(S) <= NumNodes
    BY <1>1, FS_Subset
  <2>2. Cardinality(S) \in Nat
    BY <2>1, FS_CardinalityType
  <2>3. \A v \in Nodes \ S : Cardinality(S \cup {v}) = Cardinality(S) + 1
    BY <2>1, FS_AddElement
  <2> QED
    BY <2>1, <2>2, <2>3, NumNodesAssumption
<1> QED
  BY <1>1, <1>2

LEMMA ColoringInit == Init => CInv
<1> SUFFICES ASSUME Init PROVE CInv
  OBVIOUS
<1> USE DEF Init, Uncolored, Nobody
<1>1. Colored = {}
  BY DEF Colored
<1>2. TypeOK
  BY NumNodesAssumption DEF TypeOK
<1>3. OldMarks /\ CollectedOnce
  BY DEF OldMarks, CollectedOnce
<1>4. EnoughNodes
  BY <1>1, FS_EmptySet DEF EnoughNodes
<1>5. ProperColoring /\ NoEmptyClass /\ GreedyBound
  BY <1>1 DEF ProperColoring, NoEmptyClass, GreedyBound
<1> QED
  BY <1>2, <1>3, <1>4, <1>5 DEF CInv

\* A colour marked for v is the colour of a neighbour of v, and only that.
LEMMA MarksAreNeighbours ==
  ASSUME CInv, NEW v \in Nodes \ Colored, NEW c \in Nodes
  PROVE  Free(v, c) <=> ~\E u \in Nodes : Adjacent(u, v) /\ color[u] = c
<1>1. taken[c] # v
  <2>1. v # Nobody
    BY DEF Nodes, Nobody
  <2> QED
    BY <2>1 DEF CInv, OldMarks
<1> QED
  BY <1>1 DEF Free, Marked

\* The colour found is at most the number of classes so far, and a valid
\* index.
LEMMA FoundColor ==
  ASSUME CInv, NEW v \in Nodes \ Colored, NEW c \in 0 .. NumNodes, LeastFree(v, c)
  PROVE  c \in 0 .. numClasses /\ c \in Nodes
<1>1. numClasses \in 0 .. NumNodes /\ color \in [Nodes -> Nodes \cup {Uncolored}]
  BY DEF CInv, TypeOK
<1>2. numClasses < NumNodes
  <2>1. Colored \in SUBSET Nodes /\ Colored \cup {v} \in SUBSET Nodes
    BY DEF Colored
  <2>2. /\ Cardinality(Colored \cup {v}) = Cardinality(Colored) + 1
        /\ Cardinality(Colored) \in 0 .. NumNodes
        /\ Cardinality(Colored \cup {v}) \in 0 .. NumNodes
    BY <2>1, NodesFinite
  <2> QED
    BY <1>1, <2>2, NumNodesAssumption DEF CInv, EnoughNodes
<1>3. numClasses \in Nodes
  BY <1>1, <1>2, NumNodesAssumption DEF Nodes
<1>4. Free(v, numClasses)
  <2>1. \A u \in Nodes : color[u] # numClasses
    BY <1>1, NumNodesAssumption DEF CInv, TypeOK, Nodes, Uncolored
  <2> QED
    BY <1>3, <2>1, MarksAreNeighbours
<1>5. c <= numClasses
  <2> SUFFICES ASSUME c > numClasses PROVE FALSE
    BY <1>1, NumNodesAssumption
  <2>1. numClasses \in 0 .. c - 1
    BY <1>1, NumNodesAssumption
  <2> QED
    BY <1>4, <2>1 DEF LeastFree
<1> QED
  BY <1>1, <1>2, <1>5, NumNodesAssumption DEF Nodes

\* Every colour below the one found belongs to a neighbour, and different
\* colours to different neighbours.
LEMMA FoundBelowDegree ==
  ASSUME CInv, NEW v \in Nodes \ Colored, NEW c \in 0 .. NumNodes, LeastFree(v, c)
  PROVE  c <= Cardinality({u \in Nodes : Adjacent(u, v)})
<1> DEFINE A == {u \in Nodes : Adjacent(u, v)}
           f == [d \in 1 .. c |-> CHOOSE u \in Nodes : Adjacent(u, v) /\ color[u] = d - 1]
<1>1. c \in Nat /\ c \in Nodes
  BY FoundColor, NumNodesAssumption
<1>2. ASSUME NEW d \in 1 .. c
      PROVE  f[d] \in A /\ color[f[d]] = d - 1
  <2>1. d - 1 \in 0 .. c - 1 /\ d - 1 \in Nodes
    BY <1>1, NumNodesAssumption DEF Nodes
  <2>2. ~Free(v, d - 1)
    BY <2>1 DEF LeastFree
  <2>3. \E u \in Nodes : Adjacent(u, v) /\ color[u] = d - 1
    BY <2>1, <2>2, MarksAreNeighbours
  <2> QED
    BY <2>3
<1>3. f \in Injection(1 .. c, A)
  <2>1. f \in [1 .. c -> A]
    BY <1>2
  <2>2. \A d, e \in 1 .. c : f[d] = f[e] => d = e
    <3> SUFFICES ASSUME NEW d \in 1 .. c, NEW e \in 1 .. c, f[d] = f[e] PROVE d = e
      OBVIOUS
    <3>1. d - 1 = e - 1
      BY <1>2
    <3> QED
      BY <1>1, <3>1
  <2> HIDE DEF f
  <2> QED
    BY <2>1, <2>2 DEF Injection, IsInjective
<1>4. IsFiniteSet(A)
  BY NodesFinite
<1>5. Cardinality(1 .. c) <= Cardinality(A)
  BY <1>3, <1>4, FS_Injection
<1>6. Cardinality(1 .. c) = c
  BY <1>1, FS_Interval
<1> QED
  BY <1>5, <1>6

LEMMA ColorNodeInv ==
  ASSUME CInv, NEW v \in Nodes, ColorNode(v)
  PROVE  CInv'
<1>1. PICK c \in 0 .. NumNodes :
        /\ LeastFree(v, c)
        /\ Paint(v, c)
        /\ numClasses' = IF c + 1 > numClasses THEN c + 1 ELSE numClasses
  BY DEF ColorNode
<1>2. v \in Nodes \ Colored
  BY DEF ColorNode, NextInOrder
<1>3. c \in 0 .. numClasses /\ c \in Nodes
  BY <1>1, <1>2, FoundColor
<1>4. /\ color \in [Nodes -> Nodes \cup {Uncolored}]
      /\ taken \in [Nodes -> Nodes \cup {Nobody}]
      /\ numClasses \in 0 .. NumNodes
      /\ \A u \in Nodes : color[u] < numClasses
  BY DEF CInv, TypeOK
<1>5. /\ taken' = Marked(v)
      /\ color' = [color EXCEPT ![v] = c]
      /\ copies' = copies /\ classes' = classes
  BY <1>1 DEF Paint
<1>6. /\ color'[v] = c
      /\ \A u \in Nodes \ {v} : color'[u] = color[u]
      /\ \A u, w \in Nodes : Adjacent(u, w)' = Adjacent(u, w)
  BY <1>4, <1>5 DEF Adjacent, CopiesOf
<1>7. c # Uncolored /\ c \in Nat /\ c < NumNodes
  BY <1>3, NumNodesAssumption DEF Nodes, Uncolored
<1>8. Colored' = Colored \cup {v}
  BY <1>6, <1>7 DEF Colored
<1>9. /\ numClasses' \in 0 .. NumNodes /\ c < numClasses' /\ numClasses <= numClasses'
      /\ numClasses' \in {numClasses, numClasses + 1}
      /\ numClasses' = numClasses + 1 => c = numClasses
  BY <1>1, <1>3, <1>4, <1>7, NumNodesAssumption
<1>10. TypeOK'
  <2>1. color' \in [Nodes -> Nodes \cup {Uncolored}]
    BY <1>3, <1>4, <1>5
  <2>2. taken' \in [Nodes -> Nodes \cup {Nobody}]
    BY <1>4, <1>5 DEF Marked
  <2>3. \A u \in Nodes : color'[u] < numClasses'
    <3> SUFFICES ASSUME NEW u \in Nodes PROVE color'[u] < numClasses'
      OBVIOUS
    <3>1. CASE u = v
      BY <1>6, <1>9, <3>1
    <3>2. CASE u # v
      <4>1. color[u] < numClasses /\ color[u] \in Int
        BY <1>4, NumNodesAssumption DEF Nodes, Uncolored
      <4> QED
        BY <1>4, <1>6, <1>9, <3>2, <4>1, NumNodesAssumption
    <3> QED
      BY <3>1, <3>2
  <2> QED
    BY <1>5, <1>9, <2>1, <2>2, <2>3 DEF CInv, TypeOK
<1>11. OldMarks'
  BY <1>4, <1>5, <1>8 DEF CInv, OldMarks, Marked
<1>12. EnoughNodes'
  <2>1. Colored \in SUBSET Nodes
    BY DEF Colored
  <2>2. /\ Cardinality(Colored \cup {v}) = Cardinality(Colored) + 1
        /\ Cardinality(Colored) \in Nat
    BY <1>2, <2>1, NodesFinite, NumNodesAssumption
  <2> QED
    BY <1>4, <1>8, <1>9, <2>2, NumNodesAssumption DEF CInv, EnoughNodes
<1>13. ProperColoring'
  <2> SUFFICES ASSUME NEW u \in Colored \cup {v}, NEW w \in Colored \cup {v}, Adjacent(u, w)
               PROVE  color'[u] # color'[w]
    BY <1>6, <1>8 DEF ProperColoring, Colored
  <2>1. \A x \in Nodes : Adjacent(x, v) => color[x] # c
    <3>1. Free(v, c)
      BY <1>1 DEF LeastFree
    <3> QED
      BY <1>2, <1>3, <3>1, MarksAreNeighbours
  <2>2. u \in Nodes /\ w \in Nodes /\ u # w
    <3>1. u \in Nodes /\ w \in Nodes
      BY DEF Colored
    <3>2. ~Adjacent(u, u)
      BY <3>1, NumNodesAssumption DEF Adjacent, CopiesOf, Nodes
    <3> QED
      BY <3>1, <3>2
  <2>3. Adjacent(w, u)
    BY <2>2, NumNodesAssumption DEF Adjacent, CopiesOf, Nodes
  <2>4. CASE u = v
    BY <1>6, <2>1, <2>2, <2>3, <2>4
  <2>5. CASE w = v
    BY <1>6, <2>1, <2>2, <2>5
  <2>6. CASE u # v /\ w # v
    BY <1>6, <2>2, <2>6 DEF CInv, ProperColoring
  <2> QED
    BY <2>4, <2>5, <2>6
<1>14. NoEmptyClass'
  <2>0. numClasses \in Nat /\ numClasses' \in Nat
    BY <1>4, <1>9, NumNodesAssumption
  <2> SUFFICES ASSUME NEW d \in Nodes, d < numClasses'
               PROVE  \E u \in Nodes : color'[u] = d
    BY DEF NoEmptyClass
  <2>1. CASE d < numClasses
    <3>1. PICK u \in Nodes : color[u] = d
      BY <2>1 DEF CInv, NoEmptyClass
    <3>2. u # v
      BY <1>2, <3>1, NumNodesAssumption DEF Colored, Uncolored, Nodes
    <3> QED
      BY <1>6, <3>1, <3>2
  <2>2. CASE d = c
    BY <1>6, <2>2
  <2>3. d < numClasses \/ d = c
    <3>0. d \in Nat
      BY NumNodesAssumption DEF Nodes
    <3>1. CASE numClasses' = numClasses
      BY <2>0, <3>0, <3>1
    <3>2. CASE numClasses' = numClasses + 1
      BY <1>9, <2>0, <3>0, <3>2
    <3> QED
      BY <1>9, <3>1, <3>2
  <2> QED
    BY <2>1, <2>2, <2>3
<1>15. GreedyBound'
  <2> SUFFICES ASSUME NEW u \in Colored \cup {v}
               PROVE  color'[u] <= Cardinality({x \in Nodes : Adjacent(x, u)'})
    BY <1>8 DEF GreedyBound
  <2>1. u \in Nodes
    BY DEF Colored
  <2>2. {x \in Nodes : Adjacent(x, u)'} = {x \in Nodes : Adjacent(x, u)}
    BY <1>6, <2>1
  <2>3. CASE u = v
    BY <1>1, <1>2, <1>6, <2>2, <2>3, FoundBelowDegree
  <2>4. CASE u # v
    BY <1>6, <2>1, <2>2, <2>4 DEF CInv, GreedyBound
  <2> QED
    BY <2>3, <2>4
<1>16. CollectedOnce'
  BY <1>2, <1>5 DEF CInv, CollectedOnce
<1> QED
  BY <1>10, <1>11, <1>12, <1>13, <1>14, <1>15, <1>16 DEF CInv

LEMMA CollectInv ==
  ASSUME CInv, Collect
  PROVE  CInv'
<1> USE DEF Collect
<1>1. TypeOK' /\ OldMarks' /\ EnoughNodes' /\ NoEmptyClass'
  BY DEF CInv, TypeOK, OldMarks, EnoughNodes, NoEmptyClass, Colored
<1>2. ProperColoring' /\ GreedyBound'
  BY DEF CInv, ProperColoring, GreedyBound, Colored, Adjacent, CopiesOf
<1>3. CollectedOnce'
  BY DEF CollectedOnce, Colored
<1> QED
  BY <1>1, <1>2, <1>3 DEF CInv

LEMMA ColoringStep == CInv /\ [Next]_vars => CInv'
<1> SUFFICES ASSUME CInv, [Next]_vars PROVE CInv'
  OBVIOUS
<1>1. CASE \E v \in Nodes : ColorNode(v)
  BY <1>1, ColorNodeInv
<1>2. CASE Collect
  BY <1>2, CollectInv
<1>3. CASE UNCHANGED vars
  <2> USE <1>3 DEF vars
  <2>1. TypeOK' /\ OldMarks' /\ EnoughNodes' /\ NoEmptyClass'
    BY DEF CInv, TypeOK, OldMarks, EnoughNodes, NoEmptyClass, Colored
  <2>2. ProperColoring' /\ GreedyBound'
    BY DEF CInv, ProperColoring, GreedyBound, Colored, Adjacent, CopiesOf
  <2>3. CollectedOnce'
    BY DEF CInv, CollectedOnce, Colored
  <2> QED
    BY <2>1, <2>2, <2>3 DEF CInv
<1> QED
  BY <1>1, <1>2, <1>3 DEF Next, Returned

LEMMA ColoringInductive == Spec => []CInv
<1> QED
  BY ColoringInit, ColoringStep, PTL DEF Spec

-----------------------------------------------------------------------------
\* No index of the colouring is out of bounds, for any graph.
THEOREM IndicesInBounds == Spec => []TypeOK
<1>1. CInv => TypeOK
  BY DEF CInv
<1> QED
  BY <1>1, ColoringInductive, PTL

\* Neighbours never share a colour, though the scratch array is not cleared
\* between nodes (coloring.rs 46-58).
THEOREM ColoringIsProper == Spec => []ProperColoring
<1>1. CInv => ProperColoring
  BY DEF CInv
<1> QED
  BY <1>1, ColoringInductive, PTL

\* The classes counted are the classes in use, at most one more than the
\* largest degree.
THEOREM ClassesAreTight == Spec => [](NoEmptyClass /\ GreedyBound)
<1>1. CInv => NoEmptyClass /\ GreedyBound
  BY DEF CInv
<1> QED
  BY <1>1, ColoringInductive, PTL

\* The classes returned are a partition of the nodes into independent sets.
THEOREM ClassesArePartition == Spec => []ClassesPartition
<1>1. CInv => ClassesPartition
  <2> SUFFICES ASSUME CInv, classes # <<>> PROVE
        /\ \A v \in Nodes : Cardinality({c \in DOMAIN classes : v \in classes[c]}) = 1
        /\ \A c \in DOMAIN classes : \A u, v \in classes[c] : ~Adjacent(u, v)
    BY DEF ClassesPartition
  <2>1. /\ Colored = Nodes
        /\ classes = [c \in 1 .. numClasses |-> {v \in Nodes : color[v] = c - 1}]
        /\ numClasses \in Nat
        /\ \A v \in Nodes : color[v] \in Nat /\ color[v] < numClasses
    <3>1. /\ Colored = Nodes
          /\ classes = [c \in 1 .. numClasses |-> {v \in Nodes : color[v] = c - 1}]
      BY DEF CInv, CollectedOnce
    <3>2. numClasses \in Nat
      BY NumNodesAssumption DEF CInv, TypeOK
    <3>3. ASSUME NEW v \in Nodes PROVE color[v] \in Nat /\ color[v] < numClasses
      <4>1. v \in Colored
        BY <3>1
      <4>2. color[v] \in Nodes /\ color[v] < numClasses
        BY <4>1 DEF CInv, TypeOK, Colored
      <4> QED
        BY <4>2, NumNodesAssumption DEF Nodes
    <3> QED
      BY <3>1, <3>2, <3>3
  <2>2. ASSUME NEW v \in Nodes
        PROVE  Cardinality({c \in DOMAIN classes : v \in classes[c]}) = 1
    <3>1. {c \in DOMAIN classes : v \in classes[c]} = {color[v] + 1}
      BY <2>1
    <3> QED
      BY <3>1, FS_Singleton
  <2>3. ASSUME NEW c \in DOMAIN classes, NEW u \in classes[c], NEW v \in classes[c]
        PROVE  ~Adjacent(u, v)
    <3>1. u \in Colored /\ v \in Colored /\ color[u] = color[v]
      BY <2>1
    <3> QED
      BY <3>1 DEF CInv, ProperColoring
  <2> QED
    BY <2>2, <2>3
<1> QED
  BY <1>1, ColoringInductive, PTL

-----------------------------------------------------------------------------
(* The cache.                                                              *)

BuiltEntries == {Entry(t) : t \in Topologies}
Entries == BuiltEntries \cup {Empty}

\* The entries that are around, and what a worker holds at each place.
Held(w) ==
  /\ worker[w].pc # "idle" => worker[w].job \in BuiltEntries
  /\ worker[w].pc \in {"store", "sample"} => worker[w].entry = worker[w].job

CacheInv ==
  /\ slot \in Entries
  /\ worker \in [Threads -> [pc : {"idle", "peek", "compare", "build", "store", "sample"},
                             jobs : Nat, job : Entries, entry : Entries]]
  /\ \A w \in Threads : Held(w)

\* An entry that compares equal is the entry of the job: it names nothing but
\* the node count and the edges that are compared.
LEMMA HitIsOwn ==
  ASSUME NEW e \in Entries, NEW j \in BuiltEntries, Hit(e, j)
  PROVE  e = j
<1>1. e \in BuiltEntries
  BY DEF Entries, Empty, Hit
<1>2. PICK t \in Topologies : e = Entry(t)
  BY <1>1 DEF BuiltEntries
<1>3. PICK u \in Topologies : j = Entry(u)
  BY DEF BuiltEntries
<1>4. t.nodes = u.nodes /\ t.edges = u.edges
  BY <1>2, <1>3 DEF Hit, Entry
<1> QED
  BY <1>2, <1>3, <1>4 DEF Entry

LEMMA CacheInitInv == CacheInit => CacheInv
BY DEF CacheInit, CacheInv, Held, Entries

\* A step changes what one worker holds; what the others hold stays theirs,
\* whatever becomes of the slot.
LEMMA CacheStepInv ==
  ASSUME CacheInv, NEW w \in Threads, CacheStep(w)
  PROVE  CacheInv'
<1> USE DEF Held
<1>1. CASE Begin(w)
  <2>1. PICK t \in Topologies :
          worker' = [worker EXCEPT ![w] = [pc |-> "peek", jobs |-> worker[w].jobs + 1,
                                           job |-> Entry(t), entry |-> Empty]]
    BY <1>1 DEF Begin
  <2>2. Entry(t) \in BuiltEntries
    BY DEF BuiltEntries
  <2> QED
    BY <1>1, <2>1, <2>2 DEF Begin, CacheInv, Entries
<1>2. CASE Peek(w)
  BY <1>2 DEF Peek, CacheInv
<1>3. CASE Compare(w)
  <2>1. CASE Hit(worker[w].entry, worker[w].job)
    <3>1. worker[w].entry = worker[w].job
      BY <1>3, <2>1, HitIsOwn DEF Compare, CacheInv
    <3>2. worker' = [worker EXCEPT ![w].pc = "sample"] /\ slot' = slot
      BY <1>3, <2>1 DEF Compare
    <3> QED
      BY <1>3, <3>1, <3>2 DEF Compare, CacheInv
  <2>2. CASE ~Hit(worker[w].entry, worker[w].job)
    <3>1. worker' = [worker EXCEPT ![w].pc = "build"] /\ slot' = slot
      BY <1>3, <2>2 DEF Compare
    <3> QED
      BY <1>3, <3>1 DEF Compare, CacheInv
  <2> QED
    BY <2>1, <2>2
<1>4. CASE Build(w)
  BY <1>4 DEF Build, CacheInv, Entries
<1>5. CASE Store(w)
  BY <1>5 DEF Store, CacheInv
<1>6. CASE EndJob(w)
  BY <1>6 DEF EndJob, CacheInv, Entries
<1> QED
  BY <1>1, <1>2, <1>3, <1>4, <1>5, <1>6 DEF CacheStep

\* Whatever other workers store between the two critical sections, no job is
\* annealed on the colouring of another topology (sa_sampler.rs 308-345).
THEOREM JobsKeepTheirColoring == CacheSpec => []OwnColoring
<1>1. CacheInv /\ UNCHANGED cacheVars => CacheInv'
  BY DEF CacheInv, Held, cacheVars
<1>2. CacheInv /\ [CacheNext]_cacheVars => CacheInv'
  BY <1>1, CacheStepInv DEF CacheNext
<1>3. CacheInv => OwnColoring
  BY DEF CacheInv, Held, OwnColoring
<1> QED
  BY CacheInitInv, <1>2, <1>3, PTL DEF CacheSpec

-----------------------------------------------------------------------------
(* The layers of checks.                                                   *)

Refusals == {"invalid", "memory", "unsupported", "seeded scalar"}
Checks == [applies : BOOLEAN, answer : Refusals]

Passes(layer) == \A i \in DOMAIN layer : ~layer[i].applies

\* The first check that applies is one of the layer.
LEMMA VerdictOfLayer ==
  ASSUME NEW layer \in Seq(Checks)
  PROVE  /\ Verdict(layer) = "pass" => Passes(layer)
         /\ Verdict(layer) \in Refusals \cup {"pass"}
<1> DEFINE hits == {i \in DOMAIN layer : layer[i].applies}
<1>1. CASE hits = {}
  BY <1>1 DEF Verdict, Passes
<1>2. CASE hits # {}
  <2>1. hits \subseteq Nat
    OBVIOUS
  <2>2. IsWellFoundedOn(OpToRel(<, Nat), Nat)
    BY NatLessThanWellFounded
  <2>3. PICK m \in hits : \A y \in hits : ~(<<y, m>> \in OpToRel(<, Nat))
    BY <1>2, <2>1, <2>2, WFMin
  <2>4. \A k \in hits : m <= k
    <3>1. \A k \in hits : ~(k < m)
      BY <2>1, <2>3 DEF OpToRel
    <3> QED
      BY <2>1, <3>1
  <2>5. Min(hits) \in hits
    BY <2>4, Zenon DEF Min
  <2>6. Verdict(layer) = layer[Min(hits)].answer
    BY <1>2 DEF Verdict
  <2>7. layer[Min(hits)] \in Checks
    BY <2>5
  <2>8. Verdict(layer) \in Refusals
    BY <2>6, <2>7 DEF Checks
  <2> QED
    BY <2>8 DEF Refusals
<1> QED
  BY <1>1, <1>2

LEMMA PassesBoth ==
  ASSUME NEW a \in Seq(Checks), NEW b \in Seq(Checks)
  PROVE  /\ a \o b \in Seq(Checks)
         /\ Passes(a \o b) => Passes(a) /\ Passes(b)
<1>1. ASSUME Passes(a \o b) PROVE Passes(a)
  <2> SUFFICES ASSUME NEW i \in DOMAIN a PROVE ~a[i].applies
    BY DEF Passes
  <2>1. i \in DOMAIN (a \o b) /\ (a \o b)[i] = a[i]
    OBVIOUS
  <2> QED
    BY <1>1, <2>1 DEF Passes
<1>2. ASSUME Passes(a \o b) PROVE Passes(b)
  <2> SUFFICES ASSUME NEW i \in DOMAIN b PROVE ~b[i].applies
    BY DEF Passes
  <2>1. Len(a) + i \in DOMAIN (a \o b) /\ (a \o b)[Len(a) + i] = b[i]
    OBVIOUS
  <2> QED
    BY <1>2, <2>1 DEF Passes
<1> QED
  BY <1>1, <1>2

LEMMA PassesOne ==
  ASSUME NEW p \in BOOLEAN, NEW answer, Passes(<<Check(p, answer)>>)
  PROVE  ~p
<1>1. 1 \in DOMAIN <<Check(p, answer)>> /\ <<Check(p, answer)>>[1] = Check(p, answer)
  OBVIOUS
<1>2. ~Check(p, answer).applies
  BY <1>1, Zenon DEF Passes
<1> QED
  BY <1>2 DEF Check

\* Rows of seeds that do not fit are refused.
LEMMA SeedsAreChecked ==
  SeedsFit \in Seq(Checks) /\ (Passes(SeedsFit) /\ Seeded => ~Has("more seeds than reads"))
<1>1. SeedsFit \in Seq(Checks)
  BY DEF SeedsFit, Checks, Check, Refusals
<1>2. ASSUME Passes(SeedsFit) PROVE ~(Seeded /\ Has("more seeds than reads"))
  <2>1. 3 \in DOMAIN SeedsFit
        /\ SeedsFit[3] = Check(Seeded /\ Has("more seeds than reads"), "invalid")
    BY DEF SeedsFit
  <2>2. ~Check(Seeded /\ Has("more seeds than reads"), "invalid").applies
    BY <1>2, <2>1, Zenon DEF Passes
  <2> QED
    BY <2>2 DEF Check
<1> QED
  BY <1>1, <1>2

LEMMA LayersAreChecks ==
  /\ Sizes \in Seq(Checks) /\ Workspace \in Seq(Checks) /\ Counts \in Seq(Checks)
  /\ Arrays \in Seq(Checks) /\ SeedShape \in Seq(Checks) /\ StartNeedsSeeds \in Seq(Checks)
  /\ Common \in Seq(Checks) /\ OwnFloat \in Seq(Checks) /\ Repeated \in Seq(Checks)
<1> USE DEF Checks, Check, Refusals, Has
<1>1. Sizes \in Seq(Checks) /\ Workspace \in Seq(Checks)
  BY DEF Sizes, Workspace
<1>2. Counts \in Seq(Checks)
  <2> DEFINE c == <<Check(Has("reads out of range"), "invalid"), Check(Has("output over the cap"), "memory")>>
             f == IF UsesFloat(request.kernel) THEN Workspace ELSE <<>>
  <2>1. c \in Seq(Checks)
    OBVIOUS
  <2>3. f \in Seq(Checks)
    <3>1. CASE UsesFloat(request.kernel)
      BY <1>1, <3>1
    <3>2. CASE ~UsesFloat(request.kernel)
      BY <3>2
    <3> QED
      BY <3>1, <3>2
  <2>2. Counts = Sizes \o c \o f
    BY DEF Counts
  <2> QED
    BY <1>1, <2>1, <2>2, <2>3, PassesBoth, Zenon
<1>3. Arrays \in Seq(Checks)
  BY DEF Arrays
<1>4. SeedShape \in Seq(Checks) /\ StartNeedsSeeds \in Seq(Checks)
  BY DEF SeedShape, StartNeedsSeeds
<1>5. Common \in Seq(Checks)
  <2> DEFINE c ==
        <<Check(Has("coupling count"), "invalid"), Check(Has("no sweeps"), "invalid"),
          Check(Has("beta not positive"), "invalid"), Check(Has("betas reversed"), "invalid"),
          Check(Seeded /\ request.start \in {"not positive", "over the cap"}, "invalid"),
          Check(Has("not finite"), "invalid"), Check(Has("endpoint out of range"), "invalid"),
          Check(Has("self-loop"), "invalid"), Check(Has("repeated edge"), "invalid")>>
  <2>1. c \in Seq(Checks)
    OBVIOUS
  <2>2. Common = Counts \o c
    BY DEF Common
  <2> QED
    BY <1>2, <2>1, <2>2, PassesBoth, Zenon
<1>6. OwnFloat \in Seq(Checks)
  BY DEF OwnFloat
<1>7. Repeated \in Seq(Checks)
  <2> DEFINE c == <<Check(Has("coupling count"), "invalid"), Check(Has("reads out of range"), "invalid")>>
             f == <<Check(Has("not finite"), "invalid"), Check(Has("endpoint out of range"), "invalid"),
                    Check(Has("self-loop"), "invalid"), Check(Has("repeated edge"), "invalid"),
                    Check(Has("beta not positive"), "invalid"), Check(Has("betas reversed"), "invalid"),
                    Check(Seeded /\ request.start \in {"not positive", "over the cap"}, "invalid")>>
  <2>1. c \in Seq(Checks) /\ f \in Seq(Checks)
    OBVIOUS
  <2>2. Repeated = Sizes \o c \o Workspace \o f
    BY DEF Repeated
  <2> QED
    BY <1>1, <2>1, <2>2, PassesBoth, Zenon
<1> QED
  BY <1>1, <1>2, <1>3, <1>4, <1>5, <1>6, <1>7

\* What the kernels refuse of their own.
KernelFits ==
  /\ Arm = "cpu-msa-unit" => FitsUnit
  /\ Seeded => Arm # "cpu-sa" /\ ~Has("more seeds than reads")

LEMMA OwnChecks ==
  ASSUME request.kernel \in Kernels
  PROVE  /\ Own \in Seq(Checks)
         /\ Passes(Own) => KernelFits
<1>1. CASE Arm = "cpu-sa"
  <2>1. Own = <<Check(Seeded, "seeded scalar")>>
    BY <1>1 DEF Own
  <2> QED
    <3>1. Own \in Seq(Checks)
      <4>1. Seeded \in BOOLEAN
        BY DEF Seeded
      <4>2. [applies |-> Seeded, answer |-> "seeded scalar"] \in Checks
        BY <4>1, Zenon DEF Checks, Refusals
      <4>3. ASSUME NEW c \in Checks PROVE <<c>> \in Seq(Checks)
        OBVIOUS
      <4> QED
        BY <2>1, <4>2, <4>3, Zenon DEF Check
    <3>2. ASSUME Passes(Own) PROVE ~Seeded
      BY <2>1, <3>2, PassesOne DEF Seeded
    <3> QED
      BY <1>1, <3>1, <3>2 DEF KernelFits
<1>2. CASE Arm = "cpu-msa-unit"
  <2> DEFINE c == <<Check(~FitsUnit, "unsupported")>>
  <2>1. Own = c \o SeedsFit
    BY <1>2 DEF Own
  <2>2. c \in Seq(Checks) /\ (Passes(c) => FitsUnit)
    <3>1. c \in Seq(Checks)
      BY DEF Check, Checks, Refusals, FitsUnit
    <3>2. ASSUME Passes(c) PROVE FitsUnit
      BY <3>2, PassesOne DEF FitsUnit
    <3> QED
      BY <3>1, <3>2
  <2>3. Own \in Seq(Checks) /\ (Passes(Own) => Passes(c) /\ Passes(SeedsFit))
    BY <2>1, <2>2, SeedsAreChecked, PassesBoth, Zenon
  <2> QED
    BY <1>2, <2>2, <2>3, SeedsAreChecked DEF KernelFits
<1>3. CASE Arm = "cpu-msa-f64"
  <2>1. Own = OwnFloat \o Repeated \o SeedsFit
    BY <1>3 DEF Own
  <2>2. OwnFloat \o Repeated \in Seq(Checks)
    BY LayersAreChecks, PassesBoth, Zenon
  <2>3. Own \in Seq(Checks) /\ (Passes(Own) => Passes(SeedsFit))
    BY <2>1, <2>2, SeedsAreChecked, PassesBoth, Zenon
  <2> QED
    BY <1>3, <2>3, SeedsAreChecked DEF KernelFits
<1> QED
  BY <1>1, <1>2, <1>3 DEF Arm, Kernels

-----------------------------------------------------------------------------
\* What is known once a research request has passed its first layers.
Passed ==
  /\ stage > 1 => request.kernel \in Kernels
  /\ stage > 5 => (request.start # "none" => Seeded)
  /\ stage > 7 => KernelFits

RInv ==
  /\ stage \in Nat
  /\ request.method = "research" => Passed
  /\ request.method = "research" /\ report.answer = "samples" => stage > 7
  /\ ReportIsHonest

LEMMA PassKeepsRInv == RInv /\ Pass => RInv'
<1> SUFFICES ASSUME RInv, Pass PROVE RInv'
  OBVIOUS
<1>1. request' = request
  BY DEF Pass
<1>2. stage' \in Nat
  BY DEF Pass, RInv
<1>3. CASE request.method # "research"
  BY <1>1, <1>2, <1>3 DEF RInv, ReportIsHonest
<1>4. CASE request.method = "research"
  <2> DEFINE names == <<"kernel", "counts", "arrays", "seeds", "start", "common", "own">>
             layer == LayerOf(names[stage])
  <2>1. Layers = names /\ stage \in 1 .. 7
    BY <1>4 DEF Layers, Pass
  <2>2. /\ stage = 1 => layer = <<Check(request.kernel \notin Kernels, "invalid")>>
        /\ stage = 2 => layer = Counts
        /\ stage = 3 => layer = Arrays
        /\ stage = 4 => layer = SeedShape
        /\ stage = 5 => layer = StartNeedsSeeds
        /\ stage = 6 => layer = Common
        /\ stage = 7 => layer = Own
    BY <2>1 DEF LayerOf
  <2>3. stage > 1 => request.kernel \in Kernels
    BY <1>4 DEF RInv, Passed
  <2>4. layer \in Seq(Checks)
    <3>1. <<Check(request.kernel \notin Kernels, "invalid")>> \in Seq(Checks)
      BY DEF Check, Checks, Refusals
    <3>2. stage = 7 => Own \in Seq(Checks)
      BY <2>3, OwnChecks
    <3> HIDE DEF layer
    <3>3. \/ layer = <<Check(request.kernel \notin Kernels, "invalid")>>
          \/ layer \in {Counts, Arrays, SeedShape, StartNeedsSeeds, Common}
          \/ stage = 7 /\ layer = Own
      BY <2>1, <2>2
    <3> QED
      BY <3>1, <3>2, <3>3, LayersAreChecks, Zenon
  <2> HIDE DEF layer
  <2>5. /\ Verdict(layer) = "pass" => Passes(layer)
        /\ Verdict(layer) \in Refusals \cup {"pass"}
    BY <2>4, VerdictOfLayer
  <2>6. \/ Verdict(layer) = "pass" /\ stage' = stage + 1 /\ report' = report
        \/ Verdict(layer) # "pass" /\ stage' = 0 /\ report' = [answer |-> Verdict(layer)]
    BY <2>1 DEF Pass, layer
  <2>7. CASE Verdict(layer) = "pass"
    <3>1. stage' = stage + 1 /\ report' = report /\ Passes(layer)
      BY <2>5, <2>6, <2>7
    <3>2. ASSUME stage = 1 PROVE request.kernel \in Kernels
      <4>1. Passes(<<Check(request.kernel \notin Kernels, "invalid")>>)
        BY <2>2, <3>1, <3>2
      <4> QED
        BY <4>1, PassesOne
    <3>3. ASSUME stage = 5, request.start # "none" PROVE Seeded
      <4>1. Passes(<<Check(request.start # "none" /\ ~Seeded, "invalid")>>)
        BY <2>2, <3>1, <3>3 DEF StartNeedsSeeds
      <4> QED
        BY <3>3, <4>1, PassesOne
    <3>4. ASSUME stage = 7
          PROVE  KernelFits
      <4>1. Passes(Own) /\ request.kernel \in Kernels
        BY <2>2, <2>3, <3>1, <3>4
      <4> QED
        BY <4>1, OwnChecks
    <3>5. Passed
      BY <1>4 DEF RInv
    <3>6. Passed'
      <4>1. (KernelFits' <=> KernelFits) /\ (Seeded' <=> Seeded)
        BY <1>1 DEF KernelFits, Arm, FitsUnit, Seeded, Has
      <4> QED
        BY <1>1, <2>1, <3>1, <3>2, <3>3, <3>4, <3>5, <4>1 DEF Passed
    <3>7. ReportIsHonest'
      BY <1>1, <3>1 DEF RInv, ReportIsHonest, FitsUnit, Has
    <3> QED
      BY <1>1, <1>2, <2>1, <3>1, <3>6, <3>7 DEF RInv
  <2>8. CASE Verdict(layer) # "pass"
    <3>1. stage' = 0 /\ report'.answer \in Refusals
      BY <2>5, <2>6, <2>8
    <3>2. report'.answer # "samples"
      BY <3>1 DEF Refusals
    <3>3. ReportIsHonest'
      BY <3>2 DEF ReportIsHonest
    <3>4. Passed'
      BY <3>1 DEF Passed
    <3> QED
      BY <3>1, <3>2, <3>3, <3>4 DEF RInv
  <2> QED
    BY <2>7, <2>8
<1> QED
  BY <1>3, <1>4

LEMMA FinishKeepsRInv == RInv /\ Finish => RInv'
<1> SUFFICES ASSUME RInv, Finish PROVE RInv'
  OBVIOUS
<1>1. /\ request' = request /\ stage' = stage /\ report' = Report
      /\ stage > Len(Layers)
  BY DEF Finish, AllPassed
<1>2. CASE request.method # "research"
  BY <1>1, <1>2 DEF RInv, ReportIsHonest
<1>3. CASE request.method = "research"
  <2>1. stage > 7
    BY <1>1, <1>3 DEF Layers
  <2>2. /\ request.kernel \in Kernels
        /\ request.start # "none" => Seeded
        /\ KernelFits
    BY <1>3, <2>1 DEF RInv, Passed
  <2>3. /\ report'.observed = Arm /\ report'.seeded = request.rows
        /\ report'.startUsed = (Seeded /\ request.start # "none")
    BY <1>1, <1>3 DEF Report, Ran
  <2>4. IF request.kernel = "cpu-msa" THEN Arm \in {"cpu-msa-unit", "cpu-msa-f64"}
                                      ELSE Arm = request.kernel
    BY DEF Arm
  <2>5. ReportIsHonest'
    BY <1>1, <2>2, <2>3, <2>4 DEF ReportIsHonest, KernelFits, Seeded, FitsUnit, Has
  <2>6. Passed'
    BY <1>1, <1>3 DEF RInv, Passed, KernelFits, Arm, FitsUnit, Seeded, Has
  <2> QED
    BY <1>1, <2>1, <2>5, <2>6 DEF RInv
<1> QED
  BY <1>2, <1>3

LEMMA RInvInductive == ResearchSpec => []RInv
<1>1. ResearchInit => RInv
  BY DEF ResearchInit, RInv, Passed, ReportIsHonest
<1>2. ASSUME RInv, UNCHANGED researchVars PROVE RInv'
  BY <1>2 DEF RInv, researchVars, Passed, KernelFits, ReportIsHonest, Arm, FitsUnit, Seeded, Has
<1>3. RInv /\ [ResearchNext]_<<researchVars, floatVars>> => RInv'
  BY <1>2, PassKeepsRInv, FinishKeepsRInv DEF ResearchNext, EnterFloat, RunFloat, Answered
<1> QED
  BY <1>1, <1>3, PTL DEF ResearchSpec

\* Whatever is asked, samples of a research call come from the kernel that was
\* named, which can represent the model, and no seed row or start beta of the
\* caller is ignored (research.rs 4-14, 72-101).
THEOREM SamplesAreOfTheNamedKernel == ResearchSpec => []ReportIsHonest
<1>1. RInv => ReportIsHonest
  BY DEF RInv
<1> QED
  BY <1>1, RInvInductive, PTL

-----------------------------------------------------------------------------
(* The packed kernel for real couplings.                                   *)

LEMMA SumOfNumbers ==
  ASSUME NEW f, IsFiniteSet(DOMAIN f), \A x \in DOMAIN f : f[x] \in Int
  PROVE  SumFunction(f) \in Int
<1> DEFINE S == DOMAIN f
<1>1. SumFunction(f) = SumFunctionOnSet(f, S)
  BY Zenon DEF SumFunction
<1>2. SumFunctionOnSet(f, S) \in Int
  BY SumType, Zenon
<1> QED
  BY <1>1, <1>2, Zenon

\* The shorter run is what the longer one has in its leading words.
LeadingWords ==
  [state |-> [w \in WordsFor(ShortReads) |-> [l \in WordLanes |-> LaneOf(spin[w], l)]],
   stream |-> [w \in WordsFor(ShortReads) |-> stream[w]]]

FInv ==
  /\ model \in Models
  /\ turn \in [sweep : Nat, class : DOMAIN model.classes, index : Nat, word : Nat]
  /\ turn.index \in DOMAIN model.classes[turn.class]
  /\ spin = <<>> => turn = FirstVisit /\ out = <<>>
  /\ spin # <<>> =>
       /\ spin \in [WordsFor(LongReads) -> [Sites -> SUBSET WordLanes]]
       /\ DOMAIN stream = WordsFor(LongReads)
       /\ turn.word \in WordsFor(LongReads)
       /\ short = LeadingWords
  /\ LeadingReadsAgree

LEMMA WordsOfTheShortRun ==
  /\ WordsFor(ShortReads) \subseteq WordsFor(LongReads)
  /\ \A r \in 1 .. ShortReads : /\ (r - 1) \div NumLanes \in WordsFor(ShortReads)
                                /\ (r - 1) % NumLanes \in WordLanes
                                /\ r \in 1 .. LongReads
<1>1. /\ NumLanes \in Nat /\ NumLanes > 0
      /\ LongReads \in Nat /\ ShortReads \in Nat /\ ShortReads <= LongReads
  BY ReadsAssumption
<1>2. (ShortReads + NumLanes - 1) \div NumLanes <= (LongReads + NumLanes - 1) \div NumLanes
  BY <1>1
<1>3. /\ (ShortReads + NumLanes - 1) \div NumLanes \in Int
      /\ (LongReads + NumLanes - 1) \div NumLanes \in Int
  BY <1>1
<1>4. WordsFor(ShortReads) \subseteq WordsFor(LongReads)
  BY <1>2, <1>3 DEF WordsFor
<1>5. ASSUME NEW r \in 1 .. ShortReads
      PROVE  /\ (r - 1) \div NumLanes \in WordsFor(ShortReads)
             /\ (r - 1) % NumLanes \in WordLanes
             /\ r \in 1 .. LongReads
  <2>1. /\ (r - 1) \div NumLanes \in Int /\ 0 <= (r - 1) \div NumLanes
        /\ (r - 1) \div NumLanes <= (ShortReads + NumLanes - 1) \div NumLanes - 1
    BY <1>1
  <2>2. (r - 1) % NumLanes \in 0 .. NumLanes - 1
    BY <1>1
  <2> QED
    BY <1>1, <1>3, <2>1, <2>2 DEF WordsFor, WordLanes
<1> QED
  BY <1>4, <1>5

\* The words of the neighbours hold the signs of the scalar walk.
LEMMA SameField ==
  ASSUME model \in Models, NEW w, NEW l, NEW v \in Sites,
         NEW s, s = LaneOf(spin[w], l), DOMAIN spin[w] = Sites
  PROVE  LocalField(w, v, l) = Scalar(s, v) /\ Scalar(s, v) \in Int
<1> DEFINE f == [k \in Touching(v) |->
                   IF l \in spin[w][Beyond(k, v)] THEN -model.bonds[k].j ELSE model.bonds[k].j]
           g == [k \in Touching(v) |-> model.bonds[k].j * s[Beyond(k, v)]]
<1> DEFINE Bond == [u : Sites, v : Sites, j : Int]
<1>0. model.bonds \in Seq(Bond)
  BY ModelsAssumption, Zenon DEF Sites
<1>1. ASSUME NEW k \in Touching(v) PROVE f[k] = g[k] /\ g[k] \in Int
  <2>1. k \in DOMAIN model.bonds
    BY DEF Touching
  <2>2. model.bonds[k].u \in Sites /\ model.bonds[k].v \in Sites /\ model.bonds[k].j \in Int
    <3>1. model.bonds[k] \in Bond
      <4> HIDE DEF Bond
      <4> QED
        BY <1>0, <2>1
    <3> QED
      BY <3>1
  <2>3. Beyond(k, v) \in Sites
    BY <2>2 DEF Beyond
  <2>4. s[Beyond(k, v)] = IF l \in spin[w][Beyond(k, v)] THEN -1 ELSE 1
    BY <2>3 DEF LaneOf
  <2> QED
    BY <2>2, <2>4
<1>2. f = g
  BY <1>1, Zenon
<1>4. SumFunction(g) \in Int
  <2>1. IsFiniteSet(DOMAIN model.bonds)
    <3> HIDE DEF Bond
    <3>1. Len(model.bonds) \in Nat /\ DOMAIN model.bonds = 1 .. Len(model.bonds)
      BY <1>0
    <3>2. IsFiniteSet(1 .. Len(model.bonds))
      BY <3>1, FS_Interval
    <3> QED
      BY <3>1, <3>2, Zenon
  <2>2. IsFiniteSet(Touching(v))
    BY <2>1, FS_Subset, Zenon DEF Touching
  <2>3. \A k \in Touching(v) : g[k] \in Int
    BY <1>1
  <2>4. DOMAIN g = Touching(v)
    OBVIOUS
  <2> HIDE DEF g
  <2> QED
    BY <2>2, <2>3, <2>4, SumOfNumbers
<1>5. model.h[v] \in Int
  BY ModelsAssumption DEF Sites
<1>3. LocalField(w, v, l) = model.h[v] + SumFunction(f) /\ Scalar(s, v) = model.h[v] + SumFunction(g)
  BY Zenon DEF LocalField, Scalar
<1> HIDE DEF f, g
<1>6. model.h[v] + SumFunction(g) \in Int
  BY <1>4, <1>5
<1> QED
  BY <1>2, <1>3, <1>6, Zenon

LEMMA SameClimb ==
  ASSUME model \in Models, short = LeadingWords, spin \in [WordsFor(LongReads) -> [Sites -> SUBSET WordLanes]],
         NEW w \in WordsFor(ShortReads), NEW l \in WordLanes, NEW v \in Sites
  PROVE  /\ Climb(w, v, l) = ShortClimb(w, v, l)
         /\ short.state[w][l] = LaneOf(spin[w], l)
         /\ short.stream[w] = stream[w]
         /\ Climb(w, v, l) \in Int
<1>1. w \in WordsFor(LongReads)
  BY WordsOfTheShortRun
<1>2. short.state[w][l] = LaneOf(spin[w], l) /\ short.stream[w] = stream[w]
  BY DEF LeadingWords
<1>3. spin[w] \in [Sites -> SUBSET WordLanes]
  BY <1>1
<1>4. /\ LocalField(w, v, l) = Scalar(short.state[w][l], v)
      /\ Scalar(short.state[w][l], v) \in Int
  <2>1. DOMAIN spin[w] = Sites
    BY <1>3
  <2> QED
    BY <1>2, <2>1, SameField
<1>5. short.state[w][l][v] = IF l \in spin[w][v] THEN -1 ELSE 1
  BY <1>2, <1>3 DEF LaneOf
<1> DEFINE F == LocalField(w, v, l)
<1>6. Climb(w, v, l) = IF l \in spin[w][v] THEN 2 * F ELSE -2 * F
  BY Zenon DEF Climb
<1>7. ShortClimb(w, v, l) = -2 * (IF l \in spin[w][v] THEN -1 ELSE 1) * F
  BY <1>4, <1>5 DEF ShortClimb
<1>9. F \in Int
  BY <1>4
<1> HIDE DEF F
<1>8. Climb(w, v, l) = ShortClimb(w, v, l)
  BY <1>6, <1>7, <1>9
<1>10. Climb(w, v, l) \in Int
  BY <1>6, <1>9
<1> QED
  BY <1>2, <1>8, <1>10

\* The shorter run draws and flips what the word does.
Flipped(w, v) ==
  [l \in WordLanes |-> IF l \in FlipMask(w, v) THEN [short.state[w][l] EXCEPT ![v] = -@]
                                           ELSE short.state[w][l]]

LEMMA SameFlips ==
  ASSUME model \in Models, short = LeadingWords, spin \in [WordsFor(LongReads) -> [Sites -> SUBSET WordLanes]],
         NEW w \in WordsFor(ShortReads), NEW v \in Sites
  PROVE  ShortVisit(w, v) =
           [state |-> [short.state EXCEPT ![w] = Flipped(w, v)],
            stream |-> [short.stream EXCEPT ![w] =
                          SubSeq(@, Cardinality(Drawing(w, v)) + 1, Len(@))]]
<1> DEFINE drawing == {l \in WordLanes : ShortClimb(w, v, l) > 0}
           Takes(l) == \/ ShortClimb(w, v, l) <= 0
                       \/ ShortClimb(w, v, l)
                            <= short.stream[w][Cardinality({k \in drawing : k <= l})]
<1>1. \A l \in WordLanes : ShortClimb(w, v, l) = Climb(w, v, l)
  BY SameClimb
<1>2. short.stream[w] = stream[w]
  BY DEF LeadingWords
<1>3. drawing = Drawing(w, v)
  BY <1>1, Zenon DEF Drawing
<1>4. ASSUME NEW l \in WordLanes PROVE Takes(l) <=> l \in FlipMask(w, v)
  <2>1. short.stream[w][Cardinality({k \in drawing : k <= l})] = Draw(w, v, l)
    BY <1>2, <1>3, Zenon DEF Draw, StreamOf
  <2>2. ShortClimb(w, v, l) = Climb(w, v, l) /\ Climb(w, v, l) \in Int
    BY SameClimb
  <2>3. l \in Drawing(w, v) <=> Climb(w, v, l) > 0
    BY DEF Drawing
  <2>4. Takes(l) <=> Climb(w, v, l) <= 0 \/ Climb(w, v, l) <= Draw(w, v, l)
    BY <2>1, <2>2, Zenon
  <2>5. l \in FlipMask(w, v) <=>
          Climb(w, v, l) <= 0 \/ (l \in Drawing(w, v) /\ Climb(w, v, l) <= Draw(w, v, l))
    BY Zenon DEF FlipMask
  <2> HIDE DEF Takes
  <2> QED
    BY <2>2, <2>3, <2>4, <2>5
<1> DEFINE a == [l \in WordLanes |-> IF Takes(l) THEN [short.state[w][l] EXCEPT ![v] = -@] ELSE short.state[w][l]]
<1>5. ShortVisit(w, v) =
        [state |-> [short.state EXCEPT ![w] = a],
         stream |-> [short.stream EXCEPT ![w] = SubSeq(@, Cardinality(drawing) + 1, Len(@))]]
  BY Zenon DEF ShortVisit
<1> HIDE DEF Takes
<1>6. a = Flipped(w, v)
  BY <1>4, Zenon DEF Flipped
<1> HIDE DEF a, drawing
<1> QED
  BY <1>3, <1>5, <1>6, Zenon

\* Flipping the word flips the leading walk.
LEMMA LaneFlips ==
  ASSUME NEW word \in [Sites -> SUBSET WordLanes], NEW v \in Sites, NEW mask \in SUBSET WordLanes, NEW l \in WordLanes
  PROVE  LaneOf([word EXCEPT ![v] = (@ \ mask) \cup (mask \ @)], l) =
           IF l \in mask THEN [LaneOf(word, l) EXCEPT ![v] = -@] ELSE LaneOf(word, l)
<1> DEFINE next == [word EXCEPT ![v] = (@ \ mask) \cup (mask \ @)]
<1>1. /\ DOMAIN next = Sites /\ DOMAIN word = Sites
      /\ \A u \in Sites : u # v => next[u] = word[u]
      /\ l \in next[v] <=> (l \in word[v] <=> l \notin mask)
  OBVIOUS
<1> HIDE DEF next
<1>2. LaneOf(next, l) = [u \in Sites |-> IF l \in next[u] THEN -1 ELSE 1]
  BY <1>1, Zenon DEF LaneOf
<1>3. LaneOf(word, l) = [u \in Sites |-> IF l \in word[u] THEN -1 ELSE 1]
  BY <1>1, Zenon DEF LaneOf
<1>4. ASSUME l \in mask
      PROVE  LaneOf(next, l) = [LaneOf(word, l) EXCEPT ![v] = -@]
  BY <1>1, <1>2, <1>3, <1>4
<1>5. ASSUME l \notin mask
      PROVE  LaneOf(next, l) = LaneOf(word, l)
  BY <1>1, <1>2, <1>3, <1>5
<1> QED
  BY <1>4, <1>5, Zenon DEF next

LEMMA VisitKeepsTheReads ==
  ASSUME FInv, spin # <<>>, Visit
  PROVE  /\ spin' \in [WordsFor(LongReads) -> [Sites -> SUBSET WordLanes]]
         /\ DOMAIN stream' = WordsFor(LongReads)
         /\ short' = LeadingWords'
         /\ spin' # <<>>
<1> DEFINE w == turn.word
           v == model.classes[turn.class][turn.index]
           mask == FlipMask(w, v)
           rest == SubSeq(stream[w], Cardinality(Drawing(w, v)) + 1, Len(stream[w]))
<1>1. /\ model \in Models /\ short = LeadingWords
      /\ spin \in [WordsFor(LongReads) -> [Sites -> SUBSET WordLanes]]
      /\ DOMAIN stream = WordsFor(LongReads)
      /\ w \in WordsFor(LongReads)
  BY DEF FInv
<1>2. v \in Sites
  <2>1. model.classes \in Seq(Seq(Sites) \ {<<>>})
    BY <1>1, ModelsAssumption DEF Sites
  <2>2. turn.class \in DOMAIN model.classes /\ turn.index \in DOMAIN model.classes[turn.class]
    BY DEF FInv
  <2>3. model.classes[turn.class] \in Seq(Sites)
    BY <2>1, <2>2
  <2> QED
    BY <2>2, <2>3
<1>3. mask \in SUBSET WordLanes
  BY DEF FlipMask
<1>4. /\ spin' = [spin EXCEPT ![w] = [spin[w] EXCEPT ![v] = (@ \ mask) \cup (mask \ @)]]
      /\ stream' = [stream EXCEPT ![w] = rest]
      /\ short' = IF w \in WordsFor(ShortReads) THEN ShortVisit(w, v) ELSE short
  BY Zenon DEF Visit, StreamOf
<1> HIDE DEF w, v, mask, rest
<1>5. /\ spin' \in [WordsFor(LongReads) -> [Sites -> SUBSET WordLanes]]
      /\ DOMAIN stream' = WordsFor(LongReads)
  <2>1. spin[w] \in [Sites -> SUBSET WordLanes]
    BY <1>1
  <2>2. (spin[w][v] \ mask) \cup (mask \ spin[w][v]) \in SUBSET WordLanes
    BY <1>2, <1>3, <2>1
  <2>3. [spin[w] EXCEPT ![v] = (@ \ mask) \cup (mask \ @)] \in [Sites -> SUBSET WordLanes]
    BY <2>1, <2>2
  <2> QED
    BY <1>1, <1>4, <2>3, Zenon
<1>6. spin' # <<>>
  <2>1. w \in DOMAIN spin'
    BY <1>1, <1>5
  <2> QED
    BY <2>1
<1>7. LeadingWords' = [state |-> [x \in WordsFor(ShortReads) |-> [l \in WordLanes |-> LaneOf(spin'[x], l)]],
                       stream |-> [x \in WordsFor(ShortReads) |-> stream'[x]]]
  BY Zenon DEF LeadingWords, LaneOf, WordsFor, WordLanes
<1>8. /\ short.state = [x \in WordsFor(ShortReads) |-> [l \in WordLanes |-> LaneOf(spin[x], l)]]
      /\ short.stream = [x \in WordsFor(ShortReads) |-> stream[x]]
      /\ short = [state |-> short.state, stream |-> short.stream]
  BY <1>1 DEF LeadingWords
<1>9. \A x \in WordsFor(LongReads) : x # w => spin'[x] = spin[x] /\ stream'[x] = stream[x]
  BY <1>1, <1>4
<1>10. WordsFor(ShortReads) \subseteq WordsFor(LongReads)
  BY WordsOfTheShortRun
<1>11. CASE w \notin WordsFor(ShortReads)
  <2>1. short' = short
    BY <1>4, <1>11
  <2>2. \A x \in WordsFor(ShortReads) : spin'[x] = spin[x] /\ stream'[x] = stream[x]
    BY <1>9, <1>10, <1>11
  <2>3. LeadingWords' = LeadingWords
    BY <1>7, <2>2, Zenon DEF LeadingWords
  <2> QED
    BY <1>1, <1>5, <1>6, <2>1, <2>3
<1>12. CASE w \in WordsFor(ShortReads)
  <2> DEFINE flipped == Flipped(w, v)
  <2>1. short' = [state |-> [short.state EXCEPT ![w] = flipped],
                  stream |-> [short.stream EXCEPT ![w] = SubSeq(@, Cardinality(Drawing(w, v)) + 1, Len(@))]]
    <3>1. short' = ShortVisit(w, v)
      BY <1>4, <1>12
    <3> QED
      BY <1>1, <1>2, <1>12, <3>1, SameFlips
  <2>2. spin'[w] = [spin[w] EXCEPT ![v] = (@ \ mask) \cup (mask \ @)] /\ spin[w] \in [Sites -> SUBSET WordLanes]
    BY <1>1, <1>4
  <2>3. ASSUME NEW l \in WordLanes PROVE flipped[l] = LaneOf(spin'[w], l)
    <3>1. short.state[w][l] = LaneOf(spin[w], l)
      BY <1>8, <1>12
    <3>2. flipped[l] = IF l \in mask THEN [LaneOf(spin[w], l) EXCEPT ![v] = -@] ELSE LaneOf(spin[w], l)
      BY <3>1, Zenon DEF Flipped, mask
    <3> QED
      BY <1>2, <1>3, <2>2, <3>2, LaneFlips
  <2>4. flipped = [l \in WordLanes |-> LaneOf(spin'[w], l)]
    BY <2>3, Zenon DEF Flipped
  <2>5. stream'[w] = SubSeq(short.stream[w], Cardinality(Drawing(w, v)) + 1, Len(short.stream[w]))
    BY <1>1, <1>4, <1>8, <1>12 DEF rest
  <2> HIDE DEF flipped
  <2>6. [short.state EXCEPT ![w] = flipped]
          = [x \in WordsFor(ShortReads) |-> [l \in WordLanes |-> LaneOf(spin'[x], l)]]
    <3>1. ASSUME NEW x \in WordsFor(ShortReads)
          PROVE  [short.state EXCEPT ![w] = flipped][x] = [l \in WordLanes |-> LaneOf(spin'[x], l)]
      <4>1. CASE x = w
        BY <1>8, <1>12, <2>4, <4>1, Zenon
      <4>2. CASE x # w
        <5>1. [short.state EXCEPT ![w] = flipped][x] = short.state[x]
          BY <1>8, <4>2
        <5>2. short.state[x] = [l \in WordLanes |-> LaneOf(spin[x], l)] /\ spin'[x] = spin[x]
          BY <1>8, <1>9, <1>10, <4>2
        <5> QED
          BY <5>1, <5>2, Zenon
      <4> QED
        BY <4>1, <4>2
    <3>2. DOMAIN [short.state EXCEPT ![w] = flipped] = WordsFor(ShortReads)
      BY <1>8, Zenon
    <3> QED
      BY <1>8, <3>1, <3>2, Zenon
  <2>7. [short.stream EXCEPT ![w] = SubSeq(@, Cardinality(Drawing(w, v)) + 1, Len(@))]
          = [x \in WordsFor(ShortReads) |-> stream'[x]]
    BY <1>8, <1>9, <1>10, <1>12, <2>5
  <2> QED
    BY <1>5, <1>6, <1>7, <2>1, <2>6, <2>7, Zenon
<1> QED
  BY <1>11, <1>12

LEMMA NextVisitIsOne ==
  ASSUME FInv, spin # <<>>
  PROVE  /\ NextVisit \in [sweep : Nat, class : DOMAIN model.classes, index : Nat, word : Nat]
         /\ NextVisit.index \in DOMAIN model.classes[NextVisit.class]
         /\ NextVisit.word \in WordsFor(LongReads)
<1>1. /\ model \in Models
      /\ turn \in [sweep : Nat, class : DOMAIN model.classes, index : Nat, word : Nat]
      /\ turn.index \in DOMAIN model.classes[turn.class]
      /\ turn.word \in WordsFor(LongReads)
      /\ Words = WordsFor(LongReads)
  BY DEF FInv, Words
<1>2. /\ model.classes \in Seq(Seq(Sites) \ {<<>>})
      /\ model.classes # <<>>
  BY <1>1, ModelsAssumption DEF Sites
<1>3. \A c \in DOMAIN model.classes : 1 \in DOMAIN model.classes[c] /\ model.classes[c] \in Seq(Sites)
  BY <1>2
<1>4. 0 \in WordsFor(LongReads)
  BY <1>1, ReadsAssumption DEF WordsFor
<1>5. CASE turn.word + 1 \in Words
  <2>1. NextVisit = [turn EXCEPT !.word = @ + 1]
    BY <1>5 DEF NextVisit
  <2> QED
    BY <1>1, <1>5, <2>1
<1>6. CASE turn.word + 1 \notin Words /\ turn.index < Len(model.classes[turn.class])
  <2>1. NextVisit = [turn EXCEPT !.word = 0, !.index = @ + 1]
    BY <1>6 DEF NextVisit
  <2>2. turn.index + 1 \in DOMAIN model.classes[turn.class]
    BY <1>1, <1>3, <1>6
  <2>3. NextVisit = [sweep |-> turn.sweep, class |-> turn.class, index |-> turn.index + 1, word |-> 0]
    BY <1>1, <2>1
  <2> QED
    BY <1>1, <1>4, <2>2, <2>3
<1>7. CASE /\ turn.word + 1 \notin Words /\ ~(turn.index < Len(model.classes[turn.class]))
           /\ turn.class < Len(model.classes)
  <2>1. NextVisit = [FirstVisit EXCEPT !.sweep = turn.sweep, !.class = turn.class + 1]
    BY <1>7 DEF NextVisit
  <2>2. turn.class + 1 \in DOMAIN model.classes
    BY <1>1, <1>2, <1>7
  <2>3. NextVisit = [sweep |-> turn.sweep, class |-> turn.class + 1, index |-> 1, word |-> 0]
    BY <2>1 DEF FirstVisit
  <2> QED
    BY <1>1, <1>3, <1>4, <2>2, <2>3
<1>8. CASE /\ turn.word + 1 \notin Words /\ ~(turn.index < Len(model.classes[turn.class]))
           /\ ~(turn.class < Len(model.classes))
  <2>1. NextVisit = [FirstVisit EXCEPT !.sweep = turn.sweep + 1]
    BY <1>8 DEF NextVisit
  <2>2. 1 \in DOMAIN model.classes
    BY <1>2
  <2>3. NextVisit = [sweep |-> turn.sweep + 1, class |-> 1, index |-> 1, word |-> 0]
    BY <2>1 DEF FirstVisit
  <2> QED
    BY <1>1, <1>3, <1>4, <2>2, <2>3
<1> QED
  BY <1>5, <1>6, <1>7, <1>8

LEMMA EnterKeepsFInv ==
  ASSUME FInv, spin = <<>>, NEW rows, Enter(rows)
  PROVE  FInv'
<1>1. model' = model /\ turn' = turn /\ out' = <<>> /\ turn = FirstVisit
  BY DEF FInv, Enter
<1>2. spin' \in [WordsFor(LongReads) -> [Sites -> SUBSET WordLanes]]
  <2>1. PICK draw \in [WordsFor(LongReads) -> RandomWords] :
          spin' = [w \in WordsFor(LongReads) |-> SeededWord(w, draw[w], rows)]
    BY DEF Enter
  <2>2. \A w \in WordsFor(LongReads) : SeededWord(w, draw[w], rows) \in [Sites -> SUBSET WordLanes]
    BY DEF SeededWord
  <2> QED
    BY <2>1, <2>2
<1>3. /\ DOMAIN stream' = WordsFor(LongReads)
      /\ short' = [state |-> [w \in WordsFor(ShortReads) |-> [l \in WordLanes |-> LaneOf(spin'[w], l)]],
                   stream |-> [w \in WordsFor(ShortReads) |-> stream'[w]]]
  BY DEF Enter
<1>4. short' = LeadingWords'
  BY <1>3, Zenon DEF LeadingWords, LaneOf, WordsFor, WordLanes
<1>5. spin' # <<>> => turn.word \in WordsFor(LongReads)
  <2>1. ASSUME spin' # <<>> PROVE WordsFor(LongReads) # {}
    BY <1>2, <2>1
  <2>2. ASSUME WordsFor(LongReads) # {} PROVE 0 \in WordsFor(LongReads)
    BY <2>2, ReadsAssumption DEF WordsFor
  <2> QED
    BY <1>1, <2>1, <2>2 DEF FirstVisit
<1>6. LeadingReadsAgree'
  BY <1>1 DEF LeadingReadsAgree
<1>7. Sites' = Sites
  BY <1>1 DEF Sites
<1>8. /\ model' \in Models
      /\ turn' \in [sweep : Nat, class : DOMAIN model'.classes, index : Nat, word : Nat]
      /\ turn'.index \in DOMAIN model'.classes[turn'.class]
  BY <1>1, Zenon DEF FInv
<1>9. WordsFor(LongReads)' = WordsFor(LongReads) /\ WordLanes' = WordLanes
  BY DEF WordsFor, WordLanes
<1> QED
  BY <1>1, <1>2, <1>3, <1>4, <1>5, <1>6, <1>7, <1>8, <1>9 DEF FInv

LEMMA VisitKeepsFInv ==
  ASSUME FInv, spin # <<>>, out = <<>>, Visit
  PROVE  FInv'
<1>1. model' = model /\ out' = out /\ turn' = NextVisit
  BY DEF Visit
<1>2. /\ spin' \in [WordsFor(LongReads) -> [Sites -> SUBSET WordLanes]]
      /\ DOMAIN stream' = WordsFor(LongReads)
      /\ short' = LeadingWords'
      /\ spin' # <<>>
  BY VisitKeepsTheReads
<1>3. /\ turn' \in [sweep : Nat, class : DOMAIN model'.classes, index : Nat, word : Nat]
      /\ turn'.index \in DOMAIN model'.classes[turn'.class]
      /\ turn'.word \in WordsFor(LongReads)
  BY <1>1, NextVisitIsOne
<1>4. LeadingReadsAgree'
  BY <1>1 DEF LeadingReadsAgree
<1>5. Sites' = Sites /\ model' \in Models
  BY <1>1 DEF Sites, FInv
<1>6. WordsFor(LongReads)' = WordsFor(LongReads) /\ WordLanes' = WordLanes
  BY DEF WordsFor, WordLanes
<1> QED
  BY <1>1, <1>2, <1>3, <1>4, <1>5, <1>6 DEF FInv

LEMMA UnpackKeepsFInv ==
  ASSUME FInv, spin # <<>>, Unpack
  PROVE  FInv'
<1>1. UNCHANGED <<model, spin, stream, turn, short>>
  BY DEF Unpack
<1>2. ASSUME NEW r \in 1 .. ShortReads
      PROVE  out'[r].spins = short.state[(r - 1) \div NumLanes][(r - 1) % NumLanes]
  <2>1. /\ (r - 1) \div NumLanes \in WordsFor(ShortReads) /\ (r - 1) % NumLanes \in WordLanes
        /\ r \in 1 .. LongReads
    BY WordsOfTheShortRun
  <2>2. out'[r].spins = LaneOf(spin[(r - 1) \div NumLanes], (r - 1) % NumLanes)
    BY <2>1 DEF Unpack
  <2>3. short = LeadingWords
    BY DEF FInv
  <2> QED
    BY <2>1, <2>2, <2>3 DEF LeadingWords
<1>3. LeadingReadsAgree'
  BY <1>1, <1>2 DEF LeadingReadsAgree
<1>4. LeadingWords' = LeadingWords
  BY <1>1 DEF LeadingWords, LaneOf, WordsFor, WordLanes
<1> QED
  BY <1>1, <1>3, <1>4 DEF FInv, Sites, WordsFor, WordLanes

LEMMA FInvInductive == ResearchSpec => []FInv
<1>1. ResearchInit => FInv
  <2> SUFFICES ASSUME ResearchInit PROVE FInv
    OBVIOUS
  <2>1. model \in Models /\ spin = <<>> /\ turn = FirstVisit /\ out = <<>>
    BY DEF ResearchInit, FloatInit
  <2>2. /\ model.classes \in Seq(Seq(Sites) \ {<<>>})
        /\ model.classes # <<>>
    BY <2>1, ModelsAssumption DEF Sites
  <2>3. 1 \in DOMAIN model.classes /\ 1 \in DOMAIN model.classes[1]
    BY <2>2
  <2> QED
    BY <2>1, <2>3 DEF FInv, FirstVisit, LeadingReadsAgree
<1>2. ASSUME FInv, UNCHANGED floatVars PROVE FInv'
  BY <1>2 DEF FInv, floatVars, LeadingWords, LeadingReadsAgree, Sites, WordsFor, WordLanes, LaneOf
<1>3. FInv /\ [ResearchNext]_<<researchVars, floatVars>> => FInv'
  BY <1>2, EnterKeepsFInv, VisitKeepsFInv, UnpackKeepsFInv
  DEF ResearchNext, Pass, EnterFloat, RunFloat, FloatStep, Finish, Answered
<1> QED
  BY <1>1, <1>3, PTL DEF ResearchSpec

\* For every model, seed and number of lanes, the leading reads of a run are
\* the reads of a shorter run with the same seed: the lanes of a word, the
\* words of a node and the reads beyond the shorter run do not disturb each
\* other (sa_msc_f64.rs 28-38).
THEOREM ReadsDependOnTheirWord == ResearchSpec => []LeadingReadsAgree
<1>1. FInv => LeadingReadsAgree
  BY DEF FInv
<1> QED
  BY <1>1, FInvInductive, PTL

-----------------------------------------------------------------------------
(* Sets in the order of a relation.                                        *)

\* R orders the elements of S.
Orders(R, S) ==
  /\ \A x \in S : <<x, x>> \notin R
  /\ \A x, y, z \in S : <<x, y>> \in R /\ <<y, z>> \in R => <<x, z>> \in R
  /\ \A x, y \in S : x # y => <<x, y>> \in R \/ <<y, x>> \in R

RankIn(S, R) == [x \in S |-> Cardinality({y \in S : <<y, x>> \in R})]

InOrderOf(S, R) ==
  [i \in 1 .. Cardinality(S) |-> CHOOSE x \in S : Cardinality({y \in S : <<y, x>> \in R}) = i - 1]

LEMMA OneMore ==
  ASSUME NEW S, IsFiniteSet(S), NEW x, x \notin S
  PROVE  IsFiniteSet(S \cup {x}) /\ Cardinality(S \cup {x}) = Cardinality(S) + 1
<1>1. Cardinality(S \cup {x}) = IF x \in S THEN Cardinality(S) ELSE Cardinality(S) + 1
  BY FS_AddElement, Zenon
<1> QED
  BY <1>1, FS_AddElement

LEMMA RanksOfAnOrder ==
  ASSUME NEW S, IsFiniteSet(S), NEW R, Orders(R, S)
  PROVE  /\ RankIn(S, R) \in Bijection(S, 0 .. Cardinality(S) - 1)
         /\ \A x, y \in S : <<x, y>> \in R => RankIn(S, R)[x] < RankIn(S, R)[y]
<1> DEFINE Below(x) == {y \in S : <<y, x>> \in R}
           rank == RankIn(S, R)
           N == Cardinality(S)
<1>0. N \in Nat
  BY FS_CardinalityType
<1>a. \A x \in S : x \notin Below(x)
  BY DEF Orders
<1>b. \A x \in S : rank[x] = Cardinality(Below(x))
  BY DEF RankIn
<1> HIDE DEF rank
<1>1. ASSUME NEW x \in S
      PROVE  IsFiniteSet(Below(x)) /\ rank[x] \in Nat /\ rank[x] < N
  <2>1. IsFiniteSet(Below(x))
    <3>1. Below(x) \in SUBSET S
      OBVIOUS
    <3> QED
      BY <3>1, FS_Subset
  <2>2. IsFiniteSet(Below(x) \cup {x}) /\ Cardinality(Below(x) \cup {x}) = Cardinality(Below(x)) + 1
    BY <1>a, <2>1, OneMore
  <2>3. Below(x) \cup {x} \in SUBSET S
    OBVIOUS
  <2>4. Cardinality(Below(x) \cup {x}) <= N
    BY <2>3, FS_Subset
  <2>5. Cardinality(Below(x)) \in Nat
    BY <2>1, FS_CardinalityType
  <2> QED
    BY <1>b, <2>1, <2>2, <2>4, <2>5, <1>0
<1>2. ASSUME NEW x \in S, NEW y \in S, <<x, y>> \in R
      PROVE  rank[x] < rank[y]
  <2>1. IsFiniteSet(Below(x)) /\ IsFiniteSet(Below(y))
    BY <1>1
  <2>2. IsFiniteSet(Below(x) \cup {x}) /\ Cardinality(Below(x) \cup {x}) = Cardinality(Below(x)) + 1
    BY <1>a, <2>1, OneMore
  <2>3. Below(x) \cup {x} \in SUBSET Below(y)
    BY <1>2 DEF Orders
  <2>4. Cardinality(Below(x) \cup {x}) <= Cardinality(Below(y))
    BY <2>1, <2>3, FS_Subset
  <2>5. Cardinality(Below(x)) \in Nat /\ Cardinality(Below(y)) \in Nat
    BY <2>1, FS_CardinalityType
  <2> QED
    BY <1>b, <2>2, <2>4, <2>5
<1>3. rank \in [S -> 0 .. N - 1]
  <2>1. \A x \in S : rank[x] \in 0 .. N - 1
    <3> SUFFICES ASSUME NEW x \in S PROVE rank[x] \in 0 .. N - 1
      OBVIOUS
    <3>1. rank[x] \in Nat /\ rank[x] < N
      BY <1>1, Zenon
    <3> HIDE DEF N
    <3> QED
      BY <1>0, <3>1
  <2>2. rank = [x \in S |-> rank[x]]
    BY DEF rank, RankIn
  <2> QED
    BY <2>1, <2>2, Zenon
<1>4. \A x, y \in S : rank[x] = rank[y] => x = y
  <2> SUFFICES ASSUME NEW x \in S, NEW y \in S, rank[x] = rank[y], x # y
               PROVE  FALSE
    OBVIOUS
  <2>1. <<x, y>> \in R \/ <<y, x>> \in R
    BY DEF Orders
  <2>2. rank[x] < rank[y] \/ rank[y] < rank[x]
    BY <1>2, <2>1
  <2>3. rank[x] \in Nat
    BY <1>1, Zenon
  <2> QED
    BY <2>2, <2>3
<1>5. rank \in Injection(S, 0 .. N - 1)
  BY <1>3, <1>4 DEF Injection, IsInjective
<1>6. IsFiniteSet(0 .. N - 1) /\ Cardinality(0 .. N - 1) = N
  BY <1>0, FS_Interval
<1>7. rank \in Surjection(S, 0 .. N - 1)
  BY <1>5, <1>6, FS_Injection
<1>8. rank \in Bijection(S, 0 .. N - 1)
  BY <1>5, <1>7 DEF Bijection
<1> QED
  BY <1>2, <1>8 DEF rank

LEMMA OrderIsListed ==
  ASSUME NEW S, IsFiniteSet(S), NEW R, Orders(R, S)
  PROVE  LET s == InOrderOf(S, R) IN
         /\ s \in Bijection(1 .. Cardinality(S), S)
         /\ \A i, j \in 1 .. Cardinality(S) : i < j => <<s[i], s[j]>> \in R
<1> DEFINE rank == RankIn(S, R)
           s == InOrderOf(S, R)
           N == Cardinality(S)
<1>0. N \in Nat
  BY FS_CardinalityType
<1>1. /\ rank \in Bijection(S, 0 .. N - 1)
      /\ \A x, y \in S : <<x, y>> \in R => rank[x] < rank[y]
  BY RanksOfAnOrder
<1>b. \A x \in S : rank[x] = Cardinality({y \in S : <<y, x>> \in R})
  BY DEF RankIn
<1> HIDE DEF rank
<1>4. /\ rank \in [S -> 0 .. N - 1]
      /\ \A x, y \in S : rank[x] = rank[y] => x = y
      /\ \A i \in 0 .. N - 1 : \E x \in S : rank[x] = i
  BY <1>1 DEF Bijection, Injection, Surjection, IsInjective
<1>5. \A i \in 1 .. N : s[i] \in S /\ rank[s[i]] = i - 1
  <2> SUFFICES ASSUME NEW i \in 1 .. N
               PROVE  s[i] \in S /\ rank[s[i]] = i - 1
    OBVIOUS
  <2>1. \E x \in S : Cardinality({y \in S : <<y, x>> \in R}) = i - 1
    <3>1. i - 1 \in 0 .. N - 1
      BY <1>0
    <3>2. PICK x \in S : rank[x] = i - 1
      BY <1>4, <3>1
    <3> QED
      BY <1>b, <3>2
  <2>2. s[i] = CHOOSE x \in S : Cardinality({y \in S : <<y, x>> \in R}) = i - 1
    BY DEF InOrderOf
  <2>3. s[i] \in S /\ Cardinality({y \in S : <<y, s[i]>> \in R}) = i - 1
    BY <2>1, <2>2, Zenon
  <2> QED
    BY <1>b, <2>3
<1>7. s \in [1 .. N -> S]
  <2> DEFINE nth(i) == CHOOSE x \in S : Cardinality({y \in S : <<y, x>> \in R}) = i - 1
  <2>1. s = [i \in 1 .. N |-> nth(i)]
    BY DEF InOrderOf
  <2> HIDE DEF nth, s
  <2>2. \A i \in 1 .. N : nth(i) \in S
    BY <1>5, <2>1
  <2> QED
    BY <2>1, <2>2
<1> HIDE DEF s
<1>8. \A i, j \in 1 .. N : s[i] = s[j] => i = j
  BY <1>5
<1>9. \A x \in S : \E i \in 1 .. N : s[i] = x
  <2> SUFFICES ASSUME NEW x \in S PROVE \E i \in 1 .. N : s[i] = x
    OBVIOUS
  <2>1. rank[x] + 1 \in 1 .. N /\ (rank[x] + 1) - 1 = rank[x]
    BY <1>0, <1>4
  <2>2. s[rank[x] + 1] \in S /\ rank[s[rank[x] + 1]] = rank[x]
    BY <1>5, <2>1
  <2> QED
    BY <1>4, <2>1, <2>2
<1>10. ASSUME NEW i \in 1 .. N, NEW j \in 1 .. N, i < j
       PROVE  <<s[i], s[j]>> \in R
  <2>1. s[i] # s[j] /\ s[i] \in S /\ s[j] \in S
    BY <1>8, <1>7, <1>10
  <2>2. <<s[i], s[j]>> \in R \/ <<s[j], s[i]>> \in R
    BY <2>1 DEF Orders
  <2>3. ~(rank[s[j]] < rank[s[i]])
    BY <1>5, <1>10
  <2> QED
    BY <1>1, <2>1, <2>2, <2>3
<1>11. s \in Bijection(1 .. N, S)
  BY <1>7, <1>8, <1>9 DEF Bijection, Injection, Surjection, IsInjective
<1> QED
  BY <1>10, <1>11 DEF s

-----------------------------------------------------------------------------
(* Recursive functions: n steps F from a.                                  *)

StepsFrom(f, n, a, F) == f[0] = a /\ \A k \in 1 .. n : f[k] = F[k][f[k - 1]]

LEMMA Recursion ==
  ASSUME NEW n \in Nat, NEW A, NEW a \in A, NEW F,
         \A k \in 1 .. n : \A x \in A : F[k][x] \in A
  PROVE  \E f \in [0 .. n -> A] : StepsFrom(f, n, a, F)
<1> DEFINE T == {m \in 0 .. n : \E f \in [0 .. m -> A] : StepsFrom(f, m, a, F)}
<1>1. 0 \in T
  <2>1. PICK f : f = [k \in 0 .. 0 |-> a]
    OBVIOUS
  <2>2. f \in [0 .. 0 -> A] /\ StepsFrom(f, 0, a, F)
    BY <2>1 DEF StepsFrom
  <2> QED
    BY <2>2
<1>2. \A m \in 0 .. n - 1 : m \in T => m + 1 \in T
  <2> SUFFICES ASSUME NEW m \in 0 .. n - 1, m \in T
               PROVE  m + 1 \in T
    OBVIOUS
  <2>1. PICK f \in [0 .. m -> A] : StepsFrom(f, m, a, F)
    OBVIOUS
  <2>2. PICK g : g = [k \in 0 .. m + 1 |-> IF k = m + 1 THEN F[m + 1][f[m]] ELSE f[k]]
    OBVIOUS
  <2>3. f[m] \in A /\ m + 1 \in 1 .. n
    OBVIOUS
  <2>4. F[m + 1][f[m]] \in A
    BY <2>3
  <2>5. g \in [0 .. m + 1 -> A]
    BY <2>2, <2>4
  <2>6. g[0] = a
    BY <2>1, <2>2 DEF StepsFrom
  <2>7. ASSUME NEW k \in 1 .. m + 1
        PROVE  g[k] = F[k][g[k - 1]]
    <3>1. g[k - 1] = f[k - 1]
      BY <2>2
    <3>2. CASE k = m + 1
      <4>1. g[k] = F[m + 1][f[m]] /\ k - 1 = m
        BY <2>2, <3>2
      <4> QED
        BY <3>1, <3>2, <4>1
    <3>3. CASE k # m + 1
      <4>1. k \in 1 .. m /\ g[k] = f[k]
        BY <2>2, <3>3
      <4> QED
        BY <2>1, <3>1, <4>1 DEF StepsFrom
    <3> QED
      BY <3>2, <3>3
  <2>8. m + 1 \in 0 .. n
    OBVIOUS
  <2> QED
    BY <2>5, <2>6, <2>7, <2>8 DEF StepsFrom
<1>3. 0 .. n \subseteq T
  <2>1. 0 \in Int /\ n \in Int
    OBVIOUS
  <2> HIDE DEF T
  <2> QED
    BY <1>1, <1>2, <2>1, BoundedInduction
<1> QED
  BY <1>3

LEMMA RecursionAgrees ==
  ASSUME NEW n \in Nat, NEW m \in Nat, m <= n, NEW a, NEW F, NEW f, NEW g,
         StepsFrom(f, n, a, F), StepsFrom(g, m, a, F)
  PROVE  f[m] = g[m]
<1> DEFINE T == {k \in 0 .. m : f[k] = g[k]}
<1>1. 0 \in T
  BY DEF StepsFrom
<1>2. \A k \in 0 .. m - 1 : k \in T => k + 1 \in T
  <2> SUFFICES ASSUME NEW k \in 0 .. m - 1, k \in T
               PROVE  k + 1 \in T
    OBVIOUS
  <2>1. k + 1 \in 1 .. n /\ k + 1 \in 1 .. m /\ (k + 1) - 1 = k
    OBVIOUS
  <2>2. f[k + 1] = F[k + 1][f[k]] /\ g[k + 1] = F[k + 1][g[k]]
    BY <2>1 DEF StepsFrom
  <2> QED
    BY <2>1, <2>2
<1>3. 0 .. m \subseteq T
  <2>1. 0 \in Int /\ m \in Int
    OBVIOUS
  <2> HIDE DEF T
  <2> QED
    BY <1>1, <1>2, <2>1, BoundedInduction
<1> QED
  BY <1>3

-----------------------------------------------------------------------------
(* Powers.                                                                 *)

Multiply(b) == [k \in Nat |-> [x \in Int |-> b * x]]

LEMMA PowerUnfolds ==
  ASSUME NEW b \in Int, NEW n \in Nat
  PROVE  \E f \in [0 .. n -> Int] : StepsFrom(f, n, 1, Multiply(b)) /\ Power(b, n) = f[n]
<1> DEFINE Is(f) == f = [k \in 0 .. n |-> IF k = 0 THEN 1 ELSE b * f[k - 1]]
           F == Multiply(b)
<1>1. \A k \in 1 .. n : \A x \in Int : F[k][x] = b * x
  BY DEF Multiply
<1>2. \A k \in 1 .. n : \A x \in Int : F[k][x] \in Int
  BY <1>1
<1> HIDE DEF F
<1>3. PICK f \in [0 .. n -> Int] : StepsFrom(f, n, 1, F)
  <2>1. 1 \in Int
    OBVIOUS
  <2> QED
    BY <1>2, <2>1, Recursion, Zenon
<1>4. \A k \in 0 .. n : f[k] = IF k = 0 THEN 1 ELSE b * f[k - 1]
  <2> SUFFICES ASSUME NEW k \in 0 .. n
               PROVE  f[k] = IF k = 0 THEN 1 ELSE b * f[k - 1]
    OBVIOUS
  <2>1. CASE k = 0
    BY <1>3, <2>1 DEF StepsFrom
  <2>2. CASE k # 0
    <3>1. k \in 1 .. n /\ k - 1 \in 0 .. n
      BY <2>2
    <3> QED
      BY <1>1, <1>3, <2>2, <3>1 DEF StepsFrom
  <2> QED
    BY <2>1, <2>2
<1>5. Is(f)
  BY <1>4
<1> DEFINE g == CHOOSE h : Is(h)
<1>6. Is(g)
  <2> HIDE DEF Is
  <2> QED
    BY <1>5, Zenon
<1>7. Power(b, n) = g[n]
  BY Zenon DEF Power, Is
<1> HIDE DEF g
<1>8. \A k \in 0 .. n : g[k] = f[k]
  <2> DEFINE T == {k \in 0 .. n : g[k] = f[k]}
  <2>1. 0 \in T
    BY <1>5, <1>6
  <2>2. \A k \in 0 .. n - 1 : k \in T => k + 1 \in T
    <3> SUFFICES ASSUME NEW k \in 0 .. n - 1, k \in T PROVE k + 1 \in T
      OBVIOUS
    <3>1. k + 1 \in 0 .. n /\ k + 1 # 0 /\ (k + 1) - 1 = k
      OBVIOUS
    <3>2. g[k + 1] = b * g[k]
      BY <1>6, <3>1
    <3>3. f[k + 1] = b * f[k]
      BY <1>4, <3>1
    <3> QED
      BY <3>1, <3>2, <3>3
  <2>3. 0 .. n \subseteq T
    <3>1. 0 \in Int /\ n \in Int
      OBVIOUS
    <3> HIDE DEF T
    <3> QED
      BY <2>1, <2>2, <3>1, BoundedInduction
  <2> QED
    BY <2>3
<1>9. Power(b, n) = f[n]
  BY <1>7, <1>8
<1> QED
  BY <1>3, <1>9 DEF F

LEMMA PowerStep ==
  ASSUME NEW b \in Int, NEW n \in Nat
  PROVE  /\ Power(b, 0) = 1 /\ Power(b, n) \in Int
         /\ Power(b, n + 1) = b * Power(b, n)
<1>1. PICK f \in [0 .. n -> Int] : StepsFrom(f, n, 1, Multiply(b)) /\ Power(b, n) = f[n]
  BY PowerUnfolds
<1>2. PICK g \in [0 .. n + 1 -> Int] : StepsFrom(g, n + 1, 1, Multiply(b)) /\ Power(b, n + 1) = g[n + 1]
  <2>1. n + 1 \in Nat
    OBVIOUS
  <2> QED
    BY <2>1, PowerUnfolds, Zenon
<1>3. PICK h \in [0 .. 0 -> Int] : StepsFrom(h, 0, 1, Multiply(b)) /\ Power(b, 0) = h[0]
  BY PowerUnfolds
<1>4. g[n] = f[n]
  <2>1. n + 1 \in Nat /\ n <= n + 1
    OBVIOUS
  <2> QED
    BY <1>1, <1>2, <2>1, RecursionAgrees
<1>5. g[n + 1] = Multiply(b)[n + 1][g[n]]
  <2>1. n + 1 \in 1 .. n + 1 /\ (n + 1) - 1 = n
    OBVIOUS
  <2> QED
    BY <1>2, <2>1 DEF StepsFrom
<1>6. f[n] \in Int
  BY <1>1
<1>7. Multiply(b)[n + 1][f[n]] = b * f[n]
  BY <1>6 DEF Multiply
<1>8. Power(b, n + 1) = b * Power(b, n)
  BY <1>1, <1>2, <1>4, <1>5, <1>7
<1>9. Power(b, 0) = 1
  BY <1>3 DEF StepsFrom
<1> QED
  BY <1>1, <1>6, <1>8, <1>9

LEMMA PowersArePositive ==
  ASSUME NEW b \in Nat \ {0}, NEW k \in Nat
  PROVE  Power(b, k) \in Nat \ {0}
<1> DEFINE T == {n \in Nat : Power(b, n) \in Nat \ {0}}
<1>1. 0 \in T
  BY PowerStep
<1>2. \A n \in Nat : n \in T => n + 1 \in T
  <2> SUFFICES ASSUME NEW n \in Nat, n \in T PROVE n + 1 \in T
    OBVIOUS
  <2>1. Power(b, n + 1) = b * Power(b, n)
    BY PowerStep
  <2>2. PICK x \in Nat \ {0} : x = Power(b, n)
    OBVIOUS
  <2>3. b * x \in Nat \ {0}
    OBVIOUS
  <2> QED
    BY <2>1, <2>2, <2>3
<1>3. Nat \subseteq T
  <2> HIDE DEF T
  <2> QED
    BY <1>1, <1>2, NumberInduction
<1> QED
  BY <1>3

-----------------------------------------------------------------------------
(* A problem as it is received.                                            *)

GraphOK(g) ==
  /\ IsFiniteSet(Verts(g)) /\ Size(g) \in Nat /\ Verts(g) = 0 .. Size(g) - 1
  /\ g.h \in [Verts(g) -> Int] /\ g.edges \in Seq(Nat \X Nat) /\ g.j \in Seq(Int)

LEMMA JobGraphs ==
  ASSUME NEW q \in Jobs
  PROVE  GraphOK(q.graph)
<1>1. Size(q.graph) \in Nat
  BY TensorJobsAssumption, FS_CardinalityType DEF Size
<1> QED
  BY <1>1, TensorJobsAssumption DEF GraphOK

LEMMA EdgeFacts ==
  ASSUME NEW g, GraphOK(g)
  PROVE  /\ IsFiniteSet(DOMAIN g.edges) /\ DOMAIN g.edges = 1 .. Len(g.edges) /\ Len(g.edges) \in Nat
         /\ \A k \in DOMAIN g.edges :
              Coupling(g, k) \in Int /\ g.edges[k][1] \in Nat /\ g.edges[k][2] \in Nat
<1>1. Len(g.edges) \in Nat /\ DOMAIN g.edges = 1 .. Len(g.edges)
  BY DEF GraphOK
<1>2. IsFiniteSet(1 .. Len(g.edges))
  BY <1>1, FS_Interval
<1>3. ASSUME NEW k \in DOMAIN g.edges
      PROVE  Coupling(g, k) \in Int /\ g.edges[k][1] \in Nat /\ g.edges[k][2] \in Nat
  <2>1. g.edges[k] \in Nat \X Nat
    BY <1>1 DEF GraphOK
  <2>2. Coupling(g, k) \in Int
    BY <1>1 DEF Coupling, GraphOK
  <2> QED
    BY <2>1, <2>2
<1> QED
  BY <1>1, <1>2, <1>3

LEMMA IncidentFacts ==
  ASSUME NEW g, GraphOK(g), NEW v \in Verts(g)
  PROVE  /\ IsFiniteSet(Incident(g, v)) /\ Incident(g, v) \subseteq DOMAIN g.edges
         /\ \A k \in Incident(g, v) :
              /\ Across(g, k, v) \in Verts(g) \ {v}
              /\ Linked(g, k) /\ v \in {g.edges[k][1], g.edges[k][2]}
              /\ \/ g.edges[k][1] = v /\ g.edges[k][2] = Across(g, k, v)
                 \/ g.edges[k][2] = v /\ g.edges[k][1] = Across(g, k, v)
<1>1. Incident(g, v) \subseteq DOMAIN g.edges
  BY DEF Incident
<1>2. IsFiniteSet(Incident(g, v))
  BY <1>1, EdgeFacts, FS_Subset
<1>3. \A k \in Incident(g, v) :
              /\ Across(g, k, v) \in Verts(g) \ {v}
              /\ Linked(g, k) /\ v \in {g.edges[k][1], g.edges[k][2]}
              /\ \/ g.edges[k][1] = v /\ g.edges[k][2] = Across(g, k, v)
                 \/ g.edges[k][2] = v /\ g.edges[k][1] = Across(g, k, v)
  BY DEF Incident, Across, Linked, Inside
<1> QED
  BY <1>1, <1>2, <1>3

LEMMA VertsFinite ==
  ASSUME NEW g, GraphOK(g)
  PROVE  IsFiniteSet(Verts(g)) /\ \A v \in Verts(g) : g.h[v] \in Int
BY DEF GraphOK

\* A spin of a configuration turned over.
Turned(s, v) == [s EXCEPT ![v] = -@]

LEMMA TurnedSpins ==
  ASSUME NEW g, NEW s \in Configs(g), NEW v \in Verts(g)
  PROVE  /\ Turned(s, v) \in Configs(g)
         /\ Turned(s, v)[v] = -s[v] /\ s[v] \in {-1, 1}
         /\ \A u \in Verts(g) : s[u] \in Int /\ Turned(s, v)[u] \in Int
         /\ \A u \in Verts(g) \ {v} : Turned(s, v)[u] = s[u]
<1>1. \A u \in Verts(g) : s[u] \in {-1, 1}
  BY DEF Configs
<1>2. -s[v] \in {-1, 1}
  BY <1>1
<1>3. Turned(s, v) = [u \in Verts(g) |-> IF u = v THEN -s[v] ELSE s[u]]
  BY DEF Turned, Configs
<1> QED
  BY <1>1, <1>2, <1>3 DEF Configs

LEMMA FieldIsNumber ==
  ASSUME NEW g, GraphOK(g), NEW s \in Configs(g), NEW v \in Verts(g)
  PROVE  EffectiveField(g, v, s) \in Int
<1>1. PICK p : p = [k \in Incident(g, v) |-> Coupling(g, k) * s[Across(g, k, v)]]
  OBVIOUS
<1>2. \A k \in Incident(g, v) : p[k] \in Int
  <2> SUFFICES ASSUME NEW k \in Incident(g, v) PROVE p[k] \in Int
    OBVIOUS
  <2>1. Coupling(g, k) \in Int /\ Across(g, k, v) \in Verts(g)
    BY EdgeFacts, IncidentFacts
  <2>2. s[Across(g, k, v)] \in Int
    BY <2>1, TurnedSpins
  <2> QED
    BY <1>1, <2>1, <2>2
<1>3. SumFunctionOnSet(p, Incident(g, v)) \in Int
  BY <1>2, IncidentFacts, SumType
<1>4. SumFunction(p) = SumFunctionOnSet(p, Incident(g, v))
  BY <1>1 DEF SumFunction
<1> QED
  BY <1>1, <1>3, <1>4, VertsFinite DEF EffectiveField

\* apply_field_delta is what a flip does to the fields.
LEMMA FieldDelta ==
  ASSUME NEW g, GraphOK(g), NEW s \in Configs(g), NEW v \in Verts(g), NEW u \in Verts(g)
  PROVE  EffectiveField(g, u, Turned(s, v)) = EffectiveField(g, u, s) - 2 * s[v] *
           SumFunction([k \in {e \in Incident(g, v) : Across(g, e, v) = u} |-> Coupling(g, k)])
<1> DEFINE I == Incident(g, u)
           t == Turned(s, v)
           A == {e \in Incident(g, v) : Across(g, e, v) = u}
<1>1. PICK p : p = [k \in I |-> Coupling(g, k) * s[Across(g, k, u)]]
  OBVIOUS
<1>2. PICK q : q = [k \in I |-> Coupling(g, k) * t[Across(g, k, u)]]
  OBVIOUS
<1>3. PICK c : c = [k \in A |-> Coupling(g, k)]
  OBVIOUS
<1>4. PICK d : d = [k \in I |-> IF k \in A THEN -2 * s[v] * Coupling(g, k) ELSE 0]
  OBVIOUS
<1>5. A \subseteq I /\ \A k \in I : (k \in A <=> Across(g, k, u) = v)
  BY IncidentFacts DEF Incident, Across, Linked, Inside
<1>6. \A k \in I : k \in DOMAIN g.edges /\ Across(g, k, u) \in Verts(g) /\ Coupling(g, k) \in Int
  BY EdgeFacts, IncidentFacts
<1>7. IsFiniteSet(I) /\ IsFiniteSet(A)
  BY IncidentFacts, <1>5, FS_Subset
<1>8. s[v] \in Int
  BY TurnedSpins
<1>9. \A k \in I : p[k] \in Int /\ d[k] \in Int /\ q[k] = p[k] + d[k]
  <2> SUFFICES ASSUME NEW k \in I
               PROVE  p[k] \in Int /\ d[k] \in Int /\ q[k] = p[k] + d[k]
    OBVIOUS
  <2>1. PICK w \in Verts(g) : w = Across(g, k, u)
    BY <1>6
  <2>2. PICK j \in Int : j = Coupling(g, k)
    BY <1>6
  <2>3. s[w] \in Int /\ t[w] \in Int /\ p[k] = j * s[w] /\ q[k] = j * t[w]
    BY <1>1, <1>2, <2>1, <2>2, TurnedSpins
  <2>4. CASE k \in A
    <3>1. w = v /\ t[w] = -s[v] /\ d[k] = -2 * s[v] * j
      BY <1>4, <1>5, <2>1, <2>2, <2>4, TurnedSpins
    <3> QED
      BY <1>8, <2>3, <3>1
  <2>5. CASE k \notin A
    <3>1. w # v /\ t[w] = s[w] /\ d[k] = 0
      BY <1>4, <1>5, <2>1, <2>5, TurnedSpins
    <3> QED
      BY <2>3, <3>1
  <2> QED
    BY <2>4, <2>5
<1>10. SumFunctionOnSet(q, I) = SumFunctionOnSet(p, I) + SumFunctionOnSet(d, I)
  BY <1>7, <1>9, SumPlus
<1>11. SumFunctionOnSet(d, I) = SumFunctionOnSet(d, A)
  <2>1. \A x \in A : d[x] \in Int
    BY <1>5, <1>9
  <2>2. \A x \in I \ A : d[x] = 0
    BY <1>4
  <2>3. A \in SUBSET I
    BY <1>5
  <2> HIDE DEF A, I
  <2> QED
    BY <1>7, <2>1, <2>2, <2>3, SumOfPart
<1>12. SumFunctionOnSet(d, A) = (-2 * s[v]) * SumFunctionOnSet(c, A)
  <2>1. \A k \in A : c[k] \in Int /\ d[k] = (-2 * s[v]) * c[k]
    BY <1>3, <1>4, <1>5, <1>6, <1>8
  <2>2. -2 * s[v] \in Int
    BY <1>8
  <2> HIDE DEF A
  <2> QED
    BY <1>7, <2>1, <2>2, SumTimes
<1>13. SumFunctionOnSet(p, I) \in Int /\ SumFunctionOnSet(c, A) \in Int
  <2>1. \A k \in A : c[k] \in Int
    BY <1>3, <1>5, <1>6
  <2> HIDE DEF A, I
  <2> QED
    BY <1>7, <1>9, <2>1, SumType
<1>14. /\ SumFunction(p) = SumFunctionOnSet(p, I) /\ SumFunction(q) = SumFunctionOnSet(q, I)
       /\ SumFunction(c) = SumFunctionOnSet(c, A)
  BY <1>1, <1>2, <1>3 DEF SumFunction
<1>15. EffectiveField(g, u, t) = g.h[u] + SumFunction(q) /\ EffectiveField(g, u, s) = g.h[u] + SumFunction(p)
  BY <1>1, <1>2 DEF EffectiveField
<1>16. g.h[u] \in Int
  BY VertsFinite
<1> HIDE DEF A, I, t
<1>17. EffectiveField(g, u, t) = EffectiveField(g, u, s) - 2 * s[v] * SumFunction(c)
  BY <1>8, <1>10, <1>11, <1>12, <1>13, <1>14, <1>15, <1>16
<1> QED
  BY <1>3, <1>17 DEF A, t

\* What a flip does to the energy: a self-loop does not notice, a bond of the
\* node turns over, and parallel bonds turn over together.
LEMMA ScoreDelta ==
  ASSUME NEW g, GraphOK(g), NEW s \in Configs(g), NEW v \in Verts(g)
  PROVE  /\ Score(g, s) \in Int
         /\ Score(g, Turned(s, v)) = Score(g, s) - 2 * s[v] * EffectiveField(g, v, s)
<1> DEFINE V == Verts(g)
           E == {e \in DOMAIN g.edges : Inside(g, e)}
           I == Incident(g, v)
           t == Turned(s, v)
<1>1. PICK a : a = [x \in V |-> g.h[x] * s[x]]
  OBVIOUS
<1>2. PICK b : b = [x \in V |-> g.h[x] * t[x]]
  OBVIOUS
<1>3. PICK c : c = [x \in V |-> IF x = v THEN -2 * s[v] * g.h[v] ELSE 0]
  OBVIOUS
<1>4. PICK p : p = [k \in E |-> Coupling(g, k) * s[g.edges[k][1]] * s[g.edges[k][2]]]
  OBVIOUS
<1>5. PICK q : q = [k \in E |-> Coupling(g, k) * t[g.edges[k][1]] * t[g.edges[k][2]]]
  OBVIOUS
<1>6. PICK d : d = [k \in E |-> IF k \in I THEN (-2 * s[v]) * (Coupling(g, k) * s[Across(g, k, v)]) ELSE 0]
  OBVIOUS
<1>7. PICK f : f = [k \in I |-> Coupling(g, k) * s[Across(g, k, v)]]
  OBVIOUS
<1>8. /\ t \in Configs(g) /\ t[v] = -s[v] /\ s[v] \in {-1, 1}
      /\ \A u \in V : s[u] \in Int /\ t[u] \in Int
      /\ \A u \in V \ {v} : t[u] = s[u]
  BY TurnedSpins
<1>9. IsFiniteSet(V) /\ \A u \in V : g.h[u] \in Int
  BY VertsFinite
<1>10. /\ IsFiniteSet(E) /\ IsFiniteSet(I) /\ I \subseteq E
       /\ \A k \in E : Coupling(g, k) \in Int /\ g.edges[k][1] \in V /\ g.edges[k][2] \in V
       /\ \A k \in I : Across(g, k, v) \in V
  <2>1. E \in SUBSET (DOMAIN g.edges) /\ IsFiniteSet(DOMAIN g.edges)
    BY EdgeFacts
  <2>2. IsFiniteSet(E)
    BY <2>1, FS_Subset
  <2>3. I \subseteq E
    BY DEF Incident, Linked
  <2>4. \A k \in E : Coupling(g, k) \in Int /\ g.edges[k][1] \in V /\ g.edges[k][2] \in V
    BY EdgeFacts DEF Inside
  <2> QED
    BY <2>2, <2>3, <2>4, IncidentFacts
<1>11. \A x \in V : a[x] \in Int /\ c[x] \in Int /\ b[x] = a[x] + c[x]
  <2> SUFFICES ASSUME NEW x \in V PROVE a[x] \in Int /\ c[x] \in Int /\ b[x] = a[x] + c[x]
    OBVIOUS
  <2>1. PICK h \in Int : h = g.h[x]
    BY <1>9
  <2>2. a[x] = h * s[x] /\ b[x] = h * t[x] /\ s[x] \in Int
    BY <1>1, <1>2, <1>8, <2>1
  <2>3. CASE x = v
    <3>1. c[x] = -2 * s[v] * h /\ t[x] = -s[v]
      BY <1>3, <1>8, <2>1, <2>3
    <3> QED
      BY <2>2, <2>3, <3>1
  <2>4. CASE x # v
    <3>1. c[x] = 0 /\ t[x] = s[x]
      BY <1>3, <1>8, <2>4
    <3> QED
      BY <2>2, <3>1
  <2> QED
    BY <2>3, <2>4
<1>12. \A k \in E : p[k] \in Int /\ d[k] \in Int /\ q[k] = p[k] + d[k]
  <2> SUFFICES ASSUME NEW k \in E PROVE p[k] \in Int /\ d[k] \in Int /\ q[k] = p[k] + d[k]
    OBVIOUS
  <2>1. PICK x \in V, y \in V : x = g.edges[k][1] /\ y = g.edges[k][2]
    BY <1>10
  <2>2. PICK j \in Int : j = Coupling(g, k)
    BY <1>10
  <2>3. p[k] = j * s[x] * s[y] /\ q[k] = j * t[x] * t[y]
    BY <1>4, <1>5, <2>1, <2>2
  <2>4. k \in I <=> (x # y /\ v \in {x, y})
    BY <2>1 DEF Incident, Linked
  <2>a. PICK sx \in Int, sy \in Int, sv \in Int : sx = s[x] /\ sy = s[y] /\ sv = s[v]
    BY <1>8
  <2>5. CASE k \in I
    <3>0. d[k] = (-2 * sv) * (j * s[Across(g, k, v)])
      BY <1>6, <2>2, <2>5, <2>a
    <3>1. CASE x = v
      <4>1. y # v /\ Across(g, k, v) = y /\ t[x] = -sv /\ t[y] = sy /\ sx = sv
        BY <1>8, <2>1, <2>4, <2>5, <3>1, <2>a DEF Across
      <4>2. d[k] = (-2 * sv) * (j * sy) /\ p[k] = j * sv * sy /\ q[k] = j * (-sv) * sy
        BY <2>3, <2>a, <3>0, <4>1
      <4>3. j * (-sv) * sy = j * sv * sy + (-2 * sv) * (j * sy)
        OBVIOUS
      <4> QED
        BY <4>2, <4>3
    <3>2. CASE x # v
      <4>1. y = v /\ Across(g, k, v) = x /\ t[y] = -sv /\ t[x] = sx /\ sy = sv
        BY <1>8, <2>1, <2>4, <2>5, <3>2, <2>a DEF Across
      <4>2. d[k] = (-2 * sv) * (j * sx) /\ p[k] = j * sx * sv /\ q[k] = j * sx * (-sv)
        BY <2>3, <2>a, <3>0, <4>1
      <4>3. j * sx * (-sv) = j * sx * sv + (-2 * sv) * (j * sx)
        OBVIOUS
      <4> QED
        BY <4>2, <4>3
    <3> QED
      BY <3>1, <3>2
  <2>6. CASE k \notin I
    <3>1. d[k] = 0
      BY <1>6, <2>6
    <3>2. CASE x = y /\ x = v
      <4>1. t[x] = -sv /\ t[y] = -sv /\ sx = sv /\ sy = sv
        BY <1>8, <2>a, <3>2
      <4>2. p[k] = j * sv * sv /\ q[k] = j * (-sv) * (-sv)
        BY <2>3, <2>a, <4>1
      <4> QED
        BY <3>1, <4>2
    <3>3. CASE x # v /\ y # v
      <4>1. t[x] = sx /\ t[y] = sy
        BY <1>8, <2>a, <3>3
      <4>2. p[k] = j * sx * sy /\ q[k] = j * sx * sy
        BY <2>3, <2>a, <4>1
      <4> QED
        BY <3>1, <4>2
    <3> QED
      BY <2>4, <2>6, <3>2, <3>3
  <2> QED
    BY <2>5, <2>6
<1>13. \A k \in I : f[k] \in Int /\ d[k] = (-2 * s[v]) * f[k]
  <2> SUFFICES ASSUME NEW k \in I PROVE f[k] \in Int /\ d[k] = (-2 * s[v]) * f[k]
    OBVIOUS
  <2>1. Coupling(g, k) \in Int /\ s[Across(g, k, v)] \in Int
    BY <1>8, <1>10
  <2> QED
    BY <1>6, <1>7, <1>10, <2>1
<1>14. -2 * s[v] \in Int /\ s[v] \in Int
  BY <1>8
<1>15. /\ Score(g, s) = SumFunction(a) + SumFunction(p)
       /\ Score(g, t) = SumFunction(b) + SumFunction(q)
       /\ EffectiveField(g, v, s) = g.h[v] + SumFunction(f)
  BY <1>1, <1>2, <1>4, <1>5, <1>7 DEF Score, EffectiveField
<1>16. /\ SumFunction(a) = SumFunctionOnSet(a, V) /\ SumFunction(b) = SumFunctionOnSet(b, V)
       /\ SumFunction(p) = SumFunctionOnSet(p, E) /\ SumFunction(q) = SumFunctionOnSet(q, E)
       /\ SumFunction(f) = SumFunctionOnSet(f, I)
  BY <1>1, <1>2, <1>4, <1>5, <1>7 DEF SumFunction
<1>17. v \in V /\ g.h[v] \in Int /\ c[v] = -2 * s[v] * g.h[v] /\ \A x \in V \ {v} : c[x] = 0
  BY <1>3, <1>9
<1>18. \A k \in E \ I : d[k] = 0
  BY <1>6
<1> HIDE DEF V, E, I, t
<1>19. SumFunctionOnSet(b, V) = SumFunctionOnSet(a, V) + SumFunctionOnSet(c, V)
  BY <1>9, <1>11, SumPlus
<1>20. SumFunctionOnSet(c, V) = c[v]
  <2>1. {v} \in SUBSET V /\ \A x \in {v} : c[x] \in Int
    BY <1>11, <1>17
  <2>2. \A x \in V \ {v} : c[x] = 0
    BY <1>17
  <2>3. SumFunctionOnSet(c, V) = SumFunctionOnSet(c, {v})
    BY <1>9, <2>1, <2>2, SumOfPart
  <2> QED
    BY <2>1, <2>3, SumOfOne
<1>21. SumFunctionOnSet(q, E) = SumFunctionOnSet(p, E) + SumFunctionOnSet(d, E)
  BY <1>10, <1>12, SumPlus
<1>22. SumFunctionOnSet(d, E) = SumFunctionOnSet(d, I)
  <2>1. I \in SUBSET E /\ \A x \in I : d[x] \in Int
    BY <1>10, <1>12
  <2> QED
    BY <1>10, <1>18, <2>1, SumOfPart
<1>23. SumFunctionOnSet(d, I) = (-2 * s[v]) * SumFunctionOnSet(f, I)
  BY <1>10, <1>13, <1>14, SumTimes
<1>24. SumFunctionOnSet(a, V) \in Int /\ SumFunctionOnSet(p, E) \in Int /\ SumFunctionOnSet(f, I) \in Int
  BY <1>9, <1>10, <1>11, <1>12, <1>13, SumType
<1>25. Score(g, t) = Score(g, s) - 2 * s[v] * EffectiveField(g, v, s)
  <2>1. Score(g, t) = SumFunctionOnSet(a, V) + (-2 * s[v] * g.h[v])
                       + (SumFunctionOnSet(p, E) + (-2 * s[v]) * SumFunctionOnSet(f, I))
    BY <1>15, <1>16, <1>17, <1>19, <1>20, <1>21, <1>22, <1>23
  <2>2. Score(g, s) = SumFunctionOnSet(a, V) + SumFunctionOnSet(p, E)
    BY <1>15, <1>16
  <2>3. EffectiveField(g, v, s) = g.h[v] + SumFunctionOnSet(f, I)
    BY <1>15, <1>16
  <2>4. PICK A, P, F, h, x \in Int :
          /\ A = SumFunctionOnSet(a, V) /\ P = SumFunctionOnSet(p, E) /\ F = SumFunctionOnSet(f, I)
          /\ h = g.h[v] /\ x = s[v]
    BY <1>14, <1>17, <1>24
  <2>5. /\ Score(g, t) = A + (-2 * x * h) + (P + (-2 * x) * F)
        /\ Score(g, s) = A + P /\ EffectiveField(g, v, s) = h + F
    BY <2>1, <2>2, <2>3, <2>4
  <2>6. A + (-2 * x * h) + (P + (-2 * x) * F) = (A + P) - 2 * x * (h + F)
    OBVIOUS
  <2> QED
    BY <2>4, <2>5, <2>6
<1> QED
  BY <1>15, <1>16, <1>24, <1>25 DEF t

-----------------------------------------------------------------------------
(* The polish.                                                             *)

\* The fields are those of the spins.
DescentOK(g, d) ==
  /\ d = [spins |-> d.spins, heff |-> d.heff, left |-> d.left, moved |-> d.moved]
  /\ d.spins \in Configs(g)
  /\ d.heff = [v \in Verts(g) |-> EffectiveField(g, v, d.spins)]
  /\ d.left \in Int /\ d.moved \in BOOLEAN

LEMMA FlipKeepsFields ==
  ASSUME NEW g, GraphOK(g), NEW d, DescentOK(g, d), NEW v \in Verts(g)
  PROVE  /\ DescentOK(g, TryFlip(g, d, v))
         /\ \/ TryFlip(g, d, v).moved
            \/ TryFlip(g, d, v) = d /\ d.spins[v] * EffectiveField(g, v, d.spins) <= 0
<1>1. d.heff[v] = EffectiveField(g, v, d.spins) /\ EffectiveField(g, v, d.spins) \in Int
  BY FieldIsNumber DEF DescentOK
<1>2. d.spins[v] \in Int
  BY TurnedSpins DEF DescentOK
<1>3. CASE d.spins[v] * d.heff[v] > 0
  <2>1. PICK e : e = TryFlip(g, d, v)
    OBVIOUS
  <2>2. e = [spins |-> Turned(d.spins, v), heff |-> Felt(g, d, v), left |-> d.left, moved |-> TRUE]
    BY <1>3, <2>1 DEF TryFlip, DescentOK, Turned
  <2>3. \A u \in Verts(g) : Felt(g, d, v)[u] = EffectiveField(g, u, Turned(d.spins, v))
    <3> SUFFICES ASSUME NEW u \in Verts(g)
                 PROVE  Felt(g, d, v)[u] = EffectiveField(g, u, Turned(d.spins, v))
      OBVIOUS
    <3>1. d.heff[u] = EffectiveField(g, u, d.spins)
      BY DEF DescentOK
    <3>2. EffectiveField(g, u, Turned(d.spins, v)) = EffectiveField(g, u, d.spins) - 2 * d.spins[v] *
            SumFunction([k \in {f \in Incident(g, v) : Across(g, f, v) = u} |-> Coupling(g, k)])
      BY FieldDelta DEF DescentOK
    <3> QED
      BY <3>1, <3>2 DEF Felt
  <2>4. Felt(g, d, v) = [u \in Verts(g) |-> EffectiveField(g, u, Turned(d.spins, v))]
    BY <2>3 DEF Felt
  <2>5. Turned(d.spins, v) \in Configs(g)
    BY TurnedSpins DEF DescentOK
  <2> QED
    BY <2>1, <2>2, <2>4, <2>5 DEF DescentOK
<1>4. CASE ~(d.spins[v] * d.heff[v] > 0)
  <2>1. TryFlip(g, d, v) = d
    BY <1>4 DEF TryFlip
  <2> QED
    BY <1>1, <1>2, <1>4, <2>1
<1> QED
  BY <1>3, <1>4

-----------------------------------------------------------------------------
(* The chain holds every node once.                                        *)

LEMMA NearFacts ==
  ASSUME NEW g, GraphOK(g), NEW v \in Verts(g)
  PROVE  /\ Near(g, v) \subseteq Verts(g) \ {v} /\ IsFiniteSet(Near(g, v))
         /\ Cardinality(Near(g, v)) \in Nat
<1>1. Near(g, v) \subseteq Verts(g) \ {v}
  BY IncidentFacts DEF Near
<1>2. IsFiniteSet(Near(g, v))
  BY <1>1, VertsFinite, FS_Subset
<1> QED
  BY <1>1, <1>2, FS_CardinalityType

DegreeOrder(g, S) ==
  {p \in S \X S : \/ Cardinality(Near(g, p[1])) < Cardinality(Near(g, p[2]))
                  \/ Cardinality(Near(g, p[1])) = Cardinality(Near(g, p[2])) /\ p[1] < p[2]}

LEMMA ByDegreeLists ==
  ASSUME NEW g, GraphOK(g), NEW S \in SUBSET Verts(g)
  PROVE  /\ IsFiniteSet(S) /\ Cardinality(S) \in Nat
         /\ ByDegree(g, S) \in Bijection(1 .. Cardinality(S), S)
<1> DEFINE R == DegreeOrder(g, S)
           deg(x) == Cardinality(Near(g, x))
<1>1. IsFiniteSet(S) /\ Cardinality(S) \in Nat
  BY VertsFinite, FS_Subset, FS_CardinalityType
<1>2. \A x \in S : deg(x) \in Nat /\ x \in Nat
  <2> SUFFICES ASSUME NEW x \in S PROVE deg(x) \in Nat /\ x \in Nat
    OBVIOUS
  <2>1. x \in Verts(g)
    OBVIOUS
  <2>2. deg(x) \in Nat
    BY <2>1, NearFacts
  <2> QED
    BY <2>1, <2>2 DEF GraphOK
<1>3. \A x, y \in S : <<x, y>> \in R <=> deg(x) < deg(y) \/ (deg(x) = deg(y) /\ x < y)
  BY DEF DegreeOrder
<1>4. Orders(R, S)
  <2> HIDE DEF R, deg
  <2>1. \A x \in S : <<x, x>> \notin R
    BY <1>2, <1>3
  <2>2. \A x, y, z \in S : <<x, y>> \in R /\ <<y, z>> \in R => <<x, z>> \in R
    <3> SUFFICES ASSUME NEW x \in S, NEW y \in S, NEW z \in S, <<x, y>> \in R, <<y, z>> \in R
                 PROVE  <<x, z>> \in R
      OBVIOUS
    <3>1. deg(x) \in Nat /\ deg(y) \in Nat /\ deg(z) \in Nat /\ x \in Nat /\ y \in Nat /\ z \in Nat
      BY <1>2
    <3>2. /\ deg(x) < deg(y) \/ (deg(x) = deg(y) /\ x < y)
          /\ deg(y) < deg(z) \/ (deg(y) = deg(z) /\ y < z)
      BY <1>3
    <3>3. deg(x) < deg(z) \/ (deg(x) = deg(z) /\ x < z)
      BY <3>1, <3>2
    <3> QED
      BY <1>3, <3>3
  <2>3. \A x, y \in S : x # y => <<x, y>> \in R \/ <<y, x>> \in R
    <3> SUFFICES ASSUME NEW x \in S, NEW y \in S, x # y
                 PROVE  <<x, y>> \in R \/ <<y, x>> \in R
      OBVIOUS
    <3>1. deg(x) \in Nat /\ deg(y) \in Nat /\ x \in Nat /\ y \in Nat
      BY <1>2
    <3>2. \/ deg(x) < deg(y) \/ (deg(x) = deg(y) /\ x < y)
          \/ deg(y) < deg(x) \/ (deg(y) = deg(x) /\ y < x)
      BY <3>1
    <3> QED
      BY <1>3, <3>2
  <2> QED
    BY <2>1, <2>2, <2>3 DEF Orders
<1>5. ByDegree(g, S) = InOrderOf(S, R)
  <2> DEFINE before(x, y) == deg(x) < deg(y) \/ (deg(x) = deg(y) /\ x < y)
             at1(i) == CHOOSE x \in S : Cardinality({y \in S : before(y, x)}) = i - 1
             at2(i) == CHOOSE x \in S : Cardinality({y \in S : <<y, x>> \in R}) = i - 1
  <2>1. ByDegree(g, S) = [i \in 1 .. Cardinality(S) |-> at1(i)]
    BY DEF ByDegree, Sorted
  <2>2. InOrderOf(S, R) = [i \in 1 .. Cardinality(S) |-> at2(i)]
    BY DEF InOrderOf
  <2>3. \A x \in S : {y \in S : before(y, x)} = {y \in S : <<y, x>> \in R}
    <3> HIDE DEF R, deg
    <3> QED
      BY <1>3
  <2>4. \A i \in 1 .. Cardinality(S) : at1(i) = at2(i)
    <3> HIDE DEF R, before
    <3> QED
      BY <2>3
  <2> QED
    BY <2>1, <2>2, <2>4
<1> QED
  BY <1>1, <1>4, <1>5, OrderIsListed

\* A list of different nodes.
Listing(g, s) ==
  /\ s \in Seq(Verts(g))
  /\ \A i, j \in 1 .. Len(s) : s[i] = s[j] => i = j

LEMMA ListingIsShort ==
  ASSUME NEW g, GraphOK(g), NEW s, Listing(g, s)
  PROVE  /\ Len(s) \in Nat /\ Len(s) <= Size(g)
         /\ Len(s) = Size(g) => s \in Bijection(1 .. Size(g), Verts(g))
<1>1. Len(s) \in Nat /\ DOMAIN s = 1 .. Len(s) /\ s \in [1 .. Len(s) -> Verts(g)]
  BY DEF Listing
<1>2. s \in Injection(1 .. Len(s), Verts(g))
  BY <1>1 DEF Listing, Injection, IsInjective
<1>3. IsFiniteSet(Verts(g)) /\ Cardinality(Verts(g)) = Size(g) /\ Size(g) \in Nat
  BY DEF GraphOK, Size
<1>4. IsFiniteSet(1 .. Len(s)) /\ Cardinality(1 .. Len(s)) = Len(s)
  BY <1>1, FS_Interval
<1>5. Len(s) <= Size(g)
  BY <1>2, <1>3, <1>4, FS_Injection
<1>6. ASSUME Len(s) = Size(g)
      PROVE  s \in Bijection(1 .. Size(g), Verts(g))
  <2>1. s \in Surjection(1 .. Len(s), Verts(g))
    BY <1>2, <1>3, <1>4, <1>6, FS_Injection
  <2> QED
    BY <1>2, <1>6, <2>1 DEF Bijection
<1> QED
  BY <1>1, <1>5, <1>6

\* The walk so far: a list of different nodes, of which the first are expanded.
WalkOK(g, w) ==
  /\ w = [out |-> w.out, head |-> w.head]
  /\ Listing(g, w.out)
  /\ w.head \in 1 .. Len(w.out) + 1

AllWalked(g, w) == w.head = Len(w.out) + 1 /\ ToSet(w.out) = Verts(g)

LEMMA WalkGoesOn ==
  ASSUME NEW g, GraphOK(g), NEW w, WalkOK(g, w)
  PROVE  /\ WalkOK(g, Walk(g, w))
         /\ \/ AllWalked(g, w) /\ Walk(g, w) = w
            \/ Walk(g, w).head + Len(Walk(g, w).out) > w.head + Len(w.out)
<1> DEFINE listed == w.out
           head == w.head
           fresh == Verts(g) \ ToSet(listed)
<1>1. /\ listed \in Seq(Verts(g)) /\ Len(listed) \in Nat /\ head \in 1 .. Len(listed) + 1
      /\ \A i \in 1 .. Len(listed) : listed[i] \in Verts(g)
      /\ \A i, j \in 1 .. Len(listed) : listed[i] = listed[j] => i = j
      /\ ToSet(listed) = {listed[i] : i \in 1 .. Len(listed)}
      /\ w = [out |-> listed, head |-> head]
  BY DEF WalkOK, Listing, ToSet
<1>2. CASE head <= Len(listed)
  <2> DEFINE S == Near(g, listed[head]) \ ToSet(listed)
             more == ByDegree(g, S)
             m == Cardinality(S)
             n == Len(listed)
             new == listed \o more
  <2>1. listed[head] \in Verts(g)
    BY <1>1, <1>2
  <2>2. S \in SUBSET Verts(g) /\ S \cap ToSet(listed) = {}
    BY <2>1, NearFacts
  <2>3. m \in Nat /\ more \in Bijection(1 .. m, S)
    BY <2>2, ByDegreeLists
  <2>4. Walk(g, w) = [out |-> new, head |-> head + 1]
    BY <1>2 DEF Walk
  <2>5. /\ more \in [1 .. m -> S]
        /\ \A i, j \in 1 .. m : more[i] = more[j] => i = j
    BY <2>3 DEF Bijection, Injection, IsInjective
  <2> HIDE DEF more, m, S
  <2>6. more \in Seq(Verts(g)) /\ Len(more) = m
    BY <2>2, <2>3, <2>5
  <2>7. /\ new \in Seq(Verts(g)) /\ Len(new) = n + m
        /\ \A i \in 1 .. n : new[i] = listed[i]
        /\ \A i \in 1 .. m : new[n + i] = more[i]
    <3> DEFINE V == Verts(g)
    <3>1. listed \in Seq(V) /\ more \in Seq(V)
      BY <1>1, <2>6
    <3> HIDE DEF V, listed
    <3>2. /\ new \in Seq(V) /\ Len(new) = Len(listed) + Len(more)
          /\ \A i \in 1 .. Len(new) : new[i] = IF i <= Len(listed) THEN listed[i] ELSE more[i - Len(listed)]
      BY <3>1, ConcatProperties
    <3>3. Len(listed) \in Nat /\ Len(more) = m /\ m \in Nat
      BY <1>1, <2>3, <2>6
    <3> HIDE DEF new
    <3>4. \A i \in 1 .. n : new[i] = listed[i]
      BY <3>2, <3>3
    <3>5. \A i \in 1 .. m : new[n + i] = more[i]
      <4> SUFFICES ASSUME NEW i \in 1 .. m PROVE new[n + i] = more[i]
        OBVIOUS
      <4>1. n + i \in 1 .. Len(new) /\ ~(n + i <= Len(listed)) /\ (n + i) - Len(listed) = i
        BY <3>2, <3>3
      <4> QED
        BY <3>2, <4>1
    <3> QED
      BY <3>2, <3>3, <3>4, <3>5 DEF V
  <2> HIDE DEF new
  <2>8. \A i, j \in 1 .. n + m : new[i] = new[j] => i = j
    <3> SUFFICES ASSUME NEW i \in 1 .. n + m, NEW j \in 1 .. n + m, new[i] = new[j], i # j
                 PROVE  FALSE
      OBVIOUS
    <3>1. \A k \in 1 .. n : new[k] \in ToSet(listed)
      BY <1>1, <2>7
    <3>2. ASSUME NEW k \in 1 .. n + m, k \notin 1 .. n
          PROVE  k - n \in 1 .. m /\ new[k] = more[k - n] /\ new[k] \in S
      <4>1. k - n \in 1 .. m /\ n + (k - n) = k
        BY <1>1, <2>3, <3>2
      <4>2. new[n + (k - n)] = more[k - n] /\ more[k - n] \in S
        BY <2>5, <2>7, <4>1
      <4> QED
        BY <4>1, <4>2
    <3>3. CASE i \in 1 .. n /\ j \in 1 .. n
      BY <1>1, <2>7, <3>3
    <3>4. CASE i \notin 1 .. n /\ j \notin 1 .. n
      <4>1. i - n \in 1 .. m /\ j - n \in 1 .. m /\ more[i - n] = more[j - n]
        BY <3>2, <3>4
      <4>2. i - n = j - n
        BY <2>5, <4>1
      <4> QED
        BY <1>1, <2>3, <4>2
    <3>5. CASE i \in 1 .. n /\ j \notin 1 .. n
      BY <2>2, <3>1, <3>2, <3>5
    <3>6. CASE i \notin 1 .. n /\ j \in 1 .. n
      BY <2>2, <3>1, <3>2, <3>6
    <3> QED
      BY <3>3, <3>4, <3>5, <3>6
  <2>9. Listing(g, new)
    BY <2>7, <2>8 DEF Listing
  <2>10. head + 1 \in 1 .. Len(new) + 1 /\ head + 1 + Len(new) > head + Len(listed)
    BY <1>1, <1>2, <2>3, <2>7
  <2> QED
    BY <2>4, <2>9, <2>10 DEF WalkOK
<1>3. CASE ~(head <= Len(listed)) /\ fresh # {}
  <2> DEFINE x == ByDegree(g, fresh)[1]
             new == Append(listed, x)
             n == Len(listed)
  <2>1. Walk(g, w) = [out |-> new, head |-> head]
    BY <1>3 DEF Walk
  <2>2. x \in fresh
    <3>1. /\ IsFiniteSet(fresh) /\ Cardinality(fresh) \in Nat
          /\ ByDegree(g, fresh) \in Bijection(1 .. Cardinality(fresh), fresh)
      <4>1. fresh \in SUBSET Verts(g)
        OBVIOUS
      <4> HIDE DEF fresh
      <4> QED
        BY <4>1, ByDegreeLists
    <3>2. Cardinality(fresh) # 0
      BY <1>3, <3>1, FS_EmptySet
    <3>3. 1 \in 1 .. Cardinality(fresh)
      BY <3>1, <3>2
    <3> QED
      BY <3>1, <3>3 DEF Bijection, Injection
  <2>3. x \in Verts(g) /\ x \notin ToSet(listed)
    BY <2>2
  <2> HIDE DEF x
  <2>4. /\ new \in Seq(Verts(g)) /\ Len(new) = n + 1 /\ new[n + 1] = x
        /\ \A i \in 1 .. n : new[i] = listed[i]
    BY <1>1, <2>3
  <2> HIDE DEF new
  <2>5. \A i, j \in 1 .. n + 1 : new[i] = new[j] => i = j
    BY <1>1, <2>3, <2>4
  <2>6. Listing(g, new)
    BY <2>4, <2>5 DEF Listing
  <2>7. head \in 1 .. Len(new) + 1 /\ head + Len(new) > head + Len(listed)
    BY <1>1, <2>4
  <2> QED
    BY <2>1, <2>6, <2>7 DEF WalkOK
<1>4. CASE ~(head <= Len(listed)) /\ fresh = {}
  <2>1. Walk(g, w) = w
    BY <1>4 DEF Walk
  <2>2. ToSet(listed) = Verts(g)
    BY <1>1, <1>4
  <2>3. head = Len(listed) + 1
    BY <1>1, <1>4
  <2> QED
    BY <2>1, <2>2, <2>3 DEF AllWalked
<1> QED
  BY <1>2, <1>3, <1>4

Walks(g) == {w \in [out : Seq(Verts(g)), head : Nat] : WalkOK(g, w)}

WalkSteps(g) == [k \in Nat |-> [w \in Walks(g) |-> Walk(g, w)]]

NoWalk == [out |-> <<>>, head |-> 1]

LEMMA WalksAreSteps ==
  ASSUME NEW g, GraphOK(g), NEW n \in Nat
  PROVE  \E f \in [0 .. n -> Walks(g)] :
           /\ f = [k \in 0 .. n |-> IF k = 0 THEN NoWalk ELSE Walk(g, f[k - 1])]
<1> DEFINE A == Walks(g)
           F == WalkSteps(g)
<1>1. \A w : WalkOK(g, w) => w \in A
  <2> SUFFICES ASSUME NEW w, WalkOK(g, w) PROVE w \in A
    OBVIOUS
  <2>1. w.out \in Seq(Verts(g)) /\ w.head \in Nat /\ w = [out |-> w.out, head |-> w.head]
    <3>1. w.out \in Seq(Verts(g)) /\ Len(w.out) \in Nat /\ w.head \in 1 .. Len(w.out) + 1
      BY DEF WalkOK, Listing
    <3> QED
      BY <3>1 DEF WalkOK
  <2> QED
    BY <2>1 DEF Walks
<1>2. \A w \in A : WalkOK(g, w)
  BY DEF Walks
<1>3. NoWalk \in A
  <2>1. WalkOK(g, NoWalk)
    BY DEF WalkOK, NoWalk, Listing
  <2> QED
    BY <1>1, <2>1
<1>4. \A k \in 1 .. n : \A w \in A : F[k][w] = Walk(g, w) /\ F[k][w] \in A
  <2>1. \A k \in 1 .. n : \A w \in A : F[k][w] = Walk(g, w)
    BY DEF WalkSteps
  <2>2. \A w \in A : Walk(g, w) \in A
    BY <1>1, <1>2, WalkGoesOn
  <2> QED
    BY <2>1, <2>2
<1> HIDE DEF A, F
<1>5. PICK f \in [0 .. n -> A] : StepsFrom(f, n, NoWalk, F)
  BY <1>3, <1>4, Recursion
<1>6. \A k \in 0 .. n : f[k] = IF k = 0 THEN NoWalk ELSE Walk(g, f[k - 1])
  <2> SUFFICES ASSUME NEW k \in 0 .. n
               PROVE  f[k] = IF k = 0 THEN NoWalk ELSE Walk(g, f[k - 1])
    OBVIOUS
  <2>1. CASE k = 0
    BY <1>5, <2>1 DEF StepsFrom
  <2>2. CASE k # 0
    <3>1. k \in 1 .. n /\ k - 1 \in 0 .. n
      BY <2>2
    <3>2. f[k - 1] \in A
      BY <3>1
    <3> QED
      BY <1>4, <1>5, <2>2, <3>1, <3>2 DEF StepsFrom
  <2> QED
    BY <2>1, <2>2
<1>7. f = [k \in 0 .. n |-> IF k = 0 THEN NoWalk ELSE Walk(g, f[k - 1])]
  BY <1>6
<1> QED
  BY <1>7 DEF A

\* The walk of Breadth visits every node: each step expands or adds a node, and
\* there are no more than two steps to make for each.
LEMMA BreadthVisitsAll ==
  ASSUME NEW g, GraphOK(g)
  PROVE  /\ Breadth(g) \in Seq(Verts(g)) /\ Len(Breadth(g)) = Size(g)
         /\ Breadth(g) \in Bijection(1 .. Size(g), Verts(g))
<1> DEFINE n == 2 * Size(g)
           Is(f) == f = [k \in 0 .. n |-> IF k = 0 THEN NoWalk ELSE Walk(g, f[k - 1])]
           walk == CHOOSE f : Is(f)
<1>0. Size(g) \in Nat /\ n \in Nat
  BY DEF GraphOK
<1>1. Breadth(g) = walk[n].out
  BY DEF Breadth, NoWalk
<1>2. Is(walk)
  <2>1. \E f : Is(f)
    <3>1. n \in Nat
      BY <1>0
    <3> HIDE DEF n
    <3>2. \E f \in [0 .. n -> Walks(g)] :
            f = [k \in 0 .. n |-> IF k = 0 THEN NoWalk ELSE Walk(g, f[k - 1])]
      BY <3>1, WalksAreSteps, Zenon
    <3> QED
      BY <3>2, Zenon
  <2> HIDE DEF Is
  <2> QED
    BY <2>1, Zenon
<1> HIDE DEF walk
<1> DEFINE Far(k, w) == AllWalked(g, w) \/ w.head + Len(w.out) >= k + 1
           T == {k \in 0 .. n : WalkOK(g, walk[k]) /\ Far(k, walk[k])}
<1>a. walk[0] = NoWalk /\ \A k \in 1 .. n : walk[k] = Walk(g, walk[k - 1])
  BY <1>0, <1>2
<1> HIDE DEF n, Is
<1>3. 0 \in T
  <2>1. WalkOK(g, NoWalk)
    BY DEF WalkOK, NoWalk, Listing
  <2>2. NoWalk.head + Len(NoWalk.out) >= 0 + 1
    BY DEF NoWalk
  <2> QED
    BY <1>0, <1>a, <2>1, <2>2
<1>4. \A k \in 0 .. n - 1 : k \in T => k + 1 \in T
  <2> SUFFICES ASSUME NEW k \in 0 .. n - 1, k \in T
               PROVE  k + 1 \in T
    OBVIOUS
  <2>1. PICK w : w = walk[k]
    OBVIOUS
  <2>2. PICK x : x = Walk(g, w)
    OBVIOUS
  <2>3. WalkOK(g, w) /\ Far(k, w)
    BY <2>1
  <2>4. walk[k + 1] = x /\ k + 1 \in 0 .. n
    <3>1. k + 1 \in 1 .. n /\ (k + 1) - 1 = k
      BY <1>0
    <3> QED
      BY <1>0, <1>a, <2>1, <2>2, <3>1
  <2>5. /\ WalkOK(g, x)
        /\ \/ AllWalked(g, w) /\ x = w
           \/ x.head + Len(x.out) > w.head + Len(w.out)
    BY <2>2, <2>3, WalkGoesOn
  <2>6. \A y : WalkOK(g, y) => y.head + Len(y.out) \in Int
    BY DEF WalkOK, Listing
  <2>7. Far(k + 1, x)
    <3>1. CASE AllWalked(g, w) /\ x = w
      BY <3>1
    <3>2. CASE x.head + Len(x.out) > w.head + Len(w.out) /\ ~AllWalked(g, w)
      <4> DEFINE a == x.head + Len(x.out)
                 b == w.head + Len(w.out)
      <4>1. a \in Int /\ b \in Int /\ a > b /\ b >= k + 1 /\ k \in Int
        BY <1>0, <2>3, <2>5, <2>6, <3>2
      <4>2. a >= (k + 1) + 1
        <5> HIDE DEF a, b
        <5> QED
          BY <4>1
      <4> QED
        BY <4>2
    <3>3. CASE AllWalked(g, w) /\ x.head + Len(x.out) > w.head + Len(w.out)
      <4>1. Walk(g, w) = w
        <5>1. w.head = Len(w.out) + 1 /\ ToSet(w.out) = Verts(g) /\ Len(w.out) \in Nat
          BY <2>3, <3>3 DEF AllWalked, WalkOK, Listing
        <5>2. ~(w.head <= Len(w.out))
          BY <5>1
        <5> QED
          BY <5>1, <5>2 DEF Walk
      <4> QED
        BY <2>2, <3>3, <4>1
    <3> QED
      BY <2>5, <3>1, <3>2, <3>3
  <2> QED
    BY <2>4, <2>5, <2>7
<1>5. 0 .. n \subseteq T
  <2>1. 0 \in Int /\ n \in Int
    BY <1>0
  <2> HIDE DEF T
  <2> QED
    BY <1>3, <1>4, <2>1, BoundedInduction
<1>6. PICK w : w = walk[n] /\ WalkOK(g, w) /\ Far(n, w)
  BY <1>0, <1>5
<1>7. Listing(g, w.out) /\ Len(w.out) \in Nat /\ Len(w.out) <= Size(g) /\ w.head \in 1 .. Len(w.out) + 1
  BY <1>6, ListingIsShort DEF WalkOK
<1>8. Len(w.out) = Size(g)
  <2>1. CASE AllWalked(g, w)
    <3>1. w.out \in Seq(Verts(g)) /\ ToSet(w.out) = Verts(g)
      BY <1>7, <2>1 DEF AllWalked, Listing
    <3>2. \A v \in Verts(g) : \E i \in 1 .. Len(w.out) : w.out[i] = v
      BY <3>1 DEF ToSet
    <3>3. w.out \in Surjection(1 .. Len(w.out), Verts(g))
      BY <3>1, <3>2 DEF Surjection
    <3>4. IsFiniteSet(1 .. Len(w.out)) /\ Cardinality(1 .. Len(w.out)) = Len(w.out)
      <4>1. PICK m \in Nat : m = Len(w.out)
        BY <1>7
      <4>2. IsFiniteSet(1 .. m) /\ Cardinality(1 .. m) = m
        BY FS_Interval
      <4> QED
        BY <4>1, <4>2
    <3>5. Cardinality(Verts(g)) <= Cardinality(1 .. Len(w.out))
      BY <3>3, <3>4, FS_Surjection
    <3> QED
      BY <1>0, <1>7, <3>4, <3>5 DEF Size
  <2>2. CASE w.head + Len(w.out) >= n + 1
    BY <1>0, <1>7, <2>2 DEF n
  <2> QED
    BY <1>6, <2>1, <2>2
<1>9. w.out \in Bijection(1 .. Size(g), Verts(g))
  BY <1>7, <1>8, ListingIsShort
<1> QED
  BY <1>1, <1>6, <1>7, <1>8, <1>9 DEF Listing

LEMMA OrderIsBijection ==
  ASSUME NEW g, GraphOK(g)
  PROVE  Order(g) \in Bijection(Verts(g), Verts(g))
<1>1. PICK s : s = Breadth(g)
  OBVIOUS
<1>2. PICK n \in Nat : n = Size(g) /\ Verts(g) = 0 .. n - 1
  BY DEF GraphOK
<1>3. /\ s \in Seq(Verts(g)) /\ Len(s) = n
      /\ \A i, j \in 1 .. n : s[i] = s[j] => i = j
      /\ \A v \in Verts(g) : \E i \in 1 .. n : s[i] = v
      /\ \A i \in 1 .. n : s[i] \in Verts(g)
  <2>1. s \in Seq(Verts(g)) /\ Len(s) = n /\ s \in Bijection(1 .. n, Verts(g))
    BY <1>1, <1>2, BreadthVisitsAll
  <2> QED
    BY <2>1 DEF Bijection, Injection, Surjection, IsInjective
<1>4. PICK r : r = Reverse(s)
  OBVIOUS
<1>5. \A k \in Verts(g) : r[k + 1] = s[n - k]
  <2>1. r = [i \in 1 .. n |-> s[n - i + 1]]
    BY <1>3, <1>4 DEF Reverse
  <2>2. SUFFICES ASSUME NEW k \in Verts(g)
                 PROVE  r[k + 1] = s[n - k]
    OBVIOUS
  <2>3. k \in Int /\ k + 1 \in 1 .. n /\ n - (k + 1) + 1 = n - k
    BY <1>2, <2>2
  <2> QED
    BY <2>1, <2>3
<1>6. Order(g) = [k \in Verts(g) |-> s[n - k]]
  <2>1. Order(g) = [k \in Verts(g) |-> r[k + 1]]
    BY <1>1, <1>4 DEF Order
  <2> QED
    BY <1>5, <2>1
<1>7. \A k \in Verts(g) : n - k \in 1 .. n
  BY <1>2
<1>8. \A i, j \in Verts(g) : Order(g)[i] = Order(g)[j] => i = j
  <2> SUFFICES ASSUME NEW i \in Verts(g), NEW j \in Verts(g), Order(g)[i] = Order(g)[j]
               PROVE  i = j
    OBVIOUS
  <2>1. n - i = n - j
    BY <1>3, <1>6, <1>7
  <2> QED
    BY <1>2, <2>1
<1>9. \A v \in Verts(g) : \E k \in Verts(g) : Order(g)[k] = v
  <2> SUFFICES ASSUME NEW v \in Verts(g) PROVE \E k \in Verts(g) : Order(g)[k] = v
    OBVIOUS
  <2>1. PICK i \in 1 .. n : s[i] = v
    BY <1>3
  <2>2. n - i \in Verts(g) /\ n - (n - i) = i
    BY <1>2
  <2> QED
    BY <1>6, <2>1, <2>2
<1>10. Order(g) \in [Verts(g) -> Verts(g)]
  BY <1>3, <1>6, <1>7
<1> QED
  BY <1>8, <1>9, <1>10 DEF Bijection, Injection, Surjection, IsInjective

\* The slot of a node is the one that holds it.
LEMMA SlotHoldsNode ==
  ASSUME NEW g, NEW order \in Bijection(Verts(g), Verts(g)), NEW v \in Verts(g)
  PROVE  /\ Slot(g, order, v) \in Verts(g) /\ order[Slot(g, order, v)] = v
         /\ \A k \in Verts(g) : order[k] = v => k = Slot(g, order, v)
<1>1. /\ \E k \in Verts(g) : order[k] = v
      /\ \A i, j \in Verts(g) : order[i] = order[j] => i = j
  BY DEF Bijection, Injection, Surjection, IsInjective
<1>2. Slot(g, order, v) \in Verts(g) /\ order[Slot(g, order, v)] = v
  BY <1>1, Zenon DEF Slot
<1> QED
  BY <1>1, <1>2

-----------------------------------------------------------------------------
(* The gates are the coupled edges, each once.                             *)

LEMMA CoupledFacts ==
  ASSUME NEW g, GraphOK(g)
  PROVE  /\ IsFiniteSet(Coupled(g)) /\ Coupled(g) \subseteq DOMAIN g.edges
         /\ Cardinality(Coupled(g)) \in Nat
         /\ \A k \in Coupled(g) :
              /\ k \in Nat /\ Coupling(g, k) \in Int
              /\ g.edges[k][1] \in Verts(g) /\ g.edges[k][2] \in Verts(g)
              /\ g.edges[k][1] # g.edges[k][2]
<1>1. Coupled(g) \in SUBSET (DOMAIN g.edges) /\ IsFiniteSet(DOMAIN g.edges)
  BY EdgeFacts DEF Coupled
<1>2. IsFiniteSet(Coupled(g)) /\ Cardinality(Coupled(g)) \in Nat
  BY <1>1, FS_Subset, FS_CardinalityType
<1>3. \A k \in Coupled(g) : k \in Nat /\ Coupling(g, k) \in Int
  BY <1>1, EdgeFacts
<1>4. \A k \in Coupled(g) : /\ g.edges[k][1] \in Verts(g) /\ g.edges[k][2] \in Verts(g)
                            /\ g.edges[k][1] # g.edges[k][2]
  BY DEF Coupled, Linked, Inside
<1> QED
  BY <1>1, <1>2, <1>3, <1>4

\* A gate joins two slots, the lower one first.
Gate(g, x) ==
  /\ x = <<x[1], x[2], x[3]>>
  /\ x[1] \in Verts(g) /\ x[2] \in Verts(g) /\ x[1] < x[2] /\ x[3] \in Int

LEMMA GateJoinsSlots ==
  ASSUME NEW g, GraphOK(g), NEW order \in Bijection(Verts(g), Verts(g)), NEW k \in Coupled(g)
  PROVE  /\ Gate(g, GateOf(g, order, k))
         /\ GateOf(g, order, k)[3] = Coupling(g, k)
         /\ \/ /\ order[GateOf(g, order, k)[1]] = g.edges[k][1]
               /\ order[GateOf(g, order, k)[2]] = g.edges[k][2]
            \/ /\ order[GateOf(g, order, k)[1]] = g.edges[k][2]
               /\ order[GateOf(g, order, k)[2]] = g.edges[k][1]
<1>1. PICK u \in Verts(g), v \in Verts(g) : u = g.edges[k][1] /\ v = g.edges[k][2] /\ u # v
  BY CoupledFacts
<1>2. PICK a : a = Slot(g, order, u)
  OBVIOUS
<1>3. PICK b : b = Slot(g, order, v)
  OBVIOUS
<1>4. a \in Verts(g) /\ order[a] = u /\ b \in Verts(g) /\ order[b] = v
  BY <1>2, <1>3, SlotHoldsNode
<1>5. a # b /\ a \in Nat /\ b \in Nat
  BY <1>1, <1>4 DEF GraphOK
<1>6. GateOf(g, order, k) = <<AtMost(a, b), AtLeast(a, b), Coupling(g, k)>>
  BY <1>1, <1>2, <1>3 DEF GateOf
<1>7. \/ a < b /\ AtMost(a, b) = a /\ AtLeast(a, b) = b
      \/ b < a /\ AtMost(a, b) = b /\ AtLeast(a, b) = a
  BY <1>5 DEF AtMost, AtLeast
<1>8. Coupling(g, k) \in Int
  BY CoupledFacts
<1> QED
  BY <1>1, <1>4, <1>6, <1>7, <1>8 DEF Gate

GateOrder(g, order) == {p \in Coupled(g) \X Coupled(g) : EarlierGate(g, order, p[1], p[2])}

LEMMA GatesAreOrdered ==
  ASSUME NEW g, GraphOK(g), NEW order \in Bijection(Verts(g), Verts(g))
  PROVE  Orders(GateOrder(g, order), Coupled(g))
<1> DEFINE C == Coupled(g)
           R == GateOrder(g, order)
           lo(k) == GateOf(g, order, k)[1]
           span(k) == GateOf(g, order, k)[2] - GateOf(g, order, k)[1]
<1>1. \A k \in C : k \in Nat /\ lo(k) \in Nat /\ span(k) \in Int
  <2> SUFFICES ASSUME NEW k \in C PROVE k \in Nat /\ lo(k) \in Nat /\ span(k) \in Int
    OBVIOUS
  <2>1. k \in Nat
    BY CoupledFacts
  <2>2. Gate(g, GateOf(g, order, k))
    BY GateJoinsSlots
  <2>3. PICK x : x = GateOf(g, order, k)
    OBVIOUS
  <2>4. x[1] \in Nat /\ x[2] \in Nat
    BY <2>2, <2>3 DEF Gate, GraphOK
  <2> QED
    BY <2>1, <2>3, <2>4
<1>2. \A k, l \in C : <<k, l>> \in R <=>
        \/ span(k) < span(l)
        \/ span(k) = span(l) /\ lo(k) < lo(l)
        \/ span(k) = span(l) /\ lo(k) = lo(l) /\ k < l
  BY DEF GateOrder, EarlierGate
<1> HIDE DEF C, R, lo, span
<1>3. \A x \in C : <<x, x>> \notin R
  BY <1>1, <1>2
<1>4. \A x, y, z \in C : <<x, y>> \in R /\ <<y, z>> \in R => <<x, z>> \in R
  <2> SUFFICES ASSUME NEW x \in C, NEW y \in C, NEW z \in C, <<x, y>> \in R, <<y, z>> \in R
               PROVE  <<x, z>> \in R
    OBVIOUS
  <2>1. /\ x \in Nat /\ y \in Nat /\ z \in Nat
        /\ lo(x) \in Nat /\ lo(y) \in Nat /\ lo(z) \in Nat
        /\ span(x) \in Int /\ span(y) \in Int /\ span(z) \in Int
    BY <1>1
  <2>2. /\ \/ span(x) < span(y)
           \/ span(x) = span(y) /\ lo(x) < lo(y)
           \/ span(x) = span(y) /\ lo(x) = lo(y) /\ x < y
        /\ \/ span(y) < span(z)
           \/ span(y) = span(z) /\ lo(y) < lo(z)
           \/ span(y) = span(z) /\ lo(y) = lo(z) /\ y < z
    BY <1>2
  <2>3. \/ span(x) < span(z)
        \/ span(x) = span(z) /\ lo(x) < lo(z)
        \/ span(x) = span(z) /\ lo(x) = lo(z) /\ x < z
    BY <2>1, <2>2
  <2> QED
    BY <1>2, <2>3
<1>5. \A x, y \in C : x # y => <<x, y>> \in R \/ <<y, x>> \in R
  <2> SUFFICES ASSUME NEW x \in C, NEW y \in C, x # y
               PROVE  <<x, y>> \in R \/ <<y, x>> \in R
    OBVIOUS
  <2>1. /\ x \in Nat /\ y \in Nat /\ lo(x) \in Nat /\ lo(y) \in Nat
        /\ span(x) \in Int /\ span(y) \in Int
    BY <1>1
  <2>2. \/ \/ span(x) < span(y)
           \/ span(x) = span(y) /\ lo(x) < lo(y)
           \/ span(x) = span(y) /\ lo(x) = lo(y) /\ x < y
        \/ \/ span(y) < span(x)
           \/ span(y) = span(x) /\ lo(y) < lo(x)
           \/ span(y) = span(x) /\ lo(y) = lo(x) /\ y < x
    BY <2>1
  <2> QED
    BY <1>2, <2>2
<1> QED
  BY <1>3, <1>4, <1>5 DEF Orders, C, R

LEMMA GatesAreListed ==
  ASSUME NEW g, GraphOK(g), NEW order \in Bijection(Verts(g), Verts(g))
  PROVE  \E s \in Bijection(1 .. Cardinality(Coupled(g)), Coupled(g)) :
           Gates(g, order) = [i \in 1 .. Cardinality(Coupled(g)) |-> GateOf(g, order, s[i])]
<1> DEFINE C == Coupled(g)
           R == GateOrder(g, order)
           before(k, l) == EarlierGate(g, order, k, l)
           at1(i) == CHOOSE x \in C : Cardinality({y \in C : before(y, x)}) = i - 1
           at2(i) == CHOOSE x \in C : Cardinality({y \in C : <<y, x>> \in R}) = i - 1
           sorted == [i \in 1 .. Cardinality(C) |-> at1(i)]
<1>1. InOrderOf(C, R) \in Bijection(1 .. Cardinality(C), C)
  BY CoupledFacts, GatesAreOrdered, OrderIsListed
<1>2. InOrderOf(C, R) = [i \in 1 .. Cardinality(C) |-> at2(i)]
  BY DEF InOrderOf
<1>3. \A x \in C : {y \in C : before(y, x)} = {y \in C : <<y, x>> \in R}
  BY DEF GateOrder
<1>4. \A i \in 1 .. Cardinality(C) : at1(i) = at2(i)
  <2> HIDE DEF R, before, C
  <2> QED
    BY <1>3
<1>5. sorted = InOrderOf(C, R)
  BY <1>2, <1>4
<1>6. Gates(g, order) = [i \in DOMAIN sorted |-> GateOf(g, order, sorted[i])]
  BY DEF Gates, Sorted
<1> HIDE DEF at1, at2, R, before
<1>7. DOMAIN sorted = 1 .. Cardinality(C)
  OBVIOUS
<1> HIDE DEF sorted, C
<1> QED
  BY <1>1, <1>5, <1>6, <1>7 DEF C

LEMMA GatesAreGates ==
  ASSUME NEW g, GraphOK(g), NEW order \in Bijection(Verts(g), Verts(g))
  PROVE  /\ DOMAIN Gates(g, order) = 1 .. Cardinality(Coupled(g))
         /\ \A i \in DOMAIN Gates(g, order) : Gate(g, Gates(g, order)[i])
<1> DEFINE n == Cardinality(Coupled(g))
<1>1. PICK s \in Bijection(1 .. n, Coupled(g)) :
        Gates(g, order) = [i \in 1 .. n |-> GateOf(g, order, s[i])]
  BY GatesAreListed
<1>2. \A i \in 1 .. n : s[i] \in Coupled(g)
  BY DEF Bijection, Injection
<1> QED
  BY <1>1, <1>2, GateJoinsSlots

-----------------------------------------------------------------------------
(* Bounds that are chosen.                                                 *)

LEMMA GreatestOf ==
  ASSUME NEW S \in SUBSET Int, S # {}, NEW N \in Int, \A x \in S : x <= N
  PROVE  Max(S) \in S /\ \A x \in S : x <= Max(S)
<1> DEFINE T == {N - x : x \in S}
<1>1. T \subseteq Nat /\ T # {}
  <2>1. \A x \in S : N - x \in Nat
    OBVIOUS
  <2>2. PICK x \in S : TRUE
    OBVIOUS
  <2>3. N - x \in T
    OBVIOUS
  <2> QED
    BY <2>1, <2>3
<1>2. PICK m \in T : \A k \in T : m <= k
  <2> HIDE DEF T
  <2> QED
    BY <1>1, LeastNumber
<1>3. PICK x \in S : m = N - x
  BY <1>2
<1>4. \A y \in S : x >= y
  <2> SUFFICES ASSUME NEW y \in S PROVE x >= y
    OBVIOUS
  <2>1. m <= N - y
    BY <1>2
  <2> QED
    BY <1>3, <2>1
<1>5. Max(S) \in S /\ \A y \in S : Max(S) >= y
  BY <1>4, Zenon DEF Max
<1> QED
  BY <1>5

LEMMA StepsAreSome == ASSUME job \in Jobs PROVE Steps \in Nat \ {0} /\ PolishSweeps \in Nat \ {0}
<1>1. job.sweeps \in Nat
  BY TensorJobsAssumption
<1>2. Steps \in Nat \ {0}
  BY <1>1, ScheduleAssumption DEF Steps, AtLeast, AtMost
<1> QED
  BY <1>1, <1>2, ScheduleAssumption DEF PolishSweeps, AtLeast

LEMMA MpsChiFits ==
  ASSUME job \in Jobs, NEW c, NEW cap \in Nat
  PROVE  MpsChi(c, cap) \in Nat \ {0}
<1> DEFINE Fits(d) == /\ 16 * Size(job.graph) * d * d <= MemoryCap
                      /\ FlopConst * Steps * SpanSum(c) * d * d * d <= FlopBudget
           S == {1} \cup {d \in 1 .. cap : Fits(d)}
<1>1. MpsChi(c, cap) = Max(S)
  BY DEF MpsChi
<1> HIDE DEF Fits
<1>2. S \in SUBSET Int /\ S # {} /\ cap + 1 \in Int /\ \A x \in S : x <= cap + 1
  OBVIOUS
<1>3. S \subseteq Nat \ {0}
  OBVIOUS
<1> HIDE DEF S
<1>4. Max(S) \in S
  BY <1>2, GreatestOf
<1> QED
  BY <1>1, <1>3, <1>4

\* The work of a step.
StepWork == FlopConst * SpanSum(chain) * chi * chi * chi

\* select_steps, of what it is chosen by.
WalkedBy(steps, sum, d) ==
  Max({1} \cup {k \in 1 .. steps : k * FlopConst * sum * d * d * d <= WorkBudget})

LEMMA WalkedIs == Walked = WalkedBy(Steps, SpanSum(chain), chi)
BY DEF Walked, WalkedBy

LEMMA WalkedFits ==
  ASSUME NEW steps \in Nat \ {0}, NEW sum \in Nat, NEW d \in Nat
  PROVE  LET w == WalkedBy(steps, sum, d) IN
         /\ w \in Nat \ {0} /\ w <= steps
         /\ w = 1 \/ w * (FlopConst * sum * d * d * d) <= WorkBudget
<1> DEFINE Fits(k) == k * FlopConst * sum * d * d * d <= WorkBudget
           S == {1} \cup {k \in 1 .. steps : Fits(k)}
           w == WalkedBy(steps, sum, d)
<1>1. w = Max(S)
  BY DEF WalkedBy
<1> HIDE DEF Fits, w
<1>2. S \in SUBSET Int /\ S # {} /\ \A x \in S : x <= steps
  OBVIOUS
<1>3. Max(S) \in S
  <2> HIDE DEF S
  <2> QED
    BY <1>2, GreatestOf
<1>4. Max(S) = 1 \/ (Max(S) \in 1 .. steps /\ Fits(Max(S)))
  BY <1>3
<1>5. ASSUME NEW k \in 1 .. steps, Fits(k)
      PROVE  k * (FlopConst * sum * d * d * d) <= WorkBudget
  <2>1. PICK f \in Nat : f = FlopConst
    BY ScheduleAssumption
  <2>2. k * f * sum * d * d * d <= WorkBudget
    BY <1>5, <2>1 DEF Fits
  <2>3. k * (f * sum * d * d * d) = k * f * sum * d * d * d
    OBVIOUS
  <2> QED
    BY <2>1, <2>2, <2>3
<1> HIDE DEF S
<1>6. /\ w \in Nat \ {0} /\ w <= steps
      /\ w = 1 \/ w * (FlopConst * sum * d * d * d) <= WorkBudget
  BY <1>1, <1>4, <1>5
<1> QED
  BY <1>6 DEF w

-----------------------------------------------------------------------------
(* The spans of a chain.                                                   *)

Spans(c) == [i \in DOMAIN c.gates |-> c.gates[i][2] - c.gates[i][1]]

LEMMA ChainFacts ==
  ASSUME NEW g, GraphOK(g)
  PROVE  /\ Chain(g).order \in Bijection(Verts(g), Verts(g))
         /\ DOMAIN Chain(g).gates = 1 .. Cardinality(Coupled(g))
         /\ Cardinality(Coupled(g)) \in Nat
         /\ IsFiniteSet(DOMAIN Chain(g).gates)
         /\ \A i \in DOMAIN Chain(g).gates :
              /\ Gate(g, Chain(g).gates[i])
              /\ Spans(Chain(g))[i] \in Nat
<1>1. Chain(g).order \in Bijection(Verts(g), Verts(g))
  BY OrderIsBijection DEF Chain
<1>2. Chain(g).gates = Gates(g, Order(g))
  BY DEF Chain
<1>3. /\ DOMAIN Chain(g).gates = 1 .. Cardinality(Coupled(g))
      /\ \A i \in DOMAIN Chain(g).gates : Gate(g, Chain(g).gates[i])
  BY <1>2, OrderIsBijection, GatesAreGates
<1>4. Cardinality(Coupled(g)) \in Nat
  BY CoupledFacts
<1>5. IsFiniteSet(DOMAIN Chain(g).gates)
  <2>1. IsFiniteSet(1 .. Cardinality(Coupled(g)))
    BY <1>4, FS_Interval
  <2> QED
    BY <1>3, <2>1
<1>6. ASSUME NEW i \in DOMAIN Chain(g).gates PROVE Spans(Chain(g))[i] \in Nat
  <2>1. PICK x : x = Chain(g).gates[i]
    OBVIOUS
  <2>2. x[1] \in Nat /\ x[2] \in Nat /\ x[1] < x[2]
    BY <1>3, <2>1 DEF Gate, GraphOK
  <2>3. Spans(Chain(g))[i] = x[2] - x[1]
    BY <2>1 DEF Spans
  <2> QED
    BY <2>2, <2>3
<1> QED
  BY <1>1, <1>3, <1>4, <1>5, <1>6

\* What is summed up to m.
LEMMA PrefixSums ==
  ASSUME NEW n \in Nat, NEW f, \A i \in 1 .. n : f[i] \in Nat
  PROVE  /\ SumFunctionOnSet(f, 1 .. 0) = 0
         /\ SumFunctionOnSet(f, 1 .. n) \in Nat
         /\ \A m \in 1 .. n :
              /\ SumFunctionOnSet(f, 1 .. m - 1) \in Nat /\ SumFunctionOnSet(f, 1 .. m) \in Nat
              /\ SumFunctionOnSet(f, 1 .. m) = SumFunctionOnSet(f, 1 .. m - 1) + f[m]
<1>1. \A m \in 0 .. n : IsFiniteSet(1 .. m) /\ SumFunctionOnSet(f, 1 .. m) \in Nat
  <2> SUFFICES ASSUME NEW m \in 0 .. n
               PROVE  IsFiniteSet(1 .. m) /\ SumFunctionOnSet(f, 1 .. m) \in Nat
    OBVIOUS
  <2>1. m \in Nat /\ \A x \in 1 .. m : f[x] \in Nat
    OBVIOUS
  <2>2. IsFiniteSet(1 .. m)
    BY <2>1, FS_Interval
  <2> QED
    BY <2>1, <2>2, SumOfNaturals
<1>2. ASSUME NEW m \in 1 .. n
      PROVE  SumFunctionOnSet(f, 1 .. m) = SumFunctionOnSet(f, 1 .. m - 1) + f[m]
  <2>1. m - 1 \in 0 .. n /\ m \notin 1 .. m - 1 /\ 1 .. m = (1 .. m - 1) \cup {m}
    OBVIOUS
  <2>2. \A x \in 1 .. m - 1 : f[x] \in Int
    OBVIOUS
  <2>3. f[m] \in Int /\ IsFiniteSet(1 .. m - 1)
    BY <1>1, <2>1
  <2>4. SumFunctionOnSet(f, (1 .. m - 1) \cup {m}) = f[m] + SumFunctionOnSet(f, 1 .. m - 1)
    BY <2>1, <2>2, <2>3, SumAdjoin
  <2>5. SumFunctionOnSet(f, 1 .. m - 1) \in Nat
    BY <1>1, <2>1
  <2>6. PICK a \in Int, b \in Int : a = f[m] /\ b = SumFunctionOnSet(f, 1 .. m - 1)
    BY <2>3, <2>5
  <2>7. SumFunctionOnSet(f, 1 .. m) = a + b
    BY <2>1, <2>4, <2>6
  <2>8. a + b = b + a
    OBVIOUS
  <2> QED
    BY <2>6, <2>7, <2>8, Zenon
<1>3. SumFunctionOnSet(f, 1 .. 0) = 0
  <2>1. 1 .. 0 = {}
    OBVIOUS
  <2> QED
    BY <2>1, SumOfNothing
<1>4. \A m \in 1 .. n : m - 1 \in 0 .. n /\ m \in 0 .. n
  OBVIOUS
<1>5. n \in 0 .. n
  OBVIOUS
<1> QED
  BY <1>1, <1>2, <1>3, <1>4, <1>5

\* The spans of the gates up to m.
SpanUpTo(c, m) == SumFunctionOnSet(Spans(c), 1 .. m)

LEMMA SpansAddUp ==
  ASSUME NEW g, GraphOK(g)
  PROVE  LET c == Chain(g) IN
         /\ SpanSum(c) \in Nat /\ SpanSum(c) = SpanUpTo(c, Cardinality(Coupled(g)))
         /\ SpanUpTo(c, 0) = 0
         /\ \A m \in 1 .. Cardinality(Coupled(g)) :
              /\ SpanUpTo(c, m - 1) \in Nat /\ SpanUpTo(c, m) \in Nat
              /\ SpanUpTo(c, m) = SpanUpTo(c, m - 1) + (c.gates[m][2] - c.gates[m][1])
<1> DEFINE c == Chain(g)
           n == Cardinality(Coupled(g))
           f == Spans(c)
<1>1. /\ DOMAIN c.gates = 1 .. n /\ n \in Nat
      /\ \A i \in 1 .. n : f[i] \in Nat /\ f[i] = c.gates[i][2] - c.gates[i][1]
  BY ChainFacts DEF Spans
<1>2. SpanSum(c) = SumFunctionOnSet(f, 1 .. n)
  <2>1. DOMAIN f = 1 .. n
    BY <1>1 DEF Spans
  <2>2. SpanSum(c) = SumFunction(f)
    BY DEF SpanSum, Spans
  <2> QED
    BY <2>1, <2>2 DEF SumFunction
<1> HIDE DEF f, n
<1>3. /\ SumFunctionOnSet(f, 1 .. 0) = 0 /\ SumFunctionOnSet(f, 1 .. n) \in Nat
      /\ \A m \in 1 .. n :
           /\ SumFunctionOnSet(f, 1 .. m - 1) \in Nat /\ SumFunctionOnSet(f, 1 .. m) \in Nat
           /\ SumFunctionOnSet(f, 1 .. m) = SumFunctionOnSet(f, 1 .. m - 1) + f[m]
  BY <1>1, PrefixSums
<1> HIDE DEF c
<1>4. /\ SpanSum(c) \in Nat /\ SpanSum(c) = SpanUpTo(c, n) /\ SpanUpTo(c, 0) = 0
      /\ \A m \in 1 .. n :
              /\ SpanUpTo(c, m - 1) \in Nat /\ SpanUpTo(c, m) \in Nat
              /\ SpanUpTo(c, m) = SpanUpTo(c, m - 1) + (c.gates[m][2] - c.gates[m][1])
  BY <1>1, <1>2, <1>3 DEF SpanUpTo, f
<1> QED
  BY <1>4 DEF c, n

-----------------------------------------------------------------------------
(* The chain is evolved within its bounds.                                 *)

TensorTypes ==
  /\ job \in Jobs
  /\ at \in [pc : {"idle", "step", "gates", "draw", "polish", "done"}, step : Nat, gate : Nat \ {0}]
  /\ cuts \in Nat
  /\ at.pc = "idle" => at = Rest /\ cuts = 0

Laid(kernel) == job.kernel = kernel /\ at.pc \notin {"idle", "done"}

\* What the bonds are bounded by at all times: the bond dimension, and the left
\* side of their cut.
BondsFit(g, b, d) ==
  /\ b \in [0 .. Size(g) -> Nat \ {0}]
  /\ b[0] = 1 /\ b[Size(g)] = 1
  /\ \A k \in 0 .. Size(g) : b[k] <= d /\ b[k] <= Power(2, k)

MpsLaid ==
  Laid("mps") =>
    /\ chain = Chain(job.graph) /\ chi \in Nat \ {0}
    /\ Size(job.graph) > 0
    /\ BondsFit(job.graph, bond, chi)
    /\ DOMAIN form = Verts(job.graph)

UnitWork == FlopConst * chi * chi * chi

MpsWork ==
  Laid("mps") =>
    /\ at.step <= Walked
    /\ at.pc = "gates" =>
         /\ at.step < Walked
         /\ at.gate <= Cardinality(Coupled(job.graph)) + 1
         /\ cuts <= at.step * StepWork + UnitWork * SpanUpTo(chain, at.gate - 1)
    /\ at.pc # "gates" => cuts <= at.step * StepWork

\* The right side of the cuts.
RightFit(g, b) == \A k \in 0 .. Size(g) : b[k] <= Power(2, Size(g) - k)

MpsCanonical ==
  Laid("mps") /\ at.pc \in {"draw", "polish"} /\ job.init = "Anneal" =>
    /\ \A k \in Slots \ {0} : form[k] = "right"
    /\ RightFit(job.graph, bond)

LEMMA KeptIsSmall ==
  ASSUME NEW rows \in Nat, NEW cols \in Nat, NEW cap \in Nat, NEW x \in Kept(rows, cols, cap)
  PROVE  x \in Nat \ {0} /\ x <= rows /\ x <= cols /\ (cap # 0 => x <= cap)
BY DEF Kept, AtMost, AtLeast

LEMMA PowersOfTwo ==
  ASSUME NEW k \in Nat
  PROVE  Power(2, k) \in Int /\ Power(2, k + 1) = 2 * Power(2, k) /\ Power(2, 0) = 1
<1>1. 2 \in Int
  OBVIOUS
<1> QED
  BY <1>1, PowerStep, Zenon

LEMMA ZipUpFits ==
  ASSUME NEW g, GraphOK(g), Size(g) > 0, chi \in Nat \ {0}, BondsFit(g, bond, chi),
         DOMAIN form = Verts(g), NEW u \in Verts(g), NEW v \in Verts(g), u < v, ZipUp(u, v)
  PROVE  BondsFit(g, bond', chi) /\ DOMAIN form' = Verts(g)
<1>1. PICK n \in Nat \ {0} : n = Size(g) /\ Verts(g) = 0 .. n - 1
  BY DEF GraphOK
<1>2. /\ bond \in [0 .. n -> Nat \ {0}] /\ bond[0] = 1 /\ bond[n] = 1
      /\ \A k \in 0 .. n : bond[k] <= chi /\ bond[k] <= Power(2, k)
  BY <1>1 DEF BondsFit
<1>3. PICK nb \in [u + 1 .. v -> 1 .. chi] :
        /\ nb[u + 1] \in Kept(2 * bond[u], 2 * bond[u + 1], chi)
        /\ \A k \in u + 2 .. v : nb[k] \in Kept(2 * nb[k - 1], 2 * bond[k], chi)
        /\ bond' = [k \in DOMAIN bond |-> IF k \in u + 1 .. v THEN nb[k] ELSE bond[k]]
        /\ form' = [k \in Slots |-> IF k \in u .. v - 1 THEN "left"
                                ELSE IF k = v THEN "unit" ELSE form[k]]
  BY DEF ZipUp
<1>4. u \in 0 .. n /\ v \in 0 .. n /\ u \in Nat /\ v \in Nat /\ u + 1 \in 0 .. n /\ v < n
  BY <1>1
<1>5. \A k \in 0 .. n : Power(2, k) \in Int /\ Power(2, k + 1) = 2 * Power(2, k)
  <2> SUFFICES ASSUME NEW k \in 0 .. n
               PROVE  Power(2, k) \in Int /\ Power(2, k + 1) = 2 * Power(2, k)
    OBVIOUS
  <2>1. k \in Nat
    OBVIOUS
  <2> QED
    BY <2>1, PowersOfTwo
<1> DEFINE T == {k \in u + 1 .. v : nb[k] <= Power(2, k)}
<1>6. u + 1 \in T
  <2>1. bond[u] \in Nat /\ bond[u + 1] \in Nat /\ bond[u] <= Power(2, u)
    BY <1>2, <1>4
  <2>2. nb[u + 1] \in Nat /\ nb[u + 1] <= 2 * bond[u]
    <3>1. 2 * bond[u] \in Nat /\ 2 * bond[u + 1] \in Nat
      BY <2>1
    <3> QED
      BY <1>3, <3>1, KeptIsSmall
  <2>3. Power(2, u) \in Int /\ Power(2, u + 1) = 2 * Power(2, u)
    BY <1>4, <1>5
  <2>4. nb[u + 1] <= Power(2, u + 1)
    BY <2>1, <2>2, <2>3
  <2> QED
    BY <1>4, <2>4
<1>7. \A k \in u + 1 .. v - 1 : k \in T => k + 1 \in T
  <2> SUFFICES ASSUME NEW k \in u + 1 .. v - 1, k \in T
               PROVE  k + 1 \in T
    OBVIOUS
  <2>1. k + 1 \in u + 2 .. v /\ (k + 1) - 1 = k /\ k \in 0 .. n /\ k + 1 \in 0 .. n
        /\ k \in u + 1 .. v /\ k + 1 \in u + 1 .. v
    BY <1>4
  <2>2. nb[k + 1] \in Kept(2 * nb[k], 2 * bond[k + 1], chi)
    BY <1>3, <2>1
  <2>3. nb[k] \in Nat /\ bond[k + 1] \in Nat
    BY <1>2, <1>3, <2>1
  <2>4. nb[k + 1] \in Nat /\ nb[k + 1] <= 2 * nb[k]
    <3>1. 2 * nb[k] \in Nat /\ 2 * bond[k + 1] \in Nat
      BY <2>3
    <3> QED
      BY <2>2, <3>1, KeptIsSmall
  <2>5. nb[k] <= Power(2, k) /\ Power(2, k) \in Int /\ Power(2, k + 1) = 2 * Power(2, k)
    BY <1>5, <2>1
  <2>6. nb[k + 1] <= Power(2, k + 1)
    BY <2>3, <2>4, <2>5
  <2> QED
    BY <2>1, <2>6
<1>8. u + 1 .. v \subseteq T
  <2>1. u + 1 \in Int /\ v \in Int
    BY <1>4
  <2> HIDE DEF T
  <2> QED
    BY <1>6, <1>7, <2>1, BoundedInduction
<1>9. \A k \in 0 .. n : bond'[k] = IF k \in u + 1 .. v THEN nb[k] ELSE bond[k]
  BY <1>2, <1>3
<1>10. DOMAIN bond' = 0 .. n /\ DOMAIN form' = Verts(g) /\ bond' = [k \in 0 .. n |-> bond'[k]]
  BY <1>2, <1>3 DEF Slots
<1>11. \A k \in 0 .. n : bond'[k] \in Nat \ {0} /\ bond'[k] <= chi /\ bond'[k] <= Power(2, k)
  <2> SUFFICES ASSUME NEW k \in 0 .. n
               PROVE  bond'[k] \in Nat \ {0} /\ bond'[k] <= chi /\ bond'[k] <= Power(2, k)
    OBVIOUS
  <2>1. CASE k \in u + 1 .. v
    <3>1. bond'[k] = nb[k] /\ nb[k] \in 1 .. chi /\ nb[k] <= Power(2, k)
      BY <1>3, <1>8, <1>9, <2>1
    <3> QED
      BY <3>1
  <2>2. CASE k \notin u + 1 .. v
    BY <1>2, <1>9, <2>2
  <2> QED
    BY <2>1, <2>2
<1>12. bond'[0] = 1 /\ bond'[n] = 1
  <2>1. 0 \notin u + 1 .. v /\ n \notin u + 1 .. v /\ 0 \in 0 .. n /\ n \in 0 .. n
    BY <1>4
  <2> QED
    BY <1>2, <1>9, <2>1
<1>13. bond' \in [0 .. n -> Nat \ {0}]
  BY <1>10, <1>11
<1> QED
  BY <1>1, <1>10, <1>11, <1>12, <1>13 DEF BondsFit

LEMMA CanonicalFits ==
  ASSUME NEW g, GraphOK(g), g = job.graph, Size(g) > 0, chi \in Nat \ {0}, BondsFit(g, bond, chi),
         DOMAIN form = Verts(g), RightCanonicalize
  PROVE  /\ BondsFit(g, bond', chi) /\ DOMAIN form' = Verts(g)
         /\ RightFit(g, bond') /\ \A k \in (DOMAIN form') \ {0} : form'[k] = "right"
<1>1. PICK n \in Nat \ {0} : n = Size(g) /\ Verts(g) = 0 .. n - 1 /\ LastSlot = n - 1
  BY DEF GraphOK, LastSlot
<1>2. /\ bond \in [0 .. n -> Nat \ {0}] /\ bond[0] = 1 /\ bond[n] = 1
      /\ \A k \in 0 .. n : bond[k] <= chi /\ bond[k] <= Power(2, k)
  BY <1>1 DEF BondsFit
<1>3. PICK nb \in [DOMAIN bond -> 1 .. AtLeast(1, chi)] :
        /\ \A k \in DOMAIN bond : IF k \in 1 .. LastSlot THEN nb[k] \in Kept(2 * nb[k + 1], bond[k], chi)
                                                 ELSE nb[k] = bond[k]
        /\ bond' = nb
        /\ form' = [k \in Slots |-> IF k > 0 THEN "right" ELSE "unit"]
  BY DEF RightCanonicalize
<1>4. nb \in [0 .. n -> Nat \ {0}]
  BY <1>2, <1>3 DEF AtLeast
<1>5. \A k \in 1 .. n - 1 : nb[k] <= 2 * nb[k + 1] /\ nb[k] <= bond[k]
  <2> SUFFICES ASSUME NEW k \in 1 .. n - 1 PROVE nb[k] <= 2 * nb[k + 1] /\ nb[k] <= bond[k]
    OBVIOUS
  <2>1. k \in 0 .. n /\ k + 1 \in 0 .. n
    OBVIOUS
  <2>2. nb[k] \in Kept(2 * nb[k + 1], bond[k], chi)
    BY <1>1, <1>2, <1>3, <2>1
  <2>3. 2 * nb[k + 1] \in Nat /\ bond[k] \in Nat /\ chi \in Nat
    BY <1>2, <1>4, <2>1
  <2> QED
    BY <2>2, <2>3, KeptIsSmall
<1>6. nb[0] = 1 /\ nb[n] = 1
  <2>1. 0 \notin 1 .. LastSlot /\ n \notin 1 .. LastSlot /\ 0 \in 0 .. n /\ n \in 0 .. n
    BY <1>1
  <2> QED
    BY <1>2, <1>3, <2>1
<1>7. \A k \in 0 .. n : nb[k] <= bond[k]
  <2> SUFFICES ASSUME NEW k \in 0 .. n PROVE nb[k] <= bond[k]
    OBVIOUS
  <2>1. CASE k \in 1 .. n - 1
    BY <1>5, <2>1
  <2>2. CASE k \notin 1 .. n - 1
    <3>1. k = 0 \/ k = n
      BY <2>2
    <3> QED
      BY <1>2, <1>6, <3>1
  <2> QED
    BY <2>1, <2>2
<1>8. \A k \in 0 .. n : Power(2, k) \in Int /\ Power(2, k + 1) = 2 * Power(2, k) /\ Power(2, 0) = 1
  BY PowersOfTwo
<1>9. BondsFit(g, nb, chi)
  <2>1. \A k \in 0 .. n : nb[k] <= chi /\ nb[k] <= Power(2, k)
    <3> SUFFICES ASSUME NEW k \in 0 .. n PROVE nb[k] <= chi /\ nb[k] <= Power(2, k)
      OBVIOUS
    <3>1. nb[k] \in Nat /\ bond[k] \in Nat /\ Power(2, k) \in Int /\ chi \in Nat
      BY <1>2, <1>4, <1>8
    <3>2. nb[k] <= bond[k] /\ bond[k] <= chi /\ bond[k] <= Power(2, k)
      BY <1>2, <1>7
    <3> QED
      BY <3>1, <3>2
  <2> QED
    BY <1>1, <1>4, <1>6, <2>1 DEF BondsFit
<1> DEFINE T == {i \in 0 .. n - 1 : nb[n - i] <= Power(2, i)}
<1>10. 0 \in T
  <2>1. n - 0 = n /\ 0 \in 0 .. n /\ 0 \in 0 .. n - 1
    OBVIOUS
  <2> QED
    BY <1>6, <1>8, <2>1
<1>11. \A i \in 0 .. (n - 1) - 1 : i \in T => i + 1 \in T
  <2> SUFFICES ASSUME NEW i \in 0 .. (n - 1) - 1, i \in T
               PROVE  i + 1 \in T
    OBVIOUS
  <2>1. /\ n - (i + 1) \in 1 .. n - 1 /\ (n - (i + 1)) + 1 = n - i /\ n - i \in 0 .. n
        /\ i \in 0 .. n /\ i + 1 \in 0 .. n - 1 /\ n - (i + 1) \in 0 .. n
    OBVIOUS
  <2>2. nb[n - (i + 1)] <= 2 * nb[n - i]
    BY <1>5, <2>1
  <2>3. /\ nb[n - (i + 1)] \in Nat /\ nb[n - i] \in Nat /\ nb[n - i] <= Power(2, i)
        /\ Power(2, i) \in Int /\ Power(2, i + 1) = 2 * Power(2, i)
    BY <1>4, <1>8, <2>1
  <2>4. nb[n - (i + 1)] <= Power(2, i + 1)
    BY <2>2, <2>3
  <2> QED
    BY <2>1, <2>4
<1>12. 0 .. n - 1 \subseteq T
  <2>1. 0 \in Int /\ n - 1 \in Int
    OBVIOUS
  <2> HIDE DEF T
  <2> QED
    BY <1>10, <1>11, <2>1, BoundedInduction
<1>13. \A k \in 0 .. n : nb[k] <= Power(2, n - k)
  <2> SUFFICES ASSUME NEW k \in 0 .. n PROVE nb[k] <= Power(2, n - k)
    OBVIOUS
  <2>1. CASE k = 0
    <3>1. n - 1 \in 0 .. n - 1 /\ n - (n - 1) = 1 /\ n - 1 \in 0 .. n /\ (n - 1) + 1 = n
      OBVIOUS
    <3>2. /\ nb[1] <= Power(2, n - 1) /\ nb[1] \in Nat \ {0}
      BY <1>4, <1>12, <3>1
    <3>3. Power(2, n - 1) \in Int /\ Power(2, n) = 2 * Power(2, n - 1)
      BY <1>8, <3>1
    <3>4. 1 <= Power(2, n)
      BY <3>2, <3>3
    <3> QED
      BY <1>6, <2>1, <3>4
  <2>2. CASE k # 0
    <3>1. n - k \in 0 .. n - 1 /\ n - (n - k) = k
      BY <2>2
    <3> QED
      BY <1>12, <3>1
  <2> QED
    BY <2>1, <2>2
<1>14. RightFit(g, nb)
  BY <1>1, <1>13 DEF RightFit
<1>15. DOMAIN form' = Verts(g) /\ \A k \in Verts(g) \ {0} : form'[k] = "right"
  <2>1. \A k \in Verts(g) \ {0} : k > 0
    BY <1>1
  <2> QED
    BY <1>3, <2>1 DEF Slots
<1> QED
  BY <1>3, <1>9, <1>14, <1>15

MpsInv == TensorTypes /\ MpsLaid /\ MpsWork /\ MpsCanonical

\* What the bounds are read from does not change while the kernel runs.
LEMMA BoundsStay ==
  ASSUME UNCHANGED <<job, chi, chain>>
  PROVE  Walked' = Walked /\ StepWork' = StepWork /\ UnitWork' = UnitWork /\ Steps' = Steps
<1>1. Steps' = Steps
  BY DEF Steps
<1>2. Walked' = WalkedBy(Steps', SpanSum(chain'), chi') /\ Walked = WalkedBy(Steps, SpanSum(chain), chi)
  BY DEF Walked, WalkedBy
<1>3. SpanSum(chain') = SpanSum(chain)
  OBVIOUS
<1> QED
  BY <1>1, <1>2, <1>3 DEF StepWork, UnitWork

LEMMA MpsWorkTypes ==
  ASSUME MpsInv, Laid("mps")
  PROVE  /\ Walked \in Nat \ {0} /\ StepWork \in Nat /\ UnitWork \in Nat
         /\ StepWork = UnitWork * SpanSum(chain)
         /\ Walked = 1 \/ Walked * StepWork <= WorkBudget
<1>1. chain = Chain(job.graph) /\ chi \in Nat \ {0} /\ job \in Jobs
  BY DEF MpsInv, MpsLaid, TensorTypes
<1>2. SpanSum(chain) \in Nat
  BY <1>1, JobGraphs, SpansAddUp
<1>3. Steps \in Nat \ {0}
  BY <1>1, StepsAreSome
<1>4. PICK f, z, x \in Nat : f = FlopConst /\ z = SpanSum(chain) /\ x = chi
  BY <1>1, <1>2, ScheduleAssumption
<1>5. StepWork = f * z * x * x * x /\ UnitWork = f * x * x * x
  BY <1>4 DEF StepWork, UnitWork
<1>6. f * z * x * x * x = (f * x * x * x) * z /\ f * z * x * x * x \in Nat /\ f * x * x * x \in Nat
  <2>1. f * x \in Nat
    OBVIOUS
  <2>2. f * x * x \in Nat
    BY <2>1
  <2>3. f * x * x * x \in Nat
    BY <2>2
  <2>4. f * z \in Nat
    OBVIOUS
  <2>5. f * z * x \in Nat
    BY <2>4
  <2>6. f * z * x * x \in Nat
    BY <2>5
  <2>7. f * z * x * x * x \in Nat
    BY <2>6
  <2>8. f * z * x * x * x = (f * x * x * x) * z
    OBVIOUS
  <2> QED
    BY <2>3, <2>7, <2>8
<1>7. /\ Walked \in Nat \ {0}
      /\ Walked = 1 \/ Walked * StepWork <= WorkBudget
  <2>1. Walked = WalkedBy(Steps, z, x)
    BY <1>4, WalkedIs
  <2>2. StepWork = FlopConst * z * x * x * x
    BY <1>4, <1>5
  <2> QED
    BY <1>3, <2>1, <2>2, WalkedFits
<1> QED
  BY <1>4, <1>5, <1>6, <1>7

LEMMA MpsBegins ==
  ASSUME MpsInv, BeginMps
  PROVE  MpsInv'
<1> DEFINE g == job.graph
           n == Size(g)
<1>1. /\ job \in Jobs /\ job' = job /\ at = Rest /\ cuts = 0 /\ cuts' = 0 /\ n > 0
      /\ job.kernel = "mps"
      /\ chain' = Chain(g) /\ chi' = MpsChi(chain', job.chiMax)
      /\ bond' = [k \in 0 .. n |-> 1] /\ form' = [k \in 0 .. n - 1 |-> "unit"]
      /\ at' = [at EXCEPT !.pc = IF job.init = "Random" THEN "draw" ELSE "step"]
  BY DEF MpsInv, TensorTypes, BeginMps, PlusState, Goto
<1>2. GraphOK(g) /\ n \in Nat \ {0} /\ Verts(g) = 0 .. n - 1
  BY <1>1, JobGraphs DEF GraphOK
<1>3. chi' \in Nat \ {0}
  <2>1. job.chiMax \in Nat
    BY <1>1, TensorJobsAssumption
  <2>2. MpsChi(Chain(g), job.chiMax) \in Nat \ {0}
    BY <1>1, <2>1, MpsChiFits
  <2> QED
    BY <1>1, <2>2
<1>4. BondsFit(g, bond', chi')
  <2>1. \A k \in 0 .. n : bond'[k] = 1 /\ k \in Nat
    BY <1>1
  <2>2. \A k \in 0 .. n : 1 <= Power(2, k)
    <3> SUFFICES ASSUME NEW k \in 0 .. n PROVE 1 <= Power(2, k)
      OBVIOUS
    <3>1. Power(2, k) \in Nat \ {0}
      <4>1. k \in Nat /\ 2 \in Nat \ {0}
        BY <1>2
      <4> QED
        BY <4>1, PowersArePositive, Zenon
    <3> QED
      BY <3>1
  <2>3. 0 \in 0 .. n /\ n \in 0 .. n
    BY <1>2
  <2> HIDE DEF g, n
  <2> QED
    BY <1>1, <1>3, <2>1, <2>2, <2>3 DEF BondsFit, n
<1>5. MpsLaid'
  BY <1>1, <1>2, <1>3, <1>4 DEF MpsLaid
<1>6. at' = [pc |-> IF job.init = "Random" THEN "draw" ELSE "step", step |-> 0, gate |-> 1]
  BY <1>1 DEF Rest
<1>7. TensorTypes'
  <2>1. at'.pc # "idle" /\ cuts' \in Nat /\ job' \in Jobs
    BY <1>1, <1>6
  <2>2. at' \in [pc : {"idle", "step", "gates", "draw", "polish", "done"}, step : Nat, gate : Nat \ {0}]
    BY <1>6
  <2> QED
    BY <2>1, <2>2 DEF TensorTypes
<1>8. MpsWork'
  <2>1. SpanSum(chain') \in Nat /\ Steps \in Nat \ {0} /\ Steps' = Steps
    BY <1>1, <1>2, SpansAddUp, StepsAreSome DEF Steps
  <2>2. Walked' = WalkedBy(Steps', SpanSum(chain'), chi')
    BY DEF Walked, WalkedBy
  <2>3. Walked' \in Nat \ {0}
    BY <1>3, <2>1, <2>2, WalkedFits
  <2>4. StepWork' \in Int
    <3>1. FlopConst \in Nat
      BY ScheduleAssumption
    <3> QED
      BY <1>3, <2>1, <3>1 DEF StepWork
  <2>5. 0 * StepWork' = 0
    <3>1. PICK x \in Int : x = StepWork'
      BY <2>4
    <3>2. 0 * x = 0
      OBVIOUS
    <3> QED
      BY <3>1, <3>2
  <2> QED
    BY <1>1, <1>6, <2>3, <2>5 DEF MpsWork
<1>9. MpsCanonical'
  <2>1. ~(at'.pc \in {"draw", "polish"} /\ job'.init = "Anneal")
    BY <1>1, <1>6
  <2> QED
    BY <2>1 DEF MpsCanonical
<1> QED
  BY <1>5, <1>7, <1>8, <1>9 DEF MpsInv

LEMMA MpsStarts ==
  ASSUME MpsInv, job.kernel = "mps", MpsStart \/ MpsSkip
  PROVE  MpsInv'
<1>1. /\ at.pc = "step" /\ at.step < Walked
      /\ UNCHANGED <<job, chi, cuts, chain, bond>>
      /\ \/ at' = [at EXCEPT !.step = @ + 1]
         \/ at' = [at EXCEPT !.pc = "gates", !.gate = 1]
      /\ DOMAIN form' = DOMAIN form
  BY DEF MpsStart, MpsSkip, StartStep, SkipStep, Layer, Slots, mpsVars
<1>2. Laid("mps")
  BY <1>1 DEF Laid
<1>3. /\ at = [pc |-> "step", step |-> at.step, gate |-> at.gate] /\ at.step \in Nat /\ at.gate \in Nat \ {0}
  BY <1>1 DEF MpsInv, TensorTypes
<1>4. /\ Walked \in Nat \ {0} /\ StepWork \in Nat /\ UnitWork \in Nat
      /\ Walked' = Walked /\ StepWork' = StepWork /\ UnitWork' = UnitWork
  BY <1>1, <1>2, MpsWorkTypes, BoundsStay
<1>5. cuts <= at.step * StepWork /\ cuts \in Nat
  BY <1>1, <1>2 DEF MpsInv, MpsWork, TensorTypes
<1>6. TensorTypes'
  <2>1. job' \in Jobs /\ cuts' \in Nat
    BY <1>1, <1>5 DEF MpsInv, TensorTypes
  <2>2. /\ at' \in [pc : {"idle", "step", "gates", "draw", "polish", "done"}, step : Nat, gate : Nat \ {0}]
        /\ at'.pc # "idle"
    <3>1. CASE at' = [at EXCEPT !.step = @ + 1]
      BY <1>1, <1>3, <3>1
    <3>2. CASE at' = [at EXCEPT !.pc = "gates", !.gate = 1]
      <4>1. at' = [pc |-> "gates", step |-> at.step, gate |-> 1]
        BY <1>3, <3>2
      <4> QED
        BY <1>3, <4>1
    <3> QED
      BY <1>1, <3>1, <3>2
  <2> QED
    BY <2>1, <2>2 DEF TensorTypes
<1>7. MpsLaid'
  BY <1>1, <1>2 DEF MpsInv, MpsLaid
<1>8. MpsWork'
  <2>1. CASE at' = [at EXCEPT !.step = @ + 1]
    <3>1. at'.pc = "step" /\ at'.step = at.step + 1
      BY <1>3, <2>1
    <3>2. at.step * StepWork + StepWork = (at.step + 1) * StepWork
      BY <1>3, <1>4
    <3>3. at.step * StepWork \in Int
      BY <1>3, <1>4
    <3>4. cuts' <= at'.step * StepWork'
      BY <1>1, <1>4, <1>5, <3>1, <3>2, <3>3
    <3>5. at'.step <= Walked'
      BY <1>1, <1>3, <1>4, <3>1
    <3> QED
      BY <3>1, <3>4, <3>5 DEF MpsWork
  <2>2. CASE at' = [at EXCEPT !.pc = "gates", !.gate = 1]
    <3>1. at'.pc = "gates" /\ at'.step = at.step /\ at'.gate = 1
      BY <1>3, <2>2
    <3>2. /\ chain = Chain(job.graph) /\ GraphOK(job.graph)
      BY <1>2, JobGraphs DEF MpsInv, MpsLaid, TensorTypes
    <3>3. SpanUpTo(chain, 0) = 0 /\ Cardinality(Coupled(job.graph)) \in Nat
      BY <3>2, SpansAddUp, CoupledFacts
    <3>4. at'.gate - 1 = 0
      BY <3>1
    <3>5. at.step * StepWork + UnitWork * 0 = at.step * StepWork
      BY <1>3, <1>4
    <3>6. cuts' <= at'.step * StepWork' + UnitWork' * SpanUpTo(chain', at'.gate - 1)
      BY <1>1, <1>4, <1>5, <3>1, <3>3, <3>4, <3>5
    <3>7. at'.step < Walked' /\ at'.step <= Walked'
      BY <1>1, <1>3, <1>4, <3>1
    <3>8. at'.gate <= Cardinality(Coupled(job'.graph)) + 1
      BY <1>1, <3>1, <3>3
    <3> QED
      BY <3>1, <3>6, <3>7, <3>8 DEF MpsWork
  <2> QED
    BY <1>1, <2>1, <2>2
<1>9. MpsCanonical'
  <2>1. at'.pc \notin {"draw", "polish"}
    BY <1>1, <1>3
  <2> QED
    BY <2>1 DEF MpsCanonical
<1> QED
  BY <1>6, <1>7, <1>8, <1>9 DEF MpsInv

LEMMA MpsGoesThroughGates ==
  ASSUME MpsInv, job.kernel = "mps", MpsGate
  PROVE  MpsInv'
<1> DEFINE g == job.graph
           c == Cardinality(Coupled(g))
           u == chain.gates[at.gate][1]
           v == chain.gates[at.gate][2]
<1>1. /\ at.pc = "gates" /\ at.gate \in DOMAIN chain.gates
      /\ ApplyZz(u, v)
      /\ cuts' = cuts + FlopConst * (v - u) * chi * chi * chi
      /\ at' = [at EXCEPT !.gate = @ + 1]
      /\ job' = job /\ chi' = chi /\ chain' = chain
  BY DEF MpsGate
<1>2. Laid("mps")
  BY <1>1 DEF Laid
<1>3. /\ job \in Jobs /\ cuts \in Nat /\ at.step \in Nat /\ at.gate \in Nat \ {0}
      /\ at = [pc |-> "gates", step |-> at.step, gate |-> at.gate]
  BY <1>1 DEF MpsInv, TensorTypes
<1>4. /\ Walked \in Nat \ {0} /\ StepWork \in Nat /\ UnitWork \in Nat
      /\ Walked' = Walked /\ StepWork' = StepWork /\ UnitWork' = UnitWork
  BY <1>1, <1>2, MpsWorkTypes, BoundsStay
<1>5. /\ chain = Chain(g) /\ chi \in Nat \ {0} /\ Size(g) > 0 /\ BondsFit(g, bond, chi)
      /\ DOMAIN form = Verts(g)
      /\ at.step <= Walked /\ at.step < Walked /\ at.gate <= c + 1
      /\ cuts <= at.step * StepWork + UnitWork * SpanUpTo(chain, at.gate - 1)
  BY <1>1, <1>2 DEF MpsInv, MpsLaid, MpsWork
<1>6. GraphOK(g)
  BY <1>3, JobGraphs
<1>7. /\ DOMAIN chain.gates = 1 .. c /\ c \in Nat
      /\ Gate(g, chain.gates[at.gate])
  BY <1>1, <1>5, <1>6, ChainFacts
<1>8. u \in Verts(g) /\ v \in Verts(g) /\ u \in Nat /\ v \in Nat /\ u < v
  BY <1>6, <1>7 DEF Gate, GraphOK
<1>9. at' = [pc |-> "gates", step |-> at.step, gate |-> at.gate + 1]
  BY <1>1, <1>3
<1>10. cuts' = cuts + UnitWork * (v - u)
  <2>1. FlopConst \in Nat
    BY ScheduleAssumption
  <2>2. PICK f \in Int, x \in Int, w \in Int : f = FlopConst /\ x = chi /\ w = v - u
    BY <1>5, <1>8, <2>1
  <2>3. f * w * x * x * x = (f * x * x * x) * w
    OBVIOUS
  <2> HIDE DEF u, v
  <2> QED
    BY <1>1, <2>2, <2>3 DEF UnitWork
<1>11. cuts' \in Nat
  <2>1. PICK w \in Nat : w = v - u
    BY <1>8
  <2>2. UnitWork * w \in Nat
    BY <1>4
  <2> HIDE DEF u, v
  <2> QED
    BY <1>3, <1>10, <2>1, <2>2
<1>12. TensorTypes'
  BY <1>1, <1>3, <1>9, <1>11 DEF TensorTypes
<1>13. BondsFit(g, bond', chi) /\ DOMAIN form' = Verts(g)
  <2>1. CASE chi = 1 /\ \A k \in DOMAIN bond : bond[k] = 1
    BY <1>1, <1>5, <2>1 DEF ApplyZz, Product
  <2>2. CASE ~(chi = 1 /\ \A k \in DOMAIN bond : bond[k] = 1)
    <3>1. ZipUp(u, v)
      BY <1>1, <2>2 DEF ApplyZz
    <3> QED
      BY <1>5, <1>6, <1>8, <3>1, ZipUpFits
  <2> QED
    BY <2>1, <2>2
<1>14. MpsLaid'
  BY <1>1, <1>5, <1>13 DEF MpsLaid
<1>15. MpsWork'
  <2>1. /\ at.gate \in 1 .. c /\ SpanUpTo(chain, at.gate - 1) \in Nat
        /\ SpanUpTo(chain, at.gate) = SpanUpTo(chain, at.gate - 1) + (v - u)
    BY <1>1, <1>5, <1>6, <1>7, SpansAddUp
  <2>2. PICK a \in Int, b \in Int, w \in Int :
          a = UnitWork /\ b = SpanUpTo(chain, at.gate - 1) /\ w = v - u
    BY <1>4, <1>8, <2>1
  <2>3. a * (b + w) = a * b + a * w
    OBVIOUS
  <2>4. PICK t \in Int : t = at.step * StepWork
    BY <1>3, <1>4
  <2>5. a * b \in Int /\ a * w \in Int
    OBVIOUS
  <2>6. cuts <= t + a * b /\ cuts' = cuts + a * w
    BY <1>5, <1>10, <2>2, <2>4
  <2>7. SpanUpTo(chain, at.gate) = b + w
    BY <2>1, <2>2
  <2> HIDE DEF u, v, c
  <2>8. cuts' <= t + a * (b + w)
    BY <1>3, <2>3, <2>4, <2>5, <2>6
  <2>9. cuts' <= at.step * StepWork + UnitWork * SpanUpTo(chain, at.gate)
    BY <2>2, <2>4, <2>7, <2>8
  <2>10. /\ at'.pc = "gates" /\ at'.step = at.step /\ at'.gate = at.gate + 1
         /\ at'.gate - 1 = at.gate
    BY <1>3, <1>9
  <2>11. cuts' <= at'.step * StepWork' + UnitWork' * SpanUpTo(chain', at'.gate - 1)
    BY <1>1, <1>4, <2>9, <2>10
  <2>12. at'.gate <= Cardinality(Coupled(job'.graph)) + 1
    BY <1>1, <1>3, <1>7, <2>1, <2>10 DEF c
  <2>13. at'.step <= Walked' /\ at'.step < Walked'
    BY <1>4, <1>5, <2>10
  <2> QED
    BY <2>10, <2>11, <2>12, <2>13 DEF MpsWork
<1>16. MpsCanonical'
  <2>1. at'.pc \notin {"draw", "polish"}
    BY <1>9
  <2> QED
    BY <2>1 DEF MpsCanonical
<1> QED
  BY <1>12, <1>14, <1>15, <1>16 DEF MpsInv

LEMMA MpsEndsAStep ==
  ASSUME MpsInv, job.kernel = "mps", MpsEndStep
  PROVE  MpsInv'
<1> DEFINE g == job.graph
           c == Cardinality(Coupled(g))
<1>1. /\ at.pc = "gates" /\ at.gate \notin DOMAIN chain.gates
      /\ RightCanonicalize
      /\ at' = [at EXCEPT !.pc = "step", !.step = @ + 1]
      /\ job' = job /\ chi' = chi /\ chain' = chain /\ cuts' = cuts
  BY DEF MpsEndStep, NextStep
<1>2. Laid("mps")
  BY <1>1 DEF Laid
<1>3. /\ job \in Jobs /\ cuts \in Nat /\ at.step \in Nat /\ at.gate \in Nat \ {0}
      /\ at = [pc |-> "gates", step |-> at.step, gate |-> at.gate]
  BY <1>1 DEF MpsInv, TensorTypes
<1>4. /\ Walked \in Nat \ {0} /\ StepWork \in Nat /\ UnitWork \in Nat
      /\ StepWork = UnitWork * SpanSum(chain)
      /\ Walked' = Walked /\ StepWork' = StepWork /\ UnitWork' = UnitWork
  BY <1>1, <1>2, MpsWorkTypes, BoundsStay
<1>5. /\ chain = Chain(g) /\ chi \in Nat \ {0} /\ Size(g) > 0 /\ BondsFit(g, bond, chi)
      /\ DOMAIN form = Verts(g)
      /\ at.step < Walked /\ at.gate <= c + 1
      /\ cuts <= at.step * StepWork + UnitWork * SpanUpTo(chain, at.gate - 1)
  BY <1>1, <1>2 DEF MpsInv, MpsLaid, MpsWork
<1>6. GraphOK(g)
  BY <1>3, JobGraphs
<1>7. at' = [pc |-> "step", step |-> at.step + 1, gate |-> at.gate]
  BY <1>1, <1>3
<1>8. TensorTypes'
  BY <1>1, <1>3, <1>7 DEF TensorTypes
<1>9. BondsFit(g, bond', chi) /\ DOMAIN form' = Verts(g)
  BY <1>1, <1>5, <1>6, CanonicalFits
<1>10. MpsLaid'
  BY <1>1, <1>5, <1>9 DEF MpsLaid
<1>11. MpsWork'
  <2>1. at.gate - 1 = c
    <3>1. DOMAIN chain.gates = 1 .. c /\ c \in Nat
      BY <1>5, <1>6, ChainFacts
    <3> HIDE DEF c
    <3> QED
      BY <1>1, <1>3, <1>5, <3>1
  <2>2. SpanUpTo(chain, at.gate - 1) = SpanSum(chain)
    BY <1>5, <1>6, <2>1, SpansAddUp
  <2>3. cuts <= at.step * StepWork + StepWork
    BY <1>4, <1>5, <2>2
  <2>4. PICK x \in Int : x = StepWork
    BY <1>4
  <2>5. (at.step + 1) * x = at.step * x + x
    BY <1>3
  <2>6. at'.pc = "step" /\ at'.step = at.step + 1
    BY <1>7
  <2>7. cuts' <= at'.step * StepWork'
    BY <1>1, <1>4, <2>3, <2>4, <2>5, <2>6
  <2>8. at'.step <= Walked'
    BY <1>3, <1>4, <1>5, <2>6
  <2> QED
    BY <2>6, <2>7, <2>8 DEF MpsWork
<1>12. MpsCanonical'
  <2>1. at'.pc \notin {"draw", "polish"}
    BY <1>7
  <2> QED
    BY <2>1 DEF MpsCanonical
<1> QED
  BY <1>8, <1>10, <1>11, <1>12 DEF MpsInv

LEMMA MpsEndsTheAnneal ==
  ASSUME MpsInv, job.kernel = "mps", MpsAnnealed
  PROVE  MpsInv'
<1> DEFINE g == job.graph
<1>1. /\ at.pc = "step" /\ RightCanonicalize
      /\ at' = [at EXCEPT !.pc = "draw"]
      /\ job' = job /\ chi' = chi /\ chain' = chain /\ cuts' = cuts
  BY DEF MpsAnnealed, Goto
<1>2. Laid("mps")
  BY <1>1 DEF Laid
<1>3. /\ job \in Jobs /\ cuts \in Nat /\ at.step \in Nat /\ at.gate \in Nat \ {0}
      /\ at = [pc |-> "step", step |-> at.step, gate |-> at.gate]
  BY <1>1 DEF MpsInv, TensorTypes
<1>4. Walked' = Walked /\ StepWork' = StepWork
  BY <1>1, BoundsStay
<1>5. /\ chain = Chain(g) /\ chi \in Nat \ {0} /\ Size(g) > 0 /\ BondsFit(g, bond, chi)
      /\ DOMAIN form = Verts(g)
      /\ at.step <= Walked /\ cuts <= at.step * StepWork
  BY <1>1, <1>2 DEF MpsInv, MpsLaid, MpsWork
<1>6. GraphOK(g)
  BY <1>3, JobGraphs
<1>7. at' = [pc |-> "draw", step |-> at.step, gate |-> at.gate]
  BY <1>1, <1>3
<1>8. TensorTypes'
  BY <1>1, <1>3, <1>7 DEF TensorTypes
<1>9. /\ BondsFit(g, bond', chi) /\ DOMAIN form' = Verts(g)
      /\ RightFit(g, bond') /\ \A k \in (DOMAIN form') \ {0} : form'[k] = "right"
  BY <1>1, <1>5, <1>6, CanonicalFits
<1>10. MpsLaid'
  BY <1>1, <1>5, <1>9 DEF MpsLaid
<1>11. MpsWork'
  <2>1. at'.pc = "draw" /\ at'.step = at.step
    BY <1>7
  <2> QED
    BY <1>1, <1>4, <1>5, <2>1 DEF MpsWork
<1>12. MpsCanonical'
  BY <1>1, <1>9 DEF MpsCanonical, Slots
<1> QED
  BY <1>8, <1>10, <1>11, <1>12 DEF MpsInv

\* What is read leaves the chain as it is.
LEMMA MpsReads ==
  ASSUME MpsInv, DrawRead \/ PolishRead \/ ScoreRead \/ TensorDone
  PROVE  MpsInv'
<1>1. /\ UNCHANGED <<job, chi, cuts, chain, bond, form>>
      /\ at.pc \in {"draw", "polish", "done"}
      /\ \/ at' = at
         \/ /\ \E pc \in {"draw", "polish", "done"} : at' = [at EXCEPT !.pc = pc]
            /\ at.pc # "done"
  BY DEF DrawRead, PolishRead, ScoreRead, TensorDone, Goto, tensorVars
<1>2. /\ job \in Jobs /\ cuts \in Nat /\ at.step \in Nat /\ at.gate \in Nat \ {0}
      /\ at = [pc |-> at.pc, step |-> at.step, gate |-> at.gate]
  BY <1>1 DEF MpsInv, TensorTypes
<1>3. PICK pc \in {"draw", "polish", "done"} :
        at' = [pc |-> pc, step |-> at.step, gate |-> at.gate] /\ (at.pc = "done" => pc = "done")
  BY <1>1, <1>2
<1>4. at'.pc = pc /\ at'.step = at.step
  BY <1>3
<1>5. Walked' = Walked /\ StepWork' = StepWork
  BY <1>1, BoundsStay
<1>6. Laid("mps")' => Laid("mps")
  BY <1>1, <1>3, <1>4 DEF Laid
<1>7. TensorTypes'
  BY <1>1, <1>2, <1>3 DEF TensorTypes
<1>8. MpsLaid'
  BY <1>1, <1>6 DEF MpsInv, MpsLaid
<1>9. MpsWork'
  BY <1>1, <1>4, <1>5, <1>6 DEF MpsInv, MpsWork
<1>10. MpsCanonical'
  <2>1. Laid("mps") => at.pc \in {"draw", "polish"}
    BY <1>1 DEF Laid
  <2> QED
    BY <1>1, <1>6, <2>1 DEF MpsInv, MpsCanonical, Slots
<1> QED
  BY <1>7, <1>8, <1>9, <1>10 DEF MpsInv

-----------------------------------------------------------------------------
(* The network is evolved within its bounds.                               *)

\* h holds the products over all subsets of S.
Multiplies(f, S, h) ==
  h = [s \in SUBSET S |->
         IF s = {} THEN 1 ELSE LET x == FirstOf(s) IN f[x] * h[s \ {x}]]

Product1(f) == FoldFunction(LAMBDA x, y : x * y, 1, f)

LEMMA ProductIsMultiplied ==
  ASSUME NEW f
  PROVE  Product1(f) = (CHOOSE h : Multiplies(f, DOMAIN f, h))[DOMAIN f]
BY Zenon DEF Product1, FoldFunction, FoldFunctionOnSet, MapThenFoldSet, Multiplies, FirstOf

LEMMA MultipliesExists ==
  ASSUME NEW f, NEW S, IsFiniteSet(S)
  PROVE  \E g : Multiplies(f, S, g)
<1> DEFINE Later(g, s) == IF s = {} THEN 1 ELSE f[FirstOf(s)] * g[s \ {FirstOf(s)}]
           U == {n \in Nat : \E g : \A s \in SUBSET S :
                   Cardinality(s) <= n => g[s] = Later(g, s)}
<1>0. \A s \in SUBSET S : IsFiniteSet(s) /\ Cardinality(s) \in Nat
  BY FS_Subset, FS_CardinalityType
<1>a. \A s \in SUBSET S : s # {} =>
         s \ {FirstOf(s)} \in SUBSET S /\ Cardinality(s \ {FirstOf(s)}) = Cardinality(s) - 1
  BY <1>0, FirstMember, FS_RemoveElement
<1>1. 0 \in U
  <2> DEFINE g == [s \in SUBSET S |-> 1]
  <2>1. \A s \in SUBSET S : Cardinality(s) <= 0 => s = {}
    BY <1>0, FS_EmptySet
  <2>2. \A s \in SUBSET S : Cardinality(s) <= 0 => g[s] = Later(g, s)
    BY <2>1
  <2> QED
    BY <2>2
<1>2. ASSUME NEW n \in Nat, n \in U
      PROVE  n + 1 \in U
  <2>1. PICK g : \A s \in SUBSET S : Cardinality(s) <= n => g[s] = Later(g, s)
    BY <1>2
  <2> DEFINE h == [s \in SUBSET S |-> IF Cardinality(s) <= n THEN g[s] ELSE Later(g, s)]
  <2>2. ASSUME NEW s \in SUBSET S, Cardinality(s) <= n + 1
        PROVE  h[s] = Later(h, s)
    <3>1. h[s] = Later(g, s)
      BY <2>1
    <3>2. CASE s = {}
      BY <3>1, <3>2
    <3>3. CASE s # {}
      <4>1. s \ {FirstOf(s)} \in SUBSET S /\ Cardinality(s \ {FirstOf(s)}) <= n
        BY <1>0, <1>a, <2>2, <3>3
      <4>2. h[s \ {FirstOf(s)}] = g[s \ {FirstOf(s)}]
        BY <4>1
      <4> QED
        BY <3>1, <3>3, <4>2
    <3> QED
      BY <3>2, <3>3
  <2> HIDE DEF h, Later
  <2> QED
    BY <2>2
<1>3. Cardinality(S) \in U
  <2>1. Nat \subseteq U
    <3> HIDE DEF U
    <3> QED
      BY <1>1, <1>2, NumberInduction
  <2> QED
    BY <1>0, <2>1
<1>4. PICK g : \A s \in SUBSET S : g[s] = Later(g, s)
  BY <1>0, <1>3, FS_Subset
<1> DEFINE h == [s \in SUBSET S |-> g[s]]
<1>5. ASSUME NEW s \in SUBSET S
      PROVE  h[s] = Later(h, s)
  <2>1. s # {} => h[s \ {FirstOf(s)}] = g[s \ {FirstOf(s)}]
    BY <1>a
  <2> QED
    BY <1>4, <2>1
<1>6. h = [s \in SUBSET S |-> h[s]]
  OBVIOUS
<1>7. h = [s \in SUBSET S |-> Later(h, s)]
  <2> HIDE DEF h, Later
  <2> QED
    BY <1>5, <1>6
<1> HIDE DEF h
<1> QED
  BY <1>7 DEF Multiplies

\* A product of n factors of at most d is at most d to the n.
LEMMA ProductIsBounded ==
  ASSUME NEW f, IsFiniteSet(DOMAIN f), NEW d \in Nat \ {0}, \A x \in DOMAIN f : f[x] \in 1 .. d
  PROVE  /\ Product1(f) \in Nat \ {0} /\ Product1(f) <= Power(d, Cardinality(DOMAIN f))
<1> DEFINE S == DOMAIN f
           h == CHOOSE g : Multiplies(f, S, g)
           Small(s) == h[s] \in Nat \ {0} /\ h[s] <= Power(d, Cardinality(s))
           U == {n \in Nat : \A s \in SUBSET S : Cardinality(s) = n => Small(s)}
<1>0. \A s \in SUBSET S : IsFiniteSet(s) /\ Cardinality(s) \in Nat
  BY FS_Subset, FS_CardinalityType
<1>1. Multiplies(f, S, h)
  BY MultipliesExists
<1>2. Product1(f) = h[S]
  BY ProductIsMultiplied
<1> HIDE DEF h
<1>3. 0 \in U
  <2>1. h[{}] = 1
    BY <1>1 DEF Multiplies
  <2>2. Power(d, 0) = 1
    BY PowerStep
  <2> QED
    BY <1>0, <2>1, <2>2, FS_EmptySet
<1>4. ASSUME NEW n \in Nat, n \in U
      PROVE  n + 1 \in U
  <2> SUFFICES ASSUME NEW s \in SUBSET S, Cardinality(s) = n + 1
               PROVE  Small(s)
    OBVIOUS
  <2>1. s # {} /\ IsFiniteSet(s)
    BY <1>0, FS_EmptySet
  <2>2. FirstOf(s) \in s
    BY <2>1, FirstMember
  <2>3. Cardinality(s \ {FirstOf(s)}) = n
    <3>1. Cardinality(s \ {FirstOf(s)}) = Cardinality(s) - 1
      BY <2>1, <2>2, FS_RemoveElement
    <3> QED
      BY <3>1
  <2>4. Small(s \ {FirstOf(s)})
    BY <1>4, <2>3
  <2>5. h[s] = f[FirstOf(s)] * h[s \ {FirstOf(s)}]
    BY <1>1, <2>1 DEF Multiplies
  <2>6. PICK x \in 1 .. d : x = f[FirstOf(s)]
    BY <2>2
  <2>7. PICK y \in Nat \ {0} : y = h[s \ {FirstOf(s)}]
    BY <2>4
  <2>8. PICK p \in Nat \ {0} : p = Power(d, n)
    BY PowersArePositive
  <2>9. y <= p
    BY <2>3, <2>4, <2>7, <2>8
  <2>10. Power(d, n + 1) = d * p
    BY <2>8, PowerStep
  <2>11. x * y <= d * p /\ x * y \in Nat \ {0}
    <3>1. x * y <= x * p
      BY <2>9
    <3>2. x * p <= d * p
      OBVIOUS
    <3>3. x * y \in Nat \ {0} /\ x * p \in Nat /\ d * p \in Nat
      OBVIOUS
    <3> QED
      BY <3>1, <3>2, <3>3
  <2> QED
    BY <2>5, <2>6, <2>7, <2>10, <2>11
<1>5. Nat \subseteq U
  <2> HIDE DEF U
  <2> QED
    BY <1>3, <1>4, NumberInduction
<1>6. Small(S)
  <2>1. S \in SUBSET S /\ Cardinality(S) \in U
    BY <1>0, <1>5
  <2> HIDE DEF Small, S
  <2> QED
    BY <2>1
<1> QED
  BY <1>2, <1>6

\* The work of a step when every bond has dimension d.
FullWork(net, d) == [e \in DOMAIN net |-> FullFactoring(net, e, d)]

FullUpTo(net, d, m) == SumFunctionOnSet(FullWork(net, d), 1 .. m)

LEMMA NetworkIsFinite ==
  ASSUME NEW g, GraphOK(g)
  PROVE  \E n \in Nat : DOMAIN Network(g) = 1 .. n
<1> DEFINE f == [k \in Coupled(g) |-> Pair(g, k)]
           P == {Pair(g, k) : k \in Coupled(g)}
           Q == {p \in P : Together(g, p) # 0}
<1>1. f \in Surjection(Coupled(g), P)
  BY DEF Surjection
<1>2. IsFiniteSet(Coupled(g))
  BY CoupledFacts
<1> HIDE DEF f, P
<1>3. IsFiniteSet(P)
  BY <1>1, <1>2, FS_Surjection
<1>4. Q \in SUBSET P
  OBVIOUS
<1> HIDE DEF Q
<1>5. IsFiniteSet(Q)
  BY <1>3, <1>4, FS_Subset
<1>6. Cardinality(Q) \in Nat
  BY <1>5, FS_CardinalityType
<1>7. DOMAIN Network(g) = 1 .. Cardinality(Q)
  BY DEF Network, Ascending, Sorted, Q, P
<1> QED
  BY <1>6, <1>7

LEMMA DegreeFacts ==
  ASSUME NEW net, IsFiniteSet(DOMAIN net), NEW v
  PROVE  /\ IsFiniteSet(BondsAt(net, v)) /\ DegreeIn(net, v) \in Nat
         /\ \A e \in BondsAt(net, v) :
              /\ DegreeIn(net, v) - 1 \in Nat
              /\ IsFiniteSet(BondsAt(net, v) \ {e})
              /\ Cardinality(BondsAt(net, v) \ {e}) = DegreeIn(net, v) - 1
<1> DEFINE B == BondsAt(net, v)
<1>1. B \in SUBSET DOMAIN net
  BY DEF BondsAt
<1> HIDE DEF B
<1>2. IsFiniteSet(B)
  BY <1>1, FS_Subset
<1>3. Cardinality(B) \in Nat
  BY <1>2, FS_CardinalityType
<1>4. ASSUME NEW e \in B
      PROVE  /\ Cardinality(B) - 1 \in Nat /\ IsFiniteSet(B \ {e})
             /\ Cardinality(B \ {e}) = Cardinality(B) - 1
  <2>1. IsFiniteSet(B \ {e}) /\ Cardinality(B \ {e}) = Cardinality(B) - 1
    BY <1>2, FS_RemoveElement
  <2>2. Cardinality(B \ {e}) \in Nat
    BY <2>1, FS_CardinalityType
  <2> QED
    BY <2>1, <2>2
<1> QED
  BY <1>2, <1>3, <1>4 DEF B, DegreeIn

\* The work of a truncation grows with both sides.
LEMMA FactoringGrows ==
  ASSUME NEW r \in Nat, NEW c \in Nat, NEW p \in Nat, NEW q \in Nat, r <= p, c <= q
  PROVE  /\ Factoring(r, c) \in Nat /\ Factoring(p, q) \in Nat
         /\ Factoring(r, c) <= Factoring(p, q)
<1>1. PICK f \in Nat : f = FlopConst
  BY ScheduleAssumption
<1>2. PICK a \in Nat : a = AtMost(r, c) /\ a <= r /\ a <= c
  BY DEF AtMost
<1>3. PICK b \in Nat : b = AtMost(p, q) /\ a <= b
  BY <1>2 DEF AtMost
<1>4. Factoring(r, c) = f * r * c * a /\ Factoring(p, q) = f * p * q * b
  BY <1>1, <1>2, <1>3 DEF Factoring
<1>5. f * r \in Nat /\ f * p \in Nat /\ f * r <= f * p
  OBVIOUS
<1>6. PICK x \in Nat, y \in Nat : x = f * r /\ y = f * p /\ x <= y
  BY <1>5
<1>7. x * c \in Nat /\ y * q \in Nat /\ x * c <= x * q /\ x * q <= y * q /\ x * q \in Nat
  BY <1>6
<1>8. PICK z \in Nat, w \in Nat : z = x * c /\ w = y * q /\ z <= w
  BY <1>7
<1>9. z * a \in Nat /\ w * b \in Nat /\ z * a <= z * b /\ z * b <= w * b /\ z * b \in Nat
  BY <1>3, <1>8
<1> QED
  BY <1>4, <1>6, <1>8, <1>9

LEMMA FullFactoringIsWork ==
  ASSUME NEW net, IsFiniteSet(DOMAIN net), NEW e \in DOMAIN net, NEW d \in Nat \ {0}
  PROVE  /\ \A i \in {1, 2} : /\ e \in BondsAt(net, net[e][i])
                              /\ Power(d, DegreeIn(net, net[e][i]) - 1) \in Nat \ {0}
         /\ FullFactoring(net, e, d) \in Nat
<1>1. ASSUME NEW i \in {1, 2}
      PROVE  /\ e \in BondsAt(net, net[e][i])
             /\ Power(d, DegreeIn(net, net[e][i]) - 1) \in Nat \ {0}
  <2>1. e \in BondsAt(net, net[e][i])
    BY DEF BondsAt
  <2>2. DegreeIn(net, net[e][i]) - 1 \in Nat
    BY <2>1, DegreeFacts
  <2> QED
    BY <2>1, <2>2, PowersArePositive
<1>2. PICK p \in Nat, q \in Nat : p = Power(d, DegreeIn(net, net[e][1]) - 1)
                               /\ q = Power(d, DegreeIn(net, net[e][2]) - 1)
  BY <1>1
<1>3. FullFactoring(net, e, d) = Factoring(2 * p, 2 * q) /\ 2 * p \in Nat /\ 2 * q \in Nat
  BY <1>2 DEF FullFactoring
<1>4. FullFactoring(net, e, d) \in Nat
  <2>1. PICK a \in Nat, b \in Nat : a = 2 * p /\ b = 2 * q /\ a <= a /\ b <= b
    BY <1>3
  <2>2. Factoring(a, b) \in Nat
    BY <2>1, FactoringGrows
  <2> QED
    BY <1>3, <2>1, <2>2
<1> QED
  BY <1>1, <1>4

LEMMA FlatironChiFits ==
  ASSUME job \in Jobs, NEW net, NEW cap \in Nat
  PROVE  /\ FlatironChi(net, cap) \in Nat \ {0}
         /\ \/ FlatironChi(net, cap) = 1 \/ net = <<>>
            \/ Steps * SumFunction(FullWork(net, FlatironChi(net, cap))) <= FlopBudget
<1> DEFINE Fits(d) ==
             /\ SumFunction([v \in Verts(job.graph) |-> 16 * Power(d, DegreeIn(net, v))]) <= MemoryCap
             /\ Steps * SumFunction([e \in DOMAIN net |-> FullFactoring(net, e, d)]) <= FlopBudget
           S == {1} \cup {d \in 2 .. cap : Fits(d)}
<1>1. CASE net = <<>>
  BY <1>1 DEF FlatironChi, AtLeast
<1>2. CASE net # <<>>
  <2>1. FlatironChi(net, cap) = Max(S)
    BY <1>2 DEF FlatironChi
  <2>2. \A d \in S : d = 1 \/ Steps * SumFunction(FullWork(net, d)) <= FlopBudget
    BY DEF FullWork
  <2> HIDE DEF Fits
  <2>3. S \in SUBSET Int /\ S # {} /\ cap + 1 \in Int /\ \A x \in S : x <= cap + 1
    OBVIOUS
  <2>4. S \subseteq Nat \ {0}
    OBVIOUS
  <2> HIDE DEF S
  <2>5. Max(S) \in S
    BY <2>3, GreatestOf
  <2> QED
    BY <2>1, <2>2, <2>4, <2>5
<1> QED
  BY <1>1, <1>2

DimsFit(net, ds, d) ==
  /\ ds = [e \in DOMAIN net |-> ds[e]]
  /\ \A e \in DOMAIN net : \A v \in {net[e][1], net[e][2]} : ds[e][v] \in 1 .. d

FlatLaid ==
  Laid("flatiron") =>
    /\ network = Network(job.graph) /\ chi \in Nat \ {0}
    /\ DimsFit(network, dims, chi)
    /\ \/ chi = 1 \/ network = <<>>
       \/ Steps * SumFunction(FullWork(network, chi)) <= FlopBudget

FlatStepWork == SumFunction(FullWork(network, chi))

FlatWork ==
  Laid("flatiron") =>
    /\ at.step <= Steps
    /\ at.pc = "gates" =>
         /\ at.step < Steps
         /\ at.gate - 1 \in {0} \cup DOMAIN network
         /\ cuts <= at.step * FlatStepWork + FullUpTo(network, chi, at.gate - 1)
    /\ at.pc # "gates" => cuts <= at.step * FlatStepWork

FlatInv == FlatLaid /\ FlatWork

LEMMA FullWorkAddsUp ==
  ASSUME NEW g, GraphOK(g), NEW net, net = Network(g), NEW d \in Nat \ {0}
  PROVE  \E n \in Nat :
           /\ DOMAIN net = 1 .. n /\ IsFiniteSet(DOMAIN net)
           /\ SumFunction(FullWork(net, d)) \in Nat
           /\ SumFunction(FullWork(net, d)) = FullUpTo(net, d, n)
           /\ FullUpTo(net, d, 0) = 0
           /\ \A m \in 1 .. n :
                /\ FullUpTo(net, d, m - 1) \in Nat /\ FullUpTo(net, d, m) \in Nat
                /\ FullUpTo(net, d, m) = FullUpTo(net, d, m - 1) + FullFactoring(net, m, d)
<1>1. PICK n \in Nat : DOMAIN net = 1 .. n
  BY NetworkIsFinite
<1>2. IsFiniteSet(DOMAIN net)
  BY <1>1, FS_Interval
<1> DEFINE f == FullWork(net, d)
<1>3. DOMAIN f = 1 .. n /\ \A i \in 1 .. n : f[i] = FullFactoring(net, i, d)
  BY <1>1 DEF FullWork
<1>4. \A i \in 1 .. n : f[i] \in Nat
  <2> SUFFICES ASSUME NEW i \in 1 .. n PROVE f[i] \in Nat
    OBVIOUS
  <2>1. i \in DOMAIN net
    BY <1>1
  <2>2. FullFactoring(net, i, d) \in Nat
    BY <1>2, <2>1, FullFactoringIsWork
  <2> QED
    BY <1>3, <2>2
<1> HIDE DEF f
<1>5. /\ SumFunctionOnSet(f, 1 .. 0) = 0 /\ SumFunctionOnSet(f, 1 .. n) \in Nat
      /\ \A m \in 1 .. n :
           /\ SumFunctionOnSet(f, 1 .. m - 1) \in Nat /\ SumFunctionOnSet(f, 1 .. m) \in Nat
           /\ SumFunctionOnSet(f, 1 .. m) = SumFunctionOnSet(f, 1 .. m - 1) + f[m]
  BY <1>4, PrefixSums
<1>6. SumFunction(f) = SumFunctionOnSet(f, 1 .. n)
  BY <1>3 DEF SumFunction
<1> QED
  BY <1>1, <1>2, <1>3, <1>5, <1>6 DEF FullUpTo, f

LEMMA FlatBegins ==
  ASSUME TensorTypes, BeginFlatiron
  PROVE  TensorTypes' /\ FlatInv'
<1> DEFINE g == job.graph
<1>1. /\ job \in Jobs /\ job' = job /\ at = Rest /\ cuts = 0 /\ cuts' = 0
      /\ network' = Network(g) /\ chi' = FlatironChi(network', job.chiMax)
      /\ dims' = [e \in DOMAIN network' |-> [v \in {network'[e][1], network'[e][2]} |-> 1]]
      /\ at' = [at EXCEPT !.pc = "step"]
  BY DEF TensorTypes, BeginFlatiron, FlatPlus, Goto
<1>2. at' = [pc |-> "step", step |-> 0, gate |-> 1]
  BY <1>1 DEF Rest
<1>3. TensorTypes'
  <2>1. at'.pc # "idle" /\ cuts' \in Nat /\ job' \in Jobs
    BY <1>1, <1>2
  <2>2. at' \in [pc : {"idle", "step", "gates", "draw", "polish", "done"}, step : Nat, gate : Nat \ {0}]
    BY <1>2
  <2> QED
    BY <2>1, <2>2 DEF TensorTypes
<1>4. GraphOK(g) /\ Steps \in Nat \ {0} /\ Steps' = Steps /\ job.chiMax \in Nat
  BY <1>1, JobGraphs, StepsAreSome, TensorJobsAssumption DEF Steps
<1>5. PICK net, d : net = network' /\ d = chi'
  OBVIOUS
<1>6. /\ net = Network(g) /\ d \in Nat \ {0}
      /\ d = 1 \/ net = <<>> \/ Steps * SumFunction(FullWork(net, d)) <= FlopBudget
  <2>1. d = FlatironChi(net, job.chiMax) /\ net = Network(g)
    BY <1>1, <1>5
  <2> QED
    BY <1>1, <1>4, <2>1, FlatironChiFits
<1>7. DimsFit(net, dims', d)
  BY <1>1, <1>5, <1>6 DEF DimsFit
<1>8. FlatLaid'
  BY <1>1, <1>4, <1>5, <1>6, <1>7 DEF FlatLaid
<1>9. FlatWork'
  <2>1. SumFunction(FullWork(net, d)) \in Nat
    BY <1>4, <1>6, FullWorkAddsUp
  <2>2. FlatStepWork' \in Nat
    BY <1>5, <2>1 DEF FlatStepWork
  <2>3. 0 * FlatStepWork' = 0
    <3>1. PICK x \in Int : x = FlatStepWork'
      BY <2>2
    <3>2. 0 * x = 0
      OBVIOUS
    <3> QED
      BY <3>1, <3>2
  <2> QED
    BY <1>1, <1>2, <1>4, <2>3 DEF FlatWork
<1> QED
  BY <1>3, <1>8, <1>9 DEF FlatInv

\* What holds of a network that is being evolved.
LEMMA FlatFacts ==
  ASSUME TensorTypes, FlatInv, Laid("flatiron")
  PROVE  /\ GraphOK(job.graph) /\ Steps \in Nat \ {0} /\ FlatStepWork \in Nat
         /\ network = Network(job.graph) /\ chi \in Nat \ {0}
         /\ cuts \in Nat /\ job \in Jobs /\ at.step \in Nat /\ at.gate \in Nat \ {0}
         /\ at = [pc |-> at.pc, step |-> at.step, gate |-> at.gate]
<1>1. /\ network = Network(job.graph) /\ chi \in Nat \ {0}
      /\ cuts \in Nat /\ job \in Jobs /\ at.step \in Nat /\ at.gate \in Nat \ {0}
      /\ at = [pc |-> at.pc, step |-> at.step, gate |-> at.gate]
  BY DEF TensorTypes, FlatInv, FlatLaid
<1>2. GraphOK(job.graph) /\ Steps \in Nat \ {0}
  BY <1>1, JobGraphs, StepsAreSome
<1>3. FlatStepWork \in Nat
  BY <1>1, <1>2, FullWorkAddsUp DEF FlatStepWork
<1> QED
  BY <1>1, <1>2, <1>3

LEMMA FlatStarts ==
  ASSUME TensorTypes, FlatInv, job.kernel = "flatiron", FlatironStart \/ FlatironSkip
  PROVE  TensorTypes' /\ FlatInv'
<1>1. /\ at.pc = "step" /\ at.step < Steps
      /\ UNCHANGED <<job, chi, cuts, network, dims>>
      /\ \/ at' = [at EXCEPT !.step = @ + 1]
         \/ at' = [at EXCEPT !.pc = "gates", !.gate = 1]
  BY DEF FlatironStart, FlatironSkip, StartStep, SkipStep, flatironVars
<1>2. Laid("flatiron")
  BY <1>1 DEF Laid
<1>3. /\ at = [pc |-> "step", step |-> at.step, gate |-> at.gate]
      /\ at.step \in Nat /\ at.gate \in Nat \ {0} /\ cuts \in Nat /\ job \in Jobs
      /\ GraphOK(job.graph) /\ network = Network(job.graph) /\ chi \in Nat \ {0}
      /\ Steps \in Nat \ {0} /\ FlatStepWork \in Nat
  BY <1>1, <1>2, FlatFacts
<1>4. Steps' = Steps /\ FlatStepWork' = FlatStepWork
  BY <1>1 DEF Steps, FlatStepWork
<1>5. /\ cuts <= at.step * FlatStepWork
      /\ DimsFit(network, dims, chi)
      /\ \/ chi = 1 \/ network = <<>>
         \/ Steps * SumFunction(FullWork(network, chi)) <= FlopBudget
  BY <1>1, <1>2 DEF FlatInv, FlatWork, FlatLaid
<1>6. \/ at' = [pc |-> "step", step |-> at.step + 1, gate |-> at.gate]
      \/ at' = [pc |-> "gates", step |-> at.step, gate |-> 1]
  BY <1>1, <1>3
<1>7. TensorTypes'
  <2>1. job' \in Jobs /\ cuts' \in Nat
    BY <1>1, <1>3
  <2>2. /\ at' \in [pc : {"idle", "step", "gates", "draw", "polish", "done"}, step : Nat, gate : Nat \ {0}]
        /\ at'.pc # "idle"
    BY <1>3, <1>6
  <2> QED
    BY <2>1, <2>2 DEF TensorTypes
<1>8. FlatLaid'
  BY <1>1, <1>3, <1>4, <1>5 DEF FlatLaid
<1>9. FlatWork'
  <2>1. PICK x \in Nat : x = FlatStepWork
    BY <1>3
  <2>2. CASE at' = [pc |-> "step", step |-> at.step + 1, gate |-> at.gate]
    <3>1. at'.pc = "step" /\ at'.step = at.step + 1
      BY <2>2
    <3>2. at.step * x <= (at.step + 1) * x /\ at.step * x \in Nat /\ (at.step + 1) * x \in Nat
      BY <1>3
    <3>3. cuts' <= at'.step * FlatStepWork'
      BY <1>1, <1>3, <1>4, <1>5, <2>1, <3>1, <3>2
    <3>4. at'.step <= Steps'
      BY <1>1, <1>3, <1>4, <3>1
    <3> QED
      BY <3>1, <3>3, <3>4 DEF FlatWork
  <2>3. CASE at' = [pc |-> "gates", step |-> at.step, gate |-> 1]
    <3>1. at'.pc = "gates" /\ at'.step = at.step /\ at'.gate - 1 = 0
      BY <2>3
    <3>2. FullUpTo(network, chi, 0) = 0
      BY <1>3, FullWorkAddsUp
    <3>3. at.step * x \in Nat
      BY <1>3
    <3>4. cuts' <= at'.step * FlatStepWork' + FullUpTo(network', chi', at'.gate - 1)
      BY <1>1, <1>4, <1>5, <2>1, <3>1, <3>2, <3>3
    <3>5. at'.step < Steps' /\ at'.step <= Steps' /\ at'.gate - 1 \in {0} \cup DOMAIN network'
      BY <1>1, <1>3, <1>4, <3>1
    <3> QED
      BY <3>1, <3>4, <3>5 DEF FlatWork
  <2> QED
    BY <1>6, <2>2, <2>3
<1> QED
  BY <1>7, <1>8, <1>9 DEF FlatInv

\* The dimensions of the other bonds bound the rows of a tensor.
LEMMA RowsFit ==
  ASSUME IsFiniteSet(DOMAIN network), chi \in Nat \ {0}, DimsFit(network, dims, chi),
         NEW v, NEW e \in BondsAt(network, v)
  PROVE  Rows(v, e) \in Nat \ {0} /\ Rows(v, e) <= 2 * Power(chi, DegreeIn(network, v) - 1)
<1> DEFINE B == BondsAt(network, v) \ {e}
           h == [f \in B |-> dims[f][v]]
<1>1. Rows(v, e) = 2 * Product1(h)
  BY DEF Rows, Product1
<1>2. \A f \in B : f \in DOMAIN network /\ v \in {network[f][1], network[f][2]}
  BY DEF BondsAt
<1>3. \A f \in DOMAIN h : h[f] \in 1 .. chi
  BY <1>2 DEF DimsFit
<1>4. IsFiniteSet(B) /\ Cardinality(B) = DegreeIn(network, v) - 1 /\ DegreeIn(network, v) - 1 \in Nat
  BY DegreeFacts
<1>5. DOMAIN h = B
  OBVIOUS
<1> HIDE DEF h, B
<1>6. IsFiniteSet(DOMAIN h)
  BY <1>4, <1>5
<1>7. Product1(h) \in Nat \ {0} /\ Product1(h) <= Power(chi, Cardinality(DOMAIN h))
  BY <1>3, <1>6, ProductIsBounded
<1>8. Power(chi, DegreeIn(network, v) - 1) \in Nat \ {0}
  BY <1>4, PowersArePositive
<1>9. PICK a \in Nat \ {0}, b \in Nat : a = Product1(h) /\ b = Power(chi, DegreeIn(network, v) - 1)
  BY <1>7, <1>8
<1>10. a <= b
  BY <1>4, <1>5, <1>7, <1>9
<1> QED
  BY <1>1, <1>9, <1>10

LEMMA FlatGoesThroughGates ==
  ASSUME TensorTypes, FlatInv, job.kernel = "flatiron", FlatironGate
  PROVE  TensorTypes' /\ FlatInv'
<1> DEFINE e == at.gate
           u == network[e][1]
           v == network[e][2]
<1>1. PICK keep \in Kept(Rows(u, e), Rows(v, e), chi) :
        dims' = [dims EXCEPT ![e] = [w \in {u, v} |-> keep]]
  BY DEF FlatironGate
<1>2. /\ at.pc = "gates" /\ e \in DOMAIN network
      /\ cuts' = cuts + Factoring(Rows(u, e), Rows(v, e))
      /\ at' = [at EXCEPT !.gate = @ + 1]
      /\ UNCHANGED <<job, chi, network>>
  BY DEF FlatironGate
<1>3. Laid("flatiron")
  BY <1>2 DEF Laid
<1>4. /\ at = [pc |-> "gates", step |-> at.step, gate |-> at.gate]
      /\ at.step \in Nat /\ at.gate \in Nat \ {0} /\ cuts \in Nat /\ job \in Jobs
      /\ GraphOK(job.graph) /\ network = Network(job.graph) /\ chi \in Nat \ {0}
      /\ Steps \in Nat \ {0} /\ FlatStepWork \in Nat
  BY <1>2, <1>3, FlatFacts
<1>5. Steps' = Steps /\ FlatStepWork' = FlatStepWork
  BY <1>2 DEF Steps, FlatStepWork
<1>6. /\ at.step <= Steps /\ at.step < Steps
      /\ cuts <= at.step * FlatStepWork + FullUpTo(network, chi, e - 1)
      /\ DimsFit(network, dims, chi)
      /\ \/ chi = 1 \/ network = <<>>
         \/ Steps * SumFunction(FullWork(network, chi)) <= FlopBudget
  BY <1>2, <1>3 DEF FlatInv, FlatWork, FlatLaid
<1>7. /\ IsFiniteSet(DOMAIN network)
      /\ FullUpTo(network, chi, e - 1) \in Nat
      /\ FullUpTo(network, chi, e) = FullUpTo(network, chi, e - 1) + FullFactoring(network, e, chi)
  BY <1>2, <1>4, FullWorkAddsUp
<1>8. e \in BondsAt(network, u) /\ e \in BondsAt(network, v)
  BY <1>2 DEF BondsAt
<1>9. /\ Rows(u, e) \in Nat \ {0} /\ Rows(u, e) <= 2 * Power(chi, DegreeIn(network, u) - 1)
      /\ Rows(v, e) \in Nat \ {0} /\ Rows(v, e) <= 2 * Power(chi, DegreeIn(network, v) - 1)
  BY <1>4, <1>6, <1>7, <1>8, RowsFit
<1>10. /\ Factoring(Rows(u, e), Rows(v, e)) \in Nat
       /\ FullFactoring(network, e, chi) \in Nat
       /\ Factoring(Rows(u, e), Rows(v, e)) <= FullFactoring(network, e, chi)
  <2>1. /\ Power(chi, DegreeIn(network, u) - 1) \in Nat
        /\ Power(chi, DegreeIn(network, v) - 1) \in Nat
    BY <1>2, <1>4, <1>7, FullFactoringIsWork
  <2>2. PICK p \in Nat, q \in Nat : p = 2 * Power(chi, DegreeIn(network, u) - 1)
                                 /\ q = 2 * Power(chi, DegreeIn(network, v) - 1)
    BY <2>1
  <2>3. FullFactoring(network, e, chi) = Factoring(p, q)
    BY <2>2 DEF FullFactoring
  <2>4. PICK r \in Nat, c \in Nat : r = Rows(u, e) /\ c = Rows(v, e) /\ r <= p /\ c <= q
    BY <1>9, <2>2
  <2>5. Factoring(r, c) \in Nat /\ Factoring(p, q) \in Nat /\ Factoring(r, c) <= Factoring(p, q)
    BY <2>4, FactoringGrows
  <2> QED
    BY <2>3, <2>4, <2>5
<1>11. DimsFit(network, dims', chi)
  <2>1. keep \in 1 .. chi
    <3>1. PICK r \in Nat, c \in Nat : r = Rows(u, e) /\ c = Rows(v, e)
      BY <1>9
    <3>2. keep \in Kept(r, c, chi)
      BY <3>1
    <3>3. keep \in Nat \ {0} /\ keep <= chi
      BY <1>4, <3>2, KeptIsSmall
    <3> QED
      BY <1>4, <3>3
  <2>2. dims = [f \in DOMAIN network |-> dims[f]]
    BY <1>6 DEF DimsFit
  <2>3. dims' = [f \in DOMAIN network |-> IF f = e THEN [w \in {u, v} |-> keep] ELSE dims[f]]
    BY <1>1, <2>2
  <2>4. \A f \in DOMAIN network : dims'[f] = IF f = e THEN [w \in {u, v} |-> keep] ELSE dims[f]
    BY <2>3
  <2>5. ASSUME NEW f \in DOMAIN network, NEW w \in {network[f][1], network[f][2]}
        PROVE  dims'[f][w] \in 1 .. chi
    <3>1. CASE f = e
      BY <2>1, <2>4, <3>1
    <3>2. CASE f # e
      BY <1>6, <2>4, <3>2 DEF DimsFit
    <3> QED
      BY <3>1, <3>2
  <2>6. dims' = [f \in DOMAIN network |-> dims'[f]]
    BY <2>3
  <2> QED
    BY <2>5, <2>6 DEF DimsFit
<1> HIDE DEF e, u, v
<1>12. at' = [pc |-> "gates", step |-> at.step, gate |-> at.gate + 1]
  BY <1>2, <1>4
<1>13. cuts' \in Nat
  BY <1>2, <1>4, <1>10
<1>14. TensorTypes'
  <2>1. /\ at' \in [pc : {"idle", "step", "gates", "draw", "polish", "done"}, step : Nat, gate : Nat \ {0}]
        /\ at'.pc # "idle"
    BY <1>4, <1>12
  <2> QED
    BY <1>2, <1>4, <1>13, <2>1 DEF TensorTypes
<1>15. FlatLaid'
  BY <1>2, <1>4, <1>5, <1>6, <1>11 DEF FlatLaid
<1>16. FlatWork'
  <2>1. at'.pc = "gates" /\ at'.step = at.step /\ at'.gate - 1 = e
    BY <1>4, <1>12 DEF e
  <2>2. PICK t \in Nat : t = at.step * FlatStepWork
    BY <1>4
  <2>3. cuts' <= t + FullUpTo(network, chi, e)
    BY <1>2, <1>4, <1>6, <1>7, <1>10, <2>2
  <2>4. cuts' <= at'.step * FlatStepWork' + FullUpTo(network', chi', at'.gate - 1)
    BY <1>2, <1>5, <2>1, <2>2, <2>3
  <2>5. at'.step <= Steps' /\ at'.step < Steps' /\ at'.gate - 1 \in {0} \cup DOMAIN network'
    BY <1>2, <1>5, <1>6, <2>1
  <2> QED
    BY <2>1, <2>4, <2>5 DEF FlatWork
<1> QED
  BY <1>14, <1>15, <1>16 DEF FlatInv

LEMMA FlatEnds ==
  ASSUME TensorTypes, FlatInv, job.kernel = "flatiron", FlatironEndStep \/ FlatironAnnealed
  PROVE  TensorTypes' /\ FlatInv'
<1>1. /\ at.pc \in {"gates", "step"}
      /\ UNCHANGED <<job, chi, cuts, network, dims>>
      /\ \/ at.pc = "gates" /\ at.gate \notin DOMAIN network /\ at' = [at EXCEPT !.pc = "step", !.step = @ + 1]
         \/ at.pc = "step" /\ at' = [at EXCEPT !.pc = "draw"]
  BY DEF FlatironEndStep, FlatironAnnealed, NextStep, Goto, flatironVars
<1>2. Laid("flatiron")
  BY <1>1 DEF Laid
<1>3. /\ at = [pc |-> at.pc, step |-> at.step, gate |-> at.gate]
      /\ at.step \in Nat /\ at.gate \in Nat \ {0} /\ cuts \in Nat /\ job \in Jobs
      /\ GraphOK(job.graph) /\ network = Network(job.graph) /\ chi \in Nat \ {0}
      /\ Steps \in Nat \ {0} /\ FlatStepWork \in Nat
  BY <1>2, FlatFacts
<1>4. Steps' = Steps /\ FlatStepWork' = FlatStepWork
  BY <1>1 DEF Steps, FlatStepWork
<1>5. /\ DimsFit(network, dims, chi)
      /\ \/ chi = 1 \/ network = <<>>
         \/ Steps * SumFunction(FullWork(network, chi)) <= FlopBudget
      /\ at.step <= Steps
  BY <1>2 DEF FlatInv, FlatWork, FlatLaid
<1>6. \/ at.pc = "gates" /\ at' = [pc |-> "step", step |-> at.step + 1, gate |-> at.gate]
      \/ at.pc = "step" /\ at' = [pc |-> "draw", step |-> at.step, gate |-> at.gate]
  BY <1>1, <1>3
<1>7. TensorTypes'
  <2>1. job' \in Jobs /\ cuts' \in Nat
    BY <1>1, <1>3
  <2>2. /\ at' \in [pc : {"idle", "step", "gates", "draw", "polish", "done"}, step : Nat, gate : Nat \ {0}]
        /\ at'.pc # "idle"
    BY <1>3, <1>6
  <2> QED
    BY <2>1, <2>2 DEF TensorTypes
<1>8. FlatLaid'
  BY <1>1, <1>3, <1>4, <1>5 DEF FlatLaid
<1>9. FlatWork'
  <2>1. CASE at.pc = "gates"
    <3>1. /\ at.step < Steps /\ at.gate - 1 \in {0} \cup DOMAIN network
          /\ cuts <= at.step * FlatStepWork + FullUpTo(network, chi, at.gate - 1)
      BY <1>2, <2>1 DEF FlatInv, FlatWork
    <3>2. PICK n \in Nat : DOMAIN network = 1 .. n /\ FlatStepWork = FullUpTo(network, chi, n)
      BY <1>3, FullWorkAddsUp DEF FlatStepWork
    <3>3. at.gate \notin 1 .. n /\ at.gate - 1 \in {0} \cup 1 .. n
      BY <1>1, <2>1, <3>1, <3>2
    <3>4. at.gate - 1 = n
      BY <1>3, <3>3
    <3>5. PICK x \in Nat : x = FlatStepWork
      BY <1>3
    <3>6. (at.step + 1) * x = at.step * x + x
      BY <1>3
    <3>7. at'.pc = "step" /\ at'.step = at.step + 1
      BY <1>6, <2>1
    <3>8. cuts' <= at'.step * FlatStepWork'
      BY <1>1, <1>4, <3>1, <3>2, <3>4, <3>5, <3>6, <3>7
    <3>9. at'.step <= Steps'
      BY <1>3, <1>4, <3>1, <3>7
    <3> QED
      BY <3>7, <3>8, <3>9 DEF FlatWork
  <2>2. CASE at.pc = "step"
    <3>1. at'.pc = "draw" /\ at'.step = at.step
      BY <1>6, <2>2
    <3>2. cuts <= at.step * FlatStepWork
      BY <1>2, <2>2 DEF FlatInv, FlatWork
    <3> QED
      BY <1>1, <1>4, <1>5, <3>1, <3>2 DEF FlatWork
  <2> QED
    BY <1>1, <2>1, <2>2
<1> QED
  BY <1>7, <1>8, <1>9 DEF FlatInv

LEMMA FlatReads ==
  ASSUME TensorTypes, FlatInv, DrawRead \/ PolishRead \/ ScoreRead \/ TensorDone
  PROVE  FlatInv'
<1>1. /\ UNCHANGED <<job, chi, cuts, network, dims>>
      /\ at.pc \in {"draw", "polish", "done"}
      /\ \/ at' = at
         \/ /\ \E pc \in {"draw", "polish", "done"} : at' = [at EXCEPT !.pc = pc]
            /\ at.pc # "done"
  BY DEF DrawRead, PolishRead, ScoreRead, TensorDone, Goto, tensorVars
<1>2. at = [pc |-> at.pc, step |-> at.step, gate |-> at.gate]
  BY DEF TensorTypes
<1>3. PICK pc \in {"draw", "polish", "done"} :
        at' = [pc |-> pc, step |-> at.step, gate |-> at.gate] /\ (at.pc = "done" => pc = "done")
  BY <1>1, <1>2
<1>4. at'.pc = pc /\ at'.step = at.step
  BY <1>3
<1>5. Steps' = Steps /\ FlatStepWork' = FlatStepWork
  BY <1>1 DEF Steps, FlatStepWork
<1>6. Laid("flatiron")' => Laid("flatiron")
  BY <1>1, <1>3, <1>4 DEF Laid
<1>7. FlatLaid'
  BY <1>1, <1>5, <1>6 DEF FlatInv, FlatLaid
<1>8. FlatWork'
  BY <1>1, <1>4, <1>5, <1>6 DEF FlatInv, FlatWork
<1> QED
  BY <1>7, <1>8 DEF FlatInv

\* A kernel keeps nothing of the other's.
LEMMA OtherKernelRests ==
  /\ ~Laid("mps")' => (MpsLaid /\ MpsWork /\ MpsCanonical)'
  /\ ~Laid("flatiron")' => FlatInv'
BY DEF MpsLaid, MpsWork, MpsCanonical, FlatInv, FlatLaid, FlatWork

TensorInv == MpsInv /\ FlatInv

LEMMA TensorStep ==
  ASSUME TensorInv, [TensorNext]_tensorVars
  PROVE  TensorInv'
<1>0. MpsInv /\ FlatInv /\ TensorTypes
  BY DEF TensorInv, MpsInv
<1>1. CASE EmptyJob
  <2>1. job' = job /\ cuts' = cuts /\ at = Rest /\ cuts = 0 /\ at' = [at EXCEPT !.pc = "done"]
    BY <1>0, <1>1 DEF EmptyJob, Goto, TensorTypes
  <2>2. at' = [pc |-> "done", step |-> 0, gate |-> 1]
    BY <2>1 DEF Rest
  <2>3. TensorTypes'
    <3>1. /\ at' \in [pc : {"idle", "step", "gates", "draw", "polish", "done"}, step : Nat, gate : Nat \ {0}]
          /\ at'.pc # "idle"
      BY <2>2
    <3> QED
      BY <1>0, <2>1, <3>1 DEF TensorTypes
  <2>4. ~Laid("mps")' /\ ~Laid("flatiron")'
    BY <2>2 DEF Laid
  <2> QED
    BY <2>3, <2>4, OtherKernelRests DEF TensorInv, MpsInv
<1>2. CASE BeginMps
  <2>1. MpsInv'
    BY <1>0, <1>2, MpsBegins
  <2>2. ~Laid("flatiron")'
    BY <1>2 DEF BeginMps, Laid
  <2> QED
    BY <2>1, <2>2, OtherKernelRests DEF TensorInv
<1>3. CASE BeginFlatiron
  <2>1. TensorTypes' /\ FlatInv'
    BY <1>0, <1>3, FlatBegins
  <2>2. ~Laid("mps")'
    BY <1>3 DEF BeginFlatiron, Laid
  <2> QED
    BY <2>1, <2>2, OtherKernelRests DEF TensorInv, MpsInv
<1>4. CASE job.kernel = "mps" /\ MpsEvolve
  <2>1. MpsInv'
    BY <1>0, <1>4, MpsStarts, MpsGoesThroughGates, MpsEndsAStep, MpsEndsTheAnneal DEF MpsEvolve
  <2>2. job' = job
    BY <1>4 DEF MpsEvolve, MpsStart, MpsSkip, MpsGate, MpsEndStep, MpsAnnealed, StartStep, SkipStep, NextStep
  <2>3. ~Laid("flatiron")'
    BY <1>4, <2>2 DEF Laid
  <2> QED
    BY <2>1, <2>3, OtherKernelRests DEF TensorInv
<1>5. CASE job.kernel = "flatiron" /\ FlatironEvolve
  <2>1. TensorTypes' /\ FlatInv'
    BY <1>0, <1>5, FlatStarts, FlatGoesThroughGates, FlatEnds DEF FlatironEvolve
  <2>2. job' = job
    BY <1>5 DEF FlatironEvolve, FlatironStart, FlatironSkip, FlatironGate, FlatironEndStep,
                FlatironAnnealed, StartStep, SkipStep, NextStep
  <2>3. ~Laid("mps")'
    BY <1>5, <2>2 DEF Laid
  <2> QED
    BY <2>1, <2>3, OtherKernelRests DEF TensorInv, MpsInv
<1>6. CASE DrawRead \/ PolishRead \/ ScoreRead \/ TensorDone
  BY <1>0, <1>6, MpsReads, FlatReads DEF TensorInv
<1>7. CASE UNCHANGED tensorVars
  <2>1. /\ UNCHANGED <<job, at, chi, cuts, chain, bond, form, network, dims>>
    BY <1>7 DEF tensorVars
  <2>2. Steps' = Steps /\ FlatStepWork' = FlatStepWork /\ Walked' = Walked /\ StepWork' = StepWork
        /\ UnitWork' = UnitWork
    BY <2>1, BoundsStay DEF Steps, FlatStepWork
  <2>3. MpsInv'
    BY <1>0, <2>1, <2>2 DEF MpsInv, TensorTypes, MpsLaid, MpsWork, MpsCanonical, Laid, Slots
  <2>4. FlatInv'
    BY <1>0, <2>1, <2>2 DEF FlatInv, FlatLaid, FlatWork, Laid
  <2> QED
    BY <2>3, <2>4 DEF TensorInv
<1> QED
  BY <1>1, <1>2, <1>3, <1>4, <1>5, <1>6, <1>7 DEF TensorNext, Evolve

LEMMA TensorInvHolds == TensorSpec => []TensorInv
<1>1. ASSUME TensorInit PROVE TensorInv
  <2>1. job \in Jobs /\ at = [pc |-> "idle", step |-> 0, gate |-> 1] /\ cuts = 0
    BY <1>1 DEF TensorInit, Rest
  <2>2. TensorTypes
    <3>1. at \in [pc : {"idle", "step", "gates", "draw", "polish", "done"}, step : Nat, gate : Nat \ {0}]
      BY <2>1
    <3> QED
      BY <2>1, <3>1 DEF TensorTypes, Rest
  <2>3. ~Laid("mps") /\ ~Laid("flatiron")
    BY <2>1 DEF Laid
  <2> QED
    BY <2>2, <2>3 DEF TensorInv, MpsInv, FlatInv, MpsLaid, MpsWork, MpsCanonical, FlatLaid, FlatWork
<1>2. TensorInv /\ [TensorNext]_tensorVars => TensorInv'
  BY TensorStep
<1> QED
  BY <1>1, <1>2, PTL DEF TensorSpec

-----------------------------------------------------------------------------
(* A matrix product state that is sampled is right canonical from its      *)
(* second site on, and no bond is larger than the smaller side of its cut  *)
(* or the bond dimension that was chosen (mps/state.rs 150-153).           *)
THEOREM MpsSamplesCanonicalStates == TensorSpec => []SampledStateIsCanonical
<1>1. ASSUME TensorInv PROVE SampledStateIsCanonical
  <2> SUFFICES ASSUME at.pc = "draw", job.kernel = "mps", job.init = "Anneal"
               PROVE  /\ \A k \in Slots \ {0} : form[k] = "right"
                      /\ \A k \in DOMAIN bond :
                           bond[k] <= AtMost(chi, AtMost(Power(2, k), Power(2, LastSlot + 1 - k)))
    BY DEF SampledStateIsCanonical
  <2>1. Laid("mps")
    BY DEF Laid
  <2>2. /\ \A k \in Slots \ {0} : form[k] = "right"
        /\ RightFit(job.graph, bond) /\ BondsFit(job.graph, bond, chi)
        /\ job \in Jobs
    BY <1>1, <2>1 DEF TensorInv, MpsInv, MpsCanonical, MpsLaid, TensorTypes
  <2>3. Size(job.graph) \in Nat
    BY <2>2, JobGraphs DEF GraphOK
  <2>4. ASSUME NEW k \in DOMAIN bond
        PROVE  bond[k] <= AtMost(chi, AtMost(Power(2, k), Power(2, LastSlot + 1 - k)))
    <3>1. k \in 0 .. Size(job.graph)
      BY <2>2 DEF BondsFit
    <3>2. LastSlot + 1 - k = Size(job.graph) - k
      BY <2>3, <3>1 DEF LastSlot
    <3>3. bond[k] <= chi /\ bond[k] <= Power(2, k) /\ bond[k] <= Power(2, LastSlot + 1 - k)
      BY <2>2, <3>1, <3>2 DEF BondsFit, RightFit
    <3> QED
      BY <3>3 DEF AtMost
  <2> QED
    BY <2>2, <2>4
<1> QED
  BY <1>1, TensorInvHolds, PTL

(* The gates of a whole anneal cost no more than the budget that the bond  *)
(* dimension or the number of steps was chosen by, unless one step of a    *)
(* product state is already more (mps/mod.rs 159-167, flatiron/mod.rs      *)
(* 82-85).                                                                 *)
THEOREM AnnealWorkIsBudgeted == TensorSpec => []WorkFitsTheBudget
<1>1. ASSUME TensorInv PROVE WorkFitsTheBudget
  <2> SUFFICES ASSUME at.pc = "draw"
               PROVE  IF job.kernel = "mps" THEN cuts <= WorkBudget \/ at.step <= 1
                                            ELSE cuts <= FlopBudget \/ chi = 1
    BY DEF WorkFitsTheBudget, Annealed
  <2>0. TensorTypes /\ FlatInv /\ MpsInv /\ job \in Jobs /\ at.step \in Nat /\ cuts \in Nat
    BY <1>1 DEF TensorInv, MpsInv, TensorTypes
  <2>1. CASE job.kernel = "mps"
    <3>1. Laid("mps")
      BY <2>1 DEF Laid
    <3>2. /\ Walked \in Nat \ {0} /\ StepWork \in Nat
          /\ Walked = 1 \/ Walked * StepWork <= WorkBudget
      BY <2>0, <3>1, MpsWorkTypes
    <3>3. at.step <= Walked /\ cuts <= at.step * StepWork
      BY <2>0, <3>1 DEF MpsInv, MpsWork
    <3>4. CASE Walked = 1
      BY <2>1, <3>3, <3>4
    <3>5. CASE Walked * StepWork <= WorkBudget
      <4>1. PICK w \in Nat, x \in Nat, a \in Nat : w = Walked /\ x = StepWork /\ a = at.step
        BY <2>0, <3>2
      <4>2. a * x <= w * x /\ a * x \in Nat /\ w * x \in Nat
        BY <3>3, <4>1
      <4>3. WorkBudget \in Nat
        BY ScheduleAssumption
      <4> QED
        BY <2>0, <2>1, <3>3, <3>5, <4>1, <4>2, <4>3
    <3> QED
      BY <3>2, <3>4, <3>5
  <2>2. CASE job.kernel # "mps"
    <3>1. job.kernel = "flatiron"
      BY <2>0, <2>2, TensorJobsAssumption
    <3>2. Laid("flatiron")
      BY <3>1 DEF Laid
    <3>3. /\ GraphOK(job.graph) /\ Steps \in Nat \ {0} /\ FlatStepWork \in Nat
          /\ network = Network(job.graph) /\ chi \in Nat \ {0}
      BY <2>0, <3>2, FlatFacts
    <3>4. /\ at.step <= Steps /\ cuts <= at.step * FlatStepWork
          /\ chi = 1 \/ network = <<>> \/ Steps * FlatStepWork <= FlopBudget
      BY <2>0, <3>2 DEF FlatInv, FlatWork, FlatLaid, FlatStepWork
    <3>5. FlopBudget \in Nat
      BY ScheduleAssumption
    <3>6. CASE network = <<>>
      <4>1. PICK n \in Nat : /\ DOMAIN network = 1 .. n /\ FlatStepWork = FullUpTo(network, chi, n)
                             /\ FullUpTo(network, chi, 0) = 0
        BY <3>3, FullWorkAddsUp DEF FlatStepWork
      <4>2. n = 0
        <5>1. 1 .. n = {}
          BY <3>6, <4>1
        <5> QED
          BY <5>1
      <4>3. FlatStepWork = 0
        BY <4>1, <4>2
      <4>4. at.step * 0 = 0
        BY <2>0
      <4> QED
        BY <2>0, <2>2, <3>4, <3>5, <4>3, <4>4
    <3>7. CASE Steps * FlatStepWork <= FlopBudget
      <4>1. PICK w \in Nat, x \in Nat, a \in Nat : w = Steps /\ x = FlatStepWork /\ a = at.step
        BY <2>0, <3>3
      <4>2. a * x <= w * x /\ a * x \in Nat /\ w * x \in Nat
        BY <3>4, <4>1
      <4> QED
        BY <2>0, <2>2, <3>4, <3>5, <3>7, <4>1, <4>2
    <3> QED
      BY <2>2, <3>4, <3>6, <3>7
  <2> QED
    BY <2>1, <2>2
<1> QED
  BY <1>1, TensorInvHolds, PTL

-----------------------------------------------------------------------------
(* A read is polished downhill.                                            *)

\* Turning the spin of v would not lower the energy.
Settled(g, s, v) == s[v] * EffectiveField(g, v, s) <= 0

Descents(g) ==
  {d \in [spins : Configs(g), heff : [Verts(g) -> Int], left : Int, moved : BOOLEAN] : DescentOK(g, d)}

Flips(g) == [k \in Nat |-> [d \in Descents(g) |-> TryFlip(g, d, k - 1)]]

Fresh(d) == [d EXCEPT !.moved = FALSE, !.left = @ - 1]

LEMMA DescentsAreThose ==
  ASSUME NEW g, GraphOK(g)
  PROVE  \A d : d \in Descents(g) <=> DescentOK(g, d)
<1> SUFFICES ASSUME NEW d, DescentOK(g, d) PROVE d \in Descents(g)
  BY DEF Descents
<1>1. \A v \in Verts(g) : EffectiveField(g, v, d.spins) \in Int
  BY FieldIsNumber DEF DescentOK
<1>2. d.heff \in [Verts(g) -> Int]
  BY <1>1 DEF DescentOK
<1>3. d \in [spins : Configs(g), heff : [Verts(g) -> Int], left : Int, moved : BOOLEAN]
  BY <1>2 DEF DescentOK
<1> QED
  BY <1>3 DEF Descents

LEMMA FreshIsFine ==
  ASSUME NEW g, NEW d, DescentOK(g, d)
  PROVE  DescentOK(g, Fresh(d)) /\ Fresh(d).moved = FALSE /\ Fresh(d).spins = d.spins
<1>1. PICK f : f = Fresh(d)
  OBVIOUS
<1>2. f = [spins |-> d.spins, heff |-> d.heff, left |-> d.left - 1, moved |-> FALSE]
  BY <1>1 DEF Fresh, DescentOK
<1>3. DescentOK(g, f)
  BY <1>2 DEF DescentOK
<1> QED
  BY <1>1, <1>2, <1>3

LEMMA PassIsFlips ==
  ASSUME NEW g, GraphOK(g), NEW d, DescentOK(g, d)
  PROVE  \E f : /\ f[0] = Fresh(d)
                /\ \A k \in 1 .. Size(g) : f[k] = TryFlip(g, f[k - 1], k - 1)
                /\ PolishPass(g, d) = f[Size(g)]
<1> DEFINE n == Size(g)
           A == Descents(g)
           F == Flips(g)
           a == Fresh(d)
           Is(f) == f = [k \in 0 .. n |-> IF k = 0 THEN a ELSE TryFlip(g, f[k - 1], k - 1)]
<1>1. n \in Nat /\ Verts(g) = 0 .. n - 1
  BY DEF GraphOK
<1>2. DescentOK(g, a)
  BY FreshIsFine
<1>3. \A k \in 1 .. n : \A x \in A : F[k][x] = TryFlip(g, x, k - 1) /\ F[k][x] \in A
  <2> SUFFICES ASSUME NEW k \in 1 .. n, NEW x \in A
               PROVE  F[k][x] = TryFlip(g, x, k - 1) /\ F[k][x] \in A
    OBVIOUS
  <2>1. F[k][x] = TryFlip(g, x, k - 1)
    BY DEF Flips
  <2>2. k - 1 \in Verts(g) /\ DescentOK(g, x)
    BY <1>1, DescentsAreThose
  <2>3. DescentOK(g, TryFlip(g, x, k - 1))
    BY <2>2, FlipKeepsFields
  <2> QED
    BY <2>1, <2>3, DescentsAreThose
<1>4. a \in A
  BY <1>2, DescentsAreThose
<1> HIDE DEF A, F, a
<1>5. PICK f \in [0 .. n -> A] : StepsFrom(f, n, a, F)
  <2> HIDE DEF n
  <2> QED
    BY <1>1, <1>3, <1>4, Recursion
<1>6. \A k \in 0 .. n : f[k] = IF k = 0 THEN a ELSE TryFlip(g, f[k - 1], k - 1)
  <2> SUFFICES ASSUME NEW k \in 0 .. n
               PROVE  f[k] = IF k = 0 THEN a ELSE TryFlip(g, f[k - 1], k - 1)
    OBVIOUS
  <2>1. CASE k = 0
    BY <1>5, <2>1 DEF StepsFrom
  <2>2. CASE k # 0
    <3>1. k \in 1 .. n /\ k - 1 \in 0 .. n
      BY <1>1, <2>2
    <3>2. f[k - 1] \in A
      BY <3>1
    <3> QED
      BY <1>3, <1>5, <2>2, <3>1, <3>2 DEF StepsFrom
  <2> QED
    BY <2>1, <2>2
<1>7. Is(f)
  <2> HIDE DEF n
  <2> QED
    BY <1>6
<1> DEFINE after == CHOOSE h : Is(h)
<1>8. Is(after)
  <2> HIDE DEF Is
  <2> QED
    BY <1>7, Zenon
<1>9. PolishPass(g, d) = after[n]
  BY Zenon DEF PolishPass, Fresh, a
<1> HIDE DEF after
<1>10. after[0] = a /\ \A k \in 1 .. n : after[k] = TryFlip(g, after[k - 1], k - 1)
  <2> HIDE DEF n
  <2> QED
    BY <1>1, <1>8
<1> QED
  BY <1>9, <1>10 DEF a

\* A pass that moved nothing found every spin settled.
LEMMA PassDescends ==
  ASSUME NEW g, GraphOK(g), NEW d, DescentOK(g, d)
  PROVE  /\ DescentOK(g, PolishPass(g, d))
         /\ ~PolishPass(g, d).moved => \A v \in Verts(g) : Settled(g, PolishPass(g, d).spins, v)
<1>1. PICK f : /\ f[0] = Fresh(d)
               /\ \A k \in 1 .. Size(g) : f[k] = TryFlip(g, f[k - 1], k - 1)
               /\ PolishPass(g, d) = f[Size(g)]
  BY PassIsFlips
<1>2. PICK n \in Nat : n = Size(g) /\ Verts(g) = 0 .. n - 1
  BY DEF GraphOK
<1> DEFINE Still(k, x) == ~x.moved => \A v \in 0 .. k - 1 : Settled(g, x.spins, v)
           T == {k \in 0 .. n : DescentOK(g, f[k]) /\ Still(k, f[k])}
<1>3. 0 \in T
  <2>1. DescentOK(g, f[0])
    BY <1>1, FreshIsFine
  <2> QED
    BY <1>2, <2>1
<1>4. \A k \in 0 .. n - 1 : k \in T => k + 1 \in T
  <2> SUFFICES ASSUME NEW k \in 0 .. n - 1, k \in T PROVE k + 1 \in T
    OBVIOUS
  <2>1. PICK x : x = f[k]
    OBVIOUS
  <2>2. PICK y : y = TryFlip(g, x, k)
    OBVIOUS
  <2>3. f[k + 1] = y
    <3>1. k + 1 \in 1 .. Size(g) /\ (k + 1) - 1 = k
      BY <1>2
    <3> QED
      BY <1>1, <2>1, <2>2, <3>1
  <2>4. DescentOK(g, x) /\ Still(k, x) /\ k \in Verts(g)
    BY <1>2, <2>1
  <2>5. /\ DescentOK(g, y)
        /\ y.moved \/ (y = x /\ x.spins[k] * EffectiveField(g, k, x.spins) <= 0)
    BY <2>2, <2>4, FlipKeepsFields
  <2>6. Still(k + 1, y)
    <3> SUFFICES ASSUME ~y.moved, NEW v \in 0 .. k PROVE Settled(g, y.spins, v)
      BY <1>2
    <3>1. y = x /\ Settled(g, x.spins, k)
      BY <2>5 DEF Settled
    <3>2. v = k \/ v \in 0 .. k - 1
      BY <1>2
    <3> QED
      BY <2>4, <3>1, <3>2
  <2> QED
    BY <1>2, <2>3, <2>5, <2>6
<1>5. 0 .. n \subseteq T
  <2>1. 0 \in Int /\ n \in Int
    BY <1>2
  <2> HIDE DEF T
  <2> QED
    BY <1>3, <1>4, <2>1, BoundedInduction
<1>6. n \in T
  BY <1>2, <1>5
<1> QED
  BY <1>1, <1>2, <1>6

Polished ==
  at.pc = "polish" =>
    /\ DescentOK(job.graph, descent)
    /\ ~descent.moved => \A v \in Verts(job.graph) : Settled(job.graph, descent.spins, v)

LEMMA DescentStarts ==
  ASSUME NEW g, NEW s \in Configs(g), NEW passes \in Int
  PROVE  DescentOK(g, Descent(g, s, passes)) /\ Descent(g, s, passes).moved = TRUE
BY DEF Descent, DescentOK

LEMMA UnchainedIsConfig ==
  ASSUME MpsInv, Laid("mps"), NEW s \in Configs(job.graph)
  PROVE  Unchained(s) \in Configs(job.graph)
<1>1. job \in Jobs /\ chain = Chain(job.graph)
  BY DEF MpsInv, MpsLaid, TensorTypes
<1>2. GraphOK(job.graph) /\ chain.order \in Bijection(Verts(job.graph), Verts(job.graph))
  BY <1>1, JobGraphs, ChainFacts
<1>3. \A v \in Verts(job.graph) : Slot(job.graph, chain.order, v) \in Verts(job.graph)
  BY <1>2, SlotHoldsNode
<1>4. \A v \in Verts(job.graph) : s[Slot(job.graph, chain.order, v)] \in {-1, 1}
  BY <1>3 DEF Configs
<1> QED
  BY <1>4 DEF Unchained, Configs

LEMMA PolishStep ==
  ASSUME TensorInv, Polished, [TensorNext]_tensorVars
  PROVE  Polished'
<1> DEFINE g == job.graph
<1>0. /\ at = [pc |-> at.pc, step |-> at.step, gate |-> at.gate]
      /\ job \in Jobs /\ MpsInv
  BY DEF TensorInv, MpsInv, TensorTypes
<1>1. GraphOK(g) /\ PolishSweeps \in Int
  BY <1>0, JobGraphs, StepsAreSome
<1>2. CASE DrawRead
  <2>1. PICK s \in Configs(g) :
          descent' = Descent(g, IF job.kernel = "mps" /\ job.init = "Anneal" THEN Unchained(s) ELSE s,
                             PolishSweeps)
    BY <1>2 DEF DrawRead
  <2>2. at.pc = "draw" /\ job' = job
    BY <1>2 DEF DrawRead
  <2>3. PICK t : t = IF job.kernel = "mps" /\ job.init = "Anneal" THEN Unchained(s) ELSE s
    OBVIOUS
  <2>4. t \in Configs(g)
    <3>1. job.kernel = "mps" => Unchained(s) \in Configs(g)
      BY <1>0, <2>2, UnchainedIsConfig DEF Laid
    <3> QED
      BY <2>3, <3>1
  <2>5. descent' = Descent(g, t, PolishSweeps)
    BY <2>1, <2>3
  <2>6. DescentOK(g, descent') /\ descent'.moved = TRUE
    BY <1>1, <2>4, <2>5, DescentStarts
  <2> QED
    BY <2>2, <2>6 DEF Polished
<1>3. CASE PolishRead
  <2>1. at.pc = "polish" /\ job' = job /\ descent' = PolishPass(g, descent)
    BY <1>3 DEF PolishRead
  <2>2. DescentOK(g, descent)
    BY <2>1 DEF Polished
  <2>3. /\ DescentOK(g, PolishPass(g, descent))
        /\ ~PolishPass(g, descent).moved => \A v \in Verts(g) : Settled(g, PolishPass(g, descent).spins, v)
    BY <1>1, <2>2, PassDescends
  <2> QED
    BY <2>1, <2>3 DEF Polished
<1>4. CASE UNCHANGED tensorVars
  BY <1>4 DEF tensorVars, Polished
<1>5. CASE EmptyJob \/ BeginMps \/ BeginFlatiron \/ Evolve \/ ScoreRead \/ TensorDone
  <2>1. at'.pc # "polish"
    <3>1. CASE EmptyJob \/ BeginMps \/ BeginFlatiron \/ ScoreRead \/ TensorDone
      BY <1>0, <3>1 DEF EmptyJob, BeginMps, BeginFlatiron, ScoreRead, TensorDone, Goto, tensorVars
    <3>2. CASE Evolve
      <4>1. \/ at.pc \in {"step", "gates"}
               /\ \/ at' = [at EXCEPT !.step = @ + 1]
                  \/ at' = [at EXCEPT !.gate = @ + 1]
                  \/ at' = [at EXCEPT !.pc = "gates", !.gate = 1]
                  \/ at' = [at EXCEPT !.pc = "step", !.step = @ + 1]
                  \/ at' = [at EXCEPT !.pc = "draw"]
        BY <3>2 DEF Evolve, MpsEvolve, MpsStart, MpsSkip, MpsGate, MpsEndStep, MpsAnnealed,
             FlatironEvolve, FlatironStart, FlatironSkip, FlatironGate, FlatironEndStep,
             FlatironAnnealed, StartStep, SkipStep, NextStep, Goto
      <4> QED
        BY <1>0, <4>1
    <3> QED
      BY <1>5, <3>1, <3>2
  <2> QED
    BY <2>1 DEF Polished
<1> QED
  BY <1>2, <1>3, <1>4, <1>5 DEF TensorNext

(* A read is polished from what was drawn: the cached fields never drift   *)
(* from the spins, and a descent that stopped before its last pass stopped *)
(* at a local minimum of the score that is returned (sampler_core.rs       *)
(* 301-308).                                                               *)
THEOREM PolishGoesDownhill == TensorSpec => []PolishEndsDownhill
<1>1. ASSUME TensorInit PROVE Polished
  <2>1. at.pc = "idle"
    BY <1>1 DEF TensorInit, Rest
  <2> QED
    BY <2>1 DEF Polished
<1>2. TensorInv /\ Polished /\ [TensorNext]_tensorVars => Polished'
  BY PolishStep
<1>3. ASSUME TensorInv, Polished PROVE PolishEndsDownhill
  <2> DEFINE g == job.graph
  <2> SUFFICES ASSUME at.pc = "polish"
               PROVE  /\ \A v \in Verts(g) : descent.heff[v] = EffectiveField(g, v, descent.spins)
                      /\ ~descent.moved =>
                           \A v \in Verts(g) :
                             Score(g, [descent.spins EXCEPT ![v] = -@]) >= Score(g, descent.spins)
    BY DEF PolishEndsDownhill
  <2>1. /\ DescentOK(g, descent) /\ descent.spins \in Configs(g)
        /\ ~descent.moved => \A v \in Verts(g) : Settled(g, descent.spins, v)
    BY <1>3 DEF Polished, DescentOK
  <2>2. GraphOK(g)
    BY <1>3, JobGraphs DEF TensorInv, MpsInv, TensorTypes
  <2>3. \A v \in Verts(g) : descent.heff[v] = EffectiveField(g, v, descent.spins)
    BY <2>1 DEF DescentOK
  <2>4. ASSUME ~descent.moved, NEW v \in Verts(g)
        PROVE  Score(g, [descent.spins EXCEPT ![v] = -@]) >= Score(g, descent.spins)
    <3>1. /\ Score(g, descent.spins) \in Int
          /\ Score(g, Turned(descent.spins, v))
               = Score(g, descent.spins) - 2 * descent.spins[v] * EffectiveField(g, v, descent.spins)
      BY <2>1, <2>2, ScoreDelta
    <3>2. descent.spins[v] \in Int /\ EffectiveField(g, v, descent.spins) \in Int
      BY <2>1, <2>2, TurnedSpins, FieldIsNumber
    <3>3. PICK s \in Int, f \in Int, e \in Int :
            s = descent.spins[v] /\ f = EffectiveField(g, v, descent.spins) /\ e = Score(g, descent.spins)
      BY <3>1, <3>2
    <3>4. s * f <= 0
      BY <2>1, <2>4, <3>3 DEF Settled
    <3>5. 2 * s * f = 2 * (s * f) /\ s * f \in Int
      OBVIOUS
    <3>6. e - 2 * s * f >= e
      BY <3>4, <3>5
    <3> QED
      BY <3>1, <3>3, <3>6 DEF Turned
  <2> QED
    BY <2>3, <2>4
<1> QED
  BY <1>1, <1>2, <1>3, TensorInvHolds, PTL DEF TensorSpec

LEMMA FlipGoesDown ==
  ASSUME NEW g, GraphOK(g), NEW d, DescentOK(g, d), NEW v \in Verts(g)
  PROVE  \/ TryFlip(g, d, v) = d
         \/ /\ TryFlip(g, d, v).moved
            /\ Score(g, TryFlip(g, d, v).spins) < Score(g, d.spins)
<1>1. CASE d.spins[v] * d.heff[v] > 0
  <2>1. PICK e : e = TryFlip(g, d, v)
    OBVIOUS
  <2>2. e.spins = Turned(d.spins, v) /\ e.moved
    BY <1>1, <2>1 DEF TryFlip, DescentOK, Turned
  <2>3. /\ d.spins \in Configs(g)
        /\ d.heff[v] = EffectiveField(g, v, d.spins) /\ EffectiveField(g, v, d.spins) \in Int
    BY FieldIsNumber DEF DescentOK
  <2>4. d.spins[v] \in Int
    BY <2>3, TurnedSpins
  <2>5. /\ Score(g, d.spins) \in Int
        /\ Score(g, Turned(d.spins, v))
             = Score(g, d.spins) - 2 * d.spins[v] * EffectiveField(g, v, d.spins)
    BY <2>3, ScoreDelta
  <2>6. PICK s \in Int, f \in Int, x \in Int :
          s = d.spins[v] /\ f = EffectiveField(g, v, d.spins) /\ x = Score(g, d.spins)
    BY <2>3, <2>4, <2>5
  <2>7. s * f > 0 /\ 2 * s * f = 2 * (s * f) /\ s * f \in Int
    BY <1>1, <2>3, <2>6
  <2>8. x - 2 * s * f < x
    BY <2>7
  <2> QED
    BY <2>1, <2>2, <2>5, <2>6, <2>8
<1>2. CASE ~(d.spins[v] * d.heff[v] > 0)
  BY <1>2 DEF TryFlip
<1> QED
  BY <1>1, <1>2

LEMMA PassLowersScore ==
  ASSUME NEW g, GraphOK(g), NEW d, DescentOK(g, d)
  PROVE  IF PolishPass(g, d).moved
         THEN Score(g, PolishPass(g, d).spins) < Score(g, d.spins)
         ELSE PolishPass(g, d).spins = d.spins
<1>1. PICK f : /\ f[0] = Fresh(d)
               /\ \A k \in 1 .. Size(g) : f[k] = TryFlip(g, f[k - 1], k - 1)
               /\ PolishPass(g, d) = f[Size(g)]
  BY PassIsFlips
<1>2. PICK n \in Nat : n = Size(g) /\ Verts(g) = 0 .. n - 1
  BY DEF GraphOK
<1> DEFINE Lower(x) == IF x.moved THEN Score(g, x.spins) < Score(g, d.spins) ELSE x.spins = d.spins
           T == {k \in 0 .. n : DescentOK(g, f[k]) /\ Lower(f[k])}
<1>3. 0 \in T
  <2>1. DescentOK(g, f[0]) /\ Lower(f[0])
    BY <1>1, FreshIsFine
  <2> QED
    BY <1>2, <2>1
<1>4. \A k \in 0 .. n - 1 : k \in T => k + 1 \in T
  <2> SUFFICES ASSUME NEW k \in 0 .. n - 1, k \in T PROVE k + 1 \in T
    OBVIOUS
  <2>1. PICK x : x = f[k]
    OBVIOUS
  <2>2. PICK y : y = TryFlip(g, x, k)
    OBVIOUS
  <2>3. f[k + 1] = y
    <3>1. k + 1 \in 1 .. Size(g) /\ (k + 1) - 1 = k
      BY <1>2
    <3> QED
      BY <1>1, <2>1, <2>2, <3>1
  <2>4. DescentOK(g, x) /\ Lower(x) /\ k \in Verts(g)
    BY <1>2, <2>1
  <2>5. DescentOK(g, y)
    BY <2>2, <2>4, FlipKeepsFields
  <2>6. y = x \/ (y.moved /\ Score(g, y.spins) < Score(g, x.spins))
    BY <2>2, <2>4, FlipGoesDown
  <2>7. /\ d.spins \in Configs(g) /\ x.spins \in Configs(g) /\ y.spins \in Configs(g)
    BY <2>4, <2>5 DEF DescentOK
  <2>8. Score(g, d.spins) \in Int /\ Score(g, x.spins) \in Int /\ Score(g, y.spins) \in Int
    BY <2>4, <2>7, ScoreDelta
  <2>9. Lower(y)
    BY <2>4, <2>6, <2>8
  <2> QED
    BY <1>2, <2>3, <2>5, <2>9
<1>5. 0 .. n \subseteq T
  <2>1. 0 \in Int /\ n \in Int
    BY <1>2
  <2> HIDE DEF T
  <2> QED
    BY <1>3, <1>4, <2>1, BoundedInduction
<1>6. n \in T
  BY <1>2, <1>5
<1> QED
  BY <1>1, <1>2, <1>6

(* A pass of a polish lowers the score, however many spins it flips, and   *)
(* one that reports no move made none: since only spins that go strictly   *)
(* down are flipped, a polish cannot cycle (sampler_core.rs 309-331).      *)
THEOREM PolishNeverCycles == TensorSpec => PassesGoDownhill
<1>1. ASSUME TensorInit PROVE Polished
  <2>1. at.pc = "idle"
    BY <1>1 DEF TensorInit, Rest
  <2> QED
    BY <2>1 DEF Polished
<1>2. TensorInv /\ Polished /\ [TensorNext]_tensorVars => Polished'
  BY PolishStep
<1>3. ASSUME TensorInv, Polished, PolishRead
      PROVE  IF descent'.moved
             THEN Score(job.graph, descent'.spins) < Score(job.graph, descent.spins)
             ELSE descent'.spins = descent.spins
  <2>1. at.pc = "polish" /\ descent' = PolishPass(job.graph, descent)
    BY <1>3 DEF PolishRead
  <2>2. DescentOK(job.graph, descent)
    BY <1>3, <2>1 DEF Polished
  <2>3. GraphOK(job.graph)
    BY <1>3, JobGraphs DEF TensorInv, MpsInv, TensorTypes
  <2> QED
    BY <2>1, <2>2, <2>3, PassLowersScore
<1>4. TensorInv /\ Polished =>
        [PolishRead =>
           IF descent'.moved
           THEN Score(job.graph, descent'.spins) < Score(job.graph, descent.spins)
           ELSE descent'.spins = descent.spins]_tensorVars
  BY <1>3
<1> QED
  BY <1>1, <1>2, <1>4, TensorInvHolds, PTL DEF TensorSpec, PassesGoDownhill

-----------------------------------------------------------------------------
(* What is evolved is the problem that is scored.                          *)

Group(key, K, p) == {k \in K : key[k] = p}

\* A sum in groups.
LEMMA SumInGroups ==
  ASSUME NEW K, IsFiniteSet(K), NEW P, IsFiniteSet(P),
         NEW key, \A k \in K : key[k] \in P,
         NEW f, \A k \in K : f[k] \in Int,
         NEW sums, \A p \in P : sums[p] = SumFunctionOnSet(f, Group(key, K, p))
  PROVE  SumFunctionOnSet(sums, P) = SumFunctionOnSet(f, K)
<1>1. PICK m : m = [p \in P |-> [k \in K |-> IF key[k] = p THEN f[k] ELSE 0]]
  OBVIOUS
<1>2. PICK w : w = [k \in K |-> [p \in P |-> IF key[k] = p THEN f[k] ELSE 0]]
  OBVIOUS
<1>3. \A p \in P : \A k \in K : m[p][k] \in Int /\ w[k][p] = m[p][k]
  BY <1>1, <1>2
<1>4. ASSUME NEW p \in P
      PROVE  sums[p] = SumFunctionOnSet(m[p], K)
  <2>1. PICK R : R = Group(key, K, p)
    OBVIOUS
  <2>2. PICK c : c = m[p]
    OBVIOUS
  <2>3. /\ R \in SUBSET K /\ \A x \in R : c[x] \in Int /\ f[x] \in Int /\ c[x] = f[x]
        /\ \A x \in K \ R : c[x] = 0
    BY <1>1, <2>1, <2>2 DEF Group
  <2>4. SumFunctionOnSet(c, K) = SumFunctionOnSet(c, R)
    BY <2>3, SumOfPart
  <2>5. IsFiniteSet(R)
    BY <2>3, SubsetsAreFinite
  <2>6. SumFunctionOnSet(c, R) = SumFunctionOnSet(f, R)
    BY <2>3, <2>5, SumSame
  <2> QED
    BY <2>1, <2>2, <2>4, <2>6
<1>5. ASSUME NEW k \in K
      PROVE  f[k] = SumFunctionOnSet(w[k], P)
  <2>1. PICK c : c = w[k]
    OBVIOUS
  <2>2. PICK p \in P : p = key[k]
    OBVIOUS
  <2>3. {p} \in SUBSET P /\ c[p] = f[k] /\ c[p] \in Int /\ \A x \in P \ {p} : c[x] = 0
    BY <1>2, <2>1, <2>2
  <2>4. \A x \in {p} : c[x] \in Int
    BY <2>3
  <2>5. SumFunctionOnSet(c, P) = SumFunctionOnSet(c, {p})
    BY <2>3, <2>4, SumOfPart
  <2>6. SumFunctionOnSet(c, {p}) = c[p]
    BY <2>3, SumOfOne
  <2> QED
    BY <2>1, <2>3, <2>5, <2>6
<1>6. TwoWays(P, K, m, w, sums, f)
  BY <1>3, <1>4, <1>5 DEF TwoWays
<1> QED
  BY <1>6, SumSwap

FieldTerms(g, s) == [v \in Verts(g) |-> g.h[v] * s[v]]

EdgeTerms(g, s) ==
  [k \in {e \in DOMAIN g.edges : Inside(g, e)} |->
     Coupling(g, k) * s[g.edges[k][1]] * s[g.edges[k][2]]]

LoopTerms(g) == [k \in {e \in DOMAIN g.edges : Inside(g, e) /\ ~Linked(g, e)} |-> Coupling(g, k)]

\* The score is that of the fields, of the coupled edges and of the loops.
LEMMA ScoreSplits ==
  ASSUME NEW g, GraphOK(g), NEW s \in Configs(g)
  PROVE  /\ SumFunctionOnSet(FieldTerms(g, s), Verts(g)) \in Int
         /\ SumFunctionOnSet(EdgeTerms(g, s), Coupled(g)) \in Int
         /\ SumFunction(LoopTerms(g)) \in Int
         /\ \A k \in Coupled(g) :
              /\ EdgeTerms(g, s)[k] = Coupling(g, k) * s[g.edges[k][1]] * s[g.edges[k][2]]
              /\ EdgeTerms(g, s)[k] \in Int
         /\ \A v \in Verts(g) : FieldTerms(g, s)[v] \in Int
         /\ Score(g, s) = SumFunctionOnSet(FieldTerms(g, s), Verts(g))
                           + SumFunctionOnSet(EdgeTerms(g, s), Coupled(g)) + SumFunction(LoopTerms(g))
<1>1. PICK V : V = Verts(g)
  OBVIOUS
<1>2. PICK E : E = {e \in DOMAIN g.edges : Inside(g, e)}
  OBVIOUS
<1>3. PICK L : L = {e \in DOMAIN g.edges : Inside(g, e) /\ ~Linked(g, e)}
  OBVIOUS
<1>4. PICK K : K = E \ L
  OBVIOUS
<1>5. PICK C : C = Coupled(g)
  OBVIOUS
<1>6. PICK a : a = FieldTerms(g, s)
  OBVIOUS
<1>7. PICK b : b = EdgeTerms(g, s)
  OBVIOUS
<1>8. PICK l : l = LoopTerms(g)
  OBVIOUS
<1>9. /\ IsFiniteSet(V) /\ \A v \in V : g.h[v] \in Int
      /\ \A v \in V : s[v] \in {-1, 1} /\ s[v] \in Int
  BY <1>1, VertsFinite DEF Configs
<1>10. /\ \A k \in E : Coupling(g, k) \in Int /\ g.edges[k][1] \in V /\ g.edges[k][2] \in V
       /\ \A k \in E : b[k] = Coupling(g, k) * s[g.edges[k][1]] * s[g.edges[k][2]]
       /\ \A k \in L : l[k] = Coupling(g, k) /\ g.edges[k][1] = g.edges[k][2]
       /\ L \subseteq E
  <2>1. \A k \in E : Coupling(g, k) \in Int /\ g.edges[k][1] \in V /\ g.edges[k][2] \in V
    BY <1>1, <1>2, EdgeFacts DEF Inside
  <2>2. \A k \in E : b[k] = Coupling(g, k) * s[g.edges[k][1]] * s[g.edges[k][2]]
    BY <1>2, <1>7 DEF EdgeTerms
  <2>3. \A k \in L : l[k] = Coupling(g, k) /\ g.edges[k][1] = g.edges[k][2]
    BY <1>3, <1>8 DEF LoopTerms, Linked
  <2>4. L \subseteq E
    BY <1>2, <1>3
  <2> QED
    BY <2>1, <2>2, <2>3, <2>4
<1>11. \A k \in E : b[k] \in Int
  <2> SUFFICES ASSUME NEW k \in E PROVE b[k] \in Int
    OBVIOUS
  <2>1. PICK j \in Int, x \in Int, y \in Int :
          j = Coupling(g, k) /\ x = s[g.edges[k][1]] /\ y = s[g.edges[k][2]]
    BY <1>9, <1>10
  <2>2. j * x * y \in Int
    OBVIOUS
  <2> QED
    BY <1>10, <2>1, <2>2
<1>12. \A k \in L : b[k] = l[k] /\ l[k] \in Int
  <2> SUFFICES ASSUME NEW k \in L PROVE b[k] = l[k] /\ l[k] \in Int
    OBVIOUS
  <2>1. k \in E
    BY <1>10
  <2>2. PICK j \in Int, x \in Int : j = Coupling(g, k) /\ x = s[g.edges[k][1]] /\ x \in {-1, 1}
    BY <1>9, <1>10, <2>1
  <2>3. b[k] = j * x * x /\ l[k] = j
    BY <1>10, <2>1, <2>2
  <2>4. j * x * x = j
    <3>1. CASE x = 1
      BY <3>1
    <3>2. CASE x = -1
      BY <3>2
    <3> QED
      BY <2>2, <3>1, <3>2
  <2> QED
    BY <2>3, <2>4
<1>13. /\ IsFiniteSet(E) /\ IsFiniteSet(L) /\ IsFiniteSet(K) /\ IsFiniteSet(C)
       /\ K \cup L = E /\ K \cap L = {} /\ C \in SUBSET K
       /\ \A k \in K \ C : Coupling(g, k) = 0
  <2>1. E \in SUBSET DOMAIN g.edges /\ L \in SUBSET DOMAIN g.edges /\ K \in SUBSET DOMAIN g.edges
    BY <1>2, <1>3, <1>4
  <2>2. IsFiniteSet(E) /\ IsFiniteSet(L) /\ IsFiniteSet(K)
    BY <2>1, EdgeFacts, SubsetsAreFinite
  <2>3. K \cup L = E /\ K \cap L = {}
    BY <1>4, <1>10
  <2>4. \A k \in K : k \in DOMAIN g.edges /\ Linked(g, k)
    BY <1>2, <1>3, <1>4
  <2>5. C \in SUBSET K
    BY <1>2, <1>3, <1>4, <1>5 DEF Coupled, Linked
  <2>6. \A k \in K \ C : Coupling(g, k) = 0
    BY <1>5, <2>4 DEF Coupled
  <2> QED
    BY <1>5, <2>2, <2>3, <2>5, <2>6, CoupledFacts
<1>14. SumFunctionOnSet(b, E) = SumFunctionOnSet(b, K) + SumFunctionOnSet(b, L)
  BY <1>11, <1>13, SumUnion
<1>15. SumFunctionOnSet(b, L) = SumFunctionOnSet(l, L)
  BY <1>11, <1>12, <1>13, SumSame
<1>16. SumFunctionOnSet(b, K) = SumFunctionOnSet(b, C)
  <2>1. \A k \in C : b[k] \in Int
    BY <1>11, <1>13
  <2>2. \A k \in K \ C : b[k] = 0
    <3> SUFFICES ASSUME NEW k \in K \ C PROVE b[k] = 0
      OBVIOUS
    <3>1. k \in E /\ Coupling(g, k) = 0
      BY <1>13
    <3>2. PICK x \in Int, y \in Int : x = s[g.edges[k][1]] /\ y = s[g.edges[k][2]]
      BY <1>9, <1>10, <3>1
    <3>3. 0 * x * y = 0
      OBVIOUS
    <3> QED
      BY <1>10, <3>1, <3>2, <3>3
  <2> QED
    BY <1>13, <2>1, <2>2, SumOfPart
<1>17. \A v \in V : a[v] \in Int
  BY <1>1, <1>6, <1>9 DEF FieldTerms
<1>18. /\ SumFunctionOnSet(a, V) \in Int /\ SumFunctionOnSet(b, C) \in Int /\ SumFunctionOnSet(l, L) \in Int
  <2>1. \A k \in C : b[k] \in Int
    BY <1>11, <1>13
  <2> QED
    BY <1>9, <1>12, <1>13, <1>17, <2>1, SumType
<1>19. /\ DOMAIN a = V /\ DOMAIN b = E /\ DOMAIN l = L
  BY <1>1, <1>2, <1>3, <1>6, <1>7, <1>8 DEF FieldTerms, EdgeTerms, LoopTerms
<1>20. Score(g, s) = SumFunctionOnSet(a, V) + SumFunctionOnSet(b, E)
  <2>1. Score(g, s) = SumFunction(a) + SumFunction(b)
    BY <1>6, <1>7 DEF Score, FieldTerms, EdgeTerms
  <2> QED
    BY <1>19, <2>1 DEF SumFunction
<1>21. SumFunction(l) = SumFunctionOnSet(l, L)
  BY <1>19 DEF SumFunction
<1>22. Score(g, s) = SumFunctionOnSet(a, V) + SumFunctionOnSet(b, C) + SumFunction(l)
  BY <1>14, <1>15, <1>16, <1>18, <1>20, <1>21
<1>23. \A k \in C : /\ b[k] = Coupling(g, k) * s[g.edges[k][1]] * s[g.edges[k][2]]
                    /\ b[k] \in Int
  BY <1>10, <1>11, <1>13
<1> QED
  BY <1>1, <1>5, <1>6, <1>7, <1>8, <1>17, <1>18, <1>21, <1>22, <1>23

Loops(g) == SumFunction(LoopTerms(g))

\* t is the configuration s read back from the chain.
LEMMA ChainHoldsScore ==
  ASSUME NEW g, GraphOK(g), NEW s \in Configs(g), NEW t,
         t = [v \in Verts(g) |-> s[Slot(g, Chain(g).order, v)]]
  PROVE  ChainEnergy(g, Chain(g), s) + Loops(g) = Score(g, t)
<1>1. PICK c : c = Chain(g)
  OBVIOUS
<1>2. PICK order : order = c.order /\ order \in Bijection(Verts(g), Verts(g))
  BY <1>1, ChainFacts
<1>3. PICK V : V = Verts(g)
  OBVIOUS
<1>4. /\ IsFiniteSet(V) /\ IsFiniteSet(Coupled(g)) /\ Cardinality(Coupled(g)) \in Nat
      /\ \A k \in V : s[k] \in {-1, 1} /\ s[k] \in Int
  BY <1>3, VertsFinite, CoupledFacts DEF Configs
<1>5. \A k \in V : order[k] \in V /\ t[order[k]] = s[k]
  <2> SUFFICES ASSUME NEW k \in V PROVE order[k] \in V /\ t[order[k]] = s[k]
    OBVIOUS
  <2>1. order[k] \in V
    BY <1>2, <1>3 DEF Bijection, Injection
  <2>2. k = Slot(g, order, order[k])
    BY <1>2, <1>3, <2>1, SlotHoldsNode
  <2> QED
    BY <1>1, <1>2, <1>3, <2>1, <2>2
<1>6. t \in Configs(g)
  <2>1. \A v \in V : Slot(g, order, v) \in V
    BY <1>2, <1>3, SlotHoldsNode
  <2>2. \A v \in V : s[Slot(g, order, v)] \in {-1, 1}
    BY <1>4, <2>1
  <2> QED
    BY <1>1, <1>2, <1>3, <2>2 DEF Configs
<1>7. PICK a : a = FieldTerms(g, t)
  OBVIOUS
<1>8. PICK b : b = EdgeTerms(g, t)
  OBVIOUS
<1>9. /\ SumFunctionOnSet(a, V) \in Int /\ SumFunctionOnSet(b, Coupled(g)) \in Int /\ Loops(g) \in Int
      /\ \A k \in Coupled(g) : b[k] = Coupling(g, k) * t[g.edges[k][1]] * t[g.edges[k][2]] /\ b[k] \in Int
      /\ \A v \in V : a[v] \in Int
      /\ Score(g, t) = SumFunctionOnSet(a, V) + SumFunctionOnSet(b, Coupled(g)) + Loops(g)
  BY <1>3, <1>6, <1>7, <1>8, ScoreSplits DEF Loops
<1>10. PICK x : x = [k \in V |-> g.h[order[k]] * s[k]]
  OBVIOUS
<1>11. SumFunctionOnSet(x, V) = SumFunctionOnSet(a, V)
  <2>1. \A k \in V : x[k] = a[order[k]]
    BY <1>3, <1>5, <1>7, <1>10 DEF FieldTerms
  <2>2. order \in Bijection(V, V)
    BY <1>2, <1>3
  <2> QED
    BY <1>4, <1>9, <2>1, <2>2, SumRename
<1>12. PICK p \in Bijection(1 .. Cardinality(Coupled(g)), Coupled(g)) :
         c.gates = [i \in 1 .. Cardinality(Coupled(g)) |-> GateOf(g, order, p[i])]
  <2>1. c.gates = Gates(g, order)
    BY <1>1, <1>2 DEF Chain
  <2>2. PICK p \in Bijection(1 .. Cardinality(Coupled(g)), Coupled(g)) :
          Gates(g, order) = [i \in 1 .. Cardinality(Coupled(g)) |-> GateOf(g, order, p[i])]
    BY <1>2, GatesAreListed
  <2> QED
    BY <2>1, <2>2, Zenon
<1>13. PICK n \in Nat : n = Cardinality(Coupled(g))
  BY <1>4
<1>14. PICK y : y = [i \in DOMAIN c.gates |-> c.gates[i][3] * s[c.gates[i][1]] * s[c.gates[i][2]]]
  OBVIOUS
<1>15. DOMAIN c.gates = 1 .. n /\ DOMAIN y = 1 .. n /\ IsFiniteSet(1 .. n)
  BY <1>12, <1>13, <1>14, FS_Interval
<1>16. \A i \in 1 .. n : y[i] = b[p[i]]
  <2> SUFFICES ASSUME NEW i \in 1 .. n PROVE y[i] = b[p[i]]
    OBVIOUS
  <2>1. PICK k \in Coupled(g) : k = p[i]
    BY <1>12, <1>13 DEF Bijection, Injection
  <2>2. PICK q : q = GateOf(g, order, k)
    OBVIOUS
  <2>3. c.gates[i] = q
    BY <1>12, <1>13, <2>1, <2>2
  <2>4. /\ Gate(g, q) /\ q[3] = Coupling(g, k)
        /\ \/ order[q[1]] = g.edges[k][1] /\ order[q[2]] = g.edges[k][2]
           \/ order[q[1]] = g.edges[k][2] /\ order[q[2]] = g.edges[k][1]
    BY <1>2, <2>2, GateJoinsSlots
  <2>5. q[1] \in V /\ q[2] \in V
    BY <1>3, <2>4 DEF Gate
  <2>6. s[q[1]] = t[order[q[1]]] /\ s[q[2]] = t[order[q[2]]]
    BY <1>5, <2>5
  <2>7. PICK j \in Int, u \in Int, v \in Int : j = q[3] /\ u = s[q[1]] /\ v = s[q[2]]
    BY <1>4, <2>4, <2>5 DEF Gate
  <2>8. j * u * v = j * v * u
    OBVIOUS
  <2>9. y[i] = j * u * v
    BY <1>14, <1>15, <2>3, <2>7
  <2>10. b[k] = Coupling(g, k) * t[g.edges[k][1]] * t[g.edges[k][2]]
    BY <1>9
  <2>11. b[k] = j * u * v \/ b[k] = j * v * u
    BY <2>4, <2>6, <2>7, <2>10
  <2> QED
    BY <2>1, <2>8, <2>9, <2>11
<1>17. SumFunctionOnSet(y, 1 .. n) = SumFunctionOnSet(b, Coupled(g))
  <2>1. p \in Bijection(1 .. n, Coupled(g)) /\ \A k \in Coupled(g) : b[k] \in Int
    BY <1>9, <1>12, <1>13
  <2> QED
    BY <1>15, <1>16, <2>1, SumRename
<1>18. ChainEnergy(g, c, s) = SumFunctionOnSet(x, V) + SumFunctionOnSet(y, 1 .. n)
  <2>1. ChainEnergy(g, c, s) = SumFunction(x) + SumFunction(y)
    BY <1>2, <1>3, <1>10, <1>14 DEF ChainEnergy
  <2>2. DOMAIN x = V
    BY <1>10
  <2> QED
    BY <1>15, <2>1, <2>2 DEF SumFunction
<1> QED
  BY <1>1, <1>9, <1>11, <1>17, <1>18

\* A bond joins two nodes, the lower one first.
LEMMA PairEnds ==
  ASSUME NEW a \in Int, NEW b \in Int, a < b
  PROVE  Min({a, b}) = a /\ Max({a, b}) = b
<1>1. PICK S : S = {a, b}
  OBVIOUS
<1>2. \A x \in S : (\A y \in S : x =< y) => x = a
  BY <1>1
<1>3. \A x \in S : (\A y \in S : x >= y) => x = b
  BY <1>1
<1>4. a \in S /\ b \in S /\ (\A y \in S : a =< y) /\ (\A y \in S : b >= y)
  BY <1>1
<1>5. Min(S) \in S /\ \A y \in S : Min(S) =< y
  BY <1>4, Zenon DEF Min
<1>6. Max(S) \in S /\ \A y \in S : Max(S) >= y
  BY <1>4, Zenon DEF Max
<1> QED
  BY <1>1, <1>2, <1>3, <1>5, <1>6

Pairs(g) == {Pair(g, k) : k \in Coupled(g)}
Bonds(g) == {p \in Pairs(g) : Together(g, p) # 0}

LEMMA PairFacts ==
  ASSUME NEW g, GraphOK(g)
  PROVE  /\ IsFiniteSet(Pairs(g)) /\ IsFiniteSet(Bonds(g)) /\ Bonds(g) \in SUBSET Pairs(g)
         /\ \A p \in Pairs(g) :
              /\ p = {Min(p), Max(p)} /\ Min(p) < Max(p)
              /\ Min(p) \in Verts(g) /\ Max(p) \in Verts(g) /\ Min(p) \in Int /\ Max(p) \in Int
<1>1. IsFiniteSet(Coupled(g))
  BY CoupledFacts
<1> DEFINE f == [k \in Coupled(g) |-> Pair(g, k)]
<1>2. f \in Surjection(Coupled(g), Pairs(g))
  BY DEF Surjection, Pairs
<1> HIDE DEF f
<1>3. IsFiniteSet(Pairs(g))
  BY <1>1, <1>2, FS_Surjection
<1>4. Bonds(g) \in SUBSET Pairs(g)
  BY DEF Bonds
<1>5. IsFiniteSet(Bonds(g))
  BY <1>3, <1>4, FS_Subset
<1>6. ASSUME NEW p \in Pairs(g)
      PROVE  /\ p = {Min(p), Max(p)} /\ Min(p) < Max(p)
             /\ Min(p) \in Verts(g) /\ Max(p) \in Verts(g) /\ Min(p) \in Int /\ Max(p) \in Int
  <2>1. PICK k \in Coupled(g) : p = {g.edges[k][1], g.edges[k][2]}
    BY DEF Pairs, Pair
  <2>2. PICK x \in Verts(g), y \in Verts(g) : x = g.edges[k][1] /\ y = g.edges[k][2] /\ x # y
    BY CoupledFacts
  <2>3. x \in Int /\ y \in Int
    BY DEF GraphOK
  <2>4. PICK a \in Int, b \in Int : a < b /\ p = {a, b} /\ a \in Verts(g) /\ b \in Verts(g)
    <3>1. CASE x < y
      BY <2>1, <2>2, <2>3, <3>1
    <3>2. CASE y < x
      <4>1. p = {y, x}
        BY <2>1, <2>2
      <4> QED
        BY <2>3, <3>2, <4>1
    <3> QED
      BY <2>2, <2>3, <3>1, <3>2
  <2>5. Min(p) = a /\ Max(p) = b
    BY <2>4, PairEnds
  <2> QED
    BY <2>4, <2>5
<1> QED
  BY <1>3, <1>4, <1>5, <1>6

PairOrder(S) ==
  {x \in S \X S : Min(x[1]) < Min(x[2]) \/ (Min(x[1]) = Min(x[2]) /\ Max(x[1]) < Max(x[2]))}

LEMMA BondsAreListed ==
  ASSUME NEW g, GraphOK(g)
  PROVE  \E s \in Bijection(1 .. Cardinality(Bonds(g)), Bonds(g)) :
           Network(g) = [i \in 1 .. Cardinality(Bonds(g)) |->
                           <<Min(s[i]), Max(s[i]), Together(g, s[i])>>]
<1> DEFINE C == Bonds(g)
           R == PairOrder(C)
           before(p, q) == Min(p) < Min(q) \/ (Min(p) = Min(q) /\ Max(p) < Max(q))
           at1(i) == CHOOSE x \in C : Cardinality({y \in C : before(y, x)}) = i - 1
           at2(i) == CHOOSE x \in C : Cardinality({y \in C : <<y, x>> \in R}) = i - 1
           sorted == [i \in 1 .. Cardinality(C) |-> at1(i)]
<1>0. Orders(R, C)
  <2> DEFINE lo(p) == Min(p)
             hi(p) == Max(p)
  <2>1. \A p \in C : lo(p) \in Int /\ hi(p) \in Int /\ p = {lo(p), hi(p)}
    BY PairFacts
  <2>2. \A p, q \in C : <<p, q>> \in R <=> lo(p) < lo(q) \/ (lo(p) = lo(q) /\ hi(p) < hi(q))
    BY DEF PairOrder
  <2> HIDE DEF lo, hi, C, R
  <2>3. \A p \in C : <<p, p>> \notin R
    BY <2>1, <2>2
  <2>4. \A p, q, r \in C : <<p, q>> \in R /\ <<q, r>> \in R => <<p, r>> \in R
    <3> SUFFICES ASSUME NEW p \in C, NEW q \in C, NEW r \in C, <<p, q>> \in R, <<q, r>> \in R
                 PROVE  <<p, r>> \in R
      OBVIOUS
    <3>1. /\ lo(p) \in Int /\ lo(q) \in Int /\ lo(r) \in Int
          /\ hi(p) \in Int /\ hi(q) \in Int /\ hi(r) \in Int
      BY <2>1
    <3>2. /\ lo(p) < lo(q) \/ (lo(p) = lo(q) /\ hi(p) < hi(q))
          /\ lo(q) < lo(r) \/ (lo(q) = lo(r) /\ hi(q) < hi(r))
      BY <2>2
    <3>3. lo(p) < lo(r) \/ (lo(p) = lo(r) /\ hi(p) < hi(r))
      BY <3>1, <3>2
    <3> QED
      BY <2>2, <3>3
  <2>5. \A p, q \in C : p # q => <<p, q>> \in R \/ <<q, p>> \in R
    <3> SUFFICES ASSUME NEW p \in C, NEW q \in C, p # q
                 PROVE  <<p, q>> \in R \/ <<q, p>> \in R
      OBVIOUS
    <3>1. lo(p) \in Int /\ lo(q) \in Int /\ hi(p) \in Int /\ hi(q) \in Int
      BY <2>1
    <3>2. ~(lo(p) = lo(q) /\ hi(p) = hi(q))
      BY <2>1
    <3>3. \/ lo(p) < lo(q) \/ (lo(p) = lo(q) /\ hi(p) < hi(q))
          \/ lo(q) < lo(p) \/ (lo(q) = lo(p) /\ hi(q) < hi(p))
      BY <3>1, <3>2
    <3> QED
      BY <2>2, <3>3
  <2> QED
    BY <2>3, <2>4, <2>5 DEF Orders
<1>1. InOrderOf(C, R) \in Bijection(1 .. Cardinality(C), C)
  <2>1. IsFiniteSet(C)
    BY PairFacts
  <2> HIDE DEF C, R
  <2> QED
    BY <1>0, <2>1, OrderIsListed
<1>2. InOrderOf(C, R) = [i \in 1 .. Cardinality(C) |-> at2(i)]
  BY DEF InOrderOf
<1>3. \A x \in C : {y \in C : before(y, x)} = {y \in C : <<y, x>> \in R}
  BY DEF PairOrder
<1>4. \A i \in 1 .. Cardinality(C) : at1(i) = at2(i)
  <2> HIDE DEF R, before, C
  <2> QED
    BY <1>3
<1>5. sorted = InOrderOf(C, R)
  BY <1>2, <1>4
<1>6. Network(g) = [i \in DOMAIN sorted |-> <<Min(sorted[i]), Max(sorted[i]), Together(g, sorted[i])>>]
  BY DEF Network, Ascending, Sorted, Bonds, Pairs
<1> HIDE DEF at1, at2, R, before
<1>7. DOMAIN sorted = 1 .. Cardinality(C)
  OBVIOUS
<1> HIDE DEF sorted, C
<1> QED
  BY <1>1, <1>5, <1>6, <1>7 DEF C

LEMMA NetHoldsScore ==
  ASSUME NEW g, GraphOK(g), NEW s \in Configs(g)
  PROVE  NetEnergy(g, Network(g), s) + Loops(g) = Score(g, s)
<1>1. PICK V : V = Verts(g)
  OBVIOUS
<1>2. PICK K : K = Coupled(g)
  OBVIOUS
<1>3. PICK P : P = Pairs(g)
  OBVIOUS
<1>4. PICK B : B = Bonds(g)
  OBVIOUS
<1>5. PICK b : b = EdgeTerms(g, s)
  OBVIOUS
<1>6. PICK a : a = FieldTerms(g, s)
  OBVIOUS
<1>7. /\ SumFunctionOnSet(a, V) \in Int /\ SumFunctionOnSet(b, K) \in Int /\ Loops(g) \in Int
      /\ \A k \in K : b[k] = Coupling(g, k) * s[g.edges[k][1]] * s[g.edges[k][2]] /\ b[k] \in Int
      /\ Score(g, s) = SumFunctionOnSet(a, V) + SumFunctionOnSet(b, K) + Loops(g)
  BY <1>1, <1>2, <1>5, <1>6, ScoreSplits DEF Loops
<1>8. \A v \in V : s[v] \in Int
  BY <1>1 DEF Configs
<1>9. /\ IsFiniteSet(P) /\ IsFiniteSet(B) /\ B \in SUBSET P
      /\ \A p \in P : /\ p = {Min(p), Max(p)} /\ Min(p) < Max(p)
                      /\ Min(p) \in V /\ Max(p) \in V /\ Min(p) \in Int /\ Max(p) \in Int
  BY <1>1, <1>3, <1>4, PairFacts
<1>10. /\ IsFiniteSet(K)
       /\ \A k \in K : /\ Coupling(g, k) \in Int
                       /\ g.edges[k][1] \in V /\ g.edges[k][2] \in V /\ g.edges[k][1] # g.edges[k][2]
  BY <1>1, <1>2, CoupledFacts
\* The term of a pair.
<1>11. PICK T : T = [p \in P |-> Together(g, p) * s[Min(p)] * s[Max(p)]]
  OBVIOUS
<1>12. PICK key : key = [k \in K |-> Pair(g, k)]
  OBVIOUS
<1>13. \A k \in K : key[k] \in P /\ key[k] = {g.edges[k][1], g.edges[k][2]}
  BY <1>2, <1>3, <1>12 DEF Pairs, Pair
<1>14. ASSUME NEW p \in P
       PROVE  /\ Together(g, p) \in Int
              /\ T[p] = SumFunctionOnSet(b, Group(key, K, p))
  <2>1. PICK R : R = Group(key, K, p)
    OBVIOUS
  <2>2. R \in SUBSET K /\ \A k \in R : key[k] = p
    BY <2>1 DEF Group
  <2>3. IsFiniteSet(R)
    BY <1>10, <2>2, SubsetsAreFinite
  <2>4. PICK j : j = [k \in {e \in K : Pair(g, e) = p} |-> Coupling(g, k)]
    OBVIOUS
  <2>5. {e \in K : Pair(g, e) = p} = R
    BY <1>12, <2>1 DEF Group
  <2>6. DOMAIN j = R /\ \A k \in R : j[k] = Coupling(g, k) /\ j[k] \in Int
    BY <1>10, <2>2, <2>4, <2>5
  <2>7. Together(g, p) = SumFunctionOnSet(j, R)
    <3>1. Together(g, p) = SumFunction(j)
      BY <1>2, <2>4 DEF Together
    <3> QED
      BY <2>6, <3>1 DEF SumFunction
  <2>8. SumFunctionOnSet(j, R) \in Int
    BY <2>3, <2>6, SumType
  <2>9. PICK x \in Int, y \in Int : x = s[Min(p)] /\ y = s[Max(p)]
    BY <1>8, <1>9
  <2>10. PICK c \in Int : c = x * y
    OBVIOUS
  <2>11. \A k \in R : b[k] = c * j[k]
    <3> SUFFICES ASSUME NEW k \in R PROVE b[k] = c * j[k]
      OBVIOUS
    <3>1. PICK u, v : u = g.edges[k][1] /\ v = g.edges[k][2]
      OBVIOUS
    <3>2. p = {u, v} /\ p = {Min(p), Max(p)} /\ Min(p) # Max(p)
      BY <1>9, <1>13, <2>2, <3>1
    <3>3. (u = Min(p) /\ v = Max(p)) \/ (u = Max(p) /\ v = Min(p))
      BY <3>2
    <3>4. PICK d \in Int : d = j[k]
      BY <2>6
    <3>5. b[k] = d * s[u] * s[v]
      BY <1>7, <2>2, <2>6, <3>1, <3>4
    <3>6. b[k] = d * x * y \/ b[k] = d * y * x
      BY <2>9, <3>3, <3>5
    <3>7. d * x * y = (x * y) * d /\ d * y * x = (x * y) * d
      OBVIOUS
    <3> QED
      BY <2>10, <3>4, <3>6, <3>7
  <2>12. SumFunctionOnSet(b, R) = c * SumFunctionOnSet(j, R)
    BY <2>3, <2>6, <2>11, SumTimes
  <2>13. PICK e \in Int : e = SumFunctionOnSet(j, R)
    BY <2>8
  <2>14. T[p] = e * x * y
    BY <1>11, <2>7, <2>9, <2>13
  <2>15. e * x * y = (x * y) * e
    OBVIOUS
  <2> QED
    BY <2>1, <2>7, <2>8, <2>10, <2>12, <2>13, <2>14, <2>15
<1>15. SumFunctionOnSet(T, P) = SumFunctionOnSet(b, K)
  <2>1. IsFiniteSet(K) /\ IsFiniteSet(P)
    BY <1>9, <1>10
  <2>2. \A k \in K : key[k] \in P
    BY <1>13
  <2>3. \A k \in K : b[k] \in Int
    BY <1>7
  <2>4. \A p \in P : T[p] = SumFunctionOnSet(b, Group(key, K, p))
    BY <1>14
  <2> QED
    BY <2>1, <2>2, <2>3, <2>4, SumInGroups
<1>16. \A p \in P : T[p] \in Int
  <2> SUFFICES ASSUME NEW p \in P PROVE T[p] \in Int
    OBVIOUS
  <2>1. PICK e \in Int, x \in Int, y \in Int : e = Together(g, p) /\ x = s[Min(p)] /\ y = s[Max(p)]
    BY <1>8, <1>9, <1>14
  <2>2. e * x * y \in Int
    OBVIOUS
  <2> QED
    BY <1>11, <2>1, <2>2
<1>17. SumFunctionOnSet(T, P) = SumFunctionOnSet(T, B)
  <2>1. \A p \in P \ B : T[p] = 0
    <3> SUFFICES ASSUME NEW p \in P \ B PROVE T[p] = 0
      OBVIOUS
    <3>1. Together(g, p) = 0
      BY <1>3, <1>4 DEF Bonds
    <3>2. PICK x \in Int, y \in Int : x = s[Min(p)] /\ y = s[Max(p)]
      BY <1>8, <1>9
    <3>3. 0 * x * y = 0
      OBVIOUS
    <3> QED
      BY <1>11, <3>1, <3>2, <3>3
  <2>2. \A p \in B : T[p] \in Int
    BY <1>9, <1>16
  <2> QED
    BY <1>9, <2>1, <2>2, SumOfPart
<1>18. PICK q \in Bijection(1 .. Cardinality(B), B) :
         Network(g) = [i \in 1 .. Cardinality(B) |-> <<Min(q[i]), Max(q[i]), Together(g, q[i])>>]
  BY <1>4, BondsAreListed
<1>19. PICK n \in Nat : n = Cardinality(B)
  BY <1>9, FS_CardinalityType
<1>20. PICK net : net = Network(g)
  OBVIOUS
<1>21. PICK y : y = [e \in DOMAIN net |-> net[e][3] * s[net[e][1]] * s[net[e][2]]]
  OBVIOUS
<1>22. DOMAIN net = 1 .. n /\ DOMAIN y = 1 .. n /\ IsFiniteSet(1 .. n)
  BY <1>18, <1>19, <1>20, <1>21, FS_Interval
<1>23. \A i \in 1 .. n : y[i] = T[q[i]]
  <2> SUFFICES ASSUME NEW i \in 1 .. n PROVE y[i] = T[q[i]]
    OBVIOUS
  <2>1. q[i] \in P
    BY <1>9, <1>18, <1>19 DEF Bijection, Injection
  <2>2. net[i] = <<Min(q[i]), Max(q[i]), Together(g, q[i])>>
    BY <1>18, <1>19, <1>20
  <2> QED
    BY <1>11, <1>21, <1>22, <2>1, <2>2
<1>24. SumFunctionOnSet(y, 1 .. n) = SumFunctionOnSet(T, B)
  <2>1. q \in Bijection(1 .. n, B) /\ \A p \in B : T[p] \in Int
    BY <1>9, <1>16, <1>18, <1>19
  <2> QED
    BY <1>22, <1>23, <2>1, SumRename
<1>25. NetEnergy(g, net, s) = SumFunctionOnSet(a, V) + SumFunctionOnSet(y, 1 .. n)
  <2>1. NetEnergy(g, net, s) = SumFunction(a) + SumFunction(y)
    BY <1>6, <1>21 DEF NetEnergy, FieldTerms
  <2>2. DOMAIN a = V
    BY <1>1, <1>6 DEF FieldTerms
  <2> QED
    BY <1>22, <2>1, <2>2 DEF SumFunction
<1> QED
  BY <1>7, <1>15, <1>17, <1>20, <1>24, <1>25

(* The gates on the chain and the merged bonds of the network give, for    *)
(* every configuration, the energy of the received edges, self-loops       *)
(* aside, with loops, parallel edges, missing couplings and edges out of   *)
(* range (mps/order.rs 97-103, flatiron/graph.rs 12-14 and 27-31).         *)
THEOREM EvolvedProblemIsScored == TensorSpec => []EvolutionIsTheProblem
<1>1. ASSUME TensorInv PROVE EvolutionIsTheProblem
  <2> DEFINE g == job.graph
             loops == SumFunction([k \in {e \in DOMAIN g.edges : Inside(g, e) /\ ~Linked(g, e)} |->
                                     Coupling(g, k)])
  <2> SUFFICES ASSUME at.pc = "draw", NEW s \in Configs(g)
               PROVE  IF job.kernel = "mps"
                      THEN ChainEnergy(g, chain, s) + loops = Score(g, Unchained(s))
                      ELSE NetEnergy(g, network, s) + loops = Score(g, s)
    BY DEF EvolutionIsTheProblem, Annealed
  <2>0. job \in Jobs /\ MpsInv /\ FlatInv /\ TensorTypes
    BY <1>1 DEF TensorInv, MpsInv, TensorTypes
  <2>1. GraphOK(g)
    BY <2>0, JobGraphs
  <2>2. loops = Loops(g)
    BY DEF Loops, LoopTerms
  <2> HIDE DEF loops
  <2>3. CASE job.kernel = "mps"
    <3>1. chain = Chain(g)
      BY <2>0, <2>3 DEF MpsInv, MpsLaid, Laid
    <3>2. Unchained(s) = [v \in Verts(g) |-> s[Slot(g, Chain(g).order, v)]]
      BY <3>1 DEF Unchained
    <3>3. ChainEnergy(g, Chain(g), s) + Loops(g) = Score(g, Unchained(s))
      BY <2>1, <3>2, ChainHoldsScore
    <3> QED
      BY <2>2, <2>3, <3>1, <3>3
  <2>4. CASE job.kernel # "mps"
    <3>1. job.kernel = "flatiron"
      BY <2>0, <2>4, TensorJobsAssumption
    <3>2. network = Network(g)
      BY <2>0, <3>1, FlatFacts DEF Laid
    <3> QED
      BY <2>1, <2>2, <2>4, <3>2, NetHoldsScore
  <2> QED
    BY <2>3, <2>4
<1> QED
  BY <1>1, TensorInvHolds, PTL

=============================================================================
