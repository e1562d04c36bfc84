-------------------------- MODULE GibbsReadProofs --------------------------
(***************************************************************************)
(* The result of a chromatic Gibbs read does not depend on the number of   *)
(* workers nor on their interleaving, for every graph, colouring into      *)
(* independent sets, schedule and draw.                                    *)
(*                                                                         *)
(* The argument: in round r only nodes of class r are stored to, and their *)
(* neighbours are outside the class, so every load returns the spin the    *)
(* round began with and every store is the one of the reference.  The      *)
(* chunks cover the class, so when the barrier opens the whole class is    *)
(* stored.                                                                 *)
(***************************************************************************)
EXTENDS GibbsRead, SpinBarrierProofs

\* A worker that waits, or that has run the whole schedule, is between nodes.
BusyResamples ==
  \A w \in Workers : done[w] # 0 \/ seen[w] # <<>> => Resampling(w)

ScheduleBound == \A w \in Workers : arrivals[w] <= Rounds

SeenOfNode ==
  \A w \in Workers : seen[w] # <<>> =>
    HasNode(w) /\ Len(seen[w]) <= Len(Neighbors[Node(w)])

SeenIsReference ==
  \A w \in Workers : \A i \in DOMAIN seen[w] :
    seen[w][i] = ref[Neighbors[Node(w)][i]]

GInv ==
  /\ BInv
  /\ GibbsTypeOK
  /\ BusyResamples
  /\ ScheduleBound
  /\ SeenOfNode
  /\ SeenIsReference
  /\ MatchesReference

-----------------------------------------------------------------------------
\* A class is a sequence of nodes.
LEMMA ClassIsSeq ==
  ASSUME NEW k \in Nat
  PROVE  Class(k) \in Seq(Nodes) /\ (k % Len(Classes)) + 1 \in DOMAIN Classes
<1>1. Len(Classes) \in Nat /\ Len(Classes) > 0 /\ DOMAIN Classes = 1 .. Len(Classes)
  BY ClassesAssumption
<1>2. k % Len(Classes) \in 0 .. Len(Classes) - 1
  BY <1>1
<1>3. (k % Len(Classes)) + 1 \in DOMAIN Classes
  BY <1>1, <1>2
<1> QED
  BY <1>3, ClassesAssumption DEF Class

LEMMA ChunkBounds ==
  ASSUME NEW k \in Nat, NEW w \in Workers
  PROVE  /\ Len(Class(k)) \in Nat
         /\ Chunk(k) \in Nat
         /\ First(w, k) \in Nat
         /\ Last(w, k) \in Nat
         /\ First(w, k) <= Last(w, k)
         /\ Last(w, k) <= Len(Class(k))
<1>1. Len(Class(k)) \in Nat
  BY ClassIsSeq
<1>2. Chunk(k) \in Nat
  BY <1>1, ChunkArithmetic DEF Chunk
<1>3. w \in Nat /\ w * Chunk(k) \in Nat
  BY <1>2, NAssumption DEF Workers
<1>4. First(w, k) \in Nat /\ First(w, k) <= Len(Class(k))
  BY <1>1, <1>3 DEF First, AtMost
<1>5. Last(w, k) \in Nat /\ First(w, k) <= Last(w, k) /\ Last(w, k) <= Len(Class(k))
  BY <1>1, <1>2, <1>4 DEF Last, AtMost
<1> QED
  BY <1>1, <1>2, <1>4, <1>5

\* No node of a class is left out: some worker's chunk holds it.
LEMMA ChunksCover ==
  ASSUME NEW k \in Nat, NEW i \in 1 .. Len(Class(k))
  PROVE  \E w \in Workers : i \in First(w, k) + 1 .. Last(w, k)
<1> DEFINE L == Len(Class(k))
           C == Chunk(k)
           w == (i - 1) \div C
<1>1. L \in Nat /\ C \in Nat /\ N * C >= L
  <2>1. L \in Nat
    BY ClassIsSeq
  <2> QED
    BY <2>1, ChunkArithmetic DEF Chunk
<1>2. N \in Nat /\ N > 0
  BY NAssumption
<1>3. C > 0
  <2>1. C = 0 => N * C = 0
    BY <1>2
  <2>2. L > 0
    BY <1>1
  <2> HIDE DEF C
  <2> QED
    BY <1>1, <2>1, <2>2
<1> HIDE DEF C
<1>4. w \in Nat /\ C * w <= i - 1 /\ i - 1 < C * w + C
  BY <1>1, <1>3
<1> HIDE DEF w
<1>5. C * w \in Nat /\ C * w = w * C
  BY <1>1, <1>4
<1>6. w < N
  <2> SUFFICES ASSUME w >= N PROVE FALSE
    BY <1>2, <1>4
  <2>1. C * w >= C * N
    BY <1>1, <1>2, <1>4
  <2>2. C * N = N * C /\ C * N \in Nat
    BY <1>1, <1>2
  <2>3. C * w <= i - 1 /\ i <= L
    BY <1>4
  <2> QED
    BY <1>1, <1>5, <2>1, <2>2, <2>3
<1>7. w \in Workers
  BY <1>2, <1>4, <1>6 DEF Workers
<1>8. First(w, k) = w * C
  BY <1>1, <1>4, <1>5 DEF First, AtMost, C
<1>9. i <= Last(w, k)
  BY <1>1, <1>4, <1>5, <1>8 DEF Last, AtMost, C
<1>10. i \in First(w, k) + 1 .. Last(w, k)
  <2>1. Last(w, k) \in Nat
    BY <1>7, ChunkBounds
  <2> QED
    BY <1>1, <1>4, <1>5, <1>8, <1>9, <2>1
<1> QED
  BY <1>7, <1>10

\* The node a worker is at: in its class, with neighbours outside of it.
LEMMA NodeInClass ==
  ASSUME NEW w \in Workers, arrivals \in [Workers -> Nat], done \in [Workers -> Nat],
         HasNode(w)
  PROVE  /\ Position(w) \in 1 .. Len(Class(arrivals[w]))
         /\ Node(w) \in Nodes
         /\ Neighbors[Node(w)] \in Seq(Nodes)
         /\ InClass(arrivals[w], Node(w))
         /\ \A l \in 1 .. Len(Neighbors[Node(w)]) :
              ~InClass(arrivals[w], Neighbors[Node(w)][l])
<1> DEFINE k == arrivals[w]
<1>1. k \in Nat /\ done[w] \in Nat
  OBVIOUS
<1>2. Class(k) \in Seq(Nodes) /\ (k % Len(Classes)) + 1 \in DOMAIN Classes
  BY <1>1, ClassIsSeq
<1>3. Position(w) \in 1 .. Len(Class(k))
  <2>1. /\ First(w, k) \in Nat /\ Last(w, k) \in Nat
        /\ Last(w, k) <= Len(Class(k)) /\ Len(Class(k)) \in Nat
    BY <1>1, ChunkBounds
  <2> QED
    BY <1>1, <2>1 DEF HasNode, Position
<1>4. Node(w) \in Nodes
  BY <1>2, <1>3 DEF Node
<1>5. Neighbors[Node(w)] \in Seq(Nodes)
  BY <1>4, NeighborsAssumption
<1>6. InClass(k, Node(w))
  BY <1>2, <1>3 DEF InClass, Node
<1>7. ASSUME NEW l \in 1 .. Len(Neighbors[Node(w)])
      PROVE  ~InClass(k, Neighbors[Node(w)][l])
  <2>1. l \in DOMAIN Neighbors[Node(w)] /\ Position(w) \in DOMAIN Class(k)
    BY <1>2, <1>3, <1>5
  <2>2. \A j \in DOMAIN Class(k) : Neighbors[Node(w)][l] # Class(k)[j]
    BY <1>2, <2>1, IndependentAssumption DEF Class, Node
  <2> QED
    BY <2>2 DEF InClass
<1> QED
  BY <1>3, <1>4, <1>5, <1>6, <1>7

\* Only nodes of the open round's class are stored to.
LEMMA StoredInClass ==
  ASSUME GInv, NEW v \in Stored
  PROVE  InClass(released, v)
<1>1. PICK w \in Workers : v \in StoredBy(w)
  BY DEF Stored
<1>2. released \in Nat /\ arrivals[w] \in Nat /\ done[w] \in Nat
  BY DEF GInv, GibbsTypeOK, BarrierTypeOK
<1>3. /\ First(w, released) \in Nat /\ Last(w, released) \in Nat
      /\ Last(w, released) <= Len(Class(released))
      /\ Len(Class(released)) \in Nat
  BY <1>2, ChunkBounds
<1>4. arrivals[w] = released =>
        First(w, released) + done[w] <= Last(w, released)
  BY <1>2, <1>3 DEF GInv, GibbsTypeOK
<1>5. \E i \in 1 .. Len(Class(released)) : Class(released)[i] = v
  <2>1. PICK i \in First(w, released) + 1 ..
               IF arrivals[w] = released THEN First(w, released) + done[w]
                                         ELSE Last(w, released) :
               v = Class(released)[i]
    BY <1>1 DEF StoredBy
  <2>2. i \in 1 .. Len(Class(released))
    BY <1>2, <1>3, <1>4, <2>1
  <2> QED
    BY <2>1, <2>2
<1>6. Class(released) \in Seq(Nodes)
  BY <1>2, ClassIsSeq
<1>7. DOMAIN Class(released) = 1 .. Len(Class(released))
  BY <1>6
<1> QED
  BY <1>5, <1>7 DEF InClass

\* A worker at a node is in the open round, and its node's neighbours have
\* the spins the round began with.
LEMMA ReadsReference ==
  ASSUME GInv, NEW w \in Workers, Resampling(w), HasNode(w)
  PROVE  /\ arrivals[w] = released /\ released \in Nat /\ released < Rounds
         /\ Node(w) \in Nodes
         /\ Neighbors[Node(w)] \in Seq(Nodes)
         /\ InClass(released, Node(w))
         /\ \A l \in 1 .. Len(Neighbors[Node(w)]) :
              /\ Neighbors[Node(w)][l] \in Nodes
              /\ spins[Neighbors[Node(w)][l]] = ref[Neighbors[Node(w)][l]]
<1>1. arrivals[w] = released /\ released \in Nat /\ released < Rounds
  BY DEF GInv, BInv, BarrierTypeOK, OutIsBehind, Resampling
<1>2. arrivals \in [Workers -> Nat] /\ done \in [Workers -> Nat]
  BY DEF GInv, GibbsTypeOK, BarrierTypeOK
<1>3. /\ Node(w) \in Nodes
      /\ Neighbors[Node(w)] \in Seq(Nodes)
      /\ InClass(released, Node(w))
      /\ \A l \in 1 .. Len(Neighbors[Node(w)]) :
           ~InClass(released, Neighbors[Node(w)][l])
  BY <1>1, <1>2, NodeInClass
<1>4. ASSUME NEW l \in 1 .. Len(Neighbors[Node(w)])
      PROVE  /\ Neighbors[Node(w)][l] \in Nodes
             /\ spins[Neighbors[Node(w)][l]] = ref[Neighbors[Node(w)][l]]
  <2>1. Neighbors[Node(w)][l] \in Nodes
    BY <1>3
  <2>2. Neighbors[Node(w)][l] \notin Stored
    BY <1>3, StoredInClass
  <2> QED
    BY <2>1, <2>2 DEF GInv, MatchesReference
<1> QED
  BY <1>1, <1>3, <1>4

LEMMA GibbsInitInv == Init => GInv
<1> SUFFICES ASSUME Init PROVE GInv
  OBVIOUS
<1>1. BInv /\ BarrierTypeOK
  BY InitInv DEF Init, BInv
<1> USE DEF Init, BarrierInit
<1>2. GibbsTypeOK
  <2>1. seen \in [Workers -> Seq(Spins)]
    OBVIOUS
  <2>2. done \in [Workers -> Nat]
    OBVIOUS
  <2>3. \A w \in Workers : done[w] <= Last(w, arrivals[w]) - First(w, arrivals[w])
    <3> SUFFICES ASSUME NEW w \in Workers
                 PROVE  0 <= Last(w, 0) - First(w, 0)
      OBVIOUS
    <3> QED
      BY ChunkBounds
  <2> QED
    BY <1>1, <2>1, <2>2, <2>3, SpinsAssumption DEF GibbsTypeOK
<1>3. BusyResamples /\ ScheduleBound /\ SeenOfNode /\ SeenIsReference
  BY RoundsAssumption DEF BusyResamples, ScheduleBound, SeenOfNode, SeenIsReference
<1>4. MatchesReference
  <2>1. Stored = {}
    <3> SUFFICES ASSUME NEW w \in Workers PROVE StoredBy(w) = {}
      BY DEF Stored
    <3>1. First(w, 0) \in Nat
      BY ChunkBounds
    <3> QED
      BY <3>1 DEF StoredBy
  <2> QED
    BY <2>1 DEF MatchesReference
<1> QED
  BY <1>1, <1>2, <1>3, <1>4 DEF GInv

LEMMA LoadNeighborInv ==
  ASSUME GInv, NEW w \in Workers, LoadNeighbor(w)
  PROVE  GInv'
<1> DEFINE u == Neighbors[Node(w)][Len(seen[w]) + 1]
<1>1. /\ Resampling(w) /\ HasNode(w)
      /\ Len(seen[w]) < Len(Neighbors[Node(w)])
      /\ seen' = [seen EXCEPT ![w] = Append(seen[w], spins[u])]
      /\ UNCHANGED <<barrierVars, spins, done, ref>>
  BY DEF LoadNeighbor
<1>2. /\ Node(w) \in Nodes /\ Neighbors[Node(w)] \in Seq(Nodes)
      /\ seen[w] \in Seq(Spins)
      /\ seen \in [Workers -> Seq(Spins)]
      /\ spins \in [Nodes -> Spins]
  BY <1>1, ReadsReference DEF GInv, GibbsTypeOK
<1>3. Len(seen[w]) + 1 \in 1 .. Len(Neighbors[Node(w)])
  BY <1>1, <1>2
<1>4. u \in Nodes /\ spins[u] = ref[u]
  BY <1>1, <1>3, ReadsReference
<1>5. BInv'
  <2>1. UNCHANGED barrierVars
    BY <1>1
  <2> QED
    BY <2>1, StepInv DEF GInv
<1>6. \A x \in Workers : Node(x)' = Node(x) /\ HasNode(x)' = HasNode(x)
                         /\ Resampling(x)' = Resampling(x)
  BY <1>1 DEF Node, HasNode, Position, Resampling, barrierVars
<1>7. seen'[w] = Append(seen[w], spins[u]) /\ \A x \in Workers \ {w} : seen'[x] = seen[x]
  BY <1>1, <1>2
<1>8. GibbsTypeOK'
  <2>1. seen' \in [Workers -> Seq(Spins)]
    BY <1>1, <1>2, <1>4
  <2> QED
    BY <1>1, <1>5, <2>1 DEF GInv, BInv, GibbsTypeOK, barrierVars
<1>9. BusyResamples'
  BY <1>1, <1>6, <1>7 DEF GInv, BusyResamples
<1>10. ScheduleBound'
  BY <1>1 DEF GInv, ScheduleBound, barrierVars
<1>11. SeenOfNode'
  <2> SUFFICES ASSUME NEW x \in Workers, seen'[x] # <<>>
               PROVE  HasNode(x) /\ Len(seen'[x]) <= Len(Neighbors[Node(x)])
    BY <1>6 DEF SeenOfNode
  <2>1. CASE x = w
    BY <1>1, <1>2, <1>3, <1>7, <2>1
  <2>2. CASE x # w
    BY <1>7, <2>2 DEF GInv, SeenOfNode
  <2> QED
    BY <2>1, <2>2
<1>12. SeenIsReference'
  <2> SUFFICES ASSUME NEW x \in Workers, NEW i \in DOMAIN seen'[x]
               PROVE  seen'[x][i] = ref[Neighbors[Node(x)][i]]
    BY <1>1, <1>6 DEF SeenIsReference
  <2>1. CASE x = w
    <3>1. CASE i \in DOMAIN seen[w]
      <4>1. seen'[w][i] = seen[w][i]
        BY <1>2, <1>4, <1>7, <3>1
      <4> QED
        BY <2>1, <3>1, <4>1 DEF GInv, SeenIsReference
    <3>2. CASE i = Len(seen[w]) + 1
      BY <1>2, <1>4, <1>7, <2>1, <3>2
    <3> QED
      BY <1>2, <1>4, <1>7, <2>1, <3>1, <3>2
  <2>2. CASE x # w
    BY <1>7, <2>2 DEF GInv, SeenIsReference
  <2> QED
    BY <2>1, <2>2
<1>13. MatchesReference'
  <2>1. Stored' = Stored /\ ClassUpdate(released, ref)' = ClassUpdate(released, ref)
    BY <1>1 DEF Stored, StoredBy, ClassUpdate, barrierVars
  <2> QED
    BY <1>1, <2>1 DEF GInv, MatchesReference
<1> QED
  BY <1>5, <1>8, <1>9, <1>10, <1>11, <1>12, <1>13 DEF GInv

LEMMA StoreSpinInv ==
  ASSUME GInv, NEW w \in Workers, StoreSpin(w)
  PROVE  GInv'
<1> DEFINE v == Node(w)
<1>1. /\ Resampling(w) /\ HasNode(w)
      /\ Len(seen[w]) = Len(Neighbors[v])
      /\ spins' = [spins EXCEPT ![v] = Resample(arrivals[w], v, seen[w])]
      /\ seen' = [seen EXCEPT ![w] = <<>>]
      /\ done' = [done EXCEPT ![w] = done[w] + 1]
      /\ UNCHANGED <<waiting, sense, local, at, arrivals, released, ref>>
  BY DEF StoreSpin, barrierVars
<1>2. /\ arrivals[w] = released /\ released \in Nat /\ released < Rounds
      /\ v \in Nodes /\ Neighbors[v] \in Seq(Nodes)
      /\ InClass(released, v)
  BY <1>1, ReadsReference
<1>3. /\ seen \in [Workers -> Seq(Spins)] /\ done \in [Workers -> Nat]
      /\ spins \in [Nodes -> Spins] /\ ref \in [Nodes -> Spins]
  BY DEF GInv, GibbsTypeOK
<1>4. seen[w] = FieldOf(ref, v)
  <2>1. seen[w] \in Seq(Spins) /\ Len(seen[w]) = Len(Neighbors[v])
    BY <1>1, <1>3
  <2>2. seen[w] = [i \in 1 .. Len(Neighbors[v]) |-> seen[w][i]]
    BY <2>1
  <2>3. \A i \in 1 .. Len(Neighbors[v]) : seen[w][i] = ref[Neighbors[v][i]]
    BY <2>1 DEF GInv, SeenIsReference
  <2> HIDE DEF v
  <2> QED
    BY <2>2, <2>3, Zenon DEF FieldOf
<1>5. Resample(arrivals[w], v, seen[w]) \in Spins
  <2>1. seen[w] \in [1 .. Len(Neighbors[v]) -> Spins]
    BY <1>1, <1>3
  <2>2. arrivals[w] \in 0 .. Rounds - 1
    BY <1>2, RoundsAssumption
  <2> HIDE DEF v
  <2> QED
    BY <1>2, <2>1, <2>2, SpinsAssumption
<1>6. Resample(arrivals[w], v, seen[w]) = ClassUpdate(released, ref)[v]
  BY <1>2, <1>4 DEF ClassUpdate
<1>7. BInv'
  <2>1. UNCHANGED barrierVars
    BY <1>1 DEF barrierVars
  <2> QED
    BY <2>1, StepInv DEF GInv
<1>8. \A x \in Workers \ {w} :
        /\ done'[x] = done[x] /\ seen'[x] = seen[x]
        /\ Node(x)' = Node(x) /\ HasNode(x)' = HasNode(x) /\ Resampling(x)' = Resampling(x)
  BY <1>1, <1>3 DEF Node, HasNode, Position, Resampling
<1>9. done'[w] = done[w] + 1 /\ seen'[w] = <<>> /\ Resampling(w)'
  BY <1>1, <1>3 DEF Resampling
<1>10. GibbsTypeOK'
  <2>1. spins' \in [Nodes -> Spins]
    BY <1>1, <1>3, <1>5
  <2>2. seen' \in [Workers -> Seq(Spins)]
    BY <1>1, <1>3
  <2>3. done' \in [Workers -> Nat]
    BY <1>1, <1>3
  <2>4. ASSUME NEW x \in Workers
        PROVE  done'[x] <= Last(x, arrivals'[x]) - First(x, arrivals'[x])
    <3>1. CASE x = w
      <4>1. First(w, released) \in Nat /\ Last(w, released) \in Nat
        BY <1>2, ChunkBounds
      <4>2. First(w, released) + done[w] + 1 <= Last(w, released)
        BY <1>1, <1>2 DEF HasNode, Position
      <4>3. done[w] \in Nat
        BY <1>3
      <4> QED
        BY <1>1, <1>2, <1>9, <3>1, <4>1, <4>2, <4>3
    <3>2. CASE x # w
      BY <1>1, <1>8, <3>2 DEF GInv, GibbsTypeOK
    <3> QED
      BY <3>1, <3>2
  <2> QED
    BY <1>1, <1>3, <1>7, <2>1, <2>2, <2>3, <2>4 DEF GibbsTypeOK, BInv
<1>11. BusyResamples' /\ ScheduleBound'
  BY <1>1, <1>8, <1>9 DEF GInv, BusyResamples, ScheduleBound
<1>12. SeenOfNode'
  BY <1>8, <1>9 DEF GInv, SeenOfNode
<1>13. SeenIsReference'
  <2> SUFFICES ASSUME NEW x \in Workers, NEW i \in DOMAIN seen'[x]
               PROVE  seen'[x][i] = ref[Neighbors[Node(x)'][i]]
    BY <1>1 DEF SeenIsReference
  <2>1. x # w
    BY <1>9
  <2> QED
    BY <1>8, <2>1 DEF GInv, SeenIsReference
<1>14. Stored' = Stored \cup {v}
  <2>1. \A x \in Workers \ {w} : StoredBy(x)' = StoredBy(x)
    BY <1>1, <1>8 DEF StoredBy
  <2>2. StoredBy(w)' = StoredBy(w) \cup {v}
    <3>1. StoredBy(w) = {Class(released)[i] : i \in First(w, released) + 1 ..
                                                  First(w, released) + done[w]}
      BY <1>2 DEF StoredBy
    <3>2. StoredBy(w)' = {Class(released)[i] : i \in First(w, released) + 1 ..
                                                   First(w, released) + done'[w]}
      BY <1>1, <1>2 DEF StoredBy
    <3>3. /\ First(w, released) \in Nat /\ done[w] \in Nat
          /\ done'[w] = done[w] + 1
      BY <1>2, <1>3, <1>9, ChunkBounds
    <3>4. v = Class(released)[First(w, released) + done[w] + 1]
      BY <1>2 DEF Node, Position
    <3> HIDE DEF v
    <3> QED
      BY <3>1, <3>2, <3>3, <3>4
  <2> HIDE DEF v
  <2> QED
    BY <2>1, <2>2 DEF Stored
<1>15. MatchesReference'
  <2>1. ClassUpdate(released, ref)' = ClassUpdate(released, ref)
    BY <1>1 DEF ClassUpdate
  <2> SUFFICES ASSUME NEW x \in Nodes
               PROVE  spins'[x] = IF x \in Stored' THEN ClassUpdate(released, ref)[x]
                                                   ELSE ref[x]
    BY <1>1, <2>1 DEF MatchesReference
  <2> HIDE DEF v
  <2>2. CASE x = v
    BY <1>1, <1>2, <1>3, <1>6, <1>14, <2>2
  <2>3. CASE x # v
    <3>1. spins'[x] = spins[x]
      BY <1>1, <1>3, <2>3
    <3> QED
      BY <1>14, <2>3, <3>1 DEF GInv, MatchesReference
  <2> QED
    BY <2>2, <2>3
<1> QED
  BY <1>7, <1>10, <1>11, <1>12, <1>13, <1>15 DEF GInv

LEMMA FinishClassInv ==
  ASSUME GInv, NEW w \in Workers, FinishClass(w)
  PROVE  GInv'
<1>1. /\ Resampling(w) /\ ~HasNode(w) /\ Arrive(w)
      /\ done' = [done EXCEPT ![w] = 0]
      /\ UNCHANGED <<spins, seen, ref>>
  BY DEF FinishClass
<1>2. /\ arrivals \in [Workers -> Nat] /\ done \in [Workers -> Nat]
      /\ at \in [Workers -> {"out", "spin", "last", "reset"}]
      /\ released \in Nat
  BY DEF GInv, GibbsTypeOK, BarrierTypeOK
<1>3. arrivals[w] = released /\ released < Rounds
  BY <1>1 DEF GInv, BInv, OutIsBehind, Resampling
<1>4. /\ released' = released /\ at'[w] # "out"
      /\ arrivals'[w] = released + 1 /\ done'[w] = 0 /\ seen'[w] = <<>>
  BY <1>1, <1>2, <1>3 DEF Arrive, GInv, SeenOfNode
<1>5. \A x \in Workers \ {w} :
        /\ done'[x] = done[x] /\ seen'[x] = seen[x]
        /\ arrivals'[x] = arrivals[x] /\ at'[x] = at[x]
        /\ Node(x)' = Node(x) /\ HasNode(x)' = HasNode(x) /\ Resampling(x)' = Resampling(x)
  BY <1>1, <1>2 DEF Arrive, Node, HasNode, Position, Resampling
<1>6. BInv'
  BY <1>1, ArriveInv DEF GInv
<1>7. GibbsTypeOK'
  <2>1. done' \in [Workers -> Nat]
    BY <1>1, <1>2
  <2>2. ASSUME NEW x \in Workers
        PROVE  done'[x] <= Last(x, arrivals'[x]) - First(x, arrivals'[x])
    <3>1. CASE x = w
      <4>1. /\ First(w, released + 1) \in Nat /\ Last(w, released + 1) \in Nat
            /\ First(w, released + 1) <= Last(w, released + 1)
        <5>1. released + 1 \in Nat
          BY <1>2
        <5> QED
          BY <5>1, ChunkBounds
      <4> QED
        BY <1>4, <3>1, <4>1
    <3>2. CASE x # w
      BY <1>5, <3>2 DEF GInv, GibbsTypeOK
    <3> QED
      BY <3>1, <3>2
  <2> QED
    BY <1>1, <1>6, <2>1, <2>2 DEF GInv, BInv, GibbsTypeOK
<1>8. BusyResamples'
  BY <1>4, <1>5 DEF GInv, BusyResamples
<1>9. ScheduleBound'
  BY <1>2, <1>3, <1>4, <1>5, RoundsAssumption DEF GInv, ScheduleBound
<1>10. SeenOfNode'
  BY <1>4, <1>5 DEF GInv, SeenOfNode
<1>11. SeenIsReference'
  <2> SUFFICES ASSUME NEW x \in Workers, NEW i \in DOMAIN seen'[x]
               PROVE  seen'[x][i] = ref[Neighbors[Node(x)'][i]]
    BY <1>1 DEF SeenIsReference
  <2>1. x # w
    BY <1>4
  <2> QED
    BY <1>5, <2>1 DEF GInv, SeenIsReference
<1>12. MatchesReference'
  <2>1. \A x \in Workers \ {w} : StoredBy(x)' = StoredBy(x)
    BY <1>4, <1>5 DEF StoredBy
  <2>2. StoredBy(w)' = StoredBy(w)
    <3>1. First(w, released) + done[w] = Last(w, released)
      <4>1. First(w, released) \in Nat /\ Last(w, released) \in Nat /\ done[w] \in Nat
        BY <1>2, ChunkBounds
      <4>2. done[w] <= Last(w, released) - First(w, released)
        BY <1>3 DEF GInv, GibbsTypeOK
      <4>3. ~(First(w, released) + done[w] + 1 <= Last(w, released))
        BY <1>1, <1>3 DEF HasNode, Position
      <4> QED
        BY <4>1, <4>2, <4>3
    <3>2. arrivals'[w] # released'
      BY <1>2, <1>4
    <3> QED
      BY <1>3, <1>4, <3>1, <3>2 DEF StoredBy
  <2>3. Stored' = Stored
    BY <2>1, <2>2 DEF Stored
  <2>4. ClassUpdate(released, ref)' = ClassUpdate(released, ref)
    BY <1>1, <1>4 DEF ClassUpdate
  <2> QED
    BY <1>1, <2>3, <2>4 DEF GInv, MatchesReference
<1> QED
  BY <1>6, <1>7, <1>8, <1>9, <1>10, <1>11, <1>12 DEF GInv

\* A step of the barrier that changes neither rounds nor spins disturbs
\* nothing, as long as a busy worker stays outside.
LEMMA BarrierOnlyInv ==
  ASSUME GInv, BInv', UNCHANGED <<arrivals, released, readVars>>,
         \A x \in Workers : at[x] = "out" => at'[x] = "out"
  PROVE  GInv'
<1> USE DEF readVars
<1>1. GibbsTypeOK'
  BY DEF GInv, BInv, GibbsTypeOK
<1>2. \A x \in Workers : Node(x)' = Node(x) /\ HasNode(x)' = HasNode(x)
  BY DEF Node, HasNode, Position
<1>3. BusyResamples'
  BY DEF GInv, BusyResamples, Resampling
<1>4. ScheduleBound'
  BY DEF GInv, ScheduleBound
<1>5. SeenOfNode' /\ SeenIsReference'
  BY <1>2 DEF GInv, SeenOfNode, SeenIsReference
<1>6. MatchesReference'
  BY DEF GInv, MatchesReference, Stored, StoredBy, ClassUpdate
<1> QED
  BY <1>1, <1>3, <1>4, <1>5, <1>6 DEF GInv

\* When the barrier opens, the whole class is stored.
LEMMA OpenWhenStored ==
  ASSUME GInv, NEW w \in Workers, at[w] = "reset"
  PROVE  /\ \A x \in Workers : at[x] # "out" /\ arrivals[x] = released + 1
         /\ \A v \in Nodes : v \in Stored <=> InClass(released, v)
<1>1. \A x \in Workers : at[x] # "out" /\ arrivals[x] = released + 1
  BY DEF GInv, BInv, BarrierTypeOK, LastIsAlone
<1>2. released \in Nat
  BY DEF GInv, GibbsTypeOK, BarrierTypeOK
<1>3. ASSUME NEW v \in Nodes, InClass(released, v) PROVE v \in Stored
  <2>1. PICK i \in 1 .. Len(Class(released)) : Class(released)[i] = v
    <3>1. Class(released) \in Seq(Nodes)
      BY <1>2, ClassIsSeq
    <3> QED
      BY <1>3, <3>1 DEF InClass
  <2>2. PICK x \in Workers : i \in First(x, released) + 1 .. Last(x, released)
    BY <1>2, ChunksCover
  <2>3. arrivals[x] # released
    BY <1>1, <1>2
  <2>4. v \in StoredBy(x)
    BY <2>1, <2>2, <2>3 DEF StoredBy
  <2> QED
    BY <2>4 DEF Stored
<1> QED
  BY <1>1, <1>3, StoredInClass

LEMMA ReleaseRoundInv ==
  ASSUME GInv, NEW w \in Workers, Release(w),
         ref' = ClassUpdate(released, ref), UNCHANGED <<spins, seen, done>>
  PROVE  GInv'
<1>1. at[w] = "reset"
  BY DEF Release
<1>2. /\ \A x \in Workers : at[x] # "out" /\ arrivals[x] = released + 1
      /\ \A v \in Nodes : v \in Stored <=> InClass(released, v)
  BY <1>1, OpenWhenStored
<1>3. arrivals' = arrivals /\ released' = released + 1 /\ released \in Nat
  BY DEF Release, GInv, GibbsTypeOK, BarrierTypeOK
<1>4. \A x \in Workers : done[x] = 0 /\ seen[x] = <<>>
  BY <1>2 DEF GInv, BusyResamples, Resampling
<1>5. BInv'
  BY ReleaseInv DEF GInv
<1>6. spins = ClassUpdate(released, ref)
  <2>1. spins \in [Nodes -> Spins] /\ ref \in [Nodes -> Spins]
    BY DEF GInv, GibbsTypeOK
  <2>2. \A v \in Nodes : spins[v] = ClassUpdate(released, ref)[v]
    BY <1>2 DEF GInv, MatchesReference, ClassUpdate
  <2>3. ClassUpdate(released, ref) = [v \in Nodes |-> ClassUpdate(released, ref)[v]]
    BY DEF ClassUpdate
  <2> QED
    BY <2>1, <2>2, <2>3
<1>7. GibbsTypeOK'
  BY <1>3, <1>5, <1>6 DEF GInv, BInv, GibbsTypeOK
<1>8. BusyResamples' /\ SeenOfNode' /\ SeenIsReference'
  BY <1>4 DEF BusyResamples, SeenOfNode, SeenIsReference
<1>9. ScheduleBound'
  BY <1>3 DEF GInv, ScheduleBound
<1>10. MatchesReference'
  <2>1. Stored' = {}
    <3> SUFFICES ASSUME NEW x \in Workers PROVE StoredBy(x)' = {}
      BY DEF Stored
    <3>1. First(x, released + 1) \in Nat
      <4>1. released + 1 \in Nat
        BY <1>3
      <4> QED
        BY <4>1, ChunkBounds
    <3>2. StoredBy(x)' = {Class(released + 1)[i] :
                            i \in First(x, released + 1) + 1 .. First(x, released + 1) + 0}
      BY <1>2, <1>3, <1>4 DEF StoredBy
    <3> QED
      BY <3>1, <3>2
  <2> QED
    BY <1>6, <2>1 DEF MatchesReference
<1> QED
  BY <1>5, <1>7, <1>8, <1>9, <1>10 DEF GInv

LEMMA GibbsStepInv == GInv /\ [Next]_gibbsVars => GInv'
<1> SUFFICES ASSUME GInv, [Next]_gibbsVars PROVE GInv'
  OBVIOUS
<1>1. ASSUME NEW w \in Workers, WorkerStep(w) PROVE GInv'
  <2>1. CASE LoadNeighbor(w) \/ StoreSpin(w) \/ FinishClass(w)
    BY <2>1, LoadNeighborInv, StoreSpinInv, FinishClassInv
  <2>2. CASE Reset(w) /\ UNCHANGED readVars
    <3>1. BInv'
      BY <2>2, ResetInv DEF GInv
    <3>2. /\ UNCHANGED <<arrivals, released>>
          /\ \A x \in Workers : at[x] = "out" => at'[x] = "out"
      BY <2>2 DEF Reset, GInv, BInv, BarrierTypeOK
    <3> QED
      BY <2>2, <3>1, <3>2, BarrierOnlyInv
  <2>3. CASE Release(w) /\ ref' = ClassUpdate(released, ref)
                        /\ UNCHANGED <<spins, seen, done>>
    BY <2>3, ReleaseRoundInv
  <2>4. CASE Leave(w) /\ UNCHANGED readVars
    <3>1. BInv'
      BY <2>4, LeaveInv DEF GInv
    <3>2. /\ UNCHANGED <<arrivals, released>>
          /\ \A x \in Workers : at[x] = "out" => at'[x] = "out"
      BY <2>4 DEF Leave, GInv, BInv, BarrierTypeOK
    <3> QED
      BY <2>4, <3>1, <3>2, BarrierOnlyInv
  <2> QED
    BY <1>1, <2>1, <2>2, <2>3, <2>4 DEF WorkerStep, WaitStep
<1>2. CASE UNCHANGED gibbsVars
  <2>1. UNCHANGED barrierVars /\ UNCHANGED readVars
    BY <1>2 DEF gibbsVars
  <2>2. BInv'
    BY <2>1, StepInv DEF GInv
  <2> QED
    BY <2>1, <2>2, BarrierOnlyInv DEF barrierVars
<1> QED
  BY <1>1, <1>2 DEF Next

LEMMA GibbsInductive == Spec => []GInv
<1> QED
  BY GibbsInitInv, GibbsStepInv, PTL DEF Spec

-----------------------------------------------------------------------------
\* Every spin, every loaded value and every position in a chunk is in range,
\* for every graph, schedule and number of workers.
THEOREM GibbsTypeCorrect == Spec => []GibbsTypeOK
<1>1. GInv => GibbsTypeOK
  BY DEF GInv
<1> QED
  BY <1>1, GibbsInductive, PTL

\* The shared spins are at every moment those of the reference read: the
\* result is the same at any worker count and under any interleaving
\* (gibbs_parallel.rs 188-190 and 267-270).
THEOREM WorkersDoNotMatter == Spec => []MatchesReference
<1>1. GInv => MatchesReference
  BY DEF GInv
<1> QED
  BY <1>1, GibbsInductive, PTL

\* What a worker has loaded of its node's neighbours is still their spin
\* (gibbs_parallel.rs 179-186).
THEOREM FieldsAreFresh == Spec => []NoStaleField
<1>1. ASSUME GInv, NEW w \in Workers, NEW i \in DOMAIN seen[w]
      PROVE  seen[w][i] = spins[Neighbors[Node(w)][i]]
  <2>1. seen[w] \in Seq(Spins)
    BY <1>1 DEF GInv, GibbsTypeOK
  <2>2. seen[w] # <<>>
    BY <1>1, <2>1
  <2>3. Resampling(w) /\ HasNode(w) /\ Len(seen[w]) <= Len(Neighbors[Node(w)])
    BY <1>1, <2>2 DEF GInv, BusyResamples, SeenOfNode
  <2>4. /\ Neighbors[Node(w)] \in Seq(Nodes)
        /\ \A l \in 1 .. Len(Neighbors[Node(w)]) :
             spins[Neighbors[Node(w)][l]] = ref[Neighbors[Node(w)][l]]
    BY <1>1, <2>3, ReadsReference
  <2>5. i \in 1 .. Len(Neighbors[Node(w)])
    BY <2>1, <2>3, <2>4
  <2> QED
    BY <1>1, <2>4, <2>5 DEF GInv, SeenIsReference
<1>2. GInv => NoStaleField
  BY <1>1 DEF NoStaleField
<1> QED
  BY <1>2, GibbsInductive, PTL

\* A finished read returns the reference's spins.
THEOREM ResultHolds == Spec => []ResultIsReference
<1>1. GInv => ResultIsReference
  <2> SUFFICES ASSUME GInv, ReadDone PROVE spins = ref
    BY DEF ResultIsReference
  <2>1. \A w \in Workers : at[w] = "out" /\ arrivals[w] = Rounds
    BY DEF ReadDone
  <2>2. \A w \in Workers : done[w] = 0 /\ arrivals[w] = released
    BY <2>1, RoundsAssumption DEF GInv, BInv, OutIsBehind, BusyResamples, Resampling
  <2>3. Stored = {}
    <3> SUFFICES ASSUME NEW w \in Workers PROVE StoredBy(w) = {}
      BY DEF Stored
    <3>1. released \in Nat
      BY DEF GInv, GibbsTypeOK, BarrierTypeOK
    <3>2. First(w, released) \in Nat
      BY <3>1, ChunkBounds
    <3>3. StoredBy(w) = {Class(released)[i] :
                           i \in First(w, released) + 1 .. First(w, released) + 0}
      BY <2>2 DEF StoredBy
    <3> QED
      BY <3>2, <3>3
  <2>4. \A v \in Nodes : spins[v] = ref[v]
    BY <2>3 DEF GInv, MatchesReference
  <2> QED
    BY <2>4 DEF GInv, GibbsTypeOK
<1> QED
  BY <1>1, GibbsInductive, PTL
=============================================================================
