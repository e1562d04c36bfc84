----------------------------- MODULE GibbsRead -----------------------------
(***************************************************************************)
(* One read of chromatic Gibbs by a pool of workers (src/gibbs_parallel.rs,*)
(* gibbs_read): every worker resamples its chunk of the colour class and   *)
(* waits at the barrier before the next class.  Workers share the spins    *)
(* without a lock; a step is one load or one store of a spin, or one       *)
(* atomic operation of the barrier.                                        *)
(*                                                                         *)
(* Step k of the schedule (its beta, its sweep, its class) is the k-th     *)
(* call of the barrier, and Rounds is the length of the schedule.  With    *)
(* N = 1 the barrier never waits: that is the sequential branch.           *)
(***************************************************************************)
EXTENDS SpinBarrier, Sequences

CONSTANTS
  Nodes,
  Neighbors,       \* the neighbours of a node, in the order they are summed
  Classes,         \* the colour classes, each in its order
  Start,           \* the initial spins
  Spins,
  Resample(_,_,_)  \* the spin drawn at a step, for a node, from the
                   \* neighbours' spins: the draw is keyed by step and node,
                   \* never by worker

\* An empty graph has no classes and returns at once.
ASSUME ClassesAssumption ==
  /\ Classes \in Seq(Seq(Nodes))
  /\ Classes # <<>>

ASSUME NeighborsAssumption == Neighbors \in [Nodes -> Seq(Nodes)]

\* What Coloring provides: a class is an independent set.
ASSUME IndependentAssumption ==
  \A c \in DOMAIN Classes : \A i, j \in DOMAIN Classes[c] :
    \A l \in DOMAIN Neighbors[Classes[c][i]] :
      Neighbors[Classes[c][i]][l] # Classes[c][j]

ASSUME SpinsAssumption ==
  /\ Start \in [Nodes -> Spins]
  /\ \A k \in 0 .. Rounds - 1, v \in Nodes :
       \A s \in [1 .. Len(Neighbors[v]) -> Spins] : Resample(k, v, s) \in Spins

VARIABLES
  spins,   \* the shared spins
  seen,    \* the neighbours' spins each worker has loaded for its node
  done,    \* how many nodes of its chunk each worker has resampled
  ref      \* history: the spins of a read that resamples a class at once

readVars == <<spins, seen, done, ref>>
gibbsVars == <<barrierVars, readVars>>

-----------------------------------------------------------------------------
Class(k) == Classes[(k % Len(Classes)) + 1]

\* Faulty variant of Chunk: rounded down, the tail of a class is nobody's.
ChunkDown(k) == Len(Class(k)) \div N

\* class.len().div_ceil(workers)
Chunk(k) == (Len(Class(k)) + N - 1) \div N

AtMost(n, bound) == IF n <= bound THEN n ELSE bound

\* Worker w resamples the nodes at positions First + 1 .. Last of the class.
First(w, k) == AtMost(w * Chunk(k), Len(Class(k)))
Last(w, k) == AtMost(First(w, k) + Chunk(k), Len(Class(k)))

\* The node a worker is at.
Position(w) == First(w, arrivals[w]) + done[w] + 1
Node(w) == Class(arrivals[w])[Position(w)]

\* The spins after a whole class is resampled from the spins before it.
FieldOf(s, v) == [i \in 1 .. Len(Neighbors[v]) |-> s[Neighbors[v][i]]]
InClass(k, v) == \E i \in DOMAIN Class(k) : Class(k)[i] = v
ClassUpdate(k, s) ==
  [v \in Nodes |-> IF InClass(k, v) THEN Resample(k, v, FieldOf(s, v)) ELSE s[v]]

Resampling(w) == at[w] = "out" /\ arrivals[w] < Rounds
HasNode(w) == Position(w) <= Last(w, arrivals[w])

-----------------------------------------------------------------------------
Init ==
  /\ BarrierInit
  /\ spins = Start
  /\ seen = [w \in Workers |-> <<>>]
  /\ done = [w \in Workers |-> 0]
  /\ ref = Start

\* field_at: one neighbour's spin is loaded.
LoadNeighbor(w) ==
  /\ Resampling(w)
  /\ HasNode(w)
  /\ Len(seen[w]) < Len(Neighbors[Node(w)])
  /\ LET u == Neighbors[Node(w)][Len(seen[w]) + 1]
     IN  seen' = [seen EXCEPT ![w] = Append(seen[w], spins[u])]
  /\ UNCHANGED <<barrierVars, spins, done, ref>>

\* The sum is complete: draw and store the node's spin, go to the next node.
StoreSpin(w) ==
  /\ Resampling(w)
  /\ HasNode(w)
  /\ Len(seen[w]) = Len(Neighbors[Node(w)])
  /\ spins' = [spins EXCEPT ![Node(w)] = Resample(arrivals[w], Node(w), seen[w])]
  /\ seen' = [seen EXCEPT ![w] = <<>>]
  /\ done' = [done EXCEPT ![w] = done[w] + 1]
  /\ UNCHANGED <<barrierVars, ref>>

\* Faulty variant of FinishClass: a worker with an empty chunk goes on alone.
FinishClassSkipping(w) ==
  /\ Resampling(w)
  /\ ~HasNode(w)
  /\ IF First(w, arrivals[w]) = Last(w, arrivals[w])
     THEN /\ arrivals' = [arrivals EXCEPT ![w] = arrivals[w] + 1]
          /\ UNCHANGED <<waiting, sense, local, at, released>>
     ELSE Arrive(w)
  /\ done' = [done EXCEPT ![w] = 0]
  /\ UNCHANGED <<spins, seen, ref>>

\* The chunk is finished: on to the barrier.
FinishClass(w) ==
  /\ Resampling(w)
  /\ ~HasNode(w)
  /\ Arrive(w)
  /\ done' = [done EXCEPT ![w] = 0]
  /\ UNCHANGED <<spins, seen, ref>>

\* The rest of SpinBarrier::wait; the reference read moves on with the round.
WaitStep(w) ==
  \/ Reset(w) /\ UNCHANGED readVars
  \/ Release(w) /\ ref' = ClassUpdate(released, ref) /\ UNCHANGED <<spins, seen, done>>
  \/ Leave(w) /\ UNCHANGED readVars

WorkerStep(w) == LoadNeighbor(w) \/ StoreSpin(w) \/ FinishClass(w) \/ WaitStep(w)

ReadDone == \A w \in Workers : at[w] = "out" /\ arrivals[w] = Rounds

Next == (\E w \in Workers : WorkerStep(w)) \/ (ReadDone /\ UNCHANGED gibbsVars)

Spec == Init /\ [][Next]_gibbsVars

\* Scoped threads, scheduled by the host; the spin loop yields.
FairSpec == Spec /\ \A w \in Workers : WF_gibbsVars(WorkerStep(w))

-----------------------------------------------------------------------------
GibbsTypeOK ==
  /\ BarrierTypeOK
  /\ spins \in [Nodes -> Spins]
  /\ ref \in [Nodes -> Spins]
  /\ seen \in [Workers -> Seq(Spins)]
  /\ done \in [Workers -> Nat]
  /\ \A w \in Workers : done[w] <= Last(w, arrivals[w]) - First(w, arrivals[w])

\* The spins that some worker has already resampled in the open round.
StoredBy(w) ==
  {Class(released)[i] : i \in First(w, released) + 1 ..
     IF arrivals[w] = released THEN First(w, released) + done[w] ELSE Last(w, released)}
Stored == UNION {StoredBy(w) : w \in Workers}

\* However the workers are scheduled, and however many there are, the shared
\* spins are those of the read that resamples class after class at once: the
\* result of a read depends on the seed alone (gibbs_parallel.rs 188-190 and
\* 267-270).
MatchesReference ==
  \A v \in Nodes :
    spins[v] = IF v \in Stored THEN ClassUpdate(released, ref)[v] ELSE ref[v]

\* A field is never stale: whatever a worker has loaded of its node's
\* neighbours is still their spin when the node's own is drawn, though other
\* workers store to the same array meanwhile (gibbs_parallel.rs 179-186).
NoStaleField ==
  \A w \in Workers : \A i \in DOMAIN seen[w] :
    seen[w][i] = spins[Neighbors[Node(w)][i]]

\* What a finished read hands back.
ResultIsReference == ReadDone => spins = ref

\* The read comes to its end, with the reference's result.
ReadEnds == <>(ReadDone /\ spins = ref)
=============================================================================
