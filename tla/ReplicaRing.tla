----------------------------- MODULE ReplicaRing -----------------------------
(***************************************************************************)
(* The replica-ring kernel (src/sb_sbqa.rs).  The reads are cut into rings *)
(* of replicas; in every step all replicas couple, all update their        *)
(* momentum from the old positions of themselves and of their two          *)
(* neighbours in the ring, and then all move.  The strength of the ring    *)
(* grows with the step and with the size of the ring.                      *)
(***************************************************************************)
EXTENDS SbKernel

CONSTANT DeadZone        \* in tenths of the wall, reached at the last step

\* A ring of at least one replica, if only of as many as 0 stands for.
ASSUME RingAssumption == \A r \in SbRequests : r.kernel = "Ring" => r.replicas \in Nat

\* The next ring: a full one, or what is left of the reads.
RingSize ==
  LET left == NumReads - Len(answers)
      full == AtLeastOne(request.replicas)
  IN  IF left < full THEN left ELSE full

RingCoupling == IF Len(members) > 1 THEN step * Len(members) ELSE 0

\* Zero inside the dead zone, the sign outside it.
DeadZoneSign(x) ==
  IF 10 * Sign(x) * x * Steps <= DeadZone * step * Wall THEN 0 ELSE Sign(x)

Previous(q) == IF q = 1 THEN Len(members) ELSE q - 1
Following(q) == IF q = Len(members) THEN 1 ELSE q + 1

\* The momentum of replica q after the step, where every replica is as in t.
RingMomentum(t, q) ==
  [i \in AllParticles |->
     t[q][i].y + Restore(Steps, step) * t[q][i].x
     - ForceOn(i, [l \in DOMAIN Terms[i] |-> DeadZoneSign(before[q][Terms[i][l].node].x)])
     + RingCoupling * (t[Previous(q)][i].x + t[Following(q)][i].x)]

WithMomentum(t, y) == [i \in AllParticles |-> [t[i] EXCEPT !.y = y[i]]]
Landed(t) == [i \in AllParticles |-> Landing(t[i], t[i].y)]

BeginRing == \E r \in SbRequests : r.kernel = "Ring" /\ Begin(r, "rings")

DrawRing ==
  /\ stage = "rings"
  /\ Len(answers) < NumReads
  /\ DrawMembers(Len(answers), RingSize, "ring")

\* Faulty variant of PushReplica: the position moves in the same loop.
PushAndMoveReplica ==
  /\ stage = "ring"
  /\ step < Steps
  /\ turn \in Members
  /\ members' = [members EXCEPT ![turn] =
                   Landed(WithMomentum(@, RingMomentum(members, turn)))]
  /\ turn' = turn + 1
  /\ UNCHANGED <<request, stage, step, seeds, before, answers>>

\* One turn of the loop in ring_momentum: it reads positions, writes momenta.
PushReplica ==
  /\ stage = "ring"
  /\ step < Steps
  /\ turn \in Members
  /\ members' = [members EXCEPT ![turn] = WithMomentum(@, RingMomentum(members, turn))]
  /\ turn' = turn + 1
  /\ UNCHANGED <<request, stage, step, seeds, before, answers>>

\* Then every replica moves.
MoveRing ==
  /\ stage = "ring"
  /\ step < Steps
  /\ turn \notin Members
  /\ EndStep([q \in Members |-> Landed(members[q])])
  /\ UNCHANGED stage

EndRing ==
  /\ stage = "ring"
  /\ step = Steps
  /\ ReadOff("rings")

EndRings ==
  /\ stage = "rings"
  /\ Len(answers) = NumReads
  /\ stage' = "answered"
  /\ UNCHANGED <<request, step, turn, members, seeds, before, answers>>

RingNext == BeginRing \/ DrawRing \/ PushReplica \/ MoveRing \/ EndRing \/ EndRings

\* Whatever the order of the loop, a replica's momentum is computed from the
\* positions all replicas of its ring had when the step began: none reads a
\* neighbour that has already moved (sb_sbqa.rs 102-107).
RingIsSimultaneous ==
  (stage = "ring" /\ step < Steps) =>
    \A q \in Members :
      members[q] = IF q < turn THEN WithMomentum(before[q], RingMomentum(before, q))
                               ELSE before[q]
=============================================================================
