----------------------------- MODULE GuidedSwarm -----------------------------
(***************************************************************************)
(* The globally guided kernel (src/sb_ggsb.rs).  All reads advance         *)
(* together; in every step the trajectory of the lowest energy leads, and  *)
(* all others are pulled toward its position.                              *)
(*                                                                         *)
(* Numbers are rounded toward zero.  The guidance is in units of           *)
(* 1 / GuideScale, and the amplitude of the perturbation is 1.  A          *)
(* perturbation is certain in the first step and possible in every other.  *)
(***************************************************************************)
EXTENDS SbKernel

CONSTANT GuideScale

ASSUME GuideAssumption == GuideScale \in Nat

VARIABLES
  guided,           \* the filtered guidance of every trajectory
  leading           \* history: the trajectory that leads the step

swarmVars == <<guided, leading>>

Quotient(a, b) == Sign(a) * ((Sign(a) * a) \div b)

\* floor of the square root
Root(n) == CHOOSE r \in 0 .. n : r * r <= n /\ n < (r + 1) * (r + 1)

Total(f) == SumFunction(f)

-----------------------------------------------------------------------------
\* coupling_sums, for what the particles couple with.
Sums(c) ==
  [i \in AllParticles |-> ForceOn(i, [l \in DOMAIN Terms[i] |-> c[Terms[i][l].node]])]

Coupled(t) == [i \in AllParticles |-> CoupledValue(request.variant, t[i])]
Signs(t) == [i \in AllParticles |-> Sign(t[i].x)]

\* Faulty variant of ExtendedEnergy: from the positions, if those couple.
ExtendedEnergyOfCoupled(t) ==
  Total([i \in AllParticles |-> Coupled(t)[i] * Sums(Coupled(t))[i]]) \div 2

\* Of the signs, whatever the particles couple with: a continuous variant
\* computes its sums a second time.
ExtendedEnergy(t) ==
  LET s == IF request.variant.coupling = "Discrete" THEN Coupled(t) ELSE Signs(t) IN
  Total([i \in AllParticles |-> s[i] * Sums(s)[i]]) \div 2

\* The lowest energy; the lowest index on ties.
Leader ==
  CHOOSE r \in Members :
    \A o \in Members :
      \/ ExtendedEnergy(members[r]) < ExtendedEnergy(members[o])
      \/ ExtendedEnergy(members[r]) = ExtendedEnergy(members[o]) /\ r <= o

-----------------------------------------------------------------------------

\* The leader is aligned with the sign of the trajectory's ancilla.
LeaderGauge(best, t) ==
  IF HasBias /\ (best[Ancilla].x < 0) # (t[Ancilla].x < 0) THEN -1 ELSE 1

Distance(best, t) ==
  [i \in AllParticles |-> LeaderGauge(best, t) * best[i].x - t[i].x]

Dot(a, b) == Total([i \in AllParticles |-> a[i] * b[i]])

Momenta(t) == [i \in AllParticles |-> t[i].y]

\* The cosine of d and y is below -1/20.
Opposes(d, y) == Dot(d, y) < 0 /\ 400 * Dot(d, y) * Dot(d, y) > Dot(d, d) * Dot(y, y)

\* Damped by the distance, annealed, and negated as a whole when it opposes
\* the momentum.
Guidance(best, t) ==
  LET d == Distance(best, t)
      flip == IF Opposes(d, Momenta(t)) THEN -1 ELSE 1
  IN  [i \in AllParticles |->
         flip * Quotient(GuideScale * (Steps - step) * d[i], Steps * (1 + Root(Dot(d, d))))]

\* The low-pass filter with coefficient 0.9 - 0.4 u.
Filtered(old, new) ==
  [i \in AllParticles |->
     Quotient((9 * Steps - 4 * step) * old[i] + (Steps + 4 * step) * new[i], 10 * Steps)]

-----------------------------------------------------------------------------
SwarmInit == guided = <<>> /\ leading = 0

BeginSwarm ==
  /\ \E r \in SbRequests : r.kernel = "Swarm" /\ Begin(r, "swarm")
  /\ UNCHANGED swarmVars

DrawSwarm ==
  /\ stage = "swarm"
  /\ answers = <<>>
  /\ DrawMembers(0, NumReads, "guide")
  /\ guided' = [r \in 1 .. NumReads |-> [i \in AllParticles |-> 0]]
  /\ UNCHANGED leading

\* The first two loops of a step: the energies, the leader, the guidance.
Guide ==
  /\ stage = "guide"
  /\ step < Steps
  /\ leading' = Leader
  /\ guided' = [r \in Members |->
                  Filtered(guided[r], Guidance(members[leading'], members[r]))]
  /\ stage' = "move"
  /\ UNCHANGED <<request, step, turn, members, seeds, before, answers>>

\* Particle s of a member moves under the guidance g; the wall comes after
\* the perturbation.
MoveGuided(s, force, g, hit) ==
  LET y == s.y + Restore(Steps, step) * s.x - force + g
      x == s.x + y - (IF hit THEN 1 ELSE 0)
  IN  IF x \in -Wall .. Wall THEN [s EXCEPT !.x = x, !.y = y]
                             ELSE [s EXCEPT !.x = Wall * Sign(x), !.y = 0]

\* The third loop: the forces were summed before any position moved.
MoveMember ==
  /\ stage = "move"
  /\ turn \in Members
  /\ \E hit \in IF step = 0 THEN {AllParticles} ELSE SUBSET AllParticles :
       members' = [members EXCEPT ![turn] =
         [i \in AllParticles |->
            MoveGuided(@[i], Sums(Coupled(before[turn]))[i], guided[turn][i], i \in hit)]]
  /\ turn' = turn + 1
  /\ UNCHANGED <<request, stage, step, seeds, before, answers, swarmVars>>

EndSwarmStep ==
  /\ stage = "move"
  /\ turn \notin Members
  /\ EndStep(members)
  /\ stage' = "guide"
  /\ UNCHANGED swarmVars

EndSwarm ==
  /\ stage = "guide"
  /\ step = Steps
  /\ ReadOff("answered")
  /\ UNCHANGED swarmVars

SwarmNext ==
  BeginSwarm \/ DrawSwarm \/ Guide \/ MoveMember \/ EndSwarmStep \/ EndSwarm

\* The trajectory that leads a step is one whose spins, as they would be
\* reported, have the lowest energy of all, whether particles couple by their
\* sign or by their position (sb_ggsb.rs 7-9, 155-158).
LeaderIsBest ==
  stage = "move" =>
    \A r \in Members :
      Energy(GaugeFixedSpins(before[leading])) <= Energy(GaugeFixedSpins(before[r]))

\* A trajectory in the other gauge is pulled toward the equivalent
\* configuration.
SwarmIsGaugeFree ==
  (stage = "guide" /\ step < Steps) =>
    \A r \in Members : \A o \in Members :
      OffZero(members[r]) =>
        [i \in AllParticles |-> -Guidance(members[o], members[r])[i]]
          = Guidance(members[o], Flipped(members[r]))
=============================================================================
