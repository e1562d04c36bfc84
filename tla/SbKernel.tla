------------------------------ MODULE SbKernel ------------------------------
(***************************************************************************)
(* The arithmetic of Simulated Bifurcation (src/sb_core.rs): the rows of   *)
(* SbGraph, what one step does to one particle, and how the spins are read *)
(* off the positions at the end.                                           *)
(*                                                                         *)
(* Floating point is replaced by integers: DT, A0, gamma and the coupling  *)
(* normalization c0 are 1, the control strength is 1 over ControlScale,    *)
(* the pump is multiplied by the number of steps, and the wall is at Wall. *)
(* A variant says how particles couple ("Discrete", by sign, or            *)
(* "Continuous", by position), and whether they are heated and controlled. *)
(***************************************************************************)
EXTENDS Integers, Sequences, FiniteSets, Functions

CONSTANTS
  NumNodes,
  Edges,        \* the pairs of nodes of the problem, in its order
  Couplings,    \* their couplings; may be shorter than Edges
  Biases,
  Wall,
  ControlScale,
  SbRequests,       \* the requests a sampler is given
  Drawn             \* the initial conditions a seed may give

VARIABLES
  request,          \* the request, or None
  stage,            \* where its kernel stands
  step,             \* the steps its trajectories have made
  turn,             \* the next trajectory in a loop over them
  members,          \* the trajectories that advance together
  seeds,            \* the index of the seed each was drawn from
  before,           \* history: the trajectories when the step began
  answers           \* the results so far

ASSUME ProblemAssumption ==
  /\ NumNodes \in Nat
  /\ Edges \in Seq(Nat \X Nat)
  /\ Couplings \in Seq(Int)
  /\ Biases \in [0 .. NumNodes - 1 -> Int]

ASSUME ScaleAssumption == Wall \in Nat /\ ControlScale \in Nat \ {0}

-----------------------------------------------------------------------------
(* SbGraph::from_base.                                                     *)

\* Out of range edges and self-loops are dropped.
Usable(k) ==
  /\ Edges[k][1] < NumNodes
  /\ Edges[k][2] < NumNodes
  /\ Edges[k][1] # Edges[k][2]

\* A list of couplings that is too short reads 0.
CouplingOf(k) == IF k <= Len(Couplings) THEN Couplings[k] ELSE 0

\* The edges at a node, in the order of the problem.
EdgesAt(v) ==
  LET at == {k \in 1 .. Len(Edges) : Usable(k) /\ v \in {Edges[k][1], Edges[k][2]}} IN
  CHOOSE s \in [1 .. Cardinality(at) -> at] : \A a, b \in DOMAIN s : a < b => s[a] < s[b]

OtherEnd(k, v) == IF Edges[k][1] = v THEN Edges[k][2] ELSE Edges[k][1]

\* A row of the CSR: the neighbours in the order of the edges.
Row(v) ==
  LET at == EdgesAt(v) IN
  [l \in DOMAIN at |-> [node |-> OtherEnd(at[l], v), coupling |-> CouplingOf(at[l])]]

HasBias == \E v \in 0 .. NumNodes - 1 : Biases[v] # 0
Ancilla == NumNodes
NumParticles == NumNodes + (IF HasBias THEN 1 ELSE 0)
AllParticles == 0 .. NumParticles - 1

\* The terms of a particle's force: a bias is a coupling to the ancilla, whose
\* own row is every bias.
Terms ==
  [i \in AllParticles |->
     IF i = Ancilla
     THEN [l \in 1 .. NumNodes |-> [node |-> l - 1, coupling |-> Biases[l - 1]]]
     ELSE Row(i) \o (IF HasBias THEN <<[node |-> Ancilla, coupling |-> Biases[i]]>> ELSE <<>>)]

NodesRead == [i \in AllParticles |-> [l \in DOMAIN Terms[i] |-> Terms[i][l].node]]

-----------------------------------------------------------------------------
(* sb_step, for one particle: its position x, its momentum y, the momentum *)
(* before the step, and its bifurcation parameter p.                       *)

Sign(x) == IF x >= 0 THEN 1 ELSE -1

\* What a particle couples with.
CoupledValue(variant, s) == IF variant.coupling = "Discrete" THEN Sign(s.x) ELSE s.x

\* The control and the heating take their inputs before anything moves.
PrepareParticle(variant, steps, k, s) ==
  [s EXCEPT
     !.pre = IF variant.heated THEN s.y ELSE @,
     !.p = IF variant.controlled
           THEN @ - ((ControlScale - s.x * s.x) * @) \div (ControlScale * (steps - k))
           ELSE @]

ForceOn(i, seen) == SumFunction([l \in DOMAIN seen |-> Terms[i][l].coupling * seen[l]])

\* -(a0 - a(t)): the pump reaches a0 in the last step.
Restore(steps, k) == (k + 1) - steps

\* The position from the new momentum, then the perfectly inelastic wall.
Landing(s, y) ==
  LET x == s.x + y IN
  IF x \in -Wall .. Wall THEN [s EXCEPT !.x = x, !.y = y]
                         ELSE [s EXCEPT !.x = Wall * Sign(x), !.y = 0]

\* Momentum from the old position, the landing, and last the heating.
MoveParticle(variant, steps, k, force, s) ==
  LET restore == IF variant.controlled THEN -s.p ELSE Restore(steps, k)
  IN  [Landing(s, s.y + restore * s.x - force)
         EXCEPT !.y = @ + (IF variant.heated THEN s.pre ELSE 0)]

\* What particle i reads of the trajectory t.
Seen(variant, t, i) ==
  [l \in DOMAIN Terms[i] |-> CoupledValue(variant, t[Terms[i][l].node])]

\* The whole step of a trajectory, under an extra force on its particles.
StepOfAll(variant, steps, k, t, extra) ==
  [i \in AllParticles |->
     MoveParticle(variant, steps, k, ForceOn(i, Seen(variant, t, i)) + extra[i],
                  PrepareParticle(variant, steps, k, t[i]))]

NoExtra == [i \in AllParticles |-> 0]

-----------------------------------------------------------------------------
(* gauge_fixed_spins.                                                      *)

\* Faulty variant of Gauge: an ancilla at exactly zero counts as negative.
GaugeOfZero(s) == IF HasBias /\ s[Ancilla].x <= 0 THEN -1 ELSE 1

Gauge(s) == IF HasBias /\ s[Ancilla].x < 0 THEN -1 ELSE 1

GaugeFixedSpins(s) == [v \in 0 .. NumNodes - 1 |-> Gauge(s) * Sign(s[v].x)]

\* The energy that is reported for spins, self-loops and bad edges left out.
Energy(spin) ==
  SumFunction([v \in DOMAIN spin |-> Biases[v] * spin[v]])
  + SumFunction([k \in 1 .. Len(Edges) |->
      IF Usable(k) THEN CouplingOf(k) * spin[Edges[k][1]] * spin[Edges[k][2]] ELSE 0])

\* The spins that are read off the positions have the energy of what the
\* particles minimize: every pair counts twice in their rows, and the biases
\* go through the ancilla, whose sign is a gauge (sb_core.rs 594-603).
GaugeKeepsEnergyOf(s) ==
  SumFunction([i \in AllParticles |-> Sign(s[i].x) *
     SumFunction([l \in DOMAIN Terms[i] |->
       Terms[i][l].coupling * Sign(s[Terms[i][l].node].x)])])
  = 2 * Energy(GaugeFixedSpins(s))

-----------------------------------------------------------------------------
(* What the kernels of SbSampler share (sb_sampler.rs): the reads of a     *)
(* request, the trajectories that advance together, and the results.       *)
(* Every kernel keeps the energy and the spins it reports for the original *)
(* graph, and draws read r from the seed of index r.                       *)

readVars == <<request, stage, step, turn, members, seeds, before, answers>>

None == "none"

ASSUME RequestsAssumption ==
  \A r \in SbRequests : r.reads \in Nat /\ r.sweeps \in Nat

ASSUME DrawnAssumption ==
  \A d \in Drawn : \A i \in AllParticles : d[i].x \in Int /\ d[i].y \in Int

AtLeastOne(n) == IF n = 0 THEN 1 ELSE n

NumReads == AtLeastOne(request.reads)
Steps == AtLeastOne(request.sweeps)
Members == 1 .. Len(members)

\* A seed's trajectory: x and y are drawn, every pump starts at 1.
Trajectory(d) == [i \in AllParticles |-> [x |-> d[i].x, y |-> d[i].y, pre |-> 0, p |-> 1]]

Result(t, seed) ==
  [seed |-> seed, spins |-> GaugeFixedSpins(t), energy |-> Energy(GaugeFixedSpins(t))]

EmptyResults(n) == [r \in 1 .. n |-> [seed |-> r - 1, spins |-> <<>>, energy |-> 0]]

ReadsInit ==
  /\ request = None
  /\ stage = "idle"
  /\ step = 0
  /\ turn = 1
  /\ members = <<>>
  /\ seeds = <<>>
  /\ before = <<>>
  /\ answers = <<>>

\* A request reaches its kernel; without particles the integrator is skipped.
Begin(r, first) ==
  /\ stage = "idle"
  /\ request' = r
  /\ IF NumParticles = 0
     THEN answers' = EmptyResults(AtLeastOne(r.reads)) /\ stage' = "answered"
     ELSE stage' = first /\ UNCHANGED answers
  /\ UNCHANGED <<step, turn, members, seeds, before>>

\* The trajectories of `count` reads, read `first` being the first of them.
DrawMembers(first, count, next) ==
  /\ \E d \in [1 .. count -> Drawn] :
       /\ members' = [q \in 1 .. count |-> Trajectory(d[q])]
       /\ before' = members'
  /\ seeds' = [q \in 1 .. count |-> first + q - 1]
  /\ step' = 0
  /\ turn' = 1
  /\ stage' = next
  /\ UNCHANGED <<request, answers>>

\* The trajectories are through: their spins are read off.
ReadOff(next) ==
  /\ answers' = answers \o [q \in Members |-> Result(members[q], seeds[q])]
  /\ members' = <<>>
  /\ seeds' = <<>>
  /\ before' = <<>>
  /\ step' = 0
  /\ turn' = 1
  /\ stage' = next
  /\ UNCHANGED request

\* All trajectories have moved; the step is over.
EndStep(moved) ==
  /\ members' = moved
  /\ before' = moved
  /\ step' = step + 1
  /\ turn' = 1
  /\ UNCHANGED <<request, seeds, answers>>

-----------------------------------------------------------------------------
(* sample_sb, one worker: the reads one after the other.                   *)

BeginPlain ==
  \E r \in SbRequests : r.kernel = "Plain" /\ Begin(r, "plain")

DrawRead ==
  /\ stage = "plain"
  /\ Len(answers) < NumReads
  /\ DrawMembers(Len(answers), 1, "running")

PlainStep ==
  /\ stage = "running"
  /\ step < Steps
  /\ EndStep(<<StepOfAll(request.variant, Steps, step, members[1], NoExtra)>>)
  /\ UNCHANGED stage

EndRead ==
  /\ stage = "running"
  /\ step = Steps
  /\ ReadOff("plain")

EndPlain ==
  /\ stage = "plain"
  /\ Len(answers) = NumReads
  /\ stage' = "answered"
  /\ UNCHANGED <<request, step, turn, members, seeds, before, answers>>

PlainNext == BeginPlain \/ DrawRead \/ PlainStep \/ EndRead \/ EndPlain

-----------------------------------------------------------------------------
\* The configuration in the other gauge.
Flipped(t) == [i \in AllParticles |-> [t[i] EXCEPT !.x = -@, !.y = -@, !.pre = -@]]

\* No position is at zero, where the sign of a position is a convention.
OffZero(t) == \A i \in AllParticles : t[i].x # 0
=============================================================================
