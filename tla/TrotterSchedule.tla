-------------------------- MODULE TrotterSchedule --------------------------
(***************************************************************************)
(* What the two tensor network kernels share: a problem as it is received  *)
(* and the greedy descent that every read ends with (CpuGraph and          *)
(* polish_from of src/sampler_core.rs), and how the sweeps of a job become *)
(* steps of imaginary time and passes of polish (src/mps/schedule.rs and   *)
(* the loops of src/mps/mod.rs and src/flatiron/mod.rs).                   *)
(*                                                                         *)
(* A problem may hold self-loops, edges out of range, parallel edges, and  *)
(* fewer couplings than edges.  A coupling or field that is not finite is  *)
(* left out: the kernels read it as 0.                                     *)
(***************************************************************************)
EXTENDS Integers, Sequences, FiniteSets, FiniteSetsExt, Functions, SequencesExt

\* The elements of a set in the order that Before gives.
Sorted(S, Before(_, _)) ==
  [i \in 1 .. Cardinality(S) |->
     CHOOSE x \in S : Cardinality({y \in S : Before(y, x)}) = i - 1]

Power(b, n) ==
  LET power[k \in 0 .. n] == IF k = 0 THEN 1 ELSE b * power[k - 1] IN power[n]

Verts(g) == DOMAIN g.h
Size(g) == Cardinality(Verts(g))
Configs(g) == [Verts(g) -> {-1, 1}]

Coupling(g, k) == IF k <= Len(g.j) THEN g.j[k] ELSE 0

Inside(g, k) == g.edges[k][1] \in Verts(g) /\ g.edges[k][2] \in Verts(g)
Linked(g, k) == Inside(g, k) /\ g.edges[k][1] # g.edges[k][2]

Coupled(g) == {k \in DOMAIN g.edges : Linked(g, k) /\ Coupling(g, k) # 0}

Incident(g, v) ==
  {k \in DOMAIN g.edges : Linked(g, k) /\ v \in {g.edges[k][1], g.edges[k][2]}}
Across(g, k, v) == IF g.edges[k][1] = v THEN g.edges[k][2] ELSE g.edges[k][1]

\* effective_field
EffectiveField(g, v, s) ==
  g.h[v] + SumFunction([k \in Incident(g, v) |-> Coupling(g, k) * s[Across(g, k, v)]])

\* energy_milli, of the protocol crate: a self-loop counts.
Score(g, s) ==
  SumFunction([v \in Verts(g) |-> g.h[v] * s[v]])
    + SumFunction([k \in {e \in DOMAIN g.edges : Inside(g, e)} |->
                     Coupling(g, k) * s[g.edges[k][1]] * s[g.edges[k][2]]])

-----------------------------------------------------------------------------
(* polish_from: a descent is the spins, the cached fields, the passes that *)
(* are left and whether the last one moved.                                *)

Descent(g, s, passes) ==
  [spins |-> s, heff |-> [v \in Verts(g) |-> EffectiveField(g, v, s)],
   left |-> passes, moved |-> TRUE]

\* apply_field_delta: parallel edges add up.
Felt(g, d, v) ==
  [u \in Verts(g) |-> d.heff[u] - 2 * d.spins[v] *
     SumFunction([k \in {e \in Incident(g, v) : Across(g, e, v) = u} |-> Coupling(g, k)])]

\* Faulty variant of TryFlip: the neighbours are not told.
TryFlipSilently(g, d, v) ==
  IF d.spins[v] * d.heff[v] > 0 THEN [d EXCEPT !.spins[v] = -@, !.moved = TRUE] ELSE d

\* Strictly downhill only.
TryFlip(g, d, v) ==
  IF d.spins[v] * d.heff[v] > 0
  THEN [d EXCEPT !.spins[v] = -@, !.heff = Felt(g, d, v), !.moved = TRUE]
  ELSE d

\* One pass over the nodes in order.
PolishPass(g, d) ==
  LET after[k \in 0 .. Size(g)] ==
        IF k = 0 THEN [d EXCEPT !.moved = FALSE, !.left = @ - 1]
        ELSE TryFlip(g, after[k - 1], k - 1)
  IN  after[Size(g)]

Landed(d) == d.left = 0 \/ ~d.moved

-----------------------------------------------------------------------------
(* The schedule.                                                           *)

CONSTANTS
  MaxTrotterSteps,    \* MAX_TROTTER_STEPS
  MinPolishSweeps,    \* MIN_POLISH_SWEEPS
  FlopConst,          \* JACOBI_FLOP_CONST, SVD_FLOP_CONST
  MemoryCap,          \* MPS_MEMORY_CAP_BYTES, MEM_CAP_BYTES
  FlopBudget,         \* flop_budget
  WorkBudget          \* ANNEAL_WORK_BUDGET

VARIABLES
  job,       \* the job: its kernel, its problem and its parameters
  at,        \* where the kernel is: [pc, step, gate]
  chi,       \* the bond dimension of the job
  cuts       \* history: the work of the gates so far, in the cost model's units

ASSUME ScheduleAssumption ==
  /\ MaxTrotterSteps \in Nat \ {0} /\ MinPolishSweeps \in Nat \ {0}
  /\ FlopConst \in Nat /\ MemoryCap \in Nat /\ FlopBudget \in Nat /\ WorkBudget \in Nat

shared == <<job, at, chi, cuts>>

AtLeast(a, b) == IF a < b THEN b ELSE a
AtMost(a, b) == IF a < b THEN a ELSE b

\* split_sweeps
Steps == AtLeast(1, AtMost(job.sweeps, MaxTrotterSteps))
PolishSweeps == AtLeast(MinPolishSweeps, job.sweeps - Steps)

\* The sweeps of a rung and the number of rungs, as build reads them.
Hold == AtLeast(1, job.perBeta)
NumBetas(sweeps, perBeta) == AtLeast(1, sweeps \div AtLeast(1, perBeta))

\* The inverse temperature of step k.
Beta(k) == job.ladder[AtMost(k \div Hold, Len(job.ladder) - 1) + 1]

\* build: the imaginary time of step k, never backwards.
Eta(k) == AtLeast(0, Beta(k) - IF k = 0 THEN 0 ELSE Beta(k - 1))

\* build: the transverse field of step k is a ramp down to zero; only whether
\* there is one is kept.
HasTransverse(k) == k < Steps - 1 /\ \E v \in Verts(job.graph) :
  job.graph.h[v] # 0 \/ \E e \in Incident(job.graph, v) : Coupling(job.graph, e) # 0

-----------------------------------------------------------------------------
Goto(pc) == at' = [at EXCEPT !.pc = pc]
Rest == [pc |-> "idle", step |-> 0, gate |-> 1]

\* A held rung advances nothing.
SkipStep(walked) ==
  /\ at.pc = "step"
  /\ at.step < walked
  /\ Eta(at.step) = 0
  /\ at' = [at EXCEPT !.step = @ + 1]
  /\ UNCHANGED <<job, chi, cuts>>

\* The first half of a step: the transverse field, then the fields.
StartStep(walked) ==
  /\ at.pc = "step"
  /\ at.step < walked
  /\ Eta(at.step) > 0
  /\ at' = [at EXCEPT !.pc = "gates", !.gate = 1]
  /\ UNCHANGED <<job, chi, cuts>>

NextStep == at' = [at EXCEPT !.pc = "step", !.step = @ + 1] /\ UNCHANGED <<job, chi, cuts>>

\* What a truncation of a rows x cols matrix may keep: jacobi_svd or, when that
\* does not converge, qr_truncate.
Kept(rows, cols, cap) == 1 .. AtMost(AtMost(rows, cols), AtLeast(1, cap))
=============================================================================
