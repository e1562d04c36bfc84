--------------------------- MODULE OrdinaryAnneal ---------------------------
(***************************************************************************)
(* The ordinary annealer (src/sampler_core.rs): the ladder of temperatures *)
(* and its share of the sweeps, and one read after the other on one of two *)
(* kernels.  The integer kernel keeps its fields in 8 bits and looks the   *)
(* acceptance up.  The general kernel takes any coupling, in doubles: a    *)
(* field or an update of one that is too long for a double is rounded.     *)
(* Both draw only to climb.                                                *)
(*                                                                         *)
(* Biases and couplings count the largest power of two, up to 1, that they *)
(* are all multiples of: so a sum of them is exact as long as its number   *)
(* of units fits a double.                                                 *)
(***************************************************************************)
EXTENDS ScalarAnneal, FiniteSetsExt, Functions

CONSTANTS
  MaxTableEntries,   \* MAX_TABLE_ENTRIES
  DoubleExact,       \* a double holds every whole number up to here
  Rounding           \* how far rounding may move a longer field at a time

ASSUME DoubleAssumption == DoubleExact \in Nat /\ Rounding \in Nat

VARIABLES
  kernel,   \* the arithmetic of the job
  accepts,  \* the flips of this read
  drawn     \* numbers drawn in this read: by the kernel, by the reference

ordinaryVars == <<kernel, accepts, drawn>>

-----------------------------------------------------------------------------
(* The ladder.                                                             *)

Larger(a, b) == IF a < b THEN b ELSE a
Smaller(a, b) == IF a < b THEN a ELSE b

\* effective_sweeps_per_beta
SweepsPerBeta(total, perBeta) ==
  IF total = 0 THEN Larger(1, perBeta) ELSE Smaller(Larger(1, perBeta), total)

Rungs(total, perBeta) == Larger(1, total \div SweepsPerBeta(total, perBeta))

\* build_beta_schedule
ColdLadder(range, total, perBeta) ==
  [from |-> range.hot, to |-> range.cold, rungs |-> Rungs(total, perBeta)]

\* The middle of the range, on the scale of the ladder.
Middle(range) ==
  IF range.kind = "geometric"
  THEN Max({b \in 0 .. Larger(range.hot, range.cold) : b * b <= range.hot * range.cold})
  ELSE (range.hot + range.cold) \div 2

\* build_seeded_beta_schedule: 0 asks for the middle.
SeededLadder(range, start, total, perBeta) ==
  LET from == IF start = 0 THEN Middle(range) ELSE start
  IN  [from |-> from, to |-> Larger(range.cold, from), rungs |-> Rungs(total, perBeta)]

-----------------------------------------------------------------------------
(* The kernels.                                                            *)

\* CpuGraph::from_base: a bond of coupling zero stays in the row.
GeneralRow(p, v) ==
  {k \in DOMAIN p.bonds : LET b == p.bonds[k] IN
     b.u \in Nodes /\ b.v \in Nodes /\ b.u # b.v /\ v \in {b.u, b.v}}

RowOf(arith, p, v) == IF arith = "Int" THEN Row(p, v) ELSE GeneralRow(p, v)

\* effective_field, seed_fields
EffectiveField(arith, p, v, s) ==
  p.h[v] + SumFunction([k \in RowOf(arith, p, v) |-> Pull(p, k, v, s)])

RowLen(p) == 1 + Max({Reach(p, v) : v \in Nodes})

\* Kernel::for_problem
KernelFor(p, rungs) ==
  IF Qualifies(p) /\ rungs * RowLen(p) <= MaxTableEntries THEN "Int" ELSE "F64"

\* An i8 in the integer kernel.
Width(arith, n) == IF arith = "Int" THEN ((n + 128) % 256) - 128 ELSE n

\* Every field of the problem, and every sum on the way to one, is at most
\* this large.
FieldWeight(p, v) ==
  Abs(p.h[v]) + SumFunction([k \in GeneralRow(p, v) |-> Abs(p.bonds[k].j)])

\* No sum of the problem is rounded; unit couplings within reach of 8 bits are
\* far below the limit.
Exact(p) == Qualifies(p) \/ \A v \in Nodes : FieldWeight(p, v) <= DoubleExact

Slack(p) == IF Exact(p) THEN 0 ELSE Rounding

\* The errors one computation makes in the fields of the nodes of T: the sums
\* of a seeding, or the additions of one flip, parallel bonds together.
Errors(p, T) == {e \in [Nodes -> -Slack(p) .. Slack(p)] : \A v \in Nodes \ T : e[v] = 0}

SeedForces(s, arith, err) ==
  [v \in Nodes |-> Width(arith, EffectiveField(arith, problem, v, s) + err[v])]

EnterOrdinaryRead(s, arith) ==
  /\ sweep' = 0
  /\ var' = 0
  /\ spins' = s
  /\ \E err \in Errors(problem, Nodes) : heff' = SeedForces(s, arith, err)
  /\ walk' = s
  /\ accepts' = 0
  /\ drawn' = [run |-> 0, ref |-> 0]

\* Faulty variant of Free: a flip that costs nothing draws.
FreeStrict(along) == along > 0

\* Accepted without a draw: downhill and flat.
Free(along) == along >= 0

Flipped(s, v) == [s EXCEPT ![v] = -s[v]]

\* The coupling between two nodes: parallel bonds add up.
Between(v, u) ==
  SumFunction([k \in {k \in RowOf(kernel, problem, v) : OtherEnd(problem, k, v) = u}
                 |-> problem.bonds[k].j])

Touched(v) == {OtherEnd(problem, k, v) : k \in RowOf(kernel, problem, v)}

\* apply_field_delta, flip
Spread(v, err) ==
  [u \in Nodes |-> Width(kernel, heff[u] - 2 * spins[v] * Between(v, u) + err[u])]

\* One attempt.  The draw is the largest climb it takes, in half energies.
\* The reference computes every field anew, without rounding.
Candidate ==
  /\ sweep < sweeps
  /\ \E draw \in Thresholds :
       LET along == spins[var] * heff[var]
           ahead == walk[var] * EffectiveField("F64", problem, var, walk)
           Drew(free) == IF free THEN 0 ELSE 1
       IN  /\ drawn' = [run |-> drawn.run + Drew(Free(along)),
                        ref |-> drawn.ref + Drew(ahead >= 0)]
           /\ walk' = IF ahead >= -draw THEN Flipped(walk, var) ELSE walk
           /\ IF Free(along) \/ along >= -draw
              THEN /\ spins' = Flipped(spins, var)
                   /\ \E err \in Errors(problem, Touched(var)) : heff' = Spread(var, err)
                   /\ accepts' = accepts + 1
              ELSE UNCHANGED <<spins, heff, accepts>>
  /\ NextNode
  /\ UNCHANGED <<problem, sweeps, bond, read, kernel>>

-----------------------------------------------------------------------------
(* Scoring.                                                                *)

\* The bonds with both ends in the problem; a self-loop counts.
Scored(p) == {k \in DOMAIN p.bonds : p.bonds[k].u \in Nodes /\ p.bonds[k].v \in Nodes}

\* energy_milli, of the protocol crate.
Energy(p, s) ==
  SumFunction([v \in Nodes |-> p.h[v] * s[v]])
    + SumFunction([k \in Scored(p) |-> p.bonds[k].j * s[p.bonds[k].u] * s[p.bonds[k].v]])
=============================================================================
