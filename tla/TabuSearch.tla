----------------------------- MODULE TabuSearch -----------------------------
(***************************************************************************)
(* The two-phase tabu kernel (src/sb_tesb.rs).  A warm-up of plain runs    *)
(* stores the configurations it reaches; the checking phase repels every   *)
(* read from a mini-batch of them, drawn once for each step and shared by  *)
(* all reads.  The strength beta is in units of the mini-batch, alpha in   *)
(* tenths.                                                                 *)
(***************************************************************************)
EXTENDS SbKernel

ASSUME TabuAssumption ==
  \A r \in SbRequests : r.kernel = "Tabu" =>
    r.alpha \in Nat /\ r.beta \in Int /\ r.batch \in Nat /\ r.replicas \in Nat

VARIABLES
  tabu,             \* the stored columns
  batches           \* for every checking step, the columns it sums

tabuVars == <<tabu, batches>>

\* round(alpha * total), at least one step and at most all of them.
CheckSteps ==
  LET share == (request.alpha * Steps + 5) \div 10 IN
  IF share < 1 THEN 1 ELSE IF share > Steps THEN Steps ELSE share

WarmSteps == Steps - CheckSteps

Active == tabu # <<>> /\ request.beta # 0

\* The stored columns are in the gauge +1; a read's gauge is its ancilla's sign.
TabuGauge(t) == Gauge(t)

\* Faulty variant of TabuForce: the columns are used as they are stored.
TabuForceUngauged(t, batch) ==
  [i \in AllParticles |->
     IF i < NumNodes
     THEN request.beta * SumFunction([b \in DOMAIN batch |-> tabu[batch[b]][i]])
     ELSE 0]

\* The field of the batch on the nodes; the ancilla receives none of it.
TabuForce(t, batch) ==
  [i \in AllParticles |->
     IF i < NumNodes
     THEN TabuGauge(t) * request.beta * SumFunction([b \in DOMAIN batch |-> tabu[batch[b]][i]])
     ELSE 0]

TabuInit == tabu = <<>> /\ batches = <<>>

BeginTabu ==
  /\ \E r \in SbRequests : r.kernel = "Tabu" /\ Begin(r, "warm")
  /\ UNCHANGED tabuVars

\* A replica of the warm-up; its seeds are salted, so no read repeats them.
DrawWarm ==
  /\ stage = "warm"
  /\ WarmSteps > 0
  /\ Len(tabu) < request.replicas
  /\ DrawMembers(Len(tabu), 1, "warming")
  /\ UNCHANGED tabuVars

WarmStep ==
  /\ stage = "warming"
  /\ step < WarmSteps
  /\ EndStep(<<StepOfAll(request.variant, WarmSteps, step, members[1], NoExtra)>>)
  /\ UNCHANGED <<stage, tabuVars>>

\* Its spins become a column.
StoreColumn ==
  /\ stage = "warming"
  /\ step = WarmSteps
  /\ tabu' = Append(tabu, GaugeFixedSpins(members[1]))
  /\ members' = <<>>
  /\ seeds' = <<>>
  /\ before' = <<>>
  /\ step' = 0
  /\ stage' = "warm"
  /\ UNCHANGED <<request, turn, answers, batches>>

\* The batches of all checking steps, drawn before the first read.
DrawBatches ==
  /\ stage = "warm"
  /\ WarmSteps = 0 \/ Len(tabu) = request.replicas
  /\ batches' \in IF tabu = <<>> THEN {<<>>}
                  ELSE [1 .. CheckSteps -> [1 .. AtLeastOne(request.batch) -> DOMAIN tabu]]
  /\ stage' = "check"
  /\ UNCHANGED <<request, step, turn, members, seeds, before, answers, tabu>>

DrawChecked ==
  /\ stage = "check"
  /\ Len(answers) < NumReads
  /\ DrawMembers(Len(answers), 1, "checking")
  /\ UNCHANGED tabuVars

\* What a checking step makes of a trajectory.
Checked(k, t) ==
  StepOfAll(request.variant, CheckSteps, k, t,
            IF Active THEN TabuForce(t, batches[k + 1]) ELSE NoExtra)

CheckStep ==
  /\ stage = "checking"
  /\ step < CheckSteps
  /\ EndStep(<<Checked(step, members[1])>>)
  /\ UNCHANGED <<stage, tabuVars>>

EndChecked ==
  /\ stage = "checking"
  /\ step = CheckSteps
  /\ ReadOff("check")
  /\ UNCHANGED tabuVars

EndTabu ==
  /\ stage = "check"
  /\ Len(answers) = NumReads
  /\ stage' = "answered"
  /\ UNCHANGED <<request, step, turn, members, seeds, before, answers, tabuVars>>

TabuNext ==
  \/ BeginTabu \/ DrawWarm \/ WarmStep \/ StoreColumn \/ DrawBatches
  \/ DrawChecked \/ CheckStep \/ EndChecked \/ EndTabu

\* A read in the other gauge makes the same step in the other gauge.
TabuIsGaugeFree ==
  (stage = "checking" /\ step < CheckSteps /\ OffZero(members[1])) =>
    Checked(step, Flipped(members[1])) = Flipped(Checked(step, members[1]))
=============================================================================
