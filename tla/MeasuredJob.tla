----------------------------- MODULE MeasuredJob -----------------------------
(***************************************************************************)
(* One measured job (execute_cpu_job of research/round2/round2_runner.py,  *)
(* and what run-one of round2_cpu.py adds): the model of the bundle, the   *)
(* input the kernel takes for it, the answer of the kernel, and the record *)
(* that is made of it.                                                     *)
(*                                                                         *)
(* Couplings, fields and energies are integers: quarters of the unit of    *)
(* energy.  The kernel is outside: it returns the energies of the input it *)
(* was given, unless the request says that it does something else.         *)
(***************************************************************************)
EXTENDS CampaignPlan

CONSTANTS
  JobRequests,        \* the jobs, what their kernel does and what the host does
  LoadThreshold,      \* LOADAVG_1M_CONTAMINATION_THRESHOLD
  BusyThreshold       \* SIBLING_BUSY_CONTAMINATION_THRESHOLD, in percent

VARIABLE measured     \* the request, how far it is, and the record

Quarters == 4         \* to the unit of energy
CubicUnit == 2        \* CUBIC_DIMER_UNIT_ENERGY, half a unit

Energy(m, s) ==
  SumFunction([v \in DOMAIN m.h |-> m.h[v] * s[v]])
    + SumFunction([k \in DOMAIN m.edges |-> m.j[k] * s[m.edges[k][1]] * s[m.edges[k][2]]])

States(m) == [DOMAIN m.h -> {-1, 1}]
Magnitude(x) == IF x < 0 THEN -x ELSE x
SignOf(x) == IF x < 0 THEN -1 ELSE IF x = 0 THEN 0 ELSE 1

-----------------------------------------------------------------------------
(* What the kernel is given: a model and a scale, which is a fraction of   *)
(* Quarters; its energies times the scale, and its inverse temperatures    *)
(* over the scale, are those of the model of the bundle.                   *)

Rebuilt(q) == q.cubic /\ q.kernel = UnitKernel

Eligible(q) ==
  q.kernel = UnitKernel =>
    IF q.cubic THEN \A k \in DOMAIN q.model.j : Magnitude(q.model.j[k]) % CubicUnit = 0
    ELSE /\ \A k \in DOMAIN q.model.j : q.model.j[k] \in {-Quarters, 0, Quarters}
         /\ \A v \in DOMAIN q.model.h : q.model.h[v] % Quarters = 0

\* Edge k once for every half unit of its coupling.
Copies(q, k) == [i \in 1 .. Magnitude(q.model.j[k]) \div CubicUnit |-> k]
CopiesOf(q) ==
  LET copies[k \in 0 .. Len(q.model.j)] ==
        IF k = 0 THEN <<>> ELSE copies[k - 1] \o Copies(q, k)
  IN  copies[Len(q.model.j)]

RepeatedModel(q) ==
  LET order == CopiesOf(q) IN
  [h |-> [v \in DOMAIN q.model.h |-> 0],
   edges |-> [i \in DOMAIN order |-> q.model.edges[order[i]]],
   j |-> [i \in DOMAIN order |-> Quarters * SignOf(q.model.j[order[i]])]]

\* Faulty variant of KernelInput: the schedule of the model is kept.
KernelInputAtFullBeta(q) ==
  IF Rebuilt(q) THEN [model |-> RepeatedModel(q), scale |-> CubicUnit, beta |-> q.beta]
  ELSE [model |-> q.model, scale |-> Quarters, beta |-> q.beta]

KernelInput(q) ==
  IF Rebuilt(q)
  THEN [model |-> RepeatedModel(q), scale |-> CubicUnit,
        beta |-> [i \in 1 .. 2 |-> (q.beta[i] * CubicUnit) \div Quarters]]
  ELSE [model |-> q.model, scale |-> Quarters, beta |-> q.beta]

\* The neal sampler takes pairs: couplings of one pair are added up.  It makes
\* its own schedule.
PairsOf(m) ==
  LET pairs == SetToSeq({m.edges[k] : k \in DOMAIN m.edges}) IN
  [h |-> m.h, edges |-> pairs,
   j |-> [i \in DOMAIN pairs |->
            SumFunctionOnSet(m.j, {k \in DOMAIN m.edges : m.edges[k] = pairs[i]})]]

Given(q) ==
  IF q.kernel = NealKernel
  THEN [model |-> PairsOf(q.model), scale |-> Quarters, beta |-> <<>>] ELSE KernelInput(q)

-----------------------------------------------------------------------------
(* The record.  exit_ok: completed and unsupported.                        *)

IneligibleRecord == [status |-> "unsupported", ran |-> FALSE, observed |-> "none"]
FailureRecord(ran) == [status |-> "failed", ran |-> ran, observed |-> "none"]

\* The input that the export recorded must be the one that was built.
WrongInput(q) == q.kernel = UnitKernel /\ q.exported \notin {"none", "same"}

\* allclose, of all reads.
Rescored(q) ==
  \A s \in q.reads :
    Energy(q.model, s) * Quarters
      = (Energy(Given(q).model, s) + IF q.answer = "wrong" THEN 1 ELSE 0) * Given(q).scale

\* The neal sampler does not say what it ran.
Observed(q) == IF q.answer = "substituted" /\ q.kernel # NealKernel THEN "another" ELSE q.kernel

\* A ValueError of the kernel, and every error that is raised, becomes the
\* record of a failure.
Execute(q) ==
  IF ~Eligible(q) THEN IneligibleRecord
  ELSE IF WrongInput(q) THEN FailureRecord(FALSE)
  ELSE IF \/ q.answer = "refused"
          \/ Observed(q) # q.kernel
          \/ q.answer = "nonfinite"
          \/ ~Rescored(q)
  THEN FailureRecord(TRUE)
  ELSE [status |-> "completed", ran |-> TRUE, observed |-> Observed(q),
        input |-> Given(q), energies |-> {Energy(q.model, s) : s \in q.reads}]

-----------------------------------------------------------------------------
(* The host, sampled before and after.  A sample is the load and, if the   *)
(* core has a sibling, its busy and total time.                            *)

Overloaded(load, workers) == load - workers > LoadThreshold

\* Nothing is known of a run too short for the clock to tick.
SiblingBusy(before, after) ==
  /\ before.sibling # <<>> /\ after.sibling # <<>>
  /\ LET busy == after.sibling[1] - before.sibling[1]
         total == after.sibling[2] - before.sibling[2]
     IN  total > 0 /\ 100 * busy > BusyThreshold * total

HostContaminated(q) ==
  \/ Overloaded(q.before.load, q.workers)
  \/ Overloaded(q.after.load, q.workers)
  \/ SiblingBusy(q.before, q.after)

\* The host is only looked at when the job is pinned.
Host(q) == IF q.pinned THEN [contaminated |-> HostContaminated(q)] ELSE [unknown |-> TRUE]

-----------------------------------------------------------------------------
\* A model has a coupling for every edge.  The bundles of the cubic cell hold no
\* fields, and half of an inverse temperature is a number here.  The kernels are
\* binaries that may be replaced, by one of another name; the neal sampler is called
\* as a library.
ASSUME JobRequestsAssumption ==
  /\ LoadThreshold \in Int
  /\ \A q \in JobRequests :
       /\ IsFiniteSet(DOMAIN q.model.h) /\ q.model.h \in [DOMAIN q.model.h -> Int]
       /\ q.model.edges \in Seq((DOMAIN q.model.h) \X (DOMAIN q.model.h))
       /\ q.model.j \in Seq(Int) /\ Len(q.model.j) = Len(q.model.edges)
       /\ q.cubic => \A v \in DOMAIN q.model.h : q.model.h[v] = 0
       /\ q.beta \in [1 .. 2 -> Int] /\ (q.cubic => \A i \in 1 .. 2 : q.beta[i] % 2 = 0)
       /\ q.reads # {} /\ q.reads \subseteq States(q.model)
       /\ q.answer \in {"honest", "wrong", "nonfinite", "substituted", "refused"}
       /\ q.kernel # "another" /\ (q.kernel = NealKernel => q.answer # "substituted")
       /\ \A x \in {q.before, q.after} :
            x.load \in Int /\ (x.sibling # <<>> => x.sibling \in [1 .. 2 -> Int])
       /\ q.workers \in Int

NoJobAtAll == [at |-> "closed"]
JobClosed == measured = NoJobAtAll
JobInit == \E q \in JobRequests : measured = [at |-> "before", request |-> q]

Measure ==
  /\ measured.at = "before"
  /\ measured' = [at |-> "done", request |-> measured.request,
                  record |-> Execute(measured.request), host |-> Host(measured.request)]

JobSpec == JobInit /\ [][Measure]_measured

-----------------------------------------------------------------------------
\* The kernel anneals the model of the bundle: for every state, the product of
\* its energy and of each inverse temperature is the one of the model.
SamePhysics(q, input) ==
  input.beta # <<>> =>
    \A s \in States(q.model), i \in 1 .. 2 :
      input.beta[i] * Energy(input.model, s) = q.beta[i] * Energy(q.model, s)

\* Nothing went wrong: the export agrees, the kernel answers as asked.
FineWeather(q) == q.answer = "honest" /\ ~WrongInput(q)

\* What a record claims is what happened, and nothing that could be measured
\* is lost (round2_runner.py 266-410, 665-940):
\* - a completed record is of the kernel that was asked for, which annealed the
\*   model of the bundle, and its energies are those of the model;
\* - an eligible job is completed unless the export or the kernel is at fault;
\* - unsupported is only said of a kernel that was not run;
\* - load that the run's own workers explain is not contamination.
RecordIsHonest ==
  measured.at = "done" =>
    LET q == measured.request
        r == measured.record IN
    /\ r.status = "completed" =>
         /\ r.observed = q.kernel
         /\ q.answer = "honest"
         /\ SamePhysics(q, r.input)
         /\ r.energies = {Energy(q.model, s) : s \in q.reads}
    /\ FineWeather(q) => r.status = (IF Eligible(q) THEN "completed" ELSE "unsupported")
    /\ r.status = "unsupported" => ~r.ran /\ ~Eligible(q)
    /\ (/\ q.pinned
        /\ \A x \in {q.before, q.after} : x.load <= q.workers + LoadThreshold
        /\ q.before.sibling = q.after.sibling) => ~measured.host.contaminated
    /\ (/\ q.pinned
        /\ \E x \in {q.before, q.after} : x.load > q.workers + LoadThreshold) => measured.host.contaminated
=============================================================================
