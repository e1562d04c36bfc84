---------------------------- MODULE CampaignPlan ----------------------------
(***************************************************************************)
(* What a campaign decides before it runs anything                         *)
(* (research/round2/round2_runner.py): the processors its workers are      *)
(* pinned to, the list of its jobs with their seeds, and the identity by   *)
(* which a job finds its attempts again and knows them for its own.        *)
(*                                                                         *)
(* A digest is the tuple of what is digested.  Nonces are numbers, so that *)
(* they have an order.  A list of jobs is a set: shuffling it changes the  *)
(* order of the work only.                                                 *)
(***************************************************************************)
EXTENDS Integers, Sequences, FiniteSets, FiniteSetsExt, SequencesExt

CONSTANTS
  PlanRequests,       \* what the campaign is asked to decide
  PilotDepths,        \* PILOT_SWEEP_DEPTHS
  Depths,             \* SWEEP_DEPTHS
  PilotModels,        \* PILOT_MODELS_PER_CELL
  PilotReps,          \* PILOT_TIMING_REPS
  CampaignModels,     \* CAMPAIGN_MODELS_PER_CELL
  Reads               \* PILOT_READS and CAMPAIGN_READS are the same number

VARIABLE plan         \* the request, and what was decided

UnitKernel == "cpu-msa-unit"
FloatKernel == "cpu-msa-f64"
NealKernel == "dwave-neal"
ControlledKernels == {"cpu-sa", FloatKernel, UnitKernel}
CapturedKernels == ControlledKernels \cup {NealKernel}

\* A refusal, which is an error of the program, is an empty answer.
NoCpus == <<>>
NoJobs == {}
NoPlan == [made |-> FALSE]

-----------------------------------------------------------------------------
(* Processors.  A topology gives, for every logical processor, the ranges  *)
(* of its thread_siblings_list; one that has no such file is not in it.    *)

\* _parse_sibling_list: "4,20" and "0-1,16-17" alike.
SiblingList(ranges, cpu) == UNION {r[1] .. r[2] : r \in ranges} \ {cpu}

Siblings(topology, cpu) ==
  IF cpu \in DOMAIN topology THEN SiblingList(topology[cpu], cpu) ELSE {}

Physical(topology, cpu) == {cpu} \cup Siblings(topology, cpu)

\* Named processors are used as they are, or refused as a whole.
NamedCpus(q) ==
  IF /\ q.named # <<>>
     /\ Range(q.named) \subseteq q.allowed
     /\ \A a, b \in DOMAIN q.named :
          a # b => Physical(q.topology, q.named[a]) # Physical(q.topology, q.named[b])
  THEN q.named ELSE NoCpus

\* Faulty variant of Pinnable: only the processor itself is taken.
PinnableOnce(q, chosen, cpu) ==
  /\ cpu \notin Range(chosen)
  /\ ~(q.avoidCpu0 /\ Physical(q.topology, cpu) = Physical(q.topology, 0))

\* A processor is taken when its core is neither in use nor core 0.
Pinnable(q, chosen, cpu) ==
  /\ \A c \in Range(chosen) : Physical(q.topology, c) # Physical(q.topology, cpu)
  /\ ~(q.avoidCpu0 /\ Physical(q.topology, cpu) = Physical(q.topology, 0))

\* sorted
Ascending(numbers) ==
  [i \in 1 .. Cardinality(numbers) |->
     CHOOSE x \in numbers : Cardinality({y \in numbers : y < x}) = i - 1]

\* What is chosen of the first k processors of the pool.
AutomaticCpus(q) ==
  LET pool == Ascending(q.allowed)
      chosen[k \in 0 .. Len(pool)] ==
        IF k = 0 THEN <<>>
        ELSE IF Len(chosen[k - 1]) < q.n /\ Pinnable(q, chosen[k - 1], pool[k])
        THEN Append(chosen[k - 1], pool[k]) ELSE chosen[k - 1]
      all == chosen[Len(pool)]
  IN  IF Len(all) = q.n THEN all ELSE NoCpus

SelectWorkerCpus(q) ==
  IF q.n < 1 THEN NoCpus
  ELSE IF q.byName THEN NamedCpus(q) ELSE AutomaticCpus(q)

-----------------------------------------------------------------------------
(* Jobs.                                                                   *)

SeedFor(hash, kernel, sweeps, reads, variant) == <<hash, kernel, sweeps, reads, variant>>

Job(row, kernel, sweeps, rep, kind) ==
  [cell |-> row.cell, nonce |-> row.nonce, kernel |-> kernel, sweeps |-> sweeps,
   reads |-> Reads, rep |-> rep, kind |-> kind, variant |-> "timing",
   seed |-> SeedFor(row.hash, kernel, sweeps, Reads, "timing")]

\* _sorted_bundle_rows, and the first n of them.
FirstRows(index, cell, n) ==
  {row \in index : row.cell = cell /\
     Cardinality({r \in index : r.cell = cell /\ r.nonce < row.nonce}) < n}

ArmJobs(rows, depths, kernels, reps, kind) ==
  {Job(row, k, s, rep, kind) : row \in rows, k \in kernels, s \in depths, rep \in 0 .. reps - 1}

RowsOf(q, n) == UNION {FirstRows(q.index, cell, n) : cell \in q.cells}

PilotJobs(q) == ArmJobs(RowsOf(q, PilotModels), PilotDepths, ControlledKernels, PilotReps, "timing")
CampaignJobs(q) == ArmJobs(RowsOf(q, CampaignModels), Depths, ControlledKernels, 1, "timing")

TimingSubsetJobs(q) == ArmJobs(RowsOf(q, 1), Depths, ControlledKernels, 1, "timing-subset")

\* Every captured model must be in the index, with the same hash everywhere.
CapturedJobs(q) ==
  IF \A c \in q.captures :
       /\ \A d \in q.captures : <<c.cell, c.nonce>> = <<d.cell, d.nonce>> => c.hash = d.hash
       /\ \E row \in q.index : row.cell = c.cell /\ row.nonce = c.nonce /\ row.hash = c.hash
  THEN ArmJobs({row \in q.index : \E c \in q.captures : c.cell = row.cell /\ c.nonce = row.nonce},
               Depths, CapturedKernels, 1, "timing")
  ELSE NoJobs

\* What a report expects of one arm of the pilot or the campaign.
ExpectedPerArm(list) == IF list = "pilot" THEN PilotModels * PilotReps ELSE CampaignModels

-----------------------------------------------------------------------------
(* Identity.                                                               *)

\* The path of a job, without the number of the attempt.
BaseName(job) ==
  <<job.cell, job.nonce, job.kernel, job.sweeps, job.kind, job.rep, job.variant>>

\* solver_identity: the binary is only identified when the package holds one.
SolverIdentity(build) ==
  [version |-> build.version, neal |-> "any",
   binary |-> IF Cardinality(build.binaries) = 1 THEN build.binaries ELSE {}]

\* The version of the neal package belongs to the identity of its jobs only.
JobIdentity(job, build) ==
  IF job.kernel = NealKernel THEN [SolverIdentity(build) EXCEPT !.neal = build.neal]
  ELSE SolverIdentity(build)

RunKey(job, root, build) == <<root, job, JobIdentity(job, build)>>

-----------------------------------------------------------------------------
\* Processors of a core are siblings of each other.  A model of the index has
\* one row and a digest of its own.
ASSUME PlanAssumption ==
  /\ PilotModels \in Nat /\ PilotReps \in Nat /\ CampaignModels \in Nat \ {0}
  /\ \A q \in PlanRequests :
       \/ /\ q.about = "cpus"
          /\ q.allowed \subseteq Nat /\ IsFiniteSet(q.allowed) /\ q.n \in Int
          /\ q.named \in Seq(Nat)
          /\ \A a \in q.allowed \cup {0} : \A b \in Physical(q.topology, a) :
               Physical(q.topology, b) = Physical(q.topology, a)
       \/ /\ q.about = "lists"
          /\ IsFiniteSet(q.index) /\ \A row \in q.index : row.nonce \in Int
          /\ \A r, s \in q.index :
               <<r.cell, r.nonce>> = <<s.cell, s.nonce>> \/ r.hash = s.hash => r = s

Decide(q) ==
  CASE q.about = "cpus" -> SelectWorkerCpus(q)
    [] q.about = "lists" ->
         [pilot |-> PilotJobs(q), campaign |-> CampaignJobs(q),
          subset |-> TimingSubsetJobs(q), captured |-> CapturedJobs(q)]

PlanInit == \E q \in PlanRequests : plan = [made |-> FALSE, request |-> q]
PlanClosed == plan = NoPlan

MakePlan ==
  /\ plan # NoPlan
  /\ ~plan.made
  /\ plan' = [made |-> TRUE, request |-> plan.request, decision |-> Decide(plan.request)]

PlanSpec == PlanInit /\ [][MakePlan]_plan

-----------------------------------------------------------------------------
Cores(q) == {Physical(q.topology, c) : c \in q.allowed}

\* Workers never share a core; core 0 is only used when it is named or allowed;
\* and the request is refused only when there are not enough cores.
PinsAreSound(q, pins) ==
  LET usable == {c \in Cores(q) : ~(q.avoidCpu0 /\ 0 \in c)} IN
  /\ pins # NoCpus =>
       /\ \A a, b \in DOMAIN pins :
            a # b => Physical(q.topology, pins[a]) \cap Physical(q.topology, pins[b]) = {}
       /\ Range(pins) \subseteq q.allowed
       /\ ~q.byName => Len(pins) = q.n /\ \A a \in DOMAIN pins : pins[a] \in UNION usable
  /\ (pins = NoCpus /\ ~q.byName /\ q.n > 0) => Cardinality(usable) < q.n

\* Two jobs never share a path within the output directory of a list, nor do
\* the subset and the campaign, if somebody gives them the same directory.
PathsAreDistinct(lists) ==
  \A list \in {lists.pilot, lists.campaign \cup lists.subset, lists.captured} :
    \A a, b \in list : BaseName(a) = BaseName(b) => a = b

\* Repetitions of an arm reuse its seed, the subset measures the arms of the
\* campaign, and no two arms share a seed.
SeedsAreOfArms(lists) ==
  LET Arm(a) == <<a.cell, a.nonce, a.kernel, a.sweeps>>
      jobs == lists.pilot \cup lists.campaign \cup lists.subset IN
  /\ \A a, b \in jobs : Arm(a) = Arm(b) <=> a.seed = b.seed
  /\ \A a \in lists.subset : \E b \in lists.campaign : Arm(a) = Arm(b)

\* An arm of a list has the jobs the report expects, as far as there are models.
ArmsAreAsExpected(q, lists) ==
  \A cell \in q.cells, k \in ControlledKernels, name \in {"pilot", "campaign"} :
    LET list == IF name = "pilot" THEN lists.pilot ELSE lists.campaign
        depths == IF name = "pilot" THEN PilotDepths ELSE Depths
        per == IF name = "pilot" THEN PilotReps ELSE 1
        models == Cardinality({row \in q.index : row.cell = cell}) IN
    \A s \in depths :
      Cardinality({a \in list : a.cell = cell /\ a.kernel = k /\ a.sweeps = s})
        = Min({ExpectedPerArm(name), models * per})

\* A record is resumed only by the job, the root and the build that wrote it; a
\* new version of the neal package leaves the other kernels' records alone.
KeysAreOfBuilds(jobs, builds) ==
  \A a, b \in jobs, x, y \in builds :
    RunKey(a, "root", x) = RunKey(b, "root", y)
      <=> a = b /\ x.binaries = y.binaries /\ (a.kernel = NealKernel => x.neal = y.neal)

\* Two builds of one version, each with one binary.
Builds == [version : {"1"}, binaries : {{"a"}, {"b"}}, neal : {"1", "2"}]

\* Whatever machine, index and captures the plan is made for, no two workers
\* share a core, no two jobs a path, jobs share a seed where they share an arm
\* and a model, the report expects the jobs that were planned, and a key names
\* the binary it was made with (round2_runner.py 197-263, 416-600;
\* round2_cpu.py 72-118).
PlanIsSound ==
  (plan # NoPlan /\ plan.made) =>
    LET q == plan.request
        d == plan.decision IN
    IF q.about = "cpus" THEN PinsAreSound(q, d)
    ELSE /\ PathsAreDistinct(d)
         /\ SeedsAreOfArms(d)
         /\ ArmsAreAsExpected(q, d)
         /\ KeysAreOfBuilds(IF d.captured = NoJobs THEN d.subset ELSE d.captured, Builds)
         /\ d.captured # NoJobs =>
              {<<c.cell, c.nonce, c.hash>> : c \in q.captures}
                = {<<a.cell, a.nonce, a.seed[1]>> : a \in d.captured}
=============================================================================
