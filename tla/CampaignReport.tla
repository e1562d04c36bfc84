--------------------------- MODULE CampaignReport ---------------------------
(***************************************************************************)
(* The report of a campaign (research/round2/round2_report.py and          *)
(* round2_metrics.py): which attempt of a job it shows, how a kernel that  *)
(* was never run is put together from two that were, how captures of the   *)
(* quantum processor are paired with processor runs, and what is counted.  *)
(*                                                                         *)
(* One cell, one arm of the quantum processor.  Energies and times are     *)
(* numbers; what is missing or not finite is the empty set.  A median is   *)
(* the bag of its values, here the function that gives each its owner.     *)
(***************************************************************************)
EXTENDS CampaignPlan, CampaignRunner

CONSTANTS
  ReportRequests,   \* what the report is made from
  Tolerances,       \* strict, numeric, material: fractions <<over, under>>
  ShareScale,       \* the decimals of a share that was saved rounded
  PercentScale,     \* the decimals of a percentage that is printed
  MinGroups         \* MIN_INDEPENDENT_GROUPS

\* Each tolerance is wider than the one before it.
Wider(a, b) == a[1] * b[2] >= b[1] * a[2]
ASSUME TolerancesAssumption ==
  /\ DOMAIN Tolerances = {"strict", "numeric", "material"}
  /\ \A t \in DOMAIN Tolerances : Tolerances[t] \in Nat \X (Nat \ {0})
  /\ Wider(Tolerances.numeric, Tolerances.strict)
  /\ Wider(Tolerances.material, Tolerances.numeric)

ASSUME ScalesAssumption == ShareScale \in Nat \ {0} /\ PercentScale \in Nat \ {0}

VARIABLE report     \* the request, and the report

MsaKernel == "cpu-msa"
NoReport == [written |-> FALSE]
Outcomes == {"qpu", "tie", "cpu"}
Only(x) == CHOOSE v \in x : TRUE

-----------------------------------------------------------------------------
(* Attempts.  Records of one job are in the order of their attempts.       *)

\* Faulty variant of QualityAttempt: a retry hides what was there.
LatestAttempt(ok) == Len(ok)

\* The latest attempt that succeeded, or the latest one if none did.
QualityAttempt(ok) ==
  LET good == {i \in DOMAIN ok : ok[i]} IN IF good = {} THEN Len(ok) ELSE Max(good)

TimedAttempts(as) == {i \in DOMAIN as : as[i].ok /\ as[i].wall # {}}

\* Of equally fast ones, the one the directory lists first.
FastestAttempt(as) ==
  CHOOSE i \in TimedAttempts(as) :
    \A k \in TimedAttempts(as) : Only(as[i].wall) <= Only(as[k].wall)

\* Everything that belongs to the time is replaced together.
Row(job) ==
  LET as == job.attempts
      quality == as[QualityAttempt([i \in DOMAIN as |-> as[i].ok])]
      timing == IF TimedAttempts(as) = {} THEN quality ELSE as[FastestAttempt(as)]
  IN  [model |-> job.model, kernel |-> job.kernel, route |-> job.kernel, sweeps |-> job.sweeps,
       ok |-> quality.ok, unsupported |-> quality.unsupported, best |-> quality.best,
       wall |-> timing.wall, sampling |-> timing.sampling,
       parallel |-> timing.parallel, contaminated |-> timing.contaminated]

Usable(r) == r.ok /\ ~r.unsupported
Comparable(r) == Usable(r) /\ r.best # {}

\* The rows of a kernel at a depth.
Arm(rows, kernel, sweeps) ==
  {i \in DOMAIN rows : rows[i].kernel = kernel /\ rows[i].sweeps = sweeps}

-----------------------------------------------------------------------------
(* The routed kernel, which takes the unit kernel where that is eligible.  *)

LastOf(rows, kernel, like) ==
  Max({0} \cup {i \in Arm(rows, kernel, like.sweeps) : rows[i].model = like.model})

\* Faulty variant of RouteOf: whether the unit kernel did run is not asked.
RouteToUnit(rows, like) ==
  LET unit == LastOf(rows, UnitKernel, like) IN
  IF unit # 0 THEN unit ELSE LastOf(rows, FloatKernel, like)

RouteOf(rows, like) ==
  LET unit == LastOf(rows, UnitKernel, like) IN
  IF unit # 0 /\ Usable(rows[unit]) THEN unit ELSE LastOf(rows, FloatKernel, like)

\* One for every model and depth that either kernel was run at.
Sources(rows) ==
  {RouteOf(rows, rows[i]) : i \in {k \in DOMAIN rows : rows[k].kernel \in {UnitKernel, FloatKernel}}}
    \ {0}

Routed(rows) ==
  LET sources == SetToSeq(Sources(rows)) IN
  [i \in DOMAIN sources |-> [rows[sources[i]] EXCEPT !.kernel = MsaKernel]]

MeasuredRows(jobs) == [i \in DOMAIN jobs |-> Row(jobs[i])]
Load(jobs) == MeasuredRows(jobs) \o Routed(MeasuredRows(jobs))

-----------------------------------------------------------------------------
(* Which run a table is made from.                                         *)

Rows(q) == Load(q.jobs)
CapturedRows(q) == IF q.hasCaptured THEN Load(q.captured) ELSE <<>>
TimingRows(q) == IF q.run = "campaign" THEN Load(q.subset) ELSE Rows(q)

IsNeal(r) == r.kernel = NealKernel
QpuRows(q) ==
  IF q.hasCaptured
  THEN SelectSeq(Rows(q), LAMBDA r : ~IsNeal(r)) \o SelectSeq(CapturedRows(q), IsNeal)
  ELSE Rows(q)

MatchedRows(q) == IF q.hasCaptured THEN CapturedRows(q) ELSE Rows(q)

ReportKernels(q) ==
  ControlledKernels \cup {MsaKernel} \cup (IF q.hasCaptured THEN {NealKernel} ELSE {})

ReportDepths(q) == IF q.run = "pilot" THEN PilotDepths ELSE Depths

-----------------------------------------------------------------------------
(* Outcomes.                                                               *)

Size(x) == IF x < 0 THEN -x ELSE x

QualityOutcome(qpu, cpu, tolerance) ==
  IF Size(qpu - cpu) * tolerance[2] <= tolerance[1] * Max({Size(qpu), Size(cpu)}) THEN "tie"
  ELSE IF qpu < cpu THEN "qpu" ELSE "cpu"

QualityColumns(qpu, cpu) ==
  [t \in DOMAIN Tolerances |-> QualityOutcome(qpu, cpu, Tolerances[t])]

\* What an outcome is given for is a function of models.
Tally(outcomes) ==
  [o \in Outcomes |-> Cardinality({m \in DOMAIN outcomes : outcomes[m] = o})]

\* The energies of an arm by model; of repetitions the last one counts.
BestBy(rows, kernel, sweeps) ==
  LET arm == {i \in Arm(rows, kernel, sweeps) : Comparable(rows[i])} IN
  [m \in {rows[i].model : i \in arm} |-> Only(rows[Max({i \in arm : rows[i].model = m})].best)]

\* cpu_kernel_gap_table
KernelGaps(q, kernel, sweeps) ==
  LET base == BestBy(Rows(q), "cpu-sa", sweeps)
      other == BestBy(Rows(q), kernel, sweeps) IN
  Tally([m \in DOMAIN base \cap DOMAIN other |-> QualityOutcome(other[m], base[m], Tolerances.strict)])

\* qpu_outcome_table and paired_gaps_table: an interval takes two groups, and
\* only describes the sample when there are few.
OutcomeRow(q, kernel, sweeps) ==
  LET cpu == BestBy(QpuRows(q), kernel, sweeps)
      shared == DOMAIN cpu \cap DOMAIN q.captures
      columns == [m \in shared |-> QualityColumns(q.captures[m].energy, cpu[m])] IN
  [compared |-> shared,
   tallies |-> [t \in DOMAIN Tolerances |-> Tally([m \in shared |-> columns[m][t]])],
   interval |-> Cardinality(shared) >= 2,
   descriptive |-> Cardinality(shared) < MinGroups]

-----------------------------------------------------------------------------
(* Equal time (matched_runtime_comparison).                                *)

\* The measured depths of a model.
Points(rows, kernel, model) ==
  {[sweeps |-> rows[i].sweeps, time |-> Only(rows[i].sampling), energy |-> Only(rows[i].best)] :
     i \in {k \in DOMAIN rows : /\ rows[k].kernel = kernel /\ rows[k].model = model
                                /\ Comparable(rows[k]) /\ rows[k].sampling # {}}}

Shallowest(points) == CHOOSE p \in points : \A o \in points : p.sweeps <= o.sweeps
Deepest(points) == CHOOSE p \in points : \A o \in points : p.sweeps >= o.sweeps

\* The budget is the access time of the capture.
Affordable(points, c) == {p \in points : p.time <= c.access}
OverBudget(points, c) == Shallowest(points).time > c.access
Reaching(points, c) ==
  {p \in points : QualityOutcome(c.energy, p.energy, Tolerances.numeric) # "qpu"}

MatchedRow(q, kernel) ==
  LET points == [m \in DOMAIN q.captures |-> Points(MatchedRows(q), kernel, m)]
      models == {m \in DOMAIN q.captures : points[m] # {}}
      priced == {m \in models : q.captures[m].access > 0}
      equal == {m \in priced : ~OverBudget(points[m], q.captures[m])}
      reached == {m \in priced : Reaching(points[m], q.captures[m]) # {}}
      columns == [m \in equal |->
                    QualityColumns(q.captures[m].energy,
                                   Deepest(Affordable(points[m], q.captures[m])).energy)] IN
  [models |-> models, over |-> priced \ equal, columns |-> columns,
   tallies |-> [t \in DOMAIN Tolerances |-> Tally([m \in equal |-> columns[m][t]])],
   times |-> [m \in reached |-> Min({p.time : p \in Reaching(points[m], q.captures[m])})],
   notReached |-> Cardinality(models) - Cardinality(reached)]

-----------------------------------------------------------------------------
(* The summary of an arm (summarize_arm, depth_quality_time_table).        *)

Label(r) == IF r.parallel THEN "parallel" ELSE IF r.contaminated THEN "contaminated" ELSE "clean"

ArmSummary(q, kernel, sweeps) ==
  LET rows == Rows(q)
      arm == Arm(rows, kernel, sweeps)
      completed == {i \in arm : Comparable(rows[i])}
      timing == TimingRows(q)
      timed == {i \in Arm(timing, kernel, sweeps) : Usable(timing[i]) /\ timing[i].wall # {}}
  IN
  [observed |-> Cardinality(arm),
   missing |-> Max({0, ExpectedPerArm(q.run) - Cardinality(arm)}),
   completed |-> Cardinality(completed),
   unsupported |-> Cardinality({i \in arm : rows[i].unsupported}),
   failed |-> Cardinality({i \in arm : ~rows[i].unsupported /\ ~rows[i].ok}),
   nonfinite |-> Cardinality({i \in arm : Usable(rows[i]) /\ rows[i].best = {}}),
   energies |-> [i \in completed |-> Only(rows[i].best)],
   walls |-> [i \in timed |-> Only(timing[i].wall)],
   labels |-> [l \in {"parallel", "contaminated", "clean"} |->
                 Cardinality({i \in completed : rows[i].wall # {} /\ Label(rows[i]) = l})]]

\* seed_lane_table
SeedRow(rows) ==
  LET compared == {i \in DOMAIN rows : rows[i].ok /\ rows[i].seeded # {} /\ rows[i].cold # {}} IN
  [excluded |-> Cardinality(DOMAIN rows \ compared),
   tallies |-> [t \in DOMAIN Tolerances |->
                 Tally([i \in compared |->
                   QualityOutcome(Only(rows[i].seeded), Only(rows[i].cold), Tolerances[t])])]]

Tables(q) ==
  [arms |-> [k \in ReportKernels(q) |-> [s \in ReportDepths(q) |-> ArmSummary(q, k, s)]],
   gaps |-> [k \in ReportKernels(q) \ {"cpu-sa"} |-> [s \in ReportDepths(q) |-> KernelGaps(q, k, s)]],
   outcomes |-> [k \in ReportKernels(q) |-> [s \in ReportDepths(q) |-> OutcomeRow(q, k, s)]],
   matched |-> [k \in ReportKernels(q) |-> MatchedRow(q, k)],
   seeds |-> SeedRow(q.seeded)]

-----------------------------------------------------------------------------
(* Shares and lanes.                                                       *)

\* Rounded to the nearest, ties to even.
RoundedShare(count, total, scale) ==
  LET low == (count * scale) \div total
      rest == 2 * ((count * scale) % total) IN
  IF rest > total \/ (rest = total /\ low % 2 = 1) THEN low + 1 ELSE low

\* reconstructed_feasible_range: a share stands for what rounds to it.
FeasibleRange(share, total) ==
  [low |-> Max({0, -((-(2 * share - 1) * total) \div (2 * ShareScale))}),
   high |-> Min({total, ((2 * share + 1) * total) \div (2 * ShareScale)})]

\* format_feasibility: less than all is never printed as all.
ShownPercent(count, total) ==
  LET p == RoundedShare(100 * count, total, PercentScale) IN
  [percent |-> p, below |-> count < total /\ p = 100 * PercentScale]

\* lane_diversity, of one batch of reads.
Distance(a, b) == Cardinality({v \in DOMAIN a : a[v] # b[v]})
Distances(batch) ==
  {Distance(batch[p[1]], batch[p[2]]) : p \in {x \in (DOMAIN batch) \X (DOMAIN batch) : x[1] < x[2]}}

Diversity(batch) ==
  [unique |-> Cardinality(Range(batch)),
   minimum |-> IF Len(batch) < 2 THEN {} ELSE {Min(Distances(batch))}]

\* The reads of a seeded sweep are two batches.
LaneGroups(q) == <<SubSeq(q.reads, 1, q.seedLanes), SubSeq(q.reads, q.seedLanes + 1, Len(q.reads))>>

-----------------------------------------------------------------------------
MadeOf(q) ==
  CASE q.about = "tables" -> Tables(q)
    [] q.about = "share" ->
         [range |-> FeasibleRange(RoundedShare(q.count, q.total, ShareScale), q.total),
          shown |-> ShownPercent(q.count, q.total)]
    [] q.about = "lanes" -> [g \in 1 .. 2 |-> Diversity(LaneGroups(q)[g])]

ReportInit == \E q \in ReportRequests : report = [written |-> FALSE, request |-> q]
ReportClosed == report = NoReport

WriteReport ==
  /\ report # NoReport
  /\ ~report.written
  /\ report' = [written |-> TRUE, request |-> report.request, made |-> MadeOf(report.request)]

ReportSpec == ReportInit /\ [][WriteReport]_report

-----------------------------------------------------------------------------
(* What a report is made from.  A campaign and its captured run measure a  *)
(* model once per kernel and depth, and no run measures the routed kernel. *)

IsMaybe(x) == x = {} \/ \E v \in x : v \in Int /\ x = {v}

IsAttempt(a) ==
  /\ {a.ok, a.unsupported, a.parallel, a.contaminated} \subseteq BOOLEAN
  /\ IsMaybe(a.best) /\ IsMaybe(a.wall) /\ IsMaybe(a.sampling)

WasTried(job) ==
  /\ job.kernel # MsaKernel /\ job.sweeps \in Int
  /\ job.attempts \in Seq(Range(job.attempts)) \ {<<>>}
  /\ \A a \in Range(job.attempts) : IsAttempt(a)

AreJobs(jobs) == jobs \in Seq(Range(jobs)) /\ \A job \in Range(jobs) : WasTried(job)

AreOfDifferentArms(jobs) ==
  \A i, k \in DOMAIN jobs :
    (jobs[i].model = jobs[k].model /\ jobs[i].kernel = jobs[k].kernel /\ jobs[i].sweeps = jobs[k].sweeps)
      => i = k

AreCaptures(captures) ==
  /\ IsFiniteSet(DOMAIN captures)
  /\ \A m \in DOMAIN captures : captures[m].energy \in Int /\ captures[m].access \in Int

ASSUME ReportRequestsAssumption ==
  \A q \in ReportRequests :
    \/ /\ q.about = "tables"
       /\ AreJobs(q.jobs) /\ AreJobs(q.subset) /\ AreJobs(q.captured)
       /\ q.run # "pilot" => AreOfDifferentArms(q.jobs)
       /\ AreCaptures(q.captures)
    \/ q.about = "share" /\ q.total \in Nat \ {0} /\ q.count \in 0 .. q.total
    \/ /\ q.about = "lanes"
       /\ q.reads \in Seq(Range(q.reads)) /\ q.seedLanes \in 0 .. Len(q.reads)
       /\ \A a, b \in Range(q.reads) : IsFiniteSet(DOMAIN a) /\ a \in [DOMAIN b -> Range(a)]

-----------------------------------------------------------------------------
\* A job that succeeded once is shown as a success; its time, and where that
\* was measured, are of one attempt, the fastest that succeeded.
RowIsOfItsJob(job) ==
  LET r == Row(job)
      good == {a \in Range(job.attempts) : a.ok} IN
  good # {} =>
    /\ \E a \in good : r.best = a.best /\ r.unsupported = a.unsupported
    /\ \E a \in good :
         /\ r.wall = a.wall /\ r.sampling = a.sampling
         /\ r.parallel = a.parallel /\ r.contaminated = a.contaminated
         /\ \A b \in good : b.wall # {} => a.wall # {} /\ Only(a.wall) <= Only(b.wall)

\* Where the unit kernel ran, the routed kernel has its energy, or none if that
\* was not finite; elsewhere it has the energy of the other kernel.
EnergiesOfEither(rows, s) ==
  LET unit == BestBy(rows, UnitKernel, s)
      float == BestBy(rows, FloatKernel, s)
      ran == {rows[i].model : i \in {k \in Arm(rows, UnitKernel, s) : Usable(rows[k])}} IN
  [m \in DOMAIN unit \cup (DOMAIN float \ ran) |-> IF m \in ran THEN unit[m] ELSE float[m]]

RoutedIsEither(q, s) ==
  q.run # "pilot" => BestBy(Rows(q), MsaKernel, s) = EnergiesOfEither(Rows(q), s)

\* Every row is in one bucket.
ArmAddsUp(arm) == arm.observed = arm.completed + arm.unsupported + arm.failed + arm.nonfinite

\* Every capture with a price is compared or over the budget, and what does not
\* lose within the budget did reach the energy of the capture within it.
MatchedAddsUp(q, row) ==
  LET Total(t) == row.tallies[t].qpu + row.tallies[t].tie + row.tallies[t].cpu IN
  /\ \A t \in DOMAIN Tolerances :
       Total(t) + Cardinality(row.over) = Cardinality({m \in row.models : q.captures[m].access > 0})
  /\ \A m \in DOMAIN row.columns :
       row.columns[m].numeric # "qpu" => m \in DOMAIN row.times /\ row.times[m] <= q.captures[m].access
  /\ row.notReached = Cardinality(row.models \ DOMAIN row.times)

\* A wider tolerance only turns outcomes into ties.
ColumnsWiden(c) ==
  /\ c.numeric \in {c.strict, "tie"}
  /\ c.material \in {c.numeric, "tie"}

\* What the report made of a request says of what the runs measured.
Agrees(q, made) ==
  CASE q.about = "tables" ->
         /\ \A i \in DOMAIN q.jobs : RowIsOfItsJob(q.jobs[i])
         /\ \A s \in ReportDepths(q) : RoutedIsEither(q, s)
         /\ \A k \in DOMAIN made.arms : \A s \in DOMAIN made.arms[k] : ArmAddsUp(made.arms[k][s])
         /\ \A k \in DOMAIN made.matched :
              /\ MatchedAddsUp(q, made.matched[k])
              /\ \A m \in DOMAIN made.matched[k].columns : ColumnsWiden(made.matched[k].columns[m])
    [] q.about = "share" ->
         /\ q.count \in made.range.low .. made.range.high
         /\ (made.shown.percent = 100 * PercentScale /\ ~made.shown.below) <=> q.count = q.total
    [] q.about = "lanes" ->
         \A g \in DOMAIN made : made[g].minimum = {0} <=> made[g].unique < Len(LaneGroups(q)[g])

\* The report says what the runs measured (round2_report.py 72-357, 471-603;
\* round2_metrics.py 36-237):
\* - a job's row joins an outcome and a timing of that job, and the routed arm
\*   has at each depth the energies of the unit kernel where that ran, and those
\*   of the other kernel elsewhere;
\* - the counts of an arm and of a comparison at matched runtime add up to the
\*   models they are of, and a wider tolerance only turns outcomes into ties;
\* - a share that is rounded covers the count it was rounded from, and "100" is
\*   shown of all only;
\* - lanes are at distance zero exactly where two of them are equal.
ReportAgrees ==
  (report # NoReport /\ report.written) => Agrees(report.request, report.made)

\* Attempts a campaign makes, seen by the report: a job that once succeeded is
\* shown as a success after any retry, interruption or resume, while no parent
\* was killed and no serial run gets a second signal, so that an orphan cannot
\* replace its record (round2_report.py 72-126, round2_cpu.py 122-152).
ShownAsSuccess(attempts) ==
  /\ attempts # <<>>
  /\ attempts[QualityAttempt([i \in DOMAIN attempts |-> attempts[i].kind \in ExitOk])].kind \in ExitOk
RetryHidesNothing ==
  [][Undisturbed' =>
      \A j \in Jobs : ShownAsSuccess(records[j]) => ShownAsSuccess(records'[j])]_vars
=============================================================================
