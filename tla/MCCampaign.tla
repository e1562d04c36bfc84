----------------------------- MODULE MCCampaign -----------------------------
(***************************************************************************)
(* Instances of the campaign for TLC.  A behaviour is a campaign with its  *)
(* processes (CampaignRunner), or, when its scenario is Closed, one of the *)
(* parts that a campaign is made of at their desks: the plan, a measured   *)
(* job, the seeded sweep, the report.                                      *)
(***************************************************************************)
EXTENDS CampaignRunner, MeasuredJob, SeededSweep, CampaignReport

CONSTANTS j1, j2

desks == <<plan, measured, sweepVars, report>>
allVars == <<vars, desks>>

Scenario(n, s, k, paths, done) ==
  [runs |-> n, signals |-> s, kills |-> k, paths |-> paths, done |-> done]
Closed == Scenario(0, 0, 0, {Parallel}, {})

\* One parallel run of two jobs with a signal, and a serial one with two.  Then
\* one job that is started again by parents that may be killed: three serial
\* runs, two serial runs with a signal each, two runs on either path.
MCBudgets == {
  Closed,
  Scenario(1, 1, 0, {Parallel}, {}),
  Scenario(1, 2, 0, {Serial}, {}),
  Scenario(3, 0, 2, {Serial}, {j2}),
  Scenario(2, 1, 1, {Serial}, {j2}),
  Scenario(2, 0, 1, {Parallel, Serial}, {j2})}

MCOrphan == {Scenario(2, 0, 1, {Parallel}, {j2})}
MCTwoSignals == {Scenario(1, 2, 0, {Parallel}, {j2})}

MCInit ==
  /\ Init
  /\ \/ budget = Closed /\ PlanInit /\ JobClosed /\ SweepClosed /\ ReportClosed
     \/ budget = Closed /\ PlanClosed /\ JobInit /\ SweepClosed /\ ReportClosed
     \/ budget = Closed /\ PlanClosed /\ JobClosed /\ SweepInit /\ ReportClosed
     \/ budget = Closed /\ PlanClosed /\ JobClosed /\ SweepClosed /\ ReportInit
     \/ budget # Closed /\ PlanClosed /\ JobClosed /\ SweepClosed /\ ReportClosed

MCNext ==
  \/ Next /\ UNCHANGED desks
  \/ MakePlan /\ UNCHANGED <<vars, measured, sweepVars, report>>
  \/ Measure /\ UNCHANGED <<vars, plan, sweepVars, report>>
  \/ SweepNext /\ UNCHANGED <<vars, plan, measured, report>>
  \/ WriteReport /\ UNCHANGED <<vars, plan, measured, sweepVars>>

\* The fairness of CampaignRunner; nothing is assumed of the desks.
MCSpec ==
  /\ MCInit /\ [][MCNext]_allVars
  /\ \A w \in Workers : WF_allVars(WorkerStep(w) /\ UNCHANGED desks)
  /\ WF_allVars(MainStep /\ UNCHANGED desks)

-----------------------------------------------------------------------------
\* Machines whose siblings are far apart, side by side, and unknown.
MCTopologies == {
  [c \in 0 .. 3 |-> {<<c % 2, c % 2>>, <<(c % 2) + 2, (c % 2) + 2>>}],
  [c \in 0 .. 5 |-> {<<2 * (c \div 2), 2 * (c \div 2) + 1>>}],
  [c \in {} |-> {}]}

IndexRow(cell, k, hash) == [cell |-> cell, nonce |-> k, hash |-> <<hash, k>>]
MCPlanRequests ==
  {[about |-> "cpus", topology |-> t, allowed |-> a, n |-> n, byName |-> b, named |-> m, avoidCpu0 |-> v] :
     t \in MCTopologies, a \in {0 .. 3, 1 .. 3, 2 .. 3}, n \in 0 .. 2, b \in BOOLEAN,
     m \in {<<>>, <<2>>, <<0, 1>>, <<3, 1>>, <<2, 3>>}, v \in BOOLEAN}
  \cup {[about |-> "lists", index |-> i, cells |-> {"a", "b"}, captures |-> c] :
     i \in {{IndexRow("a", k, "a") : k \in 1 .. m} \cup {IndexRow("b", 1, "b")} : m \in 0 .. 3},
     c \in SUBSET {IndexRow("a", 1, "a"), IndexRow("a", 1, "x"), IndexRow("b", 1, "b")}}

-----------------------------------------------------------------------------
Model(fields, edges, j) == [h |-> fields, edges |-> edges, j |-> j]
MCTriples == {Model([v \in 0 .. 2 |-> 0], <<<<0, 1>>, <<1, 2>>, <<0, 1>>>>, j) :
                j \in [1 .. 3 -> {-4, -2, 0, 2, 4}]}
MCPairs == {Model([v \in 0 .. 1 |-> f], <<<<0, 1>>, <<1, 0>>>>, j) :
              f \in {0, 3, 4, -8}, j \in [1 .. 2 -> {-4, 1, 4, 8}]}

Load1(load, sibling) == [load |-> load, sibling |-> sibling]
Fair == [before |-> Load1(3, <<1, 10>>), after |-> Load1(9, <<1, 20>>), pinned |-> TRUE, workers |-> 2]
Ask(m, cubic, kernel) ==
  [model |-> m, cubic |-> cubic, kernel |-> kernel, exported |-> "same", answer |-> "honest",
   beta |-> <<2, 8>>,
   reads |-> {[v \in DOMAIN m.h |-> 1], [v \in DOMAIN m.h |-> IF v = 0 THEN -1 ELSE 1]}] @@ Fair

\* Every model on a quiet host; one model with every answer and every host.
MCJobRequests ==
  {Ask(m, c, k) : m \in MCTriples, c \in BOOLEAN, k \in {"cpu-sa", UnitKernel, NealKernel}}
  \cup {Ask(m, FALSE, k) : m \in MCPairs, k \in {"cpu-sa", UnitKernel, NealKernel}}
  \cup {[Ask(CHOOSE m \in MCTriples : m.j = <<-2, 4, 0>>, TRUE, k) EXCEPT
           !.exported = x, !.answer = a, !.pinned = p, !.workers = w,
           !.before = Load1(l1, s1), !.after = Load1(l2, s2)] :
          k \in {UnitKernel, "cpu-sa"}, x \in {"none", "same", "other"},
          a \in {"honest", "wrong", "nonfinite", "substituted", "refused"},
          l1 \in {3, 10}, l2 \in {5, 12}, s1 \in {<<>>, <<1, 10>>}, s2 \in {<<1, 10>>, <<4, 20>>},
          p \in BOOLEAN, w \in {1, 4}}

-----------------------------------------------------------------------------
Read(state, energy, saved) == [state |-> state, energy |-> energy, saved |-> saved]

\* Reads that are there twice, reads of another model, and a source of our own.
MCSweepJobs == <<
  [model |-> "m", source |-> "qpu",
   reads |-> <<Read("a", 2, 2), Read("b", 1, 1), Read("c", 2, 2), Read("b", 1, 1)>>],
  [model |-> "n", source |-> "qpu", reads |-> <<Read("a", 2, 2), Read("b", 1, 3)>>],
  [model |-> "m", source |-> "cpu-lite", reads |-> <<Read("a", 3, 0), Read("b", 1, 0), Read("c", 2, 0)>>]>>

-----------------------------------------------------------------------------
Good(energy, time, parallel) ==
  [ok |-> TRUE, unsupported |-> FALSE, best |-> energy, wall |-> time, sampling |-> time,
   parallel |-> parallel, contaminated |-> parallel]
Crash == [Good({}, {1}, FALSE) EXCEPT !.ok = FALSE]
Refusal == [Good({}, {2}, FALSE) EXCEPT !.unsupported = TRUE, !.sampling = {}]

MCAttempts == {
  Crash, Good({-200}, {5}, FALSE), Good({-201}, {3}, FALSE), Good({-220}, {4}, TRUE),
  Good({-220}, {}, TRUE), Good({}, {2}, FALSE)}

Tried(model, kernel, sweeps, attempts) ==
  [model |-> model, kernel |-> kernel, sweeps |-> sweeps, attempts |-> attempts]
Captured(models, energy, access) == [m \in models |-> [energy |-> energy, access |-> access]]
TablesOf(name, jobs, captures) ==
  [about |-> "tables", run |-> name, jobs |-> jobs, subset |-> <<>>, hasCaptured |-> FALSE,
   captured |-> <<>>, captures |-> captures, seeded |-> <<>>]

\* Up to three attempts of a job.
MCRetries ==
  {TablesOf("campaign", <<Tried("m", "cpu-sa", 1, as)>>, Captured({}, 0, 0)) :
     as \in UNION {[1 .. n -> MCAttempts] : n \in 1 .. 3}}

\* Two models on the two kernels that the routed one is made of.
MCRoutes ==
  {[TablesOf("campaign",
      <<Tried("m", UnitKernel, 1, <<a>>), Tried("m", FloatKernel, 1, <<b>>),
        Tried("n", FloatKernel, 1, <<c>>), Tried("n", UnitKernel, 1, <<d>>)>>,
      Captured({"m", "n"}, -201, 3)) EXCEPT !.subset = <<Tried("m", UnitKernel, 1, <<c>>)>>] :
     a \in {Crash, Good({-200}, {5}, FALSE), Good({}, {2}, FALSE), Refusal},
     b \in {Crash, Good({-201}, {3}, FALSE)}, c \in {Crash, Good({-201}, {4}, FALSE)},
     d \in {Crash, Good({-220}, {2}, TRUE), Refusal}}

\* Two depths against a capture.
MCDepths ==
  {TablesOf("campaign",
     <<Tried("m", "cpu-sa", 1, <<Good({e1}, {t1}, FALSE)>>),
       Tried("m", "cpu-sa", 2, <<Good({e2}, {t2}, FALSE)>>)>>, Captured({"m"}, e, a)) :
     e1 \in {-200, -201, -220}, e2 \in {-200, -220}, t1 \in {1, 3, 5}, t2 \in {1, 3, 5},
     e \in {-200, -201, -230}, a \in {0, 2, 4}}

\* The captured run beside the campaign, and a seeded sweep.
MCCaptured ==
  {[TablesOf("campaign", <<Tried("m", NealKernel, 1, <<x>>), Tried("m", "cpu-sa", 1, <<y>>)>>,
             Captured({"m"}, -201, 3))
      EXCEPT !.hasCaptured = h, !.seeded = <<[ok |-> h, seeded |-> x.best, cold |-> y.best]>>,
             !.captured = <<Tried("m", NealKernel, 1, <<y>>), Tried("m", "cpu-sa", 1, <<x>>)>>] :
     x, y \in MCAttempts, h \in BOOLEAN}

\* Repetitions of the pilot.
MCPilots ==
  {TablesOf("pilot", [i \in 1 .. 3 |-> Tried("m", UnitKernel, 1, <<as[i]>>)], Captured({"m"}, -201, 3)) :
     as \in [1 .. 3 -> {Crash, Good({-200}, {5}, FALSE), Good({-200}, {3}, TRUE)}]}

MCReportRequests ==
  MCRetries \cup MCRoutes \cup MCDepths \cup MCCaptured \cup MCPilots
  \cup UNION {{[about |-> "share", count |-> c, total |-> t] : c \in 0 .. t} : t \in 1 .. 30}
  \cup {[about |-> "lanes", reads |-> x, seedLanes |-> 2] : x \in [1 .. 4 -> [1 .. 2 -> {0, 1}]]}

MCTolerances == [strict |-> <<0, 1>>, numeric |-> <<1, 200>>, material |-> <<1, 10>>]
=============================================================================
