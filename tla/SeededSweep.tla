----------------------------- MODULE SeededSweep -----------------------------
(***************************************************************************)
(* The seeded sweep (cmd_seeded_sweep of research/round2/round2_cpu.py and *)
(* execute_seeded_sweep_job of round2_runner.py): one process runs every   *)
(* model from the best reads of a seed source and, separately, cold, and   *)
(* keeps one record and one file of samples per model and source.  It may  *)
(* be killed between any two steps, and started again with another build   *)
(* of the solver on the same directory.                                    *)
(***************************************************************************)
EXTENDS CampaignPlan

CONSTANTS
  SweepJobs,        \* the jobs, in order: model, seed source and the reads of the source
  SeedLanes,        \* SEED_LANES
  SweepStarts,      \* how often the sweep is started
  SweepBuilds       \* the builds of the solver

ASSUME SeedLanesAssumption == SeedLanes \in Nat

ASSUME SweepJobsAssumption ==
  /\ SweepJobs \in Seq(Range(SweepJobs))
  /\ \A i \in DOMAIN SweepJobs :
       /\ SweepJobs[i].reads \in Seq(Range(SweepJobs[i].reads))
       /\ \A k \in DOMAIN SweepJobs[i].reads : SweepJobs[i].reads[k].energy \in Int

VARIABLES
  sweep,            \* the process: where it is, its build, its job, its result
  sweepRecords,     \* disk: the record of every job
  sweepSamples      \* disk: the samples of every job

sweepVars == <<sweep, sweepRecords, sweepSamples>>

Nothing == [ok |-> FALSE, key |-> <<>>, execution |-> 0]
Order == DOMAIN SweepJobs

-----------------------------------------------------------------------------
(* The seed lanes.  A read has a state, the energy that was saved with it  *)
(* and the energy of the model of the bundle.                              *)

\* qpu_seed_lanes, cpu_lite_seed_lanes: the reads that a stable sort by energy
\* puts first.
SeededLanes(reads) ==
  LET Before(a, b) == \/ reads[a].energy < reads[b].energy
                      \/ reads[a].energy = reads[b].energy /\ a < b
  IN  {a \in DOMAIN reads : Cardinality({b \in DOMAIN reads : Before(b, a)}) < SeedLanes}

\* Saved reads that do not rescore are of another model, or in another order.
Rescores(job) == job.source = "qpu" => \A i \in DOMAIN job.reads : job.reads[i].saved = job.reads[i].energy

SweepKey(job, build) == <<job.model, job.source, SolverIdentity(build)>>

\* The record of a job that ran: both runs share the range of temperatures, but
\* only the seeded one starts in its middle.
SweepRecord(job, build, execution) ==
  LET states == {job.reads[i].state : i \in SeededLanes(job.reads)} IN
  [ok |-> TRUE, key |-> SweepKey(job, build), execution |-> execution,
   seeds |-> states, duplicates |-> SeedLanes - Cardinality(states),
   seeded |-> [start |-> "middle",
               seed |-> SeedFor(job.model, FloatKernel, "deep", SeedLanes, <<job.source, "seeded">>)],
   cold |-> [start |-> "hot",
             seed |-> SeedFor(job.model, FloatKernel, "deep", SeedLanes, <<"cold">>)]]

FailedSweep(job, build, execution) ==
  [ok |-> FALSE, key |-> SweepKey(job, build), execution |-> execution]

-----------------------------------------------------------------------------
Off == [at |-> "off", starts |-> 0, executions |-> 0, job |-> 1, build |-> {}, result |-> Nothing]
SweepClosed ==
  /\ sweep = [Off EXCEPT !.at = "closed"]
  /\ sweepRecords = [i \in Order |-> Nothing]
  /\ sweepSamples = [i \in Order |-> Nothing]

SweepInit ==
  /\ sweep = Off
  /\ sweepRecords = [i \in Order |-> Nothing]
  /\ sweepSamples = [i \in Order |-> Nothing]

Current == SweepJobs[sweep.job]
Recorded == sweepRecords[sweep.job]
Has(x) == x # Nothing

StartSweep ==
  /\ sweep.at \in {"off", "refused", "finished"}
  /\ sweep.starts < SweepStarts
  /\ \E build \in SweepBuilds :
       sweep' = [sweep EXCEPT !.at = "job", !.starts = @ + 1, !.job = 1, !.build = build]
  /\ UNCHANGED <<sweepRecords, sweepSamples>>

OfThisBuild == Has(Recorded) => Recorded.key = SweepKey(Current, sweep.build)

\* Only a job that succeeded and whose samples are there is done.
IsDone == Recorded.ok /\ Has(sweepSamples[sweep.job])

RefuseBuild ==
  /\ sweep.at = "job" /\ sweep.job \in Order
  /\ ~OfThisBuild
  /\ sweep' = [sweep EXCEPT !.at = "refused"]
  /\ UNCHANGED <<sweepRecords, sweepSamples>>

SkipDone ==
  /\ sweep.at = "job" /\ sweep.job \in Order
  /\ OfThisBuild
  /\ IsDone
  /\ sweep' = [sweep EXCEPT !.job = @ + 1]
  /\ UNCHANGED <<sweepRecords, sweepSamples>>

\* The job runs, or fails in one of many ways.
RunJob ==
  /\ sweep.at = "job" /\ sweep.job \in Order
  /\ OfThisBuild
  /\ ~IsDone
  /\ LET e == sweep.executions + 1 IN
     \/ /\ Rescores(Current)
        /\ sweep' = [sweep EXCEPT !.at = "samples", !.executions = e,
                                  !.result = SweepRecord(Current, sweep.build, e)]
     \/ sweep' = [sweep EXCEPT !.at = "record", !.executions = e,
                               !.result = FailedSweep(Current, sweep.build, e)]
  /\ UNCHANGED <<sweepRecords, sweepSamples>>

\* Faulty variant of SaveSamples: the record is written before them.
SaveRecordFirst ==
  /\ sweep.at = "samples"
  /\ sweepRecords' = [sweepRecords EXCEPT ![sweep.job] = sweep.result]
  /\ sweep' = [sweep EXCEPT !.at = "record"]
  /\ UNCHANGED sweepSamples

SaveSamples ==
  /\ sweep.at = "samples"
  /\ sweepSamples' = [sweepSamples EXCEPT ![sweep.job] = sweep.result]
  /\ sweep' = [sweep EXCEPT !.at = "record"]
  /\ UNCHANGED sweepRecords

SaveRecord ==
  /\ sweep.at = "record"
  /\ sweepRecords' = [sweepRecords EXCEPT ![sweep.job] = sweep.result]
  /\ sweep' = [sweep EXCEPT !.at = "job", !.job = @ + 1, !.result = Nothing]
  /\ UNCHANGED sweepSamples

EndSweep ==
  /\ sweep.at = "job" /\ sweep.job \notin Order
  /\ sweep' = [sweep EXCEPT !.at = "finished"]
  /\ UNCHANGED <<sweepRecords, sweepSamples>>

KillSweep ==
  /\ sweep.at \in {"job", "samples", "record"}
  /\ sweep' = [sweep EXCEPT !.at = "off", !.result = Nothing]
  /\ UNCHANGED <<sweepRecords, sweepSamples>>

SweepNext ==
  \/ StartSweep \/ RefuseBuild \/ SkipDone \/ RunJob
  \/ SaveSamples \/ SaveRecord \/ EndSweep \/ KillSweep

SweepSpec == SweepInit /\ [][SweepNext]_sweepVars

-----------------------------------------------------------------------------
\* However often the sweep is killed and started again (round2_cpu.py 640-710):
\* - a record of success stands beside the samples of its own execution;
\* - it names the best reads of the source as seeds, counts those that are
\*   there twice, and its two runs differ in seed and start;
\* - when the sweep finishes, every record is of the build it ran with.
RecordOwnsItsSamples ==
  /\ \A i \in Order :
       LET r == sweepRecords[i]
           reads == SweepJobs[i].reads IN
       r.ok =>
         /\ sweepSamples[i] = r
         /\ \A k \in DOMAIN reads : reads[k].state \notin r.seeds =>
              Cardinality({m \in DOMAIN reads : reads[m].energy <= reads[k].energy}) > SeedLanes
         /\ r.duplicates + Cardinality(r.seeds) = SeedLanes
         /\ r.seeded.seed # r.cold.seed
  /\ sweep.at = "finished" =>
       \A i \in Order : Has(sweepRecords[i]) /\ sweepRecords[i].key = SweepKey(SweepJobs[i], sweep.build)
=============================================================================
