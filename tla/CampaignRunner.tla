--------------------------- MODULE CampaignRunner ---------------------------
(***************************************************************************)
(* The research campaign (research/round2): a parent process resolves      *)
(* which jobs still need an attempt and runs one child process per job,    *)
(* each up to a hard deadline; children write samples and records to disk. *)
(* With several CPUs worker threads take the jobs from a queue; with one,  *)
(* the main thread runs them in turn (the serial path).  SIGTERM and       *)
(* SIGINT cancel the run; a run that ended, or a parent that was killed,   *)
(* is resumed by starting again on the same directory.                     *)
(*                                                                         *)
(* A step is one access to shared state: the queue, the registry under its *)
(* lock, the event, the disk, or a process.  Every run uses the same hard  *)
(* deadline and the same solver build.                                     *)
(***************************************************************************)
EXTENDS Integers, Sequences, FiniteSets

CONSTANTS
  Jobs,
  Workers,      \* the worker threads of a parallel run, one per core
  Budgets       \* what a behaviour may spend, one record each:
                \*   runs     how often the campaign is started
                \*   signals  how many signals a run gets
                \*   kills    how often the parent is killed outright
                \*   paths    the paths its runs take
                \*   done     the jobs that have a terminal record before

\* A run in progress is on the parallel or on the serial path.
Parallel == "joining"
Serial == "alone"
Running == {Parallel, Serial}

\* What a record says: completed and unsupported ones have exit_ok, and the
\* fallback records are the ones that the parent writes.
Completed == {"clean", "contaminated"}
Unsupported == {"unsupported", "unsupportedContaminated"}
Contaminated == {"contaminated", "unsupportedContaminated"}
ExitOk == Completed \cup Unsupported
Fallback == {"hard_deadline", "no_record_written", "crashed_no_record"}

VARIABLES
  budget,      \* what this behaviour may spend
  records,     \* disk: the record of every attempt of a job
  samples,     \* disk: the <<job, attempt>> whose samples were written
  run,         \* the number of the current run
  main,        \* what the parent's main thread is at
  planned,     \* the attempt of every job this run is to do, NoAttempt if none
  queue,       \* the jobs not handed out yet
  worker,      \* per thread: where it is, its job, and how its wait ended
  child,       \* per run and job: the child process
  registry,    \* the jobs whose children the registry holds
  cancelled,   \* the event
  frames,      \* the signal handlers on the main thread's stack, last on top
  errors,      \* whether a worker ended with an error
  signals,     \* how many signals this run got
  kills        \* how often a parent was killed

disk == <<records, samples>>
parent == <<budget, run, planned, errors, kills>>
cancelling == <<cancelled, frames, signals>>
vars == <<disk, parent, main, queue, worker, child, registry, cancelling>>

Runs == 1 .. budget.runs
Main == "main"
Threads == Workers \cup {Main}

ASSUME WorkersAssumption == Workers # {} /\ Main \notin Workers
ASSUME BudgetsAssumption ==
  Budgets \subseteq
    [runs : Nat, signals : Nat, kills : Nat, paths : SUBSET Running, done : SUBSET Jobs]

NoAttempt == -1
NoJob == "none"
Idle == [at |-> "stopped", job |-> NoJob, timedOut |-> FALSE]
NoChild == [attempt |-> NoAttempt, phase |-> "none", ok |-> FALSE, killed |-> "no"]

-----------------------------------------------------------------------------
(* The disk.                                                               *)

\* The record of an attempt is there; attempts are numbered from 0.
HasRecord(j, a) == a < Len(records[j])
KindOf(j, a) == records[j][a + 1].kind

Terminal(j, a) ==
  LET kind == KindOf(j, a) IN
  \/ kind = "hard_deadline"
  \/ kind \in Unsupported
  \/ kind \in Completed /\ <<j, a>> \in samples

\* An atomic write replaces the record of the attempt if there is one.
WriteRecord(j, a, kind, killed) ==
  LET r == [kind |-> kind, killed |-> killed] IN
  records' = [records EXCEPT ![j] =
    IF HasRecord(j, a) THEN [@ EXCEPT ![a + 1] = r] ELSE Append(@, r)]

-----------------------------------------------------------------------------
(* Starting a run: resolve_run, or the --repeat-contaminated choice.       *)

\* Faulty variant of NextAttempt: the latest attempt is taken again.
SameAttempt(j) == IF records[j] = <<>> THEN 0 ELSE Len(records[j]) - 1

NextAttempt(j) == Len(records[j])

Resolve(j) ==
  IF records[j] # <<>> /\ Terminal(j, Len(records[j]) - 1)
  THEN NoAttempt ELSE NextAttempt(j)

ResolveRepeat(j) ==
  IF records[j] # <<>> /\ KindOf(j, Len(records[j]) - 1) \in Contaminated
  THEN NextAttempt(j) ELSE NoAttempt

Init ==
  /\ budget \in Budgets
  /\ records = [j \in Jobs |->
                 IF j \in budget.done THEN <<[kind |-> "unsupported", killed |-> "no"]>> ELSE <<>>]
  /\ samples = {}
  /\ run = 0
  /\ main = "off"
  /\ planned = [j \in Jobs |-> NoAttempt]
  /\ queue = {}
  /\ worker = [w \in Threads |-> Idle]
  /\ child = [r \in Runs |-> [j \in Jobs |-> NoChild]]
  /\ registry = {}
  /\ cancelled = FALSE
  /\ frames = <<>>
  /\ errors = FALSE
  /\ signals = 0
  /\ kills = 0

\* Everything is resolved up front; on the parallel path the handler is then
\* installed and the threads are started.
StartRun ==
  /\ main \notin Running
  /\ run < budget.runs
  /\ run' = run + 1
  /\ \E repeat \in BOOLEAN :
       planned' = [j \in Jobs |-> IF repeat THEN ResolveRepeat(j) ELSE Resolve(j)]
  /\ queue' = {j \in Jobs : planned'[j] # NoAttempt}
  /\ main' \in budget.paths
  /\ worker' = [w \in Threads |-> IF (w = Main) = (main' = Serial)
                                  THEN [Idle EXCEPT !.at = "loop"] ELSE Idle]
  /\ registry' = {}
  /\ cancelled' = FALSE
  /\ frames' = <<>>
  /\ signals' = 0
  /\ errors' = FALSE
  /\ UNCHANGED <<disk, budget, child, kills>>

-----------------------------------------------------------------------------
(* A worker thread.  The lock of the registry is free unless a handler on  *)
(* the main thread holds it.                                               *)

Locked == \E i \in DOMAIN frames : frames[i].at = "copy"

JobOf(w) == worker[w].job
AttemptOf(w) == planned[JobOf(w)]
ChildOf(w) == child[run][JobOf(w)]
Alive(c) == c.phase \notin {"none", "ended"}

Started(a) == [attempt |-> a, phase |-> "starting", ok |-> FALSE, killed |-> "no"]

GoTo(w, place) == worker' = [worker EXCEPT ![w].at = place]
Stop(w) == worker' = [worker EXCEPT ![w] = Idle]

Killed(c, by) == IF Alive(c) THEN [c EXCEPT !.phase = "ended", !.killed = by] ELSE c

\* The event is looked at and a job is taken from the queue.
TakeJob(w) ==
  /\ worker[w].at = "loop"
  /\ IF cancelled \/ queue = {}
     THEN Stop(w) /\ UNCHANGED queue
     ELSE \E j \in queue :
            /\ worker' = [worker EXCEPT ![w] = [at |-> "check", job |-> j, timedOut |-> FALSE]]
            /\ queue' = queue \ {j}
  /\ UNCHANGED <<disk, parent, main, child, registry, cancelling>>

CheckBefore(w) ==
  /\ worker[w].at = "check"
  /\ IF cancelled THEN Stop(w) ELSE GoTo(w, "spawn")
  /\ UNCHANGED <<disk, parent, main, queue, child, registry, cancelling>>

Spawn(w) ==
  /\ worker[w].at = "spawn"
  /\ GoTo(w, "register")
  /\ child' = [child EXCEPT ![run][JobOf(w)] = Started(AttemptOf(w))]
  /\ UNCHANGED <<disk, parent, main, queue, registry, cancelling>>

\* The process cannot be created: the worker ends, the others go on.
SpawnFails(w) ==
  /\ worker[w].at = "spawn"
  /\ Stop(w)
  /\ errors' = TRUE
  /\ UNCHANGED <<disk, budget, run, planned, kills, main, queue, child, registry, cancelling>>

Register(w) ==
  /\ worker[w].at = "register"
  /\ ~Locked
  /\ registry' = registry \cup {JobOf(w)}
  /\ GoTo(w, "recheck")
  /\ UNCHANGED <<disk, parent, main, queue, child, cancelling>>

\* Faulty variant of Recheck: the event is not looked at again.
RecheckNothing(w) ==
  /\ worker[w].at = "recheck"
  /\ GoTo(w, "wait")
  /\ UNCHANGED <<disk, parent, main, queue, child, registry, cancelling>>

\* A cancel between the first check and the registration was not seen by the
\* handler: the worker kills its child itself.
Recheck(w) ==
  /\ worker[w].at = "recheck"
  /\ child' = IF cancelled
              THEN [child EXCEPT ![run][JobOf(w)] = Killed(@, "cancel")]
              ELSE child
  /\ GoTo(w, "wait")
  /\ UNCHANGED <<disk, parent, main, queue, registry, cancelling>>

WaitEnds(w) ==
  /\ worker[w].at = "wait"
  /\ ~Alive(ChildOf(w))
  /\ GoTo(w, "discard")
  /\ UNCHANGED <<disk, parent, main, queue, child, registry, cancelling>>

\* Faulty variant of TimesOut: the child is not killed, only waited for.
TimesOutWithoutKill(w) ==
  /\ worker[w].at = "wait"
  /\ worker' = [worker EXCEPT ![w].timedOut = TRUE]
  /\ UNCHANGED <<disk, parent, main, queue, child, registry, cancelling>>

\* The deadline passed, maybe just after the child ended by itself.
TimesOut(w) ==
  /\ worker[w].at = "wait"
  /\ worker' = [worker EXCEPT ![w].at = "discard", ![w].timedOut = TRUE]
  /\ child' = [child EXCEPT ![run][JobOf(w)] = Killed(@, "deadline")]
  /\ UNCHANGED <<disk, parent, main, queue, registry, cancelling>>

Discard(w) ==
  /\ worker[w].at = "discard"
  /\ ~Locked
  /\ registry' = registry \ {JobOf(w)}
  /\ GoTo(w, "checkAfter")
  /\ UNCHANGED <<disk, parent, main, queue, child, cancelling>>

\* Faulty variant of CheckAfter: the worker records what was cancelled.
CheckAfterNothing(w) ==
  /\ worker[w].at = "checkAfter"
  /\ GoTo(w, "lookUp")
  /\ UNCHANGED <<disk, parent, main, queue, child, registry, cancelling>>

\* Cancelled is raised, and no record is written.
CheckAfter(w) ==
  /\ worker[w].at = "checkAfter"
  /\ IF cancelled THEN Stop(w) ELSE GoTo(w, "lookUp")
  /\ UNCHANGED <<disk, parent, main, queue, child, registry, cancelling>>

LookUp(w) ==
  /\ worker[w].at = "lookUp"
  /\ IF HasRecord(JobOf(w), AttemptOf(w))
     THEN worker' = [worker EXCEPT ![w] = [Idle EXCEPT !.at = "loop"]]
     ELSE GoTo(w, "fallback")
  /\ UNCHANGED <<disk, parent, main, queue, child, registry, cancelling>>

FallbackKind(w) ==
  IF worker[w].timedOut THEN "hard_deadline"
  ELSE IF ChildOf(w).ok THEN "no_record_written" ELSE "crashed_no_record"

WriteFallback(w) ==
  /\ worker[w].at = "fallback"
  /\ WriteRecord(JobOf(w), AttemptOf(w), FallbackKind(w), ChildOf(w).killed)
  /\ worker' = [worker EXCEPT ![w] = [Idle EXCEPT !.at = "loop"]]
  /\ UNCHANGED <<samples, parent, main, queue, child, registry, cancelling>>

WorkerStep(w) ==
  /\ main = Parallel
  /\ \/ TakeJob(w) \/ CheckBefore(w) \/ Spawn(w) \/ SpawnFails(w)
     \/ Register(w) \/ Recheck(w) \/ WaitEnds(w) \/ TimesOut(w)
     \/ Discard(w) \/ CheckAfter(w) \/ LookUp(w) \/ WriteFallback(w)

-----------------------------------------------------------------------------
(* A child process (run-one).  It has its own session and outlives a       *)
(* parent that is killed.                                                  *)

ChildGoesTo(r, j, phase) == child' = [child EXCEPT ![r][j].phase = phase]
ChildExits(r, j, ok) == child' = [child EXCEPT ![r][j].phase = "ended", ![r][j].ok = ok]

\* A terminal record of the same attempt is there already.
SkipJob(r, j) ==
  LET a == child[r][j].attempt IN
  /\ child[r][j].phase = "starting"
  /\ HasRecord(j, a) /\ Terminal(j, a)
  /\ ChildExits(r, j, KindOf(j, a) \in ExitOk)
  /\ UNCHANGED disk

BeginJob(r, j) ==
  LET a == child[r][j].attempt IN
  /\ child[r][j].phase = "starting"
  /\ ~(HasRecord(j, a) /\ Terminal(j, a))
  /\ ChildGoesTo(r, j, "computing")
  /\ UNCHANGED disk

\* Faulty variant of WriteSamples: the record is written first.
RecordFirst(r, j) ==
  /\ child[r][j].phase = "computing"
  /\ WriteRecord(j, child[r][j].attempt, "clean", "no")
  /\ ChildGoesTo(r, j, "sampled")
  /\ UNCHANGED samples

WriteSamples(r, j) ==
  /\ child[r][j].phase = "computing"
  /\ samples' = samples \cup {<<j, child[r][j].attempt>>}
  /\ ChildGoesTo(r, j, "sampled")
  /\ UNCHANGED records

WriteCompleted(r, j) ==
  /\ child[r][j].phase = "sampled"
  /\ \E kind \in Completed : WriteRecord(j, child[r][j].attempt, kind, "no")
  /\ child' = [child EXCEPT ![r][j].phase = "recorded", ![r][j].ok = TRUE]
  /\ UNCHANGED samples

\* Without samples: an unsupported arm, or the failure record of an exception.
WriteWithoutSamples(r, j) ==
  /\ child[r][j].phase = "computing"
  /\ \E kind \in Unsupported \cup {"failed"} :
       /\ WriteRecord(j, child[r][j].attempt, kind, "no")
       /\ child' = [child EXCEPT ![r][j].phase = "recorded", ![r][j].ok = kind \in ExitOk]
  /\ UNCHANGED samples

Exit(r, j) ==
  /\ child[r][j].phase = "recorded"
  /\ ChildExits(r, j, child[r][j].ok)
  /\ UNCHANGED disk

\* It dies by itself, before it wrote a record.
CrashChild(r, j) ==
  /\ child[r][j].phase \in {"starting", "computing", "sampled"}
  /\ ChildExits(r, j, FALSE)
  /\ UNCHANGED disk

ChildStep(r, j) ==
  /\ \/ SkipJob(r, j) \/ BeginJob(r, j) \/ WriteSamples(r, j) \/ WriteCompleted(r, j)
     \/ WriteWithoutSamples(r, j) \/ Exit(r, j) \/ CrashChild(r, j)
  /\ UNCHANGED <<parent, main, queue, worker, registry, cancelling>>

-----------------------------------------------------------------------------
(* Cancelling.  A Python handler runs on the main thread, on top of        *)
(* whatever that was doing: of another handler too.                        *)

Top == frames[Len(frames)]
ReplaceTop(f) == frames' = [frames EXCEPT ![Len(frames)] = f]

Signal ==
  /\ main = Parallel
  /\ signals < budget.signals
  /\ signals' = signals + 1
  /\ frames' = Append(frames, [at |-> "set", procs |-> {}])
  /\ UNCHANGED <<disk, parent, main, queue, worker, child, registry, cancelled>>

SetEvent ==
  /\ Top.at = "set"
  /\ cancelled' = TRUE
  /\ ReplaceTop([Top EXCEPT !.at = "lock"])

\* The lock is not re-entrant.
LockRegistry ==
  /\ Top.at = "lock"
  /\ ~Locked
  /\ ReplaceTop([Top EXCEPT !.at = "copy"])
  /\ UNCHANGED cancelled

CopyRegistry ==
  /\ Top.at = "copy"
  /\ ReplaceTop([at |-> "kill", procs |-> registry])
  /\ UNCHANGED cancelled

\* A child that was waited for is not signalled; one that ended is not hurt.
KillOne ==
  /\ Top.at = "kill"
  /\ \E j \in Top.procs :
       /\ child' = [child EXCEPT ![run][j] = Killed(@, "cancel")]
       /\ ReplaceTop([Top EXCEPT !.procs = @ \ {j}])
  /\ UNCHANGED cancelled

HandlerReturns ==
  /\ Top.at = "kill"
  /\ Top.procs = {}
  /\ frames' = SubSeq(frames, 1, Len(frames) - 1)
  /\ UNCHANGED cancelled

HandlerStep ==
  /\ main = Parallel
  /\ frames # <<>>
  /\ \/ (SetEvent \/ LockRegistry \/ CopyRegistry \/ HandlerReturns) /\ UNCHANGED child
     \/ KillOne
  /\ UNCHANGED <<disk, parent, main, queue, worker, registry, signals>>

\* Faulty variant of JoinWorkers: an error of a worker is forgotten.
JoinForgetting ==
  /\ main = Parallel
  /\ frames = <<>>
  /\ \A w \in Workers : worker[w].at = "stopped"
  /\ main' = IF cancelled THEN "cancelled" ELSE "returned"
  /\ UNCHANGED <<disk, parent, queue, worker, child, registry, cancelling>>

\* All threads joined: the run ends with Cancelled, with the first error, or
\* with its records.
JoinWorkers ==
  /\ main = Parallel
  /\ frames = <<>>
  /\ \A w \in Workers : worker[w].at = "stopped"
  /\ main' = IF cancelled THEN "cancelled" ELSE IF errors THEN "failed" ELSE "returned"
  /\ UNCHANGED <<disk, parent, queue, worker, child, registry, cancelling>>

\* The parent dies (SIGKILL, out of memory): its threads are gone, its
\* children are not.
ParentDies ==
  /\ kills' = kills + 1
  /\ main' = "killed"
  /\ worker' = [w \in Threads |-> Idle]
  /\ frames' = <<>>
  /\ UNCHANGED <<disk, budget, run, planned, errors, queue, child, registry, cancelled>>

KillParent ==
  /\ main \in Running
  /\ kills < budget.kills
  /\ ParentDies
  /\ UNCHANGED signals

-----------------------------------------------------------------------------
(* The serial path.  Handlers are installed for the duration of a wait     *)
(* only: elsewhere a signal has its default effect and ends the parent.    *)

At(place) == main = Serial /\ worker[Main].at = place

TakeNext ==
  /\ At("loop")
  /\ IF queue = {}
     THEN Stop(Main) /\ main' = "returned" /\ UNCHANGED queue
     ELSE \E j \in queue :
            /\ worker' = [worker EXCEPT ![Main] = [at |-> "spawn", job |-> j, timedOut |-> FALSE]]
            /\ queue' = queue \ {j}
            /\ UNCHANGED main
  /\ UNCHANGED <<disk, parent, child, registry, cancelling>>

SpawnAlone ==
  /\ At("spawn")
  /\ GoTo(Main, "install")
  /\ child' = [child EXCEPT ![run][JobOf(Main)] = Started(AttemptOf(Main))]
  /\ UNCHANGED <<disk, parent, main, queue, registry, cancelling>>

\* The process cannot be created: the run ends with that error.
SpawnAloneFails ==
  /\ At("spawn")
  /\ Stop(Main)
  /\ main' = "failed"
  /\ UNCHANGED <<disk, parent, queue, child, registry, cancelling>>

InstallHandlers ==
  /\ At("install")
  /\ GoTo(Main, "wait")
  /\ UNCHANGED <<disk, parent, main, queue, child, registry, cancelling>>

\* The wait ended, by itself or by the deadline, and the handlers are gone.
WaitAlone ==
  /\ At("wait")
  /\ \/ ~Alive(ChildOf(Main)) /\ GoTo(Main, "lookUp") /\ UNCHANGED child
     \/ /\ worker' = [worker EXCEPT ![Main].at = "lookUp", ![Main].timedOut = TRUE]
        /\ child' = [child EXCEPT ![run][JobOf(Main)] = Killed(@, "deadline")]
  /\ UNCHANGED <<disk, parent, main, queue, registry, cancelling>>

\* The except clause: the child is killed, and Cancelled goes on.
KillAlone ==
  /\ At("kill")
  /\ child' = [child EXCEPT ![run][JobOf(Main)] = Killed(@, "cancel")]
  /\ Stop(Main)
  /\ main' = "cancelled"
  /\ UNCHANGED <<disk, parent, queue, registry, cancelling>>

\* During the wait a signal raises Cancelled.  A second one raises it again,
\* out of the except clause, before that has killed the child.
SignalInWait ==
  /\ \/ At("wait") /\ GoTo(Main, "kill") /\ UNCHANGED main
     \/ At("kill") /\ Stop(Main) /\ main' = "cancelled"
  /\ UNCHANGED <<disk, parent, queue, child, registry, cancelled, frames>>

SignalOutsideWait ==
  /\ main = Serial
  /\ ~At("wait") /\ ~At("kill")
  /\ ParentDies

SignalAlone ==
  /\ signals < budget.signals
  /\ signals' = signals + 1
  /\ SignalInWait \/ SignalOutsideWait

SerialStep ==
  \/ TakeNext \/ SpawnAlone \/ SpawnAloneFails \/ InstallHandlers \/ WaitAlone \/ KillAlone
  \/ main = Serial /\ (LookUp(Main) \/ WriteFallback(Main))

\* What the main thread does by itself: it is at one of these at a time.
MainStep == HandlerStep \/ JoinWorkers \/ SerialStep

AnyChildStep == \E r \in Runs, j \in Jobs : ChildStep(r, j)

Finished ==
  /\ main \notin Running
  /\ run = budget.runs
  /\ \A r \in Runs, j \in Jobs : ~Alive(child[r][j])
  /\ UNCHANGED vars

Next ==
  \/ StartRun
  \/ \E w \in Workers : WorkerStep(w)
  \/ AnyChildStep
  \/ Signal
  \/ MainStep
  \/ SignalAlone
  \/ KillParent
  \/ Finished

Spec == Init /\ [][Next]_vars

\* Threads are scheduled and every wait has a deadline.  Nothing is assumed
\* of the children: a worker does not need them to end.
FairSpec ==
  /\ Spec
  /\ \A w \in Workers : WF_vars(WorkerStep(w))
  /\ WF_vars(MainStep)

-----------------------------------------------------------------------------
\* A record of a completed attempt never stands on disk without its samples,
\* whoever is killed and whenever (round2_cpu.py 256-260).
CompletedHasSamples ==
  \A j \in Jobs : \A i \in DOMAIN records[j] :
    records[j][i].kind \in Completed => <<j, i - 1>> \in samples

\* A job that a cancel interrupted is never recorded as a crash or a timeout:
\* it would count as an attempt, or even as done (round2_cpu.py 277-283).
CancelLeavesNoFallback ==
  \A j \in Jobs : \A i \in DOMAIN records[j] :
    records[j][i].killed = "cancel" => records[j][i].kind \notin Fallback

\* When the handler is done, no worker waits for a child that is still alive:
\* a cancel reaches the children started while it was on its way, too
\* (round2_runner.py 1176-1186).  And on both paths a run that one signal has
\* cancelled leaves no child behind (1117-1119).
CancelReachesEveryChild ==
  /\ (main = Parallel /\ cancelled /\ frames = <<>>) =>
       \A w \in Workers : worker[w].at = "wait" => ~Alive(ChildOf(w))
  /\ (main = "cancelled" /\ signals = 1) => \A j \in Jobs : ~Alive(child[run][j])

\* A run that returns its records has one for every attempt it planned.
ReturnedIsComplete ==
  main = "returned" => \A j \in Jobs : planned[j] # NoAttempt => HasRecord(j, planned[j])

\* An attempt's record is never replaced and never removed
\* (round2_cpu.py 85-86).
OnlyNewAttempts ==
  \A j \in Jobs : SubSeq(records'[j], 1, Len(records[j])) = records[j]
AttemptsAreKept == [][OnlyNewAttempts]_vars

\* The same as long as no parent was killed and no serial run gets a second
\* signal: a child then never outlives the run that waits for it.
Undisturbed == kills = 0 /\ (budget.signals < 2 \/ Serial \notin budget.paths)
AttemptsAreKeptUnlessKilled == [][Undisturbed' => OnlyNewAttempts]_vars

\* A run ends: no cancel, failure or deadline leaves the parent waiting.
RunEnds == main \in Running ~> main \notin Running
=============================================================================
