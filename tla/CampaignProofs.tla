--------------------------- MODULE CampaignProofs ---------------------------
(***************************************************************************)
(* Proofs about a campaign: CampaignRunner, for any set of jobs, any       *)
(* number of threads and every number of runs, signals and kills;          *)
(* SeededSweep, for any jobs and builds; CampaignPlan, for any machine,    *)
(* index and captures; MeasuredJob, for any model, kernel and host; and    *)
(* CampaignReport, for any attempts, captures, tolerances and reads.       *)
(*                                                                         *)
(* The runner: a job is at one place, in the queue or with one thread,     *)
(* and a child that is alive has a thread that waits for it (ControlInv).  *)
(* On that rest five others: samples are written before the record         *)
(* (DataInv); a thread that has looked at the event after its wait knows   *)
(* of every cancel that could have killed its child (CancelInv); a planned *)
(* attempt is in the queue, with a thread or on disk (CompleteInv); a      *)
(* cancelled child is killed by its worker, which registered it before the *)
(* second look at the event, or by a handler that is still on the stack    *)
(* (ReachInv); and as long as no child outlives its run, whoever writes an *)
(* attempt writes the next one (OneWriter).                                *)
(*                                                                         *)
(* The sweep: the result at hand is of the job and the build at hand, and  *)
(* the samples on disk are those of the last result written (SweepInv).    *)
(*                                                                         *)
(* The plan is decided in one step, so its proofs are about the operators: *)
(* ranks number a set, a loop over the processors keeps a condition        *)
(* (Spread), and a row of the index is known by its cell and nonce and by  *)
(* its hash.                                                               *)
(*                                                                         *)
(* A measured job is one step, too: the energies of the input are those of *)
(* the model times a scale, because a sum over copies of edges is a sum    *)
(* over edges with their weight (SumOfCopies), and a sum over pairs of     *)
(* sums over the edges of a pair is the sum over the edges (EnergyOfPairs).*)
(*                                                                         *)
(* A report, too: its rows are the rows of the jobs, each joined from two  *)
(* attempts (RowJoins), and one more for every source of the routed kernel *)
(* (RowsAreLoaded), which is the unit kernel's row wherever that ran       *)
(* (RouteOfKey); the rest is counting of finite sets.  That a success is   *)
(* never hidden joins the runner to it: records stay (RecordsStay), and    *)
(* the report shows a success as soon as there is one (ShownIfAny).        *)
(***************************************************************************)
EXTENDS CampaignReport, SeededSweep, MeasuredJob, SumProofs, SequenceTheorems, TLAPS

Kinds == ExitOk \cup Fallback \cup {"failed"}
Killers == {"no", "cancel", "deadline"}
Places == {"stopped", "loop", "check", "spawn", "register", "recheck", "wait", "discard",
           "checkAfter", "lookUp", "fallback", "install", "kill"}
Phases == {"none", "starting", "computing", "sampled", "recorded", "ended"}

Record == [kind : Kinds, killed : Killers]
Thread == [at : Places, job : Jobs \cup {NoJob}, timedOut : BOOLEAN]
Child == [attempt : Int, phase : Phases, ok : BOOLEAN, killed : Killers]
Frame == [at : {"set", "lock", "copy", "kill"}, procs : SUBSET Jobs]
Mains == {"off", Parallel, Serial, "returned", "cancelled", "failed", "killed"}

TypeInv ==
  /\ budget \in Budgets
  /\ records \in [Jobs -> Seq(Record)]
  /\ run \in Nat
  /\ main \in Mains
  /\ planned \in [Jobs -> Int]
  /\ queue \in SUBSET Jobs
  /\ worker \in [Threads -> Thread]
  /\ child \in [Runs -> [Jobs -> Child]]
  /\ registry \in SUBSET Jobs
  /\ frames \in Seq(Frame)
  /\ signals \in Nat
  /\ kills \in Nat

\* A thread has a job at hand; it is in charge of the child it started.
Holds(w) == worker[w].at \notin {"stopped", "loop"}
InCharge(w) == worker[w].at \in {"register", "recheck", "wait", "install", "kill"}

OneProgram ==
  /\ main # "off" => run \in Runs
  /\ main # Serial => worker[Main].at = "stopped"
  /\ main # Parallel => \A w \in Workers : worker[w].at = "stopped"

OnePlace ==
  /\ \A j \in queue : planned[j] \in Nat
  /\ \A w \in Threads : Holds(w) => JobOf(w) \in Jobs \ queue /\ AttemptOf(w) \in Nat
  /\ \A w, v \in Threads : Holds(w) /\ Holds(v) /\ JobOf(w) = JobOf(v) => w = v

NoChildAhead == \A r \in Runs : r > run => \A j \in Jobs : child[r][j] = NoChild

ChildrenHaveAThread ==
  main \in Running =>
    \A j \in Jobs : Alive(child[run][j]) =>
      \E w \in Threads : InCharge(w) /\ JobOf(w) = j

ControlInv == TypeInv /\ OneProgram /\ OnePlace /\ NoChildAhead /\ ChildrenHaveAThread

SamplesFirst ==
  /\ \A j \in Jobs : planned[j] <= Len(records[j])
  /\ \A r \in Runs, j \in Jobs :
       /\ child[r][j].attempt <= Len(records[j])
       /\ child[r][j].phase # "none" => child[r][j].attempt \in Nat
       /\ child[r][j].phase = "sampled" => <<j, child[r][j].attempt>> \in samples

CancelIsKnown ==
  /\ main = Serial => ~cancelled
  /\ \A i \in DOMAIN frames : frames[i].at # "set" => cancelled
  /\ (main \in Running /\ ~cancelled) => \A j \in Jobs : child[run][j].killed # "cancel"
  /\ \A w \in Threads : worker[w].at \in {"lookUp", "fallback"} => ChildOf(w).killed # "cancel"

\* A handler that has not come to its end will kill the child of job j.
WillKill(f, j) == f.at = "lock" \/ f.at = "copy" \/ (f.at = "kill" /\ j \in f.procs)

Registered ==
  \A w \in Workers : worker[w].at \in {"recheck", "wait", "discard"} => JobOf(w) \in registry

KillIsComing ==
  \A w \in Workers :
    (worker[w].at = "wait" /\ cancelled /\ Alive(ChildOf(w))) =>
      \E i \in DOMAIN frames : WillKill(frames[i], JobOf(w))

NoneIsLeft ==
  /\ worker[Main].at = "kill" => signals >= 1
  /\ (main = "cancelled" /\ signals = 1) => \A j \in Jobs : ~Alive(child[run][j])

NothingIsLost ==
  /\ (main \in Running /\ ~cancelled /\ ~errors) =>
       \A j \in Jobs : planned[j] # NoAttempt =>
         \/ j \in queue
         \/ \E w \in Threads : Holds(w) /\ JobOf(w) = j
         \/ HasRecord(j, planned[j])
  /\ (main = Parallel /\ ~cancelled /\ ~errors) =>
       \A w \in Workers : worker[w].at = "stopped" => queue = {}
  /\ main = Serial => ~errors

Writing == {"starting", "computing", "sampled"}
Planning == {"check", "spawn", "fallback"}

NoOrphans == \A r \in Runs, j \in Jobs : Alive(child[r][j]) => r = run /\ main \in Running

NextIsPlanned ==
  /\ \A j \in queue : planned[j] = Len(records[j])
  /\ \A w \in Threads : worker[w].at \in Planning => AttemptOf(w) = Len(records[JobOf(w)])
  /\ \A r \in Runs, j \in Jobs :
       child[r][j].phase \in Writing => child[r][j].attempt = Len(records[j])

OneWriter ==
  /\ main = Serial => Serial \in budget.paths
  /\ Undisturbed => NoOrphans /\ NextIsPlanned
-----------------------------------------------------------------------------
\* What the steps of a child and of a handler leave alone.
ChildFrame == UNCHANGED <<parent, main, queue, worker, registry, cancelling>>
HandlerFrame == UNCHANGED <<disk, parent, main, queue, worker, registry, signals>>

RecordIs(j, a, kind, killed) ==
  /\ records' \in [Jobs -> Seq(Record)]
  /\ \A k \in Jobs : k # j => records'[k] = records[k]
  /\ Len(records'[j]) = IF a < Len(records[j]) THEN Len(records[j]) ELSE Len(records[j]) + 1
  /\ records'[j][a + 1] = [kind |-> kind, killed |-> killed]
  /\ \A i \in 1 .. Len(records[j]) : i # a + 1 => records'[j][i] = records[j][i]

\* A record is written in the place of the attempt, or as the next one.
LEMMA WriteRecordEffect ==
  ASSUME records \in [Jobs -> Seq(Record)], NEW j \in Jobs,
         NEW a \in Nat, a <= Len(records[j]),
         NEW kind \in Kinds, NEW killed \in Killers,
         WriteRecord(j, a, kind, killed)
  PROVE  RecordIs(j, a, kind, killed)
<1> DEFINE r == [kind |-> kind, killed |-> killed]
<1> DEFINE new == IF a < Len(records[j]) THEN [records[j] EXCEPT ![a + 1] = r]
                  ELSE Append(records[j], r)
<1>1. records[j] \in Seq(Record) /\ Len(records[j]) \in Nat /\ r \in Record
  <2>1. records[j] \in Seq(Record) /\ Len(records[j]) \in Nat
    OBVIOUS
  <2>2. r \in Record
    BY DEF Record
  <2> QED
    BY <2>1, <2>2
<1>2. records' = [records EXCEPT ![j] = new]
  BY DEF WriteRecord, HasRecord
<1>3. CASE a < Len(records[j])
  <2>1. new = [records[j] EXCEPT ![a + 1] = r] /\ a + 1 \in 1 .. Len(records[j])
    BY <1>1, <1>3
  <2>2. /\ new \in Seq(Record)
        /\ Len(new) = Len(records[j])
    BY <1>1, <2>1, ExceptSeq
  <2>3. new[a + 1] = r /\ \A i \in 1 .. Len(records[j]) : i # a + 1 => new[i] = records[j][i]
    BY <1>1, <2>1
  <2> QED
    BY <1>2, <1>3, <2>2, <2>3 DEF RecordIs
<1>4. CASE ~(a < Len(records[j]))
  <2>1. new = Append(records[j], r) /\ a = Len(records[j])
    BY <1>1, <1>4
  <2>2. /\ new \in Seq(Record)
        /\ Len(new) = Len(records[j]) + 1
        /\ new[a + 1] = r
        /\ \A i \in 1 .. Len(records[j]) : new[i] = records[j][i]
    BY <1>1, <2>1
  <2> QED
    BY <1>2, <1>4, <2>2 DEF RecordIs
<1> QED
  BY <1>3, <1>4

\* The frame on top, and what replacing it leaves.
LEMMA TopFrame ==
  ASSUME frames \in Seq(Frame), frames # <<>>
  PROVE  /\ Len(frames) \in Nat /\ Len(frames) > 0
         /\ DOMAIN frames = 1 .. Len(frames)
         /\ Top \in Frame
<1>1. Len(frames) \in Nat /\ DOMAIN frames = 1 .. Len(frames) /\ Len(frames) # 0
  BY EmptySeq
<1>2. Top \in Frame
  BY <1>1, ElementOfSeq DEF Top
<1> QED
  BY <1>1, <1>2

LEMMA ReplaceTopEffect ==
  ASSUME frames \in Seq(Frame), frames # <<>>, NEW f \in Frame, ReplaceTop(f)
  PROVE  /\ frames' \in Seq(Frame)
         /\ frames' # <<>>
         /\ Len(frames') = Len(frames)
         /\ frames'[Len(frames)] = f
         /\ \A i \in 1 .. Len(frames) : i # Len(frames) => frames'[i] = frames[i]
<1>1. Len(frames) \in 1 .. Len(frames)
  BY TopFrame
<1>2. frames' = [frames EXCEPT ![Len(frames)] = f]
  BY DEF ReplaceTop
<1>3. frames' \in Seq(Frame) /\ Len(frames') = Len(frames)
  BY <1>1, <1>2, ExceptSeq
<1>4. frames' # <<>>
  BY <1>3, TopFrame
<1>5. frames'[Len(frames)] = f
  BY <1>1, <1>2, TopFrame
<1>6. \A i \in 1 .. Len(frames) : i # Len(frames) => frames'[i] = frames[i]
  BY <1>2, TopFrame, Zenon
<1> QED
  BY <1>3, <1>4, <1>5, <1>6

LEMMA SameRuns == ASSUME UNCHANGED budget PROVE Runs' = Runs
  BY DEF Runs

-----------------------------------------------------------------------------
\* What a step makes of one thread and of one child; the others stay.
ThreadTo(w, place, j) ==
  /\ worker' \in [Threads -> Thread]
  /\ worker'[w].at = place /\ worker'[w].job = j
  /\ \A v \in Threads : v # w => worker'[v] = worker[v]

OthersStay(r, j) ==
  /\ child' \in [Runs -> [Jobs -> Child]]
  /\ \A s \in Runs, k \in Jobs : (s # r \/ k # j) => child'[s][k] = child[s][k]

ChildStarted(r, j, a) == OthersStay(r, j) /\ child'[r][j] = Started(a)

ChildTo(r, j, phase) ==
  /\ OthersStay(r, j)
  /\ child'[r][j].phase = phase
  /\ child'[r][j].attempt = child[r][j].attempt
  /\ child'[r][j].killed = child[r][j].killed

ChildKilled(r, j, by) ==
  /\ OthersStay(r, j)
  /\ ~Alive(child'[r][j])
  /\ child'[r][j].attempt = child[r][j].attempt
  /\ child'[r][j].killed \in {child[r][j].killed, by}
  /\ (child[r][j].phase = "none") <=> (child'[r][j].phase = "none")
  /\ ~Alive(child[r][j]) => child'[r][j] = child[r][j]

Looping == [Idle EXCEPT !.at = "loop"]
Taken(place, j) == [at |-> place, job |-> j, timedOut |-> FALSE]

LEMMA NewThreads ==
  /\ Idle \in Thread /\ Looping \in Thread
  /\ \A p \in Places, j \in Jobs : Taken(p, j) \in Thread
  /\ \A p \in Places, t \in Thread :
       [t EXCEPT !.at = p] \in Thread /\ [t EXCEPT !.at = p, !.timedOut = TRUE] \in Thread
<1>1. FALSE \in BOOLEAN /\ TRUE \in BOOLEAN
  BY Zenon
<1>2. NoJob \in Jobs \cup {NoJob} /\ "loop" \in Places /\ "stopped" \in Places
  BY DEF Places
<1>3. Idle \in Thread /\ Looping \in Thread
  <2> HIDE DEF NoJob
  <2> QED
    BY <1>1, <1>2 DEF Looping, Idle, Thread
<1>4. \A p \in Places, j \in Jobs : Taken(p, j) \in Thread
  BY <1>1 DEF Taken, Thread
<1>5. \A p \in Places, t \in Thread :
        [t EXCEPT !.at = p] \in Thread /\ [t EXCEPT !.at = p, !.timedOut = TRUE] \in Thread
  BY <1>1 DEF Thread
<1> QED
  BY <1>3, <1>4, <1>5, Zenon

LEMMA ThreadMoves ==
  ASSUME worker \in [Threads -> Thread], NEW w \in Threads
  PROVE  /\ Stop(w) => ThreadTo(w, "stopped", NoJob)
         /\ worker' = [worker EXCEPT ![w] = Looping] => ThreadTo(w, "loop", NoJob)
         /\ \A p \in Places : GoTo(w, p) => ThreadTo(w, p, JobOf(w))
         /\ \A p \in Places, j \in Jobs :
              worker' = [worker EXCEPT ![w] = Taken(p, j)] => ThreadTo(w, p, j)
         /\ \A p \in Places :
              worker' = [worker EXCEPT ![w].at = p, ![w].timedOut = TRUE] => ThreadTo(w, p, JobOf(w))
<1>1. worker[w] \in Thread
  OBVIOUS
<1>2. ASSUME NEW t \in Thread, worker' = [worker EXCEPT ![w] = t]
      PROVE  ThreadTo(w, t.at, t.job)
  BY <1>2 DEF ThreadTo
<1>3. Stop(w) => ThreadTo(w, "stopped", NoJob)
  <2>1. Idle.at = "stopped" /\ Idle.job = NoJob
    BY DEF Idle
  <2>2. Stop(w) => ThreadTo(w, Idle.at, Idle.job)
    BY <1>2, NewThreads, Zenon DEF Stop
  <2> QED
    BY <2>1, <2>2
<1>4. worker' = [worker EXCEPT ![w] = Looping] => ThreadTo(w, "loop", NoJob)
  <2>1. Looping.at = "loop" /\ Looping.job = NoJob
    BY DEF Looping, Idle
  <2>2. worker' = [worker EXCEPT ![w] = Looping] => ThreadTo(w, Looping.at, Looping.job)
    BY <1>2, NewThreads, Zenon
  <2> QED
    BY <2>1, <2>2
<1>5. ASSUME NEW p \in Places, GoTo(w, p)
      PROVE  ThreadTo(w, p, JobOf(w))
  <2> DEFINE t == [worker[w] EXCEPT !.at = p]
  <2>1. t \in Thread
    BY <1>1, NewThreads, Zenon
  <2>2. t.at = p /\ t.job = JobOf(w)
    BY <1>1 DEF Thread, JobOf
  <2>3. worker' = [worker EXCEPT ![w] = t]
    BY <1>5 DEF GoTo
  <2> HIDE DEF t
  <2> QED
    BY <1>2, <2>1, <2>2, <2>3
<1>6. ASSUME NEW p \in Places, NEW j \in Jobs, worker' = [worker EXCEPT ![w] = Taken(p, j)]
      PROVE  ThreadTo(w, p, j)
  <2>1. Taken(p, j) \in Thread
    BY NewThreads, Zenon
  <2>2. Taken(p, j).at = p /\ Taken(p, j).job = j
    BY DEF Taken
  <2> QED
    BY <1>2, <1>6, <2>1, <2>2
<1>7. ASSUME NEW p \in Places, worker' = [worker EXCEPT ![w].at = p, ![w].timedOut = TRUE]
      PROVE  ThreadTo(w, p, JobOf(w))
  <2> DEFINE t == [worker[w] EXCEPT !.at = p, !.timedOut = TRUE]
  <2>1. t \in Thread
    BY <1>1, NewThreads, Zenon
  <2>2. t.at = p /\ t.job = JobOf(w)
    BY <1>1 DEF Thread, JobOf
  <2>3. worker' = [worker EXCEPT ![w] = t]
    BY <1>7
  <2> HIDE DEF t
  <2> QED
    BY <1>2, <2>1, <2>2, <2>3
<1> QED
  BY <1>3, <1>4, <1>5, <1>6, <1>7, Zenon

LEMMA ChildChanges ==
  ASSUME child \in [Runs -> [Jobs -> Child]], NEW r \in Runs, NEW j \in Jobs
  PROVE  /\ \A a \in Nat : child' = [child EXCEPT ![r][j] = Started(a)] => ChildStarted(r, j, a)
         /\ \A p \in Phases : ChildGoesTo(r, j, p) => ChildTo(r, j, p)
         /\ \A p \in Phases, b \in BOOLEAN :
              child' = [child EXCEPT ![r][j].phase = p, ![r][j].ok = b] => ChildTo(r, j, p)
         /\ \A by \in Killers :
              child' = [child EXCEPT ![r][j] = Killed(@, by)] => ChildKilled(r, j, by)
<1> DEFINE c == child[r][j]
<1>1. c \in Child
  OBVIOUS
<1>2. ASSUME NEW d \in Child, child' = [child EXCEPT ![r][j] = d]
      PROVE  OthersStay(r, j) /\ child'[r][j] = d
  BY <1>2 DEF OthersStay
<1>3. ASSUME NEW a \in Nat, child' = [child EXCEPT ![r][j] = Started(a)]
      PROVE  ChildStarted(r, j, a)
  <2>1. FALSE \in BOOLEAN
    BY Zenon
  <2>2. Started(a) \in Child
    BY <2>1 DEF Started, Child, Phases, Killers
  <2> QED
    BY <1>2, <1>3, <2>2 DEF ChildStarted
<1>4. ASSUME NEW p \in Phases, ChildGoesTo(r, j, p)
      PROVE  ChildTo(r, j, p)
  <2> DEFINE d == [c EXCEPT !.phase = p]
  <2>1. d \in Child /\ d.phase = p /\ d.attempt = c.attempt /\ d.killed = c.killed
    BY <1>1 DEF Child
  <2>2. child' = [child EXCEPT ![r][j] = d]
    BY <1>4 DEF ChildGoesTo
  <2> HIDE DEF d
  <2> QED
    BY <1>2, <2>1, <2>2 DEF ChildTo
<1>5. ASSUME NEW p \in Phases, NEW b \in BOOLEAN,
             child' = [child EXCEPT ![r][j].phase = p, ![r][j].ok = b]
      PROVE  ChildTo(r, j, p)
  <2> DEFINE d == [c EXCEPT !.phase = p, !.ok = b]
  <2>1. d \in Child /\ d.phase = p /\ d.attempt = c.attempt /\ d.killed = c.killed
    BY <1>1 DEF Child
  <2>2. child' = [child EXCEPT ![r][j] = d]
    BY <1>5
  <2> HIDE DEF d
  <2> QED
    BY <1>2, <2>1, <2>2 DEF ChildTo
<1>6. ASSUME NEW by \in Killers, child' = [child EXCEPT ![r][j] = Killed(@, by)]
      PROVE  ChildKilled(r, j, by)
  <2> DEFINE d == Killed(c, by)
  <2>1. child' = [child EXCEPT ![r][j] = d]
    BY <1>6
  <2>2. CASE Alive(c)
    <3>1. d = [c EXCEPT !.phase = "ended", !.killed = by]
      BY <2>2 DEF Killed
    <3>2. /\ d \in Child /\ d.phase = "ended"
          /\ d.attempt = c.attempt /\ d.killed = by
      BY <1>1, <3>1 DEF Child, Phases
    <3>3. OthersStay(r, j) /\ child'[r][j] = d
      BY <1>2, <2>1, <3>2
    <3> HIDE DEF d
    <3> QED
      BY <2>2, <3>2, <3>3 DEF ChildKilled, Alive
  <2>3. CASE ~Alive(c)
    <3>1. d = c
      BY <2>3 DEF Killed
    <3>2. OthersStay(r, j) /\ child'[r][j] = c
      BY <1>1, <1>2, <2>1, <3>1
    <3> QED
      BY <2>3, <3>2 DEF ChildKilled
  <2> QED
    BY <2>2, <2>3
<1> QED
  BY <1>3, <1>4, <1>5, <1>6, Zenon

LEMMA NobodysChild == NoChild.phase = "none" /\ NoChild.attempt = NoAttempt /\ NoChild.killed = "no"
  BY DEF NoChild

\* A thread with a job at hand has a child, or the place for one.
LEMMA HolderFacts ==
  ASSUME TypeInv, OneProgram, OnePlace, NEW w \in Threads, Holds(w)
  PROVE  /\ main \in Running /\ run \in Runs
         /\ worker[w] \in Thread
         /\ JobOf(w) \in Jobs
         /\ AttemptOf(w) \in Nat
         /\ ChildOf(w) \in Child
<1>1. main \in Running /\ run \in Runs
  BY DEF OneProgram, Holds, Threads, Running, Parallel, Serial, TypeInv
<1>2. JobOf(w) \in Jobs /\ AttemptOf(w) \in Nat
  BY DEF OnePlace
<1>3. worker[w] \in Thread
  BY DEF TypeInv
<1>4. ChildOf(w) \in Child
  BY <1>1, <1>2 DEF TypeInv, ChildOf
<1> QED
  BY <1>1, <1>2, <1>3, <1>4

-----------------------------------------------------------------------------
\* The steps, by what they make of the thread at hand, of a child and of a record.
LEMMA WorkerEffects ==
  ASSUME TypeInv, OneProgram, OnePlace, NEW w \in Threads
  PROVE  /\ TakeJob(w) =>
              \/ (cancelled \/ queue = {}) /\ ThreadTo(w, "stopped", NoJob) /\ queue' = queue
              \/ ~cancelled /\ \E j \in queue : ThreadTo(w, "check", j) /\ queue' = queue \ {j}
         /\ CheckBefore(w) =>
              \/ cancelled /\ ThreadTo(w, "stopped", NoJob)
              \/ ~cancelled /\ ThreadTo(w, "spawn", JobOf(w))
         /\ Spawn(w) =>
              /\ ThreadTo(w, "register", JobOf(w))
              /\ ChildStarted(run, JobOf(w), AttemptOf(w))
         /\ SpawnFails(w) => ThreadTo(w, "stopped", NoJob)
         /\ Register(w) => ThreadTo(w, "recheck", JobOf(w))
         /\ Recheck(w) =>
              /\ ThreadTo(w, "wait", JobOf(w))
              /\ IF cancelled THEN ChildKilled(run, JobOf(w), "cancel") ELSE child' = child
         /\ WaitEnds(w) => ThreadTo(w, "discard", JobOf(w))
         /\ TimesOut(w) => ThreadTo(w, "discard", JobOf(w)) /\ ChildKilled(run, JobOf(w), "deadline")
         /\ Discard(w) => ThreadTo(w, "checkAfter", JobOf(w))
         /\ CheckAfter(w) =>
              \/ cancelled /\ ThreadTo(w, "stopped", NoJob)
              \/ ~cancelled /\ ThreadTo(w, "lookUp", JobOf(w))
         /\ LookUp(w) =>
              \/ HasRecord(JobOf(w), AttemptOf(w)) /\ ThreadTo(w, "loop", NoJob)
              \/ ~HasRecord(JobOf(w), AttemptOf(w)) /\ ThreadTo(w, "fallback", JobOf(w))
         /\ WriteFallback(w) => ThreadTo(w, "loop", NoJob)
<1>1. /\ worker \in [Threads -> Thread]
      /\ child \in [Runs -> [Jobs -> Child]]
  BY DEF TypeInv
<1>2. TakeJob(w) =>
        \/ (cancelled \/ queue = {}) /\ ThreadTo(w, "stopped", NoJob) /\ queue' = queue
        \/ ~cancelled /\ \E j \in queue : ThreadTo(w, "check", j) /\ queue' = queue \ {j}
  <2>1. ASSUME NEW j \in queue, worker' = [worker EXCEPT ![w] = Taken("check", j)]
        PROVE  ThreadTo(w, "check", j)
    <3>1. j \in Jobs /\ "check" \in Places
      BY DEF Places, TypeInv
    <3> QED
      BY <1>1, <2>1, <3>1, ThreadMoves, Zenon
  <2>2. Stop(w) => ThreadTo(w, "stopped", NoJob)
    BY <1>1, ThreadMoves, Zenon
  <2> QED
    BY <2>1, <2>2 DEF TakeJob, Taken
<1>3. \A p \in Places : GoTo(w, p) => ThreadTo(w, p, JobOf(w))
  BY <1>1, ThreadMoves, Zenon
<1>4. Stop(w) => ThreadTo(w, "stopped", NoJob)
  BY <1>1, ThreadMoves, Zenon
<1>5. Spawn(w) =>
        ThreadTo(w, "register", JobOf(w)) /\ ChildStarted(run, JobOf(w), AttemptOf(w))
  <2> SUFFICES ASSUME Spawn(w)
               PROVE  ThreadTo(w, "register", JobOf(w)) /\ ChildStarted(run, JobOf(w), AttemptOf(w))
    OBVIOUS
  <2>1. JobOf(w) \in Jobs /\ AttemptOf(w) \in Nat /\ run \in Runs
    BY HolderFacts DEF Spawn, Holds
  <2>2. child' = [child EXCEPT ![run][JobOf(w)] = Started(AttemptOf(w))]
    BY DEF Spawn
  <2>3. ChildStarted(run, JobOf(w), AttemptOf(w))
    BY <1>1, <2>1, <2>2, ChildChanges, Zenon
  <2> QED
    BY <1>3, <2>3 DEF Spawn, Places
<1>6. Recheck(w) /\ cancelled => ChildKilled(run, JobOf(w), "cancel")
  <2> SUFFICES ASSUME Recheck(w), cancelled
               PROVE  ChildKilled(run, JobOf(w), "cancel")
    OBVIOUS
  <2>1. JobOf(w) \in Jobs /\ run \in Runs /\ "cancel" \in Killers
    BY HolderFacts DEF Recheck, Holds, Killers
  <2>2. child' = [child EXCEPT ![run][JobOf(w)] = Killed(@, "cancel")]
    BY DEF Recheck
  <2> QED
    BY <1>1, <2>1, <2>2, ChildChanges, Zenon
<1>7. TimesOut(w) =>
        ThreadTo(w, "discard", JobOf(w)) /\ ChildKilled(run, JobOf(w), "deadline")
  <2> SUFFICES ASSUME TimesOut(w)
               PROVE  ThreadTo(w, "discard", JobOf(w)) /\ ChildKilled(run, JobOf(w), "deadline")
    OBVIOUS
  <2>1. JobOf(w) \in Jobs /\ run \in Runs /\ "deadline" \in Killers /\ "discard" \in Places
    BY HolderFacts DEF TimesOut, Holds, Killers, Places
  <2>2. /\ child' = [child EXCEPT ![run][JobOf(w)] = Killed(@, "deadline")]
        /\ worker' = [worker EXCEPT ![w].at = "discard", ![w].timedOut = TRUE]
    BY DEF TimesOut
  <2>3. ChildKilled(run, JobOf(w), "deadline")
    BY <1>1, <2>1, <2>2, ChildChanges, Zenon
  <2>4. ThreadTo(w, "discard", JobOf(w))
    BY <1>1, <2>1, <2>2, ThreadMoves, Zenon
  <2> QED
    BY <2>3, <2>4
<1>8. worker' = [worker EXCEPT ![w] = Looping] => ThreadTo(w, "loop", NoJob)
  BY <1>1, ThreadMoves, Zenon
<1>9. /\ {"spawn", "recheck", "wait", "discard", "checkAfter", "lookUp", "fallback"} \subseteq Places
  BY DEF Places
<1>10. /\ CheckBefore(w) =>
            \/ cancelled /\ ThreadTo(w, "stopped", NoJob)
            \/ ~cancelled /\ ThreadTo(w, "spawn", JobOf(w))
       /\ CheckAfter(w) =>
            \/ cancelled /\ ThreadTo(w, "stopped", NoJob)
            \/ ~cancelled /\ ThreadTo(w, "lookUp", JobOf(w))
       /\ SpawnFails(w) => ThreadTo(w, "stopped", NoJob)
  BY <1>3, <1>4, <1>9 DEF CheckBefore, CheckAfter, SpawnFails
<1>11. /\ Register(w) => ThreadTo(w, "recheck", JobOf(w))
       /\ Recheck(w) => ThreadTo(w, "wait", JobOf(w)) /\ (~cancelled => child' = child)
       /\ WaitEnds(w) => ThreadTo(w, "discard", JobOf(w))
       /\ Discard(w) => ThreadTo(w, "checkAfter", JobOf(w))
  BY <1>3, <1>9 DEF Register, Recheck, WaitEnds, Discard
<1>12. /\ LookUp(w) =>
            \/ HasRecord(JobOf(w), AttemptOf(w)) /\ ThreadTo(w, "loop", NoJob)
            \/ ~HasRecord(JobOf(w), AttemptOf(w)) /\ ThreadTo(w, "fallback", JobOf(w))
       /\ WriteFallback(w) => ThreadTo(w, "loop", NoJob)
  BY <1>3, <1>8, <1>9 DEF LookUp, WriteFallback, Looping
<1> QED
  BY <1>2, <1>5, <1>6, <1>7, <1>10, <1>11, <1>12, Zenon

LEMMA SerialEffects ==
  ASSUME TypeInv, OneProgram, OnePlace
  PROVE  /\ TakeNext =>
              \/ queue = {} /\ ThreadTo(Main, "stopped", NoJob) /\ main' = "returned" /\ queue' = queue
              \/ \E j \in queue :
                   ThreadTo(Main, "spawn", j) /\ queue' = queue \ {j} /\ main' = main
         /\ SpawnAlone =>
              /\ ThreadTo(Main, "install", JobOf(Main))
              /\ ChildStarted(run, JobOf(Main), AttemptOf(Main))
         /\ SpawnAloneFails => ThreadTo(Main, "stopped", NoJob)
         /\ InstallHandlers => ThreadTo(Main, "wait", JobOf(Main))
         /\ WaitAlone =>
              /\ ThreadTo(Main, "lookUp", JobOf(Main))
              /\ \/ ~Alive(ChildOf(Main)) /\ child' = child
                 \/ ChildKilled(run, JobOf(Main), "deadline")
         /\ KillAlone =>
              ThreadTo(Main, "stopped", NoJob) /\ ChildKilled(run, JobOf(Main), "cancel")
         /\ SignalInWait =>
              \/ At("wait") /\ ThreadTo(Main, "kill", JobOf(Main)) /\ main' = main
              \/ At("kill") /\ ThreadTo(Main, "stopped", NoJob) /\ main' = "cancelled"
<1>1. /\ worker \in [Threads -> Thread]
      /\ child \in [Runs -> [Jobs -> Child]]
      /\ Main \in Threads
  BY DEF TypeInv, Threads
<1>2. \A p \in Places : GoTo(Main, p) => ThreadTo(Main, p, JobOf(Main))
  BY <1>1, ThreadMoves, Zenon
<1>3. Stop(Main) => ThreadTo(Main, "stopped", NoJob)
  BY <1>1, ThreadMoves, Zenon
<1>4. TakeNext =>
        \/ queue = {} /\ ThreadTo(Main, "stopped", NoJob) /\ main' = "returned" /\ queue' = queue
        \/ \E j \in queue :
             ThreadTo(Main, "spawn", j) /\ queue' = queue \ {j} /\ main' = main
  <2>1. ASSUME NEW j \in queue, worker' = [worker EXCEPT ![Main] = Taken("spawn", j)]
        PROVE  ThreadTo(Main, "spawn", j)
    <3>1. j \in Jobs /\ "spawn" \in Places
      BY DEF Places, TypeInv
    <3> QED
      BY <1>1, <2>1, <3>1, ThreadMoves, Zenon
  <2> QED
    BY <1>3, <2>1 DEF TakeNext, Taken
<1>5. ASSUME NEW p \in Places, At(p), p \notin {"stopped", "loop"}
      PROVE  JobOf(Main) \in Jobs /\ AttemptOf(Main) \in Nat /\ run \in Runs
  BY <1>1, <1>5, HolderFacts DEF At, Holds
<1>6. SpawnAlone =>
        ThreadTo(Main, "install", JobOf(Main)) /\ ChildStarted(run, JobOf(Main), AttemptOf(Main))
  <2> SUFFICES ASSUME SpawnAlone
               PROVE  /\ ThreadTo(Main, "install", JobOf(Main))
                      /\ ChildStarted(run, JobOf(Main), AttemptOf(Main))
    OBVIOUS
  <2>1. JobOf(Main) \in Jobs /\ AttemptOf(Main) \in Nat /\ run \in Runs
    BY <1>5 DEF SpawnAlone, Places
  <2>2. child' = [child EXCEPT ![run][JobOf(Main)] = Started(AttemptOf(Main))]
    BY DEF SpawnAlone
  <2>3. ChildStarted(run, JobOf(Main), AttemptOf(Main))
    BY <1>1, <2>1, <2>2, ChildChanges, Zenon
  <2> QED
    BY <1>2, <2>3 DEF SpawnAlone, Places
<1>7. WaitAlone =>
        /\ ThreadTo(Main, "lookUp", JobOf(Main))
        /\ \/ ~Alive(ChildOf(Main)) /\ child' = child
           \/ ChildKilled(run, JobOf(Main), "deadline")
  <2> SUFFICES ASSUME WaitAlone
               PROVE  /\ ThreadTo(Main, "lookUp", JobOf(Main))
                      /\ \/ ~Alive(ChildOf(Main)) /\ child' = child
                         \/ ChildKilled(run, JobOf(Main), "deadline")
    OBVIOUS
  <2>1. /\ JobOf(Main) \in Jobs /\ run \in Runs
        /\ "deadline" \in Killers /\ "lookUp" \in Places
    BY <1>5 DEF WaitAlone, Places, Killers
  <2>2. CASE ~Alive(ChildOf(Main)) /\ GoTo(Main, "lookUp") /\ UNCHANGED child
    BY <1>2, <2>1, <2>2
  <2>3. CASE /\ worker' = [worker EXCEPT ![Main].at = "lookUp", ![Main].timedOut = TRUE]
             /\ child' = [child EXCEPT ![run][JobOf(Main)] = Killed(@, "deadline")]
    <3>1. ThreadTo(Main, "lookUp", JobOf(Main))
      BY <1>1, <2>1, <2>3, ThreadMoves, Zenon
    <3>2. ChildKilled(run, JobOf(Main), "deadline")
      BY <1>1, <2>1, <2>3, ChildChanges, Zenon
    <3> QED
      BY <3>1, <3>2
  <2> QED
    BY <2>2, <2>3 DEF WaitAlone
<1>8. KillAlone =>
        ThreadTo(Main, "stopped", NoJob) /\ ChildKilled(run, JobOf(Main), "cancel")
  <2> SUFFICES ASSUME KillAlone
               PROVE  ThreadTo(Main, "stopped", NoJob) /\ ChildKilled(run, JobOf(Main), "cancel")
    OBVIOUS
  <2>1. JobOf(Main) \in Jobs /\ run \in Runs /\ "cancel" \in Killers
    BY <1>5 DEF KillAlone, Places, Killers
  <2>2. child' = [child EXCEPT ![run][JobOf(Main)] = Killed(@, "cancel")]
    BY DEF KillAlone
  <2>3. ChildKilled(run, JobOf(Main), "cancel")
    BY <1>1, <2>1, <2>2, ChildChanges, Zenon
  <2> QED
    BY <1>3, <2>3 DEF KillAlone
<1>9. /\ SpawnAloneFails => ThreadTo(Main, "stopped", NoJob)
      /\ InstallHandlers => ThreadTo(Main, "wait", JobOf(Main))
      /\ SignalInWait =>
           \/ At("wait") /\ ThreadTo(Main, "kill", JobOf(Main)) /\ main' = main
           \/ At("kill") /\ ThreadTo(Main, "stopped", NoJob) /\ main' = "cancelled"
  BY <1>2, <1>3 DEF SpawnAloneFails, InstallHandlers, SignalInWait, Places
<1> QED
  BY <1>4, <1>6, <1>7, <1>8, <1>9, Zenon

LEMMA ChildEffects ==
  ASSUME TypeInv, SamplesFirst, NEW r \in Runs, NEW j \in Jobs
  PROVE  /\ SkipJob(r, j) => child[r][j].phase = "starting" /\ ChildTo(r, j, "ended")
         /\ BeginJob(r, j) =>
              /\ child[r][j].phase = "starting"
              /\ ChildTo(r, j, "computing")
         /\ WriteSamples(r, j) => child[r][j].phase = "computing" /\ ChildTo(r, j, "sampled")
         /\ WriteCompleted(r, j) =>
              /\ child[r][j].phase = "sampled"
              /\ ChildTo(r, j, "recorded")
              /\ \E kind \in Completed : RecordIs(j, child[r][j].attempt, kind, "no")
         /\ WriteWithoutSamples(r, j) =>
              /\ child[r][j].phase = "computing"
              /\ ChildTo(r, j, "recorded")
              /\ \E kind \in Unsupported \cup {"failed"} :
                   RecordIs(j, child[r][j].attempt, kind, "no")
         /\ Exit(r, j) => child[r][j].phase = "recorded" /\ ChildTo(r, j, "ended")
         /\ CrashChild(r, j) =>
              /\ child[r][j].phase \in {"starting", "computing", "sampled"}
              /\ ChildTo(r, j, "ended")
<1> DEFINE c == child[r][j]
<1>1. /\ child \in [Runs -> [Jobs -> Child]]
      /\ records \in [Jobs -> Seq(Record)]
      /\ c \in Child
  BY DEF TypeInv
<1>2. \A p \in Phases, b \in BOOLEAN :
        child' = [child EXCEPT ![r][j].phase = p, ![r][j].ok = b] => ChildTo(r, j, p)
  BY <1>1, ChildChanges, Zenon
<1>3. \A p \in Phases : ChildGoesTo(r, j, p) => ChildTo(r, j, p)
  BY <1>1, ChildChanges, Zenon
<1>4. {"computing", "sampled", "recorded", "ended"} \subseteq Phases
  BY DEF Phases
<1>5. \A b \in BOOLEAN : ChildExits(r, j, b) => ChildTo(r, j, "ended")
  BY <1>2, <1>4 DEF ChildExits
<1>6. c.ok \in BOOLEAN /\ TRUE \in BOOLEAN /\ FALSE \in BOOLEAN
  BY <1>1 DEF Child
<1>7. c.phase # "none" => c.attempt \in Nat /\ c.attempt <= Len(records[j])
  BY DEF SamplesFirst
<1>8. SkipJob(r, j) => c.phase = "starting" /\ ChildTo(r, j, "ended")
  <2>1. \A a : (KindOf(j, a) \in ExitOk) \in BOOLEAN
    OBVIOUS
  <2> QED
    BY <1>5, <2>1, Zenon DEF SkipJob
<1>9. /\ BeginJob(r, j) => c.phase = "starting" /\ ChildTo(r, j, "computing")
      /\ WriteSamples(r, j) => c.phase = "computing" /\ ChildTo(r, j, "sampled")
  BY <1>3, <1>4 DEF BeginJob, WriteSamples
<1>10. Exit(r, j) => c.phase = "recorded" /\ ChildTo(r, j, "ended")
  BY <1>5, <1>6, Zenon DEF Exit
<1>11. CrashChild(r, j) =>
         c.phase \in {"starting", "computing", "sampled"} /\ ChildTo(r, j, "ended")
  BY <1>5, <1>6, Zenon DEF CrashChild
<1>12. ASSUME NEW kind \in Kinds, WriteRecord(j, c.attempt, kind, "no"), c.phase # "none"
       PROVE  RecordIs(j, c.attempt, kind, "no")
  <2>1. "no" \in Killers
    BY DEF Killers
  <2> QED
    BY <1>1, <1>7, <1>12, <2>1, WriteRecordEffect, Zenon
<1>13. Completed \subseteq Kinds /\ Unsupported \cup {"failed"} \subseteq Kinds
  BY DEF Kinds, ExitOk
<1>14. WriteCompleted(r, j) =>
         /\ c.phase = "sampled"
         /\ ChildTo(r, j, "recorded")
         /\ \E kind \in Completed : RecordIs(j, c.attempt, kind, "no")
  <2> SUFFICES ASSUME WriteCompleted(r, j)
               PROVE  /\ c.phase = "sampled"
                      /\ ChildTo(r, j, "recorded")
                      /\ \E kind \in Completed : RecordIs(j, c.attempt, kind, "no")
    OBVIOUS
  <2>1. /\ c.phase = "sampled"
        /\ child' = [child EXCEPT ![r][j].phase = "recorded", ![r][j].ok = TRUE]
    BY DEF WriteCompleted
  <2>2. PICK kind \in Completed : WriteRecord(j, c.attempt, kind, "no")
    BY DEF WriteCompleted
  <2>3. RecordIs(j, c.attempt, kind, "no")
    BY <1>12, <1>13, <2>1, <2>2
  <2>4. ChildTo(r, j, "recorded")
    BY <1>2, <1>4, <1>6, <2>1
  <2> QED
    BY <2>1, <2>3, <2>4
<1>15. WriteWithoutSamples(r, j) =>
         /\ c.phase = "computing"
         /\ ChildTo(r, j, "recorded")
         /\ \E kind \in Unsupported \cup {"failed"} : RecordIs(j, c.attempt, kind, "no")
  <2> SUFFICES ASSUME WriteWithoutSamples(r, j)
               PROVE  /\ c.phase = "computing"
                      /\ ChildTo(r, j, "recorded")
                      /\ \E kind \in Unsupported \cup {"failed"} :
                           RecordIs(j, c.attempt, kind, "no")
    OBVIOUS
  <2>1. c.phase = "computing"
    BY DEF WriteWithoutSamples
  <2>2. PICK kind \in Unsupported \cup {"failed"} :
          /\ WriteRecord(j, c.attempt, kind, "no")
          /\ child' = [child EXCEPT ![r][j].phase = "recorded", ![r][j].ok = kind \in ExitOk]
    BY DEF WriteWithoutSamples
  <2>3. RecordIs(j, c.attempt, kind, "no")
    BY <1>12, <1>13, <2>1, <2>2
  <2>4. ChildTo(r, j, "recorded")
    <3>1. (kind \in ExitOk) \in BOOLEAN /\ "recorded" \in Phases
      BY <1>4
    <3> QED
      BY <1>2, <2>2, <3>1, Zenon
  <2> QED
    BY <2>1, <2>3, <2>4
<1> QED
  BY <1>8, <1>9, <1>10, <1>11, <1>14, <1>15, Zenon

FrameTo(f) ==
  /\ frames' \in Seq(Frame) /\ frames' # <<>>
  /\ Len(frames') = Len(frames)
  /\ frames'[Len(frames)] = f
  /\ \A i \in 1 .. Len(frames) : i # Len(frames) => frames'[i] = frames[i]

LEMMA HandlerEffects ==
  ASSUME TypeInv, OneProgram, main = Parallel, frames # <<>>
  PROVE  /\ SetEvent => \E f \in Frame : f.at = "lock" /\ FrameTo(f)
         /\ LockRegistry => \E f \in Frame : f.at = "copy" /\ FrameTo(f)
         /\ CopyRegistry => \E f \in Frame : f.at = "kill" /\ f.procs = registry /\ FrameTo(f)
         /\ KillOne =>
              \E j \in Top.procs, f \in Frame :
                /\ j \in Jobs /\ ChildKilled(run, j, "cancel")
                /\ f.at = "kill" /\ f.procs = Top.procs \ {j} /\ FrameTo(f)
         /\ HandlerReturns =>
              /\ frames' \in Seq(Frame)
              /\ Len(frames') = Len(frames) - 1
              /\ \A i \in 1 .. Len(frames) - 1 : frames'[i] = frames[i]
<1>1. frames \in Seq(Frame) /\ registry \in SUBSET Jobs /\ child \in [Runs -> [Jobs -> Child]]
  BY DEF TypeInv
<1>2. Len(frames) \in Nat /\ Len(frames) > 0 /\ Top \in Frame
  BY <1>1, TopFrame
<1>3. \A f \in Frame : ReplaceTop(f) => FrameTo(f)
  BY <1>1, ReplaceTopEffect DEF FrameTo
<1>4. SetEvent => \E f \in Frame : f.at = "lock" /\ FrameTo(f)
  <2>1. [Top EXCEPT !.at = "lock"] \in Frame /\ [Top EXCEPT !.at = "lock"].at = "lock"
    BY <1>2 DEF Frame
  <2> QED
    BY <1>3, <2>1, Zenon DEF SetEvent
<1>5. LockRegistry => \E f \in Frame : f.at = "copy" /\ FrameTo(f)
  <2>1. [Top EXCEPT !.at = "copy"] \in Frame /\ [Top EXCEPT !.at = "copy"].at = "copy"
    BY <1>2 DEF Frame
  <2> QED
    BY <1>3, <2>1, Zenon DEF LockRegistry
<1>6. CopyRegistry => \E f \in Frame : f.at = "kill" /\ f.procs = registry /\ FrameTo(f)
  <2> DEFINE f == [at |-> "kill", procs |-> registry]
  <2>1. f \in Frame /\ f.at = "kill" /\ f.procs = registry
    BY <1>1 DEF Frame
  <2>2. CopyRegistry => ReplaceTop(f)
    BY DEF CopyRegistry
  <2> HIDE DEF f
  <2> QED
    BY <1>3, <2>1, <2>2, Zenon
<1>7. KillOne =>
        \E j \in Top.procs, f \in Frame :
          /\ j \in Jobs /\ ChildKilled(run, j, "cancel")
          /\ f.at = "kill" /\ f.procs = Top.procs \ {j} /\ FrameTo(f)
  <2> SUFFICES ASSUME KillOne
               PROVE  \E j \in Top.procs, f \in Frame :
                        /\ j \in Jobs /\ ChildKilled(run, j, "cancel")
                        /\ f.at = "kill" /\ f.procs = Top.procs \ {j} /\ FrameTo(f)
    OBVIOUS
  <2>1. PICK j \in Top.procs :
          /\ child' = [child EXCEPT ![run][j] = Killed(@, "cancel")]
          /\ ReplaceTop([Top EXCEPT !.procs = @ \ {j}])
    BY DEF KillOne
  <2>2. j \in Jobs
    BY <1>2 DEF Frame
  <2>3. run \in Runs /\ "cancel" \in Killers
    BY DEF OneProgram, Killers, Parallel
  <2>4. ChildKilled(run, j, "cancel")
    BY <1>1, <2>1, <2>2, <2>3, ChildChanges, Zenon
  <2> DEFINE f == [Top EXCEPT !.procs = @ \ {j}]
  <2>5. Top.at = "kill"
    BY DEF KillOne
  <2>6. f \in Frame /\ f.at = "kill" /\ f.procs = Top.procs \ {j}
    BY <1>2, <2>5 DEF Frame
  <2>7. ReplaceTop(f)
    BY <2>1
  <2> HIDE DEF f
  <2> QED
    BY <1>3, <2>2, <2>4, <2>6, <2>7
<1>8. HandlerReturns =>
        /\ frames' \in Seq(Frame)
        /\ Len(frames') = Len(frames) - 1
        /\ \A i \in 1 .. Len(frames) - 1 : frames'[i] = frames[i]
  <2> DEFINE n == Len(frames) - 1
  <2>1. n \in Nat /\ 1 \in Int /\ \A i \in 1 .. n : frames[i] \in Frame
    BY <1>1, <1>2, ElementOfSeq
  <2>2. HandlerReturns => frames' = SubSeq(frames, 1, n)
    BY DEF HandlerReturns
  <2> HIDE DEF n
  <2>3. /\ SubSeq(frames, 1, n) \in Seq(Frame)
        /\ Len(SubSeq(frames, 1, n)) = n
        /\ \A i \in 1 .. n : SubSeq(frames, 1, n)[i] = frames[i]
    BY <2>1, SubSeqProperties
  <2> QED
    BY <2>2, <2>3 DEF n
<1> QED
  BY <1>4, <1>5, <1>6, <1>7, <1>8, Zenon

LEMMA SignalEffect ==
  ASSUME TypeInv, Signal
  PROVE  /\ frames' \in Seq(Frame)
         /\ Len(frames') = Len(frames) + 1
         /\ \A i \in 1 .. Len(frames) : frames'[i] = frames[i]
         /\ frames'[Len(frames) + 1].at = "set"
<1> DEFINE f == [at |-> "set", procs |-> {}]
<1>1. f \in Frame /\ f.at = "set"
  BY DEF Frame
<1>2. frames \in Seq(Frame) /\ frames' = Append(frames, f)
  BY DEF TypeInv, Signal
<1> HIDE DEF f
<1> QED
  BY <1>1, <1>2

LEMMA StartRunEffect ==
  ASSUME TypeInv, StartRun
  PROVE  /\ run' = run + 1 /\ run' \in Runs
         /\ main' \in Running
         /\ \A j \in Jobs : planned'[j] \in {NoAttempt, Len(records[j])}
         /\ planned' \in [Jobs -> Int]
         /\ worker' \in [Threads -> Thread]
         /\ \A w \in Threads :
              worker'[w].at = IF (w = Main) = (main' = Serial) THEN "loop" ELSE "stopped"
<1>1. run' = run + 1 /\ run' \in Runs
  <2>1. budget.runs \in Nat
    BY BudgetsAssumption DEF TypeInv
  <2> QED
    BY <2>1 DEF TypeInv, StartRun, Runs
<1>2. main' \in Running
  <2>1. budget.paths \in SUBSET Running
    BY BudgetsAssumption DEF TypeInv
  <2> QED
    BY <2>1 DEF StartRun
<1>3. \A j \in Jobs : Len(records[j]) \in Nat
  BY DEF TypeInv
<1>4. PICK repeat \in BOOLEAN :
        planned' = [j \in Jobs |-> IF repeat THEN ResolveRepeat(j) ELSE Resolve(j)]
  BY DEF StartRun
<1>5. \A j \in Jobs : /\ Resolve(j) \in {NoAttempt, Len(records[j])}
                      /\ ResolveRepeat(j) \in {NoAttempt, Len(records[j])}
  BY DEF Resolve, ResolveRepeat, NextAttempt
<1>6. \A j \in Jobs : planned'[j] \in {NoAttempt, Len(records[j])}
  BY <1>4, <1>5
<1>7. planned' \in [Jobs -> Int]
  BY <1>3, <1>4, <1>5 DEF NoAttempt
<1>8. worker' = [w \in Threads |-> IF (w = Main) = (main' = Serial) THEN Looping ELSE Idle]
  BY DEF StartRun, Looping
<1>9. Looping.at = "loop" /\ Idle.at = "stopped"
  BY DEF Looping, Idle
<1>10. worker' \in [Threads -> Thread]
  <2>1. Looping \in Thread /\ Idle \in Thread
    BY NewThreads, Zenon
  <2> QED
    BY <1>8, <2>1
<1>11. \A w \in Threads :
         worker'[w].at = IF (w = Main) = (main' = Serial) THEN "loop" ELSE "stopped"
  BY <1>8, <1>9
<1> QED
  BY <1>1, <1>2, <1>6, <1>7, <1>10, <1>11

LEMMA ParentDiesEffect ==
  ASSUME TypeInv, ParentDies
  PROVE  /\ worker' \in [Threads -> Thread]
         /\ \A w \in Threads : worker'[w].at = "stopped"
         /\ frames' = <<>> /\ frames' \in Seq(Frame)
<1>1. worker' = [w \in Threads |-> Idle] /\ frames' = <<>>
  BY DEF ParentDies
<1>2. Idle.at = "stopped"
  BY DEF Idle
<1>3. Idle \in Thread
  BY NewThreads, Zenon
<1> QED
  BY <1>1, <1>2, <1>3, EmptySeq

LEMMA FallbackEffect ==
  ASSUME TypeInv, OneProgram, OnePlace, SamplesFirst, NEW w \in Threads, WriteFallback(w)
  PROVE  \E kind \in Fallback : RecordIs(JobOf(w), AttemptOf(w), kind, ChildOf(w).killed)
<1>1. JobOf(w) \in Jobs /\ AttemptOf(w) \in Nat /\ ChildOf(w) \in Child
  BY HolderFacts DEF WriteFallback, Holds
<1>2. AttemptOf(w) <= Len(records[JobOf(w)])
  BY <1>1 DEF SamplesFirst, AttemptOf
<1>3. FallbackKind(w) \in Fallback /\ FallbackKind(w) \in Kinds
  BY DEF FallbackKind, Fallback, Kinds
<1>4. ChildOf(w).killed \in Killers
  BY <1>1 DEF Child
<1>5. records \in [Jobs -> Seq(Record)]
  BY DEF TypeInv
<1>6. WriteRecord(JobOf(w), AttemptOf(w), FallbackKind(w), ChildOf(w).killed)
  BY DEF WriteFallback
<1>7. RecordIs(JobOf(w), AttemptOf(w), FallbackKind(w), ChildOf(w).killed)
  BY <1>1, <1>2, <1>3, <1>4, <1>5, <1>6, WriteRecordEffect, Zenon
<1> QED
  BY <1>3, <1>7

\* A child that changes is one that was started.
LEMMA ChildrenAhead ==
  ASSUME TypeInv, NoChildAhead, run' = run, Runs' = Runs,
         NEW r \in Runs, NEW j \in Jobs, OthersStay(r, j),
         r = run \/ child[r][j].phase # "none"
  PROVE  NoChildAhead'
<1>1. ~(r > run)
  BY NobodysChild DEF NoChildAhead, TypeInv
<1> QED
  BY <1>1 DEF NoChildAhead, OthersStay

\* Nobody comes back to life.
LEMMA ChildrenAlive ==
  ASSUME TypeInv, ChildrenHaveAThread, UNCHANGED <<run, main, worker>>, Runs' = Runs,
         main \in Running => run \in Runs,
         NEW r \in Runs, NEW j \in Jobs, OthersStay(r, j),
         Alive(child'[r][j]) => Alive(child[r][j])
  PROVE  ChildrenHaveAThread'
<1>1. ASSUME main \in Running, NEW k \in Jobs, Alive(child'[run][k])
      PROVE  Alive(child[run][k])
  BY <1>1 DEF OthersStay
<1> QED
  BY <1>1 DEF ChildrenHaveAThread, InCharge, JobOf

\* A thread takes a job that nobody has.
LEMMA TakenFromQueue ==
  ASSUME TypeInv, OnePlace, UNCHANGED planned,
         NEW w \in Threads, ~Holds(w), NEW j \in queue, NEW p \in Places,
         ThreadTo(w, p, j), queue' = queue \ {j}
  PROVE  OnePlace'
<1>1. j \in Jobs /\ planned[j] \in Nat
  BY DEF TypeInv, OnePlace
<1>2. \A v \in Threads : v # w => worker'[v] = worker[v]
  BY DEF ThreadTo
<1>3. JobOf(w)' = j
  BY DEF ThreadTo, JobOf
<1>4. \A v \in Threads : v # w /\ Holds(v)' => Holds(v) /\ JobOf(v)' = JobOf(v) /\ JobOf(v) # j
  BY <1>2 DEF Holds, JobOf, OnePlace
<1>5. \A v \in Threads : Holds(v)' => JobOf(v)' \in Jobs \ queue' /\ AttemptOf(v)' \in Nat
  BY <1>1, <1>3, <1>4 DEF OnePlace, AttemptOf
<1>6. \A u, v \in Threads : Holds(u)' /\ Holds(v)' /\ JobOf(u)' = JobOf(v)' => u = v
  BY <1>3, <1>4 DEF OnePlace
<1> QED
  BY <1>5, <1>6 DEF OnePlace

\* What a behaviour may spend does not change.
LEMMA BudgetKept == ASSUME [Next]_vars PROVE budget' = budget
  BY DEF Next, StartRun, WorkerStep, TakeJob, CheckBefore, Spawn, SpawnFails, Register, Recheck,
         WaitEnds, TimesOut, Discard, CheckAfter, LookUp, WriteFallback, AnyChildStep, ChildStep,
         Signal, MainStep, HandlerStep, JoinWorkers, SerialStep, TakeNext, SpawnAlone,
         SpawnAloneFails, InstallHandlers, WaitAlone, KillAlone, SignalAlone, SignalInWait,
         SignalOutsideWait, ParentDies, KillParent, Finished, vars, disk, parent

LEMMA ControlInit == Init => ControlInv
<1> SUFFICES ASSUME Init PROVE ControlInv
  OBVIOUS
<1>1. /\ worker = [w \in Threads |-> Idle]
      /\ child = [r \in Runs |-> [j \in Jobs |-> NoChild]]
      /\ main = "off" /\ run = 0 /\ queue = {} /\ registry = {} /\ frames = <<>>
      /\ signals = 0 /\ kills = 0 /\ budget \in Budgets
      /\ planned = [j \in Jobs |-> NoAttempt]
  BY DEF Init
<1>2. \A w \in Threads : worker[w].at = "stopped"
  BY <1>1 DEF Idle
<1>3. Idle \in Thread
  BY NewThreads, Zenon
<1>4. NoChild \in Child
  <2>1. FALSE \in BOOLEAN
    BY Zenon
  <2> QED
    BY <2>1 DEF NoChild, NoAttempt, Child, Phases, Killers
<1>5. records \in [Jobs -> Seq(Record)]
  <2> DEFINE first == [kind |-> "unsupported", killed |-> "no"]
  <2>1. first \in Record
    BY DEF Record, Kinds, Killers, ExitOk, Unsupported
  <2>2. records = [j \in Jobs |-> IF j \in budget.done THEN <<first>> ELSE <<>>]
    BY DEF Init
  <2> HIDE DEF first
  <2> QED
    BY <2>1, <2>2
<1>6. TypeInv
  BY <1>1, <1>3, <1>4, <1>5, EmptySeq DEF TypeInv, Mains, NoAttempt
<1>7. OneProgram /\ OnePlace
  BY <1>1, <1>2, WorkersAssumption
     DEF OneProgram, OnePlace, Holds, Threads, Parallel, Serial
<1>8. NoChildAhead /\ ChildrenHaveAThread
  BY <1>1 DEF NoChildAhead, ChildrenHaveAThread, Running, Parallel, Serial
<1> QED
  BY <1>6, <1>7, <1>8 DEF ControlInv

LEMMA ControlStep ==
  ASSUME ControlInv, SamplesFirst, [Next]_vars
  PROVE  ControlInv'
<1>0. TypeInv /\ OneProgram /\ OnePlace /\ NoChildAhead /\ ChildrenHaveAThread
     /\ SamplesFirst
  BY DEF ControlInv
<1>1. CASE StartRun
  <2>1. /\ run' = run + 1 /\ run' \in Runs
        /\ main' \in Running
        /\ \A j \in Jobs : planned'[j] \in {NoAttempt, Len(records[j])}
        /\ planned' \in [Jobs -> Int]
        /\ worker' \in [Threads -> Thread]
        /\ \A w \in Threads :
             worker'[w].at = IF (w = Main) = (main' = Serial) THEN "loop" ELSE "stopped"
    BY <1>1, <1>0, StartRunEffect, Zenon
  <2>2. /\ queue' = {j \in Jobs : planned'[j] # NoAttempt}
        /\ registry' = {} /\ frames' = <<>> /\ signals' = 0
        /\ UNCHANGED <<budget, records, samples, child, kills>>
    BY <1>1 DEF StartRun, disk
  <2>3. TypeInv'
    <3>1. Runs' = Runs /\ frames' \in Seq(Frame) /\ queue' \in SUBSET Jobs
      BY <2>2, SameRuns, EmptySeq
    <3>2. main' \in Mains /\ run' \in Nat
      BY <1>0, <2>1 DEF TypeInv, Mains, Running
    <3> QED
      BY <1>0, <2>1, <2>2, <3>1, <3>2 DEF TypeInv
  <2>4. OneProgram'
    BY <2>1, <2>2, SameRuns, WorkersAssumption DEF OneProgram, Threads, Running, Parallel, Serial
  <2>5. OnePlace'
    BY <1>0, <2>1, <2>2 DEF OnePlace, Holds, TypeInv
  <2>6. NoChildAhead' /\ ChildrenHaveAThread'
    <3>1. Runs' = Runs /\ run \in Nat /\ child' = child /\ run' \in Nat
      BY <1>0, <2>1, <2>2, SameRuns DEF TypeInv
    <3>2. \A r \in Runs : r > run => \A j \in Jobs : child[r][j] = NoChild
      BY <1>0 DEF NoChildAhead
    <3>3. \A r \in Runs : r >= run' => \A j \in Jobs : child'[r][j] = NoChild
      BY <2>1, <3>1, <3>2 DEF Runs
    <3>4. \A j \in Jobs : ~Alive(child'[run'][j])
      BY <2>1, <3>1, <3>3, NobodysChild DEF Alive, Runs
    <3>5. NoChildAhead'
      BY <2>1, <3>1, <3>2 DEF NoChildAhead
    <3> QED
      BY <3>4, <3>5 DEF ChildrenHaveAThread
  <2> QED
    BY <2>3, <2>4, <2>5, <2>6 DEF ControlInv
<1>2. ASSUME NEW w \in Workers, main = Parallel, TakeJob(w) PROVE ControlInv'
  <2>1. \/ (cancelled \/ queue = {}) /\ ThreadTo(w, "stopped", NoJob) /\ queue' = queue
        \/ ~cancelled /\ \E j \in queue : ThreadTo(w, "check", j) /\ queue' = queue \ {j}
    BY <1>2, <1>0, WorkerEffects, Zenon DEF Threads
  <2>2. /\ worker[w].at = "loop"
        /\ UNCHANGED <<budget, records, samples, run, main, planned, child,
                       registry, cancelled, frames, errors, signals, kills>>
    BY <1>2 DEF TakeJob, disk, parent, cancelling
  <2>3. TypeInv'
    BY <1>0, <2>1, <2>2, SameRuns DEF TypeInv, ThreadTo
  <2>4. OneProgram' /\ OnePlace'
    <3>1. w \in Threads /\ "check" \in Places /\ ~Holds(w)
      BY <2>2 DEF Threads, Places, Holds
    <3>2. OneProgram'
      BY <1>2, <1>0, <2>1, <2>2, SameRuns, WorkersAssumption
         DEF OneProgram, ThreadTo, Threads, Parallel, Serial
    <3>3. ASSUME queue' = queue, ThreadTo(w, "stopped", NoJob)
          PROVE  OnePlace'
      BY <1>0, <2>2, <3>1, <3>3 DEF OnePlace, Holds, JobOf, AttemptOf, ThreadTo
    <3>4. ASSUME NEW j \in queue, ThreadTo(w, "check", j), queue' = queue \ {j}
          PROVE  OnePlace'
      BY <1>0, <2>2, <3>1, <3>4, TakenFromQueue
    <3> QED
      BY <2>1, <3>2, <3>3, <3>4
  <2>5. NoChildAhead'
    BY <1>0, <2>1, <2>2, SameRuns DEF NoChildAhead
  <2>6. ChildrenHaveAThread'
    BY <1>2, <1>0, <2>1, <2>2, SameRuns, HolderFacts DEF ChildrenHaveAThread,
                                                       OnePlace, Holds, InCharge,
                                                       JobOf, ChildOf, Alive,
                                                       Threads, Running, Parallel,
                                                       Serial, ThreadTo
  <2> QED
    BY <2>3, <2>4, <2>5, <2>6 DEF ControlInv
<1>3. ASSUME NEW w \in Workers, main = Parallel, CheckBefore(w) PROVE ControlInv'
  <2>1. \/ cancelled /\ ThreadTo(w, "stopped", NoJob)
        \/ ~cancelled /\ ThreadTo(w, "spawn", JobOf(w))
    BY <1>3, <1>0, WorkerEffects, Zenon DEF Threads
  <2>2. /\ worker[w].at = "check"
        /\ UNCHANGED <<budget, records, samples, run, main, planned, queue, child,
                       registry, cancelled, frames, errors, signals, kills>>
    BY <1>3 DEF CheckBefore, disk, parent, cancelling
  <2>3. TypeInv'
    BY <1>0, <2>1, <2>2, SameRuns DEF TypeInv, ThreadTo
  <2>4. OneProgram' /\ OnePlace'
    BY <1>3, <1>0, <2>1, <2>2, SameRuns, HolderFacts DEF OneProgram, OnePlace, Holds,
                                                       JobOf, AttemptOf, Threads,
                                                       Parallel, Serial, Running,
                                                       ThreadTo
  <2>5. NoChildAhead'
    BY <1>0, <2>1, <2>2, SameRuns DEF NoChildAhead
  <2>6. ChildrenHaveAThread'
    BY <1>3, <1>0, <2>1, <2>2, SameRuns, HolderFacts DEF ChildrenHaveAThread,
                                                       OnePlace, Holds, InCharge,
                                                       JobOf, ChildOf, Alive,
                                                       Threads, Running, Parallel,
                                                       Serial, ThreadTo
  <2> QED
    BY <2>3, <2>4, <2>5, <2>6 DEF ControlInv
<1>4. ASSUME NEW w \in Workers, main = Parallel, Spawn(w) PROVE ControlInv'
  <2>1. ThreadTo(w, "register", JobOf(w)) /\ ChildStarted(run, JobOf(w), AttemptOf(w))
    BY <1>4, <1>0, WorkerEffects, Zenon DEF Threads
  <2>2. /\ worker[w].at = "spawn"
        /\ UNCHANGED <<budget, records, samples, run, main, planned, queue,
                       registry, cancelled, frames, errors, signals, kills>>
    BY <1>4 DEF Spawn, disk, parent, cancelling
  <2>3. TypeInv'
    BY <1>0, <2>1, <2>2, SameRuns DEF TypeInv, ThreadTo, ChildStarted, OthersStay
  <2>4. OneProgram' /\ OnePlace'
    BY <1>4, <1>0, <2>1, <2>2, SameRuns, HolderFacts DEF OneProgram, OnePlace, Holds,
                                                       JobOf, AttemptOf, Threads,
                                                       Parallel, Serial, Running,
                                                       ThreadTo
  <2>5. NoChildAhead'
    BY <1>4, <1>0, <2>1, <2>2, SameRuns, HolderFacts, ChildrenAhead
       DEF Holds, Threads, NoChildAhead, ChildStarted, ChildKilled
  <2>6. ChildrenHaveAThread'
    BY <1>4, <1>0, <2>1, <2>2, SameRuns, HolderFacts DEF ChildrenHaveAThread,
                                                       OnePlace, Holds, InCharge,
                                                       JobOf, ChildOf, Alive,
                                                       Threads, Running, Parallel,
                                                       Serial, ThreadTo,
                                                       ChildStarted, OthersStay
  <2> QED
    BY <2>3, <2>4, <2>5, <2>6 DEF ControlInv
<1>5. ASSUME NEW w \in Workers, main = Parallel, SpawnFails(w) PROVE ControlInv'
  <2>1. ThreadTo(w, "stopped", NoJob)
    BY <1>5, <1>0, WorkerEffects, Zenon DEF Threads
  <2>2. /\ worker[w].at = "spawn"
        /\ errors' = TRUE
        /\ UNCHANGED <<budget, records, samples, run, main, planned, queue, child,
                       registry, cancelled, frames, signals, kills>>
    BY <1>5 DEF SpawnFails, disk, parent, cancelling
  <2>3. TypeInv'
    BY <1>0, <2>1, <2>2, SameRuns DEF TypeInv, ThreadTo
  <2>4. OneProgram' /\ OnePlace'
    BY <1>5, <1>0, <2>1, <2>2, SameRuns, HolderFacts DEF OneProgram, OnePlace, Holds,
                                                       JobOf, AttemptOf, Threads,
                                                       Parallel, Serial, Running,
                                                       ThreadTo
  <2>5. NoChildAhead'
    BY <1>0, <2>1, <2>2, SameRuns DEF NoChildAhead
  <2>6. ChildrenHaveAThread'
    BY <1>5, <1>0, <2>1, <2>2, SameRuns, HolderFacts DEF ChildrenHaveAThread,
                                                       OnePlace, Holds, InCharge,
                                                       JobOf, ChildOf, Alive,
                                                       Threads, Running, Parallel,
                                                       Serial, ThreadTo
  <2> QED
    BY <2>3, <2>4, <2>5, <2>6 DEF ControlInv
<1>6. ASSUME NEW w \in Workers, main = Parallel, Register(w) PROVE ControlInv'
  <2>1. ThreadTo(w, "recheck", JobOf(w))
    BY <1>6, <1>0, WorkerEffects, Zenon DEF Threads
  <2>2. /\ worker[w].at = "register"
        /\ registry' = registry \cup {JobOf(w)} /\ ~Locked
        /\ UNCHANGED <<budget, records, samples, run, main, planned, queue, child,
                       cancelled, frames, errors, signals, kills>>
    BY <1>6 DEF Register, disk, parent, cancelling
  <2>3. TypeInv'
    BY <1>0, <2>1, <2>2, SameRuns, HolderFacts DEF TypeInv, ThreadTo, Holds, Threads
  <2>4. OneProgram' /\ OnePlace'
    BY <1>6, <1>0, <2>1, <2>2, SameRuns, HolderFacts DEF OneProgram, OnePlace, Holds,
                                                       JobOf, AttemptOf, Threads,
                                                       Parallel, Serial, Running,
                                                       ThreadTo
  <2>5. NoChildAhead'
    BY <1>0, <2>1, <2>2, SameRuns DEF NoChildAhead
  <2>6. ChildrenHaveAThread'
    BY <1>6, <1>0, <2>1, <2>2, SameRuns, HolderFacts DEF ChildrenHaveAThread,
                                                       OnePlace, Holds, InCharge,
                                                       JobOf, ChildOf, Alive,
                                                       Threads, Running, Parallel,
                                                       Serial, ThreadTo
  <2> QED
    BY <2>3, <2>4, <2>5, <2>6 DEF ControlInv
<1>7. ASSUME NEW w \in Workers, main = Parallel, Recheck(w) PROVE ControlInv'
  <2>1. /\ ThreadTo(w, "wait", JobOf(w))
        /\ IF cancelled THEN ChildKilled(run, JobOf(w), "cancel") ELSE child' = child
    BY <1>7, <1>0, WorkerEffects, Zenon DEF Threads
  <2>2. /\ worker[w].at = "recheck"
        /\ UNCHANGED <<budget, records, samples, run, main, planned, queue,
                       registry, cancelled, frames, errors, signals, kills>>
    BY <1>7 DEF Recheck, disk, parent, cancelling
  <2>3. TypeInv'
    BY <1>0, <2>1, <2>2, SameRuns DEF TypeInv, ThreadTo, ChildKilled, OthersStay
  <2>4. OneProgram' /\ OnePlace'
    BY <1>7, <1>0, <2>1, <2>2, SameRuns, HolderFacts DEF OneProgram, OnePlace, Holds,
                                                       JobOf, AttemptOf, Threads,
                                                       Parallel, Serial, Running,
                                                       ThreadTo
  <2>5. NoChildAhead'
    BY <1>7, <1>0, <2>1, <2>2, SameRuns, HolderFacts, ChildrenAhead
       DEF Holds, Threads, NoChildAhead, ChildStarted, ChildKilled
  <2>6. ChildrenHaveAThread'
    BY <1>7, <1>0, <2>1, <2>2, SameRuns, HolderFacts DEF ChildrenHaveAThread,
                                                       OnePlace, Holds, InCharge,
                                                       JobOf, ChildOf, Alive,
                                                       Threads, Running, Parallel,
                                                       Serial, ThreadTo,
                                                       ChildKilled, OthersStay
  <2> QED
    BY <2>3, <2>4, <2>5, <2>6 DEF ControlInv
<1>8. ASSUME NEW w \in Workers, main = Parallel, WaitEnds(w) PROVE ControlInv'
  <2>1. ThreadTo(w, "discard", JobOf(w))
    BY <1>8, <1>0, WorkerEffects, Zenon DEF Threads
  <2>2. /\ worker[w].at = "wait"
        /\ ~Alive(ChildOf(w))
        /\ UNCHANGED <<budget, records, samples, run, main, planned, queue, child,
                       registry, cancelled, frames, errors, signals, kills>>
    BY <1>8 DEF WaitEnds, disk, parent, cancelling
  <2>3. TypeInv'
    BY <1>0, <2>1, <2>2, SameRuns DEF TypeInv, ThreadTo
  <2>4. OneProgram' /\ OnePlace'
    BY <1>8, <1>0, <2>1, <2>2, SameRuns, HolderFacts DEF OneProgram, OnePlace, Holds,
                                                       JobOf, AttemptOf, Threads,
                                                       Parallel, Serial, Running,
                                                       ThreadTo
  <2>5. NoChildAhead'
    BY <1>0, <2>1, <2>2, SameRuns DEF NoChildAhead
  <2>6. ChildrenHaveAThread'
    BY <1>8, <1>0, <2>1, <2>2, SameRuns, HolderFacts DEF ChildrenHaveAThread,
                                                       OnePlace, Holds, InCharge,
                                                       JobOf, ChildOf, Alive,
                                                       Threads, Running, Parallel,
                                                       Serial, ThreadTo
  <2> QED
    BY <2>3, <2>4, <2>5, <2>6 DEF ControlInv
<1>9. ASSUME NEW w \in Workers, main = Parallel, TimesOut(w) PROVE ControlInv'
  <2>1. ThreadTo(w, "discard", JobOf(w)) /\ ChildKilled(run, JobOf(w), "deadline")
    BY <1>9, <1>0, WorkerEffects, Zenon DEF Threads
  <2>2. /\ worker[w].at = "wait"
        /\ UNCHANGED <<budget, records, samples, run, main, planned, queue,
                       registry, cancelled, frames, errors, signals, kills>>
    BY <1>9 DEF TimesOut, disk, parent, cancelling
  <2>3. TypeInv'
    BY <1>0, <2>1, <2>2, SameRuns DEF TypeInv, ThreadTo, ChildKilled, OthersStay
  <2>4. OneProgram' /\ OnePlace'
    BY <1>9, <1>0, <2>1, <2>2, SameRuns, HolderFacts DEF OneProgram, OnePlace, Holds,
                                                       JobOf, AttemptOf, Threads,
                                                       Parallel, Serial, Running,
                                                       ThreadTo
  <2>5. NoChildAhead'
    BY <1>9, <1>0, <2>1, <2>2, SameRuns, HolderFacts, ChildrenAhead
       DEF Holds, Threads, NoChildAhead, ChildStarted, ChildKilled
  <2>6. ChildrenHaveAThread'
    BY <1>9, <1>0, <2>1, <2>2, SameRuns, HolderFacts DEF ChildrenHaveAThread,
                                                       OnePlace, Holds, InCharge,
                                                       JobOf, ChildOf, Alive,
                                                       Threads, Running, Parallel,
                                                       Serial, ThreadTo,
                                                       ChildKilled, OthersStay
  <2> QED
    BY <2>3, <2>4, <2>5, <2>6 DEF ControlInv
<1>10. ASSUME NEW w \in Workers, main = Parallel, Discard(w) PROVE ControlInv'
  <2>1. ThreadTo(w, "checkAfter", JobOf(w))
    BY <1>10, <1>0, WorkerEffects, Zenon DEF Threads
  <2>2. /\ worker[w].at = "discard"
        /\ registry' = registry \ {JobOf(w)} /\ ~Locked
        /\ UNCHANGED <<budget, records, samples, run, main, planned, queue, child,
                       cancelled, frames, errors, signals, kills>>
    BY <1>10 DEF Discard, disk, parent, cancelling
  <2>3. TypeInv'
    BY <1>0, <2>1, <2>2, SameRuns DEF TypeInv, ThreadTo
  <2>4. OneProgram' /\ OnePlace'
    BY <1>10, <1>0, <2>1, <2>2, SameRuns, HolderFacts DEF OneProgram, OnePlace, Holds,
                                                       JobOf, AttemptOf, Threads,
                                                       Parallel, Serial, Running,
                                                       ThreadTo
  <2>5. NoChildAhead'
    BY <1>0, <2>1, <2>2, SameRuns DEF NoChildAhead
  <2>6. ChildrenHaveAThread'
    BY <1>10, <1>0, <2>1, <2>2, SameRuns, HolderFacts DEF ChildrenHaveAThread,
                                                       OnePlace, Holds, InCharge,
                                                       JobOf, ChildOf, Alive,
                                                       Threads, Running, Parallel,
                                                       Serial, ThreadTo
  <2> QED
    BY <2>3, <2>4, <2>5, <2>6 DEF ControlInv
<1>11. ASSUME NEW w \in Workers, main = Parallel, CheckAfter(w) PROVE ControlInv'
  <2>1. \/ cancelled /\ ThreadTo(w, "stopped", NoJob)
        \/ ~cancelled /\ ThreadTo(w, "lookUp", JobOf(w))
    BY <1>11, <1>0, WorkerEffects, Zenon DEF Threads
  <2>2. /\ worker[w].at = "checkAfter"
        /\ UNCHANGED <<budget, records, samples, run, main, planned, queue, child,
                       registry, cancelled, frames, errors, signals, kills>>
    BY <1>11 DEF CheckAfter, disk, parent, cancelling
  <2>3. TypeInv'
    BY <1>0, <2>1, <2>2, SameRuns DEF TypeInv, ThreadTo
  <2>4. OneProgram' /\ OnePlace'
    BY <1>11, <1>0, <2>1, <2>2, SameRuns, HolderFacts DEF OneProgram, OnePlace, Holds,
                                                       JobOf, AttemptOf, Threads,
                                                       Parallel, Serial, Running,
                                                       ThreadTo
  <2>5. NoChildAhead'
    BY <1>0, <2>1, <2>2, SameRuns DEF NoChildAhead
  <2>6. ChildrenHaveAThread'
    BY <1>11, <1>0, <2>1, <2>2, SameRuns, HolderFacts DEF ChildrenHaveAThread,
                                                       OnePlace, Holds, InCharge,
                                                       JobOf, ChildOf, Alive,
                                                       Threads, Running, Parallel,
                                                       Serial, ThreadTo
  <2> QED
    BY <2>3, <2>4, <2>5, <2>6 DEF ControlInv
<1>12. ASSUME NEW w \in Threads, main \in Running, LookUp(w) PROVE ControlInv'
  <2>1. \/ HasRecord(JobOf(w), AttemptOf(w)) /\ ThreadTo(w, "loop", NoJob)
        \/ ~HasRecord(JobOf(w), AttemptOf(w)) /\ ThreadTo(w, "fallback", JobOf(w))
    BY <1>12, <1>0, WorkerEffects, Zenon
  <2>2. /\ worker[w].at = "lookUp"
        /\ UNCHANGED <<budget, records, samples, run, main, planned, queue, child,
                       registry, cancelled, frames, errors, signals, kills>>
    BY <1>12 DEF LookUp, disk, parent, cancelling
  <2>3. TypeInv'
    BY <1>0, <2>1, <2>2, SameRuns DEF TypeInv, ThreadTo
  <2>4. OneProgram' /\ OnePlace'
    BY <1>12, <1>0, <2>1, <2>2, SameRuns, HolderFacts DEF OneProgram, OnePlace, Holds,
                                                       JobOf, AttemptOf, Threads,
                                                       Parallel, Serial, Running,
                                                       ThreadTo
  <2>5. NoChildAhead'
    BY <1>0, <2>1, <2>2, SameRuns DEF NoChildAhead
  <2>6. ChildrenHaveAThread'
    BY <1>12, <1>0, <2>1, <2>2, SameRuns, HolderFacts DEF ChildrenHaveAThread,
                                                       OnePlace, Holds, InCharge,
                                                       JobOf, ChildOf, Alive,
                                                       Threads, Running, Parallel,
                                                       Serial, ThreadTo
  <2> QED
    BY <2>3, <2>4, <2>5, <2>6 DEF ControlInv
<1>13. ASSUME NEW w \in Threads, main \in Running, WriteFallback(w) PROVE ControlInv'
  <2>1. ThreadTo(w, "loop", NoJob)
    BY <1>13, <1>0, WorkerEffects, Zenon
  <2>2. /\ worker[w].at = "fallback"
        /\ UNCHANGED <<budget, samples, run, main, planned, queue, child, registry,
                       cancelled, frames, errors, signals, kills>>
    BY <1>13 DEF WriteFallback, disk, parent, cancelling
  <2>3. TypeInv'
    <3>1. records' \in [Jobs -> Seq(Record)]
      BY <1>0, <1>13, FallbackEffect DEF RecordIs
    <3> QED
      BY <1>0, <2>1, <2>2, <3>1, SameRuns DEF TypeInv, ThreadTo
  <2>4. OneProgram' /\ OnePlace'
    BY <1>13, <1>0, <2>1, <2>2, SameRuns, HolderFacts DEF OneProgram, OnePlace, Holds,
                                                       JobOf, AttemptOf, Threads,
                                                       Parallel, Serial, Running,
                                                       ThreadTo
  <2>5. NoChildAhead'
    BY <1>0, <2>1, <2>2, SameRuns DEF NoChildAhead
  <2>6. ChildrenHaveAThread'
    BY <1>13, <1>0, <2>1, <2>2, SameRuns, HolderFacts DEF ChildrenHaveAThread,
                                                       OnePlace, Holds, InCharge,
                                                       JobOf, ChildOf, Alive,
                                                       Threads, Running, Parallel,
                                                       Serial, ThreadTo
  <2> QED
    BY <2>3, <2>4, <2>5, <2>6 DEF ControlInv
<1>14. ASSUME NEW w \in Workers, WorkerStep(w) PROVE ControlInv'
  BY <1>14, <1>2, <1>3, <1>4, <1>5, <1>6, <1>7, <1>8, <1>9, <1>10, <1>11, <1>12, <1>13 DEF WorkerStep, Threads, Running
<1>15. ASSUME NEW r \in Runs, NEW j \in Jobs, SkipJob(r, j), ChildFrame PROVE ControlInv'
  <2>1. child[r][j].phase = "starting" /\ ChildTo(r, j, "ended")
    BY <1>15, <1>0, ChildEffects, Zenon
  <2>2. UNCHANGED <<budget, records, samples, run, main, planned, queue, worker,
                    registry, cancelled, frames, errors, signals, kills>>
    BY <1>15 DEF SkipJob, ChildGoesTo, ChildExits, ChildFrame, disk, parent, cancelling
  <2>3. TypeInv'
    BY <1>0, <2>1, <2>2, SameRuns DEF TypeInv, ChildTo, OthersStay
  <2>4. OneProgram' /\ OnePlace'
    BY <1>15, <1>0, <2>1, <2>2, SameRuns, HolderFacts DEF OneProgram, OnePlace, Holds,
                                                       JobOf, AttemptOf, Threads,
                                                       Parallel, Serial, Running
  <2>5. NoChildAhead' /\ ChildrenHaveAThread'
    BY <1>15, <1>0, <2>1, <2>2, SameRuns, ChildrenAhead, ChildrenAlive
       DEF ChildTo, Alive, OneProgram, Running, Parallel, Serial
  <2> QED
    BY <2>3, <2>4, <2>5 DEF ControlInv
<1>16. ASSUME NEW r \in Runs, NEW j \in Jobs, BeginJob(r, j), ChildFrame PROVE ControlInv'
  <2>1. child[r][j].phase = "starting" /\ ChildTo(r, j, "computing")
    BY <1>16, <1>0, ChildEffects, Zenon
  <2>2. UNCHANGED <<budget, records, samples, run, main, planned, queue, worker,
                    registry, cancelled, frames, errors, signals, kills>>
    BY <1>16 DEF BeginJob, ChildGoesTo, ChildExits, ChildFrame, disk, parent,
              cancelling
  <2>3. TypeInv'
    BY <1>0, <2>1, <2>2, SameRuns DEF TypeInv, ChildTo, OthersStay
  <2>4. OneProgram' /\ OnePlace'
    BY <1>16, <1>0, <2>1, <2>2, SameRuns, HolderFacts DEF OneProgram, OnePlace, Holds,
                                                       JobOf, AttemptOf, Threads,
                                                       Parallel, Serial, Running
  <2>5. NoChildAhead' /\ ChildrenHaveAThread'
    BY <1>16, <1>0, <2>1, <2>2, SameRuns, ChildrenAhead, ChildrenAlive
       DEF ChildTo, Alive, OneProgram, Running, Parallel, Serial
  <2> QED
    BY <2>3, <2>4, <2>5 DEF ControlInv
<1>17. ASSUME NEW r \in Runs, NEW j \in Jobs, WriteSamples(r, j), ChildFrame PROVE ControlInv'
  <2>1. child[r][j].phase = "computing" /\ ChildTo(r, j, "sampled")
    BY <1>17, <1>0, ChildEffects, Zenon
  <2>2. /\ samples' = samples \cup {<<j, child[r][j].attempt>>}
        /\ UNCHANGED <<budget, records, run, main, planned, queue, worker,
                       registry, cancelled, frames, errors, signals, kills>>
    BY <1>17 DEF WriteSamples, ChildGoesTo, ChildExits, ChildFrame, disk, parent,
              cancelling
  <2>3. TypeInv'
    BY <1>0, <2>1, <2>2, SameRuns DEF TypeInv, ChildTo, OthersStay
  <2>4. OneProgram' /\ OnePlace'
    BY <1>17, <1>0, <2>1, <2>2, SameRuns, HolderFacts DEF OneProgram, OnePlace, Holds,
                                                       JobOf, AttemptOf, Threads,
                                                       Parallel, Serial, Running
  <2>5. NoChildAhead' /\ ChildrenHaveAThread'
    BY <1>17, <1>0, <2>1, <2>2, SameRuns, ChildrenAhead, ChildrenAlive
       DEF ChildTo, Alive, OneProgram, Running, Parallel, Serial
  <2> QED
    BY <2>3, <2>4, <2>5 DEF ControlInv
<1>18. ASSUME NEW r \in Runs, NEW j \in Jobs, WriteCompleted(r, j), ChildFrame PROVE ControlInv'
  <2>1. /\ child[r][j].phase = "sampled" /\ ChildTo(r, j, "recorded")
        /\ \E kind \in Completed : RecordIs(j, child[r][j].attempt, kind, "no")
    BY <1>18, <1>0, ChildEffects, Zenon
  <2>2. UNCHANGED <<budget, samples, run, main, planned, queue, worker, registry,
                    cancelled, frames, errors, signals, kills>>
    BY <1>18 DEF WriteCompleted, ChildGoesTo, ChildExits, ChildFrame, disk, parent,
              cancelling
  <2>3. TypeInv'
    BY <1>0, <2>1, <2>2, SameRuns DEF TypeInv, ChildTo, RecordIs, OthersStay
  <2>4. OneProgram' /\ OnePlace'
    BY <1>18, <1>0, <2>1, <2>2, SameRuns, HolderFacts DEF OneProgram, OnePlace, Holds,
                                                       JobOf, AttemptOf, Threads,
                                                       Parallel, Serial, Running
  <2>5. NoChildAhead' /\ ChildrenHaveAThread'
    BY <1>18, <1>0, <2>1, <2>2, SameRuns, ChildrenAhead, ChildrenAlive
       DEF ChildTo, Alive, OneProgram, Running, Parallel, Serial
  <2> QED
    BY <2>3, <2>4, <2>5 DEF ControlInv
<1>19. ASSUME NEW r \in Runs, NEW j \in Jobs, WriteWithoutSamples(r, j), ChildFrame PROVE ControlInv'
  <2>1. /\ child[r][j].phase = "computing" /\ ChildTo(r, j, "recorded")
        /\ \E kind \in Unsupported \cup {"failed"} : RecordIs(j, child[r][j].attempt, kind, "no")
    BY <1>19, <1>0, ChildEffects, Zenon
  <2>2. UNCHANGED <<budget, samples, run, main, planned, queue, worker, registry,
                    cancelled, frames, errors, signals, kills>>
    BY <1>19 DEF WriteWithoutSamples, ChildGoesTo, ChildExits, ChildFrame, disk,
              parent, cancelling
  <2>3. TypeInv'
    BY <1>0, <2>1, <2>2, SameRuns DEF TypeInv, ChildTo, RecordIs, OthersStay
  <2>4. OneProgram' /\ OnePlace'
    BY <1>19, <1>0, <2>1, <2>2, SameRuns, HolderFacts DEF OneProgram, OnePlace, Holds,
                                                       JobOf, AttemptOf, Threads,
                                                       Parallel, Serial, Running
  <2>5. NoChildAhead' /\ ChildrenHaveAThread'
    BY <1>19, <1>0, <2>1, <2>2, SameRuns, ChildrenAhead, ChildrenAlive
       DEF ChildTo, Alive, OneProgram, Running, Parallel, Serial
  <2> QED
    BY <2>3, <2>4, <2>5 DEF ControlInv
<1>20. ASSUME NEW r \in Runs, NEW j \in Jobs, Exit(r, j), ChildFrame PROVE ControlInv'
  <2>1. child[r][j].phase = "recorded" /\ ChildTo(r, j, "ended")
    BY <1>20, <1>0, ChildEffects, Zenon
  <2>2. UNCHANGED <<budget, records, samples, run, main, planned, queue, worker,
                    registry, cancelled, frames, errors, signals, kills>>
    BY <1>20 DEF Exit, ChildGoesTo, ChildExits, ChildFrame, disk, parent, cancelling
  <2>3. TypeInv'
    BY <1>0, <2>1, <2>2, SameRuns DEF TypeInv, ChildTo, OthersStay
  <2>4. OneProgram' /\ OnePlace'
    BY <1>20, <1>0, <2>1, <2>2, SameRuns, HolderFacts DEF OneProgram, OnePlace, Holds,
                                                       JobOf, AttemptOf, Threads,
                                                       Parallel, Serial, Running
  <2>5. NoChildAhead' /\ ChildrenHaveAThread'
    BY <1>20, <1>0, <2>1, <2>2, SameRuns, ChildrenAhead, ChildrenAlive
       DEF ChildTo, Alive, OneProgram, Running, Parallel, Serial
  <2> QED
    BY <2>3, <2>4, <2>5 DEF ControlInv
<1>21. ASSUME NEW r \in Runs, NEW j \in Jobs, CrashChild(r, j), ChildFrame PROVE ControlInv'
  <2>1. /\ child[r][j].phase \in {"starting", "computing", "sampled"}
        /\ ChildTo(r, j, "ended")
    BY <1>21, <1>0, ChildEffects, Zenon
  <2>2. UNCHANGED <<budget, records, samples, run, main, planned, queue, worker,
                    registry, cancelled, frames, errors, signals, kills>>
    BY <1>21 DEF CrashChild, ChildGoesTo, ChildExits, ChildFrame, disk, parent,
              cancelling
  <2>3. TypeInv'
    BY <1>0, <2>1, <2>2, SameRuns DEF TypeInv, ChildTo, OthersStay
  <2>4. OneProgram' /\ OnePlace'
    BY <1>21, <1>0, <2>1, <2>2, SameRuns, HolderFacts DEF OneProgram, OnePlace, Holds,
                                                       JobOf, AttemptOf, Threads,
                                                       Parallel, Serial, Running
  <2>5. NoChildAhead' /\ ChildrenHaveAThread'
    BY <1>21, <1>0, <2>1, <2>2, SameRuns, ChildrenAhead, ChildrenAlive
       DEF ChildTo, Alive, OneProgram, Running, Parallel, Serial
  <2> QED
    BY <2>3, <2>4, <2>5 DEF ControlInv
<1>22. CASE AnyChildStep
  BY <1>22, <1>15, <1>16, <1>17, <1>18, <1>19, <1>20, <1>21 DEF AnyChildStep, ChildStep, ChildFrame
<1>23. CASE Signal
  <2>1. /\ frames' \in Seq(Frame) /\ main = Parallel
        /\ signals' = signals + 1
        /\ UNCHANGED <<budget, records, samples, run, main, planned, queue, worker, child,
                       registry, cancelled, errors, kills>>
    BY <1>23, <1>0, SignalEffect DEF Signal, disk, parent
  <2>2. TypeInv'
    BY <1>0, <2>1, SameRuns DEF TypeInv
  <2>3. OneProgram' /\ OnePlace' /\ NoChildAhead' /\ ChildrenHaveAThread'
    BY <1>0, <2>1, SameRuns
       DEF OneProgram, OnePlace, NoChildAhead, ChildrenHaveAThread, Holds, InCharge, JobOf, AttemptOf
  <2> QED
    BY <2>2, <2>3 DEF ControlInv
<1>24. ASSUME main = Parallel, frames # <<>>, HandlerFrame, SetEvent, child' = child PROVE ControlInv'
  <2>1. \E f \in Frame : f.at = "lock" /\ FrameTo(f)
    BY <1>24, <1>0, HandlerEffects, Zenon
  <2>2. /\ Top.at = "set"
        /\ cancelled' = TRUE
        /\ UNCHANGED <<budget, records, samples, run, main, planned, queue, worker,
                       child, registry, errors, signals, kills>>
    BY <1>24 DEF SetEvent, HandlerFrame, disk, parent, cancelling
  <2>3. TypeInv'
    BY <1>0, <2>1, <2>2, SameRuns DEF TypeInv, FrameTo
  <2>4. OneProgram' /\ OnePlace'
    BY <1>24, <1>0, <2>1, <2>2, SameRuns, HolderFacts DEF OneProgram, OnePlace, Holds,
                                                       JobOf, AttemptOf, Threads,
                                                       Parallel, Serial, Running
  <2>5. NoChildAhead'
    BY <1>0, <2>1, <2>2, SameRuns DEF NoChildAhead
  <2>6. ChildrenHaveAThread'
    BY <1>24, <1>0, <2>1, <2>2, SameRuns, HolderFacts DEF ChildrenHaveAThread,
                                                       OnePlace, Holds, InCharge,
                                                       JobOf, ChildOf, Alive,
                                                       Threads, Running, Parallel,
                                                       Serial, FrameTo
  <2> QED
    BY <2>3, <2>4, <2>5, <2>6 DEF ControlInv
<1>25. ASSUME main = Parallel, frames # <<>>, HandlerFrame, LockRegistry, child' = child PROVE ControlInv'
  <2>1. \E f \in Frame : f.at = "copy" /\ FrameTo(f)
    BY <1>25, <1>0, HandlerEffects, Zenon
  <2>2. /\ Top.at = "lock"
        /\ UNCHANGED <<budget, records, samples, run, main, planned, queue, worker,
                       child, registry, cancelled, errors, signals, kills>>
    BY <1>25 DEF LockRegistry, HandlerFrame, disk, parent, cancelling
  <2>3. TypeInv'
    BY <1>0, <2>1, <2>2, SameRuns DEF TypeInv, FrameTo
  <2>4. OneProgram' /\ OnePlace'
    BY <1>25, <1>0, <2>1, <2>2, SameRuns, HolderFacts DEF OneProgram, OnePlace, Holds,
                                                       JobOf, AttemptOf, Threads,
                                                       Parallel, Serial, Running
  <2>5. NoChildAhead'
    BY <1>0, <2>1, <2>2, SameRuns DEF NoChildAhead
  <2>6. ChildrenHaveAThread'
    BY <1>25, <1>0, <2>1, <2>2, SameRuns, HolderFacts DEF ChildrenHaveAThread,
                                                       OnePlace, Holds, InCharge,
                                                       JobOf, ChildOf, Alive,
                                                       Threads, Running, Parallel,
                                                       Serial, FrameTo
  <2> QED
    BY <2>3, <2>4, <2>5, <2>6 DEF ControlInv
<1>26. ASSUME main = Parallel, frames # <<>>, HandlerFrame, CopyRegistry, child' = child PROVE ControlInv'
  <2>1. \E f \in Frame : f.at = "kill" /\ f.procs = registry /\ FrameTo(f)
    BY <1>26, <1>0, HandlerEffects, Zenon
  <2>2. /\ Top.at = "copy"
        /\ UNCHANGED <<budget, records, samples, run, main, planned, queue, worker,
                       child, registry, cancelled, errors, signals, kills>>
    BY <1>26 DEF CopyRegistry, HandlerFrame, disk, parent, cancelling
  <2>3. TypeInv'
    BY <1>0, <2>1, <2>2, SameRuns DEF TypeInv, FrameTo
  <2>4. OneProgram' /\ OnePlace'
    BY <1>26, <1>0, <2>1, <2>2, SameRuns, HolderFacts DEF OneProgram, OnePlace, Holds,
                                                       JobOf, AttemptOf, Threads,
                                                       Parallel, Serial, Running
  <2>5. NoChildAhead'
    BY <1>0, <2>1, <2>2, SameRuns DEF NoChildAhead
  <2>6. ChildrenHaveAThread'
    BY <1>26, <1>0, <2>1, <2>2, SameRuns, HolderFacts DEF ChildrenHaveAThread,
                                                       OnePlace, Holds, InCharge,
                                                       JobOf, ChildOf, Alive,
                                                       Threads, Running, Parallel,
                                                       Serial, FrameTo
  <2> QED
    BY <2>3, <2>4, <2>5, <2>6 DEF ControlInv
<1>27. ASSUME main = Parallel, frames # <<>>, HandlerFrame, KillOne PROVE ControlInv'
  <2>1. \E j \in Top.procs, f \in Frame :
          /\ j \in Jobs /\ ChildKilled(run, j, "cancel")
          /\ f.at = "kill" /\ f.procs = Top.procs \ {j} /\ FrameTo(f)
    BY <1>27, <1>0, HandlerEffects, Zenon
  <2>2. /\ Top.at = "kill"
        /\ UNCHANGED <<budget, records, samples, run, main, planned, queue, worker,
                       registry, cancelled, errors, signals, kills>>
    BY <1>27 DEF KillOne, HandlerFrame, disk, parent, cancelling
  <2>3. TypeInv'
    BY <1>0, <2>1, <2>2, SameRuns DEF TypeInv, ChildKilled, FrameTo, OthersStay
  <2>4. OneProgram' /\ OnePlace'
    BY <1>27, <1>0, <2>1, <2>2, SameRuns, HolderFacts DEF OneProgram, OnePlace, Holds,
                                                       JobOf, AttemptOf, Threads,
                                                       Parallel, Serial, Running
  <2>5. NoChildAhead' /\ ChildrenHaveAThread'
    BY <1>27, <1>0, <2>1, <2>2, SameRuns, ChildrenAhead, ChildrenAlive
       DEF ChildKilled, Alive, OneProgram, Running, Parallel, Serial
  <2> QED
    BY <2>3, <2>4, <2>5 DEF ControlInv
<1>28. ASSUME main = Parallel, frames # <<>>, HandlerFrame, HandlerReturns, child' = child PROVE ControlInv'
  <2>1. /\ frames' \in Seq(Frame) /\ Len(frames') = Len(frames) - 1
        /\ \A i \in 1 .. Len(frames) - 1 : frames'[i] = frames[i]
    BY <1>28, <1>0, HandlerEffects, Zenon
  <2>2. /\ Top.at = "kill"
        /\ Top.procs = {}
        /\ UNCHANGED <<budget, records, samples, run, main, planned, queue, worker,
                       child, registry, cancelled, errors, signals, kills>>
    BY <1>28 DEF HandlerReturns, HandlerFrame, disk, parent, cancelling
  <2>3. TypeInv'
    BY <1>0, <2>1, <2>2, SameRuns DEF TypeInv
  <2>4. OneProgram' /\ OnePlace'
    BY <1>28, <1>0, <2>1, <2>2, SameRuns, HolderFacts DEF OneProgram, OnePlace, Holds,
                                                       JobOf, AttemptOf, Threads,
                                                       Parallel, Serial, Running
  <2>5. NoChildAhead'
    BY <1>0, <2>1, <2>2, SameRuns DEF NoChildAhead
  <2>6. ChildrenHaveAThread'
    BY <1>28, <1>0, <2>1, <2>2, SameRuns, HolderFacts DEF ChildrenHaveAThread,
                                                       OnePlace, Holds, InCharge,
                                                       JobOf, ChildOf, Alive,
                                                       Threads, Running, Parallel,
                                                       Serial
  <2> QED
    BY <2>3, <2>4, <2>5, <2>6 DEF ControlInv
<1>29. CASE HandlerStep
  BY <1>29, <1>24, <1>25, <1>26, <1>27, <1>28 DEF HandlerStep, HandlerFrame
<1>30. CASE JoinWorkers
  <2>1. /\ main = Parallel
        /\ main' \in {"cancelled", "failed", "returned"}
        /\ frames = <<>>
        /\ \A v \in Workers : worker[v].at = "stopped"
        /\ (~cancelled /\ ~errors) <=> (main' = "returned")
        /\ cancelled <=> (main' = "cancelled")
        /\ UNCHANGED <<budget, records, samples, run, planned, queue, worker,
                       child, registry, cancelled, frames, errors, signals, kills>>
    BY <1>30 DEF JoinWorkers, disk, parent, cancelling
  <2>2. TypeInv'
    BY <1>0, <2>1, SameRuns DEF TypeInv, Mains, Running, Parallel, Serial
  <2>3. OneProgram' /\ OnePlace'
    BY <1>30, <1>0, <2>1, SameRuns, HolderFacts DEF OneProgram, OnePlace, Holds,
                                                 JobOf, AttemptOf, Threads,
                                                 Parallel, Serial, Running
  <2>4. NoChildAhead'
    BY <1>0, <2>1, SameRuns DEF NoChildAhead
  <2>5. ChildrenHaveAThread'
    BY <1>30, <1>0, <2>1, SameRuns, HolderFacts DEF ChildrenHaveAThread, OnePlace,
                                                 Holds, InCharge, JobOf, ChildOf,
                                                 Alive, Threads, Running, Parallel,
                                                 Serial
  <2> QED
    BY <2>2, <2>3, <2>4, <2>5 DEF ControlInv
<1>31. CASE TakeNext
  <2>1. \/ queue = {} /\ ThreadTo(Main, "stopped", NoJob) /\ main' = "returned" /\ queue' = queue
        \/ \E j \in queue : ThreadTo(Main, "spawn", j) /\ queue' = queue \ {j} /\ main' = main
    BY <1>31, <1>0, SerialEffects, Zenon
  <2>2. /\ worker[Main].at = "loop"
        /\ main = Serial
        /\ UNCHANGED <<budget, records, samples, run, planned, child, registry,
                       cancelled, frames, errors, signals, kills>>
    BY <1>31 DEF TakeNext, disk, parent, cancelling, At
  <2>3. TypeInv'
    BY <1>0, <2>1, <2>2, SameRuns DEF TypeInv, Mains, Running, Parallel, Serial,
                                      ThreadTo
  <2>4. OneProgram' /\ OnePlace'
    <3>1. Main \in Threads /\ "spawn" \in Places /\ ~Holds(Main)
      BY <2>2 DEF Threads, Places, Holds
    <3>2. OneProgram'
      BY <1>31, <1>0, <2>1, <2>2, SameRuns, WorkersAssumption
         DEF OneProgram, ThreadTo, Threads, Parallel, Serial
    <3>3. ASSUME queue' = queue, ThreadTo(Main, "stopped", NoJob)
          PROVE  OnePlace'
      BY <1>0, <2>2, <3>1, <3>3 DEF OnePlace, Holds, JobOf, AttemptOf, ThreadTo
    <3>4. ASSUME NEW j \in queue, ThreadTo(Main, "spawn", j), queue' = queue \ {j}
          PROVE  OnePlace'
      BY <1>0, <2>2, <3>1, <3>4, TakenFromQueue
    <3> QED
      BY <2>1, <3>2, <3>3, <3>4
  <2>5. NoChildAhead'
    BY <1>0, <2>1, <2>2, SameRuns DEF NoChildAhead
  <2>6. ChildrenHaveAThread'
    BY <1>31, <1>0, <2>1, <2>2, SameRuns, HolderFacts DEF ChildrenHaveAThread,
                                                       OnePlace, Holds, InCharge,
                                                       JobOf, ChildOf, Alive,
                                                       Threads, Running, Parallel,
                                                       Serial, ThreadTo
  <2> QED
    BY <2>3, <2>4, <2>5, <2>6 DEF ControlInv
<1>32. CASE SpawnAlone
  <2>1. /\ ThreadTo(Main, "install", JobOf(Main))
        /\ ChildStarted(run, JobOf(Main), AttemptOf(Main))
    BY <1>32, <1>0, SerialEffects, Zenon
  <2>2. /\ worker[Main].at = "spawn"
        /\ main = Serial
        /\ UNCHANGED <<budget, records, samples, run, main, planned, queue,
                       registry, cancelled, frames, errors, signals, kills>>
    BY <1>32 DEF SpawnAlone, disk, parent, cancelling, At
  <2>3. TypeInv'
    BY <1>0, <2>1, <2>2, SameRuns DEF TypeInv, ThreadTo, ChildStarted, OthersStay
  <2>4. OneProgram' /\ OnePlace'
    BY <1>32, <1>0, <2>1, <2>2, SameRuns, HolderFacts DEF OneProgram, OnePlace, Holds,
                                                       JobOf, AttemptOf, Threads,
                                                       Parallel, Serial, Running,
                                                       ThreadTo
  <2>5. NoChildAhead'
    BY <1>32, <1>0, <2>1, <2>2, SameRuns, HolderFacts, ChildrenAhead
       DEF Holds, Threads, NoChildAhead, ChildStarted, ChildKilled
  <2>6. ChildrenHaveAThread'
    BY <1>32, <1>0, <2>1, <2>2, SameRuns, HolderFacts DEF ChildrenHaveAThread,
                                                       OnePlace, Holds, InCharge,
                                                       JobOf, ChildOf, Alive,
                                                       Threads, Running, Parallel,
                                                       Serial, ThreadTo,
                                                       ChildStarted, OthersStay
  <2> QED
    BY <2>3, <2>4, <2>5, <2>6 DEF ControlInv
<1>33. CASE SpawnAloneFails
  <2>1. ThreadTo(Main, "stopped", NoJob)
    BY <1>33, <1>0, SerialEffects, Zenon
  <2>2. /\ worker[Main].at = "spawn"
        /\ main = Serial
        /\ main' = "failed"
        /\ UNCHANGED <<budget, records, samples, run, planned, queue, child,
                       registry, cancelled, frames, errors, signals, kills>>
    BY <1>33 DEF SpawnAloneFails, disk, parent, cancelling, At
  <2>3. TypeInv'
    BY <1>0, <2>1, <2>2, SameRuns DEF TypeInv, Mains, Running, Parallel, Serial,
                                      ThreadTo
  <2>4. OneProgram' /\ OnePlace'
    BY <1>33, <1>0, <2>1, <2>2, SameRuns, HolderFacts DEF OneProgram, OnePlace, Holds,
                                                       JobOf, AttemptOf, Threads,
                                                       Parallel, Serial, Running,
                                                       ThreadTo
  <2>5. NoChildAhead'
    BY <1>0, <2>1, <2>2, SameRuns DEF NoChildAhead
  <2>6. ChildrenHaveAThread'
    BY <1>33, <1>0, <2>1, <2>2, SameRuns, HolderFacts DEF ChildrenHaveAThread,
                                                       OnePlace, Holds, InCharge,
                                                       JobOf, ChildOf, Alive,
                                                       Threads, Running, Parallel,
                                                       Serial, ThreadTo
  <2> QED
    BY <2>3, <2>4, <2>5, <2>6 DEF ControlInv
<1>34. CASE InstallHandlers
  <2>1. ThreadTo(Main, "wait", JobOf(Main))
    BY <1>34, <1>0, SerialEffects, Zenon
  <2>2. /\ worker[Main].at = "install"
        /\ main = Serial
        /\ UNCHANGED <<budget, records, samples, run, main, planned, queue, child,
                       registry, cancelled, frames, errors, signals, kills>>
    BY <1>34 DEF InstallHandlers, disk, parent, cancelling, At
  <2>3. TypeInv'
    BY <1>0, <2>1, <2>2, SameRuns DEF TypeInv, ThreadTo
  <2>4. OneProgram' /\ OnePlace'
    BY <1>34, <1>0, <2>1, <2>2, SameRuns, HolderFacts DEF OneProgram, OnePlace, Holds,
                                                       JobOf, AttemptOf, Threads,
                                                       Parallel, Serial, Running,
                                                       ThreadTo
  <2>5. NoChildAhead'
    BY <1>0, <2>1, <2>2, SameRuns DEF NoChildAhead
  <2>6. ChildrenHaveAThread'
    BY <1>34, <1>0, <2>1, <2>2, SameRuns, HolderFacts DEF ChildrenHaveAThread,
                                                       OnePlace, Holds, InCharge,
                                                       JobOf, ChildOf, Alive,
                                                       Threads, Running, Parallel,
                                                       Serial, ThreadTo
  <2> QED
    BY <2>3, <2>4, <2>5, <2>6 DEF ControlInv
<1>35. CASE WaitAlone
  <2>1. /\ ThreadTo(Main, "lookUp", JobOf(Main))
        /\ \/ ~Alive(ChildOf(Main)) /\ child' = child
           \/ ChildKilled(run, JobOf(Main), "deadline")
    BY <1>35, <1>0, SerialEffects, Zenon
  <2>2. /\ worker[Main].at = "wait"
        /\ main = Serial
        /\ UNCHANGED <<budget, records, samples, run, main, planned, queue,
                       registry, cancelled, frames, errors, signals, kills>>
    BY <1>35 DEF WaitAlone, disk, parent, cancelling, At
  <2>3. TypeInv'
    BY <1>0, <2>1, <2>2, SameRuns DEF TypeInv, ThreadTo, ChildKilled, OthersStay
  <2>4. OneProgram' /\ OnePlace'
    BY <1>35, <1>0, <2>1, <2>2, SameRuns, HolderFacts DEF OneProgram, OnePlace, Holds,
                                                       JobOf, AttemptOf, Threads,
                                                       Parallel, Serial, Running,
                                                       ThreadTo
  <2>5. NoChildAhead'
    BY <1>35, <1>0, <2>1, <2>2, SameRuns, HolderFacts, ChildrenAhead
       DEF Holds, Threads, NoChildAhead, ChildStarted, ChildKilled
  <2>6. ChildrenHaveAThread'
    <3>1. ASSUME NEW j \in Jobs, Alive(child'[run][j])
          PROVE  Alive(child[run][j]) /\ j # JobOf(Main)
      BY <1>0, <2>1, <2>2, <3>1, HolderFacts
         DEF ChildKilled, OthersStay, ChildOf, Holds, Threads
    <3>2. ASSUME NEW v \in Threads, InCharge(v), JobOf(v) # JobOf(Main)
          PROVE  InCharge(v)' /\ JobOf(v)' = JobOf(v)
      BY <2>1, <3>2 DEF InCharge, JobOf, ThreadTo
    <3> QED
      BY <1>0, <2>2, <3>1, <3>2 DEF ChildrenHaveAThread
  <2> QED
    BY <2>3, <2>4, <2>5, <2>6 DEF ControlInv
<1>36. CASE KillAlone
  <2>1. ThreadTo(Main, "stopped", NoJob) /\ ChildKilled(run, JobOf(Main), "cancel")
    BY <1>36, <1>0, SerialEffects, Zenon
  <2>2. /\ worker[Main].at = "kill"
        /\ main = Serial
        /\ main' = "cancelled"
        /\ UNCHANGED <<budget, records, samples, run, planned, queue, registry,
                       cancelled, frames, errors, signals, kills>>
    BY <1>36 DEF KillAlone, disk, parent, cancelling, At
  <2>3. TypeInv'
    BY <1>0, <2>1, <2>2, SameRuns DEF TypeInv, Mains, Running, Parallel, Serial,
                                      ThreadTo, ChildKilled, OthersStay
  <2>4. OneProgram' /\ OnePlace'
    BY <1>36, <1>0, <2>1, <2>2, SameRuns, HolderFacts DEF OneProgram, OnePlace, Holds,
                                                       JobOf, AttemptOf, Threads,
                                                       Parallel, Serial, Running,
                                                       ThreadTo
  <2>5. NoChildAhead'
    BY <1>36, <1>0, <2>1, <2>2, SameRuns, HolderFacts, ChildrenAhead
       DEF Holds, Threads, NoChildAhead, ChildStarted, ChildKilled
  <2>6. ChildrenHaveAThread'
    BY <1>36, <1>0, <2>1, <2>2, SameRuns, HolderFacts DEF ChildrenHaveAThread,
                                                       OnePlace, Holds, InCharge,
                                                       JobOf, ChildOf, Alive,
                                                       Threads, Running, Parallel,
                                                       Serial, ThreadTo,
                                                       ChildKilled, OthersStay
  <2> QED
    BY <2>3, <2>4, <2>5, <2>6 DEF ControlInv
<1>37. CASE SerialStep
  BY <1>37, <1>31, <1>32, <1>33, <1>34, <1>35, <1>36, <1>12, <1>13 DEF SerialStep, Threads, Running
<1>38. CASE SignalAlone
  <2>1. signals' = signals + 1
    BY <1>38 DEF SignalAlone
  <2>2. ASSUME SignalInWait
        PROVE  ControlInv'
    <3>1. \/ At("wait") /\ ThreadTo(Main, "kill", JobOf(Main)) /\ main' = main
          \/ At("kill") /\ ThreadTo(Main, "stopped", NoJob) /\ main' = "cancelled"
      BY <1>0, <2>2, SerialEffects, Zenon
    <3>2. UNCHANGED <<budget, records, samples, run, planned, queue, child, registry, cancelled,
                      frames, errors, kills>>
      BY <2>2 DEF SignalInWait, disk, parent
    <3>3. main = Serial /\ worker[Main].at \in {"wait", "kill"} /\ Main \in Threads
      BY <3>1 DEF At, Threads
    <3>4. TypeInv'
      BY <1>0, <2>1, <3>1, <3>2, SameRuns DEF TypeInv, ThreadTo, Mains
    <3>5. OneProgram' /\ OnePlace'
      BY <1>0, <3>1, <3>2, <3>3, SameRuns, WorkersAssumption
         DEF OneProgram, OnePlace, Holds, JobOf, AttemptOf, Threads, ThreadTo, Parallel, Serial
    <3>6. NoChildAhead' /\ ChildrenHaveAThread'
      BY <1>0, <3>1, <3>2, <3>3, SameRuns
         DEF NoChildAhead, ChildrenHaveAThread, Holds, InCharge, JobOf, ThreadTo, Running, Parallel, Serial
    <3> QED
      BY <3>4, <3>5, <3>6 DEF ControlInv
  <2>3. ASSUME SignalOutsideWait
        PROVE  ControlInv'
    <3>1. ParentDies /\ main = Serial
      BY <2>3 DEF SignalOutsideWait
    <3>2. /\ worker' \in [Threads -> Thread] /\ frames' \in Seq(Frame)
          /\ \A w \in Threads : worker'[w].at = "stopped"
      BY <3>1, <1>0, ParentDiesEffect, Zenon
    <3>3. /\ main' = "killed" /\ kills' = kills + 1
          /\ UNCHANGED <<budget, records, samples, run, planned, errors, queue, child, registry,
                         cancelled>>
      BY <3>1 DEF ParentDies, disk
    <3>4. TypeInv'
      BY <1>0, <3>2, <3>3, <2>1, SameRuns DEF TypeInv, Mains
    <3>5. OneProgram' /\ OnePlace' /\ NoChildAhead' /\ ChildrenHaveAThread'
      BY <1>0, <3>1, <3>2, <3>3, SameRuns
         DEF OneProgram, OnePlace, NoChildAhead, ChildrenHaveAThread, Holds, Threads, Running, Parallel, Serial
    <3> QED
      BY <3>4, <3>5 DEF ControlInv
  <2> QED
    BY <1>38, <2>2, <2>3 DEF SignalAlone
<1>39. CASE KillParent
  <2>1. ParentDies /\ main \in Running /\ signals' = signals
    BY <1>39 DEF KillParent
  <2>2. /\ worker' \in [Threads -> Thread] /\ frames' \in Seq(Frame)
        /\ \A w \in Threads : worker'[w].at = "stopped"
    BY <2>1, <1>0, ParentDiesEffect, Zenon
  <2>3. /\ main' = "killed" /\ kills' = kills + 1
        /\ UNCHANGED <<budget, records, samples, run, planned, errors, queue, child, registry,
                       cancelled>>
    BY <2>1 DEF ParentDies, disk
  <2>4. TypeInv'
    BY <1>0, <2>2, <2>3, <2>1, SameRuns DEF TypeInv, Mains
  <2>5. OneProgram' /\ OnePlace' /\ NoChildAhead' /\ ChildrenHaveAThread'
    BY <1>0, <2>1, <2>2, <2>3, SameRuns
       DEF OneProgram, OnePlace, NoChildAhead, ChildrenHaveAThread, Holds, Threads, Running, Parallel, Serial
  <2> QED
    BY <2>4, <2>5 DEF ControlInv
<1>40. CASE UNCHANGED vars
  <2>1. UNCHANGED <<budget, records, samples, run, main, planned, queue, worker,
                    child, registry, cancelled, frames, errors, signals, kills>>
    BY <1>40 DEF vars, disk, parent, cancelling
  <2>2. TypeInv'
    BY <1>0, <2>1, SameRuns DEF TypeInv
  <2>3. OneProgram' /\ OnePlace'
    BY <1>40, <1>0, <2>1, SameRuns, HolderFacts DEF OneProgram, OnePlace, Holds,
                                                 JobOf, AttemptOf, Threads,
                                                 Parallel, Serial, Running
  <2>4. NoChildAhead'
    BY <1>0, <2>1, SameRuns DEF NoChildAhead
  <2>5. ChildrenHaveAThread'
    BY <1>40, <1>0, <2>1, SameRuns, HolderFacts DEF ChildrenHaveAThread, OnePlace,
                                                 Holds, InCharge, JobOf, ChildOf,
                                                 Alive, Threads, Running, Parallel,
                                                 Serial
  <2> QED
    BY <2>2, <2>3, <2>4, <2>5 DEF ControlInv
<1> QED
  BY <1>1, <1>14, <1>22, <1>23, <1>29, <1>30, <1>37, <1>38, <1>39, <1>40 DEF Next, MainStep, Finished

-----------------------------------------------------------------------------
(* Samples before the record.                                              *)

DataInv == SamplesFirst /\ CompletedHasSamples

\* The steps, by what they do to the disk and to the children.
DataSame == UNCHANGED <<records, samples, planned>>

StartsChild == \E j \in Jobs : planned[j] \in Nat /\ ChildStarted(run, j, planned[j]) /\ DataSame
KillsChild == \E j \in Jobs, by \in Killers : ChildKilled(run, j, by) /\ DataSame
FallsBack ==
  \E w \in Threads :
    /\ worker[w].at = "fallback" /\ main \in Running
    /\ \E kind \in Fallback : RecordIs(JobOf(w), AttemptOf(w), kind, ChildOf(w).killed)
    /\ UNCHANGED <<run, samples, planned, child>>
ChildWorks == \E r \in Runs, j \in Jobs : ChildStep(r, j)

LEMMA DataSteps ==
  ASSUME ControlInv, SamplesFirst, [Next]_vars
  PROVE  \/ StartRun
         \/ run \in Runs /\ StartsChild /\ run' = run
         \/ run \in Runs /\ KillsChild /\ run' = run
         \/ FallsBack
         \/ ChildWorks
         \/ UNCHANGED <<run, records, samples, planned, child>>
<1> DEFINE Quiet == UNCHANGED <<run, records, samples, planned, child>>
<1>1. TypeInv /\ OneProgram /\ OnePlace
  BY DEF ControlInv
<1>2. "cancel" \in Killers /\ "deadline" \in Killers
  BY DEF Killers
<1>3. ASSUME NEW w \in Threads, main \in Running, LookUp(w) \/ WriteFallback(w)
      PROVE  FallsBack \/ Quiet
  <2>1. CASE LookUp(w)
    BY <2>1 DEF LookUp, disk, parent
  <2>2. CASE WriteFallback(w)
    BY <1>1, <1>3, <2>2, FallbackEffect DEF FallsBack, WriteFallback, parent
  <2> QED
    BY <1>3, <2>1, <2>2
<1>4. ASSUME NEW w \in Workers, WorkerStep(w)
      PROVE  \/ run \in Runs /\ StartsChild /\ run' = run
             \/ run \in Runs /\ KillsChild /\ run' = run
             \/ FallsBack \/ Quiet
  <2>1. w \in Threads /\ main \in Running
    BY <1>4 DEF Threads, WorkerStep, Running
  <2>2. CASE Spawn(w)
    <3>1. ChildStarted(run, JobOf(w), AttemptOf(w))
      BY <1>1, <2>1, <2>2, WorkerEffects, Zenon
    <3>2. JobOf(w) \in Jobs /\ AttemptOf(w) \in Nat /\ run \in Runs
      BY <1>1, <2>1, <2>2, HolderFacts DEF Spawn, Holds
    <3> QED
      BY <2>2, <3>1, <3>2 DEF Spawn, StartsChild, DataSame, AttemptOf, disk, parent
  <2>3. CASE Recheck(w)
    <3>1. IF cancelled THEN ChildKilled(run, JobOf(w), "cancel") ELSE child' = child
      BY <1>1, <2>1, <2>3, WorkerEffects, Zenon
    <3>2. JobOf(w) \in Jobs /\ run \in Runs
      BY <1>1, <2>1, <2>3, HolderFacts DEF Recheck, Holds
    <3> QED
      BY <1>2, <2>3, <3>1, <3>2 DEF Recheck, KillsChild, DataSame, disk, parent
  <2>4. CASE TimesOut(w)
    <3>1. ChildKilled(run, JobOf(w), "deadline")
      BY <1>1, <2>1, <2>4, WorkerEffects, Zenon
    <3>2. JobOf(w) \in Jobs /\ run \in Runs
      BY <1>1, <2>1, <2>4, HolderFacts DEF TimesOut, Holds
    <3> QED
      BY <1>2, <2>4, <3>1, <3>2 DEF TimesOut, KillsChild, DataSame, disk, parent
  <2>5. CASE \/ TakeJob(w) \/ CheckBefore(w) \/ SpawnFails(w) \/ Register(w) \/ WaitEnds(w)
             \/ Discard(w) \/ CheckAfter(w)
    BY <2>5 DEF TakeJob, CheckBefore, SpawnFails, Register, WaitEnds, Discard, CheckAfter, disk, parent
  <2>6. CASE LookUp(w) \/ WriteFallback(w)
    BY <1>3, <2>1, <2>6
  <2> QED
    BY <1>4, <2>2, <2>3, <2>4, <2>5, <2>6 DEF WorkerStep
<1>5. ASSUME HandlerStep
      PROVE  (run \in Runs /\ KillsChild /\ run' = run) \/ Quiet
  <2>1. main = Parallel /\ frames # <<>> /\ UNCHANGED <<records, samples, planned, run>>
    BY <1>5 DEF HandlerStep, disk, parent
  <2>2. CASE KillOne
    <3>1. PICK j \in Jobs : ChildKilled(run, j, "cancel")
      BY <1>1, <2>1, <2>2, HandlerEffects
    <3>2. run \in Runs
      BY <1>1, <2>1 DEF OneProgram, Parallel
    <3> QED
      BY <1>2, <2>1, <3>1, <3>2 DEF KillsChild, DataSame
  <2>3. CASE ~KillOne
    BY <1>5, <2>1, <2>3 DEF HandlerStep
  <2> QED
    BY <2>2, <2>3
<1>6. ASSUME SerialStep
      PROVE  \/ run \in Runs /\ StartsChild /\ run' = run
             \/ run \in Runs /\ KillsChild /\ run' = run
             \/ FallsBack \/ Quiet
  <2>1. Main \in Threads
    BY DEF Threads
  <2>2. ASSUME NEW p \in Places, At(p), p \notin {"stopped", "loop"}
        PROVE  JobOf(Main) \in Jobs /\ AttemptOf(Main) \in Nat /\ run \in Runs
    BY <1>1, <2>1, <2>2, HolderFacts DEF At, Holds
  <2>3. CASE SpawnAlone
    <3>1. ChildStarted(run, JobOf(Main), AttemptOf(Main))
      BY <1>1, <2>3, SerialEffects, Zenon
    <3>2. JobOf(Main) \in Jobs /\ AttemptOf(Main) \in Nat /\ run \in Runs
      BY <2>2, <2>3 DEF SpawnAlone, Places
    <3> QED
      BY <2>3, <3>1, <3>2 DEF SpawnAlone, StartsChild, DataSame, AttemptOf, disk, parent
  <2>4. CASE WaitAlone
    <3>1. child' = child \/ ChildKilled(run, JobOf(Main), "deadline")
      BY <1>1, <2>4, SerialEffects, Zenon
    <3>2. JobOf(Main) \in Jobs /\ run \in Runs
      BY <2>2, <2>4 DEF WaitAlone, Places
    <3> QED
      BY <1>2, <2>4, <3>1, <3>2 DEF WaitAlone, KillsChild, DataSame, disk, parent
  <2>5. CASE KillAlone
    <3>1. ChildKilled(run, JobOf(Main), "cancel")
      BY <1>1, <2>5, SerialEffects, Zenon
    <3>2. JobOf(Main) \in Jobs /\ run \in Runs
      BY <2>2, <2>5 DEF KillAlone, Places
    <3> QED
      BY <1>2, <2>5, <3>1, <3>2 DEF KillAlone, KillsChild, DataSame, disk, parent
  <2>6. CASE TakeNext \/ SpawnAloneFails \/ InstallHandlers
    BY <2>6 DEF TakeNext, SpawnAloneFails, InstallHandlers, disk, parent
  <2>7. CASE main = Serial /\ (LookUp(Main) \/ WriteFallback(Main))
    BY <1>3, <2>1, <2>7 DEF Running
  <2> QED
    BY <1>6, <2>3, <2>4, <2>5, <2>6, <2>7 DEF SerialStep
<1>7. CASE Signal \/ JoinWorkers \/ KillParent
  BY <1>7 DEF Signal, JoinWorkers, KillParent, ParentDies, disk, parent
<1>8. CASE SignalAlone
  BY <1>8 DEF SignalAlone, SignalInWait, SignalOutsideWait, ParentDies, disk, parent
<1>9. CASE UNCHANGED vars
  BY <1>9 DEF vars, disk, parent
<1> HIDE DEF Quiet
<1>10. Quiet => UNCHANGED <<run, records, samples, planned, child>>
  BY DEF Quiet
<1> QED
  BY <1>4, <1>5, <1>6, <1>7, <1>8, <1>9, <1>10 DEF Next, MainStep, Finished, AnyChildStep, ChildWorks

LEMMA RecordKeepsBounds ==
  ASSUME TypeInv, SamplesFirst, NEW j \in Jobs, NEW a \in Nat, a <= Len(records[j]),
         NEW kind, NEW killed, RecordIs(j, a, kind, killed), UNCHANGED planned
  PROVE  /\ \A k \in Jobs : Len(records'[k]) \in Nat /\ Len(records[k]) <= Len(records'[k])
         /\ \A k \in Jobs : planned'[k] <= Len(records'[k])
         /\ a < Len(records'[j])
<1>1. \A k \in Jobs : Len(records[k]) \in Nat
  BY DEF TypeInv
<1>2. \A k \in Jobs : Len(records'[k]) \in Nat /\ Len(records[k]) <= Len(records'[k])
  BY <1>1 DEF RecordIs
<1>3. \A k \in Jobs : planned'[k] <= Len(records'[k])
  BY <1>1, <1>2 DEF SamplesFirst, TypeInv
<1> QED
  BY <1>1, <1>2, <1>3 DEF RecordIs

\* A record that is not of a completed attempt, or whose samples are there.
LEMMA RecordKeepsSamples ==
  ASSUME TypeInv, CompletedHasSamples, NEW j \in Jobs, NEW a \in Nat, a <= Len(records[j]),
         NEW kind, NEW killed, RecordIs(j, a, kind, killed),
         kind \in Completed => <<j, a>> \in samples,
         samples \subseteq samples'
  PROVE  CompletedHasSamples'
<1>1. \A k \in Jobs : /\ Len(records[k]) \in Nat /\ DOMAIN records[k] = 1 .. Len(records[k])
                      /\ DOMAIN records'[k] = 1 .. Len(records'[k])
  BY DEF TypeInv, RecordIs
<1>2. ASSUME NEW k \in Jobs, NEW i \in DOMAIN records'[k], records'[k][i].kind \in Completed
      PROVE  <<k, i - 1>> \in samples'
  <2>1. CASE k # j
    BY <1>1, <1>2, <2>1 DEF CompletedHasSamples, RecordIs
  <2>2. CASE k = j /\ i = a + 1
    <3>1. records'[j][a + 1].kind = kind
      BY DEF RecordIs
    <3>2. i - 1 = a
      BY <2>2
    <3> QED
      BY <1>2, <2>2, <3>1, <3>2
  <2>3. CASE k = j /\ i # a + 1
    <3>1. i \in 1 .. Len(records[j]) /\ records'[j][i] = records[j][i]
      BY <1>1, <2>3 DEF RecordIs
    <3> QED
      BY <1>1, <1>2, <2>3, <3>1 DEF CompletedHasSamples
  <2> QED
    BY <2>1, <2>2, <2>3
<1> QED
  BY <1>2 DEF CompletedHasSamples

LEMMA DataInit == Init => DataInv
<1> SUFFICES ASSUME Init PROVE DataInv
  OBVIOUS
<1>1. /\ child = [r \in Runs |-> [j \in Jobs |-> NoChild]]
      /\ planned = [j \in Jobs |-> NoAttempt]
      /\ ControlInv
  BY ControlInit DEF Init
<1>2. \A j \in Jobs : Len(records[j]) \in Nat
  BY <1>1 DEF ControlInv, TypeInv
<1>3. SamplesFirst
  BY <1>1, <1>2, NobodysChild DEF SamplesFirst, NoAttempt
<1>4. ASSUME NEW j \in Jobs, NEW i \in DOMAIN records[j]
      PROVE  records[j][i].kind \notin Completed
  BY <1>4 DEF Init, Completed
<1> QED
  BY <1>3, <1>4 DEF DataInv, CompletedHasSamples

LEMMA DataStep ==
  ASSUME ControlInv, DataInv, [Next]_vars
  PROVE  DataInv'
<1>1. TypeInv /\ OneProgram /\ OnePlace /\ SamplesFirst /\ CompletedHasSamples
  BY DEF ControlInv, DataInv
<1>2. \A j \in Jobs : Len(records[j]) \in Nat
  BY <1>1 DEF TypeInv
<1>3. Runs' = Runs
  BY <1>1, ControlStep, SameRuns, BudgetKept
<1>4. CASE StartRun
  <2>1. \A j \in Jobs : planned'[j] \in {NoAttempt, Len(records[j])}
    BY <1>1, <1>4, StartRunEffect, Zenon
  <2>2. UNCHANGED <<records, samples, child>>
    BY <1>4 DEF StartRun, disk
  <2>3. SamplesFirst'
    BY <1>1, <1>2, <1>3, <2>1, <2>2 DEF SamplesFirst, NoAttempt
  <2> QED
    BY <1>1, <2>2, <2>3 DEF DataInv, CompletedHasSamples
<1>5. CASE run \in Runs /\ StartsChild
  <2>1. PICK j \in Jobs : planned[j] \in Nat /\ ChildStarted(run, j, planned[j]) /\ DataSame
    BY <1>5 DEF StartsChild
  <2>2. Started(planned[j]).attempt = planned[j] /\ Started(planned[j]).phase = "starting"
    BY DEF Started
  <2>3. SamplesFirst'
    BY <1>1, <1>2, <1>3, <1>5, <2>1, <2>2 DEF SamplesFirst, ChildStarted, OthersStay, DataSame
  <2> QED
    BY <1>1, <2>1, <2>3 DEF DataInv, CompletedHasSamples, DataSame
<1>6. CASE run \in Runs /\ KillsChild
  <2>1. PICK j \in Jobs, by \in Killers : ChildKilled(run, j, by) /\ DataSame
    BY <1>6 DEF KillsChild
  <2>2. SamplesFirst'
    BY <1>1, <1>2, <1>3, <1>6, <2>1 DEF SamplesFirst, ChildKilled, OthersStay, DataSame, Alive
  <2> QED
    BY <1>1, <2>1, <2>2 DEF DataInv, CompletedHasSamples, DataSame
<1>7. CASE FallsBack
  <2>1. PICK w \in Threads :
          /\ worker[w].at = "fallback" /\ main \in Running
          /\ \E kind \in Fallback : RecordIs(JobOf(w), AttemptOf(w), kind, ChildOf(w).killed)
          /\ UNCHANGED <<run, samples, planned, child>>
    BY <1>7 DEF FallsBack
  <2>2. PICK kind \in Fallback : RecordIs(JobOf(w), AttemptOf(w), kind, ChildOf(w).killed)
    BY <2>1
  <2>3. JobOf(w) \in Jobs /\ AttemptOf(w) \in Nat
    BY <1>1, <2>1, HolderFacts DEF Holds
  <2>4. AttemptOf(w) <= Len(records[JobOf(w)])
    BY <1>1, <2>3 DEF SamplesFirst, AttemptOf
  <2>5. /\ \A k \in Jobs : Len(records'[k]) \in Nat /\ Len(records[k]) <= Len(records'[k])
        /\ \A k \in Jobs : planned'[k] <= Len(records'[k])
    BY <1>1, <2>1, <2>2, <2>3, <2>4, RecordKeepsBounds
  <2>6. SamplesFirst'
    BY <1>1, <1>2, <1>3, <2>1, <2>5 DEF SamplesFirst, TypeInv, Child
  <2>7. kind \notin Completed
    BY DEF Fallback, Completed
  <2>8. CompletedHasSamples'
    BY <1>1, <2>1, <2>2, <2>3, <2>4, <2>7, RecordKeepsSamples
  <2> QED
    BY <2>6, <2>8 DEF DataInv
<1>8. ASSUME NEW r \in Runs, NEW j \in Jobs, ChildStep(r, j)
      PROVE  DataInv'
  <2> DEFINE a == child[r][j].attempt
  <2>1. planned' = planned
    BY <1>8 DEF ChildStep, parent
  <2>2. ASSUME NEW p \in {"starting", "computing", "ended", "recorded"},
               ChildTo(r, j, p), child[r][j].phase # "none", UNCHANGED disk
        PROVE  DataInv'
    BY <1>1, <1>3, <2>1, <2>2
       DEF DataInv, SamplesFirst, CompletedHasSamples, ChildTo, OthersStay, disk
  <2>3. CASE SkipJob(r, j) \/ BeginJob(r, j) \/ Exit(r, j) \/ CrashChild(r, j)
    <3>1. /\ child[r][j].phase # "none"
          /\ ChildTo(r, j, "ended") \/ ChildTo(r, j, "computing")
      BY <1>1, <2>3, ChildEffects
    <3>2. UNCHANGED disk
      BY <2>3 DEF SkipJob, BeginJob, Exit, CrashChild
    <3> QED
      BY <2>2, <3>1, <3>2
  <2>4. CASE WriteSamples(r, j)
    <3>1. child[r][j].phase = "computing" /\ ChildTo(r, j, "sampled")
      BY <1>1, <2>4, ChildEffects, Zenon
    <3>2. samples' = samples \cup {<<j, a>>} /\ records' = records
      BY <2>4 DEF WriteSamples
    <3> QED
      BY <1>1, <1>3, <2>1, <3>1, <3>2
         DEF DataInv, SamplesFirst, CompletedHasSamples, ChildTo, OthersStay
  <2>5. CASE WriteCompleted(r, j) \/ WriteWithoutSamples(r, j)
    <3>1. PICK kind : /\ RecordIs(j, a, kind, "no")
                      /\ kind \in Completed => child[r][j].phase = "sampled"
      <4>1. CASE WriteCompleted(r, j)
        BY <1>1, <4>1, ChildEffects
      <4>2. CASE WriteWithoutSamples(r, j)
        <5>1. PICK kind \in Unsupported \cup {"failed"} : RecordIs(j, a, kind, "no")
          BY <1>1, <4>2, ChildEffects
        <5>2. kind \notin Completed
          BY DEF Unsupported, Completed
        <5> QED
          BY <5>1, <5>2
      <4> QED
        BY <2>5, <4>1, <4>2
    <3>2. ChildTo(r, j, "recorded") /\ child[r][j].phase # "none"
      BY <1>1, <2>5, ChildEffects
    <3>3. samples' = samples
      BY <2>5 DEF WriteCompleted, WriteWithoutSamples
    <3>4. a \in Nat /\ a <= Len(records[j]) /\ (kind \in Completed => <<j, a>> \in samples)
      BY <1>1, <3>1, <3>2 DEF SamplesFirst
    <3>5. /\ \A k \in Jobs : Len(records'[k]) \in Nat /\ Len(records[k]) <= Len(records'[k])
          /\ \A k \in Jobs : planned'[k] <= Len(records'[k])
      BY <1>1, <2>1, <3>1, <3>4, RecordKeepsBounds
    <3>6. \A s \in Runs, k \in Jobs :
            /\ child'[s][k].attempt = child[s][k].attempt
            /\ child'[s][k].phase \in {child[s][k].phase, "recorded"}
            /\ child'[s][k].phase = "none" <=> child[s][k].phase = "none"
      BY <3>2 DEF ChildTo, OthersStay
    <3>7. \A s \in Runs, k \in Jobs :
            child[s][k].attempt \in Int /\ child[s][k].attempt <= Len(records'[k])
      <4>1. \A s \in Runs, k \in Jobs : child[s][k].attempt \in Int
        BY <1>1 DEF TypeInv, Child
      <4>2. \A s \in Runs, k \in Jobs : child[s][k].attempt <= Len(records[k])
        BY <1>1 DEF SamplesFirst
      <4> QED
        BY <1>2, <3>5, <4>1, <4>2
    <3>8. SamplesFirst'
      BY <1>1, <1>3, <3>3, <3>5, <3>6, <3>7 DEF SamplesFirst
    <3>9. CompletedHasSamples'
      BY <1>1, <3>1, <3>3, <3>4, RecordKeepsSamples
    <3> QED
      BY <3>8, <3>9 DEF DataInv
  <2> QED
    BY <1>8, <2>3, <2>4, <2>5 DEF ChildStep
<1>9. CASE UNCHANGED <<run, records, samples, planned, child>>
  BY <1>1, <1>3, <1>9 DEF DataInv, SamplesFirst, CompletedHasSamples
<1> QED
  BY <1>1, <1>4, <1>5, <1>6, <1>7, <1>8, <1>9, DataSteps DEF ChildWorks

-----------------------------------------------------------------------------
(* A cancel that is known.                                                 *)

CancelInv == CancelIsKnown /\ CancelLeavesNoFallback

\* What CancelIsKnown depends on, and nothing of it changes.
LEMMA CancelSame ==
  ASSUME CancelIsKnown, UNCHANGED <<run, main, worker, child, cancelled, frames>>
  PROVE  CancelIsKnown'
  BY DEF CancelIsKnown, ChildOf, JobOf

\* A thread that goes where the record is made has seen no cancel.
LEMMA CancelThread ==
  ASSUME TypeInv, CancelIsKnown, UNCHANGED <<run, cancelled, frames>>,
         NEW w \in Threads, NEW p \in Places, NEW j, ThreadTo(w, p, j),
         main' = main \/ main' \notin Running,
         \A k \in Jobs : child'[run][k].killed = "cancel" =>
           child[run][k].killed = "cancel" \/ cancelled \/ main' \notin Running,
         \A v \in Threads : worker[v].at \in {"lookUp", "fallback"} /\ v # w =>
           child'[run][JobOf(v)].killed # "cancel",
         p \in {"lookUp", "fallback"} => child'[run][j].killed # "cancel"
  PROVE  CancelIsKnown'
<1>1. /\ main' = Serial => ~cancelled'
      /\ \A i \in DOMAIN frames' : frames'[i].at # "set" => cancelled'
  BY DEF CancelIsKnown, Running, Parallel, Serial
<1>2. (main' \in Running /\ ~cancelled') => \A k \in Jobs : child'[run'][k].killed # "cancel"
  BY DEF CancelIsKnown
<1>3. \A v \in Threads : worker'[v].at \in {"lookUp", "fallback"} => ChildOf(v)'.killed # "cancel"
  BY DEF ThreadTo, ChildOf, JobOf
<1> QED
  BY <1>1, <1>2, <1>3 DEF CancelIsKnown

\* A thread that looks for the record has a child that is no longer alive.
LEMMA DeadWhenLookedUp ==
  ASSUME ControlInv, NEW w \in Threads,
         worker[w].at \in {"discard", "checkAfter", "lookUp", "fallback", "check", "spawn"}
  PROVE  ~Alive(ChildOf(w)) /\ JobOf(w) \in Jobs /\ run \in Runs /\ main \in Running
<1>1. Holds(w) /\ ~InCharge(w)
  BY DEF Holds, InCharge
<1>2. JobOf(w) \in Jobs /\ run \in Runs /\ main \in Running
  BY <1>1, HolderFacts DEF ControlInv
<1>3. \A v \in Threads : InCharge(v) => JobOf(v) # JobOf(w)
  BY <1>1 DEF ControlInv, OnePlace, InCharge, Holds
<1> QED
  BY <1>2, <1>3 DEF ControlInv, ChildrenHaveAThread, ChildOf

LEMMA CancelWorker ==
  ASSUME ControlInv, SamplesFirst, CancelIsKnown, NEW w \in Workers, WorkerStep(w)
  PROVE  CancelIsKnown'
<1>1. /\ TypeInv /\ OneProgram /\ OnePlace
      /\ w \in Threads /\ main = Parallel
  BY DEF ControlInv, Threads, WorkerStep
<1>2. UNCHANGED <<run, main, cancelled, frames>>
  BY DEF WorkerStep, TakeJob, CheckBefore, Spawn, SpawnFails, Register, Recheck, WaitEnds, TimesOut,
         Discard, CheckAfter, LookUp, WriteFallback, parent, cancelling
<1>3. \A v \in Threads : worker[v].at \in {"lookUp", "fallback"} => child[run][JobOf(v)].killed # "cancel"
  BY DEF CancelIsKnown, ChildOf
<1>4. \A v \in Threads : worker[v].at \in {"lookUp", "fallback"} /\ v # w /\ Holds(w) =>
        JobOf(v) # JobOf(w) /\ JobOf(v) \in Jobs
  BY <1>1 DEF OnePlace, Holds
<1>5. "cancel" # "deadline" /\ "cancel" # "no"
  OBVIOUS
<1>6. CASE Spawn(w)
  <2>1. ThreadTo(w, "register", JobOf(w)) /\ ChildStarted(run, JobOf(w), AttemptOf(w))
    BY <1>1, <1>6, WorkerEffects, Zenon
  <2>2. Holds(w) /\ JobOf(w) \in Jobs /\ run \in Runs
    BY <1>1, <1>6, HolderFacts DEF Spawn, Holds
  <2>3. Started(AttemptOf(w)).killed = "no"
    BY DEF Started
  <2>4. /\ \A k \in Jobs : child'[run][k].killed = "cancel" => child[run][k].killed = "cancel"
        /\ \A v \in Threads : worker[v].at \in {"lookUp", "fallback"} /\ v # w =>
             child'[run][JobOf(v)].killed # "cancel"
    BY <1>3, <1>4, <2>1, <2>2, <2>3 DEF ChildStarted, OthersStay
  <2> QED
    BY <1>1, <1>2, <2>1, <2>4, CancelThread DEF Places
<1>7. CASE Recheck(w) \/ TimesOut(w)
  <2>1. \/ ThreadTo(w, "wait", JobOf(w)) /\ (~cancelled => child' = child)
        \/ ThreadTo(w, "discard", JobOf(w))
    BY <1>1, <1>7, WorkerEffects
  <2>2. \/ child' = child
        \/ cancelled /\ ChildKilled(run, JobOf(w), "cancel")
        \/ ChildKilled(run, JobOf(w), "deadline")
    BY <1>1, <1>7, WorkerEffects
  <2>3. Holds(w) /\ JobOf(w) \in Jobs /\ run \in Runs
    BY <1>1, <1>7, HolderFacts DEF Recheck, TimesOut, Holds
  <2>4. /\ \A k \in Jobs : child'[run][k].killed = "cancel" =>
             child[run][k].killed = "cancel" \/ cancelled
        /\ \A v \in Threads : worker[v].at \in {"lookUp", "fallback"} /\ v # w =>
             child'[run][JobOf(v)].killed # "cancel"
    BY <1>3, <1>4, <2>2, <2>3 DEF ChildKilled, OthersStay
  <2> QED
    BY <1>1, <1>2, <2>1, <2>4, CancelThread DEF Places
<1>8. CASE \/ TakeJob(w) \/ CheckBefore(w) \/ SpawnFails(w) \/ Register(w) \/ WaitEnds(w)
           \/ Discard(w) \/ WriteFallback(w)
  <2>1. child' = child
    BY <1>8 DEF TakeJob, CheckBefore, SpawnFails, Register, WaitEnds, Discard, WriteFallback
  <2>2. \E p \in Places \ {"lookUp", "fallback"} : \E j : ThreadTo(w, p, j)
    BY <1>1, <1>8, WorkerEffects DEF Places
  <2> QED
    BY <1>1, <1>2, <1>3, <2>1, <2>2, CancelThread
<1>9. CASE CheckAfter(w)
  <2>1. child' = child
    BY <1>9 DEF CheckAfter
  <2>2. \/ ThreadTo(w, "stopped", NoJob)
        \/ ~cancelled /\ ThreadTo(w, "lookUp", JobOf(w))
    BY <1>1, <1>9, WorkerEffects
  <2>3. JobOf(w) \in Jobs
    BY <1>1, <1>9, HolderFacts DEF CheckAfter, Holds
  <2>4. ~cancelled => child[run][JobOf(w)].killed # "cancel"
    BY <1>1, <2>3 DEF CancelIsKnown, Running
  <2> QED
    BY <1>1, <1>2, <1>3, <2>1, <2>2, <2>4, CancelThread DEF Places
<1>10. CASE LookUp(w)
  <2>1. child' = child /\ worker[w].at = "lookUp"
    BY <1>10 DEF LookUp
  <2>2. \/ ThreadTo(w, "loop", NoJob)
        \/ ThreadTo(w, "fallback", JobOf(w))
    BY <1>1, <1>10, WorkerEffects
  <2> QED
    BY <1>1, <1>2, <1>3, <2>1, <2>2, CancelThread DEF Places
<1> QED
  BY <1>6, <1>7, <1>8, <1>9, <1>10 DEF WorkerStep

LEMMA CancelSerial ==
  ASSUME ControlInv, SamplesFirst, CancelIsKnown, SerialStep
  PROVE  CancelIsKnown'
<1>1. /\ TypeInv /\ OneProgram /\ OnePlace
      /\ Main \in Threads /\ main = Serial /\ ~cancelled
  BY DEF ControlInv, Threads, SerialStep, TakeNext, SpawnAlone, SpawnAloneFails, InstallHandlers,
         WaitAlone, KillAlone, At, CancelIsKnown
<1>2. UNCHANGED <<run, cancelled, frames>>
  BY DEF SerialStep, TakeNext, SpawnAlone, SpawnAloneFails, InstallHandlers, WaitAlone, KillAlone,
         LookUp, WriteFallback, parent, cancelling
<1>3. /\ \A k \in Jobs : child[run][k].killed # "cancel"
      /\ \A v \in Threads : v # Main => worker[v].at = "stopped"
  BY <1>1 DEF CancelIsKnown, OneProgram, Threads, Running, Parallel, Serial
<1>4. ASSUME NEW p \in Places, At(p), p \notin {"stopped", "loop"}
      PROVE  JobOf(Main) \in Jobs /\ run \in Runs
  BY <1>1, <1>4, HolderFacts DEF At, Holds
<1>5. CASE SpawnAlone
  <2>1. ThreadTo(Main, "install", JobOf(Main)) /\ ChildStarted(run, JobOf(Main), AttemptOf(Main))
    BY <1>1, <1>5, SerialEffects, Zenon
  <2>2. JobOf(Main) \in Jobs /\ run \in Runs /\ main' = main
    BY <1>4, <1>5 DEF SpawnAlone, Places
  <2>3. Started(AttemptOf(Main)).killed = "no"
    BY DEF Started
  <2>4. \A k \in Jobs : child'[run][k].killed # "cancel"
    BY <1>3, <2>1, <2>2, <2>3 DEF ChildStarted, OthersStay
  <2> QED
    BY <1>1, <1>2, <1>3, <2>1, <2>2, <2>4, CancelThread DEF Places
<1>6. CASE WaitAlone
  <2>1. /\ ThreadTo(Main, "lookUp", JobOf(Main))
        /\ child' = child \/ ChildKilled(run, JobOf(Main), "deadline")
    BY <1>1, <1>6, SerialEffects, Zenon
  <2>2. JobOf(Main) \in Jobs /\ run \in Runs /\ main' = main
    BY <1>4, <1>6 DEF WaitAlone, Places
  <2>3. \A k \in Jobs : child'[run][k].killed # "cancel"
    BY <1>3, <2>1, <2>2 DEF ChildKilled, OthersStay
  <2> QED
    BY <1>1, <1>2, <1>3, <2>1, <2>2, <2>3, CancelThread DEF Places
<1>7. CASE KillAlone
  <2>1. ThreadTo(Main, "stopped", NoJob) /\ main' = "cancelled"
    BY <1>1, <1>7, SerialEffects DEF KillAlone
  <2> QED
    BY <1>1, <1>2, <1>3, <2>1, CancelThread DEF Places, Running, Parallel, Serial
<1>8. CASE TakeNext \/ SpawnAloneFails \/ InstallHandlers
  <2>1. \E p \in Places \ {"lookUp", "fallback"} : \E j : ThreadTo(Main, p, j)
    BY <1>1, <1>8, SerialEffects DEF Places
  <2>2. child' = child /\ main' \in {main, "returned", "failed"}
    BY <1>8 DEF TakeNext, SpawnAloneFails, InstallHandlers
  <2> QED
    BY <1>1, <1>2, <1>3, <2>1, <2>2, CancelThread DEF Running, Parallel, Serial
<1>9. CASE LookUp(Main) \/ WriteFallback(Main)
  <2>1. /\ child' = child /\ main' = main
        /\ worker[Main].at \in {"lookUp", "fallback"}
    BY <1>9 DEF LookUp, WriteFallback
  <2>2. ThreadTo(Main, "loop", NoJob) \/ ThreadTo(Main, "fallback", JobOf(Main))
    BY <1>1, <1>9, WorkerEffects
  <2>3. child[run][JobOf(Main)].killed # "cancel"
    BY <1>1, <2>1 DEF CancelIsKnown, ChildOf
  <2> QED
    BY <1>1, <1>2, <1>3, <2>1, <2>2, <2>3, CancelThread DEF Places
<1> QED
  BY <1>5, <1>6, <1>7, <1>8, <1>9 DEF SerialStep

LEMMA CancelHandler ==
  ASSUME ControlInv, CancelIsKnown, HandlerStep
  PROVE  CancelIsKnown'
<1>1. /\ TypeInv /\ OneProgram /\ main = Parallel /\ frames # <<>>
      /\ UNCHANGED <<run, main, worker>>
  BY DEF ControlInv, HandlerStep, parent
<1>2. /\ Len(frames) \in Nat /\ Len(frames) > 0
      /\ DOMAIN frames = 1 .. Len(frames) /\ Len(frames) \in DOMAIN frames
      /\ Top = frames[Len(frames)]
  BY <1>1, TopFrame DEF TypeInv, Top
<1>3. Top.at # "set" => cancelled
  BY <1>2 DEF CancelIsKnown
<1>4. ASSUME NEW f \in Frame, FrameTo(f), cancelled'
      PROVE  \A i \in DOMAIN frames' : frames'[i].at # "set" => cancelled'
  BY <1>4
<1>5. CASE SetEvent /\ child' = child
  <2>1. cancelled' = TRUE
    BY <1>5 DEF SetEvent
  <2> QED
    BY <1>1, <1>5, <2>1 DEF CancelIsKnown, ChildOf, JobOf, Parallel, Serial
<1>6. CASE (LockRegistry \/ CopyRegistry \/ HandlerReturns) /\ child' = child
  <2>1. cancelled' = cancelled /\ Top.at # "set"
    BY <1>6 DEF LockRegistry, CopyRegistry, HandlerReturns
  <2> QED
    BY <1>1, <1>3, <1>6, <2>1 DEF CancelIsKnown, ChildOf, JobOf, Parallel, Serial
<1>7. CASE KillOne
  <2>1. cancelled' = cancelled /\ cancelled
    BY <1>3, <1>7 DEF KillOne
  <2>2. PICK j \in Jobs : ChildKilled(run, j, "cancel")
    BY <1>1, <1>7, HandlerEffects
  <2>3. \A v \in Threads : worker[v].at \in {"lookUp", "fallback"} =>
          ~Alive(ChildOf(v)) /\ JobOf(v) \in Jobs /\ run \in Runs
    BY DeadWhenLookedUp
  <2>4. \A v \in Threads : worker[v].at \in {"lookUp", "fallback"} =>
          child'[run][JobOf(v)] = child[run][JobOf(v)]
    BY <2>2, <2>3 DEF ChildKilled, OthersStay, ChildOf
  <2> QED
    BY <1>1, <2>1, <2>4 DEF CancelIsKnown, ChildOf, JobOf, Parallel, Serial
<1> QED
  BY <1>5, <1>6, <1>7 DEF HandlerStep

LEMMA CancelStep ==
  ASSUME ControlInv, SamplesFirst, CancelIsKnown, [Next]_vars
  PROVE  CancelIsKnown'
<1>1. TypeInv /\ OneProgram /\ OnePlace /\ NoChildAhead /\ Runs' = Runs
  BY BudgetKept, SameRuns DEF ControlInv
<1>2. CASE StartRun
  <2>1. /\ run' = run + 1 /\ run' \in Runs
        /\ \A w \in Threads : worker'[w].at \in {"loop", "stopped"}
    BY <1>1, <1>2, StartRunEffect
  <2>2. /\ cancelled' = FALSE /\ frames' = <<>> /\ child' = child
    BY <1>2 DEF StartRun
  <2>3. \A j \in Jobs : child[run'][j].killed = "no"
    BY <1>1, <2>1, NobodysChild DEF NoChildAhead, TypeInv
  <2> QED
    BY <2>1, <2>2, <2>3 DEF CancelIsKnown
<1>3. CASE AnyChildStep
  <2>1. PICK r \in Runs, j \in Jobs : ChildStep(r, j)
    BY <1>3 DEF AnyChildStep
  <2>2. \E p \in Phases : ChildTo(r, j, p)
    BY <1>1, <2>1, ChildEffects DEF ChildStep, Phases
  <2>3. UNCHANGED <<run, main, worker, cancelled, frames>>
    BY <2>1 DEF ChildStep, parent, cancelling
  <2>4. \A s \in Runs, k \in Jobs : child'[s][k].killed = child[s][k].killed
    BY <2>2 DEF ChildTo, OthersStay
  <2>5. main \in Running => run \in Runs
    BY <1>1 DEF OneProgram, Running, Parallel, Serial
  <2>6. \A v \in Threads : worker[v].at \in {"lookUp", "fallback"} =>
          JobOf(v) \in Jobs /\ run \in Runs
    BY DeadWhenLookedUp
  <2> QED
    BY <2>3, <2>4, <2>5, <2>6 DEF CancelIsKnown, ChildOf, JobOf
<1>4. CASE Signal
  <2>1. /\ Len(frames') = Len(frames) + 1 /\ frames' \in Seq(Frame)
        /\ \A i \in 1 .. Len(frames) : frames'[i] = frames[i]
        /\ frames'[Len(frames) + 1].at = "set"
    BY <1>1, <1>4, SignalEffect
  <2>2. UNCHANGED <<run, main, worker, child, cancelled>>
    BY <1>4 DEF Signal, parent
  <2>3. Len(frames) \in Nat /\ DOMAIN frames = 1 .. Len(frames)
        /\ DOMAIN frames' = 1 .. Len(frames) + 1
    BY <1>1, <2>1 DEF TypeInv
  <2>4. \A i \in DOMAIN frames' : frames'[i].at # "set" => cancelled'
    BY <2>1, <2>2, <2>3 DEF CancelIsKnown
  <2> QED
    BY <2>2, <2>4 DEF CancelIsKnown, ChildOf, JobOf
<1>5. CASE JoinWorkers
  BY <1>5 DEF JoinWorkers, CancelIsKnown, ChildOf, JobOf, parent, cancelling, Running, Parallel, Serial
<1>6. ASSUME ParentDies
      PROVE  CancelIsKnown'
  <2>1. frames' = <<>> /\ \A w \in Threads : worker'[w].at = "stopped"
    BY <1>1, <1>6, ParentDiesEffect
  <2>2. main' = "killed"
    BY <1>6 DEF ParentDies
  <2> QED
    BY <2>1, <2>2 DEF CancelIsKnown, Running, Parallel, Serial
<1>7. CASE SignalAlone
  <2>1. CASE SignalInWait
    <3>1. \/ ThreadTo(Main, "kill", JobOf(Main)) /\ main' = main
          \/ ThreadTo(Main, "stopped", NoJob) /\ main' = "cancelled"
      BY <1>1, <2>1, SerialEffects
    <3>2. UNCHANGED <<run, child, cancelled, frames>>
      BY <2>1 DEF SignalInWait, parent
    <3>3. \A v \in Threads : worker[v].at \in {"lookUp", "fallback"} =>
            child[run][JobOf(v)].killed # "cancel"
      BY DEF CancelIsKnown, ChildOf
    <3>4. Main \in Threads
      BY DEF Threads
    <3> QED
      BY <1>1, <3>1, <3>2, <3>3, <3>4, CancelThread DEF Places, Running, Parallel, Serial
  <2>2. CASE SignalOutsideWait
    BY <1>6, <2>2 DEF SignalOutsideWait
  <2> QED
    BY <1>7, <2>1, <2>2 DEF SignalAlone
<1>8. CASE UNCHANGED vars
  BY <1>8, CancelSame DEF vars, parent, cancelling
<1> QED
  BY <1>2, <1>3, <1>4, <1>5, <1>6, <1>7, <1>8, CancelWorker, CancelSerial, CancelHandler
     DEF Next, MainStep, KillParent, Finished


LEMMA CancelInit == Init => CancelInv
<1> SUFFICES ASSUME Init PROVE CancelInv
  OBVIOUS
<1>1. /\ child = [r \in Runs |-> [j \in Jobs |-> NoChild]]
      /\ worker = [w \in Threads |-> Idle]
      /\ main = "off" /\ ~cancelled /\ frames = <<>>
  BY DEF Init
<1>2. Idle.at = "stopped"
  BY DEF Idle
<1>3. CancelIsKnown
  BY <1>1, <1>2 DEF CancelIsKnown, Running, Parallel, Serial
<1>4. ASSUME NEW j \in Jobs, NEW i \in DOMAIN records[j]
      PROVE  records[j][i].killed = "no"
  BY <1>4 DEF Init
<1> QED
  BY <1>3, <1>4 DEF CancelInv, CancelLeavesNoFallback

\* A record that does not follow a cancel, or does not look like a crash.
LEMMA RecordKeepsCancels ==
  ASSUME TypeInv, CancelLeavesNoFallback, NEW j \in Jobs, NEW a \in Nat, a <= Len(records[j]),
         NEW kind, NEW killed, RecordIs(j, a, kind, killed), killed # "cancel"
  PROVE  CancelLeavesNoFallback'
<1>1. \A k \in Jobs : /\ Len(records[k]) \in Nat /\ DOMAIN records[k] = 1 .. Len(records[k])
                      /\ DOMAIN records'[k] = 1 .. Len(records'[k])
  BY DEF TypeInv, RecordIs
<1>2. ASSUME NEW k \in Jobs, NEW i \in DOMAIN records'[k], records'[k][i].killed = "cancel"
      PROVE  records'[k][i].kind \notin Fallback
  <2>1. CASE k # j
    BY <1>1, <1>2, <2>1 DEF CancelLeavesNoFallback, RecordIs
  <2>2. CASE k = j /\ i = a + 1
    <3>1. records'[j][a + 1].killed = killed
      BY DEF RecordIs
    <3> QED
      BY <1>2, <2>2, <3>1
  <2>3. CASE k = j /\ i # a + 1
    <3>1. i \in 1 .. Len(records[j]) /\ records'[j][i] = records[j][i]
      BY <1>1, <2>3 DEF RecordIs
    <3> QED
      BY <1>1, <1>2, <2>3, <3>1 DEF CancelLeavesNoFallback
  <2> QED
    BY <2>1, <2>2, <2>3
<1> QED
  BY <1>2 DEF CancelLeavesNoFallback

LEMMA CancelInvStep ==
  ASSUME ControlInv, DataInv, CancelInv, [Next]_vars
  PROVE  CancelInv'
<1>1. TypeInv /\ OneProgram /\ OnePlace /\ SamplesFirst /\ CancelIsKnown /\ CancelLeavesNoFallback
  BY DEF ControlInv, DataInv, CancelInv
<1>2. CancelIsKnown'
  BY <1>1, CancelStep
<1>3. ASSUME UNCHANGED records
      PROVE  CancelLeavesNoFallback'
  BY <1>1, <1>3 DEF CancelLeavesNoFallback
<1> SUFFICES CancelLeavesNoFallback'
  BY <1>2 DEF CancelInv
<1>4. CASE StartRun \/ StartsChild \/ KillsChild \/ UNCHANGED records
  <2>1. StartRun => UNCHANGED records
    BY DEF StartRun, disk
  <2>2. StartsChild \/ KillsChild => UNCHANGED records
    BY DEF StartsChild, KillsChild, DataSame
  <2> QED
    BY <1>3, <1>4, <2>1, <2>2
<1>5. CASE FallsBack
  <2>1. PICK w \in Threads :
          /\ worker[w].at = "fallback"
          /\ \E kind \in Fallback : RecordIs(JobOf(w), AttemptOf(w), kind, ChildOf(w).killed)
    BY <1>5 DEF FallsBack
  <2>2. JobOf(w) \in Jobs /\ AttemptOf(w) \in Nat
    BY <1>1, <2>1, HolderFacts DEF Holds
  <2>3. AttemptOf(w) <= Len(records[JobOf(w)])
    BY <1>1, <2>2 DEF SamplesFirst, AttemptOf
  <2>4. ChildOf(w).killed # "cancel"
    BY <1>1, <2>1 DEF CancelIsKnown
  <2>5. PICK kind \in Fallback : RecordIs(JobOf(w), AttemptOf(w), kind, ChildOf(w).killed)
    BY <2>1
  <2> QED
    BY <1>1, <2>2, <2>3, <2>4, <2>5, RecordKeepsCancels
<1>6. ASSUME NEW r \in Runs, NEW j \in Jobs, ChildStep(r, j)
      PROVE  CancelLeavesNoFallback'
  <2>1. CASE WriteCompleted(r, j) \/ WriteWithoutSamples(r, j)
    <3>1. child[r][j].phase # "none" /\ \E kind : RecordIs(j, child[r][j].attempt, kind, "no")
      BY <1>1, <2>1, ChildEffects
    <3>2. child[r][j].attempt \in Nat /\ child[r][j].attempt <= Len(records[j])
      BY <1>1, <3>1 DEF SamplesFirst
    <3>3. "no" # "cancel"
      OBVIOUS
    <3> QED
      BY <1>1, <3>1, <3>2, <3>3, RecordKeepsCancels
  <2>2. CASE SkipJob(r, j) \/ BeginJob(r, j) \/ WriteSamples(r, j) \/ Exit(r, j) \/ CrashChild(r, j)
    BY <1>3, <2>2 DEF SkipJob, BeginJob, WriteSamples, Exit, CrashChild, disk
  <2> QED
    BY <1>6, <2>1, <2>2 DEF ChildStep
<1>7. StartRun \/ StartsChild \/ KillsChild \/ FallsBack \/ ChildWorks \/ UNCHANGED records
  BY <1>1, DataSteps
<1> QED
  BY <1>4, <1>5, <1>6, <1>7 DEF ChildWorks

-----------------------------------------------------------------------------
(* A run that returns is complete.                                         *)

CompleteInv == NothingIsLost /\ ReturnedIsComplete

\* Within a run the attempts are planned and no record goes away.
LEMMA RecordsGrow ==
  ASSUME ControlInv, DataInv, [Next]_vars
  PROVE  /\ \A j \in Jobs : /\ Len(records[j]) \in Nat /\ Len(records'[j]) \in Nat
                            /\ Len(records[j]) <= Len(records'[j])
         /\ StartRun \/ planned' = planned
<1>1. TypeInv /\ OneProgram /\ OnePlace /\ SamplesFirst
  BY DEF ControlInv, DataInv
<1>2. \A j \in Jobs : Len(records[j]) \in Nat
  BY <1>1 DEF TypeInv
<1> DEFINE Grow == /\ \A j \in Jobs : /\ Len(records'[j]) \in Nat
                                      /\ Len(records[j]) <= Len(records'[j])
                   /\ StartRun \/ planned' = planned
<1>3. ASSUME UNCHANGED records, StartRun \/ planned' = planned
      PROVE  Grow
  BY <1>2, <1>3
<1>4. ASSUME NEW j \in Jobs, NEW a \in Nat, a <= Len(records[j]),
             NEW kind, NEW killed, RecordIs(j, a, kind, killed), UNCHANGED planned
      PROVE  Grow
  BY <1>1, <1>4, RecordKeepsBounds
<1>5. CASE StartRun
  <2>1. UNCHANGED records
    BY <1>5 DEF StartRun, disk
  <2> QED
    BY <1>2, <1>3, <1>5, <2>1
<1>6. CASE StartsChild \/ KillsChild
  <2>1. UNCHANGED <<records, planned>>
    BY <1>6 DEF StartsChild, KillsChild, DataSame
  <2> QED
    BY <1>2, <1>3, <2>1
<1>7. CASE FallsBack
  <2>1. PICK w \in Threads :
          /\ worker[w].at = "fallback"
          /\ \E kind \in Fallback : RecordIs(JobOf(w), AttemptOf(w), kind, ChildOf(w).killed)
          /\ UNCHANGED planned
    BY <1>7 DEF FallsBack
  <2>2. JobOf(w) \in Jobs /\ AttemptOf(w) \in Nat
    BY <1>1, <2>1, HolderFacts DEF Holds
  <2>3. AttemptOf(w) <= Len(records[JobOf(w)])
    BY <1>1, <2>2 DEF SamplesFirst, AttemptOf
  <2> QED
    BY <1>2, <1>4, <2>1, <2>2, <2>3
<1>8. CASE ChildWorks
  <2>1. PICK r \in Runs, j \in Jobs : ChildStep(r, j)
    BY <1>8 DEF ChildWorks
  <2>2. UNCHANGED planned
    BY <2>1 DEF ChildStep, parent
  <2>3. CASE WriteCompleted(r, j) \/ WriteWithoutSamples(r, j)
    <3>1. child[r][j].phase # "none" /\ \E kind : RecordIs(j, child[r][j].attempt, kind, "no")
      BY <1>1, <2>3, ChildEffects
    <3>2. child[r][j].attempt \in Nat /\ child[r][j].attempt <= Len(records[j])
      BY <1>1, <3>1 DEF SamplesFirst
    <3> QED
      BY <1>2, <1>4, <2>2, <3>1, <3>2
  <2>4. CASE ~(WriteCompleted(r, j) \/ WriteWithoutSamples(r, j))
    <3>1. UNCHANGED records
      BY <2>1, <2>4 DEF ChildStep, SkipJob, BeginJob, WriteSamples, Exit, CrashChild, disk
    <3> QED
      BY <1>2, <1>3, <2>2, <3>1
  <2> QED
    BY <2>3, <2>4
<1>9. CASE UNCHANGED <<run, records, samples, planned, child>>
  BY <1>2, <1>3, <1>9
<1> QED
  BY <1>1, <1>5, <1>6, <1>7, <1>8, <1>9, DataSteps

\* A step of one thread: it keeps its job, or that has its record.
LEMMA ThreadLosesNothing ==
  ASSUME TypeInv, OneProgram, OnePlace, NothingIsLost, planned' = planned,
         \A j \in Jobs : /\ Len(records[j]) \in Nat /\ Len(records'[j]) \in Nat
                         /\ Len(records[j]) <= Len(records'[j]),
         NEW w \in Threads, NEW p \in Places, NEW j, ThreadTo(w, p, j),
         main' = main \/ main' \notin Running, main' = Serial => errors' = errors,
         cancelled => cancelled', errors => errors', queue' \subseteq queue,
         \/ main' \notin Running \/ cancelled' \/ errors'
         \/ /\ \A k \in queue : k \in queue' \/ (p \notin {"stopped", "loop"} /\ k = j)
            /\ Holds(w) => \/ p \notin {"stopped", "loop"} /\ j = JobOf(w)
                           \/ AttemptOf(w) < Len(records'[JobOf(w)])
            /\ p = "stopped" => queue' = {}
  PROVE  NothingIsLost'
<1>1. \A v \in Threads : v # w => worker'[v] = worker[v]
  BY DEF ThreadTo
<1>2. worker'[w].at = p /\ worker'[w].job = j
  BY DEF ThreadTo
<1>3. ASSUME main' \in Running, ~cancelled', ~errors',
             NEW k \in Jobs, planned'[k] # NoAttempt
      PROVE  \/ k \in queue'
             \/ \E v \in Threads : Holds(v)' /\ JobOf(v)' = k
             \/ planned'[k] < Len(records'[k])
  <2>1. CASE k \in queue
    <3>1. k \in queue' \/ (p \notin {"stopped", "loop"} /\ k = j)
      BY <1>3, <2>1
    <3> QED
      BY <1>2, <3>1 DEF Holds, JobOf
  <2>2. CASE \E v \in Threads : Holds(v) /\ JobOf(v) = k
    <3>1. PICK v \in Threads : Holds(v) /\ JobOf(v) = k
      BY <2>2
    <3>2. CASE v # w
      BY <1>1, <3>1, <3>2 DEF Holds, JobOf
    <3>3. CASE v = w
      <4>1. \/ p \notin {"stopped", "loop"} /\ j = k
            \/ planned[k] < Len(records'[k])
        BY <1>3, <3>1, <3>3 DEF AttemptOf
      <4> QED
        BY <1>2, <4>1 DEF Holds, JobOf
    <3> QED
      BY <3>2, <3>3
  <2>3. CASE HasRecord(k, planned[k])
    BY <2>3 DEF HasRecord, TypeInv
  <2> QED
    BY <1>3, <2>1, <2>2, <2>3 DEF NothingIsLost
<1>4. ASSUME main' = Parallel, ~cancelled', ~errors',
             NEW v \in Workers, worker'[v].at = "stopped"
      PROVE  queue' = {}
  <2>1. main = Parallel /\ v \in Threads
    BY <1>4 DEF Running, Threads
  <2>2. CASE v = w
    BY <1>2, <1>4, <2>2 DEF Running
  <2>3. CASE v # w
    BY <1>1, <1>4, <2>1, <2>3 DEF NothingIsLost
  <2> QED
    BY <2>2, <2>3
<1>5. main' = Serial => ~errors'
  BY DEF NothingIsLost, Running, Parallel, Serial
<1> QED
  BY <1>3, <1>4, <1>5 DEF NothingIsLost, HasRecord

\* A step that leaves the threads and the queue alone.
LEMMA OtherLosesNothing ==
  ASSUME TypeInv, NothingIsLost,
         \A j \in Jobs : /\ Len(records[j]) \in Nat /\ Len(records'[j]) \in Nat
                         /\ Len(records[j]) <= Len(records'[j]),
         UNCHANGED <<main, planned, queue, worker, errors>>, cancelled => cancelled'
  PROVE  NothingIsLost'
<1>1. \A k \in Jobs : HasRecord(k, planned[k]) => planned'[k] < Len(records'[k])
  BY DEF HasRecord, TypeInv
<1>2. /\ \A v \in Threads : Holds(v)' = Holds(v) /\ JobOf(v)' = JobOf(v)
      /\ main' = main /\ queue' = queue /\ worker' = worker /\ errors' = errors /\ planned' = planned
  BY DEF Holds, JobOf
<1> QED
  BY <1>1, <1>2 DEF NothingIsLost, HasRecord

\* A thread that has looked for the record lets go of its job when that is there.
LEMMA LookedUp ==
  ASSUME TypeInv, OneProgram, OnePlace, SamplesFirst, NEW w \in Threads,
         JobOf(w) \in Jobs, AttemptOf(w) \in Nat,
         \A j \in Jobs : /\ Len(records[j]) \in Nat /\ Len(records'[j]) \in Nat
                         /\ Len(records[j]) <= Len(records'[j]),
         LookUp(w) \/ WriteFallback(w)
  PROVE  \/ ThreadTo(w, "fallback", JobOf(w))
         \/ ThreadTo(w, "loop", NoJob) /\ AttemptOf(w) < Len(records'[JobOf(w)])
<1>1. CASE LookUp(w)
  BY <1>1, WorkerEffects DEF HasRecord
<1>2. CASE WriteFallback(w)
  <2>1. ThreadTo(w, "loop", NoJob)
    BY <1>2, WorkerEffects
  <2>2. UNCHANGED planned
    BY <1>2 DEF WriteFallback, parent
  <2>3. PICK kind \in Fallback : RecordIs(JobOf(w), AttemptOf(w), kind, ChildOf(w).killed)
    BY <1>2, FallbackEffect
  <2>4. AttemptOf(w) <= Len(records[JobOf(w)])
    BY DEF SamplesFirst, AttemptOf
  <2> QED
    BY <2>1, <2>2, <2>3, <2>4, RecordKeepsBounds
<1> QED
  BY <1>1, <1>2

LEMMA WorkerLosesNothing ==
  ASSUME ControlInv, DataInv, NothingIsLost, NEW w \in Workers, WorkerStep(w)
  PROVE  NothingIsLost' /\ UNCHANGED <<main, planned>>
<1>1. /\ TypeInv /\ OneProgram /\ OnePlace /\ SamplesFirst
      /\ w \in Threads /\ main = Parallel
  BY DEF ControlInv, DataInv, Threads, WorkerStep
<1>2. UNCHANGED <<main, planned, cancelled>>
  BY DEF WorkerStep, TakeJob, CheckBefore, Spawn, SpawnFails, Register, Recheck, WaitEnds, TimesOut,
         Discard, CheckAfter, LookUp, WriteFallback, parent, cancelling
<1>3. \A j \in Jobs : /\ Len(records[j]) \in Nat /\ Len(records'[j]) \in Nat
                      /\ Len(records[j]) <= Len(records'[j])
  BY RecordsGrow DEF Next
<1>4. main # Serial
  BY <1>1 DEF Parallel, Serial
<1> SUFFICES NothingIsLost'
  BY <1>2
<1>5. CASE TakeJob(w)
  <2>1. errors' = errors /\ ~Holds(w)
    BY <1>5 DEF TakeJob, Holds, parent
  <2>2. CASE (cancelled \/ queue = {}) /\ ThreadTo(w, "stopped", NoJob) /\ queue' = queue
    BY <1>1, <1>2, <1>3, <1>4, <2>1, <2>2, ThreadLosesNothing DEF Places
  <2>3. CASE \E j \in queue : ThreadTo(w, "check", j) /\ queue' = queue \ {j}
    <3>1. PICK j \in queue : ThreadTo(w, "check", j) /\ queue' = queue \ {j}
      BY <2>3
    <3> QED
      BY <1>1, <1>2, <1>3, <1>4, <2>1, <3>1, ThreadLosesNothing DEF Places
  <2> QED
    BY <1>1, <1>5, <2>2, <2>3, WorkerEffects
<1>6. CASE CheckBefore(w) \/ CheckAfter(w)
  <2>1. errors' = errors /\ queue' = queue
    BY <1>6 DEF CheckBefore, CheckAfter, parent
  <2>2. \/ cancelled /\ ThreadTo(w, "stopped", NoJob)
        \/ \E p \in Places \ {"stopped", "loop"} : ThreadTo(w, p, JobOf(w))
    BY <1>1, <1>6, WorkerEffects DEF Places
  <2> QED
    BY <1>1, <1>2, <1>3, <1>4, <2>1, <2>2, ThreadLosesNothing DEF Places
<1>7. CASE SpawnFails(w)
  <2>1. errors' = TRUE /\ queue' = queue
    BY <1>7 DEF SpawnFails
  <2>2. ThreadTo(w, "stopped", NoJob)
    BY <1>1, <1>7, WorkerEffects
  <2> QED
    BY <1>1, <1>2, <1>3, <1>4, <2>1, <2>2, ThreadLosesNothing DEF Places
<1>8. CASE Spawn(w) \/ Register(w) \/ Recheck(w) \/ WaitEnds(w) \/ TimesOut(w) \/ Discard(w)
  <2>1. errors' = errors /\ queue' = queue
    <3>1. Spawn(w) \/ Register(w) \/ WaitEnds(w) \/ Discard(w) =>
            errors' = errors /\ queue' = queue
      BY DEF Spawn, Register, WaitEnds, Discard, parent
    <3>2. Recheck(w) \/ TimesOut(w) => errors' = errors /\ queue' = queue
      BY DEF Recheck, TimesOut, parent
    <3> QED
      BY <1>8, <3>1, <3>2
  <2>2. PICK p \in Places \ {"stopped", "loop"} : ThreadTo(w, p, JobOf(w))
    BY <1>1, <1>8, WorkerEffects DEF Places
  <2> QED
    BY <1>1, <1>2, <1>3, <1>4, <2>1, <2>2, ThreadLosesNothing
<1>9. CASE LookUp(w) \/ WriteFallback(w)
  <2>1. errors' = errors /\ queue' = queue /\ JobOf(w) \in Jobs /\ AttemptOf(w) \in Nat
    <3>1. worker[w].at \in {"lookUp", "fallback"} /\ errors' = errors /\ queue' = queue
      BY <1>9 DEF LookUp, WriteFallback, parent
    <3> QED
      BY <1>1, <3>1, HolderFacts DEF Holds
  <2>2. \/ ThreadTo(w, "fallback", JobOf(w))
        \/ ThreadTo(w, "loop", NoJob) /\ AttemptOf(w) < Len(records'[JobOf(w)])
    BY <1>1, <1>3, <1>9, <2>1, LookedUp
  <2> QED
    BY <1>1, <1>2, <1>3, <1>4, <2>1, <2>2, ThreadLosesNothing DEF Places
<1> QED
  BY <1>5, <1>6, <1>7, <1>8, <1>9 DEF WorkerStep

LEMMA SerialLosesNothing ==
  ASSUME ControlInv, DataInv, CancelIsKnown, NothingIsLost, SerialStep
  PROVE  /\ NothingIsLost' /\ UNCHANGED planned /\ main = Serial
         /\ main' = "returned" =>
              \A j \in Jobs : planned'[j] # NoAttempt => planned'[j] < Len(records'[j])
<1>1. /\ TypeInv /\ OneProgram /\ OnePlace /\ SamplesFirst
      /\ Main \in Threads /\ main = Serial /\ ~cancelled /\ ~errors
  BY DEF ControlInv, DataInv, Threads, SerialStep, TakeNext, SpawnAlone, SpawnAloneFails,
         InstallHandlers, WaitAlone, KillAlone, At, CancelIsKnown, NothingIsLost
<1>2. UNCHANGED <<planned, cancelled, errors>>
  BY DEF SerialStep, TakeNext, SpawnAlone, SpawnAloneFails, InstallHandlers, WaitAlone, KillAlone,
         LookUp, WriteFallback, parent, cancelling
<1>3. \A j \in Jobs : /\ Len(records[j]) \in Nat /\ Len(records'[j]) \in Nat
                      /\ Len(records[j]) <= Len(records'[j])
  BY RecordsGrow DEF Next, MainStep
<1>4. main # "returned" /\ main \in Running
  BY <1>1 DEF Serial, Running
<1>5. CASE TakeNext
  <2>1. ~Holds(Main) /\ At("loop")
    BY <1>5 DEF TakeNext, Holds, At
  <2>2. CASE queue = {} /\ ThreadTo(Main, "stopped", NoJob) /\ main' = "returned" /\ queue' = queue
    <3>1. \A v \in Threads : ~Holds(v)
      BY <1>1, <2>1 DEF OneProgram, Threads, Holds, Parallel, Serial
    <3>2. \A j \in Jobs : planned[j] # NoAttempt => HasRecord(j, planned[j])
      BY <1>1, <1>4, <2>2, <3>1 DEF NothingIsLost
    <3>3. \A j \in Jobs : planned'[j] # NoAttempt => planned'[j] < Len(records'[j])
      BY <1>1, <1>2, <1>3, <3>2 DEF HasRecord, TypeInv
    <3>4. NothingIsLost'
      BY <2>2 DEF NothingIsLost, Running, Parallel, Serial
    <3> QED
      BY <1>1, <1>2, <3>3, <3>4
  <2>3. CASE \E j \in queue : ThreadTo(Main, "spawn", j) /\ queue' = queue \ {j} /\ main' = main
    <3>1. PICK j \in queue : ThreadTo(Main, "spawn", j) /\ queue' = queue \ {j} /\ main' = main
      BY <2>3
    <3>2. NothingIsLost'
      BY <1>1, <1>2, <1>3, <2>1, <3>1, ThreadLosesNothing DEF Places
    <3> QED
      BY <1>1, <1>2, <1>4, <3>1, <3>2
  <2> QED
    BY <1>1, <1>5, <2>2, <2>3, SerialEffects
<1>6. CASE SpawnAloneFails \/ KillAlone
  <2>1. main' \in {"failed", "cancelled"}
    BY <1>6 DEF SpawnAloneFails, KillAlone
  <2> QED
    BY <1>1, <1>2, <2>1 DEF NothingIsLost, Running, Parallel, Serial
<1>7. CASE SpawnAlone \/ InstallHandlers \/ WaitAlone
  <2>1. main' = main /\ queue' = queue
    <3>1. SpawnAlone \/ InstallHandlers => main' = main /\ queue' = queue
      BY DEF SpawnAlone, InstallHandlers
    <3>2. WaitAlone => main' = main /\ queue' = queue
      BY DEF WaitAlone
    <3> QED
      BY <1>7, <3>1, <3>2
  <2>2. PICK p \in Places \ {"stopped", "loop"} : ThreadTo(Main, p, JobOf(Main))
    BY <1>1, <1>7, SerialEffects DEF Places
  <2>3. NothingIsLost'
    BY <1>1, <1>2, <1>3, <2>1, <2>2, ThreadLosesNothing
  <2> QED
    BY <1>1, <1>2, <1>4, <2>1, <2>3
<1>8. CASE LookUp(Main) \/ WriteFallback(Main)
  <2>1. main' = main /\ queue' = queue /\ JobOf(Main) \in Jobs /\ AttemptOf(Main) \in Nat
    <3>1. worker[Main].at \in {"lookUp", "fallback"} /\ main' = main /\ queue' = queue
      BY <1>8 DEF LookUp, WriteFallback
    <3> QED
      BY <1>1, <3>1, HolderFacts DEF Holds
  <2>2. \/ ThreadTo(Main, "fallback", JobOf(Main))
        \/ ThreadTo(Main, "loop", NoJob) /\ AttemptOf(Main) < Len(records'[JobOf(Main)])
    BY <1>1, <1>3, <1>8, <2>1, LookedUp
  <2>3. NothingIsLost'
    BY <1>1, <1>2, <1>3, <2>1, <2>2, ThreadLosesNothing DEF Places
  <2> QED
    BY <1>1, <1>2, <1>4, <2>1, <2>3
<1> QED
  BY <1>5, <1>6, <1>7, <1>8 DEF SerialStep

LEMMA CompleteInit == Init => CompleteInv
  BY DEF Init, CompleteInv, NothingIsLost, ReturnedIsComplete, Running, Parallel, Serial

LEMMA CompleteStep ==
  ASSUME ControlInv, DataInv, CancelInv, CompleteInv, [Next]_vars
  PROVE  CompleteInv'
<1>1. /\ TypeInv /\ OneProgram /\ OnePlace
      /\ CancelIsKnown /\ NothingIsLost /\ ReturnedIsComplete
  BY DEF ControlInv, CancelInv, CompleteInv
<1>2. /\ \A j \in Jobs : /\ Len(records[j]) \in Nat /\ Len(records'[j]) \in Nat
                         /\ Len(records[j]) <= Len(records'[j])
      /\ \A j \in Jobs : planned[j] \in Int
  BY <1>1, RecordsGrow DEF TypeInv
<1>3. ASSUME NothingIsLost', main' = main \/ main' # "returned", UNCHANGED planned
      PROVE  CompleteInv'
  BY <1>1, <1>2, <1>3 DEF CompleteInv, ReturnedIsComplete, HasRecord
<1>4. ASSUME main' \notin Running \cup {"returned"}
      PROVE  CompleteInv'
  BY <1>4 DEF CompleteInv, ReturnedIsComplete, NothingIsLost, Running
<1>5. ASSUME main' = "returned",
             \A j \in Jobs : planned'[j] # NoAttempt => planned'[j] < Len(records'[j])
      PROVE  CompleteInv'
  BY <1>5 DEF CompleteInv, ReturnedIsComplete, NothingIsLost, HasRecord, Running, Parallel, Serial
<1>6. ASSUME UNCHANGED <<main, planned, queue, worker, errors>>, cancelled => cancelled'
      PROVE  CompleteInv'
  BY <1>1, <1>2, <1>3, <1>6, OtherLosesNothing
<1>7. CASE StartRun
  <2>1. /\ main' \in Running
        /\ \A w \in Threads :
             worker'[w].at = IF (w = Main) = (main' = Serial) THEN "loop" ELSE "stopped"
    BY <1>1, <1>7, StartRunEffect
  <2>2. queue' = {j \in Jobs : planned'[j] # NoAttempt} /\ ~errors'
    BY <1>7 DEF StartRun
  <2>3. main' = Parallel => \A w \in Workers : worker'[w].at = "loop"
    BY <2>1, WorkersAssumption DEF Threads, Parallel, Serial
  <2>4. main' # "returned"
    BY <2>1 DEF Running, Parallel, Serial
  <2> QED
    BY <2>2, <2>3, <2>4 DEF CompleteInv, ReturnedIsComplete, NothingIsLost
<1>8. ASSUME NEW w \in Workers, WorkerStep(w)
      PROVE  CompleteInv'
  BY <1>1, <1>3, <1>8, WorkerLosesNothing
<1>9. CASE AnyChildStep
  BY <1>6, <1>9 DEF AnyChildStep, ChildStep, parent, cancelling
<1>10. CASE Signal
  BY <1>6, <1>10 DEF Signal, parent
<1>11. CASE HandlerStep
  <2>1. UNCHANGED <<main, planned, queue, worker, errors>>
    BY <1>11 DEF HandlerStep, parent
  <2>2. cancelled => cancelled'
    BY <1>11 DEF HandlerStep, SetEvent, LockRegistry, CopyRegistry, KillOne, HandlerReturns
  <2> QED
    BY <1>6, <2>1, <2>2
<1>12. CASE JoinWorkers
  <2>1. /\ main = Parallel /\ \A w \in Workers : worker[w].at = "stopped"
        /\ main' = IF cancelled THEN "cancelled" ELSE IF errors THEN "failed" ELSE "returned"
        /\ UNCHANGED <<records, planned>>
    BY <1>12 DEF JoinWorkers, parent, disk
  <2>2. CASE cancelled \/ errors
    BY <1>4, <2>1, <2>2 DEF Running, Parallel, Serial
  <2>3. CASE ~cancelled /\ ~errors
    <3>1. queue = {}
      BY <1>1, <2>1, <2>3, WorkersAssumption DEF NothingIsLost
    <3>2. \A w \in Threads : ~Holds(w)
      BY <1>1, <2>1 DEF OneProgram, Threads, Holds, Parallel, Serial
    <3>3. \A j \in Jobs : planned[j] # NoAttempt => HasRecord(j, planned[j])
      BY <1>1, <2>1, <2>3, <3>1, <3>2 DEF NothingIsLost, Running
    <3> QED
      BY <1>5, <2>1, <2>3, <3>3 DEF HasRecord
  <2> QED
    BY <2>2, <2>3
<1>13. CASE SerialStep
  <2>1. /\ NothingIsLost' /\ UNCHANGED planned /\ main = Serial
        /\ main' = "returned" =>
             \A j \in Jobs : planned'[j] # NoAttempt => planned'[j] < Len(records'[j])
    BY <1>1, <1>13, SerialLosesNothing
  <2> QED
    BY <1>3, <1>5, <2>1
<1>14. ASSUME ParentDies
       PROVE  CompleteInv'
  BY <1>4, <1>14 DEF ParentDies, Running, Parallel, Serial
<1>15. CASE SignalAlone
  <2>1. CASE SignalInWait /\ At("wait")
    <3>1. ThreadTo(Main, "kill", JobOf(Main)) /\ main' = main /\ main = Serial
      BY <1>1, <2>1, SerialEffects DEF At
    <3>2. UNCHANGED <<planned, queue, errors, cancelled>>
      BY <2>1 DEF SignalInWait, parent
    <3>3. NothingIsLost'
      BY <1>1, <1>2, <3>1, <3>2, ThreadLosesNothing DEF Places, Threads
    <3> QED
      BY <1>3, <3>1, <3>2, <3>3
  <2>2. CASE SignalInWait /\ ~At("wait")
    <3>1. main' = "cancelled"
      BY <2>2 DEF SignalInWait
    <3> QED
      BY <1>4, <3>1 DEF Running, Parallel, Serial
  <2>3. CASE SignalOutsideWait
    BY <1>14, <2>3 DEF SignalOutsideWait
  <2> QED
    BY <1>15, <2>1, <2>2, <2>3 DEF SignalAlone
<1>16. CASE UNCHANGED vars
  BY <1>6, <1>16 DEF vars, parent, cancelling
<1> QED
  BY <1>7, <1>8, <1>9, <1>10, <1>11, <1>12, <1>13, <1>14, <1>15, <1>16
     DEF Next, MainStep, KillParent, Finished

-----------------------------------------------------------------------------
(* A cancel reaches every child.                                           *)

ReachInv == Registered /\ KillIsComing /\ NoneIsLeft

\* The serial path moves the main thread only.
LEMMA SerialMoves ==
  ASSUME TypeInv, OneProgram, OnePlace, SerialStep \/ SignalInWait
  PROVE  /\ \A w \in Workers : w \in Threads /\ w # Main /\ worker'[w] = worker[w]
         /\ main = Serial /\ UNCHANGED <<registry, run, cancelled, frames>>
<1>1. \A w \in Workers : w \in Threads /\ w # Main
  BY WorkersAssumption DEF Threads
<1>2. main = Serial /\ UNCHANGED <<registry, run, cancelled, frames>>
  BY DEF SerialStep, TakeNext, SpawnAlone, SpawnAloneFails, InstallHandlers, WaitAlone, KillAlone,
         LookUp, WriteFallback, SignalInWait, At, parent, cancelling
<1>3. \E p, j : ThreadTo(Main, p, j)
  <2>1. CASE LookUp(Main) \/ WriteFallback(Main)
    BY <2>1, WorkerEffects DEF Threads
  <2>2. CASE TakeNext
    BY <2>2, SerialEffects
  <2>3. CASE \/ SpawnAlone \/ SpawnAloneFails \/ InstallHandlers \/ WaitAlone \/ KillAlone
             \/ SignalInWait
    BY <2>3, SerialEffects
  <2> QED
    BY <2>1, <2>2, <2>3 DEF SerialStep
<1> QED
  BY <1>1, <1>2, <1>3 DEF ThreadTo

LEMMA RegisteredStep ==
  ASSUME TypeInv, OneProgram, OnePlace, Registered, [Next]_vars
  PROVE  Registered'
<1>1. ASSUME UNCHANGED <<worker, registry>>
      PROVE  Registered'
  BY <1>1 DEF Registered, JobOf
<1>2. ASSUME \A w \in Workers : worker'[w].at \in {"loop", "stopped"}
      PROVE  Registered'
  BY <1>2 DEF Registered
<1>3. CASE StartRun
  <2>1. \A w \in Threads :
          worker'[w].at = IF (w = Main) = (main' = Serial) THEN "loop" ELSE "stopped"
    BY <1>3, StartRunEffect
  <2> QED
    BY <1>2, <2>1 DEF Threads
<1>4. ASSUME NEW w \in Workers, WorkerStep(w)
      PROVE  Registered'
  <2>1. w \in Threads
    BY DEF Threads
  <2>2. \A v \in Workers : v # w /\ Holds(v) /\ Holds(w) => JobOf(v) # JobOf(w)
    BY DEF OnePlace, Threads
  <2>3. CASE Register(w)
    <3>1. ThreadTo(w, "recheck", JobOf(w)) /\ registry' = registry \cup {JobOf(w)}
      BY <2>1, <2>3, WorkerEffects DEF Register
    <3> QED
      BY <2>1, <3>1 DEF Registered, ThreadTo, JobOf, Threads
  <2>4. CASE Discard(w)
    <3>1. /\ ThreadTo(w, "checkAfter", JobOf(w)) /\ registry' = registry \ {JobOf(w)}
          /\ Holds(w)
      BY <2>1, <2>4, WorkerEffects DEF Discard, Holds
    <3> QED
      BY <2>1, <2>2, <3>1 DEF Registered, ThreadTo, JobOf, Holds, Threads
  <2>5. CASE Recheck(w) \/ WaitEnds(w) \/ TimesOut(w)
    <3>1. /\ registry' = registry /\ worker[w].at \in {"recheck", "wait"}
          /\ \E p : ThreadTo(w, p, JobOf(w))
      <4>1. /\ registry' = registry /\ worker[w].at \in {"recheck", "wait"}
        BY <2>5 DEF Recheck, WaitEnds, TimesOut
      <4>2. \E p : ThreadTo(w, p, JobOf(w))
        BY <2>1, <2>5, WorkerEffects
      <4> QED
        BY <4>1, <4>2
    <3> QED
      BY <2>1, <3>1 DEF Registered, ThreadTo, JobOf, Threads
  <2>6. CASE \/ TakeJob(w) \/ CheckBefore(w) \/ Spawn(w) \/ SpawnFails(w) \/ CheckAfter(w)
             \/ LookUp(w) \/ WriteFallback(w)
    <3>1. registry' = registry
      BY <2>6 DEF TakeJob, CheckBefore, Spawn, SpawnFails, CheckAfter, LookUp, WriteFallback
    <3>2. \E p \in {"stopped", "loop", "check", "spawn", "register", "lookUp", "fallback"} : \E j :
            ThreadTo(w, p, j)
      BY <2>1, <2>6, WorkerEffects
    <3> QED
      BY <2>1, <3>1, <3>2 DEF Registered, ThreadTo, JobOf, Threads
  <2> QED
    BY <1>4, <2>3, <2>4, <2>5, <2>6 DEF WorkerStep
<1>5. CASE SerialStep \/ SignalInWait
  BY <1>5, SerialMoves DEF Registered, JobOf
<1>6. CASE AnyChildStep \/ Signal \/ HandlerStep \/ JoinWorkers
  BY <1>1, <1>6 DEF AnyChildStep, ChildStep, Signal, HandlerStep, JoinWorkers
<1>7. ASSUME ParentDies
      PROVE  Registered'
  BY <1>2, <1>7, ParentDiesEffect DEF Threads
<1>8. CASE UNCHANGED vars
  BY <1>1, <1>8 DEF vars
<1> QED
  BY <1>3, <1>4, <1>5, <1>6, <1>7, <1>8
     DEF Next, MainStep, SignalAlone, SignalOutsideWait, KillParent, Finished

\* Frames come and go on top only.
LEMMA KillsByHandlers ==
  ASSUME ControlInv, Registered, KillIsComing, HandlerStep
  PROVE  KillIsComing'
<1>1. /\ TypeInv /\ OneProgram /\ OnePlace /\ main = Parallel /\ frames # <<>>
      /\ UNCHANGED <<run, worker, registry>>
  BY DEF ControlInv, HandlerStep, parent
<1>2. /\ Len(frames) \in Nat /\ Len(frames) > 0 /\ DOMAIN frames = 1 .. Len(frames)
      /\ Len(frames) \in DOMAIN frames /\ Top = frames[Len(frames)]
  BY <1>1, TopFrame DEF TypeInv, Top
<1>3. ASSUME NEW f \in Frame, FrameTo(f)
      PROVE  /\ DOMAIN frames' = 1 .. Len(frames)
             /\ frames'[Len(frames)] = f
             /\ \A i \in 1 .. Len(frames) : i # Len(frames) => frames'[i] = frames[i]
  <2>1. frames' \in Seq(Frame) /\ Len(frames') = Len(frames)
    BY <1>3 DEF FrameTo
  <2>2. DOMAIN frames' = 1 .. Len(frames)
    BY <2>1
  <2> QED
    BY <1>3, <2>2, Zenon DEF FrameTo
<1> SUFFICES ASSUME NEW w \in Workers, worker[w].at = "wait", cancelled', Alive(ChildOf(w)')
             PROVE  \E i \in DOMAIN frames' : WillKill(frames'[i], JobOf(w))
  BY <1>1 DEF KillIsComing, JobOf
<1>4. JobOf(w) \in registry /\ JobOf(w) \in Jobs /\ run \in Runs
  <2>1. w \in Threads /\ Holds(w)
    BY DEF Threads, Holds
  <2> QED
    BY <1>1, <2>1, HolderFacts DEF Registered
<1>5. ChildOf(w)' = child'[run][JobOf(w)]
  BY <1>1 DEF ChildOf, JobOf
<1>6. CASE SetEvent \/ LockRegistry
  <2>1. PICK f \in Frame : f.at \in {"lock", "copy"} /\ FrameTo(f)
    BY <1>1, <1>6, HandlerEffects
  <2>2. Len(frames) \in DOMAIN frames' /\ frames'[Len(frames)] = f
    BY <1>2, <1>3, <2>1, Zenon
  <2>3. WillKill(f, JobOf(w))
    BY <2>1 DEF WillKill
  <2> QED
    BY <2>2, <2>3
<1>7. CASE CopyRegistry
  <2>1. PICK f \in Frame : f.at = "kill" /\ f.procs = registry /\ FrameTo(f)
    BY <1>1, <1>7, HandlerEffects
  <2>2. Len(frames) \in DOMAIN frames' /\ frames'[Len(frames)] = f
    BY <1>2, <1>3, <2>1, Zenon
  <2>3. WillKill(f, JobOf(w))
    BY <1>4, <2>1 DEF WillKill
  <2> QED
    BY <2>2, <2>3
<1>8. CASE KillOne
  <2>1. PICK j \in Top.procs, f \in Frame :
          /\ j \in Jobs /\ ChildKilled(run, j, "cancel")
          /\ f.at = "kill" /\ f.procs = Top.procs \ {j} /\ FrameTo(f)
    BY <1>1, <1>8, HandlerEffects
  <2>2. JobOf(w) # j /\ Alive(ChildOf(w)) /\ cancelled
    <3>1. JobOf(w) # j
      BY <1>5, <2>1 DEF ChildKilled
    <3>2. Alive(ChildOf(w))
      BY <1>4, <1>5, <2>1, <3>1 DEF ChildKilled, OthersStay, ChildOf
    <3>3. cancelled
      BY <1>8 DEF KillOne
    <3> QED
      BY <3>1, <3>2, <3>3
  <2>3. PICK i \in DOMAIN frames : WillKill(frames[i], JobOf(w))
    BY <2>2 DEF KillIsComing
  <2>4. CASE i = Len(frames)
    <3>1. JobOf(w) \in Top.procs
      BY <1>2, <1>8, <2>3, <2>4 DEF WillKill, KillOne
    <3>2. Len(frames) \in DOMAIN frames' /\ frames'[Len(frames)] = f
      BY <1>2, <1>3, <2>1, Zenon
    <3>3. WillKill(f, JobOf(w))
      BY <2>1, <2>2, <3>1 DEF WillKill
    <3> QED
      BY <3>2, <3>3
  <2>5. CASE i # Len(frames)
    <3>1. i \in DOMAIN frames' /\ frames'[i] = frames[i]
      BY <1>2, <1>3, <2>1, <2>5, Zenon
    <3> QED
      BY <2>3, <3>1
  <2> QED
    BY <2>4, <2>5
<1>9. CASE HandlerReturns /\ child' = child
  <2>1. /\ frames' \in Seq(Frame)
        /\ Len(frames') = Len(frames) - 1
        /\ \A i \in 1 .. Len(frames) - 1 : frames'[i] = frames[i]
    BY <1>1, <1>9, HandlerEffects
  <2>2. Top.at = "kill" /\ Top.procs = {} /\ cancelled' = cancelled
    BY <1>9 DEF HandlerReturns
  <2>3. Alive(ChildOf(w))
    BY <1>5, <1>9 DEF ChildOf
  <2>4. PICK i \in DOMAIN frames : WillKill(frames[i], JobOf(w))
    BY <2>2, <2>3 DEF KillIsComing
  <2>5. i # Len(frames)
    BY <1>2, <2>2, <2>4 DEF WillKill
  <2>6. i \in 1 .. Len(frames) - 1 /\ DOMAIN frames' = 1 .. Len(frames) - 1
    BY <1>2, <2>1, <2>4, <2>5
  <2> QED
    BY <2>1, <2>4, <2>6
<1> QED
  BY <1>6, <1>7, <1>8, <1>9 DEF HandlerStep

LEMMA KillIsComingStep ==
  ASSUME ControlInv, SamplesFirst, Registered, KillIsComing, [Next]_vars
  PROVE  KillIsComing'
<1>1. TypeInv /\ OneProgram /\ OnePlace /\ Runs' = Runs
  BY BudgetKept, SameRuns DEF ControlInv
<1>2. \A w \in Workers : worker[w].at = "wait" => JobOf(w) \in Jobs /\ run \in Runs
  BY <1>1, HolderFacts DEF Holds, Threads
<1>3. ASSUME UNCHANGED <<run, worker, cancelled, frames>>,
             \A j \in Jobs : run \in Runs /\ Alive(child'[run][j]) => Alive(child[run][j])
      PROVE  KillIsComing'
  BY <1>2, <1>3 DEF KillIsComing, JobOf, ChildOf
<1>4. ASSUME \A w \in Workers : worker'[w].at \in {"loop", "stopped"}
      PROVE  KillIsComing'
  BY <1>4 DEF KillIsComing
<1>5. CASE StartRun
  <2>1. \A w \in Threads :
          worker'[w].at = IF (w = Main) = (main' = Serial) THEN "loop" ELSE "stopped"
    BY <1>1, <1>5, StartRunEffect
  <2> QED
    BY <1>4, <2>1 DEF Threads
<1>6. ASSUME NEW w \in Workers, WorkerStep(w)
      PROVE  KillIsComing'
  <2>1. w \in Threads
    BY DEF Threads
  <2>2. UNCHANGED <<run, cancelled, frames>>
    BY <1>6 DEF WorkerStep, TakeJob, CheckBefore, Spawn, SpawnFails, Register, Recheck, WaitEnds,
       TimesOut, Discard, CheckAfter, LookUp, WriteFallback, parent, cancelling
  <2>3. \A v \in Workers : v # w /\ Holds(v) /\ Holds(w) => JobOf(v) # JobOf(w)
    BY <1>1 DEF OnePlace, Threads
  <2>4. ASSUME NEW p, NEW j, ThreadTo(w, p, j),
               p = "wait" /\ cancelled => ~Alive(child'[run][j]),
               \A v \in Workers : v # w /\ worker[v].at = "wait" /\ Alive(child'[run][JobOf(v)]) =>
                 Alive(child[run][JobOf(v)])
        PROVE  KillIsComing'
    <3>1. /\ worker'[w].at = p /\ JobOf(w)' = j
          /\ \A v \in Workers : v # w => worker'[v] = worker[v] /\ JobOf(v)' = JobOf(v)
      BY <2>4 DEF ThreadTo, JobOf, Threads
    <3>2. ASSUME NEW v \in Workers, worker'[v].at = "wait", cancelled', Alive(ChildOf(v)')
          PROVE  \E i \in DOMAIN frames' : WillKill(frames'[i], JobOf(v)')
      <4>1. v # w
        BY <2>2, <2>4, <3>1, <3>2 DEF ChildOf
      <4>2. worker[v].at = "wait" /\ cancelled /\ Alive(ChildOf(v))
        BY <2>2, <2>4, <3>1, <3>2, <4>1 DEF ChildOf
      <4> QED
        BY <2>2, <3>1, <4>1, <4>2 DEF KillIsComing
    <3> QED
      BY <3>2 DEF KillIsComing
  <2>5. CASE Spawn(w)
    <3>1. ThreadTo(w, "register", JobOf(w)) /\ ChildStarted(run, JobOf(w), AttemptOf(w))
      BY <1>1, <2>1, <2>5, WorkerEffects, Zenon
    <3>2. Holds(w)
      BY <2>5 DEF Spawn, Holds
    <3>3. \A v \in Workers : v # w /\ worker[v].at = "wait" => child'[run][JobOf(v)] = child[run][JobOf(v)]
      BY <1>2, <2>3, <3>1, <3>2 DEF ChildStarted, OthersStay, Holds
    <3> QED
      BY <2>4, <3>1, <3>3
  <2>6. CASE Recheck(w) \/ TimesOut(w)
    <3>1. /\ JobOf(w) \in Jobs /\ run \in Runs
          /\ child' = child \/ \E by \in Killers : ChildKilled(run, JobOf(w), by)
      <4>1. JobOf(w) \in Jobs /\ run \in Runs
        BY <1>1, <2>1, <2>6, HolderFacts DEF Recheck, TimesOut, Holds
      <4>2. child' = child \/ ChildKilled(run, JobOf(w), "cancel") \/ ChildKilled(run, JobOf(w), "deadline")
        BY <1>1, <2>1, <2>6, WorkerEffects
      <4> QED
        BY <4>1, <4>2 DEF Killers
    <3>2. \A v \in Workers : worker[v].at = "wait" /\ Alive(child'[run][JobOf(v)]) =>
            Alive(child[run][JobOf(v)])
      BY <1>2, <3>1 DEF ChildKilled, OthersStay
    <3>3. \/ ThreadTo(w, "wait", JobOf(w)) /\ (cancelled => ChildKilled(run, JobOf(w), "cancel"))
          \/ ThreadTo(w, "discard", JobOf(w))
      BY <1>1, <2>1, <2>6, WorkerEffects
    <3> QED
      BY <2>4, <3>2, <3>3 DEF ChildKilled
  <2>7. CASE \/ TakeJob(w) \/ CheckBefore(w) \/ SpawnFails(w) \/ Register(w) \/ WaitEnds(w)
             \/ Discard(w) \/ CheckAfter(w) \/ LookUp(w) \/ WriteFallback(w)
    <3>1. child' = child
      BY <2>7 DEF TakeJob, CheckBefore, SpawnFails, Register, WaitEnds, Discard, CheckAfter, LookUp,
         WriteFallback
    <3>2. \E p \in {"stopped", "loop", "check", "spawn", "recheck", "discard", "checkAfter",
                    "lookUp", "fallback"} : \E j : ThreadTo(w, p, j)
      BY <1>1, <2>1, <2>7, WorkerEffects
    <3> QED
      BY <2>4, <3>1, <3>2
  <2> QED
    BY <1>6, <2>5, <2>6, <2>7 DEF WorkerStep
<1>7. CASE AnyChildStep
  <2>1. PICK r \in Runs, j \in Jobs : ChildStep(r, j)
    BY <1>7 DEF AnyChildStep
  <2>2. UNCHANGED <<run, worker, cancelled, frames>>
    BY <2>1 DEF ChildStep, parent, cancelling
  <2>3. child[r][j].phase \notin {"none", "ended"} /\ \E p : ChildTo(r, j, p)
    BY <1>1, <2>1, ChildEffects DEF ChildStep
  <2>4. \A k \in Jobs : run \in Runs /\ Alive(child'[run][k]) => Alive(child[run][k])
    BY <2>3 DEF ChildTo, OthersStay, Alive
  <2> QED
    BY <1>3, <2>2, <2>4
<1>8. CASE Signal
  <2>1. /\ Len(frames') = Len(frames) + 1 /\ frames' \in Seq(Frame)
        /\ \A i \in 1 .. Len(frames) : frames'[i] = frames[i]
    BY <1>1, <1>8, SignalEffect
  <2>2. UNCHANGED <<run, worker, child, cancelled>>
    BY <1>8 DEF Signal, parent
  <2>3. /\ Len(frames) \in Nat /\ DOMAIN frames = 1 .. Len(frames)
        /\ DOMAIN frames' = 1 .. Len(frames) + 1
    BY <1>1, <2>1 DEF TypeInv
  <2>4. \A i \in DOMAIN frames : i \in DOMAIN frames' /\ frames'[i] = frames[i]
    BY <2>1, <2>3
  <2> QED
    BY <2>2, <2>4 DEF KillIsComing, ChildOf, JobOf
<1>9. CASE HandlerStep
  BY <1>9, KillsByHandlers
<1>10. CASE JoinWorkers
  BY <1>10 DEF JoinWorkers, KillIsComing, ChildOf, JobOf, parent, cancelling
<1>11. CASE SerialStep \/ SignalInWait
  <2>1. main = Serial /\ \A w \in Workers : worker'[w] = worker[w]
    BY <1>1, <1>11, SerialMoves
  <2>2. \A w \in Workers : worker'[w].at = "stopped"
    BY <1>1, <2>1 DEF OneProgram, Parallel, Serial
  <2> QED
    BY <1>4, <2>2
<1>12. ASSUME ParentDies
       PROVE  KillIsComing'
  BY <1>1, <1>4, <1>12, ParentDiesEffect DEF Threads
<1>13. CASE UNCHANGED vars
  BY <1>13 DEF vars, KillIsComing, ChildOf, JobOf, parent, cancelling
<1> QED
  BY <1>5, <1>6, <1>7, <1>8, <1>9, <1>10, <1>11, <1>12, <1>13
     DEF Next, MainStep, SignalAlone, SignalOutsideWait, KillParent, Finished

\* When every thread has stopped, or is the one that killed its child, no child is left.
LEMMA NoneIsLeftStep ==
  ASSUME ControlInv, SamplesFirst, NoneIsLeft, [Next]_vars
  PROVE  NoneIsLeft'
<1>1. /\ TypeInv /\ OneProgram /\ OnePlace /\ ChildrenHaveAThread /\ Runs' = Runs
      /\ Main \in Threads /\ \A w \in Workers : w # Main
  BY BudgetKept, SameRuns, WorkersAssumption DEF ControlInv, Threads
<1>2. ASSUME main' # "cancelled", worker'[Main].at # "kill"
      PROVE  NoneIsLeft'
  BY <1>2 DEF NoneIsLeft
<1>3. ASSUME UNCHANGED <<run, main, signals>>, main # "cancelled" \/ child' = child,
             worker'[Main].at = "kill" => worker[Main].at = "kill"
      PROVE  NoneIsLeft'
  BY <1>3 DEF NoneIsLeft
<1>4. CASE StartRun
  <2>1. main' \in Running /\ worker'[Main].at \in {"loop", "stopped"}
    BY <1>1, <1>4, StartRunEffect
  <2> QED
    BY <1>2, <2>1 DEF Running, Parallel, Serial
<1>5. ASSUME NEW w \in Workers, WorkerStep(w)
      PROVE  NoneIsLeft'
  <2>1. main = Parallel /\ UNCHANGED <<run, main, signals>>
    BY <1>5 DEF WorkerStep, TakeJob, CheckBefore, Spawn, SpawnFails, Register, Recheck, WaitEnds,
       TimesOut, Discard, CheckAfter, LookUp, WriteFallback, parent, cancelling
  <2>2. \E p, j : ThreadTo(w, p, j)
    BY <1>1, <1>5, WorkerEffects DEF WorkerStep, Threads
  <2>3. worker'[Main] = worker[Main]
    BY <1>1, <2>2 DEF ThreadTo
  <2> QED
    BY <1>3, <2>1, <2>3 DEF Parallel
<1>6. CASE AnyChildStep
  <2>1. PICK r \in Runs, j \in Jobs : ChildStep(r, j)
    BY <1>6 DEF AnyChildStep
  <2>2. UNCHANGED <<run, main, worker, signals>>
    BY <2>1 DEF ChildStep, parent, cancelling
  <2>3. child[r][j].phase \notin {"none", "ended"} /\ \E p : ChildTo(r, j, p)
    BY <1>1, <2>1, ChildEffects DEF ChildStep
  <2>4. main = "cancelled" => run \in Runs
    BY <1>1 DEF OneProgram
  <2>5. \A k \in Jobs : run \in Runs /\ ~Alive(child[run][k]) => child'[run][k] = child[run][k]
    BY <2>3 DEF ChildTo, OthersStay, Alive
  <2> QED
    BY <2>2, <2>4, <2>5 DEF NoneIsLeft
<1>7. CASE Signal \/ HandlerStep
  <2>1. CASE Signal
    BY <1>1, <2>1 DEF Signal, NoneIsLeft, OneProgram, Parallel, Serial
  <2>2. CASE HandlerStep
    BY <1>3, <2>2 DEF HandlerStep, parent, Parallel
  <2> QED
    BY <1>7, <2>1, <2>2
<1>8. CASE JoinWorkers
  <2>1. /\ main = Parallel /\ \A w \in Workers : worker[w].at = "stopped"
        /\ UNCHANGED <<run, worker, child, signals>>
    BY <1>8 DEF JoinWorkers, parent, cancelling
  <2>2. \A w \in Threads : worker[w].at = "stopped"
    BY <1>1, <2>1 DEF OneProgram, Threads, Parallel, Serial
  <2>3. \A j \in Jobs : ~Alive(child[run][j])
    BY <1>1, <2>1, <2>2 DEF ChildrenHaveAThread, InCharge, Running
  <2> QED
    BY <1>1, <2>1, <2>2, <2>3 DEF NoneIsLeft
<1>9. CASE SerialStep
  <2>1. CASE KillAlone
    <3>1. /\ ThreadTo(Main, "stopped", NoJob) /\ ChildKilled(run, JobOf(Main), "cancel")
          /\ main = Serial /\ Holds(Main) /\ run' = run
      <4>1. ThreadTo(Main, "stopped", NoJob) /\ ChildKilled(run, JobOf(Main), "cancel")
        BY <1>1, <2>1, SerialEffects
      <4>2. main = Serial /\ Holds(Main) /\ run' = run
        BY <2>1 DEF KillAlone, At, Holds, parent
      <4> QED
        BY <4>1, <4>2
    <3>2. run \in Runs /\ JobOf(Main) \in Jobs
      BY <1>1, <3>1, HolderFacts
    <3>3. \A w \in Threads : InCharge(w) => w = Main
      BY <1>1, <3>1 DEF OneProgram, Threads, InCharge, Parallel, Serial
    <3>4. \A j \in Jobs : Alive(child[run][j]) => j = JobOf(Main)
      BY <1>1, <3>1, <3>3 DEF ChildrenHaveAThread, Running
    <3>5. \A j \in Jobs : ~Alive(child'[run][j])
      BY <3>1, <3>2, <3>4 DEF ChildKilled, OthersStay
    <3> QED
      BY <3>1, <3>5 DEF NoneIsLeft, ThreadTo
  <2>2. CASE ~KillAlone
    <3>1. main' \in {Serial, "returned", "failed"}
      BY <1>9, <2>2 DEF SerialStep, TakeNext, SpawnAlone, SpawnAloneFails, InstallHandlers, WaitAlone,
         LookUp, WriteFallback, At
    <3>2. \E p \in {"stopped", "loop", "spawn", "install", "wait", "lookUp", "fallback"} : \E j :
            ThreadTo(Main, p, j)
      <4>1. CASE LookUp(Main) \/ WriteFallback(Main)
        BY <1>1, <4>1, WorkerEffects
      <4>2. CASE TakeNext
        BY <1>1, <4>2, SerialEffects
      <4>3. CASE SpawnAlone \/ SpawnAloneFails \/ InstallHandlers \/ WaitAlone
        BY <1>1, <4>3, SerialEffects
      <4> QED
        BY <1>9, <2>2, <4>1, <4>2, <4>3 DEF SerialStep
    <3> QED
      BY <1>2, <3>1, <3>2 DEF ThreadTo, Serial
  <2> QED
    BY <2>1, <2>2
<1>10. ASSUME ParentDies
       PROVE  NoneIsLeft'
  <2>1. main' = "killed"
    BY <1>10 DEF ParentDies
  <2>2. worker'[Main].at = "stopped"
    BY <1>1, <1>10, ParentDiesEffect
  <2> QED
    BY <1>2, <2>1, <2>2
<1>11. CASE SignalAlone
  <2>1. CASE SignalInWait
    <3>1. /\ signals' = signals + 1 /\ signals \in Nat
          /\ \/ worker[Main].at = "kill" /\ ThreadTo(Main, "stopped", NoJob)
             \/ main' = Serial
      <4>1. signals' = signals + 1 /\ signals \in Nat
        BY <1>1, <1>11 DEF SignalAlone, TypeInv
      <4>2. \/ worker[Main].at = "kill" /\ ThreadTo(Main, "stopped", NoJob)
            \/ main' = Serial
        BY <1>1, <2>1, SerialEffects DEF At
      <4> QED
        BY <4>1, <4>2
    <3>2. CASE worker[Main].at = "kill" /\ ThreadTo(Main, "stopped", NoJob)
      BY <3>1, <3>2 DEF NoneIsLeft, ThreadTo
    <3>3. CASE main' = Serial
      BY <3>1, <3>3 DEF NoneIsLeft, Serial
    <3> QED
      BY <3>1, <3>2, <3>3
  <2>2. CASE SignalOutsideWait
    BY <1>10, <2>2 DEF SignalOutsideWait
  <2> QED
    BY <1>11, <2>1, <2>2 DEF SignalAlone
<1>12. CASE UNCHANGED vars
  BY <1>3, <1>12 DEF vars, parent, cancelling
<1> QED
  BY <1>4, <1>5, <1>6, <1>7, <1>8, <1>9, <1>10, <1>11, <1>12
     DEF Next, MainStep, KillParent, Finished

LEMMA ReachInit == Init => ReachInv
<1> SUFFICES ASSUME Init PROVE ReachInv
  OBVIOUS
<1>1. Idle.at = "stopped"
  BY DEF Idle
<1>2. \A w \in Threads : worker[w].at = "stopped"
  BY <1>1 DEF Init
<1>3. Main \in Threads /\ Workers \subseteq Threads
  BY DEF Threads
<1>4. main # "cancelled"
  BY DEF Init
<1> QED
  BY <1>2, <1>3, <1>4 DEF ReachInv, Registered, KillIsComing, NoneIsLeft

LEMMA ReachStep ==
  ASSUME ControlInv, DataInv, ReachInv, [Next]_vars
  PROVE  ReachInv'
<1>1. TypeInv /\ OneProgram /\ OnePlace /\ SamplesFirst /\ Registered /\ KillIsComing /\ NoneIsLeft
  BY DEF ControlInv, DataInv, ReachInv
<1> QED
  BY <1>1, RegisteredStep, KillIsComingStep, NoneIsLeftStep DEF ReachInv

-----------------------------------------------------------------------------
(* One writer: while nobody leaves a child behind.                         *)

LEMMA UndisturbedBefore ==
  ASSUME TypeInv, [Next]_vars, Undisturbed'
  PROVE  Undisturbed /\ ~ParentDies
<1>1. budget' = budget
  BY BudgetKept
<1>2. kills' = kills \/ ParentDies
  BY DEF Next, StartRun, WorkerStep, TakeJob, CheckBefore, Spawn, SpawnFails, Register, Recheck,
         WaitEnds, TimesOut, Discard, CheckAfter, LookUp, WriteFallback, AnyChildStep, ChildStep,
         Signal, MainStep, HandlerStep, JoinWorkers, SerialStep, TakeNext, SpawnAlone,
         SpawnAloneFails, InstallHandlers, WaitAlone, KillAlone, SignalAlone, SignalInWait,
         SignalOutsideWait, KillParent, Finished, vars, parent
<1>3. ParentDies => kills' = kills + 1 /\ kills \in Nat
  BY DEF ParentDies, TypeInv
<1> QED
  BY <1>1, <1>2, <1>3 DEF Undisturbed

\* What a thread is about to do was in the queue, or it has looked for the record.
LEMMA HandSteps ==
  ASSUME ControlInv, [Next]_vars, NEW w \in Threads, worker'[w].at \in Planning
  PROVE  /\ ~StartRun
         /\ \/ worker[w].at \in Planning /\ JobOf(w)' = JobOf(w)
            \/ JobOf(w)' \in queue
            \/ /\ worker[w].at = "lookUp" /\ JobOf(w)' = JobOf(w)
               /\ ~HasRecord(JobOf(w), AttemptOf(w))
<1>1. TypeInv /\ OneProgram /\ OnePlace
  BY DEF ControlInv
<1> DEFINE Goal(v) == \/ worker[v].at \in Planning /\ JobOf(v)' = JobOf(v)
                      \/ JobOf(v)' \in queue
                      \/ /\ worker[v].at = "lookUp" /\ JobOf(v)' = JobOf(v)
                         /\ ~HasRecord(JobOf(v), AttemptOf(v))
<1>2. ~StartRun
  <2>1. StartRun => worker'[w].at \in {"loop", "stopped"}
    BY <1>1, StartRunEffect
  <2> QED
    BY <2>1 DEF Planning
<1>3. ASSUME worker' = worker
      PROVE  Goal(w)
  BY <1>3 DEF JobOf
<1>4. ASSUME NEW v \in Threads, NEW p, NEW j, ThreadTo(v, p, j),
             v = w => \/ p \notin Planning
                      \/ j \in queue
                      \/ worker[v].at \in Planning /\ j = JobOf(v)
                      \/ /\ worker[v].at = "lookUp" /\ j = JobOf(v)
                         /\ ~HasRecord(JobOf(v), AttemptOf(v))
      PROVE  Goal(w)
  BY <1>4 DEF ThreadTo, JobOf
<1>5. ASSUME NEW v \in Threads, LookUp(v) \/ WriteFallback(v)
      PROVE  Goal(w)
  <2>1. CASE LookUp(v)
    <3>1. worker[v].at = "lookUp"
      BY <2>1 DEF LookUp
    <3> QED
      BY <1>1, <1>4, <2>1, <3>1, WorkerEffects DEF Planning
  <2>2. CASE WriteFallback(v)
    <3>1. ThreadTo(v, "loop", NoJob)
      BY <1>1, <2>2, WorkerEffects
    <3> QED
      BY <1>4, <3>1 DEF Planning
  <2> QED
    BY <1>5, <2>1, <2>2
<1>6. ASSUME NEW v \in Workers, WorkerStep(v)
      PROVE  Goal(w)
  <2>1. v \in Threads
    BY DEF Threads
  <2>2. CASE TakeJob(v)
    <3>1. \E p, j : ThreadTo(v, p, j) /\ (p = "stopped" \/ j \in queue)
      BY <1>1, <2>1, <2>2, WorkerEffects
    <3> QED
      BY <1>4, <2>1, <3>1 DEF Planning
  <2>3. CASE CheckBefore(v)
    <3>1. worker[v].at = "check"
      BY <2>3 DEF CheckBefore
    <3>2. ThreadTo(v, "stopped", NoJob) \/ ThreadTo(v, "spawn", JobOf(v))
      BY <1>1, <2>1, <2>3, WorkerEffects
    <3> QED
      BY <1>4, <2>1, <3>1, <3>2 DEF Planning
  <2>4. CASE \/ Spawn(v) \/ SpawnFails(v) \/ Register(v) \/ Recheck(v) \/ WaitEnds(v)
             \/ TimesOut(v) \/ Discard(v) \/ CheckAfter(v)
    <3>1. \E p \in {"stopped", "register", "recheck", "wait", "discard", "checkAfter", "lookUp"} : \E j :
            ThreadTo(v, p, j)
      BY <1>1, <2>1, <2>4, WorkerEffects
    <3> QED
      BY <1>4, <2>1, <3>1 DEF Planning
  <2>5. CASE LookUp(v) \/ WriteFallback(v)
    BY <1>5, <2>1, <2>5
  <2> QED
    BY <1>6, <2>2, <2>3, <2>4, <2>5 DEF WorkerStep
<1>7. CASE SerialStep \/ SignalInWait
  <2>1. Main \in Threads
    BY DEF Threads
  <2>2. CASE TakeNext
    <3>1. \E p, j : ThreadTo(Main, p, j) /\ (p = "stopped" \/ j \in queue)
      BY <1>1, <2>2, SerialEffects
    <3>2. Goal(w)
      BY <1>4, <2>1, <3>1 DEF Planning
    <3> QED
      BY <1>2, <3>2
  <2>3. CASE \/ SpawnAlone \/ SpawnAloneFails \/ InstallHandlers \/ WaitAlone \/ KillAlone
             \/ SignalInWait
    <3>1. \E p \in {"stopped", "install", "wait", "lookUp", "kill"} : \E j : ThreadTo(Main, p, j)
      BY <1>1, <2>3, SerialEffects
    <3>2. Goal(w)
      BY <1>4, <2>1, <3>1 DEF Planning
    <3> QED
      BY <1>2, <3>2
  <2>4. CASE LookUp(Main) \/ WriteFallback(Main)
    BY <1>2, <1>5, <2>1, <2>4
  <2> QED
    BY <1>7, <2>2, <2>3, <2>4 DEF SerialStep
<1>8. ~ParentDies
  <2>1. ParentDies => worker'[w].at = "stopped"
    BY <1>1, ParentDiesEffect
  <2> QED
    BY <2>1 DEF Planning
<1>9. CASE AnyChildStep \/ Signal \/ HandlerStep \/ JoinWorkers \/ UNCHANGED vars
  BY <1>2, <1>3, <1>9 DEF AnyChildStep, ChildStep, Signal, HandlerStep, JoinWorkers, vars
<1> QED
  BY <1>2, <1>6, <1>7, <1>8, <1>9
     DEF Next, MainStep, SignalAlone, SignalOutsideWait, KillParent, Finished

\* A child at work was at work, or a thread has started it.
LEMMA ChildrenSteps ==
  ASSUME ControlInv, SamplesFirst, [Next]_vars, NEW r \in Runs, NEW j \in Jobs,
         child'[r][j].phase \in Writing
  PROVE  \/ child[r][j].phase \in Writing /\ child'[r][j].attempt = child[r][j].attempt
         \/ /\ r = run /\ main \in Running /\ UNCHANGED <<run, main>>
            /\ \E w \in Threads : /\ worker[w].at = "spawn" /\ JobOf(w) = j
                                  /\ child'[r][j].attempt = AttemptOf(w)
<1>1. TypeInv /\ OneProgram /\ OnePlace
  BY DEF ControlInv
<1> DEFINE Works == child[r][j].phase \in Writing /\ child'[r][j].attempt = child[r][j].attempt
<1>2. ASSUME child' = child
      PROVE  Works
  BY <1>2
<1>3. ASSUME NEW k \in Jobs, NEW by, run \in Runs, ChildKilled(run, k, by)
      PROVE  Works
  BY <1>3 DEF ChildKilled, OthersStay, Alive, Writing
<1>4. ASSUME NEW w \in Threads, worker[w].at = "spawn", main \in Running, UNCHANGED <<run, main>>,
             ChildStarted(run, JobOf(w), AttemptOf(w))
      PROVE  \/ Works
             \/ /\ r = run /\ main \in Running /\ UNCHANGED <<run, main>>
                /\ \E v \in Threads : /\ worker[v].at = "spawn" /\ JobOf(v) = j
                                      /\ child'[r][j].attempt = AttemptOf(v)
  <2>1. run \in Runs /\ JobOf(w) \in Jobs
    BY <1>1, <1>4, HolderFacts DEF Holds
  <2>2. Started(AttemptOf(w)).attempt = AttemptOf(w)
    BY DEF Started
  <2> QED
    BY <1>4, <2>1, <2>2 DEF ChildStarted, OthersStay
<1>5. CASE AnyChildStep
  <2>1. PICK s \in Runs, k \in Jobs : ChildStep(s, k)
    BY <1>5 DEF AnyChildStep
  <2>2. \E p : ChildTo(s, k, p) /\ (p \in Writing => child[s][k].phase \in Writing)
    BY <1>1, <2>1, ChildEffects DEF ChildStep, Writing
  <2> QED
    BY <2>2 DEF ChildTo, OthersStay
<1>6. CASE \E w \in Workers : WorkerStep(w)
  <2>1. PICK w \in Workers : WorkerStep(w)
    BY <1>6
  <2>2. w \in Threads /\ main = Parallel /\ main \in Running
    BY <2>1 DEF Threads, WorkerStep, Running
  <2>3. CASE Spawn(w)
    <3>1. worker[w].at = "spawn" /\ UNCHANGED <<run, main>>
      BY <2>3 DEF Spawn, parent
    <3>2. ChildStarted(run, JobOf(w), AttemptOf(w))
      BY <1>1, <2>2, <2>3, WorkerEffects, Zenon
    <3> QED
      BY <1>4, <2>2, <3>1, <3>2
  <2>4. CASE Recheck(w) \/ TimesOut(w)
    <3>1. JobOf(w) \in Jobs /\ run \in Runs
      BY <1>1, <2>2, <2>4, HolderFacts DEF Recheck, TimesOut, Holds
    <3>2. child' = child \/ \E by : ChildKilled(run, JobOf(w), by)
      BY <1>1, <2>2, <2>4, WorkerEffects
    <3> QED
      BY <1>2, <1>3, <3>1, <3>2
  <2>5. CASE ~(Spawn(w) \/ Recheck(w) \/ TimesOut(w))
    BY <1>2, <2>1, <2>5 DEF WorkerStep, TakeJob, CheckBefore, SpawnFails, Register, WaitEnds, Discard,
       CheckAfter, LookUp, WriteFallback
  <2> QED
    BY <2>3, <2>4, <2>5
<1>7. CASE SerialStep
  <2>1. Main \in Threads
    BY DEF Threads
  <2>2. CASE SpawnAlone
    <3>1. worker[Main].at = "spawn" /\ main \in Running /\ UNCHANGED <<run, main>>
      BY <2>2 DEF SpawnAlone, At, Running, parent
    <3>2. ChildStarted(run, JobOf(Main), AttemptOf(Main))
      BY <1>1, <2>2, SerialEffects, Zenon
    <3> QED
      BY <1>4, <2>1, <3>1, <3>2
  <2>3. CASE WaitAlone \/ KillAlone
    <3>1. JobOf(Main) \in Jobs /\ run \in Runs
      BY <1>1, <2>1, <2>3, HolderFacts DEF WaitAlone, KillAlone, At, Holds
    <3>2. child' = child \/ \E by : ChildKilled(run, JobOf(Main), by)
      BY <1>1, <2>3, SerialEffects
    <3> QED
      BY <1>2, <1>3, <3>1, <3>2
  <2>4. CASE ~(SpawnAlone \/ WaitAlone \/ KillAlone)
    BY <1>2, <1>7, <2>4 DEF SerialStep, TakeNext, SpawnAloneFails, InstallHandlers, LookUp,
       WriteFallback
  <2> QED
    BY <2>2, <2>3, <2>4
<1>8. CASE HandlerStep
  <2>1. main = Parallel /\ frames # <<>> /\ (child' = child \/ KillOne)
    BY <1>8 DEF HandlerStep
  <2>2. KillOne => \E k \in Jobs : ChildKilled(run, k, "cancel")
    BY <1>1, <2>1, HandlerEffects
  <2>3. run \in Runs
    BY <1>1, <2>1 DEF OneProgram, Parallel
  <2> QED
    BY <1>2, <1>3, <2>1, <2>2, <2>3
<1>9. CASE StartRun \/ Signal \/ JoinWorkers \/ SignalAlone \/ KillParent \/ UNCHANGED vars
  BY <1>2, <1>9 DEF StartRun, Signal, JoinWorkers, SignalAlone, SignalInWait, SignalOutsideWait,
     ParentDies, KillParent, vars
<1> QED
  BY <1>5, <1>6, <1>7, <1>8, <1>9 DEF Next, MainStep, Finished

\* The record of the next attempt is written.
NewRecord(j) == \E kind, killed : RecordIs(j, Len(records[j]), kind, killed)

\* Who writes a record of a job is the only one at it, and is done with it.
LEMMA Writes ==
  ASSUME ControlInv, DataInv, NoOrphans, NextIsPlanned, [Next]_vars
  PROVE  \/ records' = records
         \/ \E j \in Jobs :
              /\ NewRecord(j) /\ j \notin queue /\ ~StartRun
              /\ UNCHANGED <<queue, planned>>
              /\ \A w \in Threads : worker'[w].at \in Planning => JobOf(w)' # j
              /\ \A r \in Runs : child'[r][j].phase \notin Writing
<1>1. /\ TypeInv /\ OneProgram /\ OnePlace /\ SamplesFirst /\ ChildrenHaveAThread
      /\ "stopped" \notin Planning /\ "loop" \notin Planning
  BY DEF ControlInv, DataInv, Planning
<1> DEFINE WrittenNow(j) ==
             /\ NewRecord(j) /\ j \notin queue /\ ~StartRun
             /\ UNCHANGED <<queue, planned>>
             /\ \A w \in Threads : worker'[w].at \in Planning => JobOf(w)' # j
             /\ \A r \in Runs : child'[r][j].phase \notin Writing
<1>2. \A r \in Runs, j \in Jobs : child[r][j].phase \in Writing => Alive(child[r][j])
  BY DEF Writing, Alive
<1>3. \A w \in Threads : worker[w].at \in Planning => Holds(w) /\ ~InCharge(w)
  BY DEF Planning, Holds, InCharge
<1>4. ASSUME NEW w \in Threads, WriteFallback(w)
      PROVE  \E j \in Jobs : WrittenNow(j)
  <2>1. worker[w].at = "fallback" /\ UNCHANGED <<queue, planned, child, main, run>>
    BY <1>4 DEF WriteFallback, parent
  <2>2. /\ JobOf(w) \in Jobs /\ JobOf(w) \notin queue /\ Holds(w) /\ ~InCharge(w)
        /\ AttemptOf(w) = Len(records[JobOf(w)]) /\ main \in Running
    <3>1. Holds(w) /\ ~InCharge(w) /\ worker[w].at \in Planning
      BY <2>1 DEF Holds, InCharge, Planning
    <3> QED
      BY <1>1, <3>1, HolderFacts DEF OnePlace, NextIsPlanned
  <2>3. NewRecord(JobOf(w))
    <3>1. \E kind \in Fallback : RecordIs(JobOf(w), AttemptOf(w), kind, ChildOf(w).killed)
      BY <1>1, <1>4, FallbackEffect
    <3> QED
      BY <2>2, <3>1 DEF NewRecord
  <2>4. ~StartRun
    BY <2>2 DEF StartRun
  <2>5. ThreadTo(w, "loop", NoJob)
    BY <1>1, <1>4, WorkerEffects
  <2>6. \A v \in Threads : worker'[v].at \in Planning => JobOf(v)' # JobOf(w)
    <3> SUFFICES ASSUME NEW v \in Threads, worker'[v].at \in Planning, JobOf(v)' = JobOf(w)
                 PROVE  FALSE
      OBVIOUS
    <3>1. v # w
      BY <1>1, <2>5 DEF ThreadTo
    <3>2. worker'[v] = worker[v]
      BY <2>5, <3>1 DEF ThreadTo
    <3>3. Holds(v) /\ JobOf(v) = JobOf(w)
      BY <1>3, <3>2 DEF JobOf
    <3> QED
      BY <1>1, <2>2, <3>1, <3>3 DEF OnePlace
  <2>7. \A r \in Runs : child'[r][JobOf(w)].phase \notin Writing
    <3> SUFFICES ASSUME NEW r \in Runs, child[r][JobOf(w)].phase \in Writing
                 PROVE  FALSE
      BY <2>1
    <3>1. Alive(child[run][JobOf(w)])
      BY <1>2, <2>2 DEF NoOrphans
    <3>2. PICK v \in Threads : InCharge(v) /\ JobOf(v) = JobOf(w)
      BY <1>1, <2>2, <3>1 DEF ChildrenHaveAThread
    <3>3. Holds(v)
      BY <3>2 DEF Holds, InCharge
    <3> QED
      BY <1>1, <2>2, <3>2, <3>3 DEF OnePlace
  <2> QED
    BY <2>1, <2>2, <2>3, <2>4, <2>6, <2>7
<1>5. ASSUME NEW r \in Runs, NEW j \in Jobs, ChildStep(r, j),
             WriteCompleted(r, j) \/ WriteWithoutSamples(r, j)
      PROVE  WrittenNow(j)
  <2>1. UNCHANGED <<queue, planned, worker, run>>
    BY <1>5 DEF ChildStep, parent
  <2>2. /\ child[r][j].phase \in Writing /\ ChildTo(r, j, "recorded")
        /\ \E kind : RecordIs(j, child[r][j].attempt, kind, "no")
    BY <1>1, <1>5, ChildEffects DEF Writing
  <2>3. r = run /\ main \in Running /\ Alive(child[r][j])
    BY <1>2, <2>2 DEF NoOrphans
  <2>4. NewRecord(j)
    BY <2>2 DEF NewRecord, NextIsPlanned
  <2>5. PICK v \in Threads : InCharge(v) /\ JobOf(v) = j
    BY <1>1, <2>3 DEF ChildrenHaveAThread
  <2>6. Holds(v) /\ j \notin queue
    BY <1>1, <2>5 DEF Holds, InCharge, OnePlace
  <2>7. ~StartRun
    BY <2>3 DEF StartRun
  <2>8. \A w \in Threads : worker'[w].at \in Planning => JobOf(w)' # j
    BY <1>1, <1>3, <2>1, <2>5, <2>6 DEF OnePlace, JobOf
  <2>9. \A s \in Runs : child'[s][j].phase \notin Writing
    <3>1. child'[r][j].phase \notin Writing
      BY <2>2 DEF ChildTo, Writing
    <3>2. \A s \in Runs : s # r => child[s][j].phase \notin Writing
      BY <1>2, <2>3 DEF NoOrphans
    <3>3. \A s \in Runs : s # r => child'[s][j] = child[s][j]
      BY <2>2 DEF ChildTo, OthersStay
    <3> QED
      BY <3>1, <3>2, <3>3
  <2> QED
    BY <2>1, <2>4, <2>6, <2>7, <2>8, <2>9
<1>6. CASE \E w \in Workers : WorkerStep(w)
  <2>1. PICK w \in Workers : WorkerStep(w)
    BY <1>6
  <2>2. CASE WriteFallback(w)
    BY <1>4, <2>2 DEF Threads
  <2>3. CASE ~WriteFallback(w)
    BY <2>1, <2>3 DEF WorkerStep, TakeJob, CheckBefore, Spawn, SpawnFails, Register, Recheck, WaitEnds,
       TimesOut, Discard, CheckAfter, LookUp, disk
  <2> QED
    BY <2>2, <2>3
<1>7. CASE SerialStep
  <2>1. CASE WriteFallback(Main)
    BY <1>4, <2>1 DEF Threads
  <2>2. CASE ~WriteFallback(Main)
    BY <1>7, <2>2 DEF SerialStep, TakeNext, SpawnAlone, SpawnAloneFails, InstallHandlers, WaitAlone,
       KillAlone, LookUp, disk
  <2> QED
    BY <2>1, <2>2
<1>8. CASE AnyChildStep
  <2>1. PICK r \in Runs, j \in Jobs : ChildStep(r, j)
    BY <1>8 DEF AnyChildStep
  <2>2. CASE WriteCompleted(r, j) \/ WriteWithoutSamples(r, j)
    BY <1>5, <2>1, <2>2
  <2>3. CASE ~(WriteCompleted(r, j) \/ WriteWithoutSamples(r, j))
    BY <2>1, <2>3 DEF ChildStep, SkipJob, BeginJob, WriteSamples, Exit, CrashChild, disk
  <2> QED
    BY <2>2, <2>3
<1>9. CASE \/ StartRun \/ Signal \/ HandlerStep \/ JoinWorkers \/ SignalAlone \/ KillParent
           \/ UNCHANGED vars
  BY <1>9 DEF StartRun, Signal, HandlerStep, JoinWorkers, SignalAlone, SignalInWait,
     SignalOutsideWait, ParentDies, KillParent, vars, disk
<1> QED
  BY <1>6, <1>7, <1>8, <1>9 DEF Next, MainStep, Finished

LEMMA NextIsPlannedStep ==
  ASSUME ControlInv, DataInv, NoOrphans, NextIsPlanned, [Next]_vars
  PROVE  NextIsPlanned'
<1>1. /\ TypeInv /\ OneProgram /\ OnePlace /\ SamplesFirst /\ Runs' = Runs
      /\ \A j \in Jobs : Len(records[j]) \in Nat
  BY BudgetKept, SameRuns DEF ControlInv, DataInv, TypeInv
<1> DEFINE Same(j) == Len(records'[j]) = Len(records[j])
<1>2. ASSUME NEW j \in queue', Same(j)
      PROVE  planned'[j] = Len(records'[j])
  <2>1. CASE StartRun
    <3>1. planned'[j] \in {NoAttempt, Len(records[j])} /\ j \in Jobs /\ planned'[j] # NoAttempt
      <4>1. queue' = {k \in Jobs : planned'[k] # NoAttempt}
        BY <2>1 DEF StartRun
      <4> QED
        BY <1>1, <2>1, <4>1, StartRunEffect
    <3> QED
      BY <1>2, <3>1
  <2>2. CASE ~StartRun
    <3>1. j \in queue
      BY <2>2 DEF Next, WorkerStep, TakeJob, CheckBefore, Spawn, SpawnFails, Register, Recheck,
         WaitEnds, TimesOut, Discard, CheckAfter, LookUp, WriteFallback, AnyChildStep, ChildStep,
         Signal, MainStep, HandlerStep, JoinWorkers, SerialStep, TakeNext, SpawnAlone,
         SpawnAloneFails, InstallHandlers, WaitAlone, KillAlone, SignalAlone, SignalInWait,
         SignalOutsideWait, ParentDies, KillParent, Finished, vars
    <3>2. planned' = planned
      BY <2>2, RecordsGrow
    <3> QED
      BY <1>2, <3>1, <3>2 DEF NextIsPlanned
  <2> QED
    BY <2>1, <2>2
<1>3. ASSUME NEW w \in Threads, worker'[w].at \in Planning, Same(JobOf(w)')
      PROVE  planned'[JobOf(w)'] = Len(records'[JobOf(w)'])
  <2>1. planned' = planned
    BY <1>3, HandSteps, RecordsGrow
  <2>2. CASE worker[w].at \in Planning /\ JobOf(w)' = JobOf(w)
    BY <1>3, <2>1, <2>2 DEF NextIsPlanned, AttemptOf
  <2>3. CASE JobOf(w)' \in queue
    BY <1>3, <2>1, <2>3 DEF NextIsPlanned
  <2>4. CASE /\ worker[w].at = "lookUp" /\ JobOf(w)' = JobOf(w)
             /\ ~HasRecord(JobOf(w), AttemptOf(w))
    <3>1. JobOf(w) \in Jobs /\ AttemptOf(w) \in Nat
      BY <1>1, <2>4, HolderFacts DEF Holds
    <3>2. AttemptOf(w) = Len(records[JobOf(w)])
      BY <1>1, <2>4, <3>1 DEF SamplesFirst, HasRecord, AttemptOf
    <3> QED
      BY <1>3, <2>1, <2>4, <3>2 DEF AttemptOf
  <2> QED
    BY <1>3, <2>2, <2>3, <2>4, HandSteps
<1>4. ASSUME NEW r \in Runs, NEW j \in Jobs, child'[r][j].phase \in Writing, Same(j)
      PROVE  child'[r][j].attempt = Len(records'[j])
  <2>1. CASE child[r][j].phase \in Writing /\ child'[r][j].attempt = child[r][j].attempt
    BY <1>4, <2>1 DEF NextIsPlanned
  <2>2. CASE \E w \in Threads : /\ worker[w].at = "spawn" /\ JobOf(w) = j
                                /\ child'[r][j].attempt = AttemptOf(w)
    BY <1>4, <2>2 DEF NextIsPlanned, Planning
  <2> QED
    BY <1>1, <1>4, <2>1, <2>2, ChildrenSteps
<1>5. CASE records' = records
  BY <1>1, <1>2, <1>3, <1>4, <1>5 DEF NextIsPlanned, AttemptOf
<1>6. CASE records' # records
  <2>1. PICK k \in Jobs :
          /\ NewRecord(k) /\ k \notin queue /\ queue' = queue
          /\ \A w \in Threads : worker'[w].at \in Planning => JobOf(w)' # k
          /\ \A r \in Runs : child'[r][k].phase \notin Writing
    BY <1>6, Writes
  <2>2. \A j : j # k /\ j \in Jobs => Same(j)
    BY <2>1 DEF NewRecord, RecordIs
  <2>3. \A j \in queue' : j # k /\ j \in Jobs
    BY <1>1, <2>1 DEF TypeInv
  <2>4. \A w \in Threads : worker'[w].at \in Planning => JobOf(w)' # k /\ JobOf(w)' \in Jobs
    <3>1. ControlInv'
      BY <1>1, ControlStep
    <3> QED
      BY <2>1, <3>1 DEF ControlInv, OnePlace, Holds, Planning, Threads
  <2> QED
    BY <1>1, <1>2, <1>3, <1>4, <2>1, <2>2, <2>3, <2>4 DEF NextIsPlanned, AttemptOf
<1> QED
  BY <1>5, <1>6

\* No child outlives the run that waits for it.
LEMMA NoOrphansStep ==
  ASSUME ControlInv, SamplesFirst, NoneIsLeft, NoOrphans, Undisturbed, ~ParentDies, [Next]_vars,
         main = Serial => Serial \in budget.paths
  PROVE  NoOrphans'
<1>1. /\ TypeInv /\ OneProgram /\ OnePlace /\ ChildrenHaveAThread /\ Runs' = Runs
      /\ Main \in Threads
  BY BudgetKept, SameRuns DEF ControlInv, Threads
<1>2. ASSUME UNCHANGED <<run, main>>,
             \A r \in Runs, j \in Jobs : Alive(child'[r][j]) =>
               Alive(child[r][j]) \/ (r = run /\ main \in Running)
      PROVE  NoOrphans'
  BY <1>1, <1>2 DEF NoOrphans
<1>3. ASSUME \A r \in Runs, j \in Jobs : ~Alive(child'[r][j])
      PROVE  NoOrphans'
  BY <1>1, <1>3 DEF NoOrphans
<1>4. ASSUME \A w \in Threads : ~InCharge(w), UNCHANGED child
      PROVE  NoOrphans'
  <2>1. main \in Running => \A j \in Jobs : ~Alive(child[run][j])
    BY <1>1, <1>4 DEF ChildrenHaveAThread
  <2>2. \A r \in Runs, j \in Jobs : ~Alive(child[r][j])
    BY <2>1 DEF NoOrphans
  <2> QED
    BY <1>3, <1>4, <2>2
<1>5. ASSUME NEW k \in Jobs, NEW by, run \in Runs, ChildKilled(run, k, by), UNCHANGED <<run, main>>
      PROVE  NoOrphans'
  <2>1. \A r \in Runs, j \in Jobs : Alive(child'[r][j]) => Alive(child[r][j])
    BY <1>5 DEF ChildKilled, OthersStay
  <2> QED
    BY <1>2, <1>5, <2>1
<1>6. ASSUME NEW k \in Jobs, NEW a, run \in Runs, main \in Running, ChildStarted(run, k, a),
             UNCHANGED <<run, main>>
      PROVE  NoOrphans'
  <2>1. \A r \in Runs, j \in Jobs : Alive(child'[r][j]) =>
          Alive(child[r][j]) \/ (r = run /\ main \in Running)
    BY <1>6 DEF ChildStarted, OthersStay
  <2> QED
    BY <1>2, <1>6, <2>1
<1>7. ASSUME main = Serial
      PROVE  \A w \in Threads : InCharge(w) => w = Main
  BY <1>1, <1>7 DEF OneProgram, Threads, InCharge, Parallel, Serial
<1>8. CASE StartRun
  <2>1. child' = child /\ main \notin Running
    BY <1>8 DEF StartRun
  <2>2. \A r \in Runs, j \in Jobs : ~Alive(child[r][j])
    BY <2>1 DEF NoOrphans
  <2> QED
    BY <1>3, <2>1, <2>2
<1>9. CASE \E w \in Workers : WorkerStep(w)
  <2>1. PICK w \in Workers : WorkerStep(w)
    BY <1>9
  <2>2. w \in Threads /\ main \in Running
    BY <2>1 DEF Threads, WorkerStep, Running
  <2>3. UNCHANGED <<run, main>>
    BY <2>1 DEF WorkerStep, TakeJob, CheckBefore, Spawn, SpawnFails, Register, Recheck, WaitEnds,
       TimesOut, Discard, CheckAfter, LookUp, WriteFallback, parent
  <2>4. CASE Spawn(w)
    <3>1. JobOf(w) \in Jobs /\ run \in Runs
      BY <1>1, <2>2, <2>4, HolderFacts DEF Spawn, Holds
    <3>2. ChildStarted(run, JobOf(w), AttemptOf(w))
      BY <1>1, <2>2, <2>4, WorkerEffects, Zenon
    <3> QED
      BY <1>6, <2>2, <2>3, <3>1, <3>2
  <2>5. CASE Recheck(w) \/ TimesOut(w)
    <3>1. JobOf(w) \in Jobs /\ run \in Runs
      BY <1>1, <2>2, <2>5, HolderFacts DEF Recheck, TimesOut, Holds
    <3>2. child' = child \/ \E by : ChildKilled(run, JobOf(w), by)
      BY <1>1, <2>2, <2>5, WorkerEffects
    <3> QED
      BY <1>2, <1>5, <2>3, <3>1, <3>2
  <2>6. CASE ~(Spawn(w) \/ Recheck(w) \/ TimesOut(w))
    <3>1. child' = child
      BY <2>1, <2>6 DEF WorkerStep, TakeJob, CheckBefore, SpawnFails, Register, WaitEnds, Discard,
         CheckAfter, LookUp, WriteFallback
    <3> QED
      BY <1>2, <2>3, <3>1
  <2> QED
    BY <2>4, <2>5, <2>6
<1>10. CASE AnyChildStep
  <2>1. PICK s \in Runs, k \in Jobs : ChildStep(s, k)
    BY <1>10 DEF AnyChildStep
  <2>2. child[s][k].phase \notin {"none", "ended"} /\ \E p : ChildTo(s, k, p)
    BY <1>1, <2>1, ChildEffects DEF ChildStep
  <2>3. \A r \in Runs, j \in Jobs : Alive(child'[r][j]) => Alive(child[r][j])
    BY <2>2 DEF ChildTo, OthersStay, Alive
  <2>4. UNCHANGED <<run, main>>
    BY <2>1 DEF ChildStep, parent
  <2> QED
    BY <1>2, <2>3, <2>4
<1>11. CASE Signal
  BY <1>2, <1>11 DEF Signal, parent
<1>12. CASE HandlerStep
  <2>1. main = Parallel /\ frames # <<>> /\ (child' = child \/ KillOne) /\ UNCHANGED <<run, main>>
    BY <1>12 DEF HandlerStep, parent
  <2>2. KillOne => \E k \in Jobs : ChildKilled(run, k, "cancel")
    BY <1>1, <2>1, HandlerEffects
  <2>3. run \in Runs
    BY <1>1, <2>1 DEF OneProgram, Parallel
  <2> QED
    BY <1>2, <1>5, <2>1, <2>2, <2>3
<1>13. CASE JoinWorkers
  <2>1. main = Parallel /\ child' = child /\ \A w \in Workers : worker[w].at = "stopped"
    BY <1>13 DEF JoinWorkers
  <2>2. \A w \in Threads : ~InCharge(w)
    BY <1>1, <2>1 DEF OneProgram, Threads, InCharge, Parallel, Serial
  <2> QED
    BY <1>4, <2>1, <2>2
<1>14. CASE SerialStep
  <2>1. main = Serial /\ run' = run
    BY <1>14 DEF SerialStep, TakeNext, SpawnAlone, SpawnAloneFails, InstallHandlers, WaitAlone,
       KillAlone, At, LookUp, WriteFallback, parent
  <2>2. main \in Running
    BY <2>1 DEF Running
  <2>3. CASE TakeNext \/ SpawnAloneFails
    <3>1. child' = child /\ ~InCharge(Main)
      BY <2>3 DEF TakeNext, SpawnAloneFails, At, InCharge
    <3> QED
      BY <1>4, <1>7, <2>1, <3>1
  <2>4. CASE SpawnAlone
    <3>1. JobOf(Main) \in Jobs /\ run \in Runs /\ main' = main
      BY <1>1, <2>4, HolderFacts DEF SpawnAlone, At, Holds
    <3>2. ChildStarted(run, JobOf(Main), AttemptOf(Main))
      BY <1>1, <2>4, SerialEffects, Zenon
    <3> QED
      BY <1>6, <2>1, <2>2, <3>1, <3>2
  <2>5. CASE WaitAlone
    <3>1. JobOf(Main) \in Jobs /\ run \in Runs /\ main' = main
      BY <1>1, <2>5, HolderFacts DEF WaitAlone, At, Holds
    <3>2. child' = child \/ ChildKilled(run, JobOf(Main), "deadline")
      BY <1>1, <2>5, SerialEffects
    <3> QED
      BY <1>2, <1>5, <2>1, <3>1, <3>2
  <2>6. CASE KillAlone
    <3>1. JobOf(Main) \in Jobs /\ run \in Runs
      BY <1>1, <2>6, HolderFacts DEF KillAlone, At, Holds
    <3>2. ChildKilled(run, JobOf(Main), "cancel")
      BY <1>1, <2>6, SerialEffects
    <3>3. \A j \in Jobs : Alive(child[run][j]) => j = JobOf(Main)
      BY <1>1, <1>7, <2>1, <2>2 DEF ChildrenHaveAThread
    <3>4. \A r \in Runs, j \in Jobs : ~Alive(child'[r][j])
      BY <3>1, <3>2, <3>3 DEF ChildKilled, OthersStay, NoOrphans
    <3> QED
      BY <1>3, <3>4
  <2>7. CASE InstallHandlers \/ LookUp(Main) \/ WriteFallback(Main)
    BY <1>2, <2>1, <2>7 DEF InstallHandlers, LookUp, WriteFallback
  <2> QED
    BY <1>14, <2>3, <2>4, <2>5, <2>6, <2>7 DEF SerialStep
<1>15. CASE SignalAlone
  <2>1. SignalInWait /\ signals < budget.signals
    BY <1>15 DEF SignalAlone, SignalOutsideWait
  <2>2. ~At("kill")
    <3>1. budget.signals \in Nat /\ signals \in Nat
      BY <1>1, BudgetsAssumption DEF TypeInv
    <3>2. At("kill") => signals >= 1
      BY DEF NoneIsLeft, At
    <3>3. At("kill") => budget.signals < 2
      BY DEF Undisturbed, At
    <3> QED
      BY <2>1, <3>1, <3>2, <3>3
  <2>3. UNCHANGED <<run, main, child>>
    BY <2>1, <2>2 DEF SignalInWait, parent
  <2> QED
    BY <1>2, <2>3
<1>16. CASE UNCHANGED vars
  BY <1>2, <1>16 DEF vars, parent
<1> QED
  BY <1>8, <1>9, <1>10, <1>11, <1>12, <1>13, <1>14, <1>15, <1>16
     DEF Next, MainStep, KillParent, Finished

LEMMA OneWriterInit == Init => OneWriter
<1> SUFFICES ASSUME Init PROVE NoOrphans /\ NextIsPlanned
  BY DEF OneWriter, Init, Serial
<1>1. /\ child = [r \in Runs |-> [j \in Jobs |-> NoChild]]
      /\ worker = [w \in Threads |-> Idle]
      /\ queue = {}
  BY DEF Init
<1>2. Idle.at = "stopped"
  BY DEF Idle
<1> QED
  BY <1>1, <1>2, NobodysChild DEF NoOrphans, NextIsPlanned, Alive, Writing, Planning

LEMMA OneWriterStep ==
  ASSUME ControlInv, DataInv, ReachInv, OneWriter, [Next]_vars
  PROVE  OneWriter'
<1>0. main' = Serial => Serial \in budget'.paths
  <2>1. StartRun => main' \in budget'.paths
    BY DEF StartRun
  <2>2. ~StartRun => main' \in {main, "returned", "cancelled", "failed", "killed"}
    BY DEF Next, WorkerStep, TakeJob, CheckBefore, Spawn, SpawnFails, Register, Recheck,
       WaitEnds, TimesOut, Discard, CheckAfter, LookUp, WriteFallback, AnyChildStep, ChildStep,
       Signal, MainStep, HandlerStep, JoinWorkers, SerialStep, TakeNext, SpawnAlone,
       SpawnAloneFails, InstallHandlers, WaitAlone, KillAlone, SignalAlone, SignalInWait,
       SignalOutsideWait, ParentDies, KillParent, Finished, vars
  <2> QED
    BY <2>1, <2>2, BudgetKept DEF OneWriter, Serial
<1> SUFFICES ASSUME Undisturbed'
             PROVE  NoOrphans' /\ NextIsPlanned'
  BY <1>0 DEF OneWriter
<1>1. TypeInv /\ SamplesFirst /\ NoneIsLeft
  BY DEF ControlInv, DataInv, ReachInv
<1>2. Undisturbed /\ ~ParentDies
  BY <1>1, UndisturbedBefore
<1> QED
  BY <1>1, <1>2, NoOrphansStep, NextIsPlannedStep DEF OneWriter

\* A sequence that goes on starts with what it was.
LEMMA PrefixKept ==
  ASSUME NEW S, NEW s \in Seq(S), NEW t \in Seq(S), Len(s) <= Len(t),
         \A i \in 1 .. Len(s) : t[i] = s[i]
  PROVE  SubSeq(t, 1, Len(s)) = s
<1> DEFINE n == Len(s)
<1>1. n \in Nat /\ 1 \in Int /\ \A i \in 1 .. n : s[i] \in S /\ t[i] = s[i]
  BY ElementOfSeq
<1>2. \A i \in 1 .. n : t[i] \in S
  BY <1>1
<1> HIDE DEF n
<1>3. /\ SubSeq(t, 1, n) \in Seq(S)
      /\ Len(SubSeq(t, 1, n)) = n
      /\ \A i \in 1 .. n : SubSeq(t, 1, n)[i] = s[i]
  BY <1>1, <1>2, SubSeqProperties
<1> QED
  BY <1>3, SeqEqual DEF n

\* Every record there is stays what it is.
LEMMA RecordsStay ==
  ASSUME ControlInv, ControlInv', DataInv, OneWriter, [Next]_vars, Undisturbed'
  PROVE  \A k \in Jobs : /\ Len(records[k]) <= Len(records'[k])
                         /\ \A i \in 1 .. Len(records[k]) : records'[k][i] = records[k][i]
<1>1. NoOrphans /\ NextIsPlanned
  BY UndisturbedBefore DEF OneWriter, ControlInv
<1>2. \A k \in Jobs : Len(records[k]) \in Nat /\ Len(records[k]) <= Len(records'[k])
  BY RecordsGrow
<1>3. CASE records' = records
  BY <1>2, <1>3
<1>4. CASE \E j \in Jobs : NewRecord(j)
  <2>1. PICK j \in Jobs : \E kind, killed : RecordIs(j, Len(records[j]), kind, killed)
    BY <1>4 DEF NewRecord
  <2>2. PICK kind, killed : RecordIs(j, Len(records[j]), kind, killed)
    BY <2>1
  <2>3. \A i \in 1 .. Len(records[j]) : records'[j][i] = records[j][i]
    BY <1>2, <2>2 DEF RecordIs
  <2>4. \A k \in Jobs : k # j => records'[k] = records[k]
    BY <2>2 DEF RecordIs
  <2> QED
    BY <1>2, <2>3, <2>4
<1> QED
  BY <1>1, <1>3, <1>4, Writes

LEMMA AttemptsStay ==
  ASSUME ControlInv, ControlInv', DataInv, OneWriter, [Next]_vars, Undisturbed'
  PROVE  OnlyNewAttempts
<1>1. records \in [Jobs -> Seq(Record)] /\ records' \in [Jobs -> Seq(Record)]
  BY DEF ControlInv, TypeInv
<1>2. ASSUME NEW k \in Jobs
      PROVE  SubSeq(records'[k], 1, Len(records[k])) = records[k]
  <2>1. records[k] \in Seq(Record) /\ records'[k] \in Seq(Record)
    BY <1>1
  <2>2. /\ Len(records[k]) <= Len(records'[k])
        /\ \A i \in 1 .. Len(records[k]) : records'[k][i] = records[k][i]
    BY RecordsStay
  <2> QED
    BY <2>1, <2>2, PrefixKept
<1> QED
  BY <1>2 DEF OnlyNewAttempts

-----------------------------------------------------------------------------

LEMMA Invariant ==
  Spec => [](ControlInv /\ DataInv /\ CancelInv /\ CompleteInv /\ ReachInv /\ OneWriter)
<1> DEFINE Inv == ControlInv /\ DataInv /\ CancelInv /\ CompleteInv /\ ReachInv /\ OneWriter
<1>1. Init => Inv
  BY ControlInit, DataInit, CancelInit, CompleteInit, ReachInit, OneWriterInit
<1>2. Inv /\ [Next]_vars => Inv'
  BY ControlStep, DataStep, CancelInvStep, CompleteStep, ReachStep, OneWriterStep DEF DataInv
<1> QED
  BY <1>1, <1>2, PTL DEF Spec

\* Whoever is killed and whenever: a completed record on disk has its samples
\* (round2_cpu.py 256-260).
THEOREM RecordsHaveTheirSamples == Spec => []CompletedHasSamples
<1>1. DataInv => CompletedHasSamples
  BY DEF DataInv
<1> QED
  BY <1>1, Invariant, PTL

\* No record says of a job that a cancel interrupted that it crashed or timed
\* out (round2_cpu.py 277-283).
THEOREM CancelsAreNotRecorded == Spec => []CancelLeavesNoFallback
<1>1. CancelInv => CancelLeavesNoFallback
  BY DEF CancelInv
<1> QED
  BY <1>1, Invariant, PTL

\* No job is lost between the queue, the threads and the disk: a run that
\* returns has a record of every attempt it planned (round2_cpu.py 442-508).
THEOREM ReturnsAreComplete == Spec => []ReturnedIsComplete
<1>1. CompleteInv => ReturnedIsComplete
  BY DEF CompleteInv
<1> QED
  BY <1>1, Invariant, PTL

\* After the handler nobody waits for a child that is alive, and one signal
\* leaves no child behind (round2_runner.py 1117-1119, 1176-1186).
THEOREM CancelsReachChildren == Spec => []CancelReachesEveryChild
<1>1. ControlInv /\ ReachInv => CancelReachesEveryChild
  <2>1. ASSUME KillIsComing, cancelled, frames = <<>>, NEW w \in Workers, worker[w].at = "wait"
        PROVE  ~Alive(ChildOf(w))
    BY <2>1 DEF KillIsComing
  <2> QED
    BY <2>1 DEF ReachInv, NoneIsLeft, CancelReachesEveryChild
<1> QED
  BY <1>1, Invariant, PTL

\* Without a kill of the parent, and with at most one signal per run where runs
\* may be serial, every attempt is written once (round2_cpu.py 85-86).
THEOREM AttemptsAreWrittenOnce == Spec => AttemptsAreKeptUnlessKilled
<1>1. /\ ControlInv /\ DataInv /\ OneWriter /\ ControlInv'
      /\ [Next]_vars
      => [Undisturbed' => OnlyNewAttempts]_vars
  BY AttemptsStay
<1> QED
  BY <1>1, Invariant, PTL DEF Spec, AttemptsAreKeptUnlessKilled

-----------------------------------------------------------------------------
(* The seeded sweep.                                                       *)

\* What the record of a job that ran says of the reads it was seeded with.
SeedsAreTheBest(i, r) ==
  LET reads == SweepJobs[i].reads IN
  /\ \A k \in DOMAIN reads : reads[k].state \notin r.seeds =>
       Cardinality({m \in DOMAIN reads : reads[m].energy <= reads[k].energy}) > SeedLanes
  /\ r.duplicates + Cardinality(r.seeds) = SeedLanes
  /\ r.seeded.seed # r.cold.seed

SweepRunning == sweep.at \in {"job", "samples", "record"}

\* The result at hand is of the job and the build at hand; a job that is run
\* again has no record of success.
AtHand ==
  sweep.at \in {"samples", "record"} =>
    /\ sweep.job \in Order
    /\ sweep.result # Nothing
    /\ sweep.result.key = SweepKey(Current, sweep.build)
    /\ ~Recorded.ok
    /\ sweep.result.ok => SeedsAreTheBest(sweep.job, sweep.result)
    /\ sweep.at = "record" /\ sweep.result.ok => sweepSamples[sweep.job] = sweep.result

RecordedBefore ==
  SweepRunning \/ sweep.at = "finished" =>
    \A i \in Order : i < sweep.job =>
      Has(sweepRecords[i]) /\ sweepRecords[i].key = SweepKey(SweepJobs[i], sweep.build)

Owned ==
  \A i \in Order : sweepRecords[i].ok =>
    sweepSamples[i] = sweepRecords[i] /\ SeedsAreTheBest(i, sweepRecords[i])

SweepInv ==
  /\ DOMAIN sweep = DOMAIN Off
  /\ sweep.job \in Nat \ {0}
  /\ sweep.executions \in Nat
  /\ DOMAIN sweepRecords = Order /\ DOMAIN sweepSamples = Order
  /\ sweep.at = "finished" => sweep.job \notin Order
  /\ AtHand
  /\ RecordedBefore
  /\ Owned

LEMMA OrderIsInterval ==
  Len(SweepJobs) \in Nat /\ Order = 1 .. Len(SweepJobs)
BY SweepJobsAssumption DEF Order

\* A read that is not taken has at least as many before it as there are lanes.
LEMMA RunIsSeededByTheBest ==
  ASSUME NEW i \in Order, NEW build, NEW e \in Nat \ {0}
  PROVE  /\ SeedsAreTheBest(i, SweepRecord(SweepJobs[i], build, e))
         /\ SweepRecord(SweepJobs[i], build, e) # Nothing
         /\ SweepRecord(SweepJobs[i], build, e).ok
         /\ SweepRecord(SweepJobs[i], build, e).key = SweepKey(SweepJobs[i], build)
<1> DEFINE r == SweepRecord(SweepJobs[i], build, e)
           reads == SweepJobs[i].reads
           D == DOMAIN reads
           Before(a, b) == \/ reads[a].energy < reads[b].energy
                           \/ reads[a].energy = reads[b].energy /\ a < b
           lanes == {a \in D : Cardinality({b \in D : Before(b, a)}) < SeedLanes}
           states == {reads[k].state : k \in lanes}
<1>1. /\ reads \in Seq(Range(reads)) /\ \A k \in D : reads[k].energy \in Int
  BY SweepJobsAssumption DEF Order
<1>2. Len(reads) \in Nat /\ D = 1 .. Len(reads)
  <2> HIDE DEF reads
  <2> QED
    BY <1>1
<1>3. IsFiniteSet(D)
  <2> HIDE DEF D
  <2> QED
    BY <1>2, FS_Interval
<1>4. SeededLanes(SweepJobs[i].reads) = lanes
  BY Zenon DEF SeededLanes
<1>5. /\ r.seeds = states /\ r.duplicates = SeedLanes - Cardinality(states)
      /\ r.ok /\ r.execution = e /\ r.key = SweepKey(SweepJobs[i], build)
      /\ r.seeded.seed[5] = <<SweepJobs[i].source, "seeded">>
      /\ r.cold.seed[5] = <<"cold">>
  BY <1>4 DEF SweepRecord, SeedFor
<1> HIDE DEF r
<1>6. r.seeded.seed # r.cold.seed
  <2>1. <<SweepJobs[i].source, "seeded">> # <<"cold">>
    <3>1. Len(<<SweepJobs[i].source, "seeded">>) = 2 /\ Len(<<"cold">>) = 1
      OBVIOUS
    <3> QED
      BY <3>1
  <2> QED
    BY <1>5, <2>1
<1>7. r # Nothing
  BY <1>5 DEF Nothing
<1>8. Cardinality(states) \in Nat
  <2>1. IsFiniteSet(lanes)
    BY <1>3, FS_Subset
  <2>2. IsFiniteSet(states)
    <3> DEFINE state == [k \in lanes |-> reads[k].state]
    <3>1. states = {state[k] : k \in lanes}
      OBVIOUS
    <3>2. state \in Surjection(lanes, states)
      BY <3>1 DEF Surjection
    <3> HIDE DEF lanes, state, states
    <3> QED
      BY <2>1, <3>2, FS_Surjection
  <2> QED
    BY <2>2, FS_CardinalityType
<1>9. r.duplicates + Cardinality(r.seeds) = SeedLanes
  BY <1>5, <1>8, SeedLanesAssumption
<1>10. ASSUME NEW k \in D, reads[k].state \notin states
       PROVE  Cardinality({m \in D : reads[m].energy <= reads[k].energy}) > SeedLanes
  <2> DEFINE first == {b \in D : Before(b, k)}
             low == {m \in D : reads[m].energy <= reads[k].energy}
  <2>1. k \notin lanes
    BY <1>10
  <2>2. IsFiniteSet(first) /\ IsFiniteSet(low)
    BY <1>3, FS_Subset
  <2>3. Cardinality(first) \in Nat /\ Cardinality(low) \in Nat
    BY <2>2, FS_CardinalityType
  <2>4. Cardinality(first) >= SeedLanes
    <3> HIDE DEF first
    <3>1. ~(Cardinality(first) < SeedLanes)
      BY <2>1, Zenon DEF first
    <3> QED
      BY <2>3, <3>1, SeedLanesAssumption
  <2>5. k \notin first /\ first \cup {k} \subseteq low
    <3> HIDE DEF reads, D
    <3> QED
      BY <1>1, <1>2 DEF reads, D
  <2> HIDE DEF first, low
  <2>6. IsFiniteSet(first \cup {k}) /\ Cardinality(first \cup {k}) = Cardinality(first) + 1
    BY <2>2, <2>5, FS_AddElement
  <2>7. Cardinality(first \cup {k}) <= Cardinality(low)
    BY <2>2, <2>5, FS_Subset
  <2>8. Cardinality(low) > SeedLanes
    BY <2>3, <2>4, <2>6, <2>7, SeedLanesAssumption
  <2> QED
    BY <2>8 DEF low
<1>11. SeedsAreTheBest(i, r)
  <2> HIDE DEF lanes, states
  <2> QED
    BY <1>5, <1>6, <1>9, <1>10 DEF SeedsAreTheBest
<1>12. r.ok /\ r.key = SweepKey(SweepJobs[i], build)
  BY <1>5
<1> QED
  BY <1>7, <1>11, <1>12, Zenon DEF r

LEMMA FailureIsNoRecord ==
  ASSUME NEW job, NEW build, NEW e \in Nat \ {0}
  PROVE  /\ FailedSweep(job, build, e) # Nothing
         /\ ~FailedSweep(job, build, e).ok
         /\ FailedSweep(job, build, e).key = SweepKey(job, build)
BY DEF FailedSweep, Nothing

LEMMA RunKeepsSweepInv ==
  ASSUME SweepInv, RunJob
  PROVE  SweepInv'
<1> DEFINE e == sweep.executions + 1
<1>1. /\ sweep.at = "job" /\ sweep.job \in Order /\ OfThisBuild /\ ~IsDone
      /\ sweepRecords' = sweepRecords /\ sweepSamples' = sweepSamples
  BY DEF RunJob
<1>2. e \in Nat \ {0}
  BY DEF SweepInv
<1>3. ~Recorded.ok
  <2> SUFFICES ASSUME Recorded.ok PROVE FALSE
    OBVIOUS
  <2>1. sweepSamples[sweep.job] = Recorded
    BY <1>1 DEF SweepInv, Owned, Recorded
  <2>2. Recorded # Nothing
    BY DEF Nothing
  <2> QED
    BY <1>1, <2>1, <2>2 DEF IsDone, Has
<1>4. /\ DOMAIN sweep = DOMAIN Off
      /\ DOMAIN Off = {"at", "starts", "executions", "job", "build", "result"}
  BY DEF SweepInv, Off
<1> DEFINE Goes(r) ==
             /\ r # Nothing /\ r.key = SweepKey(Current, sweep.build)
             /\ r.ok => SeedsAreTheBest(sweep.job, r)
             /\ \/ sweep' = [sweep EXCEPT !.at = "samples", !.executions = e, !.result = r]
                \/ ~r.ok /\ sweep' = [sweep EXCEPT !.at = "record", !.executions = e, !.result = r]
<1>5. \E r : Goes(r)
  <2>1. CASE sweep' = [sweep EXCEPT !.at = "samples", !.executions = e,
                                    !.result = SweepRecord(Current, sweep.build, e)]
    <3>1. /\ SeedsAreTheBest(sweep.job, SweepRecord(Current, sweep.build, e))
          /\ SweepRecord(Current, sweep.build, e) # Nothing
          /\ SweepRecord(Current, sweep.build, e).key = SweepKey(Current, sweep.build)
      BY <1>1, <1>2, RunIsSeededByTheBest DEF Current
    <3> QED
      BY <2>1, <3>1, Zenon
  <2>2. CASE sweep' = [sweep EXCEPT !.at = "record", !.executions = e,
                                    !.result = FailedSweep(Current, sweep.build, e)]
    <3>1. /\ FailedSweep(Current, sweep.build, e) # Nothing
          /\ ~FailedSweep(Current, sweep.build, e).ok
          /\ FailedSweep(Current, sweep.build, e).key = SweepKey(Current, sweep.build)
      BY <1>2, FailureIsNoRecord
    <3> QED
      BY <2>2, <3>1, Zenon
  <2> QED
    BY <2>1, <2>2, Zenon DEF RunJob
<1> HIDE DEF Goes
<1>12. PICK r : Goes(r)
  BY <1>5
<1>6. /\ r # Nothing /\ r.key = SweepKey(Current, sweep.build)
      /\ r.ok => SeedsAreTheBest(sweep.job, r)
      /\ \/ sweep' = [sweep EXCEPT !.at = "samples", !.executions = e, !.result = r]
         \/ ~r.ok /\ sweep' = [sweep EXCEPT !.at = "record", !.executions = e, !.result = r]
  BY <1>12, Zenon DEF Goes
<1>7. /\ DOMAIN sweep' = DOMAIN Off
      /\ sweep'.job = sweep.job /\ sweep'.build = sweep.build /\ sweep'.executions = e
      /\ sweep'.result = r
      /\ sweep'.at = "samples" \/ (sweep'.at = "record" /\ ~r.ok)
  BY <1>4, <1>6
<1>8. Current' = Current /\ Recorded' = Recorded
  BY <1>1, <1>7 DEF Current, Recorded
<1>9. AtHand'
  BY <1>1, <1>3, <1>6, <1>7, <1>8 DEF AtHand
<1>10. RecordedBefore'
  BY <1>1, <1>7 DEF RecordedBefore, SweepRunning, SweepInv
<1>11. Owned'
  BY <1>1 DEF Owned, SweepInv
<1> QED
  BY <1>1, <1>2, <1>7, <1>9, <1>10, <1>11 DEF SweepInv

LEMMA SaveSamplesKeepsSweepInv ==
  ASSUME SweepInv, SaveSamples
  PROVE  SweepInv'
<1>1. /\ sweep.at = "samples"
      /\ sweepSamples' = [sweepSamples EXCEPT ![sweep.job] = sweep.result]
      /\ sweep' = [sweep EXCEPT !.at = "record"]
      /\ sweepRecords' = sweepRecords
  BY DEF SaveSamples
<1>2. /\ DOMAIN sweep = DOMAIN Off
      /\ DOMAIN Off = {"at", "starts", "executions", "job", "build", "result"}
      /\ DOMAIN sweepSamples = Order
      /\ sweep.job \in Order
      /\ sweep.result # Nothing /\ sweep.result.key = SweepKey(Current, sweep.build)
      /\ ~Recorded.ok /\ (sweep.result.ok => SeedsAreTheBest(sweep.job, sweep.result))
  BY <1>1 DEF SweepInv, AtHand, Off
<1>3. /\ DOMAIN sweep' = DOMAIN Off
      /\ sweep'.job = sweep.job /\ sweep'.build = sweep.build /\ sweep'.executions = sweep.executions
      /\ sweep'.result = sweep.result /\ sweep'.at = "record"
  BY <1>1, <1>2
<1>4. Current' = Current /\ Recorded' = Recorded
  BY <1>1, <1>3 DEF Current, Recorded
<1>5. AtHand'
  BY <1>1, <1>2, <1>3, <1>4 DEF AtHand
<1>6. RecordedBefore'
  BY <1>1, <1>3 DEF RecordedBefore, SweepRunning, SweepInv
<1>7. Owned'
  BY <1>1, <1>2 DEF Owned, SweepInv, Recorded
<1> QED
  BY <1>1, <1>2, <1>3, <1>5, <1>6, <1>7 DEF SweepInv

LEMMA SaveRecordKeepsSweepInv ==
  ASSUME SweepInv, SaveRecord
  PROVE  SweepInv'
<1>1. /\ sweep.at = "record"
      /\ sweepRecords' = [sweepRecords EXCEPT ![sweep.job] = sweep.result]
      /\ sweep' = [sweep EXCEPT !.at = "job", !.job = @ + 1, !.result = Nothing]
      /\ sweepSamples' = sweepSamples
  BY DEF SaveRecord
<1>2. /\ DOMAIN sweep = DOMAIN Off
      /\ DOMAIN Off = {"at", "starts", "executions", "job", "build", "result"}
      /\ DOMAIN sweepRecords = Order /\ DOMAIN sweepSamples = Order
      /\ sweep.job \in Order /\ sweep.job \in Nat \ {0}
      /\ sweep.result # Nothing /\ sweep.result.key = SweepKey(SweepJobs[sweep.job], sweep.build)
      /\ sweep.result.ok => SeedsAreTheBest(sweep.job, sweep.result) /\ sweepSamples[sweep.job] = sweep.result
  BY <1>1 DEF SweepInv, AtHand, Off, Current
<1>3. /\ DOMAIN sweep' = DOMAIN Off
      /\ sweep'.job = sweep.job + 1 /\ sweep'.build = sweep.build /\ sweep'.executions = sweep.executions
      /\ sweep'.at = "job"
  BY <1>1, <1>2
<1>4. AtHand'
  BY <1>3 DEF AtHand
<1>5. RecordedBefore'
  <2> SUFFICES ASSUME NEW i \in Order, i < sweep.job + 1
               PROVE  Has(sweepRecords'[i]) /\ sweepRecords'[i].key = SweepKey(SweepJobs[i], sweep.build)
    BY <1>3 DEF RecordedBefore
  <2>1. CASE i = sweep.job
    BY <1>1, <1>2, <2>1 DEF Has
  <2>2. CASE i # sweep.job
    <3>1. i < sweep.job
      BY <1>2, <2>2, OrderIsInterval
    <3> QED
      BY <1>1, <1>2, <2>2, <3>1 DEF RecordedBefore, SweepRunning, SweepInv
  <2> QED
    BY <2>1, <2>2
<1>6. Owned'
  BY <1>1, <1>2 DEF Owned, SweepInv
<1> QED
  BY <1>1, <1>2, <1>3, <1>4, <1>5, <1>6 DEF SweepInv

LEMMA MoveKeepsSweepInv ==
  ASSUME SweepInv, StartSweep \/ RefuseBuild \/ SkipDone \/ EndSweep \/ KillSweep
  PROVE  SweepInv'
<1>1. sweepRecords' = sweepRecords /\ sweepSamples' = sweepSamples
  BY DEF StartSweep, RefuseBuild, SkipDone, EndSweep, KillSweep
<1>2. /\ DOMAIN sweep = DOMAIN Off
      /\ DOMAIN Off = {"at", "starts", "executions", "job", "build", "result"}
      /\ sweep.job \in Nat \ {0} /\ sweep.executions \in Nat
      /\ DOMAIN sweepRecords' = Order /\ DOMAIN sweepSamples' = Order
  BY <1>1 DEF SweepInv, Off
<1>3. Owned'
  BY <1>1 DEF Owned, SweepInv
<1> SUFFICES /\ DOMAIN sweep' = DOMAIN Off
             /\ sweep'.job \in Nat \ {0} /\ sweep'.executions \in Nat
             /\ sweep'.at = "finished" => sweep'.job \notin Order
             /\ AtHand' /\ RecordedBefore'
  BY <1>2, <1>3 DEF SweepInv
<1>4. CASE StartSweep
  <2>1. /\ sweep'.at = "job" /\ sweep'.job = 1 /\ DOMAIN sweep' = DOMAIN Off
        /\ sweep'.executions = sweep.executions
    BY <1>2, <1>4 DEF StartSweep
  <2>2. RecordedBefore'
    BY <2>1, OrderIsInterval DEF RecordedBefore
  <2> QED
    BY <1>2, <2>1, <2>2 DEF AtHand
<1>5. CASE RefuseBuild
  <2>1. /\ sweep'.at = "refused" /\ sweep'.job = sweep.job /\ DOMAIN sweep' = DOMAIN Off
        /\ sweep'.executions = sweep.executions
    BY <1>2, <1>5 DEF RefuseBuild
  <2> QED
    BY <1>2, <2>1 DEF AtHand, RecordedBefore, SweepRunning
<1>6. CASE SkipDone
  <2>1. /\ sweep.at = "job" /\ sweep.job \in Order /\ OfThisBuild /\ IsDone
        /\ sweep'.at = "job" /\ sweep'.job = sweep.job + 1 /\ sweep'.build = sweep.build
        /\ DOMAIN sweep' = DOMAIN Off /\ sweep'.executions = sweep.executions
    BY <1>2, <1>6 DEF SkipDone
  <2>2. Recorded # Nothing
    BY <2>1 DEF IsDone, Nothing
  <2>3. Recorded.key = SweepKey(Current, sweep.build)
    BY <2>1, <2>2 DEF OfThisBuild, Has
  <2>4. ASSUME NEW i \in Order, i < sweep.job + 1
        PROVE  Has(sweepRecords[i]) /\ sweepRecords[i].key = SweepKey(SweepJobs[i], sweep.build)
    <3>1. CASE i = sweep.job
      BY <2>2, <2>3, <3>1 DEF Has, Recorded, Current
    <3>2. CASE i # sweep.job
      <4>1. i < sweep.job
        BY <1>2, <2>4, <3>2, OrderIsInterval
      <4> QED
        BY <2>1, <4>1 DEF RecordedBefore, SweepRunning, SweepInv
    <3> QED
      BY <3>1, <3>2
  <2>5. RecordedBefore'
    BY <1>1, <2>1, <2>4 DEF RecordedBefore
  <2> QED
    BY <1>2, <2>1, <2>5 DEF AtHand
<1>7. CASE EndSweep
  <2>1. /\ sweep.at = "job" /\ sweep.job \notin Order
        /\ sweep'.at = "finished" /\ sweep'.job = sweep.job /\ sweep'.build = sweep.build
        /\ DOMAIN sweep' = DOMAIN Off /\ sweep'.executions = sweep.executions
    BY <1>2, <1>7 DEF EndSweep
  <2>2. RecordedBefore'
    BY <1>1, <2>1 DEF RecordedBefore, SweepRunning, SweepInv
  <2> QED
    BY <1>2, <2>1, <2>2 DEF AtHand
<1>8. CASE KillSweep
  <2>1. /\ sweep'.at = "off" /\ sweep'.job = sweep.job /\ DOMAIN sweep' = DOMAIN Off
        /\ sweep'.executions = sweep.executions
    BY <1>2, <1>8 DEF KillSweep
  <2> QED
    BY <1>2, <2>1 DEF AtHand, RecordedBefore, SweepRunning
<1> QED
  BY <1>4, <1>5, <1>6, <1>7, <1>8

LEMMA SweepInvInductive == SweepSpec => []SweepInv
<1>1. SweepInit => SweepInv
  BY DEF SweepInit, SweepInv, Off, Nothing, AtHand, RecordedBefore, SweepRunning, Owned
<1>2. ASSUME SweepInv, UNCHANGED sweepVars PROVE SweepInv'
  BY <1>2 DEF SweepInv, sweepVars, AtHand, RecordedBefore, SweepRunning, Owned, Current, Recorded
<1>3. SweepInv /\ [SweepNext]_sweepVars => SweepInv'
  BY <1>2, RunKeepsSweepInv, SaveSamplesKeepsSweepInv, SaveRecordKeepsSweepInv, MoveKeepsSweepInv
  DEF SweepNext
<1> QED
  BY <1>1, <1>3, PTL DEF SweepSpec

\* However often the sweep is killed between two of its writes and started
\* again with whatever build, a record of success stands beside the samples of
\* its own execution, and a sweep that finishes has records of its build only
\* (round2_cpu.py 640-710).
THEOREM SweepRecordsOwnTheirSamples == SweepSpec => []RecordOwnsItsSamples
<1>1. SweepInv => RecordOwnsItsSamples
  <2> SUFFICES ASSUME SweepInv PROVE RecordOwnsItsSamples
    OBVIOUS
  <2>1. ASSUME sweep.at = "finished", NEW i \in Order
        PROVE  Has(sweepRecords[i]) /\ sweepRecords[i].key = SweepKey(SweepJobs[i], sweep.build)
    <3>1. i < sweep.job
      BY <2>1, OrderIsInterval DEF SweepInv
    <3> QED
      BY <2>1, <3>1 DEF SweepInv, RecordedBefore
  <2>2. ASSUME NEW i \in Order, sweepRecords[i].ok
        PROVE  sweepSamples[i] = sweepRecords[i] /\ SeedsAreTheBest(i, sweepRecords[i])
    BY <2>2 DEF SweepInv, Owned
  <2> QED
    BY <2>1, <2>2, Zenon DEF RecordOwnsItsSamples, SeedsAreTheBest
<1> QED
  BY <1>1, SweepInvInductive, PTL

-----------------------------------------------------------------------------
(* The plan: ranks.                                                        *)

LEMMA AddMember ==
  ASSUME NEW S, IsFiniteSet(S), NEW x, x \notin S
  PROVE  IsFiniteSet(S \cup {x}) /\ Cardinality(S \cup {x}) = Cardinality(S) + 1
<1>1. Cardinality(S \cup {x}) = IF x \in S THEN Cardinality(S) ELSE Cardinality(S) + 1
  BY FS_AddElement, Zenon
<1> QED
  BY <1>1, FS_AddElement

LEMMA RanksAreNumbers ==
  ASSUME NEW S, IsFiniteSet(S), NEW key \in [S -> Int],
         \A x, y \in S : key[x] = key[y] => x = y
  PROVE  LET rank == [x \in S |-> Cardinality({y \in S : key[y] < key[x]})] IN
         rank \in Bijection(S, 0 .. Cardinality(S) - 1)
<1> DEFINE Below(x) == {y \in S : key[y] < key[x]}
           rank == [x \in S |-> Cardinality(Below(x))]
           N == Cardinality(S)
<1>0. N \in Nat
  BY FS_CardinalityType
<1>a. \A x \in S : x \notin Below(x)
  OBVIOUS
<1>1. ASSUME NEW x \in S
      PROVE  IsFiniteSet(Below(x)) /\ rank[x] \in Nat /\ rank[x] < N
  <2>1. IsFiniteSet(Below(x))
    <3>1. Below(x) \in SUBSET S
      OBVIOUS
    <3> QED
      BY <3>1, FS_Subset
  <2>2. IsFiniteSet(Below(x) \cup {x}) /\ Cardinality(Below(x) \cup {x}) = Cardinality(Below(x)) + 1
    BY <1>a, <2>1, AddMember
  <2>3. Below(x) \cup {x} \in SUBSET S
    OBVIOUS
  <2>4. Cardinality(Below(x) \cup {x}) <= N
    BY <2>3, FS_Subset
  <2>5. Cardinality(Below(x)) \in Nat
    BY <2>1, FS_CardinalityType
  <2> QED
    BY <2>1, <2>2, <2>4, <2>5, <1>0
<1>2. ASSUME NEW x \in S, NEW y \in S, key[x] < key[y]
      PROVE  rank[x] < rank[y]
  <2>1. IsFiniteSet(Below(x)) /\ IsFiniteSet(Below(y))
    BY <1>1
  <2>2. IsFiniteSet(Below(x) \cup {x}) /\ Cardinality(Below(x) \cup {x}) = Cardinality(Below(x)) + 1
    BY <1>a, <2>1, AddMember
  <2>3. Below(x) \cup {x} \in SUBSET Below(y)
    BY <1>2
  <2>4. Cardinality(Below(x) \cup {x}) <= Cardinality(Below(y))
    BY <2>1, <2>3, FS_Subset
  <2>5. Cardinality(Below(x)) \in Nat /\ Cardinality(Below(y)) \in Nat
    BY <2>1, FS_CardinalityType
  <2> QED
    BY <2>2, <2>4, <2>5
<1>3. rank \in [S -> 0 .. N - 1]
  <2>1. \A x \in S : rank[x] \in 0 .. N - 1
    <3> SUFFICES ASSUME NEW x \in S PROVE rank[x] \in 0 .. N - 1
      OBVIOUS
    <3>1. rank[x] \in Nat /\ rank[x] < N
      BY <1>1, Zenon
    <3> HIDE DEF rank, N
    <3> QED
      BY <1>0, <3>1
  <2> QED
    BY <2>1, Zenon
<1>4. \A x, y \in S : rank[x] = rank[y] => x = y
  <2> SUFFICES ASSUME NEW x \in S, NEW y \in S, rank[x] = rank[y], x # y
               PROVE  FALSE
    OBVIOUS
  <2>1. key[x] < key[y] \/ key[y] < key[x]
    <3>1. key[x] # key[y] /\ key[x] \in Int /\ key[y] \in Int
      OBVIOUS
    <3> QED
      BY <3>1
  <2>2. rank[x] < rank[y] \/ rank[y] < rank[x]
    BY <1>2, <2>1
  <2>3. rank[x] \in Nat
    BY <1>1, Zenon
  <2> HIDE DEF rank
  <2> QED
    BY <2>2, <2>3
<1> HIDE DEF rank
<1>5. rank \in Injection(S, 0 .. N - 1)
  BY <1>3, <1>4 DEF Injection, IsInjective
<1>6. IsFiniteSet(0 .. N - 1) /\ Cardinality(0 .. N - 1) = N
  BY <1>0, FS_Interval
<1>7. rank \in Surjection(S, 0 .. N - 1)
  BY <1>5, <1>6, FS_Injection
<1>8. rank \in Bijection(S, 0 .. N - 1)
  BY <1>5, <1>7 DEF Bijection
<1> QED
  BY <1>8 DEF rank

LEMMA FirstOfRanks ==
  ASSUME NEW S, IsFiniteSet(S), NEW key \in [S -> Int],
         \A x, y \in S : key[x] = key[y] => x = y, NEW n \in Nat
  PROVE  LET first == {x \in S : Cardinality({y \in S : key[y] < key[x]}) < n} IN
         /\ IsFiniteSet(first)
         /\ Cardinality(first) = IF n <= Cardinality(S) THEN n ELSE Cardinality(S)
<1> DEFINE rank == [x \in S |-> Cardinality({y \in S : key[y] < key[x]})]
           first == {x \in S : rank[x] < n}
           N == Cardinality(S)
           m == IF n <= N THEN n ELSE N
           part == [x \in first |-> rank[x]]
<1>0. N \in Nat /\ IsFiniteSet(first) /\ first \subseteq S
  <2>1. first \in SUBSET S
    OBVIOUS
  <2> QED
    BY <2>1, FS_Subset, FS_CardinalityType
<1>1. rank \in Bijection(S, 0 .. N - 1)
  BY RanksAreNumbers
<1>2. {x \in S : Cardinality({y \in S : key[y] < key[x]}) < n} = first
  OBVIOUS
<1> HIDE DEF rank
<1>3. /\ rank \in [S -> 0 .. N - 1]
      /\ \A x, y \in S : rank[x] = rank[y] => x = y
      /\ \A i \in 0 .. N - 1 : \E x \in S : rank[x] = i
  BY <1>1 DEF Bijection, Injection, Surjection, IsInjective
<1>4. m \in Nat /\ m <= n /\ m <= N /\ (m = n \/ m = N)
  BY <1>0
<1>5. \A x \in first : part[x] = rank[x] /\ rank[x] \in 0 .. m - 1
  BY <1>0, <1>3, <1>4
<1>6. \A i \in 0 .. m - 1 : \E x \in first : part[x] = i
  <2> SUFFICES ASSUME NEW i \in 0 .. m - 1
               PROVE  \E x \in first : part[x] = i
    OBVIOUS
  <2>1. i \in 0 .. N - 1 /\ i < n
    BY <1>0, <1>4
  <2>2. PICK x \in S : rank[x] = i
    BY <1>3, <2>1
  <2> QED
    BY <2>1, <2>2
<1> HIDE DEF m
<1>7. part \in [first -> 0 .. m - 1]
  BY <1>5
<1>8. \A x, y \in first : part[x] = part[y] => x = y
  BY <1>0, <1>3, <1>5
<1> HIDE DEF part, first
<1>9. part \in Bijection(first, 0 .. m - 1)
  BY <1>6, <1>7, <1>8 DEF Bijection, Injection, Surjection, IsInjective
<1>10. Cardinality(0 .. m - 1) = m
  BY <1>4, FS_Interval
<1>11. Cardinality(first) = m
  <2>1. ExistsBijection(first, 0 .. m - 1)
    BY <1>9 DEF ExistsBijection
  <2> QED
    BY <1>0, <1>10, <2>1, FS_Bijection
<1> QED
  BY <1>0, <1>2, <1>11 DEF m

LEMMA AscendingLists ==
  ASSUME NEW S \in SUBSET Nat, IsFiniteSet(S)
  PROVE  /\ Ascending(S) \in Seq(S)
         /\ Len(Ascending(S)) = Cardinality(S)
         /\ Range(Ascending(S)) = S
<1> DEFINE key == [x \in S |-> x]
           rank == [x \in S |-> Cardinality({y \in S : key[y] < key[x]})]
           N == Cardinality(S)
<1>0. N \in Nat
  BY FS_CardinalityType
<1>1. key \in [S -> Int] /\ \A x, y \in S : key[x] = key[y] => x = y
  OBVIOUS
<1>2. rank \in Bijection(S, 0 .. N - 1)
  <2> HIDE DEF key
  <2> QED
    BY <1>1, RanksAreNumbers
<1>3. \A x \in S : Cardinality({y \in S : y < x}) = rank[x]
  <2> SUFFICES ASSUME NEW x \in S PROVE Cardinality({y \in S : y < x}) = rank[x]
    OBVIOUS
  <2>1. {y \in S : y < x} = {y \in S : key[y] < key[x]}
    OBVIOUS
  <2> QED
    BY <2>1
<1> HIDE DEF rank
<1>4. /\ rank \in [S -> 0 .. N - 1]
      /\ \A x, y \in S : rank[x] = rank[y] => x = y
      /\ \A i \in 0 .. N - 1 : \E x \in S : rank[x] = i
  BY <1>2 DEF Bijection, Injection, Surjection, IsInjective
<1>5. \A i \in 1 .. N : Ascending(S)[i] \in S /\ rank[Ascending(S)[i]] = i - 1
  <2> SUFFICES ASSUME NEW i \in 1 .. N
               PROVE  Ascending(S)[i] \in S /\ rank[Ascending(S)[i]] = i - 1
    OBVIOUS
  <2>1. \E x \in S : Cardinality({y \in S : y < x}) = i - 1
    <3>1. i - 1 \in 0 .. N - 1
      BY <1>0
    <3>2. PICK x \in S : rank[x] = i - 1
      BY <1>4, <3>1
    <3> QED
      BY <1>3, <3>2
  <2>2. Ascending(S)[i] = CHOOSE x \in S : Cardinality({y \in S : y < x}) = i - 1
    BY DEF Ascending
  <2>3. Ascending(S)[i] \in S /\ Cardinality({y \in S : y < Ascending(S)[i]}) = i - 1
    BY <2>1, <2>2, Zenon
  <2> QED
    BY <1>3, <2>3
<1>7. Ascending(S) \in [1 .. N -> S]
  <2> DEFINE nth(i) == CHOOSE x \in S : Cardinality({y \in S : y < x}) = i - 1
  <2>1. Ascending(S) = [i \in 1 .. N |-> nth(i)]
    BY DEF Ascending
  <2> HIDE DEF nth
  <2>2. \A i \in 1 .. N : nth(i) \in S
    BY <1>5, <2>1
  <2> QED
    BY <2>1, <2>2
<1>8. Ascending(S) \in Seq(S) /\ Len(Ascending(S)) = N
  BY <1>0, <1>7
<1>9. ASSUME NEW x \in S
      PROVE  x \in Range(Ascending(S))
  <2>1. rank[x] + 1 \in 1 .. N /\ (rank[x] + 1) - 1 = rank[x]
    BY <1>0, <1>4
  <2>2. /\ Ascending(S)[rank[x] + 1] \in S
        /\ rank[Ascending(S)[rank[x] + 1]] = rank[x]
    BY <1>5, <2>1
  <2>3. Ascending(S)[rank[x] + 1] = x
    BY <1>4, <2>2
  <2>4. rank[x] + 1 \in DOMAIN Ascending(S)
    BY <1>7, <2>1
  <2> QED
    BY <2>3, <2>4 DEF Range
<1>10. Range(Ascending(S)) \subseteq S
  BY <1>7 DEF Range
<1> QED
  BY <1>8, <1>9, <1>10

-----------------------------------------------------------------------------
(* Processors.                                                             *)

LEMMA Appended ==
  ASSUME NEW S, NEW s \in Seq(S), NEW x \in S
  PROVE  /\ Append(s, x) \in Seq(S)
         /\ Len(Append(s, x)) = Len(s) + 1
         /\ DOMAIN Append(s, x) = 1 .. Len(s) + 1
         /\ Append(s, x)[Len(s) + 1] = x
         /\ \A i \in 1 .. Len(s) : Append(s, x)[i] = s[i]
<1>1. /\ Append(s, x) \in Seq(S)
      /\ Len(Append(s, x)) = Len(s) + 1
      /\ Append(s, x)[Len(s) + 1] = x
      /\ \A i \in 1 .. Len(s) : Append(s, x)[i] = s[i]
  BY AppendProperties
<1>2. DOMAIN Append(s, x) = 1 .. Len(Append(s, x))
  BY <1>1
<1> QED
  BY <1>1, <1>2, Zenon

Take(q, pool, s, k) ==
  IF Len(s) < q.n /\ Pinnable(q, s, pool[k]) THEN Append(s, pool[k]) ELSE s

ChosenUpTo(q, pool, m, f) ==
  /\ f \in [0 .. m -> Seq(q.allowed)]
  /\ f[0] = <<>>
  /\ \A k \in 1 .. m : f[k] = Take(q, pool, f[k - 1], k)

LEMMA ChosenExists ==
  ASSUME NEW q, NEW pool \in Seq(q.allowed)
  PROVE  \E f : ChosenUpTo(q, pool, Len(pool), f)
<1> DEFINE T == {m \in 0 .. Len(pool) : \E f : ChosenUpTo(q, pool, m, f)}
           N == Len(pool)
<1>0. N \in Nat
  OBVIOUS
<1>1. 0 \in T
  <2>1. ChosenUpTo(q, pool, 0, [k \in 0 .. 0 |-> <<>>])
    BY DEF ChosenUpTo
  <2> QED
    BY <1>0, <2>1
<1>2. ASSUME NEW m \in 0 .. N - 1, m \in T
      PROVE  m + 1 \in T
  <2>1. PICK f : ChosenUpTo(q, pool, m, f)
    BY <1>2
  <2> DEFINE g == [k \in 0 .. m + 1 |-> IF k = m + 1 THEN Take(q, pool, f[m], m + 1) ELSE f[k]]
  <2>2. f \in [0 .. m -> Seq(q.allowed)] /\ f[0] = <<>>
    BY <2>1 DEF ChosenUpTo
  <2>3. pool[m + 1] \in q.allowed /\ f[m] \in Seq(q.allowed)
    BY <2>2
  <2>4. Take(q, pool, f[m], m + 1) \in Seq(q.allowed)
    BY <2>3, AppendProperties DEF Take
  <2>5. g \in [0 .. m + 1 -> Seq(q.allowed)]
    BY <2>2, <2>4
  <2>6. g[0] = <<>>
    BY <2>2
  <2>7. ASSUME NEW k \in 1 .. m + 1
        PROVE  g[k] = Take(q, pool, g[k - 1], k)
    <3>1. g[k - 1] = f[k - 1]
      OBVIOUS
    <3>2. CASE k = m + 1
      <4>1. g[k] = Take(q, pool, f[m], m + 1) /\ k - 1 = m
        BY <3>2
      <4> HIDE DEF g
      <4> QED
        BY <3>1, <3>2, <4>1
    <3>3. CASE k # m + 1
      <4>1. k \in 1 .. m /\ g[k] = f[k]
        BY <3>3
      <4> HIDE DEF g
      <4> QED
        BY <2>1, <3>1, <4>1 DEF ChosenUpTo
    <3> QED
      BY <3>2, <3>3
  <2> HIDE DEF g
  <2>8. ChosenUpTo(q, pool, m + 1, g)
    BY <2>5, <2>6, <2>7 DEF ChosenUpTo
  <2> QED
    BY <1>0, <2>8
<1>3. 0 .. N \subseteq T
  <2> HIDE DEF T, N
  <2> QED
    BY <1>0, <1>1, <1>2, BoundedInduction
<1> QED
  BY <1>0, <1>3

\* What the loop has kept true after k processors.
Spread(q, pool, s, k) ==
  /\ s \in Seq(q.allowed)
  /\ Len(s) <= q.n
  /\ \A a, b \in DOMAIN s :
       a # b => Physical(q.topology, s[a]) # Physical(q.topology, s[b])
  /\ q.avoidCpu0 =>
       \A a \in DOMAIN s : Physical(q.topology, s[a]) # Physical(q.topology, 0)
  /\ Len(s) < q.n => \A i \in 1 .. k :
       \/ q.avoidCpu0 /\ Physical(q.topology, pool[i]) = Physical(q.topology, 0)
       \/ \E a \in DOMAIN s : Physical(q.topology, s[a]) = Physical(q.topology, pool[i])

LEMMA TakeSpreads ==
  ASSUME NEW q, q.n \in Int, NEW pool \in Seq(q.allowed), NEW k \in 1 .. Len(pool),
         NEW s, Spread(q, pool, s, k - 1)
  PROVE  Spread(q, pool, Take(q, pool, s, k), k)
<1>1. pool[k] \in q.allowed /\ s \in Seq(q.allowed) /\ Len(s) \in Nat /\ DOMAIN s = 1 .. Len(s)
  BY DEF Spread
<1> DEFINE P(x) == Physical(q.topology, x)
           avoid == q.avoidCpu0
           t == Append(s, pool[k])
<1> HIDE DEF P, avoid
<1>a. Pinnable(q, s, pool[k]) <=>
        (\A a \in DOMAIN s : P(s[a]) # P(pool[k])) /\ ~(avoid /\ P(pool[k]) = P(0))
  BY DEF Pinnable, Range, P, avoid
<1>2. CASE Len(s) < q.n /\ Pinnable(q, s, pool[k])
  <2>1. /\ t \in Seq(q.allowed) /\ Len(t) = Len(s) + 1 /\ DOMAIN t = 1 .. Len(s) + 1
        /\ t[Len(s) + 1] = pool[k]
        /\ \A a \in 1 .. Len(s) : t[a] = s[a]
    <3> DEFINE x == pool[k]
               A == q.allowed
    <3>1. s \in Seq(A) /\ x \in A
      BY <1>1
    <3> HIDE DEF x, A
    <3>2. /\ Append(s, x) \in Seq(A)
          /\ Len(Append(s, x)) = Len(s) + 1
          /\ DOMAIN Append(s, x) = 1 .. Len(s) + 1
          /\ Append(s, x)[Len(s) + 1] = x
          /\ \A i \in 1 .. Len(s) : Append(s, x)[i] = s[i]
      BY <3>1, Appended
    <3> QED
      BY <3>2, Zenon DEF x, A
  <2> HIDE DEF t
  <2>2. Take(q, pool, s, k) = t
    BY <1>2 DEF Take, t
  <2>3. /\ \A a, b \in DOMAIN s : a # b => P(s[a]) # P(s[b])
        /\ avoid => \A a \in DOMAIN s : P(s[a]) # P(0)
        /\ \A i \in 1 .. k - 1 : \/ avoid /\ P(pool[i]) = P(0)
                                 \/ \E a \in DOMAIN s : P(s[a]) = P(pool[i])
    BY <1>2 DEF Spread, P, avoid
  <2>4. /\ \A a \in DOMAIN s : P(s[a]) # P(pool[k])
        /\ ~(avoid /\ P(pool[k]) = P(0))
    BY <1>2, <1>a
  <2>5. \A a \in DOMAIN t : \/ a = Len(s) + 1 /\ t[a] = pool[k]
                            \/ a \in DOMAIN s /\ t[a] = s[a]
    BY <1>1, <2>1
  <2>6. \A a, b \in DOMAIN t : a # b => P(t[a]) # P(t[b])
    BY <2>3, <2>4, <2>5
  <2>7. avoid => \A a \in DOMAIN t : P(t[a]) # P(0)
    BY <2>3, <2>4, <2>5
  <2>8. ASSUME NEW i \in 1 .. k
        PROVE  \/ avoid /\ P(pool[i]) = P(0)
               \/ \E a \in DOMAIN t : P(t[a]) = P(pool[i])
    <3>1. CASE i = k
      <4>1. Len(s) + 1 \in DOMAIN t
        BY <1>1, <2>1
      <4> QED
        BY <2>1, <3>1, <4>1
    <3>2. CASE i # k
      <4>1. i \in 1 .. k - 1
        BY <3>2
      <4>2. \A a \in DOMAIN s : a \in DOMAIN t /\ t[a] = s[a]
        BY <1>1, <2>1
      <4> QED
        BY <2>3, <4>1, <4>2
    <3> QED
      BY <3>1, <3>2
  <2>9. Len(t) <= q.n
    BY <1>1, <1>2, <2>1
  <2> QED
    BY <2>1, <2>2, <2>6, <2>7, <2>8, <2>9 DEF Spread, P, avoid
<1>3. CASE ~(Len(s) < q.n /\ Pinnable(q, s, pool[k]))
  <2>1. Take(q, pool, s, k) = s
    BY <1>3 DEF Take
  <2>2. ASSUME Len(s) < q.n, NEW i \in 1 .. k
        PROVE  \/ avoid /\ P(pool[i]) = P(0)
               \/ \E a \in DOMAIN s : P(s[a]) = P(pool[i])
    <3>1. CASE i = k
      BY <1>3, <1>a, <2>2, <3>1
    <3>2. CASE i # k
      <4>1. i \in 1 .. k - 1
        BY <3>2
      <4> QED
        BY <2>2, <4>1 DEF Spread, P, avoid
    <3> QED
      BY <3>1, <3>2
  <2> QED
    BY <2>1, <2>2 DEF Spread, P, avoid
<1> QED
  BY <1>2, <1>3

LEMMA AutomaticCpusSpread ==
  ASSUME NEW q, q.n \in Int, q.n > 0, q.allowed \in SUBSET Nat, IsFiniteSet(q.allowed)
  PROVE  \E s : /\ Spread(q, Ascending(q.allowed), s, Len(Ascending(q.allowed)))
                /\ AutomaticCpus(q) = IF Len(s) = q.n THEN s ELSE NoCpus
<1> DEFINE pool == Ascending(q.allowed)
           N == Len(pool)
           chosen[k \in 0 .. N] ==
             IF k = 0 THEN <<>>
             ELSE IF Len(chosen[k - 1]) < q.n /\ Pinnable(q, chosen[k - 1], pool[k])
             THEN Append(chosen[k - 1], pool[k]) ELSE chosen[k - 1]
           Step(f) == [k \in 0 .. N |->
             IF k = 0 THEN <<>>
             ELSE IF Len(f[k - 1]) < q.n /\ Pinnable(q, f[k - 1], pool[k])
             THEN Append(f[k - 1], pool[k]) ELSE f[k - 1]]
<1>1. AutomaticCpus(q) = IF Len(chosen[N]) = q.n THEN chosen[N] ELSE NoCpus
  BY DEF AutomaticCpus
<1>2. pool \in Seq(q.allowed)
  BY AscendingLists
<1> HIDE DEF pool
<1>3. N \in Nat
  BY <1>2
<1>4. \E f : f = Step(f)
  <2>1. PICK f : ChosenUpTo(q, pool, N, f)
    BY <1>2, ChosenExists
  <2>2. \A k \in 0 .. N : f[k] =
          IF k = 0 THEN <<>>
          ELSE IF Len(f[k - 1]) < q.n /\ Pinnable(q, f[k - 1], pool[k])
          THEN Append(f[k - 1], pool[k]) ELSE f[k - 1]
    <3>1. \A k \in 0 .. N : k = 0 \/ k \in 1 .. N
      BY <1>3
    <3> HIDE DEF N
    <3>2. /\ f[0] = <<>>
          /\ \A k \in 1 .. N : f[k] =
               IF Len(f[k - 1]) < q.n /\ Pinnable(q, f[k - 1], pool[k])
               THEN Append(f[k - 1], pool[k]) ELSE f[k - 1]
      BY <2>1, Zenon DEF ChosenUpTo, Take
    <3>3. \A k \in 1 .. N : k # 0
      BY <1>3
    <3> QED
      BY <3>1, <3>2, <3>3, Zenon
  <2>3. f = [k \in 0 .. N |-> f[k]]
    BY <2>1 DEF ChosenUpTo
  <2>4. f = Step(f)
    BY <2>2, <2>3, Zenon
  <2> QED
    BY <2>4
<1>5. chosen = Step(chosen)
  BY <1>4, Zenon
<1> HIDE DEF chosen
<1>6. /\ chosen[0] = <<>>
      /\ \A k \in 1 .. N : chosen[k] = Take(q, pool, chosen[k - 1], k)
  <2>1. 0 \in 0 .. N /\ \A k \in 1 .. N : k # 0 /\ k \in 0 .. N
    BY <1>3
  <2> HIDE DEF N
  <2>2. \A k \in 0 .. N : chosen[k] =
          IF k = 0 THEN <<>>
          ELSE IF Len(chosen[k - 1]) < q.n /\ Pinnable(q, chosen[k - 1], pool[k])
          THEN Append(chosen[k - 1], pool[k]) ELSE chosen[k - 1]
    BY <1>5, Zenon
  <2> QED
    BY <2>1, <2>2, Zenon DEF Take
<1> DEFINE T == {k \in 0 .. N : Spread(q, pool, chosen[k], k)}
<1>7. 0 \in T
  <2>1. Spread(q, pool, <<>>, 0)
    BY DEF Spread
  <2> QED
    BY <1>3, <1>6, <2>1
<1>8. ASSUME NEW k \in 0 .. N - 1, k \in T
      PROVE  k + 1 \in T
  <2>1. k + 1 \in 1 .. N /\ (k + 1) - 1 = k /\ Spread(q, pool, chosen[k], k)
    BY <1>3, <1>8
  <2>2. Spread(q, pool, Take(q, pool, chosen[k], k + 1), k + 1)
    BY <1>2, <2>1, TakeSpreads
  <2>3. chosen[k + 1] = Take(q, pool, chosen[k], k + 1)
    BY <1>6, <2>1
  <2> QED
    BY <1>3, <2>1, <2>2, <2>3
<1>9. 0 .. N \subseteq T
  <2> HIDE DEF T, N
  <2> QED
    BY <1>3, <1>7, <1>8, BoundedInduction
<1>10. Spread(q, pool, chosen[N], N)
  BY <1>3, <1>9
<1> QED
  BY <1>1, <1>10 DEF pool

\* What PlanAssumption says of a machine.
Machine(q) ==
  /\ q.allowed \in SUBSET Nat /\ IsFiniteSet(q.allowed) /\ q.n \in Int
  /\ q.named \in Seq(Nat)
  /\ \A a \in q.allowed \cup {0} : \A b \in Physical(q.topology, a) :
       Physical(q.topology, b) = Physical(q.topology, a)

LEMMA CoresApart ==
  ASSUME NEW q, Machine(q), NEW a \in q.allowed \cup {0}, NEW b \in q.allowed \cup {0},
         Physical(q.topology, a) # Physical(q.topology, b)
  PROVE  Physical(q.topology, a) \cap Physical(q.topology, b) = {}
BY DEF Machine

LEMMA PinsSound ==
  ASSUME NEW q, Machine(q)
  PROVE  PinsAreSound(q, SelectWorkerCpus(q))
<1> DEFINE P(x) == Physical(q.topology, x)
           avoid == q.avoidCpu0
           usable == {c \in Cores(q) : ~(avoid /\ 0 \in c)}
           pins == SelectWorkerCpus(q)
<1>0. /\ \A x : x \in P(x)
      /\ \A a, b \in q.allowed \cup {0} : P(a) # P(b) => P(a) \cap P(b) = {}
      /\ q.n \in Int
  BY CoresApart DEF Machine, Physical
<1>1. CASE q.n < 1
  <2>1. pins = NoCpus
    BY <1>1 DEF SelectWorkerCpus
  <2> QED
    BY <1>0, <1>1, <2>1 DEF PinsAreSound
<1>2. CASE ~(q.n < 1) /\ q.byName
  <2>1. pins = NamedCpus(q)
    BY <1>2 DEF SelectWorkerCpus
  <2>2. CASE pins = NoCpus
    BY <1>2, <2>2 DEF PinsAreSound
  <2>3. CASE pins # NoCpus
    <3>1. /\ pins = q.named
          /\ Range(pins) \subseteq q.allowed
          /\ \A a, b \in DOMAIN pins : a # b => P(pins[a]) # P(pins[b])
      BY <2>1, <2>3 DEF NamedCpus
    <3>2. \A a \in DOMAIN pins : pins[a] \in q.allowed
      BY <3>1 DEF Range
    <3> HIDE DEF P, pins
    <3>3. \A a, b \in DOMAIN pins : a # b => P(pins[a]) \cap P(pins[b]) = {}
      BY <1>0, <3>1, <3>2
    <3> QED
      BY <1>2, <2>3, <3>1, <3>3 DEF PinsAreSound, P, pins
  <2> QED
    BY <2>2, <2>3
<1>3. CASE ~(q.n < 1) /\ ~q.byName
  <2>1. pins = AutomaticCpus(q)
    BY <1>3 DEF SelectWorkerCpus
  <2>2. q.n > 0
    BY <1>0, <1>3
  <2> DEFINE pool == Ascending(q.allowed)
  <2>3. /\ pool \in Seq(q.allowed) /\ Range(pool) = q.allowed
    BY AscendingLists DEF Machine
  <2>4. PICK s : /\ Spread(q, pool, s, Len(pool))
                 /\ pins = IF Len(s) = q.n THEN s ELSE NoCpus
    BY <2>1, <2>2, AutomaticCpusSpread DEF Machine
  <2>5. /\ s \in Seq(q.allowed) /\ Len(s) \in Nat /\ DOMAIN s = 1 .. Len(s)
        /\ \A a \in DOMAIN s : s[a] \in q.allowed
    BY <2>4 DEF Spread
  <2> HIDE DEF P, avoid, pins, pool
  <2>6. CASE Len(s) = q.n
    <3>1. pins = s
      BY <2>4, <2>6
    <3>2. \A a, b \in DOMAIN s : a # b => P(s[a]) # P(s[b])
      BY <2>4 DEF Spread, P
    <3>3. \A a, b \in DOMAIN s : a # b => P(s[a]) \cap P(s[b]) = {}
      BY <1>0, <2>5, <3>2
    <3>4. Range(s) \subseteq q.allowed
      BY <2>5 DEF Range
    <3>5. ASSUME NEW a \in DOMAIN s
          PROVE  s[a] \in UNION usable
      <4>1. P(s[a]) \in Cores(q) /\ s[a] \in P(s[a])
        BY <1>0, <2>5 DEF Cores, P
      <4>2. ~(avoid /\ 0 \in P(s[a]))
        <5>1. avoid => P(s[a]) # P(0)
          BY <2>4 DEF Spread, P, avoid
        <5>2. 0 \in P(0) /\ s[a] \in q.allowed \cup {0} /\ 0 \in q.allowed \cup {0}
          BY <1>0, <2>5
        <5> QED
          BY <1>0, <5>1, <5>2
      <4> QED
        BY <4>1, <4>2
    <3>6. s # NoCpus
      BY <2>2, <2>6, <2>5 DEF NoCpus
    <3> HIDE DEF usable
    <3> QED
      BY <2>6, <3>1, <3>3, <3>4, <3>5, <3>6 DEF PinsAreSound, P, pins, usable, avoid
  <2>7. CASE Len(s) # q.n
    <3>1. pins = NoCpus
      BY <2>4, <2>7
    <3> DEFINE T == {P(s[a]) : a \in 1 .. Len(s)}
               f == [a \in 1 .. Len(s) |-> P(s[a])]
    <3>2. f \in Surjection(1 .. Len(s), T)
      BY DEF Surjection
    <3>3. IsFiniteSet(1 .. Len(s)) /\ Cardinality(1 .. Len(s)) = Len(s)
      <4> DEFINE n == Len(s)
      <4>1. n \in Nat /\ n \in Int /\ 1 \in Int
        BY <2>5
      <4> HIDE DEF n
      <4>2. IsFiniteSet(1 .. n) /\ Cardinality(1 .. n) = IF 1 > n THEN 0 ELSE n - 1 + 1
        BY <4>1, FS_Interval, Zenon
      <4>3. IsFiniteSet(1 .. n) /\ Cardinality(1 .. n) = n
        BY <4>1, <4>2
      <4> QED
        BY <4>3 DEF n
    <3>4. IsFiniteSet(T) /\ Cardinality(T) <= Len(s)
      <4> HIDE DEF f, T
      <4> QED
        BY <3>2, <3>3, FS_Surjection
    <3>5. Len(s) < q.n
      BY <1>0, <2>4, <2>5, <2>7 DEF Spread
    <3>6. usable \subseteq T
      <4> SUFFICES ASSUME NEW x \in q.allowed, ~(avoid /\ 0 \in P(x))
                   PROVE  P(x) \in T
        BY DEF Cores, P
      <4>1. PICK i \in 1 .. Len(pool) : pool[i] = x
        BY <2>3 DEF Range
      <4>2. \/ avoid /\ P(pool[i]) = P(0)
            \/ \E a \in DOMAIN s : P(s[a]) = P(pool[i])
        BY <2>4, <3>5 DEF Spread, P, avoid
      <4>3. 0 \in P(0)
        BY <1>0
      <4> QED
        BY <2>5, <4>1, <4>2, <4>3
    <3>7. usable \in SUBSET T
      BY <3>6
    <3>8. IsFiniteSet(usable) /\ Cardinality(usable) <= Cardinality(T)
      <4> HIDE DEF usable, T
      <4> QED
        BY <3>4, <3>7, FS_Subset
    <3>9. Cardinality(usable) < q.n
      <4>1. Cardinality(usable) \in Nat /\ Cardinality(T) \in Nat
        <5> HIDE DEF usable, T
        <5> QED
          BY <3>4, <3>8, FS_CardinalityType
      <4> HIDE DEF usable, T
      <4> QED
        BY <1>0, <2>5, <3>4, <3>5, <3>8, <4>1
    <3> HIDE DEF usable
    <3> QED
      BY <3>1, <3>9 DEF PinsAreSound, P, pins, usable, avoid
  <2> QED
    BY <2>6, <2>7
<1> QED
  BY <1>1, <1>2, <1>3

-----------------------------------------------------------------------------
(* Lists of jobs.                                                          *)

\* What PlanAssumption says of an index.
Index(index) ==
  /\ IsFiniteSet(index)
  /\ \A row \in index : row.nonce \in Int
  /\ \A r, s \in index : <<r.cell, r.nonce>> = <<s.cell, s.nonce>> \/ r.hash = s.hash => r = s

LEMMA JobFields ==
  ASSUME NEW row, NEW k, NEW s, NEW rep, NEW kind
  PROVE  LET a == Job(row, k, s, rep, kind) IN
         /\ a.cell = row.cell /\ a.nonce = row.nonce /\ a.kernel = k /\ a.sweeps = s
         /\ a.reads = Reads /\ a.rep = rep /\ a.kind = kind /\ a.variant = "timing"
         /\ a.seed = <<row.hash, k, s, Reads, "timing">>
BY DEF Job, SeedFor

LEMMA ArmJobsAreJobs ==
  ASSUME NEW rows, NEW depths, NEW kernels, NEW reps, NEW kind,
         NEW a \in ArmJobs(rows, depths, kernels, reps, kind)
  PROVE  /\ \E row \in rows : a = Job(row, a.kernel, a.sweeps, a.rep, a.kind)
         /\ a.kernel \in kernels /\ a.sweeps \in depths /\ a.rep \in 0 .. reps - 1
         /\ a.kind = kind
<1>1. PICK row \in rows, k \in kernels, s \in depths, rep \in 0 .. reps - 1 :
        a = Job(row, k, s, rep, kind)
  BY DEF ArmJobs
<1>2. a.kernel = k /\ a.sweeps = s /\ a.rep = rep /\ a.kind = kind
  BY <1>1 DEF Job, SeedFor
<1> QED
  BY <1>1, <1>2, Zenon

IsJob(a, index) == \E row \in index : a = Job(row, a.kernel, a.sweeps, a.rep, a.kind)

LEMMA JobOfPath ==
  ASSUME NEW index, Index(index), NEW a, NEW b, IsJob(a, index), IsJob(b, index)
  PROVE  /\ BaseName(a) = BaseName(b) => a = b
         /\ <<a.cell, a.nonce, a.kernel, a.sweeps>> = <<b.cell, b.nonce, b.kernel, b.sweeps>>
              <=> a.seed = b.seed
<1>1. PICK r \in index : a = Job(r, a.kernel, a.sweeps, a.rep, a.kind)
  BY Zenon DEF IsJob
<1>2. PICK s \in index : b = Job(s, b.kernel, b.sweeps, b.rep, b.kind)
  BY Zenon DEF IsJob
<1>3. /\ a.cell = r.cell /\ a.nonce = r.nonce
      /\ a.seed = <<r.hash, a.kernel, a.sweeps, Reads, "timing">>
  BY <1>1 DEF Job, SeedFor
<1>4. /\ b.cell = s.cell /\ b.nonce = s.nonce
      /\ b.seed = <<s.hash, b.kernel, b.sweeps, Reads, "timing">>
  BY <1>2 DEF Job, SeedFor
<1>5. <<r.cell, r.nonce>> = <<s.cell, s.nonce>> \/ r.hash = s.hash => r = s
  BY Zenon DEF Index
<1>6. ASSUME BaseName(a) = BaseName(b)
      PROVE  a = b
  <2>1. /\ a.cell = b.cell /\ a.nonce = b.nonce /\ a.kernel = b.kernel
        /\ a.sweeps = b.sweeps /\ a.kind = b.kind /\ a.rep = b.rep
    BY <1>6 DEF BaseName
  <2>2. r = s
    BY <1>3, <1>4, <1>5, <2>1
  <2> QED
    BY <1>1, <1>2, <2>1, <2>2, Zenon
<1>7. <<a.cell, a.nonce, a.kernel, a.sweeps>> = <<b.cell, b.nonce, b.kernel, b.sweeps>>
        <=> a.cell = b.cell /\ a.nonce = b.nonce /\ a.kernel = b.kernel /\ a.sweeps = b.sweeps
  OBVIOUS
<1>8. a.seed = b.seed <=> r.hash = s.hash /\ a.kernel = b.kernel /\ a.sweeps = b.sweeps
  BY <1>3, <1>4
<1>9. r = s => r.hash = s.hash /\ r.cell = s.cell /\ r.nonce = s.nonce
  OBVIOUS
<1>10. a.cell = b.cell /\ a.nonce = b.nonce <=> <<r.cell, r.nonce>> = <<s.cell, s.nonce>>
  BY <1>3, <1>4
<1> QED
  BY <1>5, <1>6, <1>7, <1>8, <1>9, <1>10, Zenon

LEMMA RowsOfAreRows ==
  ASSUME NEW q, NEW n
  PROVE  RowsOf(q, n) \subseteq q.index
BY DEF RowsOf, FirstRows

LEMMA ArmsAreOfIndex ==
  ASSUME NEW index, NEW rows \in SUBSET index, NEW depths, NEW kernels, NEW reps, NEW kind,
         NEW a \in ArmJobs(rows, depths, kernels, reps, kind)
  PROVE  IsJob(a, index)
BY ArmJobsAreJobs DEF IsJob

LEMMA CapturedAreOfIndex ==
  ASSUME NEW q, NEW a \in CapturedJobs(q)
  PROVE  IsJob(a, q.index)
<1> DEFINE rows == {row \in q.index : \E c \in q.captures : c.cell = row.cell /\ c.nonce = row.nonce}
<1>1. a \in ArmJobs(rows, Depths, CapturedKernels, 1, "timing")
  BY DEF CapturedJobs, NoJobs
<1>2. rows \in SUBSET q.index
  OBVIOUS
<1> HIDE DEF rows
<1> QED
  BY <1>1, <1>2, ArmsAreOfIndex

ListsOf(q) == [pilot |-> PilotJobs(q), campaign |-> CampaignJobs(q),
               subset |-> TimingSubsetJobs(q), captured |-> CapturedJobs(q)]

LEMMA ListedAreOfIndex ==
  ASSUME NEW q, NEW a \in PilotJobs(q) \cup CampaignJobs(q) \cup TimingSubsetJobs(q) \cup CapturedJobs(q)
  PROVE  IsJob(a, q.index)
<1>1. RowsOf(q, PilotModels) \in SUBSET q.index /\ RowsOf(q, CampaignModels) \in SUBSET q.index
      /\ RowsOf(q, 1) \in SUBSET q.index
  BY RowsOfAreRows
<1>2. a \in PilotJobs(q) => IsJob(a, q.index)
  BY <1>1, ArmsAreOfIndex DEF PilotJobs
<1>3. a \in CampaignJobs(q) => IsJob(a, q.index)
  BY <1>1, ArmsAreOfIndex DEF CampaignJobs
<1>4. a \in TimingSubsetJobs(q) => IsJob(a, q.index)
  BY <1>1, ArmsAreOfIndex DEF TimingSubsetJobs
<1> QED
  BY <1>2, <1>3, <1>4, CapturedAreOfIndex

LEMMA PathsDistinct ==
  ASSUME NEW q, Index(q.index)
  PROVE  PathsAreDistinct(ListsOf(q))
<1>1. ASSUME NEW list \in {PilotJobs(q), CampaignJobs(q) \cup TimingSubsetJobs(q), CapturedJobs(q)},
             NEW a \in list, NEW b \in list, BaseName(a) = BaseName(b)
      PROVE  a = b
  <2>1. IsJob(a, q.index) /\ IsJob(b, q.index)
    BY ListedAreOfIndex
  <2> QED
    BY <1>1, <2>1, JobOfPath
<1>2. /\ ListsOf(q).pilot = PilotJobs(q) /\ ListsOf(q).campaign = CampaignJobs(q)
      /\ ListsOf(q).subset = TimingSubsetJobs(q) /\ ListsOf(q).captured = CapturedJobs(q)
  BY DEF ListsOf
<1> QED
  <2> HIDE DEF ListsOf
  <2>1. PathsAreDistinct(ListsOf(q)) <=>
          \A list \in {PilotJobs(q), CampaignJobs(q) \cup TimingSubsetJobs(q), CapturedJobs(q)} :
            \A a, b \in list : BaseName(a) = BaseName(b) => a = b
    BY <1>2 DEF PathsAreDistinct
  <2> QED
    BY <1>1, <2>1, Zenon

LEMMA JobListed ==
  ASSUME NEW rows, NEW depths, NEW kernels, NEW reps, NEW kind,
         NEW row \in rows, NEW k \in kernels, NEW s \in depths, NEW rep \in 0 .. reps - 1
  PROVE  Job(row, k, s, rep, kind) \in ArmJobs(rows, depths, kernels, reps, kind)
BY DEF ArmJobs

LEMMA SubsetIsOfCampaign ==
  ASSUME NEW q, Index(q.index), NEW a \in TimingSubsetJobs(q)
  PROVE  \E b \in CampaignJobs(q) :
           <<a.cell, a.nonce, a.kernel, a.sweeps>> = <<b.cell, b.nonce, b.kernel, b.sweeps>>
<1>0. a \in ArmJobs(RowsOf(q, 1), Depths, ControlledKernels, 1, "timing-subset")
  BY DEF TimingSubsetJobs
<1>1. PICK row \in RowsOf(q, 1) : a = Job(row, a.kernel, a.sweeps, a.rep, a.kind)
  BY <1>0, ArmJobsAreJobs
<1>2. a.kernel \in ControlledKernels /\ a.sweeps \in Depths
  BY <1>0, ArmJobsAreJobs
<1>3. row \in RowsOf(q, CampaignModels)
  <2>1. PICK cell \in q.cells : row \in FirstRows(q.index, cell, 1)
    BY DEF RowsOf
  <2> DEFINE before == {r \in q.index : r.cell = cell /\ r.nonce < row.nonce}
  <2>2. row \in q.index /\ row.cell = cell /\ Cardinality(before) < 1
    BY <2>1 DEF FirstRows
  <2>3. Cardinality(before) \in Nat
    <3>1. before \in SUBSET q.index
      OBVIOUS
    <3>2. IsFiniteSet(before)
      BY <3>1, FS_Subset DEF Index
    <3> QED
      BY <3>2, FS_CardinalityType
  <2>4. Cardinality(before) < CampaignModels
    <3> HIDE DEF before
    <3> QED
      BY <2>2, <2>3, PlanAssumption
  <2>5. row \in FirstRows(q.index, cell, CampaignModels)
    BY <2>2, <2>4 DEF FirstRows
  <2> QED
    BY <2>5 DEF RowsOf
<1> DEFINE b == Job(row, a.kernel, a.sweeps, 0, "timing")
<1>4. b \in CampaignJobs(q)
  <2>1. 0 \in 0 .. 1 - 1
    OBVIOUS
  <2> QED
    BY <1>2, <1>3, <2>1, JobListed, Zenon DEF CampaignJobs
<1>5. /\ a.cell = row.cell /\ a.nonce = row.nonce
      /\ b.cell = row.cell /\ b.nonce = row.nonce /\ b.kernel = a.kernel /\ b.sweeps = a.sweeps
  <2> HIDE DEF b
  <2>1. a.cell = row.cell /\ a.nonce = row.nonce
    BY <1>1 DEF Job, SeedFor
  <2>2. b.cell = row.cell /\ b.nonce = row.nonce /\ b.kernel = a.kernel /\ b.sweeps = a.sweeps
    BY DEF b, Job, SeedFor
  <2> QED
    BY <2>1, <2>2
<1> HIDE DEF b
<1> QED
  BY <1>4, <1>5, Zenon

LEMMA SeedsOfArms ==
  ASSUME NEW q, Index(q.index)
  PROVE  SeedsAreOfArms(ListsOf(q))
<1>1. ASSUME NEW a \in PilotJobs(q) \cup CampaignJobs(q) \cup TimingSubsetJobs(q),
             NEW b \in PilotJobs(q) \cup CampaignJobs(q) \cup TimingSubsetJobs(q)
      PROVE  <<a.cell, a.nonce, a.kernel, a.sweeps>> = <<b.cell, b.nonce, b.kernel, b.sweeps>>
               <=> a.seed = b.seed
  <2>1. IsJob(a, q.index) /\ IsJob(b, q.index)
    BY ListedAreOfIndex
  <2> QED
    BY <2>1, JobOfPath
<1>2. /\ ListsOf(q).pilot = PilotJobs(q) /\ ListsOf(q).campaign = CampaignJobs(q)
      /\ ListsOf(q).subset = TimingSubsetJobs(q)
  BY DEF ListsOf
<1> QED
  <2>1. \A a \in TimingSubsetJobs(q) : \E b \in CampaignJobs(q) :
          <<a.cell, a.nonce, a.kernel, a.sweeps>> = <<b.cell, b.nonce, b.kernel, b.sweeps>>
    BY SubsetIsOfCampaign
  <2> HIDE DEF ListsOf
  <2> QED
    BY <1>1, <1>2, <2>1 DEF SeedsAreOfArms

LEMMA FirstRowsCount ==
  ASSUME NEW index, Index(index), NEW cell, NEW n \in Nat
  PROVE  LET models == Cardinality({row \in index : row.cell = cell}) IN
         /\ IsFiniteSet(FirstRows(index, cell, n))
         /\ models \in Nat
         /\ Cardinality(FirstRows(index, cell, n)) = IF n <= models THEN n ELSE models
<1> DEFINE S == {row \in index : row.cell = cell}
           key == [row \in S |-> row.nonce]
           first == {x \in S : Cardinality({y \in S : key[y] < key[x]}) < n}
<1>1. IsFiniteSet(S)
  <2>1. S \in SUBSET index
    OBVIOUS
  <2> QED
    BY <2>1, FS_Subset DEF Index
<1>2. key \in [S -> Int] /\ \A x, y \in S : key[x] = key[y] => x = y
  BY DEF Index
<1>3. /\ IsFiniteSet(first)
      /\ Cardinality(first) = IF n <= Cardinality(S) THEN n ELSE Cardinality(S)
  <2> HIDE DEF S, key
  <2> QED
    BY <1>1, <1>2, FirstOfRanks
<1>4. first = FirstRows(index, cell, n)
  <2>1. ASSUME NEW x \in S
        PROVE  {y \in S : key[y] < key[x]} = {r \in index : r.cell = cell /\ r.nonce < x.nonce}
    OBVIOUS
  <2>2. FirstRows(index, cell, n) =
          {x \in S : Cardinality({r \in index : r.cell = cell /\ r.nonce < x.nonce}) < n}
    BY DEF FirstRows
  <2> QED
    BY <2>1, <2>2
<1>5. Cardinality(S) \in Nat
  BY <1>1, FS_CardinalityType
<1> HIDE DEF first
<1> QED
  BY <1>3, <1>4, <1>5

\* The rows of a cell among those of the cells.
LEMMA RowsOfCell ==
  ASSUME NEW q, NEW n, NEW cell \in q.cells
  PROVE  {row \in RowsOf(q, n) : row.cell = cell} = FirstRows(q.index, cell, n)
<1>1. \A c \in q.cells : \A row \in FirstRows(q.index, c, n) : row.cell = c
  BY DEF FirstRows
<1>2. RowsOf(q, n) = UNION {FirstRows(q.index, c, n) : c \in q.cells}
  BY DEF RowsOf
<1>3. ASSUME NEW row \in FirstRows(q.index, cell, n)
      PROVE  row \in {r \in RowsOf(q, n) : r.cell = cell}
  BY <1>1, <1>2
<1>4. ASSUME NEW row \in RowsOf(q, n), row.cell = cell
      PROVE  row \in FirstRows(q.index, cell, n)
  <2>1. PICK c \in q.cells : row \in FirstRows(q.index, c, n)
    BY <1>2
  <2>2. c = cell
    BY <1>1, <1>4, <2>1
  <2> QED
    BY <2>1, <2>2
<1> QED
  BY <1>3, <1>4

LEMMA MinOfTwo ==
  ASSUME NEW a \in Int, NEW b \in Int
  PROVE  Min({a, b}) = IF a <= b THEN a ELSE b
<1> DEFINE m == IF a <= b THEN a ELSE b
<1>1. m \in {a, b} /\ \A y \in {a, b} : m <= y
  OBVIOUS
<1>2. \A x \in {a, b} : (\A y \in {a, b} : x <= y) => x = m
  OBVIOUS
<1> HIDE DEF m
<1>3. Min({a, b}) = m
  BY <1>1, <1>2 DEF Min
<1> QED
  BY <1>3 DEF m

LEMMA TimesIsMonotone ==
  ASSUME NEW a \in Int, NEW b \in Int, NEW r \in Nat
  PROVE  /\ a <= b => a * r <= b * r
         /\ a * r \in Int
<1>1. (b - a) * r = b * r - a * r
  OBVIOUS
<1>2. a <= b => (b - a) * r >= 0
  OBVIOUS
<1>3. a * r \in Int /\ b * r \in Int
  OBVIOUS
<1> QED
  BY <1>1, <1>2, <1>3

ArmOf(q, n, depths, reps, kind, cell, k, s) ==
  {a \in ArmJobs(RowsOf(q, n), depths, ControlledKernels, reps, kind) :
     a.cell = cell /\ a.kernel = k /\ a.sweeps = s}

ModelsOf(q, cell) == Cardinality({row \in q.index : row.cell = cell})

\* How many jobs an arm has.
LEMMA ArmCount ==
  ASSUME NEW q, Index(q.index), NEW n \in Nat, NEW depths, NEW reps \in Nat, NEW kind,
         NEW cell \in q.cells, NEW k \in ControlledKernels, NEW s \in depths
  PROVE  Cardinality(ArmOf(q, n, depths, reps, kind, cell, k, s))
           = Min({n * reps, ModelsOf(q, cell) * reps})
<1> DEFINE models == ModelsOf(q, cell)
           list == ArmJobs(RowsOf(q, n), depths, ControlledKernels, reps, kind)
           arm == {a \in list : a.cell = cell /\ a.kernel = k /\ a.sweeps = s}
           first == FirstRows(q.index, cell, n)
           Made(p) == Job(p[1], k, s, p[2], kind)
           f == [p \in first \X (0 .. reps - 1) |-> Made(p)]
<1>1. /\ IsFiniteSet(first) /\ models \in Nat
      /\ Cardinality(first) = IF n <= models THEN n ELSE models
  BY FirstRowsCount DEF ModelsOf
<1>2. first = {row \in RowsOf(q, n) : row.cell = cell}
  BY RowsOfCell
<1>3. first \subseteq q.index
  BY DEF FirstRows
<1>4. \A r, t \in first : <<r.cell, r.nonce>> = <<t.cell, t.nonce>> => r = t
  BY <1>3 DEF Index
<1>5. \A row \in first : row.cell = cell
  BY <1>2
<1> HIDE DEF first, models
<1>6. ASSUME NEW row \in first, NEW rep \in 0 .. reps - 1
      PROVE  /\ Made(<<row, rep>>) \in arm
             /\ Made(<<row, rep>>).nonce = row.nonce
             /\ Made(<<row, rep>>).rep = rep
  <2>1. Job(row, k, s, rep, kind) \in list
    <3>1. row \in RowsOf(q, n)
      BY <1>2
    <3> QED
      BY <3>1, JobListed, Zenon
  <2>2. LET a == Job(row, k, s, rep, kind) IN
        a.cell = cell /\ a.nonce = row.nonce /\ a.kernel = k /\ a.sweeps = s /\ a.rep = rep
    BY <1>5 DEF Job
  <2>3. Made(<<row, rep>>) = Job(row, k, s, rep, kind)
    OBVIOUS
  <2> HIDE DEF list, Made
  <2> QED
    BY <2>1, <2>2, <2>3
<1>7. ASSUME NEW a \in arm
      PROVE  \E row \in first, rep \in 0 .. reps - 1 : Made(<<row, rep>>) = a
  <2>1. PICK row \in RowsOf(q, n) : a = Job(row, a.kernel, a.sweeps, a.rep, a.kind)
    BY ArmJobsAreJobs
  <2>2. a.rep \in 0 .. reps - 1 /\ a.kind = kind /\ a.kernel = k /\ a.sweeps = s /\ a.cell = cell
    BY ArmJobsAreJobs
  <2>3. row.cell = a.cell
    BY <2>1 DEF Job
  <2>4. row \in first
    BY <1>2, <2>2, <2>3
  <2>5. Made(<<row, a.rep>>) = a
    <3>1. Made(<<row, a.rep>>) = Job(row, k, s, a.rep, kind)
      OBVIOUS
    <3> HIDE DEF Made
    <3> QED
      BY <2>1, <2>2, <3>1
  <2> HIDE DEF Made
  <2> QED
    BY <2>2, <2>4, <2>5
<1> HIDE DEF Made, arm
<1> DEFINE P == first \X (0 .. reps - 1)
<1>8. f \in [P -> arm] /\ \A row \in first, rep \in 0 .. reps - 1 : f[<<row, rep>>] = Made(<<row, rep>>)
  BY <1>6
<1>9. \A x, y \in P : f[x] = f[y] => x = y
  <2> SUFFICES ASSUME NEW r \in first, NEW i \in 0 .. reps - 1,
                      NEW t \in first, NEW j \in 0 .. reps - 1,
                      Made(<<r, i>>) = Made(<<t, j>>)
               PROVE  r = t /\ i = j
    BY <1>8
  <2>1. r.nonce = t.nonce /\ i = j
    BY <1>6
  <2> QED
    BY <1>4, <1>5, <2>1
<1>10. \A a \in arm : \E p \in P : f[p] = a
  <2> SUFFICES ASSUME NEW a \in arm PROVE \E p \in P : f[p] = a
    OBVIOUS
  <2>1. PICK row \in first, rep \in 0 .. reps - 1 : Made(<<row, rep>>) = a
    BY <1>7
  <2>2. <<row, rep>> \in P /\ f[<<row, rep>>] = a
    BY <1>8, <2>1
  <2> QED
    BY <2>2
<1> HIDE DEF f, P
<1>11. ExistsBijection(P, arm)
  BY <1>8, <1>9, <1>10 DEF ExistsBijection, Bijection, Injection, Surjection, IsInjective
<1>12. IsFiniteSet(P) /\ Cardinality(P) = Cardinality(first) * reps
  <2>1. IsFiniteSet(0 .. reps - 1) /\ Cardinality(0 .. reps - 1) = reps
    BY FS_Interval
  <2> QED
    BY <1>1, <2>1, FS_Product DEF P
<1>13. Cardinality(arm) = Cardinality(first) * reps
  BY <1>11, <1>12, FS_Bijection
<1>14. /\ n <= models => n * reps <= models * reps
       /\ models <= n => models * reps <= n * reps
       /\ n * reps \in Int /\ models * reps \in Int
  BY <1>1, TimesIsMonotone
<1>15. Min({n * reps, models * reps}) = IF n * reps <= models * reps THEN n * reps ELSE models * reps
  BY <1>14, MinOfTwo
<1>16. Cardinality(first) * reps = IF n * reps <= models * reps THEN n * reps ELSE models * reps
  <2>1. CASE n <= models
    BY <1>1, <1>14, <2>1
  <2>2. CASE ~(n <= models)
    <3>1. models <= n /\ Cardinality(first) = models
      BY <1>1, <2>2
    <3> DEFINE x == n * reps
               y == models * reps
    <3>2. y <= x /\ x \in Int /\ y \in Int
      BY <1>14, <3>1
    <3>3. Cardinality(first) * reps = y
      BY <3>1
    <3> HIDE DEF x, y
    <3>4. y = IF x <= y THEN x ELSE y
      BY <3>2
    <3> QED
      BY <3>3, <3>4 DEF x, y
  <2> QED
    BY <2>1, <2>2
<1> QED
  BY <1>13, <1>15, <1>16 DEF arm, models, ArmOf

LEMMA ArmsExpected ==
  ASSUME NEW q, Index(q.index)
  PROVE  ArmsAreAsExpected(q, ListsOf(q))
<1> SUFFICES ASSUME NEW cell \in q.cells, NEW k \in ControlledKernels,
                    NEW name \in {"pilot", "campaign"}
             PROVE  LET list == IF name = "pilot" THEN ListsOf(q).pilot ELSE ListsOf(q).campaign
                        depths == IF name = "pilot" THEN PilotDepths ELSE Depths
                        per == IF name = "pilot" THEN PilotReps ELSE 1
                        models == Cardinality({row \in q.index : row.cell = cell}) IN
                    \A s \in depths :
                      Cardinality({a \in list : a.cell = cell /\ a.kernel = k /\ a.sweeps = s})
                        = Min({ExpectedPerArm(name), models * per})
  BY Zenon DEF ArmsAreAsExpected
<1> DEFINE models == Cardinality({row \in q.index : row.cell = cell})
<1>0. PilotModels \in Nat /\ PilotReps \in Nat /\ CampaignModels \in Nat /\ 1 \in Nat
  BY PlanAssumption
<1>1. ListsOf(q).pilot = PilotJobs(q) /\ ListsOf(q).campaign = CampaignJobs(q)
  BY DEF ListsOf
<1>2. CASE name = "pilot"
  <2>1. ASSUME NEW s \in PilotDepths
        PROVE  Cardinality({a \in PilotJobs(q) : a.cell = cell /\ a.kernel = k /\ a.sweeps = s})
                 = Min({PilotModels * PilotReps, models * PilotReps})
    <3>1. Cardinality(ArmOf(q, PilotModels, PilotDepths, PilotReps, "timing", cell, k, s))
            = Min({PilotModels * PilotReps, ModelsOf(q, cell) * PilotReps})
      BY <1>0, ArmCount
    <3> QED
      BY <3>1, Zenon DEF PilotJobs, ArmOf, ModelsOf
  <2>2. ExpectedPerArm(name) = PilotModels * PilotReps
    BY <1>2 DEF ExpectedPerArm
  <2> QED
    BY <1>1, <1>2, <2>1, <2>2, Zenon
<1>3. CASE name = "campaign"
  <2>1. ASSUME NEW s \in Depths
        PROVE  Cardinality({a \in CampaignJobs(q) : a.cell = cell /\ a.kernel = k /\ a.sweeps = s})
                 = Min({CampaignModels * 1, models * 1})
    <3>1. Cardinality(ArmOf(q, CampaignModels, Depths, 1, "timing", cell, k, s))
            = Min({CampaignModels * 1, ModelsOf(q, cell) * 1})
      BY <1>0, ArmCount
    <3> QED
      BY <3>1, Zenon DEF CampaignJobs, ArmOf, ModelsOf
  <2>2. ExpectedPerArm(name) = CampaignModels
    BY <1>3 DEF ExpectedPerArm
  <2>3. CampaignModels * 1 = CampaignModels
    BY <1>0
  <2>4. name # "pilot"
    BY <1>3
  <2> QED
    BY <1>1, <2>1, <2>2, <2>3, <2>4, Zenon
<1> QED
  BY <1>2, <1>3

LEMMA KeysOfBuilds ==
  ASSUME NEW jobs
  PROVE  KeysAreOfBuilds(jobs, Builds)
<1> SUFFICES ASSUME NEW a \in jobs, NEW b \in jobs, NEW x \in Builds, NEW y \in Builds
             PROVE  RunKey(a, "root", x) = RunKey(b, "root", y)
                      <=> a = b /\ x.binaries = y.binaries /\ (a.kernel = NealKernel => x.neal = y.neal)
  BY Zenon DEF KeysAreOfBuilds
<1>1. RunKey(a, "root", x) = RunKey(b, "root", y) <=> a = b /\ JobIdentity(a, x) = JobIdentity(b, y)
  BY DEF RunKey
<1>2. \A z \in Builds : z.version = "1" /\ z.binaries \in {{"a"}, {"b"}}
  BY DEF Builds
<1>3. Cardinality({"a"}) = 1 /\ Cardinality({"b"}) = 1
  BY FS_Singleton
<1>4. \A z \in Builds : SolverIdentity(z) = [version |-> "1", neal |-> "any", binary |-> z.binaries]
  BY <1>2, <1>3 DEF SolverIdentity
<1>5. \A z \in Builds : JobIdentity(a, z) =
        [version |-> "1", neal |-> IF a.kernel = NealKernel THEN z.neal ELSE "any",
         binary |-> z.binaries]
  <2> SUFFICES ASSUME NEW z \in Builds
               PROVE  JobIdentity(a, z) =
                        [version |-> "1", neal |-> IF a.kernel = NealKernel THEN z.neal ELSE "any",
                         binary |-> z.binaries]
    OBVIOUS
  <2>1. SolverIdentity(z) = [version |-> "1", neal |-> "any", binary |-> z.binaries]
    BY <1>4
  <2> QED
    BY <2>1 DEF JobIdentity
<1>6. JobIdentity(a, x) = JobIdentity(a, y)
        <=> x.binaries = y.binaries /\ (a.kernel = NealKernel => x.neal = y.neal)
  BY <1>5
<1> QED
  BY <1>1, <1>6

LEMMA CapturedSame ==
  ASSUME NEW q, Index(q.index), CapturedJobs(q) # NoJobs
  PROVE  {<<c.cell, c.nonce, c.hash>> : c \in q.captures}
           = {<<a.cell, a.nonce, a.seed[1]>> : a \in CapturedJobs(q)}
<1> DEFINE rows == {row \in q.index : \E c \in q.captures : c.cell = row.cell /\ c.nonce = row.nonce}
<1>1. /\ \A c \in q.captures : \E row \in q.index :
           row.cell = c.cell /\ row.nonce = c.nonce /\ row.hash = c.hash
      /\ CapturedJobs(q) = ArmJobs(rows, Depths, CapturedKernels, 1, "timing")
  BY DEF CapturedJobs, NoJobs
<1>2. PICK z \in ArmJobs(rows, Depths, CapturedKernels, 1, "timing") : TRUE
  BY <1>1 DEF NoJobs
<1>3. z.sweeps \in Depths /\ z.kernel \in CapturedKernels
  <2> HIDE DEF rows
  <2> QED
    BY ArmJobsAreJobs
<1>4. ASSUME NEW c \in q.captures
      PROVE  \E a \in CapturedJobs(q) :
               <<c.cell, c.nonce, c.hash>> = <<a.cell, a.nonce, a.seed[1]>>
  <2>1. PICK row \in q.index : row.cell = c.cell /\ row.nonce = c.nonce /\ row.hash = c.hash
    BY <1>1
  <2>2. row \in rows
    BY <2>1
  <2> DEFINE a == Job(row, z.kernel, z.sweeps, 0, "timing")
  <2>3. a \in CapturedJobs(q)
    <3> HIDE DEF rows
    <3>1. 0 \in 0 .. 1 - 1
      OBVIOUS
    <3> QED
      BY <1>1, <1>3, <2>2, <3>1, JobListed, Zenon
  <2>4. a.cell = row.cell /\ a.nonce = row.nonce /\ a.seed[1] = row.hash
    BY DEF Job, SeedFor
  <2> HIDE DEF a
  <2> QED
    BY <2>1, <2>3, <2>4
<1>5. ASSUME NEW a \in CapturedJobs(q)
      PROVE  \E c \in q.captures :
               <<c.cell, c.nonce, c.hash>> = <<a.cell, a.nonce, a.seed[1]>>
  <2>1. PICK row \in rows : a = Job(row, a.kernel, a.sweeps, a.rep, a.kind)
    <3> HIDE DEF rows
    <3> QED
      BY <1>1, ArmJobsAreJobs
  <2>2. PICK c \in q.captures : c.cell = row.cell /\ c.nonce = row.nonce
    OBVIOUS
  <2>3. PICK r \in q.index : r.cell = c.cell /\ r.nonce = c.nonce /\ r.hash = c.hash
    BY <1>1
  <2>4. r = row
    BY <2>2, <2>3 DEF Index
  <2>5. a.cell = row.cell /\ a.nonce = row.nonce /\ a.seed[1] = row.hash
    BY <2>1 DEF Job, SeedFor
  <2> QED
    BY <2>2, <2>3, <2>4, <2>5
<1> QED
  BY <1>4, <1>5

PlanInv ==
  \E q \in PlanRequests :
    \/ plan = [made |-> FALSE, request |-> q]
    \/ plan = [made |-> TRUE, request |-> q, decision |-> Decide(q)]

LEMMA DecisionIsSound ==
  ASSUME NEW q \in PlanRequests, plan = [made |-> TRUE, request |-> q, decision |-> Decide(q)]
  PROVE  PlanIsSound
<1>1. plan.request = q /\ plan.decision = Decide(q)
  OBVIOUS
<1>2. CASE q.about = "cpus"
  <2>1. Decide(q) = SelectWorkerCpus(q)
    BY <1>2 DEF Decide
  <2>2. Machine(q)
    BY <1>2, PlanAssumption DEF Machine
  <2>3. PinsAreSound(q, Decide(q))
    BY <2>1, <2>2, PinsSound
  <2> QED
    BY <1>1, <1>2, <2>3, Zenon DEF PlanIsSound
<1>3. CASE q.about # "cpus"
  <2>1. q.about = "lists" /\ Index(q.index)
    BY <1>3, PlanAssumption DEF Index
  <2>2. Decide(q) = ListsOf(q)
    BY <2>1 DEF Decide, ListsOf
  <2>3. ListsOf(q).captured = CapturedJobs(q)
    BY DEF ListsOf
  <2>4. ListsOf(q).captured # NoJobs =>
          {<<c.cell, c.nonce, c.hash>> : c \in q.captures}
            = {<<a.cell, a.nonce, a.seed[1]>> : a \in ListsOf(q).captured}
    <3> HIDE DEF ListsOf
    <3> QED
      BY <2>1, <2>3, CapturedSame
  <2>5. PathsAreDistinct(ListsOf(q)) /\ SeedsAreOfArms(ListsOf(q)) /\ ArmsAreAsExpected(q, ListsOf(q))
    BY <2>1, PathsDistinct, SeedsOfArms, ArmsExpected
  <2>6. KeysAreOfBuilds(IF ListsOf(q).captured = NoJobs THEN ListsOf(q).subset
                        ELSE ListsOf(q).captured, Builds)
    BY KeysOfBuilds
  <2> QED
    BY <1>1, <1>3, <2>2, <2>4, <2>5, <2>6, Zenon DEF PlanIsSound
<1> QED
  BY <1>2, <1>3

\* Whatever machine, index and captures a campaign is planned for, the plan is
\* sound: select_worker_cpus never gives two workers one core and refuses only
\* when there are not enough, no two jobs share a path, jobs share a seed where
\* they share an arm and a model, the report expects the jobs that were planned,
\* and a key names the build (round2_runner.py 197-263, 416-600).
THEOREM PlanIsAlwaysSound == PlanSpec => []PlanIsSound
<1>1. PlanInit => PlanInv
  BY DEF PlanInit, PlanInv
<1>2. PlanInv /\ [MakePlan]_plan => PlanInv'
  <2> SUFFICES ASSUME PlanInv, [MakePlan]_plan
               PROVE  PlanInv'
    OBVIOUS
  <2>1. CASE MakePlan
    <3>1. PICK q \in PlanRequests : plan.request = q
      BY DEF PlanInv
    <3>2. plan' = [made |-> TRUE, request |-> q, decision |-> Decide(q)]
      BY <2>1, <3>1 DEF MakePlan
    <3> QED
      BY <3>2 DEF PlanInv
  <2>2. CASE UNCHANGED plan
    BY <2>2 DEF PlanInv
  <2> QED
    BY <2>1, <2>2
<1>3. PlanInv => PlanIsSound
  <2> SUFFICES ASSUME PlanInv PROVE PlanIsSound
    OBVIOUS
  <2>1. PICK q \in PlanRequests :
          \/ plan = [made |-> FALSE, request |-> q]
          \/ plan = [made |-> TRUE, request |-> q, decision |-> Decide(q)]
    BY DEF PlanInv
  <2>2. CASE plan = [made |-> FALSE, request |-> q]
    <3>1. ~plan.made
      BY <2>2
    <3> QED
      BY <3>1, Zenon DEF PlanIsSound
  <2>3. CASE plan = [made |-> TRUE, request |-> q, decision |-> Decide(q)]
    BY <2>3, DecisionIsSound, Zenon
  <2> QED
    BY <2>1, <2>2, <2>3
<1> QED
  BY <1>1, <1>2, <1>3, PTL DEF PlanSpec

-----------------------------------------------------------------------------
(* A measured job: sums over the couplings of a model.                     *)

LEMMA SumOfOnes ==
  ASSUME NEW S, IsFiniteSet(S), NEW f, NEW c \in Int, \A x \in S : f[x] = c
  PROVE  SumFunctionOnSet(f, S) = c * Cardinality(S)
<1> DEFINE T == {s \in SUBSET S : SumFunctionOnSet(f, s) = c * Cardinality(s)}
<1>1. {} \in T
  <2>1. SumFunctionOnSet(f, {}) = 0 /\ Cardinality({}) = 0
    BY SumOfNothing, FS_EmptySet
  <2> QED
    BY <2>1
<1>2. ASSUME NEW s \in SUBSET S, NEW x \in S \ s, s \in T
      PROVE  s \cup {x} \in T
  <2>1. IsFiniteSet(s) /\ Cardinality(s) \in Nat
    BY SubsetsAreFinite, FS_CardinalityType
  <2>2. (\A y \in s : f[y] \in Int) /\ x \notin s /\ f[x] \in Int /\ f[x] = c
    OBVIOUS
  <2>3. SumFunctionOnSet(f, s \cup {x}) = f[x] + SumFunctionOnSet(f, s)
    BY <2>1, <2>2, SumAdjoin
  <2>4. Cardinality(s \cup {x}) = Cardinality(s) + 1
    BY <2>1, <2>2, FS_AddElement
  <2>5. SumFunctionOnSet(f, s) = c * Cardinality(s)
    BY <1>2
  <2>6. c * (Cardinality(s) + 1) = c + c * Cardinality(s)
    BY <2>1
  <2>7. SumFunctionOnSet(f, s \cup {x}) = c * Cardinality(s \cup {x})
    BY <2>2, <2>3, <2>4, <2>5, <2>6
  <2>8. s \cup {x} \in SUBSET S
    OBVIOUS
  <2> QED
    BY <2>7, <2>8
<1>3. \A s \in SUBSET S : \A x \in S \ s : s \in T => s \cup {x} \in T
  BY <1>2
<1>4. S \in T
  <2> HIDE DEF T
  <2> QED
    BY <1>1, <1>3, SetInduction
<1> QED
  BY <1>4

\* The sum of F along a sequence of its arguments.
Along(F, s) == SumFunctionOnSet([i \in 1 .. Len(s) |-> F[s[i]]], 1 .. Len(s))

\* A sum along two sequences put together.
LEMMA SumOfConcat ==
  ASSUME NEW V, NEW a \in Seq(V), NEW b \in Seq(V), NEW F \in [V -> Int], NEW c \in Int,
         \A i \in 1 .. Len(b) : F[b[i]] = c
  PROVE  Along(F, a \o b) = Along(F, a) + c * Len(b)
<1> DEFINE L == Len(a)
           M == Len(b)
           s == a \o b
           G == [i \in 1 .. Len(s) |-> F[s[i]]]
           H == [i \in 1 .. L |-> F[a[i]]]
<1>1. /\ L \in Nat /\ M \in Nat /\ s \in Seq(V) /\ Len(s) = L + M
      /\ \A i \in 1 .. L + M : s[i] = IF i <= L THEN a[i] ELSE b[i - L]
  BY ConcatProperties
<1> HIDE DEF s
<1>2. /\ \A i \in 1 .. L : a[i] \in V /\ F[a[i]] \in Int
      /\ \A i \in 1 .. L + M : s[i] \in V /\ F[s[i]] \in Int
  BY <1>1
<1>3. \A i \in 1 .. L : G[i] = H[i] /\ G[i] \in Int
  BY <1>1, <1>2
<1>4. \A i \in L + 1 .. L + M : G[i] = c
  <2> SUFFICES ASSUME NEW i \in L + 1 .. L + M
               PROVE  G[i] = c
    OBVIOUS
  <2>1. i \in 1 .. L + M /\ ~(i <= L) /\ i - L \in 1 .. M
    BY <1>1
  <2>2. s[i] = b[i - L]
    BY <1>1, <2>1
  <2>3. F[b[i - L]] = c
    BY <2>1
  <2> QED
    BY <1>1, <2>1, <2>2, <2>3
<1>5. /\ IsFiniteSet(1 .. L) /\ IsFiniteSet(L + 1 .. L + M)
      /\ Cardinality(L + 1 .. L + M) = M
  <2>1. L \in Int /\ L + 1 \in Int /\ L + M \in Int /\ 1 \in Int /\ M \in Nat
    BY <1>1
  <2> HIDE DEF L, M
  <2>2. IsFiniteSet(1 .. L) /\ IsFiniteSet(L + 1 .. L + M)
    BY <2>1, FS_Interval
  <2>3. Cardinality(L + 1 .. L + M) = IF L + 1 > L + M THEN 0 ELSE (L + M) - (L + 1) + 1
    BY <2>1, FS_Interval
  <2> QED
    BY <2>1, <2>2, <2>3
<1>6. /\ 1 .. Len(s) = (1 .. L) \cup (L + 1 .. L + M)
      /\ (1 .. L) \cap (L + 1 .. L + M) = {}
  BY <1>1
<1> HIDE DEF G, H, L, M
<1>7. \A i \in (1 .. L) \cup (L + 1 .. L + M) : G[i] \in Int
  BY <1>3, <1>4
<1>8. SumFunctionOnSet(G, (1 .. L) \cup (L + 1 .. L + M))
        = SumFunctionOnSet(G, 1 .. L) + SumFunctionOnSet(G, L + 1 .. L + M)
  BY <1>5, <1>6, <1>7, SumUnion
<1>9. SumFunctionOnSet(G, 1 .. L) = SumFunctionOnSet(H, 1 .. L)
  BY <1>3, <1>5, SumSame
<1>10. SumFunctionOnSet(G, L + 1 .. L + M) = c * M
  BY <1>4, <1>5, SumOfOnes
<1> QED
  BY <1>6, <1>8, <1>9, <1>10 DEF G, H, L, M, s, Along

-----------------------------------------------------------------------------
(* Repeated edges.                                                         *)

CopyCount(q, k) == Magnitude(q.model.j[k]) \div CubicUnit

\* The edges up to k, each once for every half unit of its coupling.
CopiesUpTo(q, m, f) ==
  /\ f \in [0 .. m -> Seq(1 .. Len(q.model.j))]
  /\ f[0] = <<>>
  /\ \A k \in 1 .. m : f[k] = f[k - 1] \o Copies(q, k)

LEMMA CopiesOfEdge ==
  ASSUME NEW q, q.model.j \in Seq(Int), NEW k \in 1 .. Len(q.model.j)
  PROVE  /\ CopyCount(q, k) \in Nat
         /\ Copies(q, k) \in Seq(1 .. Len(q.model.j))
         /\ Len(Copies(q, k)) = CopyCount(q, k)
         /\ \A i \in 1 .. Len(Copies(q, k)) : Copies(q, k)[i] = k
<1>1. q.model.j[k] \in Int
  OBVIOUS
<1>2. Magnitude(q.model.j[k]) \in Nat
  BY <1>1 DEF Magnitude
<1>3. CopyCount(q, k) \in Nat
  BY <1>2 DEF CopyCount, CubicUnit
<1>4. Copies(q, k) = [i \in 1 .. CopyCount(q, k) |-> k]
  BY DEF Copies, CopyCount
<1> QED
  BY <1>3, <1>4

LEMMA CopiesExist ==
  ASSUME NEW q, q.model.j \in Seq(Int)
  PROVE  \E f : CopiesUpTo(q, Len(q.model.j), f)
<1> DEFINE N == Len(q.model.j)
           T == {m \in 0 .. N : \E f : CopiesUpTo(q, m, f)}
<1>0. N \in Nat
  OBVIOUS
<1>1. 0 \in T
  <2>1. CopiesUpTo(q, 0, [k \in 0 .. 0 |-> <<>>])
    BY DEF CopiesUpTo
  <2> QED
    BY <1>0, <2>1
<1>2. ASSUME NEW m \in 0 .. N - 1, m \in T
      PROVE  m + 1 \in T
  <2>1. PICK f : CopiesUpTo(q, m, f)
    BY <1>2
  <2> DEFINE g == [k \in 0 .. m + 1 |-> IF k = m + 1 THEN f[m] \o Copies(q, m + 1) ELSE f[k]]
  <2>2. f \in [0 .. m -> Seq(1 .. N)] /\ f[0] = <<>>
    BY <2>1 DEF CopiesUpTo
  <2>3. f[m] \in Seq(1 .. N) /\ m + 1 \in 1 .. N
    BY <1>0, <2>2
  <2>4. Copies(q, m + 1) \in Seq(1 .. N)
    BY <2>3, CopiesOfEdge
  <2>5. f[m] \o Copies(q, m + 1) \in Seq(1 .. N)
    BY <2>3, <2>4, ConcatProperties
  <2>6. g \in [0 .. m + 1 -> Seq(1 .. N)]
    <3>1. \A k \in 0 .. m + 1 : k = m + 1 \/ k \in 0 .. m
      OBVIOUS
    <3>2. \A k \in 0 .. m : f[k] \in Seq(1 .. N)
      BY <2>2
    <3>3. \A k \in 0 .. m + 1 :
            (IF k = m + 1 THEN f[m] \o Copies(q, m + 1) ELSE f[k]) \in Seq(1 .. N)
      BY <2>5, <3>1, <3>2, Zenon
    <3> QED
      BY <3>3, Zenon
  <2>7. \A k \in 0 .. m + 1 : g[k] = IF k = m + 1 THEN f[m] \o Copies(q, m + 1) ELSE f[k]
    BY Zenon
  <2> HIDE DEF g
  <2>8. g[0] = <<>>
    <3>1. 0 \in 0 .. m + 1 /\ 0 # m + 1
      BY <1>0
    <3> QED
      BY <2>2, <2>7, <3>1, Zenon
  <2>9. ASSUME NEW k \in 1 .. m + 1
        PROVE  g[k] = g[k - 1] \o Copies(q, k)
    <3>1. k - 1 \in 0 .. m + 1 /\ k - 1 # m + 1 /\ k \in 0 .. m + 1
      BY <1>0
    <3>2. g[k - 1] = f[k - 1]
      BY <2>7, <3>1, Zenon
    <3>3. CASE k = m + 1
      <4>1. k - 1 = m
        BY <1>0, <3>3
      <4>2. g[k] = f[m] \o Copies(q, m + 1)
        BY <2>7, <3>1, <3>3, Zenon
      <4> QED
        BY <3>2, <3>3, <4>1, <4>2, Zenon
    <3>4. CASE k # m + 1
      <4>1. k \in 1 .. m
        BY <1>0, <3>4
      <4>2. g[k] = f[k]
        BY <2>7, <3>1, <3>4, Zenon
      <4> QED
        BY <2>1, <3>2, <4>1, <4>2 DEF CopiesUpTo
    <3> QED
      BY <3>3, <3>4
  <2>10. CopiesUpTo(q, m + 1, g)
    BY <2>6, <2>8, <2>9 DEF CopiesUpTo
  <2> QED
    BY <1>0, <2>10
<1>3. 0 .. N \subseteq T
  <2> HIDE DEF T, N
  <2>1. 0 \in Int /\ N \in Int
    BY <1>0
  <2> QED
    BY <1>1, <1>2, <2>1, BoundedInduction, Zenon
<1> QED
  BY <1>0, <1>3

LEMMA CopiesAreUpTo ==
  ASSUME NEW q, q.model.j \in Seq(Int)
  PROVE  \E f : CopiesUpTo(q, Len(q.model.j), f) /\ CopiesOf(q) = f[Len(q.model.j)]
<1> DEFINE N == Len(q.model.j)
           copies[k \in 0 .. N] == IF k = 0 THEN <<>> ELSE copies[k - 1] \o Copies(q, k)
           Step(f) == [k \in 0 .. N |-> IF k = 0 THEN <<>> ELSE f[k - 1] \o Copies(q, k)]
<1>0. N \in Nat
  OBVIOUS
<1>1. CopiesOf(q) = copies[N]
  BY DEF CopiesOf
<1>2. PICK f : CopiesUpTo(q, N, f)
  BY CopiesExist
<1>3. \A k \in 0 .. N : k = 0 \/ (k \in 1 .. N /\ k # 0 /\ k - 1 \in 0 .. N)
  BY <1>0
<1>4. f = Step(f)
  <2>1. \A k \in 0 .. N : f[k] = IF k = 0 THEN <<>> ELSE f[k - 1] \o Copies(q, k)
    BY <1>2, <1>3, Zenon DEF CopiesUpTo
  <2>2. f = [k \in 0 .. N |-> f[k]]
    BY <1>2 DEF CopiesUpTo
  <2> QED
    BY <2>1, <2>2, Zenon
<1>5. copies = Step(copies)
  BY <1>4, Zenon
<1> HIDE DEF copies
<1>6. \A k \in 0 .. N : copies[k] = IF k = 0 THEN <<>> ELSE copies[k - 1] \o Copies(q, k)
  BY <1>5, Zenon
<1>7. \A k \in 0 .. N : copies[k] = f[k]
  <2> DEFINE T == {k \in 0 .. N : copies[k] = f[k]}
  <2>1. 0 \in T
    BY <1>0, <1>2, <1>6 DEF CopiesUpTo
  <2>2. ASSUME NEW k \in 0 .. N - 1, k \in T
        PROVE  k + 1 \in T
    <3>1. k + 1 \in 0 .. N /\ k + 1 # 0 /\ (k + 1) - 1 = k /\ k + 1 \in 1 .. N
      BY <1>0
    <3>2. copies[k + 1] = copies[k] \o Copies(q, k + 1)
      BY <1>6, <3>1
    <3>3. f[k + 1] = f[k] \o Copies(q, k + 1)
      BY <1>2, <3>1 DEF CopiesUpTo
    <3> QED
      BY <2>2, <3>1, <3>2, <3>3
  <2>3. 0 .. N \subseteq T
    <3> HIDE DEF T, N
    <3>1. 0 \in Int /\ N \in Int
      BY <1>0
    <3> QED
      BY <2>1, <2>2, <3>1, BoundedInduction, Zenon
  <2> QED
    BY <2>3
<1>8. copies[N] = f[N]
  BY <1>0, <1>7
<1> QED
  BY <1>1, <1>2, <1>8

\* A sum over the copies is a sum over the edges, each with its weight.
LEMMA SumOfCopies ==
  ASSUME NEW q, q.model.j \in Seq(Int), NEW F \in [1 .. Len(q.model.j) -> Int]
  PROVE  LET order == CopiesOf(q)
             N == Len(q.model.j) IN
         /\ order \in Seq(1 .. N)
         /\ Along(F, order) = SumFunctionOnSet([k \in 1 .. N |-> CopyCount(q, k) * F[k]], 1 .. N)
<1> DEFINE N == Len(q.model.j)
           W == [k \in 1 .. N |-> CopyCount(q, k) * F[k]]
<1>0. N \in Nat
  OBVIOUS
<1>1. PICK f : CopiesUpTo(q, N, f) /\ CopiesOf(q) = f[N]
  BY CopiesAreUpTo
<1>2. \A k \in 0 .. N : f[k] \in Seq(1 .. N)
  BY <1>1 DEF CopiesUpTo
<1>3. \A k \in 1 .. N : W[k] = F[k] * CopyCount(q, k) /\ W[k] \in Int
  <2> SUFFICES ASSUME NEW k \in 1 .. N PROVE W[k] = F[k] * CopyCount(q, k) /\ W[k] \in Int
    OBVIOUS
  <2>1. CopyCount(q, k) \in Nat
    BY CopiesOfEdge
  <2>2. F[k] \in Int
    OBVIOUS
  <2>3. W[k] = CopyCount(q, k) * F[k]
    OBVIOUS
  <2> HIDE DEF W
  <2>4. CopyCount(q, k) * F[k] = F[k] * CopyCount(q, k) /\ CopyCount(q, k) * F[k] \in Int
    BY <2>1, <2>2
  <2> QED
    BY <2>3, <2>4
<1> HIDE DEF W
<1> DEFINE T == {k \in 0 .. N : Along(F, f[k]) = SumFunctionOnSet(W, 1 .. k)}
<1>4. 0 \in T
  <2>1. f[0] = <<>>
    BY <1>1 DEF CopiesUpTo
  <2>2. Along(F, <<>>) = 0
    <3>1. 1 .. Len(<<>>) = {}
      OBVIOUS
    <3> QED
      BY <3>1, SumOfNothing, Zenon DEF Along
  <2>3. 1 .. 0 = {}
    OBVIOUS
  <2>4. SumFunctionOnSet(W, 1 .. 0) = 0
    BY <2>3, SumOfNothing
  <2> QED
    BY <1>0, <2>1, <2>2, <2>4
<1>5. ASSUME NEW k \in 0 .. N - 1, k \in T
      PROVE  k + 1 \in T
  <2>1. k + 1 \in 1 .. N /\ (k + 1) - 1 = k /\ k \in Nat
    BY <1>0
  <2>2. f[k + 1] = f[k] \o Copies(q, k + 1)
    BY <1>1, <2>1 DEF CopiesUpTo
  <2>3. /\ Copies(q, k + 1) \in Seq(1 .. N)
        /\ Len(Copies(q, k + 1)) = CopyCount(q, k + 1)
        /\ \A i \in 1 .. Len(Copies(q, k + 1)) : F[Copies(q, k + 1)[i]] = F[k + 1]
    BY <2>1, CopiesOfEdge
  <2>4. F[k + 1] \in Int /\ f[k] \in Seq(1 .. N)
    <3>1. k \in 0 .. N
      BY <1>0
    <3> QED
      BY <1>2, <2>1, <3>1, Zenon
  <2>5. Along(F, f[k] \o Copies(q, k + 1)) = Along(F, f[k]) + F[k + 1] * Len(Copies(q, k + 1))
    <3> DEFINE b == Copies(q, k + 1)
               a == f[k]
    <3>1. /\ a \in Seq(1 .. N) /\ b \in Seq(1 .. N)
          /\ \A i \in 1 .. Len(b) : F[b[i]] = F[k + 1]
      BY <2>3, <2>4
    <3> HIDE DEF a, b
    <3>3. Along(F, a \o b) = Along(F, a) + F[k + 1] * Len(b)
      BY <2>4, <3>1, SumOfConcat
    <3> QED
      BY <3>3 DEF a, b
  <2>6. SumFunctionOnSet(W, (1 .. k) \cup {k + 1}) = W[k + 1] + SumFunctionOnSet(W, 1 .. k)
    <3>1. IsFiniteSet(1 .. k)
      BY <2>1, FS_Interval
    <3>2. (\A y \in 1 .. k : W[y] \in Int) /\ k + 1 \notin 1 .. k /\ W[k + 1] \in Int
      BY <1>0, <1>3, <2>1
    <3> QED
      BY <3>1, <3>2, SumAdjoin
  <2>7. (1 .. k) \cup {k + 1} = 1 .. k + 1
    BY <2>1
  <2>8. W[k + 1] = F[k + 1] * Len(Copies(q, k + 1)) /\ W[k + 1] \in Int
    BY <1>3, <2>1, <2>3
  <2>9. SumFunctionOnSet(W, 1 .. k) \in Int
    <3>1. IsFiniteSet(1 .. k)
      BY <2>1, FS_Interval
    <3>2. \A y \in 1 .. k : W[y] \in Int
      BY <1>0, <1>3, <2>1
    <3> QED
      BY <3>1, <3>2, SumType
  <2>10. Along(F, f[k]) = SumFunctionOnSet(W, 1 .. k)
    BY <1>5
  <2>11. Along(F, f[k + 1]) = SumFunctionOnSet(W, 1 .. k + 1)
    <3>1. Along(F, f[k + 1]) = SumFunctionOnSet(W, 1 .. k) + W[k + 1]
      BY <2>2, <2>5, <2>8, <2>10, Zenon
    <3>2. SumFunctionOnSet(W, 1 .. k + 1) = W[k + 1] + SumFunctionOnSet(W, 1 .. k)
      BY <2>6, <2>7
    <3> QED
      BY <2>8, <2>9, <3>1, <3>2
  <2> QED
    BY <1>0, <2>1, <2>11
<1>51. \A k \in 0 .. N - 1 : k \in T => k + 1 \in T
  BY <1>5
<1>6. 0 .. N \subseteq T
  <2>1. 0 \in Int /\ N \in Int
    BY <1>0
  <2> HIDE DEF T, N
  <2> QED
    BY <1>4, <1>51, <2>1, BoundedInduction
<1>7. Along(F, f[N]) = SumFunctionOnSet(W, 1 .. N) /\ f[N] \in Seq(1 .. N)
  <2>1. N \in 0 .. N
    BY <1>0
  <2> QED
    BY <1>2, <1>6, <2>1, Zenon
<1> QED
  BY <1>1, <1>7 DEF Along, W

-----------------------------------------------------------------------------
(* Energies.                                                               *)

ModelIsSound(m) ==
  /\ IsFiniteSet(DOMAIN m.h) /\ m.h \in [DOMAIN m.h -> Int]
  /\ m.edges \in Seq((DOMAIN m.h) \X (DOMAIN m.h))
  /\ m.j \in Seq(Int) /\ Len(m.j) = Len(m.edges)

Pull(m, s) == [v \in DOMAIN m.h |-> m.h[v] * s[v]]
Spins(m, s, k) == s[m.edges[k][1]] * s[m.edges[k][2]]
Bonds(m, s) == [k \in DOMAIN m.edges |-> m.j[k] * s[m.edges[k][1]] * s[m.edges[k][2]]]

LEMMA EnergyIsTwoSums ==
  ASSUME NEW m, NEW s
  PROVE  Energy(m, s) = SumFunctionOnSet(Pull(m, s), DOMAIN m.h)
                          + SumFunctionOnSet(Bonds(m, s), DOMAIN m.edges)
<1> DEFINE a == [v \in DOMAIN m.h |-> m.h[v] * s[v]]
           b == [k \in DOMAIN m.edges |-> m.j[k] * s[m.edges[k][1]] * s[m.edges[k][2]]]
<1>1. DOMAIN a = DOMAIN m.h /\ DOMAIN b = DOMAIN m.edges
  OBVIOUS
<1>2. Energy(m, s) = SumFunctionOnSet(a, DOMAIN a) + SumFunctionOnSet(b, DOMAIN b)
  BY Zenon DEF Energy, SumFunction
<1>3. a = Pull(m, s) /\ b = Bonds(m, s)
  BY DEF Pull, Bonds
<1> HIDE DEF a, b
<1> QED
  BY <1>1, <1>2, <1>3

\* What is added up, is numbers.
LEMMA BondsAreNumbers ==
  ASSUME NEW m, ModelIsSound(m), NEW s \in States(m)
  PROVE  /\ DOMAIN m.edges = 1 .. Len(m.edges) /\ IsFiniteSet(DOMAIN m.edges)
         /\ \A v \in DOMAIN m.h : Pull(m, s)[v] \in Int
         /\ \A k \in DOMAIN m.edges :
              /\ m.j[k] \in Int /\ Spins(m, s, k) \in {-1, 1}
              /\ Bonds(m, s)[k] = m.j[k] * Spins(m, s, k)
              /\ Bonds(m, s)[k] \in Int
<1> DEFINE V == DOMAIN m.h
<1>1. m.edges \in Seq(V \X V) /\ m.j \in Seq(Int) /\ Len(m.j) = Len(m.edges)
  BY DEF ModelIsSound
<1>2. DOMAIN m.edges = 1 .. Len(m.edges) /\ Len(m.edges) \in Nat
  BY <1>1
<1>3. IsFiniteSet(DOMAIN m.edges)
  BY <1>2, FS_Interval
<1>4. s \in [V -> {-1, 1}]
  BY DEF States
<1>5. ASSUME NEW v \in V
      PROVE  Pull(m, s)[v] \in Int
  <2>1. m.h[v] \in Int
    BY DEF ModelIsSound
  <2>2. s[v] \in {-1, 1}
    BY <1>4
  <2>3. Pull(m, s)[v] = m.h[v] * s[v]
    BY DEF Pull
  <2> QED
    BY <2>1, <2>2, <2>3
<1>6. ASSUME NEW k \in DOMAIN m.edges
      PROVE  /\ m.j[k] \in Int /\ Spins(m, s, k) \in {-1, 1}
             /\ Bonds(m, s)[k] = m.j[k] * Spins(m, s, k)
             /\ Bonds(m, s)[k] \in Int
  <2> DEFINE a == s[m.edges[k][1]]
             b == s[m.edges[k][2]]
             c == m.j[k]
  <2>1. c \in Int
    BY <1>1, <1>2
  <2>2. m.edges[k] \in V \X V
    BY <1>1, <1>2
  <2>3. m.edges[k][1] \in V /\ m.edges[k][2] \in V
    BY <2>2
  <2>4. a \in {-1, 1} /\ b \in {-1, 1}
    BY <1>4, <2>3
  <2>5. Bonds(m, s)[k] = c * a * b /\ Spins(m, s, k) = a * b
    BY DEF Bonds, Spins
  <2> HIDE DEF a, b, c
  <2>6. c * a * b = c * (a * b) /\ c * a * b \in Int /\ a * b \in {-1, 1}
    BY <2>1, <2>4
  <2> QED
    BY <2>1, <2>5, <2>6 DEF c
<1> QED
  BY <1>2, <1>3, <1>5, <1>6

LEMMA EnergyType ==
  ASSUME NEW m, ModelIsSound(m), NEW s \in States(m)
  PROVE  Energy(m, s) \in Int
<1>1. SumFunctionOnSet(Pull(m, s), DOMAIN m.h) \in Int
  BY BondsAreNumbers, SumType DEF ModelIsSound
<1>2. SumFunctionOnSet(Bonds(m, s), DOMAIN m.edges) \in Int
  BY BondsAreNumbers, SumType
<1> QED
  BY <1>1, <1>2, EnergyIsTwoSums

\* The model with repeated edges has energies in halves of a unit.
CubicIsSound(q) ==
  /\ ModelIsSound(q.model)
  /\ \A v \in DOMAIN q.model.h : q.model.h[v] = 0
  /\ \A k \in DOMAIN q.model.j : Magnitude(q.model.j[k]) % CubicUnit = 0

LEMMA EnergyWithoutFields ==
  ASSUME NEW m, NEW s \in States(m), IsFiniteSet(DOMAIN m.h),
         \A v \in DOMAIN m.h : m.h[v] = 0
  PROVE  SumFunctionOnSet(Pull(m, s), DOMAIN m.h) = 0
<1>1. \A v \in DOMAIN m.h : Pull(m, s)[v] = 0
  <2> SUFFICES ASSUME NEW v \in DOMAIN m.h
               PROVE  Pull(m, s)[v] = 0
    OBVIOUS
  <2>1. s[v] \in {-1, 1} /\ m.h[v] = 0
    BY DEF States
  <2>2. Pull(m, s)[v] = m.h[v] * s[v]
    BY DEF Pull
  <2> QED
    BY <2>1, <2>2
<1> QED
  BY <1>1, SumOfZeros

LEMMA EnergyOfRepeated ==
  ASSUME NEW q, CubicIsSound(q), NEW s \in States(q.model)
  PROVE  Energy(RepeatedModel(q), s) = 2 * Energy(q.model, s)
<1> DEFINE m == q.model
           N == Len(m.j)
           R == RepeatedModel(q)
           order == CopiesOf(q)
           F == [k \in 1 .. N |-> Quarters * SignOf(m.j[k]) * Spins(m, s, k)]
           W == [k \in 1 .. N |-> CopyCount(q, k) * F[k]]
<1>1. /\ ModelIsSound(m) /\ m.j \in Seq(Int) /\ Len(m.edges) = N /\ N \in Nat
      /\ DOMAIN m.j = 1 .. N /\ DOMAIN m.edges = 1 .. N /\ IsFiniteSet(1 .. N)
  <2>1. ModelIsSound(m) /\ m.j \in Seq(Int) /\ Len(m.edges) = N
    BY DEF CubicIsSound, ModelIsSound
  <2>2. N \in Nat /\ DOMAIN m.j = 1 .. N
    BY <2>1
  <2>3. DOMAIN m.edges = 1 .. N /\ IsFiniteSet(1 .. N)
    BY <2>1, BondsAreNumbers
  <2> QED
    BY <2>1, <2>2, <2>3
<1>2. \A k \in 1 .. N : /\ m.j[k] \in Int /\ Spins(m, s, k) \in {-1, 1}
                        /\ Bonds(m, s)[k] = m.j[k] * Spins(m, s, k)
                        /\ Bonds(m, s)[k] \in Int
  BY <1>1, BondsAreNumbers
<1>3. \A k \in 1 .. N : W[k] = 2 * Bonds(m, s)[k] /\ F[k] \in Int
  <2> SUFFICES ASSUME NEW k \in 1 .. N
               PROVE  W[k] = 2 * Bonds(m, s)[k] /\ F[k] \in Int
    OBVIOUS
  <2> DEFINE c == m.j[k]
             p == Spins(m, s, k)
             b == Bonds(m, s)[k]
             n == CopyCount(q, k)
  <2>1. c \in Int /\ p \in {-1, 1} /\ b = c * p
    BY <1>2
  <2>2. Magnitude(c) % 2 = 0 /\ n = Magnitude(c) \div 2
    BY <1>1 DEF CubicIsSound, CopyCount, CubicUnit
  <2>3. F[k] = 4 * SignOf(c) * p /\ W[k] = n * (4 * SignOf(c) * p)
    BY DEF Quarters
  <2> HIDE DEF c, p, b, n, F, W
  <2>4. SignOf(c) \in {-1, 0, 1} /\ Magnitude(c) \in Nat /\ Magnitude(c) * SignOf(c) = c
    BY <2>1 DEF SignOf, Magnitude
  <2>5. n \in Nat /\ 2 * n = Magnitude(c)
    BY <2>2, <2>4
  <2>6. n * (4 * SignOf(c) * p) = 2 * b /\ 4 * SignOf(c) * p \in Int
    <3>1. CASE p = 1
      <4>1. CASE SignOf(c) = 1
        BY <2>1, <2>4, <2>5, <3>1, <4>1
      <4>2. CASE SignOf(c) = 0
        BY <2>1, <2>4, <2>5, <3>1, <4>2
      <4>3. CASE SignOf(c) = -1
        BY <2>1, <2>4, <2>5, <3>1, <4>3
      <4> QED
        BY <2>4, <4>1, <4>2, <4>3
    <3>2. CASE p = -1
      <4>1. CASE SignOf(c) = 1
        BY <2>1, <2>4, <2>5, <3>2, <4>1
      <4>2. CASE SignOf(c) = 0
        BY <2>1, <2>4, <2>5, <3>2, <4>2
      <4>3. CASE SignOf(c) = -1
        BY <2>1, <2>4, <2>5, <3>2, <4>3
      <4> QED
        BY <2>4, <4>1, <4>2, <4>3
    <3> QED
      BY <2>1, <3>1, <3>2
  <2> QED
    BY <2>3, <2>6 DEF b
<1>4. F \in [1 .. N -> Int]
  BY <1>3
<1>5. order \in Seq(1 .. N) /\ Along(F, order) = SumFunctionOnSet(W, 1 .. N)
  <2> HIDE DEF F
  <2> QED
    BY <1>1, <1>4, SumOfCopies
<1>6. SumFunctionOnSet(W, 1 .. N) = 2 * SumFunctionOnSet(Bonds(m, s), 1 .. N)
  <2>1. \A k \in 1 .. N : Bonds(m, s)[k] \in Int /\ W[k] = 2 * Bonds(m, s)[k]
    BY <1>2, <1>3
  <2>2. 2 \in Int /\ IsFiniteSet(1 .. N)
    BY <1>1
  <2> HIDE DEF W, N
  <2> QED
    BY <2>1, <2>2, SumTimes, Zenon
<1>7. /\ R.h = [v \in DOMAIN m.h |-> 0]
      /\ R.edges = [i \in DOMAIN order |-> m.edges[order[i]]]
      /\ R.j = [i \in DOMAIN order |-> Quarters * SignOf(m.j[order[i]])]
  BY DEF RepeatedModel
<1>8. DOMAIN order = 1 .. Len(order) /\ DOMAIN R.edges = 1 .. Len(order) /\ DOMAIN R.h = DOMAIN m.h
  BY <1>5, <1>7
<1>9. Bonds(R, s) = [i \in 1 .. Len(order) |-> F[order[i]]]
  <2>1. Bonds(R, s) = [i \in 1 .. Len(order) |->
                         R.j[i] * s[R.edges[i][1]] * s[R.edges[i][2]]]
    BY <1>8 DEF Bonds
  <2>2. ASSUME NEW i \in 1 .. Len(order)
        PROVE  R.j[i] * s[R.edges[i][1]] * s[R.edges[i][2]] = F[order[i]]
    <3> DEFINE k == order[i]
               x == s[m.edges[k][1]]
               y == s[m.edges[k][2]]
               c == Quarters * SignOf(m.j[k])
    <3>1. k \in 1 .. N
      BY <1>5
    <3>2. R.edges[i] = m.edges[k] /\ R.j[i] = c
      BY <1>7, <1>8
    <3>3. F[k] = c * (x * y)
      BY <3>1 DEF Spins
    <3>4. x \in {-1, 1} /\ y \in {-1, 1}
      <4>1. m.edges[k] \in (DOMAIN m.h) \X (DOMAIN m.h)
        BY <1>1, <3>1 DEF ModelIsSound
      <4>2. m.edges[k][1] \in DOMAIN m.h /\ m.edges[k][2] \in DOMAIN m.h
        BY <4>1
      <4> QED
        BY <4>2 DEF States
    <3>5. c \in Int
      BY <1>2, <3>1 DEF SignOf, Quarters
    <3>6. R.j[i] * s[R.edges[i][1]] * s[R.edges[i][2]] = c * x * y
      BY <3>2
    <3> HIDE DEF x, y, c, F
    <3>7. c * x * y = c * (x * y)
      BY <3>4, <3>5
    <3> QED
      BY <3>3, <3>6, <3>7
  <2> HIDE DEF F
  <2> QED
    BY <2>1, <2>2, Zenon
<1>10. SumFunctionOnSet(Bonds(R, s), DOMAIN R.edges) = Along(F, order)
  BY <1>8, <1>9, Zenon DEF Along
<1>11. SumFunctionOnSet(Pull(R, s), DOMAIN R.h) = 0
  <2>1. s \in States(R) /\ IsFiniteSet(DOMAIN R.h) /\ \A v \in DOMAIN R.h : R.h[v] = 0
    BY <1>1, <1>7, <1>8 DEF States, ModelIsSound
  <2> HIDE DEF R
  <2> QED
    BY <2>1, EnergyWithoutFields
<1>12. SumFunctionOnSet(Pull(m, s), DOMAIN m.h) = 0
  BY <1>1, EnergyWithoutFields DEF CubicIsSound, ModelIsSound
<1>13. SumFunctionOnSet(Bonds(m, s), 1 .. N) \in Int
  BY <1>1, <1>2, SumType
<1> HIDE DEF R, F, W, N, order
<1>14. Energy(R, s) = 0 + 2 * SumFunctionOnSet(Bonds(m, s), 1 .. N)
  BY <1>5, <1>6, <1>10, <1>11, EnergyIsTwoSums
<1>15. Energy(m, s) = 0 + SumFunctionOnSet(Bonds(m, s), 1 .. N)
  BY <1>1, <1>12, EnergyIsTwoSums
<1> QED
  BY <1>13, <1>14, <1>15 DEF R

-----------------------------------------------------------------------------
(* Couplings of one pair, added up.                                        *)

LEMMA ListOfSet ==
  ASSUME NEW S, IsFiniteSet(S)
  PROVE  LET list == SetToSeq(S) IN
         /\ Cardinality(S) \in Nat
         /\ list \in [1 .. Cardinality(S) -> S]
         /\ \A x \in S : \E i \in 1 .. Cardinality(S) :
              list[i] = x /\ \A l \in 1 .. Cardinality(S) : list[l] = x => l = i
<1> DEFINE n == Cardinality(S)
           list == SetToSeq(S)
<1>1. n \in Nat /\ ExistsBijection(1 .. n, S)
  BY FS_CardinalityType
<1>2. PICK f : f \in Bijection(1 .. n, S)
  BY <1>1 DEF ExistsBijection
<1>3. f \in [1 .. n -> S] /\ IsInjective(f)
  BY <1>2 DEF Bijection, Injection, IsInjective
<1>4. list = CHOOSE g \in [1 .. n -> S] : IsInjective(g)
  BY Zenon DEF SetToSeq
<1> HIDE DEF list
<1>5. list \in [1 .. n -> S] /\ IsInjective(list)
  BY <1>3, <1>4, Zenon
<1>6. list \in Injection(1 .. n, S)
  BY <1>5 DEF Injection, IsInjective
<1>7. Cardinality(1 .. n) = n /\ IsFiniteSet(1 .. n)
  <2>1. 1 \in Int /\ n \in Int
    BY <1>1
  <2> HIDE DEF n
  <2>2. IsFiniteSet(1 .. n) /\ Cardinality(1 .. n) = IF 1 > n THEN 0 ELSE n - 1 + 1
    BY <2>1, FS_Interval
  <2> QED
    BY <1>1, <2>2
<1>8. list \in Surjection(1 .. n, S)
  BY <1>6, <1>7, FS_Injection
<1>9. \A x \in S : \E i \in 1 .. n : list[i] = x
  BY <1>8 DEF Surjection
<1>10. \A i, l \in 1 .. n : list[i] = list[l] => i = l
  BY <1>6 DEF Injection, IsInjective
<1>11. \A x \in S : \E i \in 1 .. n : list[i] = x /\ \A l \in 1 .. n : list[l] = x => l = i
  BY <1>9, <1>10
<1> QED
  BY <1>1, <1>5, <1>11 DEF list

OnPair(m, e) == {k \in DOMAIN m.edges : m.edges[k] = e}

LEMMA EnergyOfPairs ==
  ASSUME NEW m, ModelIsSound(m), NEW s \in States(m)
  PROVE  Energy(PairsOf(m), s) = Energy(m, s)
<1> DEFINE D == DOMAIN m.edges
           S == {m.edges[k] : k \in D}
           P == SetToSeq(S)
           I == 1 .. Cardinality(S)
           R == PairsOf(m)
           B == Bonds(m, s)
           rows == B
           cols == Bonds(R, s)
           M == [k \in D |-> [i \in I |-> IF m.edges[k] = P[i] THEN B[k] ELSE 0]]
           T == [i \in I |-> [k \in D |-> IF m.edges[k] = P[i] THEN B[k] ELSE 0]]
<1>1. /\ IsFiniteSet(D)
      /\ \A k \in D : /\ m.j[k] \in Int /\ Spins(m, s, k) \in {-1, 1}
                      /\ B[k] = m.j[k] * Spins(m, s, k) /\ B[k] \in Int
  BY BondsAreNumbers
<1>2. IsFiniteSet(S)
  <2> DEFINE f == [k \in D |-> m.edges[k]]
  <2>1. f \in Surjection(D, S)
    BY DEF Surjection
  <2> HIDE DEF f, D, S
  <2> QED
    BY <1>1, <2>1, FS_Surjection
<1>3. /\ Cardinality(S) \in Nat /\ P \in [I -> S]
      /\ \A x \in S : \E i \in I : P[i] = x /\ \A l \in I : P[l] = x => l = i
  <2> HIDE DEF S
  <2> QED
    BY <1>2, ListOfSet
<1>4. IsFiniteSet(I)
  BY <1>3, FS_Interval
<1>5. DOMAIN P = I
  BY <1>3
<1>6. /\ R.h = m.h /\ R.edges = P
      /\ R.j = [i \in I |-> SumFunctionOnSet(m.j, OnPair(m, P[i]))]
  <2>1. PairsOf(m) = [h |-> m.h, edges |-> P,
                      j |-> [i \in DOMAIN P |->
                        SumFunctionOnSet(m.j, {k \in DOMAIN m.edges : m.edges[k] = P[i]})]]
    BY Zenon DEF PairsOf
  <2> HIDE DEF P, I
  <2>2. R.j = [i \in DOMAIN P |-> SumFunctionOnSet(m.j, {k \in DOMAIN m.edges : m.edges[k] = P[i]})]
    BY <2>1
  <2>3. R.j = [i \in I |-> SumFunctionOnSet(m.j, OnPair(m, P[i]))]
    BY <1>5, <2>2, Zenon DEF OnPair
  <2> QED
    BY <2>1, <2>3
<1> HIDE DEF R, P, S, I, B
<1>7. \A k \in D : B[k] = SumFunctionOnSet(M[k], I)
  <2> SUFFICES ASSUME NEW k \in D
               PROVE  B[k] = SumFunctionOnSet(M[k], I)
    OBVIOUS
  <2>1. m.edges[k] \in S
    BY DEF S
  <2>2. PICK i \in I : P[i] = m.edges[k] /\ \A l \in I : P[l] = m.edges[k] => l = i
    BY <1>3, <2>1
  <2> DEFINE row == M[k]
  <2>3. \A l \in I : row[l] = IF m.edges[k] = P[l] THEN B[k] ELSE 0
    OBVIOUS
  <2> HIDE DEF M
  <2> HIDE DEF row
  <2>4. row[i] = B[k] /\ row[i] \in Int
    BY <1>1, <2>2, <2>3
  <2>5. \A l \in I \ {i} : row[l] = 0
    BY <2>2, <2>3
  <2>6. (\A l \in {i} : row[l] \in Int) /\ {i} \in SUBSET I
    BY <2>4
  <2>7. SumFunctionOnSet(row, I) = SumFunctionOnSet(row, {i})
    BY <1>4, <2>5, <2>6, SumOfPart
  <2>8. SumFunctionOnSet(row, {i}) = row[i]
    BY <2>4, SumOfOne
  <2> QED
    BY <2>4, <2>7, <2>8 DEF row
<1>8. \A i \in I : cols[i] = SumFunctionOnSet(T[i], D)
  <2> SUFFICES ASSUME NEW i \in I
               PROVE  cols[i] = SumFunctionOnSet(T[i], D)
    OBVIOUS
  <2> DEFINE col == T[i]
             K == OnPair(m, P[i])
             c == s[P[i][1]] * s[P[i][2]]
  <2>1. \A k \in D : col[k] = IF m.edges[k] = P[i] THEN B[k] ELSE 0
    OBVIOUS
  <2>2. K \in SUBSET D /\ \A k \in D : k \in K <=> m.edges[k] = P[i]
    BY DEF OnPair
  <2> HIDE DEF T
  <2> HIDE DEF col, K
  <2>3. (\A k \in K : col[k] \in Int) /\ (\A k \in D \ K : col[k] = 0)
    BY <1>1, <2>1, <2>2
  <2>4. SumFunctionOnSet(col, D) = SumFunctionOnSet(col, K)
    BY <1>1, <2>2, <2>3, SumOfPart
  <2>5. P[i] \in S
    BY <1>3
  <2>6. PICK k \in D : P[i] = m.edges[k]
    BY <2>5 DEF S
  <2>7. c \in {-1, 1}
    BY <1>1, <2>6 DEF Spins
  <2>8. \A l \in K : m.j[l] \in Int /\ col[l] = c * m.j[l]
    <3> SUFFICES ASSUME NEW l \in K
                 PROVE  m.j[l] \in Int /\ col[l] = c * m.j[l]
      OBVIOUS
    <3>1. l \in D /\ m.edges[l] = P[i]
      BY <2>2
    <3>2. m.j[l] \in Int /\ B[l] = m.j[l] * Spins(m, s, l) /\ Spins(m, s, l) = c
      BY <1>1, <3>1 DEF Spins
    <3>3. col[l] = B[l]
      BY <2>1, <3>1
    <3> HIDE DEF c
    <3>4. m.j[l] * c = c * m.j[l]
      BY <2>7, <3>2
    <3> QED
      BY <3>2, <3>3, <3>4
  <2>9. IsFiniteSet(K)
    BY <1>1, <2>2, SubsetsAreFinite
  <2>10. SumFunctionOnSet(col, K) = c * SumFunctionOnSet(m.j, K)
    <3>1. c \in Int
      BY <2>7
    <3> HIDE DEF c
    <3> QED
      BY <2>8, <2>9, <3>1, SumTimes, Zenon
  <2>11. cols[i] = R.j[i] * s[P[i][1]] * s[P[i][2]]
    BY <1>5, <1>6 DEF Bonds
  <2>12. R.j[i] = SumFunctionOnSet(m.j, K)
    BY <1>6, Zenon DEF K
  <2>13. SumFunctionOnSet(m.j, K) \in Int
    BY <2>8, <2>9, SumType
  <2>14. s[P[i][1]] \in {-1, 1} /\ s[P[i][2]] \in {-1, 1}
    <3>1. m.edges[k] \in (DOMAIN m.h) \X (DOMAIN m.h)
      BY DEF ModelIsSound
    <3>2. m.edges[k][1] \in DOMAIN m.h /\ m.edges[k][2] \in DOMAIN m.h
      BY <3>1
    <3> QED
      BY <2>6, <3>2 DEF States
  <2>15. cols[i] = c * SumFunctionOnSet(m.j, K)
    <3> DEFINE x == s[P[i][1]]
               y == s[P[i][2]]
               z == SumFunctionOnSet(m.j, K)
    <3>1. x \in {-1, 1} /\ y \in {-1, 1} /\ z \in Int
      BY <2>13, <2>14
    <3>2. cols[i] = z * x * y /\ c = x * y
      BY <2>11, <2>12
    <3> HIDE DEF x, y, z, c
    <3>3. z * x * y = (x * y) * z
      BY <3>1
    <3> QED
      BY <3>2, <3>3 DEF z
  <2> QED
    BY <2>4, <2>10, <2>15 DEF col
<1>9. \A k \in D : \A i \in I : M[k][i] \in Int /\ T[i][k] = M[k][i]
  BY <1>1
<1> HIDE DEF M, T
<1>10. SumFunctionOnSet(B, D) = SumFunctionOnSet(cols, I)
  <2>1. TwoWays(D, I, M, T, B, cols)
    BY <1>7, <1>8, <1>9 DEF TwoWays
  <2> HIDE DEF D, cols
  <2> QED
    BY <1>1, <1>4, <2>1, SumSwap
<1>11. Pull(R, s) = Pull(m, s)
  BY <1>6 DEF Pull
<1> QED
  BY <1>5, <1>6, <1>10, <1>11, EnergyIsTwoSums, Zenon DEF B, R

-----------------------------------------------------------------------------
(* The input of a kernel, and the record.                                  *)

LEMMA RequestsAreSound ==
  ASSUME NEW q \in JobRequests
  PROVE  /\ ModelIsSound(q.model)
         /\ q.cubic => \A v \in DOMAIN q.model.h : q.model.h[v] = 0
         /\ \A i \in 1 .. 2 : q.beta[i] \in Int /\ (q.cubic => q.beta[i] % 2 = 0)
         /\ q.reads # {} /\ q.reads \subseteq States(q.model)
         /\ q.answer \in {"honest", "wrong", "nonfinite", "substituted", "refused"}
         /\ q.kernel # "another" /\ (q.kernel = NealKernel => q.answer # "substituted")
<1>1. /\ IsFiniteSet(DOMAIN q.model.h) /\ q.model.h \in [DOMAIN q.model.h -> Int]
      /\ q.model.edges \in Seq((DOMAIN q.model.h) \X (DOMAIN q.model.h))
      /\ q.model.j \in Seq(Int) /\ Len(q.model.j) = Len(q.model.edges)
      /\ q.cubic => \A v \in DOMAIN q.model.h : q.model.h[v] = 0
      /\ q.beta \in [1 .. 2 -> Int] /\ (q.cubic => \A i \in 1 .. 2 : q.beta[i] % 2 = 0)
      /\ q.reads # {} /\ q.reads \subseteq States(q.model)
      /\ q.answer \in {"honest", "wrong", "nonfinite", "substituted", "refused"}
      /\ q.kernel # "another" /\ (q.kernel = NealKernel => q.answer # "substituted")
  BY JobRequestsAssumption, Zenon
<1>2. ModelIsSound(q.model)
  BY <1>1, Zenon DEF ModelIsSound
<1>3. \A i \in 1 .. 2 : q.beta[i] \in Int /\ (q.cubic => q.beta[i] % 2 = 0)
  BY <1>1
<1> QED
  BY <1>1, <1>2, <1>3, Zenon

\* What is given to a kernel: the model itself, its pairs, or its edges repeated.
GivenAs(q, g) ==
  \/ g.beta = <<>> /\ g.scale = 4 /\ g.model = PairsOf(q.model)
  \/ g.beta = q.beta /\ g.scale = 4 /\ g.model = q.model
  \/ /\ Rebuilt(q)
     /\ g.beta = [i \in 1 .. 2 |-> (q.beta[i] * 2) \div 4]
     /\ g.scale = 2 /\ g.model = RepeatedModel(q)

LEMMA GivenInOneOfThreeWays ==
  ASSUME NEW q
  PROVE  GivenAs(q, Given(q))
<1>1. CASE q.kernel = NealKernel
  <2>1. Given(q) = [model |-> PairsOf(q.model), scale |-> 4, beta |-> <<>>]
    BY <1>1, Zenon DEF Given, Quarters
  <2> QED
    BY <2>1 DEF GivenAs
<1>2. CASE q.kernel # NealKernel /\ Rebuilt(q)
  <2>1. Given(q) = [model |-> RepeatedModel(q), scale |-> 2,
                    beta |-> [i \in 1 .. 2 |-> (q.beta[i] * 2) \div 4]]
    BY <1>2, Zenon DEF Given, KernelInput, Quarters, CubicUnit
  <2> QED
    BY <1>2, <2>1 DEF GivenAs
<1>3. CASE q.kernel # NealKernel /\ ~Rebuilt(q)
  <2>1. Given(q) = [model |-> q.model, scale |-> 4, beta |-> q.beta]
    BY <1>3, Zenon DEF Given, KernelInput, Quarters
  <2> QED
    BY <2>1 DEF GivenAs
<1> QED
  BY <1>1, <1>2, <1>3

\* The scale of an input takes its energies to those of the model, and its
\* schedule anneals the model.
LEMMA GivenEnergies ==
  ASSUME NEW q \in JobRequests, Eligible(q), NEW s \in States(q.model)
  PROVE  LET g == Given(q)
             e == Energy(q.model, s)
             d == Energy(g.model, s) IN
         /\ e \in Int /\ d \in Int /\ g.scale \in {2, 4}
         /\ d * g.scale = e * 4
         /\ g.beta # <<>> => \A i \in 1 .. 2 : g.beta[i] * d = q.beta[i] * e
<1> DEFINE g == Given(q)
           e == Energy(q.model, s)
           d == Energy(g.model, s)
<1>1. GivenAs(q, g)
  BY GivenInOneOfThreeWays
<1>2. ModelIsSound(q.model) /\ \A i \in 1 .. 2 : q.beta[i] \in Int
  BY RequestsAreSound
<1>3. e \in Int
  BY <1>2, EnergyType
<1> HIDE DEF g
<1>4. CASE g.beta = <<>> /\ g.scale = 4 /\ g.model = PairsOf(q.model)
  <2>1. d = e
    BY <1>2, <1>4, EnergyOfPairs
  <2> HIDE DEF d, e
  <2> QED
    BY <1>3, <1>4, <2>1 DEF g, d, e
<1>5. CASE g.beta = q.beta /\ g.scale = 4 /\ g.model = q.model
  <2>1. d = e
    BY <1>5
  <2> HIDE DEF d, e
  <2> QED
    BY <1>3, <1>5, <2>1 DEF g, d, e
<1>6. CASE /\ Rebuilt(q)
           /\ g.beta = [i \in 1 .. 2 |-> (q.beta[i] * 2) \div 4]
           /\ g.scale = 2 /\ g.model = RepeatedModel(q)
  <2>1. q.cubic /\ q.kernel = UnitKernel
    BY <1>6 DEF Rebuilt
  <2>2. CubicIsSound(q)
    BY <1>2, <2>1, RequestsAreSound, Zenon DEF CubicIsSound, Eligible
  <2>3. d = 2 * e
    BY <1>6, <2>2, EnergyOfRepeated
  <2>4. \A i \in 1 .. 2 : q.beta[i] \in Int /\ q.beta[i] % 2 = 0
    BY <2>1, RequestsAreSound
  <2> HIDE DEF d, e
  <2>5. ASSUME NEW i \in 1 .. 2
        PROVE  g.beta[i] * d = q.beta[i] * e
    <3> DEFINE b == q.beta[i]
               c == g.beta[i]
    <3>1. b \in Int /\ b % 2 = 0 /\ c = (b * 2) \div 4
      BY <1>6, <2>4
    <3> HIDE DEF b, c
    <3>2. c \in Int /\ b = 2 * c
      BY <3>1
    <3>3. c * (2 * e) = (2 * c) * e
      BY <1>3, <3>2
    <3> QED
      BY <2>3, <3>2, <3>3 DEF b, c
  <2> QED
    BY <1>3, <1>6, <2>3, <2>5 DEF g, d, e
<1> QED
  BY <1>1, <1>4, <1>5, <1>6 DEF GivenAs

\* Only wrong energies are found wrong.
LEMMA RescoredUnlessWrong ==
  ASSUME NEW q \in JobRequests, Eligible(q)
  PROVE  Rescored(q) <=> q.answer # "wrong"
<1> DEFINE g == Given(q)
           Fault == IF q.answer = "wrong" THEN 1 ELSE 0
<1>1. \A s \in q.reads : /\ Energy(q.model, s) \in Int /\ Energy(g.model, s) \in Int
                         /\ g.scale \in {2, 4}
                         /\ Energy(g.model, s) * g.scale = Energy(q.model, s) * 4
  BY GivenEnergies, RequestsAreSound
<1>2. Rescored(q) <=>
        \A s \in q.reads : Energy(q.model, s) * 4 = (Energy(g.model, s) + Fault) * g.scale
  BY Zenon DEF Rescored, Quarters
<1> HIDE DEF g
<1>3. CASE q.answer = "wrong"
  <2>1. PICK s : s \in q.reads
    BY RequestsAreSound
  <2> DEFINE d == Energy(g.model, s)
             e == Energy(q.model, s)
  <2>2. d \in Int /\ e \in Int /\ g.scale \in {2, 4} /\ d * g.scale = e * 4
    BY <1>1, <2>1
  <2> HIDE DEF d, e
  <2>3. e * 4 # (d + 1) * g.scale
    BY <2>2
  <2>4. Fault = 1
    BY <1>3
  <2> HIDE DEF Fault
  <2> QED
    BY <1>2, <1>3, <2>1, <2>3, <2>4 DEF d, e
<1>4. CASE q.answer # "wrong"
  <2>1. \A s \in q.reads : Energy(g.model, s) + 0 = Energy(g.model, s)
    BY <1>1
  <2>2. Fault = 0
    BY <1>4
  <2> HIDE DEF Fault
  <2> QED
    BY <1>1, <1>2, <1>4, <2>1, <2>2
<1> QED
  BY <1>3, <1>4

HonestRecord(q, r) ==
  /\ r.status = "completed" =>
       /\ r.observed = q.kernel
       /\ q.answer = "honest"
       /\ SamePhysics(q, r.input)
       /\ r.energies = {Energy(q.model, s) : s \in q.reads}
  /\ FineWeather(q) => r.status = (IF Eligible(q) THEN "completed" ELSE "unsupported")
  /\ r.status = "unsupported" => ~r.ran /\ ~Eligible(q)

HonestHost(q, h) ==
  /\ (/\ q.pinned
      /\ \A x \in {q.before, q.after} : x.load <= q.workers + LoadThreshold
      /\ q.before.sibling = q.after.sibling) => ~h.contaminated
  /\ (/\ q.pinned
      /\ \E x \in {q.before, q.after} : x.load > q.workers + LoadThreshold) => h.contaminated

LEMMA GivenIsTheModel ==
  ASSUME NEW q \in JobRequests, Eligible(q)
  PROVE  SamePhysics(q, Given(q))
<1> SUFFICES ASSUME Given(q).beta # <<>>, NEW s \in States(q.model), NEW i \in 1 .. 2
             PROVE  Given(q).beta[i] * Energy(Given(q).model, s) = q.beta[i] * Energy(q.model, s)
  BY DEF SamePhysics
<1> QED
  BY GivenEnergies

LEMMA RecordsAreOfTheirJob ==
  ASSUME NEW q \in JobRequests
  PROVE  HonestRecord(q, Execute(q))
<1> DEFINE r == Execute(q)
           refusal == \/ q.answer = "refused"
                      \/ Observed(q) # q.kernel
                      \/ q.answer = "nonfinite"
                      \/ ~Rescored(q)
<1>1. CASE ~Eligible(q)
  <2>1. r = [status |-> "unsupported", ran |-> FALSE, observed |-> "none"]
    BY <1>1, Zenon DEF Execute, IneligibleRecord
  <2>2. r.status = "unsupported" /\ r.ran = FALSE
    BY <2>1
  <2> HIDE DEF r
  <2> QED
    BY <1>1, <2>2 DEF HonestRecord, r
<1>2. CASE Eligible(q) /\ WrongInput(q)
  <2>1. r = [status |-> "failed", ran |-> FALSE, observed |-> "none"]
    BY <1>2, Zenon DEF Execute, FailureRecord
  <2>2. r.status = "failed" /\ ~FineWeather(q)
    BY <1>2, <2>1 DEF FineWeather
  <2> HIDE DEF r
  <2> QED
    BY <2>2 DEF HonestRecord, r
<1>3. CASE Eligible(q) /\ ~WrongInput(q) /\ refusal
  <2>1. r = [status |-> "failed", ran |-> TRUE, observed |-> "none"]
    BY <1>3, Zenon DEF Execute, FailureRecord
  <2>2. r.status = "failed"
    BY <2>1
  <2>3. q.answer # "honest"
    BY <1>3, RescoredUnlessWrong DEF Observed
  <2> HIDE DEF r
  <2> QED
    BY <2>2, <2>3 DEF HonestRecord, FineWeather, r
<1>4. CASE Eligible(q) /\ ~WrongInput(q) /\ ~refusal
  <2>1. r = [status |-> "completed", ran |-> TRUE, observed |-> Observed(q),
             input |-> Given(q), energies |-> {Energy(q.model, s) : s \in q.reads}]
    BY <1>4, Zenon DEF Execute
  <2>2. /\ r.status = "completed" /\ r.observed = q.kernel /\ r.input = Given(q)
        /\ r.energies = {Energy(q.model, s) : s \in q.reads}
    BY <1>4, <2>1
  <2>3. q.answer # "wrong" /\ q.answer # "refused" /\ q.answer # "nonfinite"
    BY <1>4, RescoredUnlessWrong
  <2>4. q.answer # "substituted"
    BY <1>4, RequestsAreSound DEF Observed
  <2>5. q.answer = "honest"
    BY <2>3, <2>4, RequestsAreSound
  <2>6. SamePhysics(q, Given(q))
    BY <1>4, GivenIsTheModel
  <2> HIDE DEF r
  <2> QED
    BY <1>4, <2>2, <2>5, <2>6, Zenon DEF HonestRecord, r
<1> QED
  BY <1>1, <1>2, <1>3, <1>4

LEMMA HostsAreJudged ==
  ASSUME NEW q \in JobRequests
  PROVE  HonestHost(q, Host(q))
<1> DEFINE h == Host(q)
           c == HostContaminated(q)
           t == q.workers + LoadThreshold
<1>1. q.pinned => (h.contaminated <=> c)
  <2>1. q.pinned => h = [contaminated |-> c]
    BY Zenon DEF Host
  <2> HIDE DEF h, c
  <2> QED
    BY <2>1
<1>2. /\ LoadThreshold \in Int /\ q.workers \in Int /\ t \in Int
      /\ q.before.load \in Int /\ q.after.load \in Int
      /\ q.before.sibling # <<>> => q.before.sibling \in [1 .. 2 -> Int]
  <2>1. /\ LoadThreshold \in Int /\ q.workers \in Int
        /\ \A x \in {q.before, q.after} :
             x.load \in Int /\ (x.sibling # <<>> => x.sibling \in [1 .. 2 -> Int])
    BY JobRequestsAssumption, Zenon
  <2> QED
    BY <2>1
<1>3. \A x \in {q.before, q.after} : Overloaded(x.load, q.workers) <=> x.load > t
  BY <1>2 DEF Overloaded
<1>4. q.before.sibling = q.after.sibling => ~SiblingBusy(q.before, q.after)
  <2> SUFFICES ASSUME q.before.sibling = q.after.sibling, q.before.sibling # <<>>
               PROVE  ~SiblingBusy(q.before, q.after)
    BY DEF SiblingBusy
  <2>1. q.before.sibling[2] \in Int
    BY <1>2
  <2>2. ~(q.after.sibling[2] - q.before.sibling[2] > 0)
    BY <2>1
  <2> QED
    BY <2>2 DEF SiblingBusy
<1> HIDE DEF h
<1>5. (/\ q.pinned
       /\ \A x \in {q.before, q.after} : x.load <= t
       /\ q.before.sibling = q.after.sibling) => ~h.contaminated
  <2> SUFFICES ASSUME q.pinned, \A x \in {q.before, q.after} : x.load <= t,
                      q.before.sibling = q.after.sibling
               PROVE  ~h.contaminated
    OBVIOUS
  <2>1. ~(q.before.load > t) /\ ~(q.after.load > t)
    BY <1>2
  <2>2. ~c
    BY <1>3, <1>4, <2>1 DEF HostContaminated
  <2> HIDE DEF c
  <2> QED
    BY <1>1, <2>2
<1>6. (q.pinned /\ \E x \in {q.before, q.after} : x.load > t) => h.contaminated
  <2> SUFFICES ASSUME q.pinned, NEW x \in {q.before, q.after}, x.load > t
               PROVE  h.contaminated
    OBVIOUS
  <2>1. c
    BY <1>3 DEF HostContaminated
  <2> HIDE DEF c
  <2> QED
    BY <1>1, <2>1
<1> QED
  BY <1>5, <1>6, Zenon DEF HonestHost, h

-----------------------------------------------------------------------------
(* A job is taken from the requests, and its record made of it.            *)

JobInv ==
  \E q \in JobRequests :
    \/ measured = [at |-> "before", request |-> q]
    \/ measured = [at |-> "done", request |-> q, record |-> Execute(q), host |-> Host(q)]

LEMMA JobsAreMeasured == JobSpec => []JobInv
<1>1. JobInit => JobInv
  BY DEF JobInit, JobInv
<1>2. JobInv /\ [Measure]_measured => JobInv'
  <2> SUFFICES ASSUME JobInv, [Measure]_measured
               PROVE  JobInv'
    OBVIOUS
  <2>1. CASE UNCHANGED measured
    BY <2>1, Zenon DEF JobInv
  <2>2. CASE Measure
    <3>1. PICK q \in JobRequests :
            \/ measured = [at |-> "before", request |-> q]
            \/ measured = [at |-> "done", request |-> q, record |-> Execute(q), host |-> Host(q)]
      BY DEF JobInv
    <3>2. measured.at = "before"
      BY <2>2 DEF Measure
    <3>3. measured.request = q
      BY <3>1, <3>2
    <3>4. measured' = [at |-> "done", request |-> measured.request,
                       record |-> Execute(measured.request), host |-> Host(measured.request)]
      BY <2>2 DEF Measure
    <3>5. measured' = [at |-> "done", request |-> q, record |-> Execute(q), host |-> Host(q)]
      BY <3>3, <3>4, Zenon
    <3> QED
      BY <3>5, Zenon DEF JobInv
  <2> QED
    BY <2>1, <2>2
<1> QED
  BY <1>1, <1>2, PTL DEF JobSpec

\* A completed record is of the kernel that was asked for, of the model of the bundle
\* and of its energies; an eligible job is lost only to a fault of the export or of
\* the kernel; unsupported kernels are not run; and the load of the run's own workers
\* is not contamination, while more than that always is (round2_runner.py
\* execute_cpu_job, round2_cpu.py run-one).
THEOREM RecordsAreHonest == JobSpec => []RecordIsHonest
<1>1. JobInv => RecordIsHonest
  <2> SUFFICES ASSUME JobInv, measured.at = "done"
               PROVE  RecordIsHonest
    BY DEF RecordIsHonest
  <2>1. PICK q \in JobRequests :
          \/ measured = [at |-> "before", request |-> q]
          \/ measured = [at |-> "done", request |-> q, record |-> Execute(q), host |-> Host(q)]
    BY DEF JobInv
  <2>2. measured.request = q /\ measured.record = Execute(q) /\ measured.host = Host(q)
    BY <2>1
  <2>3. HonestRecord(q, measured.record) /\ HonestHost(q, measured.host)
    BY <2>2, RecordsAreOfTheirJob, HostsAreJudged
  <2> QED
    BY <2>2, <2>3, Zenon DEF RecordIsHonest, HonestRecord, HonestHost
<1> QED
  BY <1>1, JobsAreMeasured, PTL

-----------------------------------------------------------------------------
(* The report: numbers of finite sets.                                     *)

LEMMA LeastOf ==
  ASSUME NEW S, IsFiniteSet(S), S # {}, NEW f, \A x \in S : f[x] \in Int
  PROVE  \E x \in S : \A y \in S : f[x] <= f[y]
<1> DEFINE T == {s \in SUBSET S : s = {} \/ \E x \in s : \A y \in s : f[x] <= f[y]}
<1>1. {} \in T
  OBVIOUS
<1>2. ASSUME NEW s \in SUBSET S, NEW z \in S \ s, s \in T
      PROVE  s \cup {z} \in T
  <2>1. CASE s = {}
    BY <2>1
  <2>2. CASE s # {}
    <3>1. PICK x \in s : \A y \in s : f[x] <= f[y]
      BY <1>2, <2>2
    <3>2. CASE f[x] <= f[z]
      BY <3>1, <3>2
    <3>3. CASE ~(f[x] <= f[z])
      <4>1. \A y \in s \cup {z} : f[z] <= f[y]
        BY <3>1, <3>3
      <4> QED
        BY <4>1
    <3> QED
      BY <3>2, <3>3
  <2> QED
    BY <2>1, <2>2
<1>3. S \in T
  <2> HIDE DEF T
  <2> QED
    BY <1>1, <1>2, SetInduction
<1> QED
  BY <1>3

LEMMA MaxOfNumbers ==
  ASSUME NEW S, IsFiniteSet(S), S # {}, S \subseteq Int
  PROVE  Max(S) \in S /\ \A y \in S : y <= Max(S)
<1> DEFINE f == [x \in S |-> -x]
<1>1. \A x \in S : f[x] \in Int /\ f[x] = -x
  OBVIOUS
<1> HIDE DEF f
<1>2. PICK x \in S : \A y \in S : f[x] <= f[y]
  BY <1>1, LeastOf
<1>3. \A y \in S : x >= y
  BY <1>1, <1>2
<1>4. Max(S) \in S /\ \A y \in S : Max(S) >= y
  BY <1>3, Zenon DEF Max
<1> QED
  BY <1>4

LEMMA MinOfNumbers ==
  ASSUME NEW S, IsFiniteSet(S), S # {}, S \subseteq Int
  PROVE  Min(S) \in S /\ \A y \in S : Min(S) <= y
<1> DEFINE f == [x \in S |-> x]
<1>1. \A x \in S : f[x] \in Int /\ f[x] = x
  OBVIOUS
<1> HIDE DEF f
<1>2. PICK x \in S : \A y \in S : f[x] <= f[y]
  BY <1>1, LeastOf
<1>3. \A y \in S : x <= y
  BY <1>1, <1>2
<1> QED
  BY <1>3, Zenon DEF Min

LEMMA NumbersUpTo ==
  ASSUME NEW n \in Nat
  PROVE  IsFiniteSet(1 .. n) /\ \A S \in SUBSET (1 .. n) : IsFiniteSet(S)
<1>1. IsFiniteSet(1 .. n)
  BY FS_Interval
<1> QED
  BY <1>1, FS_Subset

\* The last of some places of a list.
LEMMA MaxOfPlaces ==
  ASSUME NEW n \in Nat, NEW S \in SUBSET (1 .. n), S # {}
  PROVE  Max(S) \in S /\ \A y \in S : y <= Max(S)
<1>1. IsFiniteSet(S)
  BY NumbersUpTo
<1>2. S \subseteq Int
  OBVIOUS
<1> QED
  BY <1>1, <1>2, MaxOfNumbers

LEMMA ImageIsFinite ==
  ASSUME NEW S, IsFiniteSet(S), NEW f
  PROVE  IsFiniteSet({f[x] : x \in S})
<1> DEFINE T == {f[x] : x \in S}
           g == [x \in S |-> f[x]]
<1>1. g \in Surjection(S, T)
  BY DEF Surjection
<1> HIDE DEF g, T
<1>2. IsFiniteSet(T)
  BY <1>1, FS_Surjection
<1> QED
  BY <1>2 DEF T

LEMMA CountOfPart ==
  ASSUME NEW S, IsFiniteSet(S), NEW P \in SUBSET S
  PROVE  /\ Cardinality(S) \in Nat /\ Cardinality(P) \in Nat /\ Cardinality(S \ P) \in Nat
         /\ Cardinality(S) = Cardinality(P) + Cardinality(S \ P)
<1>1. IsFiniteSet(P) /\ IsFiniteSet(S \ P)
  BY FS_Subset
<1>2. Cardinality(S \ P) = Cardinality(S) - Cardinality(P)
  <2>1. Cardinality(S \ P) = Cardinality(S) - Cardinality(S \cap P)
    BY FS_Difference
  <2>2. S \cap P = P
    OBVIOUS
  <2> QED
    BY <2>1, <2>2
<1>3. Cardinality(S) \in Nat /\ Cardinality(P) \in Nat /\ Cardinality(S \ P) \in Nat
  BY <1>1, FS_CardinalityType
<1> QED
  BY <1>2, <1>3

-----------------------------------------------------------------------------
(* The report: attempts and rows.                                          *)

LEMMA OnlyMember ==
  ASSUME NEW x, IsMaybe(x), x # {}
  PROVE  Only(x) \in Int /\ x = {Only(x)}
<1>1. PICK v \in x : v \in Int /\ x = {v}
  BY DEF IsMaybe
<1>2. Only(x) = v
  <2>1. Only(x) \in x
    BY <1>1, Zenon DEF Only
  <2> QED
    BY <1>1, <2>1
<1> QED
  BY <1>1, <1>2

LEMMA ShownAttempt ==
  ASSUME NEW n \in Nat, NEW ok, DOMAIN ok = 1 .. n, \E i \in 1 .. n : ok[i]
  PROVE  QualityAttempt(ok) \in 1 .. n /\ ok[QualityAttempt(ok)]
<1> DEFINE good == {i \in DOMAIN ok : ok[i]}
<1>1. good \in SUBSET (1 .. n) /\ good # {}
  OBVIOUS
<1>2. QualityAttempt(ok) = Max(good)
  BY <1>1 DEF QualityAttempt
<1>3. Max(good) \in good
  <2> HIDE DEF good
  <2> QED
    BY <1>1, MaxOfPlaces
<1> QED
  BY <1>2, <1>3

\* The fastest of the attempts that were timed.
LEMMA FastestOfTimed ==
  ASSUME NEW as, as \in Seq(Range(as)), \A a \in Range(as) : IsAttempt(a), TimedAttempts(as) # {}
  PROVE  /\ FastestAttempt(as) \in TimedAttempts(as)
         /\ \A k \in TimedAttempts(as) : Only(as[FastestAttempt(as)].wall) <= Only(as[k].wall)
<1> DEFINE f == [i \in TimedAttempts(as) |-> Only(as[i].wall)]
<1>1. Len(as) \in Nat /\ DOMAIN as = 1 .. Len(as) /\ \A i \in DOMAIN as : as[i] \in Range(as)
  BY LenProperties, ElementOfSeq
<1>2. IsFiniteSet(TimedAttempts(as))
  <2>1. TimedAttempts(as) \in SUBSET (1 .. Len(as))
    BY <1>1 DEF TimedAttempts
  <2> QED
    BY <1>1, <2>1, NumbersUpTo
<1>3. \A i \in TimedAttempts(as) : f[i] \in Int /\ f[i] = Only(as[i].wall)
  <2> SUFFICES ASSUME NEW i \in TimedAttempts(as)
               PROVE  Only(as[i].wall) \in Int
    OBVIOUS
  <2>1. IsMaybe(as[i].wall) /\ as[i].wall # {}
    BY <1>1 DEF TimedAttempts, IsAttempt
  <2> QED
    BY <2>1, OnlyMember
<1> HIDE DEF f
<1>4. \E i \in TimedAttempts(as) : \A k \in TimedAttempts(as) : f[i] <= f[k]
  BY <1>2, <1>3, LeastOf
<1>5. \E i \in TimedAttempts(as) : \A k \in TimedAttempts(as) : Only(as[i].wall) <= Only(as[k].wall)
  BY <1>3, <1>4
<1> QED
  BY <1>5, Zenon DEF FastestAttempt

IsRow(r) ==
  /\ r.sweeps \in Int
  /\ r.ok \in BOOLEAN /\ r.unsupported \in BOOLEAN
  /\ IsMaybe(r.best) /\ IsMaybe(r.wall) /\ IsMaybe(r.sampling)

\* A row is put together from two attempts.
JoinsAttempts(r, job, i, k) ==
  r = [model |-> job.model, kernel |-> job.kernel, route |-> job.kernel, sweeps |-> job.sweeps,
          ok |-> job.attempts[i].ok, unsupported |-> job.attempts[i].unsupported,
          best |-> job.attempts[i].best, wall |-> job.attempts[k].wall,
          sampling |-> job.attempts[k].sampling, parallel |-> job.attempts[k].parallel,
          contaminated |-> job.attempts[k].contaminated]

LEMMA RowJoins ==
  ASSUME NEW job, WasTried(job)
  PROVE  \E i, k \in DOMAIN job.attempts :
           /\ JoinsAttempts(Row(job), job, i, k)
           /\ (\E g \in DOMAIN job.attempts : job.attempts[g].ok) =>
                /\ job.attempts[i].ok /\ job.attempts[k].ok
                /\ \A b \in DOMAIN job.attempts :
                     job.attempts[b].ok /\ job.attempts[b].wall # {} =>
                       /\ job.attempts[k].wall # {}
                       /\ Only(job.attempts[k].wall) <= Only(job.attempts[b].wall)
<1> DEFINE as == job.attempts
           n == Len(as)
           ok == [x \in DOMAIN as |-> as[x].ok]
           i == QualityAttempt(ok)
           k == IF TimedAttempts(as) = {} THEN i ELSE FastestAttempt(as)
<1>1. as \in Seq(Range(as)) /\ as # <<>> /\ \A a \in Range(as) : IsAttempt(a)
  BY DEF WasTried
<1>2. n \in Nat \ {0} /\ DOMAIN as = 1 .. n /\ \A x \in 1 .. n : as[x] \in Range(as)
  BY <1>1, LenProperties, ElementOfSeq, EmptySeq
<1>3. DOMAIN ok = 1 .. n /\ Len(ok) = n /\ \A x \in 1 .. n : ok[x] = as[x].ok
  BY <1>2
<1>4. Row(job) = [model |-> job.model, kernel |-> job.kernel, route |-> job.kernel, sweeps |-> job.sweeps,
                  ok |-> as[i].ok, unsupported |-> as[i].unsupported, best |-> as[i].best,
                  wall |-> as[k].wall, sampling |-> as[k].sampling,
                  parallel |-> as[k].parallel, contaminated |-> as[k].contaminated]
  BY Zenon DEF Row
<1> HIDE DEF ok, k
<1>5. /\ i \in 1 .. n
      /\ (\E g \in 1 .. n : as[g].ok) => as[i].ok
  <2>1. CASE \E g \in 1 .. n : as[g].ok
    <3>1. i \in 1 .. n /\ ok[i]
      BY <1>2, <1>3, <2>1, ShownAttempt
    <3> QED
      BY <1>3, <3>1
  <2>2. CASE ~\E g \in 1 .. n : as[g].ok
    <3>1. {x \in DOMAIN ok : ok[x]} = {}
      BY <1>3, <2>2
    <3>2. i = n
      BY <1>3, <3>1 DEF QualityAttempt
    <3> QED
      BY <1>2, <2>2, <3>2
  <2> QED
    BY <2>1, <2>2
<1> HIDE DEF i
<1>6. CASE TimedAttempts(as) = {}
  <2>1. k = i
    BY <1>6 DEF k
  <2>2. \A b \in 1 .. n : ~(as[b].ok /\ as[b].wall # {})
    BY <1>2, <1>6 DEF TimedAttempts
  <2>3. JoinsAttempts(Row(job), job, i, k)
    BY <1>4 DEF JoinsAttempts
  <2>4. (\E g \in DOMAIN as : as[g].ok) => as[i].ok /\ as[k].ok
    BY <1>2, <1>5, <2>1
  <2>5. i \in DOMAIN as /\ k \in DOMAIN as
    BY <1>2, <1>5, <2>1
  <2> QED
    BY <1>2, <2>2, <2>3, <2>4, <2>5
<1>7. CASE TimedAttempts(as) # {}
  <2>1. k = FastestAttempt(as)
    BY <1>7 DEF k
  <2>2. k \in TimedAttempts(as) /\ \A b \in TimedAttempts(as) : Only(as[k].wall) <= Only(as[b].wall)
    BY <1>1, <1>7, <2>1, FastestOfTimed
  <2>3. k \in 1 .. n /\ as[k].ok /\ as[k].wall # {}
    BY <1>2, <2>2 DEF TimedAttempts
  <2>4. \A b \in 1 .. n : as[b].ok /\ as[b].wall # {} => Only(as[k].wall) <= Only(as[b].wall)
    BY <1>2, <2>2 DEF TimedAttempts
  <2>5. JoinsAttempts(Row(job), job, i, k)
    BY <1>4 DEF JoinsAttempts
  <2>6. i \in DOMAIN as /\ k \in DOMAIN as
    BY <1>2, <1>5, <2>3
  <2> QED
    BY <1>2, <1>5, <2>3, <2>4, <2>5, <2>6
<1> QED
  BY <1>6, <1>7

LEMMA RowOfJob ==
  ASSUME NEW job, WasTried(job)
  PROVE  /\ IsRow(Row(job)) /\ RowIsOfItsJob(job)
         /\ Row(job).model = job.model /\ Row(job).kernel = job.kernel
         /\ Row(job).sweeps = job.sweeps
<1> DEFINE as == job.attempts
           r == Row(job)
<1>1. as \in Seq(Range(as)) /\ job.sweeps \in Int /\ \A a \in Range(as) : IsAttempt(a)
  BY DEF WasTried
<1>2. /\ \A x \in DOMAIN as : as[x] \in Range(as)
      /\ \A a \in Range(as) : \E x \in DOMAIN as : a = as[x]
  BY DEF Range
<1>3. PICK i \in DOMAIN as, k \in DOMAIN as :
        /\ JoinsAttempts(r, job, i, k)
        /\ (\E g \in DOMAIN as : as[g].ok) =>
             /\ as[i].ok /\ as[k].ok
             /\ \A b \in DOMAIN as : as[b].ok /\ as[b].wall # {} =>
                  as[k].wall # {} /\ Only(as[k].wall) <= Only(as[b].wall)
  BY RowJoins
<1>4. /\ r.model = job.model /\ r.kernel = job.kernel /\ r.sweeps = job.sweeps
      /\ r.ok = as[i].ok /\ r.unsupported = as[i].unsupported /\ r.best = as[i].best
      /\ r.wall = as[k].wall /\ r.sampling = as[k].sampling
      /\ r.parallel = as[k].parallel /\ r.contaminated = as[k].contaminated
  BY <1>3 DEF JoinsAttempts
<1>5. IsAttempt(as[i]) /\ IsAttempt(as[k])
  BY <1>1, <1>2
<1> HIDE DEF as, r
<1>6. IsRow(r)
  BY <1>1, <1>4, <1>5 DEF IsRow, IsAttempt
<1>7. RowIsOfItsJob(job)
  <2> DEFINE good == {a \in Range(job.attempts) : a.ok}
  <2> SUFFICES ASSUME good # {}
               PROVE  /\ \E a \in good : r.best = a.best /\ r.unsupported = a.unsupported
                      /\ \E a \in good :
                           /\ r.wall = a.wall /\ r.sampling = a.sampling
                           /\ r.parallel = a.parallel /\ r.contaminated = a.contaminated
                           /\ \A b \in good : b.wall # {} => a.wall # {} /\ Only(a.wall) <= Only(b.wall)
    BY DEF RowIsOfItsJob, r
  <2>1. \E g \in DOMAIN as : as[g].ok
    BY <1>2 DEF as
  <2>2. as[i] \in good /\ as[k] \in good
    BY <1>2, <1>3, <2>1 DEF as
  <2>3. \A b \in good : b.wall # {} => as[k].wall # {} /\ Only(as[k].wall) <= Only(b.wall)
    BY <1>2, <1>3, <2>1 DEF as
  <2> QED
    BY <1>4, <2>2, <2>3
<1> QED
  BY <1>4, <1>6, <1>7 DEF r

LEMMA MaybeOrNot ==
  ASSUME NEW r, IsRow(r)
  PROVE  /\ Usable(r) \in BOOLEAN /\ Comparable(r) \in BOOLEAN
         /\ Comparable(r) => Only(r.best) \in Int
<1>1. Comparable(r) => Only(r.best) \in Int
  BY OnlyMember DEF IsRow, Comparable
<1> QED
  BY <1>1 DEF IsRow, Usable, Comparable

\* The row of a job, shown as one of the routed kernel.
Rerouted(r) == [r EXCEPT !.kernel = MsaKernel]

LEMMA ReroutedRow ==
  ASSUME NEW job, WasTried(job)
  PROVE  LET r == Rerouted(Row(job)) IN
         /\ r.kernel = MsaKernel
         /\ r.model = Row(job).model /\ r.sweeps = Row(job).sweeps
         /\ r.ok = Row(job).ok /\ r.unsupported = Row(job).unsupported /\ r.best = Row(job).best
         /\ r.wall = Row(job).wall /\ r.sampling = Row(job).sampling
         /\ IsRow(r)
<1> DEFINE r == Rerouted(Row(job))
<1>1. PICK i, k \in DOMAIN job.attempts : JoinsAttempts(Row(job), job, i, k)
  BY RowJoins
<1>2. /\ r.kernel = MsaKernel
      /\ r.model = Row(job).model /\ r.sweeps = Row(job).sweeps
      /\ r.ok = Row(job).ok /\ r.unsupported = Row(job).unsupported /\ r.best = Row(job).best
      /\ r.wall = Row(job).wall /\ r.sampling = Row(job).sampling
  BY <1>1 DEF JoinsAttempts, Rerouted
<1>3. IsRow(Row(job))
  BY RowOfJob
<1> HIDE DEF r
<1>4. IsRow(r)
  BY <1>2, <1>3 DEF IsRow
<1> QED
  BY <1>2, <1>4 DEF r

LEMMA LastOfArm ==
  ASSUME NEW n \in Nat, NEW rows, DOMAIN rows = 1 .. n, NEW kernel, NEW like
  PROVE  LET last == LastOf(rows, kernel, like) IN
         /\ last \in 0 .. n
         /\ last # 0 => /\ rows[last].kernel = kernel /\ rows[last].model = like.model
                        /\ rows[last].sweeps = like.sweeps
         /\ \A i \in 1 .. n :
              (rows[i].kernel = kernel /\ rows[i].model = like.model /\ rows[i].sweeps = like.sweeps)
                => last # 0
<1> DEFINE same == {i \in Arm(rows, kernel, like.sweeps) : rows[i].model = like.model}
           S == {0} \cup same
           last == Max(S)
<1>1. same \in SUBSET (1 .. n) /\ S \subseteq Int /\ S # {}
  BY DEF Arm
<1>2. IsFiniteSet(S)
  <2>1. IsFiniteSet(same)
    BY <1>1, NumbersUpTo
  <2>2. S = same \cup {0}
    OBVIOUS
  <2> HIDE DEF same, S
  <2> QED
    BY <2>1, <2>2, FS_AddElement
<1>3. last \in S /\ \A y \in S : y <= last
  <2> HIDE DEF S
  <2> QED
    BY <1>1, <1>2, MaxOfNumbers
<1>4. LastOf(rows, kernel, like) = last
  BY DEF LastOf
<1> HIDE DEF last
<1>5. last \in 0 .. n
  BY <1>1, <1>3
<1>6. last # 0 => last \in same
  BY <1>3
<1>7. \A i \in 1 .. n : i \in same => last # 0
  BY <1>1, <1>3, <1>5
<1> QED
  BY <1>4, <1>5, <1>6, <1>7 DEF Arm

\* What is said of the rows of jobs, k of them routed.
AreRowsOf(rows, jobs, k) ==
  LET own == MeasuredRows(jobs)
      n == Len(jobs) IN
  /\ n \in Nat /\ k \in Nat
  /\ DOMAIN jobs = 1 .. n /\ DOMAIN own = 1 .. n /\ DOMAIN rows = 1 .. n + k
  /\ \A i \in 1 .. n : WasTried(jobs[i])
  /\ \A i \in 1 .. n : own[i] = Row(jobs[i]) /\ rows[i] = Row(jobs[i])
  /\ \A i \in n + 1 .. n + k : \E s \in Sources(own) : rows[i] = Rerouted(own[s])
  /\ \A s \in Sources(own) : \E i \in n + 1 .. n + k : rows[i] = Rerouted(own[s])

LEMMA SourcesArePlaces ==
  ASSUME NEW n \in Nat, NEW rows, DOMAIN rows = 1 .. n
  PROVE  Sources(rows) \in SUBSET (1 .. n)
<1>1. \A i \in 1 .. n : RouteOf(rows, rows[i]) \in 0 .. n
  BY LastOfArm DEF RouteOf
<1> QED
  BY <1>1 DEF Sources

LEMMA RowsAreLoaded ==
  ASSUME NEW jobs, AreJobs(jobs)
  PROVE  \E k \in Nat : AreRowsOf(Load(jobs), jobs, k)
<1> DEFINE own == MeasuredRows(jobs)
           n == Len(jobs)
           src == Sources(own)
           k == Cardinality(src)
           list == SetToSeq(src)
           routed == Routed(own)
<1>1. n \in Nat /\ DOMAIN jobs = 1 .. n /\ \A i \in 1 .. n : jobs[i] \in Range(jobs)
  BY LenProperties, ElementOfSeq DEF AreJobs
<1>2. DOMAIN own = 1 .. n /\ \A i \in 1 .. n : own[i] = Row(jobs[i])
  BY <1>1 DEF MeasuredRows
<1>3. \A i \in 1 .. n : WasTried(jobs[i])
  BY <1>1 DEF AreJobs
<1>4. src \in SUBSET (1 .. n) /\ IsFiniteSet(src)
  <2> HIDE DEF own
  <2>1. src \in SUBSET (1 .. n)
    BY <1>1, <1>2, SourcesArePlaces
  <2> HIDE DEF src
  <2> QED
    BY <1>1, <2>1, NumbersUpTo
<1>5. /\ k \in Nat /\ list \in [1 .. k -> src]
      /\ \A x \in src : \E i \in 1 .. k : list[i] = x
  <2> HIDE DEF src
  <2> QED
    BY <1>4, ListOfSet
<1>6. routed = [i \in 1 .. k |-> Rerouted(own[list[i]])]
  <2>1. routed = [i \in DOMAIN list |-> Rerouted(own[list[i]])]
    BY DEF Routed, Rerouted
  <2>2. DOMAIN list = 1 .. k
    BY <1>5
  <2> HIDE DEF list, own, k, routed
  <2> QED
    BY <2>1, <2>2
<1> DEFINE S == {own[i] : i \in 1 .. n} \cup {routed[i] : i \in 1 .. k}
<1> HIDE DEF own, n, src, k, list, routed
<1>7. own \in [1 .. n -> S] /\ routed \in [1 .. k -> S]
  <2>1. own = [i \in 1 .. n |-> own[i]]
    BY <1>2 DEF own, MeasuredRows
  <2> QED
    BY <1>6, <2>1
<1> HIDE DEF S
<1>8. own \in Seq(S) /\ routed \in Seq(S) /\ Len(own) = n /\ Len(routed) = k
  <2>1. own \in Seq(S) /\ routed \in Seq(S)
    BY <1>1, <1>5, <1>7 DEF n
  <2>2. DOMAIN own = 1 .. n /\ DOMAIN routed = 1 .. k
    BY <1>7
  <2> QED
    BY <1>1, <1>5, <2>1, <2>2, LenProperties DEF n
<1>9. /\ Len(own \o routed) = n + k
      /\ \A i \in 1 .. n + k : (own \o routed)[i] = IF i <= n THEN own[i] ELSE routed[i - n]
  BY <1>8, ConcatProperties
<1>10. own \o routed \in Seq(S) /\ DOMAIN (own \o routed) = 1 .. n + k
  BY <1>8, <1>9, ConcatProperties, LenProperties
<1>11. Load(jobs) = own \o routed
  BY DEF Load, own, routed
<1> DEFINE rows == Load(jobs)
<1>12. /\ DOMAIN rows = 1 .. n + k
       /\ \A i \in 1 .. n + k : rows[i] = IF i <= n THEN own[i] ELSE routed[i - n]
  BY <1>9, <1>10, <1>11
<1> HIDE DEF rows
<1>13. n \in Nat
  BY <1>1 DEF n
<1>14. \A i \in 1 .. n : rows[i] = own[i]
  BY <1>5, <1>12, <1>13
<1>15. \A i \in n + 1 .. n + k : \E s \in src : rows[i] = Rerouted(own[s])
  <2> SUFFICES ASSUME NEW i \in n + 1 .. n + k
               PROVE  \E s \in src : rows[i] = Rerouted(own[s])
    OBVIOUS
  <2>1. i - n \in 1 .. k /\ i \in 1 .. n + k /\ ~(i <= n)
    BY <1>5, <1>13
  <2>2. rows[i] = Rerouted(own[list[i - n]])
    BY <1>6, <1>12, <2>1
  <2> QED
    BY <1>5, <2>1, <2>2
<1>16. \A s \in src : \E i \in n + 1 .. n + k : rows[i] = Rerouted(own[s])
  <2> SUFFICES ASSUME NEW s \in src
               PROVE  \E i \in n + 1 .. n + k : rows[i] = Rerouted(own[s])
    OBVIOUS
  <2>1. PICK x \in 1 .. k : list[x] = s
    BY <1>5
  <2>2. PICK i \in Nat : i = x + n
    BY <1>13
  <2>3. i \in n + 1 .. n + k /\ i \in 1 .. n + k /\ ~(i <= n) /\ i - n = x
    BY <1>5, <1>13, <2>2
  <2>4. rows[i] = routed[x]
    BY <1>12, <2>3
  <2>5. routed[x] = Rerouted(own[s])
    BY <1>6, <2>1
  <2> QED
    BY <2>3, <2>4, <2>5
<1>17. AreRowsOf(rows, jobs, k)
  BY <1>1, <1>2, <1>3, <1>5, <1>12, <1>14, <1>15, <1>16 DEF AreRowsOf, own, n, src
<1> QED
  BY <1>5, <1>17 DEF rows

LEMMA RowsAreRows ==
  ASSUME NEW jobs, NEW rows, NEW k, AreRowsOf(rows, jobs, k)
  PROVE  /\ Len(jobs) + k \in Nat /\ DOMAIN rows = 1 .. Len(jobs) + k
         /\ \A i \in DOMAIN rows : IsRow(rows[i])
<1> DEFINE n == Len(jobs)
           own == MeasuredRows(jobs)
<1>1. /\ n \in Nat /\ k \in Nat /\ DOMAIN rows = 1 .. n + k /\ DOMAIN own = 1 .. n
      /\ \A i \in 1 .. n : WasTried(jobs[i])
      /\ \A i \in 1 .. n : own[i] = Row(jobs[i]) /\ rows[i] = Row(jobs[i])
      /\ \A i \in n + 1 .. n + k : \E s \in Sources(own) : rows[i] = Rerouted(own[s])
  BY DEF AreRowsOf
<1> HIDE DEF n, own
<1>2. \A s \in Sources(own) : s \in 1 .. n
  BY <1>1, SourcesArePlaces
<1>3. ASSUME NEW i \in 1 .. n + k
      PROVE  IsRow(rows[i])
  <2>1. CASE i \in 1 .. n
    BY <1>1, <2>1, RowOfJob
  <2>2. CASE i \notin 1 .. n
    <3>1. i \in n + 1 .. n + k
      BY <1>1, <2>2
    <3>2. PICK s \in Sources(own) : rows[i] = Rerouted(own[s])
      BY <1>1, <3>1
    <3>3. WasTried(jobs[s]) /\ own[s] = Row(jobs[s])
      BY <1>1, <1>2
    <3>4. IsRow(Rerouted(Row(jobs[s])))
      BY <3>3, ReroutedRow
    <3> QED
      BY <3>2, <3>3, <3>4
  <2> QED
    BY <2>1, <2>2
<1> QED
  BY <1>1, <1>3 DEF n

-----------------------------------------------------------------------------
(* The report: the routed kernel.                                          *)

IsOf(r, kernel, model, sweeps) == r.kernel = kernel /\ r.model = model /\ r.sweeps = sweeps

LEMMA BestOfArm ==
  ASSUME NEW n \in Nat, NEW rows, DOMAIN rows = 1 .. n, NEW kernel, NEW sweeps
  PROVE  LET best == BestBy(rows, kernel, sweeps) IN
         /\ best = [m \in DOMAIN best |-> best[m]]
         /\ \A m \in DOMAIN best : \E i \in 1 .. n :
              /\ IsOf(rows[i], kernel, m, sweeps) /\ Comparable(rows[i])
              /\ best[m] = Only(rows[i].best)
         /\ \A i \in 1 .. n : \A m :
              IsOf(rows[i], kernel, m, sweeps) /\ Comparable(rows[i]) => m \in DOMAIN best
<1> DEFINE arm == {i \in Arm(rows, kernel, sweeps) : Comparable(rows[i])}
           best == BestBy(rows, kernel, sweeps)
           Of(m) == {i \in arm : rows[i].model = m}
<1>1. best = [m \in {rows[i].model : i \in arm} |-> Only(rows[Max(Of(m))].best)]
  BY DEF BestBy
<1>2. arm \in SUBSET (1 .. n)
  BY DEF Arm
<1>3. \A i \in arm : rows[i].kernel = kernel /\ rows[i].sweeps = sweeps /\ Comparable(rows[i])
  BY DEF Arm
<1>4. \A i \in 1 .. n : rows[i].kernel = kernel /\ rows[i].sweeps = sweeps /\ Comparable(rows[i]) => i \in arm
  BY DEF Arm
<1> HIDE DEF arm, best
<1>5. DOMAIN best = {rows[i].model : i \in arm} /\ best = [m \in DOMAIN best |-> best[m]]
  BY <1>1
<1>6. ASSUME NEW m \in DOMAIN best
      PROVE  \E i \in 1 .. n : /\ IsOf(rows[i], kernel, m, sweeps) /\ Comparable(rows[i])
                               /\ best[m] = Only(rows[i].best)
  <2>1. Of(m) \in SUBSET (1 .. n) /\ Of(m) # {}
    BY <1>2, <1>5
  <2>2. Max(Of(m)) \in Of(m)
    <3> HIDE DEF Of
    <3> QED
      BY <2>1, MaxOfPlaces
  <2>3. best[m] = Only(rows[Max(Of(m))].best)
    BY <1>1, <1>5
  <2> QED
    BY <1>2, <1>3, <2>2, <2>3 DEF IsOf
<1>7. \A i \in 1 .. n : \A m :
        IsOf(rows[i], kernel, m, sweeps) /\ Comparable(rows[i]) => m \in DOMAIN best
  BY <1>4, <1>5 DEF IsOf
<1> QED
  BY <1>5, <1>6, <1>7 DEF best

\* A row is known by its kernel, its model and its depth.
AreUnique(rows, n) ==
  \A i, j \in 1 .. n : \A kernel, model, sweeps :
    IsOf(rows[i], kernel, model, sweeps) /\ IsOf(rows[j], kernel, model, sweeps) => i = j

LEMMA LastOfUnique ==
  ASSUME NEW n \in Nat, NEW rows, DOMAIN rows = 1 .. n, AreUnique(rows, n),
         NEW kernel, NEW like, NEW i \in 1 .. n, IsOf(rows[i], kernel, like.model, like.sweeps)
  PROVE  LastOf(rows, kernel, like) = i
<1> DEFINE last == LastOf(rows, kernel, like)
<1>1. /\ last \in 0 .. n
      /\ last # 0 => IsOf(rows[last], kernel, like.model, like.sweeps)
      /\ last # 0
  BY LastOfArm DEF IsOf
<1> HIDE DEF last
<1>2. last \in 1 .. n
  BY <1>1
<1>3. last = i
  BY <1>1, <1>2 DEF AreUnique
<1> QED
  BY <1>3 DEF last

\* A job is routed to the unit kernel if that ran, and to the other otherwise.
LEMMA RouteOfKey ==
  ASSUME NEW n \in Nat, NEW rows, DOMAIN rows = 1 .. n, AreUnique(rows, n),
         NEW like, NEW m, NEW s, like.model = m, like.sweeps = s
  PROVE  LET route == RouteOf(rows, like) IN
         /\ route \in 0 .. n
         /\ route # 0 => rows[route].model = m /\ rows[route].sweeps = s
         /\ \A i \in 1 .. n : IsOf(rows[i], UnitKernel, m, s) /\ Usable(rows[i]) => route = i
         /\ (\A i \in 1 .. n : ~(IsOf(rows[i], UnitKernel, m, s) /\ Usable(rows[i]))) =>
              /\ route # 0 => IsOf(rows[route], FloatKernel, m, s)
              /\ \A i \in 1 .. n : IsOf(rows[i], FloatKernel, m, s) => route = i
<1> DEFINE unit == LastOf(rows, UnitKernel, like)
           float == LastOf(rows, FloatKernel, like)
           route == RouteOf(rows, like)
<1>1. route = IF unit # 0 /\ Usable(rows[unit]) THEN unit ELSE float
  BY DEF RouteOf
<1>2. unit \in 0 .. n /\ (unit # 0 => IsOf(rows[unit], UnitKernel, m, s))
  BY LastOfArm DEF IsOf
<1>3. float \in 0 .. n /\ (float # 0 => IsOf(rows[float], FloatKernel, m, s))
  BY LastOfArm DEF IsOf
<1>4. \A i \in 1 .. n : IsOf(rows[i], UnitKernel, m, s) => unit = i
  BY LastOfUnique
<1>5. \A i \in 1 .. n : IsOf(rows[i], FloatKernel, m, s) => float = i
  BY LastOfUnique
<1> HIDE DEF unit, float, route
<1>6. \A i \in 1 .. n : IsOf(rows[i], UnitKernel, m, s) /\ Usable(rows[i]) => route = i
  BY <1>1, <1>4
<1>7. (\A i \in 1 .. n : ~(IsOf(rows[i], UnitKernel, m, s) /\ Usable(rows[i]))) => route = float
  <2>1. unit # 0 => unit \in 1 .. n
    BY <1>2
  <2> QED
    BY <1>1, <1>2, <2>1
<1>8. route \in 0 .. n /\ (route # 0 => rows[route].model = m /\ rows[route].sweeps = s)
  BY <1>1, <1>2, <1>3 DEF IsOf
<1> QED
  BY <1>3, <1>5, <1>6, <1>7, <1>8 DEF route

LEMMA RoutedEnergies ==
  ASSUME NEW jobs, NEW rows, NEW k, AreRowsOf(rows, jobs, k), AreOfDifferentArms(jobs), NEW s
  PROVE  BestBy(rows, MsaKernel, s) = EnergiesOfEither(rows, s)
<1> DEFINE n == Len(jobs)
           N == n + k
           own == MeasuredRows(jobs)
           routed == BestBy(rows, MsaKernel, s)
           unit == BestBy(rows, UnitKernel, s)
           float == BestBy(rows, FloatKernel, s)
           ran == {rows[i].model : i \in {x \in Arm(rows, UnitKernel, s) : Usable(rows[x])}}
           D == DOMAIN unit \cup (DOMAIN float \ ran)
<1>1. /\ n \in Nat /\ k \in Nat /\ DOMAIN jobs = 1 .. n /\ DOMAIN rows = 1 .. N /\ DOMAIN own = 1 .. n
      /\ \A i \in 1 .. n : WasTried(jobs[i])
      /\ \A i \in 1 .. n : own[i] = Row(jobs[i]) /\ rows[i] = own[i]
      /\ \A i \in n + 1 .. n + k : \E x \in Sources(own) : rows[i] = Rerouted(own[x])
      /\ \A x \in Sources(own) : \E i \in n + 1 .. n + k : rows[i] = Rerouted(own[x])
  BY DEF AreRowsOf
<1>2. /\ N \in Nat /\ \A i \in 1 .. n : i \in 1 .. N
      /\ \A i \in n + 1 .. n + k : i \in 1 .. N
      /\ \A i \in 1 .. N : i \in 1 .. n \/ i \in n + 1 .. n + k
  <2> HIDE DEF n
  <2> QED
    BY <1>1
<1>3. /\ routed = [m \in DOMAIN routed |-> routed[m]]
      /\ \A m \in DOMAIN routed : \E i \in 1 .. N :
           IsOf(rows[i], MsaKernel, m, s) /\ Comparable(rows[i]) /\ routed[m] = Only(rows[i].best)
      /\ \A i \in 1 .. N : \A m :
           IsOf(rows[i], MsaKernel, m, s) /\ Comparable(rows[i]) => m \in DOMAIN routed
  <2> HIDE DEF N
  <2> QED
    BY <1>1, <1>2, BestOfArm
<1>4. /\ unit = [m \in DOMAIN unit |-> unit[m]]
      /\ \A m \in DOMAIN unit : \E i \in 1 .. N :
           IsOf(rows[i], UnitKernel, m, s) /\ Comparable(rows[i]) /\ unit[m] = Only(rows[i].best)
      /\ \A i \in 1 .. N : \A m :
           IsOf(rows[i], UnitKernel, m, s) /\ Comparable(rows[i]) => m \in DOMAIN unit
  <2> HIDE DEF N
  <2> QED
    BY <1>1, <1>2, BestOfArm
<1>5. /\ float = [m \in DOMAIN float |-> float[m]]
      /\ \A m \in DOMAIN float : \E i \in 1 .. N :
           IsOf(rows[i], FloatKernel, m, s) /\ Comparable(rows[i]) /\ float[m] = Only(rows[i].best)
      /\ \A i \in 1 .. N : \A m :
           IsOf(rows[i], FloatKernel, m, s) /\ Comparable(rows[i]) => m \in DOMAIN float
  <2> HIDE DEF N
  <2> QED
    BY <1>1, <1>2, BestOfArm
<1>6. \A m : m \in ran <=> \E i \in 1 .. N : IsOf(rows[i], UnitKernel, m, s) /\ Usable(rows[i])
  BY <1>1 DEF Arm, IsOf
<1> HIDE DEF routed, unit, float, ran, n, own, N
<1>7. \A i \in 1 .. n : own[i].kernel = jobs[i].kernel /\ own[i].model = jobs[i].model
                        /\ own[i].sweeps = jobs[i].sweeps /\ own[i].kernel # MsaKernel
  <2> SUFFICES ASSUME NEW i \in 1 .. n
               PROVE  /\ Row(jobs[i]).kernel = jobs[i].kernel /\ Row(jobs[i]).model = jobs[i].model
                      /\ Row(jobs[i]).sweeps = jobs[i].sweeps /\ jobs[i].kernel # MsaKernel
    BY <1>1
  <2>1. WasTried(jobs[i])
    BY <1>1
  <2> QED
    BY <2>1, RowOfJob DEF WasTried
<1>8. AreUnique(own, n)
  BY <1>1, <1>7 DEF AreUnique, IsOf, AreOfDifferentArms
<1>9. Sources(own) \in SUBSET (1 .. n)
  BY <1>1, SourcesArePlaces
<1>10. \A x \in Sources(own) :
         /\ Rerouted(own[x]).kernel = MsaKernel /\ Rerouted(own[x]).model = own[x].model
         /\ Rerouted(own[x]).sweeps = own[x].sweeps /\ Rerouted(own[x]).best = own[x].best
         /\ Comparable(Rerouted(own[x])) <=> Comparable(own[x])
  <2> SUFFICES ASSUME NEW x \in 1 .. n
               PROVE  /\ Rerouted(own[x]).kernel = MsaKernel /\ Rerouted(own[x]).model = own[x].model
                      /\ Rerouted(own[x]).sweeps = own[x].sweeps /\ Rerouted(own[x]).best = own[x].best
                      /\ Comparable(Rerouted(own[x])) <=> Comparable(own[x])
    BY <1>9
  <2>1. WasTried(jobs[x]) /\ own[x] = Row(jobs[x])
    BY <1>1
  <2> QED
    BY <2>1, ReroutedRow DEF Comparable, Usable
<1>11. MsaKernel # UnitKernel /\ MsaKernel # FloatKernel
  BY DEF MsaKernel, UnitKernel, FloatKernel
<1>12. \A i \in 1 .. N : \A m :
         /\ IsOf(rows[i], MsaKernel, m, s) => i \in n + 1 .. n + k
         /\ IsOf(rows[i], UnitKernel, m, s) \/ IsOf(rows[i], FloatKernel, m, s) =>
              i \in 1 .. n /\ rows[i] = own[i]
  <2> SUFFICES ASSUME NEW i \in 1 .. N, NEW m
               PROVE  /\ rows[i].kernel = MsaKernel => i \in n + 1 .. n + k
                      /\ rows[i].kernel # MsaKernel => i \in 1 .. n /\ rows[i] = own[i]
    BY <1>11 DEF IsOf
  <2>1. i \in 1 .. n => rows[i] = own[i] /\ rows[i].kernel # MsaKernel
    BY <1>1, <1>7
  <2>2. i \in n + 1 .. n + k => rows[i].kernel = MsaKernel
    BY <1>1, <1>10
  <2> QED
    BY <1>2, <2>1, <2>2
\* The row that a model is routed to.
<1>13. ASSUME NEW m, NEW x \in 1 .. n, Comparable(own[x]),
              \/ IsOf(own[x], UnitKernel, m, s)
              \/ IsOf(own[x], FloatKernel, m, s) /\ m \notin ran
       PROVE  m \in DOMAIN routed
  <2>1. own[x].model = m /\ own[x].sweeps = s /\ own[x].kernel \in {UnitKernel, FloatKernel}
    BY <1>13 DEF IsOf
  <2>2. /\ \A i \in 1 .. n : IsOf(own[i], UnitKernel, m, s) /\ Usable(own[i]) => RouteOf(own, own[x]) = i
        /\ (\A i \in 1 .. n : ~(IsOf(own[i], UnitKernel, m, s) /\ Usable(own[i]))) =>
             \A i \in 1 .. n : IsOf(own[i], FloatKernel, m, s) => RouteOf(own, own[x]) = i
    <3>1. n \in Nat /\ DOMAIN own = 1 .. n
      BY <1>1
    <3> QED
      BY <1>8, <2>1, <3>1, RouteOfKey
  <2>3. RouteOf(own, own[x]) = x
    <3>1. CASE IsOf(own[x], UnitKernel, m, s)
      BY <1>13, <2>2, <3>1 DEF Comparable
    <3>2. CASE IsOf(own[x], FloatKernel, m, s) /\ m \notin ran
      <4>1. \A i \in 1 .. n : ~(IsOf(own[i], UnitKernel, m, s) /\ Usable(own[i]))
        BY <1>1, <1>2, <1>6, <3>2
      <4> QED
        BY <2>2, <3>2, <4>1
    <3> QED
      BY <1>13, <3>1, <3>2
  <2>4. x \in Sources(own)
    BY <1>1, <2>1, <2>3 DEF Sources
  <2>5. PICK i \in n + 1 .. n + k : rows[i] = Rerouted(own[x])
    BY <1>1, <2>4
  <2>6. IsOf(rows[i], MsaKernel, m, s) /\ Comparable(rows[i])
    BY <1>10, <1>13, <2>1, <2>4, <2>5 DEF IsOf
  <2> QED
    BY <1>2, <1>3, <2>6
<1>14. ASSUME NEW m \in DOMAIN routed
       PROVE  \E x \in 1 .. n :
                /\ Comparable(own[x]) /\ routed[m] = Only(own[x].best)
                /\ m \in ran => IsOf(own[x], UnitKernel, m, s)
                /\ m \notin ran => IsOf(own[x], FloatKernel, m, s)
  <2>1. PICK i \in 1 .. N : /\ IsOf(rows[i], MsaKernel, m, s) /\ Comparable(rows[i])
                            /\ routed[m] = Only(rows[i].best)
    BY <1>3
  <2>2. i \in n + 1 .. n + k
    BY <1>12, <2>1
  <2>3. PICK x \in Sources(own) : rows[i] = Rerouted(own[x])
    BY <1>1, <2>2
  <2>4. x \in 1 .. n
    BY <1>9
  <2>5. own[x].model = m /\ own[x].sweeps = s /\ Comparable(own[x]) /\ routed[m] = Only(own[x].best)
    BY <1>10, <2>1, <2>3 DEF IsOf
  <2>6. PICK y \in 1 .. n : x = RouteOf(own, own[y])
    BY <1>1 DEF Sources
  <2>7. x # 0
    BY <2>4
  <2> DEFINE p == own[y].model
             t == own[y].sweeps
  <2>8. /\ x # 0 => own[x].model = p /\ own[x].sweeps = t
        /\ \A j \in 1 .. n : IsOf(own[j], UnitKernel, p, t) /\ Usable(own[j]) => x = j
        /\ (\A j \in 1 .. n : ~(IsOf(own[j], UnitKernel, p, t) /\ Usable(own[j]))) =>
             (x # 0 => IsOf(own[x], FloatKernel, p, t))
    BY <1>1, <1>8, <2>6, RouteOfKey
  <2>9. p = m /\ t = s
    BY <2>5, <2>7, <2>8
  <2> HIDE DEF p, t
  <2>10. CASE m \in ran
    <3>1. PICK j \in 1 .. N : IsOf(rows[j], UnitKernel, m, s) /\ Usable(rows[j])
      BY <1>6, <2>10
    <3>2. j \in 1 .. n /\ rows[j] = own[j]
      BY <1>12, <3>1
    <3>3. x = j
      BY <2>8, <2>9, <3>1, <3>2
    <3> QED
      BY <2>4, <2>5, <2>10, <3>1, <3>2, <3>3
  <2>11. CASE m \notin ran
    <3>1. \A j \in 1 .. n : ~(IsOf(own[j], UnitKernel, m, s) /\ Usable(own[j]))
      BY <1>1, <1>2, <1>6, <2>11
    <3>2. IsOf(own[x], FloatKernel, m, s)
      BY <2>7, <2>8, <2>9, <3>1
    <3> QED
      BY <2>4, <2>5, <2>11, <3>2
  <2> QED
    BY <2>10, <2>11
<1>15. ASSUME NEW m \in DOMAIN unit
       PROVE  \E x \in 1 .. n : /\ IsOf(own[x], UnitKernel, m, s) /\ Comparable(own[x])
                                /\ unit[m] = Only(own[x].best)
  <2>1. PICK i \in 1 .. N : /\ IsOf(rows[i], UnitKernel, m, s) /\ Comparable(rows[i])
                            /\ unit[m] = Only(rows[i].best)
    BY <1>4
  <2>2. i \in 1 .. n /\ rows[i] = own[i]
    BY <1>12, <2>1
  <2> QED
    BY <2>1, <2>2
<1>16. ASSUME NEW m \in DOMAIN float
       PROVE  \E x \in 1 .. n : /\ IsOf(own[x], FloatKernel, m, s) /\ Comparable(own[x])
                                /\ float[m] = Only(own[x].best)
  <2>1. PICK i \in 1 .. N : /\ IsOf(rows[i], FloatKernel, m, s) /\ Comparable(rows[i])
                            /\ float[m] = Only(rows[i].best)
    BY <1>5
  <2>2. i \in 1 .. n /\ rows[i] = own[i]
    BY <1>12, <2>1
  <2> QED
    BY <2>1, <2>2
<1>17. \A m \in D : m \in DOMAIN routed
  <2>1. \A m \in DOMAIN unit : m \in DOMAIN routed
    BY <1>13, <1>15
  <2>2. \A m \in DOMAIN float : m \notin ran => m \in DOMAIN routed
    BY <1>13, <1>16
  <2> QED
    BY <2>1, <2>2
<1>18. ASSUME NEW m \in DOMAIN routed
       PROVE  m \in D /\ routed[m] = IF m \in ran THEN unit[m] ELSE float[m]
  <2>1. PICK x \in 1 .. n :
          /\ Comparable(own[x]) /\ routed[m] = Only(own[x].best)
          /\ m \in ran => IsOf(own[x], UnitKernel, m, s)
          /\ m \notin ran => IsOf(own[x], FloatKernel, m, s)
    BY <1>14
  <2>2. x \in 1 .. N /\ rows[x] = own[x]
    BY <1>1, <1>2
  <2>3. CASE m \in ran
    <3>1. m \in DOMAIN unit
      BY <1>4, <2>1, <2>2, <2>3
    <3>2. PICK z \in 1 .. n : /\ IsOf(own[z], UnitKernel, m, s) /\ unit[m] = Only(own[z].best)
      BY <1>15, <3>1
    <3>3. z = x
      BY <1>8, <2>1, <2>3, <3>2 DEF AreUnique
    <3> QED
      BY <2>1, <2>3, <3>1, <3>2, <3>3
  <2>4. CASE m \notin ran
    <3>1. m \in DOMAIN float
      BY <1>5, <2>1, <2>2, <2>4
    <3>2. PICK z \in 1 .. n : /\ IsOf(own[z], FloatKernel, m, s) /\ float[m] = Only(own[z].best)
      BY <1>16, <3>1
    <3>3. z = x
      BY <1>8, <2>1, <2>4, <3>2 DEF AreUnique
    <3> QED
      BY <2>1, <2>4, <3>1, <3>2, <3>3
  <2> QED
    BY <2>3, <2>4
<1>19. DOMAIN routed = D
  BY <1>17, <1>18
<1>20. routed = [m \in D |-> IF m \in ran THEN unit[m] ELSE float[m]]
  <2> HIDE DEF D
  <2> QED
    BY <1>3, <1>18, <1>19
<1>21. EnergiesOfEither(rows, s) = [m \in D |-> IF m \in ran THEN unit[m] ELSE float[m]]
  BY Zenon DEF EnergiesOfEither, D, unit, float, ran
<1> QED
  BY <1>20, <1>21 DEF routed

-----------------------------------------------------------------------------
(* The report: what is counted.                                            *)

LEMMA ArmsAddUp ==
  ASSUME NEW q, NEW n \in Nat, DOMAIN Rows(q) = 1 .. n, \A i \in 1 .. n : IsRow(Rows(q)[i]),
         NEW kernel, NEW sweeps
  PROVE  ArmAddsUp(ArmSummary(q, kernel, sweeps))
<1> DEFINE rows == Rows(q)
           arm == Arm(rows, kernel, sweeps)
           U == {i \in arm : rows[i].unsupported}
           F == {i \in arm : ~rows[i].unsupported /\ ~rows[i].ok}
           N == {i \in arm : Usable(rows[i]) /\ rows[i].best = {}}
           C == {i \in arm : Comparable(rows[i])}
           row == ArmSummary(q, kernel, sweeps)
<1>1. /\ row.observed = Cardinality(arm) /\ row.completed = Cardinality(C)
      /\ row.unsupported = Cardinality(U) /\ row.failed = Cardinality(F)
      /\ row.nonfinite = Cardinality(N)
  BY DEF ArmSummary
<1>2. arm \in SUBSET (1 .. n)
  BY DEF Arm
<1>3. IsFiniteSet(arm) /\ \A i \in arm : rows[i].ok \in BOOLEAN /\ rows[i].unsupported \in BOOLEAN
  <2> HIDE DEF arm
  <2> QED
    BY <1>2, NumbersUpTo DEF IsRow
<1> HIDE DEF rows, arm, row
<1>4. U \in SUBSET arm /\ F \in SUBSET (arm \ U) /\ N \in SUBSET ((arm \ U) \ F)
  BY DEF Usable
<1>5. C = ((arm \ U) \ F) \ N
  BY <1>3 DEF Comparable, Usable
<1> HIDE DEF U, F, N, C
<1>6. /\ Cardinality(arm) = Cardinality(U) + Cardinality(arm \ U)
      /\ Cardinality(U) \in Nat /\ Cardinality(arm \ U) \in Nat /\ IsFiniteSet(arm \ U)
  BY <1>3, <1>4, CountOfPart, FS_Subset
<1>7. /\ Cardinality(arm \ U) = Cardinality(F) + Cardinality((arm \ U) \ F)
      /\ Cardinality(F) \in Nat /\ Cardinality((arm \ U) \ F) \in Nat /\ IsFiniteSet((arm \ U) \ F)
  BY <1>4, <1>6, CountOfPart, FS_Subset
<1>8. /\ Cardinality((arm \ U) \ F) = Cardinality(N) + Cardinality(C)
      /\ Cardinality(N) \in Nat /\ Cardinality(C) \in Nat
  BY <1>4, <1>5, <1>7, CountOfPart
<1>9. row.observed = row.completed + row.unsupported + row.failed + row.nonfinite
  BY <1>1, <1>6, <1>7, <1>8
<1> QED
  BY <1>9 DEF ArmAddsUp, row

-----------------------------------------------------------------------------
(* The report: outcomes.                                                   *)

LEMMA TimesCancels ==
  ASSUME NEW x \in Int, NEW y \in Int, NEW r \in Nat \ {0}, x * r <= y * r
  PROVE  x <= y
<1> SUFFICES ASSUME y + 1 <= x
             PROVE  FALSE
  OBVIOUS
<1>1. (y + 1) * r <= x * r
  BY TimesIsMonotone
<1>2. (y + 1) * r = y * r + r /\ y * r \in Int /\ x * r \in Int
  OBVIOUS
<1> QED
  BY <1>1, <1>2

LEMMA LargerSize ==
  ASSUME NEW a \in Int, NEW b \in Int
  PROVE  /\ Size(a - b) \in Nat
         /\ Max({Size(a), Size(b)}) \in Nat
<1>1. \A x \in Int : Size(x) \in Nat
  BY DEF Size
<1>2. Size(a) \in Nat /\ Size(b) \in Nat /\ Size(a - b) \in Nat
  BY <1>1
<1> DEFINE S == {Size(a), Size(b)}
<1>3. IsFiniteSet(S)
  <2>1. IsFiniteSet({Size(a)})
    BY FS_Singleton
  <2>2. S = {Size(a)} \cup {Size(b)}
    OBVIOUS
  <2> HIDE DEF S
  <2> QED
    BY <2>1, <2>2, FS_AddElement
<1>4. S # {} /\ S \subseteq Nat
  BY <1>2
<1>5. Max(S) \in S
  <2> HIDE DEF S
  <2>1. S \subseteq Int
    BY <1>4
  <2> QED
    BY <1>3, <1>4, <2>1, MaxOfNumbers
<1> QED
  BY <1>2, <1>4, <1>5

\* A tie within a tolerance is one within a wider tolerance.
LEMMA WiderTies ==
  ASSUME NEW g \in Nat, NEW M \in Nat, NEW s1 \in Nat, NEW s2 \in Nat \ {0},
         NEW w1 \in Nat, NEW w2 \in Nat \ {0}, w1 * s2 >= s1 * w2, g * s2 <= s1 * M
  PROVE  g * w2 <= w1 * M
<1>1. PICK gs \in Int, sM \in Int, ws \in Int, sw \in Int, gw \in Int, wM \in Int :
        gs = g * s2 /\ sM = s1 * M /\ ws = w1 * s2 /\ sw = s1 * w2 /\ gw = g * w2 /\ wM = w1 * M
  OBVIOUS
<1>2. gs * w2 <= sM * w2
  BY <1>1, TimesIsMonotone
<1>3. sw * M <= ws * M
  BY <1>1, TimesIsMonotone
<1>4. gs * w2 = gw * s2
  BY <1>1
<1>5. sM * w2 = sw * M
  BY <1>1
<1>6. ws * M = wM * s2
  BY <1>1
<1>7. gw * s2 <= wM * s2
  <2>1. /\ gs * w2 \in Int /\ sM * w2 \in Int /\ ws * M \in Int
    OBVIOUS
  <2> QED
    BY <1>2, <1>3, <1>4, <1>5, <1>6, <2>1
<1>8. gw <= wM
  BY <1>7, TimesCancels
<1> QED
  BY <1>1, <1>8

LEMMA OutcomeWidens ==
  ASSUME NEW a \in Int, NEW b \in Int,
         NEW s \in Nat \X (Nat \ {0}), NEW w \in Nat \X (Nat \ {0}), Wider(w, s)
  PROVE  QualityOutcome(a, b, w) \in {QualityOutcome(a, b, s), "tie"}
<1>1. PICK g \in Nat, M \in Nat : g = Size(a - b) /\ M = Max({Size(a), Size(b)})
  BY LargerSize
<1>2. \A t : QualityOutcome(a, b, t) = IF g * t[2] <= t[1] * M THEN "tie"
                                       ELSE IF a < b THEN "qpu" ELSE "cpu"
  BY <1>1 DEF QualityOutcome
<1>3. g * s[2] <= s[1] * M => g * w[2] <= w[1] * M
  <2>1. s[1] \in Nat /\ s[2] \in Nat \ {0} /\ w[1] \in Nat /\ w[2] \in Nat \ {0}
    OBVIOUS
  <2>2. w[1] * s[2] >= s[1] * w[2]
    BY DEF Wider
  <2> QED
    BY <2>1, <2>2, WiderTies
<1> QED
  BY <1>2, <1>3

LEMMA ColumnsOfPair ==
  ASSUME NEW a \in Int, NEW b \in Int
  PROVE  /\ ColumnsWiden(QualityColumns(a, b))
         /\ \A t \in DOMAIN Tolerances : QualityColumns(a, b)[t] \in Outcomes
         /\ QualityColumns(a, b).numeric = QualityOutcome(a, b, Tolerances.numeric)
<1> DEFINE c == QualityColumns(a, b)
<1>1. DOMAIN Tolerances = {"strict", "numeric", "material"}
  BY TolerancesAssumption
<1>2. /\ c.strict = QualityOutcome(a, b, Tolerances.strict)
      /\ c.numeric = QualityOutcome(a, b, Tolerances.numeric)
      /\ c.material = QualityOutcome(a, b, Tolerances.material)
  BY <1>1 DEF QualityColumns
<1>3. \A t : QualityOutcome(a, b, t) \in Outcomes
  BY DEF QualityOutcome, Outcomes
<1>4. /\ Tolerances["strict"] \in Nat \X (Nat \ {0}) /\ Tolerances["numeric"] \in Nat \X (Nat \ {0})
      /\ Tolerances["material"] \in Nat \X (Nat \ {0})
  BY TolerancesAssumption
<1>5. c.numeric \in {c.strict, "tie"}
  BY <1>2, <1>4, TolerancesAssumption, OutcomeWidens
<1>6. c.material \in {c.numeric, "tie"}
  BY <1>2, <1>4, TolerancesAssumption, OutcomeWidens
<1>7. \A t \in DOMAIN Tolerances : c[t] \in Outcomes
  BY <1>3 DEF QualityColumns
<1> QED
  BY <1>2, <1>5, <1>6, <1>7 DEF ColumnsWiden

LEMMA TallyAddsUp ==
  ASSUME NEW f, IsFiniteSet(DOMAIN f), \A m \in DOMAIN f : f[m] \in Outcomes
  PROVE  Tally(f).qpu + Tally(f).tie + Tally(f).cpu = Cardinality(DOMAIN f)
<1> DEFINE D == DOMAIN f
           Q == {m \in D : f[m] = "qpu"}
           T == {m \in D : f[m] = "tie"}
           C == {m \in D : f[m] = "cpu"}
<1>1. Tally(f).qpu = Cardinality(Q) /\ Tally(f).tie = Cardinality(T) /\ Tally(f).cpu = Cardinality(C)
  BY DEF Tally, Outcomes
<1>2. Q \in SUBSET D /\ T \in SUBSET (D \ Q) /\ C = (D \ Q) \ T
  BY DEF Outcomes
<1> HIDE DEF D, Q, T, C
<1>3. IsFiniteSet(D)
  BY DEF D
<1>4. /\ Cardinality(D) = Cardinality(Q) + Cardinality(D \ Q)
      /\ Cardinality(Q) \in Nat /\ Cardinality(D \ Q) \in Nat /\ IsFiniteSet(D \ Q)
  BY <1>2, <1>3, CountOfPart, FS_Subset
<1>5. /\ Cardinality(D \ Q) = Cardinality(T) + Cardinality(C)
      /\ Cardinality(T) \in Nat /\ Cardinality(C) \in Nat
  BY <1>2, <1>4, CountOfPart
<1>6. Cardinality(Q) + Cardinality(T) + Cardinality(C) = Cardinality(D)
  BY <1>4, <1>5
<1> QED
  BY <1>1, <1>6 DEF D

-----------------------------------------------------------------------------
(* The report: equal time.                                                 *)

ArePoints(points) ==
  /\ IsFiniteSet(points)
  /\ \A p \in points : p.sweeps \in Int /\ p.time \in Int /\ p.energy \in Int

LEMMA PointsAreNumbers ==
  ASSUME NEW n \in Nat, NEW rows, DOMAIN rows = 1 .. n, \A i \in 1 .. n : IsRow(rows[i]),
         NEW kernel, NEW model
  PROVE  ArePoints(Points(rows, kernel, model))
<1> DEFINE I == {i \in DOMAIN rows : /\ rows[i].kernel = kernel /\ rows[i].model = model
                                     /\ Comparable(rows[i]) /\ rows[i].sampling # {}}
           f == [i \in I |-> [sweeps |-> rows[i].sweeps, time |-> Only(rows[i].sampling),
                              energy |-> Only(rows[i].best)]]
           points == Points(rows, kernel, model)
<1>1. points = {f[i] : i \in I}
  BY DEF Points
<1>2. I \in SUBSET (1 .. n)
  OBVIOUS
<1>3. IsFiniteSet(points)
  <2> HIDE DEF I, f, points
  <2> QED
    BY <1>1, <1>2, NumbersUpTo, ImageIsFinite
<1>4. ASSUME NEW i \in I
      PROVE  f[i].sweeps \in Int /\ f[i].time \in Int /\ f[i].energy \in Int
  <2>1. IsRow(rows[i]) /\ Comparable(rows[i]) /\ rows[i].sampling # {}
    BY <1>2
  <2>2. Only(rows[i].sampling) \in Int
    BY <2>1, OnlyMember DEF IsRow
  <2>3. Only(rows[i].best) \in Int
    BY <2>1, MaybeOrNot
  <2>4. rows[i].sweeps \in Int
    BY <2>1 DEF IsRow
  <2>5. f[i] = [sweeps |-> rows[i].sweeps, time |-> Only(rows[i].sampling),
                energy |-> Only(rows[i].best)]
    OBVIOUS
  <2> HIDE DEF f
  <2> QED
    BY <2>2, <2>3, <2>4, <2>5
<1> HIDE DEF I, f, points
<1>5. \A p \in points : p.sweeps \in Int /\ p.time \in Int /\ p.energy \in Int
  BY <1>1, <1>4
<1> QED
  BY <1>3, <1>5 DEF ArePoints, points

\* What is within the budget is not empty, and its deepest point is in it.
LEMMA DeepestIsAffordable ==
  ASSUME NEW points, ArePoints(points), points # {}, NEW c, c.access \in Int, ~OverBudget(points, c)
  PROVE  Deepest(Affordable(points, c)) \in Affordable(points, c)
<1>1. \E p \in points : \A o \in points : p.sweeps <= o.sweeps
  <2> DEFINE f == [p \in points |-> p.sweeps]
  <2>1. \A p \in points : f[p] \in Int /\ f[p] = p.sweeps
    BY DEF ArePoints
  <2> HIDE DEF f
  <2>2. \E p \in points : \A o \in points : f[p] <= f[o]
    BY <2>1, LeastOf DEF ArePoints
  <2> QED
    BY <2>1, <2>2
<1>2. Shallowest(points) \in points
  BY <1>1, Zenon DEF Shallowest
<1>3. Shallowest(points) \in Affordable(points, c)
  BY <1>2 DEF OverBudget, Affordable, ArePoints
<1> DEFINE A == Affordable(points, c)
<1>4. A \in SUBSET points /\ A # {}
  BY <1>3 DEF Affordable
<1>5. \E p \in A : \A o \in A : p.sweeps >= o.sweeps
  <2> DEFINE f == [p \in A |-> -p.sweeps]
  <2>1. \A p \in A : f[p] \in Int /\ p.sweeps \in Int /\ f[p] = -p.sweeps
    BY <1>4 DEF ArePoints
  <2>2. IsFiniteSet(A)
    BY <1>4, FS_Subset DEF ArePoints
  <2> HIDE DEF f, A
  <2>3. PICK p \in A : \A o \in A : f[p] <= f[o]
    BY <1>4, <2>1, <2>2, LeastOf
  <2>4. \A o \in A : p.sweeps >= o.sweeps
    BY <2>1, <2>3
  <2> QED
    BY <2>4
<1> HIDE DEF A
<1>6. Deepest(A) \in A
  BY <1>5, Zenon DEF Deepest
<1> QED
  BY <1>6 DEF A

\* What does not lose within the budget has reached the energy within it.
LEMMA ReachedInTime ==
  ASSUME NEW points, ArePoints(points), NEW c, c.access \in Int, NEW d \in Affordable(points, c),
         QualityOutcome(c.energy, d.energy, Tolerances.numeric) # "qpu"
  PROVE  /\ Reaching(points, c) # {}
         /\ Min({p.time : p \in Reaching(points, c)}) <= c.access
<1> DEFINE R == Reaching(points, c)
           T == {p.time : p \in R}
<1>1. d \in R /\ d.time <= c.access /\ R \in SUBSET points
  BY DEF Affordable, Reaching
<1>2. T \subseteq Int /\ d.time \in T
  BY <1>1 DEF ArePoints
<1>3. IsFiniteSet(T)
  <2> DEFINE f == [p \in R |-> p.time]
  <2>1. T = {f[p] : p \in R}
    OBVIOUS
  <2>2. IsFiniteSet(R)
    BY <1>1, FS_Subset DEF ArePoints
  <2> HIDE DEF f, R, T
  <2> QED
    BY <2>1, <2>2, ImageIsFinite
<1>4. Min(T) \in T /\ Min(T) <= d.time
  <2> HIDE DEF T
  <2> QED
    BY <1>2, <1>3, MinOfNumbers
<1>5. Min(T) <= c.access
  <2>1. Min(T) \in Int /\ d.time \in Int
    BY <1>2, <1>4
  <2> QED
    BY <1>1, <1>4, <2>1
<1> QED
  BY <1>1, <1>5

LEMMA MatchedRowsAddUp ==
  ASSUME NEW q, NEW n \in Nat, DOMAIN MatchedRows(q) = 1 .. n,
         \A i \in 1 .. n : IsRow(MatchedRows(q)[i]), AreCaptures(q.captures), NEW kernel
  PROVE  /\ MatchedAddsUp(q, MatchedRow(q, kernel))
         /\ \A m \in DOMAIN MatchedRow(q, kernel).columns : ColumnsWiden(MatchedRow(q, kernel).columns[m])
<1> DEFINE caps == q.captures
           points == [m \in DOMAIN q.captures |-> Points(MatchedRows(q), kernel, m)]
           models == {m \in DOMAIN q.captures : points[m] # {}}
           priced == {m \in models : q.captures[m].access > 0}
           equal == {m \in priced : ~OverBudget(points[m], q.captures[m])}
           reached == {m \in priced : Reaching(points[m], q.captures[m]) # {}}
           Best(m) == Deepest(Affordable(points[m], q.captures[m]))
           columns == [m \in equal |-> QualityColumns(q.captures[m].energy, Best(m).energy)]
           column(t) == [m \in equal |-> columns[m][t]]
           times == [m \in reached |-> Min({p.time : p \in Reaching(points[m], q.captures[m])})]
           row == MatchedRow(q, kernel)
<1>1. row = [models |-> models, over |-> priced \ equal, columns |-> columns,
             tallies |-> [t \in DOMAIN Tolerances |-> Tally(column(t))],
             times |-> times, notReached |-> Cardinality(models) - Cardinality(reached)]
  BY DEF MatchedRow
<1>2. /\ IsFiniteSet(DOMAIN caps)
      /\ \A m \in DOMAIN caps : caps[m].energy \in Int /\ caps[m].access \in Int
  BY DEF AreCaptures
<1>3. \A m \in DOMAIN caps : ArePoints(points[m])
  BY PointsAreNumbers
<1>4. /\ models \in SUBSET (DOMAIN caps) /\ priced \in SUBSET models
      /\ equal \in SUBSET priced /\ reached \in SUBSET models /\ \A m \in models : points[m] # {}
  OBVIOUS
<1>5. IsFiniteSet(models) /\ IsFiniteSet(priced) /\ IsFiniteSet(equal)
  <2> HIDE DEF models, priced, equal, caps
  <2> QED
    BY <1>2, <1>4, FS_Subset
<1>6. \A m \in equal : ~OverBudget(points[m], caps[m])
  OBVIOUS
<1>7. \A m \in priced : Reaching(points[m], caps[m]) # {} => m \in reached
  OBVIOUS
<1>8. \A m \in equal : columns[m] = QualityColumns(caps[m].energy, Best(m).energy)
  OBVIOUS
<1>9. \A m \in reached : times[m] = Min({p.time : p \in Reaching(points[m], caps[m])})
  OBVIOUS
<1>10. \A m \in equal : Best(m) = Deepest(Affordable(points[m], caps[m]))
  OBVIOUS
<1>11. DOMAIN columns = equal /\ DOMAIN times = reached
       /\ \A t : DOMAIN column(t) = equal /\ \A m \in equal : column(t)[m] = columns[m][t]
  OBVIOUS
<1>12. priced = {m \in models : caps[m].access > 0}
  OBVIOUS
<1> HIDE DEF caps, points, models, priced, equal, reached, Best, columns, column, times, row
<1>13. ASSUME NEW m \in equal
       PROVE  /\ Best(m) \in Affordable(points[m], caps[m])
              /\ Best(m).energy \in Int
  <2>1. ArePoints(points[m]) /\ points[m] # {} /\ caps[m].access \in Int
    BY <1>2, <1>3, <1>4
  <2>2. Best(m) \in Affordable(points[m], caps[m])
    BY <1>6, <1>10, <2>1, DeepestIsAffordable
  <2> QED
    BY <2>1, <2>2 DEF Affordable, ArePoints
<1>14. ASSUME NEW m \in equal
       PROVE  /\ ColumnsWiden(columns[m])
              /\ \A t \in DOMAIN Tolerances : columns[m][t] \in Outcomes
              /\ columns[m].numeric = QualityOutcome(caps[m].energy, Best(m).energy, Tolerances.numeric)
  <2>1. caps[m].energy \in Int /\ Best(m).energy \in Int
    BY <1>2, <1>4, <1>13
  <2> QED
    BY <1>8, <2>1, ColumnsOfPair
<1>15. ASSUME NEW t \in DOMAIN Tolerances
       PROVE  /\ Tally(column(t)).qpu + Tally(column(t)).tie + Tally(column(t)).cpu = Cardinality(equal)
  <2>1. IsFiniteSet(DOMAIN column(t)) /\ \A m \in DOMAIN column(t) : column(t)[m] \in Outcomes
    BY <1>5, <1>11, <1>14
  <2> QED
    BY <1>11, <2>1, TallyAddsUp
<1>16. Cardinality(equal) + Cardinality(priced \ equal) = Cardinality(priced)
  BY <1>4, <1>5, CountOfPart
<1>17. \A m \in equal : columns[m].numeric # "qpu" => m \in reached /\ times[m] <= caps[m].access
  <2> SUFFICES ASSUME NEW m \in equal, columns[m].numeric # "qpu"
               PROVE  m \in reached /\ times[m] <= caps[m].access
    OBVIOUS
  <2>1. ArePoints(points[m]) /\ caps[m].access \in Int /\ m \in priced
    BY <1>2, <1>3, <1>4
  <2>2. /\ Best(m) \in Affordable(points[m], caps[m])
        /\ QualityOutcome(caps[m].energy, Best(m).energy, Tolerances.numeric) # "qpu"
    BY <1>13, <1>14
  <2>3. /\ Reaching(points[m], caps[m]) # {}
        /\ Min({p.time : p \in Reaching(points[m], caps[m])}) <= caps[m].access
    BY <2>1, <2>2, ReachedInTime
  <2> QED
    BY <1>7, <1>9, <2>1, <2>3
<1>18. Cardinality(models) - Cardinality(reached) = Cardinality(models \ reached)
  <2>1. /\ Cardinality(models) = Cardinality(reached) + Cardinality(models \ reached)
        /\ Cardinality(reached) \in Nat /\ Cardinality(models \ reached) \in Nat
    BY <1>4, <1>5, CountOfPart
  <2> QED
    BY <2>1
<1>19. /\ row.models = models /\ row.over = priced \ equal /\ row.columns = columns
       /\ row.times = times /\ row.notReached = Cardinality(models) - Cardinality(reached)
       /\ \A t \in DOMAIN Tolerances : row.tallies[t] = Tally(column(t))
  BY <1>1
<1>20. MatchedAddsUp(q, row)
  <2>1. \A t \in DOMAIN Tolerances :
          row.tallies[t].qpu + row.tallies[t].tie + row.tallies[t].cpu + Cardinality(row.over)
            = Cardinality({m \in row.models : q.captures[m].access > 0})
    <3>1. {m \in row.models : q.captures[m].access > 0} = priced
      BY <1>12, <1>19 DEF caps
    <3> QED
      BY <1>15, <1>16, <1>19, <3>1
  <2>2. \A m \in DOMAIN row.columns :
          row.columns[m].numeric # "qpu" => m \in DOMAIN row.times /\ row.times[m] <= q.captures[m].access
    BY <1>11, <1>17, <1>19 DEF caps
  <2>3. row.notReached = Cardinality(row.models \ DOMAIN row.times)
    BY <1>11, <1>18, <1>19
  <2> QED
    BY <2>1, <2>2, <2>3 DEF MatchedAddsUp
<1>21. \A m \in DOMAIN row.columns : ColumnsWiden(row.columns[m])
  BY <1>11, <1>14, <1>19
<1> QED
  BY <1>20, <1>21 DEF row

-----------------------------------------------------------------------------
(* The report: shares and lanes.                                           *)

LEMMA DivideAtLeast ==
  ASSUME NEW b \in Int, NEW m \in Nat \ {0}, NEW c \in Int, c * m <= b
  PROVE  b \div m \in Int /\ c <= b \div m
<1>1. PICK d \in Int : d = b \div m /\ b < d * m + m
  OBVIOUS
<1> SUFFICES ASSUME d + 1 <= c
             PROVE  FALSE
  BY <1>1
<1>2. (d + 1) * m <= c * m
  BY TimesIsMonotone
<1>3. (d + 1) * m = d * m + m /\ d * m \in Int /\ c * m \in Int
  OBVIOUS
<1> QED
  BY <1>1, <1>2, <1>3

\* A rounded share is at most half a unit away from what it was rounded from.
LEMMA RoundedIsNear ==
  ASSUME NEW c \in Nat, NEW total \in Nat \ {0}, NEW scale \in Nat \ {0}
  PROVE  LET share == RoundedShare(c, total, scale) IN
         /\ share \in Nat
         /\ (2 * share - 1) * total <= 2 * (c * scale)
         /\ 2 * (c * scale) <= (2 * share + 1) * total
<1> DEFINE share == RoundedShare(c, total, scale)
<1>1. PICK x \in Nat : x = c * scale
  OBVIOUS
<1>2. PICK low \in Nat, r \in Nat : low = x \div total /\ r = x % total /\ r < total /\ x = low * total + r
  OBVIOUS
<1>3. share = IF 2 * r > total \/ (2 * r = total /\ low % 2 = 1) THEN low + 1 ELSE low
  BY <1>1, <1>2 DEF RoundedShare
<1>4. PICK y \in Nat : y = low * total
  OBVIOUS
<1>5. /\ (2 * low - 1) * total = 2 * y - total /\ (2 * low + 1) * total = 2 * y + total
      /\ (2 * (low + 1) - 1) * total = 2 * y + total /\ (2 * (low + 1) + 1) * total = 2 * y + 3 * total
  BY <1>4
<1> HIDE DEF share
<1>6. CASE share = low
  <2>1. 2 * r <= total
    BY <1>2, <1>3, <1>6
  <2> QED
    BY <1>1, <1>2, <1>4, <1>5, <1>6, <2>1 DEF share
<1>7. CASE share = low + 1
  <2>1. 2 * r >= total
    BY <1>2, <1>3, <1>7
  <2> QED
    BY <1>1, <1>2, <1>4, <1>5, <1>7, <2>1 DEF share
<1> QED
  BY <1>3, <1>6, <1>7

LEMMA CountIsInRange ==
  ASSUME NEW total \in Nat \ {0}, NEW c \in 0 .. total
  PROVE  LET range == FeasibleRange(RoundedShare(c, total, ShareScale), total) IN
         c \in range.low .. range.high
<1> DEFINE share == RoundedShare(c, total, ShareScale)
           m == 2 * ShareScale
           lower == -((-(2 * share - 1) * total) \div m)
           upper == ((2 * share + 1) * total) \div m
           range == FeasibleRange(share, total)
<1>1. range.low = Max({0, lower}) /\ range.high = Min({total, upper})
  BY DEF FeasibleRange
<1>2. ShareScale \in Nat \ {0} /\ c \in Nat /\ c <= total
  BY ScalesAssumption
<1>3. /\ share \in Nat /\ (2 * share - 1) * total <= 2 * (c * ShareScale)
      /\ 2 * (c * ShareScale) <= (2 * share + 1) * total
  BY <1>2, RoundedIsNear
<1>4. PICK A \in Int, B \in Int, C \in Int :
        /\ A = (2 * share - 1) * total /\ B = (2 * share + 1) * total /\ C = c * m
        /\ A <= C /\ C <= B
  <2>1. c * m = 2 * (c * ShareScale)
    BY <1>2
  <2>2. /\ (2 * share - 1) * total \in Int /\ (2 * share + 1) * total \in Int /\ c * m \in Int
    BY <1>2, <1>3
  <2> QED
    BY <1>3, <2>1, <2>2
<1>5. m \in Nat \ {0} /\ -(2 * share - 1) * total = -A /\ (-c) * m = -C
  <2>1. m \in Nat \ {0}
    BY <1>2
  <2>2. -(2 * share - 1) * total = -A
    BY <1>3, <1>4
  <2> HIDE DEF m
  <2>3. (-c) * m = -(c * m)
    BY <1>2, <2>1
  <2> QED
    BY <1>4, <2>1, <2>2, <2>3
<1> HIDE DEF m, share, range
<1>6. lower \in Int /\ lower <= c
  <2>1. (-c) * m <= -A /\ -A \in Int /\ -c \in Int
    BY <1>2, <1>4, <1>5
  <2>2. (-A) \div m \in Int /\ -c <= (-A) \div m
    BY <1>5, <2>1, DivideAtLeast
  <2>3. lower = -((-A) \div m)
    BY <1>5
  <2> QED
    BY <1>2, <2>2, <2>3
<1>7. upper \in Int /\ c <= upper
  <2>1. B \div m \in Int /\ c <= B \div m
    BY <1>2, <1>4, <1>5, DivideAtLeast
  <2> QED
    BY <1>4, <2>1
<1> HIDE DEF lower, upper
<1>8. Max({0, lower}) \in Int /\ Max({0, lower}) <= c
  <2>1. Max({0, lower}) \in {0, lower}
    <3>1. \E x \in {0, lower} : \A y \in {0, lower} : x >= y
      BY <1>6
    <3> QED
      BY <3>1, Zenon DEF Max
  <2> QED
    BY <1>2, <1>6, <2>1
<1>9. Min({total, upper}) \in Int /\ c <= Min({total, upper})
  BY <1>2, <1>7, MinOfTwo
<1>10. c \in range.low .. range.high
  BY <1>1, <1>2, <1>8, <1>9
<1> QED
  BY <1>10 DEF range, share

LEMMA ShownIsAll ==
  ASSUME NEW total \in Nat \ {0}, NEW c \in 0 .. total
  PROVE  LET shown == ShownPercent(c, total) IN
         (shown.percent = 100 * PercentScale /\ ~shown.below) <=> c = total
<1> DEFINE p == RoundedShare(100 * c, total, PercentScale)
<1>1. /\ ShownPercent(c, total).percent = p
      /\ ShownPercent(c, total).below <=> (c < total /\ p = 100 * PercentScale)
  BY DEF ShownPercent
<1>2. ASSUME c = total
      PROVE  p = 100 * PercentScale
  <2>1. PICK k \in Nat : k = 100 * PercentScale
    BY ScalesAssumption
  <2>2. (100 * c) * PercentScale = k * total
    BY <1>2, <2>1, ScalesAssumption
  <2>3. (k * total) \div total = k /\ (k * total) % total = 0
    OBVIOUS
  <2>4. p = k
    BY <2>2, <2>3 DEF RoundedShare
  <2> QED
    BY <2>1, <2>4
<1> HIDE DEF p
<1>3. c < total <=> c # total
  OBVIOUS
<1>4. (p = 100 * PercentScale /\ ~(c < total /\ p = 100 * PercentScale)) <=> c = total
  BY <1>2, <1>3
<1> QED
  BY <1>1, <1>4

AreReads(reads) ==
  /\ reads \in Seq(Range(reads))
  /\ \A a, b \in Range(reads) : IsFiniteSet(DOMAIN a) /\ a \in [DOMAIN b -> Range(a)]

LEMMA DistanceOfReads ==
  ASSUME NEW a, NEW b, IsFiniteSet(DOMAIN a), a \in [DOMAIN b -> Range(a)], b \in [DOMAIN a -> Range(b)]
  PROVE  Distance(a, b) \in Nat /\ (Distance(a, b) = 0 <=> a = b)
<1> DEFINE D == {v \in DOMAIN a : a[v] # b[v]}
<1>1. IsFiniteSet(D)
  BY FS_Subset
<1>2. Cardinality(D) \in Nat /\ (Cardinality(D) = 0 <=> D = {})
  <2> HIDE DEF D
  <2> QED
    BY <1>1, FS_EmptySet, FS_CardinalityType
<1>3. D = {} <=> a = b
  OBVIOUS
<1> QED
  BY <1>2, <1>3 DEF Distance

LEMMA UniqueReads ==
  ASSUME NEW batch, batch \in Seq(Range(batch))
  PROVE  /\ Cardinality(Range(batch)) \in Nat
         /\ Cardinality(Range(batch)) < Len(batch) <=>
              \E i, j \in 1 .. Len(batch) : i < j /\ batch[i] = batch[j]
<1> DEFINE n == Len(batch)
           R == Range(batch)
<1>1. n \in Nat /\ DOMAIN batch = 1 .. n
  BY LenProperties
<1>2. batch \in Surjection(1 .. n, R)
  <2>1. batch \in [1 .. n -> R]
    BY LenProperties
  <2> QED
    BY <1>1, <2>1 DEF Surjection, Range
<1> HIDE DEF R, n
<1>3. IsFiniteSet(1 .. n) /\ Cardinality(1 .. n) = n
  <2>1. 1 \in Int /\ n \in Int
    BY <1>1
  <2>2. IsFiniteSet(1 .. n) /\ Cardinality(1 .. n) = IF 1 > n THEN 0 ELSE n - 1 + 1
    BY <2>1, FS_Interval
  <2> QED
    BY <1>1, <2>2
<1>4. /\ IsFiniteSet(R) /\ Cardinality(R) <= n
      /\ Cardinality(R) = n <=> batch \in Injection(1 .. n, R)
  BY <1>2, <1>3, FS_Surjection
<1>5. Cardinality(R) \in Nat
  BY <1>4, FS_CardinalityType
<1>6. batch \in Injection(1 .. n, R) <=> \A i, j \in 1 .. n : batch[i] = batch[j] => i = j
  BY <1>2 DEF Injection, Surjection, IsInjective
<1>7. (\A i, j \in 1 .. n : batch[i] = batch[j] => i = j) <=>
        ~\E i, j \in 1 .. n : i < j /\ batch[i] = batch[j]
  BY <1>1
<1>8. Cardinality(R) < n <=> \E i, j \in 1 .. n : i < j /\ batch[i] = batch[j]
  BY <1>1, <1>4, <1>5, <1>6, <1>7
<1> QED
  BY <1>5, <1>8 DEF R, n

LEMMA BatchIsDiverse ==
  ASSUME NEW batch, AreReads(batch)
  PROVE  Diversity(batch).minimum = {0} <=> Diversity(batch).unique < Len(batch)
<1> DEFINE n == Len(batch)
           pairs == {x \in (1 .. n) \X (1 .. n) : x[1] < x[2]}
           D == Distances(batch)
<1>1. /\ n \in Nat /\ DOMAIN batch = 1 .. n /\ \A i \in 1 .. n : batch[i] \in Range(batch)
  BY LenProperties, ElementOfSeq DEF AreReads
<1>2. /\ Diversity(batch).unique = Cardinality(Range(batch))
      /\ Diversity(batch).minimum = IF n < 2 THEN {} ELSE {Min(D)}
  BY DEF Diversity
<1>3. /\ Cardinality(Range(batch)) \in Nat
      /\ Cardinality(Range(batch)) < n <=> \E i, j \in 1 .. n : i < j /\ batch[i] = batch[j]
  BY UniqueReads DEF AreReads
<1>4. \A i, j \in 1 .. n : Distance(batch[i], batch[j]) \in Nat
                           /\ (Distance(batch[i], batch[j]) = 0 <=> batch[i] = batch[j])
  <2> SUFFICES ASSUME NEW i \in 1 .. n, NEW j \in 1 .. n
               PROVE  Distance(batch[i], batch[j]) \in Nat
                      /\ (Distance(batch[i], batch[j]) = 0 <=> batch[i] = batch[j])
    OBVIOUS
  <2>1. batch[i] \in Range(batch) /\ batch[j] \in Range(batch)
    BY <1>1
  <2> DEFINE a == batch[i]
             b == batch[j]
  <2>2. IsFiniteSet(DOMAIN a) /\ a \in [DOMAIN b -> Range(a)] /\ b \in [DOMAIN a -> Range(b)]
    BY <2>1 DEF AreReads
  <2> HIDE DEF a, b
  <2>3. Distance(a, b) \in Nat /\ (Distance(a, b) = 0 <=> a = b)
    BY <2>2, DistanceOfReads
  <2> QED
    BY <2>3 DEF a, b
<1>5. CASE n < 2
  <2>1. ~\E i, j \in 1 .. n : i < j
    BY <1>1, <1>5
  <2> QED
    BY <1>2, <1>3, <1>5, <2>1
<1>6. CASE ~(n < 2)
  <2>1. D = {Distance(batch[p[1]], batch[p[2]]) : p \in pairs}
    BY <1>1 DEF Distances
  <2>2. \A d \in D : \E i, j \in 1 .. n : i < j /\ d = Distance(batch[i], batch[j])
    BY <2>1
  <2>3. \A i, j \in 1 .. n : i < j => Distance(batch[i], batch[j]) \in D
    <3> SUFFICES ASSUME NEW i \in 1 .. n, NEW j \in 1 .. n, i < j
                 PROVE  Distance(batch[i], batch[j]) \in D
      OBVIOUS
    <3>1. <<i, j>> \in pairs /\ <<i, j>>[1] = i /\ <<i, j>>[2] = j
      OBVIOUS
    <3> HIDE DEF pairs, D
    <3> QED
      BY <2>1, <3>1
  <2>4. IsFiniteSet(D)
    <3> DEFINE f == [p \in pairs |-> Distance(batch[p[1]], batch[p[2]])]
    <3>1. IsFiniteSet((1 .. n) \X (1 .. n))
      <4>1. IsFiniteSet(1 .. n)
        BY <1>1, NumbersUpTo
      <4> HIDE DEF n
      <4> QED
        BY <4>1, FS_Product
    <3>2. IsFiniteSet(pairs)
      BY <3>1, FS_Subset
    <3>3. D = {f[p] : p \in pairs}
      BY <2>1
    <3> HIDE DEF pairs, f, D
    <3> QED
      BY <3>2, <3>3, ImageIsFinite
  <2>5. D \subseteq Nat /\ D # {}
    <3>1. 1 \in 1 .. n /\ 2 \in 1 .. n /\ 1 < 2
      BY <1>1, <1>6
    <3> HIDE DEF D
    <3>2. D # {}
      BY <2>3, <3>1
    <3>3. \A d \in D : d \in Nat
      BY <1>4, <2>2
    <3> QED
      BY <3>2, <3>3
  <2> HIDE DEF D, pairs, n
  <2>6. Min(D) \in D /\ \A d \in D : Min(D) <= d
    <3>1. D \subseteq Int
      BY <2>5
    <3> QED
      BY <2>4, <2>5, <3>1, MinOfNumbers
  <2>7. Min(D) = 0 <=> 0 \in D
    <3>1. Min(D) \in Nat
      BY <2>5, <2>6
    <3>2. 0 \in D => Min(D) <= 0
      BY <2>6
    <3> QED
      BY <2>6, <3>1, <3>2
  <2>8. 0 \in D <=> \E i, j \in 1 .. n : i < j /\ batch[i] = batch[j]
    <3>1. 0 \in D => \E i, j \in 1 .. n : i < j /\ batch[i] = batch[j]
      BY <1>4, <2>2
    <3>2. (\E i, j \in 1 .. n : i < j /\ batch[i] = batch[j]) => 0 \in D
      BY <1>4, <2>3
    <3> QED
      BY <3>1, <3>2
  <2>9. Diversity(batch).minimum = {Min(D)}
    BY <1>2, <1>6
  <2> QED
    BY <1>2, <1>3, <2>7, <2>8, <2>9 DEF n
<1> QED
  BY <1>5, <1>6

\* A stretch of the reads is reads.
LEMMA ReadsOfGroup ==
  ASSUME NEW reads, AreReads(reads), NEW from \in Nat \ {0}, NEW to \in Nat, to <= Len(reads)
  PROVE  AreReads(SubSeq(reads, from, to))
<1> DEFINE R == Range(reads)
           part == SubSeq(reads, from, to)
<1>1. Len(reads) \in Nat /\ DOMAIN reads = 1 .. Len(reads) /\ \A i \in 1 .. Len(reads) : reads[i] \in R
  BY LenProperties, ElementOfSeq DEF AreReads
<1>2. \A i \in from .. to : reads[i] \in R
  BY <1>1
<1> HIDE DEF R
<1>3. part \in Seq(R)
  BY <1>2, SubSeqProperties
<1> HIDE DEF part
<1>4. Len(part) \in Nat /\ DOMAIN part = 1 .. Len(part) /\ \A i \in 1 .. Len(part) : part[i] \in R
  BY <1>3, LenProperties, ElementOfSeq
<1>5. Range(part) \subseteq R
  BY <1>4 DEF Range
<1>6. part \in Seq(Range(part))
  <2>1. \A i \in 1 .. Len(part) : part[i] \in Range(part)
    BY <1>4 DEF Range
  <2>2. part = [i \in 1 .. Len(part) |-> part[i]]
    BY <1>3, LenProperties
  <2> QED
    BY <1>4, <2>1, <2>2
<1> QED
  BY <1>5, <1>6 DEF AreReads, R, part

-----------------------------------------------------------------------------
(* The report as a whole.                                                  *)

LEMMA TablesAgree ==
  ASSUME NEW q, q.about = "tables", AreJobs(q.jobs), AreJobs(q.captured), AreCaptures(q.captures),
         q.run # "pilot" => AreOfDifferentArms(q.jobs)
  PROVE  Agrees(q, Tables(q))
<1> DEFINE made == Tables(q)
<1>1. PICK k \in Nat : AreRowsOf(Rows(q), q.jobs, k)
  BY RowsAreLoaded DEF Rows
<1>2. /\ Len(q.jobs) + k \in Nat /\ DOMAIN Rows(q) = 1 .. Len(q.jobs) + k
      /\ \A i \in DOMAIN Rows(q) : IsRow(Rows(q)[i])
  BY <1>1, RowsAreRows
<1>3. PICK n \in Nat : DOMAIN Rows(q) = 1 .. n /\ \A i \in 1 .. n : IsRow(Rows(q)[i])
  BY <1>2
<1>4. PICK N \in Nat : DOMAIN MatchedRows(q) = 1 .. N /\ \A i \in 1 .. N : IsRow(MatchedRows(q)[i])
  <2>1. CASE q.hasCaptured
    <3>1. MatchedRows(q) = Load(q.captured)
      BY <2>1 DEF MatchedRows, CapturedRows
    <3>2. PICK l \in Nat : AreRowsOf(Load(q.captured), q.captured, l)
      BY RowsAreLoaded
    <3>3. /\ Len(q.captured) + l \in Nat /\ DOMAIN Load(q.captured) = 1 .. Len(q.captured) + l
          /\ \A i \in DOMAIN Load(q.captured) : IsRow(Load(q.captured)[i])
      BY <3>2, RowsAreRows
    <3> QED
      BY <3>1, <3>3
  <2>2. CASE ~q.hasCaptured
    BY <1>3, <2>2 DEF MatchedRows
  <2> QED
    BY <2>1, <2>2
<1>5. \A i \in DOMAIN q.jobs : RowIsOfItsJob(q.jobs[i])
  <2> SUFFICES ASSUME NEW i \in DOMAIN q.jobs
               PROVE  RowIsOfItsJob(q.jobs[i])
    OBVIOUS
  <2>1. q.jobs[i] \in Range(q.jobs)
    BY DEF Range
  <2>2. WasTried(q.jobs[i])
    BY <2>1 DEF AreJobs
  <2> QED
    BY <2>2, RowOfJob
<1>6. \A s \in ReportDepths(q) : RoutedIsEither(q, s)
  <2> SUFFICES ASSUME NEW s, q.run # "pilot"
               PROVE  RoutedIsEither(q, s)
    BY DEF RoutedIsEither
  <2>1. AreRowsOf(Rows(q), q.jobs, k) /\ AreOfDifferentArms(q.jobs)
    BY <1>1
  <2> QED
    BY <2>1, RoutedEnergies DEF RoutedIsEither
<1>7. \A x \in DOMAIN made.arms : \A s \in DOMAIN made.arms[x] : ArmAddsUp(made.arms[x][s])
  <2>1. made.arms = [x \in ReportKernels(q) |-> [s \in ReportDepths(q) |-> ArmSummary(q, x, s)]]
    BY DEF Tables
  <2>2. \A x, s : ArmAddsUp(ArmSummary(q, x, s))
    BY <1>3, ArmsAddUp
  <2> HIDE DEF made
  <2> QED
    BY <2>1, <2>2
<1>8. \A x \in DOMAIN made.matched :
        /\ MatchedAddsUp(q, made.matched[x])
        /\ \A m \in DOMAIN made.matched[x].columns : ColumnsWiden(made.matched[x].columns[m])
  <2>1. made.matched = [x \in ReportKernels(q) |-> MatchedRow(q, x)]
    BY DEF Tables
  <2>2. \A x : /\ MatchedAddsUp(q, MatchedRow(q, x))
               /\ \A m \in DOMAIN MatchedRow(q, x).columns : ColumnsWiden(MatchedRow(q, x).columns[m])
    BY <1>4, MatchedRowsAddUp
  <2> HIDE DEF made
  <2> QED
    BY <2>1, <2>2
<1> HIDE DEF made
<1>9. Agrees(q, made)
  BY <1>5, <1>6, <1>7, <1>8 DEF Agrees
<1> QED
  BY <1>9 DEF made

LEMMA MadeAgrees ==
  ASSUME NEW q \in ReportRequests
  PROVE  Agrees(q, MadeOf(q))
<1> DEFINE made == MadeOf(q)
<1>0. \/ /\ q.about = "tables"
         /\ AreJobs(q.jobs) /\ AreJobs(q.captured) /\ AreCaptures(q.captures)
         /\ q.run # "pilot" => AreOfDifferentArms(q.jobs)
      \/ q.about = "share" /\ q.total \in Nat \ {0} /\ q.count \in 0 .. q.total
      \/ /\ q.about = "lanes" /\ AreReads(q.reads) /\ q.seedLanes \in 0 .. Len(q.reads)
  BY ReportRequestsAssumption DEF AreReads
<1>1. CASE q.about = "tables"
  <2>1. MadeOf(q) = Tables(q)
    BY <1>1 DEF MadeOf
  <2> QED
    BY <1>0, <1>1, <2>1, TablesAgree
<1>2. CASE q.about = "share"
  <2> DEFINE range == FeasibleRange(RoundedShare(q.count, q.total, ShareScale), q.total)
             shown == ShownPercent(q.count, q.total)
  <2>1. made = [range |-> range, shown |-> shown]
    BY <1>2 DEF MadeOf
  <2>2. q.total \in Nat \ {0} /\ q.count \in 0 .. q.total
    BY <1>0, <1>2
  <2>3. q.count \in range.low .. range.high
    BY <2>2, CountIsInRange
  <2>4. (shown.percent = 100 * PercentScale /\ ~shown.below) <=> q.count = q.total
    BY <2>2, ShownIsAll
  <2> HIDE DEF range, shown, made
  <2>5. made.range = range /\ made.shown = shown
    BY <2>1
  <2>6. Agrees(q, made)
    BY <1>2, <2>3, <2>4, <2>5 DEF Agrees
  <2> QED
    BY <2>6 DEF made
<1>3. CASE q.about = "lanes"
  <2>1. made = [g \in 1 .. 2 |-> Diversity(LaneGroups(q)[g])]
    BY <1>3 DEF MadeOf
  <2>2. AreReads(q.reads) /\ q.seedLanes \in 0 .. Len(q.reads) /\ Len(q.reads) \in Nat
    BY <1>0, <1>3, LenProperties DEF AreReads
  <2>3. AreReads(LaneGroups(q)[1]) /\ AreReads(LaneGroups(q)[2])
    <3>1. AreReads(SubSeq(q.reads, 1, q.seedLanes))
      BY <2>2, ReadsOfGroup
    <3>2. AreReads(SubSeq(q.reads, q.seedLanes + 1, Len(q.reads)))
      <4>1. q.seedLanes + 1 \in Nat \ {0}
        BY <2>2
      <4> QED
        BY <2>2, <4>1, ReadsOfGroup
    <3> QED
      BY <3>1, <3>2 DEF LaneGroups
  <2>4. \A g \in 1 .. 2 : AreReads(LaneGroups(q)[g])
    BY <2>3
  <2>5. \A g \in 1 .. 2 : Diversity(LaneGroups(q)[g]).minimum = {0}
                            <=> Diversity(LaneGroups(q)[g]).unique < Len(LaneGroups(q)[g])
    BY <2>4, BatchIsDiverse
  <2> HIDE DEF made
  <2>6. Agrees(q, made)
    BY <1>3, <2>1, <2>5 DEF Agrees
  <2> QED
    BY <2>6 DEF made
<1> QED
  BY <1>0, <1>1, <1>2, <1>3

\* A report that is written is what is made of its request.
ReportInv ==
  \E q \in ReportRequests :
    \/ report = [written |-> FALSE, request |-> q]
    \/ report = [written |-> TRUE, request |-> q, made |-> MadeOf(q)]

LEMMA ReportInvInductive == ReportSpec => []ReportInv
<1>1. ReportInit => ReportInv
  BY DEF ReportInit, ReportInv
<1>2. ReportInv /\ [WriteReport]_report => ReportInv'
  <2> SUFFICES ASSUME ReportInv, [WriteReport]_report
               PROVE  ReportInv'
    OBVIOUS
  <2>1. CASE UNCHANGED report
    BY <2>1 DEF ReportInv
  <2>2. CASE WriteReport
    <3>1. PICK q \in ReportRequests : report = [written |-> FALSE, request |-> q]
      BY <2>2 DEF ReportInv, WriteReport
    <3>2. report' = [written |-> TRUE, request |-> q, made |-> MadeOf(q)]
      BY <2>2, <3>1 DEF WriteReport
    <3> QED
      BY <3>2 DEF ReportInv
  <2> QED
    BY <2>1, <2>2
<1> QED
  BY <1>1, <1>2, PTL DEF ReportSpec

\* Of every campaign, for any attempts, tolerances and reads: rows join two
\* attempts of their job, the routed arm has the energies of the unit kernel
\* where that ran and of the other one elsewhere, counts add up, rounded shares
\* cover what they were rounded from, and equal lanes are found
\* (round2_report.py 72-357, 471-603; round2_metrics.py 36-237).
THEOREM ReportsAgree == ReportSpec => []ReportAgrees
<1>1. ReportInv => ReportAgrees
  <2> SUFFICES ASSUME ReportInv, report.written
               PROVE  Agrees(report.request, report.made)
    BY DEF ReportAgrees
  <2>1. PICK q \in ReportRequests : report = [written |-> TRUE, request |-> q, made |-> MadeOf(q)]
    BY DEF ReportInv
  <2>2. report.request = q /\ report.made = MadeOf(q)
    BY <2>1
  <2>3. Agrees(q, MadeOf(q))
    BY MadeAgrees
  <2> QED
    BY <2>2, <2>3
<1> QED
  BY <1>1, ReportInvInductive, PTL

-----------------------------------------------------------------------------
(* The runner and the report.                                              *)

\* A success is shown as soon as there is one.
LEMMA ShownIfAny ==
  ASSUME NEW attempts \in Seq(Record)
  PROVE  ShownAsSuccess(attempts) <=> \E i \in 1 .. Len(attempts) : attempts[i].kind \in ExitOk
<1> DEFINE n == Len(attempts)
           ok == [i \in DOMAIN attempts |-> attempts[i].kind \in ExitOk]
           shown == QualityAttempt(ok)
<1>1. n \in Nat /\ DOMAIN attempts = 1 .. n /\ (attempts # <<>> <=> n # 0)
  BY LenProperties, EmptySeq
<1>2. DOMAIN ok = 1 .. n /\ \A i \in 1 .. n : ok[i] <=> attempts[i].kind \in ExitOk
  BY <1>1
<1>3. ASSUME \E i \in 1 .. n : attempts[i].kind \in ExitOk
      PROVE  ShownAsSuccess(attempts)
  <2>1. shown \in 1 .. n /\ ok[shown]
    <3>1. \E i \in 1 .. n : ok[i]
      BY <1>2, <1>3
    <3> HIDE DEF ok, n
    <3> QED
      BY <1>1, <1>2, <3>1, ShownAttempt
  <2>2. attempts # <<>>
    BY <1>1, <2>1
  <2>3. attempts[shown].kind \in ExitOk
    BY <1>2, <2>1
  <2> QED
    BY <2>2, <2>3 DEF ShownAsSuccess
<1>4. ASSUME ShownAsSuccess(attempts)
      PROVE  \E i \in 1 .. n : attempts[i].kind \in ExitOk
  <2>1. n # 0 /\ attempts[shown].kind \in ExitOk
    BY <1>1, <1>4 DEF ShownAsSuccess
  <2>2. CASE \E i \in 1 .. n : ok[i]
    BY <1>2, <2>2
  <2>3. CASE ~\E i \in 1 .. n : ok[i]
    <3>1. {i \in DOMAIN ok : ok[i]} = {}
      BY <1>2, <2>3
    <3>2. shown = Len(ok)
      BY <3>1 DEF QualityAttempt
    <3>3. Len(ok) = n
      BY <1>1, <1>2
    <3> QED
      BY <1>1, <2>1, <3>2, <3>3
  <2> QED
    BY <2>2, <2>3
<1> QED
  BY <1>3, <1>4

LEMMA SuccessesStay ==
  ASSUME ControlInv, ControlInv', DataInv, OneWriter, [Next]_vars, Undisturbed'
  PROVE  \A j \in Jobs : ShownAsSuccess(records[j]) => ShownAsSuccess(records'[j])
<1> SUFFICES ASSUME NEW j \in Jobs, ShownAsSuccess(records[j])
             PROVE  ShownAsSuccess(records'[j])
  OBVIOUS
<1>1. records[j] \in Seq(Record) /\ records'[j] \in Seq(Record)
  BY DEF ControlInv, TypeInv
<1>2. PICK i \in 1 .. Len(records[j]) : records[j][i].kind \in ExitOk
  BY <1>1, ShownIfAny
<1>3. /\ Len(records[j]) <= Len(records'[j])
      /\ \A k \in 1 .. Len(records[j]) : records'[j][k] = records[j][k]
  BY RecordsStay
<1>4. Len(records[j]) \in Nat /\ Len(records'[j]) \in Nat
  BY <1>1, LenProperties
<1>5. i \in 1 .. Len(records'[j]) /\ records'[j][i].kind \in ExitOk
  BY <1>2, <1>3, <1>4
<1> QED
  BY <1>1, <1>5, ShownIfAny

\* No retry, interruption or resume hides a success from the report
\* (round2_report.py 72-126, round2_cpu.py 122-152).
THEOREM RetriesHideNothing == Spec => RetryHidesNothing
<1>1. /\ ControlInv /\ DataInv /\ OneWriter /\ ControlInv'
      /\ [Next]_vars
      => [Undisturbed' =>
            \A j \in Jobs : ShownAsSuccess(records[j]) => ShownAsSuccess(records'[j])]_vars
  BY SuccessesStay
<1> QED
  BY <1>1, Invariant, PTL DEF Spec, RetryHidesNothing
=============================================================================
