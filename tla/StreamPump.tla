----------------------------- MODULE StreamPump -----------------------------
(***************************************************************************)
(* run_stream_pump (src/lib.rs), the streaming loop every CPU sampler      *)
(* shares.  One pump thread takes jobs from the session's channel, drops   *)
(* those whose generation is cancelled and offers the rest to a bounded    *)
(* queue; a pool of worker threads runs the kernel on them and answers on  *)
(* the result channel.  A step here is one channel operation, one read of  *)
(* the cancel token or one kernel call of one thread.                      *)
(*                                                                         *)
(* The session, the cancel token and the channels are libraries outside    *)
(* the repository: they are modelled from how run_stream_pump uses them.   *)
(***************************************************************************)
EXTENDS Integers, Sequences, FiniteSets, Functions

CONSTANTS
  Jobs,        \* the jobs the session may send
  Watermark,   \* the generation of each job, or NoMark
  NoMark,      \* a job that belongs to no generation
  NoJob,       \* "no job in hand"
  Polls,       \* TRUE for a kernel that polls the token while it runs
  Host,        \* the parallelism of the host
  Samplers,    \* the samplers a binary may run: algorithm, cores per model
  Tomls,       \* what a Configure may carry: a num_cpus, or NotToml
  NotToml,     \* a backend_toml that does not parse
  Absent,      \* no num_cpus
  InboxCap,    \* capacity of the session's job channel
  OutCap       \* capacity of the session's result channel

ASSUME WatermarkAssumption == Watermark \in [Jobs -> Nat \cup {NoMark}]
ASSUME NoMarkAssumption == NoMark \notin Nat
ASSUME NoJobAssumption == NoJob \notin Jobs
ASSUME PollsAssumption == Polls \in BOOLEAN
ASSUME HostAssumption == Host \in Nat \ {0}
ASSUME SamplersAssumption ==
  Samplers \subseteq [algorithm : {"Sa", "Gibbs"}, workers : Nat]
ASSUME TomlsAssumption ==
  /\ Tomls \subseteq Int \cup {NotToml}
  /\ Absent \notin Int
  /\ NotToml \notin Int
  /\ Absent # NotToml
ASSUME CapAssumption ==
  /\ InboxCap \in Nat \ {0}
  /\ OutCap \in Nat \ {0}

Workers == 1 .. Host

VARIABLES
  unsent,      \* jobs the session has not sent yet
  inbox,       \* the job channel
  jobsClosed,  \* the session dropped its end of the job channel
  sampler,     \* the sampler this binary runs
  numCpus,     \* its core budget, 0 while the operator set none
  asked,       \* the last num_cpus given (history), Absent before
  cancelled,   \* the token: generations below this number are cancelled
  pump,        \* where the pump thread is
  held,        \* the job in the pump's hand
  width,       \* the width the pump read, 0 before that
  joined,      \* how many workers the pump has joined
  work,        \* the bounded hand-off queue
  pc,          \* where each worker thread is
  load,        \* the job each worker runs
  reply,       \* what its kernel returned, then the outcome made of it
  out,         \* the result channel
  outOpen,     \* the session still holds the receiving end of out
  answer,      \* what the session received for each job
  lost,        \* jobs that were dropped with no answer
  stale        \* jobs whose kernel began after their generation was cancelled

configVars == <<sampler, numCpus, asked>>
sessionVars == <<unsent, jobsClosed, configVars>>
pumpVars == <<pump, held, width, joined>>
workerVars == <<pc, load, reply>>
endVars == <<out, outOpen, answer>>
vars == <<sessionVars, inbox, cancelled, pumpVars, work, workerVars, endVars,
          lost, stale>>

Outcomes == {"samples", "reject", "fatal", "cancelled"}
Result == [job : Jobs, outcome : Outcomes]

-----------------------------------------------------------------------------
(* Shared notions *)

\* CancelToken::is_cancelled: a job with no watermark is never cancelled.
CancelledAt(threshold, j) ==
  /\ Watermark[j] # NoMark
  /\ Watermark[j] < threshold

IsCancelled(j) == CancelledAt(cancelled, j)

\* A worker holds its receiver until its thread ends.
Alive(w) == pc[w] \notin {"absent", "exited", "panicked"}

\* The pump returned or re-raised, or a refused configuration ended the
\* process; its frame, with the job channel, is gone.
PumpGone == pump \in {"done", "raised", "exited"}

\* Faulty variant of WorkOpen: the pump keeps its sender while it joins.
WorkTxKept == ~PumpGone

\* work_tx lives until the pump leaves its loop.
WorkOpen == ~PumpGone /\ pump # "join"

\* The queue is discarded with its last receiver: what the end of worker w
\* does to it.
Orphaned(w) == \A v \in Workers \ {w} : ~Alive(v)
WorkAfterEnd(w) == IF Orphaned(w) THEN <<>> ELSE work
OrphanedJobs(w) == IF Orphaned(w) THEN Range(work) ELSE {}

Larger(a, b) == IF a >= b THEN a ELSE b
Smaller(a, b) == IF a <= b THEN a ELSE b

-----------------------------------------------------------------------------
(* The core budget.  The samplers without an apply_config (SB, MPS and      *)
(* flatiron) answer the host parallelism whatever the operator asked for:   *)
(* their sessions are those of an "Sa" sampler that nobody configures.      *)

\* parse_num_cpus: text that is not TOML, zero and negative numbers.
Refused(toml) == toml = NotToml \/ (toml \in Int /\ toml <= 0)

ResolveCoreBudget(requested) == Larger(Smaller(requested, Host), 1)

CoreBudget == IF numCpus = 0 THEN Host ELSE numCpus

\* Chromatic Gibbs spends several cores inside one model.
StreamWidth ==
  IF sampler.algorithm = "Gibbs"
    THEN Larger(CoreBudget \div Larger(sampler.workers, 1), 1)
    ELSE CoreBudget

-----------------------------------------------------------------------------
Init ==
  /\ unsent = Jobs
  /\ inbox = <<>>
  /\ jobsClosed = FALSE
  /\ sampler \in Samplers
  /\ numCpus = 0
  /\ asked = Absent
  /\ cancelled = 0
  /\ pump = "first"
  /\ held = NoJob
  /\ width = 0
  /\ joined = 0
  /\ work = <<>>
  /\ pc = [w \in Workers |-> "absent"]
  /\ load = [w \in Workers |-> NoJob]
  /\ reply = [w \in Workers |-> "none"]
  /\ out = <<>>
  /\ outOpen = TRUE
  /\ answer = [j \in Jobs |-> "none"]
  /\ lost = {}
  /\ stale = {}

-----------------------------------------------------------------------------
(* The session *)

\* apply_config, which the session calls before it sends any job.  A refusal
\* ends the process (exit 64); a backend_toml without num_cpus does nothing.
Configure(toml) ==
  /\ unsent = Jobs
  /\ ~PumpGone
  /\ asked' = toml
  /\ IF Refused(toml)
       THEN pump' = "exited" /\ UNCHANGED numCpus
       ELSE numCpus' = ResolveCoreBudget(toml) /\ UNCHANGED pump
  /\ UNCHANGED <<unsent, jobsClosed, sampler, inbox, cancelled, held, width,
                 joined, work, workerVars, endVars, lost, stale>>

Send(j) ==
  /\ j \in unsent
  /\ ~jobsClosed
  /\ ~PumpGone
  /\ Len(inbox) < InboxCap
  /\ unsent' = unsent \ {j}
  /\ inbox' = Append(inbox, j)
  /\ UNCHANGED <<jobsClosed, configVars, cancelled, pumpVars, work, workerVars,
                 endVars, lost, stale>>

CloseJobs ==
  /\ ~jobsClosed
  /\ jobsClosed' = TRUE
  /\ UNCHANGED <<unsent, configVars, inbox, cancelled, pumpVars, work,
                 workerVars, endVars, lost, stale>>

\* CancelToken::cancel_through(g), for the generation of some job.
CancelThrough(g) ==
  /\ g + 1 > cancelled
  /\ cancelled' = g + 1
  /\ UNCHANGED <<sessionVars, inbox, pumpVars, work, workerVars, endVars,
                 lost, stale>>

Receive ==
  /\ outOpen
  /\ out # <<>>
  /\ out' = Tail(out)
  /\ answer' = [answer EXCEPT ![Head(out).job] = Head(out).outcome]
  /\ UNCHANGED <<sessionVars, inbox, cancelled, pumpVars, work, workerVars,
                 outOpen, lost, stale>>

\* The session stops reading: results still in the channel go with it.
HangUp ==
  /\ outOpen
  /\ outOpen' = FALSE
  /\ out' = <<>>
  /\ lost' = lost \cup {out[i].job : i \in DOMAIN out}
  /\ UNCHANGED <<sessionVars, inbox, cancelled, pumpVars, work, workerVars,
                 answer, stale>>

-----------------------------------------------------------------------------
(* The pump thread *)

\* jobs.blocking_recv() returns a job, the first one or a later one.
Take ==
  /\ pump \in {"first", "recv"}
  /\ inbox # <<>>
  /\ held' = Head(inbox)
  /\ inbox' = Tail(inbox)
  /\ pump' = IF pump = "first" THEN "spawn" ELSE "check"
  /\ UNCHANGED <<sessionVars, cancelled, width, joined, work, workerVars,
                 endVars, lost, stale>>

\* The channel is closed and drained before any job: nothing was started.
NoFirstJob ==
  /\ pump = "first"
  /\ inbox = <<>>
  /\ jobsClosed
  /\ pump' = "done"
  /\ UNCHANGED <<sessionVars, inbox, cancelled, held, width, joined, work,
                 workerVars, endVars, lost, stale>>

\* Faulty variant of Spawn: the width is read before the first job arrives.
SpawnAtStart ==
  /\ pump = "first"
  /\ width = 0
  /\ width' = Larger(StreamWidth, 1)
  /\ pc' = [w \in Workers |-> IF w <= width' THEN "idle" ELSE "absent"]
  /\ pump' = "recv"
  /\ UNCHANGED <<sessionVars, inbox, cancelled, held, joined, work, load,
                 reply, endVars, lost, stale>>

\* The width is read after the first job arrived, and at least one worker
\* is started.
Spawn ==
  /\ pump = "spawn"
  /\ width' = Larger(StreamWidth, 1)
  /\ pc' = [w \in Workers |-> IF w <= width' THEN "idle" ELSE "absent"]
  /\ pump' = "check"
  /\ UNCHANGED <<sessionVars, inbox, cancelled, held, joined, work, load,
                 reply, endVars, lost, stale>>

\* Faulty variant of Check: the token is not consulted.
CheckNothing ==
  /\ pump = "check"
  /\ pump' = "offer"
  /\ UNCHANGED <<sessionVars, inbox, cancelled, held, width, joined, work,
                 workerVars, endVars, lost, stale>>

\* cancel.is_cancelled before the hand-off.
Check ==
  /\ pump = "check"
  /\ pump' = IF IsCancelled(held) THEN "drop" ELSE "offer"
  /\ UNCHANGED <<sessionVars, inbox, cancelled, held, width, joined, work,
                 workerVars, endVars, lost, stale>>

\* Faulty variant of DropHeld: no `continue` after the answer.
DropAndOffer ==
  /\ pump = "drop"
  /\ outOpen
  /\ Len(out) < OutCap
  /\ out' = Append(out, [job |-> held, outcome |-> "cancelled"])
  /\ pump' = "offer"
  /\ UNCHANGED <<sessionVars, inbox, cancelled, held, width, joined, work,
                 workerVars, outOpen, answer, lost, stale>>

\* Faulty variant of DropHeld: the job is dropped with no answer.
DropSilently ==
  /\ pump = "drop"
  /\ held' = NoJob
  /\ pump' = "recv"
  /\ UNCHANGED <<sessionVars, inbox, cancelled, width, joined, work,
                 workerVars, endVars, lost, stale>>

\* A dropped generation is answered here, and the loop continues.
DropHeld ==
  /\ pump = "drop"
  /\ outOpen
  /\ Len(out) < OutCap
  /\ out' = Append(out, [job |-> held, outcome |-> "cancelled"])
  /\ held' = NoJob
  /\ pump' = "recv"
  /\ UNCHANGED <<sessionVars, inbox, cancelled, width, joined, work,
                 workerVars, outOpen, answer, lost, stale>>

\* work_tx.send blocks while the queue is full.
Offer ==
  /\ pump = "offer"
  /\ \E w \in Workers : Alive(w)
  /\ Len(work) < width
  /\ work' = Append(work, held)
  /\ held' = NoJob
  /\ pump' = "recv"
  /\ UNCHANGED <<sessionVars, inbox, cancelled, width, joined, workerVars,
                 endVars, lost, stale>>

\* The loop breaks with a job in hand: nobody reads the result channel, or
\* no worker is left to take the job.
LeaveWithJob ==
  /\ \/ pump = "drop" /\ ~outOpen
     \/ pump = "offer" /\ \A w \in Workers : ~Alive(w)
  /\ pump' = "join"
  /\ held' = NoJob
  /\ lost' = lost \cup {held}
  /\ UNCHANGED <<sessionVars, inbox, cancelled, width, joined, work,
                 workerVars, endVars, stale>>

\* The loop ends with its channel.
Leave ==
  /\ pump = "recv"
  /\ inbox = <<>>
  /\ jobsClosed
  /\ pump' = "join"
  /\ UNCHANGED <<sessionVars, inbox, cancelled, held, width, joined, work,
                 workerVars, endVars, lost, stale>>

\* Faulty variant of Join: the join error is swallowed.
JoinAny ==
  /\ pump = "join"
  /\ joined < width
  /\ pc[joined + 1] \in {"exited", "panicked"}
  /\ joined' = joined + 1
  /\ UNCHANGED <<sessionVars, inbox, cancelled, pump, held, width, work,
                 workerVars, endVars, lost, stale>>

\* Workers are joined in the order they were started.
Join ==
  /\ pump = "join"
  /\ joined < width
  /\ pc[joined + 1] = "exited"
  /\ joined' = joined + 1
  /\ UNCHANGED <<sessionVars, inbox, cancelled, pump, held, width, work,
                 workerVars, endVars, lost, stale>>

\* The function ends, normally or by re-raising a worker's panic; jobs still
\* in the channel go with the receiver.
Return ==
  /\ pump = "join"
  /\ \/ joined = width /\ pump' = "done"
     \/ joined < width /\ pc[joined + 1] = "panicked" /\ pump' = "raised"
  /\ lost' = lost \cup Range(inbox)
  /\ inbox' = <<>>
  /\ UNCHANGED <<sessionVars, cancelled, held, width, joined, work,
                 workerVars, endVars, stale>>

PumpStep ==
  \/ Take \/ NoFirstJob \/ Spawn \/ Check \/ DropHeld \/ Offer
  \/ LeaveWithJob \/ Leave \/ Join \/ Return

-----------------------------------------------------------------------------
(* The worker threads *)

PickUp(w) ==
  /\ pc[w] = "idle"
  /\ work # <<>>
  /\ work' = Tail(work)
  /\ load' = [load EXCEPT ![w] = Head(work)]
  /\ pc' = [pc EXCEPT ![w] = "run"]
  /\ stale' = IF IsCancelled(Head(work)) THEN stale \cup {Head(work)}
                                         ELSE stale
  /\ UNCHANGED <<sessionVars, inbox, cancelled, pumpVars, reply, endVars,
                 lost>>

\* work_rx.iter() ends when the queue is empty and its sender is gone.
WorkerEnd(w) ==
  /\ pc[w] = "idle"
  /\ work = <<>>
  /\ ~WorkOpen
  /\ pc' = [pc EXCEPT ![w] = "exited"]
  /\ UNCHANGED <<sessionVars, inbox, cancelled, pumpVars, work, load, reply,
                 endVars, lost, stale>>

\* The kernel comes back with samples or with an error of its own.
KernelReturn(w, r) ==
  /\ pc[w] = "run"
  /\ reply' = [reply EXCEPT ![w] = r]
  /\ pc' = [pc EXCEPT ![w] = "ran"]
  /\ UNCHANGED <<sessionVars, inbox, cancelled, pumpVars, work, load,
                 endVars, lost, stale>>

\* A polling kernel saw the token at one of its checkpoints.
KernelAbort(w) ==
  /\ Polls
  /\ pc[w] = "run"
  /\ IsCancelled(load[w])
  /\ reply' = [reply EXCEPT ![w] = "cancelled"]
  /\ pc' = [pc EXCEPT ![w] = "ran"]
  /\ UNCHANGED <<sessionVars, inbox, cancelled, pumpVars, work, load,
                 endVars, lost, stale>>

\* A panic unwinds the thread: the job in flight is answered by nobody.
KernelPanic(w) ==
  /\ pc[w] = "run"
  /\ pc' = [pc EXCEPT ![w] = "panicked"]
  /\ load' = [load EXCEPT ![w] = NoJob]
  /\ work' = WorkAfterEnd(w)
  /\ lost' = lost \cup {load[w]} \cup OrphanedJobs(w)
  /\ UNCHANGED <<sessionVars, inbox, cancelled, pumpVars, reply, endVars,
                 stale>>

\* Faulty variant of PostCheck: samples are reported without a second look.
PostCheckNothing(w) ==
  /\ pc[w] = "ran"
  /\ pc' = [pc EXCEPT ![w] = "send"]
  /\ UNCHANGED <<sessionVars, inbox, cancelled, pumpVars, work, load, reply,
                 endVars, lost, stale>>

\* The token is read once more: a cancel wins over samples and over an
\* ordinary refusal, never over a session-fatal error.
PostCheck(w) ==
  /\ pc[w] = "ran"
  /\ reply' = IF IsCancelled(load[w]) /\ reply[w] # "fatal"
                THEN [reply EXCEPT ![w] = "cancelled"]
                ELSE reply
  /\ pc' = [pc EXCEPT ![w] = "send"]
  /\ UNCHANGED <<sessionVars, inbox, cancelled, pumpVars, work, load,
                 endVars, lost, stale>>

Answer(w) ==
  /\ pc[w] = "send"
  /\ outOpen
  /\ Len(out) < OutCap
  /\ out' = Append(out, [job |-> load[w], outcome |-> reply[w]])
  /\ pc' = [pc EXCEPT ![w] = "idle"]
  /\ load' = [load EXCEPT ![w] = NoJob]
  /\ reply' = [reply EXCEPT ![w] = "none"]
  /\ UNCHANGED <<sessionVars, inbox, cancelled, pumpVars, work, outOpen,
                 answer, lost, stale>>

\* Nobody reads results any more: the worker leaves its loop.
AnswerFails(w) ==
  /\ pc[w] = "send"
  /\ ~outOpen
  /\ pc' = [pc EXCEPT ![w] = "exited"]
  /\ load' = [load EXCEPT ![w] = NoJob]
  /\ work' = WorkAfterEnd(w)
  /\ lost' = lost \cup {load[w]} \cup OrphanedJobs(w)
  /\ UNCHANGED <<sessionVars, inbox, cancelled, pumpVars, reply, endVars,
                 stale>>

WorkerStep(w) ==
  \/ PickUp(w) \/ WorkerEnd(w) \/ KernelAbort(w) \/ PostCheck(w)
  \/ Answer(w) \/ AnswerFails(w)
  \/ \E r \in {"samples", "reject", "fatal"} : KernelReturn(w, r)

SessionStep ==
  /\ pump # "exited"
  /\ \/ \E toml \in Tomls : Configure(toml)
     \/ \E j \in Jobs : Send(j)
     \/ CloseJobs
     \/ \E j \in Jobs : Watermark[j] # NoMark /\ CancelThrough(Watermark[j])
     \/ Receive
     \/ HangUp

\* Everything stopped and the session read all there was to read.
Finished ==
  /\ PumpGone
  /\ \A w \in Workers : ~Alive(w)
  /\ out = <<>>
  /\ UNCHANGED vars

Next ==
  \/ SessionStep
  \/ PumpStep
  \/ \E w \in Workers : WorkerStep(w) \/ KernelPanic(w)
  \/ Finished

Spec == Init /\ [][Next]_vars

\* Threads are scheduled, kernels return, and the session reads results until
\* it hangs up.  It need never close the job channel, configure or cancel.
Fairness ==
  /\ WF_vars(PumpStep)
  /\ \A w \in Workers : WF_vars(WorkerStep(w))
  /\ WF_vars(Receive)

FairSpec == Spec /\ Fairness

-----------------------------------------------------------------------------
(* Where a job is *)

InHand == {held} \ {NoJob}
InWorkers == {load[w] : w \in Workers} \ {NoJob}
InOut == {out[i].job : i \in DOMAIN out}
Answered == {j \in Jobs : answer[j] # "none"}

Places ==
  <<unsent, Range(inbox), InHand, Range(work), InWorkers, InOut, Answered, lost>>

\* The type of the state, with the capacity of every channel.
TypeOK ==
  /\ unsent \subseteq Jobs
  /\ inbox \in Seq(Jobs) /\ Len(inbox) <= InboxCap
  /\ jobsClosed \in BOOLEAN
  /\ sampler \in Samplers
  /\ numCpus \in 0 .. Host
  /\ asked \in Tomls \cup {Absent}
  /\ cancelled \in Nat
  /\ pump \in {"first", "spawn", "recv", "check", "drop", "offer", "join",
               "done", "raised", "exited"}
  /\ held \in Jobs \cup {NoJob}
  /\ width \in 0 .. Host
  /\ joined \in 0 .. width
  /\ work \in Seq(Jobs) /\ Len(work) <= width
  /\ pc \in [Workers -> {"absent", "idle", "run", "ran", "send", "exited",
                         "panicked"}]
  /\ load \in [Workers -> Jobs \cup {NoJob}]
  /\ reply \in [Workers -> Outcomes \cup {"none"}]
  /\ out \in Seq(Result) /\ Len(out) <= OutCap
  /\ outOpen \in BOOLEAN
  /\ answer \in [Jobs -> Outcomes \cup {"none"}]
  /\ lost \subseteq Jobs
  /\ stale \subseteq Jobs

\* Every job of the session is in exactly one place, once: it is not sent,
\* waits in a channel, is in the hand of one thread, was answered, or was
\* dropped.  No interleaving of the pump, the workers and the session
\* duplicates a job, answers it twice or makes it vanish unrecorded
\* (run_stream_pump, lib.rs 191-276).
OnePlacePerJob ==
  /\ UNION Range(Places) = Jobs
  /\ \A a, b \in DOMAIN Places : a # b => Places[a] \cap Places[b] = {}
  /\ \A a, b \in DOMAIN inbox : inbox[a] = inbox[b] => a = b
  /\ \A a, b \in DOMAIN work : work[a] = work[b] => a = b
  /\ \A a, b \in DOMAIN out : out[a].job = out[b].job => a = b
  /\ \A v, w \in Workers : load[v] = load[w] /\ load[v] # NoJob => v = w

\* The pump returns normally only if no worker panicked, whatever the order
\* in which workers end and are joined: a panic always reaches the caller
\* (lib.rs 280-289).
CleanReturn ==
  pump = "done" => \A w \in Workers : pc[w] \in {"absent", "exited"}

\* How much stale work one cancellation can cost: of one cancelled
\* generation, at most the jobs in the bounded queue and the one in the
\* pump's hand still reach a kernel (lib.rs 195, 261-276).
StaleBounded ==
  \A g \in Range(Watermark) \ {NoMark} :
     Cardinality({j \in stale : Watermark[j] = g}) <= width + 1

\* What the operator granted, and what one model of the pool takes of it.
Granted == IF asked = Absent THEN Host ELSE Smaller(asked, Host)
CoresPerModel ==
  IF sampler.algorithm = "Gibbs" THEN Larger(sampler.workers, 1) ELSE 1

\* The pool that is started for the first job follows the configuration that
\* arrived before it: a refused setting never gets as far as a pool, and the
\* pool has as many workers as fit into the cores granted, one if none fits,
\* no more and no fewer (lib.rs 191-196, 331-349, 406-436, 478-485).
WidthFollowsConfigure ==
  width # 0 =>
    /\ asked = Absent \/ (asked \in Int /\ asked > 0)
    /\ width * CoresPerModel <= Granted \/ width = 1
    /\ Granted < (width + 1) * CoresPerModel
    /\ \A w \in Workers : pc[w] = "absent" <=> w > width

\* A job the session sent is answered, unless a worker panicked or the
\* session hung up.
EveryJobSettled ==
  \A j \in Jobs : j \notin unsent ~> answer[j] # "none" \/ j \in lost

\* Once the session closes the job channel the pump ends, and so does every
\* worker, so the session sees the result channel close.
StreamEnds ==
  jobsClosed ~> PumpGone /\ \A w \in Workers : ~Alive(w)

\* "Cancelled generations are dropped here, before a worker ever touches the
\* graph" (lib.rs 161, 258): what the comment says of the code, not true of
\* a job whose generation is cancelled between the check and the kernel.
CancelledNeverSampled == stale = {}

-----------------------------------------------------------------------------
(* The pump implements the ledger of its jobs *)

Judging(j) == \E w \in Workers : load[w] = j /\ pc[w] = "send"

Stage(j) ==
  CASE j \in unsent -> "unsent"
    [] j \in Answered -> "delivered"
    [] j \in lost -> "lost"
    [] j \in InOut \/ Judging(j) \/ (pump = "drop" /\ held = j) -> "judged"
    [] OTHER -> "open"

Verdict(j) ==
  CASE j \in Answered -> answer[j]
    [] j \in InOut -> (CHOOSE r \in Range(out) : r.job = j).outcome
    [] Judging(j) -> reply[CHOOSE w \in Workers : load[w] = j]
    [] pump = "drop" /\ held = j -> "cancelled"
    [] OTHER -> "none"

Ledger == INSTANCE JobLedger WITH
  stage <- [j \in Jobs |-> Stage(j)],
  verdict <- [j \in Jobs |-> Verdict(j)],
  broken <- ~outOpen \/ \E w \in Workers : pc[w] = "panicked"

\* The pump is an implementation of the ledger: every answer is a verdict
\* given once, in agreement with the token at the instant it was given, and
\* a job is lost only after a panic or a hang-up.
ImplementsLedger == Ledger!Spec
=============================================================================
