----------------------------- MODULE JobLedger -----------------------------
(***************************************************************************)
(* What a session may rely on when it hands stream jobs to a CPU sampler.  *)
(* Each job is judged once, at one instant, and the verdict agrees with    *)
(* the cancel token at that instant; a judged job is delivered once; a job *)
(* disappears only after something broke (a kernel panicked, or the        *)
(* session stopped reading).  There are no threads or queues here: module  *)
(* StreamPump is shown to implement this ledger.                           *)
(***************************************************************************)
EXTENDS Integers

CONSTANTS
  Jobs,        \* the stream jobs of one session
  Watermark,   \* the generation each job was minted in, or NoMark
  NoMark       \* a job without a generation: no cancel reaches it

VARIABLES
  stage,      \* how far each job is: unsent, open, judged, delivered or lost
  verdict,    \* the outcome each judged job was given, "none" before that
  cancelled,  \* generations below this number are cancelled
  broken      \* TRUE once a kernel panicked or the session stopped reading

vars == <<stage, verdict, cancelled, broken>>

\* "samples" and "reject" stand for Completed(Ok) and Completed(Err) of an
\* ordinary refusal, "fatal" for Completed(Err) of a session-fatal error.
Outcomes == {"samples", "reject", "fatal", "cancelled"}

\* A job with no watermark is never cancelled.
CancelledAt(threshold, j) ==
  /\ Watermark[j] # NoMark
  /\ Watermark[j] < threshold

\* An outcome a judge who reads the token now may give to job j.
Agrees(o, j) ==
  CASE o = "cancelled" -> CancelledAt(cancelled, j)
    [] o = "fatal"     -> TRUE
    [] OTHER           -> ~CancelledAt(cancelled, j)

Init ==
  /\ stage = [j \in Jobs |-> "unsent"]
  /\ verdict = [j \in Jobs |-> "none"]
  /\ cancelled = 0
  /\ broken = FALSE

Accept(j) ==
  /\ stage[j] = "unsent"
  /\ stage' = [stage EXCEPT ![j] = "open"]
  /\ UNCHANGED <<verdict, cancelled, broken>>

Judge(j, o) ==
  /\ stage[j] = "open"
  /\ Agrees(o, j)
  /\ stage' = [stage EXCEPT ![j] = "judged"]
  /\ verdict' = [verdict EXCEPT ![j] = o]
  /\ UNCHANGED <<cancelled, broken>>

Deliver(j) ==
  /\ stage[j] = "judged"
  /\ stage' = [stage EXCEPT ![j] = "delivered"]
  /\ UNCHANGED <<verdict, cancelled, broken>>

\* The token only ever covers more generations.
Cancel ==
  /\ cancelled' \in Nat
  /\ cancelled' > cancelled
  /\ UNCHANGED <<stage, verdict, broken>>

\* Jobs on their way are lost together with the failure that loses them, or
\* at any time after it.
Fail(S) ==
  /\ \A j \in S : stage[j] \in {"open", "judged"}
  /\ broken' = TRUE
  /\ stage' = [j \in Jobs |-> IF j \in S THEN "lost" ELSE stage[j]]
  /\ verdict' = [j \in Jobs |-> IF j \in S THEN "none" ELSE verdict[j]]
  /\ UNCHANGED cancelled

Next ==
  \/ \E j \in Jobs : Accept(j) \/ Deliver(j)
  \/ \E j \in Jobs, o \in Outcomes : Judge(j, o)
  \/ Cancel
  \/ \E S \in SUBSET Jobs : Fail(S)

Spec == Init /\ [][Next]_vars
=============================================================================
