---------------------------- MODULE SpinBarrier ----------------------------
(***************************************************************************)
(* SpinBarrier (src/spin_barrier.rs), the sense-reversing barrier of the   *)
(* chromatic Gibbs and Simulated Bifurcation kernels.  A step is one       *)
(* atomic operation of one worker thread; a turn of the spin loop that     *)
(* finds the old sense changes nothing and is not a step.                  *)
(*                                                                         *)
(* The atomics are acquire/release on both sides of the barrier, so they   *)
(* are modelled as sequentially consistent.                                *)
(***************************************************************************)
EXTENDS Integers, FiniteSets

CONSTANTS
  N,        \* how many workers share the barrier
  Rounds    \* how often each worker calls wait

ASSUME NAssumption == N \in Nat \ {0}
ASSUME RoundsAssumption == Rounds \in Nat

Workers == 0 .. N - 1

VARIABLES
  waiting,    \* the counter of arrivals
  sense,      \* the shared sense
  local,      \* the sense each worker carries between its calls
  at,         \* where each worker is in wait, "out" when it is not in it
  arrivals,   \* history: how often each worker called wait
  released    \* history: how often the barrier opened

barrierVars == <<waiting, sense, local, at, arrivals, released>>

BarrierInit ==
  /\ waiting = 0
  /\ sense = FALSE
  /\ local = [w \in Workers |-> FALSE]
  /\ at = [w \in Workers |-> "out"]
  /\ arrivals = [w \in Workers |-> 0]
  /\ released = 0

\* Faulty variant of Arrive: one arrival is not waited for.
ArriveEarly(w) ==
  /\ at[w] = "out"
  /\ local' = [local EXCEPT ![w] = ~local[w]]
  /\ waiting' = waiting + 1
  /\ at' = [at EXCEPT ![w] = IF waiting + 2 = N THEN "last" ELSE "spin"]
  /\ arrivals' = [arrivals EXCEPT ![w] = arrivals[w] + 1]
  /\ UNCHANGED <<sense, released>>

\* fetch_add tells the last worker to arrive from the others.
Arrive(w) ==
  /\ at[w] = "out"
  /\ local' = [local EXCEPT ![w] = ~local[w]]
  /\ waiting' = waiting + 1
  /\ at' = [at EXCEPT ![w] = IF waiting + 1 = N THEN "last" ELSE "spin"]
  /\ arrivals' = [arrivals EXCEPT ![w] = arrivals[w] + 1]
  /\ UNCHANGED <<sense, released>>

\* The counter is cleared before the sense is published.
Reset(w) ==
  /\ at[w] = "last"
  /\ waiting' = 0
  /\ at' = [at EXCEPT ![w] = "reset"]
  /\ UNCHANGED <<sense, local, arrivals, released>>

Release(w) ==
  /\ at[w] = "reset"
  /\ sense' = local[w]
  /\ at' = [at EXCEPT ![w] = "out"]
  /\ released' = released + 1
  /\ UNCHANGED <<waiting, local, arrivals>>

\* The spin loop reads the sense it waits for.
Leave(w) ==
  /\ at[w] = "spin"
  /\ sense = local[w]
  /\ at' = [at EXCEPT ![w] = "out"]
  /\ UNCHANGED <<waiting, sense, local, arrivals, released>>

\* A worker that calls wait Rounds times and does nothing in between.
BarrierStep(w) ==
  \/ arrivals[w] < Rounds /\ Arrive(w)
  \/ Reset(w) \/ Release(w) \/ Leave(w)

BarrierDone ==
  /\ \A w \in Workers : arrivals[w] = Rounds /\ at[w] = "out"
  /\ UNCHANGED barrierVars

BarrierNext == (\E w \in Workers : BarrierStep(w)) \/ BarrierDone

BarrierSpec == BarrierInit /\ [][BarrierNext]_barrierVars

-----------------------------------------------------------------------------
BarrierTypeOK ==
  /\ waiting \in 0 .. N
  /\ sense \in BOOLEAN
  /\ local \in [Workers -> BOOLEAN]
  /\ at \in [Workers -> {"out", "spin", "last", "reset"}]
  /\ arrivals \in [Workers -> Nat]
  /\ released \in Nat

\* A worker outside the barrier has met every other worker there: nobody is
\* a call behind it, so what it reads next was written before (spin_barrier.rs
\* 31-52; the test at line 59 tries one schedule of it).
NoEarlyRelease ==
  \A v, w \in Workers : at[w] = "out" => arrivals[v] >= arrivals[w]

\* The counter is only ever cleared by the last worker, when nobody can be
\* adding to it: no arrival of the next round is lost in the reset of this one
\* (spin_barrier.rs 33-35).
NoArrivalLost ==
  (\A w \in Workers : at[w] # "reset") =>
    waiting = Cardinality({w \in Workers : arrivals[w] = released + 1})

\* The barrier is a rendezvous of its workers, round after round.
Meeting == INSTANCE Rendezvous WITH
  inside <- [w \in Workers |-> at[w] # "out"]

ImplementsRendezvous == Meeting!Spec
=============================================================================
