----------------------------- MODULE SbParallel -----------------------------
(***************************************************************************)
(* One read of Simulated Bifurcation by a pool of workers (src/sb_core.rs, *)
(* sb_run_parallel).  Each worker owns a slice of the particles.  In every *)
(* step it publishes what its particles couple with, waits at the barrier, *)
(* moves its particles, and waits again.  The coupled values are shared    *)
(* without a lock; a step of the model is the work on one particle, one    *)
(* load of a coupled value, or one atomic operation of the barrier.        *)
(*                                                                         *)
(* The barrier is called twice a step: round 2k publishes step k and round *)
(* 2k + 1 moves the particles.  N = 1 is the sequential sb_run.            *)
(***************************************************************************)
EXTENDS SpinBarrier, Sequences

CONSTANTS
  M,               \* how many particles
  Reads,           \* the particles whose coupled values a force reads
  Starts,          \* the initial conditions
  Zero,            \* the coupled value before the first step
  Couple(_),       \* what a particle publishes
  Prepare(_,_),    \* at a step, what a particle's owner keeps before the move
  Move(_,_,_,_)    \* at a step, a particle's move from the values it reads

Particles == 0 .. M - 1

\* Without particles the integrator is skipped.
ASSUME ParticlesAssumption == M \in Nat \ {0}

\* Two rounds a step, and at least one step.
ASSUME StepsAssumption == Rounds > 0 /\ Rounds % 2 = 0

ASSUME ReadsAssumption == Reads \in [Particles -> Seq(Particles)]

ASSUME StartsAssumption == \A s \in Starts : s = [i \in Particles |-> s[i]]

VARIABLES
  state,     \* the shared positions and momenta, with their owner's y_pre, p
  coupled,   \* the shared coupled values
  seen,      \* the coupled values each worker has loaded for its particle
  done,      \* how many particles of its slice each worker is through with
  ref        \* history: the states of the sequential run

runVars == <<state, coupled, seen, done, ref>>
sbVars == <<barrierVars, runVars>>

-----------------------------------------------------------------------------
StepOf(r) == r \div 2
Publishing(r) == r % 2 = 0

\* m.div_ceil(workers)
Slice == (M + N - 1) \div N

AtMost(n, bound) == IF n <= bound THEN n ELSE bound

\* Worker w owns the particles Lo(w) .. Hi(w) - 1 for the whole run.
Lo(w) == AtMost(w * Slice, M)
Hi(w) == AtMost(Lo(w) + Slice, M)

Particle(w) == Lo(w) + done[w]
HasParticle(w) == Particle(w) < Hi(w)
Running(w) == at[w] = "out" /\ arrivals[w] < Rounds

\* sb_step: all particles couple with the positions before the step.
CoupledBy(s, i) == [l \in 1 .. Len(Reads[i]) |-> Couple(s[Reads[i][l]])]
SequentialStep(k, s) ==
  [i \in Particles |-> Move(k, i, Prepare(k, s[i]), CoupledBy(s, i))]

-----------------------------------------------------------------------------
Init ==
  /\ BarrierInit
  /\ state \in Starts
  /\ coupled = [i \in Particles |-> Zero]
  /\ seen = [w \in Workers |-> <<>>]
  /\ done = [w \in Workers |-> 0]
  /\ ref = state

\* Faulty variant of Publish: the control's schedule stays at the first step.
PublishFirstStep(w) ==
  /\ Running(w)
  /\ Publishing(arrivals[w])
  /\ HasParticle(w)
  /\ coupled' = [coupled EXCEPT ![Particle(w)] = Couple(state[Particle(w)])]
  /\ state' = [state EXCEPT ![Particle(w)] = Prepare(0, state[Particle(w)])]
  /\ done' = [done EXCEPT ![w] = done[w] + 1]
  /\ UNCHANGED <<barrierVars, seen, ref>>

\* The first loop of a step, for one particle.
Publish(w) ==
  /\ Running(w)
  /\ Publishing(arrivals[w])
  /\ HasParticle(w)
  /\ coupled' = [coupled EXCEPT ![Particle(w)] = Couple(state[Particle(w)])]
  /\ state' = [state EXCEPT ![Particle(w)] = 
                 Prepare(StepOf(arrivals[w]), state[Particle(w)])]
  /\ done' = [done EXCEPT ![w] = done[w] + 1]
  /\ UNCHANGED <<barrierVars, seen, ref>>

\* The second loop: one term of a particle's force is loaded.
LoadCoupled(w) ==
  /\ Running(w)
  /\ ~Publishing(arrivals[w])
  /\ HasParticle(w)
  /\ Len(seen[w]) < Len(Reads[Particle(w)])
  /\ LET u == Reads[Particle(w)][Len(seen[w]) + 1]
     IN  seen' = [seen EXCEPT ![w] = Append(seen[w], coupled[u])]
  /\ UNCHANGED <<barrierVars, state, coupled, done, ref>>

\* The force is complete: the particle moves.
MoveOwn(w) ==
  /\ Running(w)
  /\ ~Publishing(arrivals[w])
  /\ HasParticle(w)
  /\ Len(seen[w]) = Len(Reads[Particle(w)])
  /\ state' = [state EXCEPT ![Particle(w)] =
                 Move(StepOf(arrivals[w]), Particle(w), state[Particle(w)], seen[w])]
  /\ seen' = [seen EXCEPT ![w] = <<>>]
  /\ done' = [done EXCEPT ![w] = done[w] + 1]
  /\ UNCHANGED <<barrierVars, coupled, ref>>

\* Either loop is over: on to the barrier.
FinishSlice(w) ==
  /\ Running(w)
  /\ ~HasParticle(w)
  /\ Arrive(w)
  /\ done' = [done EXCEPT ![w] = 0]
  /\ UNCHANGED <<state, coupled, seen, ref>>

\* The rest of SpinBarrier::wait; after the second round of a step the
\* sequential run moves on.
WaitStep(w) ==
  \/ Reset(w) /\ UNCHANGED runVars
  \/ /\ Release(w)
     /\ ref' = IF Publishing(released) THEN ref ELSE SequentialStep(StepOf(released), ref)
     /\ UNCHANGED <<state, coupled, seen, done>>
  \/ Leave(w) /\ UNCHANGED runVars

WorkerStep(w) ==
  \/ Publish(w) \/ LoadCoupled(w) \/ MoveOwn(w) \/ FinishSlice(w)
  \/ WaitStep(w)

RunDone == \A w \in Workers : at[w] = "out" /\ arrivals[w] = Rounds

Next == (\E w \in Workers : WorkerStep(w)) \/ (RunDone /\ UNCHANGED sbVars)

Spec == Init /\ [][Next]_sbVars

\* Scoped threads, scheduled by the host; the spin loop yields.
FairSpec == Spec /\ \A w \in Workers : WF_sbVars(WorkerStep(w))

-----------------------------------------------------------------------------
SbTypeOK ==
  /\ BarrierTypeOK
  /\ state = [i \in Particles |-> state[i]]
  /\ ref = [i \in Particles |-> ref[i]]
  /\ coupled = [i \in Particles |-> coupled[i]]
  /\ seen = [w \in Workers |-> seen[w]]
  /\ \A w \in Workers : seen[w] \in Seq({seen[w][l] : l \in DOMAIN seen[w]})
  /\ done \in [Workers -> Nat]
  /\ \A w \in Workers : done[w] <= Hi(w) - Lo(w)

\* The particles that some worker is through with in the open round.
ThroughBy(w) ==
  Lo(w) .. (IF arrivals[w] = released THEN Lo(w) + done[w] ELSE Hi(w)) - 1
Through(i) == \E w \in Workers : i \in ThroughBy(w)

\* However the particles are sliced and the workers scheduled, every particle
\* is where the sequential run has it, at that point of the step, and what it
\* published is from before the step: the result is bit-identical at any
\* worker count (sb_core.rs 482-484).
MatchesSequential ==
  LET k == StepOf(released)
      next == SequentialStep(k, ref)
  IN
  \A i \in Particles :
    /\ state[i] =
         IF Publishing(released)
         THEN IF Through(i) THEN Prepare(k, ref[i]) ELSE ref[i]
         ELSE IF Through(i) THEN next[i] ELSE Prepare(k, ref[i])
    /\ (Publishing(released) => Through(i)) => coupled[i] = Couple(ref[i])

\* While a worker adds up a force, none of the values it has loaded is
\* published anew: the second barrier holds back the next step
\* (sb_core.rs 478-480).
NoTornForce ==
  \A w \in Workers : \A l \in DOMAIN seen[w] :
    seen[w][l] = coupled[Reads[Particle(w)][l]]

\* What a finished run copies back.
ResultIsSequential == RunDone => state = ref
=============================================================================
