-------------------------- MODULE SbParallelProofs --------------------------
(***************************************************************************)
(* The result of a Simulated Bifurcation run does not depend on the number *)
(* of workers nor on their interleaving, for every problem, variant,       *)
(* number of steps and initial condition.                                  *)
(*                                                                         *)
(* The argument: the slices are disjoint and cover the particles.  In a    *)
(* publishing round a particle is touched once, by its owner, so what is   *)
(* published is from before the step; in a moving round nothing is         *)
(* published, so every force is added up from those values.                *)
(*                                                                         *)
(* The second half is about the kernels of SbSampler, for every request:   *)
(* the rows of a graph hold every edge twice, so the spins that are        *)
(* reported have the energy the particles add up; a ring moves at once;    *)
(* the best trajectory leads a swarm; and the gauge of a trajectory is     *)
(* free.                                                                   *)
(***************************************************************************)
EXTENDS SbSampler, SpinBarrierProofs, SumProofs

\* A worker that waits, or that has run all steps, is between slices.
BusyRuns ==
  \A w \in Workers : done[w] # 0 \/ seen[w] # <<>> => Running(w)

ScheduleBound == \A w \in Workers : arrivals[w] <= Rounds

SeenOfParticle ==
  \A w \in Workers : seen[w] # <<>> =>
    /\ HasParticle(w)
    /\ ~Publishing(arrivals[w])
    /\ Len(seen[w]) <= Len(Reads[Particle(w)])

SeenIsSequential ==
  \A w \in Workers : \A l \in DOMAIN seen[w] :
    seen[w][l] = Couple(ref[Reads[Particle(w)][l]])

SInv ==
  /\ BInv
  /\ SbTypeOK
  /\ BusyRuns
  /\ ScheduleBound
  /\ SeenOfParticle
  /\ SeenIsSequential
  /\ MatchesSequential

-----------------------------------------------------------------------------
\* Of a sequence whose items are of any kind.
LEMMA AppendAnything ==
  ASSUME NEW s, s \in Seq({s[l] : l \in DOMAIN s}), NEW x
  PROVE  /\ Append(s, x) \in Seq({Append(s, x)[l] : l \in DOMAIN Append(s, x)})
         /\ Len(s) \in Nat
         /\ Len(Append(s, x)) = Len(s) + 1
         /\ DOMAIN Append(s, x) = 1 .. Len(s) + 1
         /\ \A l \in 1 .. Len(s) : Append(s, x)[l] = s[l]
         /\ Append(s, x)[Len(s) + 1] = x
         /\ Append(s, x) # <<>>
<1> DEFINE T == {s[l] : l \in DOMAIN s} \cup {x}
           t == Append(s, x)
<1>1. s \in Seq(T)
  OBVIOUS
<1> HIDE DEF T
<1>2. x \in T
  BY DEF T
<1>3. /\ t \in Seq(T) /\ Len(s) \in Nat /\ Len(t) = Len(s) + 1
      /\ \A l \in 1 .. Len(s) : t[l] = s[l]
      /\ t[Len(s) + 1] = x
  BY <1>1, <1>2
<1> HIDE DEF t
<1>4. DOMAIN t = 1 .. Len(s) + 1 /\ t # <<>>
  BY <1>3
<1>5. t \in Seq({t[l] : l \in DOMAIN t})
  BY <1>3
<1> QED
  BY <1>3, <1>4, <1>5 DEF t

LEMMA SliceBounds ==
  ASSUME NEW w \in Workers
  PROVE  /\ M \in Nat /\ Slice \in Nat /\ N * Slice >= M
         /\ Lo(w) \in Nat /\ Hi(w) \in Nat
         /\ Lo(w) <= Hi(w) /\ Hi(w) <= M
<1>1. M \in Nat
  BY ParticlesAssumption
<1>2. Slice \in Nat /\ N * Slice >= M
  BY <1>1, ChunkArithmetic DEF Slice
<1>3. w \in Nat /\ w * Slice \in Nat
  BY <1>2, NAssumption DEF Workers
<1>4. Lo(w) \in Nat /\ Lo(w) <= M
  BY <1>1, <1>3 DEF Lo, AtMost
<1>5. Hi(w) \in Nat /\ Lo(w) <= Hi(w) /\ Hi(w) <= M
  BY <1>1, <1>2, <1>4 DEF Hi, AtMost
<1> QED
  BY <1>1, <1>2, <1>4, <1>5

\* Every particle has an owner.
LEMMA SlicesCover ==
  ASSUME NEW i \in Particles
  PROVE  \E w \in Workers : i \in Lo(w) .. Hi(w) - 1
<1> DEFINE w == i \div Slice
<1>1. N \in Nat /\ N > 0 /\ 0 \in Workers
  BY NAssumption DEF Workers
<1>2. M \in Nat /\ Slice \in Nat /\ N * Slice >= M
  BY <1>1, SliceBounds
<1>3. i \in Nat /\ i < M
  BY <1>2 DEF Particles
<1>4. Slice > 0
  <2>1. Slice = 0 => N * Slice = 0
    BY <1>1
  <2> QED
    BY <1>2, <1>3, <2>1
<1>5. w \in Nat /\ Slice * w <= i /\ i < Slice * w + Slice
  BY <1>2, <1>3, <1>4
<1> HIDE DEF w
<1>6. Slice * w \in Nat /\ Slice * w = w * Slice
  BY <1>2, <1>5
<1>7. w < N
  <2> SUFFICES ASSUME w >= N PROVE FALSE
    BY <1>1, <1>5
  <2>1. Slice * w >= Slice * N
    BY <1>1, <1>2, <1>5
  <2>2. Slice * N = N * Slice /\ Slice * N \in Nat
    BY <1>1, <1>2
  <2> QED
    BY <1>2, <1>3, <1>5, <1>6, <2>1, <2>2
<1>8. w \in Workers
  BY <1>1, <1>5, <1>7 DEF Workers
<1>9. Lo(w) = w * Slice
  BY <1>2, <1>3, <1>5, <1>6 DEF Lo, AtMost
<1>10. i < Hi(w)
  BY <1>2, <1>3, <1>5, <1>6, <1>9 DEF Hi, AtMost
<1>11. i \in Lo(w) .. Hi(w) - 1
  <2>1. Hi(w) \in Nat
    BY <1>8, SliceBounds
  <2> QED
    BY <1>3, <1>5, <1>6, <1>9, <1>10, <2>1
<1> QED
  BY <1>8, <1>11

\* No particle has two owners.
LEMMA SlicesDisjoint ==
  ASSUME NEW v \in Workers, NEW w \in Workers, NEW i \in Int,
         i \in Lo(v) .. Hi(v) - 1, i \in Lo(w) .. Hi(w) - 1
  PROVE  v = w
<1>1. M \in Nat /\ Slice \in Nat
  BY SliceBounds
<1>2. ASSUME NEW a \in Workers, NEW b \in Workers, a < b,
             i \in Lo(a) .. Hi(a) - 1, i \in Lo(b) .. Hi(b) - 1
      PROVE  FALSE
  <2>1. a \in Nat /\ b \in Nat /\ a + 1 <= b
    BY <1>2, NAssumption DEF Workers
  <2>2. a * Slice \in Nat /\ b * Slice \in Nat /\ (a + 1) * Slice <= b * Slice
    BY <1>1, <2>1
  <2>3. (a + 1) * Slice = a * Slice + Slice
    BY <1>1, <2>1
  <2>4. i < a * Slice + Slice /\ i < M
    BY <1>1, <1>2, <2>2 DEF Lo, Hi, AtMost
  <2>5. i >= b * Slice \/ i >= M
    BY <1>1, <1>2, <2>2 DEF Lo, AtMost
  <2> QED
    BY <1>1, <2>2, <2>3, <2>4, <2>5
<1>3. v \in Nat /\ w \in Nat
  BY NAssumption DEF Workers
<1> QED
  BY <1>2, <1>3

\* The two rounds of a step.
LEMMA Parity ==
  ASSUME NEW r \in Nat
  PROVE  /\ Publishing(r) => ~Publishing(r + 1) /\ StepOf(r + 1) = StepOf(r)
         /\ ~Publishing(r) => Publishing(r + 1)
BY DEF Publishing, StepOf

\* A worker at a particle is in the open round, and is the first there.
LEMMA AtOwnParticle ==
  ASSUME SInv, NEW w \in Workers, Running(w), HasParticle(w)
  PROVE  /\ arrivals[w] = released /\ released \in Nat /\ released < Rounds
         /\ done[w] \in Nat /\ Lo(w) \in Nat /\ Hi(w) \in Nat
         /\ Particle(w) = Lo(w) + done[w] /\ Particle(w) < Hi(w)
         /\ Particle(w) \in Particles
         /\ ~Through(Particle(w))
         /\ Reads[Particle(w)] \in Seq(Particles)
<1>1. arrivals[w] = released /\ released \in Nat /\ released < Rounds
  BY DEF SInv, BInv, BarrierTypeOK, OutIsBehind, Running
<1>2. done[w] \in Nat /\ \A x \in Workers : done[x] \in Nat /\ done[x] <= Hi(x) - Lo(x)
  BY DEF SInv, SbTypeOK
<1>3. /\ M \in Nat /\ Lo(w) \in Nat /\ Hi(w) \in Nat /\ Hi(w) <= M
      /\ Particle(w) = Lo(w) + done[w] /\ Particle(w) < Hi(w)
  BY SliceBounds DEF HasParticle, Particle
<1>4. Particle(w) \in Particles /\ Particle(w) \in Lo(w) .. Hi(w) - 1
  BY <1>2, <1>3 DEF Particles
<1>5. ~Through(Particle(w))
  <2> SUFFICES ASSUME NEW x \in Workers, Particle(w) \in ThroughBy(x) PROVE FALSE
    BY DEF Through
  <2>1. Lo(x) \in Nat /\ Hi(x) \in Nat /\ done[x] \in Nat /\ done[x] <= Hi(x) - Lo(x)
    BY <1>2, SliceBounds
  <2>2. Particle(w) \in Lo(x) .. Hi(x) - 1
    BY <1>3, <1>4, <2>1 DEF ThroughBy
  <2>3. x = w
    BY <1>4, <2>2, SlicesDisjoint
  <2>4. Particle(w) \in Lo(w) .. (Lo(w) + done[w]) - 1
    BY <1>1, <2>3 DEF ThroughBy
  <2> QED
    BY <1>2, <1>3, <2>4
<1>6. Reads[Particle(w)] \in Seq(Particles)
  BY <1>4, ReadsAssumption
<1> QED
  BY <1>1, <1>2, <1>3, <1>4, <1>5, <1>6

\* When a worker is through with one more particle, so is the round.
LEMMA OneMoreThrough ==
  ASSUME NEW w \in Workers, arrivals[w] = released, Lo(w) \in Nat, done[w] \in Nat,
         done \in [Workers -> Nat],
         done' = [done EXCEPT ![w] = done[w] + 1],
         UNCHANGED <<arrivals, released>>
  PROVE  \A i \in Int : Through(i)' <=> Through(i) \/ i = Lo(w) + done[w]
<1>1. \A x \in Workers \ {w} : ThroughBy(x)' = ThroughBy(x)
  BY DEF ThroughBy
<1>2. \A i \in Int : i \in ThroughBy(w)' <=> i \in ThroughBy(w) \/ i = Lo(w) + done[w]
  <2>1. ThroughBy(w) = Lo(w) .. (Lo(w) + done[w]) - 1
    BY DEF ThroughBy
  <2>2. ThroughBy(w)' = Lo(w) .. (Lo(w) + (done[w] + 1)) - 1
    BY DEF ThroughBy
  <2> QED
    BY <2>1, <2>2
<1> QED
  BY <1>1, <1>2 DEF Through

LEMMA SbInitInv == Init => SInv
<1> SUFFICES ASSUME Init PROVE SInv
  OBVIOUS
<1>1. BInv /\ BarrierTypeOK
  BY InitInv DEF Init, BInv
<1> USE DEF Init, BarrierInit
<1>2. SbTypeOK
  <2>1. \A w \in Workers : done[w] <= Hi(w) - Lo(w)
    BY SliceBounds
  <2>2. \A w \in Workers : seen[w] \in Seq({seen[w][l] : l \in DOMAIN seen[w]})
    OBVIOUS
  <2>3. state = [i \in Particles |-> state[i]]
    BY StartsAssumption
  <2>4. ref = [i \in Particles |-> ref[i]]
    BY <2>3
  <2> QED
    BY <1>1, <2>1, <2>2, <2>3, <2>4 DEF SbTypeOK
<1>3. BusyRuns /\ ScheduleBound /\ SeenOfParticle /\ SeenIsSequential
  BY StepsAssumption, RoundsAssumption
  DEF BusyRuns, ScheduleBound, SeenOfParticle, SeenIsSequential
<1>4. MatchesSequential
  <2>1. \A i \in Particles : ~Through(i)
    <3> SUFFICES ASSUME NEW i \in Particles, NEW w \in Workers, i \in ThroughBy(w)
                 PROVE  FALSE
      BY DEF Through
    <3>1. Lo(w) \in Nat
      BY SliceBounds
    <3>2. ThroughBy(w) = Lo(w) .. (Lo(w) + 0) - 1
      BY DEF ThroughBy
    <3> QED
      BY <3>1, <3>2
  <2>2. Publishing(released)
    BY DEF Publishing
  <2> QED
    BY <2>1, <2>2 DEF MatchesSequential
<1> QED
  BY <1>1, <1>2, <1>3, <1>4 DEF SInv

LEMMA PublishInv ==
  ASSUME SInv, NEW w \in Workers, Publish(w)
  PROVE  SInv'
<1> DEFINE j == Particle(w)
           k == StepOf(released)
<1>1. /\ Running(w) /\ Publishing(arrivals[w]) /\ HasParticle(w)
      /\ coupled' = [coupled EXCEPT ![j] = Couple(state[j])]
      /\ state' = [state EXCEPT ![j] = Prepare(StepOf(arrivals[w]), state[j])]
      /\ done' = [done EXCEPT ![w] = done[w] + 1]
      /\ UNCHANGED <<waiting, sense, local, at, arrivals, released, seen, ref>>
  BY DEF Publish, barrierVars
<1>2. /\ arrivals[w] = released /\ released \in Nat
      /\ done[w] \in Nat /\ Lo(w) \in Nat /\ Hi(w) \in Nat
      /\ j = Lo(w) + done[w] /\ j < Hi(w) /\ j \in Particles /\ ~Through(j)
  BY <1>1, AtOwnParticle
<1>3. /\ done \in [Workers -> Nat]
      /\ state = [i \in Particles |-> state[i]]
      /\ coupled = [i \in Particles |-> coupled[i]]
  BY DEF SInv, SbTypeOK
<1>4. Publishing(released) /\ seen[w] = <<>>
  BY <1>1, <1>2 DEF SInv, SeenOfParticle
<1>5. state[j] = ref[j]
  BY <1>2, <1>4 DEF SInv, MatchesSequential
<1> HIDE DEF j
<1>6. /\ state'[j] = Prepare(k, ref[j]) /\ coupled'[j] = Couple(ref[j])
      /\ \A i \in Particles \ {j} : state'[i] = state[i] /\ coupled'[i] = coupled[i]
  BY <1>1, <1>2, <1>3, <1>5
<1>7. BInv'
  <2>1. UNCHANGED barrierVars
    BY <1>1 DEF barrierVars
  <2> QED
    BY <2>1, StepInv DEF SInv
<1>8. \A x \in Workers \ {w} :
        /\ done'[x] = done[x] /\ seen'[x] = seen[x]
        /\ Particle(x)' = Particle(x) /\ HasParticle(x)' = HasParticle(x)
        /\ Running(x)' = Running(x)
  BY <1>1, <1>3 DEF Particle, HasParticle, Running
<1>9. done'[w] = done[w] + 1 /\ seen'[w] = <<>> /\ Running(w)'
  BY <1>1, <1>3, <1>4 DEF Running
<1>10. SbTypeOK'
  <2>1. done' \in [Workers -> Nat]
    BY <1>1, <1>3
  <2>2. ASSUME NEW x \in Workers PROVE done'[x] <= Hi(x) - Lo(x)
    <3>1. CASE x = w
      BY <1>2, <1>9, <3>1
    <3>2. CASE x # w
      BY <1>8, <3>2 DEF SInv, SbTypeOK
    <3> QED
      BY <3>1, <3>2
  <2>3. /\ state' = [i \in Particles |-> state'[i]]
        /\ coupled' = [i \in Particles |-> coupled'[i]]
    BY <1>1, <1>2, <1>3
  <2> QED
    BY <1>1, <1>7, <2>1, <2>2, <2>3 DEF SInv, BInv, SbTypeOK
<1>11. BusyRuns' /\ ScheduleBound'
  BY <1>1, <1>8, <1>9 DEF SInv, BusyRuns, ScheduleBound
<1>12. SeenOfParticle' /\ SeenIsSequential'
  <2>1. ASSUME NEW x \in Workers, x # w
        PROVE  seen'[x] # <<>> =>
                 /\ HasParticle(x)' /\ ~Publishing(arrivals'[x])
                 /\ Len(seen'[x]) <= Len(Reads[Particle(x)'])
    BY <1>1, <1>8, <2>1 DEF SInv, SeenOfParticle
  <2>2. SeenOfParticle'
    BY <1>9, <2>1 DEF SeenOfParticle
  <2>3. ASSUME NEW x \in Workers, NEW l \in DOMAIN seen'[x]
        PROVE  seen'[x][l] = Couple(ref[Reads[Particle(x)'][l]])
    <3>1. x # w
      BY <1>9
    <3> QED
      BY <1>8, <3>1, <2>3 DEF SInv, SeenIsSequential
  <2> QED
    BY <1>1, <2>2, <2>3 DEF SeenIsSequential
<1>13. MatchesSequential'
  <2>1. \A i \in Int : Through(i)' <=> Through(i) \/ i = j
    BY <1>1, <1>2, <1>3, OneMoreThrough
  <2>2. ASSUME NEW i \in Particles
        PROVE  /\ state'[i] = IF Through(i)' THEN Prepare(k, ref[i]) ELSE ref[i]
               /\ Through(i)' => coupled'[i] = Couple(ref[i])
    <3>1. i \in Int
      BY ParticlesAssumption DEF Particles
    <3>2. CASE i = j
      BY <1>6, <2>1, <3>1, <3>2
    <3>3. CASE i # j
      BY <1>4, <1>6, <2>1, <3>1, <3>3 DEF SInv, MatchesSequential
    <3> QED
      BY <3>2, <3>3
  <2> QED
    BY <1>1, <1>4, <2>2 DEF MatchesSequential
<1> QED
  BY <1>7, <1>10, <1>11, <1>12, <1>13 DEF SInv

LEMMA LoadCoupledInv ==
  ASSUME SInv, NEW w \in Workers, LoadCoupled(w)
  PROVE  SInv'
<1> DEFINE j == Particle(w)
           u == Reads[j][Len(seen[w]) + 1]
<1>1. /\ Running(w) /\ ~Publishing(arrivals[w]) /\ HasParticle(w)
      /\ Len(seen[w]) < Len(Reads[j])
      /\ seen' = [seen EXCEPT ![w] = Append(seen[w], coupled[u])]
      /\ UNCHANGED <<waiting, sense, local, at, arrivals, released,
                     state, coupled, done, ref>>
  BY DEF LoadCoupled, barrierVars
<1>2. /\ arrivals[w] = released /\ released \in Nat
      /\ Reads[j] \in Seq(Particles)
  BY <1>1, AtOwnParticle
<1>3. /\ seen = [x \in Workers |-> seen[x]]
      /\ seen[w] \in Seq({seen[w][l] : l \in DOMAIN seen[w]})
  BY DEF SInv, SbTypeOK
<1>4. Len(seen[w]) \in Nat /\ Len(seen[w]) + 1 \in 1 .. Len(Reads[j])
  BY <1>1, <1>2, <1>3
<1>5. u \in Particles
  BY <1>2, <1>4
<1>6. coupled[u] = Couple(ref[u])
  BY <1>1, <1>2, <1>5 DEF SInv, MatchesSequential
<1> HIDE DEF u
<1>7. /\ seen'[w] = Append(seen[w], coupled[u])
      /\ \A x \in Workers \ {w} : seen'[x] = seen[x]
  BY <1>1, <1>3
<1>8. /\ seen'[w] \in Seq({seen'[w][l] : l \in DOMAIN seen'[w]})
      /\ Len(seen'[w]) = Len(seen[w]) + 1
      /\ DOMAIN seen'[w] = 1 .. Len(seen[w]) + 1
      /\ \A l \in 1 .. Len(seen[w]) : seen'[w][l] = seen[w][l]
      /\ seen'[w][Len(seen[w]) + 1] = coupled[u]
  <2> DEFINE s == seen[w]
             c == coupled[u]
             t == seen'[w]
  <2>1. s \in Seq({s[l] : l \in DOMAIN s}) /\ t = Append(s, c)
    BY <1>3, <1>7
  <2> HIDE DEF s, c, t
  <2>2. /\ t \in Seq({t[l] : l \in DOMAIN t})
        /\ Len(t) = Len(s) + 1 /\ DOMAIN t = 1 .. Len(s) + 1
        /\ \A l \in 1 .. Len(s) : t[l] = s[l]
        /\ t[Len(s) + 1] = c
    BY <2>1, AppendAnything
  <2> QED
    BY <2>2 DEF s, c, t
<1>9. BInv'
  <2>1. UNCHANGED barrierVars
    BY <1>1 DEF barrierVars
  <2> QED
    BY <2>1, StepInv DEF SInv
<1>10. \A x \in Workers : /\ Particle(x)' = Particle(x) /\ HasParticle(x)' = HasParticle(x)
                          /\ Running(x)' = Running(x)
  BY <1>1 DEF Particle, HasParticle, Running
<1>11. SbTypeOK'
  <2>1. \A x \in Workers : seen'[x] \in Seq({seen'[x][l] : l \in DOMAIN seen'[x]})
    <3> SUFFICES ASSUME NEW x \in Workers
                 PROVE  seen'[x] \in Seq({seen'[x][l] : l \in DOMAIN seen'[x]})
      OBVIOUS
    <3>1. CASE x = w
      BY <1>8, <3>1
    <3>2. CASE x # w
      <4>1. seen'[x] = seen[x]
        BY <1>7, <3>2
      <4>2. seen[x] \in Seq({seen[x][l] : l \in DOMAIN seen[x]})
        BY DEF SInv, SbTypeOK
      <4> QED
        BY <4>1, <4>2
    <3> QED
      BY <3>1, <3>2
  <2>2. seen' = [x \in Workers |-> seen'[x]]
    BY <1>1, <1>3
  <2> QED
    BY <1>1, <1>9, <2>1, <2>2 DEF SInv, BInv, SbTypeOK
<1>12. BusyRuns'
  BY <1>1, <1>7, <1>10 DEF SInv, BusyRuns
<1>13. ScheduleBound'
  BY <1>1 DEF SInv, ScheduleBound
<1>14. SeenOfParticle'
  <2> SUFFICES ASSUME NEW x \in Workers, seen'[x] # <<>>
               PROVE  /\ HasParticle(x) /\ ~Publishing(arrivals[x])
                      /\ Len(seen'[x]) <= Len(Reads[Particle(x)])
    BY <1>1, <1>10 DEF SeenOfParticle
  <2>1. CASE x = w
    BY <1>1, <1>4, <1>8, <2>1
  <2>2. CASE x # w
    BY <1>7, <2>2 DEF SInv, SeenOfParticle
  <2> QED
    BY <2>1, <2>2
<1>15. SeenIsSequential'
  <2> SUFFICES ASSUME NEW x \in Workers, NEW l \in DOMAIN seen'[x]
               PROVE  seen'[x][l] = Couple(ref[Reads[Particle(x)][l]])
    BY <1>1, <1>10 DEF SeenIsSequential
  <2>1. CASE x = w
    <3>1. CASE l \in 1 .. Len(seen[w])
      <4>1. l \in DOMAIN seen[w]
        BY <1>3, <3>1
      <4> QED
        BY <1>8, <2>1, <3>1, <4>1 DEF SInv, SeenIsSequential
    <3>2. CASE l = Len(seen[w]) + 1
      BY <1>6, <1>8, <2>1, <3>2 DEF u
    <3> QED
      BY <1>4, <1>8, <2>1, <3>1, <3>2
  <2>2. CASE x # w
    BY <1>7, <2>2 DEF SInv, SeenIsSequential
  <2> QED
    BY <2>1, <2>2
<1>16. MatchesSequential'
  <2>1. \A i : Through(i)' = Through(i)
    BY <1>1 DEF Through, ThroughBy
  <2>2. SequentialStep(StepOf(released), ref)' = SequentialStep(StepOf(released), ref)
    BY <1>1 DEF SequentialStep, CoupledBy
  <2> QED
    BY <1>1, <2>1, <2>2 DEF SInv, MatchesSequential
<1> QED
  BY <1>9, <1>11, <1>12, <1>13, <1>14, <1>15, <1>16 DEF SInv

LEMMA MoveOwnInv ==
  ASSUME SInv, NEW w \in Workers, MoveOwn(w)
  PROVE  SInv'
<1> DEFINE j == Particle(w)
           k == StepOf(released)
<1>1. /\ Running(w) /\ ~Publishing(arrivals[w]) /\ HasParticle(w)
      /\ Len(seen[w]) = Len(Reads[j])
      /\ state' = [state EXCEPT ![j] = Move(StepOf(arrivals[w]), j, state[j], seen[w])]
      /\ seen' = [seen EXCEPT ![w] = <<>>]
      /\ done' = [done EXCEPT ![w] = done[w] + 1]
      /\ UNCHANGED <<waiting, sense, local, at, arrivals, released, coupled, ref>>
  BY DEF MoveOwn, barrierVars
<1>2. /\ arrivals[w] = released /\ released \in Nat
      /\ done[w] \in Nat /\ Lo(w) \in Nat /\ Hi(w) \in Nat
      /\ j = Lo(w) + done[w] /\ j < Hi(w) /\ j \in Particles /\ ~Through(j)
      /\ Reads[j] \in Seq(Particles)
  BY <1>1, AtOwnParticle
<1>3. /\ done \in [Workers -> Nat]
      /\ seen = [x \in Workers |-> seen[x]]
      /\ seen[w] \in Seq({seen[w][l] : l \in DOMAIN seen[w]})
      /\ state = [i \in Particles |-> state[i]]
  BY DEF SInv, SbTypeOK
<1>4. ~Publishing(released) /\ state[j] = Prepare(k, ref[j])
  BY <1>1, <1>2 DEF SInv, MatchesSequential
<1>5. seen[w] = CoupledBy(ref, j)
  <2>1. seen[w] = [l \in 1 .. Len(Reads[j]) |-> seen[w][l]]
    BY <1>1, <1>3
  <2>2. \A l \in 1 .. Len(Reads[j]) : seen[w][l] = Couple(ref[Reads[j][l]])
    BY <2>1 DEF SInv, SeenIsSequential
  <2> HIDE DEF j
  <2> QED
    BY <2>1, <2>2, Zenon DEF CoupledBy
<1>6. Move(StepOf(arrivals[w]), j, state[j], seen[w]) = SequentialStep(k, ref)[j]
  BY <1>2, <1>4, <1>5 DEF SequentialStep
<1> HIDE DEF j
<1>7. /\ state'[j] = SequentialStep(k, ref)[j]
      /\ \A i \in Particles \ {j} : state'[i] = state[i]
  BY <1>1, <1>2, <1>3, <1>6
<1>8. BInv'
  <2>1. UNCHANGED barrierVars
    BY <1>1 DEF barrierVars
  <2> QED
    BY <2>1, StepInv DEF SInv
<1>9. \A x \in Workers \ {w} :
        /\ done'[x] = done[x] /\ seen'[x] = seen[x]
        /\ Particle(x)' = Particle(x) /\ HasParticle(x)' = HasParticle(x)
        /\ Running(x)' = Running(x)
  BY <1>1, <1>3 DEF Particle, HasParticle, Running
<1>10. done'[w] = done[w] + 1 /\ seen'[w] = <<>> /\ Running(w)'
  BY <1>1, <1>3 DEF Running
<1>11. SbTypeOK'
  <2>1. done' \in [Workers -> Nat]
    BY <1>1, <1>3
  <2>2. ASSUME NEW x \in Workers
        PROVE  /\ done'[x] <= Hi(x) - Lo(x)
               /\ seen'[x] \in Seq({seen'[x][l] : l \in DOMAIN seen'[x]})
    <3>1. CASE x = w
      <4>1. done'[w] <= Hi(w) - Lo(w)
        BY <1>2, <1>10
      <4>2. seen'[w] \in Seq({seen'[w][l] : l \in DOMAIN seen'[w]})
        BY <1>10
      <4> QED
        BY <3>1, <4>1, <4>2
    <3>2. CASE x # w
      <4>1. done'[x] = done[x] /\ seen'[x] = seen[x]
        BY <1>9, <3>2
      <4>2. /\ done[x] <= Hi(x) - Lo(x)
            /\ seen[x] \in Seq({seen[x][l] : l \in DOMAIN seen[x]})
        BY DEF SInv, SbTypeOK
      <4> QED
        BY <4>1, <4>2
    <3> QED
      BY <3>1, <3>2
  <2>3. /\ state' = [i \in Particles |-> state'[i]]
        /\ seen' = [x \in Workers |-> seen'[x]]
    BY <1>1, <1>2, <1>3
  <2> QED
    BY <1>1, <1>8, <2>1, <2>2, <2>3 DEF SInv, BInv, SbTypeOK
<1>12. BusyRuns' /\ ScheduleBound'
  BY <1>1, <1>9, <1>10 DEF SInv, BusyRuns, ScheduleBound
<1>13. SeenOfParticle' /\ SeenIsSequential'
  <2>1. ASSUME NEW x \in Workers, x # w
        PROVE  seen'[x] # <<>> =>
                 /\ HasParticle(x)' /\ ~Publishing(arrivals'[x])
                 /\ Len(seen'[x]) <= Len(Reads[Particle(x)'])
    BY <1>1, <1>9, <2>1 DEF SInv, SeenOfParticle
  <2>2. SeenOfParticle'
    BY <1>10, <2>1 DEF SeenOfParticle
  <2>3. ASSUME NEW x \in Workers, NEW l \in DOMAIN seen'[x]
        PROVE  seen'[x][l] = Couple(ref[Reads[Particle(x)'][l]])
    <3>1. x # w
      BY <1>10
    <3> QED
      BY <1>9, <3>1, <2>3 DEF SInv, SeenIsSequential
  <2> QED
    BY <1>1, <2>2, <2>3 DEF SeenIsSequential
<1>14. MatchesSequential'
  <2>1. \A i \in Int : Through(i)' <=> Through(i) \/ i = j
    BY <1>1, <1>2, <1>3, OneMoreThrough
  <2>2. SequentialStep(k, ref)' = SequentialStep(k, ref)
    BY <1>1 DEF SequentialStep, CoupledBy
  <2>3. ASSUME NEW i \in Particles
        PROVE  /\ state'[i] = IF Through(i)' THEN SequentialStep(k, ref)[i]
                                             ELSE Prepare(k, ref[i])
               /\ coupled'[i] = Couple(ref[i])
    <3>1. i \in Int
      BY ParticlesAssumption DEF Particles
    <3>2. coupled'[i] = Couple(ref[i])
      BY <1>1, <1>4 DEF SInv, MatchesSequential
    <3>3. CASE i = j
      BY <1>7, <2>1, <3>1, <3>2, <3>3
    <3>4. CASE i # j
      <4>1. state[i] = IF Through(i) THEN SequentialStep(k, ref)[i] ELSE Prepare(k, ref[i])
        BY <1>4 DEF SInv, MatchesSequential
      <4> QED
        BY <1>7, <2>1, <3>1, <3>2, <3>4, <4>1
    <3> QED
      BY <3>3, <3>4
  <2> QED
    BY <1>1, <1>4, <2>2, <2>3 DEF MatchesSequential
<1> QED
  BY <1>8, <1>11, <1>12, <1>13, <1>14 DEF SInv

LEMMA FinishSliceInv ==
  ASSUME SInv, NEW w \in Workers, FinishSlice(w)
  PROVE  SInv'
<1>1. /\ Running(w) /\ ~HasParticle(w) /\ Arrive(w)
      /\ done' = [done EXCEPT ![w] = 0]
      /\ UNCHANGED <<state, coupled, seen, ref>>
  BY DEF FinishSlice
<1>2. /\ arrivals \in [Workers -> Nat] /\ done \in [Workers -> Nat]
      /\ at \in [Workers -> {"out", "spin", "last", "reset"}]
      /\ released \in Nat
  BY DEF SInv, SbTypeOK, BarrierTypeOK
<1>3. arrivals[w] = released /\ released < Rounds
  BY <1>1 DEF SInv, BInv, OutIsBehind, Running
<1>4. /\ released' = released /\ at'[w] # "out"
      /\ arrivals'[w] = released + 1 /\ done'[w] = 0 /\ seen'[w] = <<>>
  BY <1>1, <1>2, <1>3 DEF Arrive, SInv, SeenOfParticle
<1>5. \A x \in Workers \ {w} :
        /\ done'[x] = done[x] /\ seen'[x] = seen[x]
        /\ arrivals'[x] = arrivals[x] /\ at'[x] = at[x]
        /\ Particle(x)' = Particle(x) /\ HasParticle(x)' = HasParticle(x)
        /\ Running(x)' = Running(x)
  BY <1>1, <1>2 DEF Arrive, Particle, HasParticle, Running
<1>6. BInv'
  BY <1>1, ArriveInv DEF SInv
<1>7. SbTypeOK'
  <2>1. done' \in [Workers -> Nat]
    BY <1>1, <1>2
  <2>2. ASSUME NEW x \in Workers
        PROVE  done'[x] <= Hi(x) - Lo(x)
    <3>1. CASE x = w
      <4>1. Lo(w) \in Nat /\ Hi(w) \in Nat /\ Lo(w) <= Hi(w)
        BY SliceBounds
      <4> QED
        BY <1>4, <3>1, <4>1
    <3>2. CASE x # w
      BY <1>5, <3>2 DEF SInv, SbTypeOK
    <3> QED
      BY <3>1, <3>2
  <2> QED
    BY <1>1, <1>6, <2>1, <2>2 DEF SInv, BInv, SbTypeOK
<1>8. BusyRuns'
  BY <1>4, <1>5 DEF SInv, BusyRuns
<1>9. ScheduleBound'
  BY <1>2, <1>3, <1>4, <1>5, RoundsAssumption DEF SInv, ScheduleBound
<1>10. SeenOfParticle'
  BY <1>4, <1>5 DEF SInv, SeenOfParticle
<1>11. SeenIsSequential'
  <2> SUFFICES ASSUME NEW x \in Workers, NEW l \in DOMAIN seen'[x]
               PROVE  seen'[x][l] = Couple(ref[Reads[Particle(x)'][l]])
    BY <1>1 DEF SeenIsSequential
  <2>1. x # w
    BY <1>4
  <2> QED
    BY <1>5, <2>1 DEF SInv, SeenIsSequential
<1>12. MatchesSequential'
  <2>1. \A x \in Workers \ {w} : ThroughBy(x)' = ThroughBy(x)
    BY <1>4, <1>5 DEF ThroughBy
  <2>2. ThroughBy(w)' = ThroughBy(w)
    <3>1. Lo(w) + done[w] = Hi(w)
      <4>1. Lo(w) \in Nat /\ Hi(w) \in Nat /\ done[w] \in Nat
        BY <1>2, SliceBounds
      <4>2. done[w] <= Hi(w) - Lo(w)
        BY DEF SInv, SbTypeOK
      <4>3. ~(Lo(w) + done[w] < Hi(w))
        BY <1>1 DEF HasParticle, Particle
      <4> QED
        BY <4>1, <4>2, <4>3
    <3>2. arrivals'[w] # released'
      BY <1>2, <1>4
    <3> QED
      BY <1>3, <3>1, <3>2 DEF ThroughBy
  <2>3. \A i : Through(i)' = Through(i)
    BY <2>1, <2>2 DEF Through
  <2>4. SequentialStep(StepOf(released), ref)' = SequentialStep(StepOf(released), ref)
    BY <1>1, <1>4 DEF SequentialStep, CoupledBy
  <2> QED
    BY <1>1, <1>4, <2>3, <2>4 DEF SInv, MatchesSequential
<1> QED
  BY <1>6, <1>7, <1>8, <1>9, <1>10, <1>11, <1>12 DEF SInv

\* A step of the barrier that opens nothing disturbs nothing, as long as a
\* busy worker stays outside.
LEMMA BarrierOnlyInv ==
  ASSUME SInv, BInv', UNCHANGED <<arrivals, released, runVars>>,
         \A x \in Workers : at[x] = "out" => at'[x] = "out"
  PROVE  SInv'
<1> USE DEF runVars
<1>1. SbTypeOK'
  <2>1. SbTypeOK
    BY DEF SInv
  <2>2. BarrierTypeOK'
    BY DEF BInv
  <2>3. (state = [i \in Particles |-> state[i]])' /\ (ref = [i \in Particles |-> ref[i]])'
    BY <2>1 DEF SbTypeOK
  <2>4. (coupled = [i \in Particles |-> coupled[i]])' /\ (seen = [w \in Workers |-> seen[w]])'
    BY <2>1 DEF SbTypeOK
  <2>5. (\A w \in Workers : seen[w] \in Seq({seen[w][l] : l \in DOMAIN seen[w]}))'
    BY <2>1 DEF SbTypeOK
  <2>6. (done \in [Workers -> Nat])' /\ (\A w \in Workers : done[w] <= Hi(w) - Lo(w))'
    BY <2>1 DEF SbTypeOK
  <2> QED
    BY <2>2, <2>3, <2>4, <2>5, <2>6 DEF SbTypeOK
<1>2. \A x \in Workers : Particle(x)' = Particle(x) /\ HasParticle(x)' = HasParticle(x)
  BY DEF Particle, HasParticle
<1>3. BusyRuns'
  BY DEF SInv, BusyRuns, Running
<1>4. ScheduleBound'
  BY DEF SInv, ScheduleBound
<1>5. SeenOfParticle' /\ SeenIsSequential'
  BY <1>2 DEF SInv, SeenOfParticle, SeenIsSequential
<1>6. MatchesSequential'
  <2>1. \A i : Through(i)' = Through(i)
    BY DEF Through, ThroughBy
  <2>2. SequentialStep(StepOf(released), ref)' = SequentialStep(StepOf(released), ref)
    BY DEF SequentialStep, CoupledBy
  <2> QED
    BY <2>1, <2>2 DEF SInv, MatchesSequential
<1> QED
  BY <1>1, <1>3, <1>4, <1>5, <1>6 DEF SInv

\* When the barrier opens, every particle is through, and then none is.
LEMMA OpenWhenThrough ==
  ASSUME SInv, NEW w \in Workers, Release(w), UNCHANGED done
  PROVE  /\ \A x \in Workers : done[x] = 0 /\ seen[x] = <<>>
         /\ \A i \in Particles : Through(i)
         /\ \A i \in Particles : ~Through(i)'
<1>1. \A x \in Workers : at[x] # "out" /\ arrivals[x] = released + 1
  BY DEF Release, SInv, BInv, BarrierTypeOK, LastIsAlone
<1>2. arrivals' = arrivals /\ released' = released + 1 /\ released \in Nat
  BY DEF Release, SInv, SbTypeOK, BarrierTypeOK
<1>3. \A x \in Workers : done[x] = 0 /\ seen[x] = <<>>
  BY <1>1 DEF SInv, BusyRuns, Running
<1>4. ASSUME NEW i \in Particles PROVE Through(i)
  <2>1. PICK x \in Workers : i \in Lo(x) .. Hi(x) - 1
    BY SlicesCover
  <2>2. arrivals[x] # released
    BY <1>1, <1>2
  <2> QED
    BY <2>1, <2>2 DEF Through, ThroughBy
<1>5. ASSUME NEW i \in Particles, NEW x \in Workers, (i \in ThroughBy(x))' PROVE FALSE
  <2>1. Lo(x) \in Nat
    BY SliceBounds
  <2>2. ThroughBy(x)' = Lo(x) .. (Lo(x) + 0) - 1
    BY <1>1, <1>2, <1>3 DEF ThroughBy
  <2> QED
    BY <1>5, <2>1, <2>2
<1> QED
  BY <1>3, <1>4, <1>5 DEF Through

LEMMA ReleaseRoundInv ==
  ASSUME SInv, NEW w \in Workers, Release(w),
         ref' = IF Publishing(released) THEN ref
                ELSE SequentialStep(StepOf(released), ref),
         UNCHANGED <<state, coupled, seen, done>>
  PROVE  SInv'
<1> DEFINE k == StepOf(released)
<1>1. /\ \A x \in Workers : done[x] = 0 /\ seen[x] = <<>>
      /\ \A i \in Particles : Through(i)
      /\ \A i \in Particles : ~Through(i)'
  BY OpenWhenThrough
<1>2. arrivals' = arrivals /\ released' = released + 1 /\ released \in Nat
  BY DEF Release, SInv, SbTypeOK, BarrierTypeOK
<1>3. /\ Publishing(released) => ~Publishing(released') /\ StepOf(released') = k
      /\ ~Publishing(released) => Publishing(released')
  BY <1>2, Parity
<1>4. BInv'
  BY ReleaseInv DEF SInv
<1>5. SbTypeOK'
  <2>1. ref' = [i \in Particles |-> ref'[i]]
    BY DEF SequentialStep, SInv, SbTypeOK
  <2> QED
    BY <1>4, <2>1 DEF SInv, BInv, SbTypeOK
<1>6. BusyRuns' /\ SeenOfParticle' /\ SeenIsSequential'
  BY <1>1 DEF BusyRuns, SeenOfParticle, SeenIsSequential
<1>7. ScheduleBound'
  BY <1>2 DEF SInv, ScheduleBound
<1>8. MatchesSequential'
  <2>1. CASE Publishing(released)
    <3>1. \A i \in Particles : state[i] = Prepare(k, ref[i]) /\ coupled[i] = Couple(ref[i])
      BY <1>1, <2>1 DEF SInv, MatchesSequential
    <3> QED
      BY <1>1, <1>3, <2>1, <3>1 DEF MatchesSequential
  <2>2. CASE ~Publishing(released)
    <3>1. \A i \in Particles : state[i] = ref'[i]
      BY <1>1, <2>2 DEF SInv, MatchesSequential
    <3> QED
      BY <1>1, <1>3, <2>2, <3>1 DEF MatchesSequential
  <2> QED
    BY <2>1, <2>2
<1> QED
  BY <1>4, <1>5, <1>6, <1>7, <1>8 DEF SInv

LEMMA SbStepInv == SInv /\ [Next]_sbVars => SInv'
<1> SUFFICES ASSUME SInv, [Next]_sbVars PROVE SInv'
  OBVIOUS
<1>1. ASSUME NEW w \in Workers, WorkerStep(w) PROVE SInv'
  <2>1. CASE Publish(w) \/ LoadCoupled(w) \/ MoveOwn(w) \/ FinishSlice(w)
    BY <2>1, PublishInv, LoadCoupledInv, MoveOwnInv, FinishSliceInv
  <2>2. CASE Reset(w) /\ UNCHANGED runVars
    <3>1. BInv'
      BY <2>2, ResetInv DEF SInv
    <3>2. /\ UNCHANGED <<arrivals, released>>
          /\ \A x \in Workers : at[x] = "out" => at'[x] = "out"
      BY <2>2 DEF Reset, SInv, BInv, BarrierTypeOK
    <3> QED
      BY <2>2, <3>1, <3>2, BarrierOnlyInv
  <2>3. CASE /\ Release(w)
             /\ ref' = IF Publishing(released) THEN ref
                       ELSE SequentialStep(StepOf(released), ref)
             /\ UNCHANGED <<state, coupled, seen, done>>
    BY <2>3, ReleaseRoundInv
  <2>4. CASE Leave(w) /\ UNCHANGED runVars
    <3>1. BInv'
      BY <2>4, LeaveInv DEF SInv
    <3>2. /\ UNCHANGED <<arrivals, released>>
          /\ \A x \in Workers : at[x] = "out" => at'[x] = "out"
      BY <2>4 DEF Leave, SInv, BInv, BarrierTypeOK
    <3> QED
      BY <2>4, <3>1, <3>2, BarrierOnlyInv
  <2> QED
    BY <1>1, <2>1, <2>2, <2>3, <2>4 DEF WorkerStep, WaitStep
<1>2. CASE UNCHANGED sbVars
  <2>1. UNCHANGED barrierVars /\ UNCHANGED runVars
    BY <1>2 DEF sbVars
  <2>2. BInv'
    BY <2>1, StepInv DEF SInv
  <2> QED
    BY <2>1, <2>2, BarrierOnlyInv DEF barrierVars
<1> QED
  BY <1>1, <1>2 DEF Next

LEMMA SbInductive == Spec => []SInv
<1> QED
  BY SbInitInv, SbStepInv, PTL DEF Spec

-----------------------------------------------------------------------------
\* Every particle has a state, and no worker leaves its slice, for every
\* problem, number of steps and number of workers.
THEOREM SbTypeCorrect == Spec => []SbTypeOK
<1>1. SInv => SbTypeOK
  BY DEF SInv
<1> QED
  BY <1>1, SbInductive, PTL

\* The shared state is at every moment that of the sequential run: the result
\* is the same at any worker count and under any interleaving
\* (sb_core.rs 482-484).
THEOREM SlicingDoesNotMatter == Spec => []MatchesSequential
<1>1. SInv => MatchesSequential
  BY DEF SInv
<1> QED
  BY <1>1, SbInductive, PTL

\* The values that a worker has added up are still the published ones
\* (sb_core.rs 478-480).
THEOREM ForcesAreWhole == Spec => []NoTornForce
<1>1. ASSUME SInv, NEW w \in Workers, NEW l \in DOMAIN seen[w]
      PROVE  seen[w][l] = coupled[Reads[Particle(w)][l]]
  <2>1. seen[w] # <<>> /\ DOMAIN seen[w] = 1 .. Len(seen[w]) /\ Len(seen[w]) \in Nat
    <3>1. seen[w] \in Seq({seen[w][i] : i \in DOMAIN seen[w]})
      BY <1>1 DEF SInv, SbTypeOK
    <3> QED
      BY <1>1, <3>1
  <2>2. Running(w) /\ HasParticle(w)
    BY <1>1, <2>1 DEF SInv, BusyRuns, SeenOfParticle
  <2>3. /\ arrivals[w] = released
        /\ Reads[Particle(w)] \in Seq(Particles)
    BY <1>1, <2>2, AtOwnParticle
  <2>4. ~Publishing(released) /\ Len(seen[w]) <= Len(Reads[Particle(w)])
    BY <1>1, <2>1, <2>3 DEF SInv, SeenOfParticle
  <2>5. Reads[Particle(w)][l] \in Particles
    BY <1>1, <2>1, <2>3, <2>4
  <2>6. coupled[Reads[Particle(w)][l]] = Couple(ref[Reads[Particle(w)][l]])
    BY <1>1, <2>4, <2>5 DEF SInv, MatchesSequential
  <2> QED
    BY <1>1, <2>6 DEF SInv, SeenIsSequential
<1>2. SInv => NoTornForce
  BY <1>1 DEF NoTornForce
<1> QED
  BY <1>2, SbInductive, PTL

\* A finished run copies the sequential result back.
THEOREM SbResultHolds == Spec => []ResultIsSequential
<1>1. SInv => ResultIsSequential
  <2> SUFFICES ASSUME SInv, RunDone PROVE state = ref
    BY DEF ResultIsSequential
  <2>1. \A w \in Workers : at[w] = "out" /\ arrivals[w] = Rounds
    BY DEF RunDone
  <2>2. \A w \in Workers : done[w] = 0 /\ arrivals[w] = released
    BY <2>1, RoundsAssumption DEF SInv, BInv, OutIsBehind, BusyRuns, Running
  <2>3. released = Rounds
    <3>1. 0 \in Workers
      BY NAssumption DEF Workers
    <3> QED
      BY <2>1, <2>2, <3>1
  <2>4. Publishing(released)
    BY <2>3, StepsAssumption DEF Publishing
  <2>5. \A i \in Particles : ~Through(i)
    <3> SUFFICES ASSUME NEW i \in Particles, NEW w \in Workers, i \in ThroughBy(w)
                 PROVE  FALSE
      BY DEF Through
    <3>1. Lo(w) \in Nat
      BY SliceBounds
    <3>2. ThroughBy(w) = Lo(w) .. (Lo(w) + 0) - 1
      BY <2>2 DEF ThroughBy
    <3> QED
      BY <3>1, <3>2
  <2>6. \A i \in Particles : state[i] = ref[i]
    BY <2>4, <2>5 DEF SInv, MatchesSequential
  <2>7. /\ state = [i \in Particles |-> state[i]]
        /\ ref = [i \in Particles |-> ref[i]]
    BY DEF SInv, SbTypeOK
  <2> QED
    BY <2>6, <2>7, Zenon
<1> QED
  BY <1>1, SbInductive, PTL

-----------------------------------------------------------------------------
(* The rows of a graph: every edge is in two of them.                      *)

Nodes == 0 .. NumNodes - 1
EdgeSet == 1 .. Len(Edges)
At(v) == {k \in EdgeSet : Usable(k) /\ v \in {Edges[k][1], Edges[k][2]}}

\* What the particles of signs s minimize, and its parts.
Local(s, i) == SumFunction([l \in DOMAIN Terms[i] |-> Terms[i][l].coupling * s[Terms[i][l].node]])
Bonds(s) == [k \in EdgeSet |->
               IF Usable(k) THEN CouplingOf(k) * s[Edges[k][1]] * s[Edges[k][2]] ELSE 0]
Fields(s) == [v \in Nodes |-> Biases[v] * s[v]]

LEMMA EdgeFacts ==
  /\ NumNodes \in Nat /\ Len(Edges) \in Nat
  /\ \A k \in EdgeSet : /\ CouplingOf(k) \in Int
                        /\ Edges[k][1] \in Nat /\ Edges[k][2] \in Nat
                        /\ Usable(k) => Edges[k][1] \in Nodes /\ Edges[k][2] \in Nodes
  /\ \A v \in Nodes : Biases[v] \in Int
  /\ IsFiniteSet(Nodes) /\ IsFiniteSet(EdgeSet) /\ IsFiniteSet(AllParticles)
  /\ \A v : IsFiniteSet(At(v)) /\ At(v) \in SUBSET EdgeSet
  /\ AllParticles = Nodes \cup (IF HasBias THEN {Ancilla} ELSE {}) /\ Ancilla \notin Nodes
<1>1. NumNodes \in Nat /\ Len(Edges) \in Nat
  BY ProblemAssumption
<1>2. ASSUME NEW k \in EdgeSet
      PROVE  /\ CouplingOf(k) \in Int
             /\ Edges[k][1] \in Nat /\ Edges[k][2] \in Nat
             /\ Usable(k) => Edges[k][1] \in Nodes /\ Edges[k][2] \in Nodes
  <2>1. Edges[k] \in Nat \X Nat
    BY ProblemAssumption DEF EdgeSet
  <2>2. CouplingOf(k) \in Int
    BY ProblemAssumption DEF EdgeSet, CouplingOf
  <2> QED
    BY <1>1, <2>1, <2>2 DEF Usable, Nodes
<1>3. IsFiniteSet(Nodes) /\ IsFiniteSet(EdgeSet)
  BY <1>1, FS_Interval DEF Nodes, EdgeSet
<1>4. \A v : IsFiniteSet(At(v)) /\ At(v) \in SUBSET EdgeSet
  BY <1>3, SubsetsAreFinite DEF At
<1>5. AllParticles = Nodes \cup (IF HasBias THEN {Ancilla} ELSE {}) /\ Ancilla \notin Nodes
  BY <1>1 DEF AllParticles, NumParticles, Nodes, Ancilla
<1>6. IsFiniteSet(AllParticles)
  <2>1. NumParticles \in Int
    BY <1>1 DEF NumParticles
  <2> QED
    BY <2>1, FS_Interval DEF AllParticles
<1> QED
  BY <1>1, <1>2, <1>3, <1>4, <1>5, <1>6, ProblemAssumption DEF Nodes

LEMMA EdgesAtOnce ==
  ASSUME NEW v
  PROVE  EdgesAt(v) \in Bijection(1 .. Cardinality(At(v)), At(v))
<1>1. PICK a : a = At(v)
  OBVIOUS
<1>2. a \in SUBSET (1 .. Len(Edges)) /\ IsFiniteSet(a) /\ Len(Edges) \in Nat
  BY <1>1, EdgeFacts DEF EdgeSet
<1>3. \E s \in [1 .. Cardinality(a) -> a] : Increasing(s)
  BY <1>2, IncreasingExists
<1>4. EdgesAt(v) = CHOOSE s \in [1 .. Cardinality(a) -> a] : Increasing(s)
  BY <1>1, Zenon DEF EdgesAt, Increasing, At, EdgeSet
<1>5. PICK e : e = EdgesAt(v)
  OBVIOUS
<1>6. e \in [1 .. Cardinality(a) -> a] /\ Increasing(e)
  BY <1>3, <1>4, <1>5, Zenon
<1>7. a \in SUBSET Nat
  BY <1>2
<1> QED
  BY <1>1, <1>2, <1>5, <1>6, <1>7, IncreasingIsBijection

\* A row adds up the edges at its node.
LEMMA RowSum ==
  ASSUME NEW v \in Nodes, NEW s, \A i \in AllParticles : s[i] \in Int,
         NEW f, \A l \in DOMAIN Row(v) : f[l] = Row(v)[l].coupling * s[Row(v)[l].node]
  PROVE  /\ DOMAIN Row(v) = 1 .. Cardinality(At(v))
         /\ \A l \in DOMAIN Row(v) : Row(v)[l].node \in Nodes /\ Row(v)[l].coupling \in Int
         /\ \A k \in At(v) : CouplingOf(k) * s[OtherEnd(k, v)] \in Int
         /\ SumFunctionOnSet(f, DOMAIN Row(v))
              = SumFunctionOnSet([k \in At(v) |-> CouplingOf(k) * s[OtherEnd(k, v)]], At(v))
<1>1. PICK e : e = EdgesAt(v)
  OBVIOUS
<1>2. PICK n : n = Cardinality(At(v))
  OBVIOUS
<1>3. e \in Bijection(1 .. n, At(v))
  BY <1>1, <1>2, EdgesAtOnce
<1>4. e \in [1 .. n -> At(v)]
  BY <1>3 DEF Bijection, Injection
<1>5. Row(v) = [l \in 1 .. n |-> [node |-> OtherEnd(e[l], v), coupling |-> CouplingOf(e[l])]]
  BY <1>1, <1>4 DEF Row
<1>6. \A k \in At(v) : OtherEnd(k, v) \in Nodes /\ CouplingOf(k) \in Int
  BY EdgeFacts DEF At, OtherEnd
<1>7. \A k \in At(v) : s[OtherEnd(k, v)] \in Int
  BY <1>6, EdgeFacts
<1>8. PICK g : g = [k \in At(v) |-> CouplingOf(k) * s[OtherEnd(k, v)]]
  OBVIOUS
<1>9. \A k \in At(v) : g[k] \in Int
  BY <1>6, <1>7, <1>8
<1>10. \A l \in 1 .. n : f[l] = g[e[l]]
  BY <1>4, <1>5, <1>8
<1>11. IsFiniteSet(1 .. n)
  <2>1. n \in Nat
    BY <1>2, EdgeFacts, FS_CardinalityType
  <2> QED
    BY <2>1, FS_Interval
<1>12. SumFunctionOnSet(f, 1 .. n) = SumFunctionOnSet(g, At(v))
  <2>1. PICK A : A = 1 .. n
    OBVIOUS
  <2>2. PICK B : B = At(v)
    OBVIOUS
  <2>3. /\ e \in Bijection(A, B) /\ IsFiniteSet(A)
        /\ \A b \in B : g[b] \in Int
        /\ \A a \in A : f[a] = g[e[a]]
    BY <1>3, <1>9, <1>10, <1>11, <2>1, <2>2
  <2>4. SumFunctionOnSet(f, A) = SumFunctionOnSet(g, B)
    BY <2>3, SumRename
  <2> QED
    BY <2>1, <2>2, <2>4
<1>13. DOMAIN Row(v) = 1 .. n
  BY <1>5
<1>14. \A l \in 1 .. n : Row(v)[l].node \in Nodes /\ Row(v)[l].coupling \in Int
  BY <1>4, <1>5, <1>6
<1>15. \A k \in At(v) : CouplingOf(k) * s[OtherEnd(k, v)] \in Int
  BY <1>6, <1>7
<1> QED
  BY <1>2, <1>8, <1>12, <1>13, <1>14, <1>15

Term == [node : AllParticles, coupling : Int]

LEMMA RowType ==
  ASSUME NEW v \in Nodes
  PROVE  Row(v) \in Seq(Term) /\ Len(Row(v)) = Cardinality(At(v))
<1>1. PICK e : e = EdgesAt(v)
  OBVIOUS
<1>2. PICK n : n = Cardinality(At(v))
  OBVIOUS
<1>3. e \in [1 .. n -> At(v)]
  BY <1>1, <1>2, EdgesAtOnce DEF Bijection, Injection
<1>4. Row(v) = [l \in 1 .. n |-> [node |-> OtherEnd(e[l], v), coupling |-> CouplingOf(e[l])]]
  BY <1>1, <1>3 DEF Row
<1>5. \A k \in At(v) : OtherEnd(k, v) \in AllParticles /\ CouplingOf(k) \in Int
  BY EdgeFacts DEF At, OtherEnd
<1>6. n \in Nat
  BY <1>2, EdgeFacts, FS_CardinalityType
<1>7. Row(v) \in [1 .. n -> Term]
  BY <1>3, <1>4, <1>5 DEF Term
<1> QED
  BY <1>2, <1>6, <1>7

\* The terms of a node: its row, and its bias.
LEMMA TermsOfNode ==
  ASSUME NEW v \in Nodes
  PROVE  /\ Terms[v] \in Seq(Term)
         /\ DOMAIN Row(v) = 1 .. Len(Row(v)) /\ Len(Row(v)) \in Nat
         /\ \A l \in DOMAIN Row(v) : Terms[v][l] = Row(v)[l]
         /\ IF HasBias
            THEN /\ DOMAIN Terms[v] = DOMAIN Row(v) \cup {Len(Row(v)) + 1}
                 /\ Terms[v][Len(Row(v)) + 1] = [node |-> Ancilla, coupling |-> Biases[v]]
            ELSE DOMAIN Terms[v] = DOMAIN Row(v)
<1>1. PICK r : r = Row(v)
  OBVIOUS
<1>2. r \in Seq(Term)
  BY <1>1, RowType
<1>3. v \in AllParticles /\ v # Ancilla /\ Biases[v] \in Int
  BY EdgeFacts
<1>4. CASE HasBias
  <2>1. PICK b : b = [node |-> Ancilla, coupling |-> Biases[v]]
    OBVIOUS
  <2>2. b \in Term
    BY <1>3, <1>4, <2>1, EdgeFacts DEF Term
  <2>3. Terms[v] = r \o <<b>>
    BY <1>1, <1>3, <1>4, <2>1 DEF Terms
  <2>4. PICK c : c = r \o <<b>>
    OBVIOUS
  <2>5. c \in Seq(Term) /\ Len(c) = Len(r) + 1 /\ c[Len(r) + 1] = b
        /\ \A l \in 1 .. Len(r) : c[l] = r[l]
    BY <1>2, <2>2, <2>4
  <2>6. Len(r) \in Nat /\ DOMAIN r = 1 .. Len(r) /\ DOMAIN c = 1 .. Len(r) + 1
    BY <1>2, <2>5
  <2> QED
    BY <1>1, <1>4, <2>1, <2>3, <2>4, <2>5, <2>6
<1>5. CASE ~HasBias
  <2>1. Terms[v] = r \o <<>>
    BY <1>1, <1>3, <1>5 DEF Terms
  <2>2. r \o <<>> = r
    BY <1>2
  <2> QED
    BY <1>1, <1>2, <1>5, <2>1, <2>2
<1> QED
  BY <1>4, <1>5

LEMMA TermsOfAncilla ==
  ASSUME HasBias
  PROVE  /\ Terms[Ancilla] \in Seq(Term)
         /\ DOMAIN Terms[Ancilla] = 1 .. NumNodes
         /\ \A l \in 1 .. NumNodes :
              Terms[Ancilla][l] = [node |-> l - 1, coupling |-> Biases[l - 1]]
<1>1. Ancilla \in AllParticles
  BY EdgeFacts
<1>2. Terms[Ancilla] = [l \in 1 .. NumNodes |-> [node |-> l - 1, coupling |-> Biases[l - 1]]]
  BY <1>1 DEF Terms
<1>3. \A l \in 1 .. NumNodes : l - 1 \in Nodes
  BY EdgeFacts DEF Nodes
<1>4. \A l \in 1 .. NumNodes : [node |-> l - 1, coupling |-> Biases[l - 1]] \in Term
  BY <1>3, EdgeFacts DEF Term
<1> QED
  BY <1>2, <1>4, EdgeFacts

\* What any force adds up is finite and typed.
LEMMA TermsType ==
  ASSUME NEW i \in AllParticles
  PROVE  /\ Terms[i] \in Seq(Term)
         /\ IsFiniteSet(DOMAIN Terms[i])
         /\ \A l \in DOMAIN Terms[i] : Terms[i][l].node \in AllParticles /\ Terms[i][l].coupling \in Int
<1>1. Terms[i] \in Seq(Term)
  BY EdgeFacts, TermsOfNode, TermsOfAncilla
<1>2. \A l \in DOMAIN Terms[i] : Terms[i][l] \in Term
  BY <1>1
<1>3. DOMAIN Terms[i] = 1 .. Len(Terms[i]) /\ Len(Terms[i]) \in Nat
  BY <1>1
<1>4. IsFiniteSet(DOMAIN Terms[i])
  BY <1>3, FS_Interval
<1> QED
  BY <1>1, <1>2, <1>4 DEF Term

\* An edge at v reaches it from the other end.
Reached(s, v) == [k \in At(v) |-> CouplingOf(k) * s[OtherEnd(k, v)]]

LEMMA LocalOfNode ==
  ASSUME NEW v \in Nodes, NEW s, \A i \in AllParticles : s[i] \in Int
  PROVE  /\ SumFunctionOnSet(Reached(s, v), At(v)) \in Int
         /\ \A k \in At(v) : Reached(s, v)[k] \in Int
         /\ Local(s, v) = SumFunctionOnSet(Reached(s, v), At(v))
                            + (IF HasBias THEN Biases[v] * s[Ancilla] ELSE 0)
<1>1. PICK t : t = Terms[v]
  OBVIOUS
<1>2. PICK R : R = DOMAIN Row(v)
  OBVIOUS
<1>3. PICK f : f = [l \in DOMAIN t |-> t[l].coupling * s[t[l].node]]
  OBVIOUS
<1>4. Local(s, v) = SumFunctionOnSet(f, DOMAIN t)
  BY <1>1, <1>3 DEF Local, SumFunction
<1>5. R \subseteq DOMAIN t /\ \A l \in R : t[l] = Row(v)[l]
  BY <1>1, <1>2, TermsOfNode
<1>6. \A l \in R : f[l] = Row(v)[l].coupling * s[Row(v)[l].node]
  BY <1>3, <1>5
<1>7. PICK g : g = Reached(s, v)
  OBVIOUS
<1>8. PICK A : A = At(v)
  OBVIOUS
<1>9. SumFunctionOnSet(f, R) = SumFunctionOnSet(g, A)
  BY <1>2, <1>6, <1>7, <1>8, RowSum DEF Reached
<1>10. \A k \in A : g[k] \in Int
  BY <1>2, <1>6, <1>7, <1>8, RowSum DEF Reached
<1>11. SumFunctionOnSet(g, A) \in Int
  <2>1. IsFiniteSet(A)
    BY <1>8, EdgeFacts
  <2> QED
    BY <1>10, <2>1, SumType
<1>12. CASE ~HasBias
  <2>1. DOMAIN t = R
    BY <1>1, <1>2, <1>12, TermsOfNode
  <2> QED
    BY <1>4, <1>7, <1>8, <1>9, <1>10, <1>11, <1>12, <2>1
<1>13. CASE HasBias
  <2>1. PICK n : n = Len(Row(v)) + 1
    OBVIOUS
  <2>2. DOMAIN t = R \cup {n} /\ n \notin R /\ t[n] = [node |-> Ancilla, coupling |-> Biases[v]]
    BY <1>1, <1>2, <1>13, <2>1, TermsOfNode
  <2>3. f[n] = Biases[v] * s[Ancilla]
    BY <1>3, <2>2
  <2>4. f[n] \in Int
    BY <1>13, <2>3, EdgeFacts
  <2>5. IsFiniteSet(R) /\ \A l \in R : f[l] \in Int
    <3>1. \A l \in R : Row(v)[l].coupling \in Int /\ Row(v)[l].node \in AllParticles
      BY <1>1, <1>2, <1>5, TermsType, EdgeFacts
    <3>2. v \in AllParticles
      BY EdgeFacts
    <3>3. IsFiniteSet(DOMAIN t)
      BY <1>1, <3>2, TermsType
    <3> QED
      BY <1>5, <1>6, <3>1, <3>3, SubsetsAreFinite
  <2>6. SumFunctionOnSet(f, R \cup {n}) = f[n] + SumFunctionOnSet(f, R)
    BY <2>2, <2>4, <2>5, SumAdjoin
  <2>7. SumFunctionOnSet(f, DOMAIN t) = SumFunctionOnSet(g, A) + Biases[v] * s[Ancilla]
    BY <1>9, <1>11, <2>2, <2>3, <2>4, <2>6
  <2> QED
    BY <1>4, <1>7, <1>8, <1>10, <1>11, <1>13, <2>7
<1> QED
  BY <1>12, <1>13

LEMMA LocalOfAncilla ==
  ASSUME HasBias, NEW s, \A i \in AllParticles : s[i] \in Int
  PROVE  Local(s, Ancilla) = SumFunctionOnSet(Fields(s), Nodes)
<1>1. PICK t : t = Terms[Ancilla]
  OBVIOUS
<1>2. PICK A : A = 1 .. NumNodes
  OBVIOUS
<1>3. PICK f : f = [l \in A |-> t[l].coupling * s[t[l].node]]
  OBVIOUS
<1>4. DOMAIN t = A /\ \A l \in A : t[l] = [node |-> l - 1, coupling |-> Biases[l - 1]]
  BY <1>1, <1>2, TermsOfAncilla
<1>5. Local(s, Ancilla) = SumFunctionOnSet(f, A)
  BY <1>1, <1>3, <1>4 DEF Local, SumFunction
<1>6. PICK p : p = [l \in A |-> l - 1]
  OBVIOUS
<1>7. p \in Bijection(A, Nodes)
  <2>1. p \in [A -> Nodes]
    BY <1>2, <1>6, EdgeFacts DEF Nodes
  <2>2. \A l, m \in A : p[l] = p[m] => l = m
    BY <1>2, <1>6
  <2>3. \A v \in Nodes : \E l \in A : p[l] = v
    <3> SUFFICES ASSUME NEW v \in Nodes
                 PROVE  \E l \in A : p[l] = v
      OBVIOUS
    <3>1. v + 1 \in A /\ p[v + 1] = v
      BY <1>2, <1>6, EdgeFacts DEF Nodes
    <3> QED
      BY <3>1
  <2> QED
    BY <2>1, <2>2, <2>3 DEF Bijection, Injection, Surjection, IsInjective
<1>8. PICK g : g = Fields(s)
  OBVIOUS
<1>9. \A v \in Nodes : g[v] \in Int
  BY <1>8, EdgeFacts DEF Fields
<1>10. \A l \in A : f[l] = g[p[l]]
  <2> SUFFICES ASSUME NEW l \in A
               PROVE  f[l] = g[p[l]]
    OBVIOUS
  <2>1. l - 1 \in Nodes
    BY <1>2, EdgeFacts DEF Nodes
  <2> QED
    BY <1>3, <1>4, <1>6, <1>8, <2>1 DEF Fields
<1>11. IsFiniteSet(A)
  BY <1>2, EdgeFacts, FS_Interval
<1>12. SumFunctionOnSet(f, A) = SumFunctionOnSet(g, Nodes)
  BY <1>7, <1>9, <1>10, <1>11, SumRename
<1> QED
  BY <1>5, <1>8, <1>12

\* Added up over the nodes, every edge counts twice.
LEMMA EdgesTwice ==
  ASSUME NEW s, \A i \in AllParticles : s[i] \in Int,
         NEW f, \A v \in Nodes : f[v] = s[v] * SumFunctionOnSet(Reached(s, v), At(v))
  PROVE  SumFunctionOnSet(f, Nodes) = 2 * SumFunctionOnSet(Bonds(s), EdgeSet)
<1> DEFINE M1 == [v \in Nodes |-> [k \in EdgeSet |->
                     IF k \in At(v) THEN s[v] * (CouplingOf(k) * s[OtherEnd(k, v)]) ELSE 0]]
<1>1. PICK m : m = M1
  OBVIOUS
<1>2. \A v \in Nodes : s[v] \in Int
  BY EdgeFacts
<1>3. \A v \in Nodes : \A k \in At(v) : Reached(s, v)[k] \in Int
  BY LocalOfNode
<1>4. \A v \in Nodes : \A k \in At(v) : m[v][k] = s[v] * Reached(s, v)[k]
  BY <1>1, EdgeFacts DEF Reached
<1>5. \A v \in Nodes : \A k \in EdgeSet : m[v][k] \in Int /\ (k \notin At(v) => m[v][k] = 0)
  <2> SUFFICES ASSUME NEW v \in Nodes, NEW k \in EdgeSet
               PROVE  m[v][k] \in Int /\ (k \notin At(v) => m[v][k] = 0)
    OBVIOUS
  <2>1. CASE k \in At(v)
    BY <1>2, <1>3, <1>4, <2>1
  <2>2. CASE k \notin At(v)
    BY <1>1, <2>2
  <2> QED
    BY <2>1, <2>2
<1>6. \A v \in Nodes : f[v] = SumFunctionOnSet(m[v], EdgeSet)
  <2> SUFFICES ASSUME NEW v \in Nodes
               PROVE  f[v] = SumFunctionOnSet(m[v], EdgeSet)
    OBVIOUS
  <2>1. PICK A : A = At(v)
    OBVIOUS
  <2>2. PICK r : r = Reached(s, v)
    OBVIOUS
  <2>3. PICK row : row = m[v]
    OBVIOUS
  <2>4. IsFiniteSet(A) /\ A \in SUBSET EdgeSet /\ IsFiniteSet(EdgeSet)
    BY <2>1, EdgeFacts
  <2>5. (\A k \in A : row[k] \in Int) /\ (\A k \in EdgeSet \ A : row[k] = 0)
    BY <1>5, <2>1, <2>3, <2>4
  <2>6. SumFunctionOnSet(row, EdgeSet) = SumFunctionOnSet(row, A)
    BY <2>4, <2>5, SumOfPart
  <2>7. \A k \in A : r[k] \in Int /\ row[k] = s[v] * r[k]
    BY <1>3, <1>4, <2>1, <2>2, <2>3
  <2>8. s[v] \in Int
    BY <1>2
  <2>9. SumFunctionOnSet(row, A) = s[v] * SumFunctionOnSet(r, A)
    BY <2>4, <2>7, <2>8, SumTimes
  <2> QED
    BY <2>1, <2>2, <2>3, <2>6, <2>9
<1> DEFINE W1 == [k \in EdgeSet |-> [v \in Nodes |-> m[v][k]]]
<1>w. PICK w : w = W1
  OBVIOUS
<1>7. PICK cols : cols = [k \in EdgeSet |-> SumFunctionOnSet(w[k], Nodes)]
  OBVIOUS
<1>8. SumFunctionOnSet(f, Nodes) = SumFunctionOnSet(cols, EdgeSet)
  <2>1. TwoWays(Nodes, EdgeSet, m, w, f, cols)
    BY <1>5, <1>6, <1>7, <1>w DEF TwoWays
  <2>2. IsFiniteSet(Nodes) /\ IsFiniteSet(EdgeSet)
    BY EdgeFacts
  <2> QED
    BY <2>1, <2>2, SumSwap
<1>9. \A k \in EdgeSet : Bonds(s)[k] \in Int /\ cols[k] = 2 * Bonds(s)[k]
  <2> SUFFICES ASSUME NEW k \in EdgeSet
               PROVE  Bonds(s)[k] \in Int /\ cols[k] = 2 * Bonds(s)[k]
    OBVIOUS
  <2>1. PICK c : c = w[k] /\ \A v \in Nodes : c[v] = m[v][k]
    BY <1>w
  <2>2. cols[k] = SumFunctionOnSet(c, Nodes)
    BY <1>7, <2>1
  <2>3. CASE ~Usable(k)
    <3>1. \A v \in Nodes : c[v] = 0
      BY <1>5, <2>1, <2>3 DEF At
    <3>2. SumFunctionOnSet(c, Nodes) = 0
      BY <3>1, EdgeFacts, SumOfZeros
    <3> QED
      BY <2>2, <2>3, <3>2 DEF Bonds
  <2>4. CASE Usable(k)
    <3>1. PICK a, b : a = Edges[k][1] /\ b = Edges[k][2]
      OBVIOUS
    <3>2. a \in Nodes /\ b \in Nodes /\ a # b
      BY <2>4, <3>1, EdgeFacts DEF Usable
    <3>3. \A v \in Nodes : k \in At(v) <=> v \in {a, b}
      BY <2>4, <3>1 DEF At
    <3>4. OtherEnd(k, a) = b /\ OtherEnd(k, b) = a
      BY <3>1, <3>2 DEF OtherEnd
    <3>5. c[a] = s[a] * (CouplingOf(k) * s[b]) /\ c[b] = s[b] * (CouplingOf(k) * s[a])
      BY <1>1, <2>1, <3>2, <3>3, <3>4
    <3>6. PICK P : P = {a, b}
      OBVIOUS
    <3>7. P \in SUBSET Nodes /\ (\A v \in P : c[v] \in Int) /\ (\A v \in Nodes \ P : c[v] = 0)
      BY <1>5, <2>1, <3>2, <3>3, <3>6
    <3>8. SumFunctionOnSet(c, Nodes) = SumFunctionOnSet(c, P)
      BY <3>7, EdgeFacts, SumOfPart
    <3>9. SumFunctionOnSet(c, P) = c[a] + c[b]
      BY <3>2, <3>6, <3>7, SumOfTwo
    <3>10. s[a] \in Int /\ s[b] \in Int /\ CouplingOf(k) \in Int
      BY <1>2, <3>2, EdgeFacts
    <3>11. Bonds(s)[k] = CouplingOf(k) * s[a] * s[b]
      BY <2>4, <3>1 DEF Bonds
    <3>12. CouplingOf(k) * s[a] * s[b] \in Int
           /\ s[a] * (CouplingOf(k) * s[b]) = CouplingOf(k) * s[a] * s[b]
           /\ s[b] * (CouplingOf(k) * s[a]) = CouplingOf(k) * s[a] * s[b]
      BY <3>10
    <3> QED
      BY <2>2, <3>5, <3>8, <3>9, <3>11, <3>12
  <2> QED
    BY <2>3, <2>4
<1>10. PICK bonds : bonds = Bonds(s)
  OBVIOUS
<1>11. \A k \in EdgeSet : bonds[k] \in Int /\ cols[k] = 2 * bonds[k]
  BY <1>9, <1>10
<1>12. SumFunctionOnSet(cols, EdgeSet) = 2 * SumFunctionOnSet(bonds, EdgeSet)
  BY <1>11, EdgeFacts, SumTimes
<1> QED
  BY <1>8, <1>10, <1>12

LEMMA BondsAndFields ==
  ASSUME NEW s, \A i \in AllParticles : s[i] \in Int
  PROVE  /\ \A k \in EdgeSet : Bonds(s)[k] \in Int
         /\ \A v \in Nodes : Fields(s)[v] \in Int
         /\ SumFunctionOnSet(Bonds(s), EdgeSet) \in Int
         /\ SumFunctionOnSet(Fields(s), Nodes) \in Int
         /\ ~HasBias => SumFunctionOnSet(Fields(s), Nodes) = 0
<1>1. PICK b : b = Bonds(s)
  OBVIOUS
<1>2. PICK h : h = Fields(s)
  OBVIOUS
<1>3. \A v \in Nodes : s[v] \in Int
  BY EdgeFacts
<1>4. \A k \in EdgeSet : b[k] \in Int
  <2> SUFFICES ASSUME NEW k \in EdgeSet
               PROVE  b[k] \in Int
    OBVIOUS
  <2>1. CASE Usable(k)
    <3>1. CouplingOf(k) \in Int /\ s[Edges[k][1]] \in Int /\ s[Edges[k][2]] \in Int
      BY <1>3, <2>1, EdgeFacts
    <3>2. b[k] = CouplingOf(k) * s[Edges[k][1]] * s[Edges[k][2]]
      BY <1>1, <2>1 DEF Bonds
    <3> QED
      BY <3>1, <3>2
  <2>2. CASE ~Usable(k)
    BY <1>1, <2>2 DEF Bonds
  <2> QED
    BY <2>1, <2>2
<1>5. \A v \in Nodes : h[v] \in Int
  BY <1>2, <1>3, EdgeFacts DEF Fields
<1>6. SumFunctionOnSet(b, EdgeSet) \in Int
  BY <1>4, EdgeFacts, SumType
<1>7. SumFunctionOnSet(h, Nodes) \in Int
  BY <1>5, EdgeFacts, SumType
<1>8. ASSUME ~HasBias
      PROVE  SumFunctionOnSet(h, Nodes) = 0
  <2>1. \A v \in Nodes : h[v] = 0
    BY <1>2, <1>3, <1>8 DEF Fields, HasBias, Nodes
  <2> QED
    BY <2>1, EdgeFacts, SumOfZeros
<1> QED
  BY <1>1, <1>2, <1>4, <1>5, <1>6, <1>7, <1>8

LEMMA ParticlesAddUp ==
  ASSUME NEW s, \A i \in AllParticles : s[i] \in Int,
         NEW f, \A i \in AllParticles : f[i] = s[i] * Local(s, i)
  PROVE  SumFunctionOnSet(f, AllParticles)
           = 2 * SumFunctionOnSet(Bonds(s), EdgeSet)
             + (IF HasBias THEN 2 * (s[Ancilla] * SumFunctionOnSet(Fields(s), Nodes)) ELSE 0)
<1>1. PICK pairs : pairs = [v \in Nodes |-> s[v] * SumFunctionOnSet(Reached(s, v), At(v))]
  OBVIOUS
<1>2. PICK h : h = Fields(s)
  OBVIOUS
<1>3. PICK B : B = SumFunctionOnSet(Bonds(s), EdgeSet)
  OBVIOUS
<1>4. PICK H : H = SumFunctionOnSet(h, Nodes)
  OBVIOUS
<1>5. /\ B \in Int /\ H \in Int
      /\ \A v \in Nodes : h[v] \in Int
  BY <1>2, <1>3, <1>4, BondsAndFields
<1>6. SumFunctionOnSet(pairs, Nodes) = 2 * B
  BY <1>1, <1>3, EdgesTwice
<1>7. \A v \in Nodes : s[v] \in Int /\ SumFunctionOnSet(Reached(s, v), At(v)) \in Int
  BY EdgeFacts, LocalOfNode
<1>8. \A v \in Nodes : pairs[v] \in Int
  BY <1>1, <1>7
<1>9. CASE ~HasBias
  <2>1. \A v \in Nodes : f[v] = pairs[v]
    BY <1>1, <1>7, <1>9, EdgeFacts, LocalOfNode
  <2>2. SumFunctionOnSet(pairs, Nodes) = SumFunctionOnSet(f, Nodes)
    BY <1>8, <2>1, EdgeFacts, SumSame
  <2>3. AllParticles = Nodes
    BY <1>9, EdgeFacts
  <2> QED
    BY <1>3, <1>5, <1>6, <1>9, <2>2, <2>3
<1>10. CASE HasBias
  <2>1. PICK a : a = s[Ancilla]
    OBVIOUS
  <2>2. a \in Int
    BY <1>10, <2>1, EdgeFacts
  <2>3. PICK pull : pull = [v \in Nodes |-> a * h[v]]
    OBVIOUS
  <2>4. \A v \in Nodes : pull[v] \in Int /\ pull[v] = a * h[v]
    BY <1>5, <2>2, <2>3
  <2>5. SumFunctionOnSet(pull, Nodes) = a * H
    BY <1>4, <1>5, <2>2, <2>4, EdgeFacts, SumTimes
  <2>6. \A v \in Nodes : f[v] = pairs[v] + pull[v]
    <3> SUFFICES ASSUME NEW v \in Nodes
                 PROVE  f[v] = pairs[v] + pull[v]
      OBVIOUS
    <3>1. PICK r : r = SumFunctionOnSet(Reached(s, v), At(v))
      OBVIOUS
    <3>2. f[v] = s[v] * (r + Biases[v] * a)
      BY <1>10, <2>1, <3>1, EdgeFacts, LocalOfNode
    <3>3. s[v] \in Int /\ r \in Int /\ Biases[v] \in Int
      BY <1>7, <3>1, EdgeFacts
    <3>4. s[v] * (r + Biases[v] * a) = s[v] * r + a * (Biases[v] * s[v])
      BY <2>2, <3>3
    <3> QED
      BY <1>1, <1>2, <2>3, <3>1, <3>2, <3>4 DEF Fields
  <2>7. SumFunctionOnSet(f, Nodes) = SumFunctionOnSet(pairs, Nodes) + SumFunctionOnSet(pull, Nodes)
    BY <1>8, <2>4, <2>6, EdgeFacts, SumPlus
  <2>8. f[Ancilla] = a * H
    BY <1>2, <1>4, <1>10, <2>1, EdgeFacts, LocalOfAncilla
  <2>9. a * H \in Int
    BY <1>5, <2>2
  <2>10. \A v \in Nodes : f[v] \in Int
    BY <1>8, <2>4, <2>6
  <2>11. SumFunctionOnSet(f, Nodes \cup {Ancilla}) = f[Ancilla] + SumFunctionOnSet(f, Nodes)
    BY <2>8, <2>9, <2>10, EdgeFacts, SumAdjoin
  <2>12. AllParticles = Nodes \cup {Ancilla}
    BY <1>10, EdgeFacts
  <2>13. SumFunctionOnSet(f, AllParticles) = 2 * B + 2 * (a * H)
    BY <1>5, <1>6, <2>5, <2>7, <2>8, <2>9, <2>11, <2>12
  <2> QED
    BY <1>2, <1>3, <1>4, <1>10, <2>1, <2>13
<1> QED
  BY <1>9, <1>10

Signed(t) == [i \in AllParticles |-> Sign(t[i].x)]

LEMMA SignedType ==
  ASSUME NEW t
  PROVE  \A i \in AllParticles : Signed(t)[i] \in {1, -1}
BY DEF Signed, Sign

\* The energy that is reported.
LEMMA ReportedEnergy ==
  ASSUME NEW t, \A i \in AllParticles : t[i].x \in Int
  PROVE  /\ Energy(GaugeFixedSpins(t)) \in Int
         /\ 2 * Energy(GaugeFixedSpins(t))
              = 2 * SumFunctionOnSet(Bonds(Signed(t)), EdgeSet)
                + (IF HasBias
                   THEN 2 * (Signed(t)[Ancilla] * SumFunctionOnSet(Fields(Signed(t)), Nodes))
                   ELSE 0)
<1>1. PICK s : s = Signed(t)
  OBVIOUS
<1>2. PICK g : g = Gauge(t)
  OBVIOUS
<1>3. PICK spin : spin = GaugeFixedSpins(t)
  OBVIOUS
<1>4. g \in {1, -1} /\ (HasBias => g = s[Ancilla]) /\ (~HasBias => g = 1)
  BY <1>1, <1>2, EdgeFacts DEF Gauge, Signed, Sign
<1>5. \A i \in AllParticles : s[i] \in {1, -1}
  BY <1>1, SignedType
<1>6. DOMAIN spin = Nodes /\ \A v \in Nodes : spin[v] = g * s[v]
  BY <1>1, <1>2, <1>3, EdgeFacts DEF GaugeFixedSpins, Nodes, Signed
<1>7. PICK h : h = Fields(s)
  OBVIOUS
<1>8. PICK b : b = Bonds(s)
  OBVIOUS
<1>9. /\ \A v \in Nodes : h[v] \in Int
      /\ \A k \in EdgeSet : b[k] \in Int
      /\ SumFunctionOnSet(b, EdgeSet) \in Int
      /\ SumFunctionOnSet(h, Nodes) \in Int
      /\ ~HasBias => SumFunctionOnSet(h, Nodes) = 0
  BY <1>5, <1>7, <1>8, BondsAndFields
<1>10. PICK bias : bias = [v \in Nodes |-> Biases[v] * spin[v]]
  OBVIOUS
<1>11. PICK pairs : pairs = [k \in EdgeSet |->
          IF Usable(k) THEN CouplingOf(k) * spin[Edges[k][1]] * spin[Edges[k][2]] ELSE 0]
  OBVIOUS
<1>12. Energy(spin) = SumFunctionOnSet(bias, Nodes) + SumFunctionOnSet(pairs, EdgeSet)
  BY <1>6, <1>10, <1>11 DEF Energy, SumFunction, EdgeSet
<1>13. \A v \in Nodes : bias[v] = g * h[v]
  <2> SUFFICES ASSUME NEW v \in Nodes
               PROVE  bias[v] = g * h[v]
    OBVIOUS
  <2>1. Biases[v] \in Int /\ s[v] \in {1, -1}
    BY <1>5, EdgeFacts
  <2>2. bias[v] = Biases[v] * (g * s[v]) /\ h[v] = Biases[v] * s[v]
    BY <1>6, <1>7, <1>10 DEF Fields
  <2> QED
    BY <1>4, <2>1, <2>2
<1>14. SumFunctionOnSet(bias, Nodes) = g * SumFunctionOnSet(h, Nodes)
  BY <1>4, <1>9, <1>13, EdgeFacts, SumTimes
<1>15. \A k \in EdgeSet : b[k] = pairs[k]
  <2> SUFFICES ASSUME NEW k \in EdgeSet
               PROVE  b[k] = pairs[k]
    OBVIOUS
  <2>1. CASE ~Usable(k)
    BY <1>8, <1>11, <2>1 DEF Bonds
  <2>2. CASE Usable(k)
    <3>1. PICK u, v : u = Edges[k][1] /\ v = Edges[k][2]
      OBVIOUS
    <3>2. u \in Nodes /\ v \in Nodes /\ CouplingOf(k) \in Int
      BY <2>2, <3>1, EdgeFacts
    <3>3. s[u] \in {1, -1} /\ s[v] \in {1, -1}
      BY <1>5, <3>2, EdgeFacts
    <3>4. pairs[k] = CouplingOf(k) * (g * s[u]) * (g * s[v])
      BY <1>6, <1>11, <2>2, <3>1, <3>2
    <3>5. b[k] = CouplingOf(k) * s[u] * s[v]
      BY <1>8, <2>2, <3>1 DEF Bonds
    <3> QED
      BY <1>4, <3>2, <3>3, <3>4, <3>5
  <2> QED
    BY <2>1, <2>2
<1>16. SumFunctionOnSet(b, EdgeSet) = SumFunctionOnSet(pairs, EdgeSet)
  BY <1>9, <1>15, EdgeFacts, SumSame
<1>17. PICK H, B : H = SumFunctionOnSet(h, Nodes) /\ B = SumFunctionOnSet(b, EdgeSet)
  OBVIOUS
<1>18. Energy(spin) = g * H + B /\ H \in Int /\ B \in Int /\ (~HasBias => H = 0)
  BY <1>9, <1>12, <1>14, <1>16, <1>17
<1>19. Energy(spin) \in Int
  BY <1>4, <1>18
<1>20. 2 * Energy(spin) = 2 * B + (IF HasBias THEN 2 * (s[Ancilla] * H) ELSE 0)
  BY <1>4, <1>18
<1> QED
  BY <1>1, <1>3, <1>7, <1>8, <1>17, <1>19, <1>20

LEMMA GaugeKept ==
  ASSUME NEW t, \A i \in AllParticles : t[i].x \in Int
  PROVE  GaugeKeepsEnergyOf(t)
<1>1. PICK s : s = Signed(t)
  OBVIOUS
<1>2. \A i \in AllParticles : s[i] \in Int
  BY <1>1, SignedType
<1>3. PICK f : f = [i \in AllParticles |-> Sign(t[i].x) *
     SumFunction([l \in DOMAIN Terms[i] |-> Terms[i][l].coupling * Sign(t[Terms[i][l].node].x)])]
  OBVIOUS
<1>4. \A i \in AllParticles : f[i] = s[i] * Local(s, i)
  <2> SUFFICES ASSUME NEW i \in AllParticles
               PROVE  f[i] = s[i] * Local(s, i)
    OBVIOUS
  <2>1. \A l \in DOMAIN Terms[i] : Terms[i][l].node \in AllParticles
    BY TermsType
  <2>2. [l \in DOMAIN Terms[i] |-> Terms[i][l].coupling * Sign(t[Terms[i][l].node].x)]
          = [l \in DOMAIN Terms[i] |-> Terms[i][l].coupling * s[Terms[i][l].node]]
    BY <1>1, <2>1 DEF Signed
  <2>3. f[i] = s[i] * SumFunction([l \in DOMAIN Terms[i] |->
                        Terms[i][l].coupling * Sign(t[Terms[i][l].node].x)])
    BY <1>1, <1>3 DEF Signed
  <2> QED
    BY <2>2, <2>3 DEF Local
<1>5. SumFunction(f) = SumFunctionOnSet(f, AllParticles)
  BY <1>3 DEF SumFunction
<1>6. SumFunctionOnSet(f, AllParticles) = 2 * Energy(GaugeFixedSpins(t))
  BY <1>1, <1>2, <1>4, ParticlesAddUp, ReportedEnergy
<1> QED
  BY <1>3, <1>5, <1>6 DEF GaugeKeepsEnergyOf

\* What a swarm compares.
LEMMA ExtendedIsReported ==
  ASSUME NEW t, \A i \in AllParticles : t[i].x \in Int
  PROVE  ExtendedEnergy(t) = Energy(GaugeFixedSpins(t))
<1>1. PICK s : s = Signed(t)
  OBVIOUS
<1>2. \A i \in AllParticles : s[i] \in Int
  BY <1>1, SignedType
<1>3. (IF request.variant.coupling = "Discrete" THEN Coupled(t) ELSE Signs(t)) = s
  BY <1>1 DEF Coupled, CoupledValue, Signs, Signed
<1>4. PICK f : f = [i \in AllParticles |-> s[i] * Sums(s)[i]]
  OBVIOUS
<1>5. \A i \in AllParticles : f[i] = s[i] * Local(s, i)
  <2> SUFFICES ASSUME NEW i \in AllParticles
               PROVE  f[i] = s[i] * Local(s, i)
    OBVIOUS
  <2>1. PICK read : read = [l \in DOMAIN Terms[i] |-> s[Terms[i][l].node]]
    OBVIOUS
  <2>2. [l \in DOMAIN read |-> Terms[i][l].coupling * read[l]]
          = [l \in DOMAIN Terms[i] |-> Terms[i][l].coupling * s[Terms[i][l].node]]
    BY <2>1
  <2>3. Sums(s)[i] = ForceOn(i, read)
    BY <2>1 DEF Sums
  <2> QED
    BY <1>4, <2>2, <2>3 DEF ForceOn, Local
<1>6. Total(f) = SumFunctionOnSet(f, AllParticles)
  BY <1>4 DEF Total, SumFunction
<1>7. ExtendedEnergy(t) = Total(f) \div 2
  BY <1>3, <1>4, Zenon DEF ExtendedEnergy
<1>8. SumFunctionOnSet(f, AllParticles) = 2 * Energy(GaugeFixedSpins(t))
  BY <1>1, <1>2, <1>5, ParticlesAddUp, ReportedEnergy
<1>9. PICK e : e = Energy(GaugeFixedSpins(t))
  OBVIOUS
<1>10. e \in Int /\ Total(f) = 2 * e
  BY <1>6, <1>8, <1>9, ReportedEnergy
<1>11. (2 * e) \div 2 = e
  BY <1>10
<1> QED
  BY <1>7, <1>9, <1>10, <1>11

-----------------------------------------------------------------------------
(* What the kernels of the sampler keep.                                   *)

ParticleState == [x : Int, y : Int, pre : Int, p : Int]
Trajectories == [AllParticles -> ParticleState]
Columns == [Nodes -> {1, -1}]
Answers == [seed : Int, spins : Columns \cup {<<>>}, energy : Int]

Stages == {"idle", "plain", "running", "warm", "warming", "check", "checking",
           "rings", "ring", "swarm", "guide", "move", "answered"}

SamplerTypeOK ==
  /\ stage \in Stages
  /\ stage # "idle" => request \in SbRequests
  /\ step \in Nat /\ turn \in Nat
  /\ members \in Seq(Trajectories) /\ before \in Seq(Trajectories)
  /\ seeds \in Seq(Int) /\ Len(seeds) = Len(members)
  /\ answers \in Seq(Answers)

\* A read runs alone, outside of a ring and a swarm.
RunsAlone == stage \in {"running", "warming", "checking"} => Len(members) = 1

TabuInv ==
  /\ stage \in {"warm", "warming", "check", "checking"} => request.kernel = "Tabu"
  /\ tabu \in Seq(Columns)
  /\ stage \in {"check", "checking"} =>
       IF tabu = <<>> THEN batches = <<>>
       ELSE batches \in [1 .. CheckSteps -> [1 .. AtLeastOne(request.batch) -> DOMAIN tabu]]

RingInv ==
  /\ stage \in {"rings", "ring"} => request.kernel = "Ring"
  /\ stage = "ring" =>
       /\ Len(before) = Len(members)
       /\ \A q \in Members :
            members[q] = IF q < turn THEN WithMomentum(before[q], RingMomentum(before, q))
                                     ELSE before[q]

SwarmInv ==
  /\ stage = "guide" => before = members
  /\ stage \in {"guide", "move"} =>
       /\ Len(members) > 0 /\ Len(before) = Len(members)
       /\ guided \in [Members -> [AllParticles -> Int]]
  /\ stage = "move" =>
       /\ leading \in Members
       /\ \A r \in Members :
            Energy(GaugeFixedSpins(before[leading])) <= Energy(GaugeFixedSpins(before[r]))

SamplerInv == SamplerTypeOK /\ RunsAlone /\ TabuInv /\ RingInv /\ SwarmInv

-----------------------------------------------------------------------------
(* Steps keep trajectories integers.                                       *)

LEMMA ForceType ==
  ASSUME NEW i \in AllParticles, NEW see, DOMAIN see = DOMAIN Terms[i],
         \A l \in DOMAIN see : see[l] \in Int
  PROVE  ForceOn(i, see) \in Int
<1>1. PICK f : f = [l \in DOMAIN see |-> Terms[i][l].coupling * see[l]]
  OBVIOUS
<1>2. \A l \in DOMAIN see : f[l] \in Int
  BY <1>1, TermsType
<1>3. IsFiniteSet(DOMAIN see)
  BY TermsType
<1>4. SumFunctionOnSet(f, DOMAIN see) \in Int
  BY <1>2, <1>3, SumType
<1> QED
  BY <1>1, <1>4 DEF ForceOn, SumFunction

LEMMA SignType ==
  ASSUME NEW x
  PROVE  Sign(x) \in {1, -1}
BY DEF Sign

\* The wall, wherever a particle would land.
LEMMA WallType ==
  ASSUME NEW s \in ParticleState, NEW x \in Int, NEW y \in Int
  PROVE  /\ [s EXCEPT !.x = x, !.y = y] \in ParticleState
         /\ [s EXCEPT !.x = Wall * Sign(x), !.y = 0] \in ParticleState
<1>1. PICK b : b = Wall * Sign(x)
  OBVIOUS
<1>2. b \in Int
  BY <1>1, ScaleAssumption, SignType
<1>3. \A c, d \in Int : [s EXCEPT !.x = c, !.y = d] \in ParticleState
  BY DEF ParticleState
<1>4. PICK z \in Int : z = 0
  OBVIOUS
<1>5. [s EXCEPT !.x = b, !.y = z] \in ParticleState
  BY <1>2, <1>3
<1>6. [s EXCEPT !.x = b, !.y = 0] \in ParticleState
  BY <1>4, <1>5, Zenon
<1>7. [s EXCEPT !.x = x, !.y = y] \in ParticleState
  BY <1>3
<1> QED
  BY <1>1, <1>6, <1>7

LEMMA LandingType ==
  ASSUME NEW s \in ParticleState, NEW y \in Int
  PROVE  Landing(s, y) \in ParticleState
<1>1. PICK x : x = s.x + y
  OBVIOUS
<1>2. x \in Int
  BY <1>1 DEF ParticleState
<1>3. [s EXCEPT !.x = x, !.y = y] \in ParticleState
  BY <1>2, WallType
<1>4. [s EXCEPT !.x = Wall * Sign(x), !.y = 0] \in ParticleState
  BY <1>2, WallType
<1>5. Landing(s, y) \in {[s EXCEPT !.x = x, !.y = y], [s EXCEPT !.x = Wall * Sign(x), !.y = 0]}
  BY <1>1 DEF Landing
<1> QED
  BY <1>3, <1>4, <1>5

LEMMA PrepareType ==
  ASSUME NEW variant, NEW steps \in Nat, NEW k \in Nat, k < steps, NEW s \in ParticleState
  PROVE  PrepareParticle(variant, steps, k, s) \in ParticleState
<1>1. s.x \in Int /\ s.y \in Int /\ s.pre \in Int /\ s.p \in Int
  BY DEF ParticleState
<1>2. ControlScale * (steps - k) \in Nat \ {0}
  BY ScaleAssumption
<1>3. (ControlScale - s.x * s.x) * s.p \in Int
  BY <1>1, ScaleAssumption
<1>4. PICK d : d = ((ControlScale - s.x * s.x) * s.p) \div (ControlScale * (steps - k))
  OBVIOUS
<1>5. d \in Int
  BY <1>2, <1>3, <1>4
<1>6. PICK pre, p : /\ pre = IF variant.heated THEN s.y ELSE s.pre
                   /\ p = IF variant.controlled THEN s.p - d ELSE s.p
  OBVIOUS
<1>7. pre \in Int /\ p \in Int
  BY <1>1, <1>5, <1>6
<1>8. PrepareParticle(variant, steps, k, s) = [s EXCEPT !.pre = pre, !.p = p]
  BY <1>4, <1>6 DEF PrepareParticle, ParticleState
<1> QED
  BY <1>7, <1>8 DEF ParticleState

LEMMA MoveType ==
  ASSUME NEW variant, NEW steps \in Nat, NEW k \in Nat, NEW force \in Int, NEW s \in ParticleState
  PROVE  MoveParticle(variant, steps, k, force, s) \in ParticleState
<1>1. s.x \in Int /\ s.y \in Int /\ s.pre \in Int /\ s.p \in Int
  BY DEF ParticleState
<1>2. PICK restore : restore = IF variant.controlled THEN -s.p ELSE Restore(steps, k)
  OBVIOUS
<1>3. restore \in Int
  BY <1>1, <1>2 DEF Restore
<1>4. PICK y : y = s.y + restore * s.x - force
  OBVIOUS
<1>5. y \in Int
  BY <1>1, <1>3, <1>4
<1>6. PICK z : z = Landing(s, y)
  OBVIOUS
<1>7. z \in ParticleState
  BY <1>5, <1>6, LandingType
<1>8. MoveParticle(variant, steps, k, force, s)
        = [z EXCEPT !.y = @ + (IF variant.heated THEN s.pre ELSE 0)]
  BY <1>2, <1>4, <1>6 DEF MoveParticle
<1> QED
  BY <1>1, <1>7, <1>8 DEF ParticleState

LEMMA CoupledValueType ==
  ASSUME NEW variant, NEW s \in ParticleState
  PROVE  CoupledValue(variant, s) \in Int
BY SignType DEF CoupledValue, ParticleState

LEMMA StepOfAllType ==
  ASSUME NEW variant, NEW steps \in Nat, NEW k \in Nat, k < steps, NEW t \in Trajectories,
         NEW extra, \A i \in AllParticles : extra[i] \in Int
  PROVE  StepOfAll(variant, steps, k, t, extra) \in Trajectories
<1> SUFFICES ASSUME NEW i \in AllParticles
             PROVE  MoveParticle(variant, steps, k, ForceOn(i, Seen(variant, t, i)) + extra[i],
                                 PrepareParticle(variant, steps, k, t[i])) \in ParticleState
  BY DEF StepOfAll, Trajectories
<1>1. t[i] \in ParticleState
  BY DEF Trajectories
<1>2. PICK see : see = Seen(variant, t, i)
  OBVIOUS
<1>3. DOMAIN see = DOMAIN Terms[i]
  BY <1>2 DEF Seen
<1>4. ASSUME NEW l \in DOMAIN see
      PROVE  see[l] \in Int
  <2>1. Terms[i][l].node \in AllParticles
    BY <1>3, TermsType
  <2>2. t[Terms[i][l].node] \in ParticleState
    BY <2>1 DEF Trajectories
  <2>3. see[l] = CoupledValue(variant, t[Terms[i][l].node])
    BY <1>2, <1>3 DEF Seen
  <2> QED
    BY <2>2, <2>3, CoupledValueType
<1>5. ForceOn(i, see) + extra[i] \in Int
  BY <1>3, <1>4, ForceType
<1>6. PrepareParticle(variant, steps, k, t[i]) \in ParticleState
  BY <1>1, PrepareType
<1> QED
  BY <1>2, <1>5, <1>6, MoveType

LEMMA TrajectoryType ==
  ASSUME NEW d \in Drawn
  PROVE  Trajectory(d) \in Trajectories
BY DrawnAssumption DEF Trajectory, Trajectories, ParticleState

LEMMA ResultType ==
  ASSUME NEW t \in Trajectories, NEW n \in Int
  PROVE  Result(t, n) \in Answers
<1>1. \A i \in AllParticles : t[i].x \in Int
  BY DEF Trajectories, ParticleState
<1>2. Energy(GaugeFixedSpins(t)) \in Int
  BY <1>1, ReportedEnergy
<1>3. Gauge(t) \in {1, -1}
  BY DEF Gauge
<1>4. \A v \in Nodes : Gauge(t) * Sign(t[v].x) \in {1, -1}
  BY <1>3, SignType
<1>5. GaugeFixedSpins(t) \in Columns
  BY <1>4 DEF GaugeFixedSpins, Columns, Nodes
<1> QED
  BY <1>2, <1>5 DEF Result, Answers

LEMMA TotalType ==
  ASSUME NEW f, DOMAIN f = AllParticles, \A i \in AllParticles : f[i] \in Int
  PROVE  Total(f) \in Int
BY EdgeFacts, SumType DEF Total, SumFunction

LEMMA SumsType ==
  ASSUME NEW c, \A i \in AllParticles : c[i] \in Int
  PROVE  \A i \in AllParticles : Sums(c)[i] \in Int
<1> SUFFICES ASSUME NEW i \in AllParticles
             PROVE  Sums(c)[i] \in Int
  OBVIOUS
<1>1. PICK see : see = [l \in DOMAIN Terms[i] |-> c[Terms[i][l].node]]
  OBVIOUS
<1>2. DOMAIN see = DOMAIN Terms[i] /\ \A l \in DOMAIN see : see[l] \in Int
  BY <1>1, TermsType
<1>3. ForceOn(i, see) \in Int
  BY <1>2, ForceType
<1> QED
  BY <1>1, <1>3 DEF Sums

LEMMA QuotientType ==
  ASSUME NEW a \in Int, NEW b \in Nat \ {0}
  PROVE  Quotient(a, b) \in Int
<1>1. PICK s : s = Sign(a)
  OBVIOUS
<1>2. s \in {1, -1}
  BY <1>1, SignType
<1>3. s * a \in Int
  BY <1>2
<1>4. PICK q : q = (s * a) \div b
  OBVIOUS
<1>5. q \in Int
  BY <1>3, <1>4
<1> QED
  BY <1>1, <1>2, <1>4, <1>5 DEF Quotient

LEMMA RootType ==
  ASSUME NEW n \in Nat
  PROVE  Root(n) \in 0 .. n
<1> DEFINE T == {r \in Nat : n < (r + 1) * (r + 1)}
<1>1. n \in T
  <2>1. (n + 1) * (n + 1) = n * n + 2 * n + 1 /\ n * n \in Nat
    OBVIOUS
  <2> QED
    BY <2>1
<1>2. PICK r \in T : \A k \in T : r <= k
  <2>1. T \subseteq Nat /\ T # {}
    BY <1>1
  <2> HIDE DEF T
  <2> QED
    BY <2>1, LeastNumber
<1>3. r * r <= n
  <2>1. CASE r = 0
    BY <2>1
  <2>2. CASE r # 0
    <3>1. PICK k : k = r - 1
      OBVIOUS
    <3>2. k \in Nat /\ k \notin T /\ k + 1 = r
      BY <1>2, <2>2, <3>1
    <3>3. ~(n < (k + 1) * (k + 1))
      BY <3>2
    <3>4. r * r \in Nat
      BY <1>2
    <3> QED
      BY <3>2, <3>3, <3>4
  <2> QED
    BY <2>1, <2>2
<1>4. r \in 0 .. n
  BY <1>1, <1>2
<1> QED
  BY <1>2, <1>3, <1>4 DEF Root

LEMMA DotType ==
  ASSUME NEW a, NEW b, \A i \in AllParticles : a[i] \in Int /\ b[i] \in Int
  PROVE  Dot(a, b) \in Int
<1>1. PICK f : f = [i \in AllParticles |-> a[i] * b[i]]
  OBVIOUS
<1>2. DOMAIN f = AllParticles /\ \A i \in AllParticles : f[i] \in Int
  BY <1>1
<1> QED
  BY <1>1, <1>2, TotalType DEF Dot

LEMMA SquareType ==
  ASSUME NEW a, \A i \in AllParticles : a[i] \in Int
  PROVE  Dot(a, a) \in Nat
<1>1. PICK f : f = [i \in AllParticles |-> a[i] * a[i]]
  OBVIOUS
<1>2. ASSUME NEW i \in AllParticles
      PROVE  f[i] \in Nat
  <2>1. f[i] = a[i] * a[i] /\ a[i] \in Int
    BY <1>1
  <2> QED
    BY <2>1
<1>3. SumFunctionOnSet(f, AllParticles) \in Nat
  BY <1>2, EdgeFacts, SumOfNaturals
<1> QED
  BY <1>1, <1>3 DEF Dot, Total, SumFunction

Counts == NumReads \in Nat \ {0} /\ Steps \in Nat \ {0}

LEMMA RequestCounts ==
  ASSUME request \in SbRequests
  PROVE  Counts
BY RequestsAssumption DEF Counts, NumReads, Steps, AtLeastOne

LEMMA GuidanceType ==
  ASSUME Counts, step \in Nat, NEW best \in Trajectories, NEW t \in Trajectories
  PROVE  \A i \in AllParticles : Guidance(best, t)[i] \in Int
<1>1. PICK d : d = Distance(best, t)
  OBVIOUS
<1>2. ASSUME NEW i \in AllParticles
      PROVE  d[i] \in Int
  <2>1. best[i].x \in Int /\ t[i].x \in Int
    BY DEF Trajectories, ParticleState
  <2>2. LeaderGauge(best, t) \in {1, -1}
    BY DEF LeaderGauge
  <2>3. d[i] = LeaderGauge(best, t) * best[i].x - t[i].x
    BY <1>1 DEF Distance
  <2> QED
    BY <2>1, <2>2, <2>3
<1>3. Dot(d, d) \in Nat
  BY <1>2, SquareType
<1>4. PICK n : n = Steps * (1 + Root(Dot(d, d)))
  OBVIOUS
<1>5. n \in Nat \ {0}
  <2>1. PICK r \in Nat : r = Root(Dot(d, d))
    BY <1>3, RootType
  <2> QED
    BY <1>4, <2>1 DEF Counts
<1>6. PICK flip : flip = IF Opposes(d, Momenta(t)) THEN -1 ELSE 1
  OBVIOUS
<1> SUFFICES ASSUME NEW i \in AllParticles
             PROVE  Guidance(best, t)[i] \in Int
  OBVIOUS
<1>7. PICK a : a = GuideScale * (Steps - step) * d[i]
  OBVIOUS
<1>8. a \in Int
  <2>1. GuideScale * (Steps - step) \in Int
    BY GuideAssumption DEF Counts
  <2> QED
    BY <1>2, <1>7, <2>1
<1>9. Quotient(a, n) \in Int
  BY <1>5, <1>8, QuotientType
<1>10. Guidance(best, t)[i] = flip * Quotient(a, n)
  BY <1>1, <1>4, <1>6, <1>7 DEF Guidance
<1>11. flip \in {1, -1}
  BY <1>6
<1> QED
  BY <1>9, <1>10, <1>11

LEMMA FilteredType ==
  ASSUME Counts, step \in Nat, NEW a, NEW b, \A i \in AllParticles : a[i] \in Int /\ b[i] \in Int
  PROVE  Filtered(a, b) \in [AllParticles -> Int]
<1> SUFFICES ASSUME NEW i \in AllParticles
             PROVE  Filtered(a, b)[i] \in Int
  BY DEF Filtered
<1>1. PICK n : n = (9 * Steps - 4 * step) * a[i] + (Steps + 4 * step) * b[i]
  OBVIOUS
<1>2. n \in Int
  <2>1. (9 * Steps - 4 * step) \in Int /\ (Steps + 4 * step) \in Int
    BY DEF Counts
  <2>2. (9 * Steps - 4 * step) * a[i] \in Int /\ (Steps + 4 * step) * b[i] \in Int
    BY <2>1
  <2> QED
    BY <1>1, <2>2
<1>3. 10 * Steps \in Nat \ {0}
  BY DEF Counts
<1>4. Quotient(n, 10 * Steps) \in Int
  BY <1>2, <1>3, QuotientType
<1> QED
  BY <1>1, <1>4 DEF Filtered

LEMMA GuidedType ==
  ASSUME Counts, step \in Nat, NEW s \in ParticleState, NEW force \in Int, NEW g \in Int,
         NEW hit \in BOOLEAN
  PROVE  MoveGuided(s, force, g, hit) \in ParticleState
<1>1. s.x \in Int /\ s.y \in Int
  BY DEF ParticleState
<1>2. Restore(Steps, step) \in Int
  BY DEF Restore, Counts
<1>3. PICK y : y = s.y + Restore(Steps, step) * s.x - force + g
  OBVIOUS
<1>4. Restore(Steps, step) * s.x \in Int
  BY <1>1, <1>2
<1>5. y \in Int
  BY <1>1, <1>3, <1>4
<1>6. PICK x : x = s.x + y - (IF hit THEN 1 ELSE 0)
  OBVIOUS
<1>7. x \in Int
  BY <1>1, <1>5, <1>6
<1>8. MoveGuided(s, force, g, hit)
        \in {[s EXCEPT !.x = x, !.y = y], [s EXCEPT !.x = Wall * Sign(x), !.y = 0]}
  BY <1>3, <1>6 DEF MoveGuided
<1>9. [s EXCEPT !.x = x, !.y = y] \in ParticleState
  BY <1>5, <1>7, WallType
<1>10. [s EXCEPT !.x = Wall * Sign(x), !.y = 0] \in ParticleState
  BY <1>5, <1>7, WallType
<1> QED
  BY <1>8, <1>9, <1>10

LEMMA RingMomentumType ==
  ASSUME Counts, step \in Nat, request.kernel = "Ring", NEW t \in [Members -> Trajectories],
         members \in Seq(Trajectories), before \in Seq(Trajectories), Len(before) = Len(members),
         NEW q \in Members
  PROVE  \A i \in AllParticles : RingMomentum(t, q)[i] \in Int
<1> SUFFICES ASSUME NEW i \in AllParticles
             PROVE  RingMomentum(t, q)[i] \in Int
  OBVIOUS
<1>1. Len(members) \in Nat
  OBVIOUS
<1>2. Previous(q) \in Members /\ Following(q) \in Members
  BY <1>1 DEF Previous, Following, Members
<1>3. PICK a, b : a = t[Previous(q)][i].x /\ b = t[Following(q)][i].x
  OBVIOUS
<1>4. \A r \in Members : t[r][i] \in ParticleState
  BY DEF Trajectories
<1>5. a \in Int /\ b \in Int /\ t[q][i].x \in Int /\ t[q][i].y \in Int
  BY <1>2, <1>3, <1>4 DEF ParticleState
<1>6. PICK see : see = [l \in DOMAIN Terms[i] |-> DeadZoneSign(before[q][Terms[i][l].node].x)]
  OBVIOUS
<1>7. \A l \in DOMAIN see : see[l] \in Int
  BY <1>6, SignType DEF DeadZoneSign
<1>8. PICK f : f = ForceOn(i, see)
  OBVIOUS
<1>9. f \in Int
  BY <1>6, <1>7, <1>8, ForceType
<1>10. PICK c, r : c = RingCoupling /\ r = Restore(Steps, step)
  OBVIOUS
<1>11. c \in Int /\ r \in Int
  BY <1>1, <1>10 DEF RingCoupling, Restore, Counts
<1>12. RingMomentum(t, q)[i] = t[q][i].y + r * t[q][i].x - f + c * (a + b)
  BY <1>3, <1>6, <1>8, <1>10 DEF RingMomentum
<1>13. r * t[q][i].x \in Int /\ c * (a + b) \in Int
  BY <1>5, <1>11
<1> QED
  BY <1>5, <1>9, <1>12, <1>13

-----------------------------------------------------------------------------
(* What the kernels share.                                                 *)

LEMMA BeginTyped ==
  ASSUME SamplerTypeOK, NEW r \in SbRequests, NEW first \in Stages \ {"idle"}, Begin(r, first)
  PROVE  /\ SamplerTypeOK'
         /\ stage' \in {first, "answered"} /\ request' = r
         /\ UNCHANGED <<step, turn, members, seeds, before>>
<1>1. ASSUME NumParticles = 0
      PROVE  answers' \in Seq(Answers)
  <2>1. PICK n : n = AtLeastOne(r.reads)
    OBVIOUS
  <2>2. n \in Nat
    BY <2>1, RequestsAssumption DEF AtLeastOne
  <2>3. answers' = [a \in 1 .. n |-> [seed |-> a - 1, spins |-> <<>>, energy |-> 0]]
    BY <1>1, <2>1 DEF Begin, EmptyResults
  <2>4. \A a \in 1 .. n : [seed |-> a - 1, spins |-> <<>>, energy |-> 0] \in Answers
    BY DEF Answers
  <2> QED
    BY <2>2, <2>3, <2>4
<1>2. answers' \in Seq(Answers)
  BY <1>1 DEF Begin, SamplerTypeOK
<1> QED
  BY <1>2 DEF Begin, SamplerTypeOK, Stages

LEMMA DrawTyped ==
  ASSUME SamplerTypeOK, stage # "idle", NEW a \in Int, NEW n \in Nat, NEW next \in Stages,
         DrawMembers(a, n, next)
  PROVE  /\ SamplerTypeOK'
         /\ stage' = next /\ Len(members') = n /\ before' = members' /\ turn' = 1 /\ step' = 0
         /\ UNCHANGED <<request, answers>>
<1>1. PICK d \in [1 .. n -> Drawn] : members' = [q \in 1 .. n |-> Trajectory(d[q])] /\ before' = members'
  BY DEF DrawMembers
<1>2. \A q \in 1 .. n : Trajectory(d[q]) \in Trajectories
  BY <1>1, TrajectoryType
<1>3. members' \in Seq(Trajectories) /\ Len(members') = n
  BY <1>1, <1>2
<1>4. seeds' = [q \in 1 .. n |-> a + q - 1]
  BY DEF DrawMembers
<1>5. \A q \in 1 .. n : a + q - 1 \in Int
  OBVIOUS
<1>6. seeds' \in Seq(Int) /\ Len(seeds') = n
  BY <1>4, <1>5
<1>7. /\ step' = 0 /\ turn' = 1 /\ stage' = next
      /\ request' = request /\ answers' = answers
  BY DEF DrawMembers
<1> QED
  BY <1>1, <1>3, <1>6, <1>7 DEF SamplerTypeOK

LEMMA ReadOffTyped ==
  ASSUME SamplerTypeOK, stage # "idle", NEW next \in Stages, ReadOff(next)
  PROVE  SamplerTypeOK' /\ stage' = next /\ UNCHANGED request
<1>1. PICK n : n = Len(members)
  OBVIOUS
<1>2. n \in Nat /\ Len(seeds) = n /\ answers \in Seq(Answers)
  BY <1>1 DEF SamplerTypeOK
<1>3. PICK new : new = [q \in 1 .. n |-> Result(members[q], seeds[q])]
  OBVIOUS
<1>4. \A q \in 1 .. n : members[q] \in Trajectories /\ seeds[q] \in Int
  BY <1>1, <1>2 DEF SamplerTypeOK
<1>5. \A q \in 1 .. n : Result(members[q], seeds[q]) \in Answers
  BY <1>4, ResultType
<1>6. new \in Seq(Answers)
  BY <1>2, <1>3, <1>5
<1>7. answers' = answers \o new
  BY <1>1, <1>3 DEF ReadOff, Members
<1>8. answers' \in Seq(Answers)
  BY <1>2, <1>6, <1>7
<1> QED
  BY <1>8 DEF ReadOff, SamplerTypeOK

LEMMA EndStepTyped ==
  ASSUME SamplerTypeOK, stage # "idle", NEW moved \in Seq(Trajectories),
         Len(moved) = Len(members), EndStep(moved), stage' \in Stages
  PROVE  /\ SamplerTypeOK'
         /\ members' = moved /\ before' = moved /\ turn' = 1 /\ UNCHANGED <<request, answers>>
BY DEF EndStep, SamplerTypeOK

LEMMA MemberTyped ==
  ASSUME SamplerTypeOK
  PROVE  /\ Len(members) \in Nat
         /\ \A q \in Members : members[q] \in Trajectories
         /\ Len(members) = 1 => 1 \in Members
BY DEF SamplerTypeOK, Members

LEMMA OneMoved ==
  ASSUME NEW t \in Trajectories
  PROVE  <<t>> \in Seq(Trajectories) /\ Len(<<t>>) = 1
OBVIOUS

-----------------------------------------------------------------------------
(* One step after the other.                                               *)

LEMMA PlainKeeps ==
  ASSUME SamplerInv, PlainNext, UNCHANGED <<tabuVars, swarmVars>>
  PROVE  SamplerInv'
<1> USE DEF Stages
<1>1. CASE BeginPlain
  <2>1. PICK r \in SbRequests : Begin(r, "plain")
    BY <1>1 DEF BeginPlain
  <2>2. SamplerTypeOK' /\ stage' \in {"plain", "answered"}
    BY <2>1, BeginTyped DEF SamplerInv
  <2> QED
    BY <2>2 DEF SamplerInv, RunsAlone, TabuInv, RingInv, SwarmInv, tabuVars
<1>2. CASE DrawRead
  <2>1. Len(answers) \in Int /\ stage = "plain"
    BY <1>2 DEF DrawRead, SamplerInv, SamplerTypeOK
  <2>2. SamplerTypeOK' /\ stage' = "running" /\ Len(members') = 1
    BY <1>2, <2>1, DrawTyped DEF DrawRead, SamplerInv
  <2> QED
    BY <2>2 DEF SamplerInv, RunsAlone, TabuInv, RingInv, SwarmInv, tabuVars
<1>3. CASE PlainStep
  <2>1. stage = "running" /\ step < Steps /\ stage' = stage /\ Len(members) = 1
        /\ step \in Nat /\ request \in SbRequests
    BY <1>3 DEF PlainStep, SamplerInv, SamplerTypeOK, RunsAlone
  <2>2. PICK t : t = StepOfAll(request.variant, Steps, step, members[1], NoExtra)
    OBVIOUS
  <2>3. members[1] \in Trajectories
    BY <2>1, MemberTyped DEF SamplerInv
  <2>4. Steps \in Nat
    BY <2>1, RequestCounts DEF Counts
  <2>5. \A i \in AllParticles : NoExtra[i] \in Int
    BY DEF NoExtra
  <2>6. t \in Trajectories
    BY <2>1, <2>2, <2>3, <2>4, <2>5, StepOfAllType
  <2>7. EndStep(<<t>>)
    BY <1>3, <2>2 DEF PlainStep
  <2>8. <<t>> \in Seq(Trajectories) /\ Len(<<t>>) = Len(members)
    BY <2>1, <2>6, OneMoved
  <2>9. SamplerTypeOK' /\ members' = <<t>>
    BY <2>1, <2>7, <2>8, EndStepTyped DEF SamplerInv
  <2>10. Len(members') = 1
    BY <2>9
  <2> QED
    BY <2>1, <2>9, <2>10 DEF SamplerInv, RunsAlone, TabuInv, RingInv, SwarmInv, tabuVars
<1>4. CASE EndRead
  <2>1. SamplerTypeOK' /\ stage' = "plain"
    BY <1>4, ReadOffTyped DEF EndRead, SamplerInv
  <2> QED
    BY <2>1 DEF SamplerInv, RunsAlone, TabuInv, RingInv, SwarmInv, tabuVars
<1>5. CASE EndPlain
  <2>1. SamplerTypeOK' /\ stage' = "answered"
    BY <1>5 DEF EndPlain, SamplerInv, SamplerTypeOK
  <2> QED
    BY <2>1 DEF SamplerInv, RunsAlone, TabuInv, RingInv, SwarmInv, tabuVars
<1> QED
  BY <1>1, <1>2, <1>3, <1>4, <1>5 DEF PlainNext

\* The field of a batch is an integer.
LEMMA TabuForceTyped ==
  ASSUME SamplerInv, stage = "checking", Active, NEW k \in 1 .. CheckSteps, NEW t
  PROVE  /\ \A i \in AllParticles : TabuForce(t, batches[k])[i] \in Int
         /\ request.beta \in Int
         /\ \A i \in Nodes :
              SumFunction([b \in DOMAIN batches[k] |-> tabu[batches[k][b]][i]]) \in Int
<1>1. request.beta \in Int
  BY TabuAssumption DEF SamplerInv, SamplerTypeOK, TabuInv
<1>2. PICK n : n = AtLeastOne(request.batch)
  OBVIOUS
<1>3. PICK batch : batch = batches[k]
  OBVIOUS
<1>4. batch \in [1 .. n -> DOMAIN tabu]
  BY <1>2, <1>3 DEF SamplerInv, TabuInv, Active
<1>5. n \in Nat
  BY <1>2, TabuAssumption DEF SamplerInv, SamplerTypeOK, TabuInv, AtLeastOne
<1>6. ASSUME NEW i \in Nodes
      PROVE  SumFunction([b \in DOMAIN batch |-> tabu[batch[b]][i]]) \in Int
  <2>1. PICK f : f = [b \in 1 .. n |-> tabu[batch[b]][i]]
    OBVIOUS
  <2>2. \A b \in 1 .. n : f[b] \in Int
    <3>1. \A c \in DOMAIN tabu : tabu[c] \in Columns
      BY DEF SamplerInv, TabuInv
    <3>2. \A b \in 1 .. n : tabu[batch[b]][i] \in {1, -1}
      BY <1>4, <3>1 DEF Columns
    <3> QED
      BY <2>1, <3>2
  <2>3. IsFiniteSet(1 .. n)
    BY <1>5, FS_Interval
  <2>4. SumFunctionOnSet(f, 1 .. n) \in Int
    BY <2>2, <2>3, SumType
  <2> QED
    BY <1>4, <2>1, <2>4 DEF SumFunction
<1>7. TabuGauge(t) \in {1, -1}
  BY DEF TabuGauge, Gauge
<1>8. \A i \in AllParticles : TabuForce(t, batch)[i] \in Int
  <2> SUFFICES ASSUME NEW i \in AllParticles
               PROVE  TabuForce(t, batch)[i] \in Int
    OBVIOUS
  <2>1. CASE i < NumNodes
    <3>1. i \in Nodes
      BY <2>1, EdgeFacts DEF Nodes, AllParticles
    <3>2. PICK total : total = SumFunction([b \in DOMAIN batch |-> tabu[batch[b]][i]])
      OBVIOUS
    <3>3. total \in Int
      BY <1>6, <3>1, <3>2
    <3>4. TabuForce(t, batch)[i] = TabuGauge(t) * request.beta * total
      BY <2>1, <3>2 DEF TabuForce
    <3> QED
      BY <1>1, <1>7, <3>3, <3>4
  <2>2. CASE ~(i < NumNodes)
    BY <2>2 DEF TabuForce
  <2> QED
    BY <2>1, <2>2
<1> QED
  BY <1>1, <1>3, <1>6, <1>8

LEMMA TabuSteps ==
  ASSUME request \in SbRequests, request.kernel = "Tabu"
  PROVE  CheckSteps \in Nat /\ WarmSteps \in Nat /\ Steps \in Nat /\ request.replicas \in Nat
<1>1. PICK share : share = (request.alpha * Steps + 5) \div 10
  OBVIOUS
<1>2. Steps \in Nat \ {0} /\ request.alpha \in Nat /\ request.replicas \in Nat
  BY TabuAssumption, RequestCounts DEF Counts
<1>3. share \in Nat
  <2>1. request.alpha * Steps + 5 \in Nat
    BY <1>2
  <2> QED
    BY <1>1, <2>1
<1>4. CheckSteps = IF share < 1 THEN 1 ELSE IF share > Steps THEN Steps ELSE share
  BY <1>1 DEF CheckSteps
<1> QED
  BY <1>2, <1>3, <1>4 DEF WarmSteps

LEMMA CheckedType ==
  ASSUME SamplerInv, stage = "checking", step < CheckSteps, NEW t \in Trajectories
  PROVE  Checked(step, t) \in Trajectories
<1>1. CheckSteps \in Nat /\ step \in Nat
  BY TabuSteps DEF SamplerInv, SamplerTypeOK, TabuInv
<1>2. PICK extra : extra = IF Active THEN TabuForce(t, batches[step + 1]) ELSE NoExtra
  OBVIOUS
<1>3. \A i \in AllParticles : extra[i] \in Int
  <2>1. step + 1 \in 1 .. CheckSteps
    BY <1>1
  <2>2. CASE Active
    BY <1>2, <2>1, <2>2, TabuForceTyped
  <2>3. CASE ~Active
    BY <1>2, <2>3 DEF NoExtra
  <2> QED
    BY <2>2, <2>3
<1> QED
  BY <1>1, <1>2, <1>3, StepOfAllType DEF Checked

LEMMA TabuKeeps ==
  ASSUME SamplerInv, TabuNext, UNCHANGED swarmVars
  PROVE  SamplerInv'
<1> USE DEF Stages
<1>1. CASE BeginTabu
  <2>1. PICK r \in SbRequests : Begin(r, "warm") /\ r.kernel = "Tabu"
    BY <1>1 DEF BeginTabu
  <2>2. SamplerTypeOK' /\ stage' \in {"warm", "answered"} /\ request' = r
    BY <2>1, BeginTyped DEF SamplerInv
  <2>3. UNCHANGED tabuVars
    BY <1>1 DEF BeginTabu
  <2> QED
    BY <2>1, <2>2, <2>3 DEF SamplerInv, RunsAlone, TabuInv, RingInv, SwarmInv, tabuVars
<1>2. CASE DrawWarm
  <2>1. Len(tabu) \in Int /\ stage = "warm" /\ UNCHANGED tabuVars
    BY <1>2 DEF DrawWarm, SamplerInv, TabuInv
  <2>2. SamplerTypeOK' /\ stage' = "warming" /\ Len(members') = 1 /\ request' = request
    BY <1>2, <2>1, DrawTyped DEF DrawWarm, SamplerInv
  <2> QED
    BY <2>1, <2>2 DEF SamplerInv, RunsAlone, TabuInv, RingInv, SwarmInv, tabuVars
<1>3. CASE WarmStep
  <2>1. stage = "warming" /\ step < WarmSteps /\ stage' = stage /\ Len(members) = 1
        /\ step \in Nat /\ request \in SbRequests /\ request.kernel = "Tabu" /\ UNCHANGED tabuVars
    BY <1>3 DEF WarmStep, SamplerInv, SamplerTypeOK, RunsAlone, TabuInv
  <2>2. PICK t : t = StepOfAll(request.variant, WarmSteps, step, members[1], NoExtra)
    OBVIOUS
  <2>3. members[1] \in Trajectories
    BY <2>1, MemberTyped DEF SamplerInv
  <2>4. WarmSteps \in Nat
    BY <2>1, TabuSteps
  <2>5. \A i \in AllParticles : NoExtra[i] \in Int
    BY DEF NoExtra
  <2>6. t \in Trajectories
    BY <2>1, <2>2, <2>3, <2>4, <2>5, StepOfAllType
  <2>7. EndStep(<<t>>)
    BY <1>3, <2>2 DEF WarmStep
  <2>8. <<t>> \in Seq(Trajectories) /\ Len(<<t>>) = Len(members)
    BY <2>1, <2>6, OneMoved
  <2>9. SamplerTypeOK' /\ members' = <<t>> /\ request' = request
    BY <2>1, <2>7, <2>8, EndStepTyped DEF SamplerInv
  <2>10. Len(members') = 1
    BY <2>9
  <2> QED
    BY <2>1, <2>9, <2>10 DEF SamplerInv, RunsAlone, TabuInv, RingInv, SwarmInv, tabuVars
<1>4. CASE StoreColumn
  <2>1. members[1] \in Trajectories /\ stage = "warming" /\ request.kernel = "Tabu"
        /\ tabu \in Seq(Columns)
    BY <1>4, MemberTyped DEF StoreColumn, SamplerInv, RunsAlone, TabuInv
  <2>2. PICK c : c = GaugeFixedSpins(members[1])
    OBVIOUS
  <2>3. c \in Columns
    <3>1. PICK t : t = members[1]
      OBVIOUS
    <3>2. Gauge(t) \in {1, -1}
      BY DEF Gauge
    <3>3. \A v \in Nodes : Gauge(t) * Sign(t[v].x) \in {1, -1}
      BY <3>2, SignType
    <3> QED
      BY <2>2, <3>1, <3>3 DEF GaugeFixedSpins, Columns, Nodes
  <2>4. tabu' = Append(tabu, c) /\ stage' = "warm" /\ request' = request
    BY <1>4, <2>2 DEF StoreColumn
  <2>5. tabu' \in Seq(Columns)
    BY <2>1, <2>3, <2>4
  <2>6. SamplerTypeOK'
    BY <1>4 DEF StoreColumn, SamplerInv, SamplerTypeOK
  <2> QED
    BY <2>1, <2>4, <2>5, <2>6 DEF SamplerInv, RunsAlone, TabuInv, RingInv, SwarmInv
<1>5. CASE DrawBatches
  <2>1. stage = "warm" /\ stage' = "check" /\ tabu' = tabu /\ request' = request
        /\ SamplerTypeOK' /\ request.kernel = "Tabu" /\ tabu \in Seq(Columns)
    BY <1>5 DEF DrawBatches, SamplerInv, SamplerTypeOK, TabuInv
  <2>2. IF tabu = <<>> THEN batches' = <<>>
        ELSE batches' \in [1 .. CheckSteps -> [1 .. AtLeastOne(request.batch) -> DOMAIN tabu]]
    BY <1>5 DEF DrawBatches
  <2>3. CheckSteps' = CheckSteps
    BY <2>1 DEF CheckSteps, Steps
  <2> QED
    BY <2>1, <2>2, <2>3 DEF SamplerInv, RunsAlone, TabuInv, RingInv, SwarmInv
<1>6. CASE DrawChecked
  <2>1. Len(answers) \in Int /\ stage = "check" /\ UNCHANGED tabuVars
    BY <1>6 DEF DrawChecked, SamplerInv, SamplerTypeOK
  <2>2. SamplerTypeOK' /\ stage' = "checking" /\ Len(members') = 1 /\ request' = request
    BY <1>6, <2>1, DrawTyped DEF DrawChecked, SamplerInv
  <2>3. CheckSteps' = CheckSteps
    BY <2>2 DEF CheckSteps, Steps
  <2> QED
    BY <2>1, <2>2, <2>3 DEF SamplerInv, RunsAlone, TabuInv, RingInv, SwarmInv, tabuVars
<1>7. CASE CheckStep
  <2>1. stage = "checking" /\ step < CheckSteps /\ stage' = stage /\ Len(members) = 1
        /\ UNCHANGED tabuVars
    BY <1>7 DEF CheckStep, SamplerInv, RunsAlone
  <2>2. PICK t : t = Checked(step, members[1])
    OBVIOUS
  <2>3. members[1] \in Trajectories
    BY <2>1, MemberTyped DEF SamplerInv
  <2>4. t \in Trajectories
    BY <2>1, <2>2, <2>3, CheckedType
  <2>5. EndStep(<<t>>)
    BY <1>7, <2>2 DEF CheckStep
  <2>6. <<t>> \in Seq(Trajectories) /\ Len(<<t>>) = Len(members)
    BY <2>1, <2>4, OneMoved
  <2>7. SamplerTypeOK' /\ members' = <<t>> /\ request' = request
    BY <2>1, <2>5, <2>6, EndStepTyped DEF SamplerInv
  <2>8. Len(members') = 1
    BY <2>7
  <2>9. CheckSteps' = CheckSteps
    BY <2>7 DEF CheckSteps, Steps
  <2> QED
    BY <2>1, <2>7, <2>8, <2>9 DEF SamplerInv, RunsAlone, TabuInv, RingInv, SwarmInv, tabuVars
<1>8. CASE EndChecked
  <2>1. SamplerTypeOK' /\ stage' = "check" /\ request' = request /\ stage = "checking"
        /\ UNCHANGED tabuVars
    BY <1>8, ReadOffTyped DEF EndChecked, SamplerInv
  <2>2. CheckSteps' = CheckSteps
    BY <2>1 DEF CheckSteps, Steps
  <2> QED
    BY <2>1, <2>2 DEF SamplerInv, RunsAlone, TabuInv, RingInv, SwarmInv, tabuVars
<1>9. CASE EndTabu
  <2>1. SamplerTypeOK' /\ stage' = "answered" /\ UNCHANGED tabuVars
    BY <1>9 DEF EndTabu, SamplerInv, SamplerTypeOK
  <2> QED
    BY <2>1 DEF SamplerInv, RunsAlone, TabuInv, RingInv, SwarmInv, tabuVars
<1> QED
  BY <1>1, <1>2, <1>3, <1>4, <1>5, <1>6, <1>7, <1>8, <1>9 DEF TabuNext

LEMMA WithMomentumType ==
  ASSUME NEW t \in Trajectories, NEW y, \A i \in AllParticles : y[i] \in Int
  PROVE  /\ WithMomentum(t, y) \in Trajectories
         /\ \A i \in AllParticles : WithMomentum(t, y)[i].x = t[i].x
<1>1. ASSUME NEW i \in AllParticles
      PROVE  [t[i] EXCEPT !.y = y[i]] \in ParticleState /\ [t[i] EXCEPT !.y = y[i]].x = t[i].x
  <2>1. t[i] \in ParticleState
    BY DEF Trajectories
  <2> QED
    BY <2>1 DEF ParticleState
<1> QED
  BY <1>1 DEF WithMomentum, Trajectories

LEMMA LandedType ==
  ASSUME NEW t \in Trajectories
  PROVE  Landed(t) \in Trajectories
<1>1. ASSUME NEW i \in AllParticles
      PROVE  Landing(t[i], t[i].y) \in ParticleState
  <2>1. t[i] \in ParticleState /\ t[i].y \in Int
    BY DEF Trajectories, ParticleState
  <2> QED
    BY <2>1, LandingType
<1> QED
  BY <1>1 DEF Landed, Trajectories

\* The momentum reads positions of the neighbours, and nothing else of them.
LEMMA MomentumReads ==
  ASSUME Len(members) \in Nat, NEW q \in Members, NEW t, NEW u, t[q] = u[q],
         \A r \in Members : \A i \in AllParticles : t[r][i].x = u[r][i].x
  PROVE  RingMomentum(t, q) = RingMomentum(u, q)
<1>1. Previous(q) \in Members /\ Following(q) \in Members
  BY DEF Previous, Following, Members
<1> QED
  BY <1>1 DEF RingMomentum

LEMMA MomentumStays ==
  ASSUME UNCHANGED <<request, step, before>>, Len(members') = Len(members), NEW q
  PROVE  RingMomentum(before, q)' = RingMomentum(before, q)
<1>1. RingCoupling' = RingCoupling /\ Steps' = Steps
  BY DEF RingCoupling, Steps
<1>2. Previous(q)' = Previous(q) /\ Following(q)' = Following(q)
  BY DEF Previous, Following
<1>3. \A x : DeadZoneSign(x)' = DeadZoneSign(x)
  BY <1>1 DEF DeadZoneSign
<1> QED
  BY <1>1, <1>2, <1>3 DEF RingMomentum

LEMMA RingKeeps ==
  ASSUME SamplerInv, RingNext, UNCHANGED <<tabuVars, swarmVars>>
  PROVE  SamplerInv'
<1> USE DEF Stages
<1>1. CASE BeginRing
  <2>1. PICK r \in SbRequests : Begin(r, "rings") /\ r.kernel = "Ring"
    BY <1>1 DEF BeginRing
  <2>2. SamplerTypeOK' /\ stage' \in {"rings", "answered"} /\ request' = r
    BY <2>1, BeginTyped DEF SamplerInv
  <2> QED
    BY <2>1, <2>2 DEF SamplerInv, RunsAlone, TabuInv, RingInv, SwarmInv, tabuVars
<1>2. CASE DrawRing
  <2>1. Len(answers) \in Nat /\ stage = "rings" /\ request.kernel = "Ring" /\ request \in SbRequests
        /\ Len(answers) < NumReads /\ DrawMembers(Len(answers), RingSize, "ring")
    BY <1>2 DEF DrawRing, SamplerInv, SamplerTypeOK, RingInv
  <2>2. RingSize \in Nat
    BY <2>1, RequestCounts, RingAssumption DEF RingSize, Counts, AtLeastOne
  <2>3. SamplerTypeOK' /\ stage' = "ring" /\ before' = members' /\ turn' = 1 /\ request' = request
    BY <2>1, <2>2, DrawTyped DEF SamplerInv
  <2>4. \A q \in Members' : ~(q < turn')
    BY <2>3 DEF Members
  <2> QED
    BY <2>1, <2>3, <2>4 DEF SamplerInv, RunsAlone, TabuInv, RingInv, SwarmInv, tabuVars
<1>3. CASE PushReplica
  <2>1. PICK n : n = Len(members)
    OBVIOUS
  <2>2. /\ stage = "ring" /\ stage' = "ring" /\ request.kernel = "Ring" /\ request \in SbRequests
        /\ Len(before) = n /\ n \in Nat /\ turn \in 1 .. n /\ step \in Nat
        /\ members \in Seq(Trajectories) /\ before \in Seq(Trajectories)
        /\ turn' = turn + 1
        /\ UNCHANGED <<request, step, seeds, before, answers>>
    BY <1>3, <2>1 DEF PushReplica, SamplerInv, SamplerTypeOK, RingInv, Members
  <2>3. \A q \in 1 .. n :
          members[q] = IF q < turn THEN WithMomentum(before[q], RingMomentum(before, q))
                                   ELSE before[q]
    BY <2>1, <2>2 DEF SamplerInv, RingInv, Members
  <2>4. before \in [Members -> Trajectories] /\ members \in [Members -> Trajectories]
    BY <2>1, <2>2 DEF Members
  <2>5. Counts
    BY <2>2, RequestCounts
  <2>6. \A q \in Members : \A i \in AllParticles : RingMomentum(before, q)[i] \in Int
    BY <2>1, <2>2, <2>4, <2>5, RingMomentumType
  <2>7. \A q \in Members : \A i \in AllParticles : members[q][i].x = before[q][i].x
    <3> SUFFICES ASSUME NEW q \in Members
                 PROVE  \A i \in AllParticles : members[q][i].x = before[q][i].x
      OBVIOUS
    <3>1. before[q] \in Trajectories
      BY <2>4
    <3>2. PICK y : y = RingMomentum(before, q)
      OBVIOUS
    <3>3. \A i \in AllParticles : WithMomentum(before[q], y)[i].x = before[q][i].x
      BY <2>6, <3>1, <3>2, WithMomentumType
    <3> QED
      BY <2>1, <2>3, <3>2, <3>3 DEF Members
  <2>8. members[turn] = before[turn]
    BY <2>2, <2>3
  <2>9. turn \in Members /\ Len(members) \in Nat
    BY <2>1, <2>2 DEF Members
  <2>10. RingMomentum(members, turn) = RingMomentum(before, turn)
    BY <2>7, <2>8, <2>9, MomentumReads
  <2>11. PICK t : t = WithMomentum(before[turn], RingMomentum(before, turn))
    OBVIOUS
  <2>12. t \in Trajectories
    BY <2>4, <2>6, <2>9, <2>11, WithMomentumType
  <2>13. members' = [members EXCEPT ![turn] = t]
    BY <1>3, <2>8, <2>10, <2>11 DEF PushReplica
  <2>14. members' \in Seq(Trajectories) /\ Len(members') = n
    BY <2>1, <2>2, <2>12, <2>13
  <2>15. \A q : RingMomentum(before, q)' = RingMomentum(before, q)
    BY <2>1, <2>2, <2>14, MomentumStays
  <2>16. ASSUME NEW q \in 1 .. n
         PROVE  members'[q] = IF q < turn' THEN WithMomentum(before[q], RingMomentum(before, q))
                                           ELSE before[q]
    <3>1. CASE q = turn
      BY <2>1, <2>2, <2>11, <2>13, <3>1
    <3>2. CASE q # turn
      <4>1. members'[q] = members[q]
        BY <2>1, <2>2, <2>13, <3>2
      <4>2. q < turn' <=> q < turn
        BY <2>2, <3>2
      <4> QED
        BY <2>3, <4>1, <4>2
    <3> QED
      BY <3>1, <3>2
  <2>17. RingInv'
    <3>1. \A q \in Members' : q \in 1 .. n
      BY <2>14 DEF Members
    <3>2. \A q \in Members' :
            members'[q] = IF q < turn' THEN WithMomentum(before'[q], RingMomentum(before, q)')
                                       ELSE before'[q]
      BY <2>2, <2>15, <2>16, <3>1
    <3>3. \A q : WithMomentum(before[q], RingMomentum(before, q))'
                   = WithMomentum(before'[q], RingMomentum(before, q)')
      BY DEF WithMomentum
    <3> QED
      BY <2>2, <2>14, <3>2, <3>3 DEF RingInv
  <2>18. SamplerTypeOK'
    BY <2>1, <2>2, <2>14 DEF SamplerInv, SamplerTypeOK
  <2> QED
    BY <2>2, <2>17, <2>18 DEF SamplerInv, RunsAlone, TabuInv, SwarmInv, tabuVars
<1>4. CASE MoveRing
  <2>1. PICK moved : moved = [q \in Members |-> Landed(members[q])]
    OBVIOUS
  <2>2. stage = "ring" /\ stage' = stage /\ request.kernel = "Ring" /\ EndStep(moved)
    BY <1>4, <2>1 DEF MoveRing, SamplerInv, RingInv
  <2>3. \A q \in Members : Landed(members[q]) \in Trajectories
    BY MemberTyped, LandedType DEF SamplerInv
  <2>4. moved \in Seq(Trajectories) /\ Len(moved) = Len(members)
    BY <2>1, <2>3, MemberTyped DEF SamplerInv, Members
  <2>5. SamplerTypeOK' /\ members' = moved /\ before' = moved /\ turn' = 1 /\ request' = request
    BY <2>2, <2>4, EndStepTyped DEF SamplerInv
  <2>6. \A q \in Members' : ~(q < turn')
    BY <2>5 DEF Members
  <2> QED
    BY <2>2, <2>5, <2>6 DEF SamplerInv, RunsAlone, TabuInv, RingInv, SwarmInv, tabuVars
<1>5. CASE EndRing
  <2>1. SamplerTypeOK' /\ stage' = "rings" /\ request' = request /\ stage = "ring"
    BY <1>5, ReadOffTyped DEF EndRing, SamplerInv
  <2> QED
    BY <2>1 DEF SamplerInv, RunsAlone, TabuInv, RingInv, SwarmInv, tabuVars
<1>6. CASE EndRings
  <2>1. SamplerTypeOK' /\ stage' = "answered"
    BY <1>6 DEF EndRings, SamplerInv, SamplerTypeOK
  <2> QED
    BY <2>1 DEF SamplerInv, RunsAlone, TabuInv, RingInv, SwarmInv, tabuVars
<1> QED
  BY <1>1, <1>2, <1>3, <1>4, <1>5, <1>6 DEF RingNext

LEMMA LeaderIsLeast ==
  ASSUME SamplerTypeOK, Len(members) > 0
  PROVE  /\ Leader \in Members
         /\ \A r \in Members :
              Energy(GaugeFixedSpins(members[Leader])) <= Energy(GaugeFixedSpins(members[r]))
<1> DEFINE First(r) == \A o \in Members :
                 \/ ExtendedEnergy(members[r]) < ExtendedEnergy(members[o])
                 \/ ExtendedEnergy(members[r]) = ExtendedEnergy(members[o]) /\ r <= o
<1>1. PICK n : n = Len(members)
  OBVIOUS
<1>2. n \in Nat \ {0} /\ Members = 1 .. n
  BY <1>1, MemberTyped DEF Members
<1>3. \A r \in Members : /\ Energy(GaugeFixedSpins(members[r])) \in Int
                         /\ ExtendedEnergy(members[r]) = Energy(GaugeFixedSpins(members[r]))
  <2> SUFFICES ASSUME NEW r \in Members
               PROVE  /\ Energy(GaugeFixedSpins(members[r])) \in Int
                      /\ ExtendedEnergy(members[r]) = Energy(GaugeFixedSpins(members[r]))
    OBVIOUS
  <2>1. PICK t : t = members[r]
    OBVIOUS
  <2>2. t \in Trajectories
    BY <2>1, MemberTyped
  <2>3. \A i \in AllParticles : t[i].x \in Int
    BY <2>2 DEF Trajectories, ParticleState
  <2> QED
    BY <2>1, <2>3, ReportedEnergy, ExtendedIsReported
<1>4. PICK e : e = [r \in Members |-> ExtendedEnergy(members[r])]
  OBVIOUS
<1>5. \A r \in 1 .. n : e[r] \in Int
  BY <1>2, <1>3, <1>4
<1>6. \E r \in 1 .. n : \A o \in 1 .. n : e[r] < e[o] \/ (e[r] = e[o] /\ r <= o)
  BY <1>2, <1>5, SmallestExists
<1>7. \E r \in Members : First(r)
  BY <1>2, <1>4, <1>6
<1>8. Leader = CHOOSE r \in Members : First(r)
  BY Zenon DEF Leader
<1> HIDE DEF First
<1>9. Leader \in Members /\ First(Leader)
  BY <1>7, <1>8, Zenon
<1>10. PICK b : b = Leader
  OBVIOUS
<1>11. b \in Members /\ First(b)
  BY <1>9, <1>10
<1>12. \A r \in Members :
         Energy(GaugeFixedSpins(members[b])) <= Energy(GaugeFixedSpins(members[r]))
  BY <1>3, <1>11 DEF First
<1> QED
  BY <1>10, <1>11, <1>12

LEMMA SwarmKeeps ==
  ASSUME SamplerInv, SwarmNext, UNCHANGED tabuVars
  PROVE  SamplerInv'
<1> USE DEF Stages
<1>1. CASE BeginSwarm
  <2>1. PICK r \in SbRequests : Begin(r, "swarm")
    BY <1>1 DEF BeginSwarm
  <2>2. SamplerTypeOK' /\ stage' \in {"swarm", "answered"} /\ request' = r
    BY <2>1, BeginTyped DEF SamplerInv
  <2> QED
    BY <2>1, <2>2 DEF SamplerInv, RunsAlone, TabuInv, RingInv, SwarmInv, tabuVars
<1>2. CASE DrawSwarm
  <2>1. stage = "swarm" /\ request \in SbRequests /\ DrawMembers(0, NumReads, "guide")
        /\ guided' = [r \in 1 .. NumReads |-> [i \in AllParticles |-> 0]]
    BY <1>2 DEF DrawSwarm, SamplerInv, SamplerTypeOK
  <2>2. NumReads \in Nat \ {0}
    BY <2>1, RequestCounts DEF Counts
  <2>3. SamplerTypeOK' /\ stage' = "guide" /\ before' = members' /\ Len(members') = NumReads
    BY <2>1, <2>2, DrawTyped DEF SamplerInv
  <2>4. Members' = 1 .. NumReads
    BY <2>3 DEF Members
  <2>5. guided' \in [Members' -> [AllParticles -> Int]]
    BY <2>1, <2>4
  <2>6. Len(members') > 0 /\ Len(before') = Len(members')
    BY <2>2, <2>3
  <2> QED
    BY <2>3, <2>5, <2>6 DEF SamplerInv, RunsAlone, TabuInv, RingInv, SwarmInv, tabuVars
<1>3. CASE Guide
  <2>1. /\ stage = "guide" /\ stage' = "move" /\ leading' = Leader /\ before = members
        /\ UNCHANGED <<request, step, turn, members, seeds, before, answers>>
        /\ Len(members) > 0
        /\ guided \in [Members -> [AllParticles -> Int]]
        /\ request \in SbRequests /\ step \in Nat
        /\ guided' = [r \in Members |->
                        Filtered(guided[r], Guidance(members[leading'], members[r]))]
    BY <1>3 DEF Guide, SamplerInv, SamplerTypeOK, SwarmInv
  <2>2. /\ leading' \in Members
        /\ \A r \in Members :
             Energy(GaugeFixedSpins(members[leading'])) <= Energy(GaugeFixedSpins(members[r]))
    BY <2>1, LeaderIsLeast DEF SamplerInv
  <2>3. Counts
    BY <2>1, RequestCounts
  <2>4. ASSUME NEW r \in Members
        PROVE  guided'[r] \in [AllParticles -> Int]
    <3>1. PICK best, t : best = members[leading'] /\ t = members[r]
      OBVIOUS
    <3>2. best \in Trajectories /\ t \in Trajectories
      BY <2>2, <3>1, MemberTyped DEF SamplerInv
    <3>3. PICK g : g = Guidance(best, t)
      OBVIOUS
    <3>4. \A i \in AllParticles : g[i] \in Int
      BY <2>1, <2>3, <3>2, <3>3, GuidanceType
    <3>5. PICK old : old = guided[r]
      OBVIOUS
    <3>6. \A i \in AllParticles : old[i] \in Int
      BY <2>1, <3>5
    <3>7. Filtered(old, g) \in [AllParticles -> Int]
      BY <2>1, <2>3, <3>4, <3>6, FilteredType
    <3> QED
      BY <2>1, <3>1, <3>3, <3>5, <3>7
  <2>5. guided' \in [Members -> [AllParticles -> Int]]
    BY <2>1, <2>4
  <2>6. SamplerTypeOK'
    BY <2>1 DEF SamplerInv, SamplerTypeOK
  <2>7. Members' = Members
    BY <2>1 DEF Members
  <2>8. SwarmInv'
    BY <2>1, <2>2, <2>5, <2>7 DEF SwarmInv
  <2> QED
    BY <2>1, <2>6, <2>8 DEF SamplerInv, RunsAlone, TabuInv, RingInv, tabuVars
<1>4. CASE MoveMember
  <2>1. PICK n : n = Len(members)
    OBVIOUS
  <2>2. /\ stage = "move" /\ stage' = "move" /\ turn \in 1 .. n /\ turn' = turn + 1
        /\ UNCHANGED <<request, step, seeds, before, answers, guided, leading>>
        /\ Len(members) > 0 /\ n \in Nat /\ Len(before) = Len(members)
        /\ guided \in [Members -> [AllParticles -> Int]]
        /\ request \in SbRequests /\ step \in Nat /\ turn \in Members
        /\ members \in Seq(Trajectories) /\ before \in Seq(Trajectories)
    BY <1>4, <2>1 DEF MoveMember, SamplerInv, SamplerTypeOK, SwarmInv, Members, swarmVars
  <2>3. PICK hit : members' = [members EXCEPT ![turn] =
         [i \in AllParticles |->
            MoveGuided(members[turn][i], Sums(Coupled(before[turn]))[i], guided[turn][i], i \in hit)]]
    BY <1>4 DEF MoveMember
  <2>4. PICK t : t = [i \in AllParticles |->
            MoveGuided(members[turn][i], Sums(Coupled(before[turn]))[i], guided[turn][i], i \in hit)]
    OBVIOUS
  <2>5. Counts
    BY <2>2, RequestCounts
  <2>6. t \in Trajectories
    <3>1. PICK c : c = Coupled(before[turn])
      OBVIOUS
    <3>2. before[turn] \in Trajectories /\ members[turn] \in Trajectories
      BY <2>1, <2>2
    <3>3. \A i \in AllParticles : c[i] \in Int
      <4>1. \A i \in AllParticles : before[turn][i] \in ParticleState
        BY <3>2 DEF Trajectories
      <4> QED
        BY <3>1, <4>1, CoupledValueType DEF Coupled
    <3>4. \A i \in AllParticles : Sums(c)[i] \in Int
      BY <3>3, SumsType
    <3>5. ASSUME NEW i \in AllParticles
          PROVE  t[i] \in ParticleState
      <4>1. members[turn][i] \in ParticleState
        BY <3>2 DEF Trajectories
      <4>2. guided[turn][i] \in Int
        BY <2>2
      <4>3. PICK f, g : f = Sums(c)[i] /\ g = guided[turn][i]
        OBVIOUS
      <4>4. f \in Int /\ g \in Int
        BY <3>4, <4>2, <4>3
      <4>5. PICK s : s = members[turn][i]
        OBVIOUS
      <4>6. MoveGuided(s, f, g, TRUE) \in ParticleState /\ MoveGuided(s, f, g, FALSE) \in ParticleState
        BY <2>2, <2>5, <4>1, <4>4, <4>5, GuidedType
      <4>7. t[i] = MoveGuided(s, f, g, i \in hit)
        BY <2>4, <3>1, <4>3, <4>5
      <4>8. t[i] \in {MoveGuided(s, f, g, TRUE), MoveGuided(s, f, g, FALSE)}
        <5>1. CASE i \in hit
          BY <4>7, <5>1 DEF MoveGuided
        <5>2. CASE i \notin hit
          BY <4>7, <5>2 DEF MoveGuided
        <5> QED
          BY <5>1, <5>2
      <4> QED
        BY <4>6, <4>8
    <3> QED
      BY <2>4, <3>5 DEF Trajectories
  <2>7. members' = [members EXCEPT ![turn] = t]
    BY <2>3, <2>4
  <2>8. members' \in Seq(Trajectories) /\ Len(members') = Len(members)
    BY <2>1, <2>2, <2>6, <2>7
  <2>9. SamplerTypeOK'
    BY <2>1, <2>2, <2>8 DEF SamplerInv, SamplerTypeOK
  <2>10. Members' = Members
    BY <2>8 DEF Members
  <2>11. SwarmInv'
    BY <2>2, <2>8, <2>10 DEF SamplerInv, SwarmInv
  <2> QED
    BY <2>2, <2>9, <2>11 DEF SamplerInv, RunsAlone, TabuInv, RingInv, tabuVars
<1>5. CASE EndSwarmStep
  <2>1. stage = "move" /\ stage' = "guide" /\ EndStep(members) /\ UNCHANGED <<guided, leading>>
        /\ members \in Seq(Trajectories)
    BY <1>5 DEF EndSwarmStep, swarmVars, SamplerInv, SamplerTypeOK
  <2>2. SamplerTypeOK' /\ members' = members /\ before' = members
    BY <2>1, EndStepTyped DEF SamplerInv
  <2>3. Members' = Members
    BY <2>2 DEF Members
  <2>4. SwarmInv'
    BY <2>1, <2>2, <2>3 DEF SamplerInv, SwarmInv
  <2> QED
    BY <2>1, <2>2, <2>4 DEF SamplerInv, RunsAlone, TabuInv, RingInv, tabuVars
<1>6. CASE EndSwarm
  <2>1. SamplerTypeOK' /\ stage' = "answered"
    BY <1>6, ReadOffTyped DEF EndSwarm, SamplerInv
  <2> QED
    BY <2>1 DEF SamplerInv, RunsAlone, TabuInv, RingInv, SwarmInv, tabuVars
<1> QED
  BY <1>1, <1>2, <1>3, <1>4, <1>5, <1>6 DEF SwarmNext

LEMMA SamplerInitInv == SamplerInit => SamplerInv
<1> SUFFICES ASSUME SamplerInit PROVE SamplerInv
  OBVIOUS
<1> USE DEF SamplerInit, ReadsInit, TabuInit, SwarmInit
<1>1. <<>> \in Seq(Trajectories) /\ <<>> \in Seq(Int) /\ <<>> \in Seq(Answers) /\ <<>> \in Seq(Columns)
  OBVIOUS
<1>2. SamplerTypeOK
  BY <1>1 DEF SamplerTypeOK, Stages
<1> QED
  BY <1>1, <1>2 DEF SamplerInv, RunsAlone, TabuInv, RingInv, SwarmInv

\* The pool leaves the sampler's state alone.
LEMMA SamplerStays ==
  ASSUME SamplerInv, UNCHANGED sbSamplerVars
  PROVE  SamplerInv'
<1>1. UNCHANGED <<request, stage, step, turn, members, seeds, before, answers, tabu, batches, guided, leading>>
  BY DEF sbSamplerVars, readVars, tabuVars, swarmVars
<1>2. SamplerTypeOK'
  BY <1>1 DEF SamplerInv, SamplerTypeOK
<1>3. RunsAlone' /\ TabuInv'
  BY <1>1 DEF SamplerInv, RunsAlone, TabuInv, CheckSteps, Steps
<1>4. RingInv'
  <2>1. Members' = Members
    BY <1>1 DEF Members
  <2>2. \A q \in Members : RingMomentum(before, q)' = RingMomentum(before, q)
    BY <1>1, MomentumStays
  <2> QED
    BY <1>1, <2>1, <2>2 DEF SamplerInv, RingInv
<1>5. SwarmInv'
  BY <1>1 DEF SamplerInv, SwarmInv, Members
<1> QED
  BY <1>2, <1>3, <1>4, <1>5 DEF SamplerInv

LEMMA SamplerStepInv == SamplerInv /\ [SbNext]_<<sbVars, sbSamplerVars>> => SamplerInv'
<1> SUFFICES ASSUME SamplerInv, [SbNext]_<<sbVars, sbSamplerVars>> PROVE SamplerInv'
  OBVIOUS
<1>1. CASE SamplerNext
  BY <1>1, PlainKeeps, TabuKeeps, RingKeeps, SwarmKeeps DEF SamplerNext
<1>2. CASE UNCHANGED sbSamplerVars
  BY <1>2, SamplerStays
<1> QED
  BY <1>1, <1>2 DEF SbNext

LEMMA SamplerInductive == SbSpec => []SamplerInv
<1>1. SbInit => SamplerInv
  BY SamplerInitInv DEF SbInit
<1> QED
  BY <1>1, SamplerStepInv, PTL DEF SbSpec

\* The kernels of the sampler keep the trajectories, the columns they store and
\* the results well formed, for every problem and every request.
THEOREM SamplerTypeCorrect == SbSpec => []SamplerTypeOK
<1>1. SamplerInv => SamplerTypeOK
  BY DEF SamplerInv
<1> QED
  BY <1>1, SamplerInductive, PTL

\* Every replica of a ring takes its momentum from the positions all had when
\* the step began, for rings of every size (sb_sbqa.rs 102-107).
THEOREM RingsMoveAtOnce == SbSpec => []RingIsSimultaneous
<1>1. SamplerInv => RingIsSimultaneous
  BY DEF SamplerInv, RingInv, RingIsSimultaneous
<1> QED
  BY <1>1, SamplerInductive, PTL

\* The trajectory that leads a swarm has the lowest energy of all, as it would
\* be reported, though the kernel computes another number: half of what the
\* particles add up over their rows (sb_ggsb.rs 155-158).
THEOREM LeadersAreBest == SbSpec => []LeaderIsBest
<1>1. SamplerInv => LeaderIsBest
  BY DEF SamplerInv, SwarmInv, LeaderIsBest
<1> QED
  BY <1>1, SamplerInductive, PTL

-----------------------------------------------------------------------------
\* The pool's integrator is the kernel's, in one of its variants.
PoolRunsKernel(variant) ==
  /\ Reads = NodesRead
  /\ Starts \subseteq Trajectories
  /\ Zero \in Int
  /\ \A s \in ParticleState : Couple(s) = CoupledValue(variant, s)
  /\ \A k \in Nat : \A s \in ParticleState :
       /\ Prepare(k, s) = PrepareParticle(variant, Rounds \div 2, k, s)
       /\ \A i \in AllParticles : \A see \in Seq(Int) :
            Move(k, i, s, see) = MoveParticle(variant, Rounds \div 2, k, ForceOn(i, see), s)

PoolInv ==
  /\ state \in Trajectories
  /\ coupled \in [Particles -> Int]
  /\ seen \in [Workers -> Seq(Int)]

LEMMA PoolStep ==
  ASSUME NEW variant, PoolRunsKernel(variant), SInv, PoolInv, NEW w \in Workers, WorkerStep(w)
  PROVE  PoolInv'
<1> USE SamePool
<1>1. Particles = AllParticles
  BY DEF Particles, AllParticles
<1>2. CASE Publish(w)
  <2>1. Running(w) /\ HasParticle(w) /\ Publishing(arrivals[w])
        /\ coupled' = [coupled EXCEPT ![Particle(w)] = Couple(state[Particle(w)])]
        /\ state' = [state EXCEPT ![Particle(w)] = Prepare(StepOf(arrivals[w]), state[Particle(w)])]
        /\ seen' = seen
    BY <1>2 DEF Publish
  <2>2. PICK i : i = Particle(w)
    OBVIOUS
  <2>3. PICK k : k = StepOf(arrivals[w])
    OBVIOUS
  <2>4. i \in Particles /\ arrivals[w] \in Nat /\ arrivals[w] < Rounds
    BY <2>1, <2>2, AtOwnParticle
  <2>5. k \in Nat /\ Rounds \div 2 \in Nat /\ k < Rounds \div 2
    BY <2>3, <2>4, StepsAssumption, RoundsAssumption DEF StepOf
  <2>6. PICK s \in ParticleState : s = state[i]
    BY <1>1, <2>4 DEF PoolInv, Trajectories
  <2>7. Couple(s) \in Int
    BY CoupledValueType DEF PoolRunsKernel
  <2>8. Prepare(k, s) \in ParticleState
    BY <2>5, PrepareType DEF PoolRunsKernel
  <2>9. coupled' \in [Particles -> Int]
    BY <2>1, <2>2, <2>6, <2>7 DEF PoolInv
  <2>10. state' \in [AllParticles -> ParticleState]
    BY <2>1, <2>2, <2>3, <2>6, <2>8 DEF PoolInv, Trajectories
  <2> QED
    BY <2>1, <2>9, <2>10 DEF PoolInv, Trajectories
<1>3. CASE LoadCoupled(w)
  <2>1. Running(w) /\ HasParticle(w) /\ Len(seen[w]) < Len(Reads[Particle(w)])
        /\ seen' = [seen EXCEPT ![w] = Append(seen[w], coupled[Reads[Particle(w)][Len(seen[w]) + 1]])]
        /\ UNCHANGED <<state, coupled>>
    BY <1>3 DEF LoadCoupled
  <2>2. Reads[Particle(w)] \in Seq(Particles)
    BY <2>1, AtOwnParticle
  <2>3. seen[w] \in Seq(Int)
    BY DEF PoolInv
  <2>4. Reads[Particle(w)][Len(seen[w]) + 1] \in Particles
    BY <2>1, <2>2, <2>3
  <2>5. Append(seen[w], coupled[Reads[Particle(w)][Len(seen[w]) + 1]]) \in Seq(Int)
    BY <2>3, <2>4 DEF PoolInv
  <2> QED
    BY <2>1, <2>5 DEF PoolInv
<1>4. CASE MoveOwn(w)
  <2>1. Running(w) /\ HasParticle(w) /\ Len(seen[w]) = Len(Reads[Particle(w)])
        /\ state' = [state EXCEPT ![Particle(w)] =
                 Move(StepOf(arrivals[w]), Particle(w), state[Particle(w)], seen[w])]
        /\ seen' = [seen EXCEPT ![w] = <<>>]
        /\ coupled' = coupled
    BY <1>4 DEF MoveOwn
  <2>2. PICK i : i = Particle(w)
    OBVIOUS
  <2>3. PICK k : k = StepOf(arrivals[w])
    OBVIOUS
  <2>4. i \in Particles /\ arrivals[w] \in Nat /\ arrivals[w] < Rounds
    BY <2>1, <2>2, AtOwnParticle
  <2>5. k \in Nat /\ Rounds \div 2 \in Nat
    BY <2>3, <2>4, StepsAssumption, RoundsAssumption DEF StepOf
  <2>6. PICK s \in ParticleState : s = state[i]
    BY <1>1, <2>4 DEF PoolInv, Trajectories
  <2>7. PICK see \in Seq(Int) : see = seen[w]
    BY DEF PoolInv
  <2>8. DOMAIN see = DOMAIN Terms[i]
    <3>1. Terms[i] \in Seq(Term)
      BY <1>1, <2>4, TermsType
    <3>2. Reads[i] = [l \in DOMAIN Terms[i] |-> Terms[i][l].node]
      BY <1>1, <2>4 DEF PoolRunsKernel, NodesRead
    <3>3. PICK t : t = Terms[i]
      OBVIOUS
    <3>4. t \in Seq(Term) /\ Reads[i] = [l \in 1 .. Len(t) |-> t[l].node] /\ Len(t) \in Nat
      BY <3>1, <3>2, <3>3
    <3>5. Len(Reads[i]) = Len(t)
      BY <3>4
    <3> QED
      BY <2>1, <2>2, <2>7, <3>3, <3>4, <3>5
  <2>9. ForceOn(i, see) \in Int
    BY <1>1, <2>4, <2>8, ForceType
  <2>10. Move(k, i, s, see) = MoveParticle(variant, Rounds \div 2, k, ForceOn(i, see), s)
    BY <1>1, <2>4, <2>5 DEF PoolRunsKernel
  <2>11. Move(k, i, s, see) \in ParticleState
    BY <2>5, <2>9, <2>10, MoveType
  <2>12. state' \in [AllParticles -> ParticleState]
    BY <2>1, <2>2, <2>3, <2>6, <2>7, <2>11 DEF PoolInv, Trajectories
  <2> QED
    BY <2>1, <2>12 DEF PoolInv, Trajectories
<1>5. CASE UNCHANGED <<state, coupled, seen>>
  BY <1>5 DEF PoolInv
<1> QED
  BY <1>2, <1>3, <1>4, <1>5 DEF WorkerStep, FinishSlice, WaitStep, runVars

LEMMA PoolInductive ==
  ASSUME NEW variant, PoolRunsKernel(variant)
  PROVE  SbSpec => []PoolInv
<1>1. Init => PoolInv
  BY DEF Init, PoolInv, PoolRunsKernel
<1>2. SInv /\ PoolInv /\ [Next]_sbVars => PoolInv'
  BY PoolStep DEF Next, sbVars, runVars, PoolInv
<1>3. SbInit => Init
  BY DEF SbInit
<1>4. [SbNext]_<<sbVars, sbSamplerVars>> => [Next]_sbVars
  BY DEF SbNext
<1> QED
  BY <1>1, <1>2, <1>3, <1>4, SbInitInv, SbStepInv, PTL DEF SbSpec

\* Whatever the pool and the kernels have done to the positions, the spins that
\* are read off have the energy of the particles, for every graph, with edges
\* repeated, out of range or at one node, and with or without an ancilla
\* (sb_core.rs 594-603).
THEOREM ReportedSpinsKeepTheEnergy ==
  ASSUME NEW variant, PoolRunsKernel(variant)
  PROVE  SbSpec => []GaugeKeepsEnergy
<1>1. ASSUME PoolInv, SamplerInv
      PROVE  GaugeKeepsEnergy
  <2>1. \A t \in Trajectories : GaugeKeepsEnergyOf(t)
    BY GaugeKept DEF Trajectories, ParticleState
  <2>2. \A q \in Members : members[q] \in Trajectories
    BY <1>1, MemberTyped DEF SamplerInv
  <2> QED
    BY <1>1, <2>1, <2>2 DEF GaugeKeepsEnergy, PoolInv
<1> QED
  BY <1>1, PoolInductive, SamplerInductive, PTL

\* A particle in the other gauge.
Mirrored(s) == [s EXCEPT !.x = -@, !.y = -@, !.pre = -@]

LEMMA AsRecord ==
  ASSUME NEW s \in ParticleState
  PROVE  s = [x |-> s.x, y |-> s.y, pre |-> s.pre, p |-> s.p]
BY DEF ParticleState

LEMMA WithPumped ==
  ASSUME NEW s \in ParticleState, NEW a \in Int, NEW b \in Int
  PROVE  [s EXCEPT !.pre = a, !.p = b] = [x |-> s.x, y |-> s.y, pre |-> a, p |-> b]
<1>1. PICK r \in ParticleState : r = [s EXCEPT !.pre = a, !.p = b]
  BY DEF ParticleState
<1>2. r.x = s.x /\ r.y = s.y /\ r.pre = a /\ r.p = b
  BY <1>1 DEF ParticleState
<1>3. r = [x |-> r.x, y |-> r.y, pre |-> r.pre, p |-> r.p]
  BY AsRecord
<1> QED
  BY <1>1, <1>2, <1>3
LEMMA MirroredFields ==
  ASSUME NEW s \in ParticleState
  PROVE  /\ Mirrored(s) = [x |-> -s.x, y |-> -s.y, pre |-> -s.pre, p |-> s.p]
         /\ Mirrored(s) \in ParticleState
<1>1. PICK a, b, c \in Int : a = -s.x /\ b = -s.y /\ c = -s.pre
  BY DEF ParticleState
<1>2. Mirrored(s) = [s EXCEPT !.x = a, !.y = b, !.pre = c]
  BY <1>1, Zenon DEF Mirrored
<1>3. PICK r \in ParticleState : r = [s EXCEPT !.x = a, !.y = b, !.pre = c]
  BY DEF ParticleState
<1>4. r.x = a /\ r.y = b /\ r.pre = c /\ r.p = s.p
  BY <1>3 DEF ParticleState
<1>5. r = [x |-> r.x, y |-> r.y, pre |-> r.pre, p |-> r.p]
  BY AsRecord
<1>6. Mirrored(s) = r
  BY <1>2, <1>3, Zenon
<1> QED
  BY <1>1, <1>4, <1>5, <1>6

LEMMA FlippedType ==
  ASSUME NEW t \in Trajectories
  PROVE  /\ Flipped(t) \in Trajectories
         /\ \A i \in AllParticles : Flipped(t)[i] = Mirrored(t[i])
<1>1. \A i \in AllParticles : Mirrored(t[i]) \in ParticleState
  BY MirroredFields DEF Trajectories
<1>2. Flipped(t) = [i \in AllParticles |-> Mirrored(t[i])]
  BY Zenon DEF Flipped, Mirrored
<1> QED
  BY <1>1, <1>2 DEF Trajectories

LEMMA MinusZero ==
  ASSUME NEW z \in Int, z <= 0, z >= 0
  PROVE  -z = z
OBVIOUS

LEMMA NoMinusZero == -0 = 0
<1>1. PICK z \in Int : z = 0
  OBVIOUS
<1>2. z <= 0 /\ z >= 0
  BY <1>1
<1>3. -z = z
  BY <1>2, MinusZero
<1> QED
  BY <1>1, <1>3, Zenon

LEMMA SignFlips ==
  ASSUME NEW x \in Int, x # 0
  PROVE  Sign(-x) = -Sign(x)
BY DEF Sign

LEMMA CoupledFlips ==
  ASSUME NEW variant, NEW s \in ParticleState, s.x # 0
  PROVE  CoupledValue(variant, Mirrored(s)) = -CoupledValue(variant, s)
<1>1. Mirrored(s).x = -s.x /\ s.x \in Int
  BY MirroredFields DEF ParticleState
<1>2. Sign(-s.x) = -Sign(s.x)
  BY <1>1, SignFlips
<1> QED
  BY <1>1, <1>2 DEF CoupledValue

LEMMA ForceFlips ==
  ASSUME NEW i \in AllParticles, NEW see, NEW other,
         DOMAIN see = DOMAIN Terms[i], DOMAIN other = DOMAIN Terms[i],
         \A l \in DOMAIN Terms[i] : see[l] \in Int /\ other[l] = -see[l]
  PROVE  ForceOn(i, other) = -ForceOn(i, see) /\ ForceOn(i, see) \in Int
<1>1. PICK D : D = DOMAIN Terms[i]
  OBVIOUS
<1>2. PICK f : f = [l \in D |-> Terms[i][l].coupling * see[l]]
  OBVIOUS
<1>3. PICK h : h = [l \in D |-> Terms[i][l].coupling * other[l]]
  OBVIOUS
<1>4. PICK c \in Int : c = -1
  OBVIOUS
<1>5. ASSUME NEW l \in D
      PROVE  f[l] \in Int /\ h[l] = c * f[l]
  <2>1. PICK a, b : a = Terms[i][l].coupling /\ b = see[l]
    OBVIOUS
  <2>2. a \in Int /\ b \in Int /\ other[l] = -b
    BY <1>1, <2>1, TermsType
  <2>3. f[l] = a * b /\ h[l] = a * (-b)
    BY <1>2, <1>3, <2>1, <2>2
  <2>4. a * b \in Int /\ a * (-b) = -(a * b)
    BY <2>2
  <2> QED
    BY <1>4, <2>3, <2>4
<1>6. IsFiniteSet(D)
  BY <1>1, TermsType
<1>7. SumFunctionOnSet(h, D) = c * SumFunctionOnSet(f, D)
  BY <1>5, <1>6, SumTimes
<1>8. SumFunctionOnSet(f, D) \in Int
  BY <1>5, <1>6, SumType
<1>9. ForceOn(i, see) = SumFunctionOnSet(f, D) /\ ForceOn(i, other) = SumFunctionOnSet(h, D)
  BY <1>1, <1>2, <1>3 DEF ForceOn, SumFunction
<1> QED
  BY <1>4, <1>7, <1>8, <1>9

LEMMA PrepareFlips ==
  ASSUME NEW variant, NEW steps \in Nat, NEW k \in Nat, k < steps, NEW s \in ParticleState
  PROVE  PrepareParticle(variant, steps, k, Mirrored(s)) = Mirrored(PrepareParticle(variant, steps, k, s))
<1>1. s.x \in Int /\ s.y \in Int /\ s.pre \in Int /\ s.p \in Int
  BY DEF ParticleState
<1>2. PICK m \in ParticleState : m = Mirrored(s)
  BY MirroredFields
<1>3. m = [x |-> -s.x, y |-> -s.y, pre |-> -s.pre, p |-> s.p]
  BY <1>2, MirroredFields
<1>4. m.x * m.x = s.x * s.x
  BY <1>1, <1>3
<1>5. PICK pre, p : /\ pre = IF variant.heated THEN s.y ELSE s.pre
                   /\ p = IF variant.controlled
                          THEN s.p - ((ControlScale - s.x * s.x) * s.p) \div (ControlScale * (steps - k))
                          ELSE s.p
  OBVIOUS
<1>6. /\ PrepareParticle(variant, steps, k, s) = [x |-> s.x, y |-> s.y, pre |-> pre, p |-> p]
      /\ pre \in Int /\ p \in Int
  <2>1. PICK r : r = [s EXCEPT !.pre = pre, !.p = p]
    OBVIOUS
  <2>2. PrepareParticle(variant, steps, k, s) = r
    BY <1>5, <2>1 DEF PrepareParticle, ParticleState
  <2>3. r \in ParticleState
    BY <2>2, PrepareType
  <2>4. r.x = s.x /\ r.y = s.y /\ r.pre = pre /\ r.p = p
    BY <2>1 DEF ParticleState
  <2>5. r = [x |-> r.x, y |-> r.y, pre |-> r.pre, p |-> r.p]
    BY <2>3, AsRecord
  <2> QED
    BY <2>2, <2>3, <2>4, <2>5 DEF ParticleState
<1>7. PrepareParticle(variant, steps, k, m) = [m EXCEPT !.pre = -pre, !.p = p]
  <2>1. PrepareParticle(variant, steps, k, m)
          = [m EXCEPT !.pre = IF variant.heated THEN m.y ELSE m.pre,
                      !.p = IF variant.controlled
                            THEN m.p - ((ControlScale - m.x * m.x) * m.p) \div (ControlScale * (steps - k))
                            ELSE m.p]
    BY DEF PrepareParticle, ParticleState
  <2>2. (IF variant.heated THEN m.y ELSE m.pre) = -pre
    BY <1>3, <1>5
  <2>3. m.p = s.p
    BY <1>3
  <2> QED
    BY <1>4, <1>5, <2>1, <2>2, <2>3
<1>8. PrepareParticle(variant, steps, k, s) \in ParticleState
  BY PrepareType
<1>9. Mirrored(PrepareParticle(variant, steps, k, s)) = [x |-> -s.x, y |-> -s.y, pre |-> -pre, p |-> p]
  BY <1>6, <1>8, MirroredFields
<1>10. [m EXCEPT !.pre = -pre, !.p = p] = [x |-> -s.x, y |-> -s.y, pre |-> -pre, p |-> p]
  <2>1. [m EXCEPT !.pre = -pre, !.p = p] = [x |-> m.x, y |-> m.y, pre |-> -pre, p |-> p]
    <3>1. PICK a \in Int : a = -pre
      BY <1>6
    <3>2. [m EXCEPT !.pre = a, !.p = p] = [x |-> m.x, y |-> m.y, pre |-> a, p |-> p]
      BY <1>6, WithPumped, Zenon
    <3> QED
      BY <3>1, <3>2, Zenon
  <2>2. m.x = -s.x /\ m.y = -s.y
    BY <1>3
  <2> QED
    BY <2>1, <2>2
<1> QED
  BY <1>2, <1>7, <1>9, <1>10

LEMMA LandingFlips ==
  ASSUME NEW s \in ParticleState, NEW y \in Int
  PROVE  Landing(Mirrored(s), -y) = Mirrored(Landing(s, y))
<1>1. s.x \in Int /\ s.y \in Int /\ s.pre \in Int /\ s.p \in Int /\ Wall \in Nat
  BY ScaleAssumption DEF ParticleState
<1>2. PICK m \in ParticleState : m = Mirrored(s)
  BY MirroredFields
<1>3. m = [x |-> -s.x, y |-> -s.y, pre |-> -s.pre, p |-> s.p]
  BY <1>2, MirroredFields
<1>4. PICK x \in Int : x = s.x + y
  BY <1>1
<1>5. m.x + (-y) = -x
  BY <1>1, <1>3, <1>4
<1>6. Landing(s, y) = IF x \in -Wall .. Wall THEN [s EXCEPT !.x = x, !.y = y]
                                           ELSE [s EXCEPT !.x = Wall * Sign(x), !.y = 0]
  BY <1>4 DEF Landing
<1>7. Landing(m, -y) = IF -x \in -Wall .. Wall THEN [m EXCEPT !.x = -x, !.y = -y]
                                             ELSE [m EXCEPT !.x = Wall * Sign(-x), !.y = 0]
  BY <1>5 DEF Landing
<1>8. -x \in -Wall .. Wall <=> x \in -Wall .. Wall
  BY <1>1
<1>9. Landing(s, y) \in ParticleState
  BY LandingType
<1>10. CASE x \in -Wall .. Wall
  <2>1. Landing(s, y) = [x |-> x, y |-> y, pre |-> s.pre, p |-> s.p]
    BY <1>6, <1>10 DEF ParticleState
  <2>2. Mirrored(Landing(s, y)) = [x |-> -x, y |-> -y, pre |-> -s.pre, p |-> s.p]
    BY <1>9, <2>1, MirroredFields
  <2>3. Landing(m, -y) = [x |-> -x, y |-> -y, pre |-> -s.pre, p |-> s.p]
    BY <1>3, <1>7, <1>8, <1>10
  <2> QED
    BY <1>2, <2>2, <2>3
<1>11. CASE x \notin -Wall .. Wall
  <2>1. x # 0
    BY <1>1, <1>11
  <2>2. PICK b : b = Wall * Sign(x)
    OBVIOUS
  <2>3. Wall * Sign(-x) = -b /\ b \in Int
    <3>1. Sign(-x) = -Sign(x) /\ Sign(x) \in {1, -1}
      BY <2>1, SignFlips, SignType
    <3> QED
      BY <1>1, <2>2, <3>1
  <2>4. Landing(s, y) = [x |-> b, y |-> 0, pre |-> s.pre, p |-> s.p]
    BY <1>6, <1>11, <2>2 DEF ParticleState
  <2>5. Mirrored(Landing(s, y)) = [x |-> -b, y |-> -0, pre |-> -s.pre, p |-> s.p]
    BY <1>9, <2>4, MirroredFields
  <2>6. Landing(m, -y) = [x |-> -b, y |-> 0, pre |-> -s.pre, p |-> s.p]
    BY <1>3, <1>7, <1>8, <1>11, <2>3
  <2>7. -0 = 0
    BY NoMinusZero
  <2> QED
    BY <1>2, <2>5, <2>6, <2>7
<1> QED
  BY <1>10, <1>11

LEMMA MoveFlips ==
  ASSUME NEW variant, NEW steps \in Nat, NEW k \in Nat, NEW force \in Int, NEW s \in ParticleState
  PROVE  MoveParticle(variant, steps, k, -force, Mirrored(s))
           = Mirrored(MoveParticle(variant, steps, k, force, s))
<1>1. s.x \in Int /\ s.y \in Int /\ s.pre \in Int /\ s.p \in Int
  BY DEF ParticleState
<1>2. PICK m \in ParticleState : m = Mirrored(s)
  BY MirroredFields
<1>3. m = [x |-> -s.x, y |-> -s.y, pre |-> -s.pre, p |-> s.p]
  BY <1>2, MirroredFields
<1>4. PICK restore : restore = IF variant.controlled THEN -s.p ELSE Restore(steps, k)
  OBVIOUS
<1>5. restore \in Int
  BY <1>1, <1>4 DEF Restore
<1>6. PICK y \in Int : y = s.y + restore * s.x - force
  BY <1>1, <1>5
<1>7. m.y + restore * m.x - (-force) = -y
  <2>1. m.y = -s.y /\ m.x = -s.x
    BY <1>3
  <2>2. restore * (-s.x) = -(restore * s.x) /\ restore * s.x \in Int
    BY <1>1, <1>5
  <2> QED
    BY <1>1, <1>6, <2>1, <2>2
<1>8. PICK z \in ParticleState : z = Landing(s, y)
  BY LandingType
<1>9. Landing(m, -y) = Mirrored(z)
  BY <1>2, <1>8, LandingFlips
<1>10. PICK u : u = IF variant.heated THEN s.pre ELSE 0
  OBVIOUS
<1>11. u \in Int /\ (IF variant.heated THEN m.pre ELSE 0) = -u
  BY <1>1, <1>3, <1>10
<1>12. MoveParticle(variant, steps, k, force, s) = [z EXCEPT !.y = @ + u]
  BY <1>4, <1>6, <1>8, <1>10 DEF MoveParticle
<1>13. MoveParticle(variant, steps, k, -force, m) = [Mirrored(z) EXCEPT !.y = @ + (-u)]
  <2>1. m.p = s.p
    BY <1>3
  <2> QED
    BY <1>4, <1>7, <1>9, <1>11, <2>1 DEF MoveParticle
<1>14. z.x \in Int /\ z.y \in Int /\ z.pre \in Int /\ z.p \in Int
  BY DEF ParticleState
<1>15. [z EXCEPT !.y = @ + u] = [x |-> z.x, y |-> z.y + u, pre |-> z.pre, p |-> z.p]
  BY DEF ParticleState
<1>16. [z EXCEPT !.y = @ + u] \in ParticleState
  BY <1>11, <1>14, <1>15 DEF ParticleState
<1>17. Mirrored([z EXCEPT !.y = @ + u]) = [x |-> -z.x, y |-> -(z.y + u), pre |-> -z.pre, p |-> z.p]
  BY <1>15, <1>16, MirroredFields
<1>18. [Mirrored(z) EXCEPT !.y = @ + (-u)] = [x |-> -z.x, y |-> (-z.y) + (-u), pre |-> -z.pre, p |-> z.p]
  <2>1. Mirrored(z) = [x |-> -z.x, y |-> -z.y, pre |-> -z.pre, p |-> z.p]
    BY MirroredFields
  <2> QED
    BY <2>1
<1>19. (-z.y) + (-u) = -(z.y + u)
  BY <1>11, <1>14
<1> QED
  BY <1>2, <1>12, <1>13, <1>17, <1>18, <1>19

\* A step in the other gauge, with the extra force in the other gauge.
LEMMA StepFlips ==
  ASSUME NEW variant, NEW steps \in Nat, NEW k \in Nat, k < steps, NEW t \in Trajectories,
         OffZero(t), NEW extra, NEW other,
         \A i \in AllParticles : extra[i] \in Int /\ other[i] = -extra[i]
  PROVE  StepOfAll(variant, steps, k, Flipped(t), other) = Flipped(StepOfAll(variant, steps, k, t, extra))
<1>1. PICK u \in Trajectories : u = Flipped(t)
  BY FlippedType
<1>2. \A i \in AllParticles : u[i] = Mirrored(t[i])
  BY <1>1, FlippedType
<1>3. PICK a, b : a = StepOfAll(variant, steps, k, t, extra) /\ b = StepOfAll(variant, steps, k, u, other)
  OBVIOUS
<1>4. a \in Trajectories /\ b \in Trajectories
  <2>1. \A i \in AllParticles : other[i] \in Int
    OBVIOUS
  <2> QED
    BY <1>3, <2>1, StepOfAllType
<1>5. ASSUME NEW i \in AllParticles
      PROVE  b[i] = Mirrored(a[i])
  <2>1. PICK see, oth : see = Seen(variant, t, i) /\ oth = Seen(variant, u, i)
    OBVIOUS
  <2>2. DOMAIN see = DOMAIN Terms[i] /\ DOMAIN oth = DOMAIN Terms[i]
    BY <2>1 DEF Seen
  <2>3. ASSUME NEW l \in DOMAIN Terms[i]
        PROVE  see[l] \in Int /\ oth[l] = -see[l]
    <3>1. PICK j \in AllParticles : j = Terms[i][l].node
      BY TermsType
    <3>2. t[j] \in ParticleState /\ t[j].x # 0 /\ u[j] = Mirrored(t[j])
      BY <1>2 DEF Trajectories, OffZero
    <3>3. see[l] = CoupledValue(variant, t[j]) /\ oth[l] = CoupledValue(variant, u[j])
      BY <2>1, <3>1 DEF Seen
    <3> QED
      BY <3>2, <3>3, CoupledFlips, CoupledValueType
  <2>4. ForceOn(i, oth) = -ForceOn(i, see) /\ ForceOn(i, see) \in Int
    BY <2>2, <2>3, ForceFlips
  <2>5. PICK force \in Int : force = ForceOn(i, see) + extra[i]
    BY <2>4
  <2>6. ForceOn(i, oth) + other[i] = -force
    BY <2>4, <2>5
  <2>7. PICK s \in ParticleState : s = PrepareParticle(variant, steps, k, t[i])
    BY PrepareType DEF Trajectories
  <2>8. PrepareParticle(variant, steps, k, u[i]) = Mirrored(s)
    BY <1>2, <2>7, PrepareFlips DEF Trajectories
  <2>9. a[i] = MoveParticle(variant, steps, k, force, s)
    BY <1>3, <2>1, <2>5, <2>7 DEF StepOfAll
  <2>10. b[i] = MoveParticle(variant, steps, k, -force, Mirrored(s))
    BY <1>3, <2>1, <2>6, <2>8 DEF StepOfAll
  <2> QED
    BY <2>9, <2>10, MoveFlips
<1>6. Flipped(a) \in Trajectories /\ \A i \in AllParticles : Flipped(a)[i] = Mirrored(a[i])
  BY <1>4, FlippedType
<1>7. b = Flipped(a)
  BY <1>4, <1>5, <1>6 DEF Trajectories
<1> QED
  BY <1>1, <1>3, <1>7

LEMMA GaugeFlips ==
  ASSUME HasBias, NEW t \in Trajectories, OffZero(t)
  PROVE  Gauge(Flipped(t)) = -Gauge(t) /\ Ancilla \in AllParticles
<1>1. Ancilla \in AllParticles
  BY EdgeFacts DEF Ancilla, AllParticles, NumParticles
<1>2. t[Ancilla] \in ParticleState /\ t[Ancilla].x # 0
  BY <1>1 DEF Trajectories, OffZero
<1>3. Flipped(t)[Ancilla].x = -t[Ancilla].x /\ t[Ancilla].x \in Int
  BY <1>1, <1>2, FlippedType, MirroredFields DEF ParticleState
<1> QED
  BY <1>1, <1>2, <1>3 DEF Gauge

LEMMA TabuSymmetry ==
  ASSUME HasBias, SamplerInv
  PROVE  TabuIsGaugeFree
<1> SUFFICES ASSUME stage = "checking", step < CheckSteps, OffZero(members[1])
             PROVE  Checked(step, Flipped(members[1])) = Flipped(Checked(step, members[1]))
  BY DEF TabuIsGaugeFree
<1>1. PICK t \in Trajectories : t = members[1]
  BY MemberTyped DEF SamplerInv, RunsAlone
<1>2. CheckSteps \in Nat /\ step \in Nat
  BY TabuSteps DEF SamplerInv, SamplerTypeOK, TabuInv
<1>3. PICK extra : extra = IF Active THEN TabuForce(t, batches[step + 1]) ELSE NoExtra
  OBVIOUS
<1>4. PICK other : other = IF Active THEN TabuForce(Flipped(t), batches[step + 1]) ELSE NoExtra
  OBVIOUS
<1>5. ASSUME NEW i \in AllParticles
      PROVE  extra[i] \in Int /\ other[i] = -extra[i]
  <2>1. CASE ~Active
    <3>1. extra[i] = 0 /\ other[i] = 0
      BY <1>3, <1>4, <2>1 DEF NoExtra
    <3> QED
      BY <3>1, NoMinusZero
  <2>2. CASE Active
    <3>1. PICK k \in 1 .. CheckSteps : k = step + 1
      BY <1>2
    <3>2. TabuForce(t, batches[k])[i] \in Int /\ request.beta \in Int
      BY <2>2, TabuForceTyped
    <3>3. CASE i < NumNodes
      <4>1. i \in Nodes
        BY <3>3, EdgeFacts DEF Nodes, AllParticles
      <4>2. PICK f : f = SumFunction([b \in DOMAIN batches[k] |-> tabu[batches[k][b]][i]])
        OBVIOUS
      <4>3. f \in Int
        BY <2>2, <4>1, <4>2, TabuForceTyped
      <4>4. TabuForce(t, batches[k])[i] = TabuGauge(t) * request.beta * f
        BY <3>3, <4>2 DEF TabuForce
      <4>5. TabuForce(Flipped(t), batches[k])[i] = TabuGauge(Flipped(t)) * request.beta * f
        BY <3>3, <4>2 DEF TabuForce
      <4>6. TabuGauge(Flipped(t)) = -TabuGauge(t)
        BY <1>1, GaugeFlips DEF TabuGauge
      <4>7. TabuGauge(t) \in {1, -1}
        BY DEF TabuGauge, Gauge
      <4>8. TabuForce(Flipped(t), batches[k])[i] = -TabuForce(t, batches[k])[i]
        BY <3>2, <4>3, <4>4, <4>5, <4>6, <4>7
      <4> QED
        BY <1>3, <1>4, <2>2, <3>1, <3>2, <4>8
    <3>4. CASE ~(i < NumNodes)
      <4>1. extra[i] = 0 /\ other[i] = 0
        BY <1>3, <1>4, <2>2, <3>1, <3>4 DEF TabuForce
      <4> QED
        BY <4>1, NoMinusZero
    <3> QED
      BY <3>3, <3>4
  <2> QED
    BY <2>1, <2>2
<1>6. StepOfAll(request.variant, CheckSteps, step, Flipped(t), other)
        = Flipped(StepOfAll(request.variant, CheckSteps, step, t, extra))
  BY <1>1, <1>2, <1>5, StepFlips
<1> QED
  BY <1>1, <1>3, <1>4, <1>6 DEF Checked

-----------------------------------------------------------------------------
LEMMA QuotientFlips ==
  ASSUME NEW a \in Int, NEW n \in Nat \ {0}
  PROVE  Quotient(-a, n) = -Quotient(a, n) /\ Quotient(a, n) \in Int
<1>1. Quotient(a, n) \in Int
  BY QuotientType
<1>2. CASE a = 0
  <2>1. PICK z \in Int : z = 0
    OBVIOUS
  <2>2. z \div n = 0 /\ 1 * z = z
    BY <2>1
  <2>3. Sign(z) = 1
    BY <2>1 DEF Sign
  <2>4. Quotient(z, n) = 0
    BY <2>2, <2>3 DEF Quotient
  <2>5. -a = z /\ a = z /\ -z = z
    BY <1>2, <2>1, NoMinusZero
  <2> QED
    BY <2>4, <2>5
<1>3. CASE a # 0
  <2>1. PICK s : s = Sign(a)
    OBVIOUS
  <2>2. s \in {1, -1} /\ Sign(-a) = -s
    BY <1>3, <2>1, SignType, SignFlips
  <2>3. (-s) * (-a) = s * a
    BY <2>2
  <2>4. PICK q : q = (s * a) \div n
    OBVIOUS
  <2>5. q \in Int
    <3>1. s * a \in Int
      BY <2>2
    <3> QED
      BY <2>4, <3>1
  <2>6. Quotient(a, n) = s * q /\ Quotient(-a, n) = (-s) * q
    BY <2>1, <2>2, <2>3, <2>4 DEF Quotient
  <2> QED
    BY <1>1, <2>2, <2>5, <2>6
<1> QED
  BY <1>1, <1>2, <1>3

LEMMA DotFlips ==
  ASSUME NEW a, NEW b, NEW c, NEW d,
         \A i \in AllParticles : /\ a[i] \in Int /\ b[i] \in Int
                                 /\ c[i] = -a[i] /\ d[i] = -b[i]
  PROVE  Dot(c, d) = Dot(a, b)
<1>1. \A i \in AllParticles : c[i] * d[i] = a[i] * b[i]
  OBVIOUS
<1>2. [i \in AllParticles |-> c[i] * d[i]] = [i \in AllParticles |-> a[i] * b[i]]
  BY <1>1
<1> QED
  BY <1>2 DEF Dot

LEMMA SwarmSymmetry ==
  ASSUME HasBias, SamplerInv
  PROVE  SwarmIsGaugeFree
<1> SUFFICES ASSUME stage = "guide", step < Steps, NEW r \in Members, NEW o \in Members,
                    OffZero(members[r])
             PROVE  [i \in AllParticles |-> -Guidance(members[o], members[r])[i]]
                      = Guidance(members[o], Flipped(members[r]))
  BY DEF SwarmIsGaugeFree
<1>1. PICK t, best \in Trajectories : t = members[r] /\ best = members[o]
  BY MemberTyped DEF SamplerInv
<1>2. PICK u \in Trajectories : u = Flipped(t)
  BY <1>1, FlippedType
<1>3. \A i \in AllParticles : /\ t[i].x \in Int /\ t[i].y \in Int /\ best[i].x \in Int
                             /\ u[i].x = -t[i].x /\ u[i].y = -t[i].y
  <2> SUFFICES ASSUME NEW i \in AllParticles
               PROVE  /\ t[i].x \in Int /\ t[i].y \in Int /\ best[i].x \in Int
                      /\ u[i].x = -t[i].x /\ u[i].y = -t[i].y
    OBVIOUS
  <2>1. t[i] \in ParticleState /\ best[i] \in ParticleState
    BY <1>1 DEF Trajectories
  <2>2. u[i] = Mirrored(t[i])
    BY <1>1, <1>2, FlippedType
  <2> QED
    BY <2>1, <2>2, MirroredFields DEF ParticleState
<1>4. PICK g : g = LeaderGauge(best, t)
  OBVIOUS
<1>5. g \in {1, -1} /\ LeaderGauge(best, u) = -g
  <2>1. Ancilla \in AllParticles
    BY <1>1, GaugeFlips
  <2>2. t[Ancilla].x # 0
    BY <1>1, <2>1 DEF OffZero
  <2>3. PICK a, b \in Int : a = t[Ancilla].x /\ b = best[Ancilla].x
    BY <1>3, <2>1
  <2>4. u[Ancilla].x = -a
    BY <1>3, <2>1, <2>3
  <2>5. g = IF (b < 0) # (a < 0) THEN -1 ELSE 1
    BY <1>4, <2>3 DEF LeaderGauge
  <2>6. LeaderGauge(best, u) = IF (b < 0) # (-a < 0) THEN -1 ELSE 1
    BY <2>3, <2>4 DEF LeaderGauge
  <2>7. (-a < 0) <=> ~(a < 0)
    BY <2>2, <2>3
  <2> QED
    BY <2>5, <2>6, <2>7
<1>6. PICK d, e : d = Distance(best, t) /\ e = Distance(best, u)
  OBVIOUS
<1>7. ASSUME NEW i \in AllParticles
      PROVE  d[i] \in Int /\ e[i] = -d[i]
  <2>1. d[i] = g * best[i].x - t[i].x
    BY <1>4, <1>6 DEF Distance
  <2>2. e[i] = (-g) * best[i].x - u[i].x
    BY <1>5, <1>6 DEF Distance
  <2> QED
    BY <1>3, <1>5, <2>1, <2>2
<1>8. PICK y, z : y = Momenta(t) /\ z = Momenta(u)
  OBVIOUS
<1>9. \A i \in AllParticles : y[i] \in Int /\ z[i] = -y[i]
  BY <1>3, <1>8 DEF Momenta
<1>10. Dot(e, e) = Dot(d, d) /\ Dot(e, z) = Dot(d, y) /\ Dot(z, z) = Dot(y, y)
  BY <1>7, <1>9, DotFlips
<1>11. Opposes(e, z) <=> Opposes(d, y)
  BY <1>10 DEF Opposes
<1>12. PICK n \in Nat \ {0} : n = Steps * (1 + Root(Dot(d, d)))
  <2>1. Steps \in Nat \ {0}
    BY RequestCounts DEF SamplerInv, SamplerTypeOK, Counts
  <2>2. Dot(d, d) \in Nat
    BY <1>7, SquareType
  <2>3. PICK root \in Nat : root = Root(Dot(d, d))
    BY <2>2, RootType
  <2> QED
    BY <2>1, <2>3
<1>13. PICK flip : flip = IF Opposes(d, y) THEN -1 ELSE 1
  OBVIOUS
<1>14. Guidance(best, t) = [i \in AllParticles |-> flip * Quotient(GuideScale * (Steps - step) * d[i], n)]
  BY <1>6, <1>8, <1>12, <1>13 DEF Guidance
<1>15. Guidance(best, u) = [i \in AllParticles |-> flip * Quotient(GuideScale * (Steps - step) * e[i], n)]
  BY <1>6, <1>8, <1>10, <1>11, <1>12, <1>13 DEF Guidance
<1>16. ASSUME NEW i \in AllParticles
       PROVE  flip * Quotient(GuideScale * (Steps - step) * e[i], n)
                = -(flip * Quotient(GuideScale * (Steps - step) * d[i], n))
  <2>1. PICK w \in Int : w = GuideScale * (Steps - step)
    BY GuideAssumption, RequestCounts DEF SamplerInv, SamplerTypeOK, Counts
  <2>2. PICK a \in Int : a = w * d[i]
    BY <1>7
  <2>3. w * e[i] = -a
    BY <1>7, <2>2
  <2>4. PICK q \in Int : q = Quotient(a, n)
    BY QuotientType
  <2>5. Quotient(-a, n) = -q
    BY <2>4, QuotientFlips
  <2>6. flip \in {1, -1}
    BY <1>13
  <2>7. flip * (-q) = -(flip * q)
    BY <2>6
  <2> QED
    BY <2>1, <2>2, <2>3, <2>4, <2>5, <2>7
<1> QED
  BY <1>1, <1>2, <1>14, <1>15, <1>16

\* A read in the other gauge makes the same step of a tabu search, and gets the
\* same pull in a swarm, in that gauge (sb_ggsb.rs 20-22, sb_tesb.rs 187-188).
THEOREM GaugeIsFree == SbSpec => []GaugeIsASymmetry
<1>1. SamplerInv => GaugeIsASymmetry
  BY TabuSymmetry, SwarmSymmetry DEF GaugeIsASymmetry
<1> QED
  BY <1>1, SamplerInductive, PTL
=============================================================================
