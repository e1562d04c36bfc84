------------------------- MODULE SpinBarrierProofs -------------------------
(***************************************************************************)
(* Proofs about SpinBarrier for every number of workers and of rounds.     *)
(*                                                                         *)
(* The argument: between two openings every worker is at most one call     *)
(* ahead, its sense tells whether it is, and the counter is the number of  *)
(* those that are.  So the worker whose arrival makes the counter N finds  *)
(* all the others spinning, and nobody can add to the counter before the   *)
(* sense is published.                                                     *)
(***************************************************************************)
EXTENDS SpinBarrier, FiniteSetTheorems, TLAPS

Ahead == {w \in Workers : arrivals[w] = released + 1}

InLockStep == \A w \in Workers : arrivals[w] \in {released, released + 1}

OutIsBehind == \A w \in Workers : at[w] = "out" => arrivals[w] = released

LastIsAlone ==
  \A w \in Workers : at[w] \in {"last", "reset"} =>
    /\ \A v \in Workers : arrivals[v] = released + 1
    /\ \A v \in Workers \ {w} : at[v] = "spin"

SenseTellsRound ==
  \A w \in Workers : (local[w] = sense) <=> (arrivals[w] = released)

CounterCounts ==
  waiting = IF \E w \in Workers : at[w] = "reset" THEN 0 ELSE Cardinality(Ahead)

BInv ==
  /\ BarrierTypeOK
  /\ InLockStep
  /\ OutIsBehind
  /\ LastIsAlone
  /\ SenseTellsRound
  /\ CounterCounts

-----------------------------------------------------------------------------
\* What the kernels split work with: of L items, N chunks that are rounded up
\* leave none out.
LEMMA ChunkArithmetic ==
  ASSUME NEW L \in Nat
  PROVE  /\ (L + N - 1) \div N \in Nat
         /\ N * ((L + N - 1) \div N) >= L
<1> DEFINE C == (L + N - 1) \div N
<1>1. N \in Nat /\ N > 0 /\ L + N - 1 \in Nat
  BY NAssumption
<1>2. C \in Nat
  BY <1>1
<1>3. L + N - 1 < N * C + N
  BY <1>1
<1>4. N * C \in Nat
  BY <1>1, <1>2
<1>5. N * C >= L
  <2> HIDE DEF C
  <2> QED
    BY <1>1, <1>3, <1>4
<1> QED
  BY <1>2, <1>5

\* There are N workers, and any set of N workers is all of them.
LEMMA WorkersCount ==
  /\ IsFiniteSet(Workers)
  /\ Cardinality(Workers) = N
  /\ \A S \in SUBSET Workers :
       /\ IsFiniteSet(S)
       /\ Cardinality(S) \in 0 .. N
       /\ Cardinality(S) = N => S = Workers
       /\ \A w \in Workers \ S : Cardinality(S \cup {w}) = Cardinality(S) + 1
<1>1. IsFiniteSet(Workers) /\ Cardinality(Workers) = N
  BY FS_Interval, NAssumption DEF Workers
<1>2. ASSUME NEW S \in SUBSET Workers
      PROVE /\ IsFiniteSet(S)
            /\ Cardinality(S) \in 0 .. N
            /\ Cardinality(S) = N => S = Workers
            /\ \A w \in Workers \ S : Cardinality(S \cup {w}) = Cardinality(S) + 1
  <2>1. IsFiniteSet(S) /\ Cardinality(S) <= N
    BY <1>1, FS_Subset
  <2>2. Cardinality(S) \in Nat
    BY <2>1, FS_CardinalityType
  <2>3. Cardinality(S) = N => S = Workers
    BY <1>1, FS_Subset
  <2>4. \A w \in Workers \ S : Cardinality(S \cup {w}) = Cardinality(S) + 1
    BY <2>1, FS_AddElement
  <2> QED
    BY <2>1, <2>2, <2>3, <2>4, NAssumption
<1> QED
  BY <1>1, <1>2

LEMMA InitInv == BarrierInit => BInv
<1> SUFFICES ASSUME BarrierInit PROVE BInv
  OBVIOUS
<1> USE DEF BarrierInit
<1>1. BarrierTypeOK
  <2>1. waiting \in 0 .. N /\ released \in Nat
    BY NAssumption
  <2>2. sense \in BOOLEAN /\ local \in [Workers -> BOOLEAN]
    BY Zenon
  <2>3. at \in [Workers -> {"out", "spin", "last", "reset"}]
    OBVIOUS
  <2>4. arrivals \in [Workers -> Nat]
    OBVIOUS
  <2> QED
    BY <2>1, <2>2, <2>3, <2>4 DEF BarrierTypeOK
<1>2. InLockStep /\ OutIsBehind /\ LastIsAlone
  BY DEF InLockStep, OutIsBehind, LastIsAlone
<1>3. SenseTellsRound
  BY DEF SenseTellsRound
<1>4. CounterCounts
  <2>1. Ahead = {}
    BY DEF Ahead
  <2>2. Cardinality({}) = 0
    BY FS_EmptySet
  <2> QED
    BY <2>1, <2>2 DEF CounterCounts
<1> QED
  BY <1>1, <1>2, <1>3, <1>4 DEF BInv

\* A worker that is outside excludes anybody between its arrival as the last
\* one and the publication of the sense.
LEMMA OutExcludesLast ==
  ASSUME BInv, NEW w \in Workers, at[w] = "out"
  PROVE  /\ \A v \in Workers : at[v] \in {"out", "spin"}
         /\ w \notin Ahead
         /\ waiting = Cardinality(Ahead)
<1>1. \A v \in Workers : at[v] \in {"out", "spin"}
  BY DEF BInv, BarrierTypeOK, LastIsAlone
<1>2. w \notin Ahead
  BY DEF BInv, BarrierTypeOK, OutIsBehind, Ahead
<1>3. waiting = Cardinality(Ahead)
  BY <1>1 DEF BInv, CounterCounts
<1> QED
  BY <1>1, <1>2, <1>3

LEMMA ArriveInv ==
  ASSUME BInv, NEW w \in Workers, Arrive(w)
  PROVE  BInv'
<1> USE DEF Arrive
<1>1. /\ \A v \in Workers : at[v] \in {"out", "spin"}
      /\ w \notin Ahead
      /\ waiting = Cardinality(Ahead)
  BY OutExcludesLast
<1>2. Ahead' = Ahead \cup {w}
  BY DEF Ahead, BInv, BarrierTypeOK, OutIsBehind
<1>3. Cardinality(Ahead') = waiting + 1 /\ waiting + 1 \in 0 .. N
  <2>1. Ahead \in SUBSET Workers /\ Ahead \cup {w} \in SUBSET Workers
    BY DEF Ahead
  <2>2. Cardinality(Ahead \cup {w}) = Cardinality(Ahead) + 1
    BY <1>1, <2>1, WorkersCount
  <2>3. Cardinality(Ahead \cup {w}) \in 0 .. N
    BY <2>1, WorkersCount
  <2> QED
    BY <1>1, <1>2, <2>2, <2>3
<1>4. BarrierTypeOK'
  BY <1>3 DEF BInv, BarrierTypeOK
<1>5. InLockStep'
  BY DEF BInv, BarrierTypeOK, InLockStep, OutIsBehind
<1>6. OutIsBehind'
  BY DEF BInv, BarrierTypeOK, OutIsBehind
<1>7. LastIsAlone'
  <2> SUFFICES ASSUME NEW u \in Workers, at'[u] \in {"last", "reset"}
               PROVE  /\ \A v \in Workers : arrivals'[v] = released' + 1
                      /\ \A v \in Workers \ {u} : at'[v] = "spin"
    BY DEF LastIsAlone
  <2>1. u = w /\ waiting + 1 = N
    BY <1>1 DEF BInv, BarrierTypeOK
  <2>2. Ahead' = Workers
    <3>1. Ahead' \in SUBSET Workers
      BY DEF Ahead
    <3> QED
      BY <2>1, <1>3, <3>1, WorkersCount
  <2>3. \A v \in Workers : arrivals'[v] = released' + 1
    BY <2>2 DEF Ahead
  <2>4. \A v \in Workers \ {u} : at'[v] = "spin"
    BY <1>1, <2>1, <2>3 DEF BInv, BarrierTypeOK, OutIsBehind
  <2> QED
    BY <2>3, <2>4
<1>8. SenseTellsRound'
  <2> SUFFICES ASSUME NEW v \in Workers
               PROVE  (local'[v] = sense') <=> (arrivals'[v] = released')
    BY DEF SenseTellsRound
  <2>1. CASE v = w
    <3>1. arrivals[w] = released /\ local[w] = sense
      BY DEF BInv, OutIsBehind, SenseTellsRound
    <3>2. arrivals'[w] # released'
      BY <3>1 DEF BInv, BarrierTypeOK
    <3>3. local'[w] = ~local[w] /\ sense' = sense
      BY DEF BInv, BarrierTypeOK
    <3>4. local'[w] # sense'
      BY <3>1, <3>3, Zenon DEF BInv, BarrierTypeOK
    <3> QED
      BY <2>1, <3>2, <3>4
  <2>2. CASE v # w
    <3>1. local'[v] = local[v] /\ arrivals'[v] = arrivals[v]
      BY <2>2 DEF BInv, BarrierTypeOK
    <3> QED
      BY <3>1 DEF BInv, SenseTellsRound
  <2> QED
    BY <2>1, <2>2
<1>9. CounterCounts'
  <2>1. \A v \in Workers : at'[v] # "reset"
    BY <1>1 DEF BInv, BarrierTypeOK
  <2> QED
    BY <1>3, <2>1 DEF CounterCounts
<1> QED
  BY <1>4, <1>5, <1>6, <1>7, <1>8, <1>9 DEF BInv

LEMMA ResetInv ==
  ASSUME BInv, NEW w \in Workers, Reset(w)
  PROVE  BInv'
<1> USE DEF Reset
<1>1. BarrierTypeOK'
  BY NAssumption DEF BInv, BarrierTypeOK
<1>2. InLockStep' /\ OutIsBehind' /\ LastIsAlone'
  BY DEF BInv, BarrierTypeOK, InLockStep, OutIsBehind, LastIsAlone
<1>3. SenseTellsRound'
  BY DEF BInv, SenseTellsRound
<1>4. CounterCounts'
  BY DEF BInv, BarrierTypeOK, CounterCounts
<1> QED
  BY <1>1, <1>2, <1>3, <1>4 DEF BInv

LEMMA ReleaseInv ==
  ASSUME BInv, NEW w \in Workers, Release(w)
  PROVE  BInv'
<1> USE DEF Release
<1>1. /\ \A v \in Workers : arrivals[v] = released + 1
      /\ \A v \in Workers \ {w} : at[v] = "spin"
  BY DEF BInv, LastIsAlone
<1>2. BarrierTypeOK'
  <2>1. sense' \in BOOLEAN
    BY Zenon DEF BInv, BarrierTypeOK
  <2> QED
    BY <2>1 DEF BInv, BarrierTypeOK
<1>3. InLockStep' /\ OutIsBehind' /\ LastIsAlone'
  BY <1>1 DEF BInv, BarrierTypeOK, InLockStep, OutIsBehind, LastIsAlone
<1>4. SenseTellsRound'
  <2> SUFFICES ASSUME NEW v \in Workers
               PROVE  local'[v] = sense' /\ arrivals'[v] = released'
    BY DEF SenseTellsRound
  <2>1. local[v] # sense /\ local[w] # sense
    BY <1>1 DEF BInv, BarrierTypeOK, SenseTellsRound
  <2>2. local[v] = local[w]
    BY <2>1, Zenon DEF BInv, BarrierTypeOK
  <2> QED
    BY <1>1, <2>2
<1>5. CounterCounts'
  <2>1. waiting = 0
    BY DEF BInv, CounterCounts
  <2>2. \A v \in Workers : at'[v] # "reset"
    BY <1>1 DEF BInv, BarrierTypeOK
  <2>3. Ahead' = {}
    BY <1>1 DEF Ahead, BInv, BarrierTypeOK
  <2> QED
    BY <2>1, <2>2, <2>3, FS_EmptySet DEF CounterCounts
<1> QED
  BY <1>2, <1>3, <1>4, <1>5 DEF BInv

LEMMA LeaveInv ==
  ASSUME BInv, NEW w \in Workers, Leave(w)
  PROVE  BInv'
<1> USE DEF Leave
<1>1. arrivals[w] = released
  BY DEF BInv, SenseTellsRound
<1>2. BarrierTypeOK'
  BY DEF BInv, BarrierTypeOK
<1>3. InLockStep' /\ OutIsBehind' /\ LastIsAlone'
  BY <1>1 DEF BInv, BarrierTypeOK, InLockStep, OutIsBehind, LastIsAlone
<1>4. SenseTellsRound'
  BY DEF BInv, SenseTellsRound
<1>5. CounterCounts'
  <2>1. Ahead' = Ahead
    BY DEF Ahead
  <2>2. \A v \in Workers : (at'[v] = "reset") <=> (at[v] = "reset")
    BY DEF BInv, BarrierTypeOK
  <2> QED
    BY <2>1, <2>2 DEF BInv, CounterCounts
<1> QED
  BY <1>2, <1>3, <1>4, <1>5 DEF BInv

LEMMA StepInv == BInv /\ [BarrierNext]_barrierVars => BInv'
<1> SUFFICES ASSUME BInv, [BarrierNext]_barrierVars PROVE BInv'
  OBVIOUS
<1>1. ASSUME NEW w \in Workers, BarrierStep(w) PROVE BInv'
  BY <1>1, ArriveInv, ResetInv, ReleaseInv, LeaveInv DEF BarrierStep
<1>2. CASE UNCHANGED barrierVars
  <2>1. Ahead' = Ahead
    BY <1>2 DEF Ahead, barrierVars
  <2> QED
    BY <1>2, <2>1 DEF barrierVars, BInv, BarrierTypeOK, InLockStep, OutIsBehind,
                      LastIsAlone, SenseTellsRound, CounterCounts
<1> QED
  BY <1>1, <1>2 DEF BarrierNext, BarrierDone

LEMMA BarrierInductive == BarrierSpec => []BInv
<1> QED
  BY InitInv, StepInv, PTL DEF BarrierSpec

-----------------------------------------------------------------------------
\* The counter never exceeds the number of workers, and every other variable
\* keeps its type.
THEOREM BarrierTypeCorrect == BarrierSpec => []BarrierTypeOK
<1>1. BInv => BarrierTypeOK
  BY DEF BInv
<1> QED
  BY <1>1, BarrierInductive, PTL

\* Nobody is past the barrier while another worker is still in front of it
\* (spin_barrier.rs 31-52).
THEOREM NobodyPassesEarly == BarrierSpec => []NoEarlyRelease
<1>1. BInv => NoEarlyRelease
  BY DEF BInv, BarrierTypeOK, InLockStep, OutIsBehind, NoEarlyRelease
<1> QED
  BY <1>1, BarrierInductive, PTL

\* The reset of one round loses no arrival of the next (spin_barrier.rs 33-35).
THEOREM ResetLosesNobody == BarrierSpec => []NoArrivalLost
<1>1. BInv => NoArrivalLost
  BY DEF BInv, CounterCounts, Ahead, NoArrivalLost
<1> QED
  BY <1>1, BarrierInductive, PTL

\* The sense-reversing barrier implements the rendezvous: an arrival is a
\* coming, leaving the spin loop or publishing the sense is a going on, and
\* the reset of the counter is invisible.
THEOREM BarrierIsRendezvous == BarrierSpec => ImplementsRendezvous
<1>1. BarrierInit => Meeting!Init
  BY DEF BarrierInit, Meeting!Init
<1>2. BInv /\ [BarrierNext]_barrierVars => [Meeting!Next]_Meeting!vars
  <2> SUFFICES ASSUME BInv, [BarrierNext]_barrierVars
               PROVE  [Meeting!Next]_Meeting!vars
    OBVIOUS
  <2> USE DEF Meeting!Next, Meeting!vars
  <2>1. ASSUME NEW w \in Workers, Arrive(w) PROVE Meeting!Come(w)
    BY <2>1 DEF BInv, BarrierTypeOK, Arrive, Meeting!Come
  <2>2. ASSUME NEW w \in Workers, Reset(w) PROVE UNCHANGED Meeting!vars
    BY <2>2 DEF BInv, BarrierTypeOK, Reset
  <2>3. ASSUME NEW w \in Workers, at[w] # "out",
               \A v \in Workers : arrivals[v] >= arrivals[w],
               at' = [at EXCEPT ![w] = "out"], UNCHANGED arrivals
        PROVE  Meeting!GoOn(w)
    BY <2>3 DEF BInv, BarrierTypeOK, Meeting!GoOn
  <2>4. ASSUME NEW w \in Workers, Release(w) PROVE Meeting!GoOn(w)
    <3>1. \A v \in Workers : arrivals[v] >= arrivals[w]
      BY <2>4 DEF BInv, BarrierTypeOK, LastIsAlone, Release
    <3> QED
      BY <2>3, <2>4, <3>1 DEF Release
  <2>5. ASSUME NEW w \in Workers, Leave(w) PROVE Meeting!GoOn(w)
    <3>1. arrivals[w] = released
      BY <2>5 DEF BInv, SenseTellsRound, Leave
    <3>2. \A v \in Workers : arrivals[v] >= arrivals[w]
      BY <3>1 DEF BInv, BarrierTypeOK, InLockStep
    <3> QED
      BY <2>3, <2>5, <3>2 DEF Leave
  <2>6. CASE UNCHANGED barrierVars
    BY <2>6 DEF barrierVars
  <2> QED
    BY <2>1, <2>2, <2>4, <2>5, <2>6 DEF BarrierNext, BarrierStep, BarrierDone
<1> QED
  BY <1>1, <1>2, BarrierInductive, PTL
     DEF BarrierSpec, ImplementsRendezvous, Meeting!Spec
=============================================================================
