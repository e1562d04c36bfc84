---------------------------- MODULE FloatPacked ----------------------------
(***************************************************************************)
(* The packed annealer for real couplings (src/sa_msc_f64.rs): a word per  *)
(* node holds the spin of every lane, a visit builds the field of every    *)
(* lane from the words of the neighbours, and each lane that would climb   *)
(* takes the next number of its word's own stream, in the order of the     *)
(* lanes.  Coefficients are integers of any size here.                     *)
(***************************************************************************)
EXTENDS Integers, Sequences, FiniteSets, FiniteSetsExt, SequencesExt

CONSTANTS
  Models,       \* fields, bonds and colour classes of the problems
  NumLanes,     \* LANES
  Streams,      \* the streams of numbers; one is the largest climb it takes
  FloatSweeps,  \* sweeps of the whole ladder
  RandomWords,  \* the random words considered
  LongReads,    \* reads of the run
  ShortReads    \* reads of a shorter run with the same seed

\* Bonds join nodes of the model; a colouring has a class, and no class is
\* empty.
ASSUME ModelsAssumption ==
  \A m \in Models :
    /\ \A v \in DOMAIN m.h : m.h[v] \in Int
    /\ m.bonds \in Seq([u : DOMAIN m.h, v : DOMAIN m.h, j : Int])
    /\ m.classes \in Seq(Seq(DOMAIN m.h) \ {<<>>}) \ {<<>>}

ASSUME ReadsAssumption ==
  NumLanes \in Nat \ {0} /\ LongReads \in Nat /\ ShortReads \in 0 .. LongReads

VARIABLES
  model,
  spin,      \* per word and node, the lanes where the spin is -1
  stream,    \* per word, what is left of its stream
  turn,      \* sweep, class, node in the class and word of the next visit
  out,       \* states and energies in read order, once they are unpacked
  short      \* history: the reads of the shorter run, one scalar walk each

floatVars == <<model, spin, stream, turn, out, short>>

WordLanes == 0 .. NumLanes - 1
Sites == DOMAIN model.h
WordsFor(reads) == 0 .. (reads + NumLanes - 1) \div NumLanes - 1

Touching(v) == {k \in DOMAIN model.bonds : v \in {model.bonds[k].u, model.bonds[k].v}}
Beyond(k, v) == IF model.bonds[k].u = v THEN model.bonds[k].v ELSE model.bonds[k].u

-----------------------------------------------------------------------------
(* One visit.                                                              *)

\* The word of the neighbour is shifted into the sign of the coupling.
LocalField(w, v, l) ==
  model.h[v] + SumFunction([k \in Touching(v) |->
                 IF l \in spin[w][Beyond(k, v)] THEN -model.bonds[k].j ELSE model.bonds[k].j])

\* What a flip of lane l costs.
Climb(w, v, l) ==
  IF l \in spin[w][v] THEN 2 * LocalField(w, v, l) ELSE -2 * LocalField(w, v, l)

\* Every lane runs, also past the last read.
Drawing(w, v) == {l \in WordLanes : Climb(w, v, l) > 0}

\* Faulty variant of StreamOf: the words share the first stream.
StreamOfFirst(w) == 0

\* lane_stream: a word draws from its own stream.
StreamOf(w) == w

\* The number lane l takes is counted from the lanes that draw before it.
Draw(w, v, l) == stream[StreamOf(w)][Cardinality({k \in Drawing(w, v) : k <= l})]

\* flip_mask
FlipMask(w, v) ==
  {l \in WordLanes : Climb(w, v, l) <= 0 \/ (l \in Drawing(w, v) /\ Climb(w, v, l) <= Draw(w, v, l))}

-----------------------------------------------------------------------------
(* The shorter run, as one would write it for a single configuration.      *)

Scalar(s, v) ==
  model.h[v] + SumFunction([k \in Touching(v) |-> model.bonds[k].j * s[Beyond(k, v)]])

ShortClimb(w, v, l) == -2 * short.state[w][l][v] * Scalar(short.state[w][l], v)

ShortVisit(w, v) ==
  LET drawing == {l \in WordLanes : ShortClimb(w, v, l) > 0}
      Takes(l) == \/ ShortClimb(w, v, l) <= 0
                  \/ ShortClimb(w, v, l)
                       <= short.stream[w][Cardinality({k \in drawing : k <= l})]
      walks == short.state[w]
  IN  [state |-> [short.state EXCEPT ![w] =
                    [l \in WordLanes |-> IF Takes(l) THEN [walks[l] EXCEPT ![v] = -@] ELSE walks[l]]],
       stream |-> [short.stream EXCEPT ![w] =
                     SubSeq(@, Cardinality(drawing) + 1, Len(@))]]

LaneOf(word, l) == [v \in DOMAIN word |-> IF l \in word[v] THEN -1 ELSE 1]

-----------------------------------------------------------------------------
FirstVisit == [sweep |-> 0, class |-> 1, index |-> 1, word |-> 0]

FloatInit ==
  /\ model \in Models
  /\ spin = <<>>
  /\ stream = <<>>
  /\ turn = FirstVisit
  /\ out = <<>>
  /\ short = [state |-> <<>>, stream |-> <<>>]

\* MscState::seeded: the rows take the leading lanes of their word, the other
\* lanes keep the random draw.
SeededWord(w, draw, rows) ==
  [v \in Sites |-> {l \in WordLanes : LET r == w * NumLanes + l + 1 IN
     IF r \in DOMAIN rows THEN rows[r][v] < 0 ELSE l \in draw[v]}]

\* The words and their streams, for this run and for the shorter one.
Enter(rows) ==
  /\ \E draw \in [WordsFor(LongReads) -> RandomWords] :
       spin' = [w \in WordsFor(LongReads) |-> SeededWord(w, draw[w], rows)]
  /\ stream' \in [WordsFor(LongReads) -> Streams]
  /\ short' = [state |-> [w \in WordsFor(ShortReads) |-> [l \in WordLanes |-> LaneOf(spin'[w], l)]],
               stream |-> [w \in WordsFor(ShortReads) |-> stream'[w]]]
  /\ UNCHANGED <<model, turn, out>>

Words == DOMAIN spin
Finishing == turn.sweep = FloatSweeps

\* The words of a node, then the nodes of a class, then the classes.
NextVisit ==
  LET c == turn.class IN
  IF turn.word + 1 \in Words THEN [turn EXCEPT !.word = @ + 1]
  ELSE IF turn.index < Len(model.classes[c])
  THEN [turn EXCEPT !.word = 0, !.index = @ + 1]
  ELSE IF c < Len(model.classes)
  THEN [FirstVisit EXCEPT !.sweep = turn.sweep, !.class = c + 1]
  ELSE [FirstVisit EXCEPT !.sweep = turn.sweep + 1]

Visit ==
  /\ ~Finishing
  /\ LET w == turn.word
         v == model.classes[turn.class][turn.index]
         used == Cardinality(Drawing(w, v))
     IN  /\ spin' = [spin EXCEPT ![w][v] =
                       (@ \ FlipMask(w, v)) \cup (FlipMask(w, v) \ @)]
         /\ stream' = [stream EXCEPT ![StreamOf(w)] = SubSeq(@, used + 1, Len(@))]
         /\ short' = IF w \in WordsFor(ShortReads) THEN ShortVisit(w, v) ELSE short
  /\ turn' = NextVisit
  /\ UNCHANGED <<model, out>>

\* energy_f64
RealEnergy(s) ==
  MapThenSumSet(LAMBDA v : model.h[v] * s[v], Sites)
    + MapThenSumSet(LAMBDA k : model.bonds[k].j * s[model.bonds[k].u] * s[model.bonds[k].v],
                    DOMAIN model.bonds)

Unpack ==
  /\ Finishing
  /\ out = <<>>
  /\ out' = [r \in 1 .. LongReads |->
               LET s == LaneOf(spin[(r - 1) \div NumLanes], (r - 1) % NumLanes)
               IN  [spins |-> s, energy |-> RealEnergy(s)]]
  /\ UNCHANGED <<model, spin, stream, turn, short>>

FloatStep == Visit \/ Unpack

-----------------------------------------------------------------------------
\* A read depends on its word's stream alone: the leading reads of a run are
\* the reads of a shorter run with the same seed, each a scalar walk of its own
\* (sa_msc_f64.rs 28-38).
LeadingReadsAgree ==
  out # <<>> =>
    \A r \in 1 .. ShortReads :
      out[r].spins = short.state[(r - 1) \div NumLanes][(r - 1) % NumLanes]
=============================================================================
