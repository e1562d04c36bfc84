---------------------------- MODULE PackedAnneal ----------------------------
(***************************************************************************)
(* The multi-spin coded annealer (src/sa_msc.rs, anneal_words): a word     *)
(* holds the spin of one node in every lane, and one stream of bit         *)
(* operations decides the flip of the node in all lanes at once.  There is *)
(* no field cache: the satisfied bonds are counted at every attempt, one   *)
(* bond per step here.                                                     *)
(*                                                                         *)
(* The temperatures are left out: every attempt draws any threshold in     *)
(* every lane.  Which entry of the row a lane reads is part of that        *)
(* choice.                                                                 *)
(***************************************************************************)
EXTENDS IntGraph, BitPlanes

CONSTANTS
  NumLanes,
  NumWords

ASSUME LanesAssumption == NumLanes \in Nat \ {0} /\ Lanes = 0 .. NumLanes - 1
ASSUME WordsAssumption == NumWords \in Nat \ {0}

Words == 0 .. NumWords - 1

VARIABLES
  spin,        \* per word and node, the lanes where the spin is -1
  turn,        \* the attempt the annealer is at
  threshold,   \* the threshold every lane drew
  inputs,      \* the words of the neighbours that have been walked
  planes,      \* the ripple counter
  ref          \* history: the lanes as one Metropolis walk each

countVars == <<threshold, inputs, planes>>
packedVars == <<spin, turn, countVars, ref>>

(* The counter of small neighbourhoods (popcount21).                       *)

CsaNeighbors == 20

\* A Harley-Seal tree over 21 words: ones, twos, fours and eights are summed
\* by carry-save adders, each level absorbing the carries of the one below.
PopCount21(x) ==
  LET o1 == CarrySave({}, x[1], x[2])
      o2 == CarrySave(o1.sum, x[3], x[4])
      t1 == CarrySave({}, o1.carry, o2.carry)
      o3 == CarrySave(o2.sum, x[5], x[6])
      o4 == CarrySave(o3.sum, x[7], x[8])
      t2 == CarrySave(t1.sum, o3.carry, o4.carry)
      f1 == CarrySave({}, t1.carry, t2.carry)
      o5 == CarrySave(o4.sum, x[9], x[10])
      o6 == CarrySave(o5.sum, x[11], x[12])
      t3 == CarrySave(t2.sum, o5.carry, o6.carry)
      o7 == CarrySave(o6.sum, x[13], x[14])
      o8 == CarrySave(o7.sum, x[15], x[16])
      t4 == CarrySave(t3.sum, o7.carry, o8.carry)
      f2 == CarrySave(f1.sum, t3.carry, t4.carry)
      e1 == CarrySave({}, f1.carry, f2.carry)
      o9 == CarrySave(o8.sum, x[17], x[18])
      o10 == CarrySave(o9.sum, x[19], x[20])
      t5 == CarrySave(t4.sum, o9.carry, o10.carry)
      t6 == CarrySave(t5.sum, o10.sum \cap x[21], {})
      f3 == CarrySave(f2.sum, t5.carry, t6.carry)
      e2 == CarrySave(e1.sum, f3.carry, {})
  IN  <<Xor(o10.sum, x[21]), t6.sum, f3.sum, e2.sum, e1.carry \cup e2.carry, {}>>

-----------------------------------------------------------------------------
\* bond_counts: the field counts as one more bond, to a spin pinned at +1.
HasGhost(p, v) == p.h[v] # 0
Bonds(p, v) == Degree(p, v) + (IF HasGhost(p, v) THEN 1 ELSE 0)

\* Faulty variant of Packs: the field bond is forgotten.
PacksWithoutGhost(p) ==
  \A v \in Nodes : p.h[v] \in {-1, 0, 1} /\ Degree(p, v) <= MaxDegree

Packs(p) ==
  \A v \in Nodes : p.h[v] \in {-1, 0, 1} /\ Bonds(p, v) <= MaxDegree

-----------------------------------------------------------------------------
Word == turn.word
Class == problem.classes[turn.class]
Node == Class[turn.index]
FirstTurn == [sweep |-> 0, class |-> 1, word |-> 0, index |-> 1]
PackedDone == turn.sweep = sweeps

\* for sweep, for class, for word, for node
NextTurn ==
  IF turn.index < Len(Class) THEN [turn EXCEPT !.index = @ + 1]
  ELSE IF turn.word < NumWords - 1 THEN [turn EXCEPT !.word = @ + 1, !.index = 1]
  ELSE IF turn.class < Len(problem.classes)
       THEN [turn EXCEPT !.class = @ + 1, !.word = 0, !.index = 1]
  ELSE [FirstTurn EXCEPT !.sweep = turn.sweep + 1]

\* The state of a lane, MscState::lane.
LaneState(sp, l) == [v \in Nodes |-> IF l \in sp[v] THEN -1 ELSE 1]

\* The walk of every lane of the word takes its step.
RefStep(m) ==
  ref' = [ref EXCEPT ![Word] =
    [l \in Lanes |-> Metropolis(problem, Node, ref[Word][l], m[l])]]

Flip(lanes) ==
  /\ spin' = [spin EXCEPT ![Word][Node] = Xor(@, lanes)]
  /\ turn' = NextTurn

\* fill_lane_row: a threshold above the largest degree accepts the same flips.
RowEntry(m) == PackedPlanes([l \in Lanes |-> IF m[l] < MaxDegree THEN m[l] ELSE MaxDegree])

\* Every lane accepts, whatever its count.
AllAccept(m) == AtMostPlanes(ConstantPlanes(Bonds(problem, Node)), RowEntry(m)) = Lanes

Ghost == IF problem.h[Node] < 0 THEN Not(spin[Word][Node]) ELSE spin[Word][Node]

\* The neighbours do not fit the carry-save tree.
Wide == Degree(problem, Node) > CsaNeighbors

\* Draw the thresholds of the next attempt.
Attempt ==
  /\ ~PackedDone
  /\ bond = 0
  /\ \E m \in [Lanes -> Drawable(problem)] :
       IF AllAccept(m)
       THEN /\ Flip(Lanes)
            /\ RefStep(m)
            /\ UNCHANGED <<bond, countVars>>
       ELSE /\ threshold' = m
            /\ bond' = 1
            /\ inputs' = <<>>
            /\ planes' = IF Wide /\ HasGhost(problem, Node)
                         THEN AddPlane(ZeroPlanes, 1, Ghost) ELSE ZeroPlanes
            /\ UNCHANGED <<spin, turn, ref>>
  /\ UNCHANGED <<problem, sweeps>>

\* The lanes that satisfy a bond of the node.
Satisfied(k) ==
  Xor(Xor(Everywhere(problem.bonds[k].j < 0), spin[Word][Node]),
      spin[Word][OtherEnd(problem, k, Node)])

\* How many words the ripple counter has absorbed.
Filled == Len(inputs) + (IF HasGhost(problem, Node) THEN 1 ELSE 0)

\* One bond of the row: the ripple counter absorbs it, the carry-save tree
\* takes all of them at the end.
CountBond ==
  /\ bond \in DOMAIN problem.bonds
  /\ bond' = bond + 1
  /\ IF Joins(problem, bond, Node)
     THEN /\ inputs' = Append(inputs, Satisfied(bond))
          /\ planes' = IF Wide THEN AddPlane(planes, Filled + 1, Satisfied(bond)) ELSE planes
     ELSE UNCHANGED <<inputs, planes>>
  /\ UNCHANGED <<problem, sweeps, spin, turn, threshold, ref>>

\* The field bond is the 21st input of the tree; missing inputs are zero.
CsaInputs ==
  [q \in 1 .. CsaNeighbors + 1 |->
     IF q <= Len(inputs) THEN inputs[q]
     ELSE IF q = CsaNeighbors + 1 /\ HasGhost(problem, Node) THEN Ghost ELSE {}]

Counted == IF Wide THEN planes ELSE PopCount21(CsaInputs)

\* A lane accepts when its satisfied bonds are at most half of the sum of the
\* bonds and its threshold.
AcceptedLanes ==
  AtMostPlanes(Counted, LimitPlanes(RowEntry(threshold), Bonds(problem, Node)))

FlipAccepted ==
  /\ bond = Len(problem.bonds) + 1
  /\ Flip(AcceptedLanes)
  /\ RefStep(threshold)
  /\ bond' = 0
  /\ UNCHANGED <<problem, sweeps, countVars>>

PackedStep == Attempt \/ CountBond \/ FlipAccepted

PackedInit ==
  /\ problem \in Problem /\ Qualifies(problem) /\ Packs(problem)
  /\ problem.classes # <<>>
  /\ \A c \in DOMAIN problem.classes : problem.classes[c] # <<>>
  /\ sweeps \in Nat
  /\ bond = 0
  /\ spin \in [Words -> [Nodes -> SUBSET Lanes]]
  /\ turn = FirstTurn
  /\ threshold = [l \in Lanes |-> 0]
  /\ inputs = <<>>
  /\ planes = ZeroPlanes
  /\ ref = [w \in Words |-> [l \in Lanes |-> LaneState(spin[w], l)]]

PackedSpec == PackedInit /\ [][PackedStep]_<<problem, sweeps, bond, packedVars>>

-----------------------------------------------------------------------------
PackedTypeOK ==
  /\ problem \in Problem
  /\ sweeps \in Nat
  /\ bond \in 0 .. Len(problem.bonds) + 1
  /\ spin \in [Words -> [Nodes -> SUBSET Lanes]]
  /\ turn \in [sweep : 0 .. sweeps, class : DOMAIN problem.classes, word : Words,
               index : Nat \ {0}]
  /\ turn.index <= Len(Class)
  /\ threshold \in [Lanes -> Nat]
  /\ inputs \in Seq(SUBSET Lanes)
  /\ (bond > 0 /\ ~Wide) => Len(inputs) <= CsaNeighbors
  /\ planes \in [Planes -> SUBSET Lanes]
  /\ ref \in [Words -> [Lanes -> States]]

\* 64 annealing runs in a word are 64 independent Metropolis walks: whatever
\* the other lanes accept, whatever the degree of a node, every lane takes the
\* flips that its own threshold and its own fields ask for (sa_msc.rs 36-55).
LanesAreMetropolis ==
  \A w \in Words, l \in Lanes : LaneState(spin[w], l) = ref[w][l]

\* A bond is satisfied in a lane when it pulls the node's spin the other way.
SatisfiedIn(k, l) ==
  LET s == LaneState(spin[Word], l) IN s[Node] * Pull(problem, k, Node, s) = -1
GhostIn(l) == problem.h[Node] * LaneState(spin[Word], l)[Node] = -1

\* The ripple counter never loses a carry: it holds, in every lane, how many
\* of the bonds walked so far are satisfied, up to the 63 bonds that six
\* planes hold (sa_msc.rs 419-434).
RippleIsExact ==
  (bond > 0 /\ Wide) => \A l \in Lanes :
    Value(planes, l) =
      Cardinality({k \in Row(problem, Node) : k < bond /\ SatisfiedIn(k, l)})
      + (IF GhostIn(l) THEN 1 ELSE 0)
=============================================================================
