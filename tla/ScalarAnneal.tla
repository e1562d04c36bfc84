---------------------------- MODULE ScalarAnneal ----------------------------
(***************************************************************************)
(* The scalar integer annealer (src/sa_int.rs, anneal_from): one read      *)
(* after the other, with a cache of the field of every node.  The cache is *)
(* seeded once per read and then only ever updated, one neighbour per      *)
(* step, after a flip; it is kept in 8 bits.                               *)
(***************************************************************************)
EXTENDS IntGraph

CONSTANT NumReads

ASSUME ReadsAssumption == NumReads \in Nat \ {0}

Reads == 0 .. NumReads - 1

VARIABLES
  read,     \* the read that is annealed
  sweep,    \* its sweep
  var,      \* the node of the next attempt
  spins,    \* the state of the read
  heff,     \* the cached field of every node
  walk      \* history: the read as a Metropolis walk

scalarVars == <<read, sweep, var, spins, heff, walk>>

SweepsDone == sweep = sweeps /\ bond = 0

\* seed_fields
SeedFields(s) == [v \in Nodes |-> Field(problem, v, s)]

StartRead(s) ==
  /\ sweep' = 0
  /\ var' = 0
  /\ spins' = s
  /\ heff' = SeedFields(s)
  /\ walk' = s

\* On to the next node, in the order of the nodes.
NextNode ==
  IF var + 1 < NumNodes
  THEN var' = var + 1 /\ sweep' = sweep
  ELSE var' = 0 /\ sweep' = sweep + 1

\* One attempt: the field along the spin, from the cache, against a threshold.
Visit ==
  /\ sweep < sweeps
  /\ bond = 0
  /\ \E m \in Drawable(problem) :
       /\ walk' = Metropolis(problem, var, walk, m)
       /\ IF spins[var] * heff[var] >= -m
          THEN /\ spins' = [spins EXCEPT ![var] = -spins[var]]
               /\ bond' = 1
               /\ UNCHANGED <<var, sweep>>
          ELSE NextNode /\ UNCHANGED <<spins, bond>>
  /\ UNCHANGED <<problem, sweeps, read, heff>>

\* What a flip of var to s adds at the other end of a bond.
Change(k) == 2 * problem.bonds[k].j * spins[var]

\* flip: the change goes to the neighbours, one bond at a time.
Propagate ==
  /\ bond \in DOMAIN problem.bonds
  /\ heff' = IF Joins(problem, bond, var)
             THEN [heff EXCEPT ![OtherEnd(problem, bond, var)] = @ + Change(bond)]
             ELSE heff
  /\ bond' = bond + 1
  /\ UNCHANGED <<problem, sweeps, read, sweep, var, spins, walk>>

FlipDone ==
  /\ bond = Len(problem.bonds) + 1
  /\ bond' = 0
  /\ NextNode
  /\ UNCHANGED <<problem, sweeps, read, spins, heff, walk>>

ScalarStep == Visit \/ Propagate \/ FlipDone

\* One read.
ScalarInit ==
  /\ problem \in Problem /\ Qualifies(problem)
  /\ sweeps \in Nat
  /\ bond = 0
  /\ read \in Reads
  /\ sweep = 0
  /\ var = 0
  /\ spins \in States
  /\ heff = SeedFields(spins)
  /\ walk = spins

ScalarSpec == ScalarInit /\ [][ScalarStep]_<<problem, sweeps, bond, scalarVars>>

-----------------------------------------------------------------------------
ScalarTypeOK ==
  /\ read \in 0 .. NumReads
  /\ sweep \in 0 .. sweeps
  /\ var \in Nodes
  /\ spins \in States
  /\ heff \in [Nodes -> Int]
  /\ walk \in States

\* Between two attempts every cached field is the field, although it is only
\* ever updated: parallel bonds, signs and zero couplings included
\* (sa_int.rs 222-248).
FieldsAreExact ==
  bond = 0 => \A v \in Nodes : heff[v] = Field(problem, v, spins)

\* The read is the Metropolis walk of its thresholds, although it decides from
\* the cache (sa_int.rs 405-416).
ReadIsMetropolis == spins = walk

\* At every moment, in the middle of a flip too, a cached field is within the
\* reach of its node, so 8 bits hold it and it indexes the table of thresholds
\* (sa_int.rs 45-51).
FieldsInReach ==
  \A v \in Nodes : Abs(heff[v]) <= Reach(problem, v) /\ Abs(heff[v]) <= 127
=============================================================================
