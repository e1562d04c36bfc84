------------------------------ MODULE IntGraph ------------------------------
(***************************************************************************)
(* The integer view of an Ising problem (src/sa_int.rs, IntGraph) and the  *)
(* Metropolis step that both integer annealers promise to take.            *)
(*                                                                         *)
(* A problem has a field at every node and a list of bonds.  The row of a  *)
(* node is not stored: it is the bonds that join the node, in the order of *)
(* the list, as from_base lays them out.  Fractional and infinite fields   *)
(* disqualify a problem like couplings that are not units, and are left    *)
(* out.                                                                    *)
(***************************************************************************)
EXTENDS Integers, Sequences, FiniteSets

CONSTANTS
  NumNodes,
  Thresholds   \* the thresholds that may be drawn

VARIABLES
  problem,   \* the problem of the job
  sweeps,    \* how many sweeps it asks for, over all temperatures
  bond       \* the next bond of the row a kernel is walking, 0 when in none

ASSUME NumNodesAssumption == NumNodes \in Nat
ASSUME ThresholdsAssumption == Thresholds \subseteq Nat

Nodes == 0 .. NumNodes - 1
States == [Nodes -> {-1, 1}]

MaxFieldLimit == 100     \* MAX_FIELD

Bond == [u : Nat, v : Nat, j : Int]

\* The classes are those of Coloring.
Problem == [h : [Nodes -> Int], bonds : Seq(Bond), classes : Seq(Seq(Nodes))]

Abs(n) == IF n < 0 THEN -n ELSE n

\* Out of range bonds, self-loops and zero couplings are dropped.
Kept(p, k) ==
  LET b == p.bonds[k] IN b.u \in Nodes /\ b.v \in Nodes /\ b.u # b.v /\ b.j # 0

Joins(p, k, v) == Kept(p, k) /\ v \in {p.bonds[k].u, p.bonds[k].v}
OtherEnd(p, k, v) == IF p.bonds[k].u = v THEN p.bonds[k].v ELSE p.bonds[k].u
Row(p, v) == {k \in DOMAIN p.bonds : Joins(p, k, v)}
Degree(p, v) == Cardinality(Row(p, v))

\* The largest field that any state can reach at a node.
Reach(p, v) == Abs(p.h[v]) + Degree(p, v)

\* from_base returns a graph.
Qualifies(p) ==
  /\ NumNodes > 0
  /\ \A v \in Nodes : Abs(p.h[v]) <= MaxFieldLimit /\ Reach(p, v) <= MaxFieldLimit
  /\ \A k \in DOMAIN p.bonds : Kept(p, k) => p.bonds[k].j \in {-1, 1}

\* A threshold is at most max_field, the largest reach.
Drawable(p) == {m \in Thresholds : \E v \in Nodes : m <= Reach(p, v)}

-----------------------------------------------------------------------------
\* What a bond adds to the field of node v in state s.
Pull(p, k, v, s) == p.bonds[k].j * s[OtherEnd(p, k, v)]

Field(p, v, s) ==
  p.h[v] + Cardinality({k \in Row(p, v) : Pull(p, k, v, s) = 1})
         - Cardinality({k \in Row(p, v) : Pull(p, k, v, s) = -1})

\* One attempt to flip node v against the threshold m: a flip that costs 2n
\* is taken iff n <= m, and every flip that costs nothing is taken.
Accepts(p, v, s, m) == s[v] * Field(p, v, s) >= -m
Metropolis(p, v, s, m) ==
  IF Accepts(p, v, s, m) THEN [s EXCEPT ![v] = -s[v]] ELSE s
=============================================================================
