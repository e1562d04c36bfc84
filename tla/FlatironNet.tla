----------------------------- MODULE FlatironNet -----------------------------
(***************************************************************************)
(* The tensor network kernel on the graph itself (src/flatiron/graph.rs,   *)
(* state.rs, mod.rs): one tensor per node, one bond per coupled pair, and  *)
(* a two-site gate per bond that truncates that bond alone.  Of the        *)
(* tensors the bond dimensions are kept, at both ends of a bond.           *)
(***************************************************************************)
EXTENDS TrotterSchedule

VARIABLES
  network,   \* the bonds as <<u, v, j>>, u < v, ascending
  dims       \* dims[e][v]: the dimension of bond e at its end v

flatironVars == <<network, dims>>

-----------------------------------------------------------------------------
(* graph.rs                                                                *)

Pair(g, k) == {g.edges[k][1], g.edges[k][2]}
Together(g, p) == SumFunction([k \in {e \in Coupled(g) : Pair(g, e) = p} |-> Coupling(g, k)])

Ascending(ps) ==
  Sorted(ps, LAMBDA p, q : Min(p) < Min(q) \/ (Min(p) = Min(q) /\ Max(p) < Max(q)))

\* Faulty variant of Network: the first of parallel edges is the bond.
NetworkFirst(g) ==
  LET pairs == Ascending({Pair(g, k) : k \in Coupled(g)})
  IN  [i \in DOMAIN pairs |-> <<Min(pairs[i]), Max(pairs[i]),
         Coupling(g, Min({k \in Coupled(g) : Pair(g, k) = pairs[i]}))>>]

\* NetGraph::from_graph: parallel edges merge into their sum, and a sum of zero
\* is no bond.
Network(g) ==
  LET pairs == Ascending({p \in {Pair(g, k) : k \in Coupled(g)} : Together(g, p) # 0})
  IN  [i \in DOMAIN pairs |-> <<Min(pairs[i]), Max(pairs[i]), Together(g, pairs[i])>>]

BondsAt(net, v) == {e \in DOMAIN net : v \in {net[e][1], net[e][2]}}

-----------------------------------------------------------------------------
(* mod.rs                                                                  *)

Factoring(rows, cols) == FlopConst * rows * cols * AtMost(rows, cols)

\* select_chi: memory per tensor and one truncation per bond and step.
DegreeIn(net, v) == Cardinality(BondsAt(net, v))

\* The work of a truncation of bond e when every bond has dimension d.
FullFactoring(net, e, d) ==
  Factoring(2 * Power(d, DegreeIn(net, net[e][1]) - 1), 2 * Power(d, DegreeIn(net, net[e][2]) - 1))

FlatironChi(net, chiMax) ==
  IF net = <<>> THEN AtLeast(1, chiMax)
  ELSE Max({1} \cup {d \in 2 .. chiMax :
         /\ SumFunction([v \in Verts(job.graph) |-> 16 * Power(d, DegreeIn(net, v))]) <= MemoryCap
         /\ Steps * SumFunction([e \in DOMAIN net |-> FullFactoring(net, e, d)]) <= FlopBudget})

FlatPlus(net) == dims' = [e \in DOMAIN net |-> [v \in {net[e][1], net[e][2]} |-> 1]]

\* The rows of a tensor as a matrix with bond e as its columns.
Rows(v, e) ==
  2 * FoldFunction(LAMBDA x, y : x * y, 1, [f \in BondsAt(network, v) \ {e} |-> dims[f][v]])

\* The transverse field and the fields leave every dimension.
FlatironStart == StartStep(Steps) /\ UNCHANGED flatironVars

FlatironSkip == SkipStep(Steps) /\ UNCHANGED flatironVars

\* apply_zz on the next bond, in the order of the bonds.
FlatironGate ==
  /\ at.pc = "gates"
  /\ at.gate \in DOMAIN network
  /\ LET e == at.gate
         u == network[e][1]
         v == network[e][2]
     IN  /\ \E keep \in Kept(Rows(u, e), Rows(v, e), chi) :
              dims' = [dims EXCEPT ![e] = [w \in {u, v} |-> keep]]
         /\ cuts' = cuts + Factoring(Rows(u, e), Rows(v, e))
  /\ at' = [at EXCEPT !.gate = @ + 1]
  /\ UNCHANGED <<job, chi, network>>

FlatironEndStep ==
  /\ at.pc = "gates"
  /\ at.gate \notin DOMAIN network
  /\ NextStep
  /\ UNCHANGED flatironVars

\* All steps are walked, or the clock ran out before one.
FlatironAnnealed ==
  /\ at.pc = "step"
  /\ Goto("draw")
  /\ UNCHANGED <<job, chi, cuts, network, dims>>

FlatironEvolve ==
  FlatironStart \/ FlatironSkip \/ FlatironGate \/ FlatironEndStep \/ FlatironAnnealed

-----------------------------------------------------------------------------
NetEnergy(g, net, s) ==
  SumFunction([v \in Verts(g) |-> g.h[v] * s[v]])
    + SumFunction([e \in DOMAIN net |-> net[e][3] * s[net[e][1]] * s[net[e][2]]])
=============================================================================
