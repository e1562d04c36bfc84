------------------------------ MODULE MpsChain ------------------------------
(***************************************************************************)
(* The matrix product state kernel (src/mps): the nodes are laid on a      *)
(* chain by reverse Cuthill-McKee, the couplings become gates sorted by    *)
(* span, and the state is evolved with bonds that the budgets bound.  Of   *)
(* the state itself the bond dimensions are kept and, per site, what its   *)
(* tensor is known to be.                                                  *)
(***************************************************************************)
EXTENDS TrotterSchedule

VARIABLES
  chain,   \* order, and the gates as <<low slot, high slot, coupling>>
  bond,    \* the bond dimensions, one more than sites
  form     \* "right" or "left" isometry, "unit" norm, per site

mpsVars == <<chain, bond, form>>

-----------------------------------------------------------------------------
(* order.rs                                                                *)

Near(g, v) == {Across(g, k, v) : k \in Incident(g, v)}

ByDegree(g, S) ==
  Sorted(S, LAMBDA a, b :
    LET da == Cardinality(Near(g, a))
        db == Cardinality(Near(g, b))
    IN  da < db \/ (da = db /\ a < b))

\* A breadth first walk: out is the queue, and head what it has expanded.
Walk(g, w) ==
  LET fresh == Verts(g) \ ToSet(w.out) IN
  IF w.head <= Len(w.out)
  THEN [out |-> w.out \o ByDegree(g, Near(g, w.out[w.head]) \ ToSet(w.out)), head |-> w.head + 1]
  ELSE IF fresh # {} THEN [out |-> Append(w.out, ByDegree(g, fresh)[1]), head |-> w.head] ELSE w

\* A step expands a node or begins a component.
Breadth(g) ==
  LET walk[k \in 0 .. 2 * Size(g)] ==
        IF k = 0 THEN [out |-> <<>>, head |-> 1] ELSE Walk(g, walk[k - 1])
  IN  walk[2 * Size(g)].out

\* reverse_cuthill_mckee: the node at every slot 0, 1, ...
Order(g) == LET s == Reverse(Breadth(g)) IN [k \in Verts(g) |-> s[k + 1]]

\* from_graph: the edges that couple, short spans first, duplicates kept.
Slot(g, order, v) == CHOOSE k \in Verts(g) : order[k] = v

GateOf(g, order, k) ==
  LET a == Slot(g, order, g.edges[k][1])
      b == Slot(g, order, g.edges[k][2])
  IN  <<AtMost(a, b), AtLeast(a, b), Coupling(g, k)>>

\* Whether edge k comes before edge l: by span, slots, and place in the list.
EarlierGate(g, order, k, l) ==
  LET a == GateOf(g, order, k)
      b == GateOf(g, order, l) IN
  \/ a[2] - a[1] < b[2] - b[1]
  \/ a[2] - a[1] = b[2] - b[1] /\ a[1] < b[1]
  \/ a[2] - a[1] = b[2] - b[1] /\ a[1] = b[1] /\ k < l

Gates(g, order) ==
  LET sorted == Sorted(Coupled(g), LAMBDA k, l : EarlierGate(g, order, k, l))
  IN  [i \in DOMAIN sorted |-> GateOf(g, order, sorted[i])]

Chain(g) == [order |-> Order(g), gates |-> Gates(g, Order(g))]

SpanSum(c) == SumFunction([i \in DOMAIN c.gates |-> c.gates[i][2] - c.gates[i][1]])

-----------------------------------------------------------------------------
(* The budgets of mod.rs.                                                  *)

\* select_chi
MpsChi(c, chiMax) ==
  Max({1} \cup {d \in 1 .. chiMax :
    /\ 16 * Size(job.graph) * d * d <= MemoryCap
    /\ FlopConst * Steps * SpanSum(c) * d * d * d <= FlopBudget})

\* Faulty variant of Walked: the work of a step is that of a product state.
WalkedAtOne ==
  Max({1} \cup {k \in 1 .. Steps : k * FlopConst * SpanSum(chain) <= WorkBudget})

\* select_steps: how many steps of the schedule are walked.
Walked ==
  Max({1} \cup {k \in 1 .. Steps :
    k * FlopConst * SpanSum(chain) * chi * chi * chi <= WorkBudget})

-----------------------------------------------------------------------------
(* state.rs                                                                *)

Slots == DOMAIN form
LastSlot == Size(job.graph) - 1

PlusState(n) ==
  /\ bond' = [k \in 0 .. n |-> 1]
  /\ form' = [k \in 0 .. n - 1 |-> "unit"]

\* apply_transverse, then apply_field on every slot.
Layer ==
  form' = [k \in Slots |->
    IF HasTransverse(at.step) \/ job.graph.h[chain.order[k]] # 0 THEN "unit" ELSE form[k]]

\* apply_zz_product: no bond changes.
Product(u, v) ==
  /\ form' = [form EXCEPT ![u] = "unit", ![v] = "unit"]
  /\ UNCHANGED bond

\* The zip-up: every site from u on hands a truncated carry to the next, and v
\* closes the channel.
ZipUp(u, v) ==
  \E nb \in [u + 1 .. v -> 1 .. chi] :
    /\ nb[u + 1] \in Kept(2 * bond[u], 2 * bond[u + 1], chi)
    /\ \A k \in u + 2 .. v : nb[k] \in Kept(2 * nb[k - 1], 2 * bond[k], chi)
    /\ bond' = [k \in DOMAIN bond |-> IF k \in u + 1 .. v THEN nb[k] ELSE bond[k]]
    /\ form' = [k \in Slots |-> IF k \in u .. v - 1 THEN "left"
                                ELSE IF k = v THEN "unit" ELSE form[k]]

\* apply_zz
ApplyZz(u, v) ==
  IF chi = 1 /\ \A k \in DOMAIN bond : bond[k] = 1 THEN Product(u, v) ELSE ZipUp(u, v)

\* Faulty variant of RightCanonicalize: the sweep stops one site early.
RightCanonicalizeShort ==
  \E nb \in [DOMAIN bond -> 1 .. AtLeast(1, chi)] :
    /\ \A k \in DOMAIN bond : IF k \in 2 .. LastSlot THEN nb[k] \in Kept(2 * nb[k + 1], bond[k], chi)
                                                 ELSE nb[k] = bond[k]
    /\ bond' = nb
    /\ form' = [k \in Slots |-> IF k > 1 THEN "right" ELSE "unit"]

\* right_canonicalize: from the last site down to the second.
RightCanonicalize ==
  \E nb \in [DOMAIN bond -> 1 .. AtLeast(1, chi)] :
    /\ \A k \in DOMAIN bond : IF k \in 1 .. LastSlot THEN nb[k] \in Kept(2 * nb[k + 1], bond[k], chi)
                                                 ELSE nb[k] = bond[k]
    /\ bond' = nb
    /\ form' = [k \in Slots |-> IF k > 0 THEN "right" ELSE "unit"]

-----------------------------------------------------------------------------
(* anneal                                                                  *)

MpsStart == StartStep(Walked) /\ Layer /\ UNCHANGED <<chain, bond>>

MpsSkip == SkipStep(Walked) /\ UNCHANGED mpsVars

MpsGate ==
  /\ at.pc = "gates"
  /\ at.gate \in DOMAIN chain.gates
  /\ LET gate == chain.gates[at.gate] IN
     /\ ApplyZz(gate[1], gate[2])
     /\ cuts' = cuts + FlopConst * (gate[2] - gate[1]) * chi * chi * chi
  /\ at' = [at EXCEPT !.gate = @ + 1]
  /\ UNCHANGED <<job, chi, chain>>

\* The second half of a step: the transverse field, then the canonical form.
MpsEndStep ==
  /\ at.pc = "gates"
  /\ at.gate \notin DOMAIN chain.gates
  /\ RightCanonicalize
  /\ NextStep
  /\ UNCHANGED chain

\* All steps are walked, or the clock ran out before one; the state is canonical
\* once more before it is sampled.
MpsAnnealed ==
  /\ at.pc = "step"
  /\ RightCanonicalize
  /\ Goto("draw")
  /\ UNCHANGED <<job, chi, cuts, chain>>

MpsEvolve == MpsStart \/ MpsSkip \/ MpsGate \/ MpsEndStep \/ MpsAnnealed

\* sample_one and the walk over order: the spin of slot k is that of its node.
Unchained(slots) ==
  [v \in Verts(job.graph) |-> slots[Slot(job.graph, chain.order, v)]]

-----------------------------------------------------------------------------
\* The energy of a configuration on the chain, by gates and fields.
ChainEnergy(g, c, s) ==
  SumFunction([k \in Verts(g) |-> g.h[c.order[k]] * s[k]])
    + SumFunction([i \in DOMAIN c.gates |-> c.gates[i][3] * s[c.gates[i][1]] * s[c.gates[i][2]]])

\* A state that is sampled is right canonical, which makes the partial norm the
\* marginal (mps/state.rs 150-153), and no bond is larger than the smaller side
\* of its cut or than the budgets allow, whatever the truncations kept.
SampledStateIsCanonical ==
  at.pc = "draw" /\ job.kernel = "mps" /\ job.init = "Anneal" =>
    /\ \A k \in Slots \ {0} : form[k] = "right"
    /\ \A k \in DOMAIN bond : bond[k] <= AtMost(chi, AtMost(Power(2, k), Power(2, LastSlot + 1 - k)))
=============================================================================
