--------------------------- MODULE MCBeforeKernel ---------------------------
\* What happens before an annealing kernel runs: the colouring of every small
\* graph, the slot that colourings are kept in, and every research request
\* with at most two defects, with one real model on six lanes.  The three
\* share no variable, so each is explored beside one state of the others.
EXTENDS Coloring, ColoringCache, Research

MCTopologies ==
  {[nodes |-> 3, edges |-> <<<<0, 1>>, <<1, 2>>>>],
   [nodes |-> 2, edges |-> <<<<0, 1>>, <<1, 2>>>>],
   [nodes |-> 3, edges |-> <<<<0, 1>>, <<0, 2>>>>]}

MCDefects ==
  {"no nodes", "too many nodes", "too many edges", "reads out of range",
   "output over the cap", "workspace over the cap", "edges are not pairs",
   "coupling count", "endpoint out of range", "no sweeps", "beta not positive",
   "betas reversed", "not finite", "self-loop", "repeated edge", "subnormal",
   "coefficient sum", "seed length", "seed value", "more seeds than reads"}

\* A model with a defect of its coefficients is no integer model.
MCRequests ==
  {r \in [method : {"research", "sample"},
          kernel : Kernels \cup {"cuda-sa"},
          defects : {{a, b} : a, b \in MCDefects} \cup {{}},
          fit : {"packed", "integer", "real"},
          given : BOOLEAN, rows : 0 .. 2,
          start : {"none", "ok", "not positive", "over the cap"}] :
     /\ r.rows > 0 => r.given
     /\ r.defects \cap {"subnormal", "coefficient sum", "not finite"} # {} => r.fit = "real"
     /\ r.method = "sample" => r.kernel = "cpu-msa"}

MCPlain ==
  [method |-> "research", kernel |-> "cpu-sa", defects |-> {}, fit |-> "real",
   given |-> FALSE, rows |-> 0, start |-> "none"]

MCBond(u, v, j) == [u |-> u, v |-> v, j |-> j]
MCModels ==
  {[h |-> [v \in 0 .. 2 |-> <<2, -1, 0>>[v + 1]],
    bonds |-> <<MCBond(0, 1, 3), MCBond(1, 2, -2)>>,
    classes |-> <<<<1>>, <<0, 2>>>>]}

MCStream(a, b) == [i \in 1 .. 24 |-> ((i * a) % 5) * b]
MCStreams == {MCStream(1, 2), MCStream(2, 3), MCStream(3, 0)}

MCWords == {[v \in 0 .. 2 |-> IF v = 1 THEN {0} ELSE {0, 1}], [v \in 0 .. 2 |-> {}]}
MCSeedRows == <<[v \in 0 .. 2 |-> -1], [v \in 0 .. 2 |-> IF v = 1 THEN 1 ELSE -1]>>

\* The graph without edges, and the request without a defect.
Bare == copies = [e \in Edges |-> 0] /\ color = [v \in Nodes |-> Uncolored]
Unsent == stage = 1 /\ request = MCPlain
Unused == \A w \in Threads : worker[w].jobs = 0

Spent == \A w \in Threads : worker[w].pc = "idle" /\ worker[w].jobs = MaxJobs

MCInit ==
  /\ CacheInit
  /\ \/ request = MCPlain /\ Init /\ ResearchInit
     \/ Bare /\ Init /\ ResearchInit

allVars == <<vars, cacheVars, researchVars, floatVars>>

MCNext ==
  \/ Unused /\ Unsent /\ Next /\ UNCHANGED <<cacheVars, researchVars, floatVars>>
  \/ Bare /\ Unsent /\ CacheNext /\ UNCHANGED <<vars, researchVars, floatVars>>
  \/ Bare /\ Unused /\ ResearchNext /\ UNCHANGED <<vars, cacheVars>>
  \/ Spent /\ UNCHANGED allVars

MCSpec == MCInit /\ [][MCNext]_allVars
=============================================================================
