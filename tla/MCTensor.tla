------------------------------ MODULE MCTensor ------------------------------
\* Jobs of the tensor network backends, and networks to draw from.  The two
\* share no variable: networks are explored beside the job without nodes, jobs
\* beside one network.
EXTENDS TensorSampler, BeliefNet

MCGraph(n, edges, j) ==
  [h |-> [v \in 0 .. n - 1 |-> IF v = 1 THEN -1 ELSE v % 2], edges |-> edges, j |-> j]

MCGraphs == {
  MCGraph(4, <<<<2, 0>>, <<0, 3>>, <<3, 1>>>>, <<1, -2, 1>>),
  MCGraph(4, <<<<0, 1>>, <<1, 0>>, <<1, 1>>, <<1, 2>>, <<2, 3>>, <<3, 0>>, <<0, 7>>, <<0, 2>>>>,
          <<1, 1, 3, -1, 2, 1, 1>>),
  MCGraph(3, <<<<0, 1>>, <<1, 0>>, <<1, 2>>, <<0, 2>>>>, <<1, -1, 1, 1>>)}

MCSweeps == {[total |-> 1, perBeta |-> 1], [total |-> 3, perBeta |-> 2], [total |-> 6, perBeta |-> 1]}

\* Ladders of n rungs: rising, falling, rising by two.
MCLadders(n) ==
  {[i \in 1 .. n |-> i], [i \in 1 .. n |-> n + 1 - i], [i \in 1 .. n |-> 2 * i - 1]}

MCJob(kernel, graph, s, ladder, reads, init, cap) ==
  [kernel |-> kernel, graph |-> graph, sweeps |-> s.total, perBeta |-> s.perBeta,
   ladder |-> ladder, reads |-> reads, init |-> init, chiMax |-> cap]

MCParked == MCJob("mps", MCGraph(0, <<>>, <<>>), [total |-> 2, perBeta |-> 1], <<1, 2>>, 2, "Anneal", 2)

MCJobs ==
  {MCParked, MCJob("mps", CHOOSE g \in MCGraphs : Size(g) = 3, [total |-> 2, perBeta |-> 1],
                   <<1, 2>>, 2, "Random", 2)}
  \cup UNION {{MCJob(k, g, s, l, 1, "Anneal", c) :
                 k \in {"mps", "flatiron"}, g \in MCGraphs,
                 l \in MCLadders(NumBetas(AtMost(s.total, MaxTrotterSteps), s.perBeta)),
                 c \in 1 .. 3} : s \in MCSweeps}

-----------------------------------------------------------------------------
MCIndices(es, ds) == {i \in [es -> 1 .. 2] : \A e \in es : i[e] <= ds[e]}

\* Any numbers will do for a tensor, as long as they differ.
MCEntry(a, b, v, s, i) ==
  LET x == (a * (v + 1) + b * s) % 3
      t == SumSet({e * i[e] : e \in DOMAIN i})
  IN  IF DOMAIN i = {} THEN x + 1 ELSE ((t * t + x * t + s + v) % 3) - 1

MCNet(n, bonds, ds, Tensor(_, _, _)) ==
  [nodes |-> n, bonds |-> bonds, dims |-> ds,
   tensor |-> [v \in 0 .. n - 1 |-> [s \in {0, 1} |->
     LET es == {e \in DOMAIN bonds : v \in {bonds[e][1], bonds[e][2]}}
     IN  [i \in MCIndices(es, ds) |-> Tensor(v, s, i)]]]]

MCShapes == {
  [n |-> 3, bonds |-> <<<<0, 1>>, <<1, 2>>>>, dims |-> <<2, 2>>],
  [n |-> 3, bonds |-> <<<<0, 2>>, <<1, 2>>>>, dims |-> <<2, 2>>],
  [n |-> 4, bonds |-> <<<<0, 1>>, <<0, 2>>, <<2, 3>>>>, dims |-> <<2, 1, 2>>],
  [n |-> 3, bonds |-> <<<<0, 1>>, <<0, 2>>, <<1, 2>>>>, dims |-> <<2, 2, 2>>]}

MCNets == UNION {{MCNet(sh.n, sh.bonds, sh.dims, LAMBDA v, s, i : MCEntry(a, b, v, s, i)) :
                    sh \in MCShapes} : a \in 1 .. 2, b \in 1 .. 3}

MCQuiet == MCNet(3, <<<<0, 1>>, <<1, 2>>>>, <<2, 2>>, LAMBDA v, s, i : MCEntry(1, 1, v, s, i))

MCQuietly == {MCQuiet}

MCInit == TensorInit /\ BeliefInit /\ (job = MCParked \/ net = MCQuiet)

MCNext ==
  \/ net = MCQuiet /\ bp = Start /\ TensorNext /\ UNCHANGED beliefVars
  \/ job = MCParked /\ at.pc = "idle" /\ BeliefNext /\ UNCHANGED tensorVars

MCSpec == MCInit /\ [][MCNext]_<<tensorVars, beliefVars>>

-----------------------------------------------------------------------------
\* Ten nodes in a row with couplings that grow, from the tail a spin is turned.
MCTail ==
  {MCJob("mps", [h |-> [v \in 0 .. 9 |-> 0], edges |-> [k \in 1 .. 9 |-> <<k - 1, k>>],
                 j |-> [k \in 1 .. 9 |-> -k]],
         [total |-> 64, perBeta |-> 1], <<1>>, 1, "Random", 1)}
=============================================================================
