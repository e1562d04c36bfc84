---------------------------- MODULE TensorSampler ----------------------------
(***************************************************************************)
(* A job of a tensor network backend from its parameters to its results    *)
(* (sample_ising_mps, sample_ising_flatiron, and the samplers mps,  mfa    *)
(* and flatiron that run them on the stream pump): split the sweeps, lay   *)
(* out the problem, evolve, then read by read draw, polish and score.      *)
(***************************************************************************)
EXTENDS MpsChain, FlatironNet

CONSTANT Jobs   \* the jobs considered

\* Nodes are numbered from 0.  Edges may name any nodes, and there may be fewer
\* couplings than edges, or more.
ASSUME TensorJobsAssumption ==
  \A j \in Jobs :
    /\ j.kernel \in {"mps", "flatiron"} /\ j.init \in {"Anneal", "Random"}
    /\ j.sweeps \in Nat /\ j.reads \in Nat /\ j.chiMax \in Nat
    /\ IsFiniteSet(Verts(j.graph)) /\ Verts(j.graph) = 0 .. Size(j.graph) - 1
    /\ j.graph.h \in [Verts(j.graph) -> Int]
    /\ j.graph.edges \in Seq(Nat \X Nat) /\ j.graph.j \in Seq(Int)

VARIABLES
  descent,   \* the polish of the read
  results    \* the scored reads

tensorVars == <<job, at, chi, cuts, chain, bond, form, network, dims, descent, results>>

idle == UNCHANGED <<descent, results>>

TensorInit ==
  /\ job \in Jobs
  /\ at = Rest
  /\ chi = 1
  /\ cuts = 0
  /\ chain = [order |-> <<>>, gates |-> <<>>]
  /\ bond = <<>>
  /\ form = <<>>
  /\ network = <<>>
  /\ dims = <<>>
  /\ descent = Descent(job.graph, [v \in Verts(job.graph) |-> 1], 0)
  /\ results = <<>>

Result(s) == [spins |-> s, energy |-> Score(job.graph, s)]

\* A problem without nodes is answered at once.
EmptyJob ==
  /\ at.pc = "idle"
  /\ Size(job.graph) = 0
  /\ results' = [r \in 1 .. AtLeast(1, job.reads) |-> Result(<<>>)]
  /\ Goto("done")
  /\ UNCHANGED <<job, chi, cuts, chain, bond, form, network, dims, descent>>

\* Chain, bond dimension and plus state; the random arm skips the anneal.
BeginMps ==
  /\ at.pc = "idle"
  /\ job.kernel = "mps"
  /\ Size(job.graph) > 0
  /\ chain' = Chain(job.graph)
  /\ chi' = MpsChi(chain', job.chiMax)
  /\ PlusState(Size(job.graph))
  /\ Goto(IF job.init = "Random" THEN "draw" ELSE "step")
  /\ UNCHANGED <<job, cuts, network, dims>>
  /\ idle

BeginFlatiron ==
  /\ at.pc = "idle"
  /\ job.kernel = "flatiron"
  /\ Size(job.graph) > 0
  /\ network' = Network(job.graph)
  /\ chi' = FlatironChi(network', job.chiMax)
  /\ FlatPlus(network')
  /\ Goto("step")
  /\ UNCHANGED <<job, cuts, chain, bond, form>>
  /\ idle

Evolve ==
  \/ job.kernel = "mps" /\ MpsEvolve /\ UNCHANGED flatironVars /\ idle
  \/ job.kernel = "flatiron" /\ FlatironEvolve /\ UNCHANGED mpsVars /\ idle

\* Any configuration may be drawn.  A chain is read back in the order of nodes.
DrawRead ==
  /\ at.pc = "draw"
  /\ \E s \in Configs(job.graph) :
       descent' = Descent(job.graph,
         IF job.kernel = "mps" /\ job.init = "Anneal" THEN Unchained(s) ELSE s, PolishSweeps)
  /\ Goto("polish")
  /\ UNCHANGED <<job, chi, cuts, chain, bond, form, network, dims, results>>

PolishRead ==
  /\ at.pc = "polish"
  /\ ~Landed(descent)
  /\ descent' = PolishPass(job.graph, descent)
  /\ UNCHANGED <<job, at, chi, cuts, chain, bond, form, network, dims, results>>

ScoreRead ==
  /\ at.pc = "polish"
  /\ Landed(descent)
  /\ results' = Append(results, Result(descent.spins))
  /\ Goto(IF Len(results') < AtLeast(1, job.reads) THEN "draw" ELSE "done")
  /\ UNCHANGED <<job, chi, cuts, chain, bond, form, network, dims, descent>>

TensorDone == at.pc = "done" /\ UNCHANGED tensorVars

TensorNext ==
  \/ EmptyJob \/ BeginMps \/ BeginFlatiron \/ Evolve
  \/ DrawRead \/ PolishRead \/ ScoreRead \/ TensorDone

TensorSpec == TensorInit /\ [][TensorNext]_tensorVars

-----------------------------------------------------------------------------
Annealed == at.pc = "draw" /\ results = <<>>

\* What is evolved is the problem that is scored: for every configuration, the
\* gates on the chain and the merged bonds of the network give the energy of
\* the received edges, self-loops aside, with loops, parallel edges, missing
\* couplings and edges out of range (mps/order.rs 97-103, flatiron/graph.rs
\* 12-14 and 27-31).
EvolutionIsTheProblem ==
  Annealed => \A s \in Configs(job.graph) :
    LET g == job.graph
        loops == SumFunction([k \in {e \in DOMAIN g.edges : Inside(g, e) /\ ~Linked(g, e)} |->
                                Coupling(g, k)])
    IN  IF job.kernel = "mps"
        THEN ChainEnergy(g, chain, s) + loops = Score(g, Unchained(s))
        ELSE NetEnergy(g, network, s) + loops = Score(g, s)

\* The gates of a whole anneal cost no more than the budget the bond dimension
\* or the number of steps was chosen by, unless one step of a product state is
\* already more (mps/mod.rs 159-167, flatiron/mod.rs 82-85).
WorkFitsTheBudget ==
  Annealed =>
    IF job.kernel = "mps" THEN cuts <= WorkBudget \/ at.step <= 1
                          ELSE cuts <= FlopBudget \/ chi = 1

\* A read is polished from what was drawn: a descent that stopped before its
\* last pass stopped at a local minimum, the cached fields having never drifted
\* from the spins (sampler_core.rs 301-308).
PolishEndsDownhill ==
  at.pc = "polish" =>
    /\ \A v \in Verts(job.graph) : descent.heff[v] = EffectiveField(job.graph, v, descent.spins)
    /\ ~descent.moved =>
         \A v \in Verts(job.graph) :
           Score(job.graph, [descent.spins EXCEPT ![v] = -@]) >= Score(job.graph, descent.spins)

\* However many spins a pass flips, one by one and each by its cached field, it
\* lowers the score that is returned, and one that reports no move made none: a
\* polish cannot cycle (sampler_core.rs 309-331).
PassesGoDownhill ==
  [][PolishRead =>
       IF descent'.moved
       THEN Score(job.graph, descent'.spins) < Score(job.graph, descent.spins)
       ELSE descent'.spins = descent.spins]_tensorVars

\* What the comment of polish_from says, "this is the stage that guarantees each
\* returned configuration is at least locally optimal" (sampler_core.rs 308).
ReturnedIsLocallyOptimal ==
  \A r \in DOMAIN results : \A v \in Verts(job.graph) :
    Score(job.graph, [results[r].spins EXCEPT ![v] = -@]) >= results[r].energy
=============================================================================
