---------------------------- MODULE MCSbParallel ----------------------------
\* Three nodes with biases, so four particles with the ancilla: three workers
\* own two, two and no particles.  One edge is a self-loop and one is out of
\* range, and the last coupling is missing.  Heating and control are both on
\* in the parallel run; once the run from one of its starts is over, each
\* kernel of the sampler answers its requests, on one core.
EXTENDS SbSampler

MCEdges == <<<<0, 1>>, <<1, 1>>, <<2, 1>>, <<0, 7>>, <<0, 2>>>>
MCCouplings == <<-1, 3, 2, 1>>
MCBiases == [v \in 0 .. 2 |-> v - 1]

MCVariant == [coupling |-> "Discrete", heated |-> TRUE, controlled |-> TRUE]
NumSteps == 2

MCStarts ==
  {[i \in Particles |-> [x |-> <<1, -1, a, b>>[i + 1], y |-> (i % 2) - a, pre |-> 0, p |-> 1]] :
     a, b \in {-1, 0, 1}}
MCCouple(s) == CoupledValue(MCVariant, s)
MCPrepare(k, s) == PrepareParticle(MCVariant, NumSteps, k, s)
MCMove(k, i, s, terms) == MoveParticle(MCVariant, NumSteps, k, ForceOn(i, terms), s)

-----------------------------------------------------------------------------
dSB == [coupling |-> "Discrete", heated |-> FALSE, controlled |-> FALSE]
hbSB == [coupling |-> "Continuous", heated |-> TRUE, controlled |-> FALSE]
gbSB == [coupling |-> "Continuous", heated |-> FALSE, controlled |-> TRUE]

MCSbRequests ==
  {[kernel |-> "Plain", variant |-> hbSB, reads |-> 2, sweeps |-> 3],
   [kernel |-> "Plain", variant |-> gbSB, reads |-> 0, sweeps |-> 0],
   \* two steps of warm-up, two of checking
   [kernel |-> "Tabu", variant |-> hbSB, reads |-> 2, sweeps |-> 4,
    alpha |-> 5, beta |-> 1, batch |-> 2, replicas |-> 2],
   \* no step is left for the warm-up
   [kernel |-> "Tabu", variant |-> dSB, reads |-> 1, sweeps |-> 4,
    alpha |-> 9, beta |-> 1, batch |-> 0, replicas |-> 2],
   [kernel |-> "Tabu", variant |-> gbSB, reads |-> 1, sweeps |-> 3,
    alpha |-> 0, beta |-> 0, batch |-> 1, replicas |-> 1],
   \* rings of three and two replicas, and of one
   [kernel |-> "Ring", variant |-> dSB, reads |-> 5, sweeps |-> 3, replicas |-> 3],
   [kernel |-> "Ring", variant |-> dSB, reads |-> 2, sweeps |-> 2, replicas |-> 0],
   [kernel |-> "Swarm", variant |-> dSB, reads |-> 2, sweeps |-> 2],
   [kernel |-> "Swarm", variant |-> hbSB, reads |-> 3, sweeps |-> 1]}

\* Initial conditions of both gauges, far from zero but of a higher energy than
\* the last, which has a particle and the ancilla at zero.
MCDrawn ==
  {[i \in AllParticles |-> [x |-> <<1, -2, 2, a>>[i + 1], y |-> b - (i % 2)]] :
     a \in {-1, 1}, b \in {0, 2}}
  \cup {[i \in AllParticles |-> [x |-> <<1, 0, -1, 0>>[i + 1], y |-> 0]]}

\* The run of the first start, to its end.
OneRun ==
  LET s == CHOOSE s \in Starts : \A i \in Particles : s[i].x # 0
  IN  SequentialStep(1, SequentialStep(0, s))

MCNext ==
  \/ Next /\ UNCHANGED sbSamplerVars
  \/ RunDone /\ state = OneRun /\ SamplerNext /\ UNCHANGED sbVars

MCSpec == SbInit /\ [][MCNext]_<<sbVars, sbSamplerVars>>
=============================================================================
