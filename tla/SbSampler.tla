------------------------------ MODULE SbSampler ------------------------------
(***************************************************************************)
(* SbSampler (src/sb_sampler.rs): a request runs on the kernel the sampler *)
(* was made for, on one core, beside a read that a pool of workers shares. *)
(***************************************************************************)
EXTENDS SbParallel, TabuSearch, ReplicaRing, GuidedSwarm

\* The pool moves the particles of the same problem.
ASSUME SamePool == M = NumParticles

sbSamplerVars == <<readVars, tabuVars, swarmVars>>

SamplerInit == ReadsInit /\ TabuInit /\ SwarmInit

SamplerNext ==
  \/ PlainNext /\ UNCHANGED <<tabuVars, swarmVars>>
  \/ TabuNext /\ UNCHANGED swarmVars
  \/ RingNext /\ UNCHANGED <<tabuVars, swarmVars>>
  \/ SwarmNext /\ UNCHANGED tabuVars

SbInit == Init /\ SamplerInit

SbNext ==
  \/ Next /\ UNCHANGED sbSamplerVars
  \/ SamplerNext /\ UNCHANGED sbVars

SbSpec == SbInit /\ [][SbNext]_<<sbVars, sbSamplerVars>>

-----------------------------------------------------------------------------
\* Whatever the positions are, the spins that are reported have the energy of
\* the particles, see SbKernel.
GaugeKeepsEnergy ==
  /\ GaugeKeepsEnergyOf(state)
  /\ \A q \in Members : GaugeKeepsEnergyOf(members[q])

\* The global sign of a trajectory is a convention: neither the repulsion from
\* stored columns nor the pull of a leader depends on it (sb_ggsb.rs 20-22,
\* sb_tesb.rs 187-188).  Without an ancilla there is no gauge to choose.
GaugeIsASymmetry == HasBias => TabuIsGaugeFree /\ SwarmIsGaugeFree
=============================================================================
