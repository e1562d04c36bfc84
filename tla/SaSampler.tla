----------------------------- MODULE SaSampler -----------------------------
(***************************************************************************)
(* One job of the SA sampler (src/sa_sampler.rs): the problem is converted,*)
(* the sampler picks the packed kernel, the scalar integer kernel or the   *)
(* ordinary one, the reads start from seeds or from random states, and     *)
(* every read is scored.  The ordinary kernel cannot start from a state.   *)
(* A job of the plain SA backend goes to the ordinary kernel at once.      *)
(***************************************************************************)
EXTENDS PackedAnneal, OrdinaryAnneal, SequencesExt

CONSTANTS
  Jobs,          \* the jobs considered
  RandomWords,   \* the random spin words considered
  TableRungs     \* how many temperatures the threshold table holds

Entries == {"sample", "stream", "seeded"}
Variants == {"Plain", "Tabulated", "MultiSpin"}

\* Without nodes the samplers return before any kernel.  Only SaSampler takes
\* seeds, so no job of the plain backend has any.
ASSUME JobsAssumption ==
  /\ NumNodes > 0
  /\ \A j \in Jobs :
       /\ j.problem \in Problem
       /\ j.problem.classes # <<>>
       /\ \A c \in DOMAIN j.problem.classes : j.problem.classes[c] # <<>>
       /\ j.entry \in Entries /\ j.variant \in Variants
       /\ j.total \in Nat /\ j.perBeta \in Nat
       /\ j.seeds \in Seq({j.seeds[i] : i \in DOMAIN j.seeds})
       /\ j.entry # "seeded" => j.seeds = <<>>
       /\ j.entry = "seeded" => j.variant # "Plain"

ASSUME RandomAssumption == RandomWords \subseteq [Nodes -> SUBSET Lanes]

\* num_reads.div_ceil(LANES)
ASSUME WordsFitReads == NumWords = (NumReads + NumLanes - 1) \div NumLanes

VARIABLES
  job,       \* what was asked for
  arm,       \* the kernel that runs, or how the job ended
  results,   \* the reads that were scored
  walks      \* history: the Metropolis walks of the reads that were scored

jobVars == <<job, arm, results, walks>>
saVars == <<problem, sweeps, bond, packedVars, scalarVars, ordinaryVars, jobVars>>

Ended == {"done", "refused", "cancelled"}

-----------------------------------------------------------------------------
(* Choosing a kernel.                                                      *)

\* The seeded ladder enters the range part of the way up.
Ladder ==
  IF job.entry = "seeded" THEN SeededLadder(job.range, job.start, job.total, job.perBeta)
                          ELSE ColdLadder(job.range, job.total, job.perBeta)

\* threshold_table_fits
TableFits == Ladder.rungs <= TableRungs

\* bond_counts is only asked for the multi-spin variant.
UsesWords == job.variant = "MultiSpin" /\ Packs(problem)

\* Faulty variant of Refuses: the tabulated kernel of a multi-spin job is
\* forgotten.
RefusesTabulated ==
  \/ \E i \in DOMAIN job.seeds : job.seeds[i] \notin States
  \/ ~Qualifies(problem)
  \/ job.variant = "Tabulated" /\ ~TableFits

\* sample_seeded: a seed that fits no read, or a job that would end in the
\* ordinary kernel.
Refuses ==
  \/ \E i \in DOMAIN job.seeds : job.seeds[i] \notin States
  \/ ~Qualifies(problem)
  \/ ~UsesWords /\ ~TableFits

Arm ==
  IF job.entry = "seeded" /\ Refuses THEN "refused"
  ELSE IF job.variant = "Plain" \/ ~Qualifies(problem) THEN "cold"
  ELSE IF UsesWords THEN "packed"
  ELSE IF TableFits THEN "scalar"
  ELSE "cold"

\* The members first .. last of s, as far as there are any.
Part(s, first, last) == SubSeq(s, first, IF last < Len(s) THEN last ELSE Len(s))

\* A seed past the last read has no read.
Seeds == Part(job.seeds, 1, NumReads)

\* The state read r starts from, when its random one is s.
StartOf(r, s) == IF r < Len(Seeds) THEN Seeds[r + 1] ELSE s

\* Faulty variant of SeededWord: every word takes the seeds of the first.
SeededWordFirst(w, draw) ==
  LET mine == Part(Seeds, 1, NumLanes) IN
  [v \in Nodes |-> {l \in Lanes :
     IF l < Len(mine) THEN mine[l + 1][v] < 0 ELSE l \in draw[v]}]

\* MscState::seeded, with the word's share of the seeds; the other lanes keep
\* the random draw.
SeededWord(w, draw) ==
  LET mine == Part(Seeds, w * NumLanes + 1, (w + 1) * NumLanes) IN
  [v \in Nodes |-> {l \in Lanes :
     IF l < Len(mine) THEN mine[l + 1][v] < 0 ELSE l \in draw[v]}]

StartPacked ==
  /\ arm = "choose"
  /\ Arm = "packed"
  /\ arm' = "packed"
  /\ \E draw \in [Words -> RandomWords] :
       /\ spin' = [w \in Words |-> SeededWord(w, draw[w])]
       /\ ref' = [w \in Words |-> [l \in Lanes |->
                    StartOf(w * NumLanes + l, LaneState(draw[w], l))]]
  /\ UNCHANGED <<problem, sweeps, bond, turn, countVars, scalarVars, ordinaryVars,
                 job, results, walks>>

\* score_word: the sign of a bond is the exclusive or of two bits.
ScoreWord(w, l) ==
  LET Signed(c, down) == IF down THEN -c ELSE c
      Differ(b) == (l \in spin[w][b.u]) # (l \in spin[w][b.v])
  IN  SumFunction([v \in Nodes |-> Signed(problem.h[v], l \in spin[w][v])])
        + SumFunction([k \in Scored(problem) |->
                         Signed(problem.bonds[k].j, Differ(problem.bonds[k]))])

Result(s, e) == [spins |-> s, energy |-> e]

EndPacked ==
  /\ arm = "packed"
  /\ PackedDone
  /\ bond = 0
  /\ arm' = "done"
  /\ LET WordReads(w) == IF NumLanes < NumReads - w * NumLanes
                         THEN NumLanes ELSE NumReads - w * NumLanes
         Score(w) == [l \in 1 .. WordReads(w) |->
                       Result(LaneState(spin[w], l - 1), ScoreWord(w, l - 1))]
     IN  results' = FlattenSeq([w \in 1 .. NumWords |-> Score(w - 1)])
  /\ walks' = [r \in 1 .. NumReads |-> ref[(r - 1) \div NumLanes][(r - 1) % NumLanes]]
  /\ UNCHANGED <<problem, sweeps, bond, packedVars, scalarVars, ordinaryVars, job>>

-----------------------------------------------------------------------------
(* The scalar kernel, read by read.                                        *)

RandomStates == {LaneState(draw, l) : draw \in RandomWords, l \in Lanes}

\* The random state is drawn for a seeded read, too.
EnterRead(r) == \E s \in RandomStates : StartRead(StartOf(r, s))

EnterScalar ==
  /\ arm = "choose"
  /\ Arm = "scalar"
  /\ arm' = "scalar"
  /\ EnterRead(0)
  /\ UNCHANGED <<problem, sweeps, bond, packedVars, read, ordinaryVars, job, results, walks>>

\* sample_sa_scalar
EnterOrdinary ==
  /\ arm = "choose"
  /\ Arm = "cold"
  /\ arm' = "cold"
  /\ kernel' = KernelFor(problem, Ladder.rungs)
  /\ \E s \in RandomStates : EnterOrdinaryRead(s, kernel')
  /\ UNCHANGED <<problem, sweeps, bond, packedVars, read, job, results, walks>>

\* The next read, on the same kernel.
NextRead ==
  IF arm = "scalar" THEN EnterRead(read + 1) /\ UNCHANGED <<accepts, drawn>>
                    ELSE \E s \in RandomStates : EnterOrdinaryRead(s, kernel)

EndRead ==
  /\ arm \in {"scalar", "cold"}
  /\ SweepsDone
  /\ results' = Append(results, Result(spins, Energy(problem, spins)))
  /\ walks' = Append(walks, walk)
  /\ read' = read + 1
  /\ IF read + 1 < NumReads
     THEN NextRead /\ arm' = arm
     ELSE arm' = "done" /\ UNCHANGED <<sweep, var, spins, heff, walk, accepts, drawn>>
  /\ UNCHANGED <<problem, sweeps, bond, packedVars, kernel, job>>

-----------------------------------------------------------------------------
\* The seeded job would end in a kernel that takes no seeds.
Refuse ==
  /\ arm = "choose"
  /\ Arm = "refused"
  /\ arm' = Arm
  /\ UNCHANGED <<problem, sweeps, bond, packedVars, scalarVars, ordinaryVars,
                 job, results, walks>>

\* The token of a streamed job is read before every read and every sweep.
AtCheck ==
  \/ arm = "packed" /\ turn = [FirstTurn EXCEPT !.sweep = turn.sweep] /\ ~PackedDone
  \/ arm \in {"scalar", "cold"} /\ var = 0 /\ sweep < sweeps

CancelSeen ==
  /\ job.entry = "stream"
  /\ AtCheck
  /\ bond = 0
  /\ arm' = "cancelled"
  /\ results' = <<>>
  /\ UNCHANGED <<problem, sweeps, bond, packedVars, scalarVars, ordinaryVars, job, walks>>

Finished == arm \in Ended /\ UNCHANGED saVars

Init ==
  /\ job \in Jobs
  /\ problem = job.problem
  /\ sweeps = Ladder.rungs * SweepsPerBeta(job.total, job.perBeta)
  /\ bond = 0
  /\ spin = [w \in Words |-> [v \in Nodes |-> {}]]
  /\ turn = FirstTurn
  /\ threshold = [l \in Lanes |-> 0]
  /\ inputs = <<>>
  /\ planes = ZeroPlanes
  /\ ref = [w \in Words |-> [l \in Lanes |-> LaneState(spin[w], l)]]
  /\ read = 0
  /\ sweep = 0
  /\ var = 0
  /\ spins = [v \in Nodes |-> 1]
  /\ heff = [v \in Nodes |-> 0]
  /\ walk = spins
  /\ kernel = "F64"
  /\ accepts = 0
  /\ drawn = [run |-> 0, ref |-> 0]
  /\ arm = "choose"
  /\ results = <<>>
  /\ walks = <<>>

Next ==
  \/ StartPacked \/ EnterScalar \/ EnterOrdinary \/ Refuse
  \/ arm = "packed" /\ PackedStep /\ UNCHANGED <<scalarVars, ordinaryVars, jobVars>>
  \/ EndPacked
  \/ arm = "scalar" /\ ScalarStep /\ UNCHANGED <<packedVars, ordinaryVars, jobVars>>
  \/ arm = "cold" /\ Candidate /\ UNCHANGED <<packedVars, jobVars>>
  \/ EndRead
  \/ CancelSeen
  \/ Finished

Spec == Init /\ [][Next]_saVars

-----------------------------------------------------------------------------

\* Cached fields, 8 bits and a table of acceptances change nothing while the
\* sums are whole numbers that a double holds: both ordinary kernels make the
\* walk that computes every field anew, and leave the random stream at the
\* same place (sampler_core.rs 198-204, sa_int.rs 419-487).  Beyond that the
\* general kernel makes a walk of its own, and its cache may be off by one
\* rounding for the seeding and one for each flip, never by more
\* (sampler_core.rs 256-263).
KernelsAgree ==
  arm = "cold" =>
    /\ Exact(problem) => spins = walk /\ drawn.run = drawn.ref
    /\ \A v \in Nodes :
         Abs(heff[v] - EffectiveField(kernel, problem, v, spins))
           <= (1 + accepts) * Slack(problem)

\* A seeded job never ends in the ordinary kernel, which would answer from
\* random states as if there were no seed: what sample_seeded refuses is
\* exactly what would fall back (sa_sampler.rs 281-292).
SeedsAreNeverDropped == job.entry = "seeded" => arm # "cold"

\* A read that was scored carries the energy of the state it reports, and
\* unless its fields were rounded that state is the end of its walk.
ReadIsRight(r) ==
  /\ results[r] = Result(results[r].spins, Energy(problem, results[r].spins))
  /\ Exact(problem) => results[r].spins = walks[r]

\* A job that is done has every read once and in order: read k started from
\* seed k or from a random state, and is the Metropolis walk from there, in
\* whatever word and lane it ran (of a job of the general kernel with rounded
\* fields only the count and the energies are claimed)
\* (sa_sampler.rs 432-448, 470-499, 557-628).
ResultsAreTheWalks ==
  arm = "done" =>
    /\ Len(results) = NumReads
    /\ \A r \in 1 .. NumReads : ReadIsRight(r)
=============================================================================
