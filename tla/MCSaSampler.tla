---------------------------- MODULE MCSaSampler ----------------------------
\* Two nodes under many parallel bonds, and a third with at most one, so that
\* every boundary of the code is met on a small graph: 20 and 21 neighbours
\* (tree and ripple counter), 63 and 64 bonds with the field (packed and
\* not), a reach of 100 and of 101 (integer kernels and not), and fields that
\* are too long for a double.
EXTENDS SaSampler

MCBond(u, v, j) == [u |-> u, v |-> v, j |-> j]
Bundle(n, up) == [k \in 1 .. n |-> MCBond(0, 1, IF k <= up THEN 1 ELSE -1)]
Clutter == <<MCBond(1, 1, 7), MCBond(0, 5, 7), MCBond(2, 0, 0)>>

MCProblem(h0, h1, h2, bonds) ==
  [h |-> [v \in 0 .. 2 |-> <<h0, h1, h2>>[v + 1]], bonds |-> bonds,
   classes |-> <<<<1, 2>>, <<0>>>>]

TwentyOne == MCProblem(-1, 1, 0, Bundle(20, 12) \o Clutter \o <<MCBond(2, 1, -1)>>)
Triangle == MCProblem(1, 0, -1, <<MCBond(0, 1, 1), MCBond(1, 2, -1), MCBond(2, 0, 1)>>)
SixtyThree == MCProblem(-1, 1, 0, Bundle(62, 33))
SixtyFour == MCProblem(1, 0, 0, Bundle(63, 30))
Hundred == MCProblem(-2, 0, 1, Bundle(98, 51) \o <<MCBond(1, 2, 1), MCBond(2, 1, 1)>>)
TooWide == MCProblem(0, 0, 0, Bundle(101, 51))
NoUnits == MCProblem(0, 0, 0, <<MCBond(0, 1, 2)>>)
Weighted == MCProblem(3, 0, -1, <<MCBond(0, 1, 2), MCBond(1, 2, -3), MCBond(1, 0, -1)>>)
Long == MCProblem(60, 0, 90, <<MCBond(0, 1, 60)>>)

MCState(a, b, c) == [v \in 0 .. 2 |-> <<a, b, c>>[v + 1]]
MCSeeds == <<MCState(1, -1, 1), MCState(-1, -1, 1), MCState(1, 1, -1), MCState(-1, 1, 1)>>

MCJobOn(p, variant, entry, seeds, total, perBeta, range, start) ==
  [problem |-> p, variant |-> variant, entry |-> entry, seeds |-> seeds,
   total |-> total, perBeta |-> perBeta, range |-> range, start |-> start]

MCRange(kind, hot, cold) == [kind |-> kind, hot |-> hot, cold |-> cold]

MCJob(p, variant, entry, seeds, rungs) ==
  MCJobOn(p, variant, entry, seeds, rungs, 1, MCRange("geometric", 2, 18), 0)

MCJobs ==
  {MCJob(Triangle, "MultiSpin", "seeded", MCSeeds, 2),
   MCJob(TwentyOne, "MultiSpin", "seeded", MCSeeds, 1),
   MCJob(TwentyOne, "Tabulated", "seeded", SubSeq(MCSeeds, 1, 2), 1),
   MCJob(TwentyOne, "Tabulated", "seeded", <<>>, 2),
   MCJob(SixtyThree, "MultiSpin", "stream", <<>>, 1),
   MCJob(SixtyFour, "MultiSpin", "stream", <<>>, 1),
   MCJob(SixtyFour, "MultiSpin", "seeded", MCSeeds, 2),
   MCJob(SixtyFour, "MultiSpin", "sample", <<>>, 2),
   MCJob(Hundred, "MultiSpin", "seeded", SubSeq(MCSeeds, 1, 1), 1),
   MCJob(Hundred, "Tabulated", "seeded", <<MCState(1, 0, 1)>>, 1),
   MCJob(TooWide, "MultiSpin", "sample", <<>>, 1),
   MCJob(NoUnits, "MultiSpin", "seeded", MCSeeds, 1),
   MCJobOn(Triangle, "Plain", "sample", <<>>, 3, 2, MCRange("linear", 1, 4), 0),
   MCJobOn(Hundred, "Plain", "stream", <<>>, 2, 1, MCRange("linear", 1, 4), 0),
   MCJobOn(Hundred, "Plain", "sample", <<>>, 1, 5, MCRange("geometric", 1, 4), 0),
   MCJobOn(Weighted, "Plain", "sample", <<>>, 0, 2, MCRange("geometric", 1, 4), 0),
   MCJobOn(Long, "Plain", "sample", <<>>, 1, 1, MCRange("linear", 1, 4), 0),
   MCJobOn(Weighted, "Tabulated", "sample", <<>>, 2, 0, MCRange("geometric", 1, 4), 0),
   MCJobOn(Triangle, "Tabulated", "seeded", SubSeq(MCSeeds, 1, 2), 3, 2,
           MCRange("linear", 1, 4), 9),
   MCJobOn(Triangle, "MultiSpin", "seeded", MCSeeds, 3, 2, MCRange("linear", 5, 2), 0)}

MCWords ==
  {[v \in 0 .. 2 |-> {}], [v \in 0 .. 2 |-> IF v = 1 THEN {0, 1} ELSE {1}]}
=============================================================================
