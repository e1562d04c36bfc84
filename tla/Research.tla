------------------------------ MODULE Research ------------------------------
(***************************************************************************)
(* The research interface (src/research.rs and py/src/lib.rs): a caller    *)
(* names a kernel, the request passes its layers of checks in a fixed      *)
(* order, and the samples come back with the identity of what ran.  The    *)
(* protocol surface of the same class, Msa.sample, has checks of its own.  *)
(*                                                                         *)
(* A request is its kernel, its seeds and the set of its defects; what a   *)
(* model fits is one of its traits.  A check is what it looks for and how  *)
(* it answers.                                                             *)
(***************************************************************************)
EXTENDS FloatPacked

CONSTANTS
  Requests,   \* the requests considered
  SeedRows    \* the rows of seeds that a request may bring

VARIABLES
  request,   \* method, kernel, defects, fit, rows of seeds, start beta
  stage,     \* the layer the request is in
  report     \* what the caller gets

researchVars == <<request, stage, report>>

Kernels == {"cpu-sa", "cpu-msa-unit", "cpu-msa-f64", "cpu-msa"}

Has(defect) == defect \in request.defects
Seeded == request.rows > 0

-----------------------------------------------------------------------------
(* Layers of checks: the first that applies answers.                       *)

Check(applies, answer) == [applies |-> applies, answer |-> answer]

\* What a layer answers; "pass" when nothing applies.
Verdict(layer) ==
  LET hits == {i \in DOMAIN layer : layer[i].applies}
  IN  IF hits = {} THEN "pass" ELSE layer[Min(hits)].answer

\* The merged name counts the float workspace: counts do not tell the arm.
UsesFloat(kernel) == kernel \in {"cpu-msa-f64", "cpu-msa"}

\* check_size
Sizes ==
  <<Check(Has("no nodes"), "invalid"), Check(Has("too many nodes"), "invalid"),
    Check(Has("too many edges"), "invalid")>>

\* check_workspace
Workspace == <<Check(Has("workspace over the cap"), "memory")>>

\* check_research_counts
Counts ==
  Sizes
  \o <<Check(Has("reads out of range"), "invalid"), Check(Has("output over the cap"), "memory")>>
  \o (IF UsesFloat(request.kernel) THEN Workspace ELSE <<>>)

\* build_graph
Arrays ==
  <<Check(Has("edges are not pairs"), "invalid"), Check(Has("coupling count"), "invalid"),
    Check(Has("endpoint out of range"), "invalid")>>

\* The rows of a research call and of Msa.sample.
SeedShape == <<Check(request.given /\ Has("seed length"), "invalid")>>
StartNeedsArray == <<Check(request.start # "none" /\ ~request.given, "invalid")>>
StartNeedsSeeds == <<Check(request.start # "none" /\ ~Seeded, "invalid")>>
StartPositive == <<Check(request.start = "not positive", "invalid")>>
SomeReads == <<Check(Has("reads out of range"), "invalid")>>

\* validate_common
Common ==
  Counts
  \o <<Check(Has("coupling count"), "invalid"), Check(Has("no sweeps"), "invalid"),
       Check(Has("beta not positive"), "invalid"), Check(Has("betas reversed"), "invalid"),
       Check(Seeded /\ request.start \in {"not positive", "over the cap"}, "invalid"),
       Check(Has("not finite"), "invalid"), Check(Has("endpoint out of range"), "invalid"),
       Check(Has("self-loop"), "invalid"), Check(Has("repeated edge"), "invalid")>>

\* validate_seeds, and the same in the float kernel in another order
SeedsFit ==
  <<Check(Seeded /\ Has("seed length"), "invalid"), Check(Seeded /\ Has("seed value"), "invalid"),
    Check(Seeded /\ Has("more seeds than reads"), "invalid")>>

\* validate of the float kernel: what only it refuses, and all that was
\* checked before.
OwnFloat == <<Check(Has("subnormal"), "invalid"), Check(Has("coefficient sum"), "invalid")>>
Repeated ==
  Sizes \o <<Check(Has("coupling count"), "invalid"), Check(Has("reads out of range"), "invalid")>>
    \o Workspace
    \o <<Check(Has("not finite"), "invalid"), Check(Has("endpoint out of range"), "invalid"),
         Check(Has("self-loop"), "invalid"), Check(Has("repeated edge"), "invalid"),
         Check(Has("beta not positive"), "invalid"), Check(Has("betas reversed"), "invalid"),
         Check(Seeded /\ request.start \in {"not positive", "over the cap"}, "invalid")>>

-----------------------------------------------------------------------------
\* What the model fits: "packed", "integer" beyond 63 bonds, or "real".
FitsUnit == request.fit = "packed"

Arm ==
  IF request.kernel # "cpu-msa" THEN request.kernel
  ELSE IF FitsUnit THEN "cpu-msa-unit" ELSE "cpu-msa-f64"

\* The kernels' own refusals.
Own ==
  CASE Arm = "cpu-sa" -> <<Check(Seeded, "seeded scalar")>>
    [] Arm = "cpu-msa-unit" -> <<Check(~FitsUnit, "unsupported")>> \o SeedsFit
    [] Arm = "cpu-msa-f64" -> OwnFloat \o Repeated \o SeedsFit

\* The order of the two methods.
\* A seeded call of Msa.sample does not look at the sizes.
Layers ==
  IF request.method = "research"
  THEN <<"kernel", "counts", "arrays", "seeds", "start", "common", "own">>
  ELSE <<"request", "arrays", IF Seeded THEN "seeded" ELSE "cold">>

LayerOf(name) ==
  CASE name = "kernel" -> <<Check(request.kernel \notin Kernels, "invalid")>>
    [] name = "counts" -> Counts
    [] name = "arrays" -> Arrays
    [] name = "seeds" -> SeedShape
    [] name = "start" -> StartNeedsSeeds
    [] name = "common" -> Common
    [] name = "own" -> Own
    [] name = "request" -> StartNeedsArray \o StartPositive \o SomeReads
    [] name = "cold" -> Tail(Sizes)
    [] name = "seeded" -> Front(SeedsFit) \o <<Check(request.fit = "real", "unsupported")>>

ResearchInit ==
  /\ FloatInit
  /\ request \in Requests
  /\ stage = 1
  /\ report = [answer |-> "none"]

Pass ==
  /\ stage \in DOMAIN Layers
  /\ LET verdict == Verdict(LayerOf(Layers[stage]))
     IN  IF verdict = "pass"
         THEN stage' = stage + 1 /\ UNCHANGED report
         ELSE stage' = 0 /\ report' = [answer |-> verdict]
  /\ UNCHANGED <<request, floatVars>>

AllPassed == stage > Len(Layers)

\* What Msa.sample runs: it falls back where a research call refuses.
ProtocolKernel ==
  CASE request.fit = "packed" -> "cpu-msa-unit"
    [] request.fit = "integer" -> "cpu-fsa"
    [] request.fit = "real" -> "cpu-sa"

Ran == IF request.method = "research" THEN Arm ELSE ProtocolKernel

\* finish, and the metadata of the float kernel.
Report ==
  [answer |-> "samples", observed |-> Ran,
   seeded |-> request.rows, startUsed |-> Seeded /\ request.start # "none"]

EnterFloat ==
  /\ AllPassed /\ report.answer = "none"
  /\ Ran = "cpu-msa-f64"
  /\ spin = <<>>
  /\ Enter(SubSeq(SeedRows, 1, request.rows))
  /\ UNCHANGED researchVars

RunFloat ==
  /\ spin # <<>>
  /\ out = <<>>
  /\ FloatStep
  /\ UNCHANGED researchVars

\* The other kernels are those of SaSampler.
Finish ==
  /\ AllPassed /\ report.answer = "none"
  /\ Ran = "cpu-msa-f64" => out # <<>>
  /\ report' = Report
  /\ UNCHANGED <<request, stage, floatVars>>

Answered == report.answer # "none" /\ UNCHANGED <<researchVars, floatVars>>

ResearchNext == Pass \/ EnterFloat \/ RunFloat \/ Finish \/ Answered

ResearchSpec == ResearchInit /\ [][ResearchNext]_<<researchVars, floatVars>>

-----------------------------------------------------------------------------
\* Samples of a research call come from the kernel that was named, which can
\* represent the model; only the merged name stands for two.  Every seed row
\* started a read, and a start beta was not ignored (research.rs 4-14, 72-101).
ReportIsHonest ==
  request.method = "research" /\ report.answer = "samples" =>
    /\ IF request.kernel = "cpu-msa"
       THEN report.observed \in {"cpu-msa-unit", "cpu-msa-f64"}
       ELSE report.observed = request.kernel
    /\ report.observed = "cpu-msa-unit" => FitsUnit
    /\ report.seeded > 0 => ~Has("more seeds than reads") /\ report.observed # "cpu-sa"
    /\ request.start # "none" => report.startUsed
=============================================================================
