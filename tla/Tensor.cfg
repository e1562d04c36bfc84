SPECIFICATION MCSpec
CONSTANTS
  Jobs <- MCJobs
  MaxTrotterSteps = 4
  MinPolishSweeps = 2
  FlopConst = 1
  MemoryCap = 400
  FlopBudget = 500
  WorkBudget = 60
  Nets <- MCNets
  MaxSweeps = 3
  MaxReads = 2
INVARIANTS
  SampledStateIsCanonical
  EvolutionIsTheProblem
  WorkFitsTheBudget
  PolishEndsDownhill
  TreeMarginalsAreExact
