SPECIFICATION MCSpec
CONSTANTS
  Jobs <- MCTail
  MaxTrotterSteps = 256
  MinPolishSweeps = 8
  FlopConst = 50
  MemoryCap = 67000000
  FlopBudget = 1250000000
  WorkBudget = 2000000000
  Nets <- MCQuietly
  MaxSweeps = 3
  MaxReads = 2
INVARIANT
  ReturnedIsLocallyOptimal
