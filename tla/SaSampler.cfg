SPECIFICATION Spec
CONSTANTS
  NumNodes = 3
  Thresholds = {0, 2, 19, 70}
  NumLanes = 2
  Lanes = {0, 1}
  NumWords = 2
  NumReads = 3
  TableRungs = 1
  MaxTableEntries = 101
  DoubleExact = 110
  Rounding = 1
  Jobs <- MCJobs
  RandomWords <- MCWords
INVARIANTS
  LanesAreMetropolis
  KernelsAgree
  SeedsAreNeverDropped
  ResultsAreTheWalks
