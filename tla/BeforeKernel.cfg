SPECIFICATION MCSpec
CONSTANTS
  NumNodes = 5
  MaxCopies = 2
  Threads = {w1, w2}
  Topologies <- MCTopologies
  MaxJobs = 2
  Requests <- MCRequests
  Models <- MCModels
  NumLanes = 2
  Streams <- MCStreams
  FloatSweeps = 2
  RandomWords <- MCWords
  LongReads = 4
  ShortReads = 1
  SeedRows <- MCSeedRows
INVARIANTS
  ClassesPartition
  OwnColoring
  ReportIsHonest
  LeadingReadsAgree
