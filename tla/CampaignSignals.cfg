SPECIFICATION MCSpec
CONSTANTS
  j1 = j1
  j2 = j2
  Jobs = {j1, j2}
  Workers = {w1, w2}
  Budgets <- MCTwoSignals
  PlanRequests <- MCPlanRequests
  PilotDepths = {1}
  Depths = {1, 2}
  PilotModels = 1
  PilotReps = 3
  CampaignModels = 2
  Reads = 64
  JobRequests <- MCJobRequests
  LoadThreshold = 8
  BusyThreshold = 20
  SweepJobs <- MCSweepJobs
  SeedLanes = 2
  SweepStarts = 3
  SweepBuilds <- Builds
  ReportRequests <- MCReportRequests
  Tolerances <- MCTolerances
  ShareScale = 10
  PercentScale = 1
  MinGroups = 5
PROPERTIES
  RunEnds
CHECK_DEADLOCK FALSE
