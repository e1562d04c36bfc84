SPECIFICATION Spec
CONSTANTS
  NoMark = NoMark
  NoJob = NoJob
  Jobs = {j1, j2, j3}
  Watermark <- SameGeneration
  Polls = TRUE
  Absent = Absent
  NotToml = NotToml
  Host = 2
  Samplers <- BothSamplers
  Tomls <- EveryToml
  InboxCap = 1
  OutCap = 1
SYMMETRY Interchangeable
INVARIANTS
  OnePlacePerJob
  CleanReturn
  StaleBounded
  WidthFollowsConfigure
PROPERTIES
  ImplementsLedger
