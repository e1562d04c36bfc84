SPECIFICATION FairSpec
CONSTANTS
  NoMark = NoMark
  NoJob = NoJob
  Jobs = {j1, j2}
  Watermark <- MixedGenerations
  Polls = FALSE
  Absent = Absent
  NotToml = NotToml
  Host = 4
  Samplers <- GibbsAlone
  Tomls <- SomeTomls
  InboxCap = 1
  OutCap = 1
PROPERTIES
  EveryJobSettled
  StreamEnds
