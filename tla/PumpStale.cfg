SPECIFICATION Spec
CONSTANTS
  NoMark = NoMark
  NoJob = NoJob
  Jobs = {j1, j2}
  Watermark <- SameGeneration
  Polls = FALSE
  Absent = Absent
  NotToml = NotToml
  Host = 2
  Samplers <- BothSamplers
  Tomls <- SomeTomls
  InboxCap = 1
  OutCap = 1
INVARIANT CancelledNeverSampled
