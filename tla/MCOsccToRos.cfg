SPECIFICATION FairSpec
CONSTANTS
  Plain <- PlainQueues
  Depth <- Slots
  Frames <- SomeFrames
  Signal <- Signals
  Config <- Configured
  FeedbackTimeout = 1
  StaleWarnWindow = 2
  DropWarnWindow = 2
  MaxReports = 3
  MaxTime = 4
INVARIANTS
  TypeOK
  EveryReportAccounted
  FeedbackFollowsRaw
PROPERTIES
  StaleWarningsTrue
  DropWarningIsNews
  SilenceNoticed
  FirstDropLogged
