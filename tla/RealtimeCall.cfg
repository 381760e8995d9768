SPECIFICATION FairSpec
CONSTANTS
  Config <- MCConfig
  Report <- MCReport
  SharedStore = FALSE
INVARIANTS TypeOK SilentUntilGreeted StoppedSpeechIsIgnored ReportStands
PROPERTIES WarmIsSettled AnswerIsGreeted EndingHangsUp
CHECK_DEADLOCK FALSE
