SPECIFICATION FairSpec
CONSTANTS
  Worker = {w1, w2}
  StepId <- MCStepId
  Def <- MCShortDef
  DefaultDef <- MCShortDef
  MaxUnclear = 2
  MaxProcessed = 12
  Response <- MCResponse
  MaxDups = 1
  MaxReports = 1
  AcsMayFail = FALSE
PROPERTIES CallEnds EndedCallIsPosted
CHECK_DEADLOCK FALSE
