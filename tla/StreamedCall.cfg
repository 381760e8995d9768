SPECIFICATION FairSpec
CONSTANTS
  StepId <- MCStepId
  Def <- MCDef
  DefaultDef <- MCDefaultDef
  MaxUnclear = 2
  MaxProcessed = 0
  Response <- MCResponse
  MaxPending = 2
INVARIANTS TypeOK OneVoice
PROPERTIES WalksInTurns VerdictStands SampleIsOfTheTurn BusyEnds VerdictEndsCall
CHECK_DEADLOCK FALSE
