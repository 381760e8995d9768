SPECIFICATION Spec
CONSTANTS
  Worker = {w1, w2}
  StepId <- MCStepId
  Def <- MCDef
  DefaultDef <- MCDef
  MaxUnclear = 1
  MaxProcessed = 12
  Response <- MCResponse
  MaxDups = 1
  MaxReports = 1
  AcsMayFail = TRUE
SYMMETRY Symmetric
INVARIANTS TypeOK OneTurn FinalizedIsQuiet
PROPERTIES KeepsContract WalksTheSOP HangsUpOnVerdict
CHECK_DEADLOCK FALSE
