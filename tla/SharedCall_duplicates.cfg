SPECIFICATION Spec
CONSTANTS
  r1 = r1
  r2 = r2
  Replica <- MCReplica
  StepId = {"greeting", "ask_awareness", "close_resolved", "escalate_unclear"}
  Def <- MCDef
  DefaultDef <- MCDef
  MaxUnclear = 2
  MaxProcessed = 12
  Response <- MCResponse
  Overlap = TRUE
  MaxFaults = 1
  MaxReports = 1
  MaxOps = 4
INVARIANT RecordedOnce
CHECK_DEADLOCK FALSE
