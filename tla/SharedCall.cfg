SPECIFICATION FairSpec
CONSTANTS
  r1 = r1
  r2 = r2
  Replica <- MCReplica
  StepId = {"greeting", "ask_awareness", "close_resolved", "escalate_unclear"}
  Def <- MCDef
  DefaultDef <- MCDef
  MaxUnclear = 2
  MaxProcessed = 12
  Response <- MCResponse
  Overlap = FALSE
  MaxFaults = 2
  MaxReports = 1
  MaxOps = 4
INVARIANTS TypeOK OnceIfAlone TurnSeesUpdate
PROPERTY RecordedIsPosted
CHECK_DEADLOCK FALSE
