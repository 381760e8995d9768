SPECIFICATION FairSpec
CONSTANTS
  Call = {c1, c2}
  StepId <- MCStepId
  Def <- MCDef
  DefaultDef <- MCDef
  MaxUnclear = 1
  MaxProcessed = 0
  Branches <- MCBranches
  Utterance <- MCUtterance
INVARIANTS TypeOK OpenMeansFailing
PROPERTIES MishearingIsRetried CallsConclude
