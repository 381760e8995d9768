SPECIFICATION Spec
CONSTANTS
  Config <- MCConfig
  Report <- MCReport
  SharedStore = FALSE
INVARIANT VoicemailIsNoAnswer
CHECK_DEADLOCK FALSE
