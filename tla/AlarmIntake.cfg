SPECIFICATION FairSpec
CONSTANTS
  a1 = a1
  a2 = a2
  Replica = {r1}
  Message <- MCTwo
  Alarm = {a1, a2}
  AlarmOf <- MCAlarmOf
  Unprocessable <- MCUnprocessable
  MaxRetries = 2
  MaxConcurrent = 1
  BatchSize = 2
  MaxDelivery = 3
  Verdict = {"no_answer", "resolved"}
  CallsMayFail = TRUE
  WindowMayClose = TRUE
  MaxStops = 1
INVARIANTS TypeOK PermitsAddUp CompletedWasHandled AttemptsAddUp
PROPERTIES NoCallAfterConclusion EveryIntentSettles
CHECK_DEADLOCK FALSE
