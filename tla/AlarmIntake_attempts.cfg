SPECIFICATION Spec
CONSTANTS
  a1 = a1
  a2 = a2
  Replica = {r1, r2}
  Message <- MCTwice
  Alarm = {a1, a2}
  AlarmOf <- MCAlarmOf
  Unprocessable <- MCUnprocessable
  MaxRetries = 2
  MaxConcurrent = 1
  BatchSize = 1
  MaxDelivery = 1
  Verdict = {"no_answer", "resolved"}
  CallsMayFail = FALSE
  WindowMayClose = FALSE
  MaxStops = 0
INVARIANT AttemptsAddUp
CHECK_DEADLOCK FALSE
