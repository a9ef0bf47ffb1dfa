SPECIFICATION Spec
CONSTANTS
  Templates <- OpenTemplates
  Timeouts = {0, 2, 4}
  TTLs <- SomeTTLs
  DefaultTTLBeforeRunning = 2
  DefaultTTLAfterFinished = 4
  RunningPoll = 2
  Lag = 1
  MaxEdits = 1
  MaxErrors = 1
INVARIANTS TypeOK ShownExpiry NeverOverstays
PROPERTIES NotCollectedEarly SessionGetsItsTime
