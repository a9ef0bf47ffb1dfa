SPECIFICATION Spec
CONSTANTS
  Templates <- OpenTemplates
  Timeouts = {0, 2, 4}
  TTLs <- SomeTTLs
  DefaultTTLBeforeRunning = 2
  DefaultTTLAfterFinished = 1
  RunningPoll = 2
  Lag = 1
  MaxEdits = 0
  MaxErrors = 0
INVARIANT TimeoutWithinMax
