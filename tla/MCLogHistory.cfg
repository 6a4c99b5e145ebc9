SPECIFICATION Spec
CONSTANTS
  Records = {v1, v2}
  NoRecord = NoRecord
  Torn = Torn
  LogFaults = {"call"}
  MaxRuns = 3
  MaxPerRun = 2
INVARIANTS
  RunsRecoverable
CHECK_DEADLOCK FALSE
