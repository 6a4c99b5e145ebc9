SPECIFICATION Spec
CONSTANTS
  Execve = execve
  ExitGroup = exit_group
  Clone = clone
  Write = write
  Records = {execve, exit_group, clone, write}
  NoCall = NoCall
  NoRecord = NoRecord
  Torn = Torn
  NoRule = NoRule
  LogFaults = {}
  Kids = {}
  Policies <- BlockLists
  Env = {}
  MaxCalls = 2
  MaxSignals = 0
INVARIANTS
  ClosedLogIsArray
