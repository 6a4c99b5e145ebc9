SPECIFICATION FairSpec
CONSTANTS
  Execve = execve
  ExitGroup = exit_group
  Clone = clone
  Write = write
  Records = {execve, exit_group, clone, write}
  NoCall = NoCall
  NoRecord = NoRecord
  Torn = Torn
  NoRule = NoRule
  LogFaults = {"call", "write"}
  Kids = {k1}
  Policies <- AllPolicies
  Env = {"exec_fails", "signal", "sigkill", "tracer_killed", "sigchld_ignored"}
  MaxCalls = 2
  MaxSignals = 1
INVARIANTS
  NoSilentRefusal
  ChildDenialsIntercepted
PROPERTIES
  StopsEnd
  TracerEnds
CHECK_DEADLOCK FALSE
