SPECIFICATION Spec
CONSTANTS
  Execve = execve
  ExitGroup = exit_group
  Clone = clone
  Write = write
  Records = {execve, exit_group, clone, write}
  NoCall = NoCall
  NoRecord = NoRecord
  Torn = Torn
  NoRule = NoRule
  LogFaults = {}
  Kids = {}
  Policies <- AllPolicies
  Env = {"fork_fails", "traceme_fails", "load_fails", "exec_fails", "signal", "sigkill", "fault", "tracer_killed", "sigchld_ignored"}
  MaxCalls = 3
  MaxSignals = 2
INVARIANTS
  TypeOK
  OptionsBeforeFilter
  NoOrphanTarget
  SignalsAreDropped
PROPERTIES
  WriteAhead
  ErrorExitOnlyAfterSigkill
