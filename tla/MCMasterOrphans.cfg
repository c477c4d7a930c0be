SPECIFICATION SafetySpec
CONSTANTS
  Workers = 1
  Manager = FALSE
  Loader = FALSE
  MaxProcesses = 6
  Pids <- FewPids
  Operator = {"hup", "usr2", "winch", "quit"}
  MaxSignals = 4
  MaxCrashes = 0
  MaxForkFails = 0
INVARIANT NoOrphans
CHECK_DEADLOCK FALSE
