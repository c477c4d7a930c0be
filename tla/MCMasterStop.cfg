SPECIFICATION Spec
CONSTANTS
  Workers = 1
  Manager = TRUE
  Loader = FALSE
  MaxProcesses = 6
  Pids <- FewPids
  Operator = {"term", "quit", "usr1", "usr2", "hup"}
  MaxSignals = 2
  MaxCrashes = 1
  MaxForkFails = 0
INVARIANTS Tracked Retired NoOrphans
PROPERTY StopCompletes
CHECK_DEADLOCK FALSE
