SPECIFICATION MCSpec
CONSTANTS
  Workers = 1
  Manager = FALSE
  Loader = FALSE
  MaxProcesses = 6
  Pids <- FewPids
  Operator = {"hup", "usr2", "winch"}
  MaxSignals = 4
  MaxCrashes = 1
  MaxForkFails = 1
  None = None
  Conns = {c1, c2}
  MaxSerial = 3
  MaxOps = 2
  Drain = 1
  Events = {e1, e2, e3}
  Modulus = 12
  Timeouts = {1, 4}
  Lazy = 2
  Late = 1
SYMMETRY Symmetry
INVARIANTS FullStrength ListsExact OnTime
PROPERTY StaleDetected
