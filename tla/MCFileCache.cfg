SPECIFICATION Spec
CONSTANTS
  Requests = {r1, r2}
  Keys = {k1, k2}
  NSlots = 2
  Manager = Manager
  None = None
  Configs <- SomeConfigs
  Tries = 1
  LockTimeout = 2
INVARIANTS CountExact OneUpdater
PROPERTY Unblocked
