SPECIFICATION Spec
CONSTANTS
  Workers = {w1, w2}
  Sockets = {s1}
  NoWorker = NoWorker
  Configs <- AllConfigs
  N = 16
  Busy = 14
  Backlog = 1
  MaxFails = 1
  MaxEpollFails = 1
  MaxQuits = 1
INVARIANTS MutexReleased NoHerd NeverDeaf
PROPERTY Served
