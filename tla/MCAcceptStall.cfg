SPECIFICATION Spec
CONSTANTS
  Workers = {w1, w2}
  Sockets = {s1}
  NoWorker = NoWorker
  Configs <- OneConfig
  N = 16
  Busy = 0
  Backlog = 1
  MaxFails = 2
  MaxEpollFails = 0
  MaxQuits = 0
PROPERTY Served
CHECK_DEADLOCK FALSE
