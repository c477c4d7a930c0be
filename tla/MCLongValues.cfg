SPECIFICATION MCSpec
CONSTANTS
  Procs = {p1, p2, p3}
  Master = m
  Free = Free
  Semaphore = TRUE
  Spins = 1
  MaxLocks = 4
  MaxCrashes = 1
  Pools <- AllPools
  PageShift = 4
  MinShift = 1
  Byte = 4
  Word = 1
  Sizes = {1, 3, 7, 8, 17}
  Workers = {"w1", "w2"}
  None = None
  ReqSetups <- AllReqSetups
  Unit = 1
  Idle = 1
  Requests <- AllRequests
  ConnZones <- AllConnZones
  ConnLocations <- AllConnLocations
  Configs <- AllConfigs
  Unix = {"u"}
  Inherits <- AllInherits
  Nothing = Nothing
  MaxReloads = 4
  MaxFds = 9
  MaxShm = 10
INVARIANT OneNode
