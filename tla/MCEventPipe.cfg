SPECIFICATION MCSpec
CONSTANTS
  Configs <- AllConfigs
  BufSize = 2
  Num = 2
  BusySize = 2
  WriteSize = 4
  Room = 1
  Setups <- AllSetups
  Shapes <- AllShapes
  MaxBufs = 3
  ClientRoom = 2
  Responses <- AllResponses
  Talks <- AllTalks
  PeerBufSize = 3
INVARIANTS PipeSafe
PROPERTY EveryResponse
CHECK_DEADLOCK FALSE
