SPECIFICATION FairSpec
CONSTANTS
  Conns = {1, 2, 3, 4}
  NoConn = 0
  Backends = {b1}
  WorkerCount = 2
  Backlog = 1
  Pumps = {p1}
  PumpQueueMax = 1
  MaxConns = 3
  IoUring = FALSE
  ForwardFaults = TRUE
  SpawnFaults = TRUE
INVARIANTS SlotsOwned InflightExact
PROPERTIES Drains
CHECK_DEADLOCK FALSE
