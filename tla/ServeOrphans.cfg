SPECIFICATION Spec
CONSTANTS
  Conns = {1, 2}
  NoConn = 0
  Backends = {b1}
  WorkerCount = 1
  Backlog = 1
  Pumps = {p1}
  PumpQueueMax = 1
  MaxConns = 1
  IoUring = TRUE
  ForwardFaults = TRUE
  SpawnFaults = FALSE
INVARIANTS ReverseCapped
CHECK_DEADLOCK FALSE
