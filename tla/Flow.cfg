SPECIFICATION Spec
CONSTANTS
  Handlers = {h1, h2, h3}
  Sources = {pf1, pf2}
  DecodeLabels = {dc1}
  MaxRequests = 3
  Expected = {0, 1}
  Claims = {0, 1, 2, 5}
  Ceiling = 4
  CapacityBytes = 5
  RecentSamples = 1
  U64Max = 7
  NoEntry = NoEntry
  NoGuard = NoGuard
  NoSource = NoSource
SYMMETRY Symmetry
INVARIANTS SessionsReserved DecodeHasHandoff
CHECK_DEADLOCK FALSE
