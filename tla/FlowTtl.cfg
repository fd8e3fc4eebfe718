SPECIFICATION FairSpec
CONSTANTS
  Handlers = {h1}
  Sources = {pf1, pf2}
  DecodeLabels = {dc1}
  MaxRequests = 1
  Expected = {0, 1}
  Claims = {0, 1, 2, 5}
  Ceiling = 4
  CapacityBytes = 5
  RecentSamples = 1
  U64Max = 7
  NoEntry = NoEntry
  NoGuard = NoGuard
  NoSource = NoSource
PROPERTIES TtlReleases
CHECK_DEADLOCK FALSE
