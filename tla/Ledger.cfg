SPECIFICATION Spec
CONSTANTS
  RequestIds = {r1, r2, r3}
  Reusable = {r1}
  NoEntry = NoEntry
  U64Max = 7
  Sources = {pf0, pf1}
  NoSource = NoSource
  Holders = {h1, h2, h3}
  NoGuard = NoGuard
  Sweepers = {w1, w2}
  Sizes = {0, 1, 2, 6}
  CapacityBytes = 5
  RecentSamples = 1
  MaxCount = 1
SYMMETRY Symmetry
INVARIANTS Accounting WithinLimits NoLeak
PROPERTIES HeldLostOnlyByTtl RefinesBudget
