SPECIFICATION MCSpec
CONSTANTS
  Tenants = {1, 2}
  Groups = {1}
  f1 = f1
  f2 = f2
  seatA = seatA
  seatB = seatB
  Fps = {f1, f2}
  Domains = {0}
  Blocks = {0, 1}
  Raw = Raw
  WarmthCap = 2
  LoadTenths = 9
  Seats = {seatA, seatB}
  Here = {seatA}
  Publishers = {"p1", "p2"}
  Updates <- MCUpdates
  Remotes <- MCRemotes
  Tokens = {0, 2}
  BlockTokens = 1
  Items <- MCItems
  CacheSpecs <- MCSpecs
  GenLimit = 2
  MaxBarriers = 3
  LnTable <- MCLnTable
  PrefillPool <- MCPrefill
  DecodePool <- MCDecode
  Requests = {r1, r2}
  Setups <- MCSetups
  Heads = {"decode", "short", "long"}
  Walls = {0, 1, 3}
  MaxTold = 2
  Streams <- MCStreams
  Chunk = 4
  MAX_HEAD = 10
  MaxCopy = 2
  DigitMax = 25
  ShortTokens = 5
INVARIANTS Durable Isolated HealConverges
  ChoiceSound EwmaExact RegretBounded
  ClassifiedWhole StreamIntact
PROPERTY HeadReadEnds
CHECK_DEADLOCK FALSE
