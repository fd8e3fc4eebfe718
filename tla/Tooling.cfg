SPECIFICATION MCSpec
CONSTANTS
  Ids = {i1, i2, i3}
  Responses <- MCResponses
  Bad = Bad
  TRANSFER_SAMPLES = 2
  MaxSamples = 3
  MaxLengths = 11
  Lengths = {15, 40}
  Ratios = {0, 90, 115}
  Violations = {0, 1}
  MaxViolations = 0
  MinGoodput = 50
  BLOCK_TOKENS = 16
  BytesPerToken = 2
  Models <- MCModels
  Itls = {10, 50}
  MaxPasses = 3
  Measured = {0, 12}
  MaxSeen = 12
  Lines <- MCLines
  MaxWindows = 3
  BaseConcurrency = 4
  PerWorker = 1
  LivePis = {20, 80}
  Losses <- MCLosses
  MinShadow = 45
  MinLive = 30
  MaxHeavyShed = 10
  Workers = {w1, w2, w3}
  RequestsPerWorker = 1
  MaxInflight = 1
  Replies = {"200", "503", "500", "torn"}
  Times = {1, 3}
  Rejects = {0, 2}
  Reserved = {0, 9}
  Phases = 2
  Scenarios <- MCScenarios
  Unset = Unset
  Modes = {"harden", "latest", "stress"}
  Selected <- MCSelected
  Strict = {"harden", "stress"}
  Enforced = {"s6"}
  Ci <- MCCi
  Optional = {"s2"}
  Unavailable = {"s2"}
  MaxCommands = 2
INVARIANTS ClaimFromHeaders TransfersPaired
  PredictorCovers StageEarned StallCovered
  ShedNeverHelps CountsExact ReportSound ExitHonest
PROPERTY WorkersJoin
CHECK_DEADLOCK FALSE
