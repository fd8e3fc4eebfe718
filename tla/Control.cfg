SPECIFICATION MCSpec
CONSTANTS
  MaxLives = 2
  Tickers = {t1, t2}
  Replayers = {r1}
  NoThread = NoThread
  t1 = t1
  t2 = t2
  r1 = r1
  Signals <- MCSignals
  Burst = 4
  Heartbeat = 1
  Cooldown = 2
  MaxAge = 2
  MaxGen = 2
  Windows = 1
INVARIANTS NoStrayProgram TableFollows SeedFollows
PROPERTIES GenerationGrows AdmissionRestored TableConverges
CHECK_DEADLOCK FALSE
