SPECIFICATION AdmitSpec
CONSTANTS
  Conns = {c1, c2, c3}
  Reseeders = {control}
  Seeds = {0, 2, 3}
  BaseBurst = 2
  MaxShed = 2
  MaxReseeds = 2
  Cpus = {cpu1, cpu2}
  Capacity = 2
  RefillPerSec = 1
  Second = 2
  MapSeeds = {0, 3}
  MaxTime = 4
  MaxSyns = 5
  MaxMapReseeds = 2
SYMMETRY Symmetry
INVARIANTS Conservation NotWedged OverAdmitBound RateLimit DipBound
CHECK_DEADLOCK FALSE
