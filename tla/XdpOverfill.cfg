SPECIFICATION XdpSpec
CONSTANTS
  Cpus = {cpu1, cpu2, cpu3}
  Capacity = 3
  RefillPerSec = 2
  Second = 2
  MapSeeds = {}
  MaxTime = 9
  MaxSyns = 6
  MaxMapReseeds = 0
SYMMETRY Symmetry
INVARIANTS OverfillOneQuantum
CHECK_DEADLOCK FALSE
