SPECIFICATION Spec
CONSTANTS
  Conns = {c1, c2, c3}
  Reseeders = {control}
  Seeds = {0, 2, 3}
  BaseBurst = 3
  MaxShed = 2
  MaxReseeds = 2
SYMMETRY Symmetry
INVARIANTS ReleaseUpToCapacity
CHECK_DEADLOCK FALSE
