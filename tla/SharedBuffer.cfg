\* Two consumer threads of one JVM.
SPECIFICATION Spec
CONSTANTS
  b1 = b1
  b2 = b2
  x1 = x1
  x2 = x2
  w1 = w1
  c1 = c1
  Bitstreams = {b1, b2}
  Items = {x1, x2}
  ItemOf <- OneEach
  Infected = {b1}
  Oversize = {}
  Workers = {w1, w2}
  Checkers = {}
  FailFast = FALSE
  FaultSets <- NoFaults
  None = None
INVARIANT VerdictSound
CHECK_DEADLOCK FALSE
