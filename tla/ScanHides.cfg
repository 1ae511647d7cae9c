\* A consumer pool that loses its work and a script that does not.
SPECIFICATION FairSpec
CONSTANTS
  b1 = b1
  b2 = b2
  x1 = x1
  x2 = x2
  w1 = w1
  c1 = c1
  Bitstreams = {b1, b2}
  Items = {x1, x2}
  ItemOf <- OneEach
  Infected = {b1, b2}
  Oversize = {}
  Workers = {w1}
  Checkers = {c1}
  FailFast = FALSE
  FaultSets <- PoolLoses
  None = None
PROPERTY EventuallyHidden
CHECK_DEADLOCK FALSE
