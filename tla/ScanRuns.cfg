\* One consumer thread and one script on the same item, under every fault.
SPECIFICATION Spec
CONSTANTS
  b1 = b1
  b2 = b2
  x1 = x1
  x2 = x2
  w1 = w1
  c1 = c1
  Bitstreams = {b1, b2}
  Items = {x1}
  ItemOf <- OneItem
  Infected = {b1}
  Oversize = {}
  Workers = {w1}
  Checkers = {c1}
  FailFast = FALSE
  FaultSets <- AllFaultSets
  None = None
INVARIANT TypeOK
INVARIANT OnlyInfectedHidden
PROPERTY ScansAreAtomic
PROPERTY FlaggedIsHidden
CHECK_DEADLOCK FALSE
