\* Two deposits of the same package, one of them mediated, and three connections.
SPECIFICATION FairSpec
CONSTANTS
  p1 = p1
  p2 = p2
  d1 = d1
  d2 = d2
  Deposits = {p1, p2}
  Dirs = {d1, d2}
  Package <- SamePackage
  Identifier <- SameIdentifiers
  Mediated = {p2}
  Connections = 3
  Worlds <- AllWorlds
  None = None
INVARIANT TypeOK
INVARIANT ConnectionsReturned
INVARIANT IdentifiersUnique
PROPERTY DepositsAreAtomic
PROPERTY EveryRequestAnswered
CHECK_DEADLOCK FALSE
