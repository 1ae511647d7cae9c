CONSTANTS
  k1 = k1
  k2 = k2
  e1 = e1
  e2 = e2
  read = read
  write = write
  o1 = o1
  o2 = o2
  NoName = NoName
  NoUrl = NoUrl
  NoKey = NoKey
  NoScopes = NoScopes
  Scopes <- MCScopes
  Ops <- MCOps
  Keys <- MCKeys
  Endpoints <- MCEndpoints
  TokenNames <- MCTokenNames
  MaxLogins = 2
  Worlds <- MCWorlds

SPECIFICATION Spec

INVARIANT
  SatisfiedMeansCovered
