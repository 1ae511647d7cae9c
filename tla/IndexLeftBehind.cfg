CONSTANTS
  i1 = i1
  i2 = i2
  i3 = i3
  NoDoc = NoDoc
  Idle = Idle
  Web = Web
  Items <- MCItems
  Procs = 1
  Threads = 1
  CommitEvery = 2
  PageSize = 1
  MaxChanges = 1
  MaxFailures = 1
  Worlds <- MCWorlds

SPECIFICATION Spec

INVARIANT
  NoneLeftBehind
CHECK_DEADLOCK FALSE
