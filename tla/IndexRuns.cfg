CONSTANTS
  i1 = i1
  i2 = i2
  i3 = i3
  NoDoc = NoDoc
  Idle = Idle
  Web = Web
  Items <- MCItems
  Procs = 1
  Threads = 1
  CommitEvery = 2
  PageSize = 1
  MaxChanges = 2
  MaxFailures = 1
  Worlds <- MCWorlds

SPECIFICATION FairSpec

INVARIANTS
  TypeOK
  UpToDate

PROPERTY
  EventuallyIndexed
CHECK_DEADLOCK FALSE
