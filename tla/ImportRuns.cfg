\* Every command, under the circumstances of MCItemImport.
SPECIFICATION FairSpec
CONSTANTS
  Dirs = {d1, d2}
  NoCollection = {d2}
  Ids = {1, 2, 3, 4, 5}
  None = None
  Worlds <- AllWorlds
  MaxRuns = 3
INVARIANT TypeOK
INVARIANT RecordedWasCommitted
INVARIANT SuccessMeansImported
INVARIANT OneItemPerDirectory
INVARIANT NoInvalidItemStored
INVARIANT DeleteRemovesAll
PROPERTY ImportKeepsRecord
PROPERTY ReplaceKeepsHandles
PROPERTY AllOrNothing
PROPERTY RunEnds
CHECK_DEADLOCK FALSE
