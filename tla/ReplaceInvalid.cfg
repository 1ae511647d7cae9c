\* A replacement with invalid metadata.
SPECIFICATION Spec
CONSTANTS
  Dirs = {d1}
  NoCollection = {}
  Ids = {1, 2, 3, 4}
  None = None
  Worlds <- ReplaceWorld
  MaxRuns = 3
PROPERTY ReplaceHarmsNothing
CHECK_DEADLOCK FALSE
