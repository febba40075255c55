SPECIFICATION Spec
CONSTANTS
  Entries <- MCEntries
  Dirs <- MCDirs
  Root = "Log"
  Parent <- MCParent
  Sizes = {1, 7}
  MaxSize = 20
CHECK_DEADLOCK FALSE
INVARIANTS
  ClearSizePositive
  NothingLeftFits
  NewerGoesOnlyIfSmaller
PROPERTIES
  ClearEnds
