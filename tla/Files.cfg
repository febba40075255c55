SPECIFICATION Spec
CONSTANTS
  Callers = {"c1", "c2"}
  Paths <- MCPaths
  Top = "."
  Parent <- MCParent
  Linked = "o"
  TooLong = {"d"}
  StSize <- MCSize
  Name <- Number
  Time <- MCTime
  Disks <- MCDisks
  Calls <- MCCalls
CHECK_DEADLOCK FALSE
INVARIANTS
  TypeOK
  RemoveOkMeansGone
  MakeOkMeansMade
  OthersSpared
  SearchFindsAll
  SizesAddUp
  ListsSorted
  AllNodesFreed
PROPERTIES
  CallsReturn
