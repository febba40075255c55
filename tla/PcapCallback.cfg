SPECIFICATION FairSpec
CONSTANTS
  Names = {n1}
  Callbacks = {c1}
  MaxStarts = 1
  MaxUpdates = 1
PROPERTIES
  CallbackInstalled
