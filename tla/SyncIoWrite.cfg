SPECIFICATION FairSpec
CONSTANTS
  Fds = {f1}
  FdSetSize = 3
PROPERTIES
  WriteServed
