SPECIFICATION FairSpec
CONSTANTS
  Fds = {f1, f2}
  FdSetSize = 3
INVARIANTS
  TypeOK
  OnlyPolledEvents
PROPERTIES
  ReadServed
  WriteOnlyServed
