SPECIFICATION Spec
CONSTANTS
  Base = 3
  Width <- MCWidth
  Hosts <- MCHosts
  Resolved <- MCResolved
  Interfaces <- MCInterfaces
  Groups <- MCGroups
  Peers <- MCPeers
  Reused = {"source"}
  MaxSources = 2
CHECK_DEADLOCK FALSE
CONSTRAINT BoundOrInGroups
INVARIANTS
  TypeOK
  Local4HasInterface
PROPERTIES
  CountsByOne
  FilterAsAsked
