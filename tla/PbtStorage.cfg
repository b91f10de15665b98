\* Files that grow once, several times or by more than their double, and move.
SPECIFICATION Spec
CONSTANTS
  InitialSize = 2
  NodeSizes <- MCSizes
  FooterSize = 2
  Addresses <- MCAddresses
  MaxNodes = 4
INVARIANTS
  NodesKeptUnlessStale
  FooterIsLast
  WritesFit
CHECK_DEADLOCK FALSE
