\* Expected to fail: a node is written through the address of an earlier mapping.
SPECIFICATION Spec
CONSTANTS
  InitialSize = 2
  NodeSizes <- MCSizes
  FooterSize = 2
  Addresses <- MCAddresses
  MaxNodes = 4
INVARIANTS
  NodesKept
CHECK_DEADLOCK FALSE
