\* Calls that nothing cuts short, with entries of size zero among them.
SPECIFICATION FairTraverse
CONSTANTS
  MaxAdds = 8
  MaxBufferSize = 1
  MaxLevelCount = 3
  EntrySizes <- MCAllSizes
  CrashPoints <- MCNowhere
  ThrowPoints <- MCNowhere
  MaxTorn = 0
  OpenModes <- MCAllModes
INVARIANTS
  LevelsBounded
  TraverseSeesAll
  ViewsStayMapped
PROPERTIES
  CompactLeavesOne
  CallReturns
  ImplementsStore
