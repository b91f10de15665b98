\* Crashes and exceptions at every step; one cut-short removal per directory.
SPECIFICATION Spec
CONSTANTS
  MaxAdds = 5
  MaxBufferSize = 1
  MaxLevelCount = 2
  EntrySizes <- MCTwoSizes
  CrashPoints <- MCAnywhere
  ThrowPoints <- MCAnywhere
  MaxTorn = 1
  OpenModes <- MCAllModes
INVARIANTS
  TypeOK
  DurableWhileWhole
  VisibleOnce
  AgeFollowsName
  IndicesDiffer
  RecoveryMatches
  TargetIsFresh
  WholeInv
