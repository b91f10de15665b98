\* Expected to fail: compacting what such a crash has left.
SPECIFICATION Spec
CONSTANTS
  MaxAdds = 3
  MaxBufferSize = 0
  MaxLevelCount = 2
  EntrySizes <- MCUnitSize
  CrashPoints <- MCRemoving
  ThrowPoints <- MCNowhere
  MaxTorn = 1
  OpenModes <- MCDefaultMode
INVARIANTS
  Durable
