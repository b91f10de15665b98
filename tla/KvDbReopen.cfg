\* Expected to fail: a crash in a flush.
SPECIFICATION Spec
CONSTANTS
  MaxAdds = 2
  MaxBufferSize = 0
  MaxLevelCount = 2
  EntrySizes <- MCUnitSize
  CrashPoints <- MCAnywhere
  ThrowPoints <- MCNowhere
  MaxTorn = 0
  OpenModes <- MCDefaultMode
INVARIANTS
  CanReopen
