\* Expected to fail: an index into two files that are not yet merged.
SPECIFICATION SpecQuery
CONSTANTS
  MaxAdds = 2
  MaxBufferSize = 5
  MaxLevelCount = 3
  EntrySizes <- MCUnitSize
  CrashPoints <- MCNowhere
  ThrowPoints <- MCNowhere
  MaxTorn = 0
  OpenModes <- MCDefaultMode
  Keys <- MCTwoKeys
INVARIANTS
  SeekFindsIndex
