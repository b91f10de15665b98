\* Expected to fail: a cascade over two levels takes newer entries first.
SPECIFICATION SpecQuery
CONSTANTS
  MaxAdds = 4
  MaxBufferSize = 0
  MaxLevelCount = 2
  EntrySizes <- MCUnitSize
  CrashPoints <- MCNowhere
  ThrowPoints <- MCNowhere
  MaxTorn = 0
  OpenModes <- MCDefaultMode
  Keys <- MCOneKey
INVARIANTS
  GetReturnsFirst
