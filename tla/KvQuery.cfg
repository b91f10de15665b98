\* Merges that may be aborted, and everything the queries read after them.
SPECIFICATION SpecQuery
CONSTANTS
  MaxAdds = 5
  MaxBufferSize = 1
  MaxLevelCount = 2
  EntrySizes <- MCUnitSize
  CrashPoints <- MCNowhere
  ThrowPoints <- MCMerging
  MaxTorn = 0
  OpenModes <- MCModes
  Keys <- MCTwoKeys
INVARIANTS
  FilesSorted
  BeginVisitsAll
  FirstAddedFirst
  SeekIsSuffix
  RangesTile
