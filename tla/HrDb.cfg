\* Trees of up to three levels, with keys that repeat across nodes.
SPECIFICATION SpecHrDb
CONSTANTS
  MaxNodeChildren = 3
  NodeLimit = 4
  Keys <- MCKeys
  MaxEntries = 11
  MaxHeight = 5
  MaxCoord = 3
  Boxes <- MCBoxes
  Curve <- MCCurve
  Order = 2
  Orders = {2, 5, 12}
INVARIANTS
  EveryNodeHasOneParent
  AtReadsEveryEntry
  GetReadsFirst
  IteratesInOrder
  SeekFirstIsLeast
  SeekLastAndNext
  TraverseFindsAll
  SearchFindsAll
  KeysFollowCurve
PROPERTIES
  FinishEnds
CHECK_DEADLOCK FALSE
