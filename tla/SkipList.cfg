\* Up to four entries on up to three levels.
SPECIFICATION Spec
CONSTANTS
  Keys <- MCKeys
  MaxLevel = 3
  MaxAdds = 4
INVARIANTS
  LevelsNest
  FindsAsScan
PROPERTIES
  ImplementsList
