\* A key-value database, a Hilbert R-tree database and two iterators.
SPECIFICATION FairSpec
CONSTANTS
  KvDbs = {k1}
  HrDbs = {h1}
  Iters = {i1, i2}
  NoDb = NoDb
INVARIANTS
  TypeOK
  PointersGood
  IteratorsReadable
  FreedFlushed
PROPERTIES
  TeardownEnds
