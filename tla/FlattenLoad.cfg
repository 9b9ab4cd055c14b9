\* FlattenChain and BulkLoadIntoPages: every flatten keeps every key's newest version readable.
CONSTANTS
  MaxKey = 5
  Datasets = {{1, 2, 3}, {1, 3, 4, 5}}
  Goal = 2
  BgModes = {TRUE, FALSE}
  MaxOps = 4
  NoSeg = NoSeg
  NoVal = NoVal
SPECIFICATION Spec
INVARIANTS TypeOK FlattenPreservesRecords
PROPERTY Refines
CHECK_DEADLOCK FALSE
