\* LoadIntoNewPages stamps its last partial page with sequence number 0, not the flatten's.
CONSTANTS
  MaxKey = 5
  Datasets = {{1, 2, 3}, {1, 3, 4, 5}}
  Goal = 2
  BgModes = {TRUE, FALSE}
  MaxOps = 3
  NoSeg = NoSeg
  NoVal = NoVal
SPECIFICATION Spec
INVARIANT PagesCarrySequenceNumber
CHECK_DEADLOCK FALSE
