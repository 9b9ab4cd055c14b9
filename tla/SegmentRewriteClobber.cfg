\* The window run, checking what a read finds after the rewrite.
CONSTANTS
  MaxKey = 5
  Setups <- SetupsWindow
  RecsPerPage = 1
  MaxSegPages = 2
  MaxWrites = 1
  NoSeg = NoSeg
  NoOvf = NoOvf
  NoVal = NoVal
SPECIFICATION Spec
INVARIANT RewritePreservesRecords
CHECK_DEADLOCK FALSE
