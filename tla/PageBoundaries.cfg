\* ComputePageLowerBoundaries over 5-bit keys: the search finds every page's smallest key.
CONSTANTS
  W = 5
  BaseKeys = {0, 5}
  Lines <- MCLines
  PageCounts = {1, 2, 4, 8}
SPECIFICATION Spec
INVARIANTS TypeOK BoundariesArePageStarts
CHECK_DEADLOCK FALSE
