\* The neighbour rewrite across a key gap, checking the upper fences of
\* the new segments.
CONSTANTS
  MaxKey = 5
  Setups <- SetupsGap
  RecsPerPage = 1
  MaxSegPages = 2
  MaxWrites = 1
  NoSeg = NoSeg
  NoOvf = NoOvf
  NoVal = NoVal
SPECIFICATION Spec
INVARIANT UpperFenceIsNextBase
CHECK_DEADLOCK FALSE
