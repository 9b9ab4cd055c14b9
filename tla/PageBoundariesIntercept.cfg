\* A model with a positive intercept: page_to_key(0) is negative and its cast to Key is undefined.
CONSTANTS
  W = 5
  BaseKeys = {0, 5}
  Lines <- MCLinesPositive
  PageCounts = {2, 4}
SPECIFICATION Spec
INVARIANT BoundariesArePageStarts
CHECK_DEADLOCK FALSE
