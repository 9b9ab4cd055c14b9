\* Two keys, two values, four inserts: enough for a key written, rewritten
\* and deleted while its neighbours are written and a scan is under way.
CONSTANTS
  Keys = {1, 2}
  Values = {a, b}
  MaxWrites = 4
  NotFound = NotFound
  Empty = Empty
  Invalid = Invalid
SPECIFICATION Spec
INVARIANT TypeOK
INVARIANT IteratorYieldsLatest
PROPERTY Refines
CHECK_DEADLOCK FALSE
