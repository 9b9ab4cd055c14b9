\* A two-page segment through a four-slot window: the builder may still
\* hold a record of the first chain when the second segment is read, so
\* both flush points are reached.  Zeroing is synchronous.
CONSTANTS
  MaxKey = 5
  Setups <- SetupsWindow
  RecsPerPage = 1
  MaxSegPages = 2
  MaxWrites = 1
  NoSeg = NoSeg
  NoOvf = NoOvf
  NoVal = NoVal
SPECIFICATION Spec
INVARIANT TypeOK
INVARIANT WindowSuffices
INVARIANT NoFreedSlotRead
CHECK_DEADLOCK FALSE
