\* One rewrite of one segment with synchronous zeroing, its index entries
\* read at every step as a reader thread would read them.
CONSTANTS
  MaxKey = 5
  Setups <- SetupsSync
  RecsPerPage = 1
  MaxSegPages = 2
  MaxWrites = 1
  NoSeg = NoSeg
  NoOvf = NoOvf
  NoVal = NoVal
SPECIFICATION Spec
INVARIANT IndexedSegmentsReadable
CHECK_DEADLOCK FALSE
