\* Rewrites through a two-slot window: with neighbours, so that the
\* builder is flushed before a segment is read, with and without a key
\* missing between the segments; and one segment at a time, so that a
\* second rewrite takes the ids the first put on the free list, while its
\* zeroing writes run on the pool or after they ran synchronously.
CONSTANTS
  MaxKey = 5
  Setups <- SetupsRecords
  RecsPerPage = 1
  MaxSegPages = 2
  MaxWrites = 2
  NoSeg = NoSeg
  NoOvf = NoOvf
  NoVal = NoVal
SPECIFICATION Spec
INVARIANT TypeOK
INVARIANT WindowSuffices
INVARIANT RewritePreservesRecords
PROPERTY RewriteReturns
PROPERTY Refines
CHECK_DEADLOCK FALSE
