\* Reorganizations that split a chain into more pages than it had: pages
\* hold three records, the caller asks for 34% fill (one record per page)
\* and the fanout allows 4, so a two-page chain first raises the fill
\* percentage to 67% (the loop at line 95) and is then split into up to 3.
CONSTANTS
  MaxKey = 5
  Cap = 3
  MaxReorgFanout = 4
  PageFillPct = 34
  ReorgThreshold = 1
  Readers = {r1}
  MaxWrites = 5
  MaxPageId = 11
  NoPage = NoPage
  NoVal = NoVal
SPECIFICATION Spec
INVARIANT TypeOK
INVARIANT IndexAgreesWithPages
INVARIANT FlushedWritesVisible
PROPERTY ReadsReturnLatest
PROPERTY ReadsComplete
