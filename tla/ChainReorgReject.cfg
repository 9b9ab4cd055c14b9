\* Chains that outgrow the fanout before the reorganization worker gets to
\* them: one record per page, full pages asked for, a fanout of 2.
CONSTANTS
  MaxKey = 3
  Cap = 1
  MaxReorgFanout = 2
  PageFillPct = 100
  ReorgThreshold = 1
  Readers = {r1}
  MaxWrites = 4
  MaxPageId = 9
  NoPage = NoPage
  NoVal = NoVal
SPECIFICATION Spec
INVARIANT TypeOK
INVARIANT IndexAgreesWithPages
INVARIANT FlushedWritesVisible
PROPERTY ReadsReturnLatest
PROPERTY ReadsComplete
