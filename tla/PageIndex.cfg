CONSTANTS
  i1 = i1
  i2 = i2
  k1 = k1
  c1 = c1
  c2 = c2
  d1 = d1
  d2 = d2
  Nobody = Nobody
  NoMarker = NoMarker
  NoResult = NoResult
  Indexer <- Indexers
  Collector <- Collectors
  Content <- Contents
  Draw <- Draws
  MaxVersion = 2
  MaxCalls = 2
SPECIFICATION FairSpec
CHECK_DEADLOCK FALSE
INVARIANT MarkerIsWhole
PROPERTY CallsEnd
PROPERTY ImplementsIndex
