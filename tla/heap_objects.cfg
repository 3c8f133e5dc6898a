SPECIFICATION FairSpec
CONSTANTS
  wide = wide
  short = short
  flat = flat
  flat2 = flat2
  Klass = {flat, flat2}
  Segment = {s1, s2, s3}
  Bits = 2
  Words <- MCWords
  L1Limit <- MCL1Limit
  MaxWords <- MCMaxWords
  PoolSize = 2
  ExpandSize = 1
  MaxFields = 2
  NoSegment = NoSegment
  NoKlass = NoKlass
  NoBlock = NoBlock
  WildBlock = WildBlock
INVARIANTS MarkedClosed SegmentOwnedOnce FreelistHasRoom AllFinalized
PROPERTIES ImplementsObjectStore CollectionEnds
