SPECIFICATION Spec
CONSTANTS
  wide = wide
  short = short
  flat = flat
  flat2 = flat2
  Klass = {flat, flat2}
  Segment = {s1, s2, s3, s4}
  Bits = 2
  Words <- MCWords
  L1Limit <- MCL1Limit
  MaxWords <- MCMaxWords
  PoolSize = 2
  ExpandSize = 1
  MaxFields = 0
  NoSegment = NoSegment
  NoKlass = NoKlass
  NoBlock = NoBlock
  WildBlock = WildBlock
SYMMETRY SegmentSymmetry
INVARIANT HandOutInSegment
