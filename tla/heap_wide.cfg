SPECIFICATION Spec
CONSTANTS
  wide = wide
  short = short
  flat = flat
  flat2 = flat2
  Klass = {wide, short}
  Segment = {s1, s2}
  Bits = 2
  Words <- MCWords
  L1Limit <- MCL1Limit
  MaxWords <- MCMaxWords
  PoolSize = 2
  ExpandSize = 1
  MaxFields = 0
  NoSegment = NoSegment
  NoKlass = NoKlass
  NoBlock = NoBlock
  WildBlock = WildBlock
SYMMETRY SegmentSymmetry
INVARIANTS TypeOK LiveCountExact Level1Honest PointerCoherent RetrySucceeds
