SPECIFICATION PoolSpec
CONSTANTS
  ints = ints
  Klass = {ints}
  Segment = {s1, s2}
  Bits = 3
  Words <- MCWords
  L1Limit <- MCL1Limit
  MaxWords = 1
  PoolSize = 2
  ExpandSize = 1
  MaxFields = 1
  NoSegment = NoSegment
  NoKlass = NoKlass
  NoBlock = NoBlock
  WildBlock = WildBlock
  Constant = {c1, c2}
  Plain = Plain
PROPERTY ConstantsImmutable
