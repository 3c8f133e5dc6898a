SPECIFICATION Spec
CONSTANTS
  h1 = h1
  h2 = h2
  a1 = a1
  a2 = a2
  Handler = {h1, h2}
  NullHandler = NullHandler
  Assurance = {a1, a2}
  Null = Null
  MaxSlot = 5
  MaxCheckIns = 1
SYMMETRY Symmetry
VIEW Seen
CONSTRAINT UntilShared
CHECK_DEADLOCK FALSE
INVARIANTS TypeOK ChainIsNesting AssuredAreListed UnwindsInside
