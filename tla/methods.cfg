CONSTANTS
  C = C
  D = D
  E = E
  f = f
  g = g
  s1 = s1
  None = None
  Class = {C, D, E}
  Name = {f, g}
  Site = {s1}
  Slot = {1, 2}
  MaxMethods = 3
  Above <- Chain
  Hash <- Hashes
SPECIFICATION Spec
CONSTRAINT Bound
CHECK_DEADLOCK FALSE
INVARIANTS TypeOK OneMethodPerName CacheCoherent SitesCoherent FinalsKept
PROPERTY ImplementsLateBinding
