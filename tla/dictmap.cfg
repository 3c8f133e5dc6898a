\* Every user of dictionaries; parts of three entries are bisected already.
SPECIFICATION Spec
CONSTANTS
  k1 = k1  k2 = k2  k3 = k3  k4 = k4  k5 = k5  k6 = k6
  Key = {k1, k2, k3, k4, k5, k6}
  Value = {v1, v2}
  NoValue = NoValue
  Ukey <- MCUkey
  Rank <- MCRank
  Short <- MCShort
  Unsorted = 3
  User = {"map", "functions", "symbols", "classes", "object"}
  MaxTable = 3
INVARIANTS TypeOK SortedMapFinds SortedInTime
SYMMETRY MCSymmetry
CHECK_DEADLOCK FALSE
