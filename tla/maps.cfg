\* A Map<K,V> of objects and a loop over it, and the two pointer maps.
SPECIFICATION ItrSpec
CONSTANTS
  k1 = k1  k2 = k2  k3 = k3  k4 = k4
  Key = {k1, k2, k3, k4}
  Value = {v1, v2}
  NoKey = NoKey  NoValue = NoValue  Zero = NULL
  HashCode <- MCHashCode
  FreeCode = 117
  Spi = {"OO", "rules", "xdata"}
  KeysOf <- MCKeysOf
  StaleKey = StaleKey
  StaleData = {}
  InitBuckets = 2
  MaxArena = 4
INVARIANTS ItrTypeOK ArenaPartitioned ImplementsMap IterationComplete
SYMMETRY MCSymmetry
