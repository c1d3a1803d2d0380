SPECIFICATION Spec
CONSTANTS
  k1 = k1
  k2 = k2
  k3 = k3
  v1 = v1
  v2 = v2
  NoExpiry = NoExpiry
  Absent = Absent
  Key = {k1, k2, k3}
  Value = {v1, v2}
  MaxEntries = 2
  Ttls = {0, 1, NoExpiry}
  MaxTime = 3
SYMMETRY CacheSymmetry
INVARIANT AnswersAreFresh
PROPERTIES
  ImplementsBoundedCache
  EvictsLeastRecentlyUsed
