SPECIFICATION Spec
CONSTANTS
  k1 = k1
  k2 = k2
  k3 = k3
  k4 = k4
  Key <- MCKey
  Hash <- MCHash
  Val = {v1, v2}
  Primes <- MCSizes
  UsedMod = 65536
  MaxEntries = 4
  LateDeletes = TRUE
  AllocFails = FALSE
INVARIANT Chained
CHECK_DEADLOCK FALSE
