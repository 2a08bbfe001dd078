SPECIFICATION Spec
CONSTANTS
  k1 = k1
  k2 = k2
  k3 = k3
  Null = Null
  Absent = Absent
  Key <- MCKey
  Hash <- MCHash
  Val = {v1}
  DICTMINSZ = 1
  MaxSize = 4
  AllocFails = TRUE
INVARIANTS
  SlotFound
  KeysUnique
  DumpComplete
PROPERTY
  ImplementsMap
CHECK_DEADLOCK FALSE
