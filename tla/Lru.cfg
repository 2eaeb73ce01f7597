CONSTANTS
  MaxBytes = 6
  KeyLen <- MCKeyLen
  ValueLen <- MCValueLen
  HasCallback = TRUE
  LruKeys = {k1, k2, k3, k4}
  LruValues = {1, 2, 6}
SPECIFICATION LruSpec
INVARIANT Consistent
PROPERTIES  EvictsExactly
