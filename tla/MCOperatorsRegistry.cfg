SPECIFICATION Spec
CONSTANTS
  k1 = k1
  k2 = k2
  k3 = k3
  NoKey = NoKey
  Key = {k1, k2, k3}
  ExitCount = {1, 3}
  MaxOperators = 2
  MaxKeys = 3
  MaxBlock = 4
SYMMETRY KeySymmetry
CONSTRAINT KeysOrExits
INVARIANTS OnlyAuditedKeysAreFundable CountsAreOrdered ExitsAreAccounted
CHECK_DEADLOCK FALSE
