SPECIFICATION VestingSpec
CONSTANTS
  a = a
  b = b
  Holder = {a, b}
  Holder0 = a
  InitialSupply = 0
  Month = 2
  UnlockParts = 2
  Offers <- SomeOffers
  Old <- Revoked
  Transfers = {}
  Upgraded = 2
  MaxTime = 11
  MaxSchedules = 2
INVARIANTS NothingIsStuck
CHECK_DEADLOCK FALSE
