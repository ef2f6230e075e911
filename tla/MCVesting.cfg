SPECIFICATION VestingSpec
CONSTANTS
  a = a
  b = b
  Holder = {a, b}
  Holder0 = a
  InitialSupply = 6
  Month = 2
  UnlockParts = 2
  Offers <- SomeOffers
  Old <- FreshOrUnreleased
  Transfers = {3}
  Upgraded = 2
  MaxTime = 11
  MaxSchedules = 2
INVARIANTS EscrowIsOwed NothingIsStuck
PROPERTIES VestedNeverShrinks
CHECK_DEADLOCK FALSE
