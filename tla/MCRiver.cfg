SPECIFICATION Spec
CONSTANTS
  u1 = u1
  Collector = Collector
  RedeemManager = RedeemManager
  User = {u1}
  EpochTime = 1
  OneDay = 1
  OneYear = 1
  DepositSize = 2
  BasisPoints = 2
  Deposits = {3}
  Redeems = {2}
  Epochs = {1}
  Worlds <- AllWorlds
INVARIANTS EthIsAccounted DemandIsHeld CommittedInDeposits NoAssetsWithoutShares
PROPERTIES ReportWithinBounds RateHolds RedeemDemandIsCovered NoExcessExits ContainmentHolds
CHECK_DEADLOCK FALSE
