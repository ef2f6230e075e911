SPECIFICATION FairSpec
CONSTANTS
  a1 = a1
  Account = {a1}
  LsETHAmount = {2, 3}
  Rate <- TwoRates
  RedeemBalance = {1, 9}
  PullLimit = {2}
  Depth = {0, 3}
  MaxRequests = 2
  MaxWithdrawalEvents = 3
  MaxBatch = 2
INVARIANTS TypeOK AxisIsConsistent Solvent PaidWithinCeiling
PROPERTY ClaimEnds ImplementsRedeemQueue
CHECK_DEADLOCK FALSE
