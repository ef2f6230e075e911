SPECIFICATION Spec
CONSTANTS
  a1 = a1
  Account = {a1}
  LsETHAmount = {3}
  Rate <- OneRate
  RedeemBalance = {1, 2, 9}
  PullLimit = {2}
  Depth = {3}
  MaxRequests = 1
  MaxWithdrawalEvents = 3
  MaxBatch = 1
INVARIANT RemainderMatchesNextEvent
CHECK_DEADLOCK FALSE
