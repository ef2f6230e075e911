SPECIFICATION Spec
CONSTANTS
  m1 = m1
  m2 = m2
  m3 = m3
  m4 = m4
  m5 = m5
  d1 = d1
  d2 = d2
  Member = {m1, m2, m3, m4, m5}
  Data = {d1, d2}
  EpochsPerFrame = {1, 2}
  Finality = 1
  WordBits = 4
  MaxMembers = 4
  MaxEpoch = 6
SYMMETRY Symmetry
INVARIANTS BallotIsCounted NoQuorumIsPending RefusedHaveReported
PROPERTY ImplementsOracleQuorum
CHECK_DEADLOCK FALSE
