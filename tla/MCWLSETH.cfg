SPECIFICATION Spec
CONSTANTS
  a = a
  b = b
  Account = {a, b}
  Wrapper = Wrapper
  Supply = 3
  Rates = {2, 3, 7}
  Values = {1, 3}
  Shares = {1, 2}
  Approvals = {0, 3, 9}
  MaxUint = 9
SYMMETRY Symmetry
INVARIANT SharesAreBacked
PROPERTY SpenderPays
