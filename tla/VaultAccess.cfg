\* Any two requests, one after the other or at once, from six states of two vaults, three entries and a key.
CONSTANTS
  u1 = u1  u2 = u2  v1 = v1  v2 = v2  e1 = e1  e2 = e2  e3 = e3  k1 = k1
  a = a  A = A  r1 = r1  r2 = r2
  None = None
  User <- TwoUsers
  Vault <- TwoVaults
  Entry <- ThreeEntries
  Key <- OneKey
  Name <- TwoNames
  Fold <- Lower
  Request <- TwoRequests
  Op <- AllOps
  Faults <- AllFaults
  Before <- Scenarios
  MaxFile = 2
  MaxCalls = 2
SYMMETRY Interchangeable
SPECIFICATION Spec
INVARIANTS TypeOK  TrailComplete RefusedLeavesNothing
PROPERTIES ImportRepeatable DefaultOnlyWhenNone SaveKeepsEdits
CHECK_DEADLOCK FALSE
