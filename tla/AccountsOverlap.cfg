\* From an empty table: logins, revocations and account creation interleaved; provisioning may fail.
\* The server stops when its administrators are gone or no id is left.
CONSTANTS
  u1 = u1  u2 = u2  u3 = u3  r1 = r1  r2 = r2  s1 = s1  s2 = s2
  None = None
  User <- TwoUsers
  Admins <- Nobody
  Plain <- Nobody
  Legacy <- Nobody
  Keyless <- Nobody
  Request <- TwoRequests
  Session <- TwoSessions
  Op <- OverlapOps
  Faults <- ProvisionFault
  MaxClock = 5
SYMMETRY SlotSymmetry
SPECIFICATION Spec
INVARIANTS StaleOnlyFromOverlap AccountsComplete
CHECK_DEADLOCK FALSE
