\* User management one request at a time, everything else interleaved, every fault.
CONSTANTS
  u1 = u1  u2 = u2  u3 = u3  r1 = r1  r2 = r2  s1 = s1  s2 = s2
  None = None
  User <- ThreeUsers
  Admins <- First
  Plain <- Second
  Legacy <- Nobody
  Keyless <- Nobody
  Request <- TwoRequests
  Session <- TwoSessions
  Op <- AdminOps
  Faults <- AllFaults
  MaxClock = 2
SYMMETRY SlotSymmetry
SPECIFICATION SerialSpec
INVARIANTS ActiveAdmin
PROPERTIES SelfLockoutRejected
