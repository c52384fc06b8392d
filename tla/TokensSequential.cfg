\* Grants, refreshes, master password changes and security stamps, one request at a time.
CONSTANTS
  u1 = u1  u2 = u2  d1 = d1  d2 = d2  r1 = r1
  None = None
  User <- TwoUsers
  Device <- TwoDevices
  Request <- OneRequest
  Op <- TokenOps
  Faults <- NoFaults
  MaxClock = 5
SYMMETRY Interchangeable
SPECIFICATION Spec
INVARIANTS TypeOK TokensDieWithStamp TokenOfOwner
