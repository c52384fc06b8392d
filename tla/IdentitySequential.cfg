\* Every identity operation but the security stamp, one request at a time, any statement may find the request cancelled.
CONSTANTS
  u1 = u1  u2 = u2  d1 = d1  d2 = d2  r1 = r1
  None = None
  User <- OneUser
  Device <- TwoDevices
  Request <- OneRequest
  Op <- NoStamp
  Faults <- AllFaults
  MaxClock = 5
SYMMETRY Interchangeable
SPECIFICATION Spec
INVARIANTS VaultReadable SecondFactorUsable
PROPERTIES EnrolledSecretKept
