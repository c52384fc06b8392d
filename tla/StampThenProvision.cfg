\* A security stamp forgets the devices of a vault in use, then the panel provisions it.
CONSTANTS
  u1 = u1  u2 = u2  d1 = d1  d2 = d2  r1 = r1
  None = None
  User <- OneUser
  Device <- OneDevice
  Request <- OneRequest
  Op <- StampOps
  Faults <- NoFaults
  MaxClock = 5
SYMMETRY Interchangeable
SPECIFICATION Spec
INVARIANTS VaultReadable
CHECK_DEADLOCK FALSE
