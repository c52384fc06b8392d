\* Two accounts; an account is not used while it is exported or restored, the other one is.
CONSTANTS
  u1 = u1  u2 = u2  v1 = v1  e1 = e1  k1 = k1  a1 = a1
  n1 = n1  n2 = n2  r1 = r1  r2 = r2
  None = None
  User <- TwoUsers
  Vault <- OneVault
  Entry <- OneEntry
  Key <- OneKey
  Audit <- OneAudit
  Note <- TwoNotes
  Request <- TwoRequests
  Faults <- AllFaults
  Overlap = FALSE
  MaxWrites = 4
  MaxAsked = 2
SYMMETRY Interchangeable
SPECIFICATION Spec
INVARIANTS TypeOK
PROPERTIES RefusedOnlyIfHeld SnapshotsKept
CHECK_DEADLOCK FALSE
