\* Requests one after the other: every handler's statements together; the secret may have changed.
CONSTANTS
  u1 = u1  u2 = u2  u3 = u3  r1 = r1  r2 = r2  s1 = s1  s2 = s2
  None = None
  User <- TwoUsers
  Admins <- First
  Plain <- Second
  Legacy <- Second
  Keyless <- Second
  Request <- OneRequest
  Session <- TwoSessions
  Op <- PanelOps
  Faults <- RekeyFault
  MaxClock = 3
SYMMETRY SlotSymmetry
SPECIFICATION Spec
INVARIANTS TypeOK SessionsRevoked VaultFollowsPassword
 
