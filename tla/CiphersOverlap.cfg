\* Two accounts; requests interleave and abort anywhere.
CONSTANTS
  u1 = u1  u2 = u2  k1 = k1  k2 = k2  c1 = c1  f1 = f1  f2 = f2  r1 = r1  r2 = r2
  None = None
  User <- TwoUsers
  Client <- TwoClients
  Account <- OwnAccounts
  Cipher <- OneCipher
  Folder <- TwoFolders
  Request <- TwoRequests
  Op <- WriteOps
  Faults <- AllFaults
  Second = 1
  Gap = 0
  MaxTime = 1
  MaxWrites = 3
SYMMETRY Interchangeable
SPECIFICATION Spec
INVARIANTS FoldersResolve
CHECK_DEADLOCK FALSE
