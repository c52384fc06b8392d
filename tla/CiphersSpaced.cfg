\* Two clients of one account; writes follow one another more than a second apart, syncs overlap
\* them; the clients keep asking for the revision date.
CONSTANTS
  u1 = u1  u2 = u2  k1 = k1  k2 = k2  c1 = c1  f1 = f1  f2 = f2  r1 = r1  r2 = r2
  None = None
  User <- OneUser
  Client <- TwoClients
  Account <- SameAccount
  Cipher <- OneCipher
  Folder <- NoFolders
  Request <- TwoRequests
  Op <- CipherOps
  Faults <- NoFaults
  Second = 1
  Gap = 2
  MaxTime = 7
  MaxWrites = 3
SPECIFICATION FairSpec
INVARIANTS TypeOK 
PROPERTIES StaleWritesRejected PayloadUntouched 
CHECK_DEADLOCK FALSE
