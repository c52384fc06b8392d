----------------------------- MODULE MCCiphers -----------------------------
(* Small instances of CipherStore. *)
EXTENDS CipherStore, TLC

CONSTANTS u1, u2, k1, k2, c1, f1, f2, r1, r2

OneUser == {u1}
TwoUsers == {u1, u2}
TwoClients == {k1, k2}
SameAccount == [k \in TwoClients |-> u1]
OwnAccounts == [k \in TwoClients |-> IF k = k1 THEN u1 ELSE u2]
OneCipher == {c1}
NoFolders == {}
TwoFolders == {f1, f2}
TwoRequests == {r1, r2}

NoFaults == {}
AllFaults == {"abort"}

CipherOps == VaultOps \ {"newFolder", "rename", "deleteFolder", "import"}
WriteOps == VaultOps \ {"sync", "restore", "delete", "empty", "favorite", "trash"}

Interchangeable == Permutations(Request) \cup Permutations(Cipher) \cup Permutations(Folder)
=============================================================================
