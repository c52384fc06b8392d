----------------------------- MODULE MCBackup -----------------------------
(* Small instances of Backup. *)
EXTENDS Backup, TLC

CONSTANTS u1, u2, v1, e1, k1, a1, n1, n2, r1, r2

TwoUsers == {u1, u2}
OneVault == {v1}
OneEntry == {e1}
OneKey == {k1}
OneAudit == {a1}
TwoNotes == {n1, n2}
TwoRequests == {r1, r2}
AllFaults == {"abort"}

Interchangeable == Permutations(User) \cup Permutations(Note) \cup Permutations(Request)
=============================================================================
