----------------------------- MODULE MCAccounts -----------------------------
(***************************************************************************)
(* Small instances of Accounts: the values its configurations give to the  *)
(* constants, and the symmetry of interchangeable requests and rows.       *)
(***************************************************************************)
EXTENDS Accounts, TLC

CONSTANTS u1, u2, u3, r1, r2, s1, s2

TwoUsers == {u1, u2}
ThreeUsers == {u1, u2, u3}
OneRequest == {r1}
TwoRequests == {r1, r2}
TwoSessions == {s1, s2}
First == {u1}
Second == {u2}
Nobody == {}

ProvisionFault == {"provision"}
RekeyFault == {"rekey"}
AllFaults == {"disconnect", "provision", "restart"}

AdminOps == {"login", "update", "delete", "create", "clireset"}
OverlapOps == {"login", "recover", "update", "delete", "create"}
SlotSymmetry == Permutations(Request) \cup Permutations(Session)
=============================================================================
