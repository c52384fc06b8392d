----------------------------- MODULE MCIdentity -----------------------------
(* Small instances of BitwardenIdentity. *)
EXTENDS BitwardenIdentity, TLC

CONSTANTS u1, u2, d1, d2, r1

OneUser == {u1}
TwoUsers == {u1, u2}
OneDevice == {d1}
TwoDevices == {d1, d2}
OneRequest == {r1}

NoFaults == {}
AllFaults == {"disconnect"}

NoStamp == IdentityOps \ {"stamp"}
StampOps == {"grant", "provision", "stamp"}
TokenOps == {"grant", "refresh", "master", "stamp", "provision", "status", "expire"}
Interchangeable == Permutations(User) \cup Permutations(Device) \cup Permutations(Request)
=============================================================================
