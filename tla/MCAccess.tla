----------------------------- MODULE MCAccess ------------------------------
(* Small instances of VaultAccess. *)
EXTENDS VaultAccess, TLC

CONSTANTS u1, u2, v1, v2, e1, e2, e3, k1, a, A, r1, r2

TwoUsers == {u1, u2}
TwoVaults == {v1, v2}
ThreeEntries == {e1, e2, e3}
OneKey == {k1}
TwoRequests == {r1, r2}

\* A and a differ in case.
TwoNames == {a, A}
Lower == a :> a @@ A :> a

AllOps == PanelOps \cup ApiOps
AllFaults == {"disconnect"}
Interchangeable == Permutations(Request)

Owned(u, main) == [state |-> "present", owner |-> u, main |-> main]
In(v, n, totp) == [state |-> "present", vault |-> v, name |-> n, totp |-> totp]
Of(u, scope, write) == [state |-> "present", owner |-> u, scope |-> scope, write |-> write]
Only(f, empty, S) == [x \in S |-> IF x \in DOMAIN f THEN f[x] ELSE empty]
State(vaults, entries, keys) == [vault |-> Only(vaults, NoVault, TwoVaults),
                                 entry |-> Only(entries, NoEntry, ThreeEntries),
                                 key |-> Only(keys, NoKey, OneKey)]

\* Nothing yet; one vault with an entry; two vaults of one owner; two of two owners.
Scenarios ==
  {State(<<>>, <<>>, <<>>),
   State(<<>>, <<>>, k1 :> Of(u1, {}, TRUE)),
   State(v1 :> Owned(u1, TRUE), e1 :> In(v1, a, TRUE), k1 :> Of(u1, {v1}, TRUE)),
   State(v1 :> Owned(u1, FALSE), e1 :> In(v1, A, FALSE), k1 :> Of(u1, {}, FALSE)),
   State(v1 :> Owned(u1, FALSE) @@ v2 :> Owned(u1, TRUE),
         e1 :> In(v1, a, TRUE) @@ e2 :> In(v2, A, FALSE), k1 :> Of(u1, {v1}, TRUE)),
   State(v1 :> Owned(u1, TRUE) @@ v2 :> Owned(u2, TRUE),
         e1 :> In(v1, a, FALSE) @@ e2 :> In(v2, a, TRUE), k1 :> Of(u1, {v1, v2}, TRUE))}
=============================================================================
