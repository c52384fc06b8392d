----------------------------- MODULE Snapshots -----------------------------
(***************************************************************************)
(* What encrypted backups promise (README, "Encrypted backups"): an export *)
(* is a snapshot of one account, a restore replaces that account's data by *)
(* a snapshot, and neither touches another account.  Nothing is said here  *)
(* of tables or statements.                                                *)
(***************************************************************************)
CONSTANTS User,    \* accounts
          Id,      \* whatever an account may hold
          History, \* of these, the records of past exports and restores
          None     \* no reference

VARIABLES data,    \* what each account holds
          files    \* the backup files exported so far

vars == <<data, files>>

Nothing == [ref |-> None, ver |-> 0]

Init == /\ data = [u \in User |-> [i \in Id |-> Nothing]]
        /\ files = {}

\* Only the account of u changes, and only in these items.
Changed(u) == {i \in Id : data'[u][i] # data[u][i]}
Only(u) == data' = [data EXCEPT ![u] = data'[u]]

\* The account is used: one item changes, with those that refer to it.
Edit(u) == /\ Only(u)
           /\ \E i \in Id : \A j \in Changed(u) : j = i \/ data[u][j].ref = i
           /\ UNCHANGED files

ClearHistory(u) == /\ Only(u)
                   /\ \A i \in Changed(u) : i \in History /\ data'[u][i] = Nothing
                   /\ UNCHANGED files

\* A file holds what the account holds at one instant, and may leave a record.
Export(u) == /\ files' = files \cup {data[u]}
             /\ Only(u)
             /\ Changed(u) \subseteq History /\ \A g, h \in Changed(u) : g = h

Restore(u) == /\ \E f \in files : data' = [data EXCEPT ![u] = f]
              /\ UNCHANGED files

Next == \E u \in User : Edit(u) \/ ClearHistory(u) \/ Export(u) \/ Restore(u)

Spec == Init /\ [][Next]_vars
=============================================================================
