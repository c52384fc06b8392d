------------------------------- MODULE Backup -------------------------------
(***************************************************************************)
(* Encrypted backups: internal/backup over the five tables it copies, with *)
(* the statements that the vault, API-key and audit handlers send to them. *)
(* Export reads the tables in five statements outside any transaction;     *)
(* Restore deletes and inserts inside one, at the isolation level of       *)
(* PostgreSQL's default (each statement sees what is committed; rows it    *)
(* deletes stay locked until it ends).                                     *)
(*                                                                         *)
(* A row is its owner, the row it refers to, and the number of the write   *)
(* that produced it.  Identifiers are random: only Restore inserts one     *)
(* again.  The password that encrypts a file is left out: without the      *)
(* right one a restore ends before it touches anything.                    *)
(***************************************************************************)
EXTENDS Naturals

CONSTANTS User,
          Vault, Entry, Key, Audit, Note, \* identifiers, per table; Note: the backups table
          Request,   \* slots for exports and restores under way
          Faults,    \* what may go wrong: "abort"
          Overlap,   \* may an account be used while it is exported or restored?
          MaxWrites, \* no panel statement writes a row after this many
          MaxAsked,  \* no export or restore is admitted after this many (at most one per Note)
          None       \* no row or account

Id == Key \cup Vault \cup Entry \cup Note \cup Audit

\* backupTables and restoreInsertOrder, restoreDeleteOrder.
Tables == <<Key, Vault, Entry, Note, Audit>>
DeleteOrder == <<Audit, Note, Entry, Vault, Key>>

ASSUME BackupAssumption == /\ None \notin User \cup Id
                           /\ \A m, n \in 1..5 : m # n => Tables[m] \cap Tables[n] = {}
                           /\ Faults \subseteq {"abort"}
                           /\ Overlap \in BOOLEAN
                           /\ MaxWrites \in Nat /\ MaxAsked \in Nat

VARIABLES row,    \* the five tables
          used,   \* identifiers drawn so far
          files,  \* the backup files exported so far
          req,    \* the exports and restores under way
          writes, \* the number of the last write
          asked   \* the number of exports and restores admitted

vars == <<row, used, files, req, writes, asked>>
bounds == <<writes, asked>>

-----------------------------------------------------------------------------
\* Entries have no owner of their own.
Row == [owner : User \cup {None}, ref : Id \cup {None}, ver : Nat]
NoRow == [owner |-> None, ref |-> None, ver |-> 0]

\* What a file holds of a row; a restore decides the owner.
Content == [ref : Id \cup {None}, ver : Nat]
Nothing == [ref |-> None, ver |-> 0]

RequestState == [pc : {"idle", "read", "delete", "insert", "exported", "restored"},
                 user : User \cup {None}, table : 1..5, doc : [Id -> Content], doomed : SUBSET Id]
Idle == [pc |-> "idle", user |-> None, table |-> 1, doc |-> [i \in Id |-> Nothing], doomed |-> {}]

Stored(i) == row[i] # NoRow

\* A row refers to one that exists (the foreign keys), entries always to a vault.
References == \A i \in Id : Stored(i) =>
  /\ row[i].ref # None => Stored(row[i].ref)
  /\ i \in Entry => row[i].ref \in Vault /\ row[i].owner = None
  /\ i \notin Entry => row[i].owner \in User

TypeOK == /\ row \in [Id -> Row]
          /\ used \subseteq Id
          /\ files \subseteq [Id -> Content]
          /\ req \in [Request -> RequestState]
          /\ writes \in Nat
          /\ References

Init == /\ row = [i \in Id |-> NoRow]
        /\ used = {}
        /\ files = {}
        /\ req = [r \in Request |-> Idle]
        /\ writes = 0 /\ asked = 0

-----------------------------------------------------------------------------
At(r, pc) == req[r].pc = pc
Finish(r) == req' = [req EXCEPT ![r] = Idle]

\* Seeded fault: entries are read whoever their vault belongs to.
EveryEntry(u) == {i \in Id : Stored(i) /\ (i \in Entry \/ row[i].owner = u)}

\* The rows of u: entries are scoped through their vault.
Rows(u) == {i \in Id : Stored(i) /\ u = IF i \in Entry THEN row[row[i].ref].owner
                                        ELSE row[i].owner}

Data(u) == [i \in Id |-> IF i \in Rows(u) THEN [ref |-> row[i].ref, ver |-> row[i].ver]
                         ELSE Nothing]

\* Seeded fault: deleting a vault leaves its entries behind.
WithoutCascade(gone) == [i \in Id |-> IF i \in gone THEN NoRow ELSE row[i]]

\* ON DELETE CASCADE for entries, ON DELETE SET NULL for audit rows.
Without(gone) ==
  [i \in Id |-> IF i \in gone \/ (i \in Entry /\ row[i].ref \in gone) THEN NoRow
                ELSE IF row[i].ref \in gone THEN [row[i] EXCEPT !.ref = None]
                ELSE row[i]]

With(rest, i, u, p, n) ==
  [rest EXCEPT ![i] = [owner |-> IF i \in Entry THEN None ELSE u, ref |-> p, ver |-> n]]

Dependents(gone) == {i \in Id : Stored(i) /\ row[i].ref \in gone}

\* Rows deleted by an open transaction other than r's: who needs them waits.
LockedFor(r) == UNION {req[q].doomed : q \in Request \ {r}}
Locked == UNION {req[q].doomed : q \in Request}

Busy(u) == \E r \in Request : req[r].user = u
Free(u) == Overlap \/ ~Busy(u)

-----------------------------------------------------------------------------
(* The statements of the other handlers, for an account in use.               *)

\* CreateVault, CreateEntry in a vault of u, Create of an API key, and the audit
\* row of a request with a key of u.
InsertRow(u, i, p) ==
  /\ Free(u) /\ writes < MaxWrites
  /\ i \in Id \ (used \cup Note)
  /\ IF i \in Entry THEN p \in Rows(u) \cap Vault
     ELSE IF i \in Audit THEN p \in Rows(u) \cap Key ELSE p = None
  /\ p \notin Locked
  /\ row' = With(row, i, u, p, writes + 1)
  /\ used' = used \cup {i}
  /\ writes' = writes + 1
  /\ UNCHANGED <<files, req, asked>>

\* UpdateVault, UpdateEntry, Revoke and the last use of a key.
UpdateRow(u, i) ==
  /\ Free(u) /\ writes < MaxWrites
  /\ i \in (Rows(u) \cap (Vault \cup Entry \cup Key)) \ Locked
  /\ row' = [row EXCEPT ![i].ver = writes + 1]
  /\ writes' = writes + 1
  /\ UNCHANGED <<used, files, req, asked>>

\* DeleteVault, DeleteEntry, Delete of an API key.
DeleteRow(u, i) ==
  /\ Free(u)
  /\ i \in Rows(u) \cap (Vault \cup Entry \cup Key)
  /\ ({i} \cup Dependents({i})) \cap Locked = {}
  /\ row' = Without({i})
  /\ UNCHANGED <<used, files, req, bounds>>

ClearHistory(u) ==
  /\ Free(u)
  /\ Rows(u) \cap Note # {} /\ Rows(u) \cap Note \cap Locked = {}
  /\ row' = Without(Rows(u) \cap Note)
  /\ UNCHANGED <<used, files, req, bounds>>

-----------------------------------------------------------------------------
(* Export.                                                                    *)

\* An export or a restore enters as state new.
Admit(r, u, new) == /\ At(r, "idle") /\ Free(u) /\ asked < MaxAsked
                    /\ req' = [req EXCEPT ![r] = new]
                    /\ asked' = asked + 1
                    /\ UNCHANGED <<row, used, files, writes>>

Export(r, u) == Admit(r, u, [Idle EXCEPT !.pc = "read", !.user = u])

\* The table of this turn; the step that ends the loop goes on to the next statement.
Turn(r, next) == [req[r] EXCEPT !.table = IF @ = 5 THEN 1 ELSE @ + 1,
                                !.pc = IF req[r].table = 5 THEN next ELSE @]

\* One query of collect.
ReadTable(r) ==
  LET read == Tables[req[r].table] \cap Rows(req[r].user) IN
  /\ At(r, "read")
  /\ req' = [req EXCEPT ![r] = [Turn(r, "exported") EXCEPT
               !.doc = [i \in Id |-> IF i \in read THEN Data(req[r].user)[i] ELSE @[i]]]]
  /\ UNCHANGED <<row, used, files, bounds>>

\* record inserts a row into the history.
Record(u, n) == /\ n \in Note \ used
                /\ used' = used \cup {n}
                /\ row' = With(row, n, u, None, 1)

\* The file is sealed and recorded; an error of record is ignored.
RecordExport(r) ==
  /\ At(r, "exported")
  /\ \/ \E n \in Note : Record(req[r].user, n)
     \/ "abort" \in Faults /\ UNCHANGED <<row, used>>
  /\ files' = files \cup {req[r].doc}
  /\ Finish(r)
  /\ UNCHANGED bounds

-----------------------------------------------------------------------------
(* Restore.                                                                   *)

Restore(r, u, f) == Admit(r, u, [Idle EXCEPT !.pc = "delete", !.user = u, !.doc = f])

\* Seeded fault: the DELETE of a table forgets its condition on the owner.
EveryRow(r) == {i \in DeleteOrder[req[r].table] : Stored(i)}

Deleted(r) == DeleteOrder[req[r].table] \cap Rows(req[r].user)

\* One DELETE of the transaction.
DeleteTable(r) ==
  LET gone == Deleted(r)
      cascade == gone \cup (Dependents(gone) \cap Entry) IN
  /\ At(r, "delete")
  /\ (cascade \cup Dependents(gone)) \cap LockedFor(r) = {}
  /\ req' = [req EXCEPT ![r] = [Turn(r, "insert") EXCEPT !.doomed = @ \cup cascade]]
  /\ UNCHANGED <<row, used, files, bounds>>

\* The rows of the file, and those they refer to.
Needed(r) == {i \in Id : req[r].doc[i] # Nothing} \cup ({req[r].doc[i].ref : i \in Id} \ {None})

\* A primary key is taken, or a foreign key leads nowhere.
Conflicts(r) ==
  LET doc == req[r].doc  rest == Without(req[r].doomed) IN
  \E i \in Id : /\ doc[i] # Nothing
                /\ \/ rest[i] # NoRow
                   \/ doc[i].ref # None /\ doc[doc[i].ref] = Nothing /\ rest[doc[i].ref] = NoRow

\* The tables after the commit: every inserted row belongs to the restoring account.
Replaced(r) ==
  LET doc == req[r].doc  rest == Without(req[r].doomed) IN
  [i \in Id |-> IF doc[i] = Nothing THEN rest[i]
                ELSE [owner |-> IF i \in Entry THEN None ELSE req[r].user,
                      ref |-> doc[i].ref, ver |-> doc[i].ver]]

\* The INSERTs and the commit; a row that cannot be inserted rolls everything back.
InsertAndCommit(r) ==
  /\ At(r, "insert")
  /\ Needed(r) \cap LockedFor(r) = {}
  /\ IF Conflicts(r)
     THEN Finish(r) /\ UNCHANGED row
     ELSE /\ row' = Replaced(r)
          /\ req' = [req EXCEPT ![r] = [Idle EXCEPT !.pc = "restored", !.user = req[r].user]]
  /\ UNCHANGED <<used, files, bounds>>

RecordRestore(r) ==
  /\ At(r, "restored")
  /\ \E n \in Note : Record(req[r].user, n)
  /\ Finish(r)
  /\ UNCHANGED <<files, bounds>>

\* A statement fails or the client hangs up; an open transaction is rolled back.
Abort(r) ==
  /\ "abort" \in Faults /\ ~At(r, "idle") /\ ~At(r, "exported")
  /\ Finish(r)
  /\ UNCHANGED <<row, used, files, bounds>>

-----------------------------------------------------------------------------
Use(u) == \/ \E i \in Id, p \in Id \cup {None} : InsertRow(u, i, p)
          \/ \E i \in Id : UpdateRow(u, i) \/ DeleteRow(u, i)
          \/ ClearHistory(u)

Next == \/ \E u \in User : Use(u)
        \/ \E r \in Request, u \in User : Export(r, u) \/ \E f \in files : Restore(r, u, f)
        \/ \E r \in Request : \/ ReadTable(r) \/ RecordExport(r) \/ DeleteTable(r)
                              \/ InsertAndCommit(r) \/ RecordRestore(r) \/ Abort(r)

Spec == Init /\ [][Next]_vars

-----------------------------------------------------------------------------
(* Correctness properties.                                                    *)

\* A file can be restored: a restore is refused by the database only if another account
\* holds one of its rows (Restore after Export, "a logical JSON snapshot").
RefusedOnlyIfHeld ==
  [][\A r \in Request : InsertAndCommit(r) /\ req'[r] = Idle
       => \E i \in Id, u \in User \ {req[r].user} : req[r].doc[i] # Nothing /\ i \in Rows(u)]_vars

\* What accounts and files hold, as Snapshots sees it.
Promise == INSTANCE Snapshots WITH data <- [u \in User |-> Data(u)], History <- Note

\* Exports are snapshots and restores replace one account by one of them, if an account is
\* not used while it is exported or restored (Export and Restore).
SnapshotsKept == Promise!Spec
=============================================================================
