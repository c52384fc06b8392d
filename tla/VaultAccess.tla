---------------------------- MODULE VaultAccess ----------------------------
(***************************************************************************)
(* Vaults, entries and API keys as the panel and the API-key clients use   *)
(* them: the handlers of internal/vault and internal/authenticator, the    *)
(* Chrome import, the keys and the audit row each API call leaves, and the *)
(* extension's password update, which is a GET and a PUT.  Each step of a  *)
(* request is one SQL statement; a request whose client has gone fails in *)
(* all that is left of it.                                                 *)
(*                                                                         *)
(* Values, metadata and tags are left out, an entry is its name and        *)
(* whether it has a TOTP secret.  A vault name is whether it is, up to     *)
(* case, the name of the default vault, which imports look for as well.    *)
(* Whether the URL of a match fits an entry is left open.  Any vault may   *)
(* be the oldest or the last updated, dates being whole seconds.           *)
(***************************************************************************)
EXTENDS Naturals, FiniteSets

CONSTANTS User,
          Vault,    \* vault identifiers, never reused
          Entry,    \* entry identifiers, never reused
          Key,      \* API keys
          Name,     \* entry names
          Fold,     \* each name in lower case
          Request,  \* slots for the requests being served
          Op,       \* the operations asked for
          Faults,   \* what may go wrong: "disconnect"
          Before,   \* the vaults, entries and keys there may be at first
          MaxFile,  \* rows in an imported file
          MaxCalls, \* no request is admitted after this many
          None      \* no user, vault, entry, key or name

PanelOps == {"newVault", "editVault", "dropVault", "newEntry", "editEntry", "dropEntry", "secret",
             "import", "newKey", "revoke", "dropKey"}
ReadOps == {"vaults", "list", "match", "get", "code"}
WriteOps == {"create", "update", "delete", "saved"}
ApiOps == ReadOps \cup (WriteOps \ {"saved"}) \cup {"save"}

ASSUME AccessAssumption == /\ None \notin User \cup Vault \cup Entry \cup Key \cup Name
                           /\ Fold \in [Name -> Name]
                           /\ \A n \in Name : Fold[Fold[n]] = Fold[n]
                           /\ Op \subseteq PanelOps \cup ApiOps
                           /\ Faults \subseteq {"disconnect"}
                           /\ MaxFile \in Nat /\ MaxCalls \in Nat

VARIABLES vault, \* vaults
          entry, \* entries
          key,   \* api_keys
          audit, \* api_audit_logs
          req,   \* the requests
          calls  \* the number of the last call

vars == <<vault, entry, key, audit, req, calls>>

-----------------------------------------------------------------------------
RowState == {"present", "deleted"}

NoVault == [state |-> "unused", owner |-> None, main |-> FALSE]
NoEntry == [state |-> "unused", vault |-> None, name |-> None, totp |-> FALSE]
NoKey == [state |-> "unused", owner |-> None, scope |-> {}, write |-> FALSE]

\* A deleted row keeps its columns for the properties to refer to.
VaultRow == {NoVault} \cup [state : RowState, owner : User, main : BOOLEAN]
EntryRow == {NoEntry} \cup [state : RowState, vault : Vault, name : Name, totp : BOOLEAN]
KeyRow == {NoKey} \cup [state : RowState \cup {"revoked"}, owner : User, scope : SUBSET Vault,
                       write : BOOLEAN]
AuditRow == [call : Nat, key : Key \cup {None}, owner : User \cup {None}]

Pc == {"idle", "auth", "deny", "list", "reveal", "read", "write", "default", "destination", "make",
       "made", "owns", "insert", "readBack", "names", "rows", "audit", "done"}

\* set: the matches still to reveal; file: the rows of an import, left: those still to do, seen: the
\* names it found; touched: the vaults whose entries were given out or changed; alone: nobody else
\* has changed a vault or an entry since the request began; wrote, ok: what came of it.
RequestState == [pc : Pc, op : Op \cup {"none", "saved"}, call : Nat, live : BOOLEAN, alone : BOOLEAN,
                 user : User \cup {None}, key : Key \cup {None}, scope : SUBSET Vault,
                 vault : Vault \cup {None}, entry : Entry \cup {None}, name : Name \cup {None},
                 set : SUBSET Entry, file : SUBSET Name, left : SUBSET Name, seen : SUBSET Name,
                 touched : SUBSET Vault, wrote : BOOLEAN, ok : BOOLEAN, orphan : BOOLEAN]

Idle == [pc |-> "idle", op |-> "none", call |-> 0, live |-> TRUE, alone |-> TRUE,
         user |-> None, key |-> None, scope |-> {}, vault |-> None, entry |-> None, name |-> None,
         set |-> {}, file |-> {}, left |-> {}, seen |-> {},
         touched |-> {}, wrote |-> FALSE, ok |-> FALSE, orphan |-> FALSE]

\* Entries are in a vault that is there, no two of them in it by the same name.
Sound(vaults, entries) ==
  /\ \A e \in Entry : entries[e].state = "present" => vaults[entries[e].vault].state = "present"
  /\ \A e, f \in Entry :
       /\ {entries[e].state, entries[f].state} = {"present"}
       /\ entries[e].vault = entries[f].vault /\ entries[e].name = entries[f].name
       => e = f

TypeOK == /\ vault \in [Vault -> VaultRow]
          /\ entry \in [Entry -> EntryRow]
          /\ key \in [Key -> KeyRow]
          /\ audit \subseteq AuditRow
          /\ req \in [Request -> RequestState]
          /\ calls \in Nat
          /\ Sound(vault, entry)

ASSUME BeforeAssumption ==
  \A b \in Before : /\ b.vault \in [Vault -> VaultRow]
                    /\ b.entry \in [Entry -> EntryRow]
                    /\ b.key \in [Key -> KeyRow]
                    /\ Sound(b.vault, b.entry)

Init == /\ \E b \in Before : vault = b.vault /\ entry = b.entry /\ key = b.key
        /\ audit = {} /\ req = [r \in Request |-> Idle] /\ calls = 0

-----------------------------------------------------------------------------
At(r, pc) == req[r].pc = pc
Set(r, state) == req' = [req EXCEPT ![r] = state]
Goto(r, pc) == Set(r, [req[r] EXCEPT !.pc = pc])

IsApi(r) == req[r].key # None
InFlight(r) == req[r].pc \notin {"idle", "done"}

\* The request is over; what it wrote is kept for the properties.
Over(r, live, orphan) ==
  IF req[r].wrote
    THEN [Idle EXCEPT !.pc = "done", !.op = req[r].op, !.call = req[r].call, !.user = req[r].user,
                      !.key = req[r].key, !.entry = req[r].entry, !.live = live, !.wrote = TRUE,
                      !.ok = req[r].ok, !.orphan = orphan]
    ELSE Idle

\* The answer; an API call leaves its audit row after it.
Refuse(r) == Goto(r, "audit")
Succeed(r, v) == [req[r] EXCEPT !.pc = "audit", !.ok = TRUE, !.touched = @ \cup v]

\* A statement that changes vaults or entries: whoever is in flight is no longer alone.
Change(r, state) ==
  req' = [s \in Request |-> IF s = r THEN [state EXCEPT !.wrote = TRUE]
                            ELSE [req[s] EXCEPT !.alone = @ /\ ~InFlight(s)]]

VaultsOf(u) == {v \in Vault : vault[v].state = "present" /\ vault[v].owner = u}
EntriesOf(u) == {e \in Entry : entry[e].state = "present" /\ entry[e].vault \in VaultsOf(u)}
EntriesIn(v) == {e \in Entry : entry[e].state = "present" /\ entry[e].vault = v}

\* CanAccessVault: no scope is no restriction.
CanAccess(r, v) == req[r].scope = {} \/ v \in req[r].scope

\* Seeded fault: ownership is not checked.
AnyVault(u, v) == vault[v].state = "present"

OwnsVault(u, v) == v \in VaultsOf(u)

\* Seeded fault: only a vault of the default name is looked for.
DefaultsOf(u) == {v \in VaultsOf(u) : vault[v].main}

\* Any of the owner's vaults may be the oldest.
Candidates(u) == VaultsOf(u)

Named(v, n) == \E e \in EntriesIn(v) : entry[e].name = n

\* An update that finds the entry, and no other of that name beside it.
Updatable(e, n) == /\ entry[e].state = "present"
                   /\ entry[e].name = n \/ ~Named(entry[e].vault, n)

\* Seeded fault: the update writes every column.
Replaced(e, n) == [entry EXCEPT ![e].name = n, ![e].totp = FALSE]

\* An update leaves the vault and the TOTP secret.
Updated(e, n) == [entry EXCEPT ![e].name = n]

Removed(E) == [e \in Entry |-> IF e \in E THEN [entry[e] EXCEPT !.state = "deleted"] ELSE entry[e]]

\* Seeded fault: the names of every vault of the owner.
NamesAnywhere(r) == EntriesOf(req[r].user)

\* The entries whose names an import takes as there.
NamesFrom(r) == EntriesOf(req[r].user) \cap EntriesIn(req[r].vault)

NewVault(u, main) == [state |-> "present", owner |-> u, main |-> main]

FreshVault == {v \in Vault : vault[v].state = "unused"}
FreshEntry == {e \in Entry : entry[e].state = "unused"}

-----------------------------------------------------------------------------
(* The panel's handlers that change something in one statement.               *)
PanelCall(op) == op \in Op /\ calls < MaxCalls /\ calls' = calls + 1

Noticed == req' = [s \in Request |-> [req[s] EXCEPT !.alone = @ /\ ~InFlight(s)]]

CreateVault(u, main) ==
  /\ PanelCall("newVault")
  /\ \E v \in FreshVault : vault' = [vault EXCEPT ![v] = NewVault(u, main)]
  /\ Noticed /\ UNCHANGED <<entry, key, audit>>

UpdateVault(u, v, main) ==
  /\ PanelCall("editVault")
  /\ v \in VaultsOf(u)
  /\ vault' = [vault EXCEPT ![v].main = main]
  /\ Noticed /\ UNCHANGED <<entry, key, audit>>

\* Seeded fault: the entries stay.
Orphaned(v) == {}

\* ON DELETE CASCADE.
Within(v) == EntriesIn(v)

DeleteVault(u, v) ==
  /\ PanelCall("dropVault")
  /\ v \in VaultsOf(u)
  /\ vault' = [vault EXCEPT ![v].state = "deleted"]
  /\ entry' = Removed(Within(v))
  /\ Noticed /\ UNCHANGED <<key, audit>>

AdminUpdateEntry(u, e, n) ==
  /\ PanelCall("editEntry")
  /\ e \in EntriesOf(u) /\ Updatable(e, n)
  /\ entry' = Updated(e, n)
  /\ Noticed /\ UNCHANGED <<vault, key, audit>>

AdminDeleteEntry(u, e) ==
  /\ PanelCall("dropEntry")
  /\ e \in EntriesOf(u)
  /\ entry' = Removed({e})
  /\ Noticed /\ UNCHANGED <<vault, key, audit>>

SetSecret(u, e, some) ==
  /\ PanelCall("secret")
  /\ e \in EntriesOf(u)
  /\ entry' = [entry EXCEPT ![e].totp = some]
  /\ Noticed /\ UNCHANGED <<vault, key, audit>>

\* The scope may name any vault.
CreateKey(u, k, scope, write) ==
  /\ PanelCall("newKey")
  /\ key[k].state = "unused"
  /\ key' = [key EXCEPT ![k] = [state |-> "present", owner |-> u, scope |-> scope, write |-> write]]
  /\ UNCHANGED <<vault, entry, audit, req>>

Revoke(u, k) ==
  /\ PanelCall("revoke")
  /\ key[k].state \in {"present", "revoked"} /\ key[k].owner = u
  /\ key' = [key EXCEPT ![k].state = "revoked"]
  /\ UNCHANGED <<vault, entry, audit, req>>

\* Seeded fault: the audit rows of a key go with it (ON DELETE CASCADE).
Cascaded(k) == {a \in audit : a.key # k}

\* ON DELETE SET NULL.
Detached(k) == {IF a.key = k THEN [a EXCEPT !.key = None] ELSE a : a \in audit}

DeleteKey(u, k) ==
  /\ PanelCall("dropKey")
  /\ key[k].state \in {"present", "revoked"} /\ key[k].owner = u
  /\ key' = [key EXCEPT ![k].state = "deleted"]
  /\ audit' = Detached(k)
  /\ UNCHANGED <<vault, entry, req>>

-----------------------------------------------------------------------------
(* Requests of several statements arrive.                                     *)
Arrive(r, op, state) ==
  /\ op \in Op /\ calls < MaxCalls
  /\ ~InFlight(r)
  /\ calls' = calls + 1
  /\ Set(r, [state EXCEPT !.op = op, !.call = calls + 1])
  /\ UNCHANGED <<vault, entry, key, audit>>

\* CreateEntry begins with the vault it is given or looks for one.
Placing(v) == IF v = None THEN "default" ELSE "owns"

AdminCreateEntry(r, u, v, n) ==
  Arrive(r, "newEntry", [Idle EXCEPT !.pc = Placing(v), !.user = u, !.vault = v, !.name = n])

Import(r, u, file) ==
  Arrive(r, "import", [Idle EXCEPT !.pc = "destination", !.user = u, !.file = file, !.left = file])

\* A client knows a key, and identifiers of vaults and entries that are or were there.
ApiCall(r, op, k, v, e, n) ==
  /\ key[k].state # "unused"
  /\ v # None => vault[v].state # "unused"
  /\ Arrive(r, op, [Idle EXCEPT !.pc = "auth", !.key = k, !.vault = v, !.entry = e, !.name = n])

Known == {e \in Entry : entry[e].state # "unused"}

ApiArrive(r, k) ==
  \/ \E op \in {"vaults", "list"}, v \in Vault \cup {None} : ApiCall(r, op, k, v, None, None)
  \/ ApiCall(r, "match", k, None, None, None)
  \/ \E op \in {"get", "code", "save", "delete"}, e \in Known : ApiCall(r, op, k, None, e, None)
  \/ \E v \in Vault \cup {None}, n \in Name : ApiCall(r, "create", k, v, None, n)
  \/ \E e \in Known, n \in Name : ApiCall(r, "update", k, None, e, n)

-----------------------------------------------------------------------------
(* A call with an API key: RequirePermission around the handler.              *)
FirstPc(op, v) == CASE op \in {"vaults", "list", "match"} -> "list"
                    [] op = "create" -> Placing(v)
                    [] OTHER -> "read"

\* The key is active and has the permission, and the limiter lets the call through.  A new entry
\* is checked against the scope before anything else, its absent vault included.
Authenticate(r) ==
  LET k == key[req[r].key]
      granted == [req[r] EXCEPT !.user = k.owner, !.scope = k.scope] IN
  /\ At(r, "auth")
  /\ \/ /\ k.state = "present"
        /\ req[r].op \in WriteOps => k.write
        /\ IF req[r].op = "create" /\ k.scope # {} /\ req[r].vault \notin k.scope
             THEN Set(r, [granted EXCEPT !.pc = "audit"])
             ELSE Set(r, [granted EXCEPT !.pc = FirstPc(req[r].op, req[r].vault)])
     \/ Goto(r, "deny")
  /\ UNCHANGED <<vault, entry, key, audit, calls>>

\* A denied call is recorded without its key and owner.
RecordDenied(r) ==
  /\ At(r, "deny")
  /\ audit' = audit \cup {[call |-> req[r].call, key |-> None, owner |-> None]}
  /\ Set(r, Over(r, TRUE, FALSE))
  /\ UNCHANGED <<vault, entry, key, calls>>

\* The extension's PUT, with the name its GET has read.
Resave(r) == [req[r] EXCEPT !.pc = "auth", !.op = "saved", !.call = calls + 1, !.ok = FALSE]

\* The row refers to the key, so it cannot be inserted when the key is gone; the error is ignored.
\* The panel's requests leave none.
RecordAudit(r) ==
  LET orphan == IsApi(r) /\ key[req[r].key].state = "deleted" IN
  /\ At(r, "audit")
  /\ audit' = IF orphan \/ ~IsApi(r) THEN audit
              ELSE audit \cup {[call |-> req[r].call, key |-> req[r].key, owner |-> req[r].user]}
  /\ IF req[r].op = "save" /\ req[r].ok
       THEN Set(r, Resave(r)) /\ calls' = calls + 1
       ELSE Set(r, Over(r, TRUE, orphan)) /\ UNCHANGED calls
  /\ UNCHANGED <<vault, entry, key>>

-----------------------------------------------------------------------------
(* What the handlers do.                                                      *)
Holding(E) == {entry[e].vault : e \in E}

\* Seeded fault: the scope takes the place of the owner.
InScope(r, v) == {e \in Entry : entry[e].state = "present" /\ entry[e].vault \in req[r].scope}

\* listEntries: of the owner, in the vault asked for or else in the scope.
Listed(r, v) == {e \in EntriesOf(req[r].user) : IF v # None THEN entry[e].vault = v
                                               ELSE CanAccess(r, entry[e].vault)}

\* All the vaults in the scope, or one asked for.
ListVaults(r) ==
  LET v == req[r].vault
      found == {w \in VaultsOf(req[r].user) : CanAccess(r, w) /\ v \in {None, w}} IN
  /\ At(r, "list") /\ req[r].op = "vaults"
  /\ IF v # None /\ found = {} THEN Refuse(r) ELSE Set(r, Succeed(r, found))
  /\ UNCHANGED <<vault, entry, key, audit, calls>>

ListEntries(r) ==
  /\ At(r, "list") /\ req[r].op = "list"
  /\ IF req[r].vault # None /\ ~CanAccess(r, req[r].vault)
       THEN Refuse(r)
       ELSE Set(r, Succeed(r, Holding(Listed(r, req[r].vault))))
  /\ UNCHANGED <<vault, entry, key, audit, calls>>

\* MatchEntries lists all of the owner's and keeps those that fit; the scope is applied after.
MatchEntries(r) ==
  /\ At(r, "list") /\ req[r].op = "match"
  /\ \E fits \in SUBSET EntriesOf(req[r].user) :
       LET found == {e \in fits : CanAccess(r, entry[e].vault)} IN
       IF found = {} THEN Set(r, Succeed(r, {}))
       ELSE Set(r, [req[r] EXCEPT !.pc = "reveal", !.set = found, !.touched = Holding(found)])
  /\ UNCHANGED <<vault, entry, key, audit, calls>>

\* RevealEntry and Code: the owner's entry, by its identifier; a match is given out without a value
\* if need be.
Reveal(r) ==
  /\ At(r, "reveal")
  /\ \E e \in req[r].set :
       LET left == [req[r] EXCEPT !.set = @ \ {e}] IN
       IF e \in EntriesOf(req[r].user) /\ (req[r].op = "code" => entry[e].totp)
         THEN IF left.set = {} THEN Set(r, [Succeed(r, Holding({e})) EXCEPT !.set = {}])
              ELSE Set(r, left)
         ELSE IF left.set # {} THEN Set(r, left)
              ELSE Set(r, [left EXCEPT !.pc = "audit", !.ok = req[r].op = "match"])
  /\ UNCHANGED <<vault, entry, key, audit, calls>>

\* getEntry and the scope, before an entry is given out or changed.
ReadEntry(r) ==
  LET e == req[r].entry IN
  /\ At(r, "read")
  /\ IF e \in EntriesOf(req[r].user) /\ CanAccess(r, entry[e].vault)
       THEN IF req[r].op \in WriteOps THEN Goto(r, "write")
            ELSE Set(r, [req[r] EXCEPT !.pc = "reveal", !.set = {e}, !.name = entry[e].name])
       ELSE Refuse(r)
  /\ UNCHANGED <<vault, entry, key, audit, calls>>

\* The statement names the owner, not the scope, and leaves the vault of the entry as it is.
WriteEntry(r) ==
  LET e == req[r].entry
      written == [req[r] EXCEPT !.touched = @ \cup Holding({e})] IN
  /\ At(r, "write")
  /\ IF e \in EntriesOf(req[r].user) /\ (req[r].op = "delete" \/ Updatable(e, req[r].name))
       THEN IF req[r].op = "delete"
              THEN /\ entry' = Removed({e})
                   /\ Change(r, [written EXCEPT !.pc = "audit", !.ok = TRUE])
              ELSE /\ entry' = Updated(e, req[r].name)
                   /\ Change(r, [written EXCEPT !.pc = "readBack"])
       ELSE Refuse(r) /\ UNCHANGED entry
  /\ UNCHANGED <<vault, key, audit, calls>>

\* An import goes on with its next row whatever became of this one.
Failed(r) == Goto(r, IF req[r].op = "import" THEN "rows" ELSE "audit")

FindDefault(r) ==
  /\ At(r, "default")
  /\ \/ \E v \in Candidates(req[r].user) : Set(r, [req[r] EXCEPT !.pc = "insert", !.vault = v])
     \/ Candidates(req[r].user) = {} /\ Goto(r, "make")
  /\ UNCHANGED <<vault, entry, key, audit, calls>>

FindDestination(r) ==
  LET named == {v \in VaultsOf(req[r].user) : vault[v].main} IN
  /\ At(r, "destination")
  /\ \/ \E v \in named : Set(r, [req[r] EXCEPT !.pc = "names", !.vault = v])
     \/ named = {} /\ Goto(r, "make")
  /\ UNCHANGED <<vault, entry, key, audit, calls>>

\* CreateVault, for an entry without a vault or an import.
MakeVault(r) ==
  /\ At(r, "make")
  /\ \E v \in FreshVault :
       /\ vault' = [vault EXCEPT ![v] = NewVault(req[r].user, TRUE)]
       /\ Change(r, [req[r] EXCEPT !.pc = "made", !.vault = v])
  /\ UNCHANGED <<entry, key, audit, calls>>

ReadMade(r) ==
  /\ At(r, "made")
  /\ IF OwnsVault(req[r].user, req[r].vault)
       THEN Goto(r, IF req[r].op = "import" THEN "names" ELSE "insert")
       ELSE Refuse(r)
  /\ UNCHANGED <<vault, entry, key, audit, calls>>

CheckVault(r) ==
  /\ At(r, "owns")
  /\ IF OwnsVault(req[r].user, req[r].vault) THEN Goto(r, "insert") ELSE Failed(r)
  /\ UNCHANGED <<vault, entry, key, audit, calls>>

\* The vault must be there and have no entry of that name.
InsertEntry(r) ==
  LET v == req[r].vault IN
  /\ At(r, "insert")
  /\ IF vault[v].state = "present" /\ ~Named(v, req[r].name)
       THEN \E e \in FreshEntry :
              /\ entry' = [entry EXCEPT ![e] = [state |-> "present", vault |-> v,
                                               name |-> req[r].name, totp |-> FALSE]]
              /\ Change(r, [req[r] EXCEPT !.pc = "readBack", !.entry = e, !.touched = @ \cup {v}])
       ELSE Failed(r) /\ UNCHANGED entry
  /\ UNCHANGED <<vault, key, audit, calls>>

ReadBack(r) ==
  /\ At(r, "readBack")
  /\ IF req[r].entry \notin EntriesOf(req[r].user) THEN Failed(r)
     ELSE IF req[r].op = "import"
       THEN Set(r, [req[r] EXCEPT !.pc = "rows", !.seen = @ \cup {Fold[req[r].name]}])
       ELSE Set(r, Succeed(r, {}))
  /\ UNCHANGED <<vault, entry, key, audit, calls>>

ListNames(r) ==
  /\ At(r, "names")
  /\ Set(r, [req[r] EXCEPT !.pc = "rows", !.seen = {Fold[entry[e].name] : e \in NamesFrom(r)}])
  /\ UNCHANGED <<vault, entry, key, audit, calls>>

\* A row whose name is there, up to case, is skipped.
ImportRow(r) ==
  /\ At(r, "rows")
  /\ \E n \in req[r].left :
       Set(r, [req[r] EXCEPT !.left = @ \ {n}, !.name = n,
                             !.pc = IF Fold[n] \in req[r].seen THEN "rows" ELSE "owns"])
  /\ UNCHANGED <<vault, entry, key, audit, calls>>

FinishImport(r) ==
  /\ At(r, "rows") /\ req[r].left = {}
  /\ Set(r, Succeed(r, {}))
  /\ UNCHANGED <<vault, entry, key, audit, calls>>

-----------------------------------------------------------------------------
\* Every statement left fails: the rows of an import, the audit row.
Disconnect(r) ==
  /\ "disconnect" \in Faults
  /\ InFlight(r)
  /\ Set(r, Over(r, FALSE, FALSE))
  /\ UNCHANGED <<vault, entry, key, audit, calls>>

Panel ==
  \E u \in User :
    \/ \E main \in BOOLEAN : CreateVault(u, main)
    \/ \E v \in Vault, main \in BOOLEAN : UpdateVault(u, v, main)
    \/ \E v \in Vault : DeleteVault(u, v)
    \/ \E e \in Entry, n \in Name : AdminUpdateEntry(u, e, n)
    \/ \E e \in Entry : AdminDeleteEntry(u, e)
    \/ \E e \in Entry, some \in BOOLEAN : SetSecret(u, e, some)
    \/ \E k \in Key, scope \in SUBSET Vault, write \in BOOLEAN : CreateKey(u, k, scope, write)
    \/ \E k \in Key : Revoke(u, k) \/ DeleteKey(u, k)

Advance(r) ==
  \/ Authenticate(r) \/ RecordDenied(r) \/ RecordAudit(r)
  \/ ListVaults(r) \/ ListEntries(r) \/ MatchEntries(r) \/ Reveal(r) \/ ReadEntry(r) \/ WriteEntry(r)
  \/ FindDefault(r) \/ FindDestination(r) \/ MakeVault(r) \/ ReadMade(r) \/ CheckVault(r)
  \/ InsertEntry(r) \/ ReadBack(r) \/ ListNames(r) \/ ImportRow(r) \/ FinishImport(r)

Next == \/ Panel
        \/ \E r \in Request :
             \/ \E k \in Key : ApiArrive(r, k)
             \/ \E u \in User, v \in Vault \cup {None}, n \in Name : AdminCreateEntry(r, u, v, n)
             \/ \E u \in User, file \in SUBSET Name : Cardinality(file) =< MaxFile /\ Import(r, u, file)
             \/ Advance(r)
             \/ Disconnect(r)

Spec == Init /\ [][Next]_vars

-----------------------------------------------------------------------------
(***************************************************************************)
(* Whatever an API call gives out or changes is in a vault of its key's    *)
(* owner and within the scope of the key, though the vault is checked in   *)
(* one statement and the entry read or changed by a later one; and only a  *)
(* key that may write changes anything.                                    *)
(***************************************************************************)
ScopeRespected ==
  \A r \in Request : IsApi(r) =>
    LET k == key[req[r].key] IN
    /\ \A v \in req[r].touched : vault[v].owner = k.owner /\ (k.scope = {} \/ v \in k.scope)
    /\ req[r].wrote => k.write

(***************************************************************************)
(* A change made with an API key is in the audit log of its owner, though  *)
(* the row is inserted after the answer and the key may be revoked or      *)
(* deleted by then or later; only a client that goes away, or a key        *)
(* deleted before the row is inserted, leaves none.                        *)
(***************************************************************************)
TrailComplete ==
  \A r \in Request :
    (At(r, "done") /\ IsApi(r) /\ req[r].wrote /\ req[r].live /\ ~req[r].orphan) =>
      \E a \in audit : a.call = req[r].call /\ a.owner = key[req[r].key].owner

(***************************************************************************)
(* A refused creation leaves nothing behind, though the entry is inserted  *)
(* before the read that may fail, unless the client has gone.              *)
(***************************************************************************)
RefusedLeavesNothing ==
  \A r \in Request :
    (At(r, "done") /\ req[r].op \in {"create", "newEntry"} /\ req[r].live /\ ~req[r].ok) =>
      (req[r].entry # None => entry[req[r].entry].state # "present")

(***************************************************************************)
(* "re-running an export is safe" (chromeimport.go): an import that nobody *)
(* else's writes overlap adds no name the vault has already, up to case,   *)
(* and leaves none of its file out, even after one that was cut short.     *)
(***************************************************************************)
ImportRepeatable ==
  [][\A r \in Request :
       LET folded == {Fold[entry[e].name] : e \in EntriesIn(req[r].vault)} IN
       req[r].op = "import" /\ req[r].alone =>
         /\ At(r, "insert") /\ req'[r].pc = "readBack" => Fold[req[r].name] \notin folded
         /\ At(r, "rows") /\ req'[r].pc = "audit" =>
              {Fold[n] : n \in req[r].file} \subseteq folded]_vars

(***************************************************************************)
(* A second vault is created by default only when the first was created or *)
(* the last deleted while the entry was on its way.                        *)
(***************************************************************************)
DefaultOnlyWhenNone ==
  [][\A r \in Request :
       /\ At(r, "make") /\ req'[r].pc = "made"
       /\ req[r].op # "import" /\ req[r].alone
       => VaultsOf(req[r].user) = {}]_vars

(***************************************************************************)
(* The extension writes a whole entry back to change its password: the     *)
(* TOTP secret is kept always, the name unless others write meanwhile.     *)
(***************************************************************************)
SaveKeepsEdits ==
  [][\A r \in Request :
       (At(r, "write") /\ req[r].op = "saved" /\ req'[r].pc = "readBack") =>
         LET e == req[r].entry IN
         /\ entry'[e].totp = entry[e].totp
         /\ req[r].alone => entry'[e].name = entry[e].name]_vars
=============================================================================
