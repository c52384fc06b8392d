------------------------- MODULE VaultAccessProofs -------------------------
(***************************************************************************)
(* Proofs about VaultAccess, for every set of users, vaults, entries, keys *)
(* and requests, every choice of operations and faults and every state the *)
(* tables may be in at first.                                              *)
(***************************************************************************)
EXTENDS VaultAccess, TLAPS

-----------------------------------------------------------------------------
(* The inductive invariant.                                                   *)

\* The operations that get to each statement, and the requests that come without a key; no answer is
\* good before it is given.
Staged(r) ==
  LET q == req[r] IN
  /\ q.pc \in {"auth", "deny"} => q.op \in ApiOps \cup {"saved"}
  /\ q.pc = "list" => q.op \in {"vaults", "list", "match"}
  /\ q.pc = "read" => q.op \in {"get", "code", "save", "saved", "update", "delete"}
  /\ q.pc = "reveal" => q.op \in {"get", "code", "save", "match"}
  /\ q.pc = "write" => q.op \in {"saved", "update", "delete"}
  /\ q.pc = "default" => q.op \in {"create", "newEntry"}
  /\ q.pc \in {"make", "made", "owns", "insert"} => q.op \in {"create", "newEntry", "import"}
  /\ q.pc = "readBack" => q.op \in {"saved", "update", "create", "newEntry", "import"}
  /\ q.pc \in {"destination", "names", "rows"} => q.op = "import"
  /\ InFlight(r) => (q.key = None <=> q.op \in {"newEntry", "import"})
  /\ InFlight(r) /\ q.pc # "audit" => ~q.ok

\* The columns each statement is given.
Filled(r) ==
  LET q == req[r] IN
  /\ q.pc \notin {"idle", "auth", "deny", "done"} => q.user \in User
  /\ InFlight(r) =>
       /\ q.op \in {"create", "newEntry", "update", "saved"} => q.name \in Name
       /\ q.op \in {"get", "code", "save", "saved", "update", "delete"} => q.entry \in Known
  /\ q.op = "save" /\ (q.pc = "reveal" \/ (q.pc = "audit" /\ q.ok)) => q.name \in Name
  /\ q.op = "import" /\ q.pc \in {"owns", "insert", "readBack"} => q.name \in Name
  /\ q.pc \in {"made", "names", "rows", "owns", "insert"} => q.vault \in Vault
  /\ q.pc = "readBack" => q.entry \in Known
  /\ q.pc = "readBack" /\ q.op = "import" => q.vault \in Vault

\* A request has what the row of its key says, which is there for good.
Keyed(r) ==
  LET q == req[r] IN
  IsApi(r) =>
    /\ key[q.key].state # "unused"
    /\ q.pc \notin {"idle", "auth", "deny", "done"} =>
         /\ q.user = key[q.key].owner /\ q.scope = key[q.key].scope
         /\ q.op \in WriteOps => key[q.key].write

Made(v, u) == vault[v].state # "unused" /\ vault[v].owner = u

\* What a request has checked stays so until it is used.
Checked(r) ==
  LET q == req[r] IN
  /\ q.pc = "reveal" => \A e \in q.set : e \in Known /\ CanAccess(r, entry[e].vault)
  /\ q.pc = "write" => CanAccess(r, entry[q.entry].vault)
  /\ q.pc \in {"default", "make"} /\ IsApi(r) => q.scope = {}
  /\ q.pc \in {"made", "owns", "insert"} /\ IsApi(r) => CanAccess(r, q.vault)
  /\ q.pc \in {"made", "insert"} => Made(q.vault, q.user)

\* What a request has given out or changed.
Scoped(r) ==
  IsApi(r) =>
    LET k == key[req[r].key] IN
    /\ \A v \in req[r].touched : Made(v, k.owner) /\ (k.scope = {} \/ v \in k.scope)
    /\ req[r].wrote => k.write

RequestInv(r) == Staged(r) /\ Filled(r) /\ Keyed(r) /\ Checked(r) /\ Scoped(r)

Inv == TypeOK /\ \A r \in Request : RequestInv(r)

-----------------------------------------------------------------------------
(* What a statement does to the tables.                                       *)

TablesOK == /\ vault \in [Vault -> VaultRow]
            /\ entry \in [Entry -> EntryRow]
            /\ Sound(vault, entry)

\* Rows keep their columns, and a deleted one is not there again.
RowsKept ==
  /\ \A v \in Vault : vault[v].state # "unused" =>
       vault'[v].state # "unused" /\ vault'[v].owner = vault[v].owner
  /\ \A e \in Entry : entry[e].state # "unused" =>
       /\ entry'[e].state # "unused" /\ entry'[e].vault = entry[e].vault
       /\ entry[e].state = "deleted" => entry'[e].state = "deleted"

\* So do keys.
KeysKept ==
  \A k \in Key : key[k].state # "unused" =>
    /\ key'[k].state # "unused" /\ key'[k].owner = key[k].owner
    /\ key'[k].scope = key[k].scope /\ key'[k].write = key[k].write

\* A row that is in use has its columns.
LEMMA UsedRows ==
  ASSUME TypeOK
  PROVE  /\ \A v \in Vault : vault[v].state # "unused" =>
              vault[v] \in [state : RowState, owner : User, main : BOOLEAN]
         /\ \A e \in Entry : entry[e].state # "unused" =>
              entry[e] \in [state : RowState, vault : Vault, name : Name, totp : BOOLEAN]
         /\ \A k \in Key : key[k].state # "unused" =>
              key[k] \in [state : RowState \cup {"revoked"}, owner : User, scope : SUBSET Vault,
                          write : BOOLEAN]
BY DEF TypeOK, VaultRow, EntryRow, KeyRow, NoVault, NoEntry, NoKey

\* Soundness, entry by entry.
LEMMA SoundRows ==
  ASSUME TypeOK
  PROVE  /\ \A e \in Entry : entry[e].state = "present" =>
              entry[e].vault \in Vault /\ vault[entry[e].vault].state = "present"
         /\ \A e, f \in Entry :
              /\ entry[e].state = "present" /\ entry[f].state = "present"
              /\ entry[e].vault = entry[f].vault /\ entry[e].name = entry[f].name
              => e = f
<1>1. \A e \in Entry : entry[e].state = "present" =>
        entry[e].vault \in Vault /\ vault[entry[e].vault].state = "present"
  BY UsedRows DEF TypeOK, Sound
<1>2. ASSUME NEW e \in Entry, NEW f \in Entry,
             entry[e].state = "present", entry[f].state = "present",
             entry[e].vault = entry[f].vault, entry[e].name = entry[f].name
      PROVE  e = f
  BY <1>2 DEF TypeOK, Sound
<1>3. QED BY <1>1, <1>2

\* What Sound says of the next state, entry by entry.
LEMMA SoundNext ==
  ASSUME \A e \in Entry : entry'[e].state = "present" => vault'[entry'[e].vault].state = "present",
         \A e, f \in Entry :
           /\ entry'[e].state = "present" /\ entry'[f].state = "present"
           /\ entry'[e].vault = entry'[f].vault /\ entry'[e].name = entry'[f].name
           => e = f
  PROVE  Sound(vault, entry)'
BY DEF Sound

\* A new vault takes a fresh identifier, so nothing is in it.
LEMMA NewVaultRows ==
  ASSUME TypeOK, NEW v \in FreshVault, NEW u \in User, NEW main \in BOOLEAN,
         vault' = [vault EXCEPT ![v] = NewVault(u, main)], entry' = entry
  PROVE  TablesOK' /\ RowsKept
<1>1. NewVault(u, main) \in VaultRow
  BY DEF NewVault, VaultRow, RowState
<1>2. vault' \in [Vault -> VaultRow]
  BY <1>1 DEF TypeOK
<1>3. \A w \in Vault : vault[w].state # "unused" => vault'[w] = vault[w]
  BY DEF TypeOK, FreshVault
<1>4. Sound(vault, entry)'
  BY <1>3, SoundRows, SoundNext
<1>5. QED BY <1>2, <1>3, <1>4 DEF TypeOK, TablesOK, RowsKept

\* The default name of a vault is nothing the entries refer to.
LEMMA EditedVaultRows ==
  ASSUME TypeOK, NEW v \in Vault, vault[v].state = "present", NEW main \in BOOLEAN,
         vault' = [vault EXCEPT ![v].main = main], entry' = entry
  PROVE  TablesOK' /\ RowsKept
<1>1. [vault[v] EXCEPT !.main = main] \in VaultRow
  BY UsedRows DEF VaultRow
<1>2. vault' \in [Vault -> VaultRow]
  BY <1>1 DEF TypeOK
<1>3. \A w \in Vault : vault'[w].state = vault[w].state /\ vault'[w].owner = vault[w].owner
  BY UsedRows DEF TypeOK
<1>4. Sound(vault, entry)'
  BY <1>3, SoundRows, SoundNext
<1>5. QED BY <1>2, <1>3, <1>4 DEF TypeOK, TablesOK, RowsKept

\* Deleting the entries of the vaults that go, or some others, leaves none without its vault.
LEMMA RemovedRows ==
  ASSUME TypeOK, NEW E, \A e \in E : e \in Entry /\ entry[e].state = "present",
         entry' = Removed(E), vault' \in [Vault -> VaultRow],
         \A v \in Vault : \/ vault'[v] = vault[v]
                          \/ /\ vault[v].state = "present" /\ EntriesIn(v) \subseteq E
                             /\ vault'[v] = [vault[v] EXCEPT !.state = "deleted"]
  PROVE  TablesOK' /\ RowsKept
<1>1. \A e \in E : [entry[e] EXCEPT !.state = "deleted"] \in EntryRow
  BY UsedRows DEF EntryRow, RowState
<1>2. entry' \in [Entry -> EntryRow]
  BY <1>1 DEF TypeOK, Removed
<1>3. \A e \in Entry : e \notin E => entry'[e] = entry[e]
  BY DEF Removed
<1>4. ASSUME NEW e \in E
      PROVE  entry'[e].state = "deleted" /\ entry'[e].vault = entry[e].vault
  <2>1. entry[e] \in [state : RowState, vault : Vault, name : Name, totp : BOOLEAN]
    BY UsedRows
  <2>2. entry'[e] = [entry[e] EXCEPT !.state = "deleted"]
    BY DEF Removed
  <2>3. QED BY <2>1, <2>2
<1>5. \A v \in Vault : vault[v].state # "unused" =>
        vault'[v].state # "unused" /\ vault'[v].owner = vault[v].owner
  BY UsedRows
<1>6. \A e \in Entry : entry'[e].state = "present" => e \notin E /\ entry'[e] = entry[e]
  BY <1>3, <1>4
<1>7. ASSUME NEW e \in Entry, entry'[e].state = "present"
      PROVE  vault'[entry'[e].vault].state = "present"
  <2>1. e \notin E /\ entry'[e] = entry[e]
    BY <1>6, <1>7
  <2>2. /\ entry[e].vault \in Vault /\ vault[entry[e].vault].state = "present"
        /\ e \in EntriesIn(entry[e].vault)
    BY <1>7, <2>1, SoundRows DEF EntriesIn
  <2>3. QED BY <2>1, <2>2
<1>8. ASSUME NEW e \in Entry, NEW f \in Entry,
             entry'[e].state = "present", entry'[f].state = "present",
             entry'[e].vault = entry'[f].vault, entry'[e].name = entry'[f].name
      PROVE  e = f
  BY <1>6, <1>8, SoundRows
<1>9. Sound(vault, entry)'
  BY <1>7, <1>8, SoundNext
<1>10. RowsKept
  BY <1>3, <1>4, <1>5 DEF RowsKept
<1>11. QED BY <1>2, <1>9, <1>10 DEF TablesOK

\* An update leaves the vault of an entry and takes no name another has.
LEMMA UpdatedRows ==
  ASSUME TypeOK, NEW e \in Entry, NEW n \in Name, Updatable(e, n),
         entry' = Updated(e, n), vault' = vault
  PROVE  TablesOK' /\ RowsKept
<1>1. [entry[e] EXCEPT !.name = n] \in EntryRow
  BY UsedRows DEF EntryRow, Updatable
<1>2. entry' \in [Entry -> EntryRow]
  BY <1>1 DEF TypeOK, Updated
<1>3. \A f \in Entry : /\ entry'[f].state = entry[f].state /\ entry'[f].vault = entry[f].vault
                       /\ f # e => entry'[f].name = entry[f].name
  BY UsedRows DEF TypeOK, Updated
<1>4. entry'[e].name = n
  BY UsedRows DEF TypeOK, Updated, Updatable
<1>5. ASSUME NEW f \in Entry, NEW g \in Entry,
             entry'[f].state = "present", entry'[g].state = "present",
             entry'[f].vault = entry'[g].vault, entry'[f].name = entry'[g].name
      PROVE  f = g
  <2>1. CASE entry[e].name = n
    BY <1>3, <1>4, <1>5, <2>1, SoundRows
  <2>2. CASE ~Named(entry[e].vault, n)
    <3>1. \A h \in Entry : entry[h].state = "present" /\ entry[h].vault = entry[e].vault => entry[h].name # n
      BY <2>2 DEF Named, EntriesIn
    <3>2. QED BY <1>3, <1>4, <1>5, <3>1, SoundRows
  <2>3. QED BY <2>1, <2>2 DEF Updatable
<1>6. Sound(vault, entry)'
  BY <1>3, <1>5, SoundRows, SoundNext
<1>7. QED BY <1>2, <1>3, <1>6 DEF TablesOK, RowsKept, TypeOK

\* The TOTP secret of an entry is nothing its vault and name depend on.
LEMMA SecretRows ==
  ASSUME TypeOK, NEW e \in Entry, entry[e].state = "present", NEW some \in BOOLEAN,
         entry' = [entry EXCEPT ![e].totp = some], vault' = vault
  PROVE  TablesOK' /\ RowsKept
<1>1. [entry[e] EXCEPT !.totp = some] \in EntryRow
  BY UsedRows DEF EntryRow
<1>2. entry' \in [Entry -> EntryRow]
  BY <1>1 DEF TypeOK
<1>3. \A f \in Entry : /\ entry'[f].state = entry[f].state /\ entry'[f].vault = entry[f].vault
                       /\ entry'[f].name = entry[f].name
  BY UsedRows DEF TypeOK
<1>4. Sound(vault, entry)'
  BY <1>3, SoundRows, SoundNext
<1>5. QED BY <1>2, <1>3, <1>4 DEF TablesOK, RowsKept, TypeOK

\* An insertion takes a fresh identifier and a name that is free in a vault that is there.
LEMMA InsertedRows ==
  ASSUME TypeOK, NEW e \in FreshEntry, NEW v \in Vault, NEW n \in Name,
         vault[v].state = "present", ~Named(v, n), vault' = vault,
         entry' = [entry EXCEPT ![e] = [state |-> "present", vault |-> v, name |-> n, totp |-> FALSE]]
  PROVE  TablesOK' /\ RowsKept
<1>1. [state |-> "present", vault |-> v, name |-> n, totp |-> FALSE] \in EntryRow
  BY DEF EntryRow, RowState
<1>2. entry' \in [Entry -> EntryRow]
  BY <1>1 DEF TypeOK
<1>3. /\ \A f \in Entry : f # e => entry'[f] = entry[f]
      /\ entry'[e].vault = v /\ entry'[e].name = n /\ entry[e].state = "unused"
  BY DEF TypeOK, FreshEntry
<1>4. \A f \in Entry : entry[f].state = "present" /\ entry[f].vault = v => entry[f].name # n
  BY DEF Named, EntriesIn
<1>5. Sound(vault, entry)'
  BY <1>3, <1>4, SoundRows, SoundNext
<1>6. QED BY <1>2, <1>3, <1>5 DEF TablesOK, RowsKept, TypeOK

-----------------------------------------------------------------------------
(* What a step does to the requests.                                          *)

\* Another's step leaves a request as it is, but for whether it is alone.
Bystander(s) ==
  \E b \in BOOLEAN :
    /\ req'[s] = [req[s] EXCEPT !.alone = b]
    /\ b => req[s].alone /\ (InFlight(s) => UNCHANGED <<vault, entry>>)

\* Request r comes to be q; the others stand by.
Becomes(r, q) ==
  /\ q \in RequestState
  /\ req' \in [Request -> RequestState]
  /\ req'[r] = q
  /\ \A s \in Request \ {r} : Bystander(s)

\* A request is what it was with its flag set to what it was.
LEMMA Unaffected ==
  ASSUME TypeOK, NEW s \in Request, req'[s] = req[s], UNCHANGED <<vault, entry>>
  PROVE  Bystander(s)
<1>1. req[s].alone \in BOOLEAN /\ req[s] = [req[s] EXCEPT !.alone = req[s].alone]
  BY DEF TypeOK, RequestState
<1>2. QED BY <1>1 DEF Bystander

\* One request moves and the vaults and entries stay.
LEMMA SetBecomes ==
  ASSUME TypeOK, NEW r \in Request, NEW q \in RequestState, Set(r, q), UNCHANGED <<vault, entry>>
  PROVE  Becomes(r, q)
<1>1. req' \in [Request -> RequestState] /\ req'[r] = q /\ \A s \in Request \ {r} : req'[s] = req[s]
  BY DEF TypeOK, Set
<1>2. QED BY <1>1, Unaffected DEF Becomes

\* Whoever is in flight learns of a change.
LEMMA FlagLowered ==
  ASSUME TypeOK, NEW s \in Request,
         req'[s] = [req[s] EXCEPT !.alone = @ /\ ~InFlight(s)]
  PROVE  Bystander(s) /\ req'[s] \in RequestState
<1> DEFINE b == req[s].alone /\ ~InFlight(s)
<1>1. b \in BOOLEAN /\ req'[s] = [req[s] EXCEPT !.alone = b]
  BY DEF TypeOK, RequestState
<1>2. b => req[s].alone /\ (InFlight(s) => UNCHANGED <<vault, entry>>)
  OBVIOUS
<1> HIDE DEF b
<1>3. req'[s] \in RequestState
  BY <1>1 DEF TypeOK, RequestState
<1>4. QED BY <1>1, <1>2, <1>3 DEF Bystander

\* A request that changes vaults or entries.
LEMMA ChangeBecomes ==
  ASSUME TypeOK, NEW r \in Request, NEW q \in RequestState, Change(r, q)
  PROVE  Becomes(r, [q EXCEPT !.wrote = TRUE])
<1>1. [q EXCEPT !.wrote = TRUE] \in RequestState
  BY DEF RequestState
<1>2. req'[r] = [q EXCEPT !.wrote = TRUE]
  BY DEF Change
<1>3. \A s \in Request \ {r} : Bystander(s) /\ req'[s] \in RequestState
  BY FlagLowered DEF Change
<1>4. req' \in [Request -> RequestState]
  BY <1>1, <1>2, <1>3 DEF Change
<1>5. QED BY <1>1, <1>2, <1>3, <1>4 DEF Becomes

\* A change that no request of several statements makes.
LEMMA NoticedByAll ==
  ASSUME TypeOK, Noticed
  PROVE  req' \in [Request -> RequestState] /\ \A s \in Request : Bystander(s)
<1>1. \A s \in Request : Bystander(s) /\ req'[s] \in RequestState
  BY FlagLowered DEF Noticed
<1>2. QED BY <1>1 DEF Noticed

\* What another's step leaves of a request.
LEMMA BystanderFields ==
  ASSUME TypeOK, NEW s \in Request, Bystander(s)
  PROVE  /\ req'[s].pc = req[s].pc /\ req'[s].op = req[s].op /\ req'[s].call = req[s].call
         /\ req'[s].live = req[s].live /\ req'[s].user = req[s].user /\ req'[s].key = req[s].key
         /\ req'[s].scope = req[s].scope /\ req'[s].vault = req[s].vault
         /\ req'[s].entry = req[s].entry /\ req'[s].name = req[s].name /\ req'[s].set = req[s].set
         /\ req'[s].file = req[s].file /\ req'[s].left = req[s].left /\ req'[s].seen = req[s].seen
         /\ req'[s].touched = req[s].touched /\ req'[s].wrote = req[s].wrote
         /\ req'[s].ok = req[s].ok /\ req'[s].orphan = req[s].orphan
         /\ req'[s].alone => req[s].alone /\ (InFlight(s) => UNCHANGED <<vault, entry>>)
BY DEF Bystander, TypeOK, RequestState

\* What is known of a request stays known while others make their steps.
LEMMA BystanderInv ==
  ASSUME TypeOK, NEW s \in Request, RequestInv(s), Bystander(s), RowsKept, KeysKept
  PROVE  RequestInv(s)'
<1> USE BystanderFields
<1>0. req[s] \in RequestState
  BY DEF TypeOK
<1>1. Staged(s)'
  BY DEF RequestInv, Staged, InFlight
<1>2. \A e \in Known : e \in Known' /\ entry'[e].vault = entry[e].vault
  BY DEF Known, RowsKept
<1>3. Filled(s)'
  BY <1>2 DEF RequestInv, Filled, InFlight
<1>4. IsApi(s) => IsApi(s)' /\ req[s].key \in Key
  BY <1>0 DEF IsApi, RequestState
<1>5. Keyed(s)'
  BY <1>0 DEF RequestInv, Keyed, IsApi, KeysKept, RequestState
<1>6. \A v \in Vault : \A u : Made(v, u) => Made(v, u)'
  BY DEF Made, RowsKept
<1>7. Checked(s)'
  <2>1. req[s].pc = "write" => req[s].entry \in Known
    BY DEF RequestInv, Staged, Filled, InFlight
  <2>2. req[s].pc \in {"made", "insert"} => req[s].vault \in Vault
    BY DEF RequestInv, Filled
  <2>3. req[s].pc = "reveal" => \A e \in req'[s].set : e \in Known' /\ CanAccess(s, entry[e].vault)' 
    BY <1>2 DEF RequestInv, Checked, CanAccess
  <2>4. QED BY <1>2, <1>6, <2>1, <2>2, <2>3 DEF RequestInv, Checked, IsApi, CanAccess
<1>8. Scoped(s)'
  <2>1. req[s].touched \subseteq Vault
    BY <1>0 DEF RequestState
  <2>2. ASSUME IsApi(s)' PROVE Scoped(s)'
    <3>1. IsApi(s) /\ req[s].key \in Key /\ key[req[s].key].state # "unused"
      BY <1>0, <2>2 DEF RequestInv, Keyed, IsApi, RequestState
    <3>2. /\ key'[req[s].key].owner = key[req[s].key].owner
          /\ key'[req[s].key].scope = key[req[s].key].scope
          /\ key'[req[s].key].write = key[req[s].key].write
      BY <3>1 DEF KeysKept
    <3>3. QED BY <1>6, <2>1, <3>1, <3>2 DEF RequestInv, Scoped
  <2>3. QED BY <2>2 DEF Scoped
<1>9. QED BY <1>1, <1>3, <1>5, <1>7, <1>8 DEF RequestInv

-----------------------------------------------------------------------------
(* The statements of a request.                                               *)

\* What the request that makes a step has to show.
Acts(r) == /\ req' \in [Request -> RequestState]
           /\ \A s \in Request \ {r} : Bystander(s)
           /\ RequestInv(r)'

Holds == UNCHANGED <<vault, entry, key>>

\* The key of an API call is one of the keys, and in use.
LEMMA KeyInUse ==
  ASSUME Inv, NEW r \in Request, IsApi(r)
  PROVE  /\ req[r].key \in Key /\ key[req[r].key].state # "unused"
         /\ key[req[r].key] \in [state : RowState \cup {"revoked"}, owner : User,
                                 scope : SUBSET Vault, write : BOOLEAN]
<1>1. req[r].key \in Key /\ key[req[r].key].state # "unused"
  BY DEF Inv, RequestInv, Keyed, IsApi, TypeOK, RequestState
<1>2. QED BY <1>1, UsedRows DEF Inv

\* A request that is answered has given out or changed what is its own.
LEMMA ToAudit ==
  ASSUME Inv, NEW r \in Request, NEW q, Becomes(r, q), Holds,
         req[r].pc \notin {"idle", "auth", "deny", "done"},
         q.pc = "audit", q.op = req[r].op, q.key = req[r].key, q.user = req[r].user,
         q.scope = req[r].scope, q.name = req[r].name, q.entry = req[r].entry,
         q.wrote = req[r].wrote,
         q.op = "save" /\ q.ok => q.name \in Name,
         IsApi(r) => \A v \in q.touched \ req[r].touched : Made(v, req[r].user) /\ CanAccess(r, v)
  PROVE  Acts(r)
<1> USE DEF Holds
<1>1. req'[r] = q /\ req[r] \in RequestState
  BY DEF Becomes, Inv, TypeOK
<1>2. Staged(r)'
  BY <1>1 DEF Inv, RequestInv, Staged, InFlight
<1>3. Filled(r)'
  BY <1>1 DEF Inv, RequestInv, Filled, InFlight, Known
<1>4. Keyed(r)'
  BY <1>1 DEF Inv, RequestInv, Keyed, IsApi
<1>5. Checked(r)'
  BY <1>1 DEF Checked
<1>6. Scoped(r)'
  BY <1>1 DEF Inv, RequestInv, Scoped, Keyed, IsApi, Made, CanAccess
<1>7. QED BY <1>2, <1>3, <1>4, <1>5, <1>6 DEF Acts, Becomes, RequestInv

\* Refusing is such an answer.
LEMMA RefuseActs ==
  ASSUME Inv, NEW r \in Request, Refuse(r), Holds,
         req[r].pc \notin {"idle", "auth", "deny", "audit", "done"}
  PROVE  Acts(r)
<1> DEFINE q == [req[r] EXCEPT !.pc = "audit"]
<1>1. q \in RequestState
  BY DEF Inv, TypeOK, RequestState, Pc
<1>2. Becomes(r, q)
  BY <1>1, SetBecomes DEF Inv, Refuse, Goto, Holds
<1>3. req[r] \in RequestState /\ ~req[r].ok
  BY DEF Inv, TypeOK, RequestInv, Staged, InFlight
<1>4. QED BY <1>2, <1>3, ToAudit DEF RequestState

\* So is giving out what was found in vaults of the owner and the scope.
LEMMA SucceedActs ==
  ASSUME Inv, NEW r \in Request, NEW V \in SUBSET Vault, Set(r, Succeed(r, V)), Holds,
         req[r].pc \notin {"idle", "auth", "deny", "done"},
         req[r].op = "save" => req[r].name \in Name,
         IsApi(r) => \A v \in V : Made(v, req[r].user) /\ CanAccess(r, v)
  PROVE  Acts(r)
<1> DEFINE q == Succeed(r, V)
<1>0. req[r] \in RequestState /\ req[r].touched \cup V \in SUBSET Vault
  BY DEF Inv, TypeOK, RequestState
<1>1. q \in RequestState
  BY <1>0 DEF RequestState, Pc, Succeed
<1>2. Becomes(r, q)
  BY <1>1, SetBecomes DEF Inv, Holds
<1>3. req[r] \in RequestState
  BY DEF Inv, TypeOK
<1>4. QED BY <1>2, <1>3, ToAudit DEF RequestState, Succeed

\* The owner's vaults and entries are in use.
LEMMA OwnVaults ==
  ASSUME Inv, NEW u
  PROVE  /\ VaultsOf(u) \subseteq Vault /\ \A v \in VaultsOf(u) : Made(v, u)
         /\ EntriesOf(u) \subseteq Known
         /\ \A e \in EntriesOf(u) : entry[e].vault \in Vault /\ Made(entry[e].vault, u)
BY DEF VaultsOf, EntriesOf, Known, Made

\* The list handlers and the end of an import.
LEMMA ListActs ==
  ASSUME Inv, NEW r \in Request,
         ListVaults(r) \/ ListEntries(r) \/ FinishImport(r)
  PROVE  Acts(r)
<1>1. CASE ListVaults(r)
  <2> DEFINE found == {w \in VaultsOf(req[r].user) : CanAccess(r, w) /\ req[r].vault \in {None, w}}
  <2>1. found \in SUBSET Vault /\ \A v \in found : Made(v, req[r].user) /\ CanAccess(r, v)
    BY OwnVaults
  <2>2. CASE Refuse(r)
    BY <1>1, <2>2, RefuseActs DEF ListVaults, At, Holds
  <2>3. CASE Set(r, Succeed(r, found))
    BY <1>1, <2>1, <2>3, SucceedActs DEF ListVaults, At, Holds
  <2>4. QED BY <1>1, <2>2, <2>3 DEF ListVaults
<1>2. CASE ListEntries(r)
  <2> DEFINE V == Holding(Listed(r, req[r].vault))
  <2>1. CASE Refuse(r)
    BY <1>2, <2>1, RefuseActs DEF ListEntries, At, Holds
  <2>2. CASE Set(r, Succeed(r, V)) /\ ~(req[r].vault # None /\ ~CanAccess(r, req[r].vault))
    <3>1. V \in SUBSET Vault /\ \A v \in V : Made(v, req[r].user) /\ CanAccess(r, v)
      BY <2>2, OwnVaults DEF Holding, Listed
    <3>2. QED BY <1>2, <2>2, <3>1, SucceedActs DEF ListEntries, At, Holds
  <2>3. QED BY <1>2, <2>1, <2>2 DEF ListEntries
<1>3. CASE FinishImport(r)
  <2>1. req[r].pc = "rows" /\ req[r].op = "import"
    BY <1>3 DEF FinishImport, At, Inv, RequestInv, Staged
  <2>2. Set(r, Succeed(r, {})) /\ Holds
    BY <1>3 DEF FinishImport, Holds
  <2>3. QED BY <2>1, <2>2, SucceedActs
<1>4. QED BY <1>1, <1>2, <1>3

\* An idle request is a request state, and nothing is known of it.
LEMMA IdleActs ==
  ASSUME Inv, NEW r \in Request, NEW q, Becomes(r, q), Holds, q \in {Idle} \/ q.pc = "done",
         q.pc = "done" => /\ q.key = req[r].key /\ q.touched = {} /\ q.wrote = req[r].wrote
  PROVE  Acts(r)
<1>1. req'[r] = q /\ q.pc \in {"idle", "done"}
  BY DEF Becomes, Idle
<1>2. Staged(r)' /\ Filled(r)' /\ Checked(r)'
  BY <1>1 DEF Staged, Filled, Checked, InFlight
<1>3. Keyed(r)' /\ Scoped(r)'
  BY <1>1 DEF Inv, RequestInv, Keyed, Scoped, IsApi, Idle, Holds
<1>4. QED BY <1>2, <1>3 DEF Acts, Becomes, RequestInv

\* The end of a request.
LEMMA OverActs ==
  ASSUME Inv, NEW r \in Request, NEW live \in BOOLEAN, NEW orphan \in BOOLEAN,
         Set(r, Over(r, live, orphan)), Holds
  PROVE  Acts(r)
<1> DEFINE q == Over(r, live, orphan)
<1>1. Idle \in RequestState /\ req[r] \in RequestState
  BY DEF Idle, RequestState, Pc, Inv, TypeOK
<1>2. CASE req[r].wrote
  <2>1. q \in RequestState
    <3>1. q = [pc |-> "done", op |-> req[r].op, call |-> req[r].call, live |-> live, alone |-> TRUE,
               user |-> req[r].user, key |-> req[r].key, scope |-> {}, vault |-> None,
               entry |-> req[r].entry, name |-> None, set |-> {}, file |-> {}, left |-> {},
               seen |-> {}, touched |-> {}, wrote |-> TRUE, ok |-> req[r].ok, orphan |-> orphan]
      BY <1>2 DEF Over, Idle
    <3> HIDE DEF q
    <3>2. QED BY <1>1, <3>1 DEF RequestState, Pc
  <2>2. q.pc = "done" /\ q.key = req[r].key /\ q.touched = {} /\ q.wrote = req[r].wrote
    BY <1>2 DEF Over, Idle
  <2>3. Becomes(r, q)
    BY <2>1, SetBecomes DEF Inv, Holds
  <2> HIDE DEF q
  <2>4. QED BY <2>2, <2>3, IdleActs
<1>3. CASE ~req[r].wrote
  <2>1. Becomes(r, Idle)
    BY <1>1, <1>3, SetBecomes DEF Inv, Holds, Over
  <2>2. QED BY <2>1, IdleActs DEF Idle
<1>4. QED BY <1>1, <1>2, <1>3 DEF RequestState

\* The check of the key gives a request the owner and the scope of the key.
LEMMA AuthenticateActs ==
  ASSUME Inv, NEW r \in Request, Authenticate(r)
  PROVE  Acts(r)
<1> USE DEF Holds
<1>1. req[r] \in RequestState /\ req[r].pc = "auth" /\ req[r].op \in ApiOps \cup {"saved"}
  BY DEF Inv, TypeOK, Authenticate, At, RequestInv, Staged
<1>2. IsApi(r) /\ req[r].op \notin {"newEntry", "import", "none"}
  BY <1>1 DEF Inv, RequestInv, Staged, InFlight, IsApi, ApiOps, ReadOps, WriteOps
<1>3. CASE Goto(r, "deny")
  <2> DEFINE q == [req[r] EXCEPT !.pc = "deny"]
  <2>1. q \in RequestState
    BY <1>1 DEF RequestState, Pc
  <2>2. Becomes(r, q)
    BY <1>3, <2>1, SetBecomes DEF Goto, Inv, Authenticate
  <2>3. req'[r] = q
    BY <2>2 DEF Becomes
  <2>4. RequestInv(r)'
    BY <1>1, <1>2, <2>3 DEF Inv, RequestInv, Staged, Filled, Keyed, Checked, Scoped, InFlight,
                            IsApi, Known, Authenticate, Made, RequestState
  <2>5. QED BY <2>2, <2>4 DEF Acts, Becomes
<1>4. ASSUME NEW pc \in {"audit", FirstPc(req[r].op, req[r].vault)},
             Set(r, [req[r] EXCEPT !.user = key[req[r].key].owner, !.scope = key[req[r].key].scope,
                                   !.pc = pc]),
             req[r].op \in WriteOps => key[req[r].key].write,
             pc = "audit" \/ ~(/\ req[r].op = "create" /\ key[req[r].key].scope # {}
                               /\ req[r].vault \notin key[req[r].key].scope),
             pc = "audit" => req[r].op = "create"
      PROVE  Acts(r)
  <2> DEFINE q == [req[r] EXCEPT !.user = key[req[r].key].owner, !.scope = key[req[r].key].scope,
                                 !.pc = pc]
  <2>1. pc \in {"audit", "list", "read", "default", "owns"}
    BY <1>4 DEF FirstPc, Placing
  <2>2. q \in RequestState
    BY <1>1, <1>2, <2>1, KeyInUse DEF RequestState, Pc
  <2>3. Becomes(r, q)
    BY <1>4, <2>2, SetBecomes DEF Inv, Authenticate
  <2>4. /\ req'[r] = q /\ q.pc = pc /\ q.op = req[r].op /\ q.user = key[req[r].key].owner
        /\ q.scope = key[req[r].key].scope /\ q.key = req[r].key /\ q.entry = req[r].entry
        /\ q.name = req[r].name /\ q.vault = req[r].vault /\ q.touched = req[r].touched
        /\ q.wrote = req[r].wrote /\ q.set = req[r].set /\ q.ok = req[r].ok
    BY <1>1, <2>3 DEF Becomes, RequestState
  <2> HIDE DEF q
  <2>5. /\ pc = "list" => req[r].op \in {"vaults", "list", "match"}
        /\ pc = "read" => req[r].op \in {"get", "code", "save", "saved", "update", "delete"}
        /\ pc = "default" => req[r].op = "create" /\ req[r].vault = None
        /\ pc = "owns" => req[r].op = "create" /\ req[r].vault \in Vault
    BY <1>1, <1>4, <2>1 DEF FirstPc, Placing, ApiOps, ReadOps, WriteOps, RequestState
  <2>6. Staged(r)'
    BY <1>1, <1>2, <2>1, <2>4, <2>5 DEF Inv, RequestInv, Staged, InFlight, IsApi
  <2>7. Filled(r)'
    BY <1>1, <1>2, <1>4, <2>1, <2>4, <2>5, KeyInUse
       DEF Inv, RequestInv, Filled, InFlight, Known, Authenticate
  <2>8. Keyed(r)'
    BY <1>2, <1>4, <2>4 DEF Inv, RequestInv, Keyed, IsApi, Authenticate
  <2>9. Checked(r)'
    BY <1>2, <1>4, <2>1, <2>4, <2>5, KeyInUse, AccessAssumption
       DEF Checked, IsApi, CanAccess
  <2>10. Scoped(r)'
    BY <1>2, <2>4 DEF Inv, RequestInv, Scoped, IsApi, Made, Authenticate
  <2>11. QED BY <2>3, <2>6, <2>7, <2>8, <2>9, <2>10 DEF Acts, Becomes, RequestInv
<1>5. QED
  <2> DEFINE k == key[req[r].key]
  <2>1. CASE /\ req[r].op \in WriteOps => k.write
             /\ req[r].op = "create" /\ k.scope # {} /\ req[r].vault \notin k.scope
             /\ Set(r, [req[r] EXCEPT !.user = k.owner, !.scope = k.scope, !.pc = "audit"])
    BY <1>4, <2>1
  <2>2. CASE /\ req[r].op \in WriteOps => k.write
             /\ ~(req[r].op = "create" /\ k.scope # {} /\ req[r].vault \notin k.scope)
             /\ Set(r, [req[r] EXCEPT !.user = k.owner, !.scope = k.scope,
                                      !.pc = FirstPc(req[r].op, req[r].vault)])
    <3>1. FirstPc(req[r].op, req[r].vault) # "audit"
      BY DEF FirstPc, Placing
    <3>2. QED BY <1>4, <2>2, <3>1
  <2>3. QED BY <1>3, <2>1, <2>2 DEF Authenticate

\* The end of a call and its audit row; the extension's PUT begins anew.
LEMMA RecordActs ==
  ASSUME Inv, NEW r \in Request, RecordDenied(r) \/ RecordAudit(r) \/ Disconnect(r)
  PROVE  Acts(r)
<1>1. CASE RecordDenied(r)
  BY <1>1, OverActs DEF RecordDenied, Holds
<1>2. CASE Disconnect(r)
  BY <1>2, OverActs DEF Disconnect, Holds
<1>3. CASE RecordAudit(r)
  <2> DEFINE orphan == IsApi(r) /\ key[req[r].key].state = "deleted"
             q == Resave(r)
  <2>1. CASE Set(r, Over(r, TRUE, orphan))
    <3>1. orphan \in BOOLEAN
      OBVIOUS
    <3> HIDE DEF orphan
    <3>2. QED BY <1>3, <2>1, <3>1, OverActs DEF RecordAudit, Holds
  <2>2. CASE req[r].op = "save" /\ req[r].ok /\ Set(r, q)
    <3>1. /\ req[r] \in RequestState /\ req[r].pc = "audit" /\ calls \in Nat
          /\ req[r].name \in Name /\ req[r].entry \in Known /\ IsApi(r)
      BY <1>3, <2>2 DEF RecordAudit, At, Inv, TypeOK, RequestInv, Filled, Staged, InFlight, IsApi
    <3>2. q \in RequestState
      <4>1. calls + 1 \in Nat
        BY <3>1
      <4>2. QED BY <3>1, <4>1 DEF Resave, RequestState, Pc
    <3>3. Becomes(r, q)
      BY <1>3, <2>2, <3>2, SetBecomes DEF RecordAudit, Inv
    <3>4. /\ req'[r] = q /\ q.pc = "auth" /\ q.op = "saved" /\ q.key = req[r].key
          /\ q.name = req[r].name /\ q.entry = req[r].entry /\ q.touched = req[r].touched
          /\ q.wrote = req[r].wrote /\ ~q.ok
      BY <3>1, <3>3 DEF Becomes, Resave, RequestState
    <3>5. Holds
      BY <1>3 DEF RecordAudit, Holds
    <3> HIDE DEF q
    <3>6. Staged(r)' /\ Filled(r)' /\ Checked(r)'
      BY <3>1, <3>4, <3>5 DEF Staged, Filled, Checked, InFlight, Known, Holds, IsApi
    <3>7. Keyed(r)' /\ Scoped(r)'
      BY <3>1, <3>4, <3>5 DEF Inv, RequestInv, Keyed, Scoped, IsApi, Holds, Made
    <3>8. QED BY <3>3, <3>6, <3>7 DEF Acts, Becomes, RequestInv
  <2>3. QED BY <1>3, <2>1, <2>2 DEF RecordAudit
<1>4. QED BY <1>1, <1>2, <1>3

\* A request that goes on to reveal entries has checked each of them.
LEMMA ToReveal ==
  ASSUME Inv, NEW r \in Request, NEW q, Becomes(r, q), Holds,
         req[r].pc \in {"list", "read", "reveal"},
         q.pc = "reveal", q.op \in {"get", "code", "save", "match"}, q.op = req[r].op,
         q.key = req[r].key, q.user = req[r].user, q.scope = req[r].scope,
         q.entry = req[r].entry, q.wrote = req[r].wrote, q.ok = req[r].ok,
         q.op = "save" => q.name \in Name,
         \A e \in q.set : e \in Known /\ CanAccess(r, entry[e].vault),
         IsApi(r) => \A v \in q.touched \ req[r].touched : Made(v, req[r].user) /\ CanAccess(r, v)
  PROVE  Acts(r)
<1> USE DEF Holds
<1>1. req'[r] = q /\ req[r] \in RequestState
  BY DEF Becomes, Inv, TypeOK
<1>2. Staged(r)'
  BY <1>1 DEF Inv, RequestInv, Staged, InFlight
<1>3. Filled(r)'
  BY <1>1 DEF Inv, RequestInv, Filled, InFlight, Known
<1>4. Keyed(r)'
  BY <1>1 DEF Inv, RequestInv, Keyed, IsApi
<1>5. Checked(r)'
  BY <1>1 DEF Checked, CanAccess, Known
<1>6. Scoped(r)'
  BY <1>1 DEF Inv, RequestInv, Scoped, Keyed, IsApi, Made, CanAccess
<1>7. QED BY <1>2, <1>3, <1>4, <1>5, <1>6 DEF Acts, Becomes, RequestInv

\* The matches are the owner's, and in the scope.
LEMMA MatchActs ==
  ASSUME Inv, NEW r \in Request, MatchEntries(r)
  PROVE  Acts(r)
<1>1. /\ req[r] \in RequestState /\ req[r].pc = "list" /\ req[r].op = "match" /\ Holds
  BY DEF MatchEntries, At, Holds, Inv, TypeOK
<1>2. PICK fits \in SUBSET EntriesOf(req[r].user) :
        LET found == {e \in fits : CanAccess(r, entry[e].vault)} IN
        IF found = {} THEN Set(r, Succeed(r, {}))
        ELSE Set(r, [req[r] EXCEPT !.pc = "reveal", !.set = found, !.touched = Holding(found)])
  BY DEF MatchEntries
<1> DEFINE found == {e \in fits : CanAccess(r, entry[e].vault)}
           q == [req[r] EXCEPT !.pc = "reveal", !.set = found, !.touched = Holding(found)]
<1>3. CASE Set(r, Succeed(r, {}))
  BY <1>1, <1>3, SucceedActs
<1>4. CASE Set(r, q)
  <2>1. \A e \in found : /\ e \in Known /\ CanAccess(r, entry[e].vault)
                         /\ entry[e].vault \in Vault /\ Made(entry[e].vault, req[r].user)
    BY OwnVaults
  <2>2. found \in SUBSET Entry /\ Holding(found) \in SUBSET Vault
    BY <2>1 DEF Holding, Known
  <2>3. \A v \in Holding(found) : Made(v, req[r].user) /\ CanAccess(r, v)
    BY <2>1 DEF Holding
  <2> HIDE DEF found
  <2>4. q \in RequestState
    BY <1>1, <2>2 DEF RequestState, Pc
  <2>5. Becomes(r, q)
    BY <1>1, <1>4, <2>4, SetBecomes DEF Inv, Holds
  <2>6. QED BY <1>1, <2>1, <2>3, <2>5, ToReveal DEF RequestState
<1>5. QED BY <1>2, <1>3, <1>4

\* An entry is given out only if it is the owner's still.
LEMMA RevealActs ==
  ASSUME Inv, NEW r \in Request, Reveal(r)
  PROVE  Acts(r)
<1>1. /\ req[r] \in RequestState /\ req[r].pc = "reveal" /\ Holds
      /\ req[r].op \in {"get", "code", "save", "match"}
      /\ req[r].op = "save" => req[r].name \in Name
  BY DEF Reveal, At, Holds, Inv, TypeOK, RequestInv, Staged, Filled
<1>2. PICK e \in req[r].set :
        LET left == [req[r] EXCEPT !.set = @ \ {e}] IN
        IF e \in EntriesOf(req[r].user) /\ (req[r].op = "code" => entry[e].totp)
          THEN IF left.set = {} THEN Set(r, [Succeed(r, Holding({e})) EXCEPT !.set = {}])
               ELSE Set(r, left)
          ELSE IF left.set # {} THEN Set(r, left)
               ELSE Set(r, [left EXCEPT !.pc = "audit", !.ok = req[r].op = "match"])
  BY DEF Reveal
<1>3. \A f \in req[r].set : f \in Known /\ CanAccess(r, entry[f].vault)
  BY <1>1 DEF Inv, RequestInv, Checked
<1> DEFINE left == [req[r] EXCEPT !.set = @ \ {e}]
<1>4. CASE Set(r, left)
  <2>1. left \in RequestState
    BY <1>1 DEF RequestState
  <2>2. Becomes(r, left)
    BY <1>1, <1>4, <2>1, SetBecomes DEF Inv, Holds
  <2>3. QED BY <1>1, <1>3, <2>2, ToReveal DEF RequestState
<1>5. CASE /\ Set(r, [Succeed(r, Holding({e})) EXCEPT !.set = {}]) /\ e \in EntriesOf(req[r].user)
  <2> DEFINE q == [Succeed(r, Holding({e})) EXCEPT !.set = {}]
  <2>1. /\ Holding({e}) = {entry[e].vault} /\ entry[e].vault \in Vault
        /\ Made(entry[e].vault, req[r].user) /\ CanAccess(r, entry[e].vault)
    BY <1>3, <1>5, OwnVaults DEF Holding
  <2>2. /\ q = [req[r] EXCEPT !.pc = "audit", !.ok = TRUE, !.set = {},
                              !.touched = @ \cup {entry[e].vault}]
        /\ req[r].touched \cup {entry[e].vault} \in SUBSET Vault
    BY <1>1, <2>1 DEF Succeed, RequestState
  <2> HIDE DEF q
  <2>3. q \in RequestState
    BY <1>1, <2>2 DEF RequestState, Pc
  <2>4. Becomes(r, q)
    BY <1>1, <1>5, <2>3, SetBecomes DEF Inv, Holds, q
  <2>5. QED BY <1>1, <2>1, <2>2, <2>4, ToAudit DEF RequestState
<1>6. CASE Set(r, [left EXCEPT !.pc = "audit", !.ok = req[r].op = "match"])
  <2> DEFINE b == req[r].op = "match"
             q == [req[r] EXCEPT !.set = @ \ {e}, !.pc = "audit", !.ok = b]
  <2>1. b \in BOOLEAN /\ (b => req[r].op # "save") /\ Set(r, q)
    BY <1>6
  <2> HIDE DEF b
  <2>2. q \in RequestState
    BY <1>1, <2>1 DEF RequestState, Pc
  <2>3. Becomes(r, q)
    BY <1>1, <2>1, <2>2, SetBecomes DEF Inv, Holds
  <2>4. QED BY <1>1, <2>1, <2>3, ToAudit DEF RequestState
<1>7. QED BY <1>2, <1>4, <1>5, <1>6

\* What a request has of its key, and what it has touched, stays with it.
LEMMA KeyStays ==
  ASSUME Inv, NEW r \in Request, NEW q, Becomes(r, q), RowsKept, key' = key,
         req[r].pc \notin {"idle", "auth", "deny", "done"},
         q.op = req[r].op, q.key = req[r].key, q.user = req[r].user, q.scope = req[r].scope,
         IsApi(r) => \A v \in q.touched \ req[r].touched : Made(v, req[r].user) /\ CanAccess(r, v),
         q.touched \subseteq Vault,
         q.wrote = req[r].wrote \/ (IsApi(r) => req[r].op \in WriteOps)
  PROVE  Keyed(r)' /\ Scoped(r)'
<1>1. req'[r] = q /\ req[r] \in RequestState
  BY DEF Becomes, Inv, TypeOK
<1>2. \A v \in Vault : \A u : Made(v, u) => Made(v, u)'
  BY DEF Made, RowsKept
<1>3. Keyed(r)'
  BY <1>1 DEF Inv, RequestInv, Keyed, IsApi
<1>4. ASSUME IsApi(r)' PROVE Scoped(r)'
  <2>1. /\ IsApi(r) /\ req[r].user = key[req[r].key].owner /\ req[r].scope = key[req[r].key].scope
        /\ req[r].op \in WriteOps => key[req[r].key].write
    BY <1>1, <1>4 DEF Inv, RequestInv, Keyed, IsApi
  <2>2. \A v \in q.touched : Made(v, req[r].user) /\ (req[r].scope = {} \/ v \in req[r].scope)
    BY <2>1 DEF Inv, RequestInv, Scoped, CanAccess
  <2>3. q.wrote => key[req[r].key].write
    BY <2>1 DEF Inv, RequestInv, Scoped
  <2>4. QED BY <1>1, <1>2, <2>1, <2>2, <2>3 DEF Scoped
<1>5. QED BY <1>3, <1>4 DEF Scoped

\* Nothing changes in the tables.
LEMMA HoldsKeeps ==
  ASSUME Holds
  PROVE  RowsKept /\ KeysKept /\ (TypeOK => TablesOK')
BY DEF Holds, RowsKept, KeysKept, TypeOK, TablesOK, Sound

\* The read that comes before an entry is given out or changed.
LEMMA ReadActs ==
  ASSUME Inv, NEW r \in Request, ReadEntry(r)
  PROVE  Acts(r)
<1> DEFINE e == req[r].entry
<1>1. /\ req[r] \in RequestState /\ req[r].pc = "read" /\ Holds
      /\ req[r].op \in {"get", "code", "save", "saved", "update", "delete"}
      /\ e \in Known
  BY DEF ReadEntry, At, Holds, Inv, TypeOK, RequestInv, Staged, Filled, InFlight
<1>2. CASE Refuse(r)
  BY <1>1, <1>2, RefuseActs
<1>3. CASE Goto(r, "write") /\ req[r].op \in WriteOps /\ CanAccess(r, entry[e].vault)
  <2> DEFINE q == [req[r] EXCEPT !.pc = "write"]
  <2>1. Becomes(r, q)
    BY <1>1, <1>3, SetBecomes DEF Inv, Holds, Goto, RequestState, Pc
  <2>2. /\ req'[r] = q /\ q.pc = "write" /\ q.op = req[r].op /\ q.key = req[r].key
        /\ q.ok = req[r].ok /\ q.user = req[r].user /\ q.scope = req[r].scope /\ q.entry = e /\ q.name = req[r].name
        /\ q.touched = req[r].touched /\ q.wrote = req[r].wrote
    BY <1>1, <2>1 DEF Becomes, RequestState
  <2> HIDE DEF q
  <2>3. Staged(r)' /\ Filled(r)' /\ Checked(r)'
    BY <1>1, <1>3, <2>2 DEF Inv, RequestInv, Staged, Filled, Checked, InFlight, Known, Holds,
                            CanAccess, WriteOps
  <2>4. Keyed(r)' /\ Scoped(r)'
    <3>1. RowsKept /\ key' = key /\ q.touched \subseteq Vault
      BY <1>1, <2>2, HoldsKeeps DEF Holds, RequestState
    <3>2. QED BY <1>1, <2>1, <2>2, <3>1, KeyStays
  <2>5. QED BY <2>1, <2>3, <2>4 DEF Acts, Becomes, RequestInv
<1>4. CASE /\ Set(r, [req[r] EXCEPT !.pc = "reveal", !.set = {e}, !.name = entry[e].name])
           /\ req[r].op \notin WriteOps /\ e \in EntriesOf(req[r].user)
           /\ CanAccess(r, entry[e].vault)
  <2> DEFINE q == [req[r] EXCEPT !.pc = "reveal", !.set = {e}, !.name = entry[e].name]
  <2>1. e \in Entry /\ entry[e].name \in Name
    BY <1>1, UsedRows DEF Known, Inv
  <2>2. q \in RequestState
    BY <1>1, <2>1 DEF RequestState, Pc
  <2>3. Becomes(r, q)
    BY <1>1, <1>4, <2>2, SetBecomes DEF Inv, Holds
  <2>4. req[r].op \in {"get", "code", "save"}
    BY <1>1, <1>4 DEF WriteOps
  <2>5. QED BY <1>1, <1>4, <2>1, <2>3, <2>4, ToReveal DEF RequestState
<1>5. QED BY <1>2, <1>3, <1>4 DEF ReadEntry

\* The search for a vault: the default one, the destination of an import, one just made, one given.
LEMMA PlaceActs ==
  ASSUME Inv, NEW r \in Request,
         FindDefault(r) \/ FindDestination(r) \/ ReadMade(r) \/ CheckVault(r)
  PROVE  Acts(r)
<1>1. /\ req[r] \in RequestState /\ Holds
      /\ req[r].pc \in {"default", "destination", "made", "owns"}
      /\ req[r].op \in {"create", "newEntry", "import"} /\ req[r].user \in User
      /\ IsApi(r) <=> req[r].op = "create"
  BY DEF FindDefault, FindDestination, ReadMade, CheckVault, At, Holds, Inv, TypeOK, RequestInv,
         Staged, Filled, InFlight, IsApi
<1>2. ASSUME NEW pc \in {"make", "insert", "names", "rows"}, NEW v \in Vault \cup {None},
             Set(r, [req[r] EXCEPT !.pc = pc, !.vault = v]),
             pc = "make" => req[r].pc \in {"default", "destination"},
             pc = "insert" => req[r].pc # "destination" /\ v \in VaultsOf(req[r].user),
             pc = "insert" /\ req[r].op = "import" => req[r].pc = "owns",
             req[r].pc \in {"made", "owns"} => v = req[r].vault,
             pc \in {"names", "rows"} => v \in Vault /\ req[r].op = "import"
      PROVE  Acts(r)
  <2> DEFINE q == [req[r] EXCEPT !.pc = pc, !.vault = v]
  <2>1. q \in RequestState
    BY <1>1 DEF RequestState, Pc
  <2>2. Becomes(r, q)
    BY <1>1, <1>2, <2>1, SetBecomes DEF Inv, Holds
  <2>3. /\ req'[r] = q /\ q.pc = pc /\ q.vault = v /\ q.op = req[r].op /\ q.key = req[r].key
        /\ q.user = req[r].user /\ q.scope = req[r].scope /\ q.entry = req[r].entry
        /\ q.name = req[r].name /\ q.touched = req[r].touched /\ q.wrote = req[r].wrote
        /\ q.ok = req[r].ok
    BY <1>1, <2>2 DEF Becomes, RequestState
  <2> HIDE DEF q
  <2>4. Staged(r)'
    BY <1>1, <1>2, <2>3 DEF Inv, RequestInv, Staged, InFlight
  <2>5. Filled(r)'
    BY <1>1, <1>2, <2>3 DEF Inv, RequestInv, Filled, InFlight, VaultsOf, Known, Holds
  <2>6. pc = "insert" => v \in Vault /\ Made(v, req[r].user)
    BY <1>2, OwnVaults
  <2>7. req[r].pc \in {"default", "destination"} /\ IsApi(r) => req[r].scope = {}
    BY <1>1 DEF Inv, RequestInv, Checked, Staged
  <2>8. Checked(r)'
    BY <1>1, <1>2, <2>3, <2>6, <2>7 DEF Inv, RequestInv, Checked, IsApi, Holds, Made, CanAccess
  <2>9. Keyed(r)' /\ Scoped(r)'
    <3>1. RowsKept /\ key' = key /\ q.touched \subseteq Vault
      BY <1>1, <2>3, HoldsKeeps DEF Holds, RequestState
    <3>2. QED BY <1>1, <2>2, <2>3, <3>1, KeyStays
  <2>10. QED BY <2>2, <2>4, <2>5, <2>8, <2>9 DEF Acts, Becomes, RequestInv
<1>3. ASSUME NEW pc \in Pc
      PROVE  [req[r] EXCEPT !.pc = pc] = [req[r] EXCEPT !.pc = pc, !.vault = req[r].vault]
  BY <1>1 DEF RequestState
<1>4. req[r].vault \in Vault \cup {None}
  BY <1>1 DEF RequestState
<1>5. CASE FindDefault(r)
  <2>0. req[r].op # "import" /\ req[r].pc = "default"
    BY <1>5 DEF FindDefault, At, Inv, RequestInv, Staged
  <2>1. CASE Goto(r, "make")
    BY <1>2, <1>3, <1>4, <1>5, <2>1 DEF Goto, FindDefault, At, Pc
  <2>2. ASSUME NEW v \in Candidates(req[r].user),
               Set(r, [req[r] EXCEPT !.pc = "insert", !.vault = v])
        PROVE  Acts(r)
    BY <1>2, <2>0, <2>2 DEF Candidates, VaultsOf
  <2>3. QED BY <1>5, <2>1, <2>2 DEF FindDefault
<1>6. CASE FindDestination(r)
  <2>0. req[r].op = "import" /\ req[r].pc = "destination"
    BY <1>6 DEF FindDestination, At, Inv, RequestInv, Staged
  <2>1. CASE Goto(r, "make")
    BY <1>2, <1>3, <1>4, <2>0, <2>1 DEF Goto, Pc
  <2>2. ASSUME NEW v \in VaultsOf(req[r].user),
               Set(r, [req[r] EXCEPT !.pc = "names", !.vault = v])
        PROVE  Acts(r)
    BY <1>2, <2>0, <2>2 DEF VaultsOf
  <2>3. QED BY <1>6, <2>1, <2>2 DEF FindDestination
<1>7. CASE ReadMade(r) \/ CheckVault(r)
  <2>1. req[r].pc \in {"made", "owns"} /\ req[r].vault \in Vault
    BY <1>7 DEF ReadMade, CheckVault, At, Inv, RequestInv, Filled
  <2>2. CASE Refuse(r)
    BY <1>1, <2>2, RefuseActs
  <2>3. CASE \/ /\ Goto(r, "insert") /\ OwnsVault(req[r].user, req[r].vault)
                /\ req[r].op = "import" => req[r].pc = "owns"
             \/ req[r].op = "import" /\ (Goto(r, "names") \/ Goto(r, "rows"))
    BY <1>2, <1>3, <1>4, <2>1, <2>3 DEF Goto, OwnsVault, Pc
  <2>4. QED BY <1>7, <2>2, <2>3 DEF ReadMade, CheckVault, Failed, Refuse, At
<1>8. QED BY <1>5, <1>6, <1>7

\* A default vault is its maker's.
LEMMA MakeActs ==
  ASSUME Inv, NEW r \in Request, MakeVault(r)
  PROVE  Acts(r) /\ TablesOK' /\ RowsKept
<1>1. /\ req[r] \in RequestState /\ req[r].pc = "make" /\ req[r].user \in User
      /\ req[r].op \in {"create", "newEntry", "import"} /\ UNCHANGED <<entry, key>>
      /\ IsApi(r) => req[r].op = "create" /\ req[r].scope = {}
      /\ TypeOK
  BY DEF MakeVault, At, Inv, TypeOK, RequestInv, Staged, Filled, Checked, InFlight, IsApi
<1>2. PICK v \in FreshVault :
        /\ vault' = [vault EXCEPT ![v] = NewVault(req[r].user, TRUE)]
        /\ Change(r, [req[r] EXCEPT !.pc = "made", !.vault = v])
  BY DEF MakeVault
<1>3. TablesOK' /\ RowsKept
  BY <1>1, <1>2, NewVaultRows
<1> DEFINE p == [req[r] EXCEPT !.pc = "made", !.vault = v]
           q == [p EXCEPT !.wrote = TRUE]
<1>4. v \in Vault /\ p \in RequestState
  BY <1>1 DEF RequestState, Pc, FreshVault
<1>5. Becomes(r, q)
  BY <1>1, <1>2, <1>4, ChangeBecomes
<1>6. /\ req'[r] = q /\ q.pc = "made" /\ q.vault = v /\ q.op = req[r].op /\ q.key = req[r].key
      /\ q.user = req[r].user /\ q.scope = req[r].scope /\ q.entry = req[r].entry
      /\ q.name = req[r].name /\ q.touched = req[r].touched /\ q.ok = req[r].ok
  BY <1>1, <1>5 DEF Becomes, RequestState
<1> HIDE DEF q
<1>7. Made(v, req[r].user)'
  BY <1>1, <1>2, <1>4, <1>6 DEF Made, NewVault, TypeOK
<1>8. Staged(r)' /\ Filled(r)' /\ Checked(r)'
  <2>1. Staged(r)'
    BY <1>1, <1>6 DEF Inv, RequestInv, Staged, InFlight
  <2>2. Filled(r)'
    BY <1>1, <1>4, <1>6 DEF Inv, RequestInv, Filled, InFlight, Known
  <2>3. Checked(r)'
    BY <1>1, <1>6, <1>7 DEF Checked, IsApi, CanAccess
  <2>4. QED BY <2>1, <2>2, <2>3
<1>9. Keyed(r)' /\ Scoped(r)'
  <2>1. key' = key /\ q.touched \subseteq Vault
    BY <1>1, <1>6 DEF RequestState
  <2>2. QED BY <1>1, <1>3, <1>5, <1>6, <2>1, KeyStays DEF WriteOps
<1>10. QED BY <1>3, <1>5, <1>8, <1>9 DEF Acts, Becomes, RequestInv

\* The fields that the properties of a request look at.
Same(r, q) == /\ q.op = req[r].op /\ q.key = req[r].key /\ q.user = req[r].user
              /\ q.scope = req[r].scope /\ q.ok = req[r].ok

\* An inserted entry is in the vault the request was given, or found, for it.
LEMMA InsertActs ==
  ASSUME Inv, NEW r \in Request, InsertEntry(r)
  PROVE  Acts(r) /\ TablesOK' /\ RowsKept
<1> DEFINE v == req[r].vault
           n == req[r].name
<1>1. /\ req[r] \in RequestState /\ req[r].pc = "insert" /\ UNCHANGED <<vault, key>>
      /\ req[r].op \in {"create", "newEntry", "import"} /\ v \in Vault /\ n \in Name
      /\ Made(v, req[r].user) /\ (IsApi(r) => CanAccess(r, v) /\ req[r].op = "create")
      /\ TypeOK
  BY DEF InsertEntry, At, Inv, TypeOK, RequestInv, Staged, Filled, Checked, InFlight, IsApi
<1>2. CASE Refuse(r) /\ UNCHANGED entry
  BY <1>1, <1>2, RefuseActs, HoldsKeeps DEF Holds
<1>3. CASE Goto(r, "rows") /\ UNCHANGED entry /\ req[r].op = "import"
  <2> DEFINE q == [req[r] EXCEPT !.pc = "rows"]
  <2>1. Becomes(r, q)
    BY <1>1, <1>3, SetBecomes DEF Goto, RequestState, Pc
  <2>2. /\ req'[r] = q /\ q.pc = "rows" /\ q.vault = v /\ Same(r, q) /\ q.entry = req[r].entry
        /\ q.name = n /\ q.touched = req[r].touched /\ q.wrote = req[r].wrote
    BY <1>1, <2>1 DEF Becomes, RequestState, Same
  <2> HIDE DEF q
  <2>3. Staged(r)' /\ Filled(r)' /\ Checked(r)'
    BY <1>1, <1>3, <2>2 DEF Inv, RequestInv, Staged, Filled, Checked, InFlight, Same
  <2>4. RowsKept /\ key' = key /\ q.touched \subseteq Vault /\ TablesOK'
    BY <1>1, <1>3, <2>2, HoldsKeeps DEF Holds, RequestState
  <2>5. Keyed(r)' /\ Scoped(r)'
    BY <1>1, <2>1, <2>2, <2>4, KeyStays DEF Same
  <2>6. QED BY <2>1, <2>3, <2>4, <2>5 DEF Acts, Becomes, RequestInv
<1>4. ASSUME NEW e \in FreshEntry, vault[v].state = "present", ~Named(v, n),
             entry' = [entry EXCEPT ![e] = [state |-> "present", vault |-> v, name |-> n,
                                            totp |-> FALSE]],
             Change(r, [req[r] EXCEPT !.pc = "readBack", !.entry = e, !.touched = @ \cup {v}])
      PROVE  Acts(r) /\ TablesOK' /\ RowsKept
  <2> DEFINE p == [req[r] EXCEPT !.pc = "readBack", !.entry = e, !.touched = @ \cup {v}]
             q == [p EXCEPT !.wrote = TRUE]
  <2>1. TablesOK' /\ RowsKept
    BY <1>1, <1>4, InsertedRows
  <2>2. e \in Entry /\ req[r].touched \cup {v} \in SUBSET Vault
    BY <1>1 DEF FreshEntry, RequestState
  <2>3. p \in RequestState
    BY <1>1, <2>2 DEF RequestState, Pc
  <2>4. Becomes(r, q)
    BY <1>1, <1>4, <2>3, ChangeBecomes
  <2>5. /\ req'[r] = q /\ q.pc = "readBack" /\ q.vault = v /\ Same(r, q) /\ q.entry = e
        /\ q.name = n /\ q.touched = req[r].touched \cup {v} /\ q.wrote
    BY <1>1, <2>4 DEF Becomes, RequestState, Same
  <2> HIDE DEF q
  <2>6. e \in Known'
    BY <1>1, <1>4, <2>2 DEF Known, TypeOK
  <2>7. Staged(r)' /\ Filled(r)' /\ Checked(r)'
    BY <1>1, <2>5, <2>6 DEF Inv, RequestInv, Staged, Filled, Checked, InFlight, Same
  <2>8. Keyed(r)' /\ Scoped(r)'
    BY <1>1, <2>1, <2>2, <2>4, <2>5, KeyStays DEF Same, WriteOps
  <2>9. QED BY <2>1, <2>4, <2>7, <2>8 DEF Acts, Becomes, RequestInv
<1>5. QED BY <1>2, <1>3, <1>4 DEF InsertEntry, Failed, Refuse

\* A change of an entry leaves it in the vault that was checked.
LEMMA WriteActs ==
  ASSUME Inv, NEW r \in Request, WriteEntry(r)
  PROVE  Acts(r) /\ TablesOK' /\ RowsKept
<1> DEFINE e == req[r].entry
           n == req[r].name
           w == entry[e].vault
<1>1. /\ req[r] \in RequestState /\ req[r].pc = "write" /\ UNCHANGED <<vault, key>>
      /\ req[r].op \in {"saved", "update", "delete"} /\ e \in Known
      /\ req[r].op # "delete" => n \in Name
      /\ CanAccess(r, w) /\ TypeOK
  BY DEF WriteEntry, At, Inv, TypeOK, RequestInv, Staged, Filled, Checked, InFlight
<1>2. CASE Refuse(r) /\ UNCHANGED entry
  BY <1>1, <1>2, RefuseActs, HoldsKeeps DEF Holds
<1>3. ASSUME NEW pc \in {"audit", "readBack"}, NEW ok \in BOOLEAN, NEW p,
             p = [req[r] EXCEPT !.touched = @ \cup {w}, !.pc = pc, !.ok = ok],
             Change(r, p), e \in EntriesOf(req[r].user), TablesOK', RowsKept,
             pc = "readBack" => req[r].op # "delete" /\ ok = req[r].ok
      PROVE  Acts(r)
  <2> DEFINE q == [p EXCEPT !.wrote = TRUE]
  <2>1. w \in Vault /\ Made(w, req[r].user) /\ req[r].touched \cup {w} \in SUBSET Vault
    BY <1>1, <1>3, OwnVaults DEF RequestState
  <2>2. p \in RequestState
    BY <1>1, <1>3, <2>1 DEF RequestState, Pc
  <2>3. Becomes(r, q)
    BY <1>1, <1>3, <2>2, ChangeBecomes
  <2>4. /\ req'[r] = q /\ q.pc = pc /\ q.op = req[r].op /\ q.key = req[r].key
        /\ q.user = req[r].user /\ q.scope = req[r].scope /\ q.ok = ok /\ q.entry = e
        /\ q.name = n /\ q.touched = req[r].touched \cup {w} /\ q.wrote
    BY <1>1, <1>3, <2>3 DEF Becomes, RequestState
  <2> HIDE DEF q
  <2>5. e \in Known'
    BY <1>1, <1>3 DEF Known, RowsKept
  <2>6. Staged(r)' /\ Filled(r)' /\ Checked(r)'
    BY <1>1, <1>3, <2>4, <2>5 DEF Inv, RequestInv, Staged, Filled, Checked, InFlight
  <2>7. Keyed(r)' /\ Scoped(r)'
    BY <1>1, <1>3, <2>1, <2>3, <2>4, KeyStays DEF WriteOps
  <2>8. QED BY <2>3, <2>6, <2>7 DEF Acts, Becomes, RequestInv
<1>4. CASE /\ e \in EntriesOf(req[r].user) /\ req[r].op = "delete" /\ entry' = Removed({e})
           /\ Change(r, [req[r] EXCEPT !.touched = @ \cup Holding({e}), !.pc = "audit", !.ok = TRUE])
  <2>1. e \in Entry /\ entry[e].state = "present"
    BY <1>4 DEF EntriesOf
  <2>2. TablesOK' /\ RowsKept
    BY <1>1, <1>4, <2>1, RemovedRows DEF TypeOK
  <2>3. Holding({e}) = {w}
    BY DEF Holding
  <2>4. QED BY <1>3, <1>4, <2>2, <2>3
<1>5. CASE /\ e \in EntriesOf(req[r].user) /\ req[r].op # "delete" /\ Updatable(e, n)
           /\ entry' = Updated(e, n)
           /\ Change(r, [req[r] EXCEPT !.touched = @ \cup Holding({e}), !.pc = "readBack"])
  <2>1. e \in Entry
    BY <1>1 DEF Known
  <2>2. TablesOK' /\ RowsKept
    BY <1>1, <1>5, <2>1, UpdatedRows
  <2>3. Holding({e}) = {w}
    BY DEF Holding
  <2>4. [req[r] EXCEPT !.touched = @ \cup {w}, !.pc = "readBack"]
          = [req[r] EXCEPT !.touched = @ \cup {w}, !.pc = "readBack", !.ok = req[r].ok]
    BY <1>1 DEF RequestState
  <2>5. req[r].ok \in BOOLEAN
    BY <1>1 DEF RequestState
  <2>6. QED BY <1>3, <1>5, <2>2, <2>3, <2>4, <2>5
<1>6. QED BY <1>2, <1>4, <1>5 DEF WriteEntry

\* Reading back an entry, and the rows of an import.
LEMMA RowActs ==
  ASSUME Inv, NEW r \in Request, ReadBack(r) \/ ListNames(r) \/ ImportRow(r)
  PROVE  Acts(r)
<1> DEFINE n == req[r].name
<1>1. /\ req[r] \in RequestState /\ req[r].pc \in {"readBack", "names", "rows"} /\ Holds
      /\ req[r].pc = "readBack" \/ req[r].op = "import"
      /\ req[r].op # "save" /\ req[r].pc # "audit"
      /\ req[r].op = "import" => req[r].vault \in Vault
      /\ req[r].op = "import" /\ req[r].pc = "readBack" => n \in Name
  BY DEF ReadBack, ListNames, ImportRow, At, Holds, Inv, TypeOK, RequestInv, Staged, Filled
<1>2. ASSUME NEW q \in RequestState, Set(r, q), q.pc \in {"rows", "owns"}, Same(r, q),
             q.entry = req[r].entry, q.vault = req[r].vault, q.touched = req[r].touched,
             q.wrote = req[r].wrote, req[r].op = "import", q.pc = "owns" => q.name \in Name
      PROVE  Acts(r)
  <2>1. Becomes(r, q)
    BY <1>1, <1>2, SetBecomes DEF Inv, Holds
  <2>2. req'[r] = q
    BY <2>1 DEF Becomes
  <2>3. Staged(r)' /\ Filled(r)' /\ Checked(r)'
    BY <1>1, <1>2, <2>2 DEF Inv, RequestInv, Staged, Filled, Checked, InFlight, Same, IsApi
  <2>4. RowsKept /\ key' = key /\ q.touched \subseteq Vault
    BY <1>1, <1>2, HoldsKeeps DEF Holds, RequestState
  <2>5. Keyed(r)' /\ Scoped(r)'
    BY <1>1, <1>2, <2>1, <2>4, KeyStays DEF Same
  <2>6. QED BY <2>1, <2>3, <2>5 DEF Acts, Becomes, RequestInv
<1>3. CASE ReadBack(r)
  <2>1. CASE Refuse(r)
    BY <1>1, <1>3, <2>1, RefuseActs DEF ReadBack, At
  <2>2. CASE Set(r, Succeed(r, {}))
    BY <1>1, <2>2, SucceedActs
  <2>3. CASE req[r].op = "import" /\ Goto(r, "rows")
    <3>1. [req[r] EXCEPT !.pc = "rows"] \in RequestState
      BY <1>1 DEF RequestState, Pc
    <3>2. QED BY <1>1, <1>2, <2>3, <3>1 DEF Goto, Same, RequestState
  <2>4. CASE /\ req[r].op = "import"
             /\ Set(r, [req[r] EXCEPT !.pc = "rows", !.seen = @ \cup {Fold[n]}])
    <3>1. req[r].seen \cup {Fold[n]} \in SUBSET Name
      BY <1>1, <1>3, <2>4, AccessAssumption DEF ReadBack, At, RequestState
    <3>2. [req[r] EXCEPT !.pc = "rows", !.seen = @ \cup {Fold[n]}] \in RequestState
      BY <1>1, <3>1 DEF RequestState, Pc
    <3>3. QED BY <1>1, <1>2, <2>4, <3>2 DEF Same, RequestState
  <2>5. QED BY <1>3, <2>1, <2>2, <2>3, <2>4 DEF ReadBack, Failed, Refuse
<1>4. CASE ListNames(r)
  <2> DEFINE S == {Fold[entry[e].name] : e \in NamesFrom(r)}
             q == [req[r] EXCEPT !.pc = "rows", !.seen = S]
  <2>1. \A e \in NamesFrom(r) : e \in Entry /\ entry[e].name \in Name
    BY UsedRows DEF NamesFrom, EntriesIn, Inv
  <2>2. S \in SUBSET Name
    BY <2>1, AccessAssumption
  <2> HIDE DEF S
  <2>3. q \in RequestState
    BY <1>1, <2>2 DEF RequestState, Pc
  <2>4. Set(r, q) /\ req[r].op = "import"
    BY <1>1, <1>4 DEF ListNames, At, S
  <2>5. QED BY <1>1, <1>2, <2>3, <2>4 DEF Same, RequestState
<1>5. CASE ImportRow(r)
  <2>1. PICK m \in req[r].left :
          Set(r, [req[r] EXCEPT !.left = @ \ {m}, !.name = m,
                                !.pc = IF Fold[m] \in req[r].seen THEN "rows" ELSE "owns"])
    BY <1>5 DEF ImportRow
  <2> DEFINE pc == IF Fold[m] \in req[r].seen THEN "rows" ELSE "owns"
             q == [req[r] EXCEPT !.left = @ \ {m}, !.name = m, !.pc = pc]
  <2>2. pc \in {"rows", "owns"} /\ m \in Name
    BY <1>1 DEF RequestState
  <2>3. Set(r, q)
    BY <2>1
  <2> HIDE DEF pc
  <2>4. q \in RequestState
    BY <1>1, <2>2 DEF RequestState, Pc
  <2>5. req[r].op = "import"
    BY <1>1, <1>5 DEF ImportRow, At
  <2>6. QED BY <1>1, <1>2, <2>2, <2>3, <2>4, <2>5 DEF Same, RequestState
<1>6. QED BY <1>3, <1>4, <1>5

\* A statement of a request.
LEMMA AdvanceActs ==
  ASSUME Inv, NEW r \in Request, Advance(r) \/ Disconnect(r)
  PROVE  Acts(r) /\ TablesOK' /\ RowsKept /\ key' = key
<1>1. CASE MakeVault(r)
  BY <1>1, MakeActs DEF MakeVault
<1>2. CASE InsertEntry(r)
  BY <1>2, InsertActs DEF InsertEntry
<1>3. CASE WriteEntry(r)
  BY <1>3, WriteActs DEF WriteEntry
<1>4. CASE \/ Authenticate(r) \/ RecordDenied(r) \/ RecordAudit(r) \/ Disconnect(r)
           \/ ListVaults(r) \/ ListEntries(r) \/ MatchEntries(r) \/ Reveal(r) \/ ReadEntry(r)
           \/ FindDefault(r) \/ FindDestination(r) \/ ReadMade(r) \/ CheckVault(r)
           \/ ReadBack(r) \/ ListNames(r) \/ ImportRow(r) \/ FinishImport(r)
  <2>1. Holds
    BY <1>4 DEF Holds, Authenticate, RecordDenied, RecordAudit, Disconnect, ListVaults, ListEntries,
                MatchEntries, Reveal, ReadEntry, FindDefault, FindDestination, ReadMade, CheckVault,
                ReadBack, ListNames, ImportRow, FinishImport
  <2>2. TablesOK' /\ RowsKept /\ key' = key
    BY <2>1, HoldsKeeps DEF Inv, Holds
  <2>3. Acts(r)
    BY <1>4, AuthenticateActs, RecordActs, ListActs, MatchActs, RevealActs, ReadActs, PlaceActs,
       RowActs
  <2>4. QED BY <2>2, <2>3
<1>5. QED BY <1>1, <1>2, <1>3, <1>4 DEF Advance

\* A request that arrives has a key that is in use, or none.
LEMMA ArriveActs ==
  ASSUME Inv, NEW r \in Request,
         \/ \E k \in Key : ApiArrive(r, k)
         \/ \E u \in User, v \in Vault \cup {None}, n \in Name : AdminCreateEntry(r, u, v, n)
         \/ \E u \in User, file \in SUBSET Name : Import(r, u, file)
  PROVE  Acts(r) /\ Holds
<1>0. Idle \in RequestState /\ calls \in Nat /\ calls + 1 \in Nat
  BY DEF Idle, RequestState, Pc, Inv, TypeOK
<1>1. ASSUME NEW op, NEW p \in RequestState, Arrive(r, op, p), ~p.ok, ~p.wrote, p.touched = {},
             \/ /\ p.pc = "auth" /\ op \in ApiOps /\ p.key \in Key /\ key[p.key].state # "unused"
                /\ op \in {"create", "update"} => p.name \in Name
                /\ op \in {"get", "code", "save", "update", "delete"} => p.entry \in Known
             \/ /\ p.pc \in {"owns", "default"} /\ op = "newEntry" /\ p.key = None
                /\ p.user \in User /\ p.name \in Name /\ (p.pc = "owns" => p.vault \in Vault)
             \/ p.pc = "destination" /\ op = "import" /\ p.key = None /\ p.user \in User
      PROVE  Acts(r) /\ Holds
  <2> DEFINE q == [p EXCEPT !.op = op, !.call = calls + 1]
  <2>1. q \in RequestState
    BY <1>0, <1>1 DEF Arrive, RequestState
  <2>2. Becomes(r, q) /\ Holds
    BY <1>1, <2>1, SetBecomes DEF Arrive, Inv, Holds
  <2>3. /\ req'[r] = q /\ q.op = op /\ q.pc = p.pc /\ q.key = p.key /\ q.user = p.user
        /\ q.vault = p.vault /\ q.entry = p.entry /\ q.name = p.name /\ q.touched = {}
        /\ ~q.wrote /\ ~q.ok
    BY <1>1, <2>2 DEF Becomes, RequestState
  <2> HIDE DEF q
  <2>4. p.pc = "auth" => p.key # None /\ op \notin {"newEntry", "import", "saved"}
    BY <1>1, AccessAssumption DEF ApiOps, ReadOps, WriteOps
  <2>5. Staged(r)'
    BY <1>1, <2>3, <2>4 DEF Staged, InFlight
  <2>6. Filled(r)'
    BY <1>1, <2>2, <2>3, <2>4 DEF Filled, InFlight, Known, Holds
  <2>7. Keyed(r)' /\ Scoped(r)'
    BY <1>1, <2>2, <2>3 DEF Keyed, Scoped, IsApi, Holds
  <2>8. Checked(r)'
    BY <1>1, <2>3 DEF Checked, IsApi
  <2>9. QED BY <2>2, <2>5, <2>6, <2>7, <2>8 DEF Acts, Becomes, RequestInv
<1>2. ASSUME NEW k \in Key, NEW op \in ApiOps, NEW v \in Vault \cup {None},
             NEW e \in Entry \cup {None}, NEW n \in Name \cup {None}, ApiCall(r, op, k, v, e, n),
             op \in {"create", "update"} => n \in Name,
             op \in {"get", "code", "save", "update", "delete"} => e \in Known
      PROVE  Acts(r) /\ Holds
  <2> DEFINE p == [Idle EXCEPT !.pc = "auth", !.key = k, !.vault = v, !.entry = e, !.name = n]
  <2>1. p \in RequestState
    BY <1>0 DEF RequestState, Pc
  <2>2. /\ p.pc = "auth" /\ p.key = k /\ p.entry = e /\ p.name = n /\ ~p.ok /\ ~p.wrote
        /\ p.touched = {} /\ key[k].state # "unused" /\ Arrive(r, op, p)
    BY <1>2 DEF ApiCall, Idle
  <2> HIDE DEF p
  <2>3. QED BY <1>1, <1>2, <2>1, <2>2
<1>3. ASSUME NEW k \in Key, ApiArrive(r, k)
      PROVE  Acts(r) /\ Holds
  BY <1>2, <1>3 DEF ApiArrive, ApiOps, ReadOps, WriteOps, Known
<1>4. ASSUME NEW u \in User, NEW v \in Vault \cup {None}, NEW n \in Name, AdminCreateEntry(r, u, v, n)
      PROVE  Acts(r) /\ Holds
  <2> DEFINE p == [Idle EXCEPT !.pc = Placing(v), !.user = u, !.vault = v, !.name = n]
  <2>1. Placing(v) \in {"owns", "default"} /\ (Placing(v) = "owns" => v \in Vault)
    BY DEF Placing
  <2>2. p \in RequestState
    BY <1>0, <2>1 DEF RequestState, Pc
  <2>3. /\ p.pc = Placing(v) /\ p.user = u /\ p.vault = v /\ p.name = n /\ p.key = None /\ ~p.ok
        /\ ~p.wrote /\ p.touched = {} /\ Arrive(r, "newEntry", p)
    BY <1>4 DEF AdminCreateEntry, Idle
  <2> HIDE DEF p
  <2>4. QED BY <1>1, <2>1, <2>2, <2>3
<1>5. ASSUME NEW u \in User, NEW file \in SUBSET Name, Import(r, u, file)
      PROVE  Acts(r) /\ Holds
  <2> DEFINE p == [Idle EXCEPT !.pc = "destination", !.user = u, !.file = file, !.left = file]
  <2>1. p \in RequestState
    BY <1>0 DEF RequestState, Pc
  <2>2. /\ p.pc = "destination" /\ p.user = u /\ p.key = None /\ ~p.ok
        /\ ~p.wrote /\ p.touched = {} /\ Arrive(r, "import", p)
    BY <1>5 DEF Import, Idle
  <2> HIDE DEF p
  <2>3. QED BY <1>1, <2>1, <2>2
<1>6. QED BY <1>3, <1>4, <1>5

\* The panel's statements leave the requests but for their flags, and keep rows and keys.
LEMMA PanelKeeps ==
  ASSUME Inv, Panel
  PROVE  /\ req' \in [Request -> RequestState] /\ \A s \in Request : Bystander(s)
         /\ TablesOK' /\ key' \in [Key -> KeyRow] /\ RowsKept /\ KeysKept
<1> USE DEF Inv
<1>1. ASSUME NEW u \in User, NEW main \in BOOLEAN, CreateVault(u, main)
      PROVE  TablesOK' /\ RowsKept
  BY <1>1, NewVaultRows DEF CreateVault
<1>2. ASSUME NEW u \in User, NEW v \in Vault, NEW main \in BOOLEAN, UpdateVault(u, v, main)
      PROVE  TablesOK' /\ RowsKept
  BY <1>2, EditedVaultRows DEF UpdateVault, VaultsOf
<1>3. ASSUME NEW u \in User, NEW v \in Vault, DeleteVault(u, v)
      PROVE  TablesOK' /\ RowsKept
  <2>1. vault[v].state = "present" /\ vault' = [vault EXCEPT ![v].state = "deleted"]
    BY <1>3 DEF DeleteVault, VaultsOf
  <2>2. [vault[v] EXCEPT !.state = "deleted"] \in VaultRow
    BY <2>1, UsedRows DEF VaultRow, RowState
  <2>3. vault' \in [Vault -> VaultRow]
    BY <2>1, <2>2 DEF TypeOK
  <2>4. entry' = Removed(EntriesIn(v))
    BY <1>3 DEF DeleteVault, Within
  <2>5. \A e \in EntriesIn(v) : e \in Entry /\ entry[e].state = "present"
    BY DEF EntriesIn
  <2>6. \A w \in Vault : \/ vault'[w] = vault[w]
                         \/ /\ vault[w].state = "present" /\ EntriesIn(w) \subseteq EntriesIn(v)
                            /\ vault'[w] = [vault[w] EXCEPT !.state = "deleted"]
    BY <2>1 DEF TypeOK
  <2>7. QED BY <2>3, <2>4, <2>5, <2>6, RemovedRows
<1>4. ASSUME NEW u \in User, NEW e \in Entry, NEW n \in Name, AdminUpdateEntry(u, e, n)
      PROVE  TablesOK' /\ RowsKept
  BY <1>4, UpdatedRows DEF AdminUpdateEntry
<1>5. ASSUME NEW u \in User, NEW e \in Entry, AdminDeleteEntry(u, e)
      PROVE  TablesOK' /\ RowsKept
  BY <1>5, RemovedRows DEF AdminDeleteEntry, EntriesOf, TypeOK
<1>6. ASSUME NEW u \in User, NEW e \in Entry, NEW some \in BOOLEAN, SetSecret(u, e, some)
      PROVE  TablesOK' /\ RowsKept
  BY <1>6, SecretRows DEF SetSecret, EntriesOf
<1>7. CASE key' = key /\ Noticed /\ TablesOK' /\ RowsKept
  BY <1>7, NoticedByAll DEF KeysKept, TypeOK
<1>8. CASE UNCHANGED <<vault, entry, req>> /\ key' \in [Key -> KeyRow] /\ KeysKept
  <2>1. TablesOK' /\ RowsKept
    BY <1>8 DEF TypeOK, TablesOK, RowsKept, Sound
  <2>2. QED BY <1>8, <2>1, Unaffected DEF TypeOK
<1>9. ASSUME NEW u \in User, NEW k \in Key, NEW scope \in SUBSET Vault, NEW write \in BOOLEAN,
             CreateKey(u, k, scope, write)
      PROVE  key' \in [Key -> KeyRow] /\ KeysKept
  <2>1. [state |-> "present", owner |-> u, scope |-> scope, write |-> write] \in KeyRow
    BY DEF KeyRow, RowState
  <2>2. QED BY <1>9, <2>1 DEF CreateKey, TypeOK, KeysKept
<1>10. ASSUME NEW k \in Key, NEW state \in {"revoked", "deleted"}, key[k].state # "unused",
              key' = [key EXCEPT ![k].state = state]
      PROVE  key' \in [Key -> KeyRow] /\ KeysKept
  <2>1. [key[k] EXCEPT !.state = state] \in KeyRow
    BY <1>10, UsedRows DEF KeyRow, RowState
  <2>2. QED BY <1>10, <2>1, UsedRows DEF TypeOK, KeysKept
<1>11. ASSUME NEW u \in User, NEW k \in Key, Revoke(u, k) \/ DeleteKey(u, k)
      PROVE  key' \in [Key -> KeyRow] /\ KeysKept
  <2>1. key[k].state # "unused"
    BY <1>11 DEF Revoke, DeleteKey
  <2>2. key' = [key EXCEPT ![k].state = "revoked"] \/ key' = [key EXCEPT ![k].state = "deleted"]
    BY <1>11 DEF Revoke, DeleteKey
  <2>3. QED BY <1>10, <2>1, <2>2
<1>12. CASE \E u \in User, k \in Key :
              \/ \E scope \in SUBSET Vault, write \in BOOLEAN : CreateKey(u, k, scope, write)
              \/ Revoke(u, k) \/ DeleteKey(u, k)
  <2>1. UNCHANGED <<vault, entry, req>>
    BY <1>12 DEF CreateKey, Revoke, DeleteKey
  <2>2. QED BY <1>8, <1>9, <1>11, <1>12, <2>1
<1>13. CASE \E u \in User :
              \/ \E main \in BOOLEAN : CreateVault(u, main)
              \/ \E v \in Vault, main \in BOOLEAN : UpdateVault(u, v, main)
              \/ \E v \in Vault : DeleteVault(u, v)
              \/ \E e \in Entry, n \in Name : AdminUpdateEntry(u, e, n)
              \/ \E e \in Entry : AdminDeleteEntry(u, e)
              \/ \E e \in Entry, some \in BOOLEAN : SetSecret(u, e, some)
  <2>1. key' = key /\ Noticed
    BY <1>13 DEF CreateVault, UpdateVault, DeleteVault, AdminUpdateEntry, AdminDeleteEntry, SetSecret
  <2>2. TablesOK' /\ RowsKept
    BY <1>1, <1>2, <1>3, <1>4, <1>5, <1>6, <1>13
  <2>3. QED BY <1>7, <2>1, <2>2
<1>14. QED BY <1>12, <1>13 DEF Panel

-----------------------------------------------------------------------------
(* Every step.                                                                *)

Arrives(r) ==
  \/ \E k \in Key : ApiArrive(r, k)
  \/ \E u \in User, v \in Vault \cup {None}, n \in Name : AdminCreateEntry(r, u, v, n)
  \/ \E u \in User, file \in SUBSET Name : Import(r, u, file)

\* What a request does of its own.
Own(r) == Arrives(r) \/ Advance(r) \/ Disconnect(r)

\* The audit log and the counter are typed.
LEMMA LogType ==
  ASSUME Inv, [Next]_vars
  PROVE  audit' \subseteq AuditRow /\ calls' \in Nat
<1>1. audit \subseteq AuditRow /\ calls \in Nat /\ calls + 1 \in Nat
  BY DEF Inv, TypeOK
<1>2. calls' \in {calls, calls + 1}
  <2>1. CASE Panel
    BY <2>1 DEF Panel, CreateVault, UpdateVault, DeleteVault, AdminUpdateEntry, AdminDeleteEntry,
                SetSecret, CreateKey, Revoke, DeleteKey, PanelCall
  <2>2. ASSUME NEW r \in Request, Arrives(r) PROVE calls' = calls + 1
    BY <2>2 DEF Arrives, ApiArrive, AdminCreateEntry, Import, ApiCall, Arrive
  <2>3. ASSUME NEW r \in Request, Advance(r) \/ Disconnect(r) PROVE calls' \in {calls, calls + 1}
    BY <2>3 DEF Advance, Authenticate, RecordDenied, RecordAudit, Disconnect, ListVaults,
                ListEntries, MatchEntries, Reveal, ReadEntry, WriteEntry, FindDefault,
                FindDestination, MakeVault, ReadMade, CheckVault, InsertEntry, ReadBack, ListNames,
                ImportRow, FinishImport
  <2>4. QED BY <2>1, <2>2, <2>3 DEF Next, vars, Arrives
<1>3. audit' \subseteq AuditRow
  <2>1. ASSUME NEW u, NEW k, DeleteKey(u, k) PROVE audit' \subseteq AuditRow
    <3>1. \A a \in AuditRow : [a EXCEPT !.key = None] \in AuditRow
      BY DEF AuditRow
    <3>2. audit' = {IF a.key = k THEN [a EXCEPT !.key = None] ELSE a : a \in audit}
      BY <2>1 DEF DeleteKey, Detached
    <3>3. QED BY <1>1, <3>1, <3>2
  <2>2. ASSUME NEW r \in Request, RecordDenied(r) PROVE audit' \subseteq AuditRow
    BY <1>1, <2>2 DEF RecordDenied, AuditRow, Inv, TypeOK, RequestState
  <2>3. ASSUME NEW r \in Request, RecordAudit(r) PROVE audit' \subseteq AuditRow
    <3>1. [call |-> req[r].call, key |-> req[r].key, owner |-> req[r].user] \in AuditRow
      BY DEF AuditRow, Inv, TypeOK, RequestState
    <3>2. QED BY <1>1, <2>3, <3>1 DEF RecordAudit
  <2>4. CASE UNCHANGED audit
    BY <1>1, <2>4
  <2>5. CASE Panel
    BY <2>1, <2>4, <2>5 DEF Panel, CreateVault, UpdateVault, DeleteVault, AdminUpdateEntry,
                            AdminDeleteEntry, SetSecret, CreateKey, Revoke
  <2>6. ASSUME NEW r \in Request, Arrives(r) PROVE UNCHANGED audit
    BY <2>6 DEF Arrives, ApiArrive, AdminCreateEntry, Import, ApiCall, Arrive
  <2>7. ASSUME NEW r \in Request, Advance(r) \/ Disconnect(r) PROVE audit' \subseteq AuditRow
    BY <2>2, <2>3, <2>4, <2>7
       DEF Advance, Authenticate, Disconnect, ListVaults, ListEntries, MatchEntries, Reveal,
           ReadEntry, WriteEntry, FindDefault, FindDestination, MakeVault, ReadMade, CheckVault,
           InsertEntry, ReadBack, ListNames, ImportRow, FinishImport
  <2>8. QED BY <2>4, <2>5, <2>6, <2>7 DEF Next, vars, Arrives
<1>4. QED BY <1>1, <1>2, <1>3

\* A step is a request's own, and the others stand by, or all do.
LEMMA StepShape ==
  ASSUME Inv, [Next]_vars
  PROVE  /\ req' \in [Request -> RequestState] /\ TablesOK' /\ key' \in [Key -> KeyRow]
         /\ RowsKept /\ KeysKept
         /\ \A s \in Request : Bystander(s) \/ (Own(s) /\ RequestInv(s)')
<1>1. CASE Panel
  BY <1>1, PanelKeeps
<1>2. ASSUME NEW r \in Request, Own(r)
      PROVE  /\ req' \in [Request -> RequestState] /\ TablesOK' /\ key' \in [Key -> KeyRow]
             /\ RowsKept /\ KeysKept
             /\ \A s \in Request : Bystander(s) \/ (Own(s) /\ RequestInv(s)')
  <2>1. Acts(r) /\ TablesOK' /\ RowsKept /\ key' = key
    BY <1>2, AdvanceActs, ArriveActs, HoldsKeeps DEF Own, Arrives, Inv, Holds
  <2>2. KeysKept
    BY <2>1 DEF KeysKept
  <2>3. QED BY <1>2, <2>1, <2>2 DEF Acts, Inv, TypeOK
<1>3. CASE UNCHANGED vars
  <2>1. Holds /\ req' = req
    BY <1>3 DEF vars, Holds
  <2>2. \A s \in Request : Bystander(s)
    BY <2>1, Unaffected DEF Inv, Holds
  <2>3. QED BY <2>1, <2>2, HoldsKeeps DEF Inv, TypeOK, Holds
<1>4. QED BY <1>1, <1>2, <1>3 DEF Next, Own, Arrives

\* The invariant holds at first.
LEMMA InitInv == Init => Inv
<1> SUFFICES ASSUME Init PROVE Inv
  OBVIOUS
<1>1. vault \in [Vault -> VaultRow] /\ entry \in [Entry -> EntryRow] /\ key \in [Key -> KeyRow]
      /\ Sound(vault, entry)
  BY BeforeAssumption DEF Init
<1>2. Idle \in RequestState
  BY DEF Idle, RequestState, Pc
<1>3. TypeOK
  BY <1>1, <1>2 DEF Init, TypeOK
<1>4. ASSUME NEW r \in Request PROVE RequestInv(r)
  <2>1. req[r] = Idle
    BY DEF Init
  <2>2. Staged(r) /\ Filled(r) /\ Checked(r) /\ Keyed(r) /\ Scoped(r)
    BY <2>1 DEF Staged, Filled, Checked, Keyed, Scoped, InFlight, IsApi, Idle
  <2>3. QED BY <2>2 DEF RequestInv
<1>5. QED BY <1>3, <1>4 DEF Inv

\* Every step keeps it.
LEMMA NextInv == Inv /\ [Next]_vars => Inv'
<1> SUFFICES ASSUME Inv, [Next]_vars PROVE Inv'
  OBVIOUS
<1>1. /\ req' \in [Request -> RequestState] /\ TablesOK' /\ key' \in [Key -> KeyRow]
      /\ RowsKept /\ KeysKept
      /\ \A s \in Request : Bystander(s) \/ (Own(s) /\ RequestInv(s)')
  BY StepShape
<1>2. TypeOK'
  BY <1>1, LogType DEF TypeOK, TablesOK
<1>3. \A s \in Request : RequestInv(s)'
  BY <1>1, BystanderInv DEF Inv
<1>4. QED BY <1>2, <1>3 DEF Inv

\* The tables and the requests keep their types, every entry is in a vault that is there, and no two
\* entries of a vault have one name, however the statements of the handlers interleave
\* (entries: FOREIGN KEY, UNIQUE).
THEOREM RowsSound == Spec => []TypeOK
<1>1. Inv => TypeOK
  BY DEF Inv
<1>2. QED BY <1>1, InitInv, NextInv, PTL DEF Spec

\* Whatever an API call gives out or changes is in a vault of its key's owner and within the key's
\* scope, and only a key that may write changes anything, whatever others do between the check of the
\* vault and the statement that reads or changes the entry.
THEOREM ScopeSafe == Spec => []ScopeRespected
<1>1. Inv => ScopeRespected
  BY DEF Inv, RequestInv, Scoped, ScopeRespected, Made
<1>2. QED BY <1>1, InitInv, NextInv, PTL DEF Spec
=============================================================================
