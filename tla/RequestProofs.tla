-------------------------- MODULE RequestProofs --------------------------
(***************************************************************************)
(* Proofs about what becomes of the requests of VaultAccess in the end:    *)
(* the audit log, refused creations, the default vault, the extension's    *)
(* password update and the imports that are repeated.                      *)
(***************************************************************************)
EXTENDS VaultAccessProofs

-----------------------------------------------------------------------------
(* What a request's own step makes of its fields.                             *)

\* A request as it arrives.
LEMMA Arrival ==
  ASSUME TypeOK, NEW r \in Request, Arrives(r)
  PROVE  /\ req'[r].pc \in {"auth", "owns", "default", "destination"} /\ req'[r].alone
         /\ ~req'[r].wrote /\ ~req'[r].ok /\ req'[r].op # "saved"
         /\ req'[r].op \in {"create", "newEntry"} => req'[r].entry = None
         /\ req'[r].op = "import" => req'[r].left = req'[r].file /\ req'[r].pc = "destination"
         /\ req'[r].pc = "destination" => req'[r].op = "import"
         /\ InFlight(r)'
         /\ UNCHANGED <<vault, entry>>
<1>0. Idle \in RequestState /\ calls + 1 \in Nat /\ req \in [Request -> RequestState]
  BY DEF Idle, RequestState, Pc, TypeOK
<1>1. ASSUME NEW p \in RequestState, NEW op, Arrive(r, op, p)
      PROVE  /\ req'[r].pc = p.pc /\ req'[r].alone = p.alone /\ req'[r].wrote = p.wrote
             /\ req'[r].ok = p.ok /\ req'[r].op = op /\ req'[r].entry = p.entry
             /\ req'[r].left = p.left /\ req'[r].file = p.file /\ UNCHANGED <<vault, entry>>
  BY <1>0, <1>1 DEF Arrive, Set, RequestState
<1>2. ASSUME NEW k \in Key, NEW op \in ApiOps, NEW v \in Vault \cup {None},
             NEW e \in Entry \cup {None}, NEW n \in Name \cup {None}, ApiCall(r, op, k, v, e, n)
      PROVE  /\ req'[r].pc = "auth" /\ req'[r].alone /\ ~req'[r].wrote /\ ~req'[r].ok
             /\ req'[r].op = op /\ req'[r].entry = e /\ UNCHANGED <<vault, entry>>
  <2> DEFINE p == [Idle EXCEPT !.pc = "auth", !.key = k, !.vault = v, !.entry = e, !.name = n]
  <2>1. p \in RequestState
    BY <1>0 DEF RequestState, Pc
  <2>2. /\ p.pc = "auth" /\ p.entry = e /\ ~p.ok /\ ~p.wrote /\ p.alone /\ Arrive(r, op, p)
    BY <1>2 DEF ApiCall, Idle
  <2> HIDE DEF p
  <2>3. QED BY <1>1, <2>1, <2>2
<1>3. CASE \E k \in Key : ApiArrive(r, k)
  <2>1. PICK op \in ApiOps, e \in Entry \cup {None} :
          /\ op = "create" => e = None
          /\ req'[r].pc = "auth" /\ req'[r].alone /\ ~req'[r].wrote /\ ~req'[r].ok
          /\ req'[r].op = op /\ req'[r].entry = e /\ UNCHANGED <<vault, entry>>
    <3> DEFINE Calls == \E op \in ApiOps, k \in Key, v \in Vault \cup {None},
                           e \in Entry \cup {None}, n \in Name \cup {None} :
                          ApiCall(r, op, k, v, e, n) /\ (op = "create" => e = None)
    <3>0. /\ {"vaults", "list", "match", "get", "code", "save", "delete", "create", "update"} \subseteq ApiOps
          /\ Known \subseteq Entry
      BY DEF ApiOps, ReadOps, WriteOps, Known
    <3>1. PICK k \in Key : ApiArrive(r, k)
      BY <1>3
    <3>2. ASSUME \E op \in {"vaults", "list"}, v \in Vault \cup {None} : ApiCall(r, op, k, v, None, None)
          PROVE  Calls
      BY <3>0, <3>2
    <3>3. ASSUME ApiCall(r, "match", k, None, None, None)
          PROVE  Calls
      BY <3>0, <3>3
    <3>4. ASSUME \E op \in {"get", "code", "save", "delete"}, e \in Known :
                   ApiCall(r, op, k, None, e, None)
          PROVE  Calls
      BY <3>0, <3>4
    <3>5. ASSUME \E v \in Vault \cup {None}, n \in Name : ApiCall(r, "create", k, v, None, n)
          PROVE  Calls
      BY <3>0, <3>5
    <3>6. ASSUME \E e \in Known, n \in Name : ApiCall(r, "update", k, None, e, n)
          PROVE  Calls
      BY <3>0, <3>6
    <3>7. Calls
      BY <3>1, <3>2, <3>3, <3>4, <3>5, <3>6 DEF ApiArrive
    <3>8. QED BY <1>2, <3>7
  <2>2. op \notin {"newEntry", "import", "saved"}
    BY DEF ApiOps, ReadOps, WriteOps
  <2>3. QED BY <2>1, <2>2 DEF InFlight
<1>4. ASSUME NEW u \in User, NEW v \in Vault \cup {None}, NEW n \in Name, AdminCreateEntry(r, u, v, n)
      PROVE  /\ req'[r].pc \in {"owns", "default"} /\ req'[r].alone /\ ~req'[r].wrote /\ ~req'[r].ok
             /\ req'[r].op = "newEntry" /\ req'[r].entry = None /\ UNCHANGED <<vault, entry>>
  <2> DEFINE p == [Idle EXCEPT !.pc = Placing(v), !.user = u, !.vault = v, !.name = n]
  <2>1. Placing(v) \in {"owns", "default"}
    BY DEF Placing
  <2>2. p \in RequestState
    BY <1>0, <2>1 DEF RequestState, Pc
  <2>3. /\ p.pc = Placing(v) /\ p.entry = None /\ ~p.ok /\ ~p.wrote /\ p.alone
        /\ Arrive(r, "newEntry", p)
    BY <1>4 DEF AdminCreateEntry, Idle
  <2> HIDE DEF p
  <2>4. QED BY <1>1, <2>1, <2>2, <2>3
<1>5. ASSUME NEW u \in User, NEW file \in SUBSET Name, Import(r, u, file)
      PROVE  /\ req'[r].pc = "destination" /\ req'[r].alone /\ ~req'[r].wrote /\ ~req'[r].ok
             /\ req'[r].op = "import" /\ req'[r].left = req'[r].file /\ UNCHANGED <<vault, entry>>
  <2> DEFINE p == [Idle EXCEPT !.pc = "destination", !.user = u, !.file = file, !.left = file]
  <2>1. p \in RequestState
    BY <1>0 DEF RequestState, Pc
  <2>2. /\ p.pc = "destination" /\ ~p.ok /\ ~p.wrote /\ p.alone /\ p.left = p.file
        /\ Arrive(r, "import", p)
    BY <1>5 DEF Import, Idle
  <2> HIDE DEF p
  <2>3. QED BY <1>1, <2>1, <2>2
<1>6. CASE \E u \in User, v \in Vault \cup {None}, n \in Name : AdminCreateEntry(r, u, v, n)
  BY <1>4, <1>6 DEF InFlight
<1>7. CASE \E u \in User, file \in SUBSET Name : Import(r, u, file)
  BY <1>5, <1>7 DEF InFlight
<1>8. QED BY <1>3, <1>6, <1>7 DEF Arrives

\* A request is what it is set to.
LEMMA SetTo ==
  ASSUME TypeOK, NEW r \in Request, NEW q, Set(r, q)
  PROVE  req'[r] = q
BY DEF TypeOK, Set

\* The statements that leave the tables, but for the first and the last of a call.
Quiet(r) ==
  \/ Authenticate(r) \/ ListVaults(r) \/ ListEntries(r) \/ MatchEntries(r) \/ Reveal(r)
  \/ ReadEntry(r) \/ FindDefault(r) \/ FindDestination(r) \/ ReadMade(r) \/ CheckVault(r)
  \/ ReadBack(r) \/ ListNames(r) \/ ImportRow(r) \/ FinishImport(r)

\* What a request keeps from one statement to the next.
Kept(r) == /\ req'[r].op = req[r].op /\ req'[r].key = req[r].key /\ req'[r].call = req[r].call
           /\ req'[r].file = req[r].file /\ req'[r].alone = req[r].alone
           /\ req'[r].live = req[r].live

\* Moving on to another statement.
LEMMA GotoFields ==
  ASSUME TypeOK, NEW r \in Request, NEW pc, Goto(r, pc)
  PROVE  /\ Kept(r) /\ req'[r].pc = pc /\ req'[r].wrote = req[r].wrote
         /\ req'[r].entry = req[r].entry /\ req'[r].ok = req[r].ok /\ req'[r].user = req[r].user
         /\ req'[r].vault = req[r].vault /\ req'[r].name = req[r].name
         /\ req'[r].left = req[r].left /\ req'[r].seen = req[r].seen
<1>1. req'[r] = [req[r] EXCEPT !.pc = pc] /\ req[r] \in RequestState
  BY SetTo DEF Goto, TypeOK
<1>2. QED BY <1>1 DEF Kept, RequestState

\* Answering.
LEMMA SucceedFields ==
  ASSUME TypeOK, NEW r \in Request, NEW V, Set(r, Succeed(r, V))
  PROVE  /\ Kept(r) /\ req'[r].pc = "audit" /\ req'[r].wrote = req[r].wrote
         /\ req'[r].entry = req[r].entry /\ req'[r].ok = TRUE /\ req'[r].user = req[r].user
         /\ req'[r].name = req[r].name
<1>1. req'[r] = Succeed(r, V) /\ req[r] \in RequestState
  BY SetTo DEF TypeOK
<1>2. QED BY <1>1 DEF Kept, RequestState, Succeed

\* The check of a key.
LEMMA AuthenticateFields ==
  ASSUME TypeOK, NEW r \in Request, Authenticate(r)
  PROVE  /\ Kept(r) /\ req[r].pc = "auth" /\ req'[r].wrote = req[r].wrote
         /\ req'[r].entry = req[r].entry /\ req'[r].name = req[r].name /\ req'[r].ok = req[r].ok
         /\ req'[r].pc \in {"deny", "audit", "list", "default", "owns", "read"}
         /\ req'[r].pc = "audit" => req[r].op = "create"
<1>0. req[r] \in RequestState
  BY DEF TypeOK
<1>1. CASE Goto(r, "deny")
  BY <1>1, GotoFields DEF Authenticate, At
<1>2. ASSUME NEW u, NEW scope, NEW pc,
             Set(r, [req[r] EXCEPT !.user = u, !.scope = scope, !.pc = pc])
      PROVE  /\ Kept(r) /\ req'[r].pc = pc /\ req'[r].wrote = req[r].wrote
             /\ req'[r].entry = req[r].entry /\ req'[r].name = req[r].name
             /\ req'[r].ok = req[r].ok
  <2>1. req'[r] = [req[r] EXCEPT !.user = u, !.scope = scope, !.pc = pc]
    BY <1>2, SetTo
  <2>2. QED BY <1>0, <2>1 DEF RequestState, Kept
<1>3. req[r].pc = "auth"
  BY DEF Authenticate, At
<1>4. FirstPc(req[r].op, req[r].vault) \in {"list", "default", "owns", "read"}
  BY DEF FirstPc, Placing
<1>5. ASSUME NEW pc \in {"audit", FirstPc(req[r].op, req[r].vault)},
             Set(r, [[req[r] EXCEPT !.user = key[req[r].key].owner, !.scope = key[req[r].key].scope]
                            EXCEPT !.pc = pc])
      PROVE  /\ Kept(r) /\ req'[r].pc = pc /\ req'[r].wrote = req[r].wrote
             /\ req'[r].entry = req[r].entry /\ req'[r].name = req[r].name
             /\ req'[r].ok = req[r].ok
  <2>1. Set(r, [req[r] EXCEPT !.user = key[req[r].key].owner, !.scope = key[req[r].key].scope,
                              !.pc = pc])
    BY <1>0, <1>5
  <2>2. QED BY <1>2, <2>1
<1>6. CASE /\ req[r].op = "create"
           /\ Set(r, [[req[r] EXCEPT !.user = key[req[r].key].owner, !.scope = key[req[r].key].scope]
                            EXCEPT !.pc = "audit"])
  BY <1>3, <1>5, <1>6
<1>7. CASE Set(r, [[req[r] EXCEPT !.user = key[req[r].key].owner, !.scope = key[req[r].key].scope]
                            EXCEPT !.pc = FirstPc(req[r].op, req[r].vault)])
  BY <1>3, <1>4, <1>5, <1>7
<1>8. QED BY <1>1, <1>6, <1>7 DEF Authenticate

\* A match or an entry is revealed.
LEMMA RevealFields ==
  ASSUME TypeOK, NEW r \in Request, Reveal(r)
  PROVE  /\ Kept(r) /\ req[r].pc = "reveal" /\ req'[r].pc \in {"reveal", "audit"}
         /\ req'[r].wrote = req[r].wrote /\ req'[r].entry = req[r].entry
         /\ req'[r].name = req[r].name
<1>0. req[r] \in RequestState /\ req[r].pc = "reveal"
  BY DEF TypeOK, Reveal, At
<1>1. PICK e \in req[r].set :
        LET left == [req[r] EXCEPT !.set = @ \ {e}] IN
        \/ Set(r, left)
        \/ Set(r, [Succeed(r, Holding({e})) EXCEPT !.set = {}])
        \/ Set(r, [left EXCEPT !.pc = "audit", !.ok = req[r].op = "match"])
  BY DEF Reveal
<1>2. CASE Set(r, [req[r] EXCEPT !.set = @ \ {e}])
  <2>1. req'[r] = [req[r] EXCEPT !.set = @ \ {e}]
    BY <1>2, SetTo
  <2>2. QED BY <1>0, <2>1 DEF RequestState, Kept
<1>3. CASE Set(r, [Succeed(r, Holding({e})) EXCEPT !.set = {}])
  <2>1. req'[r] = [Succeed(r, Holding({e})) EXCEPT !.set = {}]
    BY <1>3, SetTo
  <2>2. QED BY <1>0, <2>1 DEF RequestState, Kept, Succeed
<1>4. CASE Set(r, [[req[r] EXCEPT !.set = @ \ {e}] EXCEPT !.pc = "audit", !.ok = req[r].op = "match"])
  <2>1. req'[r] = [[req[r] EXCEPT !.set = @ \ {e}] EXCEPT !.pc = "audit", !.ok = req[r].op = "match"]
    BY <1>4, SetTo
  <2>2. QED BY <1>0, <2>1 DEF RequestState, Kept
<1>5. QED BY <1>1, <1>2, <1>3, <1>4

\* The read before an entry is given out or changed.
LEMMA ReadFields ==
  ASSUME TypeOK, NEW r \in Request, ReadEntry(r)
  PROVE  /\ Kept(r) /\ req[r].pc = "read" /\ req'[r].wrote = req[r].wrote
         /\ req'[r].entry = req[r].entry
         /\ \/ req'[r].pc = "audit" /\ req'[r].ok = req[r].ok
            \/ req'[r].pc = "write" /\ req'[r].name = req[r].name
            \/ req'[r].pc = "reveal" /\ req'[r].name = entry[req[r].entry].name
<1>0. req[r] \in RequestState /\ req[r].pc = "read"
  BY DEF TypeOK, ReadEntry, At
<1>1. CASE Goto(r, "write") \/ Refuse(r)
  BY <1>0, <1>1, GotoFields DEF Refuse
<1>2. CASE Set(r, [req[r] EXCEPT !.pc = "reveal", !.set = {req[r].entry},
                                 !.name = entry[req[r].entry].name])
  <2>1. req'[r] = [req[r] EXCEPT !.pc = "reveal", !.set = {req[r].entry},
                                !.name = entry[req[r].entry].name]
    BY <1>2, SetTo
  <2>2. QED BY <1>0, <2>1 DEF RequestState, Kept
<1>3. QED BY <1>1, <1>2 DEF ReadEntry

\* The search for a vault.
LEMMA PlaceFields ==
  ASSUME TypeOK, NEW r \in Request,
         FindDefault(r) \/ FindDestination(r) \/ ReadMade(r) \/ CheckVault(r)
  PROVE  /\ Kept(r) /\ req'[r].wrote = req[r].wrote /\ req'[r].entry = req[r].entry
         /\ req'[r].ok = req[r].ok /\ req'[r].user = req[r].user /\ req'[r].name = req[r].name
         /\ req'[r].left = req[r].left /\ req'[r].seen = req[r].seen
         /\ req[r].pc \in {"default", "destination", "made", "owns"}
         /\ req'[r].pc \in {"make", "names", "insert", "audit", "rows"}
         /\ req'[r].pc = "make" => FindDefault(r) \/ FindDestination(r)
<1>0. req[r] \in RequestState
  BY DEF TypeOK
<1>1. ASSUME NEW pc, NEW v, Set(r, [req[r] EXCEPT !.pc = pc, !.vault = v])
      PROVE  /\ Kept(r) /\ req'[r].wrote = req[r].wrote /\ req'[r].entry = req[r].entry
             /\ req'[r].ok = req[r].ok /\ req'[r].user = req[r].user /\ req'[r].name = req[r].name
             /\ req'[r].left = req[r].left /\ req'[r].seen = req[r].seen /\ req'[r].pc = pc
  <2>1. req'[r] = [req[r] EXCEPT !.pc = pc, !.vault = v]
    BY <1>1, SetTo
  <2>2. QED BY <1>0, <2>1 DEF RequestState, Kept
<1>2. CASE FindDefault(r) \/ FindDestination(r)
  BY <1>1, <1>2, GotoFields DEF FindDefault, FindDestination, At
<1>3. CASE ReadMade(r) \/ CheckVault(r)
  BY <1>3, GotoFields DEF ReadMade, CheckVault, Failed, Refuse, At
<1>4. QED BY <1>2, <1>3

\* The rows of an import, and what was written read back.
LEMMA RowFields ==
  ASSUME TypeOK, NEW r \in Request,
         ReadBack(r) \/ ListNames(r) \/ ImportRow(r) \/ FinishImport(r)
  PROVE  /\ Kept(r) /\ req'[r].wrote = req[r].wrote /\ req'[r].entry = req[r].entry
         /\ req'[r].user = req[r].user
         /\ req[r].pc \in {"readBack", "names", "rows"}
         /\ req'[r].pc \in {"audit", "rows", "owns"}
<1>0. req[r] \in RequestState
  BY DEF TypeOK
<1>1. ASSUME NEW pc, NEW seen, Set(r, [req[r] EXCEPT !.pc = pc, !.seen = seen])
      PROVE  /\ Kept(r) /\ req'[r].wrote = req[r].wrote /\ req'[r].entry = req[r].entry
             /\ req'[r].user = req[r].user /\ req'[r].pc = pc
  <2>1. req'[r] = [req[r] EXCEPT !.pc = pc, !.seen = seen]
    BY <1>1, SetTo
  <2>2. QED BY <1>0, <2>1 DEF RequestState, Kept
<1>2. CASE ListNames(r)
  BY <1>1, <1>2 DEF ListNames, At
<1>3. CASE FinishImport(r)
  BY <1>3, SucceedFields DEF FinishImport, At
<1>4. CASE ReadBack(r)
  BY <1>1, <1>4, GotoFields, SucceedFields DEF ReadBack, Failed, At
<1>5. ASSUME NEW m, NEW pc, Set(r, [req[r] EXCEPT !.left = @ \ {m}, !.name = m, !.pc = pc])
      PROVE  /\ Kept(r) /\ req'[r].wrote = req[r].wrote /\ req'[r].entry = req[r].entry
             /\ req'[r].user = req[r].user /\ req'[r].pc = pc
  <2>1. req'[r] = [req[r] EXCEPT !.left = @ \ {m}, !.name = m, !.pc = pc]
    BY <1>5, SetTo
  <2>2. QED BY <1>0, <2>1 DEF RequestState, Kept
<1>6. CASE ImportRow(r)
  BY <1>5, <1>6 DEF ImportRow, At
<1>7. QED BY <1>2, <1>3, <1>4, <1>6

\* The list handlers.
LEMMA ListFields ==
  ASSUME TypeOK, NEW r \in Request, ListVaults(r) \/ ListEntries(r) \/ MatchEntries(r)
  PROVE  /\ Kept(r) /\ req'[r].wrote = req[r].wrote /\ req'[r].entry = req[r].entry
         /\ req[r].pc = "list" /\ req[r].op \in {"vaults", "list", "match"}
         /\ req'[r].pc \in {"audit", "reveal"}
<1>0. req[r] \in RequestState
  BY DEF TypeOK
<1>1. CASE ListVaults(r) \/ ListEntries(r)
  BY <1>1, GotoFields, SucceedFields DEF ListVaults, ListEntries, Refuse, At
<1>2. ASSUME NEW S, NEW V,
             Set(r, [req[r] EXCEPT !.pc = "reveal", !.set = S, !.touched = V])
      PROVE  /\ Kept(r) /\ req'[r].wrote = req[r].wrote /\ req'[r].entry = req[r].entry
             /\ req'[r].pc = "reveal"
  <2>1. req'[r] = [req[r] EXCEPT !.pc = "reveal", !.set = S, !.touched = V]
    BY <1>2, SetTo
  <2>2. QED BY <1>0, <2>1 DEF RequestState, Kept
<1>3. CASE MatchEntries(r)
  BY <1>2, <1>3, SucceedFields DEF MatchEntries, At
<1>4. QED BY <1>1, <1>3

\* What is common to them.
LEMMA QuietFields ==
  ASSUME TypeOK, NEW r \in Request, Quiet(r)
  PROVE  /\ Kept(r) /\ req'[r].wrote = req[r].wrote /\ req'[r].entry = req[r].entry
         /\ req[r].pc \notin {"idle", "done", "deny", "audit"} /\ req'[r].pc # "done"
         /\ req'[r].pc \notin {"auth", "made", "readBack"}
         /\ req'[r].pc = "make" => FindDefault(r) \/ FindDestination(r)
         /\ req'[r].pc = "deny" => req[r].pc = "auth"
         /\ UNCHANGED <<vault, entry>>
<1>1. UNCHANGED <<vault, entry>>
  BY DEF Quiet, Authenticate, ListVaults, ListEntries, MatchEntries, Reveal, ReadEntry, FindDefault,
         FindDestination, ReadMade, CheckVault, ReadBack, ListNames, ImportRow, FinishImport
<1>2. QED BY <1>1, AuthenticateFields, RevealFields, ReadFields, PlaceFields, RowFields, ListFields
          DEF Quiet

\* The statements that change vaults or entries, when they do.
LEMMA ChangeFields ==
  ASSUME TypeOK, NEW r \in Request, MakeVault(r) \/ InsertEntry(r) \/ WriteEntry(r)
  PROVE  /\ Kept(r) /\ req'[r].user = req[r].user /\ req'[r].name = req[r].name
         /\ req'[r].left = req[r].left /\ req'[r].seen = req[r].seen
         /\ req[r].pc \in {"make", "insert", "write"}
         /\ req'[r].pc \in {"made", "readBack", "audit", "rows"}
         /\ MakeVault(r) => req'[r].pc = "made" /\ req'[r].entry = req[r].entry
         /\ ~MakeVault(r) => req'[r].vault = req[r].vault
         /\ InsertEntry(r) => req'[r].ok = req[r].ok
         /\ InsertEntry(r) /\ req'[r].pc # "readBack" => req'[r].entry = req[r].entry
<1>0. req[r] \in RequestState
  BY DEF TypeOK
<1>1. ASSUME NEW q, Change(r, q)
      PROVE  req'[r] = [q EXCEPT !.wrote = TRUE]
  BY <1>1 DEF Change
<1>2. CASE MakeVault(r)
  <2>1. PICK v : Change(r, [req[r] EXCEPT !.pc = "made", !.vault = v])
    BY <1>2 DEF MakeVault
  <2>2. req'[r] = [[req[r] EXCEPT !.pc = "made", !.vault = v] EXCEPT !.wrote = TRUE]
    BY <1>1, <2>1
  <2>3. QED BY <1>0, <1>2, <2>2 DEF RequestState, Kept, MakeVault, At, InsertEntry
<1>3. CASE InsertEntry(r)
  <2>1. CASE Failed(r)
    BY <1>3, <2>1, GotoFields DEF Failed, InsertEntry, At, MakeVault
  <2>2. ASSUME NEW e, NEW V,
               Change(r, [req[r] EXCEPT !.pc = "readBack", !.entry = e, !.touched = V])
        PROVE  /\ Kept(r) /\ req'[r].user = req[r].user /\ req'[r].name = req[r].name
               /\ req'[r].left = req[r].left /\ req'[r].seen = req[r].seen
               /\ req'[r].vault = req[r].vault /\ req'[r].ok = req[r].ok
               /\ req'[r].pc = "readBack"
    <3>1. req'[r] = [[req[r] EXCEPT !.pc = "readBack", !.entry = e, !.touched = V] EXCEPT !.wrote = TRUE]
      BY <1>1, <2>2
    <3>2. QED BY <1>0, <3>1 DEF RequestState, Kept
  <2>3. CASE \E e : Change(r, [req[r] EXCEPT !.pc = "readBack", !.entry = e, !.touched = @ \cup {req[r].vault}])
    BY <1>3, <2>2, <2>3 DEF InsertEntry, At, MakeVault
  <2>4. QED BY <1>3, <2>1, <2>3 DEF InsertEntry
<1>4. CASE WriteEntry(r)
  <2>1. CASE Refuse(r)
    BY <1>4, <2>1, GotoFields DEF Refuse, WriteEntry, At, MakeVault, InsertEntry
  <2>2. ASSUME NEW V, NEW pc, NEW ok,
               Change(r, [req[r] EXCEPT !.touched = V, !.pc = pc, !.ok = ok])
        PROVE  /\ Kept(r) /\ req'[r].user = req[r].user /\ req'[r].name = req[r].name
               /\ req'[r].left = req[r].left /\ req'[r].seen = req[r].seen
               /\ req'[r].vault = req[r].vault /\ req'[r].pc = pc
    <3>1. req'[r] = [[req[r] EXCEPT !.touched = V, !.pc = pc, !.ok = ok] EXCEPT !.wrote = TRUE]
      BY <1>1, <2>2
    <3>2. QED BY <1>0, <3>1 DEF RequestState, Kept
  <2>3. ASSUME NEW V, Change(r, [req[r] EXCEPT !.touched = V, !.pc = "readBack"])
        PROVE  /\ Kept(r) /\ req'[r].user = req[r].user /\ req'[r].name = req[r].name
               /\ req'[r].left = req[r].left /\ req'[r].seen = req[r].seen
               /\ req'[r].vault = req[r].vault /\ req'[r].pc = "readBack"
    <3>1. req'[r] = [[req[r] EXCEPT !.touched = V, !.pc = "readBack"] EXCEPT !.wrote = TRUE]
      BY <1>1, <2>3
    <3>2. QED BY <1>0, <3>1 DEF RequestState, Kept
  <2>4. QED BY <1>4, <2>1, <2>2, <2>3 DEF WriteEntry, At, MakeVault, InsertEntry
<1>5. QED BY <1>2, <1>3, <1>4

\* What a request is once it is over.
LEMMA Ending ==
  ASSUME TypeOK, NEW r \in Request, NEW live \in BOOLEAN, NEW orphan \in BOOLEAN,
         Set(r, Over(r, live, orphan))
  PROVE  \/ ~req[r].wrote /\ req'[r] = Idle
         \/ /\ req[r].wrote /\ req'[r].wrote /\ req'[r].pc = "done" /\ req'[r].op = req[r].op
            /\ req'[r].call = req[r].call /\ req'[r].key = req[r].key
            /\ req'[r].entry = req[r].entry /\ req'[r].ok = req[r].ok
            /\ req'[r].live = live /\ req'[r].orphan = orphan
BY DEF TypeOK, Set, Over, Idle

-----------------------------------------------------------------------------
(* The audit log.                                                             *)

\* Nothing is written before the key is checked, nor by the GET of the extension.
Unwritten(r) ==
  req[r].pc \in {"auth", "deny"} \/ req[r].op = "save" => ~req[r].wrote

\* The trail of one request.
Trail(r) ==
  (At(r, "done") /\ IsApi(r) /\ req[r].wrote /\ req[r].live /\ ~req[r].orphan) =>
    \E a \in audit : a.call = req[r].call /\ a.owner = key[req[r].key].owner

TrailInv == Inv /\ \A r \in Request : Unwritten(r) /\ Trail(r)

\* An audit row keeps its call and its owner, whatever becomes of its key.
LEMMA AuditKept ==
  ASSUME Inv, [Next]_vars
  PROVE  \A a \in audit : \E b \in audit' : b.call = a.call /\ b.owner = a.owner
<1>1. \A a \in audit : a \in AuditRow
  BY DEF Inv, TypeOK
<1>2. ASSUME NEW u, NEW k, DeleteKey(u, k), NEW a \in audit
      PROVE  \E b \in audit' : b.call = a.call /\ b.owner = a.owner
  <2> DEFINE b == IF a.key = k THEN [a EXCEPT !.key = None] ELSE a
  <2>1. b \in audit'
    BY <1>2 DEF DeleteKey, Detached
  <2>2. b.call = a.call /\ b.owner = a.owner
    BY <1>1, <1>2 DEF AuditRow
  <2>3. QED BY <2>1, <2>2
<1>3. CASE audit \subseteq audit'
  BY <1>3
<1>4. CASE Panel
  BY <1>2, <1>3, <1>4 DEF Panel, CreateVault, UpdateVault, DeleteVault, AdminUpdateEntry,
                          AdminDeleteEntry, SetSecret, CreateKey, Revoke
<1>5. ASSUME NEW r \in Request, Arrives(r) PROVE audit \subseteq audit'
  BY <1>5 DEF Arrives, ApiArrive, AdminCreateEntry, Import, ApiCall, Arrive
<1>6. ASSUME NEW r \in Request, Advance(r) \/ Disconnect(r) PROVE audit \subseteq audit'
  BY <1>6 DEF Advance, Authenticate, RecordDenied, RecordAudit, Disconnect, ListVaults,
              ListEntries, MatchEntries, Reveal, ReadEntry, WriteEntry, FindDefault,
              FindDestination, MakeVault, ReadMade, CheckVault, InsertEntry, ReadBack, ListNames,
              ImportRow, FinishImport
<1>7. QED BY <1>3, <1>4, <1>5, <1>6 DEF Next, vars, Arrives

\* A request in flight has its client.
LEMMA BystanderTrail ==
  ASSUME Inv, [Next]_vars, NEW s \in Request, Bystander(s), KeysKept, Unwritten(s), Trail(s)
  PROVE  Unwritten(s)' /\ Trail(s)'
<1>1. TypeOK
  BY DEF Inv
<1>2. Unwritten(s)'
  BY <1>1, BystanderFields DEF Unwritten
<1>3. Trail(s)'
  <2>1. IsApi(s) => /\ req[s].key \in Key /\ key'[req[s].key].owner = key[req[s].key].owner
    BY KeyInUse DEF KeysKept
  <2>2. QED BY <1>1, <2>1, BystanderFields, AuditKept DEF Trail, At, IsApi
<1>4. QED BY <1>2, <1>3

\* A statement whose place is not the end of a request writes nothing before its key is checked.
LEMMA OwnTrail ==
  ASSUME Inv, NEW r \in Request, Own(r), Unwritten(r)
  PROVE  Unwritten(r)' /\ Trail(r)'
<1>1. TypeOK /\ req[r] \in RequestState /\ Staged(r) /\ Keyed(r)
  BY DEF Inv, TypeOK, RequestInv
<1>2. CASE Arrives(r)
  BY <1>1, <1>2, Arrival DEF Unwritten, Trail, At
<1>3. CASE RecordAudit(r)
  <2> DEFINE orphan == IsApi(r) /\ key[req[r].key].state = "deleted"
  <2>1. CASE Set(r, Resave(r)) /\ req[r].op = "save"
    <3>1. req'[r].pc = "auth" /\ ~req'[r].wrote
      <4>1. req'[r] = Resave(r)
        BY <1>1, <2>1, SetTo
      <4>2. QED BY <1>1, <2>1, <4>1 DEF Resave, Unwritten, RequestState
    <3>2. QED BY <3>1 DEF Unwritten, Trail, At
  <2>2. CASE Set(r, Over(r, TRUE, orphan))
    <3>0. orphan \in BOOLEAN
      OBVIOUS
    <3> HIDE DEF orphan
    <3>1. \/ ~req[r].wrote /\ req'[r] = Idle
          \/ /\ req[r].wrote /\ req'[r].wrote /\ req'[r].pc = "done" /\ req'[r].op = req[r].op
             /\ req'[r].call = req[r].call /\ req'[r].key = req[r].key
             /\ req'[r].live = TRUE /\ req'[r].orphan = orphan
      BY <1>1, <2>2, <3>0, Ending
    <3>2. Unwritten(r)'
      BY <3>1 DEF Unwritten, Idle
    <3>3. IsApi(r) /\ ~orphan =>
            [call |-> req[r].call, key |-> req[r].key, owner |-> req[r].user] \in audit'
      BY <1>3 DEF RecordAudit, orphan
    <3>4. IsApi(r) => req[r].user = key[req[r].key].owner /\ key' = key
      BY <1>1, <1>3 DEF RecordAudit, At, Keyed
    <3>5. Trail(r)'
      BY <3>1, <3>3, <3>4 DEF Trail, At, IsApi, Idle
    <3>6. QED BY <3>2, <3>5
  <2>3. QED BY <1>3, <2>1, <2>2 DEF RecordAudit
<1>4. CASE RecordDenied(r)
  <2>1. req'[r] = Idle
    BY <1>1, <1>4, Ending DEF RecordDenied, At, Unwritten
  <2>2. QED BY <2>1 DEF Unwritten, Trail, At, Idle
<1>5. CASE Disconnect(r)
  <2>1. (~req[r].wrote /\ req'[r] = Idle) \/ (/\ req[r].wrote /\ req'[r].pc = "done" /\ ~req'[r].live
                                              /\ req'[r].op = req[r].op)
    BY <1>1, <1>5, Ending DEF Disconnect
  <2>2. QED BY <2>1 DEF Unwritten, Trail, At, Idle
<1>6. CASE MakeVault(r) \/ InsertEntry(r) \/ WriteEntry(r)
  BY <1>1, <1>6, ChangeFields DEF Unwritten, Trail, At, Staged, Kept
<1>7. CASE Quiet(r)
  BY <1>1, <1>7, QuietFields DEF Unwritten, Trail, At, Kept
<1>8. QED BY <1>2, <1>3, <1>4, <1>5, <1>6, <1>7 DEF Own, Advance, Quiet

LEMMA TrailInit == Init => TrailInv
<1>1. Init => \A r \in Request : Unwritten(r) /\ Trail(r)
  BY DEF Init, Unwritten, Trail, At, Idle
<1>2. QED BY <1>1, InitInv DEF TrailInv

LEMMA TrailNext == TrailInv /\ [Next]_vars => TrailInv'
<1> SUFFICES ASSUME TrailInv, [Next]_vars PROVE TrailInv'
  OBVIOUS
<1>1. Inv' /\ KeysKept /\ \A s \in Request : Bystander(s) \/ Own(s)
  BY StepShape, NextInv DEF TrailInv
<1>2. \A s \in Request : Unwritten(s)' /\ Trail(s)'
  BY <1>1, BystanderTrail, OwnTrail DEF TrailInv
<1>3. QED BY <1>1, <1>2 DEF TrailInv

\* A change made with an API key is in the audit log of the key's owner, whatever becomes of the key
\* and whoever else is served, unless the client has gone or the key is deleted before the row.
THEOREM TrailSafe == Spec => []TrailComplete
<1>1. TrailInv => TrailComplete
  BY DEF TrailInv, Trail, TrailComplete
<1>2. QED BY <1>1, TrailInit, TrailNext, PTL DEF Spec

-----------------------------------------------------------------------------
(* Refused creations.                                                         *)

\* An entry that a creation inserted is in the caller's vault, or deleted, when it is read back, and
\* deleted when the read fails.
Undone(r) ==
  LET q == req[r] IN
  q.op \in {"create", "newEntry"} =>
    /\ InFlight(r) /\ q.pc \notin {"deny", "readBack", "audit"} => q.entry = None
    /\ q.pc = "readBack" => Made(entry[q.entry].vault, q.user)
    /\ (q.pc = "audit" \/ (q.pc = "done" /\ q.live)) /\ ~q.ok /\ q.entry # None =>
         entry[q.entry].state = "deleted"

UndoneInv == TrailInv /\ \A r \in Request : Undone(r)

\* The rows an inserted entry refers to stay.
LEMMA BystanderUndone ==
  ASSUME Inv, NEW s \in Request, Bystander(s), RowsKept, Undone(s)
  PROVE  Undone(s)'
<1>1. TypeOK /\ req[s] \in RequestState /\ Filled(s)
  BY DEF Inv, TypeOK, RequestInv
<1>2. req[s].entry # None => req[s].entry \in Entry
  BY <1>1 DEF RequestState
<1>3. ASSUME req[s].pc = "readBack", Made(entry[req[s].entry].vault, req[s].user)
      PROVE  Made(entry[req[s].entry].vault, req[s].user)' 
  <2>1. req[s].entry \in Entry /\ entry[req[s].entry].state # "unused"
    BY <1>1, <1>3 DEF Filled, Known
  <2>2. entry[req[s].entry].vault \in Vault
    BY <1>1, <2>1, UsedRows
  <2>3. entry'[req[s].entry].vault = entry[req[s].entry].vault /\ req'[s].entry = req[s].entry
        /\ req'[s].user = req[s].user
    BY <1>1, <2>1, BystanderFields DEF RowsKept
  <2>4. QED BY <1>3, <2>2, <2>3 DEF Made, RowsKept
<1>4. req[s].entry \in Entry /\ entry[req[s].entry].state = "deleted" =>
        entry'[req[s].entry].state = "deleted"
  BY DEF RowsKept
<1>5. QED BY <1>1, <1>2, <1>3, <1>4, BystanderFields DEF Undone, InFlight

\* The read that may fail finds the entry, unless it is deleted.
LEMMA ReadBackUndone ==
  ASSUME Inv, NEW r \in Request, ReadBack(r), Undone(r)
  PROVE  Undone(r)'
<1>1. TypeOK /\ req[r] \in RequestState /\ Filled(r) /\ req[r].pc = "readBack" /\ entry' = entry
  BY DEF Inv, TypeOK, RequestInv, ReadBack, At
<1>2. req[r].entry \in Entry /\ entry[req[r].entry].state \in {"present", "deleted"}
  BY <1>1, UsedRows DEF Filled, Known, RowState
<1>3. /\ Kept(r) /\ req'[r].entry = req[r].entry
      /\ req[r].op # "import" => req'[r].pc = "audit"
  <2>1. Kept(r) /\ req'[r].entry = req[r].entry
    BY <1>1, RowFields
  <2>2. CASE req[r].op # "import"
    BY <1>1, <2>1, <2>2, GotoFields, SucceedFields DEF ReadBack, Failed
  <2>3. QED BY <2>1, <2>2
<1>4. CASE req[r].op \in {"create", "newEntry"} /\ ~req'[r].ok
  <2>1. req[r].entry \notin EntriesOf(req[r].user)
    BY <1>1, <1>4, SucceedFields DEF ReadBack, Kept
  <2>2. vault[entry[req[r].entry].vault].owner = req[r].user
    BY <1>1, <1>4 DEF Undone, Made
  <2>3. entry[req[r].entry].state # "present"
    BY <1>1, <1>2, <2>1, <2>2, UsedRows DEF EntriesOf, VaultsOf, TypeOK, Sound
  <2>4. entry'[req'[r].entry].state = "deleted"
    BY <1>1, <1>2, <1>3, <2>3
  <2>5. req'[r].pc = "audit"
    BY <1>3, <1>4
  <2>6. QED BY <2>4, <2>5 DEF Undone, InFlight
<1>5. QED BY <1>3, <1>4 DEF Undone, InFlight, Kept

\* A new entry is in the vault that was found to be the caller's.
LEMMA InsertUndone ==
  ASSUME Inv, NEW r \in Request, InsertEntry(r), Undone(r)
  PROVE  Undone(r)'
<1>1. /\ TypeOK /\ req[r] \in RequestState /\ Checked(r) /\ Filled(r) /\ req[r].pc = "insert"
      /\ vault' = vault
  BY DEF Inv, TypeOK, RequestInv, InsertEntry, At
<1>2. CASE Failed(r)
  BY <1>1, <1>2, GotoFields DEF Undone, Failed, Kept, InFlight
<1>3. ASSUME NEW e \in FreshEntry,
             entry' = [entry EXCEPT ![e] = [state |-> "present", vault |-> req[r].vault,
                                           name |-> req[r].name, totp |-> FALSE]],
             Change(r, [req[r] EXCEPT !.pc = "readBack", !.entry = e,
                                      !.touched = @ \cup {req[r].vault}])
      PROVE  Undone(r)'
  <2>1. req'[r] = [[req[r] EXCEPT !.pc = "readBack", !.entry = e,
                                  !.touched = @ \cup {req[r].vault}] EXCEPT !.wrote = TRUE]
    BY <1>3 DEF Change
  <2>2. req'[r].pc = "readBack" /\ req'[r].entry = e /\ req'[r].user = req[r].user
    BY <1>1, <2>1 DEF RequestState
  <2>3. entry'[e].vault = req[r].vault
    BY <1>1, <1>3 DEF FreshEntry, TypeOK
  <2>4. vault'[req[r].vault].state # "unused" /\ vault'[req[r].vault].owner = req[r].user
    BY <1>1 DEF Checked, Made
  <2>5. QED BY <1>1, <2>2, <2>3, <2>4 DEF Undone, InFlight, Made
<1>4. QED BY <1>2, <1>3 DEF InsertEntry

\* A request's own steps.
LEMMA OwnUndone ==
  ASSUME Inv, NEW r \in Request, Own(r), Unwritten(r), Undone(r)
  PROVE  Undone(r)'
<1>1. TypeOK /\ req[r] \in RequestState /\ Staged(r)
  BY DEF Inv, TypeOK, RequestInv
<1>2. CASE Arrives(r)
  BY <1>1, <1>2, Arrival DEF Undone
<1>3. CASE RecordAudit(r)
  <2>1. CASE Set(r, Resave(r))
    <3>1. req'[r] = Resave(r)
      BY <1>1, <2>1, SetTo
    <3>2. req'[r].op = "saved"
      BY <1>1, <3>1 DEF Resave, RequestState
    <3>3. QED BY <3>2 DEF Undone
  <2>2. ASSUME NEW orphan \in BOOLEAN, Set(r, Over(r, TRUE, orphan)) PROVE Undone(r)'
    <3>1. \/ req'[r] = Idle
          \/ /\ req'[r].pc = "done" /\ req'[r].op = req[r].op
             /\ req'[r].entry = req[r].entry /\ req'[r].ok = req[r].ok
      BY <1>1, <2>2, Ending
    <3>2. req[r].pc = "audit" /\ entry' = entry
      BY <1>3 DEF RecordAudit, At
    <3>3. QED BY <3>1, <3>2 DEF Undone, Idle, InFlight
  <2>3. QED BY <1>3, <2>1, <2>2 DEF RecordAudit
<1>4. CASE RecordDenied(r)
  <2>1. req'[r] = Idle
    BY <1>1, <1>4, Ending DEF RecordDenied, At, Unwritten
  <2>2. QED BY <2>1 DEF Undone, Idle
<1>5. CASE Disconnect(r)
  <2>1. req'[r] = Idle \/ (req'[r].pc = "done" /\ ~req'[r].live)
    BY <1>1, <1>5, Ending DEF Disconnect
  <2>2. QED BY <2>1 DEF Undone, Idle, InFlight
<1>6. CASE MakeVault(r)
  BY <1>1, <1>6, ChangeFields DEF Undone, InFlight, Kept, MakeVault, At
<1>7. CASE WriteEntry(r)
  BY <1>1, <1>7, ChangeFields DEF Undone, Staged, Kept, WriteEntry, At
<1>8. CASE Quiet(r) /\ req[r].pc # "readBack"
  BY <1>1, <1>8, QuietFields DEF Undone, InFlight, Kept
<1>9. CASE ReadBack(r)
  BY <1>9, ReadBackUndone
<1>10. CASE InsertEntry(r)
  BY <1>10, InsertUndone
<1>11. Quiet(r) => ReadBack(r) \/ req[r].pc # "readBack"
  BY DEF Quiet, Authenticate, ListVaults, ListEntries, MatchEntries, Reveal, ReadEntry, FindDefault,
         FindDestination, ReadMade, CheckVault, ListNames, ImportRow, FinishImport, At
<1>12. QED BY <1>2, <1>3, <1>4, <1>5, <1>6, <1>7, <1>8, <1>9, <1>10, <1>11
           DEF Own, Advance, Quiet

\* A creation that is refused leaves no entry, though the entry is inserted before the read that may
\* fail and others delete vaults and entries meanwhile, unless its client has gone.
THEOREM RefusedSafe == Spec => []RefusedLeavesNothing
<1>1. Init => UndoneInv
  <2>1. Init => \A r \in Request : Undone(r)
    BY DEF Init, Undone, Idle
  <2>2. QED BY <2>1, TrailInit DEF UndoneInv
<1>2. UndoneInv /\ [Next]_vars => UndoneInv'
  <2> SUFFICES ASSUME UndoneInv, [Next]_vars PROVE UndoneInv'
    OBVIOUS
  <2>1. TrailInv' /\ RowsKept /\ Inv /\ \A s \in Request : Bystander(s) \/ Own(s)
    BY StepShape, TrailNext DEF UndoneInv, TrailInv
  <2>2. \A s \in Request : Undone(s)'
    BY <2>1, BystanderUndone, OwnUndone DEF UndoneInv, TrailInv
  <2>3. QED BY <2>1, <2>2 DEF UndoneInv
<1>3. UndoneInv => RefusedLeavesNothing
  BY DEF UndoneInv, Undone, RefusedLeavesNothing, At
<1>4. QED BY <1>1, <1>2, <1>3, PTL DEF Spec

-----------------------------------------------------------------------------
(* The default vault.                                                         *)

\* A request that has found no vault, and is alone, is right.
NoneYet(r) ==
  At(r, "make") /\ req[r].op # "import" /\ req[r].alone => VaultsOf(req[r].user) = {}

NoneInv == Inv /\ \A r \in Request : NoneYet(r)

LEMMA BystanderNone ==
  ASSUME Inv, NEW s \in Request, Bystander(s), NoneYet(s)
  PROVE  NoneYet(s)'
<1>1. TypeOK
  BY DEF Inv
<1>2. QED BY <1>1, BystanderFields DEF NoneYet, At, InFlight, VaultsOf

\* After its last statement a request makes no vault.
LEMMA OverPc ==
  ASSUME Inv, NEW r \in Request, RecordAudit(r) \/ RecordDenied(r) \/ Disconnect(r)
  PROVE  /\ req'[r].pc \in {"idle", "done", "auth"}
         /\ req'[r].pc = "auth" => RecordAudit(r) /\ Set(r, Resave(r)) /\ req[r].op = "save" /\ req[r].ok
<1>1. TypeOK
  BY DEF Inv
<1>2. ASSUME NEW live \in BOOLEAN, NEW orphan \in BOOLEAN, Set(r, Over(r, live, orphan))
      PROVE  req'[r].pc \in {"idle", "done"}
  BY <1>1, <1>2, Ending DEF Idle
<1>3. CASE Set(r, Resave(r)) /\ RecordAudit(r) /\ req[r].op = "save" /\ req[r].ok
  <2>1. req'[r] = Resave(r) /\ req[r] \in RequestState
    BY <1>1, <1>3, SetTo DEF TypeOK
  <2>2. QED BY <1>3, <2>1 DEF Resave, RequestState
<1>4. QED BY <1>2, <1>3 DEF RecordAudit, RecordDenied, Disconnect

LEMMA OwnNone ==
  ASSUME Inv, NEW r \in Request, Own(r), NoneYet(r)
  PROVE  NoneYet(r)'
<1>1. TypeOK /\ Staged(r)
  BY DEF Inv, RequestInv
<1>2. CASE Arrives(r)
  BY <1>1, <1>2, Arrival DEF NoneYet, At
<1>3. CASE RecordAudit(r) \/ RecordDenied(r) \/ Disconnect(r)
  BY <1>3, OverPc DEF NoneYet, At
<1>4. CASE MakeVault(r) \/ InsertEntry(r) \/ WriteEntry(r)
  BY <1>1, <1>4, ChangeFields DEF NoneYet, At
<1>5. CASE Quiet(r) /\ req'[r].pc = "make"
  <2>1. CASE FindDestination(r)
    <3>1. req[r].op = "import"
      BY <1>1, <2>1 DEF Staged, FindDestination, At
    <3>2. QED BY <1>1, <2>1, <3>1, PlaceFields DEF NoneYet, Kept
  <2>2. CASE FindDefault(r)
    <3>1. ASSUME NEW v, Set(r, [req[r] EXCEPT !.pc = "insert", !.vault = v]) PROVE FALSE
      <4>1. req'[r] = [req[r] EXCEPT !.pc = "insert", !.vault = v] /\ req[r] \in RequestState
        BY <1>1, <3>1, SetTo DEF TypeOK
      <4>2. QED BY <1>5, <4>1 DEF RequestState
    <3>2. VaultsOf(req[r].user) = {}
      BY <2>2, <3>1 DEF FindDefault, Candidates
    <3>3. req'[r].user = req[r].user /\ vault' = vault
      BY <1>1, <2>2, PlaceFields DEF FindDefault
    <3>4. QED BY <3>2, <3>3 DEF NoneYet, VaultsOf
  <2>3. QED BY <1>1, <1>5, <2>1, <2>2, QuietFields
<1>6. CASE Quiet(r) /\ req'[r].pc # "make"
  BY <1>6 DEF NoneYet, At
<1>7. QED BY <1>2, <1>3, <1>4, <1>5, <1>6 DEF Own, Advance, Quiet

\* A second vault is created by default only when others created the first, or deleted the last, while
\* the entry was on its way.
THEOREM DefaultSafe == Spec => DefaultOnlyWhenNone
<1>1. Init => NoneInv
  <2>1. Init => \A r \in Request : NoneYet(r)
    BY DEF Init, NoneYet, At, Idle
  <2>2. QED BY <2>1, InitInv DEF NoneInv
<1>2. NoneInv /\ [Next]_vars => NoneInv'
  <2> SUFFICES ASSUME NoneInv, [Next]_vars PROVE NoneInv'
    OBVIOUS
  <2>1. Inv' /\ Inv /\ \A s \in Request : Bystander(s) \/ Own(s)
    BY StepShape, NextInv DEF NoneInv
  <2>2. \A s \in Request : NoneYet(s)'
    BY <2>1, BystanderNone, OwnNone DEF NoneInv
  <2>3. QED BY <2>1, <2>2 DEF NoneInv
<1>3. NoneInv => [\A r \in Request :
                    /\ At(r, "make") /\ req'[r].pc = "made"
                    /\ req[r].op # "import" /\ req[r].alone
                    => VaultsOf(req[r].user) = {}]_vars
  BY DEF NoneInv, NoneYet
<1>4. QED BY <1>1, <1>2, <1>3, PTL DEF Spec, DefaultOnlyWhenNone

-----------------------------------------------------------------------------
(* The extension's password update.                                           *)

\* The name the extension is about to write back is the one there is, if it is alone.
NameHeld(r) ==
  LET q == req[r] IN
  q.alone /\ (\/ q.op = "saved" /\ q.pc \in {"auth", "read", "write"}
              \/ q.op = "save" /\ (q.pc = "reveal" \/ (q.pc = "audit" /\ q.ok)))
  => q.name = entry[q.entry].name

HeldInv == Inv /\ \A r \in Request : NameHeld(r)

LEMMA BystanderHeld ==
  ASSUME Inv, NEW s \in Request, Bystander(s), NameHeld(s)
  PROVE  NameHeld(s)'
<1>1. TypeOK
  BY DEF Inv
<1>2. QED BY <1>1, BystanderFields DEF NameHeld, InFlight

\* The name is read by the GET and kept until the PUT.
LEMMA OwnHeld ==
  ASSUME Inv, NEW r \in Request, Own(r), NameHeld(r)
  PROVE  NameHeld(r)'
<1>1. TypeOK /\ req[r] \in RequestState /\ Staged(r)
  BY DEF Inv, TypeOK, RequestInv
<1>2. CASE Arrives(r)
  BY <1>1, <1>2, Arrival DEF NameHeld
<1>3. CASE RecordAudit(r) \/ RecordDenied(r) \/ Disconnect(r)
  <2>1. CASE req'[r].pc = "auth"
    <3>1. req'[r] = Resave(r) /\ req[r].op = "save" /\ req[r].ok /\ req[r].pc = "audit"
          /\ entry' = entry
      BY <1>1, <1>3, <2>1, OverPc, SetTo DEF RecordAudit, At
    <3>2. req'[r].name = req[r].name /\ req'[r].entry = req[r].entry /\ req'[r].alone = req[r].alone
      BY <1>1, <3>1 DEF Resave, RequestState
    <3>3. QED BY <3>1, <3>2 DEF NameHeld
  <2>2. QED BY <1>3, <2>1, OverPc DEF NameHeld
<1>4. CASE MakeVault(r) \/ InsertEntry(r)
  BY <1>1, <1>4, ChangeFields DEF NameHeld, Staged, Kept, MakeVault, InsertEntry, At
<1>5. CASE WriteEntry(r)
  BY <1>1, <1>5, ChangeFields DEF NameHeld, Staged, Kept, WriteEntry, At
<1>6. CASE Authenticate(r)
  BY <1>1, <1>6, AuthenticateFields, QuietFields DEF NameHeld, Kept, Quiet
<1>7. CASE Reveal(r)
  BY <1>1, <1>7, RevealFields, QuietFields DEF NameHeld, Kept, Staged, Quiet
<1>8. CASE ReadEntry(r)
  <2>1. entry' = entry /\ Kept(r) /\ req[r].pc = "read" /\ ~req[r].ok
        /\ req'[r].entry = req[r].entry
        /\ \/ req'[r].pc = "audit" /\ req'[r].ok = req[r].ok
           \/ req'[r].pc = "write" /\ req'[r].name = req[r].name
           \/ req'[r].pc = "reveal" /\ req'[r].name = entry[req[r].entry].name
    BY <1>1, <1>8, ReadFields DEF ReadEntry, Staged, InFlight
  <2>2. QED BY <2>1 DEF NameHeld, Kept
<1>9. CASE FindDefault(r) \/ FindDestination(r) \/ ReadMade(r) \/ CheckVault(r)
  BY <1>1, <1>9, PlaceFields DEF NameHeld, Kept, Staged
<1>10. CASE ReadBack(r) \/ ListNames(r) \/ ImportRow(r) \/ FinishImport(r)
  BY <1>1, <1>10, RowFields DEF NameHeld, Kept, Staged
<1>11. CASE ListVaults(r) \/ ListEntries(r) \/ MatchEntries(r)
  BY <1>1, <1>11, ListFields DEF NameHeld, Kept
<1>12. QED BY <1>2, <1>3, <1>4, <1>5, <1>6, <1>7, <1>8, <1>9, <1>10, <1>11 DEF Own, Advance

\* The PUT writes the name and leaves the secret.
LEMMA SaveWrites ==
  ASSUME HeldInv, [Next]_vars, NEW r \in Request,
         At(r, "write"), req[r].op = "saved", req'[r].pc = "readBack"
  PROVE  /\ entry'[req[r].entry].totp = entry[req[r].entry].totp
         /\ req[r].alone => entry'[req[r].entry].name = entry[req[r].entry].name
<1>1. Inv /\ TypeOK /\ NameHeld(r) /\ req[r].pc = "write"
  BY DEF HeldInv, Inv, At
<1>2. Own(r)
  BY <1>1, StepShape, BystanderFields
<1>3. ~Arrives(r)
  BY <1>1 DEF Arrives, ApiArrive, ApiCall, AdminCreateEntry, Import, Arrive, InFlight
<1>4. ~(RecordAudit(r) \/ RecordDenied(r) \/ Disconnect(r))
  BY <1>1, OverPc
<1>5. WriteEntry(r)
  BY <1>1, <1>2, <1>3, <1>4
     DEF Own, Advance, Authenticate, RecordDenied, RecordAudit, ListVaults, ListEntries,
         MatchEntries, Reveal, ReadEntry, FindDefault, FindDestination, MakeVault, ReadMade,
         CheckVault, InsertEntry, ReadBack, ListNames, ImportRow, FinishImport, At
<1>6. ~Refuse(r)
  BY <1>1, GotoFields DEF Refuse
<1>7. req[r].entry \in Entry /\ entry' = Updated(req[r].entry, req[r].name)
  BY <1>5, <1>6 DEF WriteEntry, EntriesOf
<1>8. entry[req[r].entry] \in [state : RowState, vault : Vault, name : Name, totp : BOOLEAN]
  BY <1>1, <1>5, <1>6, <1>7, UsedRows DEF WriteEntry, EntriesOf
<1>9. entry'[req[r].entry] = [entry[req[r].entry] EXCEPT !.name = req[r].name]
  BY <1>1, <1>7 DEF Updated, TypeOK
<1>10. entry'[req[r].entry].totp = entry[req[r].entry].totp /\ entry'[req[r].entry].name = req[r].name
  BY <1>8, <1>9
<1>11. QED BY <1>1, <1>10 DEF NameHeld

\* The extension's password update, a GET and a PUT of the whole entry, keeps the TOTP secret always
\* and the name unless others write meanwhile.
THEOREM SaveSafe == Spec => SaveKeepsEdits
<1>1. Init => HeldInv
  <2>1. Init => \A r \in Request : NameHeld(r)
    BY DEF Init, NameHeld, Idle
  <2>2. QED BY <2>1, InitInv DEF HeldInv
<1>2. HeldInv /\ [Next]_vars => HeldInv'
  <2> SUFFICES ASSUME HeldInv, [Next]_vars PROVE HeldInv'
    OBVIOUS
  <2>1. Inv' /\ Inv /\ \A s \in Request : Bystander(s) \/ Own(s)
    BY StepShape, NextInv DEF HeldInv
  <2>2. \A s \in Request : NameHeld(s)'
    BY <2>1, BystanderHeld, OwnHeld DEF HeldInv
  <2>3. QED BY <2>1, <2>2 DEF HeldInv
<1>3. HeldInv /\ [Next]_vars =>
        [\A r \in Request :
           (At(r, "write") /\ req[r].op = "saved" /\ req'[r].pc = "readBack") =>
             LET e == req[r].entry IN
             /\ entry'[e].totp = entry[e].totp
             /\ req[r].alone => entry'[e].name = entry[e].name]_vars
  BY SaveWrites
<1>4. QED BY <1>1, <1>2, <1>3, PTL DEF Spec, SaveKeepsEdits

-----------------------------------------------------------------------------
(* Imports that are repeated.                                                 *)

\* The names of a vault, in lower case.
Folded(v) == {Fold[entry[e].name] : e \in EntriesIn(v)}

\* The rows an import has left behind, but for those in S, have their names among the ones seen.
Behind(r, S) == \A n \in req[r].file \ S : Fold[n] \in req[r].seen

\* An import that is alone knows the names of its vault and has done the rows it has left behind.
Tallied(r) ==
  LET q == req[r] IN
  q.op = "import" /\ q.alone =>
    /\ q.pc \in {"destination", "make", "made", "names"} => q.left = q.file
    /\ q.pc \in {"made", "names", "rows", "owns", "insert", "readBack"} => q.vault \in VaultsOf(q.user)
    /\ q.pc = "rows" => q.seen = Folded(q.vault) /\ Behind(r, q.left)
    /\ q.pc \in {"owns", "insert"} =>
         /\ q.seen = Folded(q.vault) /\ Fold[q.name] \notin q.seen
         /\ Behind(r, q.left \cup {q.name})
    /\ q.pc = "readBack" =>
         /\ Folded(q.vault) = q.seen \cup {Fold[q.name]}
         /\ q.entry \in EntriesIn(q.vault)
         /\ Behind(r, q.left \cup {q.name})

TalliedInv == Inv /\ \A r \in Request : Tallied(r)

\* What is read from the tables is what it was as long as they are.
LEMMA SameTables ==
  ASSUME UNCHANGED <<vault, entry>>, NEW r \in Request
  PROVE  /\ VaultsOf(req[r].user)' = VaultsOf(req'[r].user)
         /\ EntriesIn(req[r].vault)' = EntriesIn(req'[r].vault)
         /\ Folded(req[r].vault)' = Folded(req'[r].vault)
BY DEF VaultsOf, EntriesIn, Folded

LEMMA BystanderTallied ==
  ASSUME Inv, NEW s \in Request, Bystander(s), Tallied(s)
  PROVE  Tallied(s)'
<1>1. TypeOK
  BY DEF Inv
<1>2. CASE req'[s].alone /\ InFlight(s)
  BY <1>1, <1>2, BystanderFields, SameTables DEF Tallied, Behind
<1>3. CASE req'[s].alone /\ ~InFlight(s)
  BY <1>1, <1>3, BystanderFields DEF Tallied, InFlight
<1>4. QED BY <1>2, <1>3 DEF Tallied

\* The destination is a vault of the caller's.
LEMMA DestinationTallied ==
  ASSUME Inv, NEW r \in Request, FindDestination(r), Tallied(r)
  PROVE  Tallied(r)'
<1>1. TypeOK /\ req[r] \in RequestState /\ req[r].pc = "destination" /\ UNCHANGED <<vault, entry>>
  BY DEF Inv, TypeOK, FindDestination, At
<1>2. /\ Kept(r) /\ req'[r].user = req[r].user /\ req'[r].left = req[r].left
  BY <1>1, PlaceFields
<1>3. ASSUME NEW v \in VaultsOf(req[r].user), Set(r, [req[r] EXCEPT !.pc = "names", !.vault = v])
      PROVE  Tallied(r)'
  <2>1. req'[r] = [req[r] EXCEPT !.pc = "names", !.vault = v]
    BY <1>1, <1>3, SetTo
  <2>2. req'[r].pc = "names" /\ req'[r].vault = v
    BY <1>1, <2>1 DEF RequestState
  <2>3. QED BY <1>1, <1>2, <1>3, <2>2, SameTables DEF Tallied, Kept
<1>4. CASE Goto(r, "make")
  <2>1. req'[r].pc = "make"
    BY <1>1, <1>4, GotoFields
  <2>2. QED BY <1>1, <1>2, <2>1 DEF Tallied, Kept
<1>5. QED BY <1>3, <1>4 DEF FindDestination

\* So is the vault that is made.
LEMMA MakeTallied ==
  ASSUME Inv, NEW r \in Request, MakeVault(r), Tallied(r)
  PROVE  Tallied(r)'
<1>1. TypeOK /\ req[r] \in RequestState /\ req[r].pc = "make"
  BY DEF Inv, TypeOK, MakeVault, At
<1>2. PICK v \in FreshVault : /\ vault' = [vault EXCEPT ![v] = NewVault(req[r].user, TRUE)]
                              /\ Change(r, [req[r] EXCEPT !.pc = "made", !.vault = v])
  BY DEF MakeVault
<1>3. req'[r] = [[req[r] EXCEPT !.pc = "made", !.vault = v] EXCEPT !.wrote = TRUE]
  BY <1>2 DEF Change
<1>4. req'[r].vault = v /\ req'[r].pc = "made"
  BY <1>1, <1>3 DEF RequestState
<1>5. Kept(r) /\ req'[r].user = req[r].user /\ req'[r].left = req[r].left
  BY <1>1, ChangeFields
<1>6. vault'[v] = NewVault(req[r].user, TRUE) /\ v \in Vault
  BY <1>1, <1>2 DEF FreshVault, TypeOK
<1>7. req'[r].vault \in VaultsOf(req[r].user)'
  BY <1>4, <1>5, <1>6 DEF VaultsOf, NewVault
<1>8. QED BY <1>1, <1>4, <1>5, <1>7 DEF Tallied, Kept

\* The vault is still there and the caller's, if nobody else has changed anything.
LEMMA PlaceTallied ==
  ASSUME Inv, NEW r \in Request, ReadMade(r) \/ CheckVault(r), Tallied(r)
  PROVE  Tallied(r)'
<1>1. TypeOK /\ UNCHANGED <<vault, entry>>
  BY DEF Inv, ReadMade, CheckVault
<1>2. CASE ReadMade(r)
  <2>1. /\ Kept(r) /\ req'[r].user = req[r].user /\ req'[r].vault = req[r].vault
        /\ req'[r].left = req[r].left /\ req[r].pc = "made"
        /\ req'[r].pc \in {"names", "insert", "audit"}
        /\ req[r].op = "import" => req'[r].pc \in {"names", "audit"}
    BY <1>1, <1>2, GotoFields DEF ReadMade, Refuse, At
  <2>2. QED BY <1>1, <2>1, SameTables DEF Tallied, Kept
<1>3. CASE CheckVault(r) /\ req[r].op = "import" /\ req[r].alone
  <2>1. req[r].pc = "owns"
    BY <1>3 DEF CheckVault, At
  <2>2. OwnsVault(req[r].user, req[r].vault)
    BY <1>3, <2>1 DEF Tallied, OwnsVault
  <2>3. Goto(r, "insert")
    BY <1>3, <2>2 DEF CheckVault
  <2>4. /\ Kept(r) /\ req'[r].user = req[r].user /\ req'[r].vault = req[r].vault
        /\ req'[r].left = req[r].left /\ req'[r].seen = req[r].seen /\ req'[r].pc = "insert"
        /\ req'[r].name = req[r].name
    BY <1>1, <2>3, GotoFields
  <2>5. QED BY <1>1, <2>1, <2>4, SameTables DEF Tallied, Kept, Behind
<1>4. CASE CheckVault(r) /\ ~(req[r].op = "import" /\ req[r].alone)
  BY <1>1, <1>4, PlaceFields DEF Tallied, Kept
<1>5. QED BY <1>2, <1>3, <1>4

\* An import lists the names there are.
LEMMA NamesTallied ==
  ASSUME Inv, NEW r \in Request, ListNames(r), Tallied(r)
  PROVE  Tallied(r)'
<1>1. TypeOK /\ req[r] \in RequestState /\ req[r].pc = "names" /\ UNCHANGED <<vault, entry>>
  BY DEF Inv, TypeOK, ListNames, At
<1>2. req'[r] = [req[r] EXCEPT !.pc = "rows", !.seen = {Fold[entry[e].name] : e \in NamesFrom(r)}]
  BY <1>1, SetTo DEF ListNames
<1>3. /\ req'[r].op = req[r].op /\ req'[r].alone = req[r].alone /\ req'[r].file = req[r].file
      /\ req'[r].left = req[r].left /\ req'[r].vault = req[r].vault /\ req'[r].user = req[r].user
      /\ req'[r].pc = "rows" /\ req'[r].seen = {Fold[entry[e].name] : e \in NamesFrom(r)}
  BY <1>1, <1>2 DEF RequestState
<1>4. req[r].vault \in VaultsOf(req[r].user) => NamesFrom(r) = EntriesIn(req[r].vault)
  BY DEF NamesFrom, EntriesOf, EntriesIn
<1>5. req[r].vault \in VaultsOf(req[r].user) => req'[r].seen = Folded(req[r].vault)
  BY <1>3, <1>4 DEF Folded
<1>6. QED BY <1>1, <1>3, <1>5, SameTables DEF Tallied, Behind

\* A row is done when its name is there, and else it is the one at hand.
LEMMA RowTallied ==
  ASSUME Inv, NEW r \in Request, ImportRow(r), Tallied(r)
  PROVE  Tallied(r)'
<1>1. TypeOK /\ req[r] \in RequestState /\ req[r].pc = "rows" /\ UNCHANGED <<vault, entry>>
  BY DEF Inv, TypeOK, ImportRow, At
<1>2. PICK n \in req[r].left :
        Set(r, [req[r] EXCEPT !.left = @ \ {n}, !.name = n,
                              !.pc = IF Fold[n] \in req[r].seen THEN "rows" ELSE "owns"])
  BY DEF ImportRow
<1>3. req'[r] = [req[r] EXCEPT !.left = @ \ {n}, !.name = n,
                               !.pc = IF Fold[n] \in req[r].seen THEN "rows" ELSE "owns"]
  BY <1>1, <1>2, SetTo
<1>4. /\ req'[r].op = req[r].op /\ req'[r].alone = req[r].alone /\ req'[r].file = req[r].file
      /\ req'[r].left = req[r].left \ {n} /\ req'[r].vault = req[r].vault
      /\ req'[r].user = req[r].user /\ req'[r].seen = req[r].seen /\ req'[r].name = n
  BY <1>1, <1>3 DEF RequestState
<1>5. req'[r].pc = IF Fold[n] \in req[r].seen THEN "rows" ELSE "owns"
  BY <1>1, <1>3 DEF RequestState
<1>6. Behind(r, req[r].left) =>
        /\ Fold[n] \in req[r].seen => Behind(r, req[r].left)'
        /\ Behind(r, req[r].left \cup {req[r].name})'
  BY <1>4 DEF Behind
<1>7. QED BY <1>1, <1>4, <1>5, <1>6, SameTables DEF Tallied

\* A row whose name is not there is inserted.
LEMMA InsertTallied ==
  ASSUME Inv, NEW r \in Request, InsertEntry(r), Tallied(r)
  PROVE  Tallied(r)'
<1> SUFFICES ASSUME req[r].op = "import", req[r].alone PROVE Tallied(r)'
  <2>1. Kept(r)
    BY ChangeFields DEF Inv
  <2>2. QED BY <2>1 DEF Tallied, Kept
<1>1. TypeOK /\ req[r] \in RequestState /\ req[r].pc = "insert" /\ vault' = vault
  BY DEF Inv, TypeOK, InsertEntry, At
<1>2. /\ req[r].vault \in VaultsOf(req[r].user) /\ req[r].seen = Folded(req[r].vault)
      /\ Fold[req[r].name] \notin req[r].seen /\ Behind(r, req[r].left \cup {req[r].name})
  BY <1>1 DEF Tallied
<1>3. vault[req[r].vault].state = "present" /\ ~Named(req[r].vault, req[r].name)
  BY <1>2 DEF VaultsOf, Named, Folded
<1>4. PICK e \in FreshEntry :
        /\ entry' = [entry EXCEPT ![e] = [state |-> "present", vault |-> req[r].vault,
                                         name |-> req[r].name, totp |-> FALSE]]
        /\ Change(r, [req[r] EXCEPT !.pc = "readBack", !.entry = e,
                                    !.touched = @ \cup {req[r].vault}])
  BY <1>3 DEF InsertEntry
<1>5. req'[r] = [[req[r] EXCEPT !.pc = "readBack", !.entry = e,
                                !.touched = @ \cup {req[r].vault}] EXCEPT !.wrote = TRUE]
  BY <1>4 DEF Change
<1>6. /\ req'[r].pc = "readBack" /\ req'[r].entry = e /\ req'[r].vault = req[r].vault
      /\ req'[r].user = req[r].user /\ req'[r].seen = req[r].seen /\ req'[r].left = req[r].left
      /\ req'[r].name = req[r].name /\ req'[r].file = req[r].file
  BY <1>1, <1>5 DEF RequestState
<1>7. /\ e \in Entry /\ entry[e].state = "unused"
      /\ entry'[e] = [state |-> "present", vault |-> req[r].vault, name |-> req[r].name,
                      totp |-> FALSE]
      /\ \A f \in Entry \ {e} : entry'[f] = entry[f]
  BY <1>1, <1>4 DEF FreshEntry, TypeOK
<1>8. EntriesIn(req[r].vault)' = EntriesIn(req[r].vault) \cup {e}
  BY <1>6, <1>7 DEF EntriesIn
<1>9. Folded(req[r].vault)' = Folded(req[r].vault) \cup {Fold[req[r].name]}
  <2>1. \A f \in EntriesIn(req[r].vault) : entry'[f].name = entry[f].name
    BY <1>7 DEF EntriesIn
  <2>2. QED BY <1>7, <1>8, <2>1 DEF Folded
<1>10. req'[r].vault \in VaultsOf(req[r].user)'
  BY <1>1, <1>2, <1>6 DEF VaultsOf
<1>11. Behind(r, req[r].left \cup {req[r].name})'
  BY <1>2, <1>6 DEF Behind
<1>12. QED BY <1>2, <1>6, <1>8, <1>9, <1>10, <1>11 DEF Tallied

\* The entry is found again, and its name is among the ones seen.
LEMMA ReadBackTallied ==
  ASSUME Inv, NEW r \in Request, ReadBack(r), Tallied(r)
  PROVE  Tallied(r)'
<1>1. TypeOK /\ req[r] \in RequestState /\ req[r].pc = "readBack" /\ UNCHANGED <<vault, entry>>
  BY DEF Inv, TypeOK, ReadBack, At
<1>2. Kept(r)
  BY <1>1, RowFields
<1> SUFFICES ASSUME req[r].op = "import", req[r].alone PROVE Tallied(r)'
  BY <1>2 DEF Tallied, Kept
<1>3. /\ req[r].vault \in VaultsOf(req[r].user) /\ req[r].entry \in EntriesIn(req[r].vault)
      /\ Folded(req[r].vault) = req[r].seen \cup {Fold[req[r].name]}
      /\ Behind(r, req[r].left \cup {req[r].name})
  BY <1>1 DEF Tallied
<1>4. req[r].entry \in EntriesOf(req[r].user)
  BY <1>3 DEF EntriesIn, EntriesOf
<1>5. req'[r] = [req[r] EXCEPT !.pc = "rows", !.seen = @ \cup {Fold[req[r].name]}]
  <2>1. Set(r, [req[r] EXCEPT !.pc = "rows", !.seen = @ \cup {Fold[req[r].name]}])
    BY <1>4 DEF ReadBack
  <2>2. QED BY <1>1, <2>1, SetTo
<1>6. /\ req'[r].pc = "rows" /\ req'[r].vault = req[r].vault /\ req'[r].user = req[r].user
      /\ req'[r].seen = req[r].seen \cup {Fold[req[r].name]} /\ req'[r].left = req[r].left
      /\ req'[r].file = req[r].file
  BY <1>1, <1>5 DEF RequestState
<1>7. Behind(r, req[r].left)'
  BY <1>3, <1>6 DEF Behind
<1>8. QED BY <1>1, <1>3, <1>6, <1>7, SameTables DEF Tallied

\* A request's own steps.
LEMMA OwnTallied ==
  ASSUME Inv, NEW r \in Request, Own(r), Tallied(r)
  PROVE  Tallied(r)'
<1>1. TypeOK /\ Staged(r)
  BY DEF Inv, RequestInv
<1>2. CASE Arrives(r)
  BY <1>1, <1>2, Arrival DEF Tallied
<1>3. CASE RecordAudit(r) \/ RecordDenied(r) \/ Disconnect(r)
  BY <1>3, OverPc DEF Tallied
<1>4. CASE WriteEntry(r)
  BY <1>1, <1>4, ChangeFields DEF Tallied, Staged, Kept, WriteEntry, At
<1>5. CASE \/ Authenticate(r) \/ ListVaults(r) \/ ListEntries(r) \/ MatchEntries(r)
           \/ Reveal(r) \/ ReadEntry(r) \/ FindDefault(r)
  <2>1. Kept(r)
    BY <1>1, <1>5, QuietFields DEF Quiet
  <2>2. req[r].op # "import"
    BY <1>1, <1>5 DEF Staged, Authenticate, ListVaults, ListEntries, MatchEntries, Reveal,
                      ReadEntry, FindDefault, At, ApiOps, ReadOps, WriteOps
  <2>3. QED BY <2>1, <2>2 DEF Tallied, Kept
<1>6. CASE FinishImport(r)
  <2>1. req'[r].pc = "audit"
    BY <1>1, <1>6, SucceedFields DEF FinishImport
  <2>2. QED BY <2>1 DEF Tallied
<1>7. QED BY <1>2, <1>3, <1>4, <1>5, <1>6, DestinationTallied, MakeTallied, PlaceTallied,
             NamesTallied, RowTallied, InsertTallied, ReadBackTallied DEF Own, Advance

\* An import ends when no row is left.
LEMMA LastRow ==
  ASSUME Inv, [Next]_vars, NEW r \in Request, At(r, "rows"), req'[r].pc = "audit"
  PROVE  req[r].left = {}
<1>1. TypeOK /\ req[r] \in RequestState /\ req[r].pc = "rows"
  BY DEF Inv, TypeOK, At
<1>2. Own(r)
  BY <1>1, StepShape, BystanderFields
<1>3. ~Arrives(r)
  BY <1>1 DEF Arrives, ApiArrive, ApiCall, AdminCreateEntry, Import, Arrive, InFlight
<1>4. ~(RecordAudit(r) \/ RecordDenied(r) \/ Disconnect(r))
  BY OverPc
<1>5. ASSUME ImportRow(r) PROVE FALSE
  <2>1. PICK n \in req[r].left :
          Set(r, [req[r] EXCEPT !.left = @ \ {n}, !.name = n,
                                !.pc = IF Fold[n] \in req[r].seen THEN "rows" ELSE "owns"])
    BY <1>5 DEF ImportRow
  <2>2. req'[r] = [req[r] EXCEPT !.left = @ \ {n}, !.name = n,
                                 !.pc = IF Fold[n] \in req[r].seen THEN "rows" ELSE "owns"]
    BY <1>1, <2>1, SetTo
  <2>3. QED BY <1>1, <2>2 DEF RequestState
<1>6. QED BY <1>1, <1>2, <1>3, <1>4, <1>5
          DEF Own, Advance, Authenticate, RecordDenied, RecordAudit, ListVaults, ListEntries,
              MatchEntries, Reveal, ReadEntry, WriteEntry, FindDefault, FindDestination, MakeVault,
              ReadMade, CheckVault, InsertEntry, ReadBack, ListNames, FinishImport, At

\* An import that nobody else's writes overlap adds no name the vault has already, up to case, and
\* leaves none of its file out, whatever was there before (chromeimport.go: re-running is safe).
THEOREM ImportSafe == Spec => ImportRepeatable
<1>1. Init => TalliedInv
  <2>1. Init => \A r \in Request : Tallied(r)
    BY DEF Init, Tallied, Idle
  <2>2. QED BY <2>1, InitInv DEF TalliedInv
<1>2. TalliedInv /\ [Next]_vars => TalliedInv'
  <2> SUFFICES ASSUME TalliedInv, [Next]_vars PROVE TalliedInv'
    OBVIOUS
  <2>1. Inv' /\ Inv /\ \A s \in Request : Bystander(s) \/ Own(s)
    BY StepShape, NextInv DEF TalliedInv
  <2>2. \A s \in Request : Tallied(s)'
    BY <2>1, BystanderTallied, OwnTallied DEF TalliedInv
  <2>3. QED BY <2>1, <2>2 DEF TalliedInv
<1>3. TalliedInv /\ [Next]_vars =>
        [\A r \in Request :
           LET folded == {Fold[entry[e].name] : e \in EntriesIn(req[r].vault)} IN
           req[r].op = "import" /\ req[r].alone =>
             /\ At(r, "insert") /\ req'[r].pc = "readBack" => Fold[req[r].name] \notin folded
             /\ At(r, "rows") /\ req'[r].pc = "audit" =>
                  {Fold[n] : n \in req[r].file} \subseteq folded]_vars
  <2>1. ASSUME TalliedInv, [Next]_vars, NEW r \in Request, req[r].op = "import", req[r].alone,
               At(r, "rows"), req'[r].pc = "audit"
        PROVE  {Fold[n] : n \in req[r].file} \subseteq Folded(req[r].vault)
    <3>1. req[r].left = {}
      BY <2>1, LastRow DEF TalliedInv
    <3>2. req[r].seen = Folded(req[r].vault) /\ Behind(r, req[r].left)
      BY <2>1 DEF TalliedInv, Tallied, At
    <3>3. QED BY <3>1, <3>2 DEF Behind
  <2>2. ASSUME TalliedInv, NEW r \in Request, req[r].op = "import", req[r].alone, At(r, "insert")
        PROVE  Fold[req[r].name] \notin Folded(req[r].vault)
    BY <2>2 DEF TalliedInv, Tallied, At
  <2>3. QED BY <2>1, <2>2 DEF Folded
<1>4. QED BY <1>1, <1>2, <1>3, PTL DEF Spec, ImportRepeatable
=============================================================================
