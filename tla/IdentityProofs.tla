--------------------------- MODULE IdentityProofs ---------------------------
(***************************************************************************)
(* Proofs about BitwardenIdentity, for every set of accounts, device       *)
(* identifiers and requests.  Most of what it promises it promises to      *)
(* requests that follow one another; Alone says that there is room for one *)
(* request at a time.                                                      *)
(***************************************************************************)
EXTENDS BitwardenIdentity, TLAPS

-----------------------------------------------------------------------------
(* The inductive invariants.                                                  *)

Alone == \A r, s \in Request : r = s

\* The statements of a grant that knows its account, and those that follow FindDevice.
Granting == {"upsert", "found", "second", "remember", "issue"}
Resolved == {"second", "remember", "issue"}

\* A request has the account and the device its statement is about.
Seated(q) == /\ q.pc = "idle" => q = Idle
             /\ q.pc \notin {"idle", "resolve"} => q.user \in User
             /\ q.pc \in Granting \cup {"resolve"} => q.dev \in Device
             /\ q.pc \in {"stamp", "forget"} => "stamp" \in Op

TypedInv == TypeOK /\ \A r \in Request : Seated(req[r])

\* The device row of a grant stays its account's until the tokens are issued.
Matched(q) == q.pc \in Resolved => dev[q.dev].owner = q.user

OwnerInv == TypedInv /\ TokenOfOwner /\ \A r \in Request : Matched(req[r])

\* The secret requireAuth has read is still there, or still missing.
Enrolling(q) == /\ q.pc = "enable" => row[q.user].secret # 0
                /\ q.pc = "secret" => row[q.user].secret = 0

FactorInv == TypedInv /\ SecondFactorUsable /\ \A r \in Request : Enrolling(req[r])

\* Devices register with accounts that have keys, and keys are written where there are no devices.
Provided(q) == /\ q.pc \in Granting => row[q.user].master # 0
               /\ q.pc = "provision" => ~HasDevices(q.user)

Supplied == \A d \in Device : dev[d].owner # None => row[dev[d].owner].master # 0

DeviceInv == OwnerInv /\ Supplied /\ \A r \in Request : Provided(req[r])

\* A grant has verified its credentials after every change made so far.
Verified(q) == q.pc \in Granting \cup {"resolve"} => \A u \in User : row[u].changed =< q.since

\* The refresh token of d is no older than the last change of its owner's credentials.
Fresh(d) == dev[d].owner # None /\ dev[d].token # 0 => row[dev[d].owner].changed =< dev[d].since

StampInv == /\ DeviceInv
            /\ \A r \in Request : req[r].live
            /\ \A u \in User : row[u].changed =< clock
            /\ \A r \in Request : Verified(req[r])
            /\ \A d \in Device : Fresh(d) \/ Revoking(dev[d].owner)

\* The user key of a request is the one its account has.
Unlocked(q) == /\ q.pc \in Granting \cup {"master"} => q.key = row[q.user].key
               /\ q.pc = "resolve" => /\ dev[q.dev].owner # None
                                      /\ q.key = row[dev[q.dev].owner].key

\* So are those of the clients and of the refresh tokens, and clients have registered a device.
ClientsCurrent == /\ \A u \in User : data[u] # {} => HasDevices(u)
                  /\ \A a \in access : a[2] = row[a[1]].key /\ HasDevices(a[1])

DevicesCurrent == \A d \in Device : dev[d].owner # None /\ dev[d].token # 0
                                      => dev[d].key = row[dev[d].owner].key

ReadableInv == /\ DeviceInv /\ VaultReadable /\ ClientsCurrent /\ DevicesCurrent
               /\ \A r \in Request : Unlocked(req[r])

-----------------------------------------------------------------------------
(* Requests.                                                                  *)

\* Request r comes to be q.
Becomes(r, q) == /\ req' \in [Request -> RequestState] /\ req'[r] = q
                 /\ \A s \in Request : s # r => req'[s] = req[s]

\* It goes on to another statement with what it has.
Kin(q, p) == /\ q.user = p.user /\ q.dev = p.dev /\ q.key = p.key
             /\ q.since = p.since /\ q.live = p.live

Goes(r, pc) == \E q : Becomes(r, q) /\ q.pc = pc /\ Kin(q, req[r])

Ends(r) == Becomes(r, Idle)

LEMMA IdleTyped == Idle \in RequestState /\ Seated(Idle) /\ Idle.pc = "idle" /\ Idle.live
BY DEF Idle, RequestState, Pc, Seated, Granting

LEMMA Absent == None \notin User /\ None \notin Device
BY IdentityAssumption

LEMMA NoDeviceTyped == NoDevice \in DeviceRow /\ NoDevice.owner = None /\ NoDevice.token = 0
BY DEF NoDevice, DeviceRow

LEMMA Facts ==
  ASSUME TypedInv, NEW r \in Request
  PROVE  req[r] \in RequestState /\ Seated(req[r]) /\ clock \in Nat
BY DEF TypedInv, TypeOK

LEMMA SetBecomes ==
  ASSUME TypedInv, NEW r \in Request, NEW q \in RequestState, req' = [req EXCEPT ![r] = q]
  PROVE  Becomes(r, q)
BY DEF TypedInv, TypeOK, Becomes

LEMMA FinishEnds ==
  ASSUME TypedInv, NEW r \in Request, Finish(r)
  PROVE  Ends(r)
BY IdleTyped, SetBecomes DEF Finish, Ends

LEMMA GotoGoes ==
  ASSUME TypedInv, NEW r \in Request, NEW pc \in Pc, Goto(r, pc)
  PROVE  Goes(r, pc)
<1> DEFINE q == [req[r] EXCEPT !.pc = pc]
<1>1. req[r] \in RequestState
  BY Facts
<1>2. q \in RequestState /\ q.pc = pc /\ Kin(q, req[r])
  BY <1>1 DEF RequestState, Kin
<1>3. req' = [req EXCEPT ![r] = q]
  BY DEF Goto, TypedInv, TypeOK
<1> HIDE DEF q
<1>4. QED BY <1>2, <1>3, SetBecomes DEF Goes

-----------------------------------------------------------------------------
(* Tables.                                                                    *)

\* The tables stay typed.
Tabled == /\ row' \in [User -> Row] /\ dev' \in [Device -> DeviceRow]
          /\ access' \subseteq User \X Nat /\ data' \in [User -> SUBSET Nat] /\ clock' \in Nat
          /\ \A d \in Device : dev'[d].owner = None => dev'[d] = NoDevice

LEMMA TypedAgain ==
  ASSUME TypedInv, Tabled, NEW r \in Request, NEW q, Becomes(r, q), Seated(q)
  PROVE  TypedInv'
BY DEF TypedInv, TypeOK, Tabled, Becomes, Seated

LEMMA SameTables ==
  ASSUME TypedInv, UNCHANGED <<row, dev, access, data, clock>>
  PROVE  Tabled
BY DEF TypedInv, TypeOK, Tabled

\* The row of u is written: next is the new one, pointwise.
Written(u, next) == /\ row' \in [User -> Row] /\ row'[u] = next
                    /\ \A v \in User : v # u => row'[v] = row[v]

\* Device d is written.
Stored(d, next) == /\ dev' \in [Device -> DeviceRow] /\ dev'[d] = next
                   /\ \A e \in Device : e # d => dev'[e] = dev[e]

LEMMA RowWritten ==
  ASSUME TypedInv, NEW u \in User, NEW next \in Row, row' = [row EXCEPT ![u] = next]
  PROVE  Written(u, next)
BY DEF TypedInv, TypeOK, Written

LEMMA DeviceStored ==
  ASSUME TypedInv, NEW d \in Device, NEW next \in DeviceRow, dev' = [dev EXCEPT ![d] = next]
  PROVE  Stored(d, next)
BY DEF TypedInv, TypeOK, Stored

\* A statement that updates the row of its account.
LEMMA Writing ==
  ASSUME TypedInv, NEW r \in Request, req[r].pc \notin {"idle", "resolve"}, NEW next \in Row,
         NEW pc \in Pc, Write(r, req[r].user, next, pc), clock' \in Nat
  PROVE  /\ Tabled /\ UNCHANGED <<dev, access, data>>
         /\ \/ Ends(r) /\ row' = row /\ Fails(r)
            \/ /\ Written(req[r].user, next) /\ ~Fails(r)
               /\ IF pc = "idle" THEN Ends(r) ELSE Goes(r, pc)
<1>1. req[r].user \in User
  BY Facts DEF Seated
<1>2. /\ UNCHANGED <<dev, access, data>>
      /\ \/ Ends(r) /\ row' = row /\ Fails(r)
         \/ /\ Written(req[r].user, next) /\ ~Fails(r)
            /\ IF pc = "idle" THEN Ends(r) ELSE Goes(r, pc)
  BY <1>1, FinishEnds, GotoGoes, RowWritten DEF Write
<1>3. row' \in [User -> Row]
  BY <1>2 DEF Written, TypedInv, TypeOK
<1>4. QED BY <1>2, <1>3 DEF Tabled, TypedInv, TypeOK

-----------------------------------------------------------------------------
(* What each action does.                                                     *)

Quiet == UNCHANGED <<row, dev, access, data, clock>>

\* What a request has read when it is admitted.
Opened(q) ==
  \/ /\ q.pc = "upsert" /\ q.user \in User /\ q.dev \in Device
     /\ q.key = row[q.user].key /\ q.since = clock /\ row[q.user].master # 0
  \/ /\ q.pc = "resolve" /\ q.dev \in Device /\ dev[q.dev].token # 0
     /\ q.key = dev[q.dev].key /\ q.since = clock
  \/ q.pc = "master" /\ q.user \in User /\ <<q.user, q.key>> \in access
  \/ q.pc = "stamp" /\ q.user \in User /\ "stamp" \in Op
  \/ q.pc = "secret" /\ q.user \in User /\ row[q.user].secret = 0
  \/ q.pc = "enable" /\ q.user \in User /\ row[q.user].secret # 0
  \/ q.pc \in {"disable", "count"} /\ q.user \in User
  \/ q.pc = "provision" /\ q.user \in User /\ row[q.user].master = 0

LEMMA GrantArrives ==
  ASSUME TypedInv, NEW r \in Request, NEW u \in User, NEW d \in Device, NEW m \in Nat,
         PasswordGrant(r, u, d, m)
  PROVE  Quiet /\ req[r].pc = "idle" /\ \E q : Becomes(r, q) /\ q.live /\ Opened(q)
<1> DEFINE q == [Idle EXCEPT !.pc = "upsert", !.op = "grant", !.user = u, !.dev = d, !.tfa = row[u].tfa,
                   !.secret = row[u].secret, !.key = row[u].key, !.since = clock]
<1>1. row[u] \in Row /\ clock \in Nat
  BY DEF TypedInv, TypeOK
<1>2. q \in RequestState
  BY <1>1 DEF Row, Idle, RequestState, Pc, IdentityOps
<1>3. q.pc = "upsert" /\ q.user = u /\ q.dev = d /\ q.key = row[u].key /\ q.since = clock /\ q.live
  BY DEF Idle
<1>4. req' = [req EXCEPT ![r] = q] /\ Quiet /\ req[r].pc = "idle" /\ row[u].master # 0
  BY DEF PasswordGrant, Admits, At, Quiet
<1> HIDE DEF q
<1>5. QED BY <1>2, <1>3, <1>4, SetBecomes DEF Opened

LEMMA RefreshArrives ==
  ASSUME TypedInv, NEW r \in Request, NEW d \in Device, NEW t \in Nat, RefreshGrant(r, d, t)
  PROVE  Quiet /\ req[r].pc = "idle" /\ \E q : Becomes(r, q) /\ q.live /\ Opened(q)
<1> DEFINE q == [Idle EXCEPT !.pc = "resolve", !.op = "refresh", !.dev = d, !.key = dev[d].key,
                   !.token = t, !.since = clock]
<1>1. dev[d] \in DeviceRow /\ clock \in Nat
  BY DEF TypedInv, TypeOK
<1>2. q \in RequestState
  BY <1>1 DEF DeviceRow, Idle, RequestState, Pc, IdentityOps
<1>3. q.pc = "resolve" /\ q.dev = d /\ q.key = dev[d].key /\ q.since = clock /\ q.live
  BY DEF Idle
<1>4. req' = [req EXCEPT ![r] = q] /\ Quiet /\ req[r].pc = "idle" /\ dev[d].token # 0
  BY DEF RefreshGrant, Admits, At, Quiet
<1> HIDE DEF q
<1>5. QED BY <1>2, <1>3, <1>4, SetBecomes DEF Opened

LEMMA ProvisionArrives ==
  ASSUME TypedInv, NEW r \in Request, NEW u \in User, ProvisionUser(r, u)
  PROVE  Quiet /\ req[r].pc = "idle" /\ \E q : Becomes(r, q) /\ q.live /\ Opened(q)
<1> DEFINE pc == IF row[u].master # 0 THEN "count" ELSE "provision"
           q == [Idle EXCEPT !.op = "provision", !.user = u, !.pc = pc]
<1>1. pc \in {"count", "provision"} /\ (pc = "provision" => row[u].master = 0)
  OBVIOUS
<1>2. req' = [req EXCEPT ![r] = q] /\ Quiet /\ req[r].pc = "idle"
  BY DEF ProvisionUser, Admits, At, Quiet
<1> HIDE DEF pc
<1>3. q \in RequestState
  BY <1>1 DEF Idle, RequestState, Pc, IdentityOps
<1>4. q.pc = pc /\ q.user = u /\ q.live
  BY DEF Idle
<1> HIDE DEF q
<1>5. QED BY <1>1, <1>2, <1>3, <1>4, SetBecomes DEF Opened

\* The requests behind requireAuth.
LEMMA Started ==
  ASSUME TypedInv, NEW r \in Request, NEW a \in access, NEW op \in IdentityOps, NEW pc \in Pc,
         Authenticated(r, a, op), Start(r, a, op, pc)
  PROVE  /\ Quiet /\ req[r].pc = "idle" /\ op \in Op /\ a[1] \in User /\ <<a[1], a[2]>> \in access
         /\ \E q : Becomes(r, q) /\ q.live /\ q.pc = pc /\ q.user = a[1] /\ q.key = a[2]
<1> DEFINE q == [Idle EXCEPT !.pc = pc, !.op = op, !.user = a[1], !.key = a[2]]
<1>1. a[1] \in User /\ a[2] \in Nat /\ a = <<a[1], a[2]>>
  BY DEF TypedInv, TypeOK
<1>2. q \in RequestState
  BY <1>1 DEF Idle, RequestState
<1>3. q.pc = pc /\ q.user = a[1] /\ q.key = a[2] /\ q.live
  BY DEF Idle
<1>4. req' = [req EXCEPT ![r] = q] /\ Quiet /\ req[r].pc = "idle" /\ op \in Op
  BY DEF Authenticated, Start, Admits, At, Quiet
<1> HIDE DEF q
<1>5. QED BY <1>1, <1>2, <1>3, <1>4, SetBecomes

LEMMA ClientArrives ==
  ASSUME TypedInv, NEW r \in Request, NEW a \in access, NEW n \in Nat,
         \/ EnableAuthenticator(r, a) \/ ChangeMasterPassword(r, a, n) \/ SecurityStamp(r, a, n)
         \/ ConfirmAuthenticator(r, a, n) \/ DisableTwoFactor(r, a, n)
  PROVE  Quiet /\ req[r].pc = "idle" /\ \E q : Becomes(r, q) /\ q.live /\ Opened(q)
<1>0. /\ "enroll" \in IdentityOps /\ "master" \in IdentityOps /\ "stamp" \in IdentityOps
      /\ "confirm" \in IdentityOps /\ "disable" \in IdentityOps
      /\ "secret" \in Pc /\ "master" \in Pc /\ "stamp" \in Pc /\ "enable" \in Pc /\ "disable" \in Pc
  BY DEF IdentityOps, Pc
<1>1. CASE EnableAuthenticator(r, a)
  <2>1. Authenticated(r, a, "enroll") /\ Start(r, a, "enroll", "secret") /\ row[a[1]].secret = 0
    BY <1>1 DEF EnableAuthenticator, NeedsSecret
  <2>2. /\ Quiet /\ req[r].pc = "idle" /\ "enroll" \in Op /\ a[1] \in User /\ <<a[1], a[2]>> \in access
        /\ \E q : Becomes(r, q) /\ q.live /\ q.pc = "secret" /\ q.user = a[1] /\ q.key = a[2]
    BY <1>0, <2>1, Started
  <2>3. PICK q : Becomes(r, q) /\ q.live /\ q.pc = "secret" /\ q.user = a[1] /\ q.key = a[2]
    BY <2>2
  <2>4. QED BY <2>1, <2>2, <2>3 DEF Opened
<1>2. CASE ChangeMasterPassword(r, a, n)
  <2>1. Authenticated(r, a, "master") /\ Start(r, a, "master", "master")
    BY <1>2 DEF ChangeMasterPassword
  <2>2. /\ Quiet /\ req[r].pc = "idle" /\ "master" \in Op /\ a[1] \in User /\ <<a[1], a[2]>> \in access
        /\ \E q : Becomes(r, q) /\ q.live /\ q.pc = "master" /\ q.user = a[1] /\ q.key = a[2]
    BY <1>0, <2>1, Started
  <2>3. PICK q : Becomes(r, q) /\ q.live /\ q.pc = "master" /\ q.user = a[1] /\ q.key = a[2]
    BY <2>2
  <2>4. QED BY <2>1, <2>2, <2>3 DEF Opened
<1>3. CASE SecurityStamp(r, a, n)
  <2>1. Authenticated(r, a, "stamp") /\ Start(r, a, "stamp", "stamp")
    BY <1>3 DEF SecurityStamp
  <2>2. /\ Quiet /\ req[r].pc = "idle" /\ "stamp" \in Op /\ a[1] \in User /\ <<a[1], a[2]>> \in access
        /\ \E q : Becomes(r, q) /\ q.live /\ q.pc = "stamp" /\ q.user = a[1] /\ q.key = a[2]
    BY <1>0, <2>1, Started
  <2>3. PICK q : Becomes(r, q) /\ q.live /\ q.pc = "stamp" /\ q.user = a[1] /\ q.key = a[2]
    BY <2>2
  <2>4. QED BY <2>1, <2>2, <2>3 DEF Opened
<1>4. CASE ConfirmAuthenticator(r, a, n)
  <2>1. Authenticated(r, a, "confirm") /\ Start(r, a, "confirm", "enable") /\ row[a[1]].secret # 0
    BY <1>4 DEF ConfirmAuthenticator
  <2>2. /\ Quiet /\ req[r].pc = "idle" /\ "confirm" \in Op /\ a[1] \in User /\ <<a[1], a[2]>> \in access
        /\ \E q : Becomes(r, q) /\ q.live /\ q.pc = "enable" /\ q.user = a[1] /\ q.key = a[2]
    BY <1>0, <2>1, Started
  <2>3. PICK q : Becomes(r, q) /\ q.live /\ q.pc = "enable" /\ q.user = a[1] /\ q.key = a[2]
    BY <2>2
  <2>4. QED BY <2>1, <2>2, <2>3 DEF Opened
<1>5. CASE DisableTwoFactor(r, a, n)
  <2>1. Authenticated(r, a, "disable") /\ Start(r, a, "disable", "disable")
    BY <1>5 DEF DisableTwoFactor
  <2>2. /\ Quiet /\ req[r].pc = "idle" /\ "disable" \in Op /\ a[1] \in User /\ <<a[1], a[2]>> \in access
        /\ \E q : Becomes(r, q) /\ q.live /\ q.pc = "disable" /\ q.user = a[1] /\ q.key = a[2]
    BY <1>0, <2>1, Started
  <2>3. PICK q : Becomes(r, q) /\ q.live /\ q.pc = "disable" /\ q.user = a[1] /\ q.key = a[2]
    BY <2>2
  <2>4. QED BY <2>1, <2>2, <2>3 DEF Opened
<1>6. QED BY <1>1, <1>2, <1>3, <1>4, <1>5

LEMMA ArriveDoes ==
  ASSUME TypedInv, NEW r \in Request, Arrive(r)
  PROVE  Quiet /\ req[r].pc = "idle" /\ \E q : Becomes(r, q) /\ q.live /\ Opened(q)
<1>0. \A n \in 1..clock : n \in Nat
  OBVIOUS
<1>1. CASE \E u \in User : ProvisionUser(r, u)
  BY <1>1, ProvisionArrives
<1>2. CASE \E u \in User, d \in Device, m \in 1..clock : PasswordGrant(r, u, d, m)
  BY <1>0, <1>2, GrantArrives
<1>3. CASE \E d \in Device, t \in 1..clock : RefreshGrant(r, d, t)
  BY <1>0, <1>3, RefreshArrives
<1>4. CASE \E a \in access : EnableAuthenticator(r, a)
  <2>1. PICK a \in access : EnableAuthenticator(r, a)
    BY <1>4
  <2>2. 0 \in Nat
    OBVIOUS
  <2>3. QED BY <2>1, <2>2, ClientArrives
<1>5. CASE \E a \in access, n \in 1..clock :
             \/ ChangeMasterPassword(r, a, n) \/ SecurityStamp(r, a, n)
             \/ ConfirmAuthenticator(r, a, n) \/ DisableTwoFactor(r, a, n)
  BY <1>0, <1>5, ClientArrives
<1>6. QED BY <1>1, <1>2, <1>3, <1>4, <1>5 DEF Arrive

\* A grant that finds no row for its device registers one.
LEMMA UpsertDoes ==
  ASSUME TypedInv, NEW r \in Request, UpsertDevice(r)
  PROVE  /\ Tabled /\ UNCHANGED <<row, access, data, clock>> /\ req[r].pc = "upsert"
         /\ req[r].user \in User /\ req[r].dev \in Device
         /\ \/ Ends(r) /\ dev' = dev
            \/ Goes(r, "found") /\ dev' = dev
            \/ /\ Goes(r, "found") /\ dev[req[r].dev].owner = None
               /\ \E new \in DeviceRow : /\ Stored(req[r].dev, new) /\ new.owner = req[r].user
                                         /\ new.token = 0
<1> DEFINE d == req[r].dev
           new == [dev[d] EXCEPT !.owner = req[r].user]
<1>1. /\ req[r].pc = "upsert" /\ req[r].user \in User /\ d \in Device
      /\ UNCHANGED <<row, access, data, clock>>
  BY Facts DEF UpsertDevice, At, Seated, Granting
<1>2. CASE dev' = dev
  <2>1. Ends(r) \/ Goes(r, "found")
    BY <1>1, FinishEnds, GotoGoes DEF UpsertDevice, Pc
  <2>2. QED BY <1>1, <1>2, <2>1, SameTables
<1>3. CASE dev' # dev
  <2>1. /\ Goes(r, "found") /\ dev[d].owner = None /\ dev' = [dev EXCEPT ![d] = new]
    BY <1>1, <1>3, GotoGoes DEF UpsertDevice, Pc, TypedInv, TypeOK
  <2>2. dev[d] = NoDevice
    BY <1>1, <2>1 DEF TypedInv, TypeOK
  <2>3. new \in DeviceRow /\ new.owner = req[r].user /\ new.token = 0
    BY <1>1, <2>2, NoDeviceTyped DEF DeviceRow
  <2> HIDE DEF new
  <2>4. Stored(d, new)
    BY <1>1, <2>1, <2>3, DeviceStored
  <2>5. Tabled
    BY <1>1, <2>3, <2>4, Absent DEF Tabled, Stored, TypedInv, TypeOK
  <2>6. QED BY <1>1, <2>1, <2>3, <2>4, <2>5
<1>4. QED BY <1>2, <1>3

LEMMA FindDoes ==
  ASSUME TypedInv, NEW r \in Request, FindDevice(r)
  PROVE  /\ Quiet /\ req[r].pc = "found"
         /\ \/ Ends(r)
            \/ /\ \E pc \in {"second", "issue"} : Goes(r, pc)
               /\ dev[req[r].dev].owner = req[r].user
<1>1. {"second", "issue"} \subseteq Pc
  BY DEF Pc
<1>2. QED BY <1>1, FinishEnds, GotoGoes DEF FindDevice, At, Quiet, OwnDevice

LEMMA CheckDoes ==
  ASSUME TypedInv, NEW r \in Request, NEW n \in Nat, NEW remember \in BOOLEAN,
         CheckTwoFactor(r, n, remember)
  PROVE  /\ Quiet /\ req[r].pc = "second"
         /\ Ends(r) \/ \E pc \in {"remember", "issue"} : Goes(r, pc)
<1>1. {"remember", "issue"} \subseteq Pc
  BY DEF Pc
<1>2. QED BY <1>1, FinishEnds, GotoGoes DEF CheckTwoFactor, At, Quiet

\* The remember token of a device concerns nothing else of it.
LEMMA RememberDoes ==
  ASSUME TypedInv, NEW r \in Request, RememberDevice(r)
  PROVE  /\ Tabled /\ UNCHANGED <<row, access, data>> /\ req[r].pc = "remember"
         /\ clock' \in {clock, clock + 1} /\ Goes(r, "issue")
         /\ \A d \in Device : /\ dev'[d].owner = dev[d].owner /\ dev'[d].token = dev[d].token
                              /\ dev'[d].issuedTo = dev[d].issuedTo
                              /\ dev'[d].key = dev[d].key /\ dev'[d].since = dev[d].since
<1> DEFINE d == req[r].dev
           new == [dev[d] EXCEPT !.remember = clock + 1]
<1>1. /\ req[r].pc = "remember" /\ d \in Device /\ UNCHANGED <<row, access, data>>
      /\ Goes(r, "issue") /\ clock \in Nat
  BY Facts, GotoGoes DEF RememberDevice, At, Seated, Granting, Pc
<1>2. CASE dev' = dev /\ clock' = clock
  BY <1>1, <1>2, SameTables
<1>3. CASE dev[d].owner # None /\ dev' = [dev EXCEPT ![d].remember = clock + 1] /\ clock' = clock + 1
  <2>1. dev[d] \in DeviceRow /\ dev' = [dev EXCEPT ![d] = new]
    BY <1>1, <1>3 DEF TypedInv, TypeOK
  <2>2. /\ new \in DeviceRow /\ new.owner = dev[d].owner /\ new.token = dev[d].token
        /\ new.issuedTo = dev[d].issuedTo /\ new.key = dev[d].key /\ new.since = dev[d].since
    BY <1>1, <2>1 DEF DeviceRow
  <2> HIDE DEF new
  <2>3. Stored(d, new)
    BY <1>1, <2>1, <2>2, DeviceStored
  <2>4. Tabled
    BY <1>1, <1>3, <2>2, <2>3 DEF Tabled, Stored, TypedInv, TypeOK
  <2>5. QED BY <1>1, <1>3, <2>2, <2>3, <2>4 DEF Stored
<1>4. QED BY <1>2, <1>3 DEF RememberDevice

\* A refresh goes on for whoever owns the device by now.
LEMMA ResolveDoes ==
  ASSUME TypedInv, NEW r \in Request, ResolveAccount(r)
  PROVE  /\ Quiet /\ req[r].pc = "resolve"
         /\ \/ Ends(r)
            \/ \E q : /\ Becomes(r, q) /\ q.pc = "issue" /\ q.user \in User /\ q.dev = req[r].dev
                      /\ q.user = dev[req[r].dev].owner /\ q.key = req[r].key
                      /\ q.since = req[r].since /\ q.live = req[r].live
<1> DEFINE u == dev[req[r].dev].owner
           q == [req[r] EXCEPT !.pc = "issue", !.user = u]
<1>1. /\ req[r].pc = "resolve" /\ Quiet /\ req[r] \in RequestState /\ req[r].dev \in Device
  BY Facts DEF ResolveAccount, At, Quiet, Seated
<1>2. u \in User \cup {None}
  BY <1>1 DEF TypedInv, TypeOK, DeviceRow
<1>3. /\ q \in RequestState /\ q.pc = "issue" /\ q.user = u /\ q.dev = req[r].dev
      /\ q.key = req[r].key /\ q.since = req[r].since /\ q.live = req[r].live
  BY <1>1, <1>2 DEF RequestState, Pc
<1>4. Finish(r) \/ (req' = [req EXCEPT ![r] = q] /\ u # None)
  BY <1>1 DEF ResolveAccount, TypedInv, TypeOK
<1> HIDE DEF q
<1>5. QED BY <1>1, <1>2, <1>3, <1>4, FinishEnds, SetBecomes

\* The device row gets a refresh token, whoever it belongs to by now.
LEMMA IssueDoes ==
  ASSUME TypedInv, NEW r \in Request, IssueTokens(r)
  PROVE  /\ Tabled /\ UNCHANGED <<row, data>> /\ req[r].pc = "issue" /\ Ends(r)
         /\ req[r].user \in User /\ req[r].dev \in Device /\ clock' \in {clock, clock + 1}
         /\ access' \in {access, access \cup {<<req[r].user, req[r].key>>}}
         /\ \/ dev' = dev
            \/ \E new \in DeviceRow : /\ Stored(req[r].dev, new)
                                      /\ new.owner = dev[req[r].dev].owner
                                      /\ new.issuedTo = req[r].user /\ new.key = req[r].key
                                      /\ new.since = req[r].since
<1> DEFINE d == req[r].dev
           new == [dev[d] EXCEPT !.token = clock + 1, !.key = req[r].key,
                                 !.since = req[r].since, !.issuedTo = req[r].user]
<1>1. /\ req[r].pc = "issue" /\ req[r].user \in User /\ d \in Device /\ req[r] \in RequestState
      /\ UNCHANGED <<row, data>> /\ Ends(r) /\ clock \in Nat
  BY Facts, FinishEnds DEF IssueTokens, At, Seated, Granting
<1>2. /\ clock' \in {clock, clock + 1}
      /\ access' \in {access, access \cup {<<req[r].user, req[r].key>>}}
      /\ dev' = dev \/ (dev[d].owner # None /\ dev' = [dev EXCEPT ![d] = new])
  BY DEF IssueTokens
<1>3. access' \subseteq User \X Nat /\ data' \in [User -> SUBSET Nat] /\ row' \in [User -> Row]
      /\ clock' \in Nat
  BY <1>1, <1>2 DEF TypedInv, TypeOK, RequestState
<1>4. dev[d] \in DeviceRow
  BY <1>1 DEF TypedInv, TypeOK
<1>5. /\ new \in DeviceRow /\ new.owner = dev[d].owner /\ new.issuedTo = req[r].user
      /\ new.key = req[r].key /\ new.since = req[r].since
  <2>1. req[r].key \in Nat /\ req[r].since \in Nat /\ clock + 1 \in Nat
    BY <1>1 DEF RequestState
  <2>2. QED BY <1>1, <1>4, <2>1 DEF DeviceRow
<1> HIDE DEF new
<1>6. CASE dev' = dev
  BY <1>1, <1>2, <1>3, <1>6 DEF Tabled, TypedInv, TypeOK
<1>7. CASE dev[d].owner # None /\ dev' = [dev EXCEPT ![d] = new]
  <2>1. Stored(d, new)
    BY <1>1, <1>5, <1>7, DeviceStored
  <2>2. Tabled
    BY <1>1, <1>3, <1>5, <1>7, <2>1 DEF Tabled, Stored, TypedInv, TypeOK
  <2>3. QED BY <1>1, <1>2, <1>5, <2>1, <2>2
<1>8. QED BY <1>2, <1>6, <1>7

\* The updates of bitwarden_accounts: what each of them does to the row, and what it leaves alone.
LEMMA MasterDoes ==
  ASSUME TypedInv, NEW r \in Request, WriteMasterPassword(r)
  PROVE  /\ Tabled /\ UNCHANGED <<dev, access, data>> /\ req[r].pc = "master"
         /\ \/ Ends(r) /\ row' = row /\ clock' = clock
            \/ /\ Goes(r, "revoke") /\ clock' = clock + 1
               /\ \E new \in Row : /\ Written(req[r].user, new) /\ new.master = clock + 1
                                   /\ new.key = req[r].key /\ new.changed = clock + 1
                                   /\ new.tfa = row[req[r].user].tfa
                                   /\ new.secret = row[req[r].user].secret
<1> DEFINE u == req[r].user
           new == [row[u] EXCEPT !.master = clock + 1, !.key = req[r].key, !.changed = clock + 1]
<1>1. /\ req[r].pc = "master" /\ req[r] \in RequestState /\ u \in User /\ row[u] \in Row /\ clock \in Nat
  BY Facts DEF WriteMasterPassword, At, Seated, TypedInv, TypeOK
<1>2. /\ new \in Row /\ new.master = clock + 1 /\ new.key = req[r].key /\ new.changed = clock + 1
      /\ new.tfa = row[u].tfa /\ new.secret = row[u].secret
  <2>1. req[r].key \in Nat /\ clock + 1 \in Nat
    BY <1>1 DEF RequestState
  <2>2. QED BY <1>1, <2>1 DEF Row
<1>3. Write(r, u, new, "revoke") /\ clock' = IF Fails(r) THEN clock ELSE clock + 1
  BY DEF WriteMasterPassword
<1> HIDE DEF new
<1>4. QED BY <1>1, <1>2, <1>3, Writing DEF Pc

LEMMA StampDoes ==
  ASSUME TypedInv, NEW r \in Request, WriteStamp(r)
  PROVE  /\ Tabled /\ UNCHANGED <<dev, access, data>> /\ req[r].pc = "stamp"
         /\ \/ Ends(r) /\ row' = row /\ clock' = clock
            \/ /\ Goes(r, "forget") /\ clock' = clock + 1
               /\ \E new \in Row : /\ Written(req[r].user, new) /\ new.changed = clock + 1
                                   /\ new.master = row[req[r].user].master
                                   /\ new.key = row[req[r].user].key
                                   /\ new.tfa = row[req[r].user].tfa
                                   /\ new.secret = row[req[r].user].secret
<1> DEFINE u == req[r].user
           new == [row[u] EXCEPT !.changed = clock + 1]
<1>1. /\ req[r].pc = "stamp" /\ req[r] \in RequestState /\ u \in User /\ row[u] \in Row /\ clock \in Nat
  BY Facts DEF WriteStamp, At, Seated, TypedInv, TypeOK
<1>2. /\ new \in Row /\ new.changed = clock + 1 /\ new.master = row[u].master /\ new.key = row[u].key
      /\ new.tfa = row[u].tfa /\ new.secret = row[u].secret
  BY <1>1 DEF Row
<1>3. Write(r, u, new, "forget") /\ clock' = IF Fails(r) THEN clock ELSE clock + 1
  BY DEF WriteStamp
<1> HIDE DEF new
<1>4. QED BY <1>1, <1>2, <1>3, Writing DEF Pc

LEMMA SecretDoes ==
  ASSUME TypedInv, NEW r \in Request, WriteSecret(r)
  PROVE  /\ Tabled /\ UNCHANGED <<dev, access, data>> /\ req[r].pc = "secret" /\ Ends(r)
         /\ clock' \in {clock, clock + 1}
         /\ \/ row' = row
            \/ \E new \in Row : /\ Written(req[r].user, new) /\ new.secret # 0
                                /\ new.changed = row[req[r].user].changed
                                /\ new.master = row[req[r].user].master
                                /\ new.key = row[req[r].user].key
                                /\ new.tfa = row[req[r].user].tfa
<1> DEFINE u == req[r].user
           new == [row[u] EXCEPT !.secret = clock + 1]
<1>1. /\ req[r].pc = "secret" /\ req[r] \in RequestState /\ u \in User /\ row[u] \in Row /\ clock \in Nat
  BY Facts DEF WriteSecret, At, Seated, TypedInv, TypeOK
<1>2. /\ new \in Row /\ new.changed = row[u].changed /\ new.master = row[u].master
      /\ new.key = row[u].key /\ new.tfa = row[u].tfa /\ new.secret # 0
  BY <1>1 DEF Row
<1>3. Write(r, u, new, "idle") /\ clock' = IF Fails(r) THEN clock ELSE clock + 1
  BY DEF WriteSecret
<1> HIDE DEF new
<1>4. QED BY <1>1, <1>2, <1>3, Writing DEF Pc

\* Two-factor login is switched on, or off together with its secret.
LEMMA FactorDoes ==
  ASSUME TypedInv, NEW r \in Request, EnableTwoFactor(r) \/ ClearTwoFactor(r)
  PROVE  /\ Tabled /\ UNCHANGED <<dev, access, data, clock>> /\ Ends(r)
         /\ req[r].pc \in {"enable", "disable"}
         /\ \/ row' = row
            \/ \E new \in Row : /\ Written(req[r].user, new)
                                /\ new.changed = row[req[r].user].changed
                                /\ new.master = row[req[r].user].master
                                /\ new.key = row[req[r].user].key
                                /\ IF req[r].pc = "enable"
                                   THEN new.tfa /\ new.secret = row[req[r].user].secret
                                   ELSE ~new.tfa /\ new.secret = 0
<1> DEFINE u == req[r].user
<1>1. /\ req[r].pc \in {"enable", "disable"} /\ req[r] \in RequestState /\ u \in User /\ row[u] \in Row
      /\ clock \in Nat /\ clock' = clock
  BY Facts DEF EnableTwoFactor, ClearTwoFactor, At, Seated, TypedInv, TypeOK
<1>2. CASE EnableTwoFactor(r)
  <2> DEFINE new == [row[u] EXCEPT !.tfa = TRUE]
  <2>1. /\ new \in Row /\ new.changed = row[u].changed /\ new.master = row[u].master
        /\ new.key = row[u].key /\ new.tfa /\ new.secret = row[u].secret
    BY <1>1 DEF Row
  <2>2. Write(r, u, new, "idle") /\ req[r].pc = "enable"
    BY <1>2 DEF EnableTwoFactor, At
  <2> HIDE DEF new
  <2>3. QED BY <1>1, <2>1, <2>2, Writing DEF Pc
<1>3. CASE ClearTwoFactor(r)
  <2> DEFINE new == TwoFactorCleared(row[u])
  <2>1. /\ new \in Row /\ new.changed = row[u].changed /\ new.master = row[u].master
        /\ new.key = row[u].key /\ ~new.tfa /\ new.secret = 0
    BY <1>1 DEF Row, TwoFactorCleared
  <2>2. Write(r, u, new, "idle") /\ req[r].pc = "disable"
    BY <1>3 DEF ClearTwoFactor, At
  <2> HIDE DEF new
  <2>3. QED BY <1>1, <2>1, <2>2, Writing DEF Pc
<1>4. QED BY <1>2, <1>3

LEMMA CountDoes ==
  ASSUME TypedInv, NEW r \in Request, CountDevices(r)
  PROVE  /\ Quiet /\ req[r].pc = "count"
         /\ Ends(r) \/ (Goes(r, "provision") /\ ~HasDevices(req[r].user))
BY FinishEnds, GotoGoes DEF CountDevices, At, Quiet, Pc

LEMMA KeysDoes ==
  ASSUME TypedInv, NEW r \in Request, WriteKeys(r)
  PROVE  /\ Tabled /\ UNCHANGED <<dev, access, data>> /\ req[r].pc = "provision" /\ Ends(r)
         /\ clock' \in {clock, clock + 1}
         /\ \/ row' = row
            \/ /\ clock' = clock + 1
               /\ \E new \in Row : /\ Written(req[r].user, new) /\ new.changed = clock + 1
                                   /\ new.master = clock + 1
                                   /\ new.tfa = row[req[r].user].tfa
                                   /\ new.secret = row[req[r].user].secret
<1> DEFINE u == req[r].user
           new == [row[u] EXCEPT !.master = clock + 1, !.key = clock + 1, !.changed = clock + 1]
<1>1. /\ req[r].pc = "provision" /\ req[r] \in RequestState /\ u \in User /\ row[u] \in Row /\ clock \in Nat
  BY Facts DEF WriteKeys, At, Seated, TypedInv, TypeOK
<1>2. /\ new \in Row /\ new.changed = clock + 1 /\ new.master = clock + 1
      /\ new.tfa = row[u].tfa /\ new.secret = row[u].secret
  <2>1. clock + 1 \in Nat
    BY <1>1
  <2>2. QED BY <1>1, <2>1 DEF Row
<1>3. Write(r, u, new, "idle") /\ clock' = IF Fails(r) THEN clock ELSE clock + 1
  BY DEF WriteKeys
<1> HIDE DEF new
<1>4. QED BY <1>1, <1>2, <1>3, Writing DEF Pc

\* The devices of an account lose their refresh tokens, or are forgotten.
LEMMA RevokeDoes ==
  ASSUME TypedInv, NEW r \in Request, RevokeTokens(r)
  PROVE  /\ Tabled /\ UNCHANGED <<row, access, data, clock>> /\ req[r].pc = "revoke" /\ Ends(r)
         /\ \A d \in Device : /\ dev'[d].owner = dev[d].owner /\ dev'[d].issuedTo = dev[d].issuedTo
                              /\ dev'[d].key = dev[d].key /\ dev'[d].since = dev[d].since
                              /\ dev'[d].token \in {0, dev[d].token}
                              /\ req[r].live /\ dev[d].owner = req[r].user => dev'[d].token = 0
<1>1. /\ req[r].pc = "revoke" /\ req[r].user \in User /\ UNCHANGED <<row, access, data, clock>> /\ Ends(r)
      /\ req[r].user # None
  BY Facts, FinishEnds, Absent DEF RevokeTokens, At, Seated
<1>2. ASSUME NEW d \in Device
      PROVE  /\ [dev[d] EXCEPT !.token = 0] \in DeviceRow
             /\ [dev[d] EXCEPT !.token = 0].owner = dev[d].owner
             /\ [dev[d] EXCEPT !.token = 0].issuedTo = dev[d].issuedTo
             /\ [dev[d] EXCEPT !.token = 0].key = dev[d].key
             /\ [dev[d] EXCEPT !.token = 0].since = dev[d].since
             /\ [dev[d] EXCEPT !.token = 0].token = 0
  <2>1. dev[d] \in DeviceRow
    BY DEF TypedInv, TypeOK
  <2>2. QED BY <2>1 DEF DeviceRow
<1>3. CASE Fails(r)
  BY <1>1, <1>3, SameTables DEF RevokeTokens, Fails
<1>4. CASE ~Fails(r)
  <2>1. dev' = [d \in Device |-> IF dev[d].owner = req[r].user THEN [dev[d] EXCEPT !.token = 0]
                                 ELSE dev[d]]
    BY <1>4 DEF RevokeTokens, RevokedTokens
  <2>2. dev' \in [Device -> DeviceRow]
    BY <1>2, <2>1 DEF TypedInv, TypeOK
  <2>3. \A d \in Device : dev'[d].owner = None => dev'[d] = NoDevice
    BY <1>1, <1>2, <2>1 DEF TypedInv, TypeOK
  <2>4. Tabled
    BY <1>1, <2>2, <2>3 DEF Tabled, TypedInv, TypeOK
  <2>5. QED BY <1>1, <1>2, <2>1, <2>4
<1>5. QED BY <1>3, <1>4

LEMMA ForgetDoes ==
  ASSUME TypedInv, NEW r \in Request, ForgetDevices(r)
  PROVE  /\ Tabled /\ UNCHANGED <<row, access, data, clock>> /\ req[r].pc = "forget" /\ Ends(r)
         /\ \A d \in Device : \/ dev'[d] = dev[d] /\ (req[r].live => dev[d].owner # req[r].user)
                              \/ dev'[d] = NoDevice
<1>1. /\ req[r].pc = "forget" /\ UNCHANGED <<row, access, data, clock>> /\ Ends(r)
  BY FinishEnds DEF ForgetDevices, At
<1>2. CASE Fails(r)
  BY <1>1, <1>2, SameTables DEF ForgetDevices, Fails
<1>3. CASE ~Fails(r)
  <2>1. dev' = [d \in Device |-> IF dev[d].owner = req[r].user THEN NoDevice ELSE dev[d]]
    BY <1>3 DEF ForgetDevices, DeletedDevices
  <2>2. Tabled
    BY <1>1, <2>1, NoDeviceTyped DEF Tabled, TypedInv, TypeOK
  <2>3. QED BY <1>1, <2>1, <2>2
<1>4. QED BY <1>2, <1>3

\* Steps that no request takes, and the client that hangs up.
LEMMA OthersDo ==
  ASSUME TypedInv, NEW a, Expire(a) \/ StoreCipher(a)
  PROVE  /\ Tabled /\ UNCHANGED <<row, dev, req, clock>> /\ a \in access
         /\ \/ access' = access \ {a} /\ data' = data
            \/ /\ access' = access
               /\ \A u \in User : data'[u] = IF u = a[1] THEN data[u] \cup {a[2]} ELSE data[u]
<1>1. UNCHANGED <<row, dev, req, clock>> /\ a \in access
  BY DEF Expire, StoreCipher
<1>2. a[1] \in User /\ a[2] \in Nat
  BY <1>1 DEF TypedInv, TypeOK
<1>3. CASE Expire(a)
  <2>1. access' = access \ {a} /\ data' = data
    BY <1>3 DEF Expire
  <2>2. QED BY <1>1, <2>1 DEF Tabled, TypedInv, TypeOK
<1>4. CASE StoreCipher(a)
  <2>1. access' = access /\ data' = [data EXCEPT ![a[1]] = data[a[1]] \cup {a[2]}]
        /\ data \in [User -> SUBSET Nat]
    BY <1>4 DEF StoreCipher, TypedInv, TypeOK
  <2>2. data[a[1]] \cup {a[2]} \in SUBSET Nat
    BY <1>2, <2>1
  <2>3. data' \in [User -> SUBSET Nat]
    BY <2>1, <2>2
  <2>4. QED BY <1>1, <1>2, <2>1, <2>3 DEF Tabled, TypedInv, TypeOK
<1>5. QED BY <1>3, <1>4

LEMMA StatusDoes ==
  ASSUME TypedInv, NEW u \in User, SetStatus(u)
  PROVE  /\ Tabled /\ UNCHANGED <<dev, access, data, req, clock>>
         /\ \E new \in Row : /\ Written(u, new) /\ new.changed = row[u].changed
                             /\ new.master = row[u].master /\ new.key = row[u].key
                             /\ new.tfa = row[u].tfa /\ new.secret = row[u].secret
<1> DEFINE new == [row[u] EXCEPT !.active = ~row[u].active]
<1>1. row[u] \in Row
  BY DEF TypedInv, TypeOK
<1>2. /\ new \in Row /\ new.changed = row[u].changed /\ new.master = row[u].master
      /\ new.key = row[u].key /\ new.tfa = row[u].tfa /\ new.secret = row[u].secret
  BY <1>1 DEF Row
<1>3. row' = [row EXCEPT ![u] = new] /\ UNCHANGED <<dev, access, data, req, clock>>
  BY DEF SetStatus, TypedInv, TypeOK
<1> HIDE DEF new
<1>4. Written(u, new)
  BY <1>2, <1>3, RowWritten
<1>5. Tabled
  BY <1>3, <1>4 DEF Written, Tabled, TypedInv, TypeOK
<1>6. QED BY <1>2, <1>3, <1>4, <1>5

LEMMA DisconnectDoes ==
  ASSUME TypedInv, NEW r \in Request, Disconnect(r)
  PROVE  /\ Quiet /\ "disconnect" \in Faults /\ req[r].pc # "idle"
         /\ \E q : /\ Becomes(r, q) /\ q.pc = req[r].pc /\ q.user = req[r].user
                   /\ q.dev = req[r].dev /\ q.key = req[r].key /\ q.since = req[r].since
<1> DEFINE q == [req[r] EXCEPT !.live = FALSE]
<1>1. req[r] \in RequestState
  BY Facts
<1>2. /\ q \in RequestState /\ q.pc = req[r].pc /\ q.user = req[r].user /\ q.dev = req[r].dev
      /\ q.key = req[r].key /\ q.since = req[r].since
  BY <1>1 DEF RequestState
<1>3. /\ req' = [req EXCEPT ![r] = q] /\ Quiet /\ "disconnect" \in Faults /\ req[r].pc # "idle"
  BY DEF Disconnect, At, Quiet, TypedInv, TypeOK
<1> HIDE DEF q
<1>4. QED BY <1>2, <1>3, SetBecomes

-----------------------------------------------------------------------------
(* Types.                                                                     *)

LEMMA GoesTyped ==
  ASSUME TypedInv, Tabled, NEW r \in Request, NEW pc \in Pc, Goes(r, pc), req[r].pc \notin {"idle", "resolve"},
         pc \notin {"idle", "resolve"}, pc \in Granting => req[r].pc \in Granting,
         pc \in {"stamp", "forget"} => req[r].pc = "stamp"
  PROVE  TypedInv'
<1>1. PICK q : Becomes(r, q) /\ q.pc = pc /\ Kin(q, req[r])
  BY DEF Goes
<1>2. Seated(q)
  BY <1>1, Facts DEF Seated, Kin
<1>3. QED BY <1>1, <1>2, TypedAgain

LEMMA EndsTyped ==
  ASSUME TypedInv, Tabled, NEW r \in Request, Ends(r)
  PROVE  TypedInv'
BY IdleTyped, TypedAgain DEF Ends

LEMMA QuietTyped ==
  ASSUME TypedInv, Quiet
  PROVE  Tabled
BY SameTables DEF Quiet

LEMMA ArriveTyped ==
  ASSUME TypedInv, NEW r \in Request, Arrive(r)
  PROVE  TypedInv'
<1>1. PICK q : Quiet /\ Becomes(r, q) /\ Opened(q)
  BY ArriveDoes
<1>2. Seated(q)
  BY <1>1 DEF Opened, Seated, Granting
<1>3. QED BY <1>1, <1>2, QuietTyped, TypedAgain

LEMMA AdvanceTyped ==
  ASSUME TypedInv, NEW r \in Request, Advance(r)
  PROVE  TypedInv'
<1> USE DEF Granting, Pc
<1>1. ASSUME UpsertDevice(r) PROVE TypedInv'
  BY <1>1, UpsertDoes, GoesTyped, EndsTyped
<1>2. ASSUME FindDevice(r) PROVE TypedInv'
  BY <1>2, FindDoes, QuietTyped, GoesTyped, EndsTyped
<1>3. ASSUME NEW n \in 1..clock, NEW remember \in BOOLEAN, CheckTwoFactor(r, n, remember)
      PROVE  TypedInv'
  <2>1. n \in Nat
    OBVIOUS
  <2>2. QED BY <1>3, <2>1, CheckDoes, QuietTyped, GoesTyped, EndsTyped
<1>4. ASSUME RememberDevice(r) PROVE TypedInv'
  BY <1>4, RememberDoes, GoesTyped
<1>5. ASSUME ResolveAccount(r) PROVE TypedInv'
  <2>1. CASE Ends(r)
    BY <1>5, <2>1, ResolveDoes, QuietTyped, EndsTyped
  <2>2. CASE ~Ends(r)
    <3>1. PICK q : /\ Becomes(r, q) /\ q.pc = "issue" /\ q.user \in User /\ q.dev = req[r].dev
                   /\ req[r].pc = "resolve"
      BY <1>5, <2>2, ResolveDoes
    <3>2. Seated(q)
      BY <3>1, Facts DEF Seated
    <3>3. QED BY <1>5, <3>1, <3>2, ResolveDoes, QuietTyped, TypedAgain
  <2>3. QED BY <2>1, <2>2
<1>6. ASSUME IssueTokens(r) PROVE TypedInv'
  BY <1>6, IssueDoes, EndsTyped
<1>7. ASSUME WriteMasterPassword(r) PROVE TypedInv'
  BY <1>7, MasterDoes, GoesTyped, EndsTyped
<1>8. ASSUME RevokeTokens(r) PROVE TypedInv'
  BY <1>8, RevokeDoes, EndsTyped
<1>9. ASSUME WriteStamp(r) PROVE TypedInv'
  BY <1>9, StampDoes, GoesTyped, EndsTyped
<1>10. ASSUME ForgetDevices(r) PROVE TypedInv'
  BY <1>10, ForgetDoes, EndsTyped
<1>11. ASSUME WriteSecret(r) PROVE TypedInv'
  BY <1>11, SecretDoes, EndsTyped
<1>12. ASSUME EnableTwoFactor(r) \/ ClearTwoFactor(r) PROVE TypedInv'
  BY <1>12, FactorDoes, EndsTyped
<1>13. ASSUME CountDevices(r) PROVE TypedInv'
  BY <1>13, CountDoes, QuietTyped, GoesTyped, EndsTyped
<1>14. ASSUME WriteKeys(r) PROVE TypedInv'
  BY <1>14, KeysDoes, EndsTyped
<1>15. QED BY <1>1, <1>2, <1>3, <1>4, <1>5, <1>6, <1>7, <1>8, <1>9, <1>10, <1>11, <1>12, <1>13, <1>14
           DEF Advance

LEMMA DisconnectTyped ==
  ASSUME TypedInv, NEW r \in Request, Disconnect(r)
  PROVE  TypedInv'
<1>1. PICK q : /\ Quiet /\ Becomes(r, q) /\ q.pc = req[r].pc /\ req[r].pc # "idle"
               /\ q.user = req[r].user /\ q.dev = req[r].dev
  BY DisconnectDoes
<1>2. Seated(q)
  BY <1>1, Facts DEF Seated
<1>3. QED BY <1>1, <1>2, QuietTyped, TypedAgain

LEMMA TypedInit == Init => TypedInv
<1> SUFFICES ASSUME Init PROVE TypedInv
  OBVIOUS
<1>1. NoKeys \in Row
  BY DEF NoKeys, Row
<1>2. QED BY <1>1, IdleTyped, NoDeviceTyped DEF Init, TypedInv, TypeOK

LEMMA TypedStep == TypedInv /\ [Next]_vars => TypedInv'
<1> SUFFICES ASSUME TypedInv, [Next]_vars PROVE TypedInv'
  OBVIOUS
<1>1. CASE UNCHANGED vars
  BY <1>1 DEF vars, TypedInv, TypeOK
<1>2. ASSUME NEW a, Expire(a) \/ StoreCipher(a) PROVE TypedInv'
  BY <1>2, OthersDo DEF Tabled, TypedInv, TypeOK
<1>3. ASSUME NEW u \in User, SetStatus(u) PROVE TypedInv'
  BY <1>3, StatusDoes DEF Tabled, TypedInv, TypeOK
<1>4. QED BY <1>1, <1>2, <1>3, ArriveTyped, AdvanceTyped, DisconnectTyped DEF Next

\* TypeOK: every table and request has its type, and a device row that is gone holds nothing, of
\* whatever requests interleave.
THEOREM IdentityTyped == Spec => []TypeOK
<1>1. TypedInv => TypeOK
  BY DEF TypedInv
<1>2. QED BY <1>1, TypedInit, TypedStep, PTL DEF Spec

-----------------------------------------------------------------------------
(* Refresh tokens and their owners.                                           *)

LEMMA OwnerAgain ==
  ASSUME OwnerInv, TypedInv', NEW r \in Request, NEW q, Becomes(r, q),
         q.pc \in Resolved => dev'[q.dev].owner = q.user,
         \A d \in Device : dev'[d].token # 0 => dev'[d].issuedTo = dev'[d].owner,
         \A s \in Request : s # r /\ req[s].pc \in Resolved
                              => dev'[req[s].dev].owner = dev[req[s].dev].owner
  PROVE  OwnerInv'
BY DEF OwnerInv, TokenOfOwner, Matched, Becomes

\* Where owners stay and no token is issued, grants go on.
OwnersStay == \A d \in Device : /\ dev'[d].owner = dev[d].owner
                                /\ dev'[d].token # 0 => dev[d].token # 0 /\ dev'[d].issuedTo = dev[d].issuedTo

LEMMA OwnerStays ==
  ASSUME OwnerInv, TypedInv', NEW r \in Request, NEW q, Becomes(r, q),
         \/ q = Idle
         \/ Kin(q, req[r]) /\ (q.pc \in Resolved => req[r].pc \in Resolved)
         \/ q.pc \notin Resolved,
         OwnersStay
  PROVE  OwnerInv'
<1>1. q.pc \in Resolved => dev'[q.dev].owner = q.user
  <2>1. SUFFICES ASSUME q.pc \in Resolved PROVE dev'[q.dev].owner = q.user
    OBVIOUS
  <2>2. Kin(q, req[r]) /\ req[r].pc \in Resolved
    BY <2>1, IdleTyped DEF Resolved
  <2>3. req[r].dev \in Device /\ dev[req[r].dev].owner = req[r].user
    BY <2>2, Facts DEF OwnerInv, Matched, Seated, Resolved, Granting
  <2>4. QED BY <2>2, <2>3 DEF Kin, OwnersStay
<1>2. ASSUME NEW s \in Request, req[s].pc \in Resolved
      PROVE  dev'[req[s].dev].owner = dev[req[s].dev].owner
  <2>1. req[s].dev \in Device
    BY <1>2, Facts DEF OwnerInv, Seated, Resolved, Granting
  <2>2. QED BY <2>1 DEF OwnersStay
<1>3. \A d \in Device : dev'[d].token # 0 => dev'[d].issuedTo = dev'[d].owner
  BY DEF OwnersStay, OwnerInv, TokenOfOwner
<1>4. QED BY <1>1, <1>2, <1>3, OwnerAgain

LEMMA OwnerArrive ==
  ASSUME OwnerInv, NEW r \in Request, Arrive(r)
  PROVE  OwnerInv'
<1>1. PICK q : Quiet /\ Becomes(r, q) /\ Opened(q)
  BY ArriveDoes DEF OwnerInv
<1>2. q.pc \notin Resolved
  BY <1>1 DEF Opened, Resolved
<1>3. QED BY <1>1, <1>2, ArriveTyped, OwnerStays DEF OwnerInv, Quiet, OwnersStay

LEMMA OwnerDisconnect ==
  ASSUME OwnerInv, NEW r \in Request, Disconnect(r)
  PROVE  OwnerInv'
<1>1. PICK q : /\ Quiet /\ Becomes(r, q) /\ q.pc = req[r].pc /\ q.user = req[r].user
               /\ q.dev = req[r].dev
  BY DisconnectDoes DEF OwnerInv
<1>2. QED BY <1>1, DisconnectTyped, OwnerAgain DEF OwnerInv, Matched, Quiet, TokenOfOwner

\* The device of a request that has found it its own stays so: it is only forgotten by a security
\* stamp.
LEMMA OwnerAdvance ==
  ASSUME "stamp" \notin Op \/ Alone, OwnerInv, NEW r \in Request, Advance(r)
  PROVE  OwnerInv'
<1> USE DEF Resolved
<1>0. TypedInv /\ TypedInv' /\ \A d \in Device : dev[d].token # 0 => dev[d].issuedTo = dev[d].owner
  BY AdvanceTyped DEF OwnerInv, TokenOfOwner
<1>a. ASSUME Ends(r), OwnersStay
      PROVE  OwnerInv'
  BY <1>0, <1>a, OwnerStays DEF Ends
<1>b. ASSUME NEW pc, Goes(r, pc), pc \in Resolved => req[r].pc \in Resolved,
             OwnersStay
      PROVE  OwnerInv'
  <2>1. PICK q : Becomes(r, q) /\ q.pc = pc /\ Kin(q, req[r])
    BY <1>b DEF Goes
  <2>2. QED BY <1>0, <1>b, <2>1, OwnerStays
<1>1. ASSUME UpsertDevice(r) PROVE OwnerInv'
  <2>1. CASE dev' = dev
    BY <1>0, <1>1, <1>a, <1>b, <2>1, UpsertDoes DEF OwnersStay
  <2>2. CASE dev' # dev
    <3>1. PICK new \in DeviceRow : /\ Stored(req[r].dev, new) /\ new.owner = req[r].user /\ new.token = 0
                                   /\ dev[req[r].dev].owner = None /\ Goes(r, "found")
                                   /\ req[r].dev \in Device
      BY <1>0, <1>1, <2>2, UpsertDoes
    <3>2. PICK q : Becomes(r, q) /\ q.pc = "found"
      BY <3>1 DEF Goes
    <3>3. ASSUME NEW s \in Request, req[s].pc \in Resolved
          PROVE  dev'[req[s].dev].owner = dev[req[s].dev].owner
      <4>1. dev[req[s].dev].owner # None /\ req[s].dev \in Device
        BY <1>0, <3>3, Facts, Absent DEF OwnerInv, Matched, Seated, Granting
      <4>2. QED BY <3>1, <4>1 DEF Stored
    <3>4. \A d \in Device : dev'[d].token # 0 => dev'[d].issuedTo = dev'[d].owner
      BY <1>0, <3>1 DEF Stored
    <3>5. QED BY <1>0, <3>2, <3>3, <3>4, OwnerAgain
  <2>3. QED BY <2>1, <2>2
<1>2. ASSUME FindDevice(r) PROVE OwnerInv'
  <2>1. CASE Ends(r)
    BY <1>0, <1>2, <1>a, <2>1, FindDoes DEF Quiet, OwnersStay
  <2>2. CASE ~Ends(r)
    <3>1. PICK q : Becomes(r, q) /\ Kin(q, req[r])
      BY <1>0, <1>2, <2>2, FindDoes DEF Goes
    <3>2. dev[q.dev].owner = q.user /\ UNCHANGED dev
      BY <1>0, <1>2, <2>2, <3>1, FindDoes DEF Kin, Quiet
    <3>3. QED BY <1>0, <3>1, <3>2, OwnerAgain
  <2>3. QED BY <2>1, <2>2
<1>3. ASSUME NEW n \in 1..clock, NEW remember \in BOOLEAN, CheckTwoFactor(r, n, remember)
      PROVE  OwnerInv'
  <2>1. n \in Nat
    OBVIOUS
  <2>2. QED BY <1>0, <1>3, <1>a, <1>b, <2>1, CheckDoes DEF Quiet, OwnersStay
<1>4. ASSUME RememberDevice(r) PROVE OwnerInv'
  BY <1>0, <1>4, <1>b, RememberDoes DEF OwnersStay
<1>5. ASSUME ResolveAccount(r) PROVE OwnerInv'
  <2>1. CASE Ends(r)
    BY <1>0, <1>5, <1>a, <2>1, ResolveDoes DEF Quiet, OwnersStay
  <2>2. CASE ~Ends(r)
    <3>1. PICK q : Becomes(r, q) /\ q.dev = req[r].dev /\ q.user = dev[req[r].dev].owner /\ Quiet
      BY <1>0, <1>5, <2>2, ResolveDoes
    <3>2. QED BY <1>0, <3>1, OwnerAgain DEF Quiet
  <2>3. QED BY <2>1, <2>2
<1>6. ASSUME IssueTokens(r) PROVE OwnerInv'
  <2>1. CASE dev' = dev
    BY <1>0, <1>6, <1>a, <2>1, IssueDoes DEF OwnersStay
  <2>2. CASE dev' # dev
    <3>1. PICK new \in DeviceRow : /\ Stored(req[r].dev, new) /\ new.owner = dev[req[r].dev].owner
                                   /\ new.issuedTo = req[r].user
                                   /\ req[r].dev \in Device /\ req[r].pc = "issue" /\ Ends(r)
      BY <1>0, <1>6, <2>2, IssueDoes
    <3>2. dev[req[r].dev].owner = req[r].user
      BY <3>1 DEF OwnerInv, Matched
    <3>3. \A d \in Device : /\ dev'[d].owner = dev[d].owner
                            /\ dev'[d].token # 0 => dev'[d].issuedTo = dev'[d].owner
      BY <1>0, <3>1, <3>2 DEF Stored
    <3>4. \A s \in Request : req[s].pc \in Resolved => req[s].dev \in Device
      BY <1>0, Facts DEF Seated, Granting
    <3>5. QED BY <1>0, <3>1, <3>3, <3>4, IdleTyped, OwnerAgain DEF Ends
  <2>3. QED BY <2>1, <2>2
<1>7. ASSUME WriteMasterPassword(r) PROVE OwnerInv'
  BY <1>0, <1>7, <1>a, <1>b, MasterDoes DEF OwnersStay
<1>8. ASSUME RevokeTokens(r) PROVE OwnerInv'
  BY <1>0, <1>8, <1>a, RevokeDoes DEF OwnersStay
<1>9. ASSUME WriteStamp(r) PROVE OwnerInv'
  BY <1>0, <1>9, <1>a, <1>b, StampDoes DEF OwnersStay
<1>10. ASSUME ForgetDevices(r) PROVE OwnerInv'
  <2>1. req[r].pc = "forget" /\ Ends(r) /\ \A d \in Device : dev'[d] = dev[d] \/ dev'[d] = NoDevice
    BY <1>0, <1>10, ForgetDoes
  <2>2. \A s \in Request : s = r
    BY <1>0, <2>1, Facts DEF Alone, Seated
  <2>3. QED BY <1>0, <2>1, <2>2, IdleTyped, NoDeviceTyped, OwnerAgain DEF Ends
<1>11. ASSUME WriteSecret(r) PROVE OwnerInv'
  BY <1>0, <1>11, <1>a, SecretDoes DEF OwnersStay
<1>12. ASSUME EnableTwoFactor(r) \/ ClearTwoFactor(r) PROVE OwnerInv'
  BY <1>0, <1>12, <1>a, FactorDoes DEF OwnersStay
<1>13. ASSUME CountDevices(r) PROVE OwnerInv'
  BY <1>0, <1>13, <1>a, <1>b, CountDoes DEF Quiet, OwnersStay
<1>14. ASSUME WriteKeys(r) PROVE OwnerInv'
  BY <1>0, <1>14, <1>a, KeysDoes DEF OwnersStay
<1>15. QED BY <1>1, <1>2, <1>3, <1>4, <1>5, <1>6, <1>7, <1>8, <1>9, <1>10, <1>11, <1>12, <1>13, <1>14
           DEF Advance

LEMMA OwnerInit == Init => OwnerInv
BY TypedInit, NoDeviceTyped, IdleTyped DEF Init, OwnerInv, TokenOfOwner, Matched, Resolved

LEMMA OwnerStep ==
  ASSUME "stamp" \notin Op \/ Alone
  PROVE  OwnerInv /\ [Next]_vars => OwnerInv'
<1> SUFFICES ASSUME OwnerInv, [Next]_vars PROVE OwnerInv'
  OBVIOUS
<1>1. TypedInv /\ TypedInv'
  BY TypedStep DEF OwnerInv
<1>2. ASSUME UNCHANGED <<dev, req>> PROVE OwnerInv'
  BY <1>1, <1>2 DEF OwnerInv, TokenOfOwner, Matched
<1>3. CASE UNCHANGED vars
  BY <1>2, <1>3 DEF vars
<1>4. ASSUME NEW a, Expire(a) \/ StoreCipher(a) PROVE OwnerInv'
  BY <1>1, <1>2, <1>4, OthersDo
<1>5. ASSUME NEW u \in User, SetStatus(u) PROVE OwnerInv'
  BY <1>1, <1>2, <1>5, StatusDoes
<1>6. QED BY <1>3, <1>4, <1>5, OwnerArrive, OwnerAdvance, OwnerDisconnect DEF Next

\* TokenOfOwner: although two accounts may log in on one device identifier, a refresh token leads to
\* the account it was issued for.  A device row changes hands only after a security stamp has deleted
\* it, so one of the two is needed: no stamps, or requests that follow one another.
THEOREM TokenOwnerSafe ==
  ASSUME "stamp" \notin Op \/ Alone
  PROVE  Spec => []TokenOfOwner
<1>1. OwnerInv => TokenOfOwner
  BY DEF OwnerInv
<1>2. QED BY <1>1, OwnerInit, OwnerStep, PTL DEF Spec

-----------------------------------------------------------------------------
(* The second factor.                                                         *)

\* What EnrolledSecretKept says of a step.
SecretKept == \A u \in User : row[u].tfa /\ row'[u].tfa => row'[u].secret = row[u].secret

Factored == SecondFactorUsable' /\ SecretKept

LEMMA FactorAgain ==
  ASSUME Alone, Factored, TypedInv', NEW r \in Request, NEW q, Becomes(r, q),
         q.pc = "enable" => row'[q.user].secret # 0,
         q.pc = "secret" => row'[q.user].secret = 0
  PROVE  FactorInv' /\ SecretKept
BY DEF Factored, FactorInv, Enrolling, Becomes, Alone

LEMMA SameFactors ==
  ASSUME FactorInv, UNCHANGED row
  PROVE  Factored
BY DEF FactorInv, Factored, SecondFactorUsable, SecretKept

LEMMA FactorWritten ==
  ASSUME FactorInv, NEW u \in User, NEW new \in Row, Written(u, new),
         new.tfa => new.secret # 0, row[u].tfa /\ new.tfa => new.secret = row[u].secret
  PROVE  Factored
BY DEF FactorInv, Factored, SecondFactorUsable, SecretKept, Written

LEMMA FactorCopied ==
  ASSUME FactorInv, NEW u \in User, NEW new \in Row, Written(u, new),
         new.tfa = row[u].tfa, new.secret = row[u].secret
  PROVE  Factored
<1>1. row[u].tfa => row[u].secret # 0
  BY DEF FactorInv, SecondFactorUsable
<1>2. QED BY <1>1, FactorWritten

LEMMA FactorEnds ==
  ASSUME Alone, Factored, TypedInv', NEW r \in Request, Ends(r)
  PROVE  FactorInv' /\ SecretKept
BY IdleTyped, FactorAgain DEF Ends

LEMMA FactorGoes ==
  ASSUME Alone, Factored, TypedInv', NEW r \in Request, NEW pc, pc \notin {"enable", "secret"}, Goes(r, pc)
  PROVE  FactorInv' /\ SecretKept
BY FactorAgain DEF Goes

LEMMA FactorArrive ==
  ASSUME Alone, FactorInv, NEW r \in Request, Arrive(r)
  PROVE  FactorInv' /\ SecretKept
<1>1. PICK q : Quiet /\ Becomes(r, q) /\ Opened(q)
  BY ArriveDoes DEF FactorInv
<1>2. TypedInv' /\ Factored
  BY <1>1, ArriveTyped, SameFactors DEF FactorInv, Quiet
<1>3. /\ q.pc = "enable" => row'[q.user].secret # 0
      /\ q.pc = "secret" => row'[q.user].secret = 0
  BY <1>1 DEF Opened, Quiet
<1>4. QED BY <1>1, <1>2, <1>3, FactorAgain

LEMMA FactorAdvance ==
  ASSUME Alone, FactorInv, NEW r \in Request, Advance(r)
  PROVE  FactorInv' /\ SecretKept
<1> DEFINE Goal == FactorInv' /\ SecretKept
<1>0. /\ TypedInv /\ TypedInv'
      /\ req[r].pc \notin {"idle", "resolve"} => req[r].user \in User
  BY AdvanceTyped, Facts DEF FactorInv, Seated
<1>a. ASSUME Factored, Ends(r) PROVE Goal
  BY <1>0, <1>a, FactorEnds
<1>b. ASSUME Factored, NEW pc, pc \notin {"enable", "secret"}, Goes(r, pc) PROVE Goal
  BY <1>0, <1>b, FactorGoes
<1> HIDE DEF Goal
<1>1. ASSUME UpsertDevice(r) PROVE Goal
  BY <1>0, <1>1, <1>a, <1>b, UpsertDoes, SameFactors
<1>2. ASSUME FindDevice(r) PROVE Goal
  BY <1>0, <1>2, <1>a, <1>b, FindDoes, SameFactors DEF Quiet
<1>3. ASSUME NEW n \in 1..clock, NEW remember \in BOOLEAN, CheckTwoFactor(r, n, remember) PROVE Goal
  <2>1. n \in Nat
    OBVIOUS
  <2>2. QED BY <1>0, <1>3, <1>a, <1>b, <2>1, CheckDoes, SameFactors DEF Quiet
<1>4. ASSUME RememberDevice(r) PROVE Goal
  BY <1>0, <1>4, <1>b, RememberDoes, SameFactors
<1>5. ASSUME ResolveAccount(r) PROVE Goal
  <2>1. Factored
    BY <1>0, <1>5, ResolveDoes, SameFactors DEF Quiet
  <2>2. CASE Ends(r)
    BY <1>a, <2>1, <2>2
  <2>3. CASE ~Ends(r)
    <3>1. PICK q : Becomes(r, q) /\ q.pc = "issue"
      BY <1>0, <1>5, <2>3, ResolveDoes
    <3>2. QED BY <1>0, <2>1, <3>1, FactorAgain DEF Goal
  <2>4. QED BY <2>2, <2>3
<1>6. ASSUME IssueTokens(r) PROVE Goal
  BY <1>0, <1>6, <1>a, IssueDoes, SameFactors
<1>7. ASSUME WriteMasterPassword(r) PROVE Goal
  BY <1>0, <1>7, <1>a, <1>b, MasterDoes, SameFactors, FactorCopied
<1>8. ASSUME RevokeTokens(r) PROVE Goal
  BY <1>0, <1>8, <1>a, RevokeDoes, SameFactors
<1>9. ASSUME WriteStamp(r) PROVE Goal
  BY <1>0, <1>9, <1>a, <1>b, StampDoes, SameFactors, FactorCopied
<1>10. ASSUME ForgetDevices(r) PROVE Goal
  BY <1>0, <1>10, <1>a, ForgetDoes, SameFactors
<1>11. ASSUME WriteSecret(r) PROVE Goal
  <2>1. Ends(r) /\ req[r].pc = "secret" /\ req[r].user \in User
    BY <1>0, <1>11, SecretDoes
  <2>2. CASE row' = row
    BY <1>a, <2>1, <2>2, SameFactors
  <2>3. CASE row' # row
    <3>1. PICK new \in Row : Written(req[r].user, new) /\ new.secret # 0 /\ new.tfa = row[req[r].user].tfa
      BY <1>0, <1>11, <2>3, SecretDoes
    <3>2. ~row[req[r].user].tfa
      BY <2>1 DEF FactorInv, Enrolling, SecondFactorUsable
    <3>3. QED BY <1>a, <2>1, <3>1, <3>2, FactorWritten
  <2>4. QED BY <2>2, <2>3
<1>12. ASSUME EnableTwoFactor(r) \/ ClearTwoFactor(r) PROVE Goal
  <2>1. Ends(r) /\ req[r].pc \in {"enable", "disable"} /\ req[r].user \in User
    BY <1>0, <1>12, FactorDoes
  <2>2. CASE row' = row
    BY <1>a, <2>1, <2>2, SameFactors
  <2>3. CASE row' # row
    <3>1. PICK new \in Row : /\ Written(req[r].user, new)
                             /\ IF req[r].pc = "enable"
                                THEN new.tfa /\ new.secret = row[req[r].user].secret
                                ELSE ~new.tfa /\ new.secret = 0
      BY <1>0, <1>12, <2>3, FactorDoes
    <3>2. req[r].pc = "enable" => row[req[r].user].secret # 0
      BY DEF FactorInv, Enrolling
    <3>3. QED BY <1>a, <2>1, <3>1, <3>2, FactorWritten
  <2>4. QED BY <2>2, <2>3
<1>13. ASSUME CountDevices(r) PROVE Goal
  BY <1>0, <1>13, <1>a, <1>b, CountDoes, SameFactors DEF Quiet
<1>14. ASSUME WriteKeys(r) PROVE Goal
  BY <1>0, <1>14, <1>a, KeysDoes, SameFactors, FactorCopied
<1>15. Goal
  BY <1>1, <1>2, <1>3, <1>4, <1>5, <1>6, <1>7, <1>8, <1>9, <1>10, <1>11, <1>12, <1>13, <1>14
     DEF Advance
<1>16. QED BY <1>15 DEF Goal

LEMMA FactorInit == Init => FactorInv
<1> SUFFICES ASSUME Init PROVE FactorInv
  OBVIOUS
<1>1. TypedInv
  BY TypedInit
<1>2. SecondFactorUsable
  BY DEF Init, SecondFactorUsable, NoKeys
<1>3. \A r \in Request : Enrolling(req[r])
  BY IdleTyped DEF Init, Enrolling
<1>4. QED BY <1>1, <1>2, <1>3 DEF FactorInv

LEMMA FactorStep ==
  ASSUME Alone, FactorInv, Next
  PROVE  FactorInv' /\ SecretKept
<1>1. TypedInv /\ TypedInv'
  BY TypedStep DEF FactorInv
<1>2. ASSUME NEW a, Expire(a) \/ StoreCipher(a) PROVE FactorInv' /\ SecretKept
  <2>1. UNCHANGED <<row, req>> /\ Factored
    BY <1>1, <1>2, OthersDo, SameFactors
  <2>2. QED BY <1>1, <2>1 DEF FactorInv, Factored, Enrolling
<1>3. ASSUME NEW u \in User, SetStatus(u) PROVE FactorInv' /\ SecretKept
  <2>1. PICK new \in Row : /\ Written(u, new) /\ new.tfa = row[u].tfa
                           /\ new.secret = row[u].secret /\ UNCHANGED req
    BY <1>1, <1>3, StatusDoes
  <2>2. Factored /\ \A v \in User : row'[v].secret = row[v].secret
    BY <2>1, FactorCopied DEF Written
  <2>3. \A r \in Request : req[r].pc \in {"enable", "secret"} => req[r].user \in User
    BY <1>1, Facts DEF Seated
  <2>4. QED BY <1>1, <2>1, <2>2, <2>3 DEF FactorInv, Factored, Enrolling
<1>4. ASSUME NEW r \in Request, Disconnect(r) PROVE FactorInv' /\ SecretKept
  <2>1. PICK q : /\ Quiet /\ Becomes(r, q) /\ q.pc = req[r].pc /\ q.user = req[r].user
    BY <1>1, <1>4, DisconnectDoes
  <2>2. Factored
    BY <2>1, SameFactors DEF Quiet
  <2>3. QED BY <1>1, <2>1, <2>2, FactorAgain DEF FactorInv, Enrolling, Quiet
<1>5. QED BY <1>2, <1>3, <1>4, FactorArrive, FactorAdvance DEF Next

LEMMA FactorStutter ==
  ASSUME FactorInv, UNCHANGED vars
  PROVE  FactorInv'
<1>1. TypedInv'
  BY TypedStep DEF FactorInv
<1>2. QED BY <1>1 DEF vars, FactorInv, SecondFactorUsable, Enrolling

\* SecondFactorUsable: an account that asks for a second factor has a secret its codes are checked
\* against.  ConfirmAuthenticator enables the factor for the secret requireAuth has read, so a
\* DisableTwoFactor served in between would clear it: requests follow one another.
THEOREM SecondFactorSafe ==
  ASSUME Alone
  PROVE  Spec => []SecondFactorUsable
<1>1. FactorInv => SecondFactorUsable
  BY DEF FactorInv
<1>2. FactorInv /\ [Next]_vars => FactorInv'
  BY FactorStep, FactorStutter
<1>3. QED BY <1>1, <1>2, FactorInit, PTL DEF Spec

\* EnrolledSecretKept: EnableAuthenticator draws a secret only for an account that has none, so the
\* secret that was confirmed is kept while the factor stays enabled.
THEOREM EnrolledSafe ==
  ASSUME Alone
  PROVE  Spec => EnrolledSecretKept
<1>1. FactorInv /\ [Next]_vars => FactorInv'
  BY FactorStep, FactorStutter
<1>2. FactorInv /\ [Next]_vars
        => [\A u \in User : row[u].tfa /\ row'[u].tfa => row'[u].secret = row[u].secret]_vars
  BY FactorStep DEF SecretKept
<1>3. QED BY <1>1, <1>2, FactorInit, PTL DEF Spec, EnrolledSecretKept

-----------------------------------------------------------------------------
(* Devices and the keys of their accounts.                                    *)

\* No account loses its keys, and a device row keeps its owner or is deleted.
KeysKept == \A u \in User : row[u].master # 0 => row'[u].master # 0

OwnersFade == \A d \in Device : dev'[d].owner \in {None, dev[d].owner}

LEMMA DeviceAgain ==
  ASSUME Alone, OwnerInv', Supplied', NEW r \in Request, NEW q, Becomes(r, q),
         q.pc \in Granting => row'[q.user].master # 0,
         q.pc = "provision" => \A d \in Device : dev'[d].owner # q.user
  PROVE  DeviceInv'
BY DEF DeviceInv, Supplied, Provided, HasDevices, Becomes, Alone

LEMMA SameKeys ==
  ASSUME UNCHANGED row
  PROVE  KeysKept
BY DEF KeysKept

LEMMA KeysWritten ==
  ASSUME NEW u \in User, NEW new, Written(u, new), row[u].master # 0 => new.master # 0
  PROVE  KeysKept
BY DEF KeysKept, Written

LEMMA StillSupplied ==
  ASSUME DeviceInv, KeysKept, OwnersFade
  PROVE  Supplied'
<1>1. \A d \in Device : dev[d].owner \in User \cup {None}
  BY DEF DeviceInv, OwnerInv, TypedInv, TypeOK, DeviceRow
<1>2. QED BY <1>1 DEF DeviceInv, KeysKept, OwnersFade, Supplied

LEMMA DeviceEnds ==
  ASSUME Alone, OwnerInv', Supplied', NEW r \in Request, Ends(r)
  PROVE  DeviceInv'
BY IdleTyped, DeviceAgain DEF Ends, Granting

LEMMA DeviceGoes ==
  ASSUME Alone, DeviceInv, OwnerInv', KeysKept, Supplied', NEW r \in Request, NEW pc, Goes(r, pc),
         pc # "provision", pc \in Granting => req[r].pc \in Granting
  PROVE  DeviceInv'
<1>1. PICK q : Becomes(r, q) /\ q.pc = pc /\ Kin(q, req[r])
  BY DEF Goes
<1>2. req[r].pc \in Granting => req[r].user \in User /\ row[req[r].user].master # 0
  BY Facts DEF DeviceInv, OwnerInv, Provided, Seated, Granting
<1>3. QED BY <1>1, <1>2, DeviceAgain DEF KeysKept, Kin

LEMMA DeviceArrive ==
  ASSUME Alone, DeviceInv, OwnerInv', NEW r \in Request, Arrive(r)
  PROVE  DeviceInv'
<1>1. PICK q : Quiet /\ Becomes(r, q) /\ Opened(q)
  BY ArriveDoes DEF DeviceInv, OwnerInv
<1>2. Supplied'
  BY <1>1, SameKeys, StillSupplied DEF Quiet, OwnersFade
<1>3. q.pc \in Granting => row[q.user].master # 0
  BY <1>1 DEF Opened, Granting
<1>4. q.pc = "provision" => q.user \in User /\ row[q.user].master = 0
  BY <1>1 DEF Opened
<1>5. q.pc = "provision" => \A d \in Device : dev[d].owner # q.user
  BY <1>4, Absent DEF DeviceInv, Supplied
<1>6. QED BY <1>1, <1>2, <1>3, <1>5, DeviceAgain DEF Quiet

LEMMA DeviceAdvance ==
  ASSUME Alone, DeviceInv, OwnerInv', NEW r \in Request, Advance(r)
  PROVE  DeviceInv'
<1> USE DEF Granting
<1>0. /\ TypedInv /\ TypedInv' /\ clock + 1 # 0
      /\ req[r].pc \notin {"idle", "resolve"} => req[r].user \in User
  BY Facts DEF DeviceInv, OwnerInv, Seated
<1>a. ASSUME KeysKept, OwnersFade, Ends(r) PROVE DeviceInv'
  BY <1>a, StillSupplied, DeviceEnds
<1>b. ASSUME KeysKept, OwnersFade, NEW pc, Goes(r, pc), pc # "provision",
             pc \in Granting => req[r].pc \in Granting
      PROVE  DeviceInv'
  BY <1>b, StillSupplied, DeviceGoes
<1>1. ASSUME UpsertDevice(r) PROVE DeviceInv'
  <2>1. KeysKept /\ req[r].pc = "upsert" /\ req[r].dev \in Device
    BY <1>0, <1>1, UpsertDoes, SameKeys
  <2>2. CASE dev' = dev
    BY <1>0, <1>1, <1>a, <1>b, <2>1, <2>2, UpsertDoes DEF OwnersFade
  <2>3. CASE dev' # dev
    <3>1. PICK new \in DeviceRow : /\ Stored(req[r].dev, new) /\ new.owner = req[r].user
                                   /\ Goes(r, "found") /\ UNCHANGED row
      BY <1>0, <1>1, <2>3, UpsertDoes
    <3>2. row[req[r].user].master # 0
      BY <2>1 DEF DeviceInv, Provided
    <3>3. Supplied'
      BY <2>1, <3>1, <3>2 DEF DeviceInv, Supplied, Stored
    <3>4. QED BY <2>1, <3>1, <3>3, DeviceGoes
  <2>4. QED BY <2>2, <2>3
<1>2. ASSUME FindDevice(r) PROVE DeviceInv'
  BY <1>0, <1>2, <1>a, <1>b, FindDoes, SameKeys DEF Quiet, OwnersFade
<1>3. ASSUME NEW n \in 1..clock, NEW remember \in BOOLEAN, CheckTwoFactor(r, n, remember)
      PROVE  DeviceInv'
  <2>1. n \in Nat
    OBVIOUS
  <2>2. QED BY <1>0, <1>3, <1>a, <1>b, <2>1, CheckDoes, SameKeys DEF Quiet, OwnersFade
<1>4. ASSUME RememberDevice(r) PROVE DeviceInv'
  BY <1>0, <1>4, <1>b, RememberDoes, SameKeys DEF OwnersFade
<1>5. ASSUME ResolveAccount(r) PROVE DeviceInv'
  <2>1. KeysKept /\ OwnersFade /\ Quiet /\ req[r].pc = "resolve"
    BY <1>0, <1>5, ResolveDoes, SameKeys DEF Quiet, OwnersFade
  <2>2. CASE Ends(r)
    BY <1>a, <2>1, <2>2
  <2>3. CASE ~Ends(r)
    <3>1. PICK q : /\ Becomes(r, q) /\ q.pc = "issue" /\ q.user \in User
                   /\ q.user = dev[req[r].dev].owner
      BY <1>0, <1>5, <2>3, ResolveDoes
    <3>2. req[r].dev \in Device
      BY <1>0, <2>1, Facts DEF Seated
    <3>3. row[q.user].master # 0
      BY <3>1, <3>2, Absent DEF DeviceInv, Supplied
    <3>4. QED BY <2>1, <3>1, <3>3, StillSupplied, DeviceAgain DEF Quiet
  <2>4. QED BY <2>2, <2>3
<1>6. ASSUME IssueTokens(r) PROVE DeviceInv'
  <2>1. KeysKept /\ Ends(r)
    BY <1>0, <1>6, IssueDoes, SameKeys
  <2>2. OwnersFade
    BY <1>0, <1>6, IssueDoes DEF OwnersFade, Stored
  <2>3. QED BY <1>a, <2>1, <2>2
<1>7. ASSUME WriteMasterPassword(r) PROVE DeviceInv'
  BY <1>0, <1>7, <1>a, <1>b, MasterDoes, SameKeys, KeysWritten DEF OwnersFade
<1>8. ASSUME RevokeTokens(r) PROVE DeviceInv'
  BY <1>0, <1>8, <1>a, RevokeDoes, SameKeys DEF OwnersFade
<1>9. ASSUME WriteStamp(r) PROVE DeviceInv'
  BY <1>0, <1>9, <1>a, <1>b, StampDoes, SameKeys, KeysWritten DEF OwnersFade
<1>10. ASSUME ForgetDevices(r) PROVE DeviceInv'
  BY <1>0, <1>10, <1>a, ForgetDoes, SameKeys, NoDeviceTyped DEF OwnersFade
<1>11. ASSUME WriteSecret(r) PROVE DeviceInv'
  BY <1>0, <1>11, <1>a, SecretDoes, SameKeys, KeysWritten DEF OwnersFade
<1>12. ASSUME EnableTwoFactor(r) \/ ClearTwoFactor(r) PROVE DeviceInv'
  BY <1>0, <1>12, <1>a, FactorDoes, SameKeys, KeysWritten DEF OwnersFade
<1>13. ASSUME CountDevices(r) PROVE DeviceInv'
  <2>1. KeysKept /\ OwnersFade /\ Quiet
    BY <1>0, <1>13, CountDoes, SameKeys DEF Quiet, OwnersFade
  <2>2. CASE Ends(r)
    BY <1>a, <2>1, <2>2
  <2>3. CASE ~Ends(r)
    <3>1. PICK q : Becomes(r, q) /\ q.pc = "provision" /\ ~HasDevices(q.user)
      BY <1>0, <1>13, <2>3, CountDoes DEF Goes, Kin
    <3>2. QED BY <2>1, <3>1, StillSupplied, DeviceAgain DEF Quiet, HasDevices
  <2>4. QED BY <2>2, <2>3
<1>14. ASSUME WriteKeys(r) PROVE DeviceInv'
  BY <1>0, <1>14, <1>a, KeysDoes, SameKeys, KeysWritten DEF OwnersFade
<1>15. QED BY <1>1, <1>2, <1>3, <1>4, <1>5, <1>6, <1>7, <1>8, <1>9, <1>10, <1>11, <1>12, <1>13, <1>14
           DEF Advance

LEMMA DeviceInit == Init => DeviceInv
<1> SUFFICES ASSUME Init PROVE DeviceInv
  OBVIOUS
<1>1. \A d \in Device : dev[d] = NoDevice
  BY DEF Init
<1>2. \A r \in Request : Provided(req[r])
  BY IdleTyped DEF Init, Provided, Granting
<1>3. QED BY <1>1, <1>2, OwnerInit, NoDeviceTyped DEF DeviceInv, Supplied

LEMMA DeviceStep ==
  ASSUME Alone, DeviceInv, [Next]_vars
  PROVE  DeviceInv'
<1>1. TypedInv /\ OwnerInv'
  BY OwnerStep DEF DeviceInv, OwnerInv
<1>2. ASSUME UNCHANGED <<row, dev, req>> PROVE DeviceInv'
  BY <1>1, <1>2 DEF DeviceInv, Supplied, Provided, HasDevices
<1>3. CASE UNCHANGED vars
  BY <1>2, <1>3 DEF vars
<1>4. ASSUME NEW a, Expire(a) \/ StoreCipher(a) PROVE DeviceInv'
  BY <1>1, <1>2, <1>4, OthersDo
<1>5. ASSUME NEW u \in User, SetStatus(u) PROVE DeviceInv'
  <2>1. PICK new \in Row : /\ Written(u, new) /\ new.master = row[u].master
                           /\ UNCHANGED <<dev, req>>
    BY <1>1, <1>5, StatusDoes
  <2>2. \A v \in User : row'[v].master = row[v].master
    BY <2>1 DEF Written
  <2>3. \A r \in Request : req[r].pc \in Granting => req[r].user \in User
    BY <1>1, Facts DEF Seated, Granting
  <2>4. \A d \in Device : dev[d].owner \in User \cup {None}
    BY <1>1 DEF TypedInv, TypeOK, DeviceRow
  <2>5. QED BY <1>1, <2>1, <2>2, <2>3, <2>4 DEF DeviceInv, Supplied, Provided, HasDevices
<1>6. ASSUME NEW r \in Request, Disconnect(r) PROVE DeviceInv'
  <2>1. PICK q : /\ Quiet /\ Becomes(r, q) /\ q.pc = req[r].pc /\ q.user = req[r].user
    BY <1>1, <1>6, DisconnectDoes
  <2>2. Supplied'
    BY <2>1 DEF DeviceInv, Supplied, Quiet
  <2>3. QED BY <1>1, <2>1, <2>2, DeviceAgain DEF DeviceInv, Supplied, Provided, HasDevices, Quiet
<1>7. QED BY <1>1, <1>3, <1>4, <1>5, <1>6, DeviceArrive, DeviceAdvance DEF Next

-----------------------------------------------------------------------------
(* Refresh tokens and changes of the credentials.                             *)

LEMMA StampAgain ==
  ASSUME Alone, DeviceInv', NEW r \in Request, NEW q, Becomes(r, q), q.live,
         \A u \in User : row'[u].changed =< clock',
         q.pc \in Granting \cup {"resolve"} => \A u \in User : row'[u].changed =< q.since,
         \A d \in Device : Fresh(d)' \/ (dev'[d].owner = q.user /\ q.pc \in {"revoke", "forget"})
  PROVE  StampInv'
BY DEF StampInv, Verified, Revoking, At, Becomes, Alone

\* The times of the changes and of the tokens are numbers.
LEMMA Timed ==
  ASSUME StampInv
  PROVE  /\ clock \in Nat /\ \A u \in User : row[u].changed \in Nat /\ row[u].changed =< clock
         /\ \A r \in Request : req[r].since \in Nat /\ req[r].live
         /\ \A d \in Device : dev[d].owner \in User \cup {None}
<1>1. TypeOK
  BY DEF StampInv, DeviceInv, OwnerInv, TypedInv
<1>2. clock \in Nat /\ \A u \in User : row[u].changed \in Nat
  BY <1>1 DEF TypeOK, Row
<1>3. \A r \in Request : req[r].since \in Nat
  BY <1>1 DEF TypeOK, RequestState
<1>4. \A d \in Device : dev[d].owner \in User \cup {None}
  BY <1>1 DEF TypeOK, DeviceRow
<1>5. QED BY <1>2, <1>3, <1>4 DEF StampInv

\* Only a request that revokes leaves tokens behind.
LEMMA AllFresh ==
  ASSUME Alone, StampInv, NEW r \in Request, req[r].pc \notin {"revoke", "forget"}
  PROVE  \A d \in Device : Fresh(d)
BY DEF Alone, StampInv, Revoking, At

\* A device row of which neither owner, token nor time changes, or whose token goes.
Fades(d) == \/ dev'[d].token = 0
            \/ /\ dev'[d].owner = dev[d].owner /\ dev'[d].token = dev[d].token
               /\ dev'[d].since = dev[d].since

LEMMA StillFresh ==
  ASSUME StampInv, NEW d \in Device, Fresh(d), Fades(d), \A u \in User : row'[u].changed = row[u].changed
  PROVE  Fresh(d)'
<1>1. dev[d].owner \in User \cup {None}
  BY Timed
<1>2. QED BY <1>1 DEF Fresh, Fades

\* A request that changes no credentials ends, or goes on with the time it has.
LEMMA StampKept ==
  ASSUME Alone, StampInv, DeviceInv', NEW r \in Request, NEW q, Becomes(r, q),
         req[r].pc \notin {"revoke", "forget"},
         \A u \in User : row'[u].changed = row[u].changed, clock' \in {clock, clock + 1},
         \A d \in Device : Fades(d),
         \/ q = Idle
         \/ /\ q.live /\ q.since = req[r].since
            /\ q.pc \in Granting \cup {"resolve"} => req[r].pc \in Granting \cup {"resolve"}
  PROVE  StampInv'
<1>1. \A d \in Device : Fresh(d)'
  BY AllFresh, StillFresh
<1>2. \A u \in User : row'[u].changed =< clock'
  BY Timed
<1>3. q.live
  BY IdleTyped
<1>4. q.pc \in Granting \cup {"resolve"} => \A u \in User : row'[u].changed =< q.since
  BY IdleTyped DEF StampInv, Verified, Granting
<1>5. QED BY <1>1, <1>2, <1>3, <1>4, StampAgain

LEMMA StampArrive ==
  ASSUME Alone, StampInv, DeviceInv', NEW r \in Request, Arrive(r)
  PROVE  StampInv'
<1>1. PICK q : Quiet /\ Becomes(r, q) /\ q.live /\ Opened(q) /\ req[r].pc = "idle"
  BY ArriveDoes DEF StampInv, DeviceInv, OwnerInv
<1>2. \A d \in Device : Fresh(d)'
  BY <1>1, AllFresh DEF Fresh, Quiet
<1>3. q.pc \in Granting \cup {"resolve"} => q.since = clock
  BY <1>1 DEF Opened, Granting
<1>4. QED BY <1>1, <1>2, <1>3, Timed, StampAgain DEF Quiet

LEMMA StampAdvance ==
  ASSUME Alone, StampInv, DeviceInv', NEW r \in Request, Advance(r)
  PROVE  StampInv'
<1> USE DEF Granting
<1>0. /\ TypedInv /\ req[r].live /\ clock \in Nat
      /\ req[r].pc \notin {"idle", "resolve"} => req[r].user \in User
  BY Facts, Timed DEF StampInv, DeviceInv, OwnerInv, Seated
<1>a. ASSUME Ends(r), req[r].pc \notin {"revoke", "forget"}, clock' \in {clock, clock + 1},
             \A u \in User : row'[u].changed = row[u].changed, \A d \in Device : Fades(d)
      PROVE  StampInv'
  BY <1>a, StampKept DEF Ends
<1>b. ASSUME NEW pc, Goes(r, pc), req[r].pc \notin {"revoke", "forget"}, clock' \in {clock, clock + 1},
             \A u \in User : row'[u].changed = row[u].changed, \A d \in Device : Fades(d),
             pc \in Granting \cup {"resolve"} => req[r].pc \in Granting \cup {"resolve"}
      PROVE  StampInv'
  <2>1. PICK q : Becomes(r, q) /\ q.pc = pc /\ Kin(q, req[r])
    BY <1>b DEF Goes
  <2>2. QED BY <1>0, <1>b, <2>1, StampKept DEF Kin
<1>c. ASSUME NEW new, Written(req[r].user, new), req[r].user \in User,
             new.changed = row[req[r].user].changed
      PROVE  \A u \in User : row'[u].changed = row[u].changed
  BY <1>c DEF Written
<1>d. ASSUME UNCHANGED dev
      PROVE  \A d \in Device : Fades(d)
  BY <1>d DEF Fades
<1>1. ASSUME UpsertDevice(r) PROVE StampInv'
  <2>1. \A d \in Device : Fades(d)
    BY <1>0, <1>1, UpsertDoes DEF Fades, Stored
  <2>2. QED BY <1>0, <1>1, <1>a, <1>b, <2>1, UpsertDoes
<1>2. ASSUME FindDevice(r) PROVE StampInv'
  BY <1>0, <1>2, <1>a, <1>b, <1>d, FindDoes DEF Quiet
<1>3. ASSUME NEW n \in 1..clock, NEW remember \in BOOLEAN, CheckTwoFactor(r, n, remember)
      PROVE  StampInv'
  <2>1. n \in Nat
    OBVIOUS
  <2>2. QED BY <1>0, <1>3, <1>a, <1>b, <1>d, <2>1, CheckDoes DEF Quiet
<1>4. ASSUME RememberDevice(r) PROVE StampInv'
  <2>1. \A d \in Device : Fades(d)
    BY <1>0, <1>4, RememberDoes DEF Fades
  <2>2. QED BY <1>0, <1>4, <1>b, <2>1, RememberDoes
<1>5. ASSUME ResolveAccount(r) PROVE StampInv'
  <2>1. Quiet /\ req[r].pc = "resolve" /\ \A d \in Device : Fades(d)
    BY <1>0, <1>5, <1>d, ResolveDoes DEF Quiet
  <2>2. CASE Ends(r)
    BY <1>a, <2>1, <2>2 DEF Quiet
  <2>3. CASE ~Ends(r)
    <3>1. PICK q : /\ Becomes(r, q) /\ q.pc = "issue" /\ q.since = req[r].since
                   /\ q.live = req[r].live
      BY <1>0, <1>5, <2>3, ResolveDoes
    <3>2. QED BY <1>0, <2>1, <3>1, StampKept DEF Quiet
  <2>4. QED BY <2>2, <2>3
<1>6. ASSUME IssueTokens(r) PROVE StampInv'
  <2>1. CASE dev' = dev
    BY <1>0, <1>6, <1>a, <1>d, <2>1, IssueDoes
  <2>2. CASE dev' # dev
    <3>1. PICK new \in DeviceRow : /\ Stored(req[r].dev, new) /\ new.since = req[r].since
                                   /\ new.owner = dev[req[r].dev].owner
                                   /\ req[r].dev \in Device /\ req[r].pc = "issue" /\ Ends(r)
                                   /\ UNCHANGED row /\ clock' \in {clock, clock + 1}
      BY <1>0, <1>6, <2>2, IssueDoes
    <3>2. \A u \in User : row[u].changed =< req[r].since
      BY <3>1 DEF StampInv, Verified
    <3>3. ASSUME NEW d \in Device PROVE Fresh(d)'
      <4>1. CASE d = req[r].dev
        BY <3>1, <3>2, <4>1, Timed DEF Fresh, Stored
      <4>2. CASE d # req[r].dev
        BY <3>1, <4>2, AllFresh DEF Fresh, Stored
      <4>3. QED BY <4>1, <4>2
    <3>4. \A u \in User : row'[u].changed =< clock'
      BY <3>1, Timed
    <3>5. QED BY <3>1, <3>3, <3>4, IdleTyped, StampAgain DEF Ends
  <2>3. QED BY <2>1, <2>2
<1>e. ASSUME NEW new, Written(req[r].user, new), req[r].user \in User, new.changed = clock + 1,
             clock' = clock + 1, UNCHANGED dev, NEW pc, Goes(r, pc), pc \in {"revoke", "forget"},
             req[r].pc \notin {"revoke", "forget"}
      PROVE  StampInv'
  <2>1. PICK q : Becomes(r, q) /\ q.pc = pc /\ q.user = req[r].user /\ q.live
    BY <1>0, <1>e DEF Goes, Kin
  <2>2. \A u \in User : row'[u].changed =< clock'
    BY <1>e, Timed DEF Written
  <2>3. ASSUME NEW d \in Device, dev'[d].owner # q.user PROVE Fresh(d)'
    <3>1. Fresh(d) /\ dev[d].owner \in User \cup {None}
      BY <1>e, AllFresh, Timed
    <3>2. QED BY <1>e, <2>1, <2>3, <3>1 DEF Fresh, Written
  <2>4. QED BY <1>e, <2>1, <2>2, <2>3, StampAgain
<1>7. ASSUME WriteMasterPassword(r) PROVE StampInv'
  <2>1. UNCHANGED dev /\ req[r].pc = "master" /\ req[r].user \in User
    BY <1>0, <1>7, MasterDoes
  <2>2. CASE Ends(r) /\ row' = row /\ clock' = clock
    BY <1>a, <1>d, <2>1, <2>2
  <2>3. CASE ~(Ends(r) /\ row' = row /\ clock' = clock)
    BY <1>0, <1>7, <1>e, <2>1, <2>3, MasterDoes
  <2>4. QED BY <2>2, <2>3
<1>8. ASSUME RevokeTokens(r) PROVE StampInv'
  <2>1. /\ UNCHANGED <<row, clock>> /\ Ends(r) /\ req[r].pc = "revoke"
        /\ \A d \in Device : Fades(d) /\ (dev[d].owner = req[r].user => dev'[d].token = 0)
    BY <1>0, <1>8, RevokeDoes DEF Fades
  <2>2. ASSUME NEW d \in Device PROVE Fresh(d)'
    <3>1. Fresh(d) \/ dev[d].owner = req[r].user
      BY DEF Alone, StampInv, Revoking
    <3>2. CASE dev'[d].token = 0
      BY <3>2 DEF Fresh
    <3>3. CASE dev'[d].token # 0
      BY <2>1, <3>1, <3>3, StillFresh
    <3>4. QED BY <3>2, <3>3
  <2>3. QED BY <2>1, <2>2, IdleTyped, Timed, StampAgain DEF Ends
<1>9. ASSUME WriteStamp(r) PROVE StampInv'
  <2>1. UNCHANGED dev /\ req[r].pc = "stamp" /\ req[r].user \in User
    BY <1>0, <1>9, StampDoes
  <2>2. CASE Ends(r) /\ row' = row /\ clock' = clock
    BY <1>a, <1>d, <2>1, <2>2
  <2>3. CASE ~(Ends(r) /\ row' = row /\ clock' = clock)
    BY <1>0, <1>9, <1>e, <2>1, <2>3, StampDoes
  <2>4. QED BY <2>2, <2>3
<1>10. ASSUME ForgetDevices(r) PROVE StampInv'
  <2>1. /\ UNCHANGED <<row, clock>> /\ Ends(r) /\ req[r].pc = "forget"
        /\ \A d \in Device : \/ dev'[d] = dev[d] /\ dev[d].owner # req[r].user
                             \/ dev'[d] = NoDevice
    BY <1>0, <1>10, ForgetDoes
  <2>2. ASSUME NEW d \in Device PROVE Fresh(d)'
    <3>1. Fresh(d) \/ dev[d].owner = req[r].user
      BY DEF Alone, StampInv, Revoking
    <3>2. CASE dev'[d] = NoDevice
      BY <3>2, NoDeviceTyped DEF Fresh
    <3>3. CASE dev'[d] # NoDevice
      BY <2>1, <3>1, <3>3, StillFresh DEF Fades
    <3>4. QED BY <3>2, <3>3
  <2>3. QED BY <2>1, <2>2, IdleTyped, Timed, StampAgain DEF Ends
<1>11. ASSUME WriteSecret(r) PROVE StampInv'
  <2>1. \A u \in User : row'[u].changed = row[u].changed
    BY <1>0, <1>11, <1>c, SecretDoes
  <2>2. QED BY <1>0, <1>11, <1>a, <1>d, <2>1, SecretDoes
<1>12. ASSUME EnableTwoFactor(r) \/ ClearTwoFactor(r) PROVE StampInv'
  <2>1. \A u \in User : row'[u].changed = row[u].changed
    BY <1>0, <1>12, <1>c, FactorDoes
  <2>2. QED BY <1>0, <1>12, <1>a, <1>d, <2>1, FactorDoes
<1>13. ASSUME CountDevices(r) PROVE StampInv'
  BY <1>0, <1>13, <1>a, <1>b, <1>d, CountDoes DEF Quiet
<1>14. ASSUME WriteKeys(r) PROVE StampInv'
  <2>1. /\ UNCHANGED dev /\ req[r].pc = "provision" /\ Ends(r) /\ req[r].user \in User
        /\ clock' \in {clock, clock + 1}
    BY <1>0, <1>14, KeysDoes
  <2>2. CASE row' = row
    BY <1>a, <1>d, <2>1, <2>2
  <2>3. CASE row' # row
    <3>1. PICK new \in Row : Written(req[r].user, new) /\ new.changed = clock + 1 /\ clock' = clock + 1
      BY <1>0, <1>14, <2>3, KeysDoes
    <3>2. \A d \in Device : dev[d].owner # req[r].user
      BY <2>1 DEF StampInv, DeviceInv, Provided, HasDevices
    <3>3. ASSUME NEW d \in Device PROVE Fresh(d)'
      <4>1. Fresh(d) /\ dev[d].owner \in User \cup {None}
        BY <2>1, AllFresh, Timed
      <4>2. QED BY <2>1, <3>1, <3>2, <4>1 DEF Fresh, Written
    <3>4. \A u \in User : row'[u].changed =< clock'
      BY <2>1, <3>1, Timed DEF Written
    <3>5. QED BY <2>1, <3>3, <3>4, IdleTyped, StampAgain DEF Ends
  <2>4. QED BY <2>2, <2>3
<1>15. QED BY <1>1, <1>2, <1>3, <1>4, <1>5, <1>6, <1>7, <1>8, <1>9, <1>10, <1>11, <1>12, <1>13, <1>14
           DEF Advance

LEMMA StampInit == Init => StampInv
<1> SUFFICES ASSUME Init PROVE StampInv
  OBVIOUS
<1>1. /\ \A r \in Request : req[r].live /\ Verified(req[r])
      /\ \A d \in Device : Fresh(d)
  BY IdleTyped, NoDeviceTyped DEF Init, Verified, Granting, Fresh
<1>2. \A u \in User : row[u].changed =< clock
  BY DEF Init, NoKeys
<1>3. QED BY <1>1, <1>2, DeviceInit DEF StampInv

LEMMA StampStep ==
  ASSUME Alone, "disconnect" \notin Faults, StampInv, [Next]_vars
  PROVE  StampInv'
<1>1. TypedInv /\ DeviceInv'
  BY DeviceStep DEF StampInv, DeviceInv, OwnerInv
<1>2. ASSUME UNCHANGED <<row, dev, req, clock>> PROVE StampInv'
  BY <1>1, <1>2 DEF StampInv, Verified, Fresh, Revoking, At
<1>3. CASE UNCHANGED vars
  BY <1>2, <1>3 DEF vars
<1>4. ASSUME NEW a, Expire(a) \/ StoreCipher(a) PROVE StampInv'
  BY <1>1, <1>2, <1>4, OthersDo
<1>5. ASSUME NEW u \in User, SetStatus(u) PROVE StampInv'
  <2>1. PICK new \in Row : /\ Written(u, new) /\ new.changed = row[u].changed
                           /\ UNCHANGED <<dev, req, clock>>
    BY <1>1, <1>5, StatusDoes
  <2>2. \A v \in User : row'[v].changed = row[v].changed
    BY <2>1 DEF Written
  <2>3. \A d \in Device : Fresh(d) => Fresh(d)'
    BY <2>1, <2>2, StillFresh DEF Fades
  <2>4. QED BY <1>1, <2>1, <2>2, <2>3 DEF StampInv, Verified, Revoking, At
<1>6. ASSUME NEW r \in Request, Disconnect(r) PROVE StampInv'
  BY <1>6 DEF Disconnect
<1>7. QED BY <1>1, <1>3, <1>4, <1>5, <1>6, StampArrive, StampAdvance DEF Next

\* TokensDieWithStamp: a refresh token whose credentials were verified before the master password or
\* the security stamp last changed does not outlive the request that changed it.  The stamp and the
\* tokens are two statements: a request that loses its connection between them leaves the tokens, and
\* a grant served between them issues another.
THEOREM TokensDieSafe ==
  ASSUME Alone, "disconnect" \notin Faults
  PROVE  Spec => []TokensDieWithStamp
<1>1. StampInv => TokensDieWithStamp
  <2> SUFFICES ASSUME StampInv, NEW d \in Device, dev[d].owner # None, dev[d].token # 0,
                      dev[d].since < row[dev[d].owner].changed
               PROVE  Revoking(dev[d].owner)
    BY DEF TokensDieWithStamp
  <2>1. dev[d].since \in Nat
    BY DEF StampInv, DeviceInv, OwnerInv, TypedInv, TypeOK, DeviceRow
  <2>2. row[dev[d].owner].changed \in Nat
    BY Timed
  <2>3. ~Fresh(d)
    BY <2>1, <2>2 DEF Fresh
  <2>4. QED BY <2>3 DEF StampInv
<1>2. QED BY <1>1, StampInit, StampStep, PTL DEF Spec

-----------------------------------------------------------------------------
(* The user keys of the stored ciphers.                                       *)

\* The user key of an account with devices is kept, and devices remain registered.
KeysHeld == \A u \in User : HasDevices(u) => row'[u].key = row[u].key

Remain == \A d \in Device : dev[d].owner # None => dev'[d].owner = dev[d].owner

\* What is known of the key of each refresh token after a step.
TokensHeld == \A d \in Device : \/ dev'[d].token = 0
                                \/ /\ dev'[d].owner = dev[d].owner /\ dev'[d].token = dev[d].token
                                   /\ dev'[d].key = dev[d].key

LEMMA DevicesRemain ==
  ASSUME Remain, NEW u \in User, HasDevices(u)
  PROVE  HasDevices(u)'
BY Absent DEF Remain, HasDevices

LEMMA SameKeysHeld ==
  ASSUME UNCHANGED row
  PROVE  KeysHeld
BY DEF KeysHeld

LEMMA KeyWritten ==
  ASSUME NEW u \in User, NEW new, Written(u, new), HasDevices(u) => new.key = row[u].key
  PROVE  KeysHeld
BY DEF KeysHeld, Written

LEMMA ClientsAgain ==
  ASSUME ReadableInv, KeysHeld, Remain, UNCHANGED data, access' \subseteq access
  PROVE  VaultReadable' /\ ClientsCurrent'
<1>1. \A u \in User : data[u] # {} => HasDevices(u) /\ HasDevices(u)' /\ row'[u].key = row[u].key
  BY DevicesRemain DEF ReadableInv, ClientsCurrent, KeysHeld
<1>2. \A a \in access : a[1] \in User /\ a[2] = row[a[1]].key /\ HasDevices(a[1])
  BY DEF ReadableInv, ClientsCurrent, DeviceInv, OwnerInv, TypedInv, TypeOK
<1>3. \A a \in access : HasDevices(a[1])' /\ a[2] = row'[a[1]].key
  BY <1>2, DevicesRemain DEF KeysHeld
<1>4. \A u \in User : data[u] # {} => data[u] \subseteq {row'[u].key}
  BY <1>1 DEF ReadableInv, VaultReadable
<1>5. VaultReadable'
  BY <1>4 DEF VaultReadable
<1>6. QED BY <1>1, <1>3, <1>5 DEF ClientsCurrent

LEMMA DevicesAgain ==
  ASSUME ReadableInv, KeysHeld, TokensHeld
  PROVE  DevicesCurrent'
<1>1. ASSUME NEW d \in Device, dev'[d].owner # None, dev'[d].token # 0
      PROVE  dev'[d].key = row'[dev'[d].owner].key
  <2>1. /\ dev'[d].owner = dev[d].owner /\ dev'[d].token = dev[d].token
        /\ dev'[d].key = dev[d].key
    BY <1>1 DEF TokensHeld
  <2>2. dev[d].owner \in User \cup {None}
    BY DEF ReadableInv, DeviceInv, OwnerInv, TypedInv, TypeOK, DeviceRow
  <2>3. dev[d].owner \in User /\ dev[d].key = row[dev[d].owner].key
    BY <1>1, <2>1, <2>2 DEF ReadableInv, DevicesCurrent
  <2>4. HasDevices(dev[d].owner)
    BY DEF HasDevices
  <2>5. QED BY <2>1, <2>3, <2>4 DEF KeysHeld
<1>2. QED BY <1>1 DEF DevicesCurrent

LEMMA ReadableAgain ==
  ASSUME Alone, DeviceInv', VaultReadable', ClientsCurrent', DevicesCurrent',
         NEW r \in Request, NEW q, Becomes(r, q),
         q.pc \in Granting \cup {"master"} => q.key = row'[q.user].key,
         q.pc = "resolve" => /\ dev'[q.dev].owner # None
                             /\ q.key = row'[dev'[q.dev].owner].key
  PROVE  ReadableInv'
BY DEF ReadableInv, Unlocked, Becomes, Alone

\* A statement that issues no tokens, and leaves the request with the key it has or none.
LEMMA ReadableKept ==
  ASSUME Alone, ReadableInv, DeviceInv', KeysHeld, Remain, TokensHeld, UNCHANGED <<access, data>>,
         NEW r \in Request, NEW q, Becomes(r, q),
         \/ q.pc \notin Granting \cup {"master", "resolve"}
         \/ /\ q.pc \in Granting /\ q.user = req[r].user /\ q.key = req[r].key
            /\ req[r].pc \in Granting /\ UNCHANGED row
  PROVE  ReadableInv'
<1>1. VaultReadable' /\ ClientsCurrent' /\ DevicesCurrent'
  BY ClientsAgain, DevicesAgain
<1>2. q.pc \in Granting \cup {"master"} => q.key = row'[q.user].key
  BY DEF ReadableInv, Unlocked, Granting
<1>3. q.pc # "resolve"
  BY DEF Granting
<1>4. QED BY <1>1, <1>2, <1>3, ReadableAgain

LEMMA ReadableArrive ==
  ASSUME Alone, ReadableInv, DeviceInv', NEW r \in Request, Arrive(r)
  PROVE  ReadableInv'
<1>1. TypedInv /\ DeviceInv
  BY DEF ReadableInv, DeviceInv, OwnerInv
<1>2. PICK q : Quiet /\ Becomes(r, q) /\ Opened(q)
  BY <1>1, ArriveDoes
<1>3. VaultReadable' /\ ClientsCurrent' /\ DevicesCurrent'
  BY <1>2, ClientsAgain, DevicesAgain DEF Quiet, KeysHeld, Remain, TokensHeld
<1>4. q.pc \in Granting => q.key = row[q.user].key
  BY <1>2 DEF Opened, Granting
<1>5. ASSUME q.pc = "master" PROVE q.key = row[q.user].key
  <2>1. <<q.user, q.key>> \in access
    BY <1>2, <1>5 DEF Opened
  <2>2. QED BY <2>1 DEF ReadableInv, ClientsCurrent
<1>6. ASSUME q.pc = "resolve" PROVE dev[q.dev].owner # None /\ q.key = row[dev[q.dev].owner].key
  <2>1. q.dev \in Device /\ dev[q.dev].token # 0 /\ q.key = dev[q.dev].key
    BY <1>2, <1>6 DEF Opened
  <2>2. dev[q.dev].owner # None
    BY <1>1, <2>1, NoDeviceTyped DEF TypedInv, TypeOK
  <2>3. QED BY <2>1, <2>2 DEF ReadableInv, DevicesCurrent
<1>7. QED BY <1>2, <1>3, <1>4, <1>5, <1>6, ReadableAgain DEF Quiet

LEMMA ReadableAdvance ==
  ASSUME Alone, "stamp" \notin Op, ReadableInv, DeviceInv', NEW r \in Request, Advance(r)
  PROVE  ReadableInv'
<1> USE DEF Granting
<1>0. /\ TypedInv /\ OwnerInv /\ DeviceInv
      /\ req[r].pc \notin {"idle", "resolve"} => req[r].user \in User
      /\ req[r].pc \notin {"stamp", "forget"}
  BY Facts DEF ReadableInv, DeviceInv, OwnerInv, Seated
<1>a. ASSUME Ends(r), KeysHeld, Remain, TokensHeld, UNCHANGED <<access, data>>
      PROVE  ReadableInv'
  BY <1>a, IdleTyped, ReadableKept DEF Ends
<1>b. ASSUME NEW pc, Goes(r, pc), KeysHeld, Remain, TokensHeld, UNCHANGED <<access, data>>,
             \/ pc \notin Granting \cup {"master", "resolve"}
             \/ pc \in Granting /\ req[r].pc \in Granting /\ UNCHANGED row
      PROVE  ReadableInv'
  <2>1. PICK q : Becomes(r, q) /\ q.pc = pc /\ Kin(q, req[r])
    BY <1>b DEF Goes
  <2>2. QED BY <1>b, <2>1, ReadableKept DEF Kin
<1>d. ASSUME UNCHANGED dev PROVE Remain /\ TokensHeld
  BY <1>d DEF Remain, TokensHeld
<1>1. ASSUME UpsertDevice(r) PROVE ReadableInv'
  <2>1. KeysHeld /\ Remain /\ TokensHeld
    BY <1>0, <1>1, UpsertDoes, SameKeysHeld DEF Remain, TokensHeld, Stored
  <2>2. QED BY <1>0, <1>1, <1>a, <1>b, <2>1, UpsertDoes
<1>2. ASSUME FindDevice(r) PROVE ReadableInv'
  BY <1>0, <1>2, <1>a, <1>b, <1>d, FindDoes, SameKeysHeld DEF Quiet
<1>3. ASSUME NEW n \in 1..clock, NEW remember \in BOOLEAN, CheckTwoFactor(r, n, remember)
      PROVE  ReadableInv'
  <2>1. n \in Nat
    OBVIOUS
  <2>2. QED BY <1>0, <1>3, <1>a, <1>b, <1>d, <2>1, CheckDoes, SameKeysHeld DEF Quiet
<1>4. ASSUME RememberDevice(r) PROVE ReadableInv'
  <2>1. KeysHeld /\ Remain /\ TokensHeld
    BY <1>0, <1>4, RememberDoes, SameKeysHeld DEF Remain, TokensHeld
  <2>2. QED BY <1>0, <1>4, <1>b, <2>1, RememberDoes
<1>5. ASSUME ResolveAccount(r) PROVE ReadableInv'
  <2>1. Quiet /\ req[r].pc = "resolve" /\ KeysHeld /\ Remain /\ TokensHeld
    BY <1>0, <1>5, <1>d, ResolveDoes, SameKeysHeld DEF Quiet
  <2>2. CASE Ends(r)
    BY <1>a, <2>1, <2>2 DEF Quiet
  <2>3. CASE ~Ends(r)
    <3>1. PICK q : /\ Becomes(r, q) /\ q.pc = "issue" /\ q.user = dev[req[r].dev].owner
                   /\ q.key = req[r].key
      BY <1>0, <1>5, <2>3, ResolveDoes
    <3>2. q.key = row[q.user].key
      BY <2>1, <3>1 DEF ReadableInv, Unlocked
    <3>3. VaultReadable' /\ ClientsCurrent' /\ DevicesCurrent'
      BY <2>1, ClientsAgain, DevicesAgain DEF Quiet
    <3>4. QED BY <2>1, <3>1, <3>2, <3>3, ReadableAgain DEF Quiet
  <2>4. QED BY <2>2, <2>3
<1>6. ASSUME IssueTokens(r) PROVE ReadableInv'
  <2>1. /\ UNCHANGED <<row, data>> /\ req[r].pc = "issue" /\ Ends(r) /\ req[r].user \in User
        /\ req[r].dev \in Device /\ access' \subseteq access \cup {<<req[r].user, req[r].key>>}
    BY <1>0, <1>6, IssueDoes
  <2>2. dev[req[r].dev].owner = req[r].user /\ req[r].key = row[req[r].user].key
    BY <1>0, <2>1 DEF ReadableInv, Unlocked, OwnerInv, Matched, Resolved
  <2>3. Remain
    BY <1>0, <1>6, IssueDoes DEF Remain, Stored
  <2>4. VaultReadable'
    BY <2>1 DEF ReadableInv, VaultReadable
  <2>5. ClientsCurrent'
    <3>1. \A u \in User : data'[u] # {} => HasDevices(u)'
      BY <2>1, <2>3, DevicesRemain DEF ReadableInv, ClientsCurrent
    <3>2. ASSUME NEW a \in access' PROVE a[2] = row'[a[1]].key /\ HasDevices(a[1])'
      <4>1. CASE a \in access
        <5>1. a[1] \in User /\ a[2] = row[a[1]].key /\ HasDevices(a[1])
          BY <1>0, <4>1 DEF ReadableInv, ClientsCurrent, TypedInv, TypeOK
        <5>2. QED BY <2>1, <2>3, <5>1, DevicesRemain
      <4>2. CASE a = <<req[r].user, req[r].key>>
        <5>1. PICK u \in User : u = req[r].user
          BY <2>1
        <5>2. HasDevices(u)
          BY <2>1, <2>2, <5>1 DEF HasDevices
        <5>3. a[1] = u /\ a[2] = row[u].key
          BY <2>2, <4>2, <5>1
        <5>4. QED BY <2>1, <2>3, <5>2, <5>3, DevicesRemain
      <4>3. QED BY <2>1, <4>1, <4>2
    <3>3. QED BY <3>1, <3>2 DEF ClientsCurrent
  <2>6. DevicesCurrent'
    <3>1. CASE dev' = dev
      BY <2>1, <3>1 DEF ReadableInv, DevicesCurrent
    <3>2. CASE dev' # dev
      <4>1. PICK new \in DeviceRow : /\ Stored(req[r].dev, new) /\ new.key = req[r].key
                                     /\ new.owner = dev[req[r].dev].owner
        BY <1>0, <1>6, <3>2, IssueDoes
      <4>2. QED BY <2>1, <2>2, <4>1 DEF ReadableInv, DevicesCurrent, Stored
    <3>3. QED BY <3>1, <3>2
  <2>7. QED BY <2>1, <2>4, <2>5, <2>6, IdleTyped, ReadableAgain DEF Ends
<1>7. ASSUME WriteMasterPassword(r) PROVE ReadableInv'
  <2>1. UNCHANGED <<dev, access, data>> /\ req[r].pc = "master" /\ req[r].user \in User
    BY <1>0, <1>7, MasterDoes
  <2>2. req[r].key = row[req[r].user].key
    BY <2>1 DEF ReadableInv, Unlocked
  <2>3. KeysHeld
    BY <1>0, <1>7, <2>1, <2>2, MasterDoes, SameKeysHeld, KeyWritten
  <2>4. QED BY <1>0, <1>7, <1>a, <1>b, <1>d, <2>1, <2>3, MasterDoes
<1>8. ASSUME RevokeTokens(r) PROVE ReadableInv'
  <2>1. KeysHeld /\ Remain /\ TokensHeld
    BY <1>0, <1>8, RevokeDoes, SameKeysHeld DEF Remain, TokensHeld
  <2>2. QED BY <1>0, <1>8, <1>a, <2>1, RevokeDoes
<1>9. ASSUME WriteStamp(r) \/ ForgetDevices(r) PROVE ReadableInv'
  BY <1>0, <1>9 DEF WriteStamp, ForgetDevices, At
<1>10. ASSUME WriteSecret(r) PROVE ReadableInv'
  BY <1>0, <1>10, <1>a, <1>d, SecretDoes, SameKeysHeld, KeyWritten
<1>11. ASSUME EnableTwoFactor(r) \/ ClearTwoFactor(r) PROVE ReadableInv'
  BY <1>0, <1>11, <1>a, <1>d, FactorDoes, SameKeysHeld, KeyWritten
<1>12. ASSUME CountDevices(r) PROVE ReadableInv'
  BY <1>0, <1>12, <1>a, <1>b, <1>d, CountDoes, SameKeysHeld DEF Quiet
<1>13. ASSUME WriteKeys(r) PROVE ReadableInv'
  <2>1. /\ UNCHANGED <<dev, access, data>> /\ req[r].pc = "provision" /\ Ends(r)
        /\ req[r].user \in User
    BY <1>0, <1>13, KeysDoes
  <2>2. ~HasDevices(req[r].user)
    BY <2>1 DEF ReadableInv, DeviceInv, Provided
  <2>3. KeysHeld
    BY <1>0, <1>13, <2>1, <2>2, KeysDoes, SameKeysHeld, KeyWritten
  <2>4. QED BY <1>a, <1>d, <2>1, <2>3
<1>14. QED BY <1>1, <1>2, <1>3, <1>4, <1>5, <1>6, <1>7, <1>8, <1>9, <1>10, <1>11, <1>12, <1>13
           DEF Advance

LEMMA ReadableInit == Init => ReadableInv
<1> SUFFICES ASSUME Init PROVE ReadableInv
  OBVIOUS
<1>1. \A u \in User : data[u] = {}
  BY DEF Init
<1>2. \A r \in Request : Unlocked(req[r])
  BY IdleTyped DEF Init, Unlocked, Granting
<1>3. DevicesCurrent
  BY NoDeviceTyped DEF Init, DevicesCurrent
<1>4. access = {}
  BY DEF Init
<1>5. QED BY <1>1, <1>2, <1>3, <1>4, DeviceInit DEF ReadableInv, VaultReadable, ClientsCurrent

LEMMA ReadableStep ==
  ASSUME Alone, "stamp" \notin Op, ReadableInv, [Next]_vars
  PROVE  ReadableInv'
<1>1. TypedInv /\ DeviceInv /\ DeviceInv'
  BY DeviceStep DEF ReadableInv, DeviceInv, OwnerInv
<1>2. CASE UNCHANGED vars
  BY <1>1, <1>2 DEF vars, ReadableInv, VaultReadable, ClientsCurrent, DevicesCurrent, Unlocked, HasDevices
<1>3. ASSUME NEW a, Expire(a) \/ StoreCipher(a) PROVE ReadableInv'
  <2>1. /\ UNCHANGED <<row, dev, req>> /\ a \in access /\ access' \subseteq access
        /\ \A u \in User : data'[u] = data[u] \/ (u = a[1] /\ data'[u] = data[u] \cup {a[2]})
    BY <1>1, <1>3, OthersDo
  <2>2. a[2] = row[a[1]].key /\ HasDevices(a[1])
    BY <2>1 DEF ReadableInv, ClientsCurrent
  <2>3. VaultReadable'
    BY <2>1, <2>2 DEF ReadableInv, VaultReadable
  <2>4. ClientsCurrent'
    BY <2>1, <2>2 DEF ReadableInv, ClientsCurrent, HasDevices
  <2>5. QED BY <1>1, <2>1, <2>3, <2>4 DEF ReadableInv, DevicesCurrent, Unlocked
<1>4. ASSUME NEW u \in User, SetStatus(u) PROVE ReadableInv'
  <2>1. PICK new \in Row : /\ Written(u, new) /\ new.key = row[u].key
                           /\ UNCHANGED <<dev, access, data, req>>
    BY <1>1, <1>4, StatusDoes
  <2>2. (\A v \in User : row'[v].key = row[v].key) /\ KeysHeld
    BY <2>1 DEF Written, KeysHeld
  <2>3. VaultReadable' /\ ClientsCurrent' /\ DevicesCurrent'
    BY <2>1, <2>2, ClientsAgain, DevicesAgain DEF Remain, TokensHeld
  <2>4. ASSUME NEW r \in Request PROVE Unlocked(req[r])'
    <3>1. req[r].pc \in Granting \cup {"master"} => req[r].user \in User
      BY <1>1, Facts DEF Seated, Granting
    <3>2. req[r].pc = "resolve" => dev[req[r].dev].owner \in User \cup {None}
      BY <1>1, Facts DEF Seated, TypedInv, TypeOK, DeviceRow
    <3>3. QED BY <2>1, <2>2, <3>1, <3>2 DEF ReadableInv, Unlocked
  <2>5. QED BY <1>1, <2>3, <2>4 DEF ReadableInv
<1>5. ASSUME NEW r \in Request, Disconnect(r) PROVE ReadableInv'
  <2>1. PICK q : /\ Quiet /\ Becomes(r, q) /\ q.pc = req[r].pc /\ q.user = req[r].user
                 /\ q.dev = req[r].dev /\ q.key = req[r].key
    BY <1>1, <1>5, DisconnectDoes
  <2>2. VaultReadable' /\ ClientsCurrent' /\ DevicesCurrent'
    BY <2>1, ClientsAgain, DevicesAgain DEF Quiet, KeysHeld, Remain, TokensHeld
  <2>3. QED BY <1>1, <2>1, <2>2, ReadableAgain DEF ReadableInv, Unlocked, Quiet
<1>6. QED BY <1>1, <1>2, <1>3, <1>4, <1>5, ReadableArrive, ReadableAdvance DEF Next

\* VaultReadable: the stored ciphers stay readable under the user key the account has.  ProvisionUser
\* draws a new key only for an account without devices, and a client that stores ciphers has
\* registered one; a security stamp deletes the devices and leaves the ciphers, so there is none.
THEOREM VaultReadableSafe ==
  ASSUME Alone, "stamp" \notin Op
  PROVE  Spec => []VaultReadable
<1>1. ReadableInv => VaultReadable
  BY DEF ReadableInv
<1>2. QED BY <1>1, ReadableInit, ReadableStep, PTL DEF Spec
=============================================================================
