------------------------- MODULE BitwardenIdentity -------------------------
(***************************************************************************)
(* The Bitwarden-compatible identity: the rows of bitwarden_accounts and   *)
(* bitwarden_devices, the token grants, the master password, two-factor    *)
(* enrolment, and ProvisionUser, which the panel calls with a password it  *)
(* has just set.  Each request sends one SQL statement per step; requests  *)
(* behind requireAuth work on the account row that requireAuth has read.   *)
(*                                                                         *)
(* Master passwords, user keys, tokens and TOTP secrets are numbers drawn  *)
(* from clock, so all are different and a larger one is newer.  A client   *)
(* encrypts with the user key it unlocked at its login: data[u] holds the  *)
(* keys under which the ciphers of u are encrypted.                        *)
(***************************************************************************)
EXTENDS Naturals, FiniteSets

CONSTANTS User,      \* accounts of the panel
          Device,    \* device identifiers chosen by the clients
          Request,   \* slots for the requests being served
          Op,        \* the operations the environment asks for
          Faults,    \* what may go wrong: "disconnect"
          MaxClock,  \* no new request is admitted once clock reaches this bound
          None       \* no account or device

IdentityOps == {"grant", "refresh", "master", "stamp", "enroll", "confirm", "disable",
                "provision", "status", "expire"}

ASSUME IdentityAssumption == /\ None \notin User \cup Device
                             /\ Op \subseteq IdentityOps
                             /\ Faults \subseteq {"disconnect"}
                             /\ MaxClock \in Nat

VARIABLES row,     \* bitwarden_accounts joined with users.status
          dev,     \* bitwarden_devices
          access,  \* unexpired access tokens: account and user key of the client
          data,    \* the user keys the stored ciphers are encrypted under
          req,     \* the requests being served
          clock    \* the last number issued

vars == <<row, dev, access, data, req, clock>>

-----------------------------------------------------------------------------
Row == [active : BOOLEAN, master : Nat, key : Nat, changed : Nat, tfa : BOOLEAN, secret : Nat]

NoKeys == [active |-> TRUE, master |-> 0, key |-> 0, changed |-> 0, tfa |-> FALSE, secret |-> 0]

\* token: refresh_token_hash; key, since and issuedTo: the user key of the client that
\* holds the token, when its credentials were verified, and whose they were.
DeviceRow == [owner : User \cup {None}, token : Nat, remember : Nat,
              key : Nat, since : Nat, issuedTo : User \cup {None}]

NoDevice == [owner |-> None, token |-> 0, remember |-> 0, key |-> 0, since |-> 0,
             issuedTo |-> None]

Pc == {"idle", "upsert", "found", "second", "remember", "issue", "resolve", "master",
       "revoke", "stamp", "forget", "secret", "enable", "disable", "count", "provision"}

RequestState == [pc : Pc, op : IdentityOps \cup {"none"}, user : User \cup {None},
                 dev : Device \cup {None}, tfa : BOOLEAN, secret : Nat, key : Nat,
                 token : Nat, since : Nat, live : BOOLEAN]

Idle == [pc |-> "idle", op |-> "none", user |-> None, dev |-> None, tfa |-> FALSE,
         secret |-> 0, key |-> 0, token |-> 0, since |-> 0, live |-> TRUE]

TypeOK == /\ row \in [User -> Row]
          /\ dev \in [Device -> DeviceRow]
          /\ access \subseteq User \X Nat
          /\ data \in [User -> SUBSET Nat]
          /\ req \in [Request -> RequestState]
          /\ clock \in Nat
          /\ \A d \in Device : dev[d].owner = None => dev[d] = NoDevice

Init == /\ row = [u \in User |-> NoKeys]
        /\ dev = [d \in Device |-> NoDevice]
        /\ access = {}
        /\ data = [u \in User |-> {}]
        /\ req = [r \in Request |-> Idle]
        /\ clock = 0

-----------------------------------------------------------------------------
At(r, pc) == req[r].pc = pc
Goto(r, pc) == req' = [req EXCEPT ![r].pc = pc]
Finish(r) == req' = [req EXCEPT ![r] = Idle]
Fails(r) == ~req[r].live

Admits(r, op) == op \in Op /\ clock < MaxClock /\ At(r, "idle")

\* A step that sends an UPDATE of u's row with the request's context.
Write(r, u, new, next) ==
  /\ IF Fails(r) THEN UNCHANGED row /\ Finish(r)
     ELSE /\ row' = [row EXCEPT ![u] = new]
          /\ IF next = "idle" THEN Finish(r) ELSE Goto(r, next)
  /\ UNCHANGED <<dev, access, data>>

-----------------------------------------------------------------------------
(* POST /identity/connect/token: password and refresh_token grants.           *)

\* The master password m opens an active, provisioned account.
PasswordGrant(r, u, d, m) ==
  /\ Admits(r, "grant")
  /\ row[u].active /\ row[u].master # 0 /\ m = row[u].master
  /\ req' = [req EXCEPT ![r] = [Idle EXCEPT
               !.pc = "upsert", !.op = "grant", !.user = u, !.dev = d, !.tfa = row[u].tfa,
               !.secret = row[u].secret, !.key = row[u].key, !.since = clock]]
  /\ UNCHANGED <<row, dev, access, data, clock>>

\* INSERT ... ON CONFLICT (id) DO UPDATE leaves the owner of the row as it is.
UpsertDevice(r) ==
  LET d == req[r].dev IN
  /\ At(r, "upsert")
  /\ IF Fails(r) THEN Finish(r) /\ UNCHANGED dev
     ELSE /\ dev' = IF dev[d].owner = None THEN [dev EXCEPT ![d].owner = req[r].user] ELSE dev
          /\ Goto(r, "found")
  /\ UNCHANGED <<row, access, data, clock>>

\* Seeded fault: the row is found whoever owns it.
AnyDevice(u, d) == dev[d].owner # None

OwnDevice(u, d) == dev[d].owner = u

\* deviceByID reads the row back: it must belong to this account.
FindDevice(r) ==
  /\ At(r, "found")
  /\ IF ~Fails(r) /\ OwnDevice(req[r].user, req[r].dev)
     THEN Goto(r, IF req[r].tfa THEN "second" ELSE "issue")
     ELSE Finish(r)
  /\ UNCHANGED <<row, dev, access, data, clock>>

\* checkTwoFactor: a remember token of this device, or a code of the enrolled secret;
\* anything else is answered with a prompt or an error.
CheckTwoFactor(r, number, remember) ==
  LET d == req[r].dev
      known == ~Fails(r) /\ OwnDevice(req[r].user, d)
  IN /\ At(r, "second")
     /\ \/ known /\ dev[d].remember # 0 /\ number = dev[d].remember /\ Goto(r, "issue")
        \/ /\ req[r].secret # 0 /\ number = req[r].secret
           /\ Goto(r, IF remember /\ known THEN "remember" ELSE "issue")
        \/ Finish(r)
     /\ UNCHANGED <<row, dev, access, data, clock>>

RememberDevice(r) ==
  LET d == req[r].dev IN
  /\ At(r, "remember")
  /\ IF Fails(r) \/ dev[d].owner = None THEN UNCHANGED <<dev, clock>>
     ELSE dev' = [dev EXCEPT ![d].remember = clock + 1] /\ clock' = clock + 1
  /\ Goto(r, "issue")
  /\ UNCHANGED <<row, access, data>>

RefreshGrant(r, d, t) ==
  /\ Admits(r, "refresh")
  /\ dev[d].token # 0 /\ t = dev[d].token
  /\ req' = [req EXCEPT ![r] = [Idle EXCEPT !.pc = "resolve", !.op = "refresh", !.dev = d,
                                  !.key = dev[d].key, !.token = t, !.since = clock]]
  /\ UNCHANGED <<row, dev, access, data, clock>>

\* deviceByRefreshToken goes on to read the owner of the device and its account.
ResolveAccount(r) ==
  LET u == dev[req[r].dev].owner IN
  /\ At(r, "resolve")
  /\ IF ~Fails(r) /\ u # None /\ row[u].active
     THEN req' = [req EXCEPT ![r].pc = "issue", ![r].user = u]
     ELSE Finish(r)
  /\ UNCHANGED <<row, dev, access, data, clock>>

\* respondToken stores a new refresh token WHERE id = device and signs an access token.
IssueTokens(r) ==
  LET u == req[r].user
      d == req[r].dev
  IN /\ At(r, "issue")
     /\ IF Fails(r) THEN UNCHANGED <<dev, access, clock>>
        ELSE /\ dev' = IF dev[d].owner = None THEN dev
                       ELSE [dev EXCEPT ![d] = [@ EXCEPT !.token = clock + 1, !.key = req[r].key,
                                                  !.since = req[r].since, !.issuedTo = u]]
             /\ access' = access \cup {<<u, req[r].key>>}
             /\ clock' = clock + 1
     /\ Finish(r)
     /\ UNCHANGED <<row, data>>

\* An access token expires an hour after it was issued.
Expire(a) == /\ "expire" \in Op /\ a \in access
             /\ access' = access \ {a}
             /\ UNCHANGED <<row, dev, data, req, clock>>

-----------------------------------------------------------------------------
(* Behind requireAuth: a is the client's access token and user key.           *)

Authenticated(r, a, op) ==
  /\ Admits(r, op) /\ a \in access
  /\ row[a[1]].active /\ row[a[1]].master # 0

Start(r, a, op, pc) ==
  /\ req' = [req EXCEPT ![r] = [Idle EXCEPT !.pc = pc, !.op = op, !.user = a[1], !.key = a[2]]]
  /\ UNCHANGED <<row, dev, access, data, clock>>

\* The client sends the hash of the current master password m, and its user key
\* wrapped again under the new one.
ChangeMasterPassword(r, a, m) ==
  /\ Authenticated(r, a, "master") /\ m = row[a[1]].master /\ Start(r, a, "master", "master")

WriteMasterPassword(r) ==
  LET u == req[r].user IN
  /\ At(r, "master")
  /\ Write(r, u, [row[u] EXCEPT !.master = clock + 1, !.key = req[r].key, !.changed = clock + 1],
           "revoke")
  /\ clock' = IF Fails(r) THEN clock ELSE clock + 1

\* Seeded fault: only the remember tokens go.
RevokedRemember(u) ==
  [d \in Device |-> IF dev[d].owner = u THEN [dev[d] EXCEPT !.remember = 0] ELSE dev[d]]

RevokedTokens(u) ==
  [d \in Device |-> IF dev[d].owner = u THEN [dev[d] EXCEPT !.token = 0] ELSE dev[d]]

RevokeTokens(r) ==
  /\ At(r, "revoke")
  /\ dev' = IF Fails(r) THEN dev ELSE RevokedTokens(req[r].user)
  /\ Finish(r)
  /\ UNCHANGED <<row, access, data, clock>>

SecurityStamp(r, a, m) ==
  /\ Authenticated(r, a, "stamp") /\ m = row[a[1]].master /\ Start(r, a, "stamp", "stamp")

WriteStamp(r) ==
  /\ At(r, "stamp")
  /\ Write(r, req[r].user, [row[req[r].user] EXCEPT !.changed = clock + 1], "forget")
  /\ clock' = IF Fails(r) THEN clock ELSE clock + 1

\* Seeded fault: the devices are detached from the account and keep their tokens.
DetachedDevices(u) ==
  [d \in Device |-> IF dev[d].owner = u THEN [dev[d] EXCEPT !.owner = None] ELSE dev[d]]

DeletedDevices(u) == [d \in Device |-> IF dev[d].owner = u THEN NoDevice ELSE dev[d]]

ForgetDevices(r) ==
  /\ At(r, "forget")
  /\ dev' = IF Fails(r) THEN dev ELSE DeletedDevices(req[r].user)
  /\ Finish(r)
  /\ UNCHANGED <<row, access, data, clock>>

\* A cipher encrypted by the client under the user key it holds.
StoreCipher(a) ==
  /\ a \in access /\ row[a[1]].active /\ row[a[1]].master # 0
  /\ data' = [data EXCEPT ![a[1]] = @ \cup {a[2]}]
  /\ UNCHANGED <<row, dev, access, req, clock>>

-----------------------------------------------------------------------------
(* Two-factor enrolment.                                                      *)

\* Seeded fault: a new secret is drawn although one is enrolled.
AlwaysNeedsSecret(u) == TRUE

NeedsSecret(u) == row[u].secret = 0

\* The secret the account already has is shown again; a missing one is generated.
EnableAuthenticator(r, a) ==
  /\ Authenticated(r, a, "enroll") /\ NeedsSecret(a[1]) /\ Start(r, a, "enroll", "secret")

WriteSecret(r) ==
  /\ At(r, "secret")
  /\ Write(r, req[r].user, [row[req[r].user] EXCEPT !.secret = clock + 1], "idle")
  /\ clock' = IF Fails(r) THEN clock ELSE clock + 1

\* The code must be one of the secret requireAuth has read.
ConfirmAuthenticator(r, a, code) ==
  /\ Authenticated(r, a, "confirm")
  /\ row[a[1]].secret # 0 /\ code = row[a[1]].secret
  /\ Start(r, a, "confirm", "enable")

EnableTwoFactor(r) == /\ At(r, "enable")
                      /\ Write(r, req[r].user, [row[req[r].user] EXCEPT !.tfa = TRUE], "idle")
                      /\ UNCHANGED clock

\* The master password or a code.
DisableTwoFactor(r, a, number) ==
  /\ Authenticated(r, a, "disable")
  /\ number \in {row[a[1]].master, row[a[1]].secret} \ {0}
  /\ Start(r, a, "disable", "disable")

\* Seeded fault: only the secret is cleared.
SecretCleared(a) == [a EXCEPT !.secret = 0]

TwoFactorCleared(a) == [a EXCEPT !.tfa = FALSE, !.secret = 0]

ClearTwoFactor(r) == /\ At(r, "disable")
                     /\ Write(r, req[r].user, TwoFactorCleared(row[req[r].user]), "idle")
                     /\ UNCHANGED clock

-----------------------------------------------------------------------------
(* The panel.                                                                 *)

\* ProvisionUser reads the account's hash, ...
ProvisionUser(r, u) ==
  /\ Admits(r, "provision")
  /\ req' = [req EXCEPT ![r] = [Idle EXCEPT !.op = "provision", !.user = u,
               !.pc = IF row[u].master # 0 THEN "count" ELSE "provision"]]
  /\ UNCHANGED <<row, dev, access, data, clock>>

\* Seeded fault: one device is not counted.
Several(u) == Cardinality({d \in Device : dev[d].owner = u}) > 1

HasDevices(u) == \E d \in Device : dev[d].owner = u

\* ... keeps the keys if a client has registered a device, ...
CountDevices(r) ==
  /\ At(r, "count")
  /\ IF Fails(r) \/ HasDevices(req[r].user) THEN Finish(r) ELSE Goto(r, "provision")
  /\ UNCHANGED <<row, dev, access, data, clock>>

\* ... or wraps a new user key under the new password, keeping the two-factor columns.
WriteKeys(r) ==
  LET u == req[r].user IN
  /\ At(r, "provision")
  /\ Write(r, u, [row[u] EXCEPT !.master = clock + 1, !.key = clock + 1, !.changed = clock + 1],
           "idle")
  /\ clock' = IF Fails(r) THEN clock ELSE clock + 1

\* An administrator disables or enables the account.
SetStatus(u) == /\ "status" \in Op
                /\ row' = [row EXCEPT ![u].active = ~@]
                /\ UNCHANGED <<dev, access, data, req, clock>>

Disconnect(r) == /\ "disconnect" \in Faults /\ ~At(r, "idle") /\ req[r].live
                 /\ req' = [req EXCEPT ![r].live = FALSE]
                 /\ UNCHANGED <<row, dev, access, data, clock>>

Arrive(r) ==
  \/ \E u \in User : ProvisionUser(r, u)
  \/ \E u \in User, d \in Device, m \in 1..clock : PasswordGrant(r, u, d, m)
  \/ \E d \in Device, t \in 1..clock : RefreshGrant(r, d, t)
  \/ \E a \in access : EnableAuthenticator(r, a)
  \/ \E a \in access, n \in 1..clock : \/ ChangeMasterPassword(r, a, n) \/ SecurityStamp(r, a, n)
                                       \/ ConfirmAuthenticator(r, a, n) \/ DisableTwoFactor(r, a, n)

Advance(r) ==
  \/ UpsertDevice(r) \/ FindDevice(r) \/ RememberDevice(r) \/ ResolveAccount(r) \/ IssueTokens(r)
  \/ \E n \in 1..clock, remember \in BOOLEAN : CheckTwoFactor(r, n, remember)
  \/ WriteMasterPassword(r) \/ RevokeTokens(r) \/ WriteStamp(r) \/ ForgetDevices(r)
  \/ WriteSecret(r) \/ EnableTwoFactor(r) \/ ClearTwoFactor(r)
  \/ CountDevices(r) \/ WriteKeys(r)

Next == \/ \E r \in Request : Arrive(r) \/ Advance(r) \/ Disconnect(r)
        \/ \E a \in access : Expire(a) \/ StoreCipher(a)
        \/ \E u \in User : SetStatus(u)

Spec == Init /\ [][Next]_vars

-----------------------------------------------------------------------------
(* Correctness properties.                                                    *)

\* Every stored cipher can be decrypted with the user key the account has now: the
\* panel never replaces the keys of a vault in use (the comment on ProvisionUser).
VaultReadable == \A u \in User : data[u] \subseteq {row[u].key}

\* A request has changed u's credentials and not yet revoked its refresh tokens.
Revoking(u) == \E r \in Request : req[r].user = u /\ (At(r, "revoke") \/ At(r, "forget"))

\* Every refresh token dies with the security stamp: one whose credentials were verified
\* before the last change of master password or stamp does not survive the change.
TokensDieWithStamp ==
  \A d \in Device : LET u == dev[d].owner IN
    u # None /\ dev[d].token # 0 /\ dev[d].since < row[u].changed => Revoking(u)

\* A refresh token leads back to the account it was issued for (deviceByID's user_id
\* condition keeps two accounts on one device identifier apart).
TokenOfOwner ==
  \A d \in Device : dev[d].token # 0 => dev[d].issuedTo = dev[d].owner

\* Two-factor login is never required without a secret to satisfy it.
SecondFactorUsable == \A u \in User : row[u].tfa => row[u].secret # 0

\* The secret a login must match is the one that was confirmed: while two-factor login
\* stays enabled its secret is not replaced (handleEnableAuthenticator).
EnrolledSecretKept ==
  [][\A u \in User : row[u].tfa /\ row'[u].tfa => row'[u].secret = row[u].secret]_vars
=============================================================================
