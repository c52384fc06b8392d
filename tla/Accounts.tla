------------------------------ MODULE Accounts ------------------------------
(***************************************************************************)
(* Panel accounts of OpenPass: the users and sessions tables and the       *)
(* handlers of internal/admin that read and write them.  No handler opens  *)
(* a transaction, so a request is a little process that sends one SQL      *)
(* statement per step, and the steps of different requests interleave.     *)
(* What a handler remembers between statements is its entry in req.        *)
(*                                                                         *)
(* Secrets (passwords and recovery keys) are numbers drawn from clock:     *)
(* every secret ever issued is different, and a larger one is newer.       *)
(***************************************************************************)
EXTENDS Naturals, FiniteSets

CONSTANTS User,      \* account ids (random, so never reused)
          Request,   \* slots for the HTTP requests being served
          Session,   \* slots for rows of the sessions table
          Admins,    \* administrators present when the server first starts
          Plain,     \* ordinary accounts present when it first starts
          Legacy,    \* of those, the ones imported with a legacy-sha256 hash
          Keyless,   \* of those, the ones imported without a recovery key
          Op,        \* the operations the environment asks for
          Faults,    \* what may go wrong: "disconnect", "provision", "restart", "rekey"
          MaxClock,  \* no new request is admitted once clock reaches this bound
          None       \* no account

PanelOps == {"login", "change", "regenerate", "getkey", "recover",
             "update", "delete", "create", "clireset", "client"}

ASSUME ConstantsAssumption ==
  /\ Admins \subseteq User /\ Plain \subseteq User /\ Admins \cap Plain = {}
  /\ Admins = {} => Plain = {}
  /\ None \notin User
  /\ Op \subseteq PanelOps
  /\ Faults \subseteq {"disconnect", "provision", "restart", "rekey"}
  /\ MaxClock \in Nat

VARIABLES acct,     \* users and bitwarden_accounts rows
          session,  \* sessions rows
          req,      \* the requests being served
          phase,    \* is the server starting or serving?
          clock,    \* the last secret or revocation number issued
          floor,    \* history: when the user's sessions were last revoked
          spent     \* history: accounts and the recovery keys that finished recoveries consumed

vars == <<acct, session, req, phase, clock, floor, spent>>

-----------------------------------------------------------------------------
Account == [role : {"absent", "deleted", "user", "admin"},
            status : {"active", "disabled"},
            pw : Nat,          \* password_hash
            legacy : BOOLEAN,  \* password_hash is in the legacy format
            must : BOOLEAN,    \* must_change_password
            rec : Nat,         \* recovery_key_hash, 0 for NULL
            bw : Nat,          \* the password that opens the Bitwarden vault, 0 for no row
            used : {"never", "now", "before"}] \* rows in bitwarden_devices

Absent == [role |-> "absent", status |-> "active", pw |-> 0, legacy |-> FALSE,
           must |-> FALSE, rec |-> 0, bw |-> 0, used |-> "never"]

SessionRow == [user : User \cup {None}, since : Nat, late : BOOLEAN]
NoRow == [user |-> None, since |-> 0, late |-> FALSE]

Pc == {"idle", "rehash", "session", "check", "setpw", "prov", "rotate", "getkey",
       "drop", "read", "guard", "write", "erase", "insert", "rollback"}

RequestState == [pc : Pc,
                 op : PanelOps \cup {"none", "bootstrap"},
                 by : User \cup {None},       \* CurrentUser, None for the server itself
                 on : User \cup {None},       \* the account operated on
                 role : {"keep", "user", "admin"},
                 status : {"keep", "active", "disabled"},
                 reset : BOOLEAN,
                 pw : Nat, key : Nat,         \* the password and recovery key at hand
                 since : Nat,                 \* when the credentials were verified
                 live : BOOLEAN]              \* the request's context is not cancelled

Idle == [pc |-> "idle", op |-> "none", by |-> None, on |-> None, role |-> "keep",
         status |-> "keep", reset |-> FALSE, pw |-> 0, key |-> 0, since |-> 0,
         live |-> TRUE]

TypeOK == /\ acct \in [User -> Account]
          /\ session \in [Session -> SessionRow]
          /\ req \in [Request -> RequestState]
          /\ phase \in {"starting", "serving"}
          /\ clock \in Nat
          /\ floor \in [User -> Nat]
          /\ spent \subseteq User \X Nat

Exists(u) == u \in User /\ acct[u].role \in {"user", "admin"}
Active(u) == Exists(u) /\ acct[u].status = "active"
ActiveAdmins == {u \in User : Active(u) /\ acct[u].role = "admin"}

\* Accounts restored by cmd/migrate-sqlite carry a legacy hash and no recovery key.
FirstAccount(u) ==
  IF u \in Admins \cup Plain
  THEN [Absent EXCEPT !.role = IF u \in Admins THEN "admin" ELSE "user",
                      !.pw = 1, !.legacy = u \in Legacy,
                      !.rec = IF u \in Keyless THEN 0 ELSE 1,
                      !.bw = IF u \in Legacy THEN 0 ELSE 1]
  ELSE Absent

Init == /\ acct = [u \in User |-> FirstAccount(u)]
        /\ session = [s \in Session |-> NoRow]
        /\ req = [r \in Request |-> Idle]
        /\ phase = "starting"
        /\ clock = 1
        /\ floor = [u \in User |-> 0]
        /\ spent = {}

-----------------------------------------------------------------------------
(* Building blocks of the handlers. *)

At(r, pc) == req[r].pc = pc
Goto(r, pc) == req' = [req EXCEPT ![r].pc = pc]
Finish(r) == req' = [req EXCEPT ![r] = Idle]

\* A statement run with r.Context() fails once the client is gone.
Fails(r) == ~req[r].live

\* UPDATE users ... WHERE id = u changes nothing when the row is gone.
Update(u, row) == acct' = IF Exists(u) THEN [acct EXCEPT ![u] = row] ELSE acct

\* Seeded fault: the DELETE is forgotten.
SessionsKept(u) == session

\* DELETE FROM sessions WHERE user_id = u
SessionsWithout(u) == [s \in Session |-> IF session[s].user = u THEN NoRow ELSE session[s]]

\* VerifyPassword and the comparison of recovery_key_hash.
KnowsPassword(u, p) == p = acct[u].pw
HoldsKey(u, k) == acct[u].rec # 0 /\ k = acct[u].rec

\* A request carrying the cookie of session s enters a handler behind Require.
Serves(r, s, op) == /\ phase = "serving" /\ op \in Op /\ clock < MaxClock
                    /\ At(r, "idle") /\ Active(session[s].user)

Start(r, s, op, pc) ==
  req' = [req EXCEPT ![r] = [Idle EXCEPT !.pc = pc, !.op = op, !.by = session[s].user,
                                         !.on = session[s].user]]

IsAdmin(u) == acct[u].role = "admin"

-----------------------------------------------------------------------------
(* Sessions: POST /login, POST /logout and the Require middleware. *)

\* Login finds the account, checks its status and the password.  A wrong
\* password or an inactive account answers 401 and changes nothing.
LoginVerify(r, u, p) ==
  /\ phase = "serving" /\ "login" \in Op /\ At(r, "idle")
  /\ Active(u) /\ KnowsPassword(u, p)
  /\ req' = [req EXCEPT ![r] = [Idle EXCEPT
                !.pc = IF acct[u].legacy THEN "rehash" ELSE "session",
                !.op = "login", !.on = u, !.pw = p, !.since = clock]]
  /\ UNCHANGED <<acct, session, phase, clock, floor, spent>>

\* The legacy hash is replaced by an argon2id hash of the password just typed;
\* an error is ignored.
LoginRehash(r) ==
  /\ At(r, "rehash")
  /\ IF Fails(r) THEN UNCHANGED acct
     ELSE Update(req[r].on, [acct[req[r].on] EXCEPT !.pw = req[r].pw, !.legacy = FALSE])
  /\ Goto(r, "session")
  /\ UNCHANGED <<session, phase, clock, floor, spent>>

\* createSession does not use the request's context.  The foreign key refuses
\* a session for an account deleted meanwhile.
CreateSession(r, s) ==
  LET u == req[r].on IN
  /\ At(r, "session") /\ session[s] = NoRow
  /\ session' = IF Exists(u)
                THEN [session EXCEPT ![s] = [user |-> u, since |-> req[r].since,
                                             late |-> req[r].since < floor[u]]]
                ELSE session
  /\ spent' = IF req[r].op = "recover" /\ Exists(u) THEN spent \cup {<<u, req[r].key>>} ELSE spent
  /\ Finish(r)
  /\ UNCHANGED <<acct, phase, clock, floor>>

\* Logout deletes the caller's row; Require deletes a row it finds expired (at
\* any time: wall-clock time is not modelled) or owned by a disabled account.
EndSession(s) ==
  /\ phase = "serving" /\ session[s] # NoRow
  /\ session' = [session EXCEPT ![s] = NoRow]
  /\ UNCHANGED <<acct, req, phase, clock, floor, spent>>

-----------------------------------------------------------------------------
(* The account owner's password and recovery key. *)

ChangePassword(r, s) == /\ Serves(r, s, "change") /\ Start(r, s, "change", "check")
                        /\ UNCHANGED <<acct, session, phase, clock, floor, spent>>

RegenerateRecoveryKey(r, s) == /\ Serves(r, s, "regenerate")
                               /\ Start(r, s, "regenerate", "check")
                               /\ UNCHANGED <<acct, session, phase, clock, floor, spent>>

\* Both re-read the account and verify the password the caller typed.
CheckPassword(r, p) ==
  LET u == req[r].on IN
  /\ At(r, "check")
  /\ IF ~Fails(r) /\ Exists(u) /\ KnowsPassword(u, p)
     THEN Goto(r, IF req[r].op = "change" THEN "setpw" ELSE "rotate")
     ELSE Finish(r)
  /\ UNCHANGED <<acct, session, phase, clock, floor, spent>>

RecoverPassword(r, u, k) ==
  /\ phase = "serving" /\ "recover" \in Op /\ clock < MaxClock /\ At(r, "idle")
  /\ Active(u) /\ HoldsKey(u, k)
  /\ req' = [req EXCEPT ![r] = [Idle EXCEPT !.pc = "setpw", !.op = "recover",
                                            !.on = u, !.key = k]]
  /\ UNCHANGED <<acct, session, phase, clock, floor, spent>>

\* A password installed on behalf of the owner revokes the account's sessions;
\* one the owner changes from a session does not.
Revokes(r) == req[r].op \in {"recover", "clireset"}
              \/ (req[r].op = "update" /\ (req[r].reset \/ req[r].status = "disabled"))

\* The UPDATE of setNewPassword and of the operator's ResetPassword.
SetPassword(r) ==
  LET u == req[r].on IN
  /\ At(r, "setpw")
  /\ IF Fails(r)
     THEN Finish(r) /\ UNCHANGED <<acct, clock, floor>>
     ELSE /\ Update(u, [acct[u] EXCEPT !.pw = clock + 1, !.legacy = FALSE, !.must = FALSE])
          /\ clock' = clock + 1
          /\ floor' = IF Revokes(r) THEN [floor EXCEPT ![u] = clock + 1] ELSE floor
          /\ req' = [req EXCEPT ![r].pc = IF req[r].op = "clireset" THEN "drop" ELSE "prov",
                                ![r].pw = clock + 1, ![r].since = clock + 1]
  /\ UNCHANGED <<session, phase, spent>>

\* The password is too short: setNewPassword refuses it before any statement.
RefusePassword(r) == /\ At(r, "setpw") /\ req[r].op # "clireset" /\ Finish(r)
                     /\ UNCHANGED <<acct, session, phase, clock, floor, spent>>

\* generateAndSaveRecoveryKey.  RecoverPassword answers 500 when it fails, and
\* createAccount returns the error without removing the row it inserted.
\* Seeded fault: a recovery goes on to its own session without dropping the others.
AfterRotateKeepingSessions(op) == CASE op = "recover" -> "session"
                                    [] op \in {"create", "bootstrap"} -> "prov"
                                    [] OTHER -> "idle"

AfterRotate(op) == CASE op = "recover" -> "drop"
                     [] op \in {"create", "bootstrap"} -> "prov"
                     [] OTHER -> "idle"

RotateRecoveryKey(r) ==
  LET u == req[r].on
      next == AfterRotate(req[r].op)
  IN /\ At(r, "rotate")
     /\ IF Fails(r)
        THEN Finish(r) /\ UNCHANGED <<acct, clock>>
        ELSE /\ Update(u, [acct[u] EXCEPT !.rec = clock + 1])
             /\ clock' = clock + 1
             /\ IF next = "idle" THEN Finish(r) ELSE Goto(r, next)
     /\ UNCHANGED <<session, phase, floor, spent>>

\* GET /recovery-key shows the key.  A NULL column cannot be scanned into a string,
\* so an account without a key gets an error.  A new key is made only when the row
\* is gone or the ciphertext was written under another OPENPASS_SECRET.
GetRecoveryKey(r, s) == /\ Serves(r, s, "getkey") /\ Start(r, s, "getkey", "getkey")
                        /\ UNCHANGED <<acct, session, phase, clock, floor, spent>>

EnsureRecoveryKey(r) ==
  LET u == req[r].on IN
  /\ At(r, "getkey")
  /\ \/ (Fails(r) \/ Exists(u)) /\ Finish(r)
     \/ /\ ~Fails(r) /\ (Exists(u) => acct[u].rec # 0 /\ "rekey" \in Faults)
        /\ Goto(r, "rotate")
  /\ UNCHANGED <<acct, session, phase, clock, floor, spent>>

\* DELETE FROM sessions after a revocation; an error is ignored.
DropSessions(r) ==
  /\ At(r, "drop")
  /\ session' = IF Fails(r) THEN session ELSE SessionsWithout(req[r].on)
  /\ CASE req[r].op = "recover" -> Goto(r, "session")
       [] req[r].op = "clireset" \/ (req[r].op = "update" /\ req[r].reset) -> Goto(r, "prov")
       [] OTHER -> Finish(r)
  /\ UNCHANGED <<acct, phase, clock, floor, spent>>

-----------------------------------------------------------------------------
(* ProvisionUser, seen from the panel: Bitwarden's master password becomes    *)
(* the panel password unless a Bitwarden client has registered a device.      *)

\* Seeded fault: existing key material is kept even if no client ever used it.
ProvisionUserOnce(row, p) == IF row.bw # 0 THEN row ELSE [row EXCEPT !.bw = p]

ProvisionUser(row, p) == IF row.bw # 0 /\ row.used = "now" THEN row ELSE [row EXCEPT !.bw = p]

\* Seeded fault: a recovery leaves the recovery key as it was.
AfterProvisionNoRotation(op) == IF op = "recover" THEN "drop" ELSE "idle"

AfterProvision(op) == IF op = "recover" THEN "rotate" ELSE "idle"

Provision(r) ==
  LET u == req[r].on
      next == AfterProvision(req[r].op)
  IN /\ At(r, "prov") /\ ~Fails(r) /\ Exists(u)
     /\ acct' = [acct EXCEPT ![u] = ProvisionUser(acct[u], req[r].pw)]
     /\ IF next = "idle" THEN Finish(r) ELSE Goto(r, next)
     /\ UNCHANGED <<session, phase, clock, floor, spent>>

\* A failed provisioning is ignored, except by createAccount, which rolls back.
ProvisionFails(r) ==
  LET next == AfterProvision(req[r].op)
  IN /\ At(r, "prov") /\ (Fails(r) \/ ~Exists(req[r].on) \/ "provision" \in Faults)
     /\ IF req[r].op \in {"create", "bootstrap"} THEN Goto(r, "rollback")
        ELSE IF next = "idle" THEN Finish(r) ELSE Goto(r, next)
     /\ UNCHANGED <<acct, session, phase, clock, floor, spent>>

\* DELETE FROM users cascades to sessions and bitwarden_accounts.
Erase(u) == /\ acct' = IF Exists(u) THEN [acct EXCEPT ![u] = [Absent EXCEPT !.role = "deleted"]]
                       ELSE acct
            /\ session' = SessionsWithout(u)

\* Seeded fault: the account stays when its provisioning fails.
RollBackForgotten(r) == /\ At(r, "rollback") /\ Finish(r)
                        /\ UNCHANGED <<acct, session, phase, clock, floor, spent>>

\* The rollback runs with the request's context, and its error is ignored.
RollBackAccount(r) ==
  /\ At(r, "rollback")
  /\ IF Fails(r) THEN UNCHANGED <<acct, session>> ELSE Erase(req[r].on)
  /\ Finish(r)
  /\ UNCHANGED <<phase, clock, floor, spent>>

-----------------------------------------------------------------------------
(* User management: PATCH, DELETE and POST /users, behind adminOnly.          *)

ServesAdmin(r, s, op) == Serves(r, s, op) /\ IsAdmin(session[s].user)

UpdateUser(r, s, u, role, status, reset) ==
  /\ ServesAdmin(r, s, "update")
  /\ role # "keep" \/ status # "keep" \/ reset
  /\ req' = [req EXCEPT ![r] = [Idle EXCEPT !.pc = "read", !.op = "update",
                                  !.by = session[s].user, !.on = u, !.role = role,
                                  !.status = status, !.reset = reset]]
  /\ UNCHANGED <<acct, session, phase, clock, floor, spent>>

DeleteUser(r, s, u) ==
  /\ ServesAdmin(r, s, "delete")
  /\ u # session[s].user
  /\ req' = [req EXCEPT ![r] = [Idle EXCEPT !.pc = "read", !.op = "delete",
                                            !.by = session[s].user, !.on = u]]
  /\ UNCHANGED <<acct, session, phase, clock, floor, spent>>

\* Seeded faults: one of the two self-lockout checks is missing.
OwnStatusUnchecked(r) ==
  req[r].on = req[r].by => req[r].role \in {"keep", acct[req[r].on].role} /\ ~req[r].reset

OwnRoleUnchecked(r) ==
  req[r].on = req[r].by => req[r].status \in {"keep", acct[req[r].on].status} /\ ~req[r].reset

\* "You cannot change your own role/status": the body must agree with the row
\* getUser just returned, and cannot ask for a reset.
OwnChangeAllowed(r) ==
  LET u == req[r].on IN
  req[r].on = req[r].by => /\ req[r].role \in {"keep", acct[u].role}
                           /\ req[r].status \in {"keep", acct[u].status}
                           /\ ~req[r].reset

\* The handler asks for another administrator before it removes this one.
MayRemoveAdmin(r) == /\ IsAdmin(req[r].on)
                     /\ req[r].op = "delete" \/ req[r].role = "user"

ReadTarget(r) ==
  /\ At(r, "read")
  /\ IF Fails(r) \/ ~Exists(req[r].on) \/ ~OwnChangeAllowed(r) THEN Finish(r)
     ELSE Goto(r, IF MayRemoveAdmin(r) THEN "guard"
                  ELSE IF req[r].op = "delete" THEN "erase" ELSE "write")
  /\ UNCHANGED <<acct, session, phase, clock, floor, spent>>

AnotherAdminExists(u) == ActiveAdmins \ {u} # {}

EnsureAnotherAdmin(r) ==
  /\ At(r, "guard")
  /\ IF ~Fails(r) /\ AnotherAdminExists(req[r].on)
     THEN Goto(r, IF req[r].op = "delete" THEN "erase" ELSE "write")
     ELSE Finish(r)
  /\ UNCHANGED <<acct, session, phase, clock, floor, spent>>

\* Seeded fault: a column the body does not name is overwritten as well.
EditedBlindly(r, row) ==
  [row EXCEPT !.role = req[r].role,
              !.status = IF req[r].status = "keep" THEN row.status ELSE req[r].status,
              !.pw = IF req[r].reset THEN clock + 1 ELSE row.pw,
              !.legacy = row.legacy /\ ~req[r].reset,
              !.must = row.must \/ req[r].reset]

\* The new row: only the columns named in the body change.
Edited(r, row) ==
  [row EXCEPT !.role = IF req[r].role = "keep" THEN row.role ELSE req[r].role,
              !.status = IF req[r].status = "keep" THEN row.status ELSE req[r].status,
              !.pw = IF req[r].reset THEN clock + 1 ELSE row.pw,
              !.legacy = row.legacy /\ ~req[r].reset,
              !.must = row.must \/ req[r].reset]

WriteUser(r) ==
  LET u == req[r].on IN
  /\ At(r, "write")
  /\ IF Fails(r)
     THEN Finish(r) /\ UNCHANGED <<acct, clock, floor>>
     ELSE /\ Update(u, Edited(r, acct[u]))
          /\ IF Revokes(r)
             THEN /\ clock' = clock + 1
                  /\ floor' = [floor EXCEPT ![u] = clock + 1]
                  /\ req' = [req EXCEPT ![r].pc = "drop", ![r].pw = clock + 1]
             ELSE Finish(r) /\ UNCHANGED <<clock, floor>>
  /\ UNCHANGED <<session, phase, spent>>

EraseUser(r) ==
  /\ At(r, "erase")
  /\ IF Fails(r) THEN UNCHANGED <<acct, session>> ELSE Erase(req[r].on)
  /\ Finish(r)
  /\ UNCHANGED <<phase, clock, floor, spent>>

CreateUser(r, s, u, role) ==
  /\ ServesAdmin(r, s, "create") /\ acct[u].role = "absent"
  /\ \A q \in Request : req[q].pc = "insert" => req[q].on # u
  /\ req' = [req EXCEPT ![r] = [Idle EXCEPT !.pc = "insert", !.op = "create",
                                            !.by = session[s].user, !.on = u, !.role = role]]
  /\ UNCHANGED <<acct, session, phase, clock, floor, spent>>

\* The INSERT fails when the e-mail is taken or the inviter was deleted meanwhile.
InsertAccount(r) ==
  LET u == req[r].on
      invited == req[r].op = "create"
  IN /\ At(r, "insert")
     /\ IF Fails(r) \/ (invited /\ ~Exists(req[r].by))
        THEN Finish(r) /\ UNCHANGED <<acct, clock>>
        ELSE /\ acct' = [acct EXCEPT ![u] = [Absent EXCEPT
                                                !.role = req[r].role, !.status = "active",
                                                !.pw = clock + 1, !.must = invited]]
             /\ clock' = clock + 1
             /\ req' = [req EXCEPT ![r].pc = "rotate", ![r].pw = clock + 1]
     /\ UNCHANGED <<session, phase, floor, spent>>

-----------------------------------------------------------------------------
(* Starting, and what may go wrong.                                           *)

\* Bootstrap: an empty users table gets its first administrator.
Bootstrap(r, u) ==
  /\ phase = "starting" /\ \A q \in Request : At(q, "idle")
  /\ ~\E v \in User : Exists(v)
  /\ acct[u].role = "absent"
  /\ req' = [req EXCEPT ![r] = [Idle EXCEPT !.pc = "insert", !.op = "bootstrap",
                                            !.on = u, !.role = "admin"]]
  /\ UNCHANGED <<acct, session, phase, clock, floor, spent>>

\* OPENPASS_ADMIN_PASSWORD_RESET at start-up, for the first administrator
\* (which one is left open: creation times are not modelled).
ResetPassword(r, u) ==
  /\ phase = "starting" /\ \A q \in Request : At(q, "idle")
  /\ "clireset" \in Op /\ clock < MaxClock
  /\ Exists(u) /\ IsAdmin(u)
  /\ req' = [req EXCEPT ![r] = [Idle EXCEPT !.pc = "setpw", !.op = "clireset", !.on = u]]
  /\ UNCHANGED <<acct, session, phase, clock, floor, spent>>

\* Bootstrap has returned and the table is not empty: the server listens.
Serve == /\ phase = "starting" /\ \A q \in Request : At(q, "idle")
         /\ \E u \in User : Exists(u)
         /\ phase' = "serving"
         /\ UNCHANGED <<acct, session, req, clock, floor, spent>>

\* The server dies and is started again; the database stays.
Restart == /\ "restart" \in Faults
           /\ req' = [r \in Request |-> Idle]
           /\ phase' = "starting"
           /\ UNCHANGED <<acct, session, clock, floor, spent>>

\* The client of a request disconnects, which cancels r.Context().
Disconnect(r) == /\ "disconnect" \in Faults /\ phase = "serving" /\ ~At(r, "idle") /\ req[r].live
                 /\ req' = [req EXCEPT ![r].live = FALSE]
                 /\ UNCHANGED <<acct, session, phase, clock, floor, spent>>

\* A Bitwarden client logs the account in (registering its device), or all the
\* account's devices are removed.
UseClient(u) == /\ phase = "serving" /\ "client" \in Op
                /\ Active(u) /\ acct[u].bw # 0
                /\ acct' = [acct EXCEPT ![u].used = "now"]
                /\ UNCHANGED <<session, req, phase, clock, floor, spent>>

ForgetClients(u) == /\ phase = "serving" /\ "client" \in Op
                    /\ Exists(u) /\ acct[u].used = "now"
                    /\ acct' = [acct EXCEPT ![u].used = "before"]
                    /\ UNCHANGED <<session, req, phase, clock, floor, spent>>

Arrive(r) ==
  \/ \E u \in User, p \in 1..clock : LoginVerify(r, u, p) \/ RecoverPassword(r, u, p)
  \/ \E s \in Session : \/ ChangePassword(r, s) \/ RegenerateRecoveryKey(r, s)
                        \/ GetRecoveryKey(r, s)
                        \/ \E u \in User :
                             \/ DeleteUser(r, s, u)
                             \/ \E role \in {"admin", "user"} : CreateUser(r, s, u, role)
                             \/ \E role \in {"keep", "admin", "user"},
                                   status \in {"keep", "active", "disabled"},
                                   reset \in BOOLEAN :
                                  UpdateUser(r, s, u, role, status, reset)
  \/ \E u \in User : Bootstrap(r, u) \/ ResetPassword(r, u)

Advance(r) ==
  \/ LoginRehash(r)
  \/ \E s \in Session : CreateSession(r, s)
  \/ \E p \in 1..clock : CheckPassword(r, p)
  \/ SetPassword(r) \/ RefusePassword(r) \/ RotateRecoveryKey(r) \/ EnsureRecoveryKey(r)
  \/ DropSessions(r) \/ Provision(r) \/ ProvisionFails(r) \/ RollBackAccount(r)
  \/ ReadTarget(r) \/ EnsureAnotherAdmin(r) \/ WriteUser(r) \/ EraseUser(r)
  \/ InsertAccount(r)

\* Everything but the arrival of requests.
Proceed == \/ \E r \in Request : Advance(r) \/ Disconnect(r)
           \/ \E s \in Session : EndSession(s)
           \/ \E u \in User : UseClient(u) \/ ForgetClients(u)
           \/ Serve \/ Restart

Next == (\E r \in Request : Arrive(r)) \/ Proceed

Spec == Init /\ [][Next]_vars

-----------------------------------------------------------------------------
(* Correctness properties. *)

\* The server always has an active administrator once it listens: nobody can
\* remove the last one (UpdateUser, DeleteUser and ensureAnotherAdminExists).
ActiveAdmin == phase = "serving" => ActiveAdmins # {}

AdminRequest(r) == req[r].op \in {"update", "delete", "create"}

\* A user-management request never changes the role or the status of the
\* administrator who sent it (the self-lockout checks of UpdateUser and DeleteUser).
SelfLockoutRejected ==
  [][\A r \in Request : AdminRequest(r) /\ req'[r] # req[r] =>
       LET u == req[r].by IN /\ acct'[u].role = acct[u].role
                             /\ acct'[u].status = acct[u].status]_vars

\* A request has installed u's new credentials and not yet deleted the sessions.
Revoking(u) ==
  \E r \in Request : /\ req[r].on = u /\ Revokes(r)
                     /\ At(r, "drop") \/ (req[r].op = "recover" /\ (At(r, "prov") \/ At(r, "rotate")))

Stale(s) == session[s] # NoRow /\ session[s].since < floor[session[s].user]

\* After a disabling, a reset or a recovery no session authorised before it
\* survives (the DELETE FROM sessions of UpdateUser, RecoverPassword, ResetPassword).
SessionsRevoked == \A s \in Session : Stale(s) => Revoking(session[s].user)

\* With requests interleaving, the only session that survives a revocation is one
\* whose login had verified the old credentials and inserted its row afterwards.
StaleOnlyFromOverlap ==
  \A s \in Session : Stale(s) => session[s].late \/ Revoking(session[s].user)

Busy(u) == \E r \in Request : req[r].on = u

\* Until a Bitwarden client is used, the panel password is the master password
\* (setNewPassword, UpdateUser and ResetPassword all provision what they set).
VaultFollowsPassword ==
  \A u \in User : Exists(u) /\ acct[u].used = "never" /\ ~Busy(u)
                  => acct[u].bw \in {0, acct[u].pw}

\* An account whose creation is over can open its Bitwarden vault and can be
\* recovered (createAccount's provisioning and its rollback).
AccountsComplete ==
  \A u \in User \ (Admins \cup Plain) :
    Exists(u) /\ ~Busy(u) => acct[u].bw # 0 /\ acct[u].rec # 0

\* A recovery key carries at most one recovery to its end (the rotation in RecoverPassword).
KeySpentOnce ==
  [][\A r \in Request : req[r].op = "recover" /\ At(r, "session") /\ req'[r] # req[r]
       => <<req[r].on, req[r].key>> \notin spent]_vars

\* The environment sends one user-management request at a time.
OneAdminRequest == \A q, r \in Request : AdminRequest(q) /\ AdminRequest(r) => q = r

SerialNext == (\E r \in Request : Arrive(r) /\ OneAdminRequest') \/ Proceed

SerialSpec == Init /\ [][SerialNext]_vars

\* The environment sends the requests for an account one after the other.
OneByOne == \A q, r \in Request : q # r /\ req[q].on = req[r].on => req[q].on = None

TurnNext == (\E r \in Request : Arrive(r) /\ OneByOne') \/ Proceed

TurnSpec == Init /\ [][TurnNext]_vars

-----------------------------------------------------------------------------
(* The inductive invariants behind the theorems of AccountsProofs. *)

\* The statements a handler of each operation goes through.
Path(op) ==
  CASE op = "none" -> {"idle"}
    [] op = "login" -> {"rehash", "session"}
    [] op = "change" -> {"check", "setpw", "prov"}
    [] op = "regenerate" -> {"check", "rotate"}
    [] op = "getkey" -> {"getkey", "rotate"}
    [] op = "recover" -> {"setpw", "prov", "rotate", "drop", "session"}
    [] op = "update" -> {"read", "guard", "write", "drop", "prov"}
    [] op = "delete" -> {"read", "guard", "erase"}
    [] op \in {"create", "bootstrap"} -> {"insert", "rotate", "prov", "rollback"}
    [] op = "clireset" -> {"setpw", "drop", "prov"}
    [] OTHER -> {}

\* A request is at a statement of its own handler, and an account to be
\* inserted has a role.
OnPath(q) == /\ q.pc \in Path(q.op)
             /\ q.op = "create" => q.role \in {"admin", "user"}
             /\ q.op = "bootstrap" => q.role = "admin"

HandlersOnPath == \A r \in Request : OnPath(req[r])

\* While the first administrator is created nothing else runs or exists.
BootstrapAlone ==
  \A r \in Request : req[r].op = "bootstrap" =>
    /\ phase = "starting"
    /\ \A q \in Request : q # r => At(q, "idle")
    /\ \A u \in User : Exists(u) => u = req[r].on

\* Whoever manages users is an active administrator other than the one removed.
ManagerStays ==
  \A r \in Request : AdminRequest(r) =>
    /\ phase = "serving"
    /\ req[r].by \in ActiveAdmins
    /\ req[r].op # "update" => req[r].on # req[r].by
    /\ (At(r, "guard") \/ At(r, "write")) /\ req[r].on = req[r].by
         => req[r].role # "user" /\ req[r].status # "disabled"

AdminInv == /\ TypeOK /\ HandlersOnPath
            /\ OneAdminRequest /\ BootstrapAlone /\ ManagerStays
            /\ (\E u \in User : Exists(u)) => ActiveAdmins # {}
            /\ phase = "serving" => \E u \in User : Exists(u)
=============================================================================
