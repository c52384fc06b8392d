--------------------------- MODULE AccountsProofs ---------------------------
(***************************************************************************)
(* Proofs about Accounts, for every set of accounts, requests and sessions, *)
(* every choice of operations and every choice of faults.                  *)
(***************************************************************************)
EXTENDS Accounts, TLAPS

-----------------------------------------------------------------------------
(* Facts about the records that the handlers pass around. *)

\* An idle request is a request state.
LEMMA IdleType == Idle \in RequestState
BY DEF Idle, RequestState, Pc, PanelOps

\* A missing row is an account record.
LEMMA AbsentType == Absent \in Account
BY DEF Absent, Account

\* An empty slot is a session record.
LEMMA NoRowType == NoRow \in SessionRow
BY DEF NoRow, SessionRow

\* Moving a request to another statement, or ending it, keeps req well typed.
LEMMA RequestMoves ==
  ASSUME TypeOK, NEW r \in Request, NEW pc \in Pc
  PROVE  /\ Goto(r, pc) => req' \in [Request -> RequestState]
         /\ Finish(r) => req' \in [Request -> RequestState]
BY IdleType DEF TypeOK, Goto, Finish, RequestState

\* UPDATE users keeps acct well typed.
LEMMA UpdateType ==
  ASSUME TypeOK, NEW u, NEW row, Exists(u) => row \in Account, Update(u, row)
  PROVE  acct' \in [User -> Account]
BY DEF TypeOK, Update, Exists

\* Deleting a user's sessions leaves session rows.
LEMMA SessionsWithoutType ==
  ASSUME TypeOK, NEW u
  PROVE  SessionsWithout(u) \in [Session -> SessionRow]
BY NoRowType DEF TypeOK, SessionsWithout

\* An account that exists is one of the ids, and its row is a row.
LEMMA ExistingRow ==
  ASSUME TypeOK, NEW u, Exists(u)
  PROVE  u \in User /\ acct[u] \in Account
BY DEF TypeOK, Exists

\* Deleting an account keeps the types of the accounts and of the sessions.
LEMMA EraseType ==
  ASSUME TypeOK, NEW u, Erase(u)
  PROVE  acct' \in [User -> Account] /\ session' \in [Session -> SessionRow]
<1>1. [Absent EXCEPT !.role = "deleted"] \in Account
  BY DEF Absent, Account
<1>2. QED BY <1>1, SessionsWithoutType DEF Erase, Exists, TypeOK

-----------------------------------------------------------------------------
(* Type correctness. *)

\* The first state is typed.
LEMMA InitTypeOK == Init => TypeOK
<1>1. ASSUME NEW u \in User PROVE FirstAccount(u) \in Account
  <2>1. (IF u \in Admins THEN "admin" ELSE "user") \in {"user", "admin"}
    OBVIOUS
  <2>2. (u \in Legacy) \in BOOLEAN
    OBVIOUS
  <2>3. (IF u \in Keyless THEN 0 ELSE 1) \in Nat /\ (IF u \in Legacy THEN 0 ELSE 1) \in Nat
    OBVIOUS
  <2>4. ASSUME NEW role \in {"user", "admin"}, NEW legacy \in BOOLEAN, NEW rec \in Nat, NEW bw \in Nat
        PROVE  [Absent EXCEPT !.role = role, !.pw = 1, !.legacy = legacy,
                              !.rec = rec, !.bw = bw] \in Account
    BY DEF Absent, Account
  <2>5. QED BY <2>1, <2>2, <2>3, <2>4, AbsentType DEF FirstAccount
<1>2. QED BY <1>1, IdleType, NoRowType DEF Init, TypeOK

\* The statements of Login and createSession keep the types.
LEMMA LoginTypeOK ==
  ASSUME TypeOK, NEW r \in Request,
         \/ \E u \in User, p \in 1..clock : LoginVerify(r, u, p) \/ RecoverPassword(r, u, p)
         \/ LoginRehash(r)
         \/ \E s \in Session : CreateSession(r, s) \/ EndSession(s)
  PROVE  TypeOK'
<1>1. ASSUME NEW u \in User, NEW p \in 1..clock, LoginVerify(r, u, p) \/ RecoverPassword(r, u, p)
      PROVE  TypeOK'
  <2>1. p \in Nat /\ clock \in Nat
    BY DEF TypeOK
  <2>2. [Idle EXCEPT !.pc = IF acct[u].legacy THEN "rehash" ELSE "session", !.op = "login",
                     !.on = u, !.pw = p, !.since = clock] \in RequestState
    BY <2>1 DEF Idle, RequestState, Pc, PanelOps
  <2>3. [Idle EXCEPT !.pc = "setpw", !.op = "recover", !.on = u, !.key = p] \in RequestState
    BY <2>1 DEF Idle, RequestState, Pc, PanelOps
  <2>4. QED BY <1>1, <2>2, <2>3 DEF TypeOK, LoginVerify, RecoverPassword
<1>2. CASE LoginRehash(r)
  <2>1. req' \in [Request -> RequestState]
    BY <1>2, RequestMoves DEF LoginRehash, Pc
  <2>2. Exists(req[r].on) => [acct[req[r].on] EXCEPT !.pw = req[r].pw, !.legacy = FALSE] \in Account
    <3>1. req[r].pw \in Nat
      BY DEF TypeOK, RequestState
    <3>2. QED BY <3>1, ExistingRow DEF Account
  <2>3. acct' \in [User -> Account]
    BY <1>2, <2>2, UpdateType DEF LoginRehash, TypeOK
  <2>4. QED BY <1>2, <2>1, <2>3 DEF LoginRehash, TypeOK
<1>3. ASSUME NEW s \in Session, CreateSession(r, s)
      PROVE  TypeOK'
  <2>1. req' \in [Request -> RequestState]
    BY <1>3, RequestMoves DEF CreateSession, Pc
  <2>2. Exists(req[r].on) => [user |-> req[r].on, since |-> req[r].since,
                              late |-> req[r].since < floor[req[r].on]] \in SessionRow
    BY DEF TypeOK, RequestState, SessionRow, Exists
  <2>3. session' \in [Session -> SessionRow]
    BY <1>3, <2>2 DEF CreateSession, TypeOK
  <2>4. spent' \subseteq User \X Nat
    BY <1>3 DEF CreateSession, TypeOK, RequestState, Exists
  <2>5. QED BY <1>3, <2>1, <2>3, <2>4 DEF CreateSession, TypeOK
<1>4. ASSUME NEW s \in Session, EndSession(s)
      PROVE  TypeOK'
  BY <1>4, NoRowType DEF TypeOK, EndSession
<1>5. QED BY <1>1, <1>2, <1>3, <1>4

\* Entering a handler behind Require keeps the types.
LEMMA StartTypeOK ==
  ASSUME TypeOK, NEW r \in Request, NEW s \in Session, NEW op \in PanelOps, NEW pc \in Pc,
         Serves(r, s, op), Start(r, s, op, pc)
  PROVE  req' \in [Request -> RequestState]
<1>1. session[s].user \in User
  BY DEF Serves, Active, Exists
<1>2. [Idle EXCEPT !.pc = pc, !.op = op, !.by = session[s].user, !.on = session[s].user]
        \in RequestState
  BY <1>1 DEF Idle, RequestState, Pc, PanelOps
<1>3. QED BY <1>2 DEF Start, TypeOK

\* The statements of the owner's password and recovery key keep the types.
LEMMA OwnerTypeOK ==
  ASSUME TypeOK, NEW r \in Request,
         \/ \E s \in Session : \/ ChangePassword(r, s) \/ RegenerateRecoveryKey(r, s)
                               \/ GetRecoveryKey(r, s)
         \/ \E p \in 1..clock : CheckPassword(r, p)
         \/ SetPassword(r) \/ RefusePassword(r) \/ RotateRecoveryKey(r)
         \/ EnsureRecoveryKey(r) \/ DropSessions(r)
  PROVE  TypeOK'
<1>1. ASSUME NEW s \in Session,
             ChangePassword(r, s) \/ RegenerateRecoveryKey(r, s) \/ GetRecoveryKey(r, s)
      PROVE  TypeOK'
  <2>1. req' \in [Request -> RequestState]
    BY <1>1, StartTypeOK DEF ChangePassword, RegenerateRecoveryKey, GetRecoveryKey, PanelOps, Pc
  <2>2. QED
    BY <1>1, <2>1 DEF ChangePassword, RegenerateRecoveryKey, GetRecoveryKey, TypeOK
<1>2. ASSUME NEW p \in 1..clock, CheckPassword(r, p)
      PROVE  TypeOK'
  <2>1. req' \in [Request -> RequestState]
    BY <1>2, RequestMoves DEF CheckPassword, Pc
  <2>2. QED BY <1>2, <2>1 DEF CheckPassword, TypeOK
<1>3. CASE SetPassword(r)
  <2> DEFINE u == req[r].on
  <2>1. CASE Fails(r)
    BY <1>3, <2>1, RequestMoves DEF SetPassword, TypeOK, Pc
  <2>2. CASE ~Fails(r)
    <3>1. clock \in Nat /\ clock + 1 \in Nat
      BY DEF TypeOK
    <3>2. Exists(u) => [acct[u] EXCEPT !.pw = clock + 1, !.legacy = FALSE, !.must = FALSE] \in Account
      BY <3>1, ExistingRow DEF Account
    <3>3. acct' \in [User -> Account]
      BY <1>3, <2>2, <3>2, UpdateType DEF SetPassword
    <3>4. floor' \in [User -> Nat]
      BY <1>3, <2>2, <3>1 DEF SetPassword, TypeOK
    <3>5. req' \in [Request -> RequestState]
      BY <1>3, <2>2, <3>1 DEF SetPassword, TypeOK, RequestState, Pc
    <3>6. QED BY <1>3, <2>2, <3>1, <3>3, <3>4, <3>5 DEF SetPassword, TypeOK
  <2>3. QED BY <2>1, <2>2
<1>4. CASE RefusePassword(r) \/ EnsureRecoveryKey(r)
  BY <1>4, RequestMoves DEF RefusePassword, EnsureRecoveryKey, TypeOK, Pc
<1>5. CASE RotateRecoveryKey(r)
  <2> DEFINE u == req[r].on
  <2>1. AfterRotate(req[r].op) \in Pc
    BY DEF AfterRotate, Pc
  <2>2. req' \in [Request -> RequestState]
    BY <1>5, <2>1, RequestMoves DEF RotateRecoveryKey
  <2>3. clock \in Nat /\ clock + 1 \in Nat
    BY DEF TypeOK
  <2>4. Exists(u) => [acct[u] EXCEPT !.rec = clock + 1] \in Account
    BY <2>3, ExistingRow DEF Account
  <2>5. acct' \in [User -> Account]
    BY <1>5, <2>4, UpdateType DEF RotateRecoveryKey, TypeOK
  <2>6. QED BY <1>5, <2>2, <2>3, <2>5 DEF RotateRecoveryKey, TypeOK
<1>6. CASE DropSessions(r)
  <2>1. req' \in [Request -> RequestState]
    BY <1>6, RequestMoves DEF DropSessions, Pc
  <2>2. session' \in [Session -> SessionRow]
    BY <1>6, SessionsWithoutType DEF DropSessions, TypeOK
  <2>3. QED BY <1>6, <2>1, <2>2 DEF DropSessions, TypeOK
<1>7. QED BY <1>1, <1>2, <1>3, <1>4, <1>5, <1>6

\* Provisioning and its rollback keep the types.
LEMMA ProvisionTypeOK ==
  ASSUME TypeOK, NEW r \in Request, Provision(r) \/ ProvisionFails(r) \/ RollBackAccount(r)
  PROVE  TypeOK'
<1>1. AfterProvision(req[r].op) \in Pc
  BY DEF AfterProvision, Pc
<1>2. CASE Provision(r)
  <2> DEFINE u == req[r].on
  <2>1. req' \in [Request -> RequestState]
    BY <1>1, <1>2, RequestMoves DEF Provision
  <2>2. req[r].pw \in Nat /\ u \in User /\ acct[u] \in Account
    BY <1>2, ExistingRow DEF Provision, TypeOK, RequestState
  <2>3. ProvisionUser(acct[u], req[r].pw) \in Account
    BY <2>2 DEF ProvisionUser, Account
  <2>4. QED BY <1>2, <2>1, <2>2, <2>3 DEF Provision, TypeOK
<1>3. CASE ProvisionFails(r)
  <2>1. req' \in [Request -> RequestState]
    BY <1>1, <1>3, RequestMoves DEF ProvisionFails, Pc
  <2>2. QED BY <1>3, <2>1 DEF ProvisionFails, TypeOK
<1>4. CASE RollBackAccount(r)
  <2>1. req' \in [Request -> RequestState]
    BY <1>4, RequestMoves DEF RollBackAccount, Pc
  <2>2. acct' \in [User -> Account] /\ session' \in [Session -> SessionRow]
    BY <1>4, EraseType DEF RollBackAccount, TypeOK
  <2>3. QED BY <1>4, <2>1, <2>2 DEF RollBackAccount, TypeOK
<1>5. QED BY <1>2, <1>3, <1>4

\* The statements of UpdateUser and DeleteUser keep the types.
LEMMA ManagementTypeOK ==
  ASSUME TypeOK, NEW r \in Request,
         \/ \E s \in Session, u \in User :
              \/ DeleteUser(r, s, u)
              \/ \E role \in {"admin", "user"} : CreateUser(r, s, u, role)
              \/ \E role \in {"keep", "admin", "user"}, status \in {"keep", "active", "disabled"},
                    reset \in BOOLEAN : UpdateUser(r, s, u, role, status, reset)
         \/ ReadTarget(r) \/ EnsureAnotherAdmin(r) \/ WriteUser(r) \/ EraseUser(r)
  PROVE  TypeOK'
<1>1. ASSUME NEW s \in Session, NEW u \in User, DeleteUser(r, s, u)
      PROVE  TypeOK'
  <2>1. session[s].user \in User
    BY <1>1 DEF DeleteUser, ServesAdmin, Serves, Active, Exists
  <2>2. [Idle EXCEPT !.pc = "read", !.op = "delete", !.by = session[s].user, !.on = u]
          \in RequestState
    BY <2>1 DEF Idle, RequestState, Pc, PanelOps
  <2>3. QED BY <1>1, <2>2 DEF DeleteUser, TypeOK
<1>2. ASSUME NEW s \in Session, NEW u \in User, NEW role \in {"admin", "user"},
             CreateUser(r, s, u, role)
      PROVE  TypeOK'
  <2>1. session[s].user \in User
    BY <1>2 DEF CreateUser, ServesAdmin, Serves, Active, Exists
  <2>2. [Idle EXCEPT !.pc = "insert", !.op = "create", !.by = session[s].user, !.on = u,
                     !.role = role] \in RequestState
    BY <2>1 DEF Idle, RequestState, Pc, PanelOps
  <2>3. QED BY <1>2, <2>2 DEF CreateUser, TypeOK
<1>3. ASSUME NEW s \in Session, NEW u \in User, NEW role \in {"keep", "admin", "user"},
             NEW status \in {"keep", "active", "disabled"}, NEW reset \in BOOLEAN,
             UpdateUser(r, s, u, role, status, reset)
      PROVE  TypeOK'
  <2>1. session[s].user \in User
    BY <1>3 DEF UpdateUser, ServesAdmin, Serves, Active, Exists
  <2>2. [Idle EXCEPT !.pc = "read", !.op = "update", !.by = session[s].user, !.on = u,
                     !.role = role, !.status = status, !.reset = reset] \in RequestState
    BY <2>1 DEF Idle, RequestState, Pc, PanelOps
  <2>3. QED BY <1>3, <2>2 DEF UpdateUser, TypeOK
<1>4. CASE ReadTarget(r) \/ EnsureAnotherAdmin(r)
  <2>1. req' \in [Request -> RequestState]
    BY <1>4, RequestMoves DEF ReadTarget, EnsureAnotherAdmin, Pc
  <2>2. QED BY <1>4, <2>1 DEF ReadTarget, EnsureAnotherAdmin, TypeOK
<1>5. CASE WriteUser(r)
  <2> DEFINE u == req[r].on
  <2>1. clock \in Nat /\ clock + 1 \in Nat
    BY DEF TypeOK
  <2>2. req' \in [Request -> RequestState]
    BY <1>5, <2>1, RequestMoves DEF WriteUser, TypeOK, RequestState, Pc
  <2>3. Exists(u) => Edited(r, acct[u]) \in Account
    <3>1. req[r].role \in {"keep", "user", "admin"} /\ req[r].reset \in BOOLEAN
          /\ req[r].status \in {"keep", "active", "disabled"}
      BY DEF TypeOK, RequestState
    <3>2. ASSUME NEW row \in Account PROVE Edited(r, row) \in Account
      <4>1. (row.legacy /\ ~req[r].reset) \in BOOLEAN /\ (row.must \/ req[r].reset) \in BOOLEAN
        OBVIOUS
      <4>2. QED BY <2>1, <3>1, <4>1 DEF Edited, Account
    <3>3. QED BY <3>2, ExistingRow
  <2>4. acct' \in [User -> Account]
    BY <1>5, <2>3, UpdateType DEF WriteUser, TypeOK
  <2>5. clock' \in Nat /\ floor' \in [User -> Nat]
    BY <1>5, <2>1 DEF WriteUser, TypeOK
  <2>6. QED BY <1>5, <2>2, <2>4, <2>5 DEF WriteUser, TypeOK
<1>6. CASE EraseUser(r)
  <2>1. req' \in [Request -> RequestState]
    BY <1>6, RequestMoves DEF EraseUser, Pc
  <2>2. acct' \in [User -> Account] /\ session' \in [Session -> SessionRow]
    BY <1>6, EraseType DEF EraseUser, TypeOK
  <2>3. QED BY <1>6, <2>1, <2>2 DEF EraseUser, TypeOK
<1>7. QED BY <1>1, <1>2, <1>3, <1>4, <1>5, <1>6

\* The statements of each handler, and the handlers each statement belongs to.
LEMMA PathFacts ==
  /\ Path("none") = {"idle"}
  /\ Path("login") = {"rehash", "session"}
  /\ Path("change") = {"check", "setpw", "prov"}
  /\ Path("regenerate") = {"check", "rotate"}
  /\ Path("getkey") = {"getkey", "rotate"}
  /\ Path("recover") = {"setpw", "prov", "rotate", "drop", "session"}
  /\ Path("update") = {"read", "guard", "write", "drop", "prov"}
  /\ Path("delete") = {"read", "guard", "erase"}
  /\ Path("create") = {"insert", "rotate", "prov", "rollback"}
  /\ Path("bootstrap") = {"insert", "rotate", "prov", "rollback"}
  /\ Path("clireset") = {"setpw", "drop", "prov"}
  /\ Path("client") = {}
BY DEF Path

\* The statement a request is at tells which handlers it may belong to.
LEMMA OpOfPc ==
  ASSUME TypeOK, HandlersOnPath, NEW r \in Request
  PROVE  /\ At(r, "idle") <=> req[r].op = "none"
         /\ At(r, "check") => req[r].op \in {"change", "regenerate"}
         /\ At(r, "setpw") => req[r].op \in {"change", "recover", "clireset"}
         /\ At(r, "rotate") => req[r].op \in {"regenerate", "getkey", "recover", "create",
                                              "bootstrap"}
         /\ At(r, "drop") => req[r].op \in {"recover", "update", "clireset"}
         /\ At(r, "prov") => req[r].op \in {"change", "recover", "update", "clireset",
                                            "create", "bootstrap"}
         /\ At(r, "read") \/ At(r, "guard") => req[r].op \in {"update", "delete"}
         /\ At(r, "write") => req[r].op = "update"
         /\ At(r, "erase") => req[r].op = "delete"
         /\ At(r, "insert") \/ At(r, "rollback") => req[r].op \in {"create", "bootstrap"}
         /\ At(r, "rehash") => req[r].op = "login"
         /\ At(r, "getkey") => req[r].op = "getkey"
         /\ At(r, "session") => req[r].op \in {"login", "recover"}
<1>1. req[r].op \in PanelOps \cup {"none", "bootstrap"} /\ req[r].pc \in Path(req[r].op)
  BY DEF TypeOK, RequestState, HandlersOnPath, OnPath
<1>2. QED BY <1>1, PathFacts DEF PanelOps, At

\* The INSERT of createAccount keeps the types.
LEMMA InsertTypeOK ==
  ASSUME TypeOK, HandlersOnPath, NEW r \in Request, InsertAccount(r)
  PROVE  TypeOK'
<1> DEFINE u == req[r].on
<1>1. clock \in Nat /\ clock + 1 \in Nat
  BY DEF TypeOK
<1>2. req[r].role \in {"admin", "user"}
  BY OpOfPc DEF InsertAccount, HandlersOnPath, OnPath
<1>3. req' \in [Request -> RequestState]
  BY <1>1, RequestMoves DEF InsertAccount, TypeOK, RequestState, Pc
<1>4. [Absent EXCEPT !.role = req[r].role, !.status = "active", !.pw = clock + 1,
                     !.must = (req[r].op = "create")] \in Account
  <2>1. (req[r].op = "create") \in BOOLEAN
    OBVIOUS
  <2>2. ASSUME NEW must \in BOOLEAN
        PROVE  [Absent EXCEPT !.role = req[r].role, !.status = "active", !.pw = clock + 1,
                              !.must = must] \in Account
    BY <1>1, <1>2 DEF Absent, Account
  <2>3. QED BY <2>1, <2>2
<1>5. acct' \in [User -> Account]
  BY <1>4 DEF InsertAccount, TypeOK
<1>6. clock' \in Nat
  BY <1>1 DEF InsertAccount, TypeOK
<1>7. QED BY <1>3, <1>5, <1>6 DEF InsertAccount, TypeOK

\* Bootstrap and ResetPassword keep the types.
LEMMA StartingTypeOK ==
  ASSUME TypeOK, NEW r \in Request, NEW u \in User,
         Bootstrap(r, u) \/ ResetPassword(r, u)
  PROVE  TypeOK'
<1>1. CASE Bootstrap(r, u)
  <2>1. [Idle EXCEPT !.pc = "insert", !.op = "bootstrap", !.on = u, !.role = "admin"]
          \in RequestState
    BY DEF Idle, RequestState, Pc, PanelOps
  <2>2. QED BY <1>1, <2>1 DEF Bootstrap, TypeOK
<1>2. CASE ResetPassword(r, u)
  <2>1. [Idle EXCEPT !.pc = "setpw", !.op = "clireset", !.on = u] \in RequestState
    BY DEF Idle, RequestState, Pc, PanelOps
  <2>2. QED BY <1>2, <2>1 DEF ResetPassword, TypeOK
<1>3. QED BY <1>1, <1>2

\* A cancelled context keeps the types.
LEMMA DisconnectTypeOK ==
  ASSUME TypeOK, NEW r \in Request, Disconnect(r)
  PROVE  TypeOK'
<1>1. [req[r] EXCEPT !.live = FALSE] \in RequestState
  BY DEF TypeOK, RequestState
<1>2. QED BY <1>1 DEF Disconnect, TypeOK

\* Bitwarden clients coming and going keep the types.
LEMMA ClientTypeOK ==
  ASSUME TypeOK, NEW u \in User, UseClient(u) \/ ForgetClients(u)
  PROVE  TypeOK'
<1>1. ASSUME NEW used \in {"now", "before"} PROVE [acct[u] EXCEPT !.used = used] \in Account
  BY DEF TypeOK, Account
<1>2. QED BY <1>1 DEF UseClient, ForgetClients, TypeOK

-----------------------------------------------------------------------------
(* Every request stays on the path of its handler. *)

\* Replacing one request by one on its path leaves every request on its path.
LEMMA PathStep ==
  ASSUME TypeOK, HandlersOnPath, NEW r \in Request, NEW x, OnPath(x),
         req' = [req EXCEPT ![r] = x]
  PROVE  HandlersOnPath'
BY DEF TypeOK, HandlersOnPath

\* Moving on to a statement of the same handler stays on the path.
LEMMA GotoPath ==
  ASSUME TypeOK, HandlersOnPath, NEW r \in Request, NEW pc \in Path(req[r].op), Goto(r, pc)
  PROVE  HandlersOnPath'
<1>1. OnPath([req[r] EXCEPT !.pc = pc])
  BY DEF TypeOK, RequestState, HandlersOnPath, OnPath
<1>2. req' = [req EXCEPT ![r] = [req[r] EXCEPT !.pc = pc]]
  BY DEF Goto
<1>3. QED BY <1>1, <1>2, PathStep

\* A handler that ends stays on the path.
LEMMA FinishPath ==
  ASSUME TypeOK, HandlersOnPath, NEW r \in Request, Finish(r)
  PROVE  HandlersOnPath'
<1>1. OnPath(Idle)
  BY PathFacts DEF OnPath, Idle
<1>2. QED BY <1>1, PathStep DEF Finish

\* A request that arrives is at the first statement of its handler.
LEMMA ArrivePath ==
  ASSUME TypeOK, HandlersOnPath, NEW r \in Request, Arrive(r)
  PROVE  HandlersOnPath'
<1>1. ASSUME NEW u \in User, NEW p \in 1..clock, LoginVerify(r, u, p) \/ RecoverPassword(r, u, p)
      PROVE  HandlersOnPath'
  <2>1. OnPath([Idle EXCEPT !.pc = IF acct[u].legacy THEN "rehash" ELSE "session",
                            !.op = "login", !.on = u, !.pw = p, !.since = clock])
    BY PathFacts DEF OnPath, Idle
  <2>2. OnPath([Idle EXCEPT !.pc = "setpw", !.op = "recover", !.on = u, !.key = p])
    BY PathFacts DEF OnPath, Idle
  <2>3. CASE LoginVerify(r, u, p)
    BY <2>1, <2>3, PathStep DEF LoginVerify
  <2>4. CASE RecoverPassword(r, u, p)
    BY <2>2, <2>4, PathStep DEF RecoverPassword
  <2>5. QED BY <1>1, <2>3, <2>4
<1>2. ASSUME NEW s \in Session, ChangePassword(r, s) \/ RegenerateRecoveryKey(r, s)
                                \/ GetRecoveryKey(r, s)
      PROVE  HandlersOnPath'
  <2>1. ASSUME NEW op \in {"change", "regenerate", "getkey"}, NEW pc \in Path(op),
               Start(r, s, op, pc)
        PROVE  HandlersOnPath'
    <3>1. OnPath([Idle EXCEPT !.pc = pc, !.op = op, !.by = session[s].user,
                              !.on = session[s].user])
      BY DEF OnPath, Idle
    <3>2. QED BY <2>1, <3>1, PathStep DEF Start
  <2>2. CASE ChangePassword(r, s)
    BY <2>1, <2>2, PathFacts DEF ChangePassword
  <2>3. CASE RegenerateRecoveryKey(r, s)
    BY <2>1, <2>3, PathFacts DEF RegenerateRecoveryKey
  <2>4. CASE GetRecoveryKey(r, s)
    BY <2>1, <2>4, PathFacts DEF GetRecoveryKey
  <2>5. QED BY <1>2, <2>2, <2>3, <2>4
<1>3. ASSUME NEW s \in Session, NEW u \in User, DeleteUser(r, s, u)
      PROVE  HandlersOnPath'
  <2>1. OnPath([Idle EXCEPT !.pc = "read", !.op = "delete", !.by = session[s].user, !.on = u])
    BY PathFacts DEF OnPath, Idle
  <2>2. QED BY <1>3, <2>1, PathStep DEF DeleteUser
<1>4. ASSUME NEW s \in Session, NEW u \in User, NEW role \in {"admin", "user"},
             CreateUser(r, s, u, role)
      PROVE  HandlersOnPath'
  <2>1. OnPath([Idle EXCEPT !.pc = "insert", !.op = "create", !.by = session[s].user,
                            !.on = u, !.role = role])
    BY PathFacts DEF OnPath, Idle
  <2>2. QED BY <1>4, <2>1, PathStep DEF CreateUser
<1>5. ASSUME NEW s \in Session, NEW u \in User, NEW role \in {"keep", "admin", "user"},
             NEW status \in {"keep", "active", "disabled"}, NEW reset \in BOOLEAN,
             UpdateUser(r, s, u, role, status, reset)
      PROVE  HandlersOnPath'
  <2>1. OnPath([Idle EXCEPT !.pc = "read", !.op = "update", !.by = session[s].user,
                            !.on = u, !.role = role, !.status = status, !.reset = reset])
    BY PathFacts DEF OnPath, Idle
  <2>2. QED BY <1>5, <2>1, PathStep DEF UpdateUser
<1>6. ASSUME NEW u \in User, Bootstrap(r, u) \/ ResetPassword(r, u)
      PROVE  HandlersOnPath'
  <2>1. OnPath([Idle EXCEPT !.pc = "insert", !.op = "bootstrap", !.on = u, !.role = "admin"])
    BY PathFacts DEF OnPath, Idle
  <2>2. OnPath([Idle EXCEPT !.pc = "setpw", !.op = "clireset", !.on = u])
    BY PathFacts DEF OnPath, Idle
  <2>3. CASE Bootstrap(r, u)
    BY <2>1, <2>3, PathStep DEF Bootstrap
  <2>4. CASE ResetPassword(r, u)
    BY <2>2, <2>4, PathStep DEF ResetPassword
  <2>5. QED BY <1>6, <2>3, <2>4
<1>7. QED BY <1>1, <1>2, <1>3, <1>4, <1>5, <1>6 DEF Arrive

\* A handler may fetch a new secret while it moves on.
LEMMA SecretPath ==
  ASSUME TypeOK, HandlersOnPath, NEW r \in Request, NEW pc \in Path(req[r].op), NEW p, NEW t,
         \/ req' = [req EXCEPT ![r].pc = pc, ![r].pw = p]
         \/ req' = [req EXCEPT ![r].pc = pc, ![r].pw = p, ![r].since = t]
  PROVE  HandlersOnPath'
<1>1. OnPath([req[r] EXCEPT !.pc = pc, !.pw = p])
  BY DEF TypeOK, RequestState, HandlersOnPath, OnPath
<1>2. OnPath([req[r] EXCEPT !.pc = pc, !.pw = p, !.since = t])
  BY DEF TypeOK, RequestState, HandlersOnPath, OnPath
<1>3. CASE req' = [req EXCEPT ![r].pc = pc, ![r].pw = p]
  <2>1. req' = [req EXCEPT ![r] = [req[r] EXCEPT !.pc = pc, !.pw = p]]
    BY <1>3
  <2>2. QED BY <1>1, <2>1, PathStep
<1>4. CASE req' = [req EXCEPT ![r].pc = pc, ![r].pw = p, ![r].since = t]
  <2>1. req' = [req EXCEPT ![r] = [req[r] EXCEPT !.pc = pc, !.pw = p, !.since = t]]
    BY <1>4
  <2>2. QED BY <1>2, <2>1, PathStep
<1>5. QED BY <1>3, <1>4

\* A statement is followed by a statement of the same handler.
LEMMA AdvancePath ==
  ASSUME TypeOK, HandlersOnPath, NEW r \in Request, Advance(r)
  PROVE  HandlersOnPath'
<1> DEFINE op == req[r].op
<1>1. CASE LoginRehash(r)
  <2>1. "session" \in Path(op)
    BY <1>1, OpOfPc, PathFacts DEF LoginRehash
  <2>2. QED BY <1>1, <2>1, GotoPath DEF LoginRehash
<1>2. ASSUME NEW s \in Session, CreateSession(r, s) PROVE HandlersOnPath'
  BY <1>2, FinishPath DEF CreateSession
<1>3. ASSUME NEW p \in 1..clock, CheckPassword(r, p) PROVE HandlersOnPath'
  <2>1. (IF op = "change" THEN "setpw" ELSE "rotate") \in Path(op)
    BY <1>3, OpOfPc, PathFacts DEF CheckPassword
  <2>2. QED BY <1>3, <2>1, GotoPath, FinishPath DEF CheckPassword
<1>4. CASE SetPassword(r)
  <2>1. (IF op = "clireset" THEN "drop" ELSE "prov") \in Path(op)
    BY <1>4, OpOfPc, PathFacts DEF SetPassword
  <2>2. QED BY <1>4, <2>1, SecretPath, FinishPath DEF SetPassword
<1>5. CASE RefusePassword(r) \/ EnsureRecoveryKey(r) \/ EraseUser(r) \/ RollBackAccount(r)
  <2>1. At(r, "getkey") => "rotate" \in Path(op)
    BY OpOfPc, PathFacts
  <2>2. QED BY <1>5, <2>1, FinishPath, GotoPath DEF RefusePassword, EnsureRecoveryKey,
               EraseUser, RollBackAccount
<1>6. CASE RotateRecoveryKey(r)
  <2>1. AfterRotate(op) = "idle" \/ AfterRotate(op) \in Path(op)
    BY <1>6, OpOfPc, PathFacts DEF RotateRecoveryKey, AfterRotate
  <2>2. QED BY <1>6, <2>1, GotoPath, FinishPath DEF RotateRecoveryKey
<1>7. CASE DropSessions(r)
  <2>1. op = "recover" => "session" \in Path(op)
    BY PathFacts
  <2>2. op \in {"clireset", "update"} => "prov" \in Path(op)
    BY PathFacts
  <2>3. op \in {"recover", "clireset", "update"}
    BY <1>7, OpOfPc DEF DropSessions
  <2>4. CASE op = "recover"
    BY <1>7, <2>1, <2>4, GotoPath DEF DropSessions
  <2>5. CASE op = "clireset" \/ (op = "update" /\ req[r].reset)
    BY <1>7, <2>2, <2>3, <2>5, GotoPath DEF DropSessions
  <2>6. CASE op = "update" /\ ~req[r].reset
    BY <1>7, <2>6, FinishPath DEF DropSessions
  <2>7. QED BY <2>3, <2>4, <2>5, <2>6
<1>8. CASE Provision(r) \/ ProvisionFails(r)
  <2>1. AfterProvision(op) = "idle" \/ AfterProvision(op) \in Path(op)
    BY PathFacts DEF AfterProvision
  <2>2. op \in {"create", "bootstrap"} => "rollback" \in Path(op)
    BY PathFacts
  <2>3. QED BY <1>8, <2>1, <2>2, GotoPath, FinishPath DEF Provision, ProvisionFails
<1>9. CASE ReadTarget(r) \/ EnsureAnotherAdmin(r)
  <2>1. op \in {"update", "delete"}
    BY <1>9, OpOfPc DEF ReadTarget, EnsureAnotherAdmin
  <2>2. "guard" \in Path(op) /\ (IF op = "delete" THEN "erase" ELSE "write") \in Path(op)
    BY <2>1, PathFacts
  <2>3. QED BY <1>9, <2>2, GotoPath, FinishPath DEF ReadTarget, EnsureAnotherAdmin
<1>10. CASE WriteUser(r)
  <2>1. "drop" \in Path(op)
    BY <1>10, OpOfPc, PathFacts DEF WriteUser
  <2>2. QED BY <1>10, <2>1, SecretPath, FinishPath DEF WriteUser
<1>11. CASE InsertAccount(r)
  <2>1. "rotate" \in Path(op)
    BY <1>11, OpOfPc, PathFacts DEF InsertAccount
  <2>2. Finish(r) \/ req' = [req EXCEPT ![r].pc = "rotate", ![r].pw = clock + 1]
    BY <1>11 DEF InsertAccount
  <2>3. QED BY <2>1, <2>2, SecretPath, FinishPath
<1>12. QED
  BY <1>1, <1>2, <1>3, <1>4, <1>5, <1>6, <1>7, <1>8, <1>9, <1>10, <1>11 DEF Advance

\* A cancelled context does not move the request.
LEMMA DisconnectPath ==
  ASSUME TypeOK, HandlersOnPath, NEW r \in Request, Disconnect(r)
  PROVE  HandlersOnPath'
<1>1. OnPath([req[r] EXCEPT !.live = FALSE])
  BY DEF TypeOK, RequestState, HandlersOnPath, OnPath
<1>2. req' = [req EXCEPT ![r] = [req[r] EXCEPT !.live = FALSE]]
  BY DEF Disconnect
<1>3. QED BY <1>1, <1>2, PathStep

\* An idle request is on its path.
LEMMA IdlePath == OnPath(Idle)
BY PathFacts DEF OnPath, Idle

\* Every step keeps the types and the paths.
LEMMA NextTypeAndPath ==
  ASSUME TypeOK, HandlersOnPath, [Next]_vars
  PROVE  TypeOK' /\ HandlersOnPath'
<1>1. ASSUME NEW r \in Request, Arrive(r)
      PROVE  TypeOK' /\ HandlersOnPath'
  BY <1>1, ArrivePath, LoginTypeOK, OwnerTypeOK, ManagementTypeOK, StartingTypeOK DEF Arrive
<1>2. ASSUME NEW r \in Request, Advance(r)
      PROVE  TypeOK' /\ HandlersOnPath'
  BY <1>2, AdvancePath, LoginTypeOK, OwnerTypeOK, ProvisionTypeOK, ManagementTypeOK,
     InsertTypeOK DEF Advance
<1>3. ASSUME NEW r \in Request, Disconnect(r)
      PROVE  TypeOK' /\ HandlersOnPath'
  BY <1>3, DisconnectTypeOK, DisconnectPath
<1>4. ASSUME NEW s \in Session, EndSession(s)
      PROVE  TypeOK' /\ HandlersOnPath'
  BY <1>4, NoRowType DEF EndSession, TypeOK, HandlersOnPath
<1>5. ASSUME NEW u \in User, UseClient(u) \/ ForgetClients(u)
      PROVE  TypeOK' /\ HandlersOnPath'
  BY <1>5, ClientTypeOK DEF UseClient, ForgetClients, HandlersOnPath
<1>6. CASE Serve
  BY <1>6 DEF Serve, TypeOK, HandlersOnPath
<1>7. CASE Restart
  BY <1>7, IdleType, IdlePath DEF Restart, TypeOK, HandlersOnPath
<1>8. CASE UNCHANGED vars
  BY <1>8 DEF vars, TypeOK, HandlersOnPath
<1>9. QED BY <1>1, <1>2, <1>3, <1>4, <1>5, <1>6, <1>7, <1>8 DEF Next, Proceed

\* The first state is typed and its requests are idle.
LEMMA InitTypeAndPath == Init => TypeOK /\ HandlersOnPath
BY InitTypeOK, IdlePath DEF Init, HandlersOnPath

\* Whatever the operations, faults and interleavings, every row keeps its type
\* and every request stays on the path of its handler.
THEOREM TypeCorrect == Spec => [](TypeOK /\ HandlersOnPath)
<1>1. TypeOK /\ HandlersOnPath /\ [Next]_vars => (TypeOK /\ HandlersOnPath)'
  BY NextTypeAndPath
<1>2. QED BY InitTypeAndPath, <1>1, PTL DEF Spec

-----------------------------------------------------------------------------
(* The last administrator, when user management is serial. *)

\* No account changes its role or status, appears or disappears.
RolesKept == \A u \in User : acct'[u].role = acct[u].role /\ acct'[u].status = acct[u].status

\* Request r keeps what it was asked to do.
SameBody(r) == /\ req'[r].op = req[r].op /\ req'[r].by = req[r].by /\ req'[r].on = req[r].on
               /\ req'[r].role = req[r].role /\ req'[r].status = req[r].status

\* Only r's entry changes.
OnlyRequest(r) == \A q \in Request : q # r => req'[q] = req[q]

\* The same roles and statuses give the same accounts and administrators.
LEMMA RolesKeptSets ==
  ASSUME RolesKept
  PROVE  ActiveAdmins' = ActiveAdmins /\ \A u \in User : Exists(u)' <=> Exists(u)
BY DEF RolesKept, ActiveAdmins, Active, Exists

\* Finish touches one request and makes it idle.
LEMMA FinishBody ==
  ASSUME TypeOK, NEW r \in Request, Finish(r)
  PROVE  OnlyRequest(r) /\ req'[r] = Idle
BY DEF TypeOK, Finish, OnlyRequest

\* Goto touches one request and keeps what it was asked to do.
LEMMA GotoBody ==
  ASSUME TypeOK, NEW r \in Request, NEW pc, Goto(r, pc)
  PROVE  OnlyRequest(r) /\ SameBody(r) /\ req'[r].pc = pc
<1>1. req[r] \in RequestState
  BY DEF TypeOK
<1>2. req' = [req EXCEPT ![r] = [req[r] EXCEPT !.pc = pc]]
  BY DEF Goto
<1>3. OnlyRequest(r) /\ req'[r] = [req[r] EXCEPT !.pc = pc]
  BY <1>2 DEF TypeOK, OnlyRequest
<1>4. QED BY <1>1, <1>3 DEF RequestState, SameBody

\* A new secret is stored in one request, which keeps what it was asked to do.
LEMMA SecretBody ==
  ASSUME TypeOK, NEW r \in Request, NEW pc, NEW p, NEW t,
         \/ req' = [req EXCEPT ![r].pc = pc, ![r].pw = p]
         \/ req' = [req EXCEPT ![r].pc = pc, ![r].pw = p, ![r].since = t]
  PROVE  OnlyRequest(r) /\ SameBody(r) /\ req'[r].pc = pc
BY DEF TypeOK, RequestState, OnlyRequest, SameBody

\* An UPDATE of other columns keeps the roles and statuses.
LEMMA UpdateRoles ==
  ASSUME TypeOK, NEW u, NEW row, Update(u, row),
         Exists(u) => row.role = acct[u].role /\ row.status = acct[u].status
  PROVE  RolesKept
BY DEF TypeOK, Update, Exists, RolesKept

\* The handlers' statements that leave roles, statuses and accounts alone.
QuietStatement(r) ==
  \/ LoginRehash(r) \/ \E s \in Session : CreateSession(r, s)
  \/ \E p \in 1..clock : CheckPassword(r, p)
  \/ SetPassword(r) \/ RefusePassword(r) \/ RotateRecoveryKey(r) \/ EnsureRecoveryKey(r)
  \/ DropSessions(r) \/ Provision(r) \/ ProvisionFails(r)
  \/ ReadTarget(r) \/ EnsureAnotherAdmin(r)

\* The quiet statements keep the roles and statuses.
LEMMA QuietRoles ==
  ASSUME TypeOK, NEW r \in Request, QuietStatement(r)
  PROVE  RolesKept
<1> DEFINE u == req[r].on
<1>1. Exists(u) => acct[u] \in Account
  BY ExistingRow
<1>2. CASE LoginRehash(r)
  <2>1. Exists(u) =>
          LET row == [acct[u] EXCEPT !.pw = req[r].pw, !.legacy = FALSE]
          IN  row.role = acct[u].role /\ row.status = acct[u].status
    BY <1>1 DEF Account
  <2>2. QED BY <1>2, <2>1, UpdateRoles DEF LoginRehash, RolesKept
<1>3. CASE SetPassword(r)
  <2>1. Exists(u) =>
          LET row == [acct[u] EXCEPT !.pw = clock + 1, !.legacy = FALSE, !.must = FALSE]
          IN  row.role = acct[u].role /\ row.status = acct[u].status
    BY <1>1 DEF Account
  <2>2. QED BY <1>3, <2>1, UpdateRoles DEF SetPassword, RolesKept
<1>4. CASE RotateRecoveryKey(r)
  <2>1. Exists(u) =>
          LET row == [acct[u] EXCEPT !.rec = clock + 1]
          IN  row.role = acct[u].role /\ row.status = acct[u].status
    BY <1>1 DEF Account
  <2>2. QED BY <1>4, <2>1, UpdateRoles DEF RotateRecoveryKey, RolesKept
<1>5. CASE Provision(r)
  <2>1. /\ ProvisionUser(acct[u], req[r].pw).role = acct[u].role
        /\ ProvisionUser(acct[u], req[r].pw).status = acct[u].status
    BY <1>1, <1>5 DEF Provision, ProvisionUser, Account
  <2>2. QED BY <1>5, <2>1 DEF Provision, RolesKept, TypeOK
<1>6. CASE \/ \E s \in Session : CreateSession(r, s)
           \/ \E p \in 1..clock : CheckPassword(r, p)
           \/ RefusePassword(r) \/ EnsureRecoveryKey(r) \/ DropSessions(r)
           \/ ProvisionFails(r) \/ ReadTarget(r) \/ EnsureAnotherAdmin(r)
  BY <1>6 DEF CreateSession, CheckPassword, RefusePassword, EnsureRecoveryKey, DropSessions,
              ProvisionFails, ReadTarget, EnsureAnotherAdmin, RolesKept
<1>7. QED BY <1>2, <1>3, <1>4, <1>5, <1>6 DEF QuietStatement

\* A statement moves its own request on, within the same body, or ends it.
LEMMA AdvanceBody ==
  ASSUME TypeOK, NEW r \in Request, Advance(r)
  PROVE  /\ phase' = phase /\ ~At(r, "idle") /\ OnlyRequest(r)
         /\ req'[r] = Idle \/ SameBody(r)
<1>1. CASE \/ LoginRehash(r) \/ \E s \in Session : CreateSession(r, s)
           \/ \E p \in 1..clock : CheckPassword(r, p)
           \/ RefusePassword(r) \/ RotateRecoveryKey(r) \/ EnsureRecoveryKey(r)
  BY <1>1, GotoBody, FinishBody DEF LoginRehash, CreateSession, CheckPassword, RefusePassword,
                        RotateRecoveryKey, EnsureRecoveryKey, At
<1>2. CASE DropSessions(r)
  BY <1>2, GotoBody, FinishBody DEF DropSessions, At
<1>3. CASE Provision(r) \/ ProvisionFails(r) \/ RollBackAccount(r)
  BY <1>3, GotoBody, FinishBody DEF Provision, ProvisionFails, RollBackAccount, At
<1>4. CASE ReadTarget(r) \/ EnsureAnotherAdmin(r) \/ EraseUser(r)
  BY <1>4, GotoBody, FinishBody DEF ReadTarget, EnsureAnotherAdmin, EraseUser, At
<1>5. CASE SetPassword(r)
  <2> DEFINE pc == IF req[r].op = "clireset" THEN "drop" ELSE "prov"
             p == clock + 1
  <2>1. Finish(r) \/ req' = [req EXCEPT ![r].pc = pc, ![r].pw = p, ![r].since = p]
    BY <1>5 DEF SetPassword
  <2>2. phase' = phase /\ ~At(r, "idle")
    BY <1>5 DEF SetPassword, At
  <2>3. OnlyRequest(r) /\ (req'[r] = Idle \/ SameBody(r))
    <3> HIDE DEF pc, p
    <3>1. CASE req' = [req EXCEPT ![r].pc = pc, ![r].pw = p, ![r].since = p]
      BY <3>1, SecretBody
    <3>2. QED BY <2>1, <3>1, FinishBody
  <2>4. QED BY <2>2, <2>3
<1>6. CASE WriteUser(r)
  BY <1>6, GotoBody, FinishBody, SecretBody DEF WriteUser, At
<1>7. CASE InsertAccount(r)
  <2>1. Finish(r) \/ req' = [req EXCEPT ![r].pc = "rotate", ![r].pw = clock + 1]
    BY <1>7 DEF InsertAccount
  <2>2. QED BY <1>7, <2>1, GotoBody, FinishBody, SecretBody DEF InsertAccount, At
<1>8. QED BY <1>1, <1>2, <1>3, <1>4, <1>5, <1>6, <1>7 DEF Advance

\* What keeps ManagerStays and BootstrapAlone when accounts keep their roles.
LEMMA ManagerKept ==
  ASSUME TypeOK, ManagerStays, NEW r \in Request, RolesKept, phase' = phase, OnlyRequest(r),
         \/ req'[r] = Idle
         \/ /\ SameBody(r)
            /\ (At(r, "guard") \/ At(r, "write"))' /\ req[r].op = "update" /\ req[r].on = req[r].by
                 => req[r].role # "user" /\ req[r].status # "disabled"
  PROVE  ManagerStays'
<1> USE RolesKeptSets DEF ManagerStays, AdminRequest
<1>1. ASSUME NEW q \in Request, AdminRequest(q)', q # r
      PROVE  /\ phase' = "serving" /\ req'[q].by \in ActiveAdmins'
             /\ req'[q].op # "update" => req'[q].on # req'[q].by
             /\ (At(q, "guard") \/ At(q, "write"))' /\ req'[q].on = req'[q].by
                  => req'[q].role # "user" /\ req'[q].status # "disabled"
  BY <1>1 DEF OnlyRequest, At
<1>2. ASSUME AdminRequest(r)'
      PROVE  /\ phase' = "serving" /\ req'[r].by \in ActiveAdmins'
             /\ req'[r].op # "update" => req'[r].on # req'[r].by
             /\ (At(r, "guard") \/ At(r, "write"))' /\ req'[r].on = req'[r].by
                  => req'[r].role # "user" /\ req'[r].status # "disabled"
  <2>1. SameBody(r)
    BY <1>2 DEF Idle
  <2>2. req[r].op # "update" => req[r].on # req[r].by
    BY <1>2, <2>1 DEF SameBody
  <2>3. QED BY <1>2, <2>1, <2>2 DEF SameBody, Idle
<1>3. QED BY <1>1, <1>2

\* BootstrapAlone survives a statement that keeps the roles and statuses.
LEMMA BootstrapKept ==
  ASSUME TypeOK, BootstrapAlone, NEW r \in Request, RolesKept, phase' = phase, OnlyRequest(r),
         ~At(r, "idle"), req'[r] = Idle \/ SameBody(r)
  PROVE  BootstrapAlone'
<1>1. SUFFICES ASSUME NEW q \in Request, req'[q].op = "bootstrap"
               PROVE  /\ phase' = "starting"
                      /\ \A p \in Request : p # q => At(p, "idle")'
                      /\ \A u \in User : Exists(u)' => u = req'[q].on
  BY DEF BootstrapAlone
<1>2. req[q].op = "bootstrap" /\ req'[q].on = req[q].on
  BY <1>1 DEF OnlyRequest, SameBody, Idle
<1>3. q = r
  BY <1>2 DEF BootstrapAlone
<1>4. QED BY <1>2, <1>3, RolesKeptSets DEF BootstrapAlone, OnlyRequest, At

\* The quiet statements keep the invariant.
LEMMA QuietAdmin ==
  ASSUME AdminInv, NEW r \in Request, QuietStatement(r), OneAdminRequest'
  PROVE  AdminInv'
<1>1. RolesKept /\ phase' = phase /\ OnlyRequest(r) /\ ~At(r, "idle")
      /\ (req'[r] = Idle \/ SameBody(r)) /\ TypeOK' /\ HandlersOnPath'
  <2>1. Advance(r)
    BY DEF QuietStatement, Advance
  <2>2. QED BY <2>1, QuietRoles, AdvanceBody, NextTypeAndPath DEF AdminInv, Next, Proceed
<1>2. ManagerStays'
  <2>1. (At(r, "guard") \/ At(r, "write"))' /\ req'[r] # Idle /\ req[r].op = "update"
          /\ req[r].on = req[r].by
          => req[r].role # "user" /\ req[r].status # "disabled"
    <3>1. SUFFICES ASSUME (At(r, "guard") \/ At(r, "write"))', req'[r] # Idle,
                          req[r].op = "update", req[r].on = req[r].by
                   PROVE  req[r].role # "user" /\ req[r].status # "disabled"
      OBVIOUS
    <3>2. CASE ReadTarget(r)
      <4>1. OwnChangeAllowed(r)
        BY <3>1, <3>2, FinishBody DEF ReadTarget, AdminInv
      <4>2. acct[req[r].by].role = "admin" /\ acct[req[r].by].status = "active"
        BY <3>1 DEF AdminInv, ManagerStays, AdminRequest, ActiveAdmins, Active
      <4>3. QED BY <3>1, <4>1, <4>2 DEF OwnChangeAllowed
    <3>3. CASE EnsureAnotherAdmin(r)
      BY <3>1, <3>3 DEF EnsureAnotherAdmin, AdminInv, ManagerStays, AdminRequest
    <3>4. CASE ~ReadTarget(r) /\ ~EnsureAnotherAdmin(r)
      <4>1. At(r, "drop") \/ At(r, "prov")
        <5>1. req[r].pc \in {"read", "guard", "write", "drop", "prov"}
          BY <3>1, PathFacts DEF AdminInv, HandlersOnPath, OnPath
        <5>2. req[r].pc \in {"rehash", "session", "check", "setpw", "rotate", "getkey",
                             "drop", "prov"}
          BY <3>4 DEF QuietStatement, LoginRehash, CreateSession, CheckPassword, SetPassword,
             RefusePassword, RotateRecoveryKey, EnsureRecoveryKey, DropSessions, Provision,
             ProvisionFails, At
        <5>3. QED BY <5>1, <5>2 DEF At
      <4>2. QED
        <5>1. CASE At(r, "drop")
          <6>1. DropSessions(r)
            BY <3>4, <5>1 DEF QuietStatement, LoginRehash, CreateSession, CheckPassword,
               SetPassword, RefusePassword, RotateRecoveryKey, EnsureRecoveryKey, Provision,
               ProvisionFails, At
          <6>2. Finish(r) \/ Goto(r, "prov")
            BY <3>1, <6>1 DEF DropSessions
          <6>3. QED BY <3>1, <6>2, GotoBody, FinishBody DEF AdminInv, At
        <5>2. CASE At(r, "prov")
          <6>1. Provision(r) \/ ProvisionFails(r)
            BY <3>4, <5>2 DEF QuietStatement, LoginRehash, CreateSession, CheckPassword,
               SetPassword, RefusePassword, RotateRecoveryKey, EnsureRecoveryKey,
               DropSessions, At
          <6>2. Finish(r)
            BY <3>1, <6>1 DEF Provision, ProvisionFails, AfterProvision
          <6>3. QED BY <3>1, <6>2, FinishBody DEF AdminInv
        <5>3. QED BY <4>1, <5>1, <5>2
    <3>5. QED BY <3>2, <3>3, <3>4
  <2>2. QED BY <1>1, <2>1, ManagerKept DEF AdminInv
<1>3. BootstrapAlone'
  BY <1>1, BootstrapKept DEF AdminInv
<1>4. QED BY <1>1, <1>2, <1>3, RolesKeptSets DEF AdminInv

\* The statements that edit or remove an account leave the manager an active
\* administrator, so one always remains.
LEMMA LoudAdmin ==
  ASSUME AdminInv, NEW r \in Request, OneAdminRequest',
         WriteUser(r) \/ EraseUser(r) \/ RollBackAccount(r) \/ InsertAccount(r)
  PROVE  AdminInv'
<1> DEFINE u == req[r].on
           b == req[r].by
<1>1. TypeOK' /\ HandlersOnPath' /\ phase' = phase /\ OnlyRequest(r) /\ ~At(r, "idle")
      /\ (req'[r] = Idle \/ SameBody(r))
  <2>1. Advance(r)
    BY DEF Advance
  <2>2. QED BY <2>1, AdvanceBody, NextTypeAndPath DEF AdminInv, Next, Proceed
<1>2. ASSUME AdminRequest(r), b \in ActiveAdmins', u # b \/ WriteUser(r)
      PROVE  AdminInv'
  <2>1. phase = "serving"
    BY <1>2 DEF AdminInv, ManagerStays
  <2>2. BootstrapAlone'
    <3>1. \A q \in Request : req[q].op # "bootstrap"
      BY <2>1 DEF AdminInv, BootstrapAlone
    <3>2. QED BY <1>1, <3>1 DEF BootstrapAlone, OnlyRequest, SameBody, Idle
  <2>3. ManagerStays'
    <3>1. SUFFICES ASSUME NEW q \in Request, AdminRequest(q)'
                   PROVE  /\ phase' = "serving" /\ req'[q].by \in ActiveAdmins'
                          /\ req'[q].op # "update" => req'[q].on # req'[q].by
                          /\ (At(q, "guard") \/ At(q, "write"))' /\ req'[q].on = req'[q].by
                               => req'[q].role # "user" /\ req'[q].status # "disabled"
      BY DEF ManagerStays
    <3>2. q = r
      BY <1>1, <1>2, <3>1 DEF AdminInv, OneAdminRequest, AdminRequest, OnlyRequest
    <3>3. SameBody(r)
      BY <1>1, <3>1, <3>2 DEF AdminRequest, Idle
    <3>4. req[r].op # "update" => u # b
      BY <1>2 DEF AdminInv, ManagerStays
    <3>5. ~(At(r, "guard") \/ At(r, "write"))'
      <4>1. CASE WriteUser(r)
        <5>1. Finish(r) \/ req' = [req EXCEPT ![r].pc = "drop", ![r].pw = clock + 1]
          BY <4>1 DEF WriteUser
        <5>2. TypeOK /\ req'[r] # Idle
          BY <3>1, <3>2 DEF AdminInv, AdminRequest, Idle
        <5>3. ~Finish(r)
          BY <5>2, FinishBody
        <5>4. req'[r].pc = "drop"
          BY <5>1, <5>2, <5>3, SecretBody
        <5>5. QED BY <5>4 DEF At
      <4>2. CASE EraseUser(r) \/ RollBackAccount(r)
        BY <4>2, FinishBody DEF EraseUser, RollBackAccount, AdminInv, At, Idle
      <4>3. CASE InsertAccount(r)
        <5>1. Finish(r) \/ req' = [req EXCEPT ![r].pc = "rotate", ![r].pw = clock + 1]
          BY <4>3 DEF InsertAccount
        <5>2. TypeOK /\ req'[r] # Idle
          BY <3>1, <3>2 DEF AdminInv, AdminRequest, Idle
        <5>3. ~Finish(r)
          BY <5>2, FinishBody
        <5>4. req'[r].pc = "rotate"
          BY <5>1, <5>2, <5>3, SecretBody
        <5>5. QED BY <5>4 DEF At
      <4>4. QED BY <4>1, <4>2, <4>3
    <3>6. QED BY <1>1, <1>2, <2>1, <3>2, <3>3, <3>4, <3>5 DEF SameBody
  <2>4. ActiveAdmins' # {} /\ \E v \in User : Exists(v)'
    BY <1>2 DEF ActiveAdmins, Active
  <2>5. QED BY <1>1, <1>2, <2>2, <2>3, <2>4 DEF AdminInv
<1>3. CASE WriteUser(r)
  <2>1. req[r].op = "update" /\ AdminRequest(r)
    BY <1>3, OpOfPc DEF WriteUser, AdminInv, AdminRequest
  <2>2. b \in ActiveAdmins /\ (u = b => req[r].role # "user" /\ req[r].status # "disabled")
    BY <1>3, <2>1 DEF AdminInv, ManagerStays, WriteUser
  <2>3. b \in ActiveAdmins'
    <3>1. b \in User /\ acct[b] \in Account /\ acct[b].role = "admin" /\ acct[b].status = "active"
      BY <2>2 DEF ActiveAdmins, Active, AdminInv, TypeOK
    <3>2. CASE acct' = acct
      BY <2>2, <3>2 DEF ActiveAdmins, Active, Exists
    <3>3. CASE acct' = [acct EXCEPT ![u] = Edited(r, acct[u])]
      <4>1. CASE u # b
        BY <3>1, <3>3, <4>1 DEF ActiveAdmins, Active, Exists, AdminInv, TypeOK
      <4>2. CASE u = b
        <5>1. req[r].role \in {"keep", "admin"} /\ req[r].status \in {"keep", "active"}
          BY <2>2, <4>2 DEF AdminInv, TypeOK, RequestState
        <5>2. Edited(r, acct[b]).role = "admin" /\ Edited(r, acct[b]).status = "active"
          BY <3>1, <5>1 DEF Edited, Account
        <5>3. acct'[b] = Edited(r, acct[b])
          BY <3>1, <3>3, <4>2 DEF AdminInv, TypeOK
        <5>4. QED BY <3>1, <5>2, <5>3 DEF ActiveAdmins, Active, Exists
      <4>3. QED BY <4>1, <4>2
    <3>4. QED BY <1>3, <3>2, <3>3 DEF WriteUser, Update
  <2>4. QED BY <1>2, <1>3, <2>1, <2>3
<1>4. ASSUME AdminRequest(r), req[r].op # "update",
             \A v \in User : v # u => acct'[v] = acct[v]
      PROVE  AdminInv'
  <2>1. b \in ActiveAdmins /\ u # b
    BY <1>4 DEF AdminInv, ManagerStays
  <2>2. b \in ActiveAdmins'
    BY <1>4, <2>1 DEF ActiveAdmins, Active, Exists
  <2>3. QED BY <1>2, <1>4, <2>1, <2>2
<1>6. CASE EraseUser(r)
  <2>1. req[r].op = "delete"
    BY <1>6, OpOfPc DEF EraseUser, AdminInv
  <2>2. \A v \in User : v # u => acct'[v] = acct[v]
    BY <1>6 DEF EraseUser, Erase, AdminInv, TypeOK
  <2>3. QED BY <1>4, <2>1, <2>2 DEF AdminRequest
<1>7. CASE RollBackAccount(r) \/ InsertAccount(r)
  <2>1. req[r].op \in {"create", "bootstrap"}
    BY <1>7, OpOfPc DEF RollBackAccount, InsertAccount, AdminInv
  <2>2. \A v \in User : v # u => acct'[v] = acct[v]
    BY <1>7 DEF RollBackAccount, InsertAccount, Erase, AdminInv, TypeOK
  <2>3. CASE req[r].op = "create"
    BY <1>4, <2>2, <2>3 DEF AdminRequest
  <2>4. CASE req[r].op = "bootstrap"
    <3>1. /\ phase = "starting"
          /\ \A q \in Request : q # r => At(q, "idle")
          /\ \A v \in User : Exists(v) => v = u
      BY <2>4 DEF AdminInv, BootstrapAlone
    <3>2. \A v \in User : Exists(v)' => v = u
      BY <2>2, <3>1 DEF Exists
    <3>3. BootstrapAlone'
      <4>1. \A q \in Request : q # r => req'[q] = req[q] /\ req'[q].op = "none"
        BY <1>1, <3>1, OpOfPc DEF OnlyRequest, AdminInv
      <4>2. req'[r].op = "bootstrap" => SameBody(r)
        BY <1>1 DEF Idle
      <4>3. QED BY <1>1, <3>1, <3>2, <4>1, <4>2 DEF BootstrapAlone, OnlyRequest, SameBody, At
    <3>4. ManagerStays'
      <4>1. \A q \in Request : ~AdminRequest(q)'
        <5>1. \A q \in Request : q # r => req'[q].op = "none"
          BY <1>1, <3>1, OpOfPc DEF OnlyRequest, AdminInv
        <5>2. req'[r].op \in {"none", "bootstrap"}
          BY <1>1, <2>4 DEF Idle, SameBody
        <5>3. QED BY <5>1, <5>2 DEF AdminRequest
      <4>2. QED BY <4>1 DEF ManagerStays
    <3>5. (\E v \in User : Exists(v)') => ActiveAdmins' # {}
      <4>1. SUFFICES ASSUME NEW v \in User, Exists(v)' PROVE v \in ActiveAdmins'
        OBVIOUS
      <4>2. v = u
        BY <3>2, <4>1
      <4>3. CASE acct' = acct
        <5>1. ActiveAdmins # {} /\ ActiveAdmins' = ActiveAdmins
          BY <4>1, <4>3 DEF AdminInv, ActiveAdmins, Active, Exists
        <5>2. \A w \in ActiveAdmins : w = u
          BY <3>1 DEF ActiveAdmins, Active
        <5>3. QED BY <4>2, <5>1, <5>2
      <4>4. CASE RollBackAccount(r) /\ acct' # acct
        <5>1. acct'[u] = [Absent EXCEPT !.role = "deleted"]
          BY <4>2, <4>4 DEF RollBackAccount, Erase, AdminInv, TypeOK
        <5>2. QED BY <4>1, <4>2, <5>1 DEF Exists, Absent
      <4>5. CASE InsertAccount(r) /\ acct' # acct
        <5>1. req[r].role = "admin"
          BY <2>4 DEF AdminInv, HandlersOnPath, OnPath
        <5>2. acct'[u].role = "admin" /\ acct'[u].status = "active"
          <6> DEFINE row == [Absent EXCEPT !.role = req[r].role, !.status = "active",
                                           !.pw = clock + 1, !.must = req[r].op = "create"]
          <6>1. acct' = [acct EXCEPT ![u] = row]
            BY <4>5 DEF InsertAccount
          <6>2. row.role = "admin" /\ row.status = "active"
            BY <5>1 DEF Absent
          <6> HIDE DEF row
          <6>3. QED BY <4>2, <6>1, <6>2 DEF AdminInv, TypeOK
        <5>3. QED BY <4>2, <5>2 DEF ActiveAdmins, Active, Exists
      <4>6. QED BY <1>7, <4>3, <4>4, <4>5
    <3>6. QED BY <1>1, <3>1, <3>3, <3>4, <3>5 DEF AdminInv
  <2>5. QED BY <2>1, <2>3, <2>4
<1>8. QED BY <1>3, <1>6, <1>7

\* What a new request must bring for the invariant to survive its arrival.
LEMMA Arrival ==
  ASSUME AdminInv, NEW r \in Request, NEW b, req' = [req EXCEPT ![r] = b],
         acct' = acct, phase' = phase, TypeOK', HandlersOnPath', OneAdminRequest',
         b.op \in {"update", "delete", "create"}
           => /\ phase = "serving" /\ b.by \in ActiveAdmins /\ b.pc \notin {"guard", "write"}
              /\ b.op # "update" => b.on # b.by,
         phase = "serving" \/ \A q \in Request : At(q, "idle"),
         b.op = "bootstrap" => phase = "starting" /\ \A v \in User : ~Exists(v)
  PROVE  AdminInv'
<1>1. req'[r] = b /\ OnlyRequest(r)
  BY DEF AdminInv, TypeOK, OnlyRequest
<1>2. ActiveAdmins' = ActiveAdmins /\ \A v \in User : Exists(v)' <=> Exists(v)
  BY DEF ActiveAdmins, Active, Exists
<1>3. ManagerStays'
  BY <1>1, <1>2 DEF AdminInv, ManagerStays, AdminRequest, OnlyRequest, At
<1>4. BootstrapAlone'
  <2>1. SUFFICES ASSUME NEW q \in Request, req'[q].op = "bootstrap"
                 PROVE  /\ phase' = "starting"
                        /\ \A p \in Request : p # q => At(p, "idle")'
                        /\ \A v \in User : Exists(v)' => v = req'[q].on
    BY DEF BootstrapAlone
  <2>2. phase = "starting"
    BY <1>1, <2>1 DEF OnlyRequest, AdminInv, BootstrapAlone
  <2>3. \A p \in Request : At(p, "idle")
    BY <2>2
  <2>4. \A p \in Request : req[p].op = "none"
    BY <2>3, OpOfPc DEF AdminInv
  <2>5. q = r
    BY <1>1, <2>1, <2>4 DEF OnlyRequest
  <2>6. QED BY <1>1, <1>2, <2>1, <2>2, <2>3, <2>5 DEF OnlyRequest, At
<1>5. QED BY <1>2, <1>3, <1>4 DEF AdminInv

\* A request that arrives keeps the invariant.
LEMMA ArriveAdmin ==
  ASSUME AdminInv, NEW r \in Request, Arrive(r), OneAdminRequest'
  PROVE  AdminInv'
<1>1. TypeOK' /\ HandlersOnPath'
  BY NextTypeAndPath DEF AdminInv, Next, Proceed
<1>2. ASSUME NEW u \in User, NEW p \in 1..clock, LoginVerify(r, u, p) \/ RecoverPassword(r, u, p)
      PROVE  AdminInv'
  <2> DEFINE a == [Idle EXCEPT !.pc = IF acct[u].legacy THEN "rehash" ELSE "session",
                               !.op = "login", !.on = u, !.pw = p, !.since = clock]
             b == [Idle EXCEPT !.pc = "setpw", !.op = "recover", !.on = u, !.key = p]
  <2>1. a.op = "login" /\ b.op = "recover"
    BY DEF Idle
  <2>2. /\ phase = "serving" /\ acct' = acct /\ phase' = phase
        /\ req' = [req EXCEPT ![r] = a] \/ req' = [req EXCEPT ![r] = b]
    BY <1>2 DEF LoginVerify, RecoverPassword
  <2> HIDE DEF a, b
  <2>3. QED BY <1>1, <2>1, <2>2, Arrival
<1>3. ASSUME NEW s \in Session, ChangePassword(r, s) \/ RegenerateRecoveryKey(r, s)
                                \/ GetRecoveryKey(r, s)
      PROVE  AdminInv'
  <2>1. ASSUME NEW op \in {"change", "regenerate", "getkey"}, NEW pc, Start(r, s, op, pc),
               phase = "serving", acct' = acct, phase' = phase
        PROVE  AdminInv'
    <3> DEFINE b == [Idle EXCEPT !.pc = pc, !.op = op, !.by = session[s].user,
                                 !.on = session[s].user]
    <3>1. b.op = op
      BY DEF Idle
    <3>2. req' = [req EXCEPT ![r] = b]
      BY <2>1 DEF Start
    <3> HIDE DEF b
    <3>3. QED BY <1>1, <2>1, <3>1, <3>2, Arrival
  <2>2. QED BY <1>3, <2>1 DEF ChangePassword, RegenerateRecoveryKey, GetRecoveryKey, Serves
<1>4. ASSUME NEW s \in Session, NEW b, req' = [req EXCEPT ![r] = b],
             b.op \in {"update", "delete", "create"}, b.by = session[s].user,
             b.pc \notin {"guard", "write"}, b.op # "update" => b.on # b.by,
             ServesAdmin(r, s, b.op), acct' = acct, phase' = phase
      PROVE  AdminInv'
  <2>1. phase = "serving" /\ b.by \in ActiveAdmins
    BY <1>4 DEF ServesAdmin, Serves, IsAdmin, ActiveAdmins, Active, Exists
  <2>2. QED BY <1>1, <1>4, <2>1, Arrival
<1>5. ASSUME NEW s \in Session, NEW u \in User, DeleteUser(r, s, u)
      PROVE  AdminInv'
  <2> DEFINE b == [Idle EXCEPT !.pc = "read", !.op = "delete", !.by = session[s].user, !.on = u]
  <2>1. b.op = "delete" /\ b.by = session[s].user /\ b.on = u /\ b.pc = "read"
    BY DEF Idle
  <2>2. req' = [req EXCEPT ![r] = b]
    BY <1>5 DEF DeleteUser
  <2> HIDE DEF b
  <2>3. QED BY <1>4, <1>5, <2>1, <2>2 DEF DeleteUser
<1>6. ASSUME NEW s \in Session, NEW u \in User, NEW role \in {"admin", "user"},
             CreateUser(r, s, u, role)
      PROVE  AdminInv'
  <2> DEFINE b == [Idle EXCEPT !.pc = "insert", !.op = "create", !.by = session[s].user,
                               !.on = u, !.role = role]
  <2>1. b.op = "create" /\ b.by = session[s].user /\ b.on = u /\ b.pc = "insert"
    BY DEF Idle
  <2>2. req' = [req EXCEPT ![r] = b]
    BY <1>6 DEF CreateUser
  <2>3. u # session[s].user
    BY <1>6 DEF CreateUser, ServesAdmin, Serves, Active, Exists
  <2> HIDE DEF b
  <2>4. QED BY <1>4, <1>6, <2>1, <2>2, <2>3 DEF CreateUser
<1>7. ASSUME NEW s \in Session, NEW u \in User, NEW role \in {"keep", "admin", "user"},
             NEW status \in {"keep", "active", "disabled"}, NEW reset \in BOOLEAN,
             UpdateUser(r, s, u, role, status, reset)
      PROVE  AdminInv'
  <2> DEFINE b == [Idle EXCEPT !.pc = "read", !.op = "update", !.by = session[s].user, !.on = u,
                               !.role = role, !.status = status, !.reset = reset]
  <2>1. b.op = "update" /\ b.by = session[s].user /\ b.pc = "read"
    BY DEF Idle
  <2>2. req' = [req EXCEPT ![r] = b]
    BY <1>7 DEF UpdateUser
  <2> HIDE DEF b
  <2>3. QED BY <1>4, <1>7, <2>1, <2>2 DEF UpdateUser
<1>8. ASSUME NEW u \in User, Bootstrap(r, u) \/ ResetPassword(r, u)
      PROVE  AdminInv'
  <2> DEFINE a == [Idle EXCEPT !.pc = "insert", !.op = "bootstrap", !.on = u, !.role = "admin"]
             b == [Idle EXCEPT !.pc = "setpw", !.op = "clireset", !.on = u]
  <2>1. a.op = "bootstrap" /\ b.op = "clireset"
    BY DEF Idle
  <2>2. /\ phase = "starting" /\ acct' = acct /\ phase' = phase
        /\ \A q \in Request : At(q, "idle")
        /\ \/ req' = [req EXCEPT ![r] = a] /\ \A v \in User : ~Exists(v)
           \/ req' = [req EXCEPT ![r] = b]
    BY <1>8 DEF Bootstrap, ResetPassword
  <2> HIDE DEF a, b
  <2>3. QED BY <1>1, <2>1, <2>2, Arrival
<1>9. QED BY <1>2, <1>3, <1>5, <1>6, <1>7, <1>8 DEF Arrive

\* Sessions, devices, disconnections and restarts do not touch the users table.
LEMMA SurroundingsAdmin ==
  ASSUME AdminInv, OneAdminRequest',
         \/ \E r \in Request : Disconnect(r)
         \/ \E s \in Session : EndSession(s)
         \/ \E u \in User : UseClient(u) \/ ForgetClients(u)
         \/ Serve \/ Restart \/ UNCHANGED vars
  PROVE  AdminInv'
<1>1. TypeOK' /\ HandlersOnPath'
  BY NextTypeAndPath DEF AdminInv, Next, Proceed
<1>2. RolesKept
  BY DEF Disconnect, EndSession, UseClient, ForgetClients, Serve, Restart, vars, RolesKept,
         AdminInv, TypeOK, Account
<1>3. CASE Restart
  <2>1. \A r \in Request : req'[r].op = "none"
    BY <1>3 DEF Restart, Idle
  <2>2. BootstrapAlone' /\ ManagerStays'
    BY <2>1 DEF BootstrapAlone, ManagerStays, AdminRequest
  <2>3. QED BY <1>1, <1>2, <1>3, <2>2, RolesKeptSets DEF AdminInv, Restart
<1>4. CASE Serve
  <2>1. \A r \in Request : req'[r].op = "none"
    BY <1>4, OpOfPc DEF Serve, AdminInv
  <2>2. BootstrapAlone' /\ ManagerStays'
    BY <2>1 DEF BootstrapAlone, ManagerStays, AdminRequest
  <2>3. QED BY <1>1, <1>2, <1>4, <2>2, RolesKeptSets DEF AdminInv, Serve
<1>5. ASSUME NEW r \in Request, Disconnect(r) PROVE AdminInv'
  <2>1. OnlyRequest(r) /\ SameBody(r) /\ req'[r].pc = req[r].pc /\ phase' = phase
    BY <1>5 DEF Disconnect, OnlyRequest, SameBody, AdminInv, TypeOK, RequestState
  <2>2. ManagerStays'
    BY <1>2, <2>1, ManagerKept DEF AdminInv, ManagerStays, AdminRequest, At
  <2>3. BootstrapAlone'
    BY <1>2, <1>5, <2>1, BootstrapKept DEF AdminInv, Disconnect
  <2>4. QED BY <1>1, <1>2, <2>1, <2>2, <2>3, RolesKeptSets DEF AdminInv
<1>6. CASE req' = req /\ phase' = phase
  <2>1. BootstrapAlone' /\ ManagerStays'
    BY <1>2, <1>6, RolesKeptSets DEF AdminInv, BootstrapAlone, ManagerStays, AdminRequest, At
  <2>2. QED BY <1>1, <1>2, <1>6, <2>1, RolesKeptSets DEF AdminInv
<1>7. QED BY <1>3, <1>4, <1>5, <1>6 DEF EndSession, UseClient, ForgetClients, vars

\* Every step of serial user management keeps the invariant.
LEMMA NextAdmin ==
  ASSUME AdminInv, [Next /\ OneAdminRequest']_vars
  PROVE  AdminInv'
<1>1. OneAdminRequest'
  BY DEF vars, AdminInv, OneAdminRequest, AdminRequest
<1>2. ASSUME NEW r \in Request, Advance(r) PROVE AdminInv'
  <2>1. QuietStatement(r) \/ WriteUser(r) \/ EraseUser(r) \/ RollBackAccount(r) \/ InsertAccount(r)
    BY <1>2 DEF Advance, QuietStatement
  <2>2. QED BY <1>1, <2>1, QuietAdmin, LoudAdmin
<1>3. QED BY <1>1, <1>2, ArriveAdmin, SurroundingsAdmin DEF Next, Proceed

\* Only an arrival could make user management overlap: serial steps never do.
LEMMA SerialSteps ==
  ASSUME AdminInv, [SerialNext]_vars
  PROVE  [Next /\ OneAdminRequest']_vars
<1>1. ASSUME NEW r \in Request, Advance(r) \/ Disconnect(r) PROVE OneAdminRequest'
  <2>1. OnlyRequest(r) /\ (req'[r] = Idle \/ req'[r].op = req[r].op)
    BY <1>1, AdvanceBody DEF AdminInv, TypeOK, RequestState, SameBody, Disconnect, OnlyRequest
  <2>2. \A q \in Request : AdminRequest(q)' => AdminRequest(q)
    BY <2>1 DEF OnlyRequest, AdminRequest, Idle
  <2>3. QED BY <2>2 DEF AdminInv, OneAdminRequest
<1>2. ASSUME Restart PROVE OneAdminRequest'
  BY <1>2 DEF Restart, OneAdminRequest, AdminRequest, Idle
<1>3. ASSUME req' = req PROVE OneAdminRequest'
  BY <1>3 DEF AdminInv, OneAdminRequest, AdminRequest
<1>4. QED BY <1>1, <1>2, <1>3 DEF SerialNext, Proceed, Next, EndSession, UseClient, ForgetClients,
                                   Serve, vars

\* The invariant holds when the server starts.
LEMMA InitAdmin == Init => AdminInv
<1>1. ASSUME Init PROVE AdminInv
  <2>1. TypeOK /\ HandlersOnPath
    BY <1>1, InitTypeAndPath
  <2>2. \A r \in Request : req[r].op = "none"
    BY <1>1 DEF Init, Idle
  <2>3. OneAdminRequest /\ BootstrapAlone /\ ManagerStays
    BY <2>2 DEF OneAdminRequest, BootstrapAlone, ManagerStays, AdminRequest
  <2>4. ASSUME NEW u \in User, Exists(u) PROVE ActiveAdmins # {}
    <3>1. u \in Admins \cup Plain
      BY <1>1, <2>4 DEF Init, Exists, FirstAccount, Absent
    <3>2. PICK a \in Admins : TRUE
      BY <3>1, ConstantsAssumption
    <3>3. a \in User /\ acct[a] = FirstAccount(a)
      BY <1>1, ConstantsAssumption DEF Init
    <3>4. FirstAccount(a).role = "admin" /\ FirstAccount(a).status = "active"
      BY DEF FirstAccount, Absent
    <3>5. QED BY <3>3, <3>4 DEF ActiveAdmins, Active, Exists
  <2>5. phase # "serving"
    BY <1>1 DEF Init
  <2>6. QED BY <2>1, <2>3, <2>4, <2>5 DEF AdminInv
<1>2. QED BY <1>1

\* If user-management requests do not overlap, the server never listens without
\* an active administrator, whatever the other requests, faults and restarts.
THEOREM LastAdminSafe == SerialSpec => []ActiveAdmin
<1>1. AdminInv => ActiveAdmin
  BY DEF AdminInv, ActiveAdmin
<1>2. AdminInv /\ [SerialNext]_vars => AdminInv'
  BY NextAdmin, SerialSteps
<1>3. QED BY InitAdmin, <1>1, <1>2, PTL DEF SerialSpec

\* A management statement leaves the manager's own role and status alone.
LEMMA ManagerUntouched ==
  ASSUME AdminInv, NEW r \in Request, AdminRequest(r), Advance(r)
  PROVE  /\ acct'[req[r].by].role = acct[req[r].by].role
         /\ acct'[req[r].by].status = acct[req[r].by].status
<1> DEFINE u == req[r].on
           b == req[r].by
<1>1. /\ b \in User /\ acct[b] \in Account /\ acct[b].role = "admin" /\ acct[b].status = "active"
      /\ req[r].op # "update" => u # b
      /\ At(r, "write") /\ u = b => req[r].role # "user" /\ req[r].status # "disabled"
  BY DEF AdminInv, TypeOK, ManagerStays, ActiveAdmins, Active
<1>2. CASE QuietStatement(r)
  BY <1>1, <1>2, QuietRoles DEF AdminInv, RolesKept
<1>3. CASE WriteUser(r)
  <2>1. CASE acct' = acct
    BY <2>1
  <2>2. CASE acct' = [acct EXCEPT ![u] = Edited(r, acct[u])]
    <3>1. CASE u # b
      BY <1>1, <2>2, <3>1 DEF AdminInv, TypeOK
    <3>2. CASE u = b
      <4>1. req[r].role \in {"keep", "admin"} /\ req[r].status \in {"keep", "active"}
        BY <1>1, <1>3, <3>2 DEF WriteUser, AdminInv, TypeOK, RequestState
      <4>2. Edited(r, acct[b]).role = "admin" /\ Edited(r, acct[b]).status = "active"
        BY <1>1, <4>1 DEF Edited, Account
      <4>3. acct'[b] = Edited(r, acct[b])
        BY <1>1, <2>2, <3>2 DEF AdminInv, TypeOK
      <4>4. QED BY <1>1, <4>2, <4>3
    <3>3. QED BY <3>1, <3>2
  <2>3. QED BY <1>3, <2>1, <2>2 DEF WriteUser, Update
<1>4. CASE EraseUser(r) \/ RollBackAccount(r) \/ InsertAccount(r)
  <2>1. u # b
    BY <1>1, <1>4, OpOfPc DEF EraseUser, RollBackAccount, InsertAccount, AdminInv
  <2>2. \A v \in User : v # u => acct'[v] = acct[v]
    BY <1>4 DEF EraseUser, RollBackAccount, InsertAccount, Erase, AdminInv, TypeOK
  <2>3. QED BY <1>1, <2>1, <2>2
<1>5. QED BY <1>2, <1>3, <1>4 DEF Advance, QuietStatement

\* One at a time, a user-management request never changes the role or status of
\* the administrator who sent it (the self-lockout checks of UpdateUser).
THEOREM SelfLockoutSafe == SerialSpec => SelfLockoutRejected
<1> DEFINE Kept == \A r \in Request : AdminRequest(r) /\ req'[r] # req[r] =>
                     /\ acct'[req[r].by].role = acct[req[r].by].role
                     /\ acct'[req[r].by].status = acct[req[r].by].status
<1>1. ASSUME AdminInv, [SerialNext]_vars PROVE Kept
  <2>1. SUFFICES ASSUME NEW r \in Request, AdminRequest(r), req'[r] # req[r]
                 PROVE  /\ acct'[req[r].by].role = acct[req[r].by].role
                        /\ acct'[req[r].by].status = acct[req[r].by].status
    OBVIOUS
  <2>2. CASE acct' = acct
    BY <2>2
  <2>3. ASSUME NEW q \in Request, Advance(q)
        PROVE  /\ acct'[req[r].by].role = acct[req[r].by].role
               /\ acct'[req[r].by].status = acct[req[r].by].status
    <3>1. q = r
      BY <1>1, <2>1, <2>3, AdvanceBody DEF AdminInv, OnlyRequest
    <3>2. QED BY <1>1, <2>1, <2>3, <3>1, ManagerUntouched
  <2>4. ASSUME NEW q \in Request, Arrive(q) PROVE acct' = acct
    BY <2>4 DEF Arrive, LoginVerify, RecoverPassword, ChangePassword, RegenerateRecoveryKey,
                GetRecoveryKey, DeleteUser, CreateUser, UpdateUser, Bootstrap, ResetPassword
  <2>5. CASE \E u \in User : UseClient(u) \/ ForgetClients(u)
    BY <2>1, <2>5 DEF UseClient, ForgetClients
  <2>6. CASE \/ \E q \in Request : Disconnect(q)
             \/ \E s \in Session : EndSession(s)
             \/ Serve \/ Restart \/ UNCHANGED vars
    BY <2>2, <2>6 DEF Disconnect, EndSession, Serve, Restart, vars
  <2>7. QED BY <1>1, <2>2, <2>3, <2>4, <2>5, <2>6 DEF SerialNext, Proceed
<1>2. AdminInv /\ [SerialNext]_vars => AdminInv'
  BY NextAdmin, SerialSteps
<1>3. Kept => [\A r \in Request : AdminRequest(r) /\ req'[r] # req[r] =>
                 LET u == req[r].by IN /\ acct'[u].role = acct[u].role
                                       /\ acct'[u].status = acct[u].status]_vars
  OBVIOUS
<1>4. QED BY InitAdmin, <1>1, <1>2, <1>3, PTL DEF SerialSpec, SelfLockoutRejected

-----------------------------------------------------------------------------
(* What each statement does, pointwise.                                       *)

\* Request r comes to be q.
Becomes(r, q) == /\ req' \in [Request -> RequestState] /\ req'[r] = q
                 /\ \A p \in Request : p # r => req'[p] = req[p]

\* It keeps what it was asked to do.
Kin(q, p) == /\ q.op = p.op /\ q.by = p.by /\ q.on = p.on /\ q.status = p.status
             /\ q.reset = p.reset /\ q.key = p.key /\ q.live = p.live

Goes(r, pc) == \E q : /\ Becomes(r, q) /\ q.pc = pc /\ Kin(q, req[r])
                      /\ q.pw = req[r].pw /\ q.since = req[r].since

Ends(r) == Becomes(r, Idle)

\* It ends, or goes on to the statement that follows in its handler.
Proceeds(r, next) == IF next = "idle" THEN Ends(r) ELSE Goes(r, next)

\* The row of u becomes row.
Rewritten(u, row) == /\ acct' \in [User -> Account] /\ acct'[u] = row
                     /\ \A v \in User : v # u => acct'[v] = acct[v]

\* Two rows agree but for the password, and but for the recovery key.
SameButPassword(x, y) == /\ x.role = y.role /\ x.rec = y.rec /\ x.bw = y.bw /\ x.used = y.used
SameButKey(x, y) == /\ x.role = y.role /\ x.pw = y.pw /\ x.bw = y.bw /\ x.used = y.used

\* The sessions of u are gone.
Dropped(u) == \A s \in Session :
                session'[s] = IF session[s].user = u THEN NoRow ELSE session[s]

\* What an idle request holds.
LEMMA IdleFacts == /\ Idle.pc = "idle" /\ Idle.op = "none" /\ Idle.on = None /\ Idle.live
BY DEF Idle

\* Replacing the entry of a request.
LEMMA BecomesSet ==
  ASSUME TypeOK, NEW r \in Request, NEW q \in RequestState, req' = [req EXCEPT ![r] = q]
  PROVE  Becomes(r, q)
BY DEF TypeOK, Becomes

\* A handler that finishes ends its request.
LEMMA EndsFinished ==
  ASSUME TypeOK, NEW r \in Request, Finish(r)
  PROVE  Ends(r)
BY IdleType, BecomesSet DEF Finish, Ends

\* A handler that goes on moves its request.
LEMMA GoesTo ==
  ASSUME TypeOK, NEW r \in Request, NEW pc \in Pc, Goto(r, pc)
  PROVE  Goes(r, pc)
<1> DEFINE q == [req[r] EXCEPT !.pc = pc]
<1>1. req[r] \in RequestState
  BY DEF TypeOK
<1>2. /\ q \in RequestState /\ q.pc = pc /\ Kin(q, req[r])
      /\ q.pw = req[r].pw /\ q.since = req[r].since
  BY <1>1 DEF RequestState, Kin
<1>3. req' = [req EXCEPT ![r] = q]
  BY DEF Goto, TypeOK
<1> HIDE DEF q
<1>4. QED BY <1>2, <1>3, BecomesSet DEF Goes

\* Replacing the row of an account.
LEMMA RowRewritten ==
  ASSUME TypeOK, NEW u \in User, NEW row \in Account, acct' = [acct EXCEPT ![u] = row]
  PROVE  Rewritten(u, row)
BY DEF TypeOK, Rewritten

\* An UPDATE rewrites the row if it is there.
LEMMA UpdateRewrites ==
  ASSUME TypeOK, NEW u, NEW row, Exists(u) => row \in Account, Update(u, row)
  PROVE  IF Exists(u) THEN Rewritten(u, row) ELSE acct' = acct
BY ExistingRow, RowRewritten DEF Update

\* No table and no history changes.
Quiet == UNCHANGED <<acct, session, clock, floor, spent>>

\* The rehash of Login replaces at most the password.
LEMMA RehashDoes ==
  ASSUME TypeOK, NEW r \in Request, LoginRehash(r)
  PROVE  /\ UNCHANGED <<session, clock, floor, spent>> /\ Goes(r, "session") /\ At(r, "rehash")
         /\ \/ acct' = acct
            \/ \E row : /\ Exists(req[r].on) /\ Rewritten(req[r].on, row)
                        /\ SameButPassword(row, acct[req[r].on]) /\ row.pw = req[r].pw
<1> DEFINE u == req[r].on
           row == [acct[u] EXCEPT !.pw = req[r].pw, !.legacy = FALSE]
<1>1. req[r].pw \in Nat
  BY DEF TypeOK, RequestState
<1>2. Exists(u) => row \in Account /\ SameButPassword(row, acct[u]) /\ row.pw = req[r].pw
  BY <1>1, ExistingRow DEF Account, SameButPassword
<1>3. UNCHANGED <<session, clock, floor, spent>> /\ Goes(r, "session") /\ At(r, "rehash")
  BY GoesTo DEF LoginRehash, Pc
<1>4. acct' = acct \/ Update(u, row)
  BY DEF LoginRehash
<1> HIDE DEF row
<1>5. QED BY <1>2, <1>3, <1>4, UpdateRewrites

\* createSession inserts a row for an account that is there, and ends the request.
LEMMA SessionDoes ==
  ASSUME TypeOK, NEW r \in Request, NEW s \in Session, CreateSession(r, s)
  PROVE  /\ UNCHANGED <<acct, clock, floor>> /\ Ends(r) /\ At(r, "session") /\ session[s] = NoRow
         /\ \/ session' = session /\ spent' = spent
            \/ /\ Exists(req[r].on)
               /\ session'[s].user = req[r].on /\ session'[s].since = req[r].since
               /\ session'[s].late = (req[r].since < floor[req[r].on])
               /\ \A t \in Session : t # s => session'[t] = session[t]
               /\ spent' = IF req[r].op = "recover" THEN spent \cup {<<req[r].on, req[r].key>>}
                           ELSE spent
<1>1. UNCHANGED <<acct, clock, floor>> /\ Ends(r) /\ At(r, "session") /\ session[s] = NoRow
  BY EndsFinished DEF CreateSession
<1>2. CASE Exists(req[r].on)
  BY <1>1, <1>2 DEF CreateSession, TypeOK
<1>3. CASE ~Exists(req[r].on)
  BY <1>1, <1>3 DEF CreateSession
<1>4. QED BY <1>2, <1>3

\* A password check changes no table.
LEMMA CheckDoes ==
  ASSUME TypeOK, NEW r \in Request, NEW p, CheckPassword(r, p)
  PROVE  /\ Quiet /\ At(r, "check")
         /\ \/ Ends(r)
            \/ Goes(r, "setpw") /\ req[r].op = "change"
            \/ Goes(r, "rotate") /\ req[r].op # "change"
BY EndsFinished, GoesTo DEF CheckPassword, Quiet, Pc

\* The UPDATE of setNewPassword and ResetPassword changes at most the password.
LEMMA SetPasswordDoes ==
  ASSUME TypeOK, NEW r \in Request, SetPassword(r)
  PROVE  /\ UNCHANGED <<session, spent>> /\ At(r, "setpw")
         /\ \/ Ends(r) /\ Quiet /\ Fails(r)
            \/ /\ clock' = clock + 1
               /\ \A v \in User : floor'[v] = IF v = req[r].on /\ Revokes(r) THEN clock + 1 ELSE floor[v]
               /\ \E q : /\ Becomes(r, q) /\ Kin(q, req[r]) /\ q.pw = clock + 1 /\ q.since = clock + 1
                         /\ q.pc = IF req[r].op = "clireset" THEN "drop" ELSE "prov"
               /\ \/ acct' = acct /\ ~Exists(req[r].on)
                  \/ \E row : /\ Exists(req[r].on) /\ Rewritten(req[r].on, row)
                              /\ SameButPassword(row, acct[req[r].on]) /\ row.pw = clock + 1
<1> DEFINE u == req[r].on
           pc == IF req[r].op = "clireset" THEN "drop" ELSE "prov"
           row == [acct[u] EXCEPT !.pw = clock + 1, !.legacy = FALSE, !.must = FALSE]
           q == [req[r] EXCEPT !.pc = pc, !.pw = clock + 1, !.since = clock + 1]
<1>1. clock + 1 \in Nat /\ req[r] \in RequestState /\ pc \in Pc
  BY DEF TypeOK, Pc
<1>2. Exists(u) => row \in Account /\ SameButPassword(row, acct[u]) /\ row.pw = clock + 1
  BY <1>1, ExistingRow DEF Account, SameButPassword
<1>3. UNCHANGED <<session, spent>> /\ At(r, "setpw")
  BY DEF SetPassword
<1>4. CASE Fails(r)
  BY <1>3, <1>4, EndsFinished DEF SetPassword, Quiet
<1>5. CASE ~Fails(r)
  <2>1. Update(u, row) /\ clock' = clock + 1 /\ req' = [req EXCEPT ![r] = q]
    BY <1>5 DEF SetPassword, TypeOK
  <2>2. \A v \in User : floor'[v] = IF v = u /\ Revokes(r) THEN clock + 1 ELSE floor[v]
    BY <1>5 DEF SetPassword, TypeOK
  <2> HIDE DEF pc
  <2>3. q \in RequestState /\ Kin(q, req[r]) /\ q.pw = clock + 1 /\ q.since = clock + 1 /\ q.pc = pc
    BY <1>1 DEF RequestState, Kin
  <2> HIDE DEF q, row
  <2>4. Becomes(r, q)
    BY <2>1, <2>3, BecomesSet
  <2>5. QED BY <1>2, <1>3, <2>1, <2>2, <2>3, <2>4, UpdateRewrites DEF pc
<1>6. QED BY <1>4, <1>5

\* generateAndSaveRecoveryKey changes at most the recovery key.
LEMMA RotateDoes ==
  ASSUME TypeOK, NEW r \in Request, RotateRecoveryKey(r)
  PROVE  /\ UNCHANGED <<session, floor, spent>> /\ At(r, "rotate")
         /\ \/ Ends(r) /\ Quiet /\ Fails(r)
            \/ /\ clock' = clock + 1 /\ Proceeds(r, AfterRotate(req[r].op))
               /\ \/ acct' = acct /\ ~Exists(req[r].on)
                  \/ \E row : /\ Exists(req[r].on) /\ Rewritten(req[r].on, row)
                              /\ SameButKey(row, acct[req[r].on]) /\ row.rec = clock + 1
<1> DEFINE u == req[r].on
           row == [acct[u] EXCEPT !.rec = clock + 1]
<1>1. clock + 1 \in Nat /\ AfterRotate(req[r].op) \in Pc
  BY DEF TypeOK, Pc, AfterRotate
<1>2. Exists(u) => row \in Account /\ SameButKey(row, acct[u]) /\ row.rec = clock + 1
  BY <1>1, ExistingRow DEF Account, SameButKey
<1>3. UNCHANGED <<session, floor, spent>> /\ At(r, "rotate")
  BY DEF RotateRecoveryKey
<1>4. CASE Fails(r)
  BY <1>3, <1>4, EndsFinished DEF RotateRecoveryKey, Quiet
<1>5. CASE ~Fails(r)
  <2>1. Update(u, row) /\ clock' = clock + 1
    BY <1>5 DEF RotateRecoveryKey
  <2>2. Proceeds(r, AfterRotate(req[r].op))
    BY <1>1, <1>5, EndsFinished, GoesTo DEF RotateRecoveryKey, Proceeds
  <2> HIDE DEF row
  <2>3. QED BY <1>2, <1>3, <2>1, <2>2, UpdateRewrites
<1>6. QED BY <1>4, <1>5

\* A refused password changes no table.
LEMMA RefuseDoes ==
  ASSUME TypeOK, NEW r \in Request, RefusePassword(r)
  PROVE  Quiet /\ Ends(r) /\ At(r, "setpw")
BY EndsFinished DEF RefusePassword, Quiet

\* Showing the recovery key changes no table.
LEMMA EnsureDoes ==
  ASSUME TypeOK, NEW r \in Request, EnsureRecoveryKey(r)
  PROVE  Quiet /\ At(r, "getkey") /\ (Ends(r) \/ Goes(r, "rotate"))
BY EndsFinished, GoesTo DEF EnsureRecoveryKey, Quiet, Pc

\* The DELETE after a revocation removes the account's sessions.
LEMMA DropDoes ==
  ASSUME TypeOK, NEW r \in Request, DropSessions(r)
  PROVE  /\ UNCHANGED <<acct, clock, floor, spent>> /\ At(r, "drop")
         /\ (session' = session /\ Fails(r)) \/ Dropped(req[r].on)
         /\ \/ Goes(r, "session") /\ req[r].op = "recover"
            \/ Goes(r, "prov") /\ (req[r].op = "clireset" \/ (req[r].op = "update" /\ req[r].reset))
            \/ Ends(r) /\ req[r].op # "recover" /\ req[r].op # "clireset"
                       /\ ~(req[r].op = "update" /\ req[r].reset)
<1>1. UNCHANGED <<acct, clock, floor, spent>> /\ At(r, "drop")
  BY DEF DropSessions
<1>2. (session' = session /\ Fails(r)) \/ Dropped(req[r].on)
  BY DEF DropSessions, Dropped, SessionsWithout
<1>3. CASE req[r].op = "recover"
  BY <1>1, <1>2, <1>3, GoesTo DEF DropSessions, Pc
<1>4. CASE req[r].op = "clireset" \/ (req[r].op = "update" /\ req[r].reset)
  BY <1>1, <1>2, <1>4, GoesTo DEF DropSessions, Pc
<1>5. CASE /\ req[r].op # "recover" /\ req[r].op # "clireset"
           /\ ~(req[r].op = "update" /\ req[r].reset)
  BY <1>1, <1>2, <1>5, EndsFinished DEF DropSessions
<1>6. QED BY <1>3, <1>4, <1>5

\* ProvisionUser changes at most the vault's password.
LEMMA ProvisionDoes ==
  ASSUME TypeOK, NEW r \in Request, Provision(r)
  PROVE  /\ UNCHANGED <<session, clock, floor, spent>> /\ At(r, "prov")
         /\ Proceeds(r, AfterProvision(req[r].op)) /\ Exists(req[r].on)
         /\ \E row : /\ Rewritten(req[r].on, row)
                     /\ row.role = acct[req[r].on].role /\ row.pw = acct[req[r].on].pw
                     /\ row.rec = acct[req[r].on].rec /\ row.used = acct[req[r].on].used
                     /\ row.bw = IF acct[req[r].on].bw # 0 /\ acct[req[r].on].used = "now"
                                 THEN acct[req[r].on].bw ELSE req[r].pw
<1> DEFINE u == req[r].on
           row == ProvisionUser(acct[u], req[r].pw)
<1>1. /\ UNCHANGED <<session, clock, floor, spent>> /\ At(r, "prov") /\ Exists(u)
      /\ acct' = [acct EXCEPT ![u] = row]
  BY DEF Provision
<1>2. Proceeds(r, AfterProvision(req[r].op))
  BY EndsFinished, GoesTo DEF Provision, AfterProvision, Pc, Proceeds
<1>3. req[r].pw \in Nat /\ u \in User /\ acct[u] \in Account
  BY <1>1, ExistingRow DEF TypeOK, RequestState
<1>4. /\ row \in Account /\ row.role = acct[u].role /\ row.pw = acct[u].pw
      /\ row.rec = acct[u].rec /\ row.used = acct[u].used
      /\ row.bw = IF acct[u].bw # 0 /\ acct[u].used = "now" THEN acct[u].bw ELSE req[r].pw
  BY <1>3 DEF ProvisionUser, Account
<1> HIDE DEF row
<1>5. QED BY <1>1, <1>2, <1>3, <1>4, RowRewritten

\* A failed provisioning changes no table.
LEMMA ProvisionFailsDoes ==
  ASSUME TypeOK, NEW r \in Request, ProvisionFails(r)
  PROVE  /\ Quiet /\ At(r, "prov")
         /\ Fails(r) \/ ~Exists(req[r].on) \/ "provision" \in Faults
         /\ \/ Goes(r, "rollback") /\ req[r].op \in {"create", "bootstrap"}
            \/ Proceeds(r, AfterProvision(req[r].op)) /\ req[r].op \notin {"create", "bootstrap"}
BY EndsFinished, GoesTo DEF ProvisionFails, AfterProvision, Pc, Proceeds, Quiet

\* Deleting an account takes its sessions with it.
LEMMA EraseDoes ==
  ASSUME TypeOK, NEW r \in Request, RollBackAccount(r) \/ EraseUser(r)
  PROVE  /\ UNCHANGED <<clock, floor, spent>> /\ (At(r, "rollback") \/ At(r, "erase")) /\ Ends(r)
         /\ \/ acct' = acct /\ session' = session /\ Fails(r)
            \/ acct' = acct /\ ~Exists(req[r].on) /\ Dropped(req[r].on)
            \/ /\ Dropped(req[r].on)
               /\ \E row : Rewritten(req[r].on, row) /\ row.role = "deleted" /\ row.rec = 0
<1> DEFINE u == req[r].on
           row == [Absent EXCEPT !.role = "deleted"]
<1>1. UNCHANGED <<clock, floor, spent>> /\ (At(r, "rollback") \/ At(r, "erase")) /\ Ends(r)
  BY EndsFinished DEF RollBackAccount, EraseUser
<1>2. row \in Account /\ row.role = "deleted" /\ row.rec = 0
  BY DEF Absent, Account
<1>3. CASE Fails(r)
  BY <1>1, <1>3 DEF RollBackAccount, EraseUser
<1>4. CASE ~Fails(r)
  <2>1. Dropped(u) /\ (IF Exists(u) THEN acct' = [acct EXCEPT ![u] = row] ELSE acct' = acct)
    BY <1>4 DEF RollBackAccount, EraseUser, Erase, SessionsWithout, Dropped
  <2> HIDE DEF row
  <2>2. QED BY <1>1, <1>2, <2>1, RowRewritten, ExistingRow
<1>5. QED BY <1>3, <1>4

\* The reads of UpdateUser and DeleteUser change no table.
LEMMA LookDoes ==
  ASSUME TypeOK, NEW r \in Request, ReadTarget(r) \/ EnsureAnotherAdmin(r)
  PROVE  /\ Quiet /\ (At(r, "read") \/ At(r, "guard"))
         /\ Ends(r) \/ Goes(r, "guard") \/ Goes(r, "erase") \/ Goes(r, "write")
BY EndsFinished, GoesTo DEF ReadTarget, EnsureAnotherAdmin, Quiet, Pc

\* The UPDATE of UpdateUser leaves the vault and the recovery key alone.
LEMMA WriteDoes ==
  ASSUME TypeOK, NEW r \in Request, WriteUser(r)
  PROVE  /\ UNCHANGED <<session, spent>> /\ At(r, "write")
         /\ \/ Ends(r) /\ Quiet /\ Fails(r)
            \/ /\ \/ acct' = acct /\ ~Exists(req[r].on)
                  \/ \E row : /\ Exists(req[r].on) /\ Rewritten(req[r].on, row)
                              /\ row.role \in {"user", "admin"} /\ row.rec = acct[req[r].on].rec
                              /\ row.bw = acct[req[r].on].bw /\ row.used = acct[req[r].on].used
                              /\ row.pw = IF req[r].reset THEN clock + 1 ELSE acct[req[r].on].pw
               /\ \/ Ends(r) /\ clock' = clock /\ floor' = floor /\ ~Revokes(r)
                  \/ /\ Revokes(r) /\ clock' = clock + 1
                     /\ \A v \in User : floor'[v] = IF v = req[r].on THEN clock + 1 ELSE floor[v]
                     /\ \E q : /\ Becomes(r, q) /\ Kin(q, req[r]) /\ q.pw = clock + 1
                               /\ q.since = req[r].since /\ q.pc = "drop"
<1> DEFINE u == req[r].on
           row == Edited(r, acct[u])
           q == [req[r] EXCEPT !.pc = "drop", !.pw = clock + 1]
<1>1. clock + 1 \in Nat /\ req[r] \in RequestState
  BY DEF TypeOK
<1>2. Exists(u) => /\ row \in Account
                   /\ row.role \in {"user", "admin"} /\ row.rec = acct[u].rec
                   /\ row.bw = acct[u].bw /\ row.used = acct[u].used
                   /\ row.pw = IF req[r].reset THEN clock + 1 ELSE acct[u].pw
  <2> SUFFICES ASSUME Exists(u)
               PROVE  /\ row \in Account
                      /\ row.role \in {"user", "admin"} /\ row.rec = acct[u].rec
                      /\ row.bw = acct[u].bw /\ row.used = acct[u].used
                      /\ row.pw = IF req[r].reset THEN clock + 1 ELSE acct[u].pw
    OBVIOUS
  <2> DEFINE role == IF req[r].role = "keep" THEN acct[u].role ELSE req[r].role
             status == IF req[r].status = "keep" THEN acct[u].status ELSE req[r].status
             pw == IF req[r].reset THEN clock + 1 ELSE acct[u].pw
             legacy == acct[u].legacy /\ ~req[r].reset
             must == acct[u].must \/ req[r].reset
  <2>1. acct[u] \in Account /\ acct[u].role \in {"user", "admin"}
    BY ExistingRow DEF Exists
  <2>2. /\ role \in {"user", "admin"} /\ status \in {"active", "disabled"} /\ pw \in Nat
        /\ legacy \in BOOLEAN /\ must \in BOOLEAN
    BY <1>1, <2>1 DEF Account, RequestState
  <2>3. row = [acct[u] EXCEPT !.role = role, !.status = status, !.pw = pw, !.legacy = legacy,
                              !.must = must]
    BY DEF Edited
  <2> HIDE DEF row, role, status, pw, legacy, must
  <2>4. /\ row \in Account /\ row.role = role /\ row.rec = acct[u].rec /\ row.bw = acct[u].bw
        /\ row.used = acct[u].used /\ row.pw = pw
    BY <2>1, <2>2, <2>3 DEF Account
  <2>5. QED BY <2>2, <2>4 DEF pw
<1>3. UNCHANGED <<session, spent>> /\ At(r, "write")
  BY DEF WriteUser
<1>4. CASE Fails(r)
  BY <1>3, <1>4, EndsFinished DEF WriteUser, Quiet
<1>5. CASE ~Fails(r)
  <2>1. Update(u, row)
    BY <1>5 DEF WriteUser
  <2> HIDE DEF row
  <2>2. (acct' = acct /\ ~Exists(u)) \/ (Exists(u) /\ Rewritten(u, row))
    BY <1>2, <2>1, UpdateRewrites
  <2>3. CASE ~Revokes(r)
    BY <1>2, <1>3, <1>5, <2>2, <2>3, EndsFinished DEF WriteUser
  <2>4. CASE Revokes(r)
    <3>1. clock' = clock + 1 /\ floor' = [floor EXCEPT ![u] = clock + 1]
          /\ req' = [req EXCEPT ![r] = q]
      BY <1>5, <2>4 DEF WriteUser, TypeOK
    <3>2. \A v \in User : floor'[v] = IF v = u THEN clock + 1 ELSE floor[v]
      BY <3>1 DEF TypeOK
    <3>3. /\ q \in RequestState /\ Kin(q, req[r]) /\ q.pw = clock + 1
          /\ q.since = req[r].since /\ q.pc = "drop"
      BY <1>1 DEF RequestState, Kin, Pc
    <3> HIDE DEF q
    <3>4. Becomes(r, q)
      BY <3>1, <3>3, BecomesSet
    <3>5. QED BY <1>2, <1>3, <2>2, <2>4, <3>1, <3>2, <3>3, <3>4
  <2>5. QED BY <2>3, <2>4
<1>6. QED BY <1>4, <1>5

\* The INSERT of createAccount starts a row without a key or a vault.
LEMMA InsertDoes ==
  ASSUME TypeOK, HandlersOnPath, NEW r \in Request, InsertAccount(r)
  PROVE  /\ UNCHANGED <<session, floor, spent>> /\ At(r, "insert")
         /\ \/ Ends(r) /\ Quiet
            \/ /\ clock' = clock + 1
               /\ \E q : /\ Becomes(r, q) /\ Kin(q, req[r]) /\ q.pw = clock + 1
                         /\ q.since = req[r].since /\ q.pc = "rotate"
               /\ req[r].on \in User => \E row : /\ Rewritten(req[r].on, row)
                                                 /\ row.pw = clock + 1 /\ row.rec = 0
                                                 /\ row.bw = 0 /\ row.used = "never"
               /\ req[r].on \notin User => acct' = acct
<1> DEFINE u == req[r].on
           row == [Absent EXCEPT !.role = req[r].role, !.status = "active", !.pw = clock + 1,
                                 !.must = (req[r].op = "create")]
           q == [req[r] EXCEPT !.pc = "rotate", !.pw = clock + 1]
<1>1. clock + 1 \in Nat /\ req[r] \in RequestState /\ acct \in [User -> Account]
  BY DEF TypeOK
<1>2. UNCHANGED <<session, floor, spent>> /\ At(r, "insert")
  BY DEF InsertAccount
<1>3. CASE Fails(r) \/ (req[r].op = "create" /\ ~Exists(req[r].by))
  BY <1>2, <1>3, EndsFinished DEF InsertAccount, Quiet
<1>4. CASE ~(Fails(r) \/ (req[r].op = "create" /\ ~Exists(req[r].by)))
  <2>1. /\ clock' = clock + 1 /\ acct' = [acct EXCEPT ![u] = row] /\ req' = [req EXCEPT ![r] = q]
    BY <1>4 DEF InsertAccount, TypeOK
  <2>2. req[r].role \in {"admin", "user"}
    BY <1>2, OpOfPc DEF HandlersOnPath, OnPath
  <2>3. row \in Account /\ row.pw = clock + 1 /\ row.rec = 0 /\ row.bw = 0 /\ row.used = "never"
    <3>1. ASSUME NEW must \in BOOLEAN
          PROVE  LET x == [Absent EXCEPT !.role = req[r].role, !.status = "active",
                                         !.pw = clock + 1, !.must = must]
                 IN x \in Account /\ x.pw = clock + 1 /\ x.rec = 0 /\ x.bw = 0 /\ x.used = "never"
      BY <1>1, <2>2 DEF Absent, Account
    <3>2. QED BY <3>1
  <2>4. /\ q \in RequestState /\ Kin(q, req[r]) /\ q.pw = clock + 1
        /\ q.since = req[r].since /\ q.pc = "rotate"
    BY <1>1 DEF RequestState, Kin, Pc
  <2> HIDE DEF row, q
  <2>5. Becomes(r, q)
    BY <2>1, <2>4, BecomesSet
  <2>6. u \notin User => acct' = acct
    BY <1>1, <2>1
  <2>7. u \in User => Rewritten(u, row)
    BY <2>1, <2>3, RowRewritten
  <2>8. QED BY <1>2, <2>1, <2>3, <2>4, <2>5, <2>6, <2>7
<1>5. QED BY <1>3, <1>4

\* A request as it arrives.
Fresh(q) == \/ q.op = "login" /\ q.pc \in {"rehash", "session"} /\ Active(q.on)
                              /\ q.pw = acct[q.on].pw /\ q.since = clock
            \/ q.op = "recover" /\ q.pc = "setpw" /\ Active(q.on) /\ HoldsKey(q.on, q.key)
            \/ q.op \notin {"login", "recover"} /\ q.pc \in {"check", "getkey", "read", "insert", "setpw"}

\* An arrival changes no table and brings a fresh request.
LEMMA ArriveDoes ==
  ASSUME TypeOK, NEW r \in Request, Arrive(r)
  PROVE  Quiet /\ At(r, "idle") /\ \E q : Becomes(r, q) /\ q.live /\ Fresh(q)
<1> DEFINE Arrives == Quiet /\ At(r, "idle") /\ \E q : Becomes(r, q) /\ q.live /\ Fresh(q)
<1>1. ASSUME NEW q \in RequestState, q.live, Fresh(q), req' = [req EXCEPT ![r] = q], Quiet, At(r, "idle")
      PROVE  Arrives
  BY <1>1, BecomesSet
<1> HIDE DEF Arrives
<1>2. ASSUME NEW u \in User, NEW p \in 1..clock, LoginVerify(r, u, p)
      PROVE  Arrives
  <2> DEFINE q == [Idle EXCEPT !.pc = IF acct[u].legacy THEN "rehash" ELSE "session",
                               !.op = "login", !.on = u, !.pw = p, !.since = clock]
  <2>1. p \in Nat /\ clock \in Nat /\ Active(u) /\ p = acct[u].pw
    BY <1>2 DEF TypeOK, LoginVerify, KnowsPassword
  <2>2. /\ q \in RequestState /\ q.live /\ q.op = "login" /\ q.pc \in {"rehash", "session"}
        /\ q.on = u /\ q.pw = p /\ q.since = clock
    BY <2>1, IdleType DEF Idle, RequestState, Pc, PanelOps
  <2>3. Quiet /\ At(r, "idle") /\ req' = [req EXCEPT ![r] = q]
    BY <1>2 DEF LoginVerify, Quiet
  <2> HIDE DEF q
  <2>4. Fresh(q)
    BY <2>1, <2>2 DEF Fresh
  <2>5. QED BY <1>1, <2>2, <2>3, <2>4
<1>3. ASSUME NEW u \in User, NEW k \in 1..clock, RecoverPassword(r, u, k)
      PROVE  Arrives
  <2> DEFINE q == [Idle EXCEPT !.pc = "setpw", !.op = "recover", !.on = u, !.key = k]
  <2>1. k \in Nat /\ Active(u) /\ HoldsKey(u, k)
    BY <1>3 DEF TypeOK, RecoverPassword
  <2>2. /\ q \in RequestState /\ q.live /\ q.op = "recover" /\ q.pc = "setpw" /\ q.on = u /\ q.key = k
    BY <2>1, IdleType DEF Idle, RequestState, Pc, PanelOps
  <2>3. Quiet /\ At(r, "idle") /\ req' = [req EXCEPT ![r] = q]
    BY <1>3 DEF RecoverPassword, Quiet
  <2> HIDE DEF q
  <2>4. Fresh(q)
    BY <2>1, <2>2 DEF Fresh
  <2>5. QED BY <1>1, <2>2, <2>3, <2>4
<1>4. ASSUME NEW s \in Session, NEW op \in {"change", "regenerate", "getkey"},
             NEW pc \in {"check", "getkey"}, Serves(r, s, op), Start(r, s, op, pc), Quiet
      PROVE  Arrives
  <2> DEFINE q == [Idle EXCEPT !.pc = pc, !.op = op, !.by = session[s].user, !.on = session[s].user]
  <2>1. session[s].user \in User /\ At(r, "idle")
    BY <1>4 DEF Serves, Active, Exists
  <2>2. q \in RequestState /\ q.live /\ q.op = op /\ q.pc = pc
    BY <2>1, IdleType DEF Idle, RequestState, Pc, PanelOps
  <2>3. req' = [req EXCEPT ![r] = q]
    BY <1>4 DEF Start
  <2> HIDE DEF q
  <2>4. Fresh(q)
    BY <2>2 DEF Fresh
  <2>5. QED BY <1>1, <1>4, <2>1, <2>2, <2>3, <2>4
<1>5. ASSUME NEW s \in Session, ChangePassword(r, s) \/ RegenerateRecoveryKey(r, s) \/ GetRecoveryKey(r, s)
      PROVE  Arrives
  BY <1>4, <1>5 DEF ChangePassword, RegenerateRecoveryKey, GetRecoveryKey, Quiet
<1>6. ASSUME NEW s \in Session, NEW u \in User, DeleteUser(r, s, u)
      PROVE  Arrives
  <2> DEFINE q == [Idle EXCEPT !.pc = "read", !.op = "delete", !.by = session[s].user, !.on = u]
  <2>1. session[s].user \in User /\ Quiet /\ At(r, "idle") /\ req' = [req EXCEPT ![r] = q]
    BY <1>6 DEF DeleteUser, ServesAdmin, Serves, Active, Exists, Quiet
  <2>2. q \in RequestState /\ q.live /\ q.op = "delete" /\ q.pc = "read"
    BY <2>1, IdleType DEF Idle, RequestState, Pc, PanelOps
  <2> HIDE DEF q
  <2>3. QED BY <1>1, <2>1, <2>2 DEF Fresh
<1>7. ASSUME NEW s \in Session, NEW u \in User, NEW role \in {"admin", "user"}, CreateUser(r, s, u, role)
      PROVE  Arrives
  <2> DEFINE q == [Idle EXCEPT !.pc = "insert", !.op = "create", !.by = session[s].user,
                               !.on = u, !.role = role]
  <2>1. session[s].user \in User /\ Quiet /\ At(r, "idle") /\ req' = [req EXCEPT ![r] = q]
    BY <1>7 DEF CreateUser, ServesAdmin, Serves, Active, Exists, Quiet
  <2>2. q \in RequestState /\ q.live /\ q.op = "create" /\ q.pc = "insert"
    BY <2>1, IdleType DEF Idle, RequestState, Pc, PanelOps
  <2> HIDE DEF q
  <2>3. QED BY <1>1, <2>1, <2>2 DEF Fresh
<1>8. ASSUME NEW s \in Session, NEW u \in User, NEW role \in {"keep", "admin", "user"},
             NEW status \in {"keep", "active", "disabled"}, NEW reset \in BOOLEAN,
             UpdateUser(r, s, u, role, status, reset)
      PROVE  Arrives
  <2> DEFINE q == [Idle EXCEPT !.pc = "read", !.op = "update", !.by = session[s].user, !.on = u,
                               !.role = role, !.status = status, !.reset = reset]
  <2>1. session[s].user \in User /\ Quiet /\ At(r, "idle") /\ req' = [req EXCEPT ![r] = q]
    BY <1>8 DEF UpdateUser, ServesAdmin, Serves, Active, Exists, Quiet
  <2>2. q \in RequestState /\ q.live /\ q.op = "update" /\ q.pc = "read"
    BY <2>1, IdleType DEF Idle, RequestState, Pc, PanelOps
  <2> HIDE DEF q
  <2>3. QED BY <1>1, <2>1, <2>2 DEF Fresh
<1>9. ASSUME NEW u \in User, Bootstrap(r, u) \/ ResetPassword(r, u)
      PROVE  Arrives
  <2> DEFINE a == [Idle EXCEPT !.pc = "insert", !.op = "bootstrap", !.on = u, !.role = "admin"]
             b == [Idle EXCEPT !.pc = "setpw", !.op = "clireset", !.on = u]
  <2>1. a \in RequestState /\ a.live /\ a.op = "bootstrap" /\ a.pc = "insert"
    BY IdleType DEF Idle, RequestState, Pc, PanelOps
  <2>2. b \in RequestState /\ b.live /\ b.op = "clireset" /\ b.pc = "setpw"
    BY IdleType DEF Idle, RequestState, Pc, PanelOps
  <2>3. Quiet /\ At(r, "idle") /\ (req' = [req EXCEPT ![r] = a] \/ req' = [req EXCEPT ![r] = b])
    BY <1>9 DEF Bootstrap, ResetPassword, Quiet
  <2> HIDE DEF a, b
  <2>4. QED BY <1>1, <2>1, <2>2, <2>3 DEF Fresh
<1>10. Arrives
  BY <1>2, <1>3, <1>5, <1>6, <1>7, <1>8, <1>9 DEF Arrive
<1>11. QED BY <1>10 DEF Arrives

\* What happens around the requests.
LEMMA AroundDoes ==
  ASSUME TypeOK,
         [\/ \E r \in Request : Disconnect(r)
          \/ \E s \in Session : EndSession(s)
          \/ \E u \in User : UseClient(u) \/ ForgetClients(u)
          \/ Serve \/ Restart]_vars
  PROVE  /\ UNCHANGED <<clock, floor, spent>>
         /\ \A s \in Session : session'[s] = session[s] \/ session'[s] = NoRow
         /\ \A u \in User : /\ Exists(u)' <=> Exists(u)
                            /\ acct'[u].pw = acct[u].pw /\ acct'[u].rec = acct[u].rec
                            /\ acct'[u].bw = acct[u].bw
                            /\ acct'[u].used = "never" => acct[u].used = "never"
         /\ \A r \in Request :
              \/ req'[r] = req[r]
              \/ req'[r] = Idle /\ "restart" \in Faults
              \/ /\ "disconnect" \in Faults
                 /\ req'[r].op = req[r].op /\ req'[r].on = req[r].on
                 /\ req'[r].key = req[r].key /\ req'[r].pc = req[r].pc
<1> DEFINE Rows == \A u \in User : /\ Exists(u)' <=> Exists(u)
                                   /\ acct'[u].pw = acct[u].pw /\ acct'[u].rec = acct[u].rec
                                   /\ acct'[u].bw = acct[u].bw
                                   /\ acct'[u].used = "never" => acct[u].used = "never"
<1>1. acct' = acct => Rows
  BY DEF Exists
<1>2. ASSUME NEW u \in User, NEW used \in {"now", "before"}, acct' = [acct EXCEPT ![u].used = used]
      PROVE  Rows
  <2> DEFINE row == [acct[u] EXCEPT !.used = used]
  <2>1. acct[u] \in Account /\ acct' = [acct EXCEPT ![u] = row]
    BY <1>2 DEF TypeOK
  <2>2. /\ row.role = acct[u].role /\ row.pw = acct[u].pw /\ row.rec = acct[u].rec
        /\ row.bw = acct[u].bw /\ row.used = used
    BY <2>1 DEF Account
  <2> HIDE DEF row
  <2>3. acct'[u] = row /\ \A v \in User : v # u => acct'[v] = acct[v]
    BY <2>1 DEF TypeOK
  <2>4. QED BY <2>2, <2>3 DEF Exists
<1> HIDE DEF Rows
<1>3. ASSUME NEW r \in Request, Disconnect(r)
      PROVE  \A p \in Request : /\ req'[p].op = req[p].op /\ req'[p].on = req[p].on
                                /\ req'[p].key = req[p].key /\ req'[p].pc = req[p].pc
  <2> DEFINE q == [req[r] EXCEPT !.live = FALSE]
  <2>1. req[r] \in RequestState /\ req' = [req EXCEPT ![r] = q]
    BY <1>3 DEF Disconnect, TypeOK
  <2>2. q.op = req[r].op /\ q.on = req[r].on /\ q.key = req[r].key /\ q.pc = req[r].pc
    BY <2>1 DEF RequestState
  <2> HIDE DEF q
  <2>3. QED BY <2>1, <2>2 DEF TypeOK
<1>4. CASE \E r \in Request : Disconnect(r)
  BY <1>1, <1>3, <1>4 DEF Disconnect, Rows
<1>5. CASE \E s \in Session : EndSession(s)
  BY <1>1, <1>5 DEF EndSession, TypeOK, Rows
<1>6. CASE \E u \in User : UseClient(u) \/ ForgetClients(u)
  BY <1>2, <1>6 DEF UseClient, ForgetClients, Rows
<1>7. CASE Serve
  BY <1>1, <1>7 DEF Serve, Rows
<1>8. CASE Restart
  BY <1>1, <1>8 DEF Restart, Rows
<1>9. CASE UNCHANGED vars
  BY <1>1, <1>9 DEF vars, Rows
<1>10. QED BY <1>4, <1>5, <1>6, <1>7, <1>8, <1>9

\* A statement leaves its request ended or with the same task.
LEMMA AdvanceBecomes ==
  ASSUME TypeOK, HandlersOnPath, NEW r \in Request, Advance(r)
  PROVE  \E q : Becomes(r, q) /\ (q = Idle \/ Kin(q, req[r]))
<1>1. ASSUME NEW pc, Goes(r, pc) \/ Ends(r) \/ Proceeds(r, pc)
      PROVE  \E q : Becomes(r, q) /\ (q = Idle \/ Kin(q, req[r]))
  BY <1>1 DEF Goes, Ends, Proceeds
<1>2. CASE LoginRehash(r) \/ (\E s \in Session : CreateSession(r, s)) \/ \E p \in 1..clock : CheckPassword(r, p)
  BY <1>1, <1>2, RehashDoes, SessionDoes, CheckDoes
<1>3. CASE SetPassword(r) \/ WriteUser(r) \/ InsertAccount(r)
  BY <1>1, <1>3, SetPasswordDoes, WriteDoes, InsertDoes
<1>4. CASE RefusePassword(r) \/ RotateRecoveryKey(r) \/ EnsureRecoveryKey(r) \/ DropSessions(r)
  BY <1>1, <1>4, RefuseDoes, RotateDoes, EnsureDoes, DropDoes
<1>5. CASE Provision(r) \/ ProvisionFails(r) \/ RollBackAccount(r) \/ EraseUser(r)
  BY <1>1, <1>5, ProvisionDoes, ProvisionFailsDoes, EraseDoes
<1>6. CASE ReadTarget(r) \/ EnsureAnotherAdmin(r)
  BY <1>1, <1>6, LookDoes
<1>7. QED BY <1>2, <1>3, <1>4, <1>5, <1>6 DEF Advance

\* Without disconnections no request is cancelled.
Live == \A r \in Request : req[r].live

\* No step cancels a request.
LEMMA LiveStep ==
  ASSUME TypeOK, HandlersOnPath, Live, "disconnect" \notin Faults, [Next]_vars
  PROVE  Live'
<1>1. ASSUME NEW r \in Request, NEW q, Becomes(r, q), q.live PROVE Live'
  BY <1>1 DEF Live, Becomes
<1>2. ASSUME NEW r \in Request, Arrive(r) PROVE Live'
  BY <1>1, <1>2, ArriveDoes
<1>3. ASSUME NEW r \in Request, Advance(r) PROVE Live'
  <2>1. \E q : Becomes(r, q) /\ (q = Idle \/ Kin(q, req[r]))
    BY <1>3, AdvanceBecomes
  <2>2. QED BY <1>1, <2>1, IdleFacts DEF Kin, Live
<1>4. CASE \/ \E s \in Session : EndSession(s)
           \/ \E u \in User : UseClient(u) \/ ForgetClients(u)
           \/ Serve \/ Restart \/ UNCHANGED vars
  BY <1>4, IdleFacts DEF EndSession, UseClient, ForgetClients, Serve, Restart, vars, Live
<1>5. ASSUME NEW r \in Request, Disconnect(r) PROVE FALSE
  BY <1>5 DEF Disconnect
<1>6. QED BY <1>2, <1>3, <1>4, <1>5 DEF Next, Proceed

-----------------------------------------------------------------------------
(* Sessions that survive a revocation, with requests interleaving.            *)

\* Request q will still delete the sessions of u.
RevokingRequest(q, u) ==
  /\ q.on = u
  /\ q.op \in {"recover", "clireset"} \/ (q.op = "update" /\ (q.reset \/ q.status = "disabled"))
  /\ q.pc = "drop" \/ (q.op = "recover" /\ q.pc \in {"prov", "rotate"})

\* A free slot of the sessions table is blank.
Owned == \A s \in Session : session[s].user \in User \/ session[s] = NoRow

StaleInv == TypeOK /\ HandlersOnPath /\ Live /\ Owned /\ StaleOnlyFromOverlap

\* Revoking, request by request.
LEMMA RevokingMeans ==
  ASSUME NEW u
  PROVE  Revoking(u) <=> \E r \in Request : RevokingRequest(req[r], u)
BY DEF Revoking, RevokingRequest, Revokes, At

\* What a statement must respect for the sessions to stay in order.
LEMMA StaleKept ==
  ASSUME Owned, StaleOnlyFromOverlap, NEW r \in Request, NEW q, Becomes(r, q),
         \A s \in Session : \/ session'[s] = session[s] \/ session'[s] = NoRow
                            \/ /\ session'[s].user \in User
                               /\ session'[s].since < floor'[session'[s].user] => session'[s].late,
         \A u \in User : floor'[u] = floor[u] \/ RevokingRequest(q, u),
         \A u \in User : RevokingRequest(req[r], u)
                           => RevokingRequest(q, u) \/ \A s \in Session : session'[s].user # u
  PROVE  Owned' /\ StaleOnlyFromOverlap'
<1>1. Owned'
  BY DEF Owned
<1>2. ASSUME NEW u, RevokingRequest(q, u) PROVE Revoking(u)'
  <2>1. req'[r] = q
    BY DEF Becomes
  <2>2. Revoking(u)' <=> \E p \in Request : RevokingRequest(req'[p], u)
    BY DEF Revoking, RevokingRequest, Revokes, At
  <2>3. QED BY <1>2, <2>1, <2>2
<1>3. ASSUME NEW u, Revoking(u) PROVE Revoking(u)' \/ RevokingRequest(req[r], u)
  <2>1. PICK p \in Request : RevokingRequest(req[p], u)
    BY <1>3, RevokingMeans
  <2>2. p # r => req'[p] = req[p]
    BY DEF Becomes
  <2>3. Revoking(u)' <=> \E t \in Request : RevokingRequest(req'[t], u)
    BY DEF Revoking, RevokingRequest, Revokes, At
  <2>4. QED BY <2>1, <2>2, <2>3
<1>4. ASSUME NEW s \in Session, NEW u, u = session'[s].user, Stale(s)'
      PROVE  session'[s].late \/ Revoking(u)'
  <2>1. u = session'[s].user
    BY <1>4
  <2>2. session'[s] # NoRow /\ session'[s].since < floor'[u] /\ u \in User
    BY <1>1, <1>4, <2>1 DEF Stale, Owned
  <2>3. CASE session'[s] # session[s]
    BY <2>1, <2>2, <2>3
  <2>4. CASE session'[s] = session[s] /\ RevokingRequest(q, u)
    BY <1>2, <2>1, <2>4
  <2>5. CASE session'[s] = session[s] /\ ~RevokingRequest(q, u)
    <3>1. Stale(s)
      BY <2>1, <2>2, <2>5 DEF Stale
    <3>2. session[s].late \/ Revoking(u)
      BY <2>1, <2>5, <3>1 DEF StaleOnlyFromOverlap
    <3>3. ~RevokingRequest(req[r], u)
      BY <2>1, <2>2, <2>5
    <3>4. session[s].late \/ Revoking(u)'
      BY <1>3, <3>2, <3>3
    <3>5. QED BY <2>1, <2>5, <3>4
  <2>6. QED BY <2>3, <2>4, <2>5
<1>5. StaleOnlyFromOverlap'
  BY <1>4 DEF StaleOnlyFromOverlap, Revoking
<1>6. QED BY <1>1, <1>5

\* A statement that changes no session and no history and revokes nothing.
LEMMA StaleAside ==
  ASSUME Owned, StaleOnlyFromOverlap, NEW r \in Request, NEW q, Becomes(r, q),
         session' = session, \A u \in User : floor'[u] = floor[u],
         req[r].pc \notin {"drop", "prov", "rotate"} \/ req[r].op \notin {"recover", "update", "clireset"}
  PROVE  Owned' /\ StaleOnlyFromOverlap'
<1>1. \A u \in User : ~RevokingRequest(req[r], u)
  BY DEF RevokingRequest
<1>2. QED BY <1>1, StaleKept

\* After the DELETE the account has no session.
LEMMA GoneSessions ==
  ASSUME NEW u \in User, Dropped(u)
  PROVE  /\ \A s \in Session : session'[s] = session[s] \/ session'[s] = NoRow
         /\ \A s \in Session : session'[s].user # u
<1>1. NoRow.user # u
  BY ConstantsAssumption DEF NoRow
<1>2. QED BY <1>1 DEF Dropped

\* Every statement keeps the sessions in order.
LEMMA StaleAdvance ==
  ASSUME StaleInv, NEW r \in Request, Advance(r)
  PROVE  Owned' /\ StaleOnlyFromOverlap'
<1> USE DEF StaleInv
<1>a. ~Fails(r)
  BY DEF Fails, Live
<1>1. ASSUME NEW pc, Goes(r, pc) \/ Ends(r) \/ Proceeds(r, pc) PROVE \E q : Becomes(r, q)
  BY <1>1 DEF Goes, Ends, Proceeds
<1>2. CASE LoginRehash(r)
  BY <1>1, <1>2, RehashDoes, StaleAside DEF At
<1>3. ASSUME NEW s \in Session, CreateSession(r, s) PROVE Owned' /\ StaleOnlyFromOverlap'
  <2>1. /\ floor' = floor /\ Ends(r) /\ At(r, "session")
        /\ \/ session' = session
           \/ /\ Exists(req[r].on)
              /\ session'[s].user = req[r].on /\ session'[s].since = req[r].since
              /\ session'[s].late = (req[r].since < floor[req[r].on])
              /\ \A t \in Session : t # s => session'[t] = session[t]
    BY <1>3, SessionDoes
  <2>2. \A u \in User : ~RevokingRequest(req[r], u)
    BY <2>1 DEF RevokingRequest, At
  <2>3. CASE session' = session
    BY <1>1, <2>1, <2>3, StaleAside DEF At
  <2>4. CASE session' # session
    <3>1. Exists(req[r].on) => req[r].on \in User
      BY DEF Exists
    <3>2. /\ session'[s].user \in User
          /\ session'[s].since < floor'[session'[s].user] => session'[s].late
      BY <2>1, <2>4, <3>1
    <3>3. \A t \in Session : \/ session'[t] = session[t] \/ session'[t] = NoRow
                             \/ /\ session'[t].user \in User
                                /\ session'[t].since < floor'[session'[t].user] => session'[t].late
      BY <2>1, <2>4, <3>2
    <3>4. PICK q : Becomes(r, q)
      BY <1>1, <2>1
    <3>5. QED BY <2>1, <2>2, <3>3, <3>4, StaleKept
  <2>5. QED BY <2>3, <2>4
<1>4. ASSUME NEW p \in 1..clock, CheckPassword(r, p) PROVE Owned' /\ StaleOnlyFromOverlap'
  BY <1>1, <1>4, CheckDoes, StaleAside DEF At, Quiet
<1>5. CASE SetPassword(r)
  <2>1. /\ session' = session /\ At(r, "setpw")
        /\ \A v \in User : floor'[v] = IF v = req[r].on /\ Revokes(r) THEN clock + 1 ELSE floor[v]
    BY <1>a, <1>5, SetPasswordDoes
  <2>2. PICK q : /\ Becomes(r, q) /\ Kin(q, req[r])
                 /\ q.pc = IF req[r].op = "clireset" THEN "drop" ELSE "prov"
    BY <1>a, <1>5, SetPasswordDoes
  <2>3. req[r].op \in {"change", "recover", "clireset"}
    BY <2>1, OpOfPc
  <2>4. Revokes(r) => RevokingRequest(q, req[r].on)
    BY <2>2, <2>3 DEF Revokes, RevokingRequest, Kin
  <2>5. \A u \in User : ~RevokingRequest(req[r], u)
    BY <2>1 DEF RevokingRequest, At
  <2>6. QED BY <2>1, <2>2, <2>4, <2>5, StaleKept
<1>6. CASE RefusePassword(r)
  BY <1>1, <1>6, RefuseDoes, StaleAside DEF At, Quiet
<1>7. CASE RotateRecoveryKey(r)
  <2>1. session' = session /\ floor' = floor /\ At(r, "rotate") /\ Proceeds(r, AfterRotate(req[r].op))
    BY <1>a, <1>7, RotateDoes
  <2>2. CASE req[r].op = "recover"
    <3>1. PICK q : Becomes(r, q) /\ q.pc = "drop" /\ Kin(q, req[r])
      BY <2>1, <2>2 DEF Proceeds, Goes, AfterRotate
    <3>2. \A u \in User : RevokingRequest(req[r], u) => RevokingRequest(q, u)
      BY <3>1 DEF RevokingRequest, Kin
    <3>3. QED BY <2>1, <3>1, <3>2, StaleKept
  <2>3. CASE req[r].op # "recover"
    <3>1. req[r].op \notin {"recover", "update", "clireset"}
      BY <2>1, <2>3, OpOfPc
    <3>2. QED BY <1>1, <2>1, <3>1, StaleAside
  <2>4. QED BY <2>2, <2>3
<1>8. CASE EnsureRecoveryKey(r)
  BY <1>1, <1>8, EnsureDoes, StaleAside DEF At, Quiet
<1>9. CASE DropSessions(r)
  <2>1. floor' = floor /\ At(r, "drop") /\ Dropped(req[r].on)
    BY <1>a, <1>9, DropDoes
  <2>2. PICK q : Becomes(r, q)
    BY <1>1, <1>9, DropDoes
  <2>3. CASE req[r].on \in User
    <3>1. /\ \A s \in Session : session'[s] = session[s] \/ session'[s] = NoRow
          /\ \A s \in Session : session'[s].user # req[r].on
      BY <2>1, <2>3, GoneSessions
    <3>2. \A u \in User : RevokingRequest(req[r], u) => \A s \in Session : session'[s].user # u
      BY <3>1 DEF RevokingRequest
    <3>3. QED BY <2>1, <2>2, <3>1, <3>2, StaleKept
  <2>4. CASE req[r].on \notin User
    <3>1. \A s \in Session : session'[s] = session[s] \/ session'[s] = NoRow
      BY <2>1 DEF Dropped
    <3>2. \A u \in User : ~RevokingRequest(req[r], u)
      BY <2>4 DEF RevokingRequest
    <3>3. QED BY <2>1, <2>2, <3>1, <3>2, StaleKept
  <2>5. QED BY <2>3, <2>4
<1>10. CASE Provision(r) \/ ProvisionFails(r)
  <2>1. /\ session' = session /\ floor' = floor /\ At(r, "prov")
        /\ \/ Proceeds(r, AfterProvision(req[r].op))
           \/ Goes(r, "rollback") /\ req[r].op \in {"create", "bootstrap"}
    BY <1>10, ProvisionDoes, ProvisionFailsDoes DEF Quiet
  <2>2. CASE req[r].op = "recover"
    <3>1. PICK q : Becomes(r, q) /\ q.pc = "rotate" /\ Kin(q, req[r])
      BY <2>1, <2>2 DEF Proceeds, Goes, AfterProvision
    <3>2. \A u \in User : RevokingRequest(req[r], u) => RevokingRequest(q, u)
      BY <2>2, <3>1 DEF RevokingRequest, Kin
    <3>3. QED BY <2>1, <3>1, <3>2, StaleKept
  <2>3. CASE req[r].op # "recover"
    <3>1. \A u \in User : ~RevokingRequest(req[r], u)
      BY <2>1, <2>3 DEF RevokingRequest, At
    <3>2. PICK q : Becomes(r, q)
      BY <1>1, <2>1
    <3>3. QED BY <2>1, <3>1, <3>2, StaleKept
  <2>4. QED BY <2>2, <2>3
<1>11. CASE RollBackAccount(r) \/ EraseUser(r)
  <2>1. /\ floor' = floor /\ (At(r, "rollback") \/ At(r, "erase")) /\ Ends(r) /\ Dropped(req[r].on)
    BY <1>a, <1>11, EraseDoes
  <2>2. \A s \in Session : session'[s] = session[s] \/ session'[s] = NoRow
    BY <2>1 DEF Dropped
  <2>3. \A u \in User : ~RevokingRequest(req[r], u)
    BY <2>1 DEF RevokingRequest, At
  <2>4. QED BY <2>1, <2>2, <2>3, StaleKept DEF Ends
<1>12. CASE ReadTarget(r) \/ EnsureAnotherAdmin(r)
  BY <1>1, <1>12, LookDoes, StaleAside DEF At, Quiet
<1>13. CASE WriteUser(r)
  <2>1. session' = session /\ At(r, "write")
    BY <1>13, WriteDoes
  <2>2. \A u \in User : ~RevokingRequest(req[r], u)
    BY <2>1 DEF RevokingRequest, At
  <2>3. CASE Ends(r) /\ floor' = floor
    BY <1>1, <2>1, <2>3, StaleAside DEF At
  <2>4. CASE ~(Ends(r) /\ floor' = floor)
    <3>1. /\ Revokes(r)
          /\ \A v \in User : floor'[v] = IF v = req[r].on THEN clock + 1 ELSE floor[v]
      BY <1>a, <1>13, <2>4, WriteDoes
    <3>2. PICK q : Becomes(r, q) /\ Kin(q, req[r]) /\ q.pc = "drop"
      BY <1>a, <1>13, <2>4, WriteDoes
    <3>3. RevokingRequest(q, req[r].on)
      BY <3>1, <3>2 DEF Revokes, RevokingRequest, Kin
    <3>4. QED BY <2>1, <2>2, <3>1, <3>2, <3>3, StaleKept
  <2>5. QED BY <2>3, <2>4
<1>14. CASE InsertAccount(r)
  <2>1. session' = session /\ floor' = floor /\ At(r, "insert") /\ \E q : Becomes(r, q)
    BY <1>1, <1>14, InsertDoes DEF Quiet
  <2>2. QED BY <2>1, StaleAside DEF At
<1>15. QED BY <1>2, <1>3, <1>4, <1>5, <1>6, <1>7, <1>8, <1>9, <1>10, <1>11, <1>12, <1>13, <1>14
          DEF Advance

\* Every step keeps the sessions in order.
LEMMA StaleStep ==
  ASSUME "disconnect" \notin Faults, "restart" \notin Faults, StaleInv, [Next]_vars
  PROVE  StaleInv'
<1>1. TypeOK' /\ HandlersOnPath' /\ Live'
  BY NextTypeAndPath, LiveStep DEF StaleInv
<1>2. ASSUME NEW r \in Request, Arrive(r) PROVE Owned' /\ StaleOnlyFromOverlap'
  <2>1. session' = session /\ floor' = floor /\ At(r, "idle") /\ \E q : Becomes(r, q)
    BY <1>2, ArriveDoes DEF StaleInv, Quiet
  <2>2. QED BY <2>1, StaleAside DEF StaleInv, At
<1>3. ASSUME NEW r \in Request, Advance(r) PROVE Owned' /\ StaleOnlyFromOverlap'
  BY <1>3, StaleAdvance
<1>4. ASSUME [\/ \E r \in Request : Disconnect(r)
              \/ \E s \in Session : EndSession(s)
              \/ \E u \in User : UseClient(u) \/ ForgetClients(u)
              \/ Serve \/ Restart]_vars
      PROVE  Owned' /\ StaleOnlyFromOverlap'
  <2>1. /\ floor' = floor /\ \A r \in Request : req'[r] = req[r]
        /\ \A s \in Session : session'[s] = session[s] \/ session'[s] = NoRow
    BY <1>4, AroundDoes DEF StaleInv
  <2>2. Owned /\ StaleOnlyFromOverlap
    BY DEF StaleInv
  <2>3. Owned'
    BY <2>1, <2>2 DEF Owned
  <2>4. ASSUME NEW u, Revoking(u) PROVE Revoking(u)'
    BY <2>1, <2>4 DEF Revoking, Revokes, At
  <2>5. ASSUME NEW s \in Session, NEW u, u = session'[s].user, Stale(s)'
        PROVE  session'[s].late \/ Revoking(u)'
    BY <2>1, <2>2, <2>4, <2>5 DEF Stale, StaleOnlyFromOverlap
  <2>6. QED BY <2>3, <2>5 DEF StaleOnlyFromOverlap, Revoking
<1>5. QED BY <1>1, <1>2, <1>3, <1>4 DEF StaleInv, Next, Proceed

\* The sessions are in order when the server starts.
LEMMA StaleInit == Init => StaleInv
<1> SUFFICES ASSUME Init PROVE StaleInv
  OBVIOUS
<1>2. Live
  BY IdleFacts DEF Init, Live
<1>3. Owned /\ StaleOnlyFromOverlap
  BY DEF Init, Owned, StaleOnlyFromOverlap, Stale
<1>4. QED BY <1>2, <1>3, InitTypeAndPath DEF StaleInv

\* However the requests interleave, the only session that survives a disabling,
\* a reset or a recovery is one whose login had verified the old credentials
\* and inserted its row after the DELETE.  No client disconnects in the middle
\* and the server does not die: either one leaves the DELETE undone.
THEOREM OverlapSafe ==
  ASSUME "disconnect" \notin Faults, "restart" \notin Faults
  PROVE  Spec => []StaleOnlyFromOverlap
<1>1. StaleInv /\ [Next]_vars => StaleInv'
  BY StaleStep
<1>2. StaleInv => StaleOnlyFromOverlap
  BY DEF StaleInv
<1>3. QED BY StaleInit, <1>1, <1>2, PTL DEF Spec

-----------------------------------------------------------------------------
(* Requests for one account one after the other, those for different accounts *)
(* interleaving.                                                              *)

\* Requests for one account keep following one another.
LEMMA TurnStep ==
  ASSUME TypeOK, HandlersOnPath, OneByOne, [TurnNext]_vars
  PROVE  OneByOne' /\ [Next]_vars
<1>1. ASSUME NEW r \in Request, NEW q, Becomes(r, q), q.on = req[r].on \/ q.on = None
      PROVE  OneByOne'
  BY <1>1 DEF OneByOne, Becomes
<1>2. ASSUME NEW r \in Request, Advance(r) PROVE OneByOne'
  <2>1. \E q : Becomes(r, q) /\ (q = Idle \/ Kin(q, req[r]))
    BY <1>2, AdvanceBecomes
  <2>2. QED BY <1>1, <2>1, IdleFacts DEF Kin
<1>3. ASSUME [\/ \E r \in Request : Disconnect(r)
              \/ \E s \in Session : EndSession(s)
              \/ \E u \in User : UseClient(u) \/ ForgetClients(u)
              \/ Serve \/ Restart]_vars
      PROVE  OneByOne'
  <2>1. \A r \in Request : req'[r].on = req[r].on \/ req'[r].on = None
    BY <1>3, AroundDoes, IdleFacts
  <2>2. QED BY <2>1 DEF OneByOne
<1>4. QED BY <1>2, <1>3 DEF TurnNext, Next, Proceed

\* Nothing is asked of an account when the server starts.
LEMMA TurnInit == Init => OneByOne
BY IdleFacts DEF Init, OneByOne

-----------------------------------------------------------------------------
(* No session survives a revocation when an account's requests take turns.    *)

\* What a request that may still insert a session has verified is current.
Current(q) ==
  /\ q.on \in User
  /\ q.pc \in {"rehash", "session"} \/ (q.op = "recover" /\ q.pc \in {"prov", "rotate", "drop"})
  => floor[q.on] =< q.since

PromptInv == /\ StaleInv
             /\ \A u \in User : floor[u] =< clock
             /\ \A s \in Session : ~session[s].late
             /\ \A r \in Request : Current(req[r])

\* A statement that may revoke the sessions of its own account.
LEMMA CurrentKept ==
  ASSUME OneByOne, PromptInv, NEW r \in Request, NEW q, Becomes(r, q),
         \A u \in User : u # req[r].on => floor'[u] = floor[u],
         /\ q.on \in User
         /\ q.pc \in {"rehash", "session"} \/ (q.op = "recover" /\ q.pc \in {"prov", "rotate", "drop"})
         => floor'[q.on] =< q.since
  PROVE  \A p \in Request : Current(req[p])'
<1>1. Current(req[r])'
  BY DEF Current, Becomes
<1>2. ASSUME NEW p \in Request, p # r PROVE Current(req[p])'
  <2>1. req'[p] = req[p] /\ Current(req[p])
    BY <1>2 DEF Becomes, PromptInv
  <2>2. req[p].on \in User => floor'[req[p].on] = floor[req[p].on]
    BY <1>2, ConstantsAssumption DEF OneByOne
  <2>3. QED BY <2>1, <2>2 DEF Current
<1>3. QED BY <1>1, <1>2

\* A statement that leaves the history alone and moves its request on.
LEMMA PromptAside ==
  ASSUME OneByOne, PromptInv, NEW r \in Request, NEW q, Becomes(r, q),
         clock' \in Nat, clock' >= clock,
         \A u \in User : floor'[u] = floor[u],
         \A s \in Session : session'[s] = session[s] \/ session'[s] = NoRow,
         q.pc \in {"rehash", "session"} \/ (q.op = "recover" /\ q.pc \in {"prov", "rotate", "drop"})
           => /\ q.on = req[r].on /\ q.since = req[r].since
              /\ \/ req[r].pc \in {"rehash", "session"}
                 \/ req[r].op = "recover" /\ req[r].pc \in {"prov", "rotate", "drop"}
  PROVE  /\ \A u \in User : floor'[u] =< clock'
         /\ \A s \in Session : ~session'[s].late
         /\ \A p \in Request : Current(req[p])'
<1>1. clock \in Nat /\ \A u \in User : floor[u] \in Nat
  BY DEF PromptInv, StaleInv, TypeOK
<1>2. \A u \in User : floor'[u] =< clock'
  <2> SUFFICES ASSUME NEW u \in User PROVE floor'[u] =< clock'
    OBVIOUS
  <2>1. floor[u] =< clock /\ floor[u] \in Nat /\ floor'[u] = floor[u]
    BY <1>1 DEF PromptInv
  <2>2. QED BY <1>1, <2>1
<1>3. \A s \in Session : ~session'[s].late
  BY DEF PromptInv, NoRow
<1>4. Current(req[r])
  BY DEF PromptInv
<1>5. \A p \in Request : Current(req[p])'
  BY <1>4, CurrentKept DEF Current
<1>6. QED BY <1>2, <1>3, <1>5

\* Every statement keeps what may become a session current.
LEMMA PromptAdvance ==
  ASSUME OneByOne, PromptInv, NEW r \in Request, Advance(r)
  PROVE  /\ \A u \in User : floor'[u] =< clock'
         /\ \A s \in Session : ~session'[s].late
         /\ \A p \in Request : Current(req[p])'
<1> DEFINE Prompt == /\ \A u \in User : floor'[u] =< clock'
                     /\ \A s \in Session : ~session'[s].late
                     /\ \A p \in Request : Current(req[p])'
<1>a. ~Fails(r) /\ TypeOK /\ HandlersOnPath /\ clock \in Nat
  BY DEF PromptInv, StaleInv, Fails, Live, TypeOK
<1>b. clock' = clock \/ clock' = clock + 1 => clock' \in Nat /\ clock' >= clock
  BY <1>a
<1>1. ASSUME Ends(r), clock' = clock \/ clock' = clock + 1, \A u \in User : floor'[u] = floor[u],
             \A s \in Session : session'[s] = session[s] \/ session'[s] = NoRow
      PROVE  Prompt
  BY <1>b, <1>1, PromptAside, IdleFacts DEF Ends
<1>2. ASSUME NEW pc, Goes(r, pc), clock' = clock \/ clock' = clock + 1,
             \A u \in User : floor'[u] = floor[u],
             \A s \in Session : session'[s] = session[s] \/ session'[s] = NoRow,
             pc \in {"rehash", "session"} \/ (req[r].op = "recover" /\ pc \in {"prov", "rotate", "drop"})
               => \/ req[r].pc \in {"rehash", "session"}
                  \/ req[r].op = "recover" /\ req[r].pc \in {"prov", "rotate", "drop"}
      PROVE  Prompt
  <2>1. PICK q : Becomes(r, q) /\ q.pc = pc /\ Kin(q, req[r]) /\ q.since = req[r].since
    BY <1>2 DEF Goes
  <2>2. q.op = req[r].op /\ q.on = req[r].on
    BY <2>1 DEF Kin
  <2>3. QED BY <1>b, <1>2, <2>1, <2>2, PromptAside
<1> SUFFICES Prompt
  OBVIOUS
<1> HIDE DEF Prompt
<1>3. CASE LoginRehash(r)
  BY <1>2, <1>3, <1>a, RehashDoes DEF At
<1>4. ASSUME NEW s \in Session, CreateSession(r, s) PROVE Prompt
  <2>1. /\ UNCHANGED <<clock, floor>> /\ Ends(r) /\ At(r, "session")
        /\ \/ session' = session
           \/ /\ Exists(req[r].on) /\ session'[s].late = (req[r].since < floor[req[r].on])
              /\ \A t \in Session : t # s => session'[t] = session[t]
    BY <1>4, <1>a, SessionDoes
  <2>2. CASE session' = session
    BY <1>1, <2>1, <2>2
  <2>3. CASE session' # session
    <3>1. req[r].on \in User /\ floor[req[r].on] =< req[r].since
      BY <2>1, <2>3 DEF PromptInv, Current, At, Exists
    <3>2. floor[req[r].on] \in Nat /\ req[r].since \in Nat
      BY <1>a, <3>1 DEF TypeOK, RequestState
    <3>3. ~session'[s].late
      <4>1. ~(req[r].since < floor[req[r].on])
        BY <3>1, <3>2
      <4>2. QED BY <2>1, <2>3, <4>1
    <3>4. \A t \in Session : ~session'[t].late
      BY <2>1, <2>3, <3>3 DEF PromptInv
    <3>5. \A u \in User : floor'[u] =< clock'
      BY <2>1 DEF PromptInv
    <3>6. \A p \in Request : Current(req[p])'
      BY <2>1, CurrentKept, IdleFacts DEF Ends
    <3>7. QED BY <3>4, <3>5, <3>6 DEF Prompt
  <2>4. QED BY <2>2, <2>3
<1>5. ASSUME NEW p \in 1..clock, CheckPassword(r, p) PROVE Prompt
  <2>1. Quiet /\ (Ends(r) \/ Goes(r, "setpw") \/ (Goes(r, "rotate") /\ req[r].op # "recover"))
    BY <1>5, <1>a, CheckDoes, OpOfPc
  <2>2. QED BY <1>1, <1>2, <2>1 DEF Quiet
<1>6. CASE SetPassword(r)
  <2>1. /\ session' = session /\ clock' = clock + 1
        /\ \A v \in User : floor'[v] = IF v = req[r].on /\ Revokes(r) THEN clock + 1 ELSE floor[v]
    BY <1>6, <1>a, SetPasswordDoes
  <2>2. PICK q : Becomes(r, q) /\ Kin(q, req[r]) /\ q.since = clock + 1
                 /\ q.pc = IF req[r].op = "clireset" THEN "drop" ELSE "prov"
    BY <1>6, <1>a, SetPasswordDoes
  <2>3. \A u \in User : floor'[u] =< clock'
    <3> SUFFICES ASSUME NEW u \in User PROVE floor'[u] =< clock'
      OBVIOUS
    <3>1. floor[u] =< clock /\ floor[u] \in Nat
      BY <1>a DEF PromptInv, TypeOK
    <3>2. floor'[u] = floor[u] \/ floor'[u] = clock + 1
      BY <2>1
    <3>3. QED BY <1>a, <2>1, <3>1, <3>2
  <2>4. \A p \in Request : Current(req[p])'
    BY <2>1, <2>2, <2>3, CurrentKept
  <2>5. QED BY <2>1, <2>3, <2>4 DEF Prompt, PromptInv
<1>7. CASE RefusePassword(r)
  BY <1>1, <1>7, <1>a, RefuseDoes DEF Quiet
<1>8. CASE RotateRecoveryKey(r)
  <2>1. /\ session' = session /\ floor' = floor /\ clock' = clock + 1 /\ At(r, "rotate")
        /\ Proceeds(r, AfterRotate(req[r].op))
    BY <1>8, <1>a, RotateDoes
  <2>2. CASE Ends(r)
    BY <1>1, <2>1, <2>2
  <2>3. CASE ~Ends(r)
    <3>1. \/ req[r].op = "recover" /\ Goes(r, "drop")
          \/ req[r].op # "recover" /\ Goes(r, "prov")
      BY <2>1, <2>3 DEF Proceeds, AfterRotate
    <3>2. QED BY <1>2, <2>1, <3>1 DEF At
  <2>4. QED BY <2>2, <2>3
<1>9. CASE EnsureRecoveryKey(r)
  <2>1. Quiet /\ (Ends(r) \/ (Goes(r, "rotate") /\ req[r].op # "recover"))
    BY <1>9, <1>a, EnsureDoes, OpOfPc
  <2>2. QED BY <1>1, <1>2, <2>1 DEF Quiet
<1>10. CASE DropSessions(r)
  <2>1. /\ floor' = floor /\ clock' = clock /\ At(r, "drop") /\ Dropped(req[r].on)
        /\ \/ Goes(r, "session") /\ req[r].op = "recover"
           \/ Goes(r, "prov") /\ req[r].op # "recover"
           \/ Ends(r)
    BY <1>10, <1>a, DropDoes
  <2>2. \A s \in Session : session'[s] = session[s] \/ session'[s] = NoRow
    BY <2>1 DEF Dropped
  <2>3. QED BY <1>1, <1>2, <2>1, <2>2 DEF At
<1>11. CASE Provision(r) \/ ProvisionFails(r)
  <2>1. /\ session' = session /\ floor' = floor /\ clock' = clock /\ At(r, "prov")
        /\ \/ Proceeds(r, AfterProvision(req[r].op))
           \/ Goes(r, "rollback")
    BY <1>11, <1>a, ProvisionDoes, ProvisionFailsDoes DEF Quiet
  <2>2. Ends(r) \/ Goes(r, "rollback") \/ (Goes(r, "rotate") /\ req[r].op = "recover")
    BY <2>1 DEF Proceeds, AfterProvision
  <2>3. QED BY <1>1, <1>2, <2>1, <2>2 DEF At
<1>12. CASE RollBackAccount(r) \/ EraseUser(r)
  <2>1. floor' = floor /\ clock' = clock /\ Ends(r) /\ Dropped(req[r].on)
    BY <1>12, <1>a, EraseDoes
  <2>2. \A s \in Session : session'[s] = session[s] \/ session'[s] = NoRow
    BY <2>1 DEF Dropped
  <2>3. QED BY <1>1, <2>1, <2>2
<1>13. CASE ReadTarget(r) \/ EnsureAnotherAdmin(r)
  BY <1>1, <1>2, <1>13, <1>a, LookDoes DEF Quiet
<1>14. CASE WriteUser(r)
  <2>1. session' = session /\ req[r].op = "update"
    BY <1>14, <1>a, WriteDoes, OpOfPc
  <2>2. CASE Ends(r) /\ clock' = clock /\ floor' = floor
    BY <1>1, <2>1, <2>2
  <2>3. CASE ~(Ends(r) /\ clock' = clock /\ floor' = floor)
    <3>1. /\ clock' = clock + 1
          /\ \A v \in User : floor'[v] = IF v = req[r].on THEN clock + 1 ELSE floor[v]
      BY <1>a, <1>14, <2>3, WriteDoes
    <3>2. PICK q : Becomes(r, q) /\ Kin(q, req[r]) /\ q.pc = "drop"
      BY <1>a, <1>14, <2>3, WriteDoes
    <3>3. \A u \in User : floor'[u] =< clock'
      <4> SUFFICES ASSUME NEW u \in User PROVE floor'[u] =< clock'
        OBVIOUS
      <4>1. floor[u] =< clock /\ floor[u] \in Nat
        BY <1>a DEF PromptInv, TypeOK
      <4>2. floor'[u] = floor[u] \/ floor'[u] = clock + 1
        BY <3>1
      <4>3. QED BY <1>a, <3>1, <4>1, <4>2
    <3>4. q.op # "recover"
      BY <2>1, <3>2 DEF Kin
    <3>5. \A p \in Request : Current(req[p])'
      BY <3>1, <3>2, <3>4, CurrentKept
    <3>6. QED BY <2>1, <3>3, <3>5 DEF Prompt, PromptInv
  <2>4. QED BY <2>2, <2>3
<1>15. CASE InsertAccount(r)
  <2>1. /\ UNCHANGED <<session, floor>> /\ req[r].op \in {"create", "bootstrap"}
        /\ clock' = clock \/ clock' = clock + 1
    BY <1>15, <1>a, InsertDoes, OpOfPc DEF Quiet
  <2>2. CASE Ends(r)
    BY <1>1, <2>1, <2>2
  <2>3. CASE ~Ends(r)
    <3>1. PICK q : Becomes(r, q) /\ Kin(q, req[r]) /\ q.pc = "rotate"
      BY <1>15, <1>a, <2>3, InsertDoes
    <3>2. q.op # "recover"
      BY <2>1, <3>1 DEF Kin
    <3>3. QED BY <1>b, <2>1, <3>1, <3>2, PromptAside DEF Prompt
  <2>4. QED BY <2>2, <2>3
<1>16. QED BY <1>3, <1>4, <1>5, <1>6, <1>7, <1>8, <1>9, <1>10, <1>11, <1>12, <1>13, <1>14, <1>15
          DEF Advance

\* Every step keeps what may become a session current.
LEMMA PromptStep ==
  ASSUME OneByOne, "disconnect" \notin Faults, "restart" \notin Faults, PromptInv, [Next]_vars
  PROVE  PromptInv'
<1> DEFINE Prompt == /\ \A u \in User : floor'[u] =< clock'
                     /\ \A s \in Session : ~session'[s].late
                     /\ \A p \in Request : Current(req[p])'
<1>a. TypeOK /\ HandlersOnPath /\ clock \in Nat
  BY DEF PromptInv, StaleInv, TypeOK
<1>1. StaleInv'
  BY StaleStep DEF PromptInv
<1>2. ASSUME NEW r \in Request, Arrive(r) PROVE Prompt
  <2>1. PICK q : Becomes(r, q) /\ Fresh(q)
    BY <1>2, <1>a, ArriveDoes
  <2>2. UNCHANGED <<session, floor, clock>>
    BY <1>2, <1>a, ArriveDoes DEF Quiet
  <2>3. q.pc \in {"rehash", "session"} \/ (q.op = "recover" /\ q.pc \in {"prov", "rotate", "drop"})
          => q.since = clock
    BY <2>1 DEF Fresh
  <2>4. \A p \in Request : Current(req[p])'
    BY <2>1, <2>2, <2>3, CurrentKept DEF PromptInv
  <2>5. QED BY <2>2, <2>4 DEF PromptInv
<1>3. ASSUME NEW r \in Request, Advance(r) PROVE Prompt
  BY <1>3, PromptAdvance
<1>4. ASSUME [\/ \E r \in Request : Disconnect(r)
              \/ \E s \in Session : EndSession(s)
              \/ \E u \in User : UseClient(u) \/ ForgetClients(u)
              \/ Serve \/ Restart]_vars
      PROVE  Prompt
  <2>1. /\ floor' = floor /\ clock' = clock /\ \A r \in Request : req'[r] = req[r]
        /\ \A s \in Session : session'[s] = session[s] \/ session'[s] = NoRow
    BY <1>4, <1>a, AroundDoes
  <2>2. \A p \in Request : Current(req[p])'
    BY <2>1 DEF Current, PromptInv
  <2>3. QED BY <2>1, <2>2 DEF PromptInv, NoRow
<1>5. Prompt
  BY <1>2, <1>3, <1>4 DEF Next, Proceed
<1>6. QED BY <1>1, <1>5 DEF PromptInv

\* Nothing is out of date when the server starts.
LEMMA PromptInit == Init => PromptInv
<1> SUFFICES ASSUME Init PROVE PromptInv
  OBVIOUS
<1>1. \A u \in User : floor[u] =< clock
  BY DEF Init
<1>2. \A s \in Session : ~session[s].late
  BY DEF Init, NoRow
<1>3. \A r \in Request : Current(req[r])
  BY IdleFacts DEF Init, Current
<1>4. QED BY <1>1, <1>2, <1>3, StaleInit DEF PromptInv

\* When the requests for an account follow one another, whatever those for other
\* accounts do meanwhile, no session authorised before a disabling, a reset or a
\* recovery survives it, provided no client disconnects before the DELETE and the
\* server does not die.
THEOREM RevocationSafe ==
  ASSUME "disconnect" \notin Faults, "restart" \notin Faults
  PROVE  TurnSpec => []SessionsRevoked
<1>1. OneByOne /\ PromptInv /\ [TurnNext]_vars => OneByOne' /\ PromptInv'
  BY TurnStep, PromptStep DEF PromptInv, StaleInv
<1>2. PromptInv => SessionsRevoked
  BY DEF PromptInv, StaleInv, StaleOnlyFromOverlap, SessionsRevoked
<1>3. QED BY TurnInit, PromptInit, <1>1, <1>2, PTL DEF TurnSpec

-----------------------------------------------------------------------------
(* Accounts are complete once their creation is over, whatever interleaves.   *)

\* Request q is creating the account u, whose row is there.
Creating(q, u) == /\ q.on = u /\ q.op \in {"create", "bootstrap"}
                  /\ q.pc \in {"rotate", "prov", "rollback"}
                  /\ q.pc # "rotate" => acct[u].rec # 0

\* A request that will provision has the password to do it with.
Supplied(q) == \/ q.pc = "prov" \/ (q.pc = "drop" /\ q.op # "recover")
               \/ q.pc = "rotate" /\ q.op \in {"create", "bootstrap"}
               => q.pw # 0

Complete(u) == acct[u].bw # 0 /\ acct[u].rec # 0

CompleteInv == /\ TypeOK /\ HandlersOnPath /\ Live
               /\ \A r \in Request : Supplied(req[r])
               /\ \A u \in User \ (Admins \cup Plain) :
                    Exists(u) => Complete(u) \/ \E r \in Request : Creating(req[r], u)

\* No account appears, and none loses its vault or its recovery key.
RowsGrow == \A u \in User : Exists(u)' => /\ Exists(u)
                                          /\ acct[u].rec # 0 => acct'[u].rec # 0
                                          /\ acct[u].bw # 0 => acct'[u].bw # 0

\* A statement that leaves the accounts alone takes nothing from them.
LEMMA SameGrow == acct' = acct => RowsGrow
BY DEF RowsGrow, Exists

\* Neither does one that deletes a row or keeps what it had.
LEMMA RewrittenGrow ==
  ASSUME NEW u, NEW row, Rewritten(u, row),
         \/ row.role = "deleted"
         \/ Exists(u) /\ (acct[u].rec # 0 => row.rec # 0) /\ (acct[u].bw # 0 => row.bw # 0)
  PROVE  RowsGrow
BY DEF Rewritten, RowsGrow, Exists

\* What a statement must respect for the accounts to stay complete.
LEMMA CompleteKept ==
  ASSUME CompleteInv, NEW r \in Request, NEW q, Becomes(r, q), Supplied(q),
         \A u \in User : Exists(u)' =>
            \/ /\ Exists(u)
               /\ acct[u].rec # 0 => acct'[u].rec # 0
               /\ acct[u].bw # 0 => acct'[u].bw # 0
            \/ q.on = u /\ q.op \in {"create", "bootstrap"} /\ q.pc = "rotate",
         \A u \in User : Exists(u)' /\ Creating(req[r], u) =>
            \/ /\ q.on = u /\ q.op \in {"create", "bootstrap"}
               /\ q.pc \in {"rotate", "prov", "rollback"}
               /\ q.pc # "rotate" => acct'[u].rec # 0
            \/ acct'[u].bw # 0 /\ acct'[u].rec # 0
  PROVE  /\ \A p \in Request : Supplied(req'[p])
         /\ \A u \in User \ (Admins \cup Plain) :
              Exists(u)' => Complete(u)' \/ \E p \in Request : Creating(req[p], u)'
<1>1. req'[r] = q /\ \A p \in Request : p # r => req'[p] = req[p]
  BY DEF Becomes
<1>2. \A p \in Request : Supplied(req'[p])
  BY <1>1 DEF CompleteInv
<1>3. ASSUME NEW u \in User \ (Admins \cup Plain), Exists(u)'
      PROVE  Complete(u)' \/ \E p \in Request : Creating(req[p], u)'
  <2>1. CASE q.on = u /\ q.op \in {"create", "bootstrap"} /\ q.pc = "rotate"
    <3>1. Creating(req[r], u)'
      BY <1>1, <2>1 DEF Creating
    <3>2. QED BY <3>1
  <2>2. CASE /\ Exists(u) /\ (acct[u].rec # 0 => acct'[u].rec # 0)
             /\ (acct[u].bw # 0 => acct'[u].bw # 0)
    <3>1. CASE Complete(u)
      BY <2>2, <3>1 DEF Complete
    <3>2. CASE Creating(req[r], u)
      <4>1. CASE acct'[u].bw # 0 /\ acct'[u].rec # 0
        BY <4>1 DEF Complete
      <4>2. CASE /\ q.on = u /\ q.op \in {"create", "bootstrap"}
                 /\ q.pc \in {"rotate", "prov", "rollback"}
                 /\ q.pc # "rotate" => acct'[u].rec # 0
        <5>1. Creating(req[r], u)'
          BY <1>1, <4>2 DEF Creating
        <5>2. QED BY <5>1
      <4>3. QED BY <1>3, <3>2, <4>1, <4>2
    <3>3. ASSUME NEW p \in Request, p # r, Creating(req[p], u)
          PROVE  Creating(req[p], u)'
      BY <1>1, <2>2, <3>3 DEF Creating
    <3>4. Complete(u) \/ \E p \in Request : Creating(req[p], u)
      BY <2>2 DEF CompleteInv
    <3>5. QED BY <3>1, <3>2, <3>3, <3>4
  <2>3. QED BY <1>3, <2>1, <2>2
<1>4. QED BY <1>2, <1>3

\* A statement of a request that is not creating an account.
LEMMA CompleteAside ==
  ASSUME CompleteInv, NEW r \in Request, NEW q, Becomes(r, q), Supplied(q), RowsGrow,
         req[r].op \notin {"create", "bootstrap"} \/ req[r].pc \notin {"rotate", "prov", "rollback"}
  PROVE  /\ \A p \in Request : Supplied(req'[p])
         /\ \A u \in User \ (Admins \cup Plain) :
              Exists(u)' => Complete(u)' \/ \E p \in Request : Creating(req[p], u)'
<1>1. \A u \in User : ~Creating(req[r], u)
  BY DEF Creating
<1>2. QED BY <1>1, CompleteKept DEF RowsGrow

\* Every statement keeps the accounts complete or under creation.
LEMMA CompleteAdvance ==
  ASSUME CompleteInv, NEW r \in Request, Advance(r)
  PROVE  /\ \A p \in Request : Supplied(req'[p])
         /\ \A u \in User \ (Admins \cup Plain) :
              Exists(u)' => Complete(u)' \/ \E p \in Request : Creating(req[p], u)'
<1> DEFINE Goal == /\ \A p \in Request : Supplied(req'[p])
                   /\ \A u \in User \ (Admins \cup Plain) :
                        Exists(u)' => Complete(u)' \/ \E p \in Request : Creating(req[p], u)'
<1>a. ~Fails(r) /\ TypeOK /\ HandlersOnPath /\ clock \in Nat /\ clock + 1 # 0
  BY DEF CompleteInv, Fails, Live, TypeOK
<1>b. Supplied(req[r])
  BY DEF CompleteInv
<1> DEFINE Other == req[r].op \notin {"create", "bootstrap"} \/ req[r].pc \notin {"rotate", "prov", "rollback"}
<1>1. ASSUME Ends(r), RowsGrow, Other PROVE Goal
  BY <1>1, CompleteAside, IdleFacts DEF Ends, Supplied
<1>2. ASSUME NEW pc, Goes(r, pc), RowsGrow, Other,
             pc = "prov" => req[r].pc = "prov" \/ (req[r].pc = "drop" /\ req[r].op # "recover"),
             pc = "drop" => req[r].op = "recover",
             pc = "rotate" => req[r].op \notin {"create", "bootstrap"}
      PROVE  Goal
  <2>1. PICK q : Becomes(r, q) /\ q.pc = pc /\ Kin(q, req[r]) /\ q.pw = req[r].pw
    BY <1>2 DEF Goes
  <2>2. Supplied(q)
    BY <1>2, <1>b, <2>1 DEF Supplied, Kin
  <2>3. QED BY <1>2, <2>1, <2>2, CompleteAside
<1> SUFFICES Goal
  OBVIOUS
<1> HIDE DEF Goal
<1>3. CASE LoginRehash(r)
  <2>1. Goes(r, "session") /\ At(r, "rehash") /\ RowsGrow
    <3>1. Goes(r, "session") /\ At(r, "rehash")
      BY <1>3, <1>a, RehashDoes
    <3>2. \/ acct' = acct
          \/ \E row : /\ Exists(req[r].on) /\ Rewritten(req[r].on, row)
                      /\ SameButPassword(row, acct[req[r].on])
      BY <1>3, <1>a, RehashDoes
    <3>3. RowsGrow
      BY <3>2, SameGrow, RewrittenGrow DEF SameButPassword
    <3>4. QED BY <3>1, <3>3
  <2>2. QED BY <1>2, <2>1 DEF At
<1>4. ASSUME NEW s \in Session, CreateSession(r, s) PROVE Goal
  BY <1>1, <1>4, <1>a, SessionDoes, SameGrow DEF At
<1>5. ASSUME NEW p \in 1..clock, CheckPassword(r, p) PROVE Goal
  <2>1. /\ acct' = acct /\ req[r].op \in {"change", "regenerate"}
        /\ Ends(r) \/ Goes(r, "setpw") \/ Goes(r, "rotate")
    BY <1>5, <1>a, CheckDoes, OpOfPc DEF Quiet
  <2>2. QED BY <1>1, <1>2, <2>1, SameGrow
<1>6. CASE SetPassword(r)
  <2>1. At(r, "setpw") /\ RowsGrow
    <3>1. \/ acct' = acct
          \/ \E row : /\ Exists(req[r].on) /\ Rewritten(req[r].on, row)
                      /\ SameButPassword(row, acct[req[r].on])
      BY <1>6, <1>a, SetPasswordDoes
    <3>2. QED BY <1>6, <1>a, <3>1, SetPasswordDoes, SameGrow, RewrittenGrow DEF SameButPassword
  <2>2. PICK q : Becomes(r, q) /\ q.pw = clock + 1
    BY <1>6, <1>a, SetPasswordDoes
  <2>3. QED BY <1>a, <2>1, <2>2, CompleteAside DEF At, Supplied, Goal
<1>7. CASE RefusePassword(r)
  BY <1>1, <1>7, <1>a, RefuseDoes, SameGrow DEF Quiet, At
<1>8. CASE RotateRecoveryKey(r)
  <2>1. At(r, "rotate") /\ Proceeds(r, AfterRotate(req[r].op))
    BY <1>8, <1>a, RotateDoes
  <2>2. \/ acct' = acct /\ ~Exists(req[r].on)
        \/ \E row : /\ Exists(req[r].on) /\ Rewritten(req[r].on, row)
                    /\ SameButKey(row, acct[req[r].on]) /\ row.rec = clock + 1
    BY <1>8, <1>a, RotateDoes
  <2>3. RowsGrow
    BY <1>a, <2>2, SameGrow, RewrittenGrow DEF SameButKey
  <2>4. PICK q : /\ Becomes(r, q)
                 /\ \/ q = Idle
                    \/ /\ Kin(q, req[r]) /\ q.pw = req[r].pw
                       /\ q.pc = AfterRotate(req[r].op)
    BY <2>1 DEF Proceeds, Goes, Ends
  <2>5. CASE req[r].op \in {"create", "bootstrap"}
    <3>1. PICK p : Becomes(r, p) /\ Kin(p, req[r]) /\ p.pw = req[r].pw /\ p.pc = "prov"
      BY <2>1, <2>5 DEF Proceeds, Goes, AfterRotate
    <3>2. Supplied(p)
      BY <1>b, <2>1, <2>5, <3>1 DEF Supplied, At, Kin
    <3>3. \A u \in User : Exists(u)' /\ Creating(req[r], u) =>
            /\ p.on = u /\ p.op \in {"create", "bootstrap"}
            /\ p.pc \in {"rotate", "prov", "rollback"}
            /\ p.pc # "rotate" => acct'[u].rec # 0
      <4> SUFFICES ASSUME NEW u \in User, Exists(u)', Creating(req[r], u)
                   PROVE  /\ p.on = u /\ p.op \in {"create", "bootstrap"} /\ p.pc = "prov"
                          /\ acct'[u].rec # 0
        OBVIOUS
      <4>1. p.on = u /\ p.op \in {"create", "bootstrap"} /\ p.pc = "prov" /\ req[r].on = u
        BY <2>5, <3>1 DEF Creating, Kin
      <4>2. acct'[u].rec # 0
        BY <1>a, <2>2, <4>1 DEF Rewritten, Exists
      <4>3. QED BY <4>1, <4>2
    <3>4. QED BY <2>3, <3>1, <3>2, <3>3, CompleteKept DEF RowsGrow, Goal
  <2>6. CASE req[r].op = "recover"
    <3>1. Goes(r, "drop")
      BY <2>1, <2>6 DEF Proceeds, AfterRotate
    <3>2. QED BY <1>2, <2>3, <2>6, <3>1
  <2>7. CASE req[r].op \notin {"create", "bootstrap", "recover"}
    BY <1>1, <2>1, <2>3, <2>7 DEF Proceeds, AfterRotate
  <2>8. QED BY <2>5, <2>6, <2>7
<1>9. CASE EnsureRecoveryKey(r)
  <2>1. /\ acct' = acct /\ req[r].op = "getkey" /\ At(r, "getkey")
        /\ Ends(r) \/ Goes(r, "rotate")
    BY <1>9, <1>a, EnsureDoes, OpOfPc DEF Quiet
  <2>2. QED BY <1>1, <1>2, <2>1, SameGrow
<1>10. CASE DropSessions(r)
  <2>1. /\ acct' = acct /\ At(r, "drop")
        /\ \/ Goes(r, "session") \/ Ends(r)
           \/ Goes(r, "prov") /\ req[r].op # "recover"
    BY <1>10, <1>a, DropDoes
  <2>2. QED BY <1>1, <1>2, <2>1, SameGrow DEF At
<1>11. CASE Provision(r)
  <2>1. At(r, "prov") /\ Proceeds(r, AfterProvision(req[r].op)) /\ Exists(req[r].on)
    BY <1>11, <1>a, ProvisionDoes
  <2>2. PICK row : /\ Rewritten(req[r].on, row) /\ row.rec = acct[req[r].on].rec
                   /\ row.bw = IF acct[req[r].on].bw # 0 /\ acct[req[r].on].used = "now"
                               THEN acct[req[r].on].bw ELSE req[r].pw
    BY <1>11, <1>a, ProvisionDoes
  <2>3. row.bw # 0
    BY <1>b, <2>1, <2>2 DEF Supplied, At
  <2>4. RowsGrow
    BY <2>1, <2>2, <2>3, RewrittenGrow
  <2>5. CASE req[r].op \in {"create", "bootstrap"}
    <3>1. Becomes(r, Idle) /\ Supplied(Idle)
      BY <2>1, <2>5, IdleFacts DEF Proceeds, AfterProvision, Ends, Supplied
    <3>2. ASSUME NEW u \in User, Creating(req[r], u)
          PROVE  acct'[u].bw # 0 /\ acct'[u].rec # 0
      BY <2>1, <2>2, <2>3, <3>2 DEF Creating, Rewritten, At
    <3>3. QED BY <2>4, <3>1, <3>2, CompleteKept DEF RowsGrow, Goal
  <2>6. CASE req[r].op \notin {"create", "bootstrap"}
    <3>1. Ends(r) \/ Goes(r, "rotate")
      BY <2>1 DEF Proceeds, AfterProvision
    <3>2. QED BY <1>1, <1>2, <2>4, <2>6, <3>1
  <2>7. QED BY <2>5, <2>6
<1>12. CASE ProvisionFails(r)
  <2>1. /\ acct' = acct /\ At(r, "prov")
        /\ \/ Goes(r, "rollback") /\ req[r].op \in {"create", "bootstrap"}
           \/ Proceeds(r, AfterProvision(req[r].op)) /\ req[r].op \notin {"create", "bootstrap"}
    BY <1>12, <1>a, ProvisionFailsDoes DEF Quiet
  <2>2. CASE req[r].op \in {"create", "bootstrap"}
    <3>1. PICK p : Becomes(r, p) /\ Kin(p, req[r]) /\ p.pc = "rollback"
      BY <2>1, <2>2 DEF Goes
    <3>2. Supplied(p)
      BY <3>1 DEF Supplied
    <3>3. ASSUME NEW u \in User, Creating(req[r], u)
          PROVE  p.on = u /\ p.op \in {"create", "bootstrap"} /\ acct'[u].rec # 0
      BY <2>1, <2>2, <3>1, <3>3 DEF Creating, Kin, At
    <3>4. QED BY <2>1, <3>1, <3>2, <3>3, SameGrow, CompleteKept DEF RowsGrow, Goal
  <2>3. CASE req[r].op \notin {"create", "bootstrap"}
    <3>1. Ends(r) \/ Goes(r, "rotate")
      BY <2>1, <2>3 DEF Proceeds, AfterProvision
    <3>2. QED BY <1>1, <1>2, <2>1, <2>3, <3>1, SameGrow
  <2>4. QED BY <2>2, <2>3
<1>13. CASE RollBackAccount(r) \/ EraseUser(r)
  <2>1. /\ Ends(r)
        /\ \/ acct' = acct /\ ~Exists(req[r].on)
           \/ \E row : Rewritten(req[r].on, row) /\ row.role = "deleted"
    BY <1>13, <1>a, EraseDoes
  <2>2. RowsGrow
    BY <2>1, SameGrow, RewrittenGrow
  <2>3. Becomes(r, Idle) /\ Supplied(Idle)
    BY <2>1, IdleFacts DEF Ends, Supplied
  <2>4. ASSUME NEW u \in User, Creating(req[r], u) PROVE ~Exists(u)'
    BY <2>1, <2>4 DEF Creating, Rewritten, Exists
  <2>5. QED BY <2>2, <2>3, <2>4, CompleteKept DEF RowsGrow, Goal
<1>14. CASE ReadTarget(r) \/ EnsureAnotherAdmin(r)
  BY <1>1, <1>2, <1>14, <1>a, LookDoes, SameGrow DEF Quiet, At
<1>15. CASE WriteUser(r)
  <2>1. At(r, "write") /\ RowsGrow
    <3>1. \/ acct' = acct
          \/ \E row : /\ Exists(req[r].on) /\ Rewritten(req[r].on, row)
                      /\ row.rec = acct[req[r].on].rec /\ row.bw = acct[req[r].on].bw
      BY <1>15, <1>a, WriteDoes DEF Quiet
    <3>2. QED BY <1>15, <1>a, <3>1, WriteDoes, SameGrow, RewrittenGrow
  <2>2. CASE Ends(r)
    BY <1>1, <2>1, <2>2 DEF At
  <2>3. CASE ~Ends(r)
    <3>1. PICK q : Becomes(r, q) /\ q.pw = clock + 1
      BY <1>15, <1>a, <2>3, WriteDoes
    <3>2. QED BY <1>a, <2>1, <3>1, CompleteAside DEF At, Supplied, Goal
  <2>4. QED BY <2>2, <2>3
<1>16. CASE InsertAccount(r)
  <2>1. At(r, "insert") /\ req[r].op \in {"create", "bootstrap"}
    BY <1>16, <1>a, InsertDoes, OpOfPc
  <2>2. CASE Ends(r) /\ Quiet
    BY <1>1, <2>1, <2>2, SameGrow DEF At, Quiet
  <2>3. CASE ~(Ends(r) /\ Quiet)
    <3>1. PICK q : Becomes(r, q) /\ Kin(q, req[r]) /\ q.pw = clock + 1 /\ q.pc = "rotate"
      BY <1>16, <1>a, <2>3, InsertDoes
    <3>2. /\ req[r].on \in User => \E row : Rewritten(req[r].on, row)
          /\ req[r].on \notin User => acct' = acct
      BY <1>16, <1>a, <2>3, InsertDoes
    <3>3. Supplied(q) /\ q.on = req[r].on /\ q.op \in {"create", "bootstrap"}
      BY <1>a, <2>1, <3>1 DEF Supplied, Kin
    <3>4. ASSUME NEW u \in User, u # req[r].on PROVE acct'[u] = acct[u]
      BY <3>2, <3>4 DEF Rewritten
    <3>5. \A u \in User : Exists(u)' =>
             \/ /\ Exists(u) /\ (acct[u].rec # 0 => acct'[u].rec # 0)
                /\ (acct[u].bw # 0 => acct'[u].bw # 0)
             \/ q.on = u /\ q.op \in {"create", "bootstrap"} /\ q.pc = "rotate"
      BY <3>1, <3>3, <3>4 DEF Exists
    <3>6. \A u \in User : ~Creating(req[r], u)
      BY <2>1 DEF Creating, At
    <3>7. QED BY <3>1, <3>3, <3>5, <3>6, CompleteKept DEF Goal
  <2>4. QED BY <2>2, <2>3
<1>17. QED BY <1>3, <1>4, <1>5, <1>6, <1>7, <1>8, <1>9, <1>10, <1>11, <1>12, <1>13, <1>14, <1>15,
              <1>16 DEF Advance

\* Every step keeps the accounts complete or under creation.
LEMMA CompleteStep ==
  ASSUME "disconnect" \notin Faults, "restart" \notin Faults, CompleteInv, [Next]_vars
  PROVE  CompleteInv'
<1> DEFINE Goal == /\ \A p \in Request : Supplied(req'[p])
                   /\ \A u \in User \ (Admins \cup Plain) :
                        Exists(u)' => Complete(u)' \/ \E p \in Request : Creating(req[p], u)'
<1>1. TypeOK' /\ HandlersOnPath' /\ Live'
  BY NextTypeAndPath, LiveStep DEF CompleteInv
<1>2. ASSUME NEW r \in Request, Arrive(r) PROVE Goal
  <2>1. acct' = acct /\ At(r, "idle") /\ \E q : Becomes(r, q) /\ Fresh(q)
    BY <1>2, ArriveDoes DEF CompleteInv, Quiet
  <2>2. PICK q : Becomes(r, q) /\ Supplied(q)
    BY <2>1 DEF Fresh, Supplied
  <2>3. QED BY <2>1, <2>2, SameGrow, CompleteAside DEF At
<1>3. ASSUME NEW r \in Request, Advance(r) PROVE Goal
  BY <1>3, CompleteAdvance
<1>4. ASSUME [\/ \E r \in Request : Disconnect(r)
              \/ \E s \in Session : EndSession(s)
              \/ \E u \in User : UseClient(u) \/ ForgetClients(u)
              \/ Serve \/ Restart]_vars
      PROVE  Goal
  <2>1. \A r \in Request : req'[r] = req[r]
    BY <1>4, AroundDoes DEF CompleteInv
  <2>2. \A u \in User : /\ Exists(u)' <=> Exists(u)
                        /\ acct'[u].rec = acct[u].rec /\ acct'[u].bw = acct[u].bw
    BY <1>4, AroundDoes DEF CompleteInv
  <2>3. \A p \in Request : Supplied(req'[p])
    BY <2>1 DEF CompleteInv
  <2>4. ASSUME NEW u \in User \ (Admins \cup Plain), Exists(u)'
        PROVE  Complete(u)' \/ \E p \in Request : Creating(req[p], u)'
    BY <2>1, <2>2, <2>4 DEF CompleteInv, Complete, Creating
  <2>5. QED BY <2>3, <2>4
<1>5. Goal
  BY <1>2, <1>3, <1>4 DEF Next, Proceed
<1>6. CompleteInv'
  <2>1. (\A p \in Request : Supplied(req[p]))'
    BY <1>5
  <2>2. QED BY <1>1, <1>5, <2>1 DEF CompleteInv
<1>7. QED BY <1>6

\* The server starts with no account of its own creation.
LEMMA CompleteInit == Init => CompleteInv
<1> SUFFICES ASSUME Init PROVE CompleteInv
  OBVIOUS
<1>1. Live /\ \A r \in Request : Supplied(req[r])
  BY IdleFacts DEF Init, Live, Supplied
<1>2. \A u \in User \ (Admins \cup Plain) : ~Exists(u)
  BY DEF Init, Exists, FirstAccount, Absent
<1>3. QED BY <1>1, <1>2, InitTypeAndPath DEF CompleteInv

\* However the requests interleave and whether or not provisioning fails, an
\* account created by the panel whose creation is over can open its Bitwarden
\* vault and has a recovery key, provided no client disconnects in the middle
\* of a creation and the server does not die.
THEOREM CreationSafe ==
  ASSUME "disconnect" \notin Faults, "restart" \notin Faults
  PROVE  Spec => []AccountsComplete
<1>1. CompleteInv /\ [Next]_vars => CompleteInv'
  BY CompleteStep
<1>2. CompleteInv => AccountsComplete
  BY DEF CompleteInv, AccountsComplete, Complete, Creating, Busy
<1>3. QED BY CompleteInit, <1>1, <1>2, PTL DEF Spec

-----------------------------------------------------------------------------
(* The Bitwarden vault follows the panel password, one request per account.   *)

\* Request q will still provision the account with the password it has set.
ToProvision(q) == \/ q.pc = "prov"
                  \/ q.pc = "drop" /\ (q.op = "clireset" \/ (q.op = "update" /\ q.reset))
                  \/ q.pc = "rotate" /\ q.op \in {"create", "bootstrap"}

\* The password a request has at hand is the one in the account's row.
InHand(q) == (q.pc = "rehash" \/ ToProvision(q)) /\ Exists(q.on) => q.pw = acct[q.on].pw

Opens(u) == acct[u].bw = 0 \/ acct[u].bw = acct[u].pw

FollowInv == /\ TypeOK /\ HandlersOnPath /\ Live
             /\ \A r \in Request : InHand(req[r])
             /\ \A u \in User : Exists(u) /\ acct[u].used = "never"
                  => Opens(u) \/ \E r \in Request : req[r].on = u /\ ToProvision(req[r])

\* The account does not appear and has no other password, vault or device.
Steady(v) == Exists(v)' => /\ Exists(v) /\ acct'[v].pw = acct[v].pw /\ acct'[v].bw = acct[v].bw
                           /\ acct'[v].used = acct[v].used

\* A statement of request r that touches no account but its own.
LEMMA FollowKept ==
  ASSUME OneByOne, FollowInv, NEW r \in Request, NEW q, Becomes(r, q),
         \A v \in User : v # req[r].on => Steady(v),
         (q.pc = "rehash" \/ ToProvision(q)) /\ Exists(q.on)' => q.pw = acct'[q.on].pw,
         \A u \in User : u = req[r].on /\ Exists(u)' /\ acct'[u].used = "never"
           => Opens(u)' \/ (q.on = u /\ ToProvision(q))
  PROVE  /\ \A p \in Request : InHand(req[p])'
         /\ \A u \in User : Exists(u)' /\ acct'[u].used = "never"
              => Opens(u)' \/ \E p \in Request : req'[p].on = u /\ ToProvision(req'[p])
<1>1. req'[r] = q /\ \A p \in Request : p # r => req'[p] = req[p]
  BY DEF Becomes
<1>2. ASSUME NEW p \in Request PROVE InHand(req[p])'
  <2>1. CASE p = r
    BY <1>1, <2>1 DEF InHand, ToProvision, Exists
  <2>2. CASE p # r
    <3>1. req'[p] = req[p] /\ InHand(req[p])
      BY <1>1, <2>2 DEF FollowInv
    <3>2. CASE req[p].on \in User
      <4>1. PICK v \in User : v = req[p].on
        BY <3>2
      <4>2. v # req[r].on
        BY <2>2, <4>1, ConstantsAssumption DEF OneByOne
      <4>3. Exists(v)' => Exists(v) /\ acct'[v].pw = acct[v].pw
        BY <4>2 DEF Steady
      <4>4. QED BY <3>1, <4>1, <4>3 DEF InHand, ToProvision, Exists
    <3>3. CASE req[p].on \notin User
      BY <3>1, <3>3 DEF InHand, Exists
    <3>4. QED BY <3>2, <3>3
  <2>3. QED BY <2>1, <2>2
<1>3. ASSUME NEW u \in User, Exists(u)', acct'[u].used = "never"
      PROVE  Opens(u)' \/ \E p \in Request : req'[p].on = u /\ ToProvision(req'[p])
  <2>1. CASE u = req[r].on
    BY <1>1, <1>3, <2>1
  <2>2. CASE u # req[r].on
    <3>1. /\ Exists(u) /\ acct'[u].pw = acct[u].pw /\ acct'[u].bw = acct[u].bw
          /\ acct[u].used = "never"
      BY <1>3, <2>2 DEF Steady
    <3>2. Opens(u) => Opens(u)'
      BY <3>1 DEF Opens
    <3>3. ASSUME NEW p \in Request, req[p].on = u, ToProvision(req[p])
          PROVE  req'[p].on = u /\ ToProvision(req'[p])
      BY <1>1, <2>2, <3>3
    <3>4. QED BY <3>1, <3>2, <3>3 DEF FollowInv
  <2>3. QED BY <2>1, <2>2
<1>4. QED BY <1>2, <1>3

\* No account appears or has another password, vault or device.
RowsSteady == \A u \in User : Steady(u)

\* A statement touches no account but the one whose row it rewrites.
LEMMA OthersSteady ==
  ASSUME NEW u, acct' = acct \/ \E row : Rewritten(u, row)
  PROVE  \A v \in User : v # u => Steady(v)
BY DEF Rewritten, Steady, Exists

\* A statement that leaves the accounts alone is steady.
LEMMA SameSteady == acct' = acct => RowsSteady
BY DEF RowsSteady, Steady, Exists

\* So is one that deletes a row or keeps its password, vault and devices.
LEMMA RewrittenSteady ==
  ASSUME NEW u, NEW row, Rewritten(u, row),
         \/ row.role = "deleted"
         \/ Exists(u) /\ row.pw = acct[u].pw /\ row.bw = acct[u].bw /\ row.used = acct[u].used
  PROVE  RowsSteady
BY DEF Rewritten, RowsSteady, Steady, Exists

\* A statement that leaves passwords and vaults alone.
LEMMA FollowAside ==
  ASSUME OneByOne, FollowInv, NEW r \in Request, NEW q, Becomes(r, q), RowsSteady,
         ToProvision(req[r]) => ToProvision(q) /\ q.on = req[r].on /\ q.pw = req[r].pw,
         q.pc # "rehash", ToProvision(q) => ToProvision(req[r])
  PROVE  /\ \A p \in Request : InHand(req[p])'
         /\ \A u \in User : Exists(u)' /\ acct'[u].used = "never"
              => Opens(u)' \/ \E p \in Request : req'[p].on = u /\ ToProvision(req'[p])
<1>1. (q.pc = "rehash" \/ ToProvision(q)) /\ Exists(q.on)' => q.pw = acct'[q.on].pw
  <2> SUFFICES ASSUME ToProvision(q), Exists(q.on)' PROVE q.pw = acct'[q.on].pw
    OBVIOUS
  <2>1. ToProvision(req[r]) /\ q.on = req[r].on /\ q.pw = req[r].pw
    OBVIOUS
  <2>2. q.on \in User
    BY DEF Exists
  <2>3. Exists(q.on) /\ acct'[q.on].pw = acct[q.on].pw
    BY <2>2 DEF RowsSteady, Steady
  <2>4. InHand(req[r])
    BY DEF FollowInv
  <2>5. QED BY <2>1, <2>3, <2>4 DEF InHand
<1>2. ASSUME NEW u \in User, u = req[r].on, Exists(u)', acct'[u].used = "never"
      PROVE  Opens(u)' \/ (q.on = u /\ ToProvision(q))
  <2>1. /\ Exists(u) /\ acct'[u].pw = acct[u].pw /\ acct'[u].bw = acct[u].bw
        /\ acct[u].used = "never"
    BY <1>2 DEF RowsSteady, Steady
  <2>2. CASE Opens(u)
    BY <2>1, <2>2 DEF Opens
  <2>3. CASE ~Opens(u)
    <3>1. PICK p \in Request : req[p].on = u /\ ToProvision(req[p])
      BY <2>1, <2>3 DEF FollowInv
    <3>2. p = r
      BY <1>2, <3>1, ConstantsAssumption DEF OneByOne
    <3>3. QED BY <3>1, <3>2
  <2>4. QED BY <2>2, <2>3
<1>3. QED BY <1>1, <1>2, FollowKept DEF RowsSteady

\* Every statement keeps vaults in step with passwords, or on their way.
LEMMA FollowAdvance ==
  ASSUME OneByOne, "provision" \notin Faults, FollowInv, NEW r \in Request, Advance(r)
  PROVE  /\ \A p \in Request : InHand(req[p])'
         /\ \A u \in User : Exists(u)' /\ acct'[u].used = "never"
              => Opens(u)' \/ \E p \in Request : req'[p].on = u /\ ToProvision(req'[p])
<1> DEFINE Goal == /\ \A p \in Request : InHand(req[p])'
                   /\ \A u \in User : Exists(u)' /\ acct'[u].used = "never"
                        => Opens(u)' \/ \E p \in Request : req'[p].on = u /\ ToProvision(req'[p])
<1>a. ~Fails(r) /\ TypeOK /\ HandlersOnPath
  BY DEF FollowInv, Fails, Live
<1>b. InHand(req[r])
  BY DEF FollowInv
<1>c. ASSUME NEW u \in User, u = req[r].on, Exists(u), acct[u].used = "never", ~Opens(u)
      PROVE  ToProvision(req[r])
  BY <1>c, ConstantsAssumption DEF FollowInv, OneByOne
<1>1. ASSUME Ends(r), RowsSteady, ~ToProvision(req[r]) PROVE Goal
  BY <1>1, FollowAside, IdleFacts DEF Ends, ToProvision
<1>2. ASSUME NEW pc, Goes(r, pc), RowsSteady, pc # "rehash",
             ToProvision(req[r]) => pc = "prov",
             ~ToProvision(req[r]) => /\ pc # "prov"
                                     /\ pc = "drop" => req[r].op = "recover"
                                     /\ pc = "rotate" => req[r].op \notin {"create", "bootstrap"}
      PROVE  Goal
  <2>1. PICK q : Becomes(r, q) /\ q.pc = pc /\ Kin(q, req[r]) /\ q.pw = req[r].pw
    BY <1>2 DEF Goes
  <2>2. /\ ToProvision(req[r]) => ToProvision(q) /\ q.on = req[r].on
        /\ ToProvision(q) => ToProvision(req[r])
    BY <1>2, <2>1 DEF ToProvision, Kin
  <2>3. QED BY <1>2, <2>1, <2>2, FollowAside
<1> SUFFICES Goal
  OBVIOUS
<1> HIDE DEF Goal
<1>3. CASE LoginRehash(r)
  <2>1. Goes(r, "session") /\ At(r, "rehash") /\ ~ToProvision(req[r])
    BY <1>3, <1>a, RehashDoes DEF At, ToProvision
  <2>2. \/ acct' = acct
        \/ \E row : /\ Exists(req[r].on) /\ Rewritten(req[r].on, row)
                    /\ SameButPassword(row, acct[req[r].on]) /\ row.pw = req[r].pw
    BY <1>3, <1>a, RehashDoes
  <2>3. Exists(req[r].on) => req[r].pw = acct[req[r].on].pw
    BY <1>b, <2>1 DEF InHand, At
  <2>4. RowsSteady
    BY <2>2, <2>3, SameSteady, RewrittenSteady DEF SameButPassword
  <2>5. QED BY <1>2, <2>1, <2>4
<1>4. ASSUME NEW s \in Session, CreateSession(r, s) PROVE Goal
  BY <1>1, <1>4, <1>a, SessionDoes, SameSteady DEF At, ToProvision
<1>5. ASSUME NEW p \in 1..clock, CheckPassword(r, p) PROVE Goal
  <2>1. /\ acct' = acct /\ At(r, "check") /\ req[r].op \in {"change", "regenerate"}
        /\ Ends(r) \/ Goes(r, "setpw") \/ Goes(r, "rotate")
    BY <1>5, <1>a, CheckDoes, OpOfPc DEF Quiet
  <2>2. QED BY <1>1, <1>2, <2>1, SameSteady DEF At, ToProvision
<1>6. CASE SetPassword(r)
  <2>1. At(r, "setpw") /\ ~ToProvision(req[r]) /\ req[r].op \in {"change", "recover", "clireset"}
    BY <1>6, <1>a, SetPasswordDoes, OpOfPc DEF At, ToProvision
  <2>2. PICK q : /\ Becomes(r, q) /\ Kin(q, req[r]) /\ q.pw = clock + 1
                 /\ q.pc = IF req[r].op = "clireset" THEN "drop" ELSE "prov"
    BY <1>6, <1>a, SetPasswordDoes
  <2>3. ToProvision(q) /\ q.on = req[r].on
    BY <2>1, <2>2 DEF ToProvision, Kin
  <2>4. \/ acct' = acct /\ ~Exists(req[r].on)
        \/ \E row : Rewritten(req[r].on, row) /\ row.pw = clock + 1
    BY <1>6, <1>a, SetPasswordDoes
  <2>5. Exists(q.on)' => q.pw = acct'[q.on].pw
    BY <2>2, <2>3, <2>4 DEF Rewritten, Exists
  <2>6. \A v \in User : v # req[r].on => Steady(v)
    BY <2>4, OthersSteady
  <2>7. QED BY <2>2, <2>3, <2>5, <2>6, FollowKept DEF Goal
<1>7. CASE RefusePassword(r)
  BY <1>1, <1>7, <1>a, RefuseDoes, SameSteady DEF Quiet, At, ToProvision
<1>8. CASE RotateRecoveryKey(r)
  <2>1. At(r, "rotate") /\ Proceeds(r, AfterRotate(req[r].op))
    BY <1>8, <1>a, RotateDoes
  <2>2. \/ acct' = acct
        \/ \E row : /\ Exists(req[r].on) /\ Rewritten(req[r].on, row)
                    /\ SameButKey(row, acct[req[r].on])
    BY <1>8, <1>a, RotateDoes
  <2>3. RowsSteady
    BY <2>2, SameSteady, RewrittenSteady DEF SameButKey
  <2>4. \/ Goes(r, "prov") /\ req[r].op \in {"create", "bootstrap"}
        \/ Goes(r, "drop") /\ req[r].op = "recover"
        \/ Ends(r) /\ req[r].op \notin {"create", "bootstrap"}
    BY <2>1 DEF Proceeds, AfterRotate
  <2>5. ToProvision(req[r]) <=> req[r].op \in {"create", "bootstrap"}
    BY <2>1 DEF ToProvision, At
  <2>6. QED BY <1>1, <1>2, <2>3, <2>4, <2>5
<1>9. CASE EnsureRecoveryKey(r)
  <2>1. /\ acct' = acct /\ req[r].op = "getkey" /\ At(r, "getkey")
        /\ Ends(r) \/ Goes(r, "rotate")
    BY <1>9, <1>a, EnsureDoes, OpOfPc DEF Quiet
  <2>2. QED BY <1>1, <1>2, <2>1, SameSteady DEF At, ToProvision
<1>10. CASE DropSessions(r)
  <2>1. /\ acct' = acct /\ At(r, "drop")
        /\ \/ Goes(r, "session") /\ req[r].op = "recover"
           \/ Goes(r, "prov") /\ (req[r].op = "clireset" \/ (req[r].op = "update" /\ req[r].reset))
           \/ Ends(r) /\ req[r].op # "clireset" /\ ~(req[r].op = "update" /\ req[r].reset)
    BY <1>10, <1>a, DropDoes
  <2>2. QED BY <1>1, <1>2, <2>1, SameSteady DEF At, ToProvision
<1>11. CASE Provision(r)
  <2>1. /\ Proceeds(r, AfterProvision(req[r].op)) /\ Exists(req[r].on)
        /\ req[r].pw = acct[req[r].on].pw
    BY <1>11, <1>a, <1>b, ProvisionDoes DEF InHand, ToProvision, At
  <2>2. PICK row : /\ Rewritten(req[r].on, row)
                   /\ row.pw = acct[req[r].on].pw /\ row.used = acct[req[r].on].used
                   /\ row.bw = IF acct[req[r].on].bw # 0 /\ acct[req[r].on].used = "now"
                               THEN acct[req[r].on].bw ELSE req[r].pw
    BY <1>11, <1>a, ProvisionDoes
  <2>3. PICK q : Becomes(r, q) /\ q.pc # "rehash" /\ ~ToProvision(q)
    <3>1. Becomes(r, Idle) \/ (Goes(r, "rotate") /\ req[r].op = "recover")
      BY <2>1 DEF Proceeds, AfterProvision, Ends
    <3>2. QED BY <3>1, IdleFacts DEF Goes, Kin, ToProvision
  <2>4. ASSUME NEW u \in User, u = req[r].on, Exists(u)', acct'[u].used = "never" PROVE Opens(u)'
    BY <2>1, <2>2, <2>4 DEF Rewritten, Opens
  <2>5. \A v \in User : v # req[r].on => Steady(v)
    BY <2>2, OthersSteady
  <2>6. QED BY <2>3, <2>4, <2>5, FollowKept DEF Goal
<1>12. CASE ProvisionFails(r)
  <2>1. acct' = acct /\ ~Exists(req[r].on)
    BY <1>12, <1>a, ProvisionFailsDoes DEF Quiet
  <2>2. PICK q : Becomes(r, q) /\ q.pc # "rehash" /\ ~ToProvision(q)
    <3>1. \/ Goes(r, "rollback") \/ Becomes(r, Idle)
          \/ Goes(r, "rotate") /\ req[r].op = "recover"
      BY <1>12, <1>a, ProvisionFailsDoes DEF Proceeds, AfterProvision, Ends
    <3>2. QED BY <3>1, IdleFacts DEF Goes, Kin, ToProvision
  <2>3. ASSUME NEW u \in User, u = req[r].on, Exists(u)', acct'[u].used = "never" PROVE Opens(u)'
    BY <2>1, <2>3 DEF Exists
  <2>4. \A v \in User : v # req[r].on => Steady(v)
    BY <2>1, OthersSteady
  <2>5. QED BY <2>2, <2>3, <2>4, FollowKept DEF Goal
<1>13. CASE RollBackAccount(r) \/ EraseUser(r)
  <2>1. /\ Ends(r) /\ (At(r, "rollback") \/ At(r, "erase"))
        /\ \/ acct' = acct
           \/ \E row : Rewritten(req[r].on, row) /\ row.role = "deleted"
    BY <1>13, <1>a, EraseDoes
  <2>2. RowsSteady
    BY <2>1, SameSteady, RewrittenSteady
  <2>3. QED BY <1>1, <2>1, <2>2 DEF At, ToProvision
<1>14. CASE ReadTarget(r) \/ EnsureAnotherAdmin(r)
  BY <1>1, <1>2, <1>14, <1>a, LookDoes, SameSteady DEF Quiet, At, ToProvision
<1>15. CASE WriteUser(r)
  <2>1. At(r, "write") /\ ~ToProvision(req[r]) /\ req[r].op = "update"
    BY <1>15, <1>a, WriteDoes, OpOfPc DEF At, ToProvision
  <2>2. \/ acct' = acct /\ ~Exists(req[r].on)
        \/ \E row : /\ Exists(req[r].on) /\ Rewritten(req[r].on, row)
                    /\ row.bw = acct[req[r].on].bw /\ row.used = acct[req[r].on].used
                    /\ row.pw = IF req[r].reset THEN clock + 1 ELSE acct[req[r].on].pw
    BY <1>15, <1>a, WriteDoes
  <2>3. CASE Ends(r) /\ ~Revokes(r)
    <3>1. ~req[r].reset
      BY <2>1, <2>3 DEF Revokes
    <3>2. RowsSteady
      BY <2>2, <3>1, SameSteady, RewrittenSteady
    <3>3. QED BY <1>1, <2>1, <2>3, <3>2
  <2>4. CASE ~(Ends(r) /\ ~Revokes(r))
    <3>1. PICK q : Becomes(r, q) /\ Kin(q, req[r]) /\ q.pw = clock + 1 /\ q.pc = "drop"
      BY <1>15, <1>a, <2>4, WriteDoes
    <3>2. q.on = req[r].on /\ (ToProvision(q) <=> req[r].reset)
      <4>1. req[r].reset \in BOOLEAN
        BY <1>a DEF TypeOK, RequestState
      <4>2. QED BY <2>1, <3>1, <4>1 DEF ToProvision, Kin
    <3>3. Exists(q.on)' /\ ToProvision(q) => q.pw = acct'[q.on].pw
      BY <2>2, <3>1, <3>2 DEF Rewritten, Exists
    <3>4. ASSUME NEW u \in User, u = req[r].on, Exists(u)', acct'[u].used = "never"
          PROVE  Opens(u)' \/ (q.on = u /\ ToProvision(q))
      <4>1. CASE req[r].reset
        BY <3>2, <3>4, <4>1
      <4>2. CASE ~req[r].reset
        <5>1. /\ Exists(u) /\ acct'[u].pw = acct[u].pw /\ acct'[u].bw = acct[u].bw
              /\ acct[u].used = "never"
          BY <2>2, <3>4, <4>2 DEF Rewritten, Exists
        <5>2. Opens(u)
          BY <1>c, <2>1, <3>4, <5>1
        <5>3. QED BY <5>1, <5>2 DEF Opens
      <4>3. QED BY <4>1, <4>2
    <3>5. \A v \in User : v # req[r].on => Steady(v)
      BY <2>2, OthersSteady
    <3>6. q.pc # "rehash"
      BY <3>1
    <3>7. QED BY <3>1, <3>3, <3>4, <3>5, <3>6, FollowKept DEF Goal
  <2>5. QED BY <2>3, <2>4
<1>16. CASE InsertAccount(r)
  <2>1. At(r, "insert") /\ ~ToProvision(req[r]) /\ req[r].op \in {"create", "bootstrap"}
    BY <1>16, <1>a, InsertDoes, OpOfPc DEF At, ToProvision
  <2>2. CASE Ends(r) /\ Quiet
    BY <1>1, <2>1, <2>2, SameSteady DEF Quiet
  <2>3. CASE ~(Ends(r) /\ Quiet)
    <3>1. PICK q : Becomes(r, q) /\ Kin(q, req[r]) /\ q.pw = clock + 1 /\ q.pc = "rotate"
      BY <1>16, <1>a, <2>3, InsertDoes
    <3>2. /\ req[r].on \in User => \E row : Rewritten(req[r].on, row) /\ row.pw = clock + 1
          /\ req[r].on \notin User => acct' = acct
      BY <1>16, <1>a, <2>3, InsertDoes
    <3>3. ToProvision(q) /\ q.on = req[r].on
      BY <2>1, <3>1 DEF ToProvision, Kin
    <3>4. Exists(q.on)' => q.pw = acct'[q.on].pw
      BY <3>1, <3>2, <3>3 DEF Rewritten, Exists
    <3>5. \A v \in User : v # req[r].on => Steady(v)
      BY <3>2, OthersSteady
    <3>6. QED BY <3>1, <3>3, <3>4, <3>5, FollowKept DEF Goal
  <2>4. QED BY <2>2, <2>3
<1>17. QED BY <1>3, <1>4, <1>5, <1>6, <1>7, <1>8, <1>9, <1>10, <1>11, <1>12, <1>13, <1>14, <1>15,
              <1>16 DEF Advance

\* Every step keeps vaults in step with passwords, or on their way.
LEMMA FollowStep ==
  ASSUME OneByOne, "disconnect" \notin Faults, "restart" \notin Faults, "provision" \notin Faults,
         FollowInv, [Next]_vars
  PROVE  FollowInv'
<1> DEFINE Goal == /\ \A p \in Request : InHand(req[p])'
                   /\ \A u \in User : Exists(u)' /\ acct'[u].used = "never"
                        => Opens(u)' \/ \E p \in Request : req'[p].on = u /\ ToProvision(req'[p])
<1>1. TypeOK' /\ HandlersOnPath' /\ Live'
  BY NextTypeAndPath, LiveStep DEF FollowInv
<1>2. ASSUME NEW r \in Request, Arrive(r) PROVE Goal
  <2>1. acct' = acct /\ At(r, "idle")
    BY <1>2, ArriveDoes DEF FollowInv, Quiet
  <2>2. PICK q : Becomes(r, q) /\ Fresh(q)
    BY <1>2, ArriveDoes DEF FollowInv
  <2>3. ~ToProvision(q) /\ ~ToProvision(req[r])
    BY <2>1, <2>2 DEF Fresh, ToProvision, At
  <2>4. q.pc = "rehash" => q.pw = acct[q.on].pw
    BY <2>2 DEF Fresh
  <2>5. req'[r] = q /\ \A p \in Request : p # r => req'[p] = req[p]
    BY <2>2 DEF Becomes
  <2>6. ASSUME NEW p \in Request PROVE InHand(req[p])'
    <3>1. CASE p = r
      BY <2>1, <2>3, <2>4, <2>5, <3>1 DEF InHand, ToProvision, Exists
    <3>2. CASE p # r
      BY <2>1, <2>5, <3>2 DEF FollowInv, InHand, ToProvision, Exists
    <3>3. QED BY <3>1, <3>2
  <2>7. ASSUME NEW u \in User, Exists(u)', acct'[u].used = "never"
        PROVE  Opens(u)' \/ \E p \in Request : req'[p].on = u /\ ToProvision(req'[p])
    <3>1. Opens(u) \/ \E p \in Request : req[p].on = u /\ ToProvision(req[p])
      BY <2>1, <2>7 DEF FollowInv, Exists
    <3>2. Opens(u) => Opens(u)'
      BY <2>1 DEF Opens
    <3>3. ASSUME NEW p \in Request, req[p].on = u, ToProvision(req[p])
          PROVE  req'[p].on = u /\ ToProvision(req'[p])
      BY <2>3, <2>5, <3>3
    <3>4. QED BY <3>1, <3>2, <3>3
  <2>8. QED BY <2>6, <2>7
<1>3. ASSUME NEW r \in Request, Advance(r) PROVE Goal
  BY <1>3, FollowAdvance
<1>4. ASSUME [\/ \E r \in Request : Disconnect(r)
              \/ \E s \in Session : EndSession(s)
              \/ \E u \in User : UseClient(u) \/ ForgetClients(u)
              \/ Serve \/ Restart]_vars
      PROVE  Goal
  <2>1. \A r \in Request : req'[r] = req[r]
    BY <1>4, AroundDoes DEF FollowInv
  <2>2. \A u \in User : /\ Exists(u)' <=> Exists(u)
                        /\ acct'[u].pw = acct[u].pw /\ acct'[u].bw = acct[u].bw
                        /\ acct'[u].used = "never" => acct[u].used = "never"
    BY <1>4, AroundDoes DEF FollowInv
  <2>3. ASSUME NEW p \in Request PROVE InHand(req[p])'
    <3>1. InHand(req[p]) /\ req'[p] = req[p]
      BY <2>1 DEF FollowInv
    <3>2. CASE req[p].on \in User
      <4>1. PICK u \in User : u = req[p].on
        BY <3>2
      <4>2. (Exists(u)' <=> Exists(u)) /\ acct'[u].pw = acct[u].pw
        BY <2>2
      <4>3. QED BY <3>1, <4>1, <4>2 DEF InHand, ToProvision, Exists
    <3>3. CASE req[p].on \notin User
      BY <3>1, <3>3 DEF InHand, Exists
    <3>4. QED BY <3>2, <3>3
  <2>4. ASSUME NEW u \in User, Exists(u)', acct'[u].used = "never"
        PROVE  Opens(u)' \/ \E p \in Request : req'[p].on = u /\ ToProvision(req'[p])
    BY <2>1, <2>2, <2>4 DEF FollowInv, Opens
  <2>5. QED BY <2>3, <2>4
<1>5. Goal
  BY <1>2, <1>3, <1>4 DEF Next, Proceed
<1>6. QED BY <1>1, <1>5 DEF FollowInv, ToProvision

\* Vaults and passwords agree when the server starts.
LEMMA FollowInit == Init => FollowInv
<1> SUFFICES ASSUME Init PROVE FollowInv
  OBVIOUS
<1>1. Live /\ \A r \in Request : InHand(req[r])
  BY IdleFacts DEF Init, Live, InHand, ToProvision
<1>2. ASSUME NEW u \in User, Exists(u) PROVE Opens(u)
  <2>1. acct[u] = FirstAccount(u) /\ u \in Admins \cup Plain
    BY <1>2 DEF Init, Exists, FirstAccount, Absent
  <2>2. FirstAccount(u).pw = 1 /\ FirstAccount(u).bw \in {0, 1}
    BY <2>1 DEF FirstAccount, Absent
  <2>3. QED BY <2>1, <2>2 DEF Opens
<1>3. QED BY <1>1, <1>2, InitTypeAndPath DEF FollowInv

\* When the requests for an account follow one another, the panel password opens
\* the Bitwarden vault until a client is used, whatever requests for other accounts
\* do meanwhile, provided no client disconnects and no provisioning fails between
\* the UPDATE and ProvisionUser, and the server does not die there.
THEOREM FollowSafe ==
  ASSUME "disconnect" \notin Faults, "restart" \notin Faults, "provision" \notin Faults
  PROVE  TurnSpec => []VaultFollowsPassword
<1>1. OneByOne /\ FollowInv /\ [TurnNext]_vars => OneByOne' /\ FollowInv'
  <2>1. [TurnNext]_vars => [Next]_vars
    BY DEF TurnNext, Next
  <2>2. QED BY <2>1, TurnStep, FollowStep DEF FollowInv
<1>2. FollowInv => VaultFollowsPassword
  BY DEF FollowInv, VaultFollowsPassword, Opens, Busy
<1>3. QED BY TurnInit, FollowInit, <1>1, <1>2, PTL DEF TurnSpec

-----------------------------------------------------------------------------
(* A recovery key is spent once, one request per account.                     *)

\* The key a recovery holds has not been spent, and once it has been rotated
\* away it is not the account's any more.
HoldsFreshKey(q) ==
  q.op = "recover" =>
    /\ q.key # 0 /\ q.key =< clock /\ <<q.on, q.key>> \notin spent
    /\ q.pc \in {"drop", "session"} /\ Exists(q.on) => acct[q.on].rec # q.key

KeyInv == /\ TypeOK /\ HandlersOnPath
          /\ \A u \in User : acct[u].rec =< clock
          /\ \A u \in User, k \in Nat :
               <<u, k>> \in spent => k # 0 /\ k =< clock /\ k # acct[u].rec
          /\ \A r \in Request : HoldsFreshKey(req[r])

\* Only the row of u may change, and its recovery key stays, vanishes or is new.
Turns(u) == \/ acct' = acct
            \/ \E row : /\ Rewritten(u, row)
                       /\ \/ row.rec = acct[u].rec \/ row.rec = 0
                          \/ clock' = clock + 1 /\ row.rec = clock + 1

Ticks == clock' = clock \/ clock' = clock + 1

\* A statement that leaves the accounts alone leaves their keys.
LEMMA SameTurn == ASSUME NEW u, acct' = acct PROVE Turns(u)
BY DEF Turns

\* Rewriting a row with the old, no or a new key.
LEMMA RewrittenTurn ==
  ASSUME NEW u, NEW row, Rewritten(u, row),
         row.rec = acct[u].rec \/ row.rec = 0 \/ (clock' = clock + 1 /\ row.rec = clock + 1)
  PROVE  Turns(u)
BY DEF Turns

\* Turning keys over keeps the spent ones away from the accounts.
LEMMA KeyRows ==
  ASSUME KeyInv, Ticks, NEW on, Turns(on), spent' = spent
  PROVE  /\ \A u \in User : acct'[u].rec =< clock'
         /\ \A u \in User, k \in Nat :
              <<u, k>> \in spent' => k # 0 /\ k =< clock' /\ k # acct'[u].rec
<1>1. clock \in Nat
  BY DEF KeyInv, TypeOK
<1>a. \A u \in User : \/ acct'[u].rec = acct[u].rec \/ acct'[u].rec = 0
                      \/ clock' = clock + 1 /\ acct'[u].rec = clock + 1
  BY DEF Turns, Rewritten
<1>2. ASSUME NEW u \in User PROVE acct'[u].rec =< clock'
  <2>1. acct[u].rec \in Nat /\ acct[u].rec =< clock
    BY DEF KeyInv, TypeOK, Account
  <2>2. QED BY <1>1, <1>a, <2>1 DEF Ticks
<1>3. ASSUME NEW u \in User, NEW k \in Nat, <<u, k>> \in spent'
      PROVE  k # 0 /\ k =< clock' /\ k # acct'[u].rec
  <2>1. k # 0 /\ k =< clock /\ k # acct[u].rec
    BY <1>3 DEF KeyInv
  <2>2. QED BY <1>1, <1>a, <2>1 DEF Ticks
<1>4. QED BY <1>2, <1>3

\* What a statement must respect for spent keys to stay spent.
LEMMA KeyKept ==
  ASSUME OneByOne, KeyInv, NEW r \in Request, NEW q, Becomes(r, q), Ticks, Turns(req[r].on),
         spent' = spent,
         \/ q.op # "recover"
         \/ /\ Kin(q, req[r])
            /\ q.pc \in {"drop", "session"} =>
                 \/ req[r].pc \in {"drop", "session"} /\ acct' = acct
                 \/ ~Exists(q.on)'
                 \/ clock' = clock + 1 /\ acct'[q.on].rec = clock + 1
  PROVE  KeyInv' \/ ~(TypeOK' /\ HandlersOnPath')
<1>1. req'[r] = q /\ \A p \in Request : p # r => req'[p] = req[p]
  BY DEF Becomes
<1>2. clock \in Nat /\ req[r].key \in Nat
  BY DEF KeyInv, TypeOK, RequestState
<1>3. HoldsFreshKey(req[r])
  BY DEF KeyInv
<1>4. ASSUME q.op = "recover"
      PROVE  /\ q.key # 0 /\ q.key =< clock' /\ <<q.on, q.key>> \notin spent'
             /\ q.pc \in {"drop", "session"} /\ Exists(q.on)' => acct'[q.on].rec # q.key
  <2>1. q.key = req[r].key /\ q.on = req[r].on /\ req[r].op = "recover"
    BY <1>4 DEF Kin
  <2>2. q.key # 0 /\ q.key =< clock /\ <<q.on, q.key>> \notin spent
    BY <1>3, <2>1 DEF HoldsFreshKey
  <2>3. ASSUME q.pc \in {"drop", "session"}, Exists(q.on)' PROVE acct'[q.on].rec # q.key
    <3>1. CASE req[r].pc \in {"drop", "session"} /\ acct' = acct
      BY <1>3, <2>1, <2>3, <3>1 DEF HoldsFreshKey, Exists
    <3>2. CASE acct'[q.on].rec = clock + 1
      BY <1>2, <2>1, <2>2, <3>2
    <3>3. QED BY <1>4, <2>3, <3>1, <3>2
  <2>4. QED BY <1>2, <2>1, <2>2, <2>3 DEF Ticks
<1>5. ASSUME NEW p \in Request, p # r PROVE HoldsFreshKey(req[p])'
  <2>1. req'[p] = req[p] /\ HoldsFreshKey(req[p]) /\ req[p].key \in Nat
    BY <1>1, <1>5 DEF KeyInv, TypeOK, RequestState
  <2>2. PICK u : u = req[p].on
    OBVIOUS
  <2>3. u \in User => acct'[u] = acct[u]
    BY <1>5, <2>2, ConstantsAssumption DEF OneByOne, Turns, Rewritten
  <2>4. clock =< clock' /\ clock' \in Nat
    BY <1>2 DEF Ticks
  <2>5. req[p].op = "recover" =>
          /\ req[p].key # 0 /\ req[p].key =< clock' /\ <<u, req[p].key>> \notin spent
          /\ req[p].pc \in {"drop", "session"} /\ Exists(u) => acct[u].rec # req[p].key
    BY <1>2, <2>1, <2>2, <2>4 DEF HoldsFreshKey, Exists
  <2>6. QED BY <2>1, <2>2, <2>3, <2>5 DEF HoldsFreshKey, Exists
<1>6. HoldsFreshKey(req[r])'
  BY <1>1, <1>4 DEF HoldsFreshKey, Exists
<1>7. QED BY <1>5, <1>6, KeyRows DEF KeyInv

\* Every statement keeps spent keys spent.
LEMMA KeyAdvance ==
  ASSUME OneByOne, KeyInv, TypeOK', HandlersOnPath', NEW r \in Request, Advance(r)
  PROVE  KeyInv'
<1>a. TypeOK /\ HandlersOnPath /\ clock \in Nat
  BY DEF KeyInv, TypeOK
<1>1. ASSUME Ends(r), Ticks, Turns(req[r].on), spent' = spent PROVE KeyInv'
  BY <1>1, KeyKept, IdleFacts DEF Ends
<1> PICK on : on = req[r].on
  OBVIOUS
<1>2. ASSUME NEW pc, Goes(r, pc), Ticks, Turns(req[r].on), spent' = spent,
             req[r].op # "recover" \/ pc \notin {"drop", "session"}
               \/ (req[r].pc \in {"drop", "session"} /\ acct' = acct)
               \/ ~Exists(on)'
               \/ (clock' = clock + 1 /\ acct'[on].rec = clock + 1)
      PROVE  KeyInv'
  <2>1. PICK q : Becomes(r, q) /\ q.pc = pc /\ Kin(q, req[r])
    BY <1>2 DEF Goes
  <2>2. q.op = req[r].op /\ q.on = on
    BY <2>1 DEF Kin
  <2>3. QED BY <1>2, <2>1, <2>2, KeyKept
<1>3. CASE LoginRehash(r)
  <2>1. \/ acct' = acct
        \/ \E row : Rewritten(req[r].on, row) /\ row.rec = acct[req[r].on].rec
    BY <1>3, <1>a, RehashDoes DEF SameButPassword
  <2>2. /\ clock' = clock /\ spent' = spent /\ Goes(r, "session") /\ req[r].op # "recover"
    BY <1>3, <1>a, RehashDoes, OpOfPc
  <2>3. QED BY <1>2, <2>1, <2>2, SameTurn, RewrittenTurn DEF Ticks
<1>4. ASSUME NEW s \in Session, CreateSession(r, s) PROVE KeyInv'
  <2>1. /\ acct' = acct /\ clock' = clock /\ Ends(r) /\ At(r, "session")
        /\ \/ spent' = spent
           \/ /\ req[r].op = "recover" /\ Exists(req[r].on)
              /\ spent' = spent \cup {<<req[r].on, req[r].key>>}
    BY <1>4, <1>a, SessionDoes
  <2>2. CASE spent' = spent
    BY <1>1, <2>1, <2>2, SameTurn DEF Ticks
  <2>3. CASE /\ req[r].op = "recover" /\ Exists(req[r].on)
             /\ spent' = spent \cup {<<req[r].on, req[r].key>>}
    <3>1. /\ req[r].key # 0 /\ req[r].key =< clock /\ acct[req[r].on].rec # req[r].key
      BY <2>1, <2>3 DEF KeyInv, HoldsFreshKey, At
    <3>2. ASSUME NEW u \in User, NEW k \in Nat, <<u, k>> \in spent'
          PROVE  k # 0 /\ k =< clock' /\ k # acct'[u].rec
      <4>1. <<u, k>> \in spent \/ (u = req[r].on /\ k = req[r].key)
        BY <2>3, <3>2
      <4>2. QED BY <2>1, <3>1, <4>1 DEF KeyInv
    <3>3. req'[r] = Idle /\ \A p \in Request : p # r => req'[p] = req[p]
      BY <2>1 DEF Ends, Becomes
    <3>4. ASSUME NEW p \in Request PROVE HoldsFreshKey(req[p])'
      <4>1. CASE p = r
        BY <3>3, <4>1, IdleFacts DEF HoldsFreshKey
      <4>2. CASE p # r
        <5>1. req[p].on # req[r].on
          BY <2>3, <4>2, ConstantsAssumption DEF OneByOne, Exists
        <5>2. HoldsFreshKey(req[p]) /\ req'[p] = req[p]
          BY <3>3, <4>2 DEF KeyInv
        <5>3. QED BY <2>1, <2>3, <5>1, <5>2 DEF HoldsFreshKey, Exists
      <4>3. QED BY <4>1, <4>2
    <3>5. \A u \in User : acct'[u].rec =< clock'
      BY <2>1 DEF KeyInv
    <3>6. QED BY <3>2, <3>4, <3>5 DEF KeyInv
  <2>4. QED BY <2>1, <2>2, <2>3
<1>5. ASSUME NEW p \in 1..clock, CheckPassword(r, p) PROVE KeyInv'
  <2>1. /\ acct' = acct /\ clock' = clock /\ spent' = spent
        /\ Ends(r) \/ Goes(r, "setpw") \/ Goes(r, "rotate")
    BY <1>5, <1>a, CheckDoes DEF Quiet
  <2>2. QED BY <1>1, <1>2, <2>1, SameTurn DEF Ticks
<1>6. CASE SetPassword(r)
  <2>1. spent' = spent
    BY <1>6, <1>a, SetPasswordDoes
  <2>2. CASE Ends(r) /\ Quiet
    BY <1>1, <2>2, SameTurn DEF Quiet, Ticks
  <2>3. CASE ~(Ends(r) /\ Quiet)
    <3>1. clock' = clock + 1
      BY <1>6, <1>a, <2>3, SetPasswordDoes
    <3>2. PICK q : /\ Becomes(r, q) /\ Kin(q, req[r])
                   /\ q.pc = IF req[r].op = "clireset" THEN "drop" ELSE "prov"
      BY <1>6, <1>a, <2>3, SetPasswordDoes
    <3>3. \/ acct' = acct
          \/ \E row : Rewritten(req[r].on, row) /\ row.rec = acct[req[r].on].rec
      BY <1>6, <1>a, <2>3, SetPasswordDoes DEF SameButPassword
    <3>4. Turns(req[r].on)
      BY <3>3, SameTurn, RewrittenTurn
    <3>5. q.op = "recover" => q.pc = "prov"
      BY <3>2 DEF Kin
    <3>6. QED BY <2>1, <3>1, <3>2, <3>4, <3>5, KeyKept DEF Ticks
  <2>4. QED BY <2>2, <2>3
<1>7. CASE RefusePassword(r)
  BY <1>1, <1>7, <1>a, RefuseDoes, SameTurn DEF Quiet, Ticks
<1>8. CASE RotateRecoveryKey(r)
  <2>1. spent' = spent
    BY <1>8, <1>a, RotateDoes
  <2>2. CASE Ends(r) /\ Quiet
    BY <1>1, <2>2, SameTurn DEF Quiet, Ticks
  <2>3. CASE ~(Ends(r) /\ Quiet)
    <3>1. clock' = clock + 1 /\ Proceeds(r, AfterRotate(req[r].op))
      BY <1>8, <1>a, <2>3, RotateDoes
    <3>2. \/ acct' = acct /\ ~Exists(req[r].on)
          \/ \E row : /\ Exists(req[r].on) /\ Rewritten(req[r].on, row) /\ row.rec = clock + 1
      BY <1>8, <1>a, <2>3, RotateDoes
    <3>3. Turns(req[r].on)
      BY <3>1, <3>2, SameTurn, RewrittenTurn
    <3>4. ~Exists(on)' \/ acct'[on].rec = clock + 1
      BY <3>2 DEF Rewritten, Exists
    <3>5. \E pc : Goes(r, pc) \/ Ends(r)
      BY <3>1 DEF Proceeds
    <3>6. QED BY <1>1, <1>2, <2>1, <3>1, <3>3, <3>4, <3>5 DEF Ticks
  <2>4. QED BY <2>2, <2>3
<1>9. CASE EnsureRecoveryKey(r)
  <2>1. /\ acct' = acct /\ clock' = clock /\ spent' = spent
        /\ Ends(r) \/ Goes(r, "rotate")
    BY <1>9, <1>a, EnsureDoes DEF Quiet
  <2>2. QED BY <1>1, <1>2, <2>1, SameTurn DEF Ticks
<1>10. CASE DropSessions(r)
  <2>1. /\ acct' = acct /\ clock' = clock /\ spent' = spent /\ At(r, "drop")
        /\ Goes(r, "session") \/ Goes(r, "prov") \/ Ends(r)
    BY <1>10, <1>a, DropDoes
  <2>2. QED BY <1>1, <1>2, <2>1, SameTurn DEF Ticks, At
<1>11. CASE Provision(r)
  <2>1. clock' = clock /\ spent' = spent /\ Proceeds(r, AfterProvision(req[r].op))
    BY <1>11, <1>a, ProvisionDoes
  <2>2. \E row : Rewritten(req[r].on, row) /\ row.rec = acct[req[r].on].rec
    BY <1>11, <1>a, ProvisionDoes
  <2>3. Ends(r) \/ Goes(r, "rotate")
    BY <2>1 DEF Proceeds, AfterProvision
  <2>4. QED BY <1>1, <1>2, <2>1, <2>2, <2>3, RewrittenTurn DEF Ticks
<1>12. CASE ProvisionFails(r)
  <2>1. /\ acct' = acct /\ clock' = clock /\ spent' = spent
        /\ Ends(r) \/ Goes(r, "rotate") \/ Goes(r, "rollback")
    BY <1>12, <1>a, ProvisionFailsDoes DEF Quiet, Proceeds, AfterProvision
  <2>2. QED BY <1>1, <1>2, <2>1, SameTurn DEF Ticks
<1>13. CASE RollBackAccount(r) \/ EraseUser(r)
  <2>1. /\ clock' = clock /\ spent' = spent /\ Ends(r)
        /\ \/ acct' = acct
           \/ \E row : Rewritten(req[r].on, row) /\ row.rec = 0
    BY <1>13, <1>a, EraseDoes
  <2>2. QED BY <1>1, <2>1, SameTurn, RewrittenTurn DEF Ticks
<1>14. CASE ReadTarget(r) \/ EnsureAnotherAdmin(r)
  <2>1. /\ acct' = acct /\ clock' = clock /\ spent' = spent
        /\ Ends(r) \/ Goes(r, "guard") \/ Goes(r, "erase") \/ Goes(r, "write")
    BY <1>14, <1>a, LookDoes DEF Quiet
  <2>2. QED BY <1>1, <1>2, <2>1, SameTurn DEF Ticks
<1>15. CASE WriteUser(r)
  <2>1. spent' = spent /\ req[r].op = "update" /\ Ticks
    BY <1>15, <1>a, WriteDoes, OpOfPc DEF Ticks, Quiet
  <2>2. \/ acct' = acct
        \/ \E row : Rewritten(req[r].on, row) /\ row.rec = acct[req[r].on].rec
    BY <1>15, <1>a, WriteDoes DEF Quiet
  <2>3. PICK q : Becomes(r, q) /\ (q = Idle \/ Kin(q, req[r]))
    BY <1>a, AdvanceBecomes
  <2>4. q.op # "recover"
    BY <2>1, <2>3, IdleFacts DEF Kin
  <2>5. QED BY <2>1, <2>2, <2>3, <2>4, SameTurn, RewrittenTurn, KeyKept
<1>16. CASE InsertAccount(r)
  <2>1. spent' = spent /\ req[r].op \in {"create", "bootstrap"} /\ Ticks
    BY <1>16, <1>a, InsertDoes, OpOfPc DEF Ticks, Quiet
  <2>2. \/ acct' = acct
        \/ \E row : Rewritten(req[r].on, row) /\ row.rec = 0
    BY <1>16, <1>a, InsertDoes DEF Quiet
  <2>3. PICK q : Becomes(r, q) /\ (q = Idle \/ Kin(q, req[r]))
    BY <1>a, AdvanceBecomes
  <2>4. q.op # "recover"
    BY <2>1, <2>3, IdleFacts DEF Kin
  <2>5. QED BY <2>1, <2>2, <2>3, <2>4, SameTurn, RewrittenTurn, KeyKept
<1>17. QED BY <1>3, <1>4, <1>5, <1>6, <1>7, <1>8, <1>9, <1>10, <1>11, <1>12, <1>13, <1>14, <1>15,
              <1>16 DEF Advance

\* Every step keeps spent keys spent.
LEMMA KeyStep ==
  ASSUME OneByOne, KeyInv, [Next]_vars
  PROVE  KeyInv'
<1>1. TypeOK' /\ HandlersOnPath' /\ TypeOK
  BY NextTypeAndPath DEF KeyInv
<1>2. ASSUME NEW r \in Request, Arrive(r) PROVE KeyInv'
  <2>1. acct' = acct /\ clock' = clock /\ spent' = spent
    BY <1>1, <1>2, ArriveDoes DEF Quiet
  <2>2. PICK q : Becomes(r, q) /\ Fresh(q)
    BY <1>1, <1>2, ArriveDoes
  <2>3. /\ req'[r] = q /\ q \in RequestState
        /\ \A p \in Request : p # r => req'[p] = req[p]
    BY <1>1, <2>2 DEF Becomes, TypeOK
  <2>4. ASSUME q.op = "recover"
        PROVE  q.key # 0 /\ q.key =< clock /\ <<q.on, q.key>> \notin spent /\ q.pc = "setpw"
    <3>1. q.on \in User /\ q.key = acct[q.on].rec /\ q.key # 0 /\ q.pc = "setpw"
      BY <2>2, <2>4 DEF Fresh, HoldsKey, Active, Exists
    <3>2. q.key \in Nat
      BY <2>3 DEF RequestState
    <3>3. QED BY <3>1, <3>2 DEF KeyInv
  <2>5. ASSUME NEW p \in Request PROVE HoldsFreshKey(req[p])'
    <3>1. CASE p = r
      BY <2>1, <2>3, <2>4, <3>1 DEF HoldsFreshKey
    <3>2. CASE p # r
      BY <2>1, <2>3, <3>2 DEF KeyInv, HoldsFreshKey, Exists
    <3>3. QED BY <3>1, <3>2
  <2>6. QED BY <1>1, <2>1, <2>5 DEF KeyInv
<1>3. ASSUME NEW r \in Request, Advance(r) PROVE KeyInv'
  BY <1>1, <1>3, KeyAdvance
<1>4. ASSUME [\/ \E r \in Request : Disconnect(r)
              \/ \E s \in Session : EndSession(s)
              \/ \E u \in User : UseClient(u) \/ ForgetClients(u)
              \/ Serve \/ Restart]_vars
      PROVE  KeyInv'
  <2>1. clock' = clock /\ spent' = spent
    BY <1>1, <1>4, AroundDoes
  <2>2. \A u \in User : (Exists(u)' <=> Exists(u)) /\ acct'[u].rec = acct[u].rec
    BY <1>1, <1>4, AroundDoes
  <2>3. ASSUME NEW p \in Request PROVE HoldsFreshKey(req[p])'
    <3>1. HoldsFreshKey(req[p])
      BY DEF KeyInv
    <3>2. \/ /\ req'[p].op = req[p].op /\ req'[p].on = req[p].on
             /\ req'[p].key = req[p].key /\ req'[p].pc = req[p].pc
          \/ req'[p] = Idle
      BY <1>1, <1>4, AroundDoes
    <3>3. CASE req'[p] = Idle
      BY <3>3, IdleFacts DEF HoldsFreshKey
    <3>4. CASE /\ req'[p].op = req[p].op /\ req'[p].on = req[p].on
               /\ req'[p].key = req[p].key /\ req'[p].pc = req[p].pc
      <4>1. PICK u : u = req[p].on
        OBVIOUS
      <4>2. Exists(u)' => Exists(u) /\ acct'[u].rec = acct[u].rec
        BY <2>2 DEF Exists
      <4>3. req[p].op = "recover" =>
              /\ req[p].key # 0 /\ req[p].key =< clock /\ <<u, req[p].key>> \notin spent
              /\ req[p].pc \in {"drop", "session"} /\ Exists(u) => acct[u].rec # req[p].key
        BY <3>1, <4>1 DEF HoldsFreshKey, Exists
      <4>4. QED BY <2>1, <3>4, <4>1, <4>2, <4>3 DEF HoldsFreshKey, Exists
    <3>5. QED BY <3>2, <3>3, <3>4
  <2>4. QED BY <1>1, <2>1, <2>2, <2>3 DEF KeyInv
<1>5. QED BY <1>2, <1>3, <1>4 DEF Next, Proceed

\* No key is spent when the server starts.
LEMMA KeyInit == Init => KeyInv
<1> SUFFICES ASSUME Init PROVE KeyInv
  OBVIOUS
<1>1. \A u \in User : acct[u].rec =< clock
  <2> SUFFICES ASSUME NEW u \in User PROVE acct[u].rec =< clock
    OBVIOUS
  <2>1. acct[u] = FirstAccount(u) /\ clock = 1
    BY DEF Init
  <2>2. FirstAccount(u).rec \in {0, 1}
    BY DEF FirstAccount, Absent
  <2>3. QED BY <2>1, <2>2
<1>2. \A r \in Request : HoldsFreshKey(req[r])
  BY IdleFacts DEF Init, HoldsFreshKey
<1>3. spent = {}
  BY DEF Init
<1>4. QED BY <1>1, <1>2, <1>3, InitTypeAndPath DEF KeyInv

\* When the requests for an account follow one another, a recovery key carries at
\* most one recovery of its account to its end, whatever requests for other accounts
\* do meanwhile, whatever clients disconnect, whatever provisioning fails and
\* wherever the server dies.
THEOREM KeySafe == TurnSpec => KeySpentOnce
<1>1. OneByOne /\ KeyInv /\ [TurnNext]_vars => OneByOne' /\ KeyInv'
  <2>1. [TurnNext]_vars => [Next]_vars
    BY DEF TurnNext, Next
  <2>2. QED BY <2>1, TurnStep, KeyStep DEF KeyInv
<1>2. KeyInv /\ [TurnNext]_vars =>
        [\A r \in Request : req[r].op = "recover" /\ At(r, "session") /\ req'[r] # req[r]
           => <<req[r].on, req[r].key>> \notin spent]_vars
  BY DEF KeyInv, HoldsFreshKey
<1>3. QED BY TurnInit, KeyInit, <1>1, <1>2, PTL DEF TurnSpec, KeySpentOnce
=============================================================================
