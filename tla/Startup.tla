------------------------------ MODULE Startup ------------------------------
(***************************************************************************)
(* Server instances that start on one database.  Each brings the schema up *)
(* to date (db.Migrate), creates the first administrator if there is no    *)
(* account (Bootstrap), then serves; at the first token it signs or        *)
(* verifies it loads or creates the key of the access tokens               *)
(* (loadOrCreateServiceKey).  An instance may be killed between any two    *)
(* statements, an error of its start-up ends it too, and it is started     *)
(* again.                                                                  *)
(*                                                                         *)
(* A transaction on a migration holds the locks of what it creates or      *)
(* alters, so a second one on the same migration waits for its end.  A     *)
(* signing key is its number in the order of insertion; its date is the    *)
(* number of keys there were when it was dated, so that keys dated at once *)
(* tie.                                                                    *)
(***************************************************************************)
EXTENDS Naturals, FiniteSets

CONSTANTS Instance,
          Last,       \* the migrations are numbered from 1 to Last
          Repeatable, \* the migrations all of whose statements say IF NOT EXISTS
          MaxCrashes, \* instances are killed this often
          MaxErrors,  \* statements of a serving instance fail this often
          None        \* no instance

Migration == 1..Last

ASSUME StartupAssumption == /\ Last \in Nat
                            /\ Repeatable \subseteq Migration
                            /\ MaxCrashes \in Nat /\ MaxErrors \in Nat
                            /\ None \notin Instance

VARIABLES tracked, \* the table schema_migrations exists
          schema,  \* the migrations in effect
          record,  \* schema_migrations
          lock,    \* the instance whose transaction holds the locks of each migration
          seeded,  \* there is an account
          keys,    \* bitwarden_service_keys
          proc,    \* the instances
          signed,  \* the keys tokens were signed with
          raced,   \* a key was wanted while another was being made, or one there was not read
          crashes, errors

vars == <<tracked, schema, record, lock, seeded, keys, proc, signed, raced, crashes, errors>>
tables == <<tracked, schema, record, seeded>>
tokens == <<keys, signed, raced>>
faults == <<crashes, errors>>

-----------------------------------------------------------------------------
Starting == {"ensure", "create", "pending", "begin", "apply", "record", "commit", "count", "seed"}
Making == {"generate", "insert"}
Serving == {"serving", "reread"} \cup Making

\* todo: the pending migrations as they were read; key: the cached key; at: the date of a new one.
Process == [pc : {"down"} \cup Starting \cup Serving, todo : SUBSET Migration, key : Nat, at : Nat]

Down == [pc |-> "down", todo |-> {}, key |-> 0, at |-> 0]

KeyRow == [kid : Nat \ {0}, at : Nat]

TypeOK == /\ tracked \in BOOLEAN /\ seeded \in BOOLEAN /\ raced \in BOOLEAN
          /\ schema \in SUBSET Migration /\ record \in SUBSET Migration
          /\ lock \in [Migration -> Instance \cup {None}]
          /\ proc \in [Instance -> Process]
          /\ keys \subseteq KeyRow
          /\ \A m \in Migration : lock[m] # None => proc[lock[m]].pc \in {"record", "commit"}
          /\ signed \cup {proc[i].key : i \in Instance} \subseteq {0} \cup {k.kid : k \in keys}
          /\ crashes \in 0..MaxCrashes /\ errors \in 0..MaxErrors

Init == /\ tracked = FALSE /\ schema = {} /\ record = {} /\ seeded = FALSE
        /\ lock = [m \in Migration |-> None]
        /\ keys = {} /\ signed = {} /\ raced = FALSE
        /\ proc = [i \in Instance |-> Down]
        /\ crashes = 0 /\ errors = 0

-----------------------------------------------------------------------------
At(i, pc) == proc[i].pc = pc
Goto(i, pc) == proc' = [proc EXCEPT ![i].pc = pc]

\* Seeded fault: the transaction of a stopped process stays open.
Held(i) == lock

\* The locks of a process's transaction end with it.
Released(i) == [m \in Migration |-> IF lock[m] = i THEN None ELSE lock[m]]

\* The transaction is rolled back and the cached key lost.
Stop(i) == proc' = [proc EXCEPT ![i] = Down] /\ lock' = Released(i)

\* log.Fatal.
Fatal(i) == Stop(i) /\ UNCHANGED <<tables, tokens, faults>>

Boot(i) == At(i, "down") /\ Goto(i, "ensure") /\ UNCHANGED <<tables, lock, tokens, faults>>

-----------------------------------------------------------------------------
(* db.Migrate.                                                                *)

\* CREATE TABLE IF NOT EXISTS looks for the table ...
EnsureTable(i) ==
  /\ At(i, "ensure")
  /\ Goto(i, IF tracked THEN "pending" ELSE "create")
  /\ UNCHANGED <<tables, lock, tokens, faults>>

\* ... and creates it; created by another meanwhile, it is a duplicate in the catalog.
CreateTable(i) ==
  /\ At(i, "create")
  /\ IF tracked
       THEN Fatal(i)
       ELSE /\ tracked' = TRUE
            /\ Goto(i, "pending")
            /\ UNCHANGED <<schema, record, seeded, lock, tokens, faults>>

\* Seeded fault: the recorded versions are not left out.
EveryMigration == Migration

Pending == Migration \ record

ReadPending(i) ==
  /\ At(i, "pending")
  /\ proc' = [proc EXCEPT ![i].pc = "begin", ![i].todo = Pending]
  /\ UNCHANGED <<tables, lock, tokens, faults>>

\* The pending migrations are taken in the order of their numbers.
Following(i) == CHOOSE m \in proc[i].todo : \A n \in proc[i].todo : m =< n

Begin(i) ==
  /\ At(i, "begin")
  /\ Goto(i, IF proc[i].todo = {} THEN "count" ELSE "apply")
  /\ UNCHANGED <<tables, lock, tokens, faults>>

\* Seeded fault: without BEGIN the statements of a migration take effect at once.
AtOnce(m) == schema \cup {m}

\* The effects of a migration inside its transaction, which others do not see.
Uncommitted(m) == schema

\* The statements of one migration: those in effect already fail unless they may be repeated.
Apply(i) ==
  LET m == Following(i) IN
  /\ At(i, "apply")
  /\ lock[m] = None
  /\ \/ /\ \A n \in 1..(m - 1) : n \in schema
        /\ m \in schema => m \in Repeatable
        /\ lock' = [lock EXCEPT ![m] = i]
        /\ Goto(i, "record")
        /\ schema' = Uncommitted(m)
        /\ UNCHANGED <<tracked, record, seeded, tokens, faults>>
     \/ /\ \/ \E n \in 1..(m - 1) : n \notin schema
           \/ m \in schema
        /\ Fatal(i)

\* version is the primary key.
Record(i) ==
  /\ At(i, "record")
  /\ IF Following(i) \in record
       THEN Fatal(i)
       ELSE Goto(i, "commit") /\ UNCHANGED <<tables, lock, tokens, faults>>

Commit(i) ==
  LET m == Following(i) IN
  /\ At(i, "commit")
  /\ schema' = schema \cup {m}
  /\ record' = record \cup {m}
  /\ lock' = Released(i)
  /\ proc' = [proc EXCEPT ![i].pc = "begin", ![i].todo = @ \ {m}]
  /\ UNCHANGED <<tracked, seeded, tokens, faults>>

-----------------------------------------------------------------------------
(* Bootstrap: the first administrator has the configured e-mail, which is    *)
(* unique, so one of two instances that found no account fails.              *)
CountAccounts(i) ==
  /\ At(i, "count")
  /\ Goto(i, IF seeded THEN "serving" ELSE "seed")
  /\ UNCHANGED <<tables, lock, tokens, faults>>

SeedAdmin(i) ==
  /\ At(i, "seed")
  /\ IF seeded
       THEN Fatal(i)
       ELSE /\ seeded' = TRUE
            /\ Goto(i, "serving")
            /\ UNCHANGED <<tracked, schema, record, lock, tokens, faults>>

-----------------------------------------------------------------------------
(* loadOrCreateServiceKey, one at a time in each process.                     *)

\* ORDER BY created_at ASC LIMIT 1; keys with one date come in any order.
Oldest == {k \in keys : \A o \in keys : k.at =< o.at}

Cache(i, kid) == proc' = [proc EXCEPT ![i].pc = "serving", ![i].key = kid]

\* Seeded fault: only the cache is looked at.
NotCached == TRUE

NoKeyYet == keys = {}

BeingMade(i) == \E j \in Instance \ {i} : proc[j].pc \in Making

\* Any error of the query is taken for an empty table.
LoadKey(i) ==
  /\ At(i, "serving") /\ proc[i].key = 0
  /\ \/ /\ \E k \in Oldest : Cache(i, k.kid)
        /\ UNCHANGED <<raced, errors>>
     \/ /\ NoKeyYet
        /\ Goto(i, "generate")
        /\ raced' = (raced \/ BeingMade(i))
        /\ UNCHANGED errors
     \/ /\ errors < MaxErrors /\ errors' = errors + 1
        /\ Goto(i, "generate")
        /\ raced' = (raced \/ BeingMade(i) \/ keys # {})
  /\ UNCHANGED <<tables, lock, keys, signed, crashes>>

\* The key pair is made and dated.
GenerateKey(i) ==
  /\ At(i, "generate")
  /\ proc' = [proc EXCEPT ![i].pc = "insert", ![i].at = Cardinality(keys)]
  /\ UNCHANGED <<tables, lock, tokens, faults>>

NewKey(i) == [kid |-> Cardinality(keys) + 1, at |-> proc[i].at]

\* kid is random, so the primary key never stops a second key.
InsertKey(i) ==
  /\ At(i, "insert")
  /\ UNCHANGED <<tables, lock, signed, raced, crashes>>
  /\ \/ /\ keys' = keys \cup {NewKey(i)}
        /\ Cache(i, NewKey(i).kid)
        /\ UNCHANGED errors
     \/ /\ errors < MaxErrors /\ errors' = errors + 1
        /\ Goto(i, "reread")
        /\ UNCHANGED keys

\* After a failed insert the key that is there is taken; without one, or if this fails too, the
\* request fails.
RereadKey(i) ==
  /\ At(i, "reread")
  /\ \/ \E k \in Oldest : Cache(i, k.kid)
     \/ Goto(i, "serving")
  /\ UNCHANGED <<tables, lock, tokens, faults>>

\* verifyAccessToken: the signature and the key identifier.
Verifies(i, kid) == proc[i].key = kid

\* respondToken.
Sign(i) ==
  /\ At(i, "serving") /\ proc[i].key # 0
  /\ signed' = signed \cup {proc[i].key}
  /\ UNCHANGED <<tables, lock, keys, raced, proc, faults>>

-----------------------------------------------------------------------------
Crash(i) ==
  /\ ~At(i, "down") /\ crashes < MaxCrashes
  /\ crashes' = crashes + 1
  /\ Stop(i)
  /\ UNCHANGED <<tables, tokens, errors>>

\* What an instance does by itself: all but the calls that sign or verify a token.
Run(i) == \/ Boot(i) \/ EnsureTable(i) \/ CreateTable(i) \/ ReadPending(i) \/ Begin(i) \/ Apply(i)
          \/ Record(i) \/ Commit(i) \/ CountAccounts(i) \/ SeedAdmin(i)
          \/ GenerateKey(i) \/ InsertKey(i) \/ RereadKey(i)

Next == \E i \in Instance : Run(i) \/ LoadKey(i) \/ Sign(i) \/ Crash(i)

Spec == Init /\ [][Next]_vars

\* A stopped instance is started again (restart: unless-stopped) and a running one goes on.
FairSpec == Spec /\ \A i \in Instance : WF_vars(Run(i))

-----------------------------------------------------------------------------
(***************************************************************************)
(* However many instances start at once and wherever they are killed, the  *)
(* migrations in effect are the recorded ones and the first of the order,  *)
(* and nobody serves before all of them are.                               *)
(***************************************************************************)
SchemaRecorded ==
  /\ \A m \in schema \cup record : m \in schema /\ m \in record /\ 1..m \subseteq schema
  /\ \A i \in Instance : proc[i].pc \in Serving => schema = Migration

(***************************************************************************)
(* A token signed by any instance verifies at every other and after any    *)
(* restart, unless two instances made keys at once or the query for the    *)
(* stored key failed.                                                      *)
(***************************************************************************)
TokensVerify ==
  \/ raced
  \/ \A i \in Instance : proc[i].key # 0 => \A kid \in signed : Verifies(i, kid)

(***************************************************************************)
(* Instances that start over one another, are killed between two           *)
(* statements, or lose a race and exit, all serve in the end.              *)
(***************************************************************************)
AllServe == \A i \in Instance : <>[](proc[i].pc = "serving")
=============================================================================
