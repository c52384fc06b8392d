--------------------------- MODULE StartupProofs ---------------------------
(***************************************************************************)
(* Proofs about Startup, for every set of instances, every list of         *)
(* migrations and any number of kills and failing statements.              *)
(***************************************************************************)
EXTENDS Startup, FiniteSetTheorems, WellFoundedInduction, TLAPS

-----------------------------------------------------------------------------
(* The inductive invariant.                                                   *)

\* What an instance knows of the schema: what it has not to do is recorded, what comes before the
\* migration at hand is in effect, and it goes on when all of them are.
Ordered(i) ==
  LET p == proc[i] IN
  /\ p.pc \in {"begin", "apply", "record", "commit"} => Migration \ record \subseteq p.todo
  /\ p.pc \in {"apply", "record", "commit"} => p.todo # {}
  /\ p.pc \in {"record", "commit"} => 1..(Following(i) - 1) \subseteq schema
  /\ p.pc \in {"count", "seed"} \cup Serving => schema = Migration

\* The migrations in effect are the recorded ones, and the first of the order.
InOrder == /\ schema = record
           /\ \A m \in schema : 1..m \subseteq schema

SchemaInv == InOrder /\ \A i \in Instance : Ordered(i)

\* As long as nobody has raced, there is one key, or one instance that makes it.
Single ==
  ~raced => /\ \A k, o \in keys : k.kid = o.kid
            /\ \A i, j \in Instance : proc[i].pc \in Making /\ proc[j].pc \in Making => i = j
            /\ \A i \in Instance : proc[i].pc \in Making => keys = {}

Inv == TypeOK /\ IsFiniteSet(keys) /\ SchemaInv /\ Single /\ 0 \notin signed

-----------------------------------------------------------------------------
(* The migrations.                                                            *)

\* Of some numbers one is the smallest.
LEMMA SmallestOf ==
  ASSUME NEW T, T \subseteq Nat, T # {}
  PROVE  \E m \in T : \A n \in T : m =< n
<1>1. PICK m \in T : \A n \in T : ~(<<n, m>> \in OpToRel(<, Nat))
  BY NatLessThanWellFounded, WFMin
<1>2. \A n \in T : ~(n < m)
  BY <1>1 DEF OpToRel
<1>3. QED BY <1>2

\* The migration at hand is one of those to do.
LEMMA FollowingPending ==
  ASSUME TypeOK, NEW i \in Instance, proc[i].todo # {}
  PROVE  Following(i) \in proc[i].todo /\ Following(i) \in Migration
<1>1. proc[i].todo \subseteq Migration
  BY DEF TypeOK, Process
<1>2. Migration \subseteq Nat
  BY StartupAssumption DEF Migration
<1>3. \E m \in proc[i].todo : \A n \in proc[i].todo : m =< n
  BY <1>1, <1>2, SmallestOf
<1>4. Following(i) \in proc[i].todo
  BY <1>3 DEF Following
<1>5. QED BY <1>1, <1>4

-----------------------------------------------------------------------------
(* Steps of one instance.                                                     *)

Kids == {k.kid : k \in keys}

\* Instance i comes to be p; the others stay.
Becomes(i, p) == /\ p \in Process
                 /\ proc' \in [Instance -> Process]
                 /\ proc'[i] = p
                 /\ \A j \in Instance \ {i} : proc'[j] = proc[j]

LEMMA SetBecomes ==
  ASSUME TypeOK, NEW i \in Instance, NEW p \in Process, proc' = [proc EXCEPT ![i] = p]
  PROVE  Becomes(i, p)
BY DEF TypeOK, Becomes

LEMMA GotoBecomes ==
  ASSUME TypeOK, NEW i \in Instance, NEW pc \in {"down"} \cup Starting \cup Serving, Goto(i, pc)
  PROVE  Becomes(i, [proc[i] EXCEPT !.pc = pc])
<1>1. proc[i] \in Process
  BY DEF TypeOK
<1>2. [proc[i] EXCEPT !.pc = pc] \in Process
  BY <1>1 DEF Process
<1>3. proc' = [proc EXCEPT ![i] = [proc[i] EXCEPT !.pc = pc]]
  BY <1>1 DEF Goto, TypeOK
<1>4. QED BY <1>2, <1>3, SetBecomes

\* The state stays typed when one instance moves with the tables.
LEMMA TypedStep ==
  ASSUME TypeOK, NEW i \in Instance, NEW p, Becomes(i, p), p.key \in {0} \cup Kids',
         tracked' \in BOOLEAN, seeded' \in BOOLEAN, raced' \in BOOLEAN,
         schema' \subseteq Migration, record' \subseteq Migration,
         lock' \in [Migration -> Instance \cup {None}],
         \A m \in Migration : /\ lock'[m] = i => p.pc \in {"record", "commit"}
                              /\ lock'[m] \in {lock[m], i, None},
         keys \subseteq keys', keys' \subseteq KeyRow,
         signed' \subseteq {0} \cup Kids',
         crashes' \in 0..MaxCrashes, errors' \in 0..MaxErrors
  PROVE  TypeOK'
<1>1. Kids \subseteq Kids'
  BY DEF Kids
<1>2. \A j \in Instance : proc'[j].key \in {0} \cup Kids'
  BY <1>1 DEF Becomes, TypeOK, Kids
<1>3. \A m \in Migration : lock'[m] # None => proc'[lock'[m]].pc \in {"record", "commit"}
  <2>1. SUFFICES ASSUME NEW m \in Migration, lock'[m] # None
                 PROVE  proc'[lock'[m]].pc \in {"record", "commit"}
    OBVIOUS
  <2>2. CASE lock'[m] = i
    BY <2>2 DEF Becomes
  <2>3. CASE lock'[m] # i
    <3>1. lock'[m] = lock[m] /\ lock[m] \in Instance \ {i} /\ lock[m] # None
      BY <2>1, <2>3 DEF TypeOK
    <3>2. QED BY <3>1 DEF Becomes, TypeOK
  <2>4. QED BY <2>2, <2>3
<1>4. signed' \cup {proc'[j].key : j \in Instance} \subseteq {0} \cup {k.kid : k \in keys'}
  BY <1>2 DEF Kids
<1>5. proc' \in [Instance -> Process]
  BY DEF Becomes
<1>6. QED BY <1>3, <1>4, <1>5 DEF TypeOK

\* A step that touches neither the tables nor the locks nor the keys.
LEMMA PlainStep ==
  ASSUME TypeOK, NEW i \in Instance, NEW p, Becomes(i, p), p.key = proc[i].key,
         p.pc \in {"record", "commit"} \/ proc[i].pc \notin {"record", "commit"},
         UNCHANGED <<tables, lock, tokens, faults>>
  PROVE  TypeOK'
<1>1. \A m \in Migration : lock[m] = i => p.pc \in {"record", "commit"}
  BY StartupAssumption DEF TypeOK
<1>2. proc[i].key \in {0} \cup Kids
  BY DEF TypeOK, Kids
<1>3. Kids' = Kids
  BY DEF Kids, tokens
<1>4. /\ tracked' \in BOOLEAN /\ seeded' \in BOOLEAN /\ raced' \in BOOLEAN
      /\ schema' \subseteq Migration /\ record' \subseteq Migration
      /\ crashes' \in 0..MaxCrashes /\ errors' \in 0..MaxErrors
      /\ keys' = keys /\ keys' \subseteq KeyRow /\ signed' \subseteq {0} \cup Kids
  BY DEF TypeOK, tables, tokens, faults, Kids
<1>5. /\ lock' \in [Migration -> Instance \cup {None}]
      /\ \A m \in Migration : /\ lock'[m] = i => p.pc \in {"record", "commit"}
                               /\ lock'[m] \in {lock[m], i, None}
  BY <1>1 DEF TypeOK
<1>6. QED BY <1>2, <1>3, <1>4, <1>5, TypedStep

\* An instance that stops lets go of its locks.
LEMMA StopTyped ==
  ASSUME TypeOK, NEW i \in Instance, Stop(i), UNCHANGED <<tables, tokens>>,
         crashes' \in 0..MaxCrashes, errors' = errors
  PROVE  TypeOK' /\ Becomes(i, Down)
<1>1. Down \in Process
  BY DEF Down, Process
<1>2. Becomes(i, Down)
  BY <1>1, SetBecomes DEF Stop
<1>3. lock' \in [Migration -> Instance \cup {None}]
  BY DEF Stop, Released, TypeOK
<1>4. \A m \in Migration : lock'[m] # i /\ lock'[m] \in {lock[m], None}
  BY StartupAssumption DEF Stop, Released
<1>5. Down.key = 0
  BY DEF Down
<1>6. Kids' = Kids
  BY DEF Kids, tokens
<1>7. /\ tracked' \in BOOLEAN /\ seeded' \in BOOLEAN /\ raced' \in BOOLEAN
      /\ schema' \subseteq Migration /\ record' \subseteq Migration
      /\ crashes' \in 0..MaxCrashes /\ errors' \in 0..MaxErrors
      /\ keys' = keys /\ keys' \subseteq KeyRow /\ signed' \subseteq {0} \cup Kids
  BY DEF TypeOK, tables, tokens, Kids
<1>8. QED BY <1>2, <1>3, <1>4, <1>5, <1>6, <1>7, TypedStep

\* The state stays typed in the steps that go on to another statement.
LEMMA GotoTyped ==
  ASSUME TypeOK, NEW i \in Instance, NEW pc \in {"down"} \cup Starting \cup Serving, Goto(i, pc),
         pc \in {"record", "commit"} \/ proc[i].pc \notin {"record", "commit"},
         UNCHANGED <<tables, lock, tokens, faults>>
  PROVE  TypeOK'
<1>1. Becomes(i, [proc[i] EXCEPT !.pc = pc])
  BY GotoBecomes
<1>2. [proc[i] EXCEPT !.pc = pc].pc = pc /\ [proc[i] EXCEPT !.pc = pc].key = proc[i].key
  BY DEF TypeOK, Process
<1>3. QED BY <1>1, <1>2, PlainStep

\* Exiting is no state the program cannot be in.
LEMMA FatalTyped ==
  ASSUME TypeOK, NEW i \in Instance, Fatal(i)
  PROVE  TypeOK'
<1>1. crashes' \in 0..MaxCrashes /\ errors' = errors
  BY DEF Fatal, faults, TypeOK
<1>2. QED BY <1>1, StopTyped DEF Fatal

\* The state stays typed in the steps of db.Migrate and Bootstrap.
LEMMA StartingTyped ==
  ASSUME TypeOK, NEW i \in Instance, Ordered(i),
         \/ Boot(i) \/ EnsureTable(i) \/ CreateTable(i) \/ ReadPending(i) \/ Begin(i) \/ Apply(i)
         \/ Record(i) \/ Commit(i) \/ CountAccounts(i) \/ SeedAdmin(i)
  PROVE  TypeOK'
<1>0. proc[i] \in Process
  BY DEF TypeOK
<1>1. CASE Boot(i) \/ EnsureTable(i) \/ Begin(i) \/ CountAccounts(i)
  <2>1. PICK pc \in {"ensure", "pending", "create", "count", "apply", "serving", "seed"} : Goto(i, pc)
    BY <1>1 DEF Boot, EnsureTable, Begin, CountAccounts
  <2>2. proc[i].pc \notin {"record", "commit"} /\ UNCHANGED <<tables, lock, tokens, faults>>
    BY <1>1 DEF Boot, EnsureTable, Begin, CountAccounts, At
  <2>3. QED BY <2>1, <2>2, GotoTyped DEF Starting, Serving
<1>2. CASE CreateTable(i) \/ SeedAdmin(i)
  <2>1. CASE Fatal(i)
    BY <2>1, FatalTyped
  <2>2. CASE ~Fatal(i)
    <3>1. PICK pc \in {"pending", "serving"} : Goto(i, pc)
      BY <1>2, <2>2 DEF CreateTable, SeedAdmin
    <3>2. Becomes(i, [proc[i] EXCEPT !.pc = pc])
      BY <3>1, GotoBecomes DEF Starting, Serving
    <3>3. [proc[i] EXCEPT !.pc = pc].key \in {0} \cup Kids
      BY <1>0 DEF TypeOK, Kids, Process
    <3>4. /\ proc[i].pc \notin {"record", "commit"}
          /\ tracked' \in BOOLEAN /\ seeded' \in BOOLEAN /\ schema' = schema /\ record' = record
          /\ UNCHANGED <<lock, tokens, faults>>
      BY <1>2, <2>2 DEF CreateTable, SeedAdmin, At, TypeOK
    <3>5. \A m \in Migration : lock[m] # i
      BY <3>4, StartupAssumption DEF TypeOK
    <3>6. Kids' = Kids /\ keys' = keys /\ raced' \in BOOLEAN /\ keys \subseteq KeyRow
          /\ signed' \subseteq {0} \cup Kids /\ lock' \in [Migration -> Instance \cup {None}]
          /\ crashes' \in 0..MaxCrashes /\ errors' \in 0..MaxErrors
      BY <3>4 DEF TypeOK, tokens, faults, Kids
    <3>7. \A m \in Migration : lock'[m] # i /\ lock'[m] \in {lock[m], i, None}
      BY <3>4, <3>5
    <3>8. schema' \subseteq Migration /\ record' \subseteq Migration
      BY <3>4 DEF TypeOK
    <3>9. QED BY <3>2, <3>3, <3>4, <3>6, <3>7, <3>8, TypedStep
  <2>3. QED BY <2>1, <2>2
<1>3. CASE ReadPending(i)
  <2> DEFINE p == [proc[i] EXCEPT !.pc = "begin", !.todo = Pending]
  <2>1. p \in Process /\ p.key = proc[i].key
    BY <1>0 DEF Process, Starting, Pending
  <2>2. proc' = [proc EXCEPT ![i] = p] /\ proc[i].pc \notin {"record", "commit"}
        /\ UNCHANGED <<tables, lock, tokens, faults>>
    BY <1>3 DEF ReadPending, At, TypeOK
  <2> HIDE DEF p
  <2>3. QED BY <2>1, <2>2, SetBecomes, PlainStep
<1>4. CASE Apply(i)
  <2>1. CASE Fatal(i)
    BY <2>1, FatalTyped
  <2>2. CASE ~Fatal(i)
    <3>1. /\ Goto(i, "record") /\ lock' = [lock EXCEPT ![Following(i)] = i] /\ schema' = schema
          /\ UNCHANGED <<tracked, record, seeded, tokens, faults>>
      BY <1>4, <2>2 DEF Apply, Uncommitted
    <3>2. Becomes(i, [proc[i] EXCEPT !.pc = "record"])
      BY <3>1, GotoBecomes DEF Starting, Serving
    <3>3. [proc[i] EXCEPT !.pc = "record"].key \in {0} \cup Kids
          /\ [proc[i] EXCEPT !.pc = "record"].pc = "record"
      BY <1>0 DEF TypeOK, Kids, Process
    <3>4. /\ lock' \in [Migration -> Instance \cup {None}]
          /\ \A m \in Migration : lock'[m] \in {lock[m], i, None}
      BY <3>1 DEF TypeOK
    <3>5. Kids' = Kids /\ keys' = keys /\ raced' \in BOOLEAN /\ keys \subseteq KeyRow
          /\ signed' \subseteq {0} \cup Kids /\ schema' \subseteq Migration
          /\ record' \subseteq Migration /\ tracked' \in BOOLEAN /\ seeded' \in BOOLEAN
          /\ crashes' \in 0..MaxCrashes /\ errors' \in 0..MaxErrors
      BY <3>1 DEF TypeOK, tokens, faults, Kids
    <3>6. QED BY <3>2, <3>3, <3>4, <3>5, TypedStep
  <2>3. QED BY <2>1, <2>2
<1>5. CASE Record(i)
  <2>1. CASE Fatal(i)
    BY <2>1, FatalTyped
  <2>2. CASE ~Fatal(i)
    BY <1>5, <2>2, GotoTyped DEF Record, Starting
  <2>3. QED BY <2>1, <2>2
<1>6. CASE Commit(i)
  <2>0. Following(i) \in Migration
    BY <1>6, FollowingPending DEF Ordered, Commit, At
  <2> DEFINE p == [proc[i] EXCEPT !.pc = "begin", !.todo = @ \ {Following(i)}]
  <2>1. p \in Process /\ p.key = proc[i].key
    BY <1>0 DEF Process, Starting
  <2>2. proc' = [proc EXCEPT ![i] = p]
    BY <1>6 DEF Commit, TypeOK
  <2> HIDE DEF p
  <2>3. Becomes(i, p)
    BY <2>1, <2>2, SetBecomes
  <2>4. p.key \in {0} \cup Kids
    BY <2>1 DEF TypeOK, Kids
  <2>5. /\ lock' \in [Migration -> Instance \cup {None}]
        /\ \A m \in Migration : lock'[m] # i /\ lock'[m] \in {lock[m], i, None}
    BY <1>6, StartupAssumption DEF Commit, Released, TypeOK
  <2>6. Kids' = Kids /\ keys' = keys /\ raced' \in BOOLEAN /\ keys \subseteq KeyRow
        /\ signed' \subseteq {0} \cup Kids /\ schema' \subseteq Migration
        /\ record' \subseteq Migration /\ tracked' \in BOOLEAN /\ seeded' \in BOOLEAN
        /\ crashes' \in 0..MaxCrashes /\ errors' \in 0..MaxErrors
    BY <1>6, <2>0 DEF Commit, TypeOK, tokens, faults, Kids
  <2>7. QED BY <2>3, <2>4, <2>5, <2>6, TypedStep
<1>7. QED BY <1>1, <1>2, <1>3, <1>4, <1>5, <1>6

\* A key that is made has a number of its own.
LEMMA NewKeyTyped ==
  ASSUME TypeOK, IsFiniteSet(keys), NEW i \in Instance
  PROVE  /\ NewKey(i) \in KeyRow /\ NewKey(i).kid \in Nat \ {0} /\ Cardinality(keys) \in Nat
         /\ IsFiniteSet(keys \cup {NewKey(i)})
<1>1. Cardinality(keys) \in Nat /\ Cardinality(keys) + 1 \in Nat \ {0}
  BY FS_CardinalityType
<1>2. proc[i].at \in Nat
  BY DEF TypeOK, Process
<1>3. NewKey(i) \in KeyRow /\ NewKey(i).kid \in Nat \ {0}
  BY <1>1, <1>2 DEF NewKey, KeyRow
<1>4. QED BY <1>1, <1>3, FS_AddElement

\* Taking a key into the cache.
LEMMA CacheBecomes ==
  ASSUME TypeOK, NEW i \in Instance, NEW kid \in Nat, Cache(i, kid)
  PROVE  /\ Becomes(i, [proc[i] EXCEPT !.pc = "serving", !.key = kid])
         /\ proc'[i].pc = "serving" /\ proc'[i].key = kid
<1>1. proc[i] \in Process /\ proc' = [proc EXCEPT ![i] = [proc[i] EXCEPT !.pc = "serving", !.key = kid]]
  BY DEF Cache, TypeOK
<1>2. [proc[i] EXCEPT !.pc = "serving", !.key = kid] \in Process
  BY <1>1 DEF Process, Serving
<1>3. Becomes(i, [proc[i] EXCEPT !.pc = "serving", !.key = kid])
  BY <1>1, <1>2, SetBecomes
<1>4. [proc[i] EXCEPT !.pc = "serving", !.key = kid].pc = "serving"
      /\ [proc[i] EXCEPT !.pc = "serving", !.key = kid].key = kid
  BY <1>1 DEF Process
<1>5. QED BY <1>3, <1>4 DEF Becomes

\* What the statements about the keys do: the instance goes on to a statement it may be at, with the
\* key it had or one there is, and perhaps one key is new.
KeyStep(i) ==
  /\ UNCHANGED <<tables, lock>>
  /\ Becomes(i, proc'[i])
  /\ proc[i].pc \in Serving /\ proc'[i].pc \in Serving
  /\ proc'[i].key \in {0} \cup Kids'
  /\ keys' \in {keys, keys \cup {NewKey(i)}}
  /\ signed' \subseteq {0} \cup Kids'
  /\ raced' \in BOOLEAN /\ crashes' = crashes /\ errors' \in 0..MaxErrors

LEMMA KeySteps ==
  ASSUME TypeOK, IsFiniteSet(keys), NEW i \in Instance,
         LoadKey(i) \/ GenerateKey(i) \/ InsertKey(i) \/ RereadKey(i) \/ Sign(i)
  PROVE  KeyStep(i)
<1>0. /\ proc[i] \in Process /\ proc[i].key \in {0} \cup Kids /\ signed \subseteq {0} \cup Kids
      /\ \A k \in keys : k.kid \in Nat /\ k.kid \in Kids
  BY DEF TypeOK, Kids, KeyRow
<1>1. errors < MaxErrors => errors + 1 \in 0..MaxErrors
  BY StartupAssumption DEF TypeOK
<1>2. ASSUME NEW pc \in Serving, Goto(i, pc)
      PROVE  Becomes(i, proc'[i]) /\ proc'[i].pc = pc /\ proc'[i].key = proc[i].key
  <2>1. Becomes(i, [proc[i] EXCEPT !.pc = pc])
    BY <1>2, GotoBecomes
  <2>2. [proc[i] EXCEPT !.pc = pc].pc = pc /\ [proc[i] EXCEPT !.pc = pc].key = proc[i].key
    BY <1>0 DEF Process
  <2>3. QED BY <2>1, <2>2 DEF Becomes
<1>3. ASSUME NEW kid \in Nat, Cache(i, kid)
      PROVE  Becomes(i, proc'[i]) /\ proc'[i].pc = "serving" /\ proc'[i].key = kid
  BY <1>3, CacheBecomes DEF Becomes
<1>4. CASE LoadKey(i)
  <2>1. /\ UNCHANGED <<tables, lock, keys, signed, crashes>> /\ proc[i].pc = "serving"
        /\ raced' \in BOOLEAN /\ errors' \in 0..MaxErrors
    BY <1>1, <1>4 DEF LoadKey, At, TypeOK
  <2>2. (\E k \in Oldest : Cache(i, k.kid)) \/ Goto(i, "generate")
    BY <1>4 DEF LoadKey
  <2>3. Becomes(i, proc'[i]) /\ proc'[i].pc \in Serving /\ proc'[i].key \in {0} \cup Kids
    BY <1>0, <1>2, <1>3, <2>2 DEF Oldest, Serving, Making
  <2>4. QED BY <1>0, <2>1, <2>3 DEF KeyStep, Serving, Kids
<1>5. CASE GenerateKey(i)
  <2> DEFINE p == [proc[i] EXCEPT !.pc = "insert", !.at = Cardinality(keys)]
  <2>1. p \in Process /\ p.key = proc[i].key /\ p.pc = "insert"
    BY <1>0, NewKeyTyped DEF Process, Serving, Making
  <2>2. proc' = [proc EXCEPT ![i] = p] /\ proc[i].pc = "generate"
        /\ UNCHANGED <<tables, lock, tokens, faults>>
    BY <1>5 DEF GenerateKey, At, TypeOK
  <2> HIDE DEF p
  <2>3. Becomes(i, p)
    BY <2>1, <2>2, SetBecomes
  <2>4. Becomes(i, proc'[i]) /\ proc'[i].pc = "insert" /\ proc'[i].key = proc[i].key
    BY <2>1, <2>3 DEF Becomes
  <2>5. QED BY <1>0, <2>2, <2>4 DEF KeyStep, Serving, Making, tokens, faults, TypeOK, Kids
<1>6. CASE InsertKey(i)
  <2>1. UNCHANGED <<tables, lock, signed, raced, crashes>> /\ proc[i].pc = "insert"
    BY <1>6 DEF InsertKey, At
  <2>2. CASE keys' = keys \cup {NewKey(i)} /\ Cache(i, NewKey(i).kid) /\ UNCHANGED errors
    <3>1. Becomes(i, proc'[i]) /\ proc'[i].pc = "serving" /\ proc'[i].key = NewKey(i).kid
      BY <1>3, <2>2, NewKeyTyped
    <3>2. Kids' = Kids \cup {NewKey(i).kid}
      BY <2>2 DEF Kids
    <3>3. QED BY <1>0, <2>1, <2>2, <3>1, <3>2 DEF KeyStep, Serving, Making, TypeOK
  <2>3. CASE errors < MaxErrors /\ errors' = errors + 1 /\ Goto(i, "reread") /\ UNCHANGED keys
    <3>1. Becomes(i, proc'[i]) /\ proc'[i].pc = "reread" /\ proc'[i].key = proc[i].key
      BY <1>2, <2>3 DEF Serving
    <3>2. QED BY <1>0, <1>1, <2>1, <2>3, <3>1 DEF KeyStep, Serving, Making, TypeOK, Kids
  <2>4. QED BY <1>6, <2>2, <2>3 DEF InsertKey
<1>7. CASE RereadKey(i)
  <2>1. (\E k \in Oldest : Cache(i, k.kid)) \/ Goto(i, "serving")
    BY <1>7 DEF RereadKey
  <2>2. Becomes(i, proc'[i]) /\ proc'[i].pc = "serving" /\ proc'[i].key \in {0} \cup Kids
    BY <1>0, <1>2, <1>3, <2>1 DEF Oldest, Serving
  <2>3. proc[i].pc = "reread" /\ UNCHANGED <<tables, lock, tokens, faults>>
    BY <1>7 DEF RereadKey, At
  <2>4. QED BY <1>0, <2>2, <2>3 DEF KeyStep, Serving, tokens, faults, TypeOK, Kids
<1>8. CASE Sign(i)
  <2>1. /\ proc' = proc /\ proc[i].pc = "serving" /\ signed' = signed \cup {proc[i].key}
        /\ UNCHANGED <<tables, lock, keys, raced, faults>>
    BY <1>8 DEF Sign, At
  <2>2. Becomes(i, proc'[i])
    BY <2>1 DEF Becomes, TypeOK
  <2>3. QED BY <1>0, <2>1, <2>2 DEF KeyStep, Serving, faults, TypeOK, Kids
<1>9. QED BY <1>4, <1>5, <1>6, <1>7, <1>8

\* So the state stays typed, and the keys finite.
LEMMA KeyTyped ==
  ASSUME TypeOK, IsFiniteSet(keys), NEW i \in Instance, KeyStep(i)
  PROVE  TypeOK' /\ IsFiniteSet(keys)'
<1>1. IsFiniteSet(keys') /\ keys \subseteq keys' /\ keys' \subseteq KeyRow
  BY NewKeyTyped DEF KeyStep, TypeOK
<1>2. \A m \in Migration : lock[m] # i
  BY StartupAssumption DEF KeyStep, Serving, Making, TypeOK
<1>3. /\ lock' \in [Migration -> Instance \cup {None}]
      /\ \A m \in Migration : lock'[m] # i /\ lock'[m] \in {lock[m], i, None}
  BY <1>2 DEF KeyStep, TypeOK
<1>4. /\ schema' \subseteq Migration /\ record' \subseteq Migration /\ tracked' \in BOOLEAN
      /\ seeded' \in BOOLEAN /\ crashes' \in 0..MaxCrashes
  BY DEF KeyStep, TypeOK, tables
<1>5. QED BY <1>1, <1>3, <1>4, TypedStep DEF KeyStep

-----------------------------------------------------------------------------
(* The order of the migrations.                                               *)

\* The schema only grows, so what the other instances know of it stays true.
LEMMA OthersOrdered ==
  ASSUME TypeOK, NEW i \in Instance, NEW p, Becomes(i, p), schema \subseteq schema',
         schema' \subseteq Migration, record \subseteq record', InOrder', Ordered(i)',
         \A j \in Instance : Ordered(j)
  PROVE  SchemaInv'
<1>1. ASSUME NEW j \in Instance \ {i} PROVE Ordered(j)'
  <2>1. proc'[j] = proc[j]
    BY DEF Becomes
  <2>2. Following(j)' = Following(j)
    BY <2>1 DEF Following
  <2>3. QED BY <2>1, <2>2 DEF Ordered
<1>2. QED BY <1>1 DEF SchemaInv

\* A step that leaves the migrations, to a place where the instance need not know more.
LEMMA SameSchema ==
  ASSUME TypeOK, SchemaInv, NEW i \in Instance, NEW p, Becomes(i, p), UNCHANGED <<schema, record>>,
         \/ p.pc \notin {"begin", "apply", "record", "commit", "count", "seed"} \cup Serving
         \/ p.pc \in {"count", "seed"} \cup Serving /\ schema = Migration
         \/ p.pc = "begin" /\ Migration \ record \subseteq p.todo
         \/ p.pc = "apply" /\ Migration \ record \subseteq p.todo /\ p.todo # {}
         \/ /\ p.pc \in {"record", "commit"}
            /\ p.todo = proc[i].todo /\ Migration \ record \subseteq p.todo /\ p.todo # {}
            /\ 1..(Following(i) - 1) \subseteq schema
  PROVE  SchemaInv'
<1>1. proc'[i] = p
  BY DEF Becomes
<1>2. p.todo = proc[i].todo => Following(i)' = Following(i)
  BY <1>1 DEF Following
<1>3. Ordered(i)'
  BY <1>1, <1>2 DEF Ordered, Serving, Making
<1>4. InOrder'
  BY DEF InOrder, SchemaInv
<1>5. schema' \subseteq Migration
  BY DEF TypeOK
<1>6. QED BY <1>3, <1>4, <1>5, OthersOrdered DEF SchemaInv

\* Exiting and being killed.
LEMMA StopOrdered ==
  ASSUME TypeOK, SchemaInv, NEW i \in Instance, Stop(i), UNCHANGED tables
  PROVE  SchemaInv'
<1>1. Down \in Process /\ Down.pc = "down"
  BY DEF Down, Process
<1>2. Becomes(i, Down)
  BY <1>1, SetBecomes DEF Stop
<1>3. QED BY <1>1, <1>2, SameSchema DEF tables, Serving, Making

\* Going on to another statement.
LEMMA GotoOrdered ==
  ASSUME TypeOK, SchemaInv, NEW i \in Instance, NEW pc \in Starting \cup Serving, Goto(i, pc),
         UNCHANGED <<schema, record>>,
         \/ pc \in {"ensure", "create", "pending"}
         \/ pc \in {"count", "seed"} \cup Serving /\ schema = Migration
         \/ /\ pc = "apply" \/ (pc \in {"record", "commit"} /\ 1..(Following(i) - 1) \subseteq schema)
            /\ Migration \ record \subseteq proc[i].todo /\ proc[i].todo # {}
  PROVE  SchemaInv'
<1> DEFINE p == [proc[i] EXCEPT !.pc = pc]
<1>1. Becomes(i, p) /\ p.pc = pc /\ p.todo = proc[i].todo
  BY GotoBecomes DEF TypeOK, Process
<1> HIDE DEF p
<1>2. QED BY <1>1, SameSchema DEF Serving, Making

\* The migrations stay in order in the steps of db.Migrate and Bootstrap.
LEMMA StartingOrdered ==
  ASSUME TypeOK, SchemaInv, NEW i \in Instance,
         \/ Boot(i) \/ EnsureTable(i) \/ CreateTable(i) \/ ReadPending(i) \/ Begin(i) \/ Apply(i)
         \/ Record(i) \/ Commit(i) \/ CountAccounts(i) \/ SeedAdmin(i)
  PROVE  SchemaInv'
<1>1. Ordered(i) /\ InOrder
  BY DEF SchemaInv
<1>2. CASE Fatal(i)
  BY <1>2, StopOrdered DEF Fatal
<1>3. CASE Boot(i) \/ EnsureTable(i) \/ (CreateTable(i) /\ ~Fatal(i))
  <2>1. (Goto(i, "ensure") \/ Goto(i, "create") \/ Goto(i, "pending")) /\ UNCHANGED <<schema, record>>
    BY <1>3 DEF Boot, EnsureTable, CreateTable, tables
  <2>2. QED BY <2>1, GotoOrdered DEF Starting
<1>4. CASE ReadPending(i)
  <2> DEFINE p == [proc[i] EXCEPT !.pc = "begin", !.todo = Pending]
  <2>1. p \in Process /\ p.pc = "begin" /\ p.todo = Migration \ record
    BY DEF TypeOK, Process, Starting, Pending
  <2>2. proc' = [proc EXCEPT ![i] = p] /\ UNCHANGED <<schema, record>>
    BY <1>4 DEF ReadPending, TypeOK, tables
  <2> HIDE DEF p
  <2>3. QED BY <2>1, <2>2, SetBecomes, SameSchema
<1>5. CASE Begin(i)
  <2>1. Migration \ record \subseteq proc[i].todo /\ UNCHANGED <<schema, record>>
    BY <1>1, <1>5 DEF Begin, At, Ordered, tables
  <2>2. CASE proc[i].todo = {}
    <3>1. schema = Migration
      BY <1>1, <2>1, <2>2 DEF InOrder, TypeOK
    <3>2. QED BY <1>5, <2>1, <2>2, <3>1, GotoOrdered DEF Begin, Starting
  <2>3. CASE proc[i].todo # {}
    BY <1>5, <2>1, <2>3, GotoOrdered DEF Begin, Starting
  <2>4. QED BY <2>2, <2>3
<1>6. CASE Apply(i) /\ ~Fatal(i)
  <2>1. Goto(i, "record") /\ UNCHANGED <<schema, record>>
        /\ 1..(Following(i) - 1) \subseteq schema
    BY <1>6 DEF Apply, Uncommitted
  <2>2. Migration \ record \subseteq proc[i].todo /\ proc[i].todo # {}
    BY <1>1, <1>6 DEF Apply, At, Ordered
  <2>3. QED BY <2>1, <2>2, GotoOrdered DEF Starting
<1>7. CASE Record(i) /\ ~Fatal(i)
  <2>1. Goto(i, "commit") /\ UNCHANGED <<schema, record>>
    BY <1>7 DEF Record, tables
  <2>2. Migration \ record \subseteq proc[i].todo /\ proc[i].todo # {}
        /\ 1..(Following(i) - 1) \subseteq schema
    BY <1>1, <1>7 DEF Record, At, Ordered
  <2>3. QED BY <2>1, <2>2, GotoOrdered DEF Starting
<1>8. CASE Commit(i)
  <2> DEFINE m == Following(i)
             p == [proc[i] EXCEPT !.pc = "begin", !.todo = @ \ {m}]
  <2>1. /\ Migration \ record \subseteq proc[i].todo /\ proc[i].todo # {}
        /\ 1..(m - 1) \subseteq schema
    BY <1>1, <1>8 DEF Commit, At, Ordered
  <2>2. m \in Migration /\ m \in Nat
    BY <2>1, FollowingPending DEF Migration
  <2>3. p \in Process /\ p.pc = "begin" /\ p.todo = proc[i].todo \ {m}
    BY DEF TypeOK, Process, Starting
  <2>4. proc' = [proc EXCEPT ![i] = p] /\ schema' = schema \cup {m} /\ record' = record \cup {m}
    BY <1>8 DEF Commit, TypeOK
  <2> HIDE DEF m, p
  <2>5. Becomes(i, p)
    BY <2>3, <2>4, SetBecomes
  <2>6. InOrder'
    <3>1. 1..m \subseteq (1..(m - 1)) \cup {m}
      BY <2>2
    <3>2. QED BY <1>1, <2>1, <2>4, <3>1 DEF InOrder
  <2>7. Ordered(i)'
    BY <2>1, <2>3, <2>4, <2>5 DEF Ordered, Becomes, Serving, Making
  <2>8. schema' \subseteq Migration
    BY <2>2, <2>4 DEF TypeOK
  <2>9. QED BY <2>4, <2>5, <2>6, <2>7, <2>8, OthersOrdered DEF SchemaInv
<1>9. CASE CountAccounts(i) \/ (SeedAdmin(i) /\ ~Fatal(i))
  <2>1. (Goto(i, "serving") \/ Goto(i, "seed")) /\ UNCHANGED <<schema, record>> /\ schema = Migration
    BY <1>1, <1>9 DEF CountAccounts, SeedAdmin, At, Ordered, tables
  <2>2. QED BY <2>1, GotoOrdered DEF Starting, Serving
<1>10. QED BY <1>2, <1>3, <1>4, <1>5, <1>6, <1>7, <1>8, <1>9

\* The statements about the keys leave the migrations.
LEMMA KeyOrdered ==
  ASSUME TypeOK, SchemaInv, NEW i \in Instance, KeyStep(i)
  PROVE  SchemaInv'
BY SameSchema DEF KeyStep, SchemaInv, Ordered, tables

-----------------------------------------------------------------------------
(* One key.                                                                   *)

\* An instance that makes no key may go anywhere else.
LEMMA NotMaking ==
  ASSUME Single, NEW i \in Instance, NEW p, Becomes(i, p), p.pc \notin Making,
         UNCHANGED <<keys, raced>>
  PROVE  Single'
BY DEF Single, Becomes

\* A step of the start-up leaves the keys.
LEMMA StartingSingle ==
  ASSUME TypeOK, SchemaInv, Single, NEW i \in Instance,
         \/ Boot(i) \/ EnsureTable(i) \/ CreateTable(i) \/ ReadPending(i) \/ Begin(i) \/ Apply(i)
         \/ Record(i) \/ Commit(i) \/ CountAccounts(i) \/ SeedAdmin(i) \/ Crash(i)
  PROVE  Single' /\ UNCHANGED tokens
<1>1. UNCHANGED tokens
  BY DEF Boot, EnsureTable, CreateTable, ReadPending, Begin, Apply, Record, Commit, CountAccounts,
         SeedAdmin, Crash, Fatal, tokens
<1>2. \A j \in Instance \ {i} : proc'[j] = proc[j]
  BY DEF TypeOK, Boot, EnsureTable, CreateTable, ReadPending, Begin, Apply, Record, Commit,
         CountAccounts, SeedAdmin, Crash, Fatal, Stop, Goto
<1>3. proc'[i].pc \notin Making
  <2>1. proc[i] \in Process
    BY DEF TypeOK
  <2>2. CASE Fatal(i) \/ Crash(i)
    BY <2>2 DEF Fatal, Crash, Stop, TypeOK, Down, Making
  <2>3. ASSUME NEW pc, Goto(i, pc) PROVE proc'[i].pc = pc
    BY <2>1, <2>3 DEF Goto, TypeOK, Process
  <2>4. CASE ReadPending(i) \/ Commit(i)
    BY <2>1, <2>4 DEF ReadPending, Commit, TypeOK, Process, Making
  <2>5. CASE ~(Fatal(i) \/ Crash(i) \/ ReadPending(i) \/ Commit(i))
    <3>1. \E pc \in {"ensure", "create", "pending", "count", "apply", "record", "commit", "serving",
                     "seed"} : Goto(i, pc)
      BY <2>5 DEF Boot, EnsureTable, CreateTable, Begin, Apply, Record, CountAccounts, SeedAdmin
    <3>2. QED BY <2>3, <3>1 DEF Making
  <2>6. QED BY <2>2, <2>4, <2>5
<1>4. QED BY <1>1, <1>2, <1>3 DEF Single, tokens

\* A key is made by one instance, when there is none, or somebody has raced.
LEMMA KeySingle ==
  ASSUME TypeOK, IsFiniteSet(keys), Single, NEW i \in Instance,
         LoadKey(i) \/ GenerateKey(i) \/ InsertKey(i) \/ RereadKey(i) \/ Sign(i)
  PROVE  Single'
<1>0. KeyStep(i) /\ proc[i] \in Process
  BY KeySteps DEF TypeOK
<1>1. Becomes(i, proc'[i])
  BY <1>0 DEF KeyStep
<1>2. ASSUME NEW pc \in Serving, Goto(i, pc) PROVE proc'[i].pc = pc
  BY <1>0, <1>2 DEF Goto, TypeOK, Process
<1>3. ASSUME NEW kid, Cache(i, kid) PROVE proc'[i].pc = "serving"
  BY <1>0, <1>3 DEF Cache, TypeOK, Process
<1>4. CASE LoadKey(i)
  <2>1. keys' = keys /\ raced \in BOOLEAN /\ (raced => raced')
    BY <1>0, <1>4 DEF LoadKey, TypeOK, KeyStep
  <2>2. CASE \E k \in Oldest : Cache(i, k.kid) /\ raced' = raced
    BY <1>1, <1>3, <2>1, <2>2, NotMaking DEF Making
  <2>3. CASE Goto(i, "generate") /\ (~raced' => ~BeingMade(i) /\ keys = {})
    BY <1>1, <2>1, <2>3 DEF Single, Becomes, BeingMade
  <2>4. QED BY <1>4, <2>2, <2>3 DEF LoadKey, NoKeyYet
<1>5. CASE GenerateKey(i)
  <2>1. proc[i].pc = "generate" /\ UNCHANGED <<keys, raced>>
    BY <1>5 DEF GenerateKey, At, tokens
  <2>2. QED BY <1>1, <2>1 DEF Single, Becomes, Making
<1>6. CASE InsertKey(i)
  <2>1. proc[i].pc = "insert" /\ raced' = raced
    BY <1>6 DEF InsertKey, At
  <2>2. CASE keys' = keys \cup {NewKey(i)} /\ Cache(i, NewKey(i).kid)
    BY <1>1, <1>3, <2>1, <2>2 DEF Single, Becomes, Making
  <2>3. CASE keys' = keys /\ Goto(i, "reread")
    BY <1>1, <1>2, <2>1, <2>3, NotMaking DEF Making, Serving
  <2>4. QED BY <1>6, <2>2, <2>3 DEF InsertKey
<1>7. CASE RereadKey(i)
  <2>1. proc'[i].pc = "serving" /\ UNCHANGED <<keys, raced>>
    BY <1>2, <1>3, <1>7 DEF RereadKey, tokens, Serving
  <2>2. QED BY <1>1, <2>1, NotMaking DEF Making
<1>8. CASE Sign(i)
  BY <1>1, <1>8, NotMaking DEF Sign, At, Making
<1>9. QED BY <1>4, <1>5, <1>6, <1>7, <1>8

-----------------------------------------------------------------------------
(* The theorems.                                                              *)

LEMMA InitInv == Init => Inv
<1> SUFFICES ASSUME Init PROVE Inv
  OBVIOUS
<1>1. Down \in Process /\ Down.pc = "down" /\ Down.key = 0
  BY DEF Down, Process
<1>2. TypeOK
  <2>1. signed \cup {proc[i].key : i \in Instance} \subseteq {0} \cup {k.kid : k \in keys}
    BY <1>1 DEF Init
  <2>2. crashes \in 0..MaxCrashes /\ errors \in 0..MaxErrors
    BY StartupAssumption DEF Init
  <2>3. lock \in [Migration -> Instance \cup {None}] /\ \A m \in Migration : lock[m] = None
    BY DEF Init
  <2>4. QED BY <1>1, <2>1, <2>2, <2>3 DEF Init, TypeOK
<1>3. IsFiniteSet(keys) /\ 0 \notin signed
  BY FS_EmptySet DEF Init
<1>4. SchemaInv /\ Single
  <2>1. \A i \in Instance : proc[i].pc = "down"
    BY <1>1 DEF Init
  <2>2. SchemaInv
    BY <2>1 DEF Init, SchemaInv, InOrder, Ordered, Serving, Making
  <2>3. Single
    BY <2>1 DEF Init, Single, Making
  <2>4. QED BY <2>2, <2>3
<1>5. QED BY <1>2, <1>3, <1>4 DEF Inv

LEMMA NextInv == Inv /\ [Next]_vars => Inv'
<1> SUFFICES ASSUME Inv, [Next]_vars PROVE Inv'
  OBVIOUS
<1>1. TypeOK /\ IsFiniteSet(keys) /\ SchemaInv /\ Single /\ 0 \notin signed
  BY DEF Inv
<1>2. ASSUME NEW i \in Instance,
             \/ Boot(i) \/ EnsureTable(i) \/ CreateTable(i) \/ ReadPending(i) \/ Begin(i)
             \/ Apply(i) \/ Record(i) \/ Commit(i) \/ CountAccounts(i) \/ SeedAdmin(i)
      PROVE  Inv'
  <2>1. TypeOK' /\ SchemaInv'
    BY <1>1, <1>2, StartingTyped, StartingOrdered DEF SchemaInv
  <2>2. Single' /\ UNCHANGED tokens
    BY <1>1, <1>2, StartingSingle
  <2>3. QED BY <1>1, <2>1, <2>2 DEF Inv, tokens
<1>3. ASSUME NEW i \in Instance,
             LoadKey(i) \/ GenerateKey(i) \/ InsertKey(i) \/ RereadKey(i) \/ Sign(i)
      PROVE  Inv'
  <2>1. KeyStep(i)
    BY <1>1, <1>3, KeySteps
  <2>2. TypeOK' /\ IsFiniteSet(keys)' /\ SchemaInv' /\ Single'
    BY <1>1, <1>3, <2>1, KeyTyped, KeyOrdered, KeySingle
  <2>3. 0 \notin signed'
    BY <1>1, <1>3 DEF LoadKey, GenerateKey, InsertKey, RereadKey, Sign, tokens
  <2>4. QED BY <2>2, <2>3 DEF Inv
<1>4. ASSUME NEW i \in Instance, Crash(i) PROVE Inv'
  <2>1. Stop(i) /\ UNCHANGED <<tables, tokens>> /\ errors' = errors /\ crashes' \in 0..MaxCrashes
    BY <1>1, <1>4, StartupAssumption DEF Crash, TypeOK
  <2>2. TypeOK' /\ SchemaInv' /\ Single'
    BY <1>1, <1>4, <2>1, StopTyped, StopOrdered, StartingSingle
  <2>3. QED BY <1>1, <2>1, <2>2 DEF Inv, tokens
<1>5. CASE UNCHANGED vars
  <2>1. UNCHANGED <<tables, lock, tokens, faults, proc>>
    BY <1>5 DEF vars, tables, tokens, faults
  <2>2. TypeOK' /\ Single' /\ 0 \notin signed' /\ IsFiniteSet(keys)'
    BY <1>1, <2>1 DEF TypeOK, Single, tables, tokens, faults
  <2>3. SchemaInv'
    BY <1>1, <2>1 DEF SchemaInv, InOrder, Ordered, Following, tables
  <2>4. QED BY <2>2, <2>3 DEF Inv
<1>6. QED BY <1>2, <1>3, <1>4, <1>5 DEF Next, Run

\* The types, and that only the transaction of a migration that has been applied holds its locks:
\* an instance that exits, is killed or commits lets go of them.
THEOREM StartupTyped == Spec => []TypeOK
<1>1. Inv => TypeOK
  BY DEF Inv
<1>2. QED BY <1>1, InitInv, NextInv, PTL DEF Spec

\* However many instances start at once and wherever they are killed, the migrations in effect are the
\* recorded ones and the first of the order, and nobody serves before all of them are.
THEOREM SchemaSafe == Spec => []SchemaRecorded
<1>1. Inv => SchemaRecorded
  BY DEF Inv, SchemaInv, InOrder, Ordered, SchemaRecorded
<1>2. QED BY <1>1, InitInv, NextInv, PTL DEF Spec

\* A token signed by any instance verifies at every other and after any restart, unless two instances
\* made keys at once or the query for the stored key failed.
THEOREM TokensSafe == Spec => []TokensVerify
<1>1. Inv => TokensVerify
  <2>1. SUFFICES ASSUME Inv, ~raced, NEW i \in Instance, proc[i].key # 0, NEW kid \in signed
                 PROVE  proc[i].key = kid
    BY DEF TokensVerify, Verifies
  <2>2. proc[i].key \in Kids /\ kid \in Kids
    BY <2>1 DEF Inv, TypeOK, Kids
  <2>3. QED BY <2>1, <2>2 DEF Inv, Single, Kids
<1>2. QED BY <1>1, InitInv, NextInv, PTL DEF Spec
=============================================================================
