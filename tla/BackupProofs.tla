---------------------------- MODULE BackupProofs ----------------------------
(***************************************************************************)
(* Proofs about Backup, for any accounts, identifiers and requests: the    *)
(* foreign keys survive whatever overlaps, and when an account is not used *)
(* while it is exported or restored, Backup implements Snapshots.          *)
(***************************************************************************)
EXTENDS Backup, TLAPS

-----------------------------------------------------------------------------
(* The tables as values: t is what row is in some state.                      *)

\* What a row of each table may refer to.
Fits(i, p) == /\ i \in Entry => p \in Vault
              /\ i \in Audit => p \in Key \cup {None}
              /\ i \notin Entry \cup Audit => p = None

\* A row is of its table, of a drawn identifier, and refers to one that exists.
Whole(t, s) ==
  \A i \in Id : t[i] # NoRow =>
    /\ i \in s /\ t[i].ver > 0 /\ Fits(i, t[i].ref)
    /\ t[i].ref # None => t[t[i].ref] # NoRow
    /\ t[i].owner \in IF i \in Entry THEN {None} ELSE User

\* An audit row belongs to whom its key belongs to.
Agreed(t) ==
  \A i \in Audit : t[i] # NoRow /\ t[i].ref # None => t[t[i].ref].owner = t[i].owner

Holder(t, i) == IF i \in Entry THEN t[t[i].ref].owner ELSE t[i].owner

Held(t, u, i) == t[i] # NoRow /\ u = Holder(t, i)

Item(t, u, i) == IF Held(t, u, i) THEN [ref |-> t[i].ref, ver |-> t[i].ver] ELSE Nothing

\* The contents of a file fit its tables, and none of its rows refers out of it.
Fitting(f, s) == \A i \in Id : f[i] # Nothing => i \in s /\ f[i].ver > 0 /\ Fits(i, f[i].ref)

Closed(f) == \A i \in Id : f[i].ref # None => f[f[i].ref] # Nothing

-----------------------------------------------------------------------------
(* The inductive invariants.                                                  *)

\* An export or restore has an account.
Seated(r) == IF At(r, "idle") THEN req[r].user = None ELSE req[r].user \in User

\* Of any execution.
Inv == /\ TypeOK
       /\ Whole(row, used)
       /\ \A f \in files : Fitting(f, used)
       /\ \A r \in Request : Fitting(req[r].doc, used) /\ Seated(r)

\* At most one export or restore per account.
OneEach == \A r, q \in Request : req[q].user = req[r].user /\ ~At(r, "idle") => q = r

\* What an export has read is what its account holds.
Current(r) ==
  /\ At(r, "read") =>
       \A n \in 1..5 : \A i \in Tables[n] :
         req[r].doc[i] = IF n < req[r].table THEN Item(row, req[r].user, i) ELSE Nothing
  /\ At(r, "exported") => \A i \in Id : req[r].doc[i] = Item(row, req[r].user, i)

\* What a restore has deleted is what its account holds, and it restores a file.
Emptied(r) ==
  At(r, "delete") \/ At(r, "insert") =>
    /\ req[r].doc \in files
    /\ \A i \in req[r].doomed : Held(row, req[r].user, i)
    /\ \A n \in 1..5 : \A i \in DeleteOrder[n] :
         Held(row, req[r].user, i) /\ (At(r, "insert") \/ n < req[r].table) => i \in req[r].doomed

\* Of one in which accounts are left alone while they are exported or restored.
QuietInv == /\ Inv
            /\ Agreed(row)
            /\ OneEach
            /\ \A f \in files : Closed(f)
            /\ \A r \in Request : Current(r) /\ Emptied(r)

-----------------------------------------------------------------------------
(* What a statement does to the tables.                                       *)

Tabled == [Id -> Row]

\* Nothing changes but what u holds.
OnlyOf(u, t, next) == \A v \in User \ {u}, i \in Id : Item(next, v, i) = Item(t, v, i)

LEMMA TablesApart ==
  /\ \A i \in Entry : i \notin Vault \cup Key \cup Note \cup Audit
  /\ \A i \in Audit : i \notin Vault \cup Key \cup Note
  /\ \A i \in Key : i \notin Vault \cup Note
  /\ \A i \in Vault : i \notin Note
<1>1. \A m, n \in 1..5 : m # n => Tables[m] \cap Tables[n] = {}
  BY BackupAssumption
<1>2. /\ Tables[1] = Key /\ Tables[2] = Vault /\ Tables[3] = Entry /\ Tables[4] = Note /\ Tables[5] = Audit
      /\ 1 \in 1..5 /\ 2 \in 1..5 /\ 3 \in 1..5 /\ 4 \in 1..5 /\ 5 \in 1..5
  BY DEF Tables
<1>3. /\ Key \cap Vault = {} /\ Key \cap Entry = {} /\ Key \cap Note = {} /\ Key \cap Audit = {}
      /\ Vault \cap Entry = {} /\ Vault \cap Note = {} /\ Vault \cap Audit = {}
      /\ Entry \cap Note = {} /\ Entry \cap Audit = {} /\ Note \cap Audit = {}
  BY <1>1, <1>2
<1>4. QED BY <1>3

LEMMA NoneApart == None \notin User /\ None \notin Id
BY BackupAssumption

\* An entry is in a vault, which is not an entry.
LEMMA EntryVault ==
  ASSUME NEW t \in Tabled, NEW s, Whole(t, s), NEW i \in Entry, t[i] # NoRow
  PROVE  /\ t[i].ref \in Vault /\ t[i].ref \notin Entry /\ t[i].ref \in Id /\ t[i].ref # None
         /\ t[t[i].ref] # NoRow /\ t[t[i].ref].owner \in User
<1>1. i \in Id /\ i \notin Audit
  BY TablesApart DEF Id
<1>2. t[i].ref \in Vault
  BY <1>1 DEF Whole, Fits
<1>3. t[i].ref \notin Entry /\ t[i].ref \in Id /\ t[i].ref # None
  BY <1>2, TablesApart, NoneApart DEF Id
<1>4. QED BY <1>1, <1>2, <1>3 DEF Whole

\* A row that is inserted, one item of one account.
LEMMA NewRow ==
  ASSUME row \in Tabled, Whole(row, used), NEW i \in Id \ used, NEW u \in User,
         NEW p \in Id \cup {None}, Fits(i, p), p # None => row[p] # NoRow,
         NEW n \in Nat \ {0}, row' = With(row, i, u, p, n)
  PROVE  /\ row' \in Tabled /\ Whole(row', used \cup {i}) /\ row[i] = NoRow
         /\ row'[i].owner = IF i \in Entry THEN None ELSE u
         /\ row'[i].ref = p /\ row'[i].ver = n /\ row'[i] # NoRow
         /\ \A j \in Id : j # i => row'[j] = row[j]
         /\ \A j \in Id : row[j] # NoRow /\ row[j].ref # None => row[j].ref # i
         /\ \A v \in User, j \in Id : j # i => Item(row', v, j) = Item(row, v, j)
         /\ (p # None => row[p].owner = u) =>
              /\ \A v \in User : v # u => Item(row', v, i) = Item(row, v, i)
              /\ Agreed(row) => Agreed(row')
<1>1. row[i] = NoRow
  BY DEF Whole
<1>2. /\ row' \in Tabled /\ row'[i] = [owner |-> IF i \in Entry THEN None ELSE u, ref |-> p, ver |-> n]
      /\ \A j \in Id : j # i => row'[j] = row[j]
  BY DEF With, Tabled, Row
<1>3. row'[i] # NoRow
  BY <1>2 DEF NoRow
<1>4. \A j \in Id : row[j] # NoRow /\ row[j].ref # None => row[j].ref # i
  BY <1>1 DEF Whole
<1>5. p # i
  BY <1>1, NoneApart
<1>6. Whole(row', used \cup {i})
  <2> SUFFICES ASSUME NEW j \in Id, row'[j] # NoRow
               PROVE  /\ j \in used \cup {i} /\ row'[j].ver > 0 /\ Fits(j, row'[j].ref)
                      /\ row'[j].ref # None => row'[row'[j].ref] # NoRow
                      /\ row'[j].owner \in IF j \in Entry THEN {None} ELSE User
    BY DEF Whole
  <2>1. CASE j = i
    BY <2>1, <1>2, <1>5
  <2>2. CASE j # i
    <3>1. row'[j] = row[j] /\ row[j] # NoRow
      BY <2>2, <1>2
    <3>2. /\ j \in used /\ row[j].ver > 0 /\ Fits(j, row[j].ref)
          /\ row[j].ref # None => row[row[j].ref] # NoRow
          /\ row[j].owner \in IF j \in Entry THEN {None} ELSE User
      BY <3>1 DEF Whole
    <3>3. row[j].ref # None => row[j].ref \in Id
      BY DEF Tabled, Row
    <3>4. row[j].ref # None => row'[row[j].ref] = row[row[j].ref]
      BY <3>1, <3>3, <1>2, <1>4
    <3>5. QED BY <3>1, <3>2, <3>4
  <2>3. QED BY <2>1, <2>2
<1>7. /\ row' \in Tabled /\ row[i] = NoRow
      /\ row'[i].owner = IF i \in Entry THEN None ELSE u
      /\ row'[i].ref = p /\ row'[i] # NoRow
      /\ \A j \in Id : j # i => row'[j] = row[j]
      /\ \A j \in Id : row[j] # NoRow /\ row[j].ref # None => row[j].ref # i
  BY <1>1, <1>2, <1>3, <1>4
<1> DEFINE Owns == p # None => row[p].owner = u
<1>8. ASSUME NEW v \in User, NEW j \in Id, j # i
      PROVE  Item(row', v, j) = Item(row, v, j)
  <2>1. row'[j] = row[j]
    BY <1>7, <1>8
  <2>2. j \in Entry /\ row[j] # NoRow => row'[row[j].ref] = row[row[j].ref]
    BY <1>7, EntryVault
  <2>3. Held(row', v, j) <=> Held(row, v, j)
    BY <2>1, <2>2 DEF Held, Holder
  <2>4. QED BY <2>1, <2>3 DEF Item
<1>9. ASSUME Owns, NEW v \in User, v # u
      PROVE  Item(row', v, i) = Item(row, v, i)
  <2>1. i \in Entry => p \in Id /\ p # None /\ row'[p] = row[p]
    BY <1>7, <1>5, NoneApart DEF Fits, Id
  <2>2. Holder(row', i) = u
    BY <1>7, <1>9, <2>1 DEF Holder
  <2>3. QED BY <1>7, <1>9, <2>2 DEF Item, Held
<1>10. ASSUME Owns, Agreed(row), NEW j \in Audit, row'[j] # NoRow, row'[j].ref # None
      PROVE  row'[row'[j].ref].owner = row'[j].owner
  <2>0. j \in Id /\ j \notin Entry
    BY TablesApart DEF Id
  <2>1. CASE j = i
    BY <2>0, <2>1, <1>7, <1>5, <1>10
  <2>2. CASE j # i
    <3>1. row'[j] = row[j] /\ row[j].ref \in Id /\ row[j].ref # i
      BY <2>0, <2>2, <1>7, <1>10 DEF Tabled, Row
    <3>2. QED BY <3>1, <1>7, <1>10 DEF Agreed
  <2>3. QED BY <2>1, <2>2
<1>11. QED BY <1>1, <1>2, <1>3, <1>4, <1>6, <1>8, <1>9, <1>10 DEF Agreed

\* Rows that are deleted.
LEMMA Removal ==
  ASSUME row \in Tabled, Whole(row, used), NEW gone \in SUBSET Id, NEW next, next = Without(gone)
  PROVE  /\ next \in Tabled /\ Whole(next, used)
         /\ \A j \in Id : next[j] # NoRow =>
              /\ row[j] # NoRow /\ j \notin gone /\ next[j].owner = row[j].owner
              /\ next[j].ver = row[j].ver
              /\ next[j].ref = IF row[j].ref \in gone THEN None ELSE row[j].ref
              /\ Holder(next, j) = Holder(row, j)
         /\ \A j \in Id : row[j] # NoRow /\ j \notin gone /\ row[j].ref \notin gone => next[j] = row[j]
         /\ \A j \in Id : row[j] # NoRow /\ j \notin gone /\ j \notin Entry => next[j] # NoRow
<1> DEFINE Out(j) == j \in gone \/ (j \in Entry /\ row[j].ref \in gone)
<1>0. None \notin gone /\ NoRow.ref = None
  BY NoneApart DEF NoRow
<1>1. ASSUME NEW j \in Id
      PROVE  /\ next[j] = IF Out(j) THEN NoRow
                          ELSE IF row[j].ref \in gone THEN [row[j] EXCEPT !.ref = None] ELSE row[j]
             /\ row[j] \in Row /\ next[j] \in Row
  <2>1. next[j] = IF Out(j) THEN NoRow
                  ELSE IF row[j].ref \in gone THEN [row[j] EXCEPT !.ref = None] ELSE row[j]
    BY DEF Without
  <2>2. row[j] \in Row /\ NoRow \in Row
    BY DEF Tabled, Row, NoRow
  <2>3. QED BY <2>1, <2>2 DEF Row
<1>2. next \in Tabled
  <2>1. next = [j \in Id |-> next[j]]
    BY DEF Without
  <2>2. QED BY <2>1, <1>1 DEF Tabled
<1>3. ASSUME NEW j \in Id, next[j] # NoRow
      PROVE  /\ row[j] # NoRow /\ ~Out(j) /\ next[j].owner = row[j].owner
             /\ next[j].ver = row[j].ver
             /\ next[j].ref = IF row[j].ref \in gone THEN None ELSE row[j].ref
  <2>1. ~Out(j)
    BY <1>1, <1>3
  <2>2. row[j] # NoRow
    BY <1>0, <1>1, <1>3, <2>1
  <2>3. QED BY <1>1, <2>1, <2>2 DEF Row
<1>4. ASSUME NEW j \in Id, row[j] # NoRow, ~Out(j)
      PROVE  next[j] # NoRow /\ (row[j].ref \notin gone => next[j] = row[j])
  <2>1. row[j].ver > 0
    BY <1>4 DEF Whole
  <2>2. next[j].ver = row[j].ver
    BY <1>1, <1>4 DEF Row
  <2>3. next[j] # NoRow
    BY <2>1, <2>2 DEF NoRow
  <2>4. QED BY <2>3, <1>1, <1>4
<1> HIDE DEF Out
<1>5. ASSUME NEW j \in Id, next[j] # NoRow, next[j].ref # None
      PROVE  next[next[j].ref] # NoRow
  <2>1. /\ row[j] # NoRow /\ row[j].ref \notin gone /\ next[j].ref = row[j].ref
        /\ row[j].ref \in Id /\ row[row[j].ref] # NoRow
    BY <1>1, <1>3, <1>5 DEF Whole, Row
  <2>2. row[j].ref \notin Entry
    BY <2>1, <1>5, TablesApart DEF Whole, Fits
  <2>3. ~Out(row[j].ref)
    BY <2>1, <2>2 DEF Out
  <2>4. QED BY <2>1, <2>3, <1>4
<1>6. Whole(next, used)
  <2> SUFFICES ASSUME NEW j \in Id, next[j] # NoRow
               PROVE  /\ j \in used /\ next[j].ver > 0 /\ Fits(j, next[j].ref)
                      /\ next[j].ref # None => next[next[j].ref] # NoRow
                      /\ next[j].owner \in IF j \in Entry THEN {None} ELSE User
    BY DEF Whole
  <2>1. /\ row[j] # NoRow /\ ~Out(j) /\ next[j].owner = row[j].owner /\ next[j].ver = row[j].ver
        /\ next[j].ref = IF row[j].ref \in gone THEN None ELSE row[j].ref
    BY <1>3
  <2>2. /\ j \in used /\ row[j].ver > 0 /\ Fits(j, row[j].ref)
        /\ row[j].owner \in IF j \in Entry THEN {None} ELSE User
    BY <2>1 DEF Whole
  <2>3. Fits(j, next[j].ref)
    BY <2>1, <2>2 DEF Fits, Out
  <2>4. QED BY <2>1, <2>2, <2>3, <1>5
<1>7. ASSUME NEW j \in Id, next[j] # NoRow
      PROVE  Holder(next, j) = Holder(row, j)
  <2>1. CASE j \in Entry
    <3>1. row[j] # NoRow /\ row[j].ref \notin gone /\ next[j].ref = row[j].ref
      BY <1>3, <1>7, <2>1 DEF Out
    <3>2. row[j].ref \in Id /\ row[j].ref # None
      BY <3>1, <2>1, EntryVault
    <3>3. next[row[j].ref] # NoRow
      BY <3>1, <3>2, <1>5, <1>7
    <3>4. next[row[j].ref].owner = row[row[j].ref].owner
      BY <3>2, <3>3, <1>3
    <3>5. QED BY <2>1, <3>1, <3>4 DEF Holder
  <2>2. CASE j \notin Entry
    BY <2>2, <1>3, <1>7 DEF Holder
  <2>3. QED BY <2>1, <2>2
<1>8. \A j \in Id : next[j] # NoRow => j \notin gone
  BY <1>3 DEF Out
<1>9. \A j \in Id : row[j] # NoRow /\ j \notin gone /\ row[j].ref \notin gone => next[j] = row[j]
  BY <1>4 DEF Out
<1>10. \A j \in Id : row[j] # NoRow /\ j \notin gone /\ j \notin Entry => next[j] # NoRow
  BY <1>4 DEF Out
<1>11. QED BY <1>2, <1>3, <1>6, <1>7, <1>8, <1>9, <1>10

\* Deleting rows of one account changes nothing but what it holds.
LEMMA RemovalOf ==
  ASSUME row \in Tabled, Whole(row, used), Agreed(row), NEW u \in User,
         NEW gone \in SUBSET Id, \A j \in gone : Held(row, u, j), NEW next, next = Without(gone)
  PROVE  /\ OnlyOf(u, row, next) /\ Agreed(next)
         /\ \A j \in Id : Held(next, u, j) => Held(row, u, j) /\ j \notin gone
         /\ \A j \in Id : j \notin gone /\ row[j].ref \notin gone => Item(next, u, j) = Item(row, u, j)
         /\ \A j \in gone : Item(next, u, j) = Nothing
<1>1. /\ next \in Tabled /\ Whole(next, used)
      /\ \A j \in Id : next[j] # NoRow =>
              /\ row[j] # NoRow /\ j \notin gone /\ next[j].owner = row[j].owner
              /\ next[j].ver = row[j].ver
              /\ next[j].ref = IF row[j].ref \in gone THEN None ELSE row[j].ref
              /\ Holder(next, j) = Holder(row, j)
      /\ \A j \in Id : row[j] # NoRow /\ j \notin gone /\ row[j].ref \notin gone => next[j] = row[j]
  BY Removal
<1>2. ASSUME NEW j \in Id, row[j] # NoRow, j \in gone \/ row[j].ref \in gone
      PROVE  Holder(row, j) = u
  <2>1. CASE j \in gone
    BY <2>1 DEF Held
  <2>2. CASE row[j].ref \in gone /\ j \in Entry
    <3>1. row[j].ref \in Vault /\ row[j].ref \notin Entry
      BY <2>2, <1>2, EntryVault
    <3>2. QED BY <2>2, <3>1 DEF Held, Holder
  <2>3. CASE row[j].ref \in gone /\ j \notin Entry
    <3>1. row[j].ref # None /\ Fits(j, row[j].ref)
      BY <2>3, <1>2, NoneApart DEF Whole
    <3>2. j \in Audit /\ row[j].ref \in Key
      BY <3>1, <2>3 DEF Fits
    <3>3. row[j].ref \notin Entry
      BY <3>2, TablesApart
    <3>4. row[row[j].ref].owner = row[j].owner
      BY <3>1, <3>2, <1>2 DEF Agreed
    <3>5. QED BY <2>3, <3>3, <3>4 DEF Held, Holder
  <2>4. QED BY <1>2, <2>1, <2>2, <2>3
<1>3. ASSUME NEW v \in User, NEW j \in Id, v # u \/ (j \notin gone /\ row[j].ref \notin gone)
      PROVE  Item(next, v, j) = Item(row, v, j)
  <2>1. CASE Held(row, v, j)
    <3>1. row[j] # NoRow /\ j \notin gone /\ row[j].ref \notin gone
      BY <2>1, <1>2, <1>3 DEF Held
    <3>2. next[j] = row[j]
      BY <3>1, <1>1
    <3>3. Held(next, v, j)
      BY <3>1, <3>2, <2>1, <1>1 DEF Held
    <3>4. QED BY <2>1, <3>2, <3>3 DEF Item
  <2>2. CASE ~Held(row, v, j)
    BY <2>2, <1>1 DEF Item, Held
  <2>3. QED BY <2>1, <2>2
<1>4. ASSUME NEW j \in Audit, next[j] # NoRow, next[j].ref # None
      PROVE  next[next[j].ref].owner = next[j].owner
  <2>1. j \in Id
    BY DEF Id
  <2>2. row[j] # NoRow /\ next[j].ref = row[j].ref /\ next[j].owner = row[j].owner
    BY <1>1, <1>4, <2>1
  <2>3. row[j].ref \in Id /\ next[row[j].ref] # NoRow
    BY <1>1, <1>4, <2>1, <2>2 DEF Whole, Tabled, Row
  <2>4. next[row[j].ref].owner = row[row[j].ref].owner
    BY <1>1, <2>3
  <2>5. QED BY <2>2, <2>4, <1>4 DEF Agreed
<1>5. \A j \in gone : Item(next, u, j) = Nothing
  BY <1>1 DEF Item, Held
<1>6. \A j \in Id : Held(next, u, j) => Held(row, u, j) /\ j \notin gone
  BY <1>1 DEF Held
<1>7. OnlyOf(u, row, next) /\ Agreed(next)
  BY <1>3, <1>4 DEF OnlyOf, Agreed
<1>8. QED BY <1>3, <1>5, <1>6, <1>7

\* A row that is written again.
LEMMA Revision ==
  ASSUME row \in Tabled, Whole(row, used), NEW i \in Id, row[i] # NoRow,
         NEW n \in Nat \ {0}, row' = [row EXCEPT ![i].ver = n]
  PROVE  /\ row' \in Tabled /\ Whole(row', used)
         /\ Agreed(row) => Agreed(row')
         /\ \A v \in User, j \in Id : j # i \/ ~Held(row, v, i) => Item(row', v, j) = Item(row, v, j)
<1>1. ASSUME NEW j \in Id
      PROVE  /\ row'[j].owner = row[j].owner /\ row'[j].ref = row[j].ref /\ row'[j] \in Row
             /\ row'[j].ver = IF j = i THEN n ELSE row[j].ver
             /\ row'[j] # NoRow <=> row[j] # NoRow
             /\ j # i => row'[j] = row[j]
  BY DEF Tabled, Row, NoRow
<1>2. row' \in Tabled
  BY <1>1 DEF Tabled
<1>3. ASSUME NEW j \in Id, row[j] # NoRow, row[j].ref # None
      PROVE  row[j].ref \in Id /\ row'[row[j].ref].owner = row[row[j].ref].owner
             /\ row'[row[j].ref] # NoRow
  <2>1. row[j].ref \in Id /\ row[row[j].ref] # NoRow
    BY <1>3 DEF Tabled, Row, Whole
  <2>2. QED BY <2>1, <1>1
<1>4. Whole(row', used)
  BY <1>1, <1>3 DEF Whole
<1>5. Agreed(row) => Agreed(row')
  <2>1. Audit \subseteq Id
    BY DEF Id
  <2>2. QED BY <2>1, <1>1, <1>3 DEF Agreed
<1>6. ASSUME NEW v \in User, NEW j \in Id
      PROVE  Held(row', v, j) <=> Held(row, v, j)
  <2>1. j \in Entry /\ row[j] # NoRow => row[j].ref # None
    BY EntryVault
  <2>2. row[j] # NoRow => Holder(row', j) = Holder(row, j)
    BY <2>1, <1>1, <1>3 DEF Holder
  <2>3. QED BY <2>2, <1>1 DEF Held
<1>7. QED BY <1>1, <1>2, <1>4, <1>5, <1>6 DEF Item

\* A restore that commits.
LEMMA Replacement ==
  ASSUME row \in Tabled, Whole(row, used), NEW r \in Request, req[r] \in RequestState,
         req[r].user \in User, Fitting(req[r].doc, used), ~Conflicts(r), NEW next, next = Replaced(r),
         NEW rest, rest = Without(req[r].doomed)
  PROVE  /\ next \in Tabled /\ Whole(next, used)
         /\ \A i \in Id : req[r].doc[i] = Nothing =>
              /\ next[i] = rest[i]
              /\ next[i] # NoRow /\ next[i].ref # None => next[next[i].ref] = rest[next[i].ref]
         /\ \A i \in Id : req[r].doc[i] # Nothing =>
              /\ rest[i] = NoRow /\ next[i] # NoRow
              /\ next[i].owner = IF i \in Entry THEN None ELSE req[r].user
              /\ next[i].ref = req[r].doc[i].ref /\ next[i].ver = req[r].doc[i].ver
<1> DEFINE doc == req[r].doc
<1>0. doc \in [Id -> Content] /\ req[r].doomed \in SUBSET Id
  BY DEF RequestState
<1>1. rest \in Tabled /\ Whole(rest, used)
  BY <1>0, Removal
<1>2. \A i \in Id : doc[i] # Nothing =>
        rest[i] = NoRow /\ (doc[i].ref # None => doc[doc[i].ref] # Nothing \/ rest[doc[i].ref] # NoRow)
  BY DEF Conflicts
<1>3. ASSUME NEW i \in Id
      PROVE  /\ doc[i] = Nothing => next[i] = rest[i]
             /\ doc[i] # Nothing =>
                  /\ next[i].owner = IF i \in Entry THEN None ELSE req[r].user
                  /\ next[i].ref = doc[i].ref /\ next[i].ver = doc[i].ver
                  /\ next[i] \in Row
  <2> DEFINE new == [owner |-> IF i \in Entry THEN None ELSE req[r].user,
                     ref |-> doc[i].ref, ver |-> doc[i].ver]
  <2>1. next[i] = IF doc[i] = Nothing THEN rest[i] ELSE new
    BY DEF Replaced
  <2>2. doc[i].ref \in Id \cup {None} /\ doc[i].ver \in Nat
    BY <1>0 DEF Content
  <2>3. new \in Row
    BY <2>2 DEF Row
  <2>4. /\ new.owner = IF i \in Entry THEN None ELSE req[r].user
        /\ new.ref = doc[i].ref /\ new.ver = doc[i].ver
    OBVIOUS
  <2> HIDE DEF new
  <2>5. QED BY <2>1, <2>3, <2>4
<1> HIDE DEF doc
<1>4. next \in Tabled
  <2>1. \A i \in Id : next[i] \in Row
    <3> SUFFICES ASSUME NEW i \in Id
                 PROVE  next[i] \in Row
      OBVIOUS
    <3>1. CASE doc[i] = Nothing
      BY <3>1, <1>1, <1>3 DEF Tabled
    <3>2. CASE doc[i] # Nothing
      BY <3>2, <1>3
    <3>3. QED BY <3>1, <3>2
  <2>2. next = [i \in Id |-> next[i]]
    BY DEF Replaced
  <2>3. QED BY <2>1, <2>2 DEF Tabled
<1>5. ASSUME NEW i \in Id, doc[i] # Nothing
      PROVE  /\ rest[i] = NoRow /\ next[i] # NoRow
             /\ next[i].owner = IF i \in Entry THEN None ELSE req[r].user
             /\ next[i].ref = doc[i].ref /\ next[i].ver = doc[i].ver
             /\ i \in used /\ doc[i].ver > 0 /\ Fits(i, doc[i].ref)
  <2>1. i \in used /\ doc[i].ver > 0 /\ Fits(i, doc[i].ref)
    BY <1>5 DEF Fitting, doc
  <2>2. /\ next[i].owner = IF i \in Entry THEN None ELSE req[r].user
        /\ next[i].ref = doc[i].ref /\ next[i].ver = doc[i].ver
    BY <1>3, <1>5
  <2>3. next[i] # NoRow
    BY <2>1, <2>2 DEF NoRow
  <2>4. QED BY <2>1, <2>2, <2>3, <1>2, <1>5
<1>6. ASSUME NEW i \in Id, doc[i] = Nothing, next[i] # NoRow, next[i].ref # None
      PROVE  /\ next[i] = rest[i] /\ rest[next[i].ref] # NoRow
             /\ next[next[i].ref] = rest[next[i].ref]
  <2>1. next[i] = rest[i]
    BY <1>3, <1>6
  <2>2. next[i].ref \in Id /\ rest[next[i].ref] # NoRow
    BY <2>1, <1>1, <1>6 DEF Whole, Tabled, Row
  <2>3. doc[next[i].ref] = Nothing
    BY <2>2, <1>2
  <2>4. QED BY <2>1, <2>2, <2>3, <1>3
<1>7. Whole(next, used)
  <2> SUFFICES ASSUME NEW i \in Id, next[i] # NoRow
               PROVE  /\ i \in used /\ next[i].ver > 0 /\ Fits(i, next[i].ref)
                      /\ next[i].ref # None => next[next[i].ref] # NoRow
                      /\ next[i].owner \in IF i \in Entry THEN {None} ELSE User
    BY DEF Whole
  <2>1. CASE doc[i] = Nothing
    BY <2>1, <1>1, <1>3, <1>6 DEF Whole
  <2>2. CASE doc[i] # Nothing
    <3>1. next[i].ref # None => next[i].ref \in Id
      BY <1>4 DEF Tabled, Row
    <3>2. next[i].ref # None => next[next[i].ref] # NoRow
      <4> SUFFICES ASSUME next[i].ref # None
                   PROVE  next[next[i].ref] # NoRow
        OBVIOUS
      <4>1. next[i].ref = doc[i].ref /\ next[i].ref \in Id
        BY <3>1, <2>2, <1>5
      <4>2. doc[next[i].ref] # Nothing \/ rest[next[i].ref] # NoRow
        BY <4>1, <2>2, <1>2
      <4>3. QED BY <4>1, <4>2, <1>3, <1>5
    <3>3. QED BY <3>2, <2>2, <1>5
  <2>3. QED BY <2>1, <2>2
<1>8. QED BY <1>3, <1>4, <1>5, <1>6, <1>7 DEF doc

\* If it replaces all that one account holds by a whole file, the account holds the file.
LEMMA ReplacementOf ==
  ASSUME row \in Tabled, Whole(row, used), Agreed(row), NEW r \in Request, req[r] \in RequestState,
         NEW u \in User, req[r].user = u, Fitting(req[r].doc, used), Closed(req[r].doc),
         \A i \in Id : i \in req[r].doomed <=> Held(row, u, i),
         ~Conflicts(r), NEW next, next = Replaced(r)
  PROVE  /\ OnlyOf(u, row, next) /\ Agreed(next)
         /\ \A i \in Id : Item(next, u, i) = req[r].doc[i]
<1> DEFINE doc == req[r].doc
           rest == Without(req[r].doomed)
<1>0. doc \in [Id -> Content] /\ req[r].doomed \in SUBSET Id
  BY DEF RequestState
<1>1. /\ next \in Tabled /\ Whole(next, used)
      /\ \A i \in Id : doc[i] = Nothing =>
              /\ next[i] = rest[i]
              /\ next[i] # NoRow /\ next[i].ref # None => next[next[i].ref] = rest[next[i].ref]
      /\ \A i \in Id : doc[i] # Nothing =>
              /\ rest[i] = NoRow /\ next[i] # NoRow
              /\ next[i].owner = IF i \in Entry THEN None ELSE req[r].user
              /\ next[i].ref = doc[i].ref /\ next[i].ver = doc[i].ver
  BY Replacement
<1>2. /\ OnlyOf(u, row, rest) /\ Agreed(rest)
      /\ \A j \in Id : Held(rest, u, j) => Held(row, u, j) /\ j \notin req[r].doomed
  BY <1>0, RemovalOf
<1> HIDE DEF rest
<1>3. ASSUME NEW i \in Id, doc[i] # Nothing
      PROVE  Holder(next, i) = u /\ rest[i] = NoRow /\ next[i] # NoRow
  <2>1. CASE i \in Entry
    <3>1. next[i].ref \in Vault /\ next[i].ref \notin Entry /\ next[i].ref \in Id /\ next[i].ref # None
      BY <2>1, <1>1, <1>3, EntryVault
    <3>2. doc[next[i].ref] # Nothing
      BY <3>1, <1>1, <1>3 DEF Closed
    <3>3. next[next[i].ref].owner = u
      BY <3>1, <3>2, <1>1
    <3>4. QED BY <2>1, <3>3, <1>1, <1>3 DEF Holder
  <2>2. CASE i \notin Entry
    BY <2>2, <1>1, <1>3 DEF Holder
  <2>3. QED BY <2>1, <2>2
<1>4. ASSUME NEW i \in Id, doc[i] = Nothing, NEW v \in User
      PROVE  Item(next, v, i) = Item(rest, v, i) /\ (Held(next, v, i) => Held(rest, v, i))
  <2>1. next[i] = rest[i]
    BY <1>1, <1>4
  <2>2. next[i] # NoRow /\ i \in Entry => next[next[i].ref] = rest[next[i].ref]
    BY <1>1, <1>4, EntryVault
  <2>3. Held(next, v, i) <=> Held(rest, v, i)
    BY <2>1, <2>2 DEF Held, Holder
  <2>4. QED BY <2>1, <2>3 DEF Item
<1>5. ASSUME NEW i \in Id
      PROVE  Item(next, u, i) = doc[i]
  <2>1. CASE doc[i] = Nothing
    BY <2>1, <1>2, <1>4 DEF Item
  <2>2. CASE doc[i] # Nothing
    <3>1. Held(next, u, i)
      BY <2>2, <1>3 DEF Held
    <3>2. doc[i] = [ref |-> doc[i].ref, ver |-> doc[i].ver]
      BY <1>0 DEF Content
    <3>3. QED BY <3>1, <3>2, <2>2, <1>1 DEF Item
  <2>3. QED BY <2>1, <2>2
<1>6. ASSUME NEW v \in User \ {u}, NEW i \in Id
      PROVE  Item(next, v, i) = Item(row, v, i)
  <2>1. Item(rest, v, i) = Item(row, v, i)
    BY <1>2 DEF OnlyOf
  <2>2. CASE doc[i] = Nothing
    BY <2>1, <2>2, <1>4
  <2>3. CASE doc[i] # Nothing
    BY <2>1, <2>3, <1>3 DEF Item, Held
  <2>4. QED BY <2>2, <2>3
<1>7. ASSUME NEW j \in Audit, next[j] # NoRow, next[j].ref # None
      PROVE  next[next[j].ref].owner = next[j].owner
  <2>0. j \in Id /\ j \notin Entry /\ next[j].ref \in Id
    BY <1>1, <1>7, TablesApart DEF Tabled, Row, Id
  <2>1. CASE doc[j] = Nothing
    BY <2>0, <2>1, <1>1, <1>2, <1>7 DEF Agreed
  <2>2. CASE doc[j] # Nothing
    <3>1. next[j].ref \in Key
      BY <2>0, <1>1, <1>7 DEF Whole, Fits
    <3>2. next[j].ref \notin Entry /\ doc[next[j].ref] # Nothing
      BY <3>1, <2>0, <2>2, <1>1, <1>7, TablesApart DEF Closed
    <3>3. QED BY <3>2, <2>0, <2>2, <1>1
  <2>3. QED BY <2>1, <2>2
<1>8. QED BY <1>5, <1>6, <1>7 DEF OnlyOf, Agreed

-----------------------------------------------------------------------------
(* The statements that write rows.                                            *)

RowsInv == row \in Tabled /\ Whole(row, used) /\ used \subseteq Id /\ writes \in Nat

DocsInv == /\ files \subseteq [Id -> Content] /\ req \in [Request -> RequestState]
           /\ \A f \in files : Fitting(f, used)
           /\ \A r \in Request : Fitting(req[r].doc, used) /\ Seated(r)

\* One item of u changes, with those that refer to it.
Edited(u) ==
  \E i \in Id : \A j \in Id :
    Item(row', u, j) # Item(row, u, j) => j = i \/ Item(row, u, j).ref = i

\* Rows are added and changed by one account only.
Used(u) == /\ RowsInv' /\ used \subseteq used'
           /\ Agreed(row) => Agreed(row') /\ OnlyOf(u, row, row')

LEMMA InvParts == Inv <=> RowsInv /\ DocsInv
<1>1. RowsInv => References
  <2> SUFFICES ASSUME RowsInv, NEW i \in Id, Stored(i)
               PROVE  /\ row[i].ref # None => Stored(row[i].ref)
                      /\ i \in Entry => row[i].ref \in Vault /\ row[i].owner = None
                      /\ i \notin Entry => row[i].owner \in User
    BY DEF References
  <2>1. QED BY DEF RowsInv, Whole, Fits, Stored
<1>2. QED BY <1>1 DEF Inv, TypeOK, RowsInv, DocsInv, Tabled

LEMMA RowsHeld == \A u : Rows(u) = {i \in Id : Held(row, u, i)}
BY DEF Rows, Stored, Held, Holder

LEMMA HeldRow ==
  ASSUME NEW u, NEW i, Held(row, u, i), i \notin Entry
  PROVE  row[i] # NoRow /\ row[i].owner = u
BY DEF Held, Holder

LEMMA Inserting ==
  ASSUME RowsInv, NEW u \in User, NEW i \in Id, NEW p \in Id \cup {None}, InsertRow(u, i, p)
  PROVE  Used(u) /\ (Agreed(row) => Edited(u))
<1>1. /\ i \in Id \ used /\ i \notin Note
      /\ IF i \in Entry THEN p \in Rows(u) \cap Vault
         ELSE IF i \in Audit THEN p \in Rows(u) \cap Key ELSE p = None
      /\ row' = With(row, i, u, p, writes + 1) /\ used' = used \cup {i} /\ writes' = writes + 1
  BY DEF InsertRow
<1>2. Fits(i, p)
  BY <1>1, TablesApart DEF Fits
<1>3. p # None => row[p] # NoRow /\ row[p].owner = u
  BY <1>1, RowsHeld, HeldRow, TablesApart
<1>4. p # None => row[p] # NoRow
  BY <1>3
<1>5. row \in Tabled /\ Whole(row, used) /\ writes + 1 \in Nat \ {0}
  BY DEF RowsInv
<1>6. /\ row' \in Tabled /\ Whole(row', used \cup {i})
      /\ \A v \in User, j \in Id : j # i => Item(row', v, j) = Item(row, v, j)
      /\ (p # None => row[p].owner = u) =>
              /\ \A v \in User : v # u => Item(row', v, i) = Item(row, v, i)
              /\ Agreed(row) => Agreed(row')
  BY <1>1, <1>2, <1>4, <1>5, NewRow
<1>7. OnlyOf(u, row, row') /\ Edited(u) /\ (Agreed(row) => Agreed(row'))
  BY <1>3, <1>6 DEF OnlyOf, Edited
<1>8. QED BY <1>1, <1>5, <1>6, <1>7 DEF Used, RowsInv

LEMMA Updating ==
  ASSUME RowsInv, NEW u \in User, NEW i \in Id, UpdateRow(u, i)
  PROVE  Used(u) /\ (Agreed(row) => Edited(u))
<1>1. /\ i \in Rows(u) /\ row' = [row EXCEPT ![i].ver = writes + 1] /\ writes' = writes + 1
      /\ used' = used
  BY DEF UpdateRow
<1>2. row[i] # NoRow /\ Held(row, u, i)
  BY <1>1, RowsHeld DEF Held
<1>3. row \in Tabled /\ Whole(row, used) /\ writes + 1 \in Nat \ {0}
  BY DEF RowsInv
<1>4. /\ row' \in Tabled /\ Whole(row', used)
      /\ Agreed(row) => Agreed(row')
      /\ \A v \in User, j \in Id : j # i \/ ~Held(row, v, i) => Item(row', v, j) = Item(row, v, j)
  BY <1>1, <1>2, <1>3, Revision
<1>5. OnlyOf(u, row, row')
  BY <1>2, <1>4 DEF OnlyOf, Held
<1>6. Edited(u)
  BY <1>4 DEF Edited
<1>7. QED BY <1>1, <1>3, <1>4, <1>5, <1>6 DEF Used, RowsInv

LEMMA Deleting ==
  ASSUME RowsInv, NEW u \in User, NEW i \in Id, DeleteRow(u, i)
  PROVE  Used(u) /\ (Agreed(row) => Edited(u))
<1>1. i \in Rows(u) /\ row' = Without({i}) /\ used' = used /\ writes' = writes
  BY DEF DeleteRow, bounds
<1>2. Held(row, u, i) /\ {i} \in SUBSET Id /\ \A j \in {i} : Held(row, u, j)
  BY <1>1, RowsHeld
<1>3. row \in Tabled /\ Whole(row, used) /\ writes \in Nat /\ used \subseteq Id
  BY DEF RowsInv
<1>4. row' \in Tabled /\ Whole(row', used)
  BY <1>1, <1>2, <1>3, Removal
<1>5. ASSUME Agreed(row)
      PROVE  OnlyOf(u, row, row') /\ Agreed(row') /\ Edited(u)
  <2>1. /\ OnlyOf(u, row, row') /\ Agreed(row')
        /\ \A j \in Id : Held(row', u, j) => Held(row, u, j) /\ j \notin {i}
        /\ \A j \in Id : j \notin {i} /\ row[j].ref \notin {i} => Item(row', u, j) = Item(row, u, j)
    BY <1>1, <1>2, <1>3, <1>5, RemovalOf
  <2>2. ASSUME NEW j \in Id, Item(row', u, j) # Item(row, u, j)
        PROVE  j = i \/ Item(row, u, j).ref = i
    <3>1. j = i \/ row[j].ref = i
      BY <2>1, <2>2
    <3>2. ~Held(row, u, j) => ~Held(row', u, j)
      BY <2>1
    <3>3. Held(row, u, j)
      BY <3>2, <2>2 DEF Item
    <3>4. Item(row, u, j).ref = row[j].ref
      BY <3>3 DEF Item
    <3>5. QED BY <3>1, <3>4
  <2>3. QED BY <2>1, <2>2 DEF Edited
<1>6. QED BY <1>1, <1>3, <1>4, <1>5 DEF Used, RowsInv

\* Nothing refers to the history, so only it changes.
LEMMA Clearing ==
  ASSUME RowsInv, NEW u \in User, ClearHistory(u)
  PROVE  /\ Used(u)
         /\ Agreed(row) => \A j \in Id : Item(row', u, j) # Item(row, u, j) =>
                             j \in Note /\ Item(row', u, j) = Nothing
<1> DEFINE gone == Rows(u) \cap Note
<1>1. row' = Without(gone) /\ used' = used /\ writes' = writes
  BY DEF ClearHistory, bounds
<1>2. gone \in SUBSET Id /\ \A j \in gone : Held(row, u, j) /\ j \in Note
  BY RowsHeld
<1> HIDE DEF gone
<1>3. row \in Tabled /\ Whole(row, used) /\ writes \in Nat /\ used \subseteq Id
  BY DEF RowsInv
<1>4. row' \in Tabled /\ Whole(row', used)
  BY <1>1, <1>2, <1>3, Removal
<1>5. ASSUME Agreed(row)
      PROVE  /\ OnlyOf(u, row, row') /\ Agreed(row')
             /\ \A j \in Id : Held(row', u, j) => Held(row, u, j) /\ j \notin gone
             /\ \A j \in Id : j \notin gone /\ row[j].ref \notin gone => Item(row', u, j) = Item(row, u, j)
             /\ \A j \in gone : Item(row', u, j) = Nothing
  BY <1>1, <1>2, <1>3, <1>5, RemovalOf
<1>6. \A j \in Id : row[j] # NoRow => row[j].ref \notin gone
  BY <1>2, <1>3, TablesApart, NoneApart DEF Whole, Fits
<1>7. ASSUME Agreed(row), NEW j \in Id, Item(row', u, j) # Item(row, u, j)
      PROVE  j \in Note /\ Item(row', u, j) = Nothing
  <2>1. ~Held(row, u, j) => ~Held(row', u, j)
    BY <1>5, <1>7
  <2>2. Held(row, u, j)
    BY <2>1, <1>7 DEF Item
  <2>3. row[j].ref \notin gone
    BY <2>2, <1>6 DEF Held
  <2>4. j \in gone
    BY <2>3, <1>5, <1>7
  <2>5. QED BY <2>4, <1>2, <1>5, <1>7
<1>8. QED BY <1>1, <1>3, <1>4, <1>5, <1>7 DEF Used, RowsInv

\* A row of the history.
LEMMA Recording ==
  ASSUME RowsInv, NEW u \in User, NEW n \in Note, Record(u, n), writes' = writes
  PROVE  Used(u) /\ (Agreed(row) => \A j \in Id : Item(row', u, j) # Item(row, u, j) => j = n)
<1>1. /\ n \in Id \ used /\ row' = With(row, n, u, None, 1) /\ used' = used \cup {n}
  BY DEF Record, Id
<1>2. Fits(n, None) /\ None \in Id \cup {None} /\ 1 \in Nat \ {0} /\ (None # None => row[None] # NoRow)
  BY TablesApart DEF Fits
<1>3. row \in Tabled /\ Whole(row, used) /\ writes \in Nat /\ used \subseteq Id
  BY DEF RowsInv
<1>4. /\ row' \in Tabled /\ Whole(row', used \cup {n})
      /\ \A v \in User, j \in Id : j # n => Item(row', v, j) = Item(row, v, j)
      /\ (None # None => row[None].owner = u) =>
              /\ \A v \in User : v # u => Item(row', v, n) = Item(row, v, n)
              /\ Agreed(row) => Agreed(row')
  BY <1>1, <1>2, <1>3, NewRow
<1>5. OnlyOf(u, row, row')
  BY <1>4 DEF OnlyOf
<1>6. QED BY <1>1, <1>3, <1>4, <1>5 DEF Used, RowsInv

-----------------------------------------------------------------------------
(* The steps of exports and restores.                                         *)

Phase == {"idle", "read", "delete", "insert", "exported", "restored"}

\* A step of r's own.
Becomes(r, q) == /\ q \in RequestState
                 /\ req' = [req EXCEPT ![r] = q]

LEMMA Idling ==
  /\ Idle \in RequestState /\ Idle.pc = "idle" /\ Idle.user = None /\ Idle.table = 1 /\ Idle.doomed = {}
  /\ \A i \in Id : Idle.doc[i] = Nothing
  /\ \A s : Fitting(Idle.doc, s)
<1>1. Nothing \in Content /\ Nothing = Nothing
  BY DEF Nothing, Content
<1>2. [i \in Id |-> Nothing] \in [Id -> Content] /\ 1 \in 1..5
  BY <1>1
<1>3. Idle \in RequestState
  BY <1>2 DEF Idle, RequestState
<1>4. Idle.pc = "idle" /\ Idle.user = None /\ Idle.table = 1 /\ Idle.doomed = {}
  BY DEF Idle
<1>5. \A i \in Id : Idle.doc[i] = Nothing
  BY DEF Idle
<1>6. \A s : Fitting(Idle.doc, s)
  BY <1>5 DEF Fitting
<1>7. QED BY <1>3, <1>4, <1>5, <1>6

\* The next table, or the next phase.
LEMMA Turned ==
  ASSUME req \in [Request -> RequestState], NEW r \in Request, NEW next \in Phase
  PROVE  LET q == Turn(r, next) IN
         /\ q \in RequestState /\ q.user = req[r].user /\ q.doc = req[r].doc /\ q.doomed = req[r].doomed
         /\ req[r].table = 5 => q.pc = next /\ q.table = 1
         /\ req[r].table # 5 => q.pc = req[r].pc /\ q.table = req[r].table + 1
<1>1. req[r] \in RequestState
  OBVIOUS
<1>2. req[r].table \in 1..5 /\ req[r].pc \in Phase
  BY <1>1 DEF RequestState, Phase
<1>3. (IF req[r].table = 5 THEN 1 ELSE req[r].table + 1) \in 1..5
  BY <1>2
<1>4. (IF req[r].table = 5 THEN next ELSE req[r].pc) \in Phase
  BY <1>2
<1>5. QED BY <1>1, <1>3, <1>4 DEF Turn, RequestState, Phase

LEMMA Step ==
  ASSUME req \in [Request -> RequestState], NEW r \in Request, NEW q, Becomes(r, q)
  PROVE  /\ req' \in [Request -> RequestState] /\ req'[r] = q
         /\ \A p \in Request : p # r => req'[p] = req[p]
BY DEF Becomes

\* Files and requests stay well-formed.
LEMMA Documents ==
  ASSUME DocsInv, used \subseteq used', NEW r \in Request, NEW q, Becomes(r, q), Fitting(q.doc, used'),
         IF q.pc = "idle" THEN q.user = None ELSE q.user \in User,
         \A f \in files' : f \in files \/ f = req[r].doc
  PROVE  DocsInv'
<1>1. /\ req' \in [Request -> RequestState] /\ req'[r] = q
      /\ \A p \in Request : p # r => req'[p] = req[p]
  BY Step DEF DocsInv
<1>2. req[r].doc \in [Id -> Content] /\ Fitting(req[r].doc, used)
  BY DEF DocsInv, RequestState
<1>3. files' \subseteq [Id -> Content]
  BY <1>2 DEF DocsInv
<1>4. \A f \in files' : Fitting(f, used')
  BY <1>2 DEF DocsInv, Fitting
<1>5. \A p \in Request : Fitting(req'[p].doc, used') /\ Seated(p)'
  BY <1>1 DEF DocsInv, Fitting, Seated, At
<1>6. QED BY <1>1, <1>3, <1>4, <1>5 DEF DocsInv

LEMMA DocumentsKept ==
  ASSUME DocsInv, used \subseteq used', UNCHANGED <<files, req>>
  PROVE  DocsInv'
BY DEF DocsInv, Fitting, Seated, At

\* An item that is held is something, and what it refers to is held too.
LEMMA Holding ==
  ASSUME RowsInv, NEW u \in User
  PROVE  /\ \A i \in Id : Held(row, u, i) <=> Item(row, u, i) # Nothing
         /\ \A i \in Id : Item(row, u, i) \in Content
         /\ \A i \in Id : Item(row, u, i) # Nothing =>
              i \in used /\ Item(row, u, i).ver > 0 /\ Fits(i, Item(row, u, i).ref)
         /\ Agreed(row) => \A i \in Id : Item(row, u, i).ref # None =>
              Held(row, u, Item(row, u, i).ref) /\ Item(row, u, i).ref \in Id
<1>1. ASSUME NEW i \in Id, Held(row, u, i)
      PROVE  /\ Item(row, u, i) # Nothing /\ Item(row, u, i) \in Content /\ i \in used
             /\ Item(row, u, i).ver > 0 /\ Fits(i, Item(row, u, i).ref)
             /\ Item(row, u, i).ref = row[i].ref
  <2>1. row[i] \in Row /\ row[i].ver > 0 /\ Fits(i, row[i].ref) /\ i \in used
    BY <1>1 DEF RowsInv, Tabled, Whole, Held
  <2>2. Item(row, u, i) = [ref |-> row[i].ref, ver |-> row[i].ver]
    BY <1>1 DEF Item
  <2>3. QED BY <2>1, <2>2 DEF Row, Content, Nothing
<1>2. ASSUME NEW i \in Id, ~Held(row, u, i)
      PROVE  Item(row, u, i) = Nothing /\ Item(row, u, i) \in Content /\ Item(row, u, i).ref = None
  BY <1>2 DEF Item, Nothing, Content
<1>3. ASSUME Agreed(row), NEW i \in Id, Item(row, u, i).ref # None
      PROVE  Held(row, u, Item(row, u, i).ref) /\ Item(row, u, i).ref \in Id
  <2>1. Held(row, u, i) /\ Item(row, u, i).ref = row[i].ref
    BY <1>1, <1>2, <1>3
  <2>2. row[i] # NoRow /\ row[i].ref \in Id /\ row[row[i].ref] # NoRow /\ Fits(i, row[i].ref)
    BY <2>1, <1>3 DEF Held, RowsInv, Tabled, Row, Whole
  <2>3. CASE i \in Entry
    <3>1. row[i].ref \notin Entry
      BY <2>2, <2>3, TablesApart DEF Fits
    <3>2. row[row[i].ref].owner = u
      BY <2>1, <2>3 DEF Held, Holder
    <3>3. QED BY <2>1, <2>2, <3>1, <3>2 DEF Held, Holder
  <2>4. CASE i \notin Entry
    <3>1. i \in Audit /\ row[i].ref \notin Entry
      BY <2>1, <2>2, <2>4, <1>3, TablesApart DEF Fits
    <3>2. row[row[i].ref].owner = u
      BY <2>1, <2>2, <2>4, <3>1, <1>3 DEF Held, Holder, Agreed
    <3>3. QED BY <2>1, <2>2, <3>1, <3>2 DEF Held, Holder
  <2>5. QED BY <2>3, <2>4
<1>4. QED BY <1>1, <1>2, <1>3

LEMMA DataItem == \A u : Data(u) = [i \in Id |-> Item(row, u, i)]
<1>1. \A u, i : i \in Id => (i \in Rows(u) <=> Held(row, u, i))
  BY RowsHeld
<1>2. QED BY <1>1 DEF Data, Item

-----------------------------------------------------------------------------
(* What each statement of an export or restore makes of its request.          *)

LEMMA Finishing ==
  ASSUME DocsInv, NEW r \in Request, Finish(r)
  PROVE  Becomes(r, req'[r]) /\ req'[r] = Idle
BY Idling DEF Finish, Becomes, DocsInv

LEMMA Admitting ==
  ASSUME DocsInv, NEW r \in Request, NEW u \in User, NEW q \in RequestState, Admit(r, u, q)
  PROVE  /\ Becomes(r, req'[r]) /\ req'[r] = q /\ At(r, "idle") /\ Free(u)
         /\ UNCHANGED <<row, used, files, writes>>
BY DEF Admit, Becomes, DocsInv

LEMMA Exporting ==
  ASSUME DocsInv, NEW r \in Request, NEW u \in User, Export(r, u)
  PROVE  /\ Becomes(r, req'[r]) /\ At(r, "idle") /\ Free(u) /\ UNCHANGED <<row, used, files, writes>>
         /\ req'[r].pc = "read" /\ req'[r].user = u /\ req'[r].table = 1
         /\ \A i \in Id : req'[r].doc[i] = Nothing
<1> DEFINE q == [Idle EXCEPT !.pc = "read", !.user = u]
<1>1. /\ q \in RequestState /\ q.pc = "read" /\ q.user = u /\ q.table = 1 /\ q.doc = Idle.doc
  BY Idling DEF RequestState
<1>2. Admit(r, u, q)
  BY DEF Export
<1> HIDE DEF q
<1>3. req'[r] = q
  BY <1>1, <1>2, Admitting
<1>4. QED BY <1>1, <1>2, <1>3, Admitting, Idling

LEMMA Restoring ==
  ASSUME DocsInv, NEW r \in Request, NEW u \in User, NEW f \in files, Restore(r, u, f)
  PROVE  /\ Becomes(r, req'[r]) /\ At(r, "idle") /\ Free(u) /\ UNCHANGED <<row, used, files, writes>>
         /\ req'[r].pc = "delete" /\ req'[r].user = u /\ req'[r].table = 1
         /\ req'[r].doc = f /\ req'[r].doomed = {}
<1> DEFINE q == [Idle EXCEPT !.pc = "delete", !.user = u, !.doc = f]
<1>0. f \in [Id -> Content]
  BY DEF DocsInv
<1>1. /\ q \in RequestState /\ q.pc = "delete" /\ q.user = u /\ q.table = 1 /\ q.doc = f /\ q.doomed = {}
  BY <1>0, Idling DEF RequestState
<1>2. Admit(r, u, q)
  BY DEF Restore
<1> HIDE DEF q
<1>3. req'[r] = q
  BY <1>1, <1>2, Admitting
<1>4. QED BY <1>1, <1>2, <1>3, Admitting

LEMMA Reading ==
  ASSUME RowsInv, DocsInv, NEW r \in Request, req[r].user \in User, ReadTable(r)
  PROVE  LET here == Tables[req[r].table]  u == req[r].user IN
         /\ Becomes(r, req'[r]) /\ At(r, "read") /\ UNCHANGED <<row, used, files, writes>>
         /\ req'[r].user = u
         /\ req[r].table = 5 => req'[r].pc = "exported" /\ req'[r].table = 1
         /\ req[r].table # 5 => req'[r].pc = "read" /\ req'[r].table = req[r].table + 1
         /\ \A i \in Id : req'[r].doc[i] = IF i \in here /\ Held(row, u, i) THEN Item(row, u, i)
                                           ELSE req[r].doc[i]
<1> DEFINE u == req[r].user
           t == Turn(r, "exported")
           doc == [i \in Id |-> IF i \in Tables[req[r].table] \cap Rows(u) THEN Data(u)[i] ELSE req[r].doc[i]]
           q == [t EXCEPT !.doc = doc]
<1>1. /\ t \in RequestState /\ t.user = u /\ t.doc = req[r].doc
      /\ req[r].table = 5 => t.pc = "exported" /\ t.table = 1
      /\ req[r].table # 5 => t.pc = req[r].pc /\ t.table = req[r].table + 1
  BY Turned DEF DocsInv, Phase
<1>2. At(r, "read") /\ req' = [req EXCEPT ![r] = q] /\ UNCHANGED <<row, used, files, writes>>
  <2>1. t.doc = req[r].doc
    BY <1>1
  <2>2. [t EXCEPT !.doc = [i \in Id |-> IF i \in Tables[req[r].table] \cap Rows(u)
                                        THEN Data(u)[i] ELSE t.doc[i]]] = q
    BY <2>1
  <2>3. QED BY <2>2 DEF ReadTable, bounds
<1>3. \A i \in Id : doc[i] = IF i \in Tables[req[r].table] /\ Held(row, u, i) THEN Item(row, u, i)
                             ELSE req[r].doc[i]
  BY RowsHeld, DataItem
<1>4. doc \in [Id -> Content]
  <2>1. req[r].doc \in [Id -> Content]
    BY DEF DocsInv, RequestState
  <2>2. \A i \in Id : doc[i] \in Content
    BY <2>1, <1>3, Holding
  <2> HIDE DEF u
  <2>3. QED BY <2>2
<1> HIDE DEF doc, t
<1>5. /\ q \in RequestState /\ q.user = u /\ q.doc = doc /\ q.pc = t.pc /\ q.table = t.table
  BY <1>1, <1>4 DEF RequestState
<1>6. req[r].pc = "read"
  BY <1>2 DEF At
<1> HIDE DEF q
<1>7. req'[r] = q
  BY <1>2 DEF DocsInv
<1>8. Becomes(r, req'[r])
  BY <1>2, <1>5, <1>7 DEF Becomes
<1>9. QED BY <1>1, <1>2, <1>3, <1>5, <1>6, <1>7, <1>8

LEMMA DeletingTable ==
  ASSUME RowsInv, DocsInv, NEW r \in Request, req[r].user \in User, DeleteTable(r)
  PROVE  LET here == DeleteOrder[req[r].table]  u == req[r].user IN
         /\ Becomes(r, req'[r]) /\ At(r, "delete") /\ UNCHANGED <<row, used, files, writes>>
         /\ req'[r].user = u /\ req'[r].doc = req[r].doc
         /\ req[r].table = 5 => req'[r].pc = "insert" /\ req'[r].table = 1
         /\ req[r].table # 5 => req'[r].pc = "delete" /\ req'[r].table = req[r].table + 1
         /\ req[r].doomed \subseteq req'[r].doomed
         /\ \A i \in here : Held(row, u, i) => i \in req'[r].doomed
         /\ \A i \in req'[r].doomed : i \in req[r].doomed \/ Held(row, u, i)
<1> DEFINE u == req[r].user
           t == Turn(r, "insert")
           gone == DeleteOrder[req[r].table] \cap Rows(u)
           cascade == gone \cup (Dependents(gone) \cap Entry)
           q == [t EXCEPT !.doomed = req[r].doomed \cup cascade]
<1>1. /\ t \in RequestState /\ t.user = u /\ t.doc = req[r].doc /\ t.doomed = req[r].doomed
      /\ req[r].table = 5 => t.pc = "insert" /\ t.table = 1
      /\ req[r].table # 5 => t.pc = req[r].pc /\ t.table = req[r].table + 1
  BY Turned DEF DocsInv, Phase
<1>2. At(r, "delete") /\ req' = [req EXCEPT ![r] = q] /\ UNCHANGED <<row, used, files, writes>>
  <2>1. [t EXCEPT !.doomed = @ \cup cascade] = q
    BY <1>1
  <2>2. QED BY <2>1 DEF DeleteTable, Deleted, bounds
<1>3. gone \subseteq Id /\ \A i \in gone : Held(row, u, i)
  BY RowsHeld
<1>4. ASSUME NEW i \in Dependents(gone) \cap Entry
      PROVE  i \in Id /\ Held(row, u, i)
  <2> HIDE DEF gone
  <2>1. i \in Id /\ row[i] # NoRow /\ row[i].ref \in gone /\ i \in Entry
    BY DEF Dependents, Stored
  <2>2. row[i].ref \notin Entry
    BY <2>1, EntryVault DEF RowsInv
  <2>3. Held(row, u, row[i].ref)
    BY <2>1, <1>3
  <2>4. QED BY <2>1, <2>2, <2>3 DEF Held, Holder
<1>5. \A i \in DeleteOrder[req[r].table] : Held(row, u, i) => i \in gone
  <2>1. req[r].table \in 1..5
    BY DEF DocsInv, RequestState
  <2>2. DeleteOrder[req[r].table] \subseteq Id
    BY <2>1 DEF DeleteOrder, Id
  <2>3. QED BY <2>2, RowsHeld
<1> HIDE DEF gone, t
<1>6. cascade \subseteq Id /\ \A i \in cascade : Held(row, u, i)
  BY <1>3, <1>4
<1>7. gone \subseteq cascade
  OBVIOUS
<1> HIDE DEF cascade
<1>8. /\ q \in RequestState /\ q.user = u /\ q.doc = t.doc /\ q.pc = t.pc /\ q.table = t.table
      /\ q.doomed = req[r].doomed \cup cascade
  BY <1>1, <1>6 DEF RequestState
<1>9. req[r].pc = "delete"
  BY <1>2 DEF At
<1> HIDE DEF q
<1>10. req'[r] = q
  BY <1>2 DEF DocsInv
<1>11. Becomes(r, req'[r])
  BY <1>2, <1>8, <1>10 DEF Becomes
<1>12. /\ req[r].doomed \subseteq req'[r].doomed
       /\ \A i \in DeleteOrder[req[r].table] : Held(row, u, i) => i \in req'[r].doomed
       /\ \A i \in req'[r].doomed : i \in req[r].doomed \/ Held(row, u, i)
  BY <1>5, <1>6, <1>7, <1>8, <1>10
<1>13. QED BY <1>1, <1>2, <1>8, <1>9, <1>10, <1>11, <1>12

\* A restore that is refused, or commits.
LEMMA Inserted ==
  ASSUME RowsInv, DocsInv, NEW r \in Request, req[r].user \in User, InsertAndCommit(r)
  PROVE  /\ Becomes(r, req'[r]) /\ At(r, "insert") /\ UNCHANGED <<used, files, writes>>
         /\ \/ Conflicts(r) /\ req'[r] = Idle /\ UNCHANGED row
            \/ /\ ~Conflicts(r) /\ row' = Replaced(r)
               /\ req'[r].pc = "restored" /\ req'[r].user = req[r].user
               /\ req'[r].doc = Idle.doc
<1>1. CASE Conflicts(r)
  BY <1>1, Finishing DEF InsertAndCommit, bounds
<1>2. CASE ~Conflicts(r)
  <2> DEFINE q == [Idle EXCEPT !.pc = "restored", !.user = req[r].user]
  <2>1. q \in RequestState /\ q.pc = "restored" /\ q.user = req[r].user /\ q.doc = Idle.doc
    BY Idling DEF RequestState
  <2>2. /\ req' = [req EXCEPT ![r] = q] /\ row' = Replaced(r) /\ At(r, "insert")
        /\ UNCHANGED <<used, files, writes>>
    BY <1>2 DEF InsertAndCommit, bounds
  <2> HIDE DEF q
  <2>3. req'[r] = q /\ Becomes(r, req'[r])
    BY <2>1, <2>2 DEF DocsInv, Becomes
  <2>4. QED BY <1>2, <2>1, <2>2, <2>3
<1>3. QED BY <1>1, <1>2

-----------------------------------------------------------------------------
(* The foreign keys, whatever overlaps.                                       *)

\* The statements of a request, once it has an account.
Runs(r) == ReadTable(r) \/ RecordExport(r) \/ DeleteTable(r) \/ InsertAndCommit(r) \/ RecordRestore(r)

LEMMA HasAccount ==
  ASSUME DocsInv, NEW r \in Request, Runs(r)
  PROVE  req[r].user \in User /\ ~At(r, "idle")
<1>1. ~At(r, "idle")
  BY DEF Runs, ReadTable, RecordExport, DeleteTable, InsertAndCommit, RecordRestore, At
<1>2. QED BY <1>1 DEF DocsInv, Seated

LEMMA Using ==
  ASSUME RowsInv, NEW u \in User, Use(u)
  PROVE  Used(u) /\ UNCHANGED <<files, req>> /\ Free(u)
<1>1. ASSUME NEW i \in Id, NEW p \in Id \cup {None}, InsertRow(u, i, p)
      PROVE  Used(u) /\ UNCHANGED <<files, req>> /\ Free(u)
  BY <1>1, Inserting DEF InsertRow
<1>2. ASSUME NEW i \in Id, UpdateRow(u, i)
      PROVE  Used(u) /\ UNCHANGED <<files, req>> /\ Free(u)
  BY <1>2, Updating DEF UpdateRow
<1>3. ASSUME NEW i \in Id, DeleteRow(u, i)
      PROVE  Used(u) /\ UNCHANGED <<files, req>> /\ Free(u)
  BY <1>3, Deleting DEF DeleteRow, bounds
<1>4. ASSUME ClearHistory(u)
      PROVE  Used(u) /\ UNCHANGED <<files, req>> /\ Free(u)
  BY <1>4, Clearing DEF ClearHistory, bounds
<1>5. QED BY <1>1, <1>2, <1>3, <1>4 DEF Use

\* The end of an export.
LEMMA Exported ==
  ASSUME RowsInv, DocsInv, NEW r \in Request, RecordExport(r)
  PROVE  LET u == req[r].user IN
         /\ Becomes(r, req'[r]) /\ req'[r] = Idle /\ files' = files \cup {req[r].doc}
         /\ Used(u) /\ At(r, "exported")
         /\ Agreed(row) => \A i, j \in Id : /\ Item(row', u, i) # Item(row, u, i)
                                            /\ Item(row', u, j) # Item(row, u, j)
                                            => i \in Note /\ i = j
<1>0. req[r].user \in User
  BY HasAccount DEF Runs
<1>1. /\ Becomes(r, req'[r]) /\ req'[r] = Idle /\ files' = files \cup {req[r].doc}
      /\ writes' = writes /\ At(r, "exported")
  BY Finishing DEF RecordExport, bounds
<1>2. CASE \E n \in Note : Record(req[r].user, n)
  <2>1. PICK n \in Note : Record(req[r].user, n)
    BY <1>2
  <2>2. /\ Used(req[r].user)
        /\ Agreed(row) => \A j \in Id : Item(row', req[r].user, j) # Item(row, req[r].user, j) => j = n
    BY <1>0, <1>1, <2>1, Recording
  <2>3. QED BY <1>1, <2>2
<1>3. CASE UNCHANGED <<row, used>>
  <2>1. Used(req[r].user)
    BY <1>1, <1>3 DEF Used, RowsInv, OnlyOf
  <2>2. QED BY <1>1, <1>3, <2>1
<1>4. QED BY <1>2, <1>3 DEF RecordExport

LEMMA Restored ==
  ASSUME RowsInv, DocsInv, NEW r \in Request, RecordRestore(r)
  PROVE  /\ Becomes(r, req'[r]) /\ req'[r] = Idle /\ files' = files /\ Used(req[r].user)
         /\ Agreed(row) => Edited(req[r].user)
<1>0. req[r].user \in User
  BY HasAccount DEF Runs
<1>1. Becomes(r, req'[r]) /\ req'[r] = Idle /\ files' = files /\ writes' = writes
  BY Finishing DEF RecordRestore, bounds
<1>2. PICK n \in Note : Record(req[r].user, n)
  BY DEF RecordRestore
<1>3. /\ Used(req[r].user)
      /\ Agreed(row) => \A j \in Id : Item(row', req[r].user, j) # Item(row, req[r].user, j) => j = n
  BY <1>0, <1>1, <1>2, Recording
<1>4. Agreed(row) => Edited(req[r].user)
  BY <1>3 DEF Edited, Id
<1>5. QED BY <1>1, <1>3, <1>4

LEMMA InvInit == Init => Inv
<1> SUFFICES ASSUME Init
             PROVE  Inv
  OBVIOUS
<1>1. RowsInv
  <2>1. row \in Tabled
    BY DEF Init, Tabled, NoRow, Row
  <2>2. QED BY <2>1 DEF Init, RowsInv, Whole
<1>2. DocsInv
  BY Idling DEF Init, DocsInv, Seated, At
<1>3. QED BY <1>1, <1>2, InvParts

LEMMA InvStep == Inv /\ [Next]_vars => Inv'
<1> SUFFICES ASSUME Inv, [Next]_vars
             PROVE  RowsInv' /\ DocsInv'
  BY InvParts, PTL
<1>0. RowsInv /\ DocsInv
  BY InvParts
<1>1. ASSUME NEW u \in User, Use(u)
      PROVE  RowsInv' /\ DocsInv'
  BY <1>0, <1>1, Using, DocumentsKept DEF Used
<1>2. ASSUME UNCHANGED <<row, used, writes>>
      PROVE  RowsInv' /\ used \subseteq used'
  BY <1>0, <1>2 DEF RowsInv
<1>3. ASSUME NEW r \in Request, NEW u \in User, Export(r, u)
      PROVE  RowsInv' /\ DocsInv'
  <2>1. /\ Becomes(r, req'[r]) /\ UNCHANGED <<row, used, files, writes>>
        /\ req'[r].pc = "read" /\ req'[r].user = u /\ \A i \in Id : req'[r].doc[i] = Nothing
    BY <1>0, <1>3, Exporting
  <2>2. Fitting(req'[r].doc, used')
    BY <2>1 DEF Fitting
  <2>3. QED BY <1>0, <1>2, <2>1, <2>2, Documents
<1>4. ASSUME NEW r \in Request, NEW u \in User, NEW f \in files, Restore(r, u, f)
      PROVE  RowsInv' /\ DocsInv'
  <2>1. /\ Becomes(r, req'[r]) /\ UNCHANGED <<row, used, files, writes>>
        /\ req'[r].pc = "delete" /\ req'[r].user = u /\ req'[r].doc = f
    BY <1>0, <1>4, Restoring
  <2>2. Fitting(req'[r].doc, used')
    BY <1>0, <2>1 DEF DocsInv
  <2>3. QED BY <1>0, <1>2, <2>1, <2>2, Documents
<1>5. ASSUME NEW r \in Request, ReadTable(r)
      PROVE  RowsInv' /\ DocsInv'
  <2>0. req[r].user \in User
    BY <1>0, <1>5, HasAccount DEF Runs
  <2>1. /\ Becomes(r, req'[r]) /\ UNCHANGED <<row, used, files, writes>>
        /\ req'[r].user = req[r].user /\ req'[r].pc # "idle"
        /\ \A i \in Id : \/ req'[r].doc[i] = Item(row, req[r].user, i)
                         \/ req'[r].doc[i] = req[r].doc[i]
    BY <1>0, <1>5, <2>0, Reading
  <2>2. Fitting(req'[r].doc, used')
    BY <1>0, <2>0, <2>1, Holding DEF DocsInv, Fitting
  <2>3. QED BY <1>0, <1>2, <2>0, <2>1, <2>2, Documents
<1>6. ASSUME NEW r \in Request, RecordExport(r)
      PROVE  RowsInv' /\ DocsInv'
  <2>1. /\ Becomes(r, req'[r]) /\ req'[r] = Idle /\ files' = files \cup {req[r].doc}
        /\ Used(req[r].user)
    BY <1>0, <1>6, Exported
  <2>2. QED BY <1>0, <2>1, Documents, Idling DEF Used
<1>7. ASSUME NEW r \in Request, DeleteTable(r)
      PROVE  RowsInv' /\ DocsInv'
  <2>0. req[r].user \in User
    BY <1>0, <1>7, HasAccount DEF Runs
  <2>1. /\ Becomes(r, req'[r]) /\ UNCHANGED <<row, used, files, writes>>
        /\ req'[r].user = req[r].user /\ req'[r].pc # "idle" /\ req'[r].doc = req[r].doc
    BY <1>0, <1>7, <2>0, DeletingTable
  <2>2. Fitting(req'[r].doc, used')
    BY <1>0, <2>1 DEF DocsInv
  <2>3. QED BY <1>0, <1>2, <2>0, <2>1, <2>2, Documents
<1>8. ASSUME NEW r \in Request, InsertAndCommit(r)
      PROVE  RowsInv' /\ DocsInv'
  <2>0. req[r].user \in User
    BY <1>0, <1>8, HasAccount DEF Runs
  <2>1. /\ Becomes(r, req'[r]) /\ UNCHANGED <<used, files, writes>>
        /\ req'[r].doc = Idle.doc
        /\ IF req'[r].pc = "idle" THEN req'[r].user = None ELSE req'[r].user \in User
        /\ UNCHANGED row \/ (~Conflicts(r) /\ row' = Replaced(r))
    BY <1>0, <1>8, <2>0, Inserted, Idling
  <2>2. RowsInv' /\ used \subseteq used'
    <3>1. CASE UNCHANGED row
      BY <3>1, <2>1, <1>2
    <3>2. CASE ~Conflicts(r) /\ row' = Replaced(r)
      <4>1. req[r] \in RequestState /\ Fitting(req[r].doc, used) /\ row \in Tabled /\ Whole(row, used)
        BY <1>0 DEF DocsInv, RowsInv
      <4>2. row' \in Tabled /\ Whole(row', used)
        BY <3>2, <4>1, <2>0, Replacement
      <4>3. QED BY <1>0, <2>1, <4>2 DEF RowsInv
    <3>3. QED BY <2>1, <3>1, <3>2
  <2>3. QED BY <1>0, <2>1, <2>2, Documents, Idling
<1>9. ASSUME NEW r \in Request, RecordRestore(r)
      PROVE  RowsInv' /\ DocsInv'
  <2>1. Becomes(r, req'[r]) /\ req'[r] = Idle /\ files' = files /\ Used(req[r].user)
    BY <1>0, <1>9, Restored
  <2>2. QED BY <1>0, <2>1, Documents, Idling DEF Used
<1>10. ASSUME NEW r \in Request, Abort(r)
       PROVE  RowsInv' /\ DocsInv'
  <2>1. Becomes(r, req'[r]) /\ req'[r] = Idle /\ UNCHANGED <<row, used, files, writes>>
    BY <1>0, <1>10, Finishing DEF Abort, bounds
  <2>2. QED BY <1>0, <1>2, <2>1, Documents, Idling
<1>11. CASE UNCHANGED vars
  BY <1>0, <1>2, <1>11, DocumentsKept DEF vars
<1>12. QED BY <1>1, <1>3, <1>4, <1>5, <1>6, <1>7, <1>8, <1>9, <1>10, <1>11 DEF Next

(***************************************************************************)
(* Whatever overlaps, aborts or is restored by whom, rows keep their types *)
(* and refer to rows that exist: restores that delete table by table while *)
(* others insert never leave a dangling key.                               *)
(***************************************************************************)
THEOREM ReferencesSafe == Spec => []TypeOK
<1>1. Inv => TypeOK
  BY DEF Inv
<1>2. QED BY InvInit, InvStep, <1>1, PTL DEF Spec

-----------------------------------------------------------------------------
(* Accounts that are left alone.                                              *)

QuietParts == /\ RowsInv /\ DocsInv /\ Agreed(row) /\ OneEach
              /\ \A f \in files : Closed(f)
              /\ \A r \in Request : Current(r) /\ Emptied(r)

LEMMA QuietSplit == QuietInv <=> QuietParts
BY InvParts DEF QuietInv, QuietParts

LEMMA HeldItem ==
  ASSUME NEW t \in Tabled, NEW s, Whole(t, s)
  PROVE  \A u, i : i \in Id => (Held(t, u, i) <=> Item(t, u, i) # Nothing)
<1> SUFFICES ASSUME NEW u, NEW i \in Id
             PROVE  Held(t, u, i) <=> Item(t, u, i) # Nothing
  OBVIOUS
<1>1. Held(t, u, i) => Item(t, u, i).ver > 0
  BY DEF Whole, Held, Item
<1>2. Nothing.ver = 0 /\ (~Held(t, u, i) => Item(t, u, i) = Nothing)
  BY DEF Nothing, Item
<1>3. QED BY <1>1, <1>2

\* A step that leaves a request and its account alone.
LEMMA Aside ==
  ASSUME RowsInv, RowsInv', DocsInv, NEW q \in Request, req'[q] = req[q], files \subseteq files',
         Current(q), Emptied(q),
         At(q, "idle") \/ \A i \in Id : Item(row', req[q].user, i) = Item(row, req[q].user, i)
  PROVE  Current(q)' /\ Emptied(q)'
<1>1. CASE At(q, "idle")
  BY <1>1 DEF Current, Emptied, At
<1>2. CASE ~At(q, "idle")
  <2> DEFINE u == req[q].user
  <2>0. u \in User /\ \A n \in 1..5 : Tables[n] \subseteq Id /\ DeleteOrder[n] \subseteq Id
    BY <1>2 DEF DocsInv, Seated, Tables, DeleteOrder, Id
  <2>1. \A i \in Id : Item(row', u, i) = Item(row, u, i)
    BY <1>2
  <2>2. req[q].doomed \subseteq Id
    BY DEF DocsInv, RequestState
  <2>3. \A i \in Id : Held(row, u, i) <=> Item(row, u, i) # Nothing
    BY <2>0, Holding
  <2>4. \A i \in Id : Held(row', u, i) <=> Item(row', u, i) # Nothing
    <3>1. row' \in Tabled /\ Whole(row', used')
      BY DEF RowsInv
    <3>2. QED BY <3>1, HeldItem
  <2>5. \A i \in Id : Held(row', u, i) <=> Held(row, u, i)
    BY <2>1, <2>3, <2>4
  <2>6. Current(q)'
    BY <2>0, <2>1 DEF Current, At
  <2>7. Emptied(q)'
    BY <2>0, <2>2, <2>5 DEF Emptied, At
  <2>8. QED BY <2>6, <2>7
<1>3. QED BY <1>1, <1>2

\* What every step of r, or of nobody, leaves of the invariant when only u's rows change.
LEMMA Others ==
  ASSUME QuietParts, RowsInv', NEW u \in User, NEW P, P \subseteq Request,
         \A q \in P : req'[q] = req[q] /\ req[q].user # u,
         OnlyOf(u, row, row'), files \subseteq files'
  PROVE  \A q \in P : Current(q)' /\ Emptied(q)'
<1> SUFFICES ASSUME NEW q \in P
             PROVE  Current(q)' /\ Emptied(q)'
  OBVIOUS
<1>1. req'[q] = req[q] /\ req[q].user # u /\ q \in Request /\ RowsInv /\ DocsInv /\ Current(q) /\ Emptied(q)
  BY DEF QuietParts
<1>2. At(q, "idle") \/ \A i \in Id : Item(row', req[q].user, i) = Item(row, req[q].user, i)
  BY <1>1 DEF DocsInv, Seated, OnlyOf
<1>3. QED BY <1>1, <1>2, Aside

\* r has u to itself, before and after.
LEMMA Alone ==
  ASSUME DocsInv, OneEach, NEW r \in Request, Becomes(r, req'[r]), NEW u \in User,
         req[r].user = u \/ ~Busy(u), req'[r].pc = "idle" \/ req'[r].user = u,
         req'[r].pc = "idle" => req'[r].user = None
  PROVE  /\ OneEach'
         /\ \A q \in Request \ {r} : req'[q] = req[q] /\ req[q].user # u
<1>1. \A q \in Request \ {r} : req'[q] = req[q]
  BY Step DEF DocsInv
<1>2. \A q \in Request \ {r} : req[q].user # u
  <2>1. CASE req[r].user = u
    BY <2>1, NoneApart DEF OneEach, DocsInv, Seated
  <2>2. CASE ~Busy(u)
    BY <2>2 DEF Busy
  <2>3. QED BY <2>1, <2>2
<1>3. \A p, q \in Request : req'[q].user = req'[p].user /\ req'[p].pc # "idle" => q = p
  <2> SUFFICES ASSUME NEW p \in Request, NEW q \in Request, req'[q].user = req'[p].user,
                      req'[p].pc # "idle", q # p
               PROVE  FALSE
    OBVIOUS
  <2>1. CASE p = r
    BY <2>1, <1>1, <1>2
  <2>2. CASE q = r
    <3>1. req'[p] = req[p] /\ req[p].user # u /\ req[p].user \in User
      BY <2>2, <1>1, <1>2 DEF DocsInv, Seated, At
    <3>2. QED BY <3>1, <2>2, NoneApart
  <2>3. CASE p # r /\ q # r
    BY <2>3, <1>1 DEF OneEach, At
  <2>4. QED BY <2>1, <2>2, <2>3
<1>4. QED BY <1>1, <1>2, <1>3 DEF OneEach, At

\* A step of r changes what u holds, if anything, and keeps its own part of the invariant.
LEMMA OwnStep ==
  ASSUME QuietParts, RowsInv', DocsInv', NEW r \in Request, Becomes(r, req'[r]), NEW u \in User,
         req[r].user = u \/ ~Busy(u), req'[r].pc = "idle" \/ req'[r].user = u,
         OnlyOf(u, row, row'), Agreed(row'), files \subseteq files',
         \A f \in files' : f \in files \/ Closed(f), Current(r)' /\ Emptied(r)'
  PROVE  QuietParts'
<1>1. req'[r].pc = "idle" => req'[r].user = None
  BY DEF DocsInv, Seated, At
<1>2. OneEach' /\ \A q \in Request \ {r} : req'[q] = req[q] /\ req[q].user # u
  BY <1>1, Alone DEF QuietParts
<1>3. \A q \in Request \ {r} : Current(q)' /\ Emptied(q)'
  BY <1>2, Others
<1>4. \A f \in files' : Closed(f)
  BY DEF QuietParts
<1>5. \A q \in Request : Current(q)' /\ Emptied(q)'
  BY <1>3
<1>6. QED BY <1>2, <1>4, <1>5 DEF QuietParts

\* A request that has ended has nothing to keep.
LEMMA Ended ==
  ASSUME NEW r \in Request, req'[r].pc \in {"idle", "restored"}
  PROVE  Current(r)' /\ Emptied(r)'
BY DEF Current, Emptied, At

LEMMA TableSets ==
  /\ \A n \in 1..5 : Tables[n] \subseteq Id /\ DeleteOrder[n] \subseteq Id
  /\ \A i \in Id : \E n \in 1..5 : i \in Tables[n]
  /\ \A i \in Id : \E n \in 1..5 : i \in DeleteOrder[n]
  /\ \A m, n \in 1..5 : m # n => Tables[m] \cap Tables[n] = {}
<1>1. 1..5 = {1, 2, 3, 4, 5}
  OBVIOUS
<1>2. \A n \in 1..5 : Tables[n] \subseteq Id /\ DeleteOrder[n] \subseteq Id
  BY <1>1 DEF Tables, DeleteOrder, Id
<1>3. \A i \in Id : \E n \in 1..5 : i \in Tables[n]
  BY <1>1 DEF Tables, Id
<1>4. \A i \in Id : \E n \in 1..5 : i \in DeleteOrder[n]
  BY <1>1 DEF DeleteOrder, Id
<1>5. \A m, n \in 1..5 : m # n => Tables[m] \cap Tables[n] = {}
  BY BackupAssumption
<1>6. QED BY <1>2, <1>3, <1>4, <1>5

\* The next table of an export is what its account holds.
LEMMA ReadingCurrent ==
  ASSUME QuietParts, NEW r \in Request, ReadTable(r)
  PROVE  Current(r)'
<1> DEFINE u == req[r].user
           k == req[r].table
<1>0. RowsInv /\ DocsInv /\ u \in User /\ At(r, "read") /\ k \in 1..5
  BY HasAccount DEF Runs, QuietParts, ReadTable, DocsInv, RequestState
<1>1. /\ UNCHANGED <<row, used, files, writes>> /\ req'[r].user = u
      /\ k = 5 => req'[r].pc = "exported" /\ req'[r].table = 1
      /\ k # 5 => req'[r].pc = "read" /\ req'[r].table = k + 1
      /\ \A i \in Id : req'[r].doc[i] = IF i \in Tables[k] /\ Held(row, u, i) THEN Item(row, u, i)
                                        ELSE req[r].doc[i]
  BY <1>0, Reading
<1>2. ASSUME NEW n \in 1..5, NEW i \in Tables[n]
      PROVE  req[r].doc[i] = IF n < k THEN Item(row, u, i) ELSE Nothing
  BY <1>0 DEF QuietParts, Current
<1> HIDE DEF u, k
<1>3. ASSUME NEW n \in 1..5, NEW i \in Tables[n]
      PROVE  req'[r].doc[i] = IF n < k + 1 THEN Item(row, u, i) ELSE Nothing
  <2>0. i \in Id
    BY TableSets
  <2>1. CASE n = k
    <3>1. req[r].doc[i] = Nothing /\ i \in Tables[k]
      BY <2>1, <1>0, <1>2
    <3>2. req'[r].doc[i] = IF Held(row, u, i) THEN Item(row, u, i) ELSE Nothing
      BY <3>1, <2>0, <1>1
    <3>3. req'[r].doc[i] = Item(row, u, i)
      BY <3>2 DEF Item
    <3>4. n < k + 1
      BY <2>1, <1>0
    <3>5. QED BY <3>3, <3>4
  <2>2. CASE n # k
    <3>1. i \notin Tables[k]
      BY <2>2, <1>0, TableSets
    <3>2. req'[r].doc[i] = req[r].doc[i]
      BY <3>1, <2>0, <1>1
    <3>3. n < k + 1 <=> n < k
      BY <2>2, <1>0
    <3>4. QED BY <3>2, <3>3, <1>2
  <2>3. QED BY <2>1, <2>2
<1>4. CASE k = 5
  <2>1. \A i \in Id : req'[r].doc[i] = Item(row, u, i)
    <3> SUFFICES ASSUME NEW i \in Id
                 PROVE  req'[r].doc[i] = Item(row, u, i)
      OBVIOUS
    <3>1. PICK n \in 1..5 : i \in Tables[n]
      BY TableSets
    <3>2. n < k + 1
      BY <1>4
    <3>3. QED BY <3>1, <3>2, <1>3
  <2>2. row' = row /\ req'[r].user = u /\ req'[r].pc = "exported"
    BY <1>1, <1>4
  <2>3. QED BY <2>1, <2>2 DEF Current, At
<1>5. CASE k # 5
  <2>1. row' = row /\ req'[r].user = u /\ req'[r].pc = "read" /\ req'[r].table = k + 1
    BY <1>1, <1>5
  <2>2. QED BY <1>3, <2>1 DEF Current, At
<1>6. QED BY <1>4, <1>5

\* The next DELETE of a restore takes what its account holds.
LEMMA DeletingEmptied ==
  ASSUME QuietParts, NEW r \in Request, DeleteTable(r)
  PROVE  Emptied(r)'
<1> DEFINE u == req[r].user
           k == req[r].table
<1>0. RowsInv /\ DocsInv /\ u \in User /\ At(r, "delete") /\ k \in 1..5
  BY HasAccount DEF Runs, QuietParts, DeleteTable, DocsInv, RequestState
<1>1. /\ UNCHANGED <<row, used, files, writes>> /\ req'[r].user = u /\ req'[r].doc = req[r].doc
      /\ k = 5 => req'[r].pc = "insert" /\ req'[r].table = 1
      /\ k # 5 => req'[r].pc = "delete" /\ req'[r].table = k + 1
      /\ req[r].doomed \subseteq req'[r].doomed
      /\ \A i \in DeleteOrder[k] : Held(row, u, i) => i \in req'[r].doomed
      /\ \A i \in req'[r].doomed : i \in req[r].doomed \/ Held(row, u, i)
  BY <1>0, DeletingTable
<1>2. /\ req[r].doc \in files
      /\ \A i \in req[r].doomed : Held(row, u, i)
      /\ \A n \in 1..5 : \A i \in DeleteOrder[n] : Held(row, u, i) /\ n < k => i \in req[r].doomed
  BY <1>0 DEF QuietParts, Emptied
<1> HIDE DEF u, k
<1>3. ASSUME NEW n \in 1..5, n < k + 1, NEW i \in DeleteOrder[n], Held(row, u, i)
      PROVE  i \in req'[r].doomed
  <2>1. CASE n = k
    BY <2>1, <1>1, <1>3
  <2>2. CASE n < k
    BY <2>2, <1>1, <1>2, <1>3
  <2>3. QED BY <2>1, <2>2, <1>0, <1>3
<1>4. CASE k = 5
  <2>1. row' = row /\ files' = files /\ req'[r].user = u /\ req'[r].pc = "insert" /\ req'[r].doc = req[r].doc
    BY <1>1, <1>4
  <2>2. \A n \in 1..5 : n < k + 1
    BY <1>4
  <2>3. QED BY <1>1, <1>2, <1>3, <2>1, <2>2 DEF Emptied, At
<1>5. CASE k # 5
  <2>1. /\ row' = row /\ files' = files /\ req'[r].user = u /\ req'[r].pc = "delete"
        /\ req'[r].doc = req[r].doc /\ req'[r].table = k + 1
    BY <1>1, <1>5
  <2>2. QED BY <1>1, <1>2, <1>3, <2>1 DEF Emptied, At
<1>6. QED BY <1>4, <1>5

\* At the INSERTs, all that the account holds is deleted, and the file is whole.
LEMMA Ready ==
  ASSUME QuietParts, NEW r \in Request, InsertAndCommit(r)
  PROVE  /\ req[r].user \in User /\ req[r] \in RequestState /\ req[r].doc \in files
         /\ Fitting(req[r].doc, used) /\ Closed(req[r].doc)
         /\ \A i \in Id : i \in req[r].doomed <=> Held(row, req[r].user, i)
<1>1. req[r].user \in User /\ At(r, "insert") /\ Emptied(r) /\ DocsInv
  BY HasAccount DEF Runs, QuietParts, InsertAndCommit
<1>2. /\ req[r].doc \in files
      /\ \A i \in req[r].doomed : Held(row, req[r].user, i)
      /\ \A n \in 1..5 : \A i \in DeleteOrder[n] : Held(row, req[r].user, i) => i \in req[r].doomed
  BY <1>1 DEF Emptied
<1>3. QED BY <1>1, <1>2, TableSets DEF DocsInv, QuietParts

\* A commit makes the account hold the file, and nothing else.
LEMMA Committed ==
  ASSUME QuietParts, NEW r \in Request, InsertAndCommit(r), ~Conflicts(r), row' = Replaced(r)
  PROVE  /\ OnlyOf(req[r].user, row, row') /\ Agreed(row')
         /\ \A i \in Id : Item(row', req[r].user, i) = req[r].doc[i]
<1>1. row \in Tabled /\ Whole(row, used) /\ Agreed(row)
  BY DEF QuietParts, RowsInv
<1>2. QED BY <1>1, Ready, ReplacementOf

\* What an export seals is closed.
LEMMA Sealed ==
  ASSUME QuietParts, NEW r \in Request, RecordExport(r)
  PROVE  /\ Closed(req[r].doc) /\ req[r].user \in User
         /\ \A i \in Id : req[r].doc[i] = Item(row, req[r].user, i)
<1>1. req[r].user \in User /\ RowsInv /\ Agreed(row)
  BY HasAccount DEF Runs, QuietParts
<1>2. \A i \in Id : req[r].doc[i] = Item(row, req[r].user, i)
  BY DEF QuietParts, Current, RecordExport
<1>3. QED BY <1>1, <1>2, Holding DEF Closed

LEMMA QuietInit == Init => QuietInv
<1> SUFFICES ASSUME Init
             PROVE  QuietInv
  OBVIOUS
<1>1. \A r \in Request : At(r, "idle")
  BY Idling DEF Init, At
<1>2. OneEach /\ \A r \in Request : Current(r) /\ Emptied(r)
  BY <1>1 DEF OneEach, Current, Emptied, At
<1>3. Agreed(row) /\ \A f \in files : Closed(f)
  BY DEF Init, Agreed, Id
<1>4. QED BY <1>2, <1>3, InvInit DEF QuietInv

LEMMA QuietStep ==
  ASSUME Overlap = FALSE
  PROVE  QuietInv /\ [Next]_vars => QuietInv'
<1> SUFFICES ASSUME QuietInv, [Next]_vars
             PROVE  QuietInv'
  OBVIOUS
<1>0. QuietParts /\ RowsInv /\ DocsInv /\ Agreed(row)
  BY QuietSplit DEF QuietParts
<1>i. RowsInv' /\ DocsInv'
  <2>1. Inv'
    BY InvStep DEF QuietInv
  <2>2. Inv' => RowsInv' /\ DocsInv'
    BY InvParts, PTL
  <2>3. QED BY <2>1, <2>2
<1>f. \A u : Free(u) => ~Busy(u)
  BY DEF Free
<1>s. \A u : UNCHANGED row => OnlyOf(u, row, row') /\ Agreed(row')
  BY <1>0 DEF OnlyOf
<1>1. ASSUME NEW u \in User, Use(u)
      PROVE  QuietParts'
  <2>1. Used(u) /\ UNCHANGED <<files, req>> /\ ~Busy(u)
    BY <1>0, <1>1, <1>f, Using
  <2>2. OnlyOf(u, row, row') /\ Agreed(row')
    BY <2>1, <1>0 DEF Used
  <2>3. \A q \in Request : req'[q] = req[q] /\ req[q].user # u
    BY <2>1 DEF Busy
  <2>4. \A q \in Request : Current(q)' /\ Emptied(q)'
    BY <2>1, <2>2, <2>3, <1>0, <1>i, Others
  <2>5. OneEach'
    BY <2>1, <1>0 DEF QuietParts, OneEach, At
  <2>6. QED BY <2>1, <2>2, <2>4, <2>5, <1>0, <1>i DEF QuietParts
<1>2. ASSUME NEW r \in Request, NEW u \in User, Export(r, u)
      PROVE  QuietParts'
  <2>1. /\ Becomes(r, req'[r]) /\ ~Busy(u) /\ UNCHANGED <<row, files>>
        /\ req'[r].pc = "read" /\ req'[r].user = u /\ req'[r].table = 1
        /\ \A i \in Id : req'[r].doc[i] = Nothing
    BY <1>0, <1>2, <1>f, Exporting
  <2>2. Current(r)' /\ Emptied(r)'
    BY <2>1, TableSets DEF Current, Emptied, At
  <2>3. QED BY <2>1, <2>2, <1>0, <1>i, <1>s, OwnStep
<1>3. ASSUME NEW r \in Request, NEW u \in User, NEW f \in files, Restore(r, u, f)
      PROVE  QuietParts'
  <2>1. /\ Becomes(r, req'[r]) /\ ~Busy(u) /\ UNCHANGED <<row, files>>
        /\ req'[r].pc = "delete" /\ req'[r].user = u /\ req'[r].table = 1
        /\ req'[r].doc = f /\ req'[r].doomed = {}
    BY <1>0, <1>3, <1>f, Restoring
  <2>2. Current(r)' /\ Emptied(r)'
    BY <2>1 DEF Current, Emptied, At
  <2>3. QED BY <2>1, <2>2, <1>0, <1>i, <1>s, OwnStep
<1>4. ASSUME NEW r \in Request, ReadTable(r)
      PROVE  QuietParts'
  <2>0. req[r].user \in User
    BY <1>0, <1>4, HasAccount DEF Runs
  <2>1. /\ Becomes(r, req'[r]) /\ UNCHANGED <<row, files>> /\ req'[r].user = req[r].user
        /\ req'[r].pc \in {"read", "exported"}
    BY <1>0, <1>4, <2>0, Reading
  <2>2. Current(r)' /\ Emptied(r)'
    BY <2>1, <1>0, <1>4, ReadingCurrent DEF Emptied, At
  <2>3. QED BY <2>0, <2>1, <2>2, <1>0, <1>i, <1>s, OwnStep
<1>5. ASSUME NEW r \in Request, RecordExport(r)
      PROVE  QuietParts'
  <2>0. req[r].user \in User /\ Closed(req[r].doc)
    BY <1>0, <1>5, Sealed
  <2>1. /\ Becomes(r, req'[r]) /\ req'[r] = Idle /\ files' = files \cup {req[r].doc}
        /\ Used(req[r].user)
    BY <1>0, <1>5, Exported
  <2>2. req'[r].pc = "idle" /\ OnlyOf(req[r].user, row, row') /\ Agreed(row')
    BY <2>1, <1>0, Idling DEF Used
  <2>3. Current(r)' /\ Emptied(r)'
    BY <2>2, Ended
  <2>4. QED BY <2>0, <2>1, <2>2, <2>3, <1>0, <1>i, OwnStep
<1>6. ASSUME NEW r \in Request, DeleteTable(r)
      PROVE  QuietParts'
  <2>0. req[r].user \in User
    BY <1>0, <1>6, HasAccount DEF Runs
  <2>1. /\ Becomes(r, req'[r]) /\ UNCHANGED <<row, files>> /\ req'[r].user = req[r].user
        /\ req'[r].pc \in {"delete", "insert"}
    BY <1>0, <1>6, <2>0, DeletingTable
  <2>2. Current(r)' /\ Emptied(r)'
    BY <2>1, <1>0, <1>6, DeletingEmptied DEF Current, At
  <2>3. QED BY <2>0, <2>1, <2>2, <1>0, <1>i, <1>s, OwnStep
<1>7. ASSUME NEW r \in Request, InsertAndCommit(r)
      PROVE  QuietParts'
  <2>0. req[r].user \in User
    BY <1>0, <1>7, Ready
  <2>1. /\ Becomes(r, req'[r]) /\ UNCHANGED files
        /\ req'[r].pc \in {"idle", "restored"} /\ (req'[r].pc = "idle" \/ req'[r].user = req[r].user)
        /\ UNCHANGED row \/ (~Conflicts(r) /\ row' = Replaced(r))
    BY <1>0, <1>7, <2>0, Inserted, Idling
  <2>2. OnlyOf(req[r].user, row, row') /\ Agreed(row')
    BY <2>1, <1>0, <1>7, <1>s, Committed
  <2>3. Current(r)' /\ Emptied(r)'
    BY <2>1, Ended
  <2>4. QED BY <2>0, <2>1, <2>2, <2>3, <1>0, <1>i, OwnStep
<1>8. ASSUME NEW r \in Request, RecordRestore(r)
      PROVE  QuietParts'
  <2>0. req[r].user \in User
    BY <1>0, <1>8, HasAccount DEF Runs
  <2>1. Becomes(r, req'[r]) /\ req'[r] = Idle /\ files' = files /\ Used(req[r].user)
    BY <1>0, <1>8, Restored
  <2>2. req'[r].pc = "idle" /\ OnlyOf(req[r].user, row, row') /\ Agreed(row')
    BY <2>1, <1>0, Idling DEF Used
  <2>3. Current(r)' /\ Emptied(r)'
    BY <2>2, Ended
  <2>4. QED BY <2>0, <2>1, <2>2, <2>3, <1>0, <1>i, OwnStep
<1>9. ASSUME NEW r \in Request, Abort(r)
      PROVE  QuietParts'
  <2>0. req[r].user \in User
    BY <1>0, <1>9 DEF Abort, DocsInv, Seated
  <2>1. Becomes(r, req'[r]) /\ req'[r] = Idle /\ UNCHANGED <<row, files>>
    BY <1>0, <1>9, Finishing DEF Abort
  <2>2. req'[r].pc = "idle" /\ Current(r)' /\ Emptied(r)'
    BY <2>1, Idling, Ended
  <2>3. QED BY <2>0, <2>1, <2>2, <1>0, <1>i, <1>s, OwnStep
<1>10. ASSUME UNCHANGED vars
       PROVE  QuietParts'
  <2>1. UNCHANGED <<row, files, req>>
    BY <1>10 DEF vars
  <2>2. OneEach' /\ Agreed(row') /\ \A f \in files' : Closed(f)
    BY <2>1, <1>0 DEF QuietParts, OneEach, At
  <2>3. ASSUME NEW q \in Request
        PROVE  Current(q)' /\ Emptied(q)'
    <3>1. Current(q) /\ Emptied(q) /\ req'[q] = req[q]
      BY <2>1, <1>0 DEF QuietParts
    <3>2. QED BY <2>1, <3>1, <1>0, <1>i, Aside
  <2>4. \A q \in Request : Current(q)' /\ Emptied(q)'
    BY <2>3
  <2>5. QED BY <2>2, <2>4, <1>i DEF QuietParts
<1>11. QuietParts'
  <2>1. CASE \E u \in User : Use(u)
    BY <2>1, <1>1
  <2>2. CASE \E r \in Request, u \in User : Export(r, u) \/ \E f \in files : Restore(r, u, f)
    BY <2>2, <1>2, <1>3
  <2>3. CASE \E r \in Request : \/ ReadTable(r) \/ RecordExport(r) \/ DeleteTable(r)
                                \/ InsertAndCommit(r) \/ RecordRestore(r) \/ Abort(r)
    BY <2>3, <1>4, <1>5, <1>6, <1>7, <1>8, <1>9
  <2>4. QED BY <2>1, <2>2, <2>3, <1>10 DEF Next
<1>12. QED BY <1>11, QuietSplit, PTL

LEMMA QuietAlways ==
  ASSUME Overlap = FALSE
  PROVE  Spec => []QuietInv
BY QuietInit, QuietStep, PTL DEF Spec

-----------------------------------------------------------------------------
(* Restores are refused for a reason.                                         *)

(***************************************************************************)
(* When an account is left alone while it is exported or restored, the     *)
(* database refuses a file of its own only because another account holds   *)
(* one of its rows: never because the file is torn.                        *)
(***************************************************************************)
THEOREM RefusalSafe ==
  ASSUME Overlap = FALSE
  PROVE  Spec => RefusedOnlyIfHeld
<1>1. QuietInv /\ [Next]_vars =>
        [\A r \in Request : InsertAndCommit(r) /\ req'[r] = Idle
           => \E i \in Id, u \in User \ {req[r].user} : req[r].doc[i] # Nothing /\ i \in Rows(u)]_vars
  <2> SUFFICES ASSUME QuietInv, NEW r \in Request, InsertAndCommit(r), req'[r] = Idle
               PROVE  \E i \in Id, u \in User \ {req[r].user} : req[r].doc[i] # Nothing /\ i \in Rows(u)
    OBVIOUS
  <2> DEFINE rest == Without(req[r].doomed)
             doc == req[r].doc
  <2>0. QuietParts /\ RowsInv /\ DocsInv
    BY QuietSplit DEF QuietParts
  <2>1. /\ req[r].user \in User /\ req[r] \in RequestState
        /\ Fitting(doc, used) /\ Closed(doc)
        /\ \A i \in Id : i \in req[r].doomed <=> Held(row, req[r].user, i)
    BY <2>0, Ready
  <2>2. Conflicts(r)
    BY <2>0, <2>1, Inserted, Idling
  <2>3. PICK i \in Id : doc[i] # Nothing /\ rest[i] # NoRow
    BY <2>1, <2>2 DEF Conflicts, Closed
  <2>4. row[i] # NoRow /\ i \notin req[r].doomed
    <3>1. row \in Tabled /\ Whole(row, used) /\ req[r].doomed \in SUBSET Id
      BY <2>0, <2>1 DEF RowsInv, RequestState
    <3>2. QED BY <3>1, <2>3, Removal
  <2>5. Holder(row, i) \in User /\ Held(row, Holder(row, i), i)
    <3>1. i \in Entry => row[row[i].ref].owner \in User
      BY <2>0, <2>4, EntryVault DEF RowsInv
    <3>2. i \notin Entry => row[i].owner \in User
      BY <2>0, <2>4 DEF RowsInv, Whole
    <3>3. QED BY <3>1, <3>2, <2>4 DEF Holder, Held
  <2>6. Holder(row, i) # req[r].user
    BY <2>1, <2>4, <2>5
  <2>7. i \in Rows(Holder(row, i))
    BY <2>5, RowsHeld
  <2>8. QED BY <2>3, <2>5, <2>6, <2>7
<1>2. QED BY <1>1, QuietAlways, PTL DEF Spec, RefusedOnlyIfHeld

-----------------------------------------------------------------------------
(* The refinement, step by step.                                              *)

LEMMA DataNext == \A u : Data(u)' = [i \in Id |-> Item(row', u, i)]
<1>1. (\A u : Data(u) = [i \in Id |-> Item(row, u, i)])'
  BY DataItem, PTL
<1>2. QED BY <1>1

\* What u holds is all that changes.
LEMMA OnlyData ==
  ASSUME NEW u \in User, OnlyOf(u, row, row')
  PROVE  Promise!Only(u)
<1>1. \A v \in User \ {u} : Data(v)' = Data(v)
  BY DataItem, DataNext DEF OnlyOf
<1>2. QED BY <1>1 DEF Promise!Only

LEMMA ChangedItems ==
  ASSUME NEW u \in User
  PROVE  /\ Promise!Changed(u) = {i \in Id : Item(row', u, i) # Item(row, u, i)}
         /\ \A i \in Id : Data(u)[i] = Item(row, u, i) /\ Data(u)'[i] = Item(row', u, i)
<1>1. \A i \in Id : Data(u)[i] = Item(row, u, i) /\ Data(u)'[i] = Item(row', u, i)
  BY DataItem, DataNext
<1>2. Promise!Changed(u) = {i \in Id : Data(u)'[i] # Data(u)[i]}
  BY DEF Promise!Changed
<1>3. QED BY <1>1, <1>2

LEMMA Edits ==
  ASSUME NEW u \in User, OnlyOf(u, row, row'), Edited(u), files' = files
  PROVE  Promise!Edit(u)
<1>1. PICK i \in Id : \A j \in Id :
        Item(row', u, j) # Item(row, u, j) => j = i \/ Item(row, u, j).ref = i
  BY DEF Edited
<1>2. \A j \in Promise!Changed(u) : j = i \/ Data(u)[j].ref = i
  BY <1>1, ChangedItems
<1>3. QED BY <1>2, OnlyData DEF Promise!Edit

LEMMA Clears ==
  ASSUME NEW u \in User, OnlyOf(u, row, row'), files' = files,
         \A j \in Id : Item(row', u, j) # Item(row, u, j) => j \in Note /\ Item(row', u, j) = Nothing
  PROVE  Promise!ClearHistory(u)
<1>1. \A i \in Promise!Changed(u) : i \in Note /\ Data(u)'[i] = Promise!Nothing
  BY ChangedItems DEF Nothing, Promise!Nothing
<1>2. QED BY <1>1, OnlyData DEF Promise!ClearHistory

\* An export is a snapshot.
LEMMA Snapshot ==
  ASSUME QuietParts, NEW r \in Request, RecordExport(r)
  PROVE  req[r].user \in User /\ Promise!Export(req[r].user)
<1>0. PICK u \in User : u = req[r].user
  BY Sealed
<1>1. /\ u \in User /\ \A i \in Id : req[r].doc[i] = Item(row, u, i)
      /\ RowsInv /\ DocsInv /\ Agreed(row)
  BY <1>0, Sealed DEF QuietParts
<1>2. /\ files' = files \cup {req[r].doc} /\ Used(u)
      /\ \A i, j \in Id : /\ Item(row', u, i) # Item(row, u, i)
                          /\ Item(row', u, j) # Item(row, u, j)
                          => i \in Note /\ i = j
  BY <1>0, <1>1, Exported
<1>3. req[r].doc = Data(u)
  <2>1. req[r].doc \in [Id -> Content]
    BY <1>1 DEF DocsInv, RequestState
  <2>2. Data(u) = [i \in Id |-> Item(row, u, i)]
    BY DataItem
  <2>3. req[r].doc = [i \in Id |-> req[r].doc[i]]
    BY <2>1
  <2>4. QED BY <2>2, <2>3, <1>1
<1>4. OnlyOf(u, row, row')
  BY <1>1, <1>2 DEF Used
<1>5. u \in User
  BY <1>1
<1>6. Promise!Changed(u) \subseteq Note /\ \A g, h \in Promise!Changed(u) : g = h
  BY <1>2, <1>5, ChangedItems
<1>7. files' = files \cup {[v \in User |-> Data(v)][u]}
  BY <1>2, <1>3, <1>5
<1>8. Promise!Export(u)
  BY <1>4, <1>5, <1>6, <1>7, OnlyData DEF Promise!Export
<1>9. QED BY <1>0, <1>8

\* A restore that commits replaces one account by a file.
LEMMA Replaces ==
  ASSUME QuietParts, NEW r \in Request, InsertAndCommit(r), ~Conflicts(r), row' = Replaced(r),
         files' = files
  PROVE  req[r].user \in User /\ Promise!Restore(req[r].user)
<1>0. PICK u \in User : u = req[r].user
  BY Ready
<1>1. /\ u \in User /\ req[r].doc \in files /\ DocsInv
      /\ OnlyOf(u, row, row') /\ \A i \in Id : Item(row', u, i) = req[r].doc[i]
  BY <1>0, Ready, Committed DEF QuietParts
<1>2. Data(u)' = req[r].doc
  <2>1. req[r].doc \in [Id -> Content]
    BY <1>1 DEF DocsInv
  <2>2. req[r].doc = [i \in Id |-> req[r].doc[i]]
    BY <2>1
  <2>3. QED BY <2>2, <1>1, DataNext
<1>3. \A v \in User \ {u} : Data(v)' = Data(v)
  BY <1>1, DataItem, DataNext DEF OnlyOf
<1>4. [v \in User |-> Data(v)'] = [[v \in User |-> Data(v)] EXCEPT ![u] = req[r].doc]
  BY <1>1, <1>2, <1>3
<1>5. Promise!Restore(u)
  BY <1>1, <1>4 DEF Promise!Restore
<1>6. QED BY <1>0, <1>5

\* No row is written.
LEMMA Stutters ==
  ASSUME row' = row, files' = files
  PROVE  UNCHANGED Promise!vars
<1>1. \A u : Data(u)' = Data(u)
  BY DataItem, DataNext
<1>2. QED BY <1>1 DEF Promise!vars

LEMMA PromiseInit == Init => Promise!Init
<1> SUFFICES ASSUME Init
             PROVE  Promise!Init
  OBVIOUS
<1>1. \A u : Rows(u) = {}
  BY DEF Init, Rows, Stored
<1>2. \A u : Data(u) = [i \in Id |-> Nothing]
  BY <1>1 DEF Data
<1>3. QED BY <1>2 DEF Init, Promise!Init, Nothing, Promise!Nothing

LEMMA PromiseStep ==
  ASSUME QuietInv, [Next]_vars
  PROVE  [Promise!Next]_(Promise!vars)
<1>0. QuietParts /\ RowsInv /\ DocsInv /\ Agreed(row)
  BY QuietSplit DEF QuietParts
<1> DEFINE Kept == Promise!Next \/ UNCHANGED Promise!vars
<1>1. ASSUME NEW u \in User, Use(u)
      PROVE  Kept
  <2>1. Used(u) /\ UNCHANGED <<files, req>>
    BY <1>0, <1>1, Using
  <2>2. OnlyOf(u, row, row')
    BY <2>1, <1>0 DEF Used
  <2>3. Edited(u) => Promise!Next
    BY <2>1, <2>2, Edits DEF Promise!Next
  <2>4. CASE \E i \in Id, p \in Id \cup {None} : InsertRow(u, i, p)
    BY <2>3, <2>4, <1>0, Inserting
  <2>5. CASE \E i \in Id : UpdateRow(u, i) \/ DeleteRow(u, i)
    BY <2>3, <2>5, <1>0, Updating, Deleting
  <2>6. CASE ClearHistory(u)
    <3>1. \A j \in Id : Item(row', u, j) # Item(row, u, j) => j \in Note /\ Item(row', u, j) = Nothing
      BY <2>6, <1>0, Clearing
    <3>2. QED BY <3>1, <2>1, <2>2, Clears DEF Promise!Next
  <2>7. QED BY <1>1, <2>4, <2>5, <2>6 DEF Use
<1>2. ASSUME row' = row, files' = files
      PROVE  Kept
  BY <1>2, Stutters
<1>3. ASSUME NEW r \in Request, NEW u \in User, Export(r, u)
      PROVE  Kept
  BY <1>2, <1>3 DEF Export, Admit
<1>4. ASSUME NEW r \in Request, NEW u \in User, NEW f \in files, Restore(r, u, f)
      PROVE  Kept
  BY <1>2, <1>4 DEF Restore, Admit
<1>5. ASSUME NEW r \in Request, ReadTable(r) \/ DeleteTable(r) \/ Abort(r)
      PROVE  Kept
  BY <1>2, <1>5 DEF ReadTable, DeleteTable, Abort
<1>6. ASSUME NEW r \in Request, RecordExport(r)
      PROVE  Kept
  BY <1>0, <1>6, Snapshot DEF Promise!Next
<1>7. ASSUME NEW r \in Request, InsertAndCommit(r)
      PROVE  Kept
  <2>1. req[r].user \in User
    BY <1>0, <1>7, Ready
  <2>2. /\ files' = files
        /\ UNCHANGED row \/ (~Conflicts(r) /\ row' = Replaced(r))
    BY <1>0, <1>7, <2>1, Inserted
  <2>3. CASE UNCHANGED row
    BY <2>2, <2>3, <1>2
  <2>4. CASE ~Conflicts(r) /\ row' = Replaced(r)
    BY <2>2, <2>4, <1>0, <1>7, Replaces DEF Promise!Next
  <2>5. QED BY <2>2, <2>3, <2>4
<1>8. ASSUME NEW r \in Request, RecordRestore(r)
      PROVE  Kept
  <2>1. PICK u \in User : u = req[r].user
    BY <1>0, <1>8, HasAccount DEF Runs
  <2>2. files' = files /\ Used(u) /\ Edited(u)
    BY <2>1, <1>0, <1>8, Restored
  <2>3. OnlyOf(u, row, row')
    BY <2>2, <1>0 DEF Used
  <2>4. QED BY <2>2, <2>3, Edits DEF Promise!Next
<1>9. ASSUME UNCHANGED vars
      PROVE  Kept
  BY <1>2, <1>9 DEF vars
<1>10. Kept
  <2>1. CASE \E u \in User : Use(u)
    BY <2>1, <1>1
  <2>2. CASE \E r \in Request, u \in User : Export(r, u) \/ \E f \in files : Restore(r, u, f)
    BY <2>2, <1>3, <1>4
  <2>3. CASE \E r \in Request : \/ ReadTable(r) \/ RecordExport(r) \/ DeleteTable(r)
                                \/ InsertAndCommit(r) \/ RecordRestore(r) \/ Abort(r)
    BY <2>3, <1>5, <1>6, <1>7, <1>8
  <2>4. QED BY <2>1, <2>2, <2>3, <1>9 DEF Next
<1>11. QED BY <1>10

(***************************************************************************)
(* Backup implements Snapshots when accounts are left alone while they are *)
(* exported or restored: five queries that see five moments are the        *)
(* snapshot of one, and five DELETEs with the INSERTs of a file replace    *)
(* one account and touch no other, whatever the others do in between.      *)
(***************************************************************************)
THEOREM SnapshotsSafe ==
  ASSUME Overlap = FALSE
  PROVE  Spec => SnapshotsKept
BY PromiseInit, PromiseStep, QuietAlways, PTL DEF Spec, SnapshotsKept, Promise!Spec
=============================================================================
