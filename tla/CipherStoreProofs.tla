------------------------- MODULE CipherStoreProofs -------------------------
(***************************************************************************)
(* Proofs about CipherStore, for all sets of users, clients, ciphers,      *)
(* folders and requests.  What happens to folders is proved whatever       *)
(* overlaps or fails; what happens to payloads and copies, for writes that *)
(* follow one another at a distance.                                       *)
(***************************************************************************)
EXTENDS CipherStore, TLAPS

-----------------------------------------------------------------------------
(* What a request is at, and what it has by then.                             *)

Updates == {"update", "overwrite", "partial"}
FolderOps == {"import", "newFolder", "rename", "deleteFolder"}

\* A request is only at a statement of its own handler.
Stationed(q) == /\ q.pc \in {"folders", "ciphers"} <=> q.op = "sync"
                /\ q.pc = "folder" => q.op \in {"import", "newFolder"}
                /\ q.pc = "read" => q.op \in Updates
                /\ q.pc = "check" => q.op \in Updates \cup {"create", "import"}
                /\ q.pc = "write" => q.op # "newFolder"
                /\ q.pc \in {"touch", "answer"} => q.op \notin FolderOps \ {"import"}

\* It has a client, a payload of its own time, and what its operation is about.
Placed(q, w) == /\ q.pc = "idle" => q = Idle
                /\ q.pc # "idle" => q.client \in Client /\ q.op # "none"
                /\ Stationed(q)
                /\ q.op \notin {"none", "sync"} => q.body \in 1..w
                /\ q.op \in Updates \cup {"favorite", "trash"} => q.cipher \in Cipher
                /\ q.op \in {"rename", "deleteFolder"} => q.folder \in Folder
                /\ q.op # "import" => q.left = 0
                /\ q.pc = "answer" => q.cipher \in Cipher

Typed == TypeOK /\ \A r \in Request : Placed(req[r], writes)

-----------------------------------------------------------------------------
(* Folders.                                                                   *)

\* A request past its check names a folder that is not deleted, or its account's.
Checked(q) == q.pc = "write" /\ q.op \in Updates \cup {"create", "import"} /\ q.folder # None
                => /\ folder[q.folder].used
                   /\ folder[q.folder].owner \in {None, Account[q.client]}

FolderInv == /\ Typed
             /\ \A f \in Folder : folder[f].owner # None => folder[f].used
             /\ \A r \in Request : Checked(req[r])
             /\ FoldersResolve

-----------------------------------------------------------------------------
(* Writes that do not overlap.                                                *)

Writing(q) == q.op \notin {"none", "sync"}

\* One request writes at a time, and a partial update holds the payload that is stored.
SerialInv == /\ Typed
             /\ \A r, s \in Request : Writing(req[r]) /\ Writing(req[s]) => r = s
             /\ \A r \in Request : req[r].op = "partial" /\ req[r].pc \in {"check", "write"}
                                     => req[r].body = cipher[req[r].cipher].body

\* The ciphers a request may still write over.
Ahead(q) == {c \in Cipher : /\ q.pc \in {"read", "check", "write"}
                            /\ \/ q.op \in Updates \cup {"favorite", "trash"} /\ c = q.cipher
                               \/ q.op \in {"restore", "delete"} /\ c \in q.set}

\* The clock: a request that writes came Gap after the last one, and what it has not written
\* yet is as old.
Spaced == /\ Second + Gap =< now /\ quiet =< now
          /\ \A c \in Cipher : cipher[c].updated =< now
          /\ (\A r \in Request : ~Writing(req[r])) => \A c \in Cipher : cipher[c].updated =< quiet
          /\ \A r \in Request : Writing(req[r]) =>
               /\ quiet + Gap =< now
               /\ \A c \in Ahead(req[r]) : cipher[c].updated =< quiet

\* A version of a cipher somebody holds: the stored one, or over a second older.
Version(row, body, date) ==
  /\ 0 < date /\ date =< row.updated
  /\ date = row.updated \/ date + Second < row.updated
  /\ date = row.updated /\ row.owner # None => body = row.body

\* What clients hold, and what the update of one was made from, are such versions.
DatedInv ==
  /\ SerialInv /\ Spaced
  /\ \A c \in Cipher : cipher[c].owner # None => 0 < cipher[c].updated
  /\ \A k \in Client, c \in Cipher : copy[k].cipher[c].owner # None
       => Version(cipher[c], copy[k].cipher[c].body, copy[k].cipher[c].updated)
  /\ \A r \in Request : req[r].op = "update" /\ req[r].pc \in {"read", "check", "write"} =>
       /\ Version(cipher[req[r].cipher], req[r].seen, req[r].known)
       /\ req[r].pc # "read" => cipher[req[r].cipher].updated =< req[r].known + Second

-----------------------------------------------------------------------------
(* Revision dates.                                                            *)

\* The request may have written without having moved the revision date.
Dirty(q) == \/ q.pc = "touch"
            \/ q.pc = "write" /\ q.op \in {"restore", "delete"} /\ ~q.flag

\* No folder is ever made, so copies have none either.
WithoutFolders == /\ \A f \in Folder : folder[f] = NoFolder
                  /\ \A k \in Client, f \in Folder : copy[k].folder[f] = NoFolder
                  /\ \A r \in Request, f \in Folder : req[r].folders[f] = NoFolder
                  /\ \A r \in Request : req[r].op \notin FolderOps
                  /\ \A r \in Request :
                       req[r].pc = "write" /\ req[r].flag /\ req[r].op \in {"restore", "delete"}
                         => \E c \in Cipher : req[r].set = {c}

\* Revision dates are older than the next write, and no client has seen a newer one.
Revised == /\ quiet =< now
           /\ \A u \in User : rev[u] =< now
           /\ (\A r \in Request : ~Writing(req[r])) => \A u \in User : rev[u] =< quiet
           /\ \A r \in Request : Writing(req[r]) =>
                /\ quiet + Gap =< now
                /\ req[r].pc # "answer" => \A u \in User : rev[u] =< quiet
           /\ \A k \in Client : copy[k].rev =< rev[Account[k]]
           /\ \A r \in Request : req[r].op = "sync" => req[r].known =< rev[Holder(r)]

\* A client that has seen the revision date has the contents, unless a write is not dated yet.
RevisionInv ==
  /\ SerialInv /\ WithoutFolders /\ Revised
  /\ \A k \in Client :
       copy[k].rev = rev[Account[k]]
         /\ (\A r \in Request : Dirty(req[r]) => Holder(r) # Account[k])
       => copy[k].cipher = CiphersOf(Account[k])

-----------------------------------------------------------------------------
(* Requests.                                                                  *)

LEMMA Accounted == \A k \in Client : Account[k] \in User
BY VaultAssumption

LEMMA Absent == None \notin User /\ None \notin Cipher /\ None \notin Folder
BY VaultAssumption

LEMMA RowTypes == NoCipher \in CipherRow /\ NoFolder \in FolderRow
BY DEF NoCipher, NoFolder, CipherRow, FolderRow

LEMMA IdleTyped == Idle \in RequestState /\ \A w \in Nat : Placed(Idle, w)
<1>1. [f \in Folder |-> NoFolder] \in [Folder -> FolderRow]
  BY RowTypes
<1>2. Idle \in RequestState
  BY <1>1 DEF Idle, RequestState, Pc
<1>3. QED BY <1>2 DEF Idle, Placed, Stationed, Updates

\* One request changes.
LEMMA Moved ==
  ASSUME Typed, NEW r \in Request, NEW q \in RequestState, req' = [req EXCEPT ![r] = q],
         writes' \in Nat, writes =< writes', Placed(q, writes')
  PROVE  /\ req' \in [Request -> RequestState] /\ req'[r] = q
         /\ \A s \in Request : s # r => req'[s] = req[s]
         /\ \A s \in Request : Placed(req'[s], writes')
<1>1. req \in [Request -> RequestState] /\ writes \in Nat
  BY DEF Typed, TypeOK
<1>2. req'[r] = q /\ (\A s \in Request : s # r => req'[s] = req[s])
      /\ req' \in [Request -> RequestState]
  BY <1>1
<1>3. ASSUME NEW s \in Request, s # r PROVE Placed(req[s], writes')
  <2>1. Placed(req[s], writes) /\ (req[s].op \notin {"none", "sync"} => req[s].body \in 1..writes)
    BY DEF Typed, Placed
  <2>2. req[s].op \notin {"none", "sync"} => req[s].body \in 1..writes'
    BY <1>1, <2>1
  <2>3. QED BY <2>1, <2>2 DEF Placed
<1>4. QED BY <1>2, <1>3

LEMMA Ended ==
  ASSUME Typed, NEW r \in Request, Finish(r)
  PROVE  /\ req' \in [Request -> RequestState] /\ req'[r] = Idle
         /\ \A s \in Request : s # r => req'[s] = req[s]
         /\ \A s \in Request : Placed(req'[s], writes')
         /\ now' = now /\ writes' = writes /\ quiet' \in Nat
<1>1. writes' = writes /\ writes \in Nat /\ now' = now /\ req' = [req EXCEPT ![r] = Idle]
      /\ quiet' \in Nat
  BY DEF Finish, Typed, TypeOK
<1>2. writes' \in Nat /\ writes =< writes' /\ Idle \in RequestState /\ Placed(Idle, writes')
  BY <1>1, IdleTyped
<1>3. QED BY <1>1, <1>2, Moved

\* What a write asks for, when it is admitted.
Admission(r, q) ==
  /\ req' = [req EXCEPT ![r] = q] /\ q \in RequestState /\ Placed(q, writes + 1)
  /\ writes' = writes + 1 /\ UNCHANGED <<cipher, folder, rev, copy, now, quiet>>
  /\ req[r].pc = "idle" /\ quiet + Gap =< now
  /\ Gap > 0 => \A s \in Request : ~Writing(req[s])
  /\ q.op \in Op /\ Writing(q) /\ q.pc \in {"read", "check", "write", "folder"}
  /\ q.folders = [f \in Folder |-> NoFolder]
  /\ q.op \in Updates => q.pc = "read"
  /\ q.op \in {"create", "import"} => q.pc # "write"
  /\ q.op = "update" => /\ copy[q.client].cipher[q.cipher].owner # None
                        /\ q.seen = copy[q.client].cipher[q.cipher].body
                        /\ q.known = copy[q.client].cipher[q.cipher].updated
  /\ q.flag /\ q.op \in {"restore", "delete"} => \E c \in Cipher : q.set = {c}

\* What the admission of any of them does.
LEMMA Admitted ==
  ASSUME Typed, NEW r \in Request, NEW k \in Client, NEW op \in VaultOps, NEW new,
         Admit(r, k, op, new)
  PROVE  /\ writes' = writes + 1 /\ UNCHANGED <<cipher, folder, rev, copy, now, quiet>>
         /\ req[r].pc = "idle" /\ quiet + Gap =< now
         /\ Gap > 0 => \A s \in Request : ~Writing(req[s])
         /\ op \in Op /\ writes + 1 \in Nat /\ writes + 1 \in 1..(writes + 1)
<1>1. writes \in Nat /\ quiet \in Nat /\ now \in Nat /\ Gap \in Nat
  BY VaultAssumption DEF Typed, TypeOK
<1>2. quiet + Gap =< now
  BY <1>1 DEF Admit
<1>3. QED BY <1>1, <1>2 DEF Admit, At, tables, Writing

\* Every way to ask for a write is an admission.
LEMMA CreateCipherAdmits ==
  ASSUME Typed, NEW r \in Request, NEW k \in Client, NEW f \in Folder \cup {None}, NEW fav \in BOOLEAN,
         CreateCipher(r, k, f, fav)
  PROVE  \E q : Admission(r, q)
<1> DEFINE q == [[Idle EXCEPT !.pc = "check", !.folder = f, !.flag = fav]
                 EXCEPT !.op = "create", !.client = k, !.body = writes + 1]
<1>1. req' = [req EXCEPT ![r] = q]
  BY DEF CreateCipher, Admit
<1>2. /\ writes' = writes + 1 /\ UNCHANGED <<cipher, folder, rev, copy, now, quiet>>
      /\ req[r].pc = "idle" /\ quiet + Gap =< now
      /\ Gap > 0 => \A s \in Request : ~Writing(req[s])
      /\ "create" \in Op /\ writes + 1 \in Nat /\ writes + 1 \in 1..(writes + 1)
  BY Admitted DEF CreateCipher, VaultOps
<1>4. q \in RequestState
  BY <1>2, IdleTyped DEF RequestState, Pc, VaultOps
<1>5. Placed(q, writes + 1)
  BY <1>2, Absent DEF Placed, Stationed, Updates, Idle
<1>6. /\ q.op = "create" /\ q.pc = "check" /\ q.client = k
      /\ q.folders = [g \in Folder |-> NoFolder]
  BY DEF Idle
<1> HIDE DEF q
<1>7. QED BY <1>1, <1>2, <1>4, <1>5, <1>6 DEF Admission, Updates, Writing

LEMMA CipherPartialAdmits ==
  ASSUME Typed, NEW r \in Request, NEW k \in Client, NEW c \in Cipher, NEW f \in Folder \cup {None}, NEW fav \in BOOLEAN,
         CipherPartial(r, k, c, f, fav)
  PROVE  \E q : Admission(r, q)
<1> DEFINE q == [[Idle EXCEPT !.pc = "read", !.cipher = c, !.folder = f, !.flag = fav]
                 EXCEPT !.op = "partial", !.client = k, !.body = writes + 1]
<1>1. req' = [req EXCEPT ![r] = q]
  BY DEF CipherPartial, Admit
<1>2. /\ writes' = writes + 1 /\ UNCHANGED <<cipher, folder, rev, copy, now, quiet>>
      /\ req[r].pc = "idle" /\ quiet + Gap =< now
      /\ Gap > 0 => \A s \in Request : ~Writing(req[s])
      /\ "partial" \in Op /\ writes + 1 \in Nat /\ writes + 1 \in 1..(writes + 1)
  BY Admitted DEF CipherPartial, VaultOps
<1>4. q \in RequestState
  BY <1>2, IdleTyped DEF RequestState, Pc, VaultOps
<1>5. Placed(q, writes + 1)
  BY <1>2, Absent DEF Placed, Stationed, Updates, Idle
<1>6. /\ q.op = "partial" /\ q.pc = "read" /\ q.client = k
      /\ q.folders = [g \in Folder |-> NoFolder]
  BY DEF Idle
<1> HIDE DEF q
<1>7. QED BY <1>1, <1>2, <1>4, <1>5, <1>6 DEF Admission, Updates, Writing

LEMMA UpdateCipherAdmits ==
  ASSUME Typed, NEW r \in Request, NEW k \in Client, NEW c \in Cipher, NEW f \in Folder \cup {None}, NEW fav \in BOOLEAN,
         NEW op \in {"update", "overwrite"},
         UpdateCipher(r, k, c, f, fav, op)
  PROVE  \E q : Admission(r, q)
<1> DEFINE q == [[Idle EXCEPT !.pc = "read", !.cipher = c, !.folder = f, !.flag = fav,
                 !.seen = copy[k].cipher[c].body, !.known = copy[k].cipher[c].updated]
                 EXCEPT !.op = op, !.client = k, !.body = writes + 1]
<1>1. req' = [req EXCEPT ![r] = q]
  BY DEF UpdateCipher, Admit
<1>2. /\ writes' = writes + 1 /\ UNCHANGED <<cipher, folder, rev, copy, now, quiet>>
      /\ req[r].pc = "idle" /\ quiet + Gap =< now
      /\ Gap > 0 => \A s \in Request : ~Writing(req[s])
      /\ op \in Op /\ writes + 1 \in Nat /\ writes + 1 \in 1..(writes + 1)
  BY Admitted DEF UpdateCipher, VaultOps
<1>3. copy[k].cipher[c].body \in Nat /\ copy[k].cipher[c].updated \in Nat
      /\ copy[k].cipher[c].owner # None
  BY DEF Typed, TypeOK, Copy, CipherRow, UpdateCipher
<1>4. q \in RequestState
  BY <1>2, <1>3, IdleTyped DEF RequestState, Pc, VaultOps
<1>5. Placed(q, writes + 1)
  BY <1>2, Absent DEF Placed, Stationed, Updates, Idle
<1>6. /\ q.op = op /\ q.pc = "read" /\ q.client = k
      /\ q.folders = [g \in Folder |-> NoFolder]
      /\ q.cipher = c /\ q.seen = copy[k].cipher[c].body /\ q.known = copy[k].cipher[c].updated
  BY DEF Idle
<1> HIDE DEF q
<1>7. QED BY <1>1, <1>2, <1>3, <1>4, <1>5, <1>6 DEF Admission, Updates, Writing

LEMMA ImportCiphersAdmits ==
  ASSUME Typed, NEW r \in Request, NEW k \in Client, NEW pc \in {"check", "folder"}, NEW f \in Folder \cup {None}, NEW n \in 1..2,
         Admit(r, k, "import", [Idle EXCEPT !.pc = pc, !.folder = f, !.left = n])
  PROVE  \E q : Admission(r, q)
<1> DEFINE q == [[Idle EXCEPT !.pc = pc, !.folder = f, !.left = n]
                 EXCEPT !.op = "import", !.client = k, !.body = writes + 1]
<1>1. req' = [req EXCEPT ![r] = q]
  BY DEF Admit
<1>2. /\ writes' = writes + 1 /\ UNCHANGED <<cipher, folder, rev, copy, now, quiet>>
      /\ req[r].pc = "idle" /\ quiet + Gap =< now
      /\ Gap > 0 => \A s \in Request : ~Writing(req[s])
      /\ "import" \in Op /\ writes + 1 \in Nat /\ writes + 1 \in 1..(writes + 1)
  BY Admitted DEF VaultOps
<1>3. n \in Nat
  OBVIOUS
<1>4. q \in RequestState
  BY <1>2, <1>3, IdleTyped DEF RequestState, Pc, VaultOps
<1>5. Placed(q, writes + 1)
  BY <1>2, Absent DEF Placed, Stationed, Updates, Idle
<1>6. /\ q.op = "import" /\ q.pc = pc /\ q.client = k
      /\ q.folders = [g \in Folder |-> NoFolder]
  BY DEF Idle
<1> HIDE DEF q
<1>7. QED BY <1>1, <1>2, <1>3, <1>4, <1>5, <1>6 DEF Admission, Updates, Writing

LEMMA FavoriteCipherAdmits ==
  ASSUME Typed, NEW r \in Request, NEW k \in Client, NEW c \in Cipher, NEW fav \in BOOLEAN,
         FavoriteCipher(r, k, c, fav)
  PROVE  \E q : Admission(r, q)
<1> DEFINE q == [[Idle EXCEPT !.pc = "write", !.cipher = c, !.flag = fav]
                 EXCEPT !.op = "favorite", !.client = k, !.body = writes + 1]
<1>1. req' = [req EXCEPT ![r] = q]
  BY DEF FavoriteCipher, Admit
<1>2. /\ writes' = writes + 1 /\ UNCHANGED <<cipher, folder, rev, copy, now, quiet>>
      /\ req[r].pc = "idle" /\ quiet + Gap =< now
      /\ Gap > 0 => \A s \in Request : ~Writing(req[s])
      /\ "favorite" \in Op /\ writes + 1 \in Nat /\ writes + 1 \in 1..(writes + 1)
  BY Admitted DEF FavoriteCipher, VaultOps
<1>4. q \in RequestState
  BY <1>2, IdleTyped DEF RequestState, Pc, VaultOps
<1>5. Placed(q, writes + 1)
  BY <1>2 DEF Placed, Stationed, Updates, Idle
<1>6. /\ q.op = "favorite" /\ q.pc = "write" /\ q.client = k
      /\ q.folders = [g \in Folder |-> NoFolder]
  BY DEF Idle
<1> HIDE DEF q
<1>7. QED BY <1>1, <1>2, <1>4, <1>5, <1>6 DEF Admission, Updates, Writing

LEMMA TrashCipherAdmits ==
  ASSUME Typed, NEW r \in Request, NEW k \in Client, NEW c \in Cipher,
         TrashCipher(r, k, c)
  PROVE  \E q : Admission(r, q)
<1> DEFINE q == [[Idle EXCEPT !.pc = "write", !.cipher = c]
                 EXCEPT !.op = "trash", !.client = k, !.body = writes + 1]
<1>1. req' = [req EXCEPT ![r] = q]
  BY DEF TrashCipher, Admit
<1>2. /\ writes' = writes + 1 /\ UNCHANGED <<cipher, folder, rev, copy, now, quiet>>
      /\ req[r].pc = "idle" /\ quiet + Gap =< now
      /\ Gap > 0 => \A s \in Request : ~Writing(req[s])
      /\ "trash" \in Op /\ writes + 1 \in Nat /\ writes + 1 \in 1..(writes + 1)
  BY Admitted DEF TrashCipher, VaultOps
<1>4. q \in RequestState
  BY <1>2, IdleTyped DEF RequestState, Pc, VaultOps
<1>5. Placed(q, writes + 1)
  BY <1>2 DEF Placed, Stationed, Updates, Idle
<1>6. /\ q.op = "trash" /\ q.pc = "write" /\ q.client = k
      /\ q.folders = [f \in Folder |-> NoFolder]
  BY DEF Idle
<1> HIDE DEF q
<1>7. QED BY <1>1, <1>2, <1>4, <1>5, <1>6 DEF Admission, Updates, Writing

LEMMA DeleteCipherAdmits ==
  ASSUME Typed, NEW r \in Request, NEW k \in Client, NEW c \in Cipher,
         DeleteCipher(r, k, c)
  PROVE  \E q : Admission(r, q)
<1> DEFINE q == [[Idle EXCEPT !.pc = "write", !.set = {c}, !.flag = TRUE]
                 EXCEPT !.op = "delete", !.client = k, !.body = writes + 1]
<1>1. req' = [req EXCEPT ![r] = q]
  BY DEF DeleteCipher, Admit
<1>2. /\ writes' = writes + 1 /\ UNCHANGED <<cipher, folder, rev, copy, now, quiet>>
      /\ req[r].pc = "idle" /\ quiet + Gap =< now
      /\ Gap > 0 => \A s \in Request : ~Writing(req[s])
      /\ "delete" \in Op /\ writes + 1 \in Nat /\ writes + 1 \in 1..(writes + 1)
  BY Admitted DEF DeleteCipher, VaultOps
<1>4. q \in RequestState
  BY <1>2, IdleTyped DEF RequestState, Pc, VaultOps
<1>5. Placed(q, writes + 1)
  BY <1>2 DEF Placed, Stationed, Updates, Idle
<1>6. /\ q.op = "delete" /\ q.pc = "write" /\ q.client = k
      /\ q.folders = [f \in Folder |-> NoFolder] /\ q.set = {c}
  BY DEF Idle
<1> HIDE DEF q
<1>7. QED BY <1>1, <1>2, <1>4, <1>5, <1>6 DEF Admission, Updates, Writing

LEMMA RestoreCiphersAdmits ==
  ASSUME Typed, NEW r \in Request, NEW k \in Client, NEW set \in SUBSET Cipher,
         RestoreCiphers(r, k, set)
  PROVE  \E q : Admission(r, q)
<1> DEFINE q == [[Idle EXCEPT !.pc = "write", !.set = set]
                 EXCEPT !.op = "restore", !.client = k, !.body = writes + 1]
<1>1. req' = [req EXCEPT ![r] = q]
  BY DEF RestoreCiphers, Admit
<1>2. /\ writes' = writes + 1 /\ UNCHANGED <<cipher, folder, rev, copy, now, quiet>>
      /\ req[r].pc = "idle" /\ quiet + Gap =< now
      /\ Gap > 0 => \A s \in Request : ~Writing(req[s])
      /\ "restore" \in Op /\ writes + 1 \in Nat /\ writes + 1 \in 1..(writes + 1)
  BY Admitted DEF RestoreCiphers, VaultOps
<1>4. q \in RequestState
  BY <1>2, IdleTyped DEF RequestState, Pc, VaultOps
<1>5. Placed(q, writes + 1)
  BY <1>2 DEF Placed, Stationed, Updates, Idle
<1>6. /\ q.op = "restore" /\ q.pc = "write" /\ q.client = k /\ ~q.flag
      /\ q.folders = [f \in Folder |-> NoFolder]
  BY DEF Idle
<1> HIDE DEF q
<1>7. QED BY <1>1, <1>2, <1>4, <1>5, <1>6 DEF Admission, Updates, Writing

LEMMA DeleteCiphersAdmits ==
  ASSUME Typed, NEW r \in Request, NEW k \in Client, NEW set \in SUBSET Cipher,
         DeleteCiphers(r, k, set)
  PROVE  \E q : Admission(r, q)
<1> DEFINE q == [[Idle EXCEPT !.pc = "write", !.set = set]
                 EXCEPT !.op = "delete", !.client = k, !.body = writes + 1]
<1>1. req' = [req EXCEPT ![r] = q]
  BY DEF DeleteCiphers, Admit
<1>2. /\ writes' = writes + 1 /\ UNCHANGED <<cipher, folder, rev, copy, now, quiet>>
      /\ req[r].pc = "idle" /\ quiet + Gap =< now
      /\ Gap > 0 => \A s \in Request : ~Writing(req[s])
      /\ "delete" \in Op /\ writes + 1 \in Nat /\ writes + 1 \in 1..(writes + 1)
  BY Admitted DEF DeleteCiphers, VaultOps
<1>4. q \in RequestState
  BY <1>2, IdleTyped DEF RequestState, Pc, VaultOps
<1>5. Placed(q, writes + 1)
  BY <1>2 DEF Placed, Stationed, Updates, Idle
<1>6. /\ q.op = "delete" /\ q.pc = "write" /\ q.client = k
      /\ q.folders = [f \in Folder |-> NoFolder] /\ ~q.flag
  BY DEF Idle
<1> HIDE DEF q
<1>7. QED BY <1>1, <1>2, <1>4, <1>5, <1>6 DEF Admission, Updates, Writing

LEMMA EmptyTrashAdmits ==
  ASSUME Typed, NEW r \in Request, NEW k \in Client,
         EmptyTrash(r, k)
  PROVE  \E q : Admission(r, q)
<1> DEFINE q == [[Idle EXCEPT !.pc = "write"]
                 EXCEPT !.op = "empty", !.client = k, !.body = writes + 1]
<1>1. req' = [req EXCEPT ![r] = q]
  BY DEF EmptyTrash, Admit
<1>2. /\ writes' = writes + 1 /\ UNCHANGED <<cipher, folder, rev, copy, now, quiet>>
      /\ req[r].pc = "idle" /\ quiet + Gap =< now
      /\ Gap > 0 => \A s \in Request : ~Writing(req[s])
      /\ "empty" \in Op /\ writes + 1 \in Nat /\ writes + 1 \in 1..(writes + 1)
  BY Admitted DEF EmptyTrash, VaultOps
<1>4. q \in RequestState
  BY <1>2, IdleTyped DEF RequestState, Pc, VaultOps
<1>5. Placed(q, writes + 1)
  BY <1>2 DEF Placed, Stationed, Updates, Idle
<1>6. /\ q.op = "empty" /\ q.pc = "write" /\ q.client = k
      /\ q.folders = [f \in Folder |-> NoFolder]
  BY DEF Idle
<1> HIDE DEF q
<1>7. QED BY <1>1, <1>2, <1>4, <1>5, <1>6 DEF Admission, Updates, Writing

LEMMA CreateFolderAdmits ==
  ASSUME Typed, NEW r \in Request, NEW k \in Client,
         CreateFolder(r, k)
  PROVE  \E q : Admission(r, q)
<1> DEFINE q == [[Idle EXCEPT !.pc = "folder"]
                 EXCEPT !.op = "newFolder", !.client = k, !.body = writes + 1]
<1>1. req' = [req EXCEPT ![r] = q]
  BY DEF CreateFolder, Admit
<1>2. /\ writes' = writes + 1 /\ UNCHANGED <<cipher, folder, rev, copy, now, quiet>>
      /\ req[r].pc = "idle" /\ quiet + Gap =< now
      /\ Gap > 0 => \A s \in Request : ~Writing(req[s])
      /\ "newFolder" \in Op /\ writes + 1 \in Nat /\ writes + 1 \in 1..(writes + 1)
  BY Admitted DEF CreateFolder, VaultOps
<1>4. q \in RequestState
  BY <1>2, IdleTyped DEF RequestState, Pc, VaultOps
<1>5. Placed(q, writes + 1)
  BY <1>2 DEF Placed, Stationed, Updates, Idle
<1>6. /\ q.op = "newFolder" /\ q.pc = "folder" /\ q.client = k
      /\ q.folders = [f \in Folder |-> NoFolder]
  BY DEF Idle
<1> HIDE DEF q
<1>7. QED BY <1>1, <1>2, <1>4, <1>5, <1>6 DEF Admission, Updates, Writing

LEMMA RenameFolderAdmits ==
  ASSUME Typed, NEW r \in Request, NEW k \in Client, NEW f \in Folder,
         RenameFolder(r, k, f)
  PROVE  \E q : Admission(r, q)
<1> DEFINE q == [[Idle EXCEPT !.pc = "write", !.folder = f]
                 EXCEPT !.op = "rename", !.client = k, !.body = writes + 1]
<1>1. req' = [req EXCEPT ![r] = q]
  BY DEF RenameFolder, Admit
<1>2. /\ writes' = writes + 1 /\ UNCHANGED <<cipher, folder, rev, copy, now, quiet>>
      /\ req[r].pc = "idle" /\ quiet + Gap =< now
      /\ Gap > 0 => \A s \in Request : ~Writing(req[s])
      /\ "rename" \in Op /\ writes + 1 \in Nat /\ writes + 1 \in 1..(writes + 1)
  BY Admitted DEF RenameFolder, VaultOps
<1>4. q \in RequestState
  BY <1>2, IdleTyped DEF RequestState, Pc, VaultOps
<1>5. Placed(q, writes + 1)
  BY <1>2, Absent DEF Placed, Stationed, Updates, Idle
<1>6. /\ q.op = "rename" /\ q.pc = "write" /\ q.client = k
      /\ q.folders = [g \in Folder |-> NoFolder]
  BY DEF Idle
<1> HIDE DEF q
<1>7. QED BY <1>1, <1>2, <1>4, <1>5, <1>6 DEF Admission, Updates, Writing

LEMMA DeleteFolderAdmits ==
  ASSUME Typed, NEW r \in Request, NEW k \in Client, NEW f \in Folder,
         DeleteFolder(r, k, f)
  PROVE  \E q : Admission(r, q)
<1> DEFINE q == [[Idle EXCEPT !.pc = "write", !.folder = f]
                 EXCEPT !.op = "deleteFolder", !.client = k, !.body = writes + 1]
<1>1. req' = [req EXCEPT ![r] = q]
  BY DEF DeleteFolder, Admit
<1>2. /\ writes' = writes + 1 /\ UNCHANGED <<cipher, folder, rev, copy, now, quiet>>
      /\ req[r].pc = "idle" /\ quiet + Gap =< now
      /\ Gap > 0 => \A s \in Request : ~Writing(req[s])
      /\ "deleteFolder" \in Op /\ writes + 1 \in Nat /\ writes + 1 \in 1..(writes + 1)
  BY Admitted DEF DeleteFolder, VaultOps
<1>4. q \in RequestState
  BY <1>2, IdleTyped DEF RequestState, Pc, VaultOps
<1>5. Placed(q, writes + 1)
  BY <1>2, Absent DEF Placed, Stationed, Updates, Idle
<1>6. /\ q.op = "deleteFolder" /\ q.pc = "write" /\ q.client = k
      /\ q.folders = [g \in Folder |-> NoFolder]
  BY DEF Idle
<1> HIDE DEF q
<1>7. QED BY <1>1, <1>2, <1>4, <1>5, <1>6 DEF Admission, Updates, Writing

LEMMA ChecksRevision ==
  ASSUME Typed, NEW r \in Request, NEW k \in Client, CheckRevision(r, k)
  PROVE  \E q \in RequestState :
           /\ req' = [req EXCEPT ![r] = q] /\ Placed(q, writes)
           /\ UNCHANGED <<cipher, folder, rev, copy, now, quiet, writes>>
           /\ req[r].pc = "idle"
           /\ q.pc = "folders" /\ q.op = "sync" /\ q.client = k /\ q.known = rev[Account[k]]
           /\ q.folders = [f \in Folder |-> NoFolder]
<1> DEFINE q == [Idle EXCEPT !.pc = "folders", !.op = "sync", !.client = k,
                              !.known = rev[Account[k]]]
<1>1. req' = [req EXCEPT ![r] = q]
  BY DEF CheckRevision
<1>2. rev[Account[k]] \in Nat /\ writes \in Nat
  BY Accounted DEF Typed, TypeOK
<1>3. q \in RequestState
  BY <1>2, IdleTyped DEF RequestState, Pc, VaultOps
<1>4. Placed(q, writes)
  BY <1>2 DEF Placed, Stationed, Updates, Idle
<1>5. /\ q.pc = "folders" /\ q.op = "sync" /\ q.client = k /\ q.known = rev[Account[k]]
      /\ q.folders = [f \in Folder |-> NoFolder]
  BY DEF Idle
<1> HIDE DEF q
<1>6. QED BY <1>1, <1>3, <1>4, <1>5 DEF CheckRevision, At, tables, counters

\* Whatever arrives is the admission of a write or the beginning of a sync.
LEMMA Arrived ==
  ASSUME Typed, NEW r \in Request, Arrive(r)
  PROVE  \/ \E q : Admission(r, q)
         \/ \E k \in Client : CheckRevision(r, k)
<1>1. PICK k \in Client :
        \/ \E f \in Folder \cup {None}, fav \in BOOLEAN :
             \/ CreateCipher(r, k, f, fav)
             \/ \E c \in Cipher : CipherPartial(r, k, c, f, fav)
             \/ \E c \in Cipher, op \in {"update", "overwrite"} : UpdateCipher(r, k, c, f, fav, op)
        \/ \E f \in Folder \cup {None}, n \in 1..2 : ImportCiphers(r, k, f, n)
        \/ \E c \in Cipher, fav \in BOOLEAN : FavoriteCipher(r, k, c, fav)
        \/ \E c \in Cipher : TrashCipher(r, k, c) \/ DeleteCipher(r, k, c)
        \/ \E set \in SUBSET Cipher \ {{}} : RestoreCiphers(r, k, set) \/ DeleteCiphers(r, k, set)
        \/ EmptyTrash(r, k) \/ CreateFolder(r, k)
        \/ \E f \in Folder : RenameFolder(r, k, f) \/ DeleteFolder(r, k, f)
        \/ CheckRevision(r, k)
  BY Zenon DEF Arrive
<1>2. ASSUME NEW f \in Folder \cup {None}, NEW n \in 1..2, ImportCiphers(r, k, f, n)
      PROVE  \E q : Admission(r, q)
  <2>1. CASE f # None /\ OwnFolder(Account[k], f)
    <3>1. Admit(r, k, "import", [Idle EXCEPT !.pc = "check", !.folder = f, !.left = n])
      BY <1>2, <2>1 DEF ImportCiphers
    <3>2. QED BY <3>1, ImportCiphersAdmits
  <2>2. CASE ~(f # None /\ OwnFolder(Account[k], f))
    <3>1. Admit(r, k, "import", [Idle EXCEPT !.pc = "folder", !.folder = None, !.left = n])
      BY <1>2, <2>2 DEF ImportCiphers
    <3>2. QED BY <3>1, ImportCiphersAdmits
  <2>3. QED BY <2>1, <2>2
<1>3. CASE \E f \in Folder \cup {None}, fav \in BOOLEAN :
             \/ CreateCipher(r, k, f, fav)
             \/ \E c \in Cipher : CipherPartial(r, k, c, f, fav)
             \/ \E c \in Cipher, op \in {"update", "overwrite"} : UpdateCipher(r, k, c, f, fav, op)
  BY <1>3, CreateCipherAdmits, CipherPartialAdmits, UpdateCipherAdmits
<1>4. CASE \/ \E c \in Cipher, fav \in BOOLEAN : FavoriteCipher(r, k, c, fav)
           \/ \E c \in Cipher : TrashCipher(r, k, c) \/ DeleteCipher(r, k, c)
           \/ \E set \in SUBSET Cipher \ {{}} : RestoreCiphers(r, k, set) \/ DeleteCiphers(r, k, set)
  BY <1>4, FavoriteCipherAdmits, TrashCipherAdmits, DeleteCipherAdmits, RestoreCiphersAdmits,
     DeleteCiphersAdmits
<1>5. CASE \/ EmptyTrash(r, k) \/ CreateFolder(r, k)
           \/ \E f \in Folder : RenameFolder(r, k, f) \/ DeleteFolder(r, k, f)
  BY <1>5, EmptyTrashAdmits, CreateFolderAdmits, RenameFolderAdmits, DeleteFolderAdmits
<1>6. QED BY <1>1, <1>2, <1>3, <1>4, <1>5

-----------------------------------------------------------------------------
(* Types.                                                                     *)

\* Request r becomes q, and all requests are as they should be.
Became(r, q) == /\ req' \in [Request -> RequestState] /\ req'[r] = q
                /\ \A s \in Request : s # r => req'[s] = req[s]
                /\ \A s \in Request : Placed(req'[s], writes')

LEMMA BecomesIdle ==
  ASSUME Typed, NEW r \in Request, Finish(r)
  PROVE  Became(r, Idle) /\ now' = now /\ writes' = writes /\ quiet' \in Nat
BY Ended DEF Became

LEMMA Becomes ==
  ASSUME Typed, NEW r \in Request, NEW q \in RequestState, req' = [req EXCEPT ![r] = q],
         UNCHANGED counters, Placed(q, writes)
  PROVE  Became(r, q) /\ now' = now /\ writes' = writes /\ quiet' = quiet
<1>1. writes' = writes /\ writes \in Nat /\ now' = now /\ quiet' = quiet
  BY DEF Typed, TypeOK, counters
<1>2. writes' \in Nat /\ writes =< writes' /\ Placed(q, writes')
  BY <1>1
<1>3. QED BY <1>1, <1>2, Moved DEF Became

\* A request under way and what it has.
LEMMA Facts ==
  ASSUME Typed, NEW r \in Request
  PROVE  /\ req[r] \in RequestState /\ Placed(req[r], writes)
         /\ req[r].pc # "idle" => req[r].client \in Client /\ Holder(r) \in User /\ Holder(r) # None
BY Accounted, Absent DEF Typed, TypeOK, Placed, Holder

\* The tables stay typed.
Tabled == /\ cipher' \in [Cipher -> CipherRow] /\ folder' \in [Folder -> FolderRow]
          /\ rev' \in [User -> Nat] /\ copy' \in [Client -> Copy]
          /\ now' \in Nat /\ quiet' \in Nat
          /\ writes' \in Nat
          /\ \A c \in Cipher : cipher'[c].owner # None => cipher'[c].body \in 1..writes'

LEMMA TypedAgain ==
  ASSUME NEW r \in Request, NEW q, Became(r, q), Tabled
  PROVE  Typed'
BY DEF Became, Tabled, Typed, TypeOK

LEMMA SameTables ==
  ASSUME Typed, UNCHANGED tables, UNCHANGED copy, now' = now, quiet' \in Nat, writes' = writes
  PROVE  Tabled
BY DEF Typed, TypeOK, Tabled, tables

-----------------------------------------------------------------------------
(* What each statement does.                                                  *)

\* The request ends, or goes on as q.
Ends(r) == /\ Became(r, Idle) /\ now' = now /\ writes' = writes
           /\ quiet' = IF req[r].op = "sync" THEN quiet ELSE now
Moves(r, q) == Became(r, q) /\ now' = now /\ writes' = writes /\ quiet' = quiet

\* What no statement changes of a request, and what few of them do.
Kin(q, p) == /\ q.op = p.op /\ q.client = p.client /\ q.flag = p.flag
             /\ q.seen = p.seen /\ q.known = p.known
Twin(q, p) == /\ Kin(q, p) /\ q.cipher = p.cipher /\ q.folder = p.folder /\ q.body = p.body
              /\ q.set = p.set /\ q.left = p.left /\ q.folders = p.folders

LEMMA Ending ==
  ASSUME Typed, NEW r \in Request, Finish(r)
  PROVE  Ends(r) /\ now' \in Nat /\ quiet' \in Nat /\ writes' \in Nat
<1>1. Became(r, Idle)
  BY BecomesIdle
<1>2. now \in Nat /\ quiet \in Nat /\ writes \in Nat
  BY DEF Typed, TypeOK
<1>3. QED BY <1>1, <1>2 DEF Ends, Finish

LEMMA Moving ==
  ASSUME Typed, NEW r \in Request, NEW q \in RequestState, req' = [req EXCEPT ![r] = q],
         UNCHANGED counters, Placed(q, writes)
  PROVE  Moves(r, q) /\ now' \in Nat /\ quiet' \in Nat /\ writes' \in Nat
<1>1. now \in Nat /\ quiet \in Nat /\ writes \in Nat
  BY DEF Typed, TypeOK
<1>2. QED BY <1>1, Becomes DEF Moves

\* A request at another statement of its handler.
LEMMA Going ==
  ASSUME Typed, NEW r \in Request, NEW pc \in Pc \ {"idle"}, Goto(r, pc), UNCHANGED counters,
         ~At(r, "idle"), Stationed([req[r] EXCEPT !.pc = pc]),
         pc = "answer" => req[r].cipher \in Cipher
  PROVE  /\ \E q : Moves(r, q) /\ Twin(q, req[r]) /\ q.pc = pc
         /\ now' \in Nat /\ quiet' \in Nat /\ writes' \in Nat
<1> DEFINE q == [req[r] EXCEPT !.pc = pc]
<1>1. req[r] \in RequestState /\ Placed(req[r], writes)
  BY Facts
<1>2. q \in RequestState /\ req' = [req EXCEPT ![r] = q]
  BY <1>1 DEF Goto, RequestState
<1>3. q.pc = pc /\ Twin(q, req[r])
  BY <1>1 DEF Twin, Kin, RequestState
<1>4. Stationed(q)
  OBVIOUS
<1> HIDE DEF q
<1>5. Placed(q, writes)
  BY <1>1, <1>3, <1>4 DEF Placed, At, Twin, Kin
<1>6. QED BY <1>2, <1>3, <1>5, Moving

LEMMA InsertFolderDoes ==
  ASSUME Typed, NEW r \in Request, InsertFolder(r)
  PROVE  /\ Tabled /\ UNCHANGED <<cipher, rev, copy>> /\ req[r].op \in {"import", "newFolder"}
         /\ \E f \in Folder :
              /\ ~folder[f].used
              /\ folder' = [folder EXCEPT ![f] = [owner |-> Holder(r), name |-> req[r].body,
                                                   used |-> TRUE]]
              /\ \/ Ends(r)
                 \/ \E q : /\ Moves(r, q) /\ Kin(q, req[r]) /\ q.pc = "check"
                           /\ req[r].op = "import"
<1>1. PICK f \in Folder :
        /\ ~folder[f].used
        /\ folder' = [folder EXCEPT ![f] = [owner |-> Holder(r), name |-> req[r].body,
                                             used |-> TRUE]]
        /\ IF req[r].op = "import"
           THEN /\ req' = [req EXCEPT ![r].pc = "check", ![r].folder = f]
                /\ UNCHANGED counters
           ELSE Finish(r)
  BY DEF InsertFolder
<1>2. /\ req[r] \in RequestState /\ Placed(req[r], writes) /\ Holder(r) \in User
      /\ req[r].pc = "folder" /\ req[r].op \in {"import", "newFolder"} /\ UNCHANGED <<cipher, rev, copy>>
  BY Facts DEF InsertFolder, At, Placed, Stationed
<1>3. folder' \in [Folder -> FolderRow]
  <2>1. [owner |-> Holder(r), name |-> req[r].body, used |-> TRUE] \in FolderRow
    BY <1>2 DEF FolderRow, RequestState
  <2>2. QED BY <1>1, <2>1 DEF Typed, TypeOK
<1>4. CASE req[r].op = "import"
  <2> DEFINE q == [req[r] EXCEPT !.pc = "check", !.folder = f]
  <2>1. q \in RequestState /\ req' = [req EXCEPT ![r] = q]
    BY <1>1, <1>2, <1>4 DEF RequestState, Pc
  <2>2. Kin(q, req[r]) /\ q.pc = "check" /\ q.body = req[r].body /\ q.cipher = req[r].cipher
    BY <1>2 DEF RequestState, Kin
  <2> HIDE DEF q
  <2>3. Placed(q, writes)
    BY <1>2, <1>4, <2>2 DEF Placed, Stationed, Kin, Updates
  <2>4. Moves(r, q) /\ now' \in Nat /\ quiet' \in Nat /\ writes' \in Nat
    BY <1>1, <1>4, <2>1, <2>3, Moving
  <2>5. Tabled
    BY <1>2, <1>3, <2>4 DEF Tabled, Typed, TypeOK, Moves
  <2>6. QED BY <1>1, <1>2, <1>4, <2>2, <2>4, <2>5
<1>5. CASE req[r].op # "import"
  <2>1. Ends(r) /\ now' \in Nat /\ quiet' \in Nat /\ writes' \in Nat
    BY <1>1, <1>5, Ending
  <2>2. Tabled
    BY <1>2, <1>3, <2>1 DEF Tabled, Typed, TypeOK, Ends
  <2>3. QED BY <1>1, <1>2, <2>1, <2>2
<1>6. QED BY <1>4, <1>5

LEMMA CheckFolderDoes ==
  ASSUME Typed, NEW r \in Request, CheckFolder(r)
  PROVE  /\ Tabled /\ UNCHANGED <<cipher, folder, rev, copy>> /\ req[r].pc = "check"
         /\ req[r].op \in Updates \cup {"create", "import"}
         /\ \/ Ends(r)
            \/ \E q : Moves(r, q) /\ Twin(q, req[r]) /\ q.pc = "write" /\ FolderFound(r)
<1>1. /\ req[r] \in RequestState /\ Placed(req[r], writes)
      /\ req[r].pc = "check" /\ UNCHANGED <<cipher, folder, rev, copy>>
      /\ req[r].op \in Updates \cup {"create", "import"}
  BY Facts DEF CheckFolder, At, Placed, Stationed, tables
<1>2. CASE FolderFound(r)
  <2>1. Goto(r, "write") /\ UNCHANGED counters
    BY <1>2 DEF CheckFolder
  <2>2. Stationed([req[r] EXCEPT !.pc = "write"])
    BY <1>1 DEF Stationed, Updates, RequestState
  <2>3. /\ \E q : Moves(r, q) /\ Twin(q, req[r]) /\ q.pc = "write"
        /\ now' \in Nat /\ quiet' \in Nat /\ writes' \in Nat
    BY <1>1, <2>1, <2>2, Going DEF Pc, At
  <2>4. Tabled
    BY <1>1, <2>3, SameTables DEF tables, Moves
  <2>5. QED BY <1>1, <1>2, <2>3, <2>4
<1>3. CASE ~FolderFound(r)
  <2>1. Ends(r) /\ now' \in Nat /\ quiet' \in Nat /\ writes' \in Nat
    BY <1>3, Ending DEF CheckFolder
  <2>2. Tabled
    BY <1>1, <2>1, SameTables DEF tables, Ends
  <2>3. QED BY <1>1, <2>1, <2>2
<1>4. QED BY <1>2, <1>3

\* One cipher is written, and only that one.
Overwritten(c, row) == /\ cipher'[c] = row
                       /\ \A d \in Cipher : d # c => cipher'[d] = cipher[d]

LEMMA RowWritten ==
  ASSUME Typed, NEW c \in Cipher, NEW row \in CipherRow, cipher' = [cipher EXCEPT ![c] = row],
         row.owner # None => row.body \in 1..writes, UNCHANGED <<folder, rev, copy>>,
         now' = now, writes' = writes, quiet' \in Nat
  PROVE  Tabled /\ Overwritten(c, row)
<1>1. cipher' \in [Cipher -> CipherRow] /\ Overwritten(c, row)
  BY DEF Typed, TypeOK, Overwritten
<1>2. \A d \in Cipher : cipher'[d].owner # None => cipher'[d].body \in 1..writes'
  BY DEF Typed, TypeOK
<1>3. QED BY <1>1, <1>2 DEF Tabled, Typed, TypeOK

LEMMA InsertCipherDoes ==
  ASSUME Typed, NEW r \in Request, InsertCipher(r)
  PROVE  /\ Tabled /\ UNCHANGED <<folder, rev, copy>>
         /\ req[r].pc = "write" /\ req[r].op \in {"create", "import"}
         /\ \/ Ends(r) /\ cipher' = cipher
            \/ \E c \in Cipher, row \in CipherRow, q \in RequestState :
                 /\ cipher[c] = NoCipher /\ Overwritten(c, row)
                 /\ row.owner = Holder(r) /\ row.folder = req[r].folder /\ row.updated = now
                 /\ FolderExists(r)
                 /\ Moves(r, q) /\ Kin(q, req[r]) /\ q.pc = "touch" /\ q.left = req[r].left
                 /\ q.folders = req[r].folders
<1>1. PICK c \in Cipher :
        /\ cipher[c] = NoCipher
        /\ IF FolderExists(r)
           THEN /\ cipher' = [cipher EXCEPT ![c] =
                     [owner |-> Holder(r), body |-> req[r].body, folder |-> req[r].folder,
                      favorite |-> req[r].flag, trash |-> FALSE, updated |-> now]]
                /\ req' = [req EXCEPT ![r].pc = "touch", ![r].cipher = c]
                /\ UNCHANGED counters
           ELSE Finish(r) /\ UNCHANGED cipher
  BY DEF InsertCipher
<1>2. /\ req[r] \in RequestState /\ Placed(req[r], writes) /\ Holder(r) \in User
      /\ req[r].pc = "write" /\ req[r].op \in {"create", "import"} /\ UNCHANGED <<folder, rev, copy>>
      /\ now \in Nat
  BY Facts DEF InsertCipher, At, Typed, TypeOK
<1>3. CASE FolderExists(r)
  <2> DEFINE q == [req[r] EXCEPT !.pc = "touch", !.cipher = c]
  <2> DEFINE row == [owner |-> Holder(r), body |-> req[r].body, folder |-> req[r].folder,
                     favorite |-> req[r].flag, trash |-> FALSE, updated |-> now]
  <2>1. q \in RequestState /\ req' = [req EXCEPT ![r] = q]
    BY <1>1, <1>2, <1>3 DEF RequestState, Pc
  <2>2. Kin(q, req[r]) /\ q.pc = "touch" /\ q.body = req[r].body /\ q.cipher = c
        /\ q.left = req[r].left /\ q.folders = req[r].folders
    BY <1>2 DEF RequestState, Kin
  <2>3. row \in CipherRow /\ row.body \in 1..writes /\ row.owner = Holder(r)
        /\ row.folder = req[r].folder /\ row.updated = now
    BY <1>2 DEF CipherRow, RequestState, Placed
  <2>4. cipher' = [cipher EXCEPT ![c] = row]
    BY <1>1, <1>3
  <2> HIDE DEF q, row
  <2>5. Placed(q, writes)
    BY <1>2, <2>2 DEF Placed, Stationed, Kin, Updates, FolderOps
  <2>6. UNCHANGED counters
    BY <1>1, <1>3
  <2>7. Moves(r, q) /\ now' \in Nat /\ quiet' \in Nat /\ writes' \in Nat
    BY <2>1, <2>5, <2>6, Moving
  <2>8. Tabled /\ Overwritten(c, row)
    BY <1>2, <2>3, <2>4, <2>7, RowWritten DEF Moves
  <2>9. QED BY <1>1, <1>2, <1>3, <2>1, <2>2, <2>3, <2>4, <2>7, <2>8
<1>4. CASE ~FolderExists(r)
  <2>1. Ends(r) /\ now' \in Nat /\ quiet' \in Nat /\ writes' \in Nat /\ cipher' = cipher
    BY <1>1, <1>4, Ending
  <2>2. Tabled
    BY <1>2, <2>1, SameTables DEF tables, Ends
  <2>3. QED BY <1>2, <2>1, <2>2
<1>5. QED BY <1>3, <1>4

LEMMA ReadCipherDoes ==
  ASSUME Typed, NEW r \in Request, ReadCipher(r)
  PROVE  /\ Tabled /\ UNCHANGED <<cipher, folder, rev, copy>>
         /\ req[r].pc = "read" /\ req[r].op \in Updates
         /\ \/ Ends(r)
            \/ \E q : /\ Moves(r, q) /\ Kin(q, req[r]) /\ q.pc = "check"
                      /\ q.cipher = req[r].cipher /\ q.left = req[r].left /\ q.set = req[r].set
                      /\ q.folders = req[r].folders /\ q.body = NewBody(r)
                      /\ cipher[req[r].cipher].owner = Holder(r) /\ ~Stale(r)
<1>1. /\ req[r] \in RequestState /\ Placed(req[r], writes) /\ Holder(r) \in User /\ Holder(r) # None
      /\ req[r].pc = "read" /\ req[r].op \in Updates /\ UNCHANGED <<cipher, folder, rev, copy>>
  BY Facts DEF ReadCipher, At, tables, Placed, Stationed
<1>2. CASE req[r].cipher \in Owned(Holder(r)) /\ ~Stale(r)
  <2> DEFINE q == [req[r] EXCEPT !.pc = "check", !.body = NewBody(r)]
  <2>1. NewBody(r) \in 1..writes /\ NewBody(r) \in Nat /\ cipher[req[r].cipher].owner = Holder(r)
    <3>1. cipher[req[r].cipher].owner = Holder(r) /\ req[r].cipher \in Cipher
      BY <1>2 DEF Owned
    <3>2. cipher[req[r].cipher].body \in 1..writes
      BY <1>1, <3>1 DEF Typed, TypeOK
    <3>3. req[r].body \in 1..writes
      BY <1>1 DEF Placed, Updates
    <3>4. NewBody(r) \in 1..writes
      BY <3>2, <3>3 DEF NewBody
    <3>5. QED BY <3>1, <3>4 DEF Typed, TypeOK
  <2>2. q \in RequestState /\ req' = [req EXCEPT ![r] = q] /\ UNCHANGED counters
    BY <1>1, <1>2, <2>1 DEF RequestState, Pc, ReadCipher
  <2>3. /\ Kin(q, req[r]) /\ q.pc = "check" /\ q.body = NewBody(r) /\ q.cipher = req[r].cipher
        /\ q.left = req[r].left /\ q.set = req[r].set /\ q.folders = req[r].folders
    BY <1>1 DEF RequestState, Kin
  <2> HIDE DEF q
  <2>4. Placed(q, writes)
    BY <1>1, <2>1, <2>3 DEF Placed, Stationed, Kin, Updates
  <2>5. Moves(r, q) /\ now' \in Nat /\ quiet' \in Nat /\ writes' \in Nat
    BY <2>2, <2>4, Moving
  <2>6. Tabled
    BY <1>1, <2>5, SameTables DEF tables, Moves
  <2>7. QED BY <1>1, <1>2, <2>1, <2>3, <2>5, <2>6
<1>3. CASE ~(req[r].cipher \in Owned(Holder(r)) /\ ~Stale(r))
  <2>1. Ends(r) /\ now' \in Nat /\ quiet' \in Nat /\ writes' \in Nat
    BY <1>3, Ending DEF ReadCipher
  <2>2. Tabled
    BY <1>1, <2>1, SameTables DEF tables, Ends
  <2>3. QED BY <1>1, <2>1, <2>2
<1>4. QED BY <1>2, <1>3

\* A write of a row of the account sends the request on to the revision date.
LEMMA GoesToTouch ==
  ASSUME Typed, NEW r \in Request, At(r, "write"), req[r].op \notin FolderOps, Goto(r, "touch"),
         UNCHANGED counters
  PROVE  /\ \E q : Moves(r, q) /\ Twin(q, req[r]) /\ q.pc = "touch"
         /\ now' \in Nat /\ quiet' \in Nat /\ writes' \in Nat
<1>1. req[r] \in RequestState /\ Placed(req[r], writes)
  BY Facts
<1>2. Stationed([req[r] EXCEPT !.pc = "touch"])
  BY <1>1 DEF Stationed, Updates, RequestState, FolderOps, Placed, At
<1>3. QED BY <1>2, Going DEF Pc, At

LEMMA WriteCipherDoes ==
  ASSUME Typed, NEW r \in Request, WriteCipher(r)
  PROVE  /\ Tabled /\ UNCHANGED <<folder, rev, copy>>
         /\ req[r].pc = "write" /\ req[r].op \in Updates
         /\ \/ Ends(r) /\ cipher' = cipher
            \/ \E row \in CipherRow, q \in RequestState :
                 /\ cipher[req[r].cipher].owner = Holder(r) /\ FolderExists(r)
                 /\ Overwritten(req[r].cipher, row)
                 /\ row.owner = Holder(r) /\ row.folder = req[r].folder
                 /\ row.body = req[r].body /\ row.updated = now
                 /\ Moves(r, q) /\ Twin(q, req[r]) /\ q.pc = "touch"
<1> DEFINE c == req[r].cipher
<1>1. /\ req[r] \in RequestState /\ Placed(req[r], writes) /\ Holder(r) \in User
      /\ req[r].pc = "write" /\ req[r].op \in Updates /\ UNCHANGED <<folder, rev, copy>>
      /\ now \in Nat /\ c \in Cipher
  BY Facts DEF WriteCipher, At, Typed, TypeOK, Placed, Updates
<1>2. CASE c \in Owned(Holder(r)) /\ FolderExists(r)
  <2> DEFINE row == [cipher[c] EXCEPT !.body = req[r].body, !.folder = req[r].folder,
                                      !.favorite = req[r].flag, !.updated = now]
  <2>1. /\ cipher' = [cipher EXCEPT ![c] = row] /\ Goto(r, "touch") /\ UNCHANGED counters
    BY <1>1, <1>2 DEF WriteCipher, Typed, TypeOK
  <2>2. cipher[c] \in CipherRow /\ cipher[c].owner = Holder(r)
    BY <1>1, <1>2 DEF Typed, TypeOK, Owned
  <2>3. /\ row \in CipherRow /\ row.body \in 1..writes /\ row.owner = Holder(r)
        /\ row.folder = req[r].folder /\ row.updated = now /\ row.body = req[r].body
    BY <1>1, <2>2 DEF CipherRow, RequestState, Placed, Updates
  <2> HIDE DEF row
  <2>4. /\ \E q \in RequestState : Moves(r, q) /\ Twin(q, req[r]) /\ q.pc = "touch"
        /\ now' \in Nat /\ quiet' \in Nat /\ writes' \in Nat
    BY <1>1, <2>1, GoesToTouch DEF Moves, Became, At, Updates, FolderOps
  <2>5. Tabled /\ Overwritten(c, row)
    BY <1>1, <2>1, <2>3, <2>4, RowWritten DEF counters
  <2>6. QED BY <1>1, <1>2, <2>2, <2>3, <2>4, <2>5
<1>3. CASE ~(c \in Owned(Holder(r)) /\ FolderExists(r))
  <2>1. Ends(r) /\ now' \in Nat /\ quiet' \in Nat /\ writes' \in Nat /\ cipher' = cipher
    BY <1>3, Ending DEF WriteCipher
  <2>2. Tabled
    BY <1>1, <2>1, SameTables DEF tables, Ends
  <2>3. QED BY <1>1, <2>1, <2>2
<1>4. QED BY <1>2, <1>3

LEMMA SetColumnDoes ==
  ASSUME Typed, NEW r \in Request, SetColumn(r)
  PROVE  /\ Tabled /\ UNCHANGED <<folder, rev, copy>>
         /\ req[r].pc = "write" /\ req[r].op \in {"favorite", "trash"}
         /\ \/ Ends(r) /\ cipher' = cipher
            \/ \E row \in CipherRow, q \in RequestState :
                 /\ cipher[req[r].cipher].owner = Holder(r)
                 /\ Overwritten(req[r].cipher, row)
                 /\ row.owner = Holder(r) /\ row.folder = cipher[req[r].cipher].folder
                 /\ row.body = cipher[req[r].cipher].body /\ row.updated = now
                 /\ Moves(r, q) /\ Twin(q, req[r]) /\ q.pc = "touch"
<1> DEFINE c == req[r].cipher
<1>1. /\ req[r] \in RequestState /\ Placed(req[r], writes) /\ Holder(r) \in User
      /\ req[r].pc = "write" /\ req[r].op \in {"favorite", "trash"} /\ UNCHANGED <<folder, rev, copy>>
      /\ now \in Nat /\ c \in Cipher
  BY Facts DEF SetColumn, At, Typed, TypeOK, Placed, Updates
<1>2. CASE c \in Owned(Holder(r))
  <2> DEFINE row == IF req[r].op = "trash" THEN [cipher[c] EXCEPT !.trash = TRUE, !.updated = now]
                    ELSE [cipher[c] EXCEPT !.favorite = req[r].flag, !.updated = now]
  <2>1. /\ cipher' = [cipher EXCEPT ![c] = row] /\ Goto(r, "touch") /\ UNCHANGED counters
    BY <1>1, <1>2 DEF SetColumn, Typed, TypeOK
  <2>2. cipher[c] \in CipherRow /\ cipher[c].owner = Holder(r) /\ cipher[c].owner # None
    BY <1>1, <1>2, Absent DEF Typed, TypeOK, Owned
  <2>3. /\ row \in CipherRow /\ row.owner = Holder(r) /\ row.folder = cipher[c].folder
        /\ row.updated = now /\ row.body = cipher[c].body
    BY <1>1, <2>2 DEF CipherRow, RequestState
  <2>4. row.body \in 1..writes
    BY <1>1, <2>2, <2>3 DEF Typed, TypeOK
  <2> HIDE DEF row
  <2>5. /\ \E q \in RequestState : Moves(r, q) /\ Twin(q, req[r]) /\ q.pc = "touch"
        /\ now' \in Nat /\ quiet' \in Nat /\ writes' \in Nat
    BY <1>1, <2>1, GoesToTouch DEF Moves, Became, At, FolderOps
  <2>6. Tabled /\ Overwritten(c, row)
    BY <1>1, <2>1, <2>3, <2>4, <2>5, RowWritten DEF counters
  <2>7. QED BY <1>1, <2>2, <2>3, <2>5, <2>6
<1>3. CASE c \notin Owned(Holder(r))
  <2>1. Ends(r) /\ now' \in Nat /\ quiet' \in Nat /\ writes' \in Nat /\ cipher' = cipher
    BY <1>3, Ending DEF SetColumn
  <2>2. Tabled
    BY <1>1, <2>1, SameTables DEF tables, Ends
  <2>3. QED BY <1>1, <2>1, <2>2
<1>4. QED BY <1>2, <1>3

LEMMA WriteNextDoes ==
  ASSUME Typed, NEW r \in Request, NEW c \in Cipher, WriteNext(r, c)
  PROVE  /\ Tabled /\ UNCHANGED <<folder, rev, copy>>
         /\ req[r].pc = "write" /\ req[r].op \in {"restore", "delete"} /\ c \in req[r].set
         /\ \/ cipher' = cipher
            \/ \E row \in CipherRow :
                 /\ cipher[c].owner = Holder(r) /\ Overwritten(c, row)
                 /\ \/ /\ row.owner = None /\ row.folder = None
                       /\ row.updated = cipher[c].updated
                    \/ /\ row.owner = Holder(r) /\ row.folder = cipher[c].folder
                       /\ row.body = cipher[c].body /\ row.updated = now
         /\ \/ Ends(r) /\ cipher' = cipher /\ req[r].flag
            \/ \E q : /\ Moves(r, q) /\ Kin(q, req[r]) /\ q.left = req[r].left
                      /\ q.folders = req[r].folders /\ q.set = req[r].set \ {c}
                      /\ q.pc = IF q.set = {} THEN "touch" ELSE "write"
<1> DEFINE left == req[r].set \ {c}
<1>1. /\ req[r] \in RequestState /\ Placed(req[r], writes) /\ Holder(r) \in User
      /\ req[r].pc = "write" /\ req[r].op \in {"restore", "delete"} /\ c \in req[r].set
      /\ UNCHANGED <<folder, rev, copy>> /\ now \in Nat /\ writes \in Nat
      /\ cipher[c] \in CipherRow
  BY Facts DEF WriteNext, At, Typed, TypeOK
<1>2. /\ now' = now /\ writes' = writes /\ now' \in Nat /\ quiet' \in Nat /\ writes' \in Nat
      /\ \/ Ends(r) /\ req[r].flag /\ c \notin Owned(Holder(r))
         \/ \E q : /\ Moves(r, q) /\ Kin(q, req[r]) /\ q.left = req[r].left
                   /\ q.folders = req[r].folders /\ q.set = left
                   /\ q.pc = IF q.set = {} THEN "touch" ELSE "write"
  <2>1. CASE req[r].flag /\ c \notin Owned(Holder(r))
    <3>1. Finish(r)
      BY <2>1 DEF WriteNext
    <3>2. QED BY <2>1, <3>1, Ending DEF Ends
  <2>2. CASE ~(req[r].flag /\ c \notin Owned(Holder(r)))
    <3> DEFINE pc == IF left = {} THEN "touch" ELSE "write"
    <3> DEFINE q == [req[r] EXCEPT !.set = left, !.pc = pc]
    <3>1. req' = [req EXCEPT ![r] = q] /\ UNCHANGED counters
      BY <1>1, <2>2 DEF WriteNext
    <3>2. pc \in {"touch", "write"} /\ pc = IF left = {} THEN "touch" ELSE "write"
      OBVIOUS
    <3> HIDE DEF pc
    <3>3. q \in RequestState
      BY <1>1, <3>2 DEF RequestState, Pc
    <3>4. /\ Kin(q, req[r]) /\ q.left = req[r].left /\ q.folders = req[r].folders
          /\ q.set = left /\ q.pc = pc /\ q.body = req[r].body /\ q.cipher = req[r].cipher
      BY <1>1 DEF RequestState, Kin
    <3> HIDE DEF q
    <3>5. Placed(q, writes)
      BY <1>1, <3>2, <3>4 DEF Placed, Stationed, Kin, Updates, FolderOps
    <3>6. Moves(r, q) /\ now' \in Nat /\ quiet' \in Nat /\ writes' \in Nat
      BY <3>1, <3>3, <3>5, Moving
    <3>7. QED BY <3>2, <3>4, <3>6 DEF Moves
  <2>3. QED BY <2>1, <2>2
<1>3. CASE c \notin Owned(Holder(r))
  <2>1. cipher' = cipher
    BY <1>3 DEF WriteNext
  <2>2. Tabled
    BY <1>1, <1>2, <2>1, SameTables DEF tables
  <2>3. QED BY <1>1, <1>2, <2>1, <2>2
<1>4. CASE c \in Owned(Holder(r))
  <2> DEFINE row == IF req[r].op = "delete" THEN Removed(cipher[c])
                    ELSE [cipher[c] EXCEPT !.trash = FALSE, !.updated = now]
  <2>1. cipher' = [cipher EXCEPT ![c] = row]
    BY <1>1, <1>4 DEF WriteNext, Typed, TypeOK
  <2>2. cipher[c].owner = Holder(r) /\ cipher[c].owner # None
    BY <1>1, <1>4, Absent DEF Owned
  <2>3. /\ row \in CipherRow
        /\ \/ row.owner = None /\ row.folder = None /\ row.updated = cipher[c].updated
           \/ /\ row.owner = Holder(r) /\ row.folder = cipher[c].folder
              /\ row.body = cipher[c].body /\ row.updated = now
    <3>1. CASE req[r].op = "delete"
      BY <1>1, <3>1 DEF CipherRow, Removed, NoCipher
    <3>2. CASE req[r].op # "delete"
      BY <1>1, <2>2, <3>2 DEF CipherRow
    <3>3. QED BY <3>1, <3>2
  <2>4. row.owner # None => row.body \in 1..writes
    BY <1>1, <2>2, <2>3 DEF Typed, TypeOK
  <2> HIDE DEF row
  <2>5. Tabled /\ Overwritten(c, row)
    BY <1>1, <1>2, <2>1, <2>3, <2>4, RowWritten
  <2>6. QED BY <1>1, <1>2, <1>4, <2>2, <2>3, <2>5
<1>5. QED BY <1>3, <1>4

LEMMA DeleteTrashDoes ==
  ASSUME Typed, NEW r \in Request, DeleteTrash(r)
  PROVE  /\ Tabled /\ UNCHANGED <<folder, rev, copy>>
         /\ req[r].pc = "write" /\ req[r].op = "empty"
         /\ \A c \in Cipher : \/ cipher'[c] = cipher[c]
                              \/ /\ cipher[c].owner = Holder(r)
                                 /\ cipher'[c].owner = None /\ cipher'[c].folder = None
                                 /\ cipher'[c].updated = cipher[c].updated
         /\ \E q : Moves(r, q) /\ Twin(q, req[r]) /\ q.pc = "touch"
<1>1. /\ req[r].pc = "write" /\ req[r].op = "empty" /\ UNCHANGED <<folder, rev, copy>>
      /\ Goto(r, "touch") /\ UNCHANGED counters
      /\ cipher' = [c \in Cipher |-> IF c \in Owned(Holder(r)) /\ cipher[c].trash
                                     THEN Removed(cipher[c]) ELSE cipher[c]]
  BY DEF DeleteTrash, At
<1>2. /\ \E q : Moves(r, q) /\ Twin(q, req[r]) /\ q.pc = "touch"
      /\ now' \in Nat /\ quiet' \in Nat /\ writes' \in Nat
  BY <1>1, GoesToTouch DEF At, FolderOps
<1>3. ASSUME NEW c \in Cipher
      PROVE  \/ cipher'[c] = cipher[c]
             \/ /\ cipher[c].owner = Holder(r) /\ cipher'[c] \in CipherRow
                /\ cipher'[c].owner = None /\ cipher'[c].folder = None
                /\ cipher'[c].updated = cipher[c].updated
  <2>1. cipher[c] \in CipherRow
    BY DEF Typed, TypeOK
  <2>2. /\ Removed(cipher[c]) \in CipherRow /\ Removed(cipher[c]).owner = None
        /\ Removed(cipher[c]).folder = None /\ Removed(cipher[c]).updated = cipher[c].updated
    BY <2>1 DEF CipherRow, Removed, NoCipher
  <2>3. QED BY <1>1, <2>2 DEF Owned
<1>4. cipher' \in [Cipher -> CipherRow]
  <2>1. \A c \in Cipher : cipher'[c] \in CipherRow
    BY <1>3 DEF Typed, TypeOK
  <2>2. QED BY <1>1, <2>1
<1>5. Tabled
  <2>1. \A c \in Cipher : cipher'[c].owner # None => cipher'[c].body \in 1..writes'
    BY <1>1, <1>3 DEF Typed, TypeOK, counters
  <2>2. QED BY <1>1, <1>2, <1>4, <2>1 DEF Typed, TypeOK, Tabled
<1>6. QED BY <1>1, <1>2, <1>3, <1>5

\* Dates without their fraction.
LEMMA WholeSeconds ==
  ASSUME NEW t \in Nat
  PROVE  Seconds(t) \in Nat /\ Seconds(t) =< t /\ t < Seconds(t) + Second
<1>1. Second \in Nat /\ Second > 0
  BY VaultAssumption
<1>2. t % Second \in 0..(Second - 1) /\ t % Second =< t
  BY <1>1
<1>3. QED BY <1>1, <1>2 DEF Seconds

LEMMA TouchRevisionDoes ==
  ASSUME Typed, NEW r \in Request, TouchRevision(r)
  PROVE  /\ Tabled /\ UNCHANGED <<cipher, folder, copy>>
         /\ req[r].pc = "touch" /\ req[r].op \notin FolderOps \ {"import"}
         /\ Writing(req[r]) /\ rev'[Holder(r)] = Seconds(now)
         /\ \A u \in User : u # Holder(r) => rev'[u] = rev[u]
         /\ \/ Ends(r)
            \/ \E q : /\ Moves(r, q) /\ Kin(q, req[r]) /\ q.pc = "check" /\ q.op = "import"
            \/ \E q : Moves(r, q) /\ Twin(q, req[r]) /\ q.pc = "answer"
<1>1. /\ req[r] \in RequestState /\ Placed(req[r], writes) /\ Holder(r) \in User
      /\ req[r].pc = "touch" /\ UNCHANGED <<cipher, folder, copy>>
      /\ req[r].op \notin FolderOps \ {"import"} /\ Writing(req[r]) /\ now \in Nat
      /\ rev' = [rev EXCEPT ![Holder(r)] = Seconds(now)]
  BY Facts DEF TouchRevision, Touched, At, Placed, Stationed, Typed, TypeOK, Writing
<1>2. /\ rev' \in [User -> Nat] /\ rev'[Holder(r)] = Seconds(now)
      /\ \A u \in User : u # Holder(r) => rev'[u] = rev[u]
  BY <1>1, WholeSeconds DEF Typed, TypeOK
<1>3. ASSUME now' = now, writes' = writes, quiet' \in Nat
      PROVE  Tabled
  BY <1>1, <1>2, <1>3 DEF Tabled, Typed, TypeOK
<1>4. CASE req[r].left > 1
  <2> DEFINE n == req[r].left - 1
  <2> DEFINE q == [req[r] EXCEPT !.pc = "check", !.left = n]
  <2>1. n \in Nat
    BY <1>1, <1>4 DEF RequestState
  <2>2. req' = [req EXCEPT ![r] = q] /\ UNCHANGED counters
    BY <1>1, <1>4 DEF TouchRevision
  <2> HIDE DEF n
  <2>3. q \in RequestState
    BY <1>1, <2>1 DEF RequestState, Pc
  <2>4. Kin(q, req[r]) /\ q.pc = "check" /\ q.body = req[r].body
    BY <1>1 DEF RequestState, Kin
  <2> HIDE DEF q
  <2>5. Placed(q, writes) /\ q.op = "import"
    BY <1>1, <1>4, <2>4 DEF Placed, Stationed, Kin, Updates
  <2>6. Moves(r, q) /\ quiet' \in Nat /\ now' = now /\ writes' = writes
    BY <2>2, <2>3, <2>5, Moving DEF Moves
  <2>7. QED BY <1>1, <1>2, <1>3, <1>4, <2>4, <2>5, <2>6
<1>5. CASE req[r].left =< 1 /\ (req[r].cipher = None \/ req[r].op = "import")
  <2>1. Ends(r) /\ quiet' \in Nat /\ now' = now /\ writes' = writes
    BY <1>1, <1>5, Ending DEF TouchRevision, Ends, RequestState
  <2>2. QED BY <1>1, <1>2, <1>3, <2>1
<1>6. CASE req[r].left =< 1 /\ ~(req[r].cipher = None \/ req[r].op = "import")
  <2>1. Goto(r, "answer") /\ UNCHANGED counters
    BY <1>1, <1>6 DEF TouchRevision, RequestState
  <2>2. Stationed([req[r] EXCEPT !.pc = "answer"])
    BY <1>1 DEF Stationed, RequestState, Updates, FolderOps, Placed
  <2>3. (\E q : Moves(r, q) /\ Twin(q, req[r]) /\ q.pc = "answer") /\ quiet' \in Nat
    BY <1>1, <1>6, <2>1, <2>2, Going DEF Pc, At, RequestState
  <2>4. QED BY <1>1, <1>2, <1>3, <2>1, <2>3 DEF counters
<1>7. req[r].left \in Nat
  BY <1>1 DEF RequestState
<1>8. QED BY <1>4, <1>5, <1>6, <1>7

LEMMA AnswerDoes ==
  ASSUME Typed, NEW r \in Request, Answer(r)
  PROVE  /\ Tabled /\ UNCHANGED <<cipher, folder, rev>> /\ Ends(r)
         /\ req[r].pc = "answer" /\ Writing(req[r])
         /\ \A k \in Client : copy'[k].folder = copy[k].folder /\ copy'[k].rev = copy[k].rev
         /\ \A k \in Client, c \in Cipher :
              \/ copy'[k].cipher[c] = copy[k].cipher[c]
              \/ copy'[k].cipher[c] = cipher[c] /\ cipher[c].owner = Account[k]
<1> DEFINE c == req[r].cipher  k == req[r].client
<1>1. /\ req[r].pc = "answer" /\ UNCHANGED <<cipher, folder, rev>>
      /\ c \in Cipher /\ k \in Client /\ Writing(req[r])
      /\ cipher[c] \in CipherRow /\ copy[k] \in Copy
  BY Facts DEF Answer, At, Placed, Stationed, Writing, tables, Typed, TypeOK
<1>2. Ends(r) /\ now' = now /\ writes' = writes /\ quiet' \in Nat
  BY Ending DEF Answer, Ends
<1>3. CASE copy' = copy
  <2>1. Tabled
    BY <1>1, <1>2, <1>3, SameTables DEF tables
  <2>2. QED BY <1>1, <1>2, <1>3, <2>1
<1>4. CASE copy' # copy
  <2>1. copy' = [copy EXCEPT ![k].cipher[c] = cipher[c]] /\ cipher[c].owner = Account[k]
    BY <1>1, <1>4 DEF Answer, Owned, Holder
  <2> DEFINE held == [copy[k] EXCEPT !.cipher[c] = cipher[c]]
  <2>2. copy' = [copy EXCEPT ![k] = held]
    BY <2>1
  <2>3. /\ held \in Copy /\ held.folder = copy[k].folder /\ held.rev = copy[k].rev
        /\ held.cipher[c] = cipher[c]
        /\ \A d \in Cipher : d # c => held.cipher[d] = copy[k].cipher[d]
    BY <1>1 DEF Copy
  <2> HIDE DEF held
  <2>4. copy' \in [Client -> Copy] /\ copy'[k] = held
        /\ \A j \in Client : j # k => copy'[j] = copy[j]
    BY <1>1, <2>2, <2>3 DEF Typed, TypeOK
  <2>5. Tabled
    BY <1>1, <1>2, <2>4 DEF Tabled, Typed, TypeOK
  <2>6. QED BY <1>1, <1>2, <2>1, <2>3, <2>4, <2>5
<1>5. QED BY <1>3, <1>4

LEMMA WriteFolderDoes ==
  ASSUME Typed, NEW r \in Request, WriteFolder(r)
  PROVE  /\ Tabled /\ UNCHANGED <<rev, copy>> /\ Ends(r)
         /\ req[r].pc = "write" /\ req[r].op \in {"rename", "deleteFolder"}
         /\ \A c \in Cipher : /\ cipher'[c].owner = cipher[c].owner
                              /\ cipher'[c].body = cipher[c].body
                              /\ cipher'[c].updated = cipher[c].updated
                              /\ cipher'[c].folder \in {None, cipher[c].folder}
         /\ \A f \in Folder : folder'[f].owner # None => folder'[f].owner = folder[f].owner
         /\ \A f \in Folder : folder[f].used => folder'[f].used
         /\ \A f \in Folder : folder'[f].owner # folder[f].owner
                                => \A c \in Cipher : cipher'[c].folder # f
<1> DEFINE f == req[r].folder
<1>1. /\ req[r] \in RequestState /\ req[r].pc = "write" /\ req[r].op \in {"rename", "deleteFolder"}
      /\ UNCHANGED <<rev, copy>> /\ f \in Folder /\ f # None
      /\ folder[f] \in FolderRow /\ \A c \in Cipher : cipher[c] \in CipherRow
      /\ Holder(r) # None
  BY Facts, Absent DEF WriteFolder, At, Placed, Typed, TypeOK
<1>2. Ends(r) /\ now' = now /\ writes' = writes /\ quiet' \in Nat
  BY Ending DEF WriteFolder, Ends
<1>3. CASE ~OwnFolder(Holder(r), f)
  <2>1. folder' = folder /\ cipher' = cipher
    BY <1>3 DEF WriteFolder
  <2>2. Tabled
    BY <1>1, <1>2, <2>1, SameTables DEF tables
  <2>3. QED BY <1>1, <1>2, <2>1, <2>2
<1>4. CASE OwnFolder(Holder(r), f) /\ req[r].op = "rename"
  <2> DEFINE row == [folder[f] EXCEPT !.name = req[r].body]
  <2>1. folder' = [folder EXCEPT ![f] = row] /\ cipher' = cipher
    BY <1>1, <1>4 DEF WriteFolder, Typed, TypeOK
  <2>2. row \in FolderRow /\ row.owner = folder[f].owner /\ row.used = folder[f].used
    BY <1>1 DEF FolderRow, RequestState
  <2> HIDE DEF row
  <2>3. folder' \in [Folder -> FolderRow] /\ folder'[f] = row
        /\ \A g \in Folder : g # f => folder'[g] = folder[g]
    BY <1>1, <2>1, <2>2 DEF Typed, TypeOK
  <2>4. Tabled
    BY <1>1, <1>2, <2>1, <2>3 DEF Tabled, Typed, TypeOK
  <2>5. QED BY <1>1, <1>2, <2>1, <2>2, <2>3, <2>4
<1>5. CASE OwnFolder(Holder(r), f) /\ req[r].op # "rename"
  <2> DEFINE row == [NoFolder EXCEPT !.used = TRUE]
  <2>1. folder' = [folder EXCEPT ![f] = row] /\ cipher' = Unassigned(f)
    BY <1>1, <1>5 DEF WriteFolder, Typed, TypeOK
  <2>2. row \in FolderRow /\ row.owner = None /\ row.used = TRUE
    BY <1>1 DEF FolderRow, NoFolder
  <2> HIDE DEF row
  <2>3. folder' \in [Folder -> FolderRow] /\ folder'[f] = row
        /\ \A g \in Folder : g # f => folder'[g] = folder[g]
    BY <1>1, <2>1, <2>2 DEF Typed, TypeOK
  <2>4. ASSUME NEW c \in Cipher
        PROVE  /\ cipher'[c] \in CipherRow /\ cipher'[c].folder # f
               /\ cipher'[c].owner = cipher[c].owner /\ cipher'[c].body = cipher[c].body
               /\ cipher'[c].updated = cipher[c].updated
               /\ cipher'[c].folder \in {None, cipher[c].folder}
    <3>1. cipher[c] \in CipherRow
      BY <1>1
    <3>2. [cipher[c] EXCEPT !.folder = None] \in CipherRow
      BY <3>1 DEF CipherRow
    <3>3. CASE cipher[c].folder = f
      <4>1. cipher'[c] = [cipher[c] EXCEPT !.folder = None]
        BY <2>1, <3>3 DEF Unassigned
      <4>2. QED BY <1>1, <3>1, <3>2, <4>1 DEF CipherRow
    <3>4. CASE cipher[c].folder # f
      <4>1. cipher'[c] = cipher[c]
        BY <2>1, <3>4 DEF Unassigned
      <4>2. QED BY <3>1, <3>4, <4>1
    <3>5. QED BY <3>3, <3>4
  <2>5. cipher' \in [Cipher -> CipherRow]
    BY <2>1, <2>4 DEF Unassigned
  <2>6. Tabled
    BY <1>1, <1>2, <2>3, <2>4, <2>5 DEF Tabled, Typed, TypeOK
  <2>7. QED BY <1>1, <1>2, <2>2, <2>3, <2>4, <2>6
<1>6. QED BY <1>3, <1>4, <1>5

LEMMA SyncFoldersDoes ==
  ASSUME Typed, NEW r \in Request, SyncFolders(r)
  PROVE  /\ Tabled /\ UNCHANGED <<cipher, folder, rev, copy>>
         /\ req[r].pc = "folders" /\ req[r].op = "sync"
         /\ \E q : /\ Moves(r, q) /\ Kin(q, req[r]) /\ q.pc = "ciphers"
                   /\ q.folders = FoldersOf(Holder(r))
<1> DEFINE q == [req[r] EXCEPT !.pc = "ciphers", !.folders = FoldersOf(Holder(r))]
<1>1. /\ req[r] \in RequestState /\ Placed(req[r], writes)
      /\ req[r].pc = "folders" /\ req[r].op = "sync" /\ UNCHANGED <<cipher, folder, rev, copy>>
      /\ UNCHANGED counters
  BY Facts DEF SyncFolders, At, tables, Placed, Stationed
<1>2. FoldersOf(Holder(r)) \in [Folder -> FolderRow]
  BY RowTypes DEF FoldersOf, Typed, TypeOK
<1>3. q \in RequestState /\ req' = [req EXCEPT ![r] = q]
  BY <1>1, <1>2 DEF RequestState, Pc, SyncFolders
<1>4. /\ Kin(q, req[r]) /\ q.pc = "ciphers" /\ q.folders = FoldersOf(Holder(r))
      /\ q.left = req[r].left
  BY <1>1 DEF RequestState, Kin
<1> HIDE DEF q
<1>5. Placed(q, writes)
  BY <1>1, <1>4 DEF Placed, Stationed, Kin, Updates
<1>6. Moves(r, q) /\ now' \in Nat /\ quiet' \in Nat /\ writes' \in Nat
  BY <1>1, <1>3, <1>5, Moving
<1>7. Tabled
  BY <1>1, <1>6, SameTables DEF tables, Moves
<1>8. QED BY <1>1, <1>4, <1>6, <1>7

LEMMA SyncCiphersDoes ==
  ASSUME Typed, NEW r \in Request, SyncCiphers(r)
  PROVE  /\ Tabled /\ UNCHANGED <<cipher, folder, rev>> /\ Ends(r)
         /\ req[r].pc = "ciphers" /\ req[r].op = "sync" /\ req[r].client \in Client
         /\ copy'[req[r].client].cipher = CiphersOf(Holder(r))
         /\ copy'[req[r].client].folder = req[r].folders
         /\ copy'[req[r].client].rev = req[r].known
         /\ \A k \in Client : k # req[r].client => copy'[k] = copy[k]
<1> DEFINE k == req[r].client
<1> DEFINE held == [cipher |-> CiphersOf(Holder(r)), folder |-> req[r].folders,
                    rev |-> req[r].known]
<1>1. /\ req[r] \in RequestState /\ req[r].pc = "ciphers" /\ req[r].op = "sync" /\ k \in Client
      /\ UNCHANGED <<cipher, folder, rev>> /\ copy' = [copy EXCEPT ![k] = held]
  BY Facts DEF SyncCiphers, At, tables, Placed, Stationed
<1>2. CiphersOf(Holder(r)) \in [Cipher -> CipherRow]
  BY RowTypes DEF CiphersOf, Typed, TypeOK
<1>3. held \in Copy
  BY <1>1, <1>2 DEF Copy, RequestState
<1>4. held.cipher = CiphersOf(Holder(r)) /\ held.folder = req[r].folders
      /\ held.rev = req[r].known
  OBVIOUS
<1> HIDE DEF held
<1>5. copy' \in [Client -> Copy] /\ copy'[k] = held /\ \A j \in Client : j # k => copy'[j] = copy[j]
  BY <1>1, <1>3 DEF Typed, TypeOK
<1>6. Ends(r) /\ now' = now /\ writes' = writes /\ quiet' \in Nat
  BY Ending DEF SyncCiphers, Ends
<1>7. Tabled
  BY <1>1, <1>5, <1>6 DEF Tabled, Typed, TypeOK
<1>8. QED BY <1>1, <1>4, <1>5, <1>6, <1>7

LEMMA AbortDoes ==
  ASSUME Typed, NEW r \in Request, Abort(r)
  PROVE  /\ Tabled /\ UNCHANGED <<cipher, folder, rev, copy>> /\ Ends(r)
         /\ "abort" \in Faults
<1>1. /\ Ends(r) /\ now' = now /\ writes' = writes /\ quiet' \in Nat
      /\ UNCHANGED <<cipher, folder, rev, copy>> /\ "abort" \in Faults
  BY Ending DEF Abort, Ends, tables
<1>2. QED BY <1>1, SameTables DEF tables

LEMMA AdmissionDoes ==
  ASSUME Typed, NEW r \in Request, NEW q, Admission(r, q)
  PROVE  Became(r, q) /\ Tabled
<1>0. Placed(q, writes')
  BY Zenon DEF Admission
<1>1. writes \in Nat /\ writes' = writes + 1 /\ q \in RequestState
      /\ req' = [req EXCEPT ![r] = q] /\ writes' \in Nat /\ writes =< writes'
  BY DEF Admission, Typed, TypeOK
<1>2. Became(r, q)
  BY <1>0, <1>1, Moved DEF Became
<1>3. \A c \in Cipher : cipher'[c].owner # None => cipher'[c].body \in 1..writes'
  BY <1>1 DEF Admission, Typed, TypeOK
<1>4. QED BY <1>1, <1>2, <1>3 DEF Admission, Tabled, Typed, TypeOK

LEMMA CheckRevisionDoes ==
  ASSUME Typed, NEW r \in Request, NEW k \in Client, CheckRevision(r, k)
  PROVE  /\ Tabled /\ UNCHANGED <<cipher, folder, rev, copy>>
         /\ req[r].pc = "idle"
         /\ \E q : /\ Moves(r, q) /\ q.pc = "folders" /\ q.op = "sync" /\ q.client = k
                   /\ q.known = rev[Account[k]] /\ q.folders = [f \in Folder |-> NoFolder]
<1>1. PICK q \in RequestState :
        /\ req' = [req EXCEPT ![r] = q] /\ Placed(q, writes)
        /\ UNCHANGED <<cipher, folder, rev, copy, now, quiet, writes>>
        /\ req[r].pc = "idle"
        /\ q.pc = "folders" /\ q.op = "sync" /\ q.client = k /\ q.known = rev[Account[k]]
        /\ q.folders = [f \in Folder |-> NoFolder]
  BY ChecksRevision
<1>2. Moves(r, q) /\ now' \in Nat /\ quiet' \in Nat /\ writes' \in Nat
  BY <1>1, Moving DEF counters
<1>3. Tabled
  BY <1>1, <1>2, SameTables DEF tables
<1>4. QED BY <1>1, <1>2, <1>3

-----------------------------------------------------------------------------
(* The tables and the requests keep their types.                              *)

LEMMA TypedInit == Init => Typed
<1> SUFFICES ASSUME Init PROVE Typed
  OBVIOUS
<1>1. Idle \in RequestState /\ Placed(Idle, 0) /\ NoCipher \in CipherRow /\ NoFolder \in FolderRow
      /\ Second \in Nat /\ Gap \in Nat
  BY IdleTyped, RowTypes, VaultAssumption
<1>2. /\ cipher \in [Cipher -> CipherRow] /\ folder \in [Folder -> FolderRow]
      /\ rev \in [User -> Nat] /\ req \in [Request -> RequestState]
      /\ now \in Nat /\ quiet = 0 /\ writes = 0
  BY <1>1 DEF Init
<1>3. [cipher |-> cipher, folder |-> folder, rev |-> 0] \in Copy
  BY <1>2 DEF Copy
<1>4. copy \in [Client -> Copy]
  BY <1>3 DEF Init
<1>5. \A c \in Cipher : cipher[c].owner = None
  BY DEF Init, NoCipher
<1>6. \A r \in Request : Placed(req[r], writes)
  BY <1>1, <1>2 DEF Init
<1>7. QED BY <1>2, <1>4, <1>5, <1>6 DEF Typed, TypeOK

\* Next to nothing happens when only time passes.
LEMMA TickDoes ==
  ASSUME Typed, Tick
  PROVE  /\ Typed' /\ now' = now + 1 /\ UNCHANGED <<cipher, folder, rev, copy, req, quiet, writes>>
<1>1. now' = now + 1 /\ UNCHANGED <<cipher, folder, rev, copy, req, quiet, writes>>
      /\ now \in Nat
  BY DEF Tick, tables, Typed, TypeOK
<1>2. QED BY <1>1 DEF Typed, TypeOK

LEMMA TypedStep == Typed /\ [Next]_vars => Typed'
<1> SUFFICES ASSUME Typed, [Next]_vars PROVE Typed'
  OBVIOUS
<1>1. CASE UNCHANGED vars
  BY <1>1 DEF vars, Typed, TypeOK
<1>2. CASE Tick
  BY <1>2, TickDoes
<1>3. ASSUME NEW r \in Request, Arrive(r)
      PROVE  Typed'
  <2>1. CASE \E q : Admission(r, q)
    BY <2>1, AdmissionDoes, TypedAgain
  <2>2. CASE \E k \in Client : CheckRevision(r, k)
    BY <2>2, CheckRevisionDoes, TypedAgain DEF Moves
  <2>3. QED BY <1>3, <2>1, <2>2, Arrived
<1>4. ASSUME NEW r \in Request, Abort(r)
      PROVE  Typed'
  BY <1>4, AbortDoes, TypedAgain DEF Ends
<1>5. ASSUME NEW r \in Request, Advance(r)
      PROVE  Typed'
  <2>1. \/ InsertFolder(r) \/ CheckFolder(r) \/ InsertCipher(r) \/ ReadCipher(r)
        \/ WriteCipher(r) \/ SetColumn(r) \/ DeleteTrash(r) \/ TouchRevision(r)
        => Typed'
    BY InsertFolderDoes, CheckFolderDoes, InsertCipherDoes, ReadCipherDoes, WriteCipherDoes,
       SetColumnDoes, DeleteTrashDoes, TouchRevisionDoes, TypedAgain DEF Ends, Moves
  <2>2. (\E c \in Cipher : WriteNext(r, c)) => Typed'
    BY WriteNextDoes, TypedAgain DEF Ends, Moves
  <2>3. \/ Answer(r) \/ WriteFolder(r) \/ SyncFolders(r) \/ SyncCiphers(r)
        => Typed'
    BY AnswerDoes, WriteFolderDoes, SyncFoldersDoes, SyncCiphersDoes, TypedAgain DEF Ends, Moves
  <2>4. QED BY <1>5, <2>1, <2>2, <2>3 DEF Advance
<1>6. QED BY <1>1, <1>2, <1>3, <1>4, <1>5 DEF Next

\* TypeOK: every table, copy and request has its type, and each stored payload is of a write that
\* was made; with it, that a request is only at the statements of its own handler.
THEOREM CiphersTyped == Spec => []TypeOK
<1>1. Spec => []Typed
  BY TypedInit, TypedStep, PTL DEF Spec
<1>2. Typed => TypeOK
  BY DEF Typed
<1>3. QED BY <1>1, <1>2, PTL

-----------------------------------------------------------------------------
(* Folders.                                                                   *)

\* No folder is used again, and none changes hands.
FoldersKept == \A f \in Folder : folder[f].used =>
                 folder'[f].used /\ folder'[f].owner \in {None, folder[f].owner}

LEMMA FolderAgain ==
  ASSUME FolderInv, NEW r \in Request, NEW q, Became(r, q), Tabled, FoldersKept, Checked(q)',
         \A f \in Folder : folder'[f].owner # None => folder'[f].used,
         FoldersResolve'
  PROVE  FolderInv'
<1>1. Typed'
  BY TypedAgain
<1>2. ASSUME NEW s \in Request PROVE Checked(req[s])'
  <2>1. PICK p : p = req'[s]
    OBVIOUS
  <2>2. Checked(p)'
    <3>1. CASE s = r
      BY <2>1, <3>1 DEF Became
    <3>2. CASE s # r
      <4>1. p = req[s] /\ p \in RequestState /\ Checked(p)
        BY <2>1, <3>2, Facts DEF Became, FolderInv
      <4>2. QED BY <4>1 DEF Checked, FoldersKept, RequestState
    <3>3. QED BY <3>1, <3>2
  <2>3. QED BY <2>1, <2>2 DEF Checked
<1>3. QED BY <1>1, <1>2 DEF FolderInv

LEMMA SameFolders ==
  ASSUME FolderInv, folder' = folder
  PROVE  FoldersKept /\ \A f \in Folder : folder'[f].owner # None => folder'[f].used
BY DEF FolderInv, FoldersKept

\* A cipher that is written is in a folder of its owner.
LEMMA ResolvesRow ==
  ASSUME FolderInv, NEW c \in Cipher, NEW row \in CipherRow, Overwritten(c, row), folder' = folder,
         row.folder # None => row.owner # None /\ folder[row.folder].owner = row.owner
  PROVE  FoldersResolve'
BY DEF FoldersResolve, FolderInv, Overwritten

LEMMA SameResolve ==
  ASSUME FolderInv, folder' = folder, cipher' = cipher
  PROVE  FoldersResolve'
BY DEF FolderInv, FoldersResolve

\* A request that does not come to a write of a whole row.
LEMMA Unchecked ==
  ASSUME NEW q, q.pc # "write" \/ q.op \notin Updates \cup {"create", "import"}
  PROVE  Checked(q)'
BY DEF Checked

LEMMA FolderInit == Init => FolderInv
<1> SUFFICES ASSUME Init PROVE FolderInv
  OBVIOUS
<1>1. Typed
  BY TypedInit
<1>2. (\A f \in Folder : folder[f].owner = None) /\ (\A c \in Cipher : cipher[c].folder = None)
      /\ \A r \in Request : req[r].pc = "idle"
  BY DEF Init, NoFolder, NoCipher, Idle
<1>3. QED BY <1>1, <1>2 DEF FolderInv, Checked, FoldersResolve

LEMMA IdleUnchecked == Checked(Idle)'
BY Unchecked DEF Idle

LEMMA FolderArrive ==
  ASSUME FolderInv, NEW r \in Request, Arrive(r)
  PROVE  FolderInv'
<1>1. Typed
  BY DEF FolderInv
<1>2. ASSUME NEW q, Admission(r, q) PROVE FolderInv'
  <2>1. Became(r, q) /\ Tabled /\ folder' = folder /\ cipher' = cipher
    BY <1>1, <1>2, AdmissionDoes DEF Admission
  <2>2. Checked(q)'
    BY <1>2, Unchecked DEF Admission, Updates
  <2>3. QED BY <2>1, <2>2, FolderAgain, SameFolders, SameResolve
<1>3. ASSUME NEW k \in Client, CheckRevision(r, k) PROVE FolderInv'
  <2>1. PICK q : Moves(r, q) /\ q.pc = "folders"
    BY <1>1, <1>3, CheckRevisionDoes
  <2>2. Became(r, q) /\ Tabled /\ folder' = folder /\ cipher' = cipher
    BY <1>1, <1>3, <2>1, CheckRevisionDoes DEF Moves
  <2>3. Checked(q)'
    BY <2>1, Unchecked
  <2>4. QED BY <2>2, <2>3, FolderAgain, SameFolders, SameResolve
<1>4. QED BY <1>1, <1>2, <1>3, Arrived

\* Neither the folders nor the ciphers change, and the request ends or goes on unchecked.
LEMMA FolderQuiet ==
  ASSUME FolderInv, NEW r \in Request, Tabled, folder' = folder, cipher' = cipher,
         \/ Ends(r)
         \/ \E q : Moves(r, q) /\ (q.pc # "write" \/ q.op \notin Updates \cup {"create", "import"})
  PROVE  FolderInv'
<1>1. CASE Ends(r)
  BY <1>1, IdleUnchecked, FolderAgain, SameFolders, SameResolve DEF Ends
<1>2. CASE \E q : Moves(r, q) /\ (q.pc # "write" \/ q.op \notin Updates \cup {"create", "import"})
  <2>1. PICK q : Moves(r, q) /\ (q.pc # "write" \/ q.op \notin Updates \cup {"create", "import"})
    BY <1>2
  <2>2. QED BY <2>1, Unchecked, FolderAgain, SameFolders, SameResolve DEF Moves
<1>3. QED BY <1>1, <1>2

\* A cipher is written, and the request goes on unchecked.
LEMMA FolderWritten ==
  ASSUME FolderInv, NEW r \in Request, Tabled, folder' = folder,
         NEW c \in Cipher, NEW row \in CipherRow, Overwritten(c, row),
         row.folder # None => row.owner # None /\ folder[row.folder].owner = row.owner,
         NEW q, Moves(r, q), q.pc # "write" \/ q.op \notin Updates \cup {"create", "import"}
  PROVE  FolderInv'
BY Unchecked, FolderAgain, SameFolders, ResolvesRow DEF Moves

LEMMA FolderInsertFolder ==
  ASSUME FolderInv, NEW r \in Request, InsertFolder(r)
  PROVE  FolderInv'
<1>1. Typed
  BY DEF FolderInv
<1>2. PICK f \in Folder :
        /\ ~folder[f].used
        /\ folder' = [folder EXCEPT ![f] = [owner |-> Holder(r), name |-> req[r].body,
                                             used |-> TRUE]]
        /\ Ends(r) \/ \E q : Moves(r, q) /\ Kin(q, req[r]) /\ q.pc = "check" /\ req[r].op = "import"
  BY <1>1, InsertFolderDoes
<1>3. Tabled /\ cipher' = cipher
  BY <1>1, InsertFolderDoes
<1>4. folder'[f].used /\ \A g \in Folder : g # f => folder'[g] = folder[g]
  BY <1>1, <1>2 DEF Typed, TypeOK
<1>5. FoldersKept /\ \A g \in Folder : folder'[g].owner # None => folder'[g].used
  BY <1>2, <1>4 DEF FoldersKept, FolderInv
<1>6. FoldersResolve'
  <2>1. ASSUME NEW c \in Cipher, cipher[c].folder # None
        PROVE  cipher[c].folder \in Folder /\ cipher[c].folder # f
    BY <1>1, <1>2, <2>1 DEF FolderInv, FoldersResolve, Typed, TypeOK, CipherRow
  <2>2. QED BY <1>3, <1>4, <2>1 DEF FolderInv, FoldersResolve
<1>7. CASE Ends(r)
  BY <1>3, <1>5, <1>6, <1>7, IdleUnchecked, FolderAgain DEF Ends
<1>8. CASE \E q : Moves(r, q) /\ Kin(q, req[r]) /\ q.pc = "check" /\ req[r].op = "import"
  <2>1. PICK q : Moves(r, q) /\ q.pc = "check"
    BY <1>8
  <2>2. QED BY <1>3, <1>5, <1>6, <2>1, Unchecked, FolderAgain DEF Moves
<1>9. QED BY <1>2, <1>7, <1>8

\* After the check the folder is the account's.
LEMMA FolderCheckFolder ==
  ASSUME FolderInv, NEW r \in Request, CheckFolder(r)
  PROVE  FolderInv'
<1>1. Typed
  BY DEF FolderInv
<1>2. Tabled /\ folder' = folder /\ cipher' = cipher /\ req[r].pc = "check"
  BY <1>1, CheckFolderDoes
<1>3. CASE Ends(r)
  BY <1>2, <1>3, FolderQuiet
<1>4. CASE \E q : Moves(r, q) /\ Twin(q, req[r]) /\ q.pc = "write" /\ FolderFound(r)
  <2>1. PICK q : Moves(r, q) /\ Twin(q, req[r]) /\ FolderFound(r)
    BY <1>4
  <2>2. Holder(r) # None /\ Holder(r) = Account[q.client] /\ q.folder = req[r].folder
        /\ req[r].folder \in Folder \cup {None}
    BY <1>1, <1>2, <2>1, Facts DEF Twin, Kin, Holder, RequestState
  <2>3. Checked(q)'
    BY <1>2, <2>1, <2>2 DEF Checked, FolderFound, OwnFolder, FolderInv
  <2>4. QED BY <1>2, <2>1, <2>3, FolderAgain, SameFolders, SameResolve DEF Moves
<1>5. QED BY <1>1, <1>3, <1>4, CheckFolderDoes

\* A folder that still exists at the write is the account's.
LEMMA StillOwn ==
  ASSUME FolderInv, NEW r \in Request, req[r].pc = "write",
         req[r].op \in Updates \cup {"create", "import"}, FolderExists(r), req[r].folder # None
  PROVE  folder[req[r].folder].owner = Holder(r) /\ Holder(r) # None
BY Facts DEF FolderInv, Checked, FolderExists, Holder

LEMMA FolderInsertCipher ==
  ASSUME FolderInv, NEW r \in Request, InsertCipher(r)
  PROVE  FolderInv'
<1>1. Typed
  BY DEF FolderInv
<1>2. Tabled /\ folder' = folder /\ req[r].pc = "write" /\ req[r].op \in {"create", "import"}
  BY <1>1, InsertCipherDoes
<1>3. CASE Ends(r) /\ cipher' = cipher
  BY <1>2, <1>3, FolderQuiet
<1>4. CASE ~(Ends(r) /\ cipher' = cipher)
  <2>1. PICK c \in Cipher, row \in CipherRow, q \in RequestState :
          /\ Overwritten(c, row) /\ row.owner = Holder(r) /\ row.folder = req[r].folder
          /\ FolderExists(r) /\ Moves(r, q) /\ q.pc = "touch"
    BY <1>1, <1>4, InsertCipherDoes
  <2>2. row.folder # None => row.owner # None /\ folder[row.folder].owner = row.owner
    BY <1>2, <2>1, StillOwn
  <2>3. QED BY <1>2, <2>1, <2>2, FolderWritten
<1>5. QED BY <1>3, <1>4

LEMMA FolderWriteCipher ==
  ASSUME FolderInv, NEW r \in Request, WriteCipher(r)
  PROVE  FolderInv'
<1>1. Typed
  BY DEF FolderInv
<1>2. Tabled /\ folder' = folder /\ req[r].pc = "write" /\ req[r].op \in Updates
      /\ req[r].cipher \in Cipher
  BY <1>1, WriteCipherDoes, Facts DEF Placed
<1>3. CASE Ends(r) /\ cipher' = cipher
  BY <1>2, <1>3, FolderQuiet
<1>4. CASE ~(Ends(r) /\ cipher' = cipher)
  <2>1. PICK row \in CipherRow, q \in RequestState :
          /\ Overwritten(req[r].cipher, row) /\ row.owner = Holder(r)
          /\ row.folder = req[r].folder
          /\ FolderExists(r) /\ Moves(r, q) /\ q.pc = "touch"
    BY <1>1, <1>4, WriteCipherDoes
  <2>2. row.folder # None => row.owner # None /\ folder[row.folder].owner = row.owner
    BY <1>2, <2>1, StillOwn
  <2>3. QED BY <1>2, <2>1, <2>2, FolderWritten
<1>5. QED BY <1>3, <1>4

LEMMA FolderSetColumn ==
  ASSUME FolderInv, NEW r \in Request, SetColumn(r)
  PROVE  FolderInv'
<1>1. Typed
  BY DEF FolderInv
<1>2. Tabled /\ folder' = folder /\ req[r].op \in {"favorite", "trash"}
      /\ req[r].cipher \in Cipher
  BY <1>1, SetColumnDoes, Facts DEF Placed
<1>3. CASE Ends(r) /\ cipher' = cipher
  BY <1>2, <1>3, FolderQuiet
<1>4. CASE ~(Ends(r) /\ cipher' = cipher)
  <2>1. PICK row \in CipherRow, q \in RequestState :
          /\ Overwritten(req[r].cipher, row) /\ row.owner = Holder(r)
          /\ cipher[req[r].cipher].owner = Holder(r)
          /\ row.folder = cipher[req[r].cipher].folder
          /\ Moves(r, q) /\ q.pc = "touch"
    BY <1>1, <1>4, SetColumnDoes
  <2>2. row.folder # None => row.owner # None /\ folder[row.folder].owner = row.owner
    BY <1>2, <2>1 DEF FolderInv, FoldersResolve
  <2>3. QED BY <1>2, <2>1, <2>2, FolderWritten
<1>5. QED BY <1>3, <1>4

LEMMA FolderWriteNext ==
  ASSUME FolderInv, NEW r \in Request, NEW c \in Cipher, WriteNext(r, c)
  PROVE  FolderInv'
<1>1. Typed
  BY DEF FolderInv
<1>2. Tabled /\ folder' = folder /\ req[r].op \in {"restore", "delete"}
  BY <1>1, WriteNextDoes
<1>3. CASE Ends(r)
  BY <1>1, <1>2, <1>3, FolderQuiet, WriteNextDoes DEF Ends, Moves, Became, Idle
<1>4. CASE \E q : Moves(r, q) /\ Kin(q, req[r])
  <2>1. PICK q : Moves(r, q) /\ Kin(q, req[r])
    BY <1>4
  <2>2. q.op \notin Updates \cup {"create", "import"}
    BY <1>2, <2>1 DEF Kin, Updates
  <2>3. CASE cipher' = cipher
    BY <1>2, <2>1, <2>2, <2>3, FolderQuiet
  <2>4. CASE cipher' # cipher
    <3>1. PICK row \in CipherRow :
            /\ cipher[c].owner = Holder(r) /\ Overwritten(c, row)
            /\ \/ row.owner = None /\ row.folder = None
               \/ row.owner = Holder(r) /\ row.folder = cipher[c].folder
      BY <1>1, <2>4, WriteNextDoes
    <3>2. row.folder # None => row.owner # None /\ folder[row.folder].owner = row.owner
      BY <3>1 DEF FolderInv, FoldersResolve
    <3>3. QED BY <1>2, <2>1, <2>2, <3>1, <3>2, FolderWritten
  <2>5. QED BY <2>3, <2>4
<1>5. QED BY <1>1, <1>3, <1>4, WriteNextDoes

LEMMA FolderDeleteTrash ==
  ASSUME FolderInv, NEW r \in Request, DeleteTrash(r)
  PROVE  FolderInv'
<1>1. Typed
  BY DEF FolderInv
<1>2. /\ Tabled /\ folder' = folder
      /\ \A c \in Cipher : cipher'[c] = cipher[c] \/ cipher'[c].folder = None
      /\ \E q : Moves(r, q) /\ q.pc = "touch"
  BY <1>1, DeleteTrashDoes
<1>3. FoldersResolve'
  BY <1>2 DEF FolderInv, FoldersResolve
<1>4. PICK q : Moves(r, q) /\ q.pc = "touch"
  BY <1>2
<1>5. QED BY <1>2, <1>3, <1>4, Unchecked, FolderAgain, SameFolders DEF Moves

\* A folder that goes leaves no cipher behind.
LEMMA FolderWriteFolder ==
  ASSUME FolderInv, NEW r \in Request, WriteFolder(r)
  PROVE  FolderInv'
<1>1. Typed
  BY DEF FolderInv
<1>2. /\ Tabled /\ Ends(r)
      /\ \A c \in Cipher : /\ cipher'[c].owner = cipher[c].owner
                           /\ cipher'[c].folder \in {None, cipher[c].folder}
      /\ \A f \in Folder : folder'[f].owner # None => folder'[f].owner = folder[f].owner
      /\ \A f \in Folder : folder[f].used => folder'[f].used
      /\ \A f \in Folder : folder'[f].owner # folder[f].owner
                             => \A c \in Cipher : cipher'[c].folder # f
  BY <1>1, WriteFolderDoes
<1>3. FoldersKept /\ \A f \in Folder : folder'[f].owner # None => folder'[f].used
  BY <1>2 DEF FolderInv, FoldersKept
<1>4. ASSUME NEW c \in Cipher, cipher'[c].folder # None
      PROVE  cipher'[c].owner # None /\ folder'[cipher'[c].folder].owner = cipher'[c].owner
  <2>1. cipher'[c].folder = cipher[c].folder /\ cipher[c].folder \in Folder
    BY <1>1, <1>2, <1>4 DEF Typed, TypeOK, CipherRow
  <2>2. cipher[c].owner # None /\ folder[cipher[c].folder].owner = cipher[c].owner
    BY <1>4, <2>1 DEF FolderInv, FoldersResolve
  <2>3. QED BY <1>2, <2>1, <2>2
<1>5. FoldersResolve'
  BY <1>4 DEF FoldersResolve
<1>6. QED BY <1>2, <1>3, <1>5, IdleUnchecked, FolderAgain DEF Ends

LEMMA FolderStep == FolderInv /\ [Next]_vars => FolderInv'
<1> SUFFICES ASSUME FolderInv, [Next]_vars PROVE FolderInv'
  OBVIOUS
<1>1. Typed
  BY DEF FolderInv
<1>2. CASE UNCHANGED vars
  BY <1>1, <1>2, TypedStep DEF vars, FolderInv, Checked, FoldersResolve
<1>3. CASE Tick
  BY <1>1, <1>3, TickDoes DEF FolderInv, Checked, FoldersResolve
<1>4. ASSUME NEW r \in Request, Abort(r)
      PROVE  FolderInv'
  BY <1>1, <1>4, AbortDoes, FolderQuiet
<1>5. ASSUME NEW r \in Request, Advance(r)
      PROVE  FolderInv'
  <2>1. \/ InsertFolder(r) \/ CheckFolder(r) \/ InsertCipher(r) \/ WriteCipher(r) \/ SetColumn(r)
        \/ (\E c \in Cipher : WriteNext(r, c)) \/ DeleteTrash(r) \/ WriteFolder(r)
        => FolderInv'
    BY FolderInsertFolder, FolderCheckFolder, FolderInsertCipher, FolderWriteCipher,
       FolderSetColumn, FolderWriteNext, FolderDeleteTrash, FolderWriteFolder
  <2>2. ReadCipher(r) => FolderInv'
    <3> SUFFICES ASSUME ReadCipher(r) PROVE FolderInv'
      OBVIOUS
    <3>1. Tabled /\ folder' = folder /\ cipher' = cipher
          /\ (Ends(r) \/ \E q : Moves(r, q) /\ q.pc = "check")
      BY <1>1, ReadCipherDoes
    <3>2. QED BY <3>1, FolderQuiet
  <2>3. TouchRevision(r) => FolderInv'
    <3> SUFFICES ASSUME TouchRevision(r) PROVE FolderInv'
      OBVIOUS
    <3>1. Tabled /\ folder' = folder /\ cipher' = cipher
          /\ (Ends(r) \/ \E q : Moves(r, q) /\ q.pc \in {"check", "answer"})
      BY <1>1, TouchRevisionDoes
    <3>2. QED BY <3>1, FolderQuiet
  <2>4. Answer(r) \/ SyncCiphers(r) => FolderInv'
    BY <1>1, AnswerDoes, SyncCiphersDoes, FolderQuiet
  <2>5. SyncFolders(r) => FolderInv'
    <3> SUFFICES ASSUME SyncFolders(r) PROVE FolderInv'
      OBVIOUS
    <3>1. Tabled /\ folder' = folder /\ cipher' = cipher
          /\ \E q : Moves(r, q) /\ q.pc = "ciphers"
      BY <1>1, SyncFoldersDoes
    <3>2. QED BY <3>1, FolderQuiet
  <2>6. QED BY <1>5, <2>1, <2>2, <2>3, <2>4, <2>5 DEF Advance
<1>6. QED BY <1>2, <1>3, <1>4, <1>5, FolderArrive DEF Next

\* FoldersResolve: whatever overlaps, fails or is aborted, a cipher in a folder is in a folder of its
\* own account that exists.  A folder can go between the check and the write, but its identifier is
\* never given to another account, so the foreign key alone tells a stale check.
THEOREM FoldersSafe == Spec => []FoldersResolve
<1>1. Spec => []FolderInv
  BY FolderInit, FolderStep, PTL DEF Spec
<1>2. FolderInv => FoldersResolve
  BY DEF FolderInv
<1>3. QED BY <1>1, <1>2, PTL

-----------------------------------------------------------------------------
(* What any statement does to the ciphers, the copies and its request.        *)

\* A cipher is new, removed, written by a request that had it ahead, or loses its folder.
RowStep(r, c) ==
  \/ cipher'[c] = cipher[c]
  \/ /\ Writing(req[r])
     /\ \/ cipher[c] = NoCipher /\ cipher'[c].owner = Holder(r) /\ cipher'[c].updated = now
        \/ /\ cipher[c].owner = Holder(r) /\ cipher'[c].owner = None
           /\ cipher'[c].updated = cipher[c].updated
        \/ /\ cipher[c].owner = Holder(r) /\ cipher'[c].owner = Holder(r)
           /\ cipher'[c].updated = now /\ c \in Ahead(req[r])
        \/ /\ req[r].op \in FolderOps /\ cipher'[c].owner = cipher[c].owner
           /\ cipher'[c].body = cipher[c].body /\ cipher'[c].updated = cipher[c].updated

\* The request ends, or goes on with less ahead and what it has read.
Progress(r, q) ==
  /\ Became(r, q) /\ now' = now /\ writes' = writes
  /\ \/ q = Idle /\ quiet' = IF req[r].op = "sync" THEN quiet ELSE now
     \/ /\ quiet' = quiet /\ Kin(q, req[r]) /\ q.pc \notin {"idle", "read"}
        /\ Ahead(q) \subseteq Ahead(req[r])
        /\ \A c \in Ahead(q) : cipher'[c] = cipher[c]
        /\ q.op \in Updates => q.cipher = req[r].cipher
        /\ q.op \in Updates /\ q.pc = "check" => ~Stale(r) /\ q.body = NewBody(r)
        /\ q.op \in Updates /\ q.pc = "write" => req[r].pc = "check" /\ q.body = req[r].body

\* A copy takes what is stored.
CopyStep == \/ copy' = copy
            \/ /\ cipher' = cipher
               /\ \A k \in Client, c \in Cipher :
                    copy'[k].cipher[c] \in {copy[k].cipher[c], cipher[c], NoCipher}

Shape(r) == /\ Tabled /\ CopyStep
            /\ \A c \in Cipher : RowStep(r, c)
            /\ \E q : Progress(r, q)

LEMMA EndProgress ==
  ASSUME NEW r, Ends(r)
  PROVE  \E q : Progress(r, q)
BY DEF Ends, Progress

LEMMA SameRows ==
  ASSUME NEW r, cipher' = cipher
  PROVE  \A c \in Cipher : RowStep(r, c)
BY DEF RowStep

\* The request changes nothing but itself, and has no ciphers ahead.
LEMMA PlainProgress ==
  ASSUME NEW r, NEW q, Moves(r, q), Kin(q, req[r]),
         q.pc \in {"touch", "answer", "folders", "ciphers"}, q.cipher = req[r].cipher \/ q.op \notin Updates
  PROVE  \E p : Progress(r, p)
<1>1. Ahead(q) = {}
  BY DEF Ahead
<1>2. QED BY <1>1 DEF Progress, Moves, Kin

LEMMA InsertFolderShape ==
  ASSUME Typed, NEW r \in Request, InsertFolder(r)
  PROVE  Shape(r)
<1>1. Tabled /\ UNCHANGED <<cipher, rev, copy>> /\ req[r].op \in {"import", "newFolder"}
      /\ \/ Ends(r)
         \/ \E q : Moves(r, q) /\ Kin(q, req[r]) /\ q.pc = "check" /\ req[r].op = "import"
  BY InsertFolderDoes
<1>2. ASSUME NEW q, Moves(r, q), Kin(q, req[r]), q.pc = "check", req[r].op = "import"
      PROVE  Progress(r, q)
  <2>1. q.op = "import" /\ Ahead(q) = {}
    BY <1>2 DEF Kin, Ahead, Updates
  <2>2. QED BY <1>2, <2>1 DEF Progress, Moves, Updates
<1>3. \E q : Progress(r, q)
  BY <1>1, <1>2, EndProgress
<1>4. QED BY <1>1, <1>3, SameRows DEF Shape, CopyStep

LEMMA CheckFolderShape ==
  ASSUME Typed, NEW r \in Request, CheckFolder(r)
  PROVE  Shape(r)
<1>1. Tabled /\ UNCHANGED <<cipher, folder, rev, copy>> /\ req[r].pc = "check"
      /\ \/ Ends(r)
         \/ \E q : Moves(r, q) /\ Twin(q, req[r]) /\ q.pc = "write"
  BY CheckFolderDoes
<1>2. ASSUME NEW q, Moves(r, q), Twin(q, req[r]), q.pc = "write"
      PROVE  Progress(r, q)
  <2>1. Ahead(q) \subseteq Ahead(req[r])
    BY <1>1, <1>2 DEF Twin, Kin, Ahead
  <2>2. \A c \in Ahead(q) : cipher'[c] = cipher[c]
    BY <1>1
  <2>3. QED BY <1>1, <1>2, <2>1, <2>2 DEF Progress, Moves, Twin
<1>3. \E q : Progress(r, q)
  BY <1>1, <1>2, EndProgress
<1>4. QED BY <1>1, <1>3, SameRows DEF Shape, CopyStep

LEMMA InsertCipherShape ==
  ASSUME Typed, NEW r \in Request, InsertCipher(r)
  PROVE  Shape(r)
<1>1. Tabled /\ copy' = copy /\ req[r].op \in {"create", "import"}
  BY InsertCipherDoes
<1>2. CASE Ends(r) /\ cipher' = cipher
  BY <1>1, <1>2, EndProgress, SameRows DEF Shape, CopyStep
<1>3. CASE ~(Ends(r) /\ cipher' = cipher)
  <2>1. PICK c \in Cipher, row \in CipherRow, q \in RequestState :
          /\ cipher[c] = NoCipher /\ Overwritten(c, row)
          /\ row.owner = Holder(r) /\ row.updated = now
          /\ Moves(r, q) /\ Kin(q, req[r]) /\ q.pc = "touch"
    BY <1>3, InsertCipherDoes
  <2>2. \A d \in Cipher : RowStep(r, d)
    BY <1>1, <2>1 DEF Overwritten, RowStep, Writing
  <2>3. \E p : Progress(r, p)
    BY <1>1, <2>1, PlainProgress DEF Kin, Updates
  <2>4. QED BY <1>1, <2>2, <2>3 DEF Shape, CopyStep
<1>4. QED BY <1>2, <1>3

LEMMA ReadCipherShape ==
  ASSUME Typed, NEW r \in Request, ReadCipher(r)
  PROVE  Shape(r)
<1>1. Tabled /\ UNCHANGED <<cipher, folder, rev, copy>> /\ req[r].pc = "read"
      /\ req[r].op \in Updates
      /\ \/ Ends(r)
         \/ \E q : /\ Moves(r, q) /\ Kin(q, req[r]) /\ q.pc = "check"
                   /\ q.cipher = req[r].cipher /\ q.body = NewBody(r) /\ ~Stale(r)
  BY ReadCipherDoes
<1>2. ASSUME NEW q, Moves(r, q), Kin(q, req[r]), q.pc = "check", q.cipher = req[r].cipher,
             q.body = NewBody(r), ~Stale(r)
      PROVE  Progress(r, q)
  <2>1. Ahead(q) \subseteq Ahead(req[r])
    BY <1>1, <1>2 DEF Kin, Ahead, Updates
  <2>2. \A c \in Ahead(q) : cipher'[c] = cipher[c]
    BY <1>1
  <2>3. QED BY <1>1, <1>2, <2>1, <2>2 DEF Progress, Moves
<1>3. \E q : Progress(r, q)
  BY <1>1, <1>2, EndProgress
<1>4. QED BY <1>1, <1>3, SameRows DEF Shape, CopyStep

LEMMA WriteCipherShape ==
  ASSUME Typed, NEW r \in Request, WriteCipher(r)
  PROVE  Shape(r)
<1>1. /\ Tabled /\ copy' = copy /\ req[r].pc = "write" /\ req[r].op \in Updates
      /\ req[r].cipher \in Cipher
  BY WriteCipherDoes, Facts DEF Placed
<1>2. CASE Ends(r) /\ cipher' = cipher
  BY <1>1, <1>2, EndProgress, SameRows DEF Shape, CopyStep
<1>3. CASE ~(Ends(r) /\ cipher' = cipher)
  <2>1. PICK row \in CipherRow, q \in RequestState :
          /\ cipher[req[r].cipher].owner = Holder(r) /\ Overwritten(req[r].cipher, row)
          /\ row.owner = Holder(r) /\ row.updated = now
          /\ Moves(r, q) /\ Twin(q, req[r]) /\ q.pc = "touch"
    BY <1>3, WriteCipherDoes
  <2>2. req[r].cipher \in Ahead(req[r])
    BY <1>1 DEF Ahead
  <2>3. \A d \in Cipher : RowStep(r, d)
    BY <1>1, <2>1, <2>2 DEF Overwritten, RowStep, Writing, Updates
  <2>4. \E p : Progress(r, p)
    BY <2>1, PlainProgress DEF Twin
  <2>5. QED BY <1>1, <2>3, <2>4 DEF Shape, CopyStep
<1>4. QED BY <1>2, <1>3

LEMMA SetColumnShape ==
  ASSUME Typed, NEW r \in Request, SetColumn(r)
  PROVE  Shape(r)
<1>1. /\ Tabled /\ copy' = copy /\ req[r].pc = "write" /\ req[r].op \in {"favorite", "trash"}
      /\ req[r].cipher \in Cipher
  BY SetColumnDoes, Facts DEF Placed
<1>2. CASE Ends(r) /\ cipher' = cipher
  BY <1>1, <1>2, EndProgress, SameRows DEF Shape, CopyStep
<1>3. CASE ~(Ends(r) /\ cipher' = cipher)
  <2>1. PICK row \in CipherRow, q \in RequestState :
          /\ cipher[req[r].cipher].owner = Holder(r) /\ Overwritten(req[r].cipher, row)
          /\ row.owner = Holder(r) /\ row.updated = now
          /\ Moves(r, q) /\ Twin(q, req[r]) /\ q.pc = "touch"
    BY <1>3, SetColumnDoes
  <2>2. req[r].cipher \in Ahead(req[r])
    BY <1>1 DEF Ahead
  <2>3. \A d \in Cipher : RowStep(r, d)
    BY <1>1, <2>1, <2>2 DEF Overwritten, RowStep, Writing
  <2>4. \E p : Progress(r, p)
    BY <2>1, PlainProgress DEF Twin
  <2>5. QED BY <1>1, <2>3, <2>4 DEF Shape, CopyStep
<1>4. QED BY <1>2, <1>3

LEMMA WriteNextShape ==
  ASSUME Typed, NEW r \in Request, NEW c \in Cipher, WriteNext(r, c)
  PROVE  Shape(r)
<1>1. /\ Tabled /\ copy' = copy /\ req[r].pc = "write" /\ req[r].op \in {"restore", "delete"}
      /\ c \in req[r].set
  BY WriteNextDoes
<1>2. c \in Ahead(req[r])
  BY <1>1 DEF Ahead
<1>3. (\A d \in Cipher : RowStep(r, d)) /\ (\A d \in Cipher : d # c => cipher'[d] = cipher[d])
  <2>1. CASE cipher' = cipher
    BY <2>1, SameRows
  <2>2. CASE cipher' # cipher
    <3>1. PICK row \in CipherRow :
            /\ cipher[c].owner = Holder(r) /\ Overwritten(c, row)
            /\ \/ row.owner = None /\ row.updated = cipher[c].updated
               \/ row.owner = Holder(r) /\ row.updated = now
      BY <2>2, WriteNextDoes
    <3>2. QED BY <1>1, <1>2, <3>1 DEF Overwritten, RowStep, Writing
  <2>3. QED BY <2>1, <2>2
<1>4. ASSUME NEW q, Moves(r, q), Kin(q, req[r]), q.set = req[r].set \ {c},
             q.pc = IF q.set = {} THEN "touch" ELSE "write"
      PROVE  Progress(r, q)
  <2>1. q.op = req[r].op /\ q.pc \in {"touch", "write"}
    BY <1>4 DEF Kin
  <2>2. Ahead(q) \subseteq Ahead(req[r]) /\ c \notin Ahead(q)
    BY <1>1, <1>4, <2>1 DEF Ahead, Updates
  <2>3. \A d \in Ahead(q) : cipher'[d] = cipher[d]
    BY <1>3, <2>2 DEF Ahead
  <2>4. QED BY <1>1, <1>4, <2>1, <2>2, <2>3 DEF Progress, Moves, Updates
<1>5. \E q : Progress(r, q)
  BY <1>4, EndProgress, WriteNextDoes
<1>6. QED BY <1>1, <1>3, <1>5 DEF Shape, CopyStep

LEMMA DeleteTrashShape ==
  ASSUME Typed, NEW r \in Request, DeleteTrash(r)
  PROVE  Shape(r)
<1>1. /\ Tabled /\ copy' = copy /\ req[r].op = "empty"
      /\ \A c \in Cipher : \/ cipher'[c] = cipher[c]
                           \/ /\ cipher[c].owner = Holder(r) /\ cipher'[c].owner = None
                              /\ cipher'[c].updated = cipher[c].updated
  BY DeleteTrashDoes
<1>2. \A c \in Cipher : RowStep(r, c)
  BY <1>1 DEF RowStep, Writing
<1>3. PICK q : Moves(r, q) /\ Twin(q, req[r]) /\ q.pc = "touch"
  BY DeleteTrashDoes
<1>4. \E p : Progress(r, p)
  BY <1>3, PlainProgress DEF Twin
<1>5. QED BY <1>1, <1>2, <1>4 DEF Shape, CopyStep

LEMMA TouchRevisionShape ==
  ASSUME Typed, NEW r \in Request, TouchRevision(r)
  PROVE  Shape(r)
<1>1. /\ Tabled /\ cipher' = cipher /\ copy' = copy
      /\ \/ Ends(r)
         \/ \E q : Moves(r, q) /\ Kin(q, req[r]) /\ q.pc = "check" /\ q.op = "import"
         \/ \E q : Moves(r, q) /\ Twin(q, req[r]) /\ q.pc = "answer"
  BY TouchRevisionDoes
<1>2. ASSUME NEW q, Moves(r, q), Kin(q, req[r]), q.pc = "check", q.op = "import"
      PROVE  Progress(r, q)
  <2>1. Ahead(q) = {}
    BY <1>2 DEF Ahead, Updates
  <2>2. QED BY <1>2, <2>1 DEF Progress, Moves, Updates
<1>3. ASSUME NEW q, Moves(r, q), Twin(q, req[r]), q.pc = "answer"
      PROVE  \E p : Progress(r, p)
  BY <1>3, PlainProgress DEF Twin
<1>4. \E q : Progress(r, q)
  BY <1>1, <1>2, <1>3, EndProgress
<1>5. QED BY <1>1, <1>4, SameRows DEF Shape, CopyStep

LEMMA WriteFolderShape ==
  ASSUME Typed, NEW r \in Request, WriteFolder(r)
  PROVE  Shape(r)
<1>1. /\ Tabled /\ copy' = copy /\ Ends(r) /\ req[r].op \in {"rename", "deleteFolder"}
      /\ \A c \in Cipher : /\ cipher'[c].owner = cipher[c].owner
                           /\ cipher'[c].body = cipher[c].body
                           /\ cipher'[c].updated = cipher[c].updated
  BY WriteFolderDoes
<1>2. \A c \in Cipher : RowStep(r, c)
  BY <1>1 DEF RowStep, Writing, FolderOps
<1>3. QED BY <1>1, <1>2, EndProgress DEF Shape, CopyStep

LEMMA SyncFoldersShape ==
  ASSUME Typed, NEW r \in Request, SyncFolders(r)
  PROVE  Shape(r)
<1>1. Tabled /\ cipher' = cipher /\ copy' = copy /\ req[r].op = "sync"
  BY SyncFoldersDoes
<1>2. PICK q : Moves(r, q) /\ Kin(q, req[r]) /\ q.pc = "ciphers"
  BY SyncFoldersDoes
<1>3. \E p : Progress(r, p)
  BY <1>1, <1>2, PlainProgress DEF Kin, Updates
<1>4. QED BY <1>1, <1>3, SameRows DEF Shape, CopyStep

LEMMA CopyingShape ==
  ASSUME Typed, NEW r \in Request, Answer(r) \/ SyncCiphers(r)
  PROVE  Shape(r)
<1>1. Tabled /\ cipher' = cipher /\ Ends(r)
  BY AnswerDoes, SyncCiphersDoes
<1>2. CASE Answer(r)
  BY <1>1, <1>2, AnswerDoes, EndProgress, SameRows DEF Shape, CopyStep
<1>3. CASE SyncCiphers(r)
  <2>1. /\ copy'[req[r].client].cipher = CiphersOf(Holder(r))
        /\ \A k \in Client : k # req[r].client => copy'[k] = copy[k]
    BY <1>3, SyncCiphersDoes
  <2>2. \A c \in Cipher : CiphersOf(Holder(r))[c] \in {cipher[c], NoCipher}
    BY DEF CiphersOf
  <2>3. CopyStep
    BY <1>1, <2>1, <2>2 DEF CopyStep
  <2>4. QED BY <1>1, <2>3, EndProgress, SameRows DEF Shape
<1>4. QED BY <1>2, <1>3

LEMMA ShapeOf ==
  ASSUME Typed, NEW r \in Request, Advance(r) \/ Abort(r)
  PROVE  Shape(r)
<1>1. CASE Abort(r)
  BY <1>1, AbortDoes, EndProgress, SameRows DEF Shape, CopyStep
<1>2. CASE Advance(r)
  BY <1>2, InsertFolderShape, CheckFolderShape, InsertCipherShape, ReadCipherShape,
     WriteCipherShape, SetColumnShape, WriteNextShape, DeleteTrashShape, TouchRevisionShape,
     CopyingShape, WriteFolderShape, SyncFoldersShape DEF Advance
<1>3. QED BY <1>1, <1>2

-----------------------------------------------------------------------------
(* Writes that do not overlap.                                                *)

LEMMA ShapeTyped ==
  ASSUME NEW r \in Request, Shape(r)
  PROVE  Typed'
BY TypedAgain DEF Shape, Progress

\* The operation of a request, after a step of it.
LEMMA SameOp ==
  ASSUME NEW r \in Request, NEW q, Progress(r, q)
  PROVE  /\ q.op \in {"none", req[r].op} /\ (q.op = "none" => q = Idle \/ req[r].op = "none")
         /\ req'[r] = q /\ \A s \in Request : s # r => req'[s] = req[s]
BY DEF Progress, Became, Kin, Idle

LEMMA SerialInit == Init => SerialInv
<1>1. Init => Typed /\ \A r \in Request : req[r].op = "none"
  BY TypedInit DEF Init, Idle
<1>2. QED BY <1>1 DEF SerialInv, Writing

LEMMA SerialArrive ==
  ASSUME Gap > 0, SerialInv, NEW r \in Request, Arrive(r)
  PROVE  SerialInv'
<1>1. Typed
  BY DEF SerialInv
<1>2. ASSUME NEW q, Admission(r, q) PROVE SerialInv'
  <2>1. Became(r, q) /\ Tabled /\ \A s \in Request : ~Writing(req[s])
    BY <1>1, <1>2, AdmissionDoes DEF Admission
  <2>2. Typed'
    BY <2>1, TypedAgain
  <2>3. req'[r] = q /\ \A s \in Request : s # r => req'[s] = req[s]
    BY <2>1 DEF Became
  <2>4. q.op = "partial" => q.pc = "read"
    BY <1>2 DEF Admission, Updates
  <2>5. QED BY <2>1, <2>2, <2>3, <2>4 DEF SerialInv, Writing
<1>3. ASSUME NEW k \in Client, CheckRevision(r, k) PROVE SerialInv'
  <2>1. PICK q : Moves(r, q) /\ q.op = "sync"
    BY <1>1, <1>3, CheckRevisionDoes
  <2>2. Tabled /\ cipher' = cipher
    BY <1>1, <1>3, CheckRevisionDoes
  <2>3. Typed'
    BY <2>1, <2>2, TypedAgain DEF Moves
  <2>4. req'[r] = q /\ \A s \in Request : s # r => req'[s] = req[s]
    BY <2>1 DEF Became, Moves
  <2>5. QED BY <2>1, <2>2, <2>3, <2>4 DEF SerialInv, Writing
<1>4. QED BY <1>1, <1>2, <1>3, Arrived

LEMMA SerialShape ==
  ASSUME SerialInv, NEW r \in Request, Shape(r)
  PROVE  SerialInv'
<1>1. Typed /\ Typed'
  BY ShapeTyped DEF SerialInv
<1>2. PICK q : Progress(r, q)
  BY DEF Shape
<1>3. \A s, t \in Request : Writing(req'[s]) /\ Writing(req'[t]) => s = t
  BY <1>2, SameOp DEF SerialInv, Writing
<1>4. ASSUME NEW s \in Request, req'[s].op = "partial", req'[s].pc \in {"check", "write"}
      PROVE  req'[s].body = cipher'[req'[s].cipher].body
  <2>1. req'[s].cipher \in Cipher
    BY <1>1, <1>4 DEF Typed, Placed, Updates
  <2>2. CASE s # r
    <3>1. req'[s] = req[s] /\ ~Writing(req[r])
      BY <1>2, <1>4, <2>2, SameOp DEF SerialInv, Writing
    <3>2. cipher'[req'[s].cipher] = cipher[req'[s].cipher]
      BY <2>1, <3>1 DEF Shape, RowStep
    <3>3. QED BY <1>4, <3>1, <3>2 DEF SerialInv
  <2>3. CASE s = r
    <3>1. /\ req'[r] = q /\ q # Idle /\ q.op = "partial" /\ q.op \in Updates
          /\ q.pc \in {"check", "write"} /\ q.cipher \in Cipher
      BY <1>2, <1>4, <2>1, <2>3, SameOp DEF Idle, Updates
    <3>2. /\ q.cipher = req[r].cipher /\ req[r].op = "partial"
          /\ cipher'[q.cipher] = cipher[q.cipher]
      BY <1>2, <3>1 DEF Progress, Kin, Ahead
    <3>3. CASE q.pc = "check"
      BY <1>2, <2>3, <3>1, <3>2, <3>3 DEF Progress, NewBody
    <3>4. CASE q.pc = "write"
      BY <1>2, <2>3, <3>1, <3>2, <3>4 DEF Progress, SerialInv
    <3>5. QED BY <3>1, <3>3, <3>4
  <2>4. QED BY <2>2, <2>3
<1>5. QED BY <1>1, <1>3, <1>4 DEF SerialInv

LEMMA SerialStep ==
  ASSUME Gap > 0
  PROVE  SerialInv /\ [Next]_vars => SerialInv'
<1> SUFFICES ASSUME SerialInv, [Next]_vars PROVE SerialInv'
  OBVIOUS
<1>1. Typed
  BY DEF SerialInv
<1>2. CASE UNCHANGED vars
  BY <1>1, <1>2, TypedStep DEF vars, SerialInv, Writing
<1>3. CASE Tick
  BY <1>1, <1>3, TickDoes DEF SerialInv, Writing
<1>4. ASSUME NEW r \in Request, Advance(r) \/ Abort(r)
      PROVE  SerialInv'
  BY <1>1, <1>4, ShapeOf, SerialShape
<1>5. QED BY <1>2, <1>3, <1>4, SerialArrive DEF Next

\* The write of an update is the action WriteCipher.
LEMMA WritesAre ==
  ASSUME Typed, NEW r \in Request, [Next]_vars, req[r].op \in Updates, Writes(r)
  PROVE  WriteCipher(r) /\ ~Ends(r)
<1>1. req[r].pc = "write" /\ req'[r].pc = "touch"
  BY DEF Writes, At
<1>2. ASSUME NEW s \in Request, Arrive(s) PROVE FALSE
  <2>1. \E q : Became(s, q) /\ req[s].pc = "idle" /\ q.pc # "touch"
    BY <1>2, Arrived, AdmissionDoes, CheckRevisionDoes DEF Admission, Moves
  <2>2. QED BY <1>1, <2>1 DEF Became
<1>3. ASSUME NEW s \in Request, Advance(s) \/ Abort(s) PROVE s = r /\ ~Ends(r) /\ ~Abort(r)
  <2>1. PICK q : Progress(s, q)
    BY <1>3, ShapeOf DEF Shape
  <2>2. s = r /\ q # Idle
    BY <1>1, <2>1, SameOp DEF Idle
  <2>3. ~Ends(r) /\ ~Abort(r)
    BY <1>1, AbortDoes DEF Ends, Became, Idle
  <2>4. QED BY <2>2, <2>3
<1>4. ~Tick /\ ~UNCHANGED vars
  BY <1>1, TickDoes DEF vars
<1>5. Advance(r) /\ ~Ends(r)
  BY <1>2, <1>3, <1>4 DEF Next
<1>6. Advance(r) => WriteCipher(r)
  BY <1>1 DEF Advance, At, InsertFolder, CheckFolder, InsertCipher, ReadCipher, SetColumn,
              WriteNext, DeleteTrash, TouchRevision, Answer, WriteFolder, SyncFolders,
              SyncCiphers, Updates
<1>7. QED BY <1>5, <1>6

\* PayloadUntouched: as long as writes do not overlap, a partial update (favourite or folder of a
\* cipher) leaves the encrypted payload as it is, though handleCipherPartial writes the full row.
THEOREM PayloadSafe ==
  ASSUME Gap > 0
  PROVE  Spec => PayloadUntouched
<1>1. Spec => []SerialInv
  BY SerialInit, SerialStep, PTL DEF Spec
<1>2. SerialInv /\ [Next]_vars =>
        [\A r \in Request : req[r].op = "partial" /\ Writes(r)
           => cipher'[req[r].cipher].body = cipher[req[r].cipher].body]_vars
  <2> SUFFICES ASSUME SerialInv, [Next]_vars, NEW r \in Request, req[r].op = "partial", Writes(r)
               PROVE  cipher'[req[r].cipher].body = cipher[req[r].cipher].body
    OBVIOUS
  <2>1. Typed /\ req[r].body = cipher[req[r].cipher].body
    BY DEF SerialInv, Writes, At
  <2>2. WriteCipher(r) /\ ~Ends(r)
    BY <2>1, WritesAre DEF Updates
  <2>3. cipher'[req[r].cipher].body = req[r].body
    BY <2>1, <2>2, WriteCipherDoes DEF Overwritten
  <2>4. QED BY <2>1, <2>3
<1>3. QED BY <1>1, <1>2, PTL DEF Spec, PayloadUntouched

-----------------------------------------------------------------------------
(* Writes that are more than a second apart.                                  *)

LEMMA Numbers == Second \in Nat /\ Second > 0 /\ Gap \in Nat
BY VaultAssumption

LEMMA Busy ==
  ASSUME Typed, NEW r \in Request, Advance(r) \/ Abort(r)
  PROVE  req[r].op # "none"
<1>1. req[r].pc # "idle"
  BY DEF Advance, Abort, At, InsertFolder, CheckFolder, InsertCipher, ReadCipher, WriteCipher,
         SetColumn, WriteNext, DeleteTrash, TouchRevision, Answer, WriteFolder, SyncFolders,
         SyncCiphers
<1>2. QED BY <1>1, Facts DEF Placed

LEMMA Clock ==
  ASSUME Typed
  PROVE  /\ now \in Nat /\ quiet \in Nat
         /\ \A c \in Cipher : cipher[c].updated \in Nat
         /\ \A k \in Client, c \in Cipher : copy[k].cipher[c].updated \in Nat
         /\ \A r \in Request : req[r].known \in Nat
BY DEF Typed, TypeOK, CipherRow, Copy, RequestState

\* A version stays one, whatever is written over the cipher.
LEMMA VersionKept ==
  ASSUME Gap > Second, DatedInv, Typed', NEW r \in Request, NEW c \in Cipher, RowStep(r, c),
         NEW body, NEW date \in Nat, Version(cipher[c], body, date)
  PROVE  Version(cipher'[c], body, date)
<1>1. /\ now \in Nat /\ quiet \in Nat /\ cipher[c].updated \in Nat /\ cipher'[c].updated \in Nat
  BY Clock DEF DatedInv, SerialInv, Typed, TypeOK, CipherRow
<1>2. CASE cipher'[c] = cipher[c]
  BY <1>2
<1>3. CASE cipher[c] = NoCipher
  BY <1>1, <1>3 DEF Version, NoCipher
<1>4. CASE cipher'[c].owner = None /\ cipher'[c].updated = cipher[c].updated
  BY <1>4 DEF Version
<1>5. CASE Writing(req[r]) /\ cipher'[c].updated = now /\ c \in Ahead(req[r])
  <2>1. quiet + Gap =< now /\ cipher[c].updated =< quiet
    BY <1>5 DEF DatedInv, Spaced
  <2>2. date + Second < now /\ 0 < date
    BY <1>1, <2>1, Numbers DEF Version
  <2>3. QED BY <1>1, <1>5, <2>2, Numbers DEF Version
<1>6. CASE /\ cipher'[c].owner = cipher[c].owner
           /\ cipher'[c].body = cipher[c].body /\ cipher'[c].updated = cipher[c].updated
  BY <1>6 DEF Version
<1>7. QED BY <1>2, <1>3, <1>4, <1>5, <1>6 DEF RowStep

LEMMA SpacedShape ==
  ASSUME Gap > Second, DatedInv, NEW r \in Request, Shape(r), req[r].op # "none", Typed'
  PROVE  Spaced'
<1>1. PICK q : Progress(r, q)
  BY DEF Shape
<1>2. /\ now \in Nat /\ quiet \in Nat /\ now' = now /\ Second + Gap =< now /\ quiet =< now
      /\ quiet' \in {quiet, now} /\ Typed
  BY <1>1, Clock DEF DatedInv, SerialInv, Spaced, Progress
<1>3. \A c \in Cipher : cipher[c].updated \in Nat /\ cipher[c].updated =< now
  BY <1>2, Clock DEF DatedInv, Spaced
<1>4. ~Writing(req[r]) => /\ \A c \in Cipher : cipher'[c] = cipher[c]
                          /\ quiet' = quiet
  BY <1>1 DEF Shape, RowStep, Writing, Progress
<1>5. \A c \in Cipher : cipher'[c].updated =< now'
  <2>1. ASSUME NEW c \in Cipher PROVE cipher'[c].updated \in {cipher[c].updated, now}
    BY DEF Shape, RowStep
  <2>2. QED BY <1>2, <1>3, <2>1
<1>6. ASSUME \A s \in Request : ~Writing(req'[s])
      PROVE  \A c \in Cipher : cipher'[c].updated =< quiet'
  <2>1. CASE Writing(req[r])
    <3>1. q = Idle
      BY <1>1, <1>6, <2>1, SameOp DEF Progress, Kin, Writing
    <3>2. quiet' = now
      BY <1>1, <2>1, <3>1 DEF Progress, Writing, Idle
    <3>3. QED BY <1>2, <1>5, <3>2
  <2>2. CASE ~Writing(req[r])
    <3>1. \A s \in Request : ~Writing(req[s])
      BY <1>1, <1>6, <2>2, SameOp
    <3>2. \A c \in Cipher : cipher[c].updated =< quiet
      BY <3>1 DEF DatedInv, Spaced
    <3>3. QED BY <1>4, <2>2, <3>2
  <2>3. QED BY <2>1, <2>2
<1>7. ASSUME NEW s \in Request, Writing(req'[s])
      PROVE  quiet' + Gap =< now' /\ \A c \in Ahead(req'[s]) : cipher'[c].updated =< quiet'
  <2>1. CASE s # r
    <3>1. req'[s] = req[s] /\ ~Writing(req[r])
      BY <1>1, <1>7, <2>1, SameOp DEF DatedInv, SerialInv
    <3>2. \A c \in Ahead(req'[s]) : cipher'[c] = cipher[c]
      BY <1>4, <3>1 DEF Ahead
    <3>3. QED BY <1>2, <1>4, <1>7, <3>1, <3>2 DEF DatedInv, Spaced
  <2>2. CASE s = r
    <3>1. req'[r] = q /\ q.op = req[r].op /\ q # Idle
      BY <1>1, <1>7, <2>2, SameOp DEF Writing, Idle
    <3>2. quiet' = quiet /\ Ahead(q) \subseteq Ahead(req[r])
          /\ \A c \in Ahead(q) : cipher'[c] = cipher[c]
      BY <1>1, <3>1 DEF Progress
    <3>3. QED BY <1>2, <1>7, <2>2, <3>1, <3>2 DEF DatedInv, Spaced, Writing
  <2>3. QED BY <2>1, <2>2
<1>8. QED BY <1>2, <1>5, <1>6, <1>7 DEF Spaced

LEMMA DatedShape ==
  ASSUME Gap > Second, DatedInv, NEW r \in Request, Shape(r), req[r].op # "none"
  PROVE  DatedInv'
<1>1. PICK q : Progress(r, q)
  BY DEF Shape
<1>2. Typed /\ Typed' /\ SerialInv'
  BY ShapeTyped, SerialShape DEF DatedInv, SerialInv
<1>3. Spaced'
  BY <1>2, SpacedShape
<1>4. /\ now \in Nat /\ 0 < now
      /\ \A c \in Cipher : cipher[c].updated \in Nat
      /\ \A k \in Client, c \in Cipher : copy[k].cipher[c].updated \in Nat
      /\ \A s \in Request : req[s].known \in Nat
  BY <1>2, Clock, Numbers DEF DatedInv, Spaced
<1>5. \A c \in Cipher : cipher'[c].owner # None => 0 < cipher'[c].updated
  <2>1. ASSUME NEW c \in Cipher, cipher'[c].owner # None
        PROVE  \/ cipher'[c].updated = now
               \/ cipher'[c].updated = cipher[c].updated /\ cipher[c].owner # None
    BY <2>1 DEF Shape, RowStep
  <2>2. QED BY <1>4, <2>1 DEF DatedInv
<1>6. ASSUME NEW k \in Client, NEW c \in Cipher, copy'[k].cipher[c].owner # None
      PROVE  Version(cipher'[c], copy'[k].cipher[c].body, copy'[k].cipher[c].updated)
  <2>1. CASE copy'[k].cipher[c] = copy[k].cipher[c]
    <3>1. Version(cipher[c], copy[k].cipher[c].body, copy[k].cipher[c].updated)
      BY <1>6, <2>1 DEF DatedInv
    <3>2. Version(cipher'[c], copy[k].cipher[c].body, copy[k].cipher[c].updated)
      BY <1>2, <1>4, <3>1, VersionKept DEF Shape
    <3>3. QED BY <2>1, <3>2
  <2>2. CASE copy'[k].cipher[c] # copy[k].cipher[c]
    <3>1. cipher'[c] = cipher[c] /\ copy'[k].cipher[c] = cipher[c]
      BY <1>6, <2>2 DEF Shape, CopyStep, NoCipher
    <3>2. QED BY <1>4, <1>6, <3>1 DEF DatedInv, Version
  <2>3. QED BY <2>1, <2>2
<1>7. ASSUME NEW s \in Request, req'[s].op = "update", req'[s].pc \in {"read", "check", "write"}
      PROVE  /\ Version(cipher'[req'[s].cipher], req'[s].seen, req'[s].known)
             /\ req'[s].pc # "read" => cipher'[req'[s].cipher].updated =< req'[s].known + Second
  <2>1. req'[s].cipher \in Cipher
    BY <1>2, <1>7 DEF Typed, Placed, Updates
  <2>2. CASE s # r
    <3>1. req'[s] = req[s] /\ ~Writing(req[r])
      BY <1>1, <1>7, <2>2, SameOp DEF DatedInv, SerialInv, Writing
    <3>2. cipher'[req'[s].cipher] = cipher[req'[s].cipher]
      BY <2>1, <3>1 DEF Shape, RowStep
    <3>3. QED BY <1>7, <3>1, <3>2 DEF DatedInv
  <2>3. CASE s = r
    <3>1. /\ req'[r] = q /\ q # Idle /\ q.op = "update" /\ q.op \in Updates
          /\ q.cipher \in Cipher /\ q.pc \in {"read", "check", "write"}
      BY <1>1, <1>7, <2>1, <2>3, SameOp DEF Idle, Updates
    <3>2. /\ q.cipher \in Ahead(q) /\ q.pc # "read"
          /\ q.cipher = req[r].cipher /\ q.seen = req[r].seen /\ q.known = req[r].known
          /\ req[r].op = "update"
      BY <1>1, <3>1 DEF Progress, Kin, Ahead
    <3>3. cipher'[q.cipher] = cipher[q.cipher] /\ req[r].pc \in {"read", "check", "write"}
      BY <1>1, <3>1, <3>2 DEF Progress, Ahead
    <3>4. Version(cipher[q.cipher], q.seen, q.known)
      BY <3>2, <3>3 DEF DatedInv
    <3>5. cipher[q.cipher].updated =< q.known + Second
      <4>1. CASE q.pc = "check"
        BY <1>1, <1>4, <3>1, <3>2, <4>1, Numbers DEF Progress, Stale
      <4>2. CASE q.pc = "write"
        BY <1>1, <3>1, <3>2, <4>2 DEF Progress, DatedInv
      <4>3. QED BY <3>1, <3>2, <4>1, <4>2
    <3>6. QED BY <2>3, <3>1, <3>3, <3>4, <3>5
  <2>4. QED BY <2>2, <2>3
<1>8. QED BY <1>2, <1>3, <1>5, <1>6, <1>7 DEF DatedInv

LEMMA DatedInit == Init => DatedInv
<1> SUFFICES ASSUME Init PROVE DatedInv
  OBVIOUS
<1>1. SerialInv
  BY SerialInit
<1>2. /\ \A c \in Cipher : cipher[c] = NoCipher
      /\ \A k \in Client, c \in Cipher : copy[k].cipher[c] = NoCipher
      /\ \A r \in Request : req[r].op = "none"
      /\ now = Second + Gap /\ quiet = 0
  BY DEF Init, Idle
<1>3. Spaced
  BY <1>2, Numbers DEF Spaced, NoCipher, Writing
<1>4. QED BY <1>1, <1>2, <1>3 DEF DatedInv, NoCipher

LEMMA DatedArrive ==
  ASSUME Gap > Second, DatedInv, NEW r \in Request, Arrive(r)
  PROVE  DatedInv'
<1>1. Typed /\ SerialInv /\ SerialInv' /\ Gap > 0
  BY SerialArrive, Numbers DEF DatedInv, SerialInv
<1>2. ASSUME NEW q, Admission(r, q) PROVE DatedInv'
  <2>1. /\ req'[r] = q /\ \A s \in Request : s # r => req'[s] = req[s]
        /\ \A s \in Request : ~Writing(req[s])
        /\ UNCHANGED <<cipher, copy, now, quiet>> /\ quiet + Gap =< now
    BY <1>1, <1>2, AdmissionDoes DEF Admission, Became
  <2>2. Spaced'
    BY <1>2, <2>1 DEF Spaced, DatedInv, Admission, Ahead
  <2>3. ASSUME q.op = "update"
        PROVE  q.pc = "read" /\ Version(cipher[q.cipher], q.seen, q.known)
    <3>1. q.client \in Client /\ q.cipher \in Cipher
      BY <1>2, <2>3 DEF Admission, Placed, Updates
    <3>2. QED BY <1>2, <2>3, <3>1 DEF Admission, Updates, DatedInv
  <2>4. ASSUME NEW s \in Request, req'[s].op = "update"
        PROVE  /\ s = r /\ req'[s].pc = "read"
               /\ Version(cipher'[req'[s].cipher], req'[s].seen, req'[s].known)
    BY <2>1, <2>3, <2>4 DEF Writing
  <2>5. QED BY <1>1, <2>1, <2>2, <2>4 DEF DatedInv
<1>3. ASSUME NEW k \in Client, CheckRevision(r, k) PROVE DatedInv'
  <2>1. PICK q : Moves(r, q) /\ q.op = "sync"
    BY <1>1, <1>3, CheckRevisionDoes
  <2>2. /\ req'[r] = q /\ \A s \in Request : s # r => req'[s] = req[s]
        /\ UNCHANGED <<cipher, copy, now, quiet>> /\ ~Writing(q) /\ ~Writing(req[r])
    BY <1>1, <1>3, <2>1, CheckRevisionDoes, Facts DEF Moves, Became, Writing, Placed, Idle
  <2>3. Spaced'
    BY <2>2 DEF Spaced, DatedInv
  <2>4. QED BY <1>1, <2>1, <2>2, <2>3 DEF DatedInv
<1>4. QED BY <1>1, <1>2, <1>3, Arrived

LEMMA DatedTick ==
  ASSUME Gap > Second, DatedInv, Tick
  PROVE  DatedInv'
<1>1. Typed /\ SerialInv /\ Gap > 0
  BY Numbers DEF DatedInv, SerialInv
<1>2. SerialInv'
  BY <1>1, SerialStep DEF Next
<1>3. now' = now + 1 /\ UNCHANGED <<cipher, copy, req, quiet>>
      /\ now \in Nat /\ quiet \in Nat /\ \A c \in Cipher : cipher[c].updated \in Nat
  BY <1>1, TickDoes, Clock
<1>4. Spaced'
  BY <1>3, Numbers DEF Spaced, DatedInv
<1>5. QED BY <1>2, <1>3, <1>4 DEF DatedInv

LEMMA DatedStep ==
  ASSUME Gap > Second
  PROVE  DatedInv /\ [Next]_vars => DatedInv'
<1> SUFFICES ASSUME DatedInv, [Next]_vars PROVE DatedInv'
  OBVIOUS
<1>1. Typed /\ SerialInv /\ Gap > 0
  BY Numbers DEF DatedInv, SerialInv
<1>2. CASE UNCHANGED vars
  BY <1>1, <1>2, SerialStep DEF vars, DatedInv, Spaced
<1>3. ASSUME NEW r \in Request, Advance(r) \/ Abort(r)
      PROVE  DatedInv'
  BY <1>1, <1>3, ShapeOf, Busy, DatedShape
<1>4. QED BY <1>2, <1>3, DatedTick, DatedArrive DEF Next

\* StaleWritesRejected: when writes follow one another more than a second apart, a dated update
\* replaces exactly the version its client has seen, although handleUpdateCipher tolerates a second
\* and checks in one statement what it writes in a later one.
THEOREM StaleSafe ==
  ASSUME Gap > Second
  PROVE  Spec => StaleWritesRejected
<1>1. Spec => []DatedInv
  BY DatedInit, DatedStep, PTL DEF Spec
<1>2. DatedInv /\ [Next]_vars =>
        [\A r \in Request : req[r].op = "update" /\ Writes(r)
           => cipher[req[r].cipher].body = req[r].seen]_vars
  <2> SUFFICES ASSUME DatedInv, [Next]_vars, NEW r \in Request, req[r].op = "update", Writes(r)
               PROVE  cipher[req[r].cipher].body = req[r].seen
    OBVIOUS
  <2>1. Typed /\ req[r].pc = "write"
    BY DEF DatedInv, SerialInv, Writes, At
  <2>2. WriteCipher(r) /\ ~Ends(r)
    BY <2>1, WritesAre DEF Updates
  <2>3. cipher[req[r].cipher].owner # None /\ req[r].cipher \in Cipher
    BY <2>1, <2>2, WriteCipherDoes, Facts DEF Placed, Updates
  <2>4. /\ Version(cipher[req[r].cipher], req[r].seen, req[r].known)
        /\ cipher[req[r].cipher].updated =< req[r].known + Second
    BY <2>1 DEF DatedInv
  <2>5. cipher[req[r].cipher].updated \in Nat /\ req[r].known \in Nat
    BY <2>1, <2>3, Clock
  <2>6. QED BY <2>3, <2>4, <2>5, Numbers DEF Version
<1>3. QED BY <1>1, <1>2, PTL DEF Spec, StaleWritesRejected

-----------------------------------------------------------------------------
(* Revision dates: writes a second apart, none of folders, none aborted.      *)

\* A statement that leaves the revision date alone: if it writes a cipher its request is not clean
\* afterwards, and a request that is not clean stays so.
Undated(r, q) ==
  /\ Became(r, q) /\ now' = now /\ folder' = folder /\ rev' = rev
  /\ \/ q = Idle /\ quiet' = IF req[r].op = "sync" THEN quiet ELSE now
     \/ quiet' = quiet /\ Kin(q, req[r]) /\ req[r].pc # "answer" /\ q.pc # "idle"
  /\ q.pc # "answer"
  /\ cipher' = cipher \/ Dirty(q)
  /\ Dirty(req[r]) => Dirty(q)
  /\ \A f \in Folder : q.folders[f] = NoFolder
  /\ ~(q.pc = "write" /\ q.flag /\ q.op \in {"restore", "delete"})

\* A copy keeps its revision date, or is replaced by a sync.
Copied == /\ \A k \in Client, f \in Folder : copy'[k].folder[f] = NoFolder
          /\ \A k \in Client :
               \/ /\ copy'[k].rev = copy[k].rev
                  /\ \/ copy'[k] = copy[k]
                     \/ /\ cipher' = cipher
                        /\ \A c \in Cipher :
                             \/ copy'[k].cipher[c] = copy[k].cipher[c]
                             \/ copy'[k].cipher[c] = CiphersOf(Account[k])[c]
               \/ /\ copy'[k].rev =< rev[Account[k]] /\ cipher' = cipher
                  /\ copy'[k].cipher = CiphersOf(Account[k])

LEMMA EndUndated ==
  ASSUME WithoutFolders, NEW r, Ends(r), cipher' = cipher, folder' = folder, rev' = rev,
         ~Dirty(req[r])
  PROVE  Undated(r, Idle)
BY DEF Ends, Undated, Idle

LEMMA UncopiedUndated ==
  ASSUME WithoutFolders, copy' = copy
  PROVE  Copied
BY DEF WithoutFolders, Copied

LEMMA CheckUndated ==
  ASSUME Typed, WithoutFolders, NEW r \in Request, CheckFolder(r)
  PROVE  \E q : Undated(r, q)
<1>1. UNCHANGED <<cipher, folder, rev, copy>> /\ req[r].pc = "check"
      /\ req[r].op \in Updates \cup {"create", "import"}
      /\ \/ Ends(r)
         \/ \E q : Moves(r, q) /\ Twin(q, req[r]) /\ q.pc = "write"
  BY CheckFolderDoes
<1>2. ~Dirty(req[r])
  BY <1>1 DEF Dirty
<1>3. ASSUME NEW q, Moves(r, q), Twin(q, req[r]), q.pc = "write" PROVE Undated(r, q)
  <2>1. q.op \notin {"restore", "delete"} /\ \A f \in Folder : q.folders[f] = NoFolder
    BY <1>1, <1>3 DEF Twin, Kin, Updates, WithoutFolders
  <2>2. QED BY <1>1, <1>2, <1>3, <2>1 DEF Undated, Moves, Twin
<1>4. QED BY <1>1, <1>2, <1>3, EndUndated

LEMMA ReadUndated ==
  ASSUME Typed, WithoutFolders, NEW r \in Request, ReadCipher(r)
  PROVE  \E q : Undated(r, q)
<1>1. UNCHANGED <<cipher, folder, rev, copy>> /\ req[r].pc = "read"
      /\ \/ Ends(r)
         \/ \E q : /\ Moves(r, q) /\ Kin(q, req[r]) /\ q.pc = "check"
                   /\ q.folders = req[r].folders
  BY ReadCipherDoes
<1>2. ~Dirty(req[r])
  BY <1>1 DEF Dirty
<1>3. ASSUME NEW q, Moves(r, q), Kin(q, req[r]), q.pc = "check", q.folders = req[r].folders
      PROVE  Undated(r, q)
  BY <1>1, <1>2, <1>3 DEF Undated, Moves, WithoutFolders
<1>4. QED BY <1>1, <1>2, <1>3, EndUndated

\* The statements that write ciphers send the request to the revision date.
LEMMA TouchNext ==
  ASSUME WithoutFolders, NEW r \in Request, NEW q, Moves(r, q), Kin(q, req[r]), q.pc = "touch",
         q.folders = req[r].folders, req[r].pc = "write", UNCHANGED <<folder, rev>>
  PROVE  Undated(r, q)
BY DEF Undated, Moves, WithoutFolders, Dirty

LEMMA WriteUndated ==
  ASSUME Typed, WithoutFolders, NEW r \in Request,
         InsertCipher(r) \/ WriteCipher(r) \/ SetColumn(r) \/ DeleteTrash(r)
  PROVE  (\E q : Undated(r, q)) /\ copy' = copy
<1>1. UNCHANGED <<folder, rev, copy>> /\ req[r].pc = "write" /\ req[r].op \notin {"restore", "delete"}
      /\ \/ Ends(r) /\ cipher' = cipher
         \/ \E q : /\ Moves(r, q) /\ Kin(q, req[r]) /\ q.pc = "touch"
                   /\ q.folders = req[r].folders
  <2>1. CASE InsertCipher(r)
    BY <2>1, InsertCipherDoes
  <2>2. CASE WriteCipher(r)
    BY <2>2, WriteCipherDoes DEF Twin, Updates
  <2>3. CASE SetColumn(r)
    BY <2>3, SetColumnDoes DEF Twin
  <2>4. CASE DeleteTrash(r)
    BY <2>4, DeleteTrashDoes DEF Twin
  <2>5. QED BY <2>1, <2>2, <2>3, <2>4
<1>2. ~Dirty(req[r])
  BY <1>1 DEF Dirty
<1>3. QED BY <1>1, <1>2, TouchNext, EndUndated

LEMMA WriteNextUndated ==
  ASSUME Typed, WithoutFolders, NEW r \in Request, NEW c \in Cipher, WriteNext(r, c)
  PROVE  (\E q : Undated(r, q)) /\ copy' = copy
<1>1. UNCHANGED <<folder, rev, copy>> /\ req[r].pc = "write" /\ req[r].op \in {"restore", "delete"}
      /\ c \in req[r].set
      /\ \/ Ends(r) /\ cipher' = cipher /\ req[r].flag
         \/ \E q : /\ Moves(r, q) /\ Kin(q, req[r]) /\ q.folders = req[r].folders
                   /\ q.set = req[r].set \ {c} /\ q.pc = IF q.set = {} THEN "touch" ELSE "write"
  BY WriteNextDoes
<1>2. CASE Ends(r) /\ cipher' = cipher /\ req[r].flag
  BY <1>1, <1>2, EndUndated DEF Dirty
<1>3. CASE ~(Ends(r) /\ cipher' = cipher /\ req[r].flag)
  <2>1. PICK q : /\ Moves(r, q) /\ Kin(q, req[r]) /\ q.folders = req[r].folders
                 /\ q.set = req[r].set \ {c} /\ q.pc = IF q.set = {} THEN "touch" ELSE "write"
    BY <1>1, <1>3
  <2>2. CASE q.set = {}
    BY <1>1, <2>1, <2>2, TouchNext
  <2>3. CASE q.set # {}
    <3>1. ~req[r].flag
      BY <1>1, <2>1, <2>3 DEF WithoutFolders
    <3>2. QED BY <1>1, <2>1, <2>3, <3>1 DEF Undated, Moves, WithoutFolders, Dirty, Kin
  <2>4. QED BY <1>1, <2>2, <2>3
<1>4. QED BY <1>2, <1>3

LEMMA AnswerUndated ==
  ASSUME Typed, WithoutFolders, NEW r \in Request, Answer(r)
  PROVE  Undated(r, Idle) /\ Copied
<1>1. /\ UNCHANGED <<cipher, folder, rev>> /\ Ends(r) /\ req[r].pc = "answer"
      /\ \A k \in Client : copy'[k].folder = copy[k].folder /\ copy'[k].rev = copy[k].rev
      /\ \A k \in Client, c \in Cipher :
           \/ copy'[k].cipher[c] = copy[k].cipher[c]
           \/ copy'[k].cipher[c] = cipher[c] /\ cipher[c].owner = Account[k]
  BY AnswerDoes
<1>2. \A k \in Client, c \in Cipher : cipher[c].owner = Account[k]
                                        => CiphersOf(Account[k])[c] = cipher[c]
  BY DEF CiphersOf
<1>3. \A k \in Client, f \in Folder : copy'[k].folder[f] = NoFolder
  BY <1>1 DEF WithoutFolders
<1>4. Copied
  BY <1>1, <1>2, <1>3 DEF Copied
<1>5. QED BY <1>1, <1>4, EndUndated DEF Dirty

LEMMA SyncFoldersUndated ==
  ASSUME Typed, WithoutFolders, NEW r \in Request, SyncFolders(r)
  PROVE  \E q : Undated(r, q)
<1>1. UNCHANGED <<cipher, folder, rev, copy>> /\ req[r].pc = "folders"
  BY SyncFoldersDoes
<1>2. PICK q : Moves(r, q) /\ Kin(q, req[r]) /\ q.pc = "ciphers" /\ q.folders = FoldersOf(Holder(r))
  BY SyncFoldersDoes
<1>3. \A f \in Folder : q.folders[f] = NoFolder
  BY <1>2 DEF FoldersOf, WithoutFolders
<1>4. QED BY <1>1, <1>2, <1>3 DEF Undated, Moves, Dirty

LEMMA SyncCiphersUndated ==
  ASSUME Typed, WithoutFolders, Revised, NEW r \in Request, SyncCiphers(r)
  PROVE  Undated(r, Idle) /\ Copied
<1>1. /\ UNCHANGED <<cipher, folder, rev>> /\ Ends(r)
      /\ req[r].pc = "ciphers" /\ req[r].op = "sync" /\ req[r].client \in Client
      /\ copy'[req[r].client].cipher = CiphersOf(Holder(r))
      /\ copy'[req[r].client].folder = req[r].folders
      /\ copy'[req[r].client].rev = req[r].known
      /\ \A k \in Client : k # req[r].client => copy'[k] = copy[k]
  BY SyncCiphersDoes
<1>2. req[r].known =< rev[Account[req[r].client]]
  BY <1>1 DEF Revised, Holder
<1>3. \A k \in Client, f \in Folder : copy'[k].folder[f] = NoFolder
  BY <1>1 DEF WithoutFolders
<1>4. Copied
  BY <1>1, <1>2, <1>3 DEF Copied, Holder
<1>5. QED BY <1>1, <1>4, EndUndated DEF Dirty

LEMMA UndatedOf ==
  ASSUME Typed, WithoutFolders, Revised, NEW r \in Request, Advance(r), ~TouchRevision(r)
  PROVE  (\E q : Undated(r, q)) /\ Copied
<1>1. ~InsertFolder(r) /\ ~WriteFolder(r)
  BY InsertFolderDoes, WriteFolderDoes DEF WithoutFolders, FolderOps
<1>2. CASE CheckFolder(r) \/ ReadCipher(r) \/ SyncFolders(r)
  BY <1>2, CheckFolderDoes, ReadCipherDoes, SyncFoldersDoes, CheckUndated, ReadUndated,
     SyncFoldersUndated, UncopiedUndated
<1>3. CASE InsertCipher(r) \/ WriteCipher(r) \/ SetColumn(r) \/ DeleteTrash(r)
  BY <1>3, WriteUndated, UncopiedUndated
<1>4. CASE \E c \in Cipher : WriteNext(r, c)
  BY <1>4, WriteNextUndated, UncopiedUndated
<1>5. CASE Answer(r) \/ SyncCiphers(r)
  BY <1>5, AnswerUndated, SyncCiphersUndated
<1>6. QED BY <1>1, <1>2, <1>3, <1>4, <1>5 DEF Advance

\* What other accounts write leaves the ciphers of an account as they are.
LEMMA OthersCiphers ==
  ASSUME Typed, NEW r \in Request, \A c \in Cipher : RowStep(r, c),
         req[r].op \notin FolderOps, NEW u \in User, u # Holder(r)
  PROVE  CiphersOf(u)' = CiphersOf(u)
<1>1. ASSUME NEW c \in Cipher
      PROVE  \/ cipher'[c] = cipher[c]
             \/ cipher[c].owner # u /\ cipher'[c].owner # u
  BY Absent DEF RowStep, NoCipher
<1>2. QED BY <1>1 DEF CiphersOf

LEMMA Dates ==
  ASSUME Typed
  PROVE  /\ now \in Nat /\ quiet \in Nat /\ \A u \in User : rev[u] \in Nat
         /\ \A k \in Client : copy[k].rev \in Nat /\ Account[k] \in User
         /\ \A k \in Client : copy[k].cipher \in [Cipher -> CipherRow]
         /\ \A r \in Request : req[r].known \in Nat
BY Accounted DEF Typed, TypeOK, Copy, RequestState

LEMMA RevisedUndated ==
  ASSUME RevisionInv, Typed', NEW r \in Request, req[r].op # "none", NEW q, Undated(r, q), Copied
  PROVE  Revised'
<1>1. /\ now \in Nat /\ quiet \in Nat /\ now' = now /\ quiet =< now /\ rev' = rev
      /\ quiet' \in {quiet, now} /\ req'[r] = q /\ Typed
      /\ \A s \in Request : s # r => req'[s] = req[s]
      /\ \A u \in User : rev[u] \in Nat /\ rev[u] =< now
      /\ \A k \in Client : Account[k] \in User
  BY Dates DEF RevisionInv, SerialInv, Revised, Undated, Became
<1>2. ~Writing(req[r]) => quiet' = quiet
  BY DEF Undated, Writing
<1>3. ASSUME \A s \in Request : ~Writing(req'[s])
      PROVE  \A u \in User : rev'[u] =< quiet'
  <2>1. CASE Writing(req[r])
    <3>1. quiet' = now
      BY <1>1, <1>3, <2>1 DEF Undated, Kin, Writing, Idle
    <3>2. QED BY <1>1, <3>1
  <2>2. CASE ~Writing(req[r])
    <3>1. \A s \in Request : ~Writing(req[s])
      BY <1>1, <1>3, <2>2
    <3>2. QED BY <1>1, <1>2, <2>2, <3>1 DEF RevisionInv, Revised
  <2>3. QED BY <2>1, <2>2
<1>4. ASSUME NEW s \in Request, Writing(req'[s])
      PROVE  /\ quiet' + Gap =< now'
             /\ req'[s].pc # "answer" => \A u \in User : rev'[u] =< quiet'
  <2>1. CASE s # r
    <3>1. req'[s] = req[s] /\ ~Writing(req[r])
      BY <1>1, <1>4, <2>1 DEF RevisionInv, SerialInv
    <3>2. QED BY <1>1, <1>2, <1>4, <3>1 DEF RevisionInv, Revised
  <2>2. CASE s = r
    <3>1. quiet' = quiet /\ Writing(req[r]) /\ req[r].pc # "answer"
      BY <1>1, <1>4, <2>2 DEF Undated, Kin, Writing, Idle
    <3>2. QED BY <1>1, <3>1 DEF RevisionInv, Revised
  <2>3. QED BY <2>1, <2>2
<1>5. \A k \in Client : copy'[k].rev =< rev'[Account[k]]
  BY <1>1 DEF Copied, RevisionInv, Revised
<1>6. ASSUME NEW s \in Request, req'[s].op = "sync"
      PROVE  req'[s].known =< rev'[Account[req'[s].client]]
  <2>1. req[s].op = "sync" /\ req'[s].known = req[s].known /\ req'[s].client = req[s].client
    BY <1>1, <1>6 DEF Undated, Kin, Idle
  <2>2. QED BY <1>1, <2>1 DEF RevisionInv, Revised, Holder
<1>7. quiet' =< now' /\ \A u \in User : rev'[u] =< now'
  BY <1>1
<1>8. QED BY <1>3, <1>4, <1>5, <1>6, <1>7 DEF Revised, Holder

LEMMA WithoutUndated ==
  ASSUME WithoutFolders, NEW r \in Request, NEW q, Undated(r, q), Copied
  PROVE  WithoutFolders'
<1>1. /\ req'[r] = q /\ \A s \in Request : s # r => req'[s] = req[s]
      /\ folder' = folder /\ q.op \notin FolderOps
  BY DEF Undated, Became, Kin, Idle, WithoutFolders, FolderOps
<1>2. QED BY <1>1 DEF WithoutFolders, Undated, Copied

\* A step that leaves the dates alone, and the client that has seen the latest.
LEMMA CleanUndated ==
  ASSUME RevisionInv, Typed', NEW r \in Request, NEW q, Undated(r, q), Copied,
         \A c \in Cipher : RowStep(r, c),
         NEW k \in Client, copy'[k].rev = rev'[Account[k]],
         \A s \in Request : Dirty(req'[s]) => Account[req'[s].client] # Account[k]
  PROVE  copy'[k].cipher = CiphersOf(Account[k])'
<1>1. /\ Typed /\ rev' = rev /\ req'[r] = q
      /\ \A s \in Request : s # r => req'[s] = req[s]
      /\ req[r].op \notin FolderOps
  BY DEF RevisionInv, SerialInv, Undated, Became, WithoutFolders
<1>2. cipher' = cipher => CiphersOf(Account[k])' = CiphersOf(Account[k])
  BY DEF CiphersOf
<1>3. CASE cipher' = cipher /\ copy'[k].cipher = CiphersOf(Account[k])
  BY <1>2, <1>3
<1>4. CASE ~(cipher' = cipher /\ copy'[k].cipher = CiphersOf(Account[k]))
  <2>1. /\ copy'[k].rev = copy[k].rev
        /\ \/ copy'[k] = copy[k]
           \/ /\ cipher' = cipher
              /\ \A c \in Cipher : \/ copy'[k].cipher[c] = copy[k].cipher[c]
                                   \/ copy'[k].cipher[c] = CiphersOf(Account[k])[c]
    BY <1>4 DEF Copied
  <2>2. Dirty(q) => q.client = req[r].client
    BY DEF Undated, Dirty, Idle, Kin
  <2>3. \A s \in Request : Dirty(req[s]) => Holder(s) # Account[k]
    BY <1>1, <2>2 DEF Undated, Holder
  <2>4. copy[k].cipher = CiphersOf(Account[k])
    BY <1>1, <2>1, <2>3 DEF RevisionInv
  <2>5. CASE cipher' = cipher
    <3>1. copy'[k].cipher \in [Cipher -> CipherRow]
      BY Dates DEF Typed, TypeOK, Copy
    <3>2. \A c \in Cipher : copy'[k].cipher[c] = CiphersOf(Account[k])[c]
      BY <2>1, <2>4
    <3>3. copy'[k].cipher = CiphersOf(Account[k])
      BY <3>1, <3>2 DEF CiphersOf
    <3>4. QED BY <1>2, <2>5, <3>3
  <2>6. CASE cipher' # cipher
    <3>1. copy'[k] = copy[k] /\ Dirty(q)
      BY <2>1, <2>6 DEF Undated
    <3>2. Holder(r) # Account[k] /\ Account[k] \in User
      BY <1>1, <2>2, <3>1, Accounted DEF Holder
    <3>3. CiphersOf(Account[k])' = CiphersOf(Account[k])
      BY <1>1, <3>2, OthersCiphers
    <3>4. QED BY <2>4, <3>1, <3>3
  <2>7. QED BY <2>5, <2>6
<1>5. QED BY <1>3, <1>4

\* The new revision date is later than any that has been seen.
LEMMA RevisionTouch ==
  ASSUME Gap >= Second, RevisionInv, NEW r \in Request, TouchRevision(r)
  PROVE  RevisionInv'
<1>1. Typed /\ SerialInv /\ Shape(r)
  BY ShapeOf DEF RevisionInv, SerialInv, Advance
<1>2. Typed' /\ SerialInv'
  BY <1>1, ShapeTyped, SerialShape
<1>3. /\ UNCHANGED <<cipher, folder, copy>> /\ req[r].pc = "touch" /\ Writing(req[r])
      /\ rev'[Holder(r)] = Seconds(now)
      /\ \A u \in User : u # Holder(r) => rev'[u] = rev[u]
  BY <1>1, TouchRevisionDoes
<1>4. Ends(r) \/ \E q : Moves(r, q) /\ Twin(q, req[r]) /\ q.pc = "answer"
  BY <1>1, TouchRevisionDoes DEF RevisionInv, WithoutFolders, FolderOps, Kin
<1>5. PICK q : /\ req'[r] = q /\ \A s \in Request : s # r => req'[s] = req[s]
               /\ now' = now /\ q.op \in {"none", req[r].op}
               /\ \A f \in Folder : q.folders[f] = NoFolder
               /\ \/ q = Idle /\ quiet' = now
                  \/ q.pc = "answer" /\ quiet' = quiet
  BY <1>3, <1>4 DEF Ends, Moves, Became, Twin, Kin, Idle, RevisionInv, WithoutFolders, Writing
<1>6. /\ now \in Nat /\ quiet \in Nat /\ \A u \in User : rev[u] \in Nat
      /\ \A k \in Client : copy[k].rev \in Nat /\ Account[k] \in User
      /\ \A s \in Request : req[s].known \in Nat
      /\ Holder(r) \in User
  BY <1>1, <1>3, Dates, Facts
<1>7. quiet + Gap =< now /\ \A u \in User : rev[u] =< quiet
  BY <1>3 DEF RevisionInv, Revised
<1>8. quiet < Seconds(now) /\ Seconds(now) =< now /\ Seconds(now) \in Nat
  BY <1>6, <1>7, Numbers, WholeSeconds
<1>9. \A u \in User : rev[u] =< rev'[u] /\ rev'[u] =< now /\ rev'[u] \in Nat
  BY <1>3, <1>6, <1>7, <1>8
<1>10. WithoutFolders'
  BY <1>3, <1>5 DEF RevisionInv, WithoutFolders, FolderOps, Idle
<1>11. \A s \in Request : s # r => ~Writing(req[s])
  BY <1>1, <1>3 DEF SerialInv
<1>12. Revised'
  <2>1. (\A s \in Request : ~Writing(req'[s])) => \A u \in User : rev'[u] =< quiet'
    <3>1. CASE q = Idle /\ quiet' = now
      BY <1>9, <3>1
    <3>2. CASE q.pc = "answer"
      <4>1. Writing(q)
        BY <1>2, <1>5, <3>2 DEF Typed, Placed, Stationed, Writing, Idle
      <4>2. QED BY <1>5, <4>1
    <3>3. QED BY <1>5, <3>1, <3>2
  <2>2. ASSUME NEW s \in Request, Writing(req'[s])
        PROVE  quiet' + Gap =< now' /\ req'[s].pc = "answer"
    BY <1>5, <1>7, <1>11, <2>2 DEF Writing, Idle
  <2>3. \A k \in Client : copy'[k].rev =< rev'[Account[k]]
    <3>1. ASSUME NEW k \in Client PROVE copy'[k].rev =< rev'[Account[k]]
      <4>1. copy'[k].rev =< rev[Account[k]]
        BY <1>3 DEF RevisionInv, Revised
      <4>2. QED BY <1>3, <1>6, <1>9, <4>1
    <3>2. QED BY <3>1
  <2>4. ASSUME NEW s \in Request, req'[s].op = "sync"
        PROVE  req'[s].known =< rev'[Account[req'[s].client]]
    <3>1. s # r /\ req'[s] = req[s]
      BY <1>3, <1>5, <2>4 DEF Writing, Idle
    <3>2. req[s].known =< rev[Account[req[s].client]] /\ Account[req[s].client] \in User
      BY <1>1, <2>4, <3>1, Facts DEF RevisionInv, Revised, Holder, Placed, Idle
    <3>3. QED BY <1>6, <1>9, <3>1, <3>2
  <2>5. quiet' =< now' /\ \A u \in User : rev'[u] =< now'
    BY <1>5, <1>6, <1>9 DEF RevisionInv, Revised
  <2>6. QED BY <2>1, <2>2, <2>3, <2>4, <2>5 DEF Revised, Holder
<1>13. ASSUME NEW k \in Client, copy'[k].rev = rev'[Account[k]],
              \A s \in Request : Dirty(req'[s]) => Account[req'[s].client] # Account[k]
       PROVE  copy'[k].cipher = CiphersOf(Account[k])'
  <2>1. Account[k] # Holder(r)
    <3>1. copy[k].rev =< quiet
      BY <1>6, <1>7 DEF RevisionInv, Revised
    <3>2. QED BY <1>3, <1>6, <1>8, <1>13, <3>1
  <2>2. copy[k].rev = rev[Account[k]]
    BY <1>3, <1>6, <1>13, <2>1
  <2>3. \A s \in Request : Dirty(req[s]) => Holder(s) # Account[k]
    BY <1>5, <1>13, <2>1 DEF Holder
  <2>4. copy[k].cipher = CiphersOf(Account[k])
    BY <2>2, <2>3 DEF RevisionInv
  <2>5. QED BY <1>3, <2>4 DEF CiphersOf
<1>14. QED BY <1>2, <1>10, <1>12, <1>13 DEF RevisionInv, Holder

LEMMA RevisionUndated ==
  ASSUME RevisionInv, NEW r \in Request, Advance(r), ~TouchRevision(r)
  PROVE  RevisionInv'
<1>1. Typed /\ SerialInv /\ WithoutFolders /\ Revised
  BY DEF RevisionInv, SerialInv
<1>2. Shape(r) /\ req[r].op # "none"
  BY <1>1, ShapeOf, Busy
<1>3. Typed' /\ SerialInv'
  BY <1>1, <1>2, ShapeTyped, SerialShape
<1>4. Copied
  BY <1>1, UndatedOf
<1>5. PICK q : Undated(r, q)
  BY <1>1, UndatedOf
<1>6. WithoutFolders' /\ Revised'
  BY <1>1, <1>2, <1>3, <1>4, <1>5, WithoutUndated, RevisedUndated
<1>7. \A c \in Cipher : RowStep(r, c)
  BY <1>2 DEF Shape
<1>8. ASSUME NEW k \in Client, copy'[k].rev = rev'[Account[k]],
             \A s \in Request : Dirty(req'[s]) => Account[req'[s].client] # Account[k]
      PROVE  copy'[k].cipher = CiphersOf(Account[k])'
  BY <1>3, <1>4, <1>5, <1>7, <1>8, CleanUndated
<1>9. QED BY <1>3, <1>6, <1>8 DEF RevisionInv, Holder

LEMMA RevisionInit == Init => RevisionInv
<1> SUFFICES ASSUME Init PROVE RevisionInv
  OBVIOUS
<1>1. SerialInv /\ Typed
  BY SerialInit, TypedInit
<1>2. /\ \A r \in Request : req[r] = Idle
      /\ now = Second + Gap /\ quiet = 0 /\ \A u \in User : rev[u] = 0
      /\ \A f \in Folder : folder[f] = NoFolder
      /\ \A k \in Client : copy[k].cipher = cipher /\ copy[k].folder = folder /\ copy[k].rev = 0
      /\ cipher = [c \in Cipher |-> NoCipher]
  BY DEF Init
<1>3. WithoutFolders
  BY <1>2 DEF WithoutFolders, Idle, FolderOps
<1>4. Revised
  BY <1>2, Numbers, Accounted DEF Revised, Idle, Writing
<1>5. \A k \in Client : copy[k].cipher = CiphersOf(Account[k])
  BY <1>2 DEF CiphersOf
<1>6. QED BY <1>1, <1>3, <1>4, <1>5 DEF RevisionInv


\* What the admission of a write changes: no client has seen a date newer than the last answer.
LEMMA RevisionAdmission ==
  ASSUME Gap >= Second, Op \cap FolderOps = {}, RevisionInv, NEW r \in Request, NEW q,
         Admission(r, q), SerialInv'
  PROVE  RevisionInv'
<1>1. Typed /\ SerialInv /\ WithoutFolders /\ Revised /\ Gap > 0
  BY Numbers DEF RevisionInv, SerialInv
<1>2. /\ req'[r] = q /\ \A s \in Request : s # r => req'[s] = req[s]
      /\ \A s \in Request : ~Writing(req[s])
      /\ UNCHANGED <<cipher, folder, rev, copy, now, quiet>> /\ quiet + Gap =< now
      /\ Writing(q) /\ q.op # "sync" /\ q.pc \in {"read", "check", "write", "folder"}
      /\ \A f \in Folder : q.folders[f] = NoFolder
  BY <1>1, AdmissionDoes DEF Admission, Became, Writing
<1>3. q.op \notin FolderOps /\ (q.flag /\ q.op \in {"restore", "delete"} => \E c \in Cipher : q.set = {c})
  BY DEF Admission
<1>4. WithoutFolders'
  BY <1>1, <1>2, <1>3 DEF WithoutFolders
<1>5. Revised'
  <2>1. \A s \in Request : Writing(req'[s]) => s = r
    BY <1>2
  <2>2. \A u \in User : rev[u] =< quiet
    BY <1>1, <1>2 DEF Revised
  <2>3. \A s \in Request : req'[s].op = "sync" => s # r /\ req'[s] = req[s]
    BY <1>2
  <2>4. QED BY <1>1, <1>2, <2>1, <2>2, <2>3 DEF Revised, Holder
<1>6. ASSUME NEW k \in Client, copy'[k].rev = rev'[Account[k]]
      PROVE  copy'[k].cipher = CiphersOf(Account[k])'
  <2>1. \A s \in Request : ~Dirty(req[s])
    BY <1>1, <1>2, Facts DEF Dirty, Writing, Placed, Stationed, Idle
  <2>2. copy[k].cipher = CiphersOf(Account[k])
    BY <1>2, <1>6, <2>1 DEF RevisionInv
  <2>3. QED BY <1>2, <2>2 DEF CiphersOf
<1>7. QED BY <1>4, <1>5, <1>6 DEF RevisionInv, Holder

\* A sync starts from the date that is stored.
LEMMA RevisionCheck ==
  ASSUME RevisionInv, NEW r \in Request, NEW k \in Client, CheckRevision(r, k), SerialInv'
  PROVE  RevisionInv'
<1>1. Typed /\ WithoutFolders /\ Revised
  BY DEF RevisionInv, SerialInv
<1>2. PICK q : /\ Moves(r, q) /\ q.pc = "folders" /\ q.op = "sync" /\ q.client = k
               /\ q.known = rev[Account[k]] /\ q.folders = [f \in Folder |-> NoFolder]
  BY <1>1, CheckRevisionDoes
<1>3. /\ req'[r] = q /\ \A s \in Request : s # r => req'[s] = req[s]
      /\ UNCHANGED <<cipher, folder, rev, copy, now, quiet>>
      /\ ~Writing(q) /\ ~Writing(req[r]) /\ ~Dirty(q) /\ ~Dirty(req[r])
      /\ \A f \in Folder : q.folders[f] = NoFolder
  BY <1>1, <1>2, CheckRevisionDoes, Facts DEF Moves, Became, Writing, Dirty, Placed, Idle
<1>4. WithoutFolders'
  BY <1>1, <1>2, <1>3 DEF WithoutFolders, FolderOps
<1>5. Revised'
  <2>1. \A s \in Request : Writing(req'[s]) <=> Writing(req[s])
    BY <1>3
  <2>2. \A s \in Request : Writing(req'[s]) => req'[s] = req[s]
    BY <1>3
  <2>3. rev[Account[k]] \in Nat
    BY <1>1, Dates
  <2>4. ASSUME NEW s \in Request, req'[s].op = "sync"
        PROVE  req'[s].known =< rev'[Account[req'[s].client]]
    <3>1. CASE s = r
      BY <1>2, <1>3, <2>3, <3>1
    <3>2. CASE s # r
      BY <1>1, <1>3, <2>4, <3>2 DEF Revised, Holder
    <3>3. QED BY <3>1, <3>2
  <2>5. QED BY <1>1, <1>3, <2>1, <2>2, <2>4 DEF Revised, Holder
<1>6. ASSUME NEW j \in Client, copy'[j].rev = rev'[Account[j]],
             \A s \in Request : Dirty(req'[s]) => Account[req'[s].client] # Account[j]
      PROVE  copy'[j].cipher = CiphersOf(Account[j])'
  <2>1. \A s \in Request : Dirty(req[s]) => Holder(s) # Account[j]
    BY <1>3, <1>6 DEF Holder
  <2>2. copy[j].cipher = CiphersOf(Account[j])
    BY <1>3, <1>6, <2>1 DEF RevisionInv
  <2>3. QED BY <1>3, <2>2 DEF CiphersOf
<1>7. QED BY <1>4, <1>5, <1>6 DEF RevisionInv, Holder

\* While nothing moves, dates only grow older.
LEMMA RevisionRest ==
  ASSUME RevisionInv, SerialInv', UNCHANGED <<cipher, folder, rev, copy, req, quiet>>,
         now' \in Nat, now =< now'
  PROVE  RevisionInv'
<1>1. /\ now \in Nat /\ quiet \in Nat /\ Gap \in Nat /\ \A u \in User : rev[u] \in Nat
      /\ WithoutFolders /\ Revised
  BY Dates, Numbers DEF RevisionInv, SerialInv
<1>2. WithoutFolders'
  BY <1>1 DEF WithoutFolders
<1>3. /\ quiet' =< now' /\ \A u \in User : rev'[u] =< now'
      /\ (\E s \in Request : Writing(req[s])) => quiet' + Gap =< now'
  BY <1>1 DEF Revised
<1>4. Revised'
  BY <1>1, <1>3 DEF Revised, Holder, Writing
<1>5. ASSUME NEW k \in Client, copy'[k].rev = rev'[Account[k]],
             \A s \in Request : Dirty(req'[s]) => Account[req'[s].client] # Account[k]
      PROVE  copy'[k].cipher = CiphersOf(Account[k])'
  <2>1. copy[k].cipher = CiphersOf(Account[k])
    BY <1>5 DEF RevisionInv, Holder
  <2>2. QED BY <2>1 DEF CiphersOf
<1>6. QED BY <1>2, <1>4, <1>5 DEF RevisionInv, Holder

LEMMA RevisionStep ==
  ASSUME Gap >= Second, "abort" \notin Faults, Op \cap FolderOps = {}
  PROVE  RevisionInv /\ [Next]_vars => RevisionInv'
<1> SUFFICES ASSUME RevisionInv, [Next]_vars PROVE RevisionInv'
  OBVIOUS
<1>1. Typed /\ SerialInv /\ SerialInv' /\ now \in Nat
  BY SerialStep, Numbers, Dates DEF RevisionInv, SerialInv
<1>2. CASE UNCHANGED vars
  BY <1>1, <1>2, RevisionRest DEF vars
<1>3. CASE Tick
  BY <1>1, <1>3, TickDoes, RevisionRest
<1>4. ASSUME NEW r \in Request, Arrive(r) PROVE RevisionInv'
  BY <1>1, <1>4, Arrived, RevisionAdmission, RevisionCheck
<1>5. ASSUME NEW r \in Request, Advance(r) PROVE RevisionInv'
  BY <1>5, RevisionTouch, RevisionUndated
<1>6. ASSUME NEW r \in Request, Abort(r) PROVE FALSE
  BY <1>6 DEF Abort
<1>7. QED BY <1>2, <1>3, <1>4, <1>5, <1>6 DEF Next

\* PickedUp: when writes follow one another at least a second apart, none of them fails midway and
\* none is of a folder, a client that has seen the revision date and meets no request under way has
\* what the server holds.  Each condition is one touchRevision depends on: it keeps whole seconds,
\* is a statement after the write, and is not called by the folder handlers.
THEOREM PickedUpSafe ==
  ASSUME Gap >= Second, "abort" \notin Faults, Op \cap FolderOps = {}
  PROVE  Spec => []PickedUp
<1>1. RevisionInv => PickedUp
  <2> SUFFICES ASSUME RevisionInv, \A r \in Request : At(r, "idle"),
                      NEW k \in Client, copy[k].rev = rev[Account[k]]
               PROVE  Current(k)
    BY DEF PickedUp
  <2>1. \A r \in Request : ~Dirty(req[r])
    BY DEF At, Dirty
  <2>2. copy[k].cipher = CiphersOf(Account[k])
    BY <2>1 DEF RevisionInv
  <2>3. copy[k].folder \in [Folder -> FolderRow]
    BY DEF RevisionInv, SerialInv, Typed, TypeOK, Copy
  <2>4. \A f \in Folder : copy[k].folder[f] = NoFolder /\ folder[f] = NoFolder
    BY DEF RevisionInv, WithoutFolders
  <2>5. copy[k].folder = FoldersOf(Account[k])
    BY <2>3, <2>4 DEF FoldersOf
  <2>6. QED BY <2>2, <2>5 DEF Current
<1>2. QED BY <1>1, RevisionInit, RevisionStep, PTL DEF Spec
=============================================================================
