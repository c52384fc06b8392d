---------------------------- MODULE CipherStore ----------------------------
(***************************************************************************)
(* The encrypted vault the Bitwarden clients share: bitwarden_ciphers,     *)
(* bitwarden_folders and the account revision date (users.updated_at),     *)
(* with the handlers under /api/ciphers, /api/folders, /api/trash and      *)
(* /api/sync.  Each step of a request is one SQL statement; a statement    *)
(* that fails ends its request.                                            *)
(*                                                                         *)
(* An encrypted payload is the number of the write that produced it.       *)
(* Dates are clock ticks, and the revision date keeps whole seconds only.  *)
(* A client holds the copy of its last sync, brought up to date by the     *)
(* answers to its own writes.                                              *)
(***************************************************************************)
EXTENDS Naturals, FiniteSets

CONSTANTS User,
          Client,    \* logged-in clients
          Account,   \* the account of each client
          Cipher,    \* cipher identifiers, never reused
          Folder,    \* folder identifiers, never reused
          Request,   \* slots for the requests being served
          Op,        \* the operations the clients ask for
          Faults,    \* what may go wrong: "abort"
          Second,    \* ticks in a second
          Gap,       \* 0: writes overlap; else they follow one another this many ticks apart
          MaxTime,   \* the clock stops here
          MaxWrites, \* no write is admitted after this many
          None       \* no owner, folder or cipher

VaultOps == {"create", "update", "overwrite", "partial", "favorite", "trash", "restore",
             "delete", "empty", "import", "newFolder", "rename", "deleteFolder", "sync"}

ASSUME VaultAssumption == /\ Account \in [Client -> User]
                          /\ None \notin User \cup Cipher \cup Folder
                          /\ Op \subseteq VaultOps
                          /\ Faults \subseteq {"abort"}
                          /\ Second \in Nat \ {0} /\ Gap \in Nat
                          /\ MaxTime \in Nat /\ MaxWrites \in Nat

VARIABLES cipher,  \* bitwarden_ciphers
          folder,  \* bitwarden_folders
          rev,     \* users.updated_at
          copy,    \* what each client has: ciphers, folders and the revision date
          req,     \* the requests being served
          now,     \* the clock
          quiet,   \* when the last write was answered
          writes   \* the number of the last write

vars == <<cipher, folder, rev, copy, req, now, quiet, writes>>
tables == <<cipher, folder, rev>>
counters == <<now, quiet, writes>>

-----------------------------------------------------------------------------
CipherRow == [owner : User \cup {None}, body : Nat, folder : Folder \cup {None},
              favorite : BOOLEAN, trash : BOOLEAN, updated : Nat]
FolderRow == [owner : User \cup {None}, name : Nat, used : BOOLEAN]

NoCipher == [owner |-> None, body |-> 0, folder |-> None, favorite |-> FALSE,
             trash |-> FALSE, updated |-> 0]

NoFolder == [owner |-> None, name |-> 0, used |-> FALSE]

Copy == [cipher : [Cipher -> CipherRow], folder : [Folder -> FolderRow], rev : Nat]

Pc == {"idle", "read", "check", "write", "touch", "answer", "folder", "folders", "ciphers"}

\* set: the ciphers still to write; left: those still to import; seen: the client's payload.
RequestState == [pc : Pc, op : VaultOps \cup {"none"}, client : Client \cup {None},
                 cipher : Cipher \cup {None}, folder : Folder \cup {None}, flag : BOOLEAN,
                 body : Nat, seen : Nat, known : Nat, set : SUBSET Cipher, left : Nat,
                 folders : [Folder -> FolderRow]]

Idle == [pc |-> "idle", op |-> "none", client |-> None, cipher |-> None, folder |-> None,
         flag |-> FALSE, body |-> 0, seen |-> 0, known |-> 0, set |-> {}, left |-> 0,
         folders |-> [f \in Folder |-> NoFolder]]

TypeOK == /\ cipher \in [Cipher -> CipherRow]
          /\ folder \in [Folder -> FolderRow]
          /\ rev \in [User -> Nat]
          /\ copy \in [Client -> Copy]
          /\ req \in [Request -> RequestState]
          /\ now \in Nat /\ quiet \in Nat /\ writes \in Nat
          /\ \A c \in Cipher : cipher[c].owner # None => cipher[c].body \in 1..writes

Init == /\ cipher = [c \in Cipher |-> NoCipher]
        /\ folder = [f \in Folder |-> NoFolder]
        /\ rev = [u \in User |-> 0]
        /\ copy = [k \in Client |-> [cipher |-> cipher, folder |-> folder, rev |-> 0]]
        /\ req = [r \in Request |-> Idle]
        /\ now = Second + Gap /\ quiet = 0 /\ writes = 0

-----------------------------------------------------------------------------
At(r, pc) == req[r].pc = pc
Goto(r, pc) == req' = [req EXCEPT ![r].pc = pc]

\* The request is answered, or a statement of it failed.
Finish(r) == /\ req' = [req EXCEPT ![r] = Idle]
             /\ quiet' = IF req[r].op = "sync" THEN quiet ELSE now
             /\ UNCHANGED <<now, writes>>

Holder(r) == Account[req[r].client]
Owned(u) == {c \in Cipher : cipher[c].owner = u}
OwnFolder(u, f) == folder[f].owner = u

\* folderByID, when the request names a folder.
FolderFound(r) == req[r].folder = None \/ OwnFolder(Holder(r), req[r].folder)

\* The foreign key of folder_id, which knows no owner.
FolderExists(r) == req[r].folder = None \/ folder[req[r].folder].owner # None

\* touchRevision formats the time as RFC 3339, without the fraction of the second.
Seconds(t) == t - (t % Second)

\* A client asks for a write.
Admit(r, k, op, new) ==
  /\ op \in Op /\ At(r, "idle")
  /\ writes < MaxWrites /\ now >= quiet + Gap
  /\ Gap > 0 => \A s \in Request : req[s].op \in {"none", "sync"}
  /\ writes' = writes + 1
  /\ req' = [req EXCEPT ![r] = [new EXCEPT !.op = op, !.client = k, !.body = writes + 1]]
  /\ UNCHANGED <<tables, copy, now, quiet>>

-----------------------------------------------------------------------------
(* Creating and importing ciphers.                                            *)

\* Identifiers are left (a deleted cipher keeps its date, so that its own is not drawn again).
Unused(n) == Cardinality({c \in Cipher : cipher[c] = NoCipher}) >= n

FreshFolder == \E f \in Folder : ~folder[f].used

CreateCipher(r, k, f, fav) ==
  /\ Unused(1)
  /\ Admit(r, k, "create", [Idle EXCEPT !.pc = "check", !.folder = f, !.flag = fav])

\* A folder of the account, or a new one, for n ciphers.
ImportCiphers(r, k, f, n) ==
  LET known == f # None /\ OwnFolder(Account[k], f) IN
  /\ Unused(n)
  /\ known \/ FreshFolder
  /\ Admit(r, k, "import", [Idle EXCEPT !.pc = IF known THEN "check" ELSE "folder",
                                          !.folder = IF known THEN f ELSE None, !.left = n])

CreateFolder(r, k) == FreshFolder /\ Admit(r, k, "newFolder", [Idle EXCEPT !.pc = "folder"])

\* createFolder draws a new identifier.
InsertFolder(r) ==
  /\ At(r, "folder")
  /\ \E f \in Folder :
       /\ ~folder[f].used
       /\ folder' = [folder EXCEPT ![f] = [owner |-> Holder(r), name |-> req[r].body, used |-> TRUE]]
       /\ IF req[r].op = "import"
          THEN /\ req' = [req EXCEPT ![r].pc = "check", ![r].folder = f]
               /\ UNCHANGED counters
          ELSE Finish(r)
  /\ UNCHANGED <<cipher, rev, copy>>

CheckFolder(r) ==
  /\ At(r, "check")
  /\ IF FolderFound(r) THEN Goto(r, "write") /\ UNCHANGED counters ELSE Finish(r)
  /\ UNCHANGED <<tables, copy>>

\* createCipher.
InsertCipher(r) ==
  /\ At(r, "write") /\ req[r].op \in {"create", "import"}
  /\ \E c \in Cipher :
       /\ cipher[c] = NoCipher
       /\ IF FolderExists(r)
          THEN /\ cipher' = [cipher EXCEPT ![c] =
                    [owner |-> Holder(r), body |-> req[r].body, folder |-> req[r].folder,
                     favorite |-> req[r].flag, trash |-> FALSE, updated |-> now]]
               /\ req' = [req EXCEPT ![r].pc = "touch", ![r].cipher = c]
               /\ UNCHANGED counters
          ELSE Finish(r) /\ UNCHANGED cipher
  /\ UNCHANGED <<folder, rev, copy>>

-----------------------------------------------------------------------------
(* Changing ciphers.                                                          *)

\* update sends the date of the client's copy, overwrite does not.
UpdateCipher(r, k, c, f, fav, op) ==
  /\ op \in {"update", "overwrite"} /\ copy[k].cipher[c].owner # None
  /\ Admit(r, k, op, [Idle EXCEPT !.pc = "read", !.cipher = c, !.folder = f, !.flag = fav,
                        !.seen = copy[k].cipher[c].body, !.known = copy[k].cipher[c].updated])

CipherPartial(r, k, c, f, fav) ==
  /\ copy[k].cipher[c].owner # None
  /\ Admit(r, k, "partial", [Idle EXCEPT !.pc = "read", !.cipher = c, !.folder = f, !.flag = fav])

\* Seeded fault: the client's date is not compared.
NeverStale(r) == FALSE

\* handleUpdateCipher tolerates one second.
Stale(r) == req[r].op = "update" /\ cipher[req[r].cipher].updated > req[r].known + Second

\* Seeded fault: a partial update stores a payload of its own.
RequestBody(r) == req[r].body

\* Seeded fault: a partial update forgets the payload.
NoBody(r) == IF req[r].op = "partial" THEN 0 ELSE req[r].body

\* A partial update writes back the payload it has read.
NewBody(r) == IF req[r].op = "partial" THEN cipher[req[r].cipher].body ELSE req[r].body

ReadCipher(r) ==
  /\ At(r, "read")
  /\ IF req[r].cipher \in Owned(Holder(r)) /\ ~Stale(r)
     THEN req' = [req EXCEPT ![r].pc = "check", ![r].body = NewBody(r)] /\ UNCHANGED counters
     ELSE Finish(r)
  /\ UNCHANGED <<tables, copy>>

\* updateCipher: every column of the row, whatever it holds by now.
WriteCipher(r) ==
  LET c == req[r].cipher IN
  /\ At(r, "write") /\ req[r].op \in {"update", "overwrite", "partial"}
  /\ IF c \in Owned(Holder(r)) /\ FolderExists(r)
     THEN /\ cipher' = [cipher EXCEPT ![c] = [@ EXCEPT !.body = req[r].body,
                !.folder = req[r].folder, !.favorite = req[r].flag, !.updated = now]]
          /\ Goto(r, "touch") /\ UNCHANGED counters
     ELSE Finish(r) /\ UNCHANGED cipher
  /\ UNCHANGED <<folder, rev, copy>>

FavoriteCipher(r, k, c, fav) ==
  Admit(r, k, "favorite", [Idle EXCEPT !.pc = "write", !.cipher = c, !.flag = fav])
TrashCipher(r, k, c) == Admit(r, k, "trash", [Idle EXCEPT !.pc = "write", !.cipher = c])

\* setCipherFavorite and setCipherDeleted.
SetColumn(r) ==
  LET c == req[r].cipher IN
  /\ At(r, "write") /\ req[r].op \in {"favorite", "trash"}
  /\ IF c \in Owned(Holder(r))
     THEN /\ cipher' = [cipher EXCEPT ![c] =
               IF req[r].op = "trash" THEN [@ EXCEPT !.trash = TRUE, !.updated = now]
               ELSE [@ EXCEPT !.favorite = req[r].flag, !.updated = now]]
          /\ Goto(r, "touch") /\ UNCHANGED counters
     ELSE Finish(r) /\ UNCHANGED cipher
  /\ UNCHANGED <<folder, rev, copy>>

\* Several ciphers, one statement each; only the delete of a single one is an error when
\* the cipher is not there.
RestoreCiphers(r, k, set) == Admit(r, k, "restore", [Idle EXCEPT !.pc = "write", !.set = set])
DeleteCiphers(r, k, set) == Admit(r, k, "delete", [Idle EXCEPT !.pc = "write", !.set = set])
DeleteCipher(r, k, c) ==
  Admit(r, k, "delete", [Idle EXCEPT !.pc = "write", !.set = {c}, !.flag = TRUE])

Removed(row) == [NoCipher EXCEPT !.updated = row.updated]

WriteNext(r, c) ==
  LET left == req[r].set \ {c} IN
  /\ At(r, "write") /\ req[r].op \in {"restore", "delete"} /\ c \in req[r].set
  /\ cipher' = IF c \notin Owned(Holder(r)) THEN cipher
               ELSE IF req[r].op = "delete" THEN [cipher EXCEPT ![c] = Removed(@)]
               ELSE [cipher EXCEPT ![c] = [@ EXCEPT !.trash = FALSE, !.updated = now]]
  /\ IF req[r].flag /\ c \notin Owned(Holder(r)) THEN Finish(r)
     ELSE /\ req' = [req EXCEPT ![r].set = left, ![r].pc = IF left = {} THEN "touch" ELSE "write"]
          /\ UNCHANGED counters
  /\ UNCHANGED <<folder, rev, copy>>

EmptyTrash(r, k) == Admit(r, k, "empty", [Idle EXCEPT !.pc = "write"])

DeleteTrash(r) ==
  /\ At(r, "write") /\ req[r].op = "empty"
  /\ cipher' = [c \in Cipher |-> IF c \in Owned(Holder(r)) /\ cipher[c].trash
                                 THEN Removed(cipher[c]) ELSE cipher[c]]
  /\ Goto(r, "touch")
  /\ UNCHANGED <<folder, rev, copy, counters>>

-----------------------------------------------------------------------------
(* The revision date and the answer.                                          *)

\* Seeded fault: the revision date stays where it is.
Untouched(r) == rev

Touched(r) == [rev EXCEPT ![Holder(r)] = Seconds(now)]

\* An import goes on with its next cipher; the bulk operations answer without a row.
TouchRevision(r) ==
  /\ At(r, "touch")
  /\ rev' = Touched(r)
  /\ IF req[r].left > 1
     THEN req' = [req EXCEPT ![r].pc = "check", ![r].left = @ - 1] /\ UNCHANGED counters
     ELSE IF req[r].cipher = None \/ req[r].op = "import" THEN Finish(r)
     ELSE Goto(r, "answer") /\ UNCHANGED counters
  /\ UNCHANGED <<cipher, folder, copy>>

\* The row is read back and the client keeps it; a trash is answered without it.
Answer(r) ==
  LET c == req[r].cipher IN
  /\ At(r, "answer")
  /\ copy' = IF c \in Owned(Holder(r)) /\ req[r].op # "trash"
             THEN [copy EXCEPT ![req[r].client].cipher[c] = cipher[c]] ELSE copy
  /\ Finish(r)
  /\ UNCHANGED tables

-----------------------------------------------------------------------------
(* Folders: neither renaming nor deleting one touches the revision date.      *)

RenameFolder(r, k, f) ==
  Admit(r, k, "rename", [Idle EXCEPT !.pc = "write", !.folder = f])
DeleteFolder(r, k, f) ==
  Admit(r, k, "deleteFolder", [Idle EXCEPT !.pc = "write", !.folder = f])

\* Seeded fault: the ciphers keep the folder.
Kept(f) == cipher

\* ON DELETE SET NULL.
Unassigned(f) == [c \in Cipher |-> IF cipher[c].folder = f THEN [cipher[c] EXCEPT !.folder = None]
                                   ELSE cipher[c]]

WriteFolder(r) ==
  LET f == req[r].folder IN
  /\ At(r, "write") /\ req[r].op \in {"rename", "deleteFolder"}
  /\ IF ~OwnFolder(Holder(r), f) THEN UNCHANGED <<folder, cipher>>
     ELSE IF req[r].op = "rename"
     THEN folder' = [folder EXCEPT ![f].name = req[r].body] /\ UNCHANGED cipher
     ELSE folder' = [folder EXCEPT ![f] = [NoFolder EXCEPT !.used = TRUE]] /\ cipher' = Unassigned(f)
  /\ Finish(r)
  /\ UNCHANGED <<rev, copy>>

-----------------------------------------------------------------------------
(* A client compares revision dates and syncs when they differ.               *)

CheckRevision(r, k) ==
  /\ "sync" \in Op /\ At(r, "idle")
  /\ \A s \in Request : req[s].client # k
  /\ rev[Account[k]] # copy[k].rev
  /\ req' = [req EXCEPT ![r] = [Idle EXCEPT !.pc = "folders", !.op = "sync", !.client = k,
                                  !.known = rev[Account[k]]]]
  /\ UNCHANGED <<tables, copy, counters>>

FoldersOf(u) == [f \in Folder |-> IF folder[f].owner = u THEN folder[f] ELSE NoFolder]
CiphersOf(u) == [c \in Cipher |-> IF cipher[c].owner = u THEN cipher[c] ELSE NoCipher]

SyncFolders(r) ==
  /\ At(r, "folders")
  /\ req' = [req EXCEPT ![r].pc = "ciphers", ![r].folders = FoldersOf(Holder(r))]
  /\ UNCHANGED <<tables, copy, counters>>

SyncCiphers(r) ==
  /\ At(r, "ciphers")
  /\ copy' = [copy EXCEPT ![req[r].client] = [cipher |-> CiphersOf(Holder(r)),
                                                folder |-> req[r].folders, rev |-> req[r].known]]
  /\ Finish(r)
  /\ UNCHANGED tables

-----------------------------------------------------------------------------
\* A statement fails, or the client hangs up before it.
Abort(r) == /\ "abort" \in Faults /\ ~At(r, "idle")
            /\ Finish(r) /\ UNCHANGED <<tables, copy>>

Tick == /\ now < MaxTime /\ now' = now + 1
        /\ UNCHANGED <<tables, copy, req, quiet, writes>>

Arrive(r) == \E k \in Client :
  \/ \E f \in Folder \cup {None}, fav \in BOOLEAN :
       \/ CreateCipher(r, k, f, fav)
       \/ \E c \in Cipher : CipherPartial(r, k, c, f, fav)
       \/ \E c \in Cipher, op \in {"update", "overwrite"} : UpdateCipher(r, k, c, f, fav, op)
  \/ \E f \in Folder \cup {None}, n \in 1..2 : ImportCiphers(r, k, f, n)
  \/ \E c \in Cipher, fav \in BOOLEAN : FavoriteCipher(r, k, c, fav)
  \/ \E c \in Cipher : TrashCipher(r, k, c) \/ DeleteCipher(r, k, c)
  \/ \E set \in SUBSET Cipher \ {{}} : RestoreCiphers(r, k, set) \/ DeleteCiphers(r, k, set)
  \/ EmptyTrash(r, k) \/ CreateFolder(r, k)
  \/ \E f \in Folder : RenameFolder(r, k, f) \/ DeleteFolder(r, k, f)
  \/ CheckRevision(r, k)

Advance(r) ==
  \/ InsertFolder(r) \/ CheckFolder(r) \/ InsertCipher(r) \/ ReadCipher(r) \/ WriteCipher(r)
  \/ SetColumn(r) \/ (\E c \in Cipher : WriteNext(r, c)) \/ DeleteTrash(r)
  \/ TouchRevision(r) \/ Answer(r) \/ WriteFolder(r) \/ SyncFolders(r) \/ SyncCiphers(r)

Next == (\E r \in Request : Arrive(r) \/ Advance(r) \/ Abort(r)) \/ Tick

Spec == Init /\ [][Next]_vars

\* Requests are served, and clients keep asking for the revision date.
FairSpec == /\ Spec
            /\ \A r \in Request : WF_vars(Advance(r))
            /\ \A k \in Client : WF_vars(\E r \in Request : CheckRevision(r, k))

-----------------------------------------------------------------------------
(* Correctness properties.                                                    *)

\* The copy of k is what the server holds for its account.
Current(k) == /\ copy[k].cipher = CiphersOf(Account[k])
              /\ copy[k].folder = FoldersOf(Account[k])

\* touchRevision lets clients pick up vault changes at their next check: with no request
\* under way, a client that has seen the account's revision date has its contents.
PickedUp ==
  (\A r \in Request : At(r, "idle"))
    => \A k \in Client : copy[k].rev = rev[Account[k]] => Current(k)

\* Clients that keep asking end up with what the server holds, once writes stop.
Converges == <>[](\A k \in Client : Current(k))

\* Every cipher in a folder is in a folder of its own account that exists.
FoldersResolve ==
  \A c \in Cipher : cipher[c].folder # None
    => cipher[c].owner # None /\ folder[cipher[c].folder].owner = cipher[c].owner

\* The write of request r happens in this step.
Writes(r) == At(r, "write") /\ req'[r].pc = "touch"

\* A dated update replaces the version its client has seen (the stale-write check of
\* handleUpdateCipher: "the client's copy must match what the server has").
StaleWritesRejected ==
  [][\A r \in Request : req[r].op = "update" /\ Writes(r)
       => cipher[req[r].cipher].body = req[r].seen]_vars

\* A partial update leaves the encrypted payload as it is (handleCipherPartial).
PayloadUntouched ==
  [][\A r \in Request : req[r].op = "partial" /\ Writes(r)
       => cipher'[req[r].cipher].body = cipher[req[r].cipher].body]_vars
=============================================================================
