----------------------------- MODULE ModelStore -----------------------------
(***************************************************************************)
(* The pinned models of liteparse-rag (models.rs).                         *)
(*                                                                         *)
(* The download action fetches the assets one after the other into a       *)
(* temporary file, compares the SHA-256 of what it received with a table,  *)
(* and renames it into place.  Extractions verify the installed files and  *)
(* never download.  Every run is a process of its own, nothing keeps two   *)
(* downloads apart, and assets of one directory whose names differ only in *)
(* their extension have the same temporary file.                           *)
(*                                                                         *)
(* A path leads to a file, and a process that has a file open keeps it     *)
(* when the path is renamed or removed.  Contents are arrays of pieces,    *)
(* Blank where nothing was written; one is the digest of itself.           *)
(***************************************************************************)
EXTENDS Naturals

CONSTANTS
    Assets,      \* their number; they are taken in the order of their numbers
    Temporaries, \* paths of temporary files
    Temporary,   \* the one of each asset
    Pieces, Blank,
    Size,        \* pieces of a content
    Pinned,      \* the content whose digest is in the table, by asset
    Inodes,       \* files, named by a path or not
    None,        \* no file
    Processes         \* processes of the plugin

Content == [1..Size -> Pieces]
Empty == [o \in 1..Size |-> Blank]

VARIABLES
    content,   \* of the files
    path,      \* the file each asset is installed as
    temporary, \* the file of each temporary path
    lock,      \* model-lock.json: a revision, and the assets it has another digest of
    place,        \* where a run is
    download,  \* whether it is a download
    at,        \* the asset it is at
    mine,      \* its copy of the lock
    file,      \* the file it has open
    offset,    \* the pieces it has read or written
    body,      \* what they were: the input of its digest
    known,     \* assets that were verified, installed or both (history)
    shared        \* temporary paths two downloads were at together (history)

run == <<place, download, at, mine, file, offset, body>>
storeVars == <<content, path, temporary, lock, run, known, shared>>

Revisions == {"none", "earlier", "current", "other"}
ModelLock == [revision : Revisions, differs : SUBSET (1..Assets)]

Fetching == {"verify", "request", "receive", "check", "publish", "rename"}

StoreType ==
    /\ content \in [Inodes -> Content]
    /\ path \in [1..Assets -> Inodes \cup {None}]
    /\ temporary \in [Temporaries -> Inodes \cup {None}]
    /\ lock \in ModelLock
    /\ place \in [Processes -> {"idle", "next", "save", "ready"} \cup Fetching]
    /\ download \in [Processes -> BOOLEAN]
    /\ at \in [Processes -> 1..Assets + 1]
    /\ \A r \in Processes : place[r] \in Fetching => at[r] <= Assets
    /\ mine \in [Processes -> ModelLock]
    /\ file \in [Processes -> Inodes \cup {None}]
    /\ offset \in [Processes -> 0..Size] /\ body \in [Processes -> Content]
    /\ known \subseteq 1..Assets /\ shared \subseteq Temporaries

\* Every path leads to a file of its own.
Apart ==
    /\ \A a, b \in 1..Assets : path[a] = path[b] /\ path[a] # None => a = b
    /\ \A t, u \in Temporaries : temporary[t] = temporary[u] /\ temporary[t] # None => t = u
    /\ \A a \in 1..Assets, t \in Temporaries : path[a] = temporary[t] => path[a] = None

\* The cache can be of any age, and hold what killed downloads left.
StoreInit ==
    /\ content \in [Inodes -> Content] /\ lock \in ModelLock
    /\ path \in [1..Assets -> Inodes \cup {None}]
    /\ temporary \in [Temporaries -> Inodes \cup {None}]
    /\ Apart
    /\ place = [r \in Processes |-> "idle"] /\ download = [r \in Processes |-> FALSE]
    /\ at = [r \in Processes |-> 1] /\ mine = [r \in Processes |-> lock]
    /\ file = [r \in Processes |-> None]
    /\ offset = [r \in Processes |-> 0] /\ body = [r \in Processes |-> Empty]
    /\ known = {} /\ shared = {}

GoTo(r, step) == place' = [place EXCEPT ![r] = step]
Opens(r, f) ==
    /\ file' = [file EXCEPT ![r] = f]
    /\ offset' = [offset EXCEPT ![r] = 0]
    /\ body' = [body EXCEPT ![r] = Empty]
Closes(r) == file' = [file EXCEPT ![r] = None]

-----------------------------------------------------------------------------
\* ensure and download: the lock, which if unreadable is as if it were none.
StartRun(r, downloads, asRead) ==
    /\ place[r] = "idle"
    /\ asRead \in {lock, [revision |-> "none", differs |-> {}]}
    /\ asRead.revision # "other"
    /\ GoTo(r, "next")
    /\ download' = [download EXCEPT ![r] = downloads]
    /\ at' = [at EXCEPT ![r] = 1]
    /\ mine' = [mine EXCEPT ![r] = [asRead EXCEPT !.revision = "current"]]
    /\ UNCHANGED <<content, path, temporary, lock, file, offset, body, known, shared>>

\* ensure_model: an asset that is there is verified, one that is not downloaded.
TakeAsset(r) ==
    /\ place[r] = "next" /\ at[r] <= Assets
    /\ \/ path[at[r]] # None
          /\ GoTo(r, "verify") /\ Opens(r, path[at[r]])
       \/ path[at[r]] = None /\ download[r]
          /\ GoTo(r, "request") /\ UNCHANGED <<file, offset, body>>
    /\ shared' = IF download[r] /\ \E q \in Processes \ {r} :
                     /\ download[q] /\ place[q] \in Fetching
                     /\ Temporary[at[q]] = Temporary[at[r]]
              THEN shared \cup {Temporary[at[r]]} ELSE shared
    /\ UNCHANGED <<content, path, temporary, lock, download, at, mine, known>>

\* sha256_file.
ReadPiece(r) ==
    /\ place[r] = "verify" /\ offset[r] < Size
    /\ offset' = [offset EXCEPT ![r] = @ + 1]
    /\ body' = [body EXCEPT ![r][offset[r] + 1] = content[file[r]][offset[r] + 1]]
    /\ UNCHANGED <<content, path, temporary, lock, place, download, at, mine, file, known, shared>>

Installed(r) ==
    /\ GoTo(r, "next")
    /\ at' = [at EXCEPT ![r] = @ + 1]
    /\ known' = known \cup {at[r]}

\* A lock with another digest is an error, also of a download.
Verified(r) ==
    /\ place[r] = "verify" /\ offset[r] = Size
    /\ body[r] = Pinned[at[r]] /\ at[r] \notin mine[r].differs
    /\ Installed(r)
    /\ Closes(r)
    /\ UNCHANGED <<content, path, temporary, lock, download, mine, offset, body, shared>>

Mismatch(r) ==
    /\ place[r] = "verify" /\ offset[r] = Size
    /\ body[r] # Pinned[at[r]] /\ download[r]
    /\ GoTo(r, "request")
    /\ Closes(r)
    /\ UNCHANGED <<content, path, temporary, lock, download, at, mine, offset, body,
                   known, shared>>

Unused(f) ==
    /\ \A a \in 1..Assets : path[a] # f
    /\ \A t \in Temporaries : temporary[t] # f
    /\ \A r \in Processes : file[r] # f

\* The request is answered: File::create takes the file that is there, and empties it.
Create(r, f) ==
    /\ place[r] = "request"
    /\ LET t == Temporary[at[r]] IN
       /\ IF temporary[t] = None THEN Unused(f) ELSE f = temporary[t]
       /\ temporary' = [temporary EXCEPT ![t] = f]
    /\ content' = [content EXCEPT ![f] = Empty]
    /\ GoTo(r, "receive") /\ Opens(r, f)
    /\ UNCHANGED <<path, lock, download, at, mine, known, shared>>

\* A chunk goes into the digest and to the place the writer is at.
Receive(r, piece) ==
    /\ place[r] = "receive" /\ offset[r] < Size
    /\ offset' = [offset EXCEPT ![r] = @ + 1]
    /\ body' = [body EXCEPT ![r][offset[r] + 1] = piece]
    /\ content' = [content EXCEPT ![file[r]][offset[r] + 1] = piece]
    /\ UNCHANGED <<path, temporary, lock, place, download, at, mine, file, known, shared>>

EndOfBody(r) ==
    /\ place[r] = "receive"
    /\ GoTo(r, "check")
    /\ Closes(r)
    /\ UNCHANGED <<content, path, temporary, lock, download, at, mine, offset, body,
                   known, shared>>

Matches(r) ==
    /\ place[r] = "check" /\ body[r] = Pinned[at[r]]
    /\ GoTo(r, "publish")
    /\ UNCHANGED <<content, path, temporary, lock, download, at, mine, file, offset, body,
                   known, shared>>

\* "downloaded model checksum mismatch"
DiscardDownload(r) ==
    /\ place[r] = "check" /\ body[r] # Pinned[at[r]]
    /\ temporary' = [temporary EXCEPT ![Temporary[at[r]]] = None]
    /\ GoTo(r, "idle")
    /\ UNCHANGED <<content, path, lock, download, at, mine, file, offset, body, known, shared>>

Remove(r) ==
    /\ place[r] = "publish"
    /\ path' = [path EXCEPT ![at[r]] = None]
    /\ GoTo(r, "rename")
    /\ UNCHANGED <<content, temporary, lock, download, at, mine, file, offset, body,
                   known, shared>>

Rename(r) ==
    /\ place[r] = "rename"
    /\ LET t == Temporary[at[r]] IN
       /\ temporary[t] # None
       /\ path' = [path EXCEPT ![at[r]] = temporary[t]]
       /\ temporary' = [temporary EXCEPT ![t] = None]
    /\ Installed(r)
    /\ mine' = [mine EXCEPT ![r].differs = @ \ {at[r]}]
    /\ UNCHANGED <<content, lock, download, file, offset, body, shared>>

\* Every asset is there: the lock is written.  Two writers at once may leave one that does
\* not parse, and is read as none.
Save(r) ==
    /\ place[r] = "next" /\ at[r] = Assets + 1
    /\ lock' = mine[r]
    /\ GoTo(r, IF download[r] THEN "idle" ELSE "ready")
    /\ UNCHANGED <<content, path, temporary, download, at, mine, file, offset, body,
                   known, shared>>

\* The extraction with the models, once ensure has answered.
FinishDownload(r) ==
    /\ place[r] = "ready"
    /\ GoTo(r, "idle")
    /\ UNCHANGED <<content, path, temporary, lock, download, at, mine, file, offset, body,
                   known, shared>>

\* An error, the missing file of an extraction among them, or the end of the process.
GiveUp(r) ==
    /\ place[r] # "idle"
    /\ GoTo(r, "idle")
    /\ Closes(r)
    /\ UNCHANGED <<content, path, temporary, lock, download, at, mine, offset, body,
                   known, shared>>

-----------------------------------------------------------------------------
Step(r) ==
    \/ \E downloads \in BOOLEAN, asRead \in ModelLock : StartRun(r, downloads, asRead)
    \/ TakeAsset(r) \/ ReadPiece(r) \/ Verified(r) \/ Mismatch(r)
    \/ \E f \in Inodes : Create(r, f)
    \/ \E piece \in Pieces \ {Blank} : Receive(r, piece)
    \/ EndOfBody(r) \/ Matches(r) \/ DiscardDownload(r) \/ Remove(r) \/ Rename(r)
    \/ Save(r) \/ FinishDownload(r) \/ GiveUp(r)

StoreNext == \E r \in Processes : Step(r)

StoreSpec == StoreInit /\ [][StoreNext]_storeVars

-----------------------------------------------------------------------------
Right(a) == path[a] # None /\ content[path[a]] = Pinned[a]

(* What was verified or installed once is the pinned content from then on, *)
(* with whatever other downloads fail, are killed or are repeated, unless  *)
(* two were at assets of one temporary file together.                      *)
KnownRight == \A a \in known : Temporary[a] \notin shared => Right(a)

(* An extraction that ensure has answered has every model as pinned.       *)
ReadyRight ==
    \A r \in Processes : place[r] = "ready" /\ ~download[r] =>
        \A a \in 1..Assets : Temporary[a] \notin shared => Right(a)
=============================================================================
