----------------------------- MODULE ItemWrites -----------------------------
(***************************************************************************)
(* The writers of ONE item of a localref library (crates/core): the        *)
(* requests that read and rewrite All/<item>/metadata.toml, each on the    *)
(* thread of its caller (REST handler, FFI call, connector upload), at the *)
(* grain of the filesystem calls they make.                                *)
(*                                                                         *)
(* There is no writer thread: what orders the requests is the lock FILE    *)
(* they create under .localref/locks and the temporary file of             *)
(* atomic_write, and both survive a crash.  The operations do not all use  *)
(* the same lock key: some lock the item id, some the path of the item     *)
(* directory, one locks nothing.                                           *)
(*                                                                         *)
(* A document stands for the text of metadata.toml: the set of edits it    *)
(* reflects (one per request, so two texts are equal iff they carry the    *)
(* same edits and files) and the files its [files] table lists; which of   *)
(* them is `main` is abstracted.  Pause modes and the task queue are in    *)
(* module TaskQueue with the several steps of a reindex; the category      *)
(* links are in module CategorySync.                                       *)
(***************************************************************************)
EXTENDS Naturals, FiniteSets

CONSTANTS
    Requests,    \* the calls made to the daemon, each at most once
    Operations,  \* the kinds of call made, a subset of AllOperations
    Files,       \* names of attachments in the item directory
    NoFile,      \* no attachment named
    NoOne,       \* no request
    MaxFaults    \* bound on crashes and failed disk writes together

IdKeyed  == {"extra", "cats", "delete"}
DirKeyed == {"patch", "addFile", "upload", "attach"}
Unlocked == {"archive"}
AllOperations == IdKeyed \cup DirKeyed \cup Unlocked

ASSUME OperationsAssumption == Operations \subseteq AllOperations
ASSUME MaxFaultsAssumption == MaxFaults \in Nat
ASSUME NoFileAssumption == NoFile \notin Files
ASSUME NoOneAssumption == NoOne \notin Requests

VARIABLES
    meta,       \* metadata.toml
    tmp,        \* .metadata.toml.localref-tmp, the staging file of atomic_write
    tmpOwner,   \* the request that has that file open
    dir,        \* does All/<item> exist
    saved,      \* does metadata.daemon.toml, a refused candidate, exist
    disk,       \* the attachments present in All/<item>
    indexed,    \* does the query index hold the item
    lockFiles,  \* keys whose lock file exists under .localref/locks
    pc,         \* where each request is
    op,         \* its operation
    file,       \* the attachment it names or creates
    snap,       \* the document it is working from: fetched, then read
    result,     \* what its caller was told
    faults,     \* crashes and write errors so far
    missed,     \* history: writers that changed meta since this request read it
    published,  \* history: requests that renamed a document into place
    clobbered,  \* history: <<w, v>> when w rewrote meta without v's change
    trashed,    \* history: attachments some archive moved to the trash
    emptied     \* history: a delete removed the entries of the directory

stage == <<tmp, tmpOwner>>
call == <<op, file>>
hist == <<missed, published, clobbered, emptied>>
vars == <<meta, stage, dir, saved, disk, indexed, lockFiles, pc, call, snap,
          result, faults, hist, trashed>>

-----------------------------------------------------------------------------
(* Documents *)

Doc == [state : {"absent", "torn", "whole"},
        edits : SUBSET Requests, files : SUBSET Files]

Absent == [state |-> "absent", edits |-> {}, files |-> {}]
Torn   == [state |-> "torn", edits |-> {}, files |-> {}]

Steps == {"idle", "lookup", "acquire", "file", "read", "candidate", "open",
          "write", "rename", "empty", "rmdir", "reindex", "unlock", "done"}

\* The steps at which a request that locks holds its lock file.
LockedSteps == {"file", "read", "candidate", "open", "write", "rename",
                "empty", "rmdir"}

\* Mutant of KeyOf: the extra edits of a plugin lock its namespace.
KeyOfNamespace(o) == CASE o = "extra" -> "namespace" [] o \in IdKeyed -> "id"
                       [] o \in DirKeyed -> "dir" [] OTHER -> "none"

\* lib.rs: the key each operation passes to LockManager::acquire.
KeyOf(o) == CASE o \in IdKeyed -> "id" [] o \in DirKeyed -> "dir"
              [] OTHER -> "none"

Locks(r) == op[r] \notin Unlocked

\* set_item_extra and delete_item rebuild the index before their guard drops.
IndexesUnderLock(r) == op[r] \in {"extra", "delete"}

Holds(r) == /\ Locks(r)
            /\ \/ pc[r] \in LockedSteps \cup {"unlock"}
               \/ pc[r] = "reindex" /\ IndexesUnderLock(r)

Goto(r, step) == pc' = [pc EXCEPT ![r] = step]

\* Mutant of Fail: an error path that leaves without dropping the guard.
FailWithoutDrop(r) == /\ Goto(r, "done")
                      /\ result' = [result EXCEPT ![r] = "error"]

\* `?`: the error goes to the caller and the lock guard, if any, drops.
Fail(r) == /\ Goto(r, IF Holds(r) THEN "unlock" ELSE "done")
           /\ result' = [result EXCEPT ![r] = "error"]

\* Mutant of Edited: the categories are written from a parsed struct that drops
\* what it does not know.
EditedFromStruct(r) ==
    CASE op[r] \in {"addFile", "upload", "attach"} ->
           [snap[r] EXCEPT !.edits = @ \cup {r}, !.files = @ \cup {file[r]}]
      [] op[r] = "cats" -> [snap[r] EXCEPT !.edits = {r}]
      [] OTHER -> [snap[r] EXCEPT !.edits = @ \cup {r}]

\* The document a read-modify-write makes of the text it read.
Edited(r) ==
    CASE op[r] \in {"addFile", "upload", "attach"} ->
           [snap[r] EXCEPT !.edits = @ \cup {r}, !.files = @ \cup {file[r]}]
      [] op[r] = "archive" ->
           [snap[r] EXCEPT !.edits = @ \cup {r}, !.files = @ \ {file[r]}]
      [] OTHER -> [snap[r] EXCEPT !.edits = @ \cup {r}]

-----------------------------------------------------------------------------
Init ==
    /\ meta = [state |-> "whole", edits |-> {}, files |-> {}]
    /\ tmp = Absent /\ tmpOwner = NoOne
    /\ dir = TRUE /\ saved = FALSE /\ disk = {} /\ indexed = TRUE
    /\ lockFiles = {}
    /\ pc = [r \in Requests |-> "idle"]
    /\ op = [r \in Requests |-> "none"]
    /\ file = [r \in Requests |-> NoFile]
    /\ snap = [r \in Requests |-> Absent]
    /\ result = [r \in Requests |-> "none"]
    /\ faults = 0
    /\ missed = [r \in Requests |-> {}]
    /\ published = {} /\ clobbered = {} /\ trashed = {} /\ emptied = FALSE

\* A call arrives.  The caller of patch_metadata built its document, and the
\* revision it expects, from the text it fetched (get_metadata).
Arrive(r, o, f) ==
    /\ pc[r] = "idle"
    /\ o = "patch" => meta.state = "whole"
    /\ o = "archive" => f # NoFile
    /\ o \notin {"addFile", "archive"} => f = NoFile
    /\ Goto(r, "lookup")
    /\ op' = [op EXCEPT ![r] = o]
    /\ file' = [file EXCEPT ![r] = f]
    /\ snap' = [snap EXCEPT ![r] = IF o = "patch" THEN meta ELSE Absent]
    /\ UNCHANGED <<meta, stage, dir, saved, disk, indexed, lockFiles, result,
                   faults, hist, trashed>>

\* What an operation needs before it takes its lock: add_file, upload and
\* delete canonicalize the item directory (ensure_inside_all), archive needs
\* its source to be a file.
Ready(r) == /\ op[r] \in {"addFile", "upload", "delete"} => dir
            /\ op[r] = "archive" => file[r] \in disk

\* storage.get_item.  A connector attachment comes with its directory and asks
\* the index nothing; deleting an item that is not indexed answers Ok(false).
Lookup(r) ==
    /\ pc[r] = "lookup"
    /\ LET found == indexed \/ op[r] = "attach"
       IN \/ /\ ~found /\ op[r] = "delete"
             /\ Goto(r, "done")
             /\ result' = [result EXCEPT ![r] = "absent"]
          \/ /\ \/ ~found /\ op[r] # "delete"
                \/ found /\ ~Ready(r)
             /\ Fail(r)
          \/ /\ found /\ Ready(r)
             /\ Goto(r, IF Locks(r) THEN "acquire" ELSE "file")
             /\ UNCHANGED result
    /\ UNCHANGED <<meta, stage, dir, saved, disk, indexed, lockFiles, call,
                   snap, faults, hist, trashed>>

\* Mutant of Acquire: the lock file is opened with create, not create_new.
AcquireExisting(r) ==
    /\ pc[r] = "acquire"
    /\ lockFiles' = lockFiles \cup {KeyOf(op[r])}
    /\ Goto(r, CASE op[r] \in {"addFile", "upload", "attach"} -> "file"
                 [] op[r] = "delete" -> "empty"
                 [] OTHER -> "read")
    /\ UNCHANGED <<meta, stage, dir, saved, disk, indexed, call, snap, result,
                   faults, hist, trashed>>

\* LockManager::acquire: create_new of the lock file; a file that is already
\* there, held or left by a crash, is a Conflict.  Nobody waits.
Acquire(r) ==
    /\ pc[r] = "acquire"
    /\ \/ /\ KeyOf(op[r]) \in lockFiles
          /\ Fail(r)
          /\ UNCHANGED lockFiles
       \/ /\ KeyOf(op[r]) \notin lockFiles
          /\ lockFiles' = lockFiles \cup {KeyOf(op[r])}
          /\ Goto(r, CASE op[r] \in {"addFile", "upload", "attach"} -> "file"
                       [] op[r] = "delete" -> "empty"
                       [] OTHER -> "read")
          /\ UNCHANGED result
    /\ UNCHANGED <<meta, stage, dir, saved, disk, indexed, call, snap, faults,
                   hist, trashed>>

\* The lines that name the owner cannot be written: the error returns before
\* there is a guard, and the lock file stays.
AcquireFails(r) ==
    /\ pc[r] = "acquire" /\ faults < MaxFaults
    /\ KeyOf(op[r]) \notin lockFiles
    /\ lockFiles' = lockFiles \cup {KeyOf(op[r])}
    /\ faults' = faults + 1
    /\ Fail(r)
    /\ UNCHANGED <<meta, stage, dir, saved, disk, indexed, call, snap, hist,
                   trashed>>

-----------------------------------------------------------------------------
(* The attachment itself *)

\* Mutant of CopyTo: the error of fs::copy is dropped.
CopyToUnchecked(r) ==
    /\ pc[r] = "file" /\ op[r] = "addFile" /\ file[r] # NoFile
    /\ Goto(r, "read")
    /\ UNCHANGED <<meta, stage, dir, saved, disk, indexed, lockFiles, call,
                   snap, result, faults, hist, trashed>>

\* add_file_to_item_at with a relative path: the target must be free, and
\* create_dir_all(parent) creates the item directory if it is gone.
CopyTo(r) ==
    /\ pc[r] = "file" /\ op[r] = "addFile" /\ file[r] # NoFile
    /\ \/ /\ file[r] \in disk
          /\ Fail(r)
          /\ UNCHANGED <<dir, disk>>
       \/ /\ file[r] \notin disk
          /\ dir' = TRUE
          /\ disk' = disk \cup {file[r]}
          /\ Goto(r, "read")
          /\ UNCHANGED result
    /\ UNCHANGED <<meta, stage, saved, indexed, lockFiles, call, snap, faults,
                   hist, trashed>>

\* A name nothing has yet (unique_item_file_path, write_attachment).  A copy
\* needs the directory; atomic_write creates it.
WriteUnique(r) ==
    /\ pc[r] = "file" /\ op[r] \in DirKeyed /\ file[r] = NoFile
    /\ \/ /\ op[r] = "addFile" /\ ~dir
          /\ Fail(r)
          /\ UNCHANGED <<dir, disk, file>>
       \/ /\ op[r] = "addFile" => dir
          /\ \E f \in Files \ disk :
                /\ disk' = disk \cup {f}
                /\ file' = [file EXCEPT ![r] = f]
          /\ dir' = TRUE
          /\ Goto(r, "read")
          /\ UNCHANGED result
    /\ UNCHANGED <<meta, stage, saved, indexed, lockFiles, op, snap, faults,
                   hist, trashed>>

\* archive_item_file moves the file to .localref/trash first.
MoveToTrash(r) ==
    /\ pc[r] = "file" /\ op[r] = "archive"
    /\ \/ /\ file[r] \notin disk
          /\ Fail(r)
          /\ UNCHANGED <<disk, trashed>>
       \/ /\ file[r] \in disk
          /\ disk' = disk \ {file[r]}
          /\ trashed' = trashed \cup {file[r]}
          /\ Goto(r, "read")
          /\ UNCHANGED result
    /\ UNCHANGED <<meta, stage, dir, saved, indexed, lockFiles, call, snap,
                   faults, hist>>

-----------------------------------------------------------------------------
(* Read, modify, write *)

\* Mutant of RevisionMatches: the revision is not compared.
RevisionIgnored(r) == TRUE

\* write_metadata_if_revision: the text has the revision the caller fetched.
RevisionMatches(r) == meta = snap[r]

\* read_to_string and the edit of what was read.
Read(r) ==
    /\ pc[r] = "read"
    /\ missed' = [missed EXCEPT ![r] = {}]
    /\ \/ /\ meta.state = "absent" /\ op[r] \notin {"addFile", "upload", "attach"}
          /\ Fail(r)
          /\ UNCHANGED snap
       \/ /\ meta.state = "absent" /\ op[r] \in {"addFile", "upload", "attach"}
          /\ Goto(r, "unlock")            \* no metadata.toml to append to: Ok
          /\ UNCHANGED <<snap, result>>
       \/ /\ meta.state = "torn" /\ op[r] # "patch"      \* does not parse
          /\ Fail(r)
          /\ UNCHANGED snap
       \/ /\ meta.state # "absent" /\ op[r] = "patch"
          /\ Goto(r, IF RevisionMatches(r) THEN "open" ELSE "candidate")
          /\ UNCHANGED <<snap, result>>
       \/ /\ meta.state = "whole" /\ op[r] \in {"extra", "cats"}
          /\ Goto(r, IF IndexesUnderLock(r) THEN "reindex" ELSE "unlock")
          /\ UNCHANGED <<snap, result>>       \* edited == current: no write
       \/ /\ meta.state # "absent" /\ op[r] # "patch"
          /\ meta.state = "torn" => op[r] \in {"extra", "cats"}  \* valid TOML
          /\ snap' = [snap EXCEPT ![r] = meta]
          /\ Goto(r, "open")
          /\ UNCHANGED result
    /\ UNCHANGED <<meta, stage, dir, saved, disk, indexed, lockFiles, call,
                   faults, published, clobbered, emptied, trashed>>

\* The revision is not the expected one: the candidate goes to
\* metadata.daemon.toml and the caller is told of the conflict.
SaveCandidate(r) ==
    /\ pc[r] = "candidate"
    /\ dir' = TRUE /\ saved' = TRUE
    /\ Fail(r)
    /\ UNCHANGED <<meta, stage, disk, indexed, lockFiles, call, snap, faults,
                   hist, trashed>>

\* Mutant of OpenTmp: File::create truncates a staging file that exists.
OpenTmpTruncating(r) ==
    /\ pc[r] = "open"
    /\ dir' = TRUE
    /\ tmp' = Torn /\ tmpOwner' = r
    /\ Goto(r, "write")
    /\ UNCHANGED <<meta, saved, disk, indexed, lockFiles, call, snap, result,
                   faults, hist, trashed>>

\* atomic_write: create_dir_all(parent), then create_new of the staging file.
OpenTmp(r) ==
    /\ pc[r] = "open"
    /\ dir' = TRUE
    /\ \/ /\ tmp.state # "absent"
          /\ Fail(r)
          /\ UNCHANGED stage
       \/ /\ tmp.state = "absent"
          /\ tmp' = Torn /\ tmpOwner' = r
          /\ Goto(r, "write")
          /\ UNCHANGED result
    /\ UNCHANGED <<meta, saved, disk, indexed, lockFiles, call, snap, faults,
                   hist, trashed>>

\* write_all and sync_all, into the file this request opened: when
\* remove_dir_all has unlinked it the bytes go nowhere.
WriteTmp(r) ==
    /\ pc[r] = "write"
    /\ tmp' = IF tmpOwner = r THEN Edited(r) ELSE tmp
    /\ Goto(r, "rename")
    /\ UNCHANGED <<meta, tmpOwner, dir, saved, disk, indexed, lockFiles, call,
                   snap, result, faults, hist, trashed>>

\* Mutant of WriteFails: the error of the write is dropped.
WriteFailsUnnoticed(r) ==
    /\ pc[r] = "write" /\ faults < MaxFaults
    /\ faults' = faults + 1
    /\ Goto(r, "rename")
    /\ UNCHANGED <<meta, stage, dir, saved, disk, indexed, lockFiles, call,
                   snap, result, hist, trashed>>

\* The write fails (disk full): `?` leaves the staging file behind.
WriteFails(r) ==
    /\ pc[r] = "write" /\ faults < MaxFaults
    /\ faults' = faults + 1
    /\ tmpOwner' = IF tmpOwner = r THEN NoOne ELSE tmpOwner
    /\ Fail(r)
    /\ UNCHANGED <<meta, tmp, dir, saved, disk, indexed, lockFiles, call, snap,
                   hist, trashed>>

\* History of a change of metadata.toml by w.
Changed(w) == [r \in Requests |-> missed[r] \cup {w}]

\* fs::rename of whatever file now has the staging name.
Rename(r) ==
    /\ pc[r] = "rename"
    /\ \/ /\ tmp.state = "absent"
          /\ Fail(r)
          /\ UNCHANGED <<meta, stage, missed, published, clobbered>>
       \/ /\ tmp.state # "absent"
          /\ meta' = tmp
          /\ tmp' = Absent /\ tmpOwner' = NoOne
          /\ missed' = Changed(r)
          /\ published' = published \cup {r}
          /\ clobbered' = clobbered \cup {<<r, v>> : v \in missed[r]}
          /\ Goto(r, IF IndexesUnderLock(r) \/ ~Locks(r)
                       THEN "reindex" ELSE "unlock")
          /\ UNCHANGED result
    /\ UNCHANGED <<dir, saved, disk, indexed, lockFiles, call, snap, faults,
                   emptied, trashed>>

-----------------------------------------------------------------------------
(* delete_item: remove_dir_all unlinks the entries, then the directory *)

RemoveEntries(r) ==
    /\ pc[r] = "empty"
    /\ \/ /\ ~dir
          /\ Fail(r)
          /\ UNCHANGED <<meta, stage, saved, disk, missed, emptied>>
       \/ /\ dir
          /\ meta' = Absent /\ tmp' = Absent /\ tmpOwner' = NoOne
          /\ saved' = FALSE /\ disk' = {} /\ emptied' = TRUE
          /\ missed' = Changed(r)
          /\ Goto(r, "rmdir")
          /\ UNCHANGED result
    /\ UNCHANGED <<dir, indexed, lockFiles, call, snap, faults, published,
                   clobbered, trashed>>

\* Something created in the meantime: the directory is not empty.
RemoveDir(r) ==
    /\ pc[r] = "rmdir"
    /\ \/ /\ meta.state # "absent" \/ tmp.state # "absent" \/ saved \/ disk # {}
          /\ Fail(r)
          /\ UNCHANGED dir
       \/ /\ meta.state = "absent" /\ tmp.state = "absent" /\ ~saved /\ disk = {}
          /\ dir' = FALSE
          /\ Goto(r, "reindex")
          /\ UNCHANGED result
    /\ UNCHANGED <<meta, stage, saved, disk, indexed, lockFiles, call, snap,
                   faults, hist, trashed>>

-----------------------------------------------------------------------------
\* storage.rebuild_from_all, then get_item for those that answer the item.  A
\* metadata.toml that does not parse is skipped.
Reindex(r) ==
    /\ pc[r] = "reindex"
    /\ indexed' = (meta.state = "whole")
    /\ result' = [result EXCEPT ![r] =
                    IF indexed' \/ op[r] \in {"attach", "delete"}
                      THEN "ok" ELSE "error"]
    /\ Goto(r, IF IndexesUnderLock(r) THEN "unlock" ELSE "done")
    /\ UNCHANGED <<meta, stage, dir, saved, disk, lockFiles, call, snap,
                   faults, hist, trashed>>

\* FsLock::drop removes the lock file.
Unlock(r) ==
    /\ pc[r] = "unlock"
    /\ lockFiles' = lockFiles \ {KeyOf(op[r])}
    /\ Goto(r, IF result[r] = "none" THEN "reindex" ELSE "done")
    /\ UNCHANGED <<meta, stage, dir, saved, disk, indexed, call, snap, result,
                   faults, hist, trashed>>

\* The process dies: every thread stops where it is, files stay.
Crash ==
    /\ faults < MaxFaults
    /\ faults' = faults + 1
    /\ \E r \in Requests : pc[r] \notin {"idle", "done"}
    /\ pc' = [r \in Requests |-> IF pc[r] = "idle" THEN "idle" ELSE "done"]
    /\ result' = [r \in Requests |->
                    IF pc[r] \in {"idle", "done"} THEN result[r] ELSE "lost"]
    /\ tmpOwner' = NoOne
    /\ UNCHANGED <<meta, tmp, dir, saved, disk, indexed, lockFiles, call, snap,
                   hist, trashed>>

Step(r) ==
    \/ Lookup(r) \/ Acquire(r)
    \/ CopyTo(r) \/ WriteUnique(r) \/ MoveToTrash(r)
    \/ Read(r) \/ SaveCandidate(r)
    \/ OpenTmp(r) \/ WriteTmp(r) \/ Rename(r)
    \/ RemoveEntries(r) \/ RemoveDir(r)
    \/ Reindex(r) \/ Unlock(r)

Next ==
    \/ \E r \in Requests :
          \/ \E o \in Operations, f \in Files \cup {NoFile} : Arrive(r, o, f)
          \/ Step(r)
          \/ AcquireFails(r) \/ WriteFails(r)
    \/ Crash

Spec == Init /\ [][Next]_vars

-----------------------------------------------------------------------------
(* Properties *)

TypeOK ==
    /\ meta \in Doc /\ tmp \in Doc
    /\ tmpOwner \in Requests \cup {NoOne}
    /\ dir \in BOOLEAN /\ saved \in BOOLEAN /\ indexed \in BOOLEAN
    /\ disk \subseteq Files /\ trashed \subseteq Files
    /\ lockFiles \subseteq {"id", "dir"}
    /\ pc \in [Requests -> Steps]
    /\ op \in [Requests -> AllOperations \cup {"none"}]
    /\ file \in [Requests -> Files \cup {NoFile}]
    /\ snap \in [Requests -> Doc]
    /\ result \in [Requests -> {"none", "ok", "error", "absent", "lost"}]
    /\ faults \in 0..MaxFaults
    /\ missed \in [Requests -> SUBSET Requests]
    /\ published \subseteq Requests /\ emptied \in BOOLEAN
    /\ clobbered \subseteq Requests \X Requests

(* Two operations that lock the same key never overwrite each other: what  *)
(* one publishes was computed from a text that already had the other's     *)
(* change.  (write_metadata_if_revision, set_item_extra, ...: read and     *)
(* rename under one guard.)                                                *)
SameKeyNoOverwrite ==
    \A w, v \in Requests : <<w, v>> \in clobbered =>
        ~ ({op[w], op[v]} \subseteq IdKeyed \/ {op[w], op[v]} \subseteq DirKeyed)

(* A published edit is still in metadata.toml unless an operation of       *)
(* another key (or of none) rewrote the file from an older text, or the    *)
(* item was being deleted.                                                 *)
EditsSurvive ==
    \A v \in published :
        \/ v \in meta.edits
        \/ emptied
        \/ \E w \in Requests : <<w, v>> \in clobbered /\ KeyOf(op[w]) # KeyOf(op[v])
        \/ \E w \in Requests : <<w, v>> \in clobbered /\ op[w] \in Unlocked

(* metadata.toml is a whole document at all times, crashes and failed      *)
(* writes included: only while the directory is being deleted can a rename *)
(* publish the half-written staging file of another request.               *)
NeverTorn == meta.state = "torn" => emptied

(* The files metadata lists exist: only an archive (which moves first and  *)
(* edits second) or a delete leaves a dangling entry.                      *)
ListedFilesExist ==
    meta.state = "whole" => \A f \in meta.files \ disk : f \in trashed \/ emptied

(* Every path out of an operation, errors included, gives back its lock    *)
(* file and its staging file; only a crash or a failed write leaks one.    *)
NothingLeaks ==
    faults = 0 =>
        /\ \A k \in lockFiles : \E r \in Requests : Holds(r) /\ KeyOf(op[r]) = k
        /\ tmp.state # "absent" => pc[tmpOwner] \in {"write", "rename"}

(* The patch of a caller replaces exactly the text the caller had fetched, *)
(* unless a writer of another key came between its check and its rename.   *)
PatchIsCompareAndSwap ==
    [][\A r \in Requests :
          op[r] = "patch" /\ r \in published' \ published /\ missed[r] = {}
            => meta = snap[r]]_vars

(* What a request renames into place is the document it computed, never    *)
(* the staging file of another: create_new keeps them apart, unless the    *)
(* delete of the item unlinked the request's own.                          *)
PublishesItsOwn ==
    [][\A r \in published' \ published : meta' = Edited(r) \/ emptied]_vars

(* lock.rs:3-6: the locks "serialize daemon write commands and surface     *)
(* conflicts instead of silently overwriting": no command rewrites         *)
(* metadata.toml from a text that lacks the change of another.             *)
WritesSerialized == clobbered = {}
=============================================================================
