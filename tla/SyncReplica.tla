---------------------------- MODULE SyncReplica ----------------------------
(***************************************************************************)
(* The local replica of the s3sync plugin (local_replica.rs): how the sync *)
(* engine reads and changes an attachment that its user edits too.         *)
(*                                                                         *)
(* One attachment, known by its key.  What a writer leaves in the file is  *)
(* a version of its own; its size and time of change, the version token,   *)
(* are taken to tell it from every other.  The engine (the rollforward     *)
(* crate) is no part of the repository: it calls the replica in any order, *)
(* with preconditions made of the tokens the replica gave it together with *)
(* contents.  A run of the plugin can be killed at any step.               *)
(***************************************************************************)
CONSTANT Versions

VARIABLES
    file,       \* the version in the file, as a set: none when there is no file
    used,       \* the versions that were ever in it
    edits,      \* those the user made
    superseded, \* those the user replaced or deleted
    trash,      \* those moved to .localref/trash
    call,         \* where the call of the engine is
    scoped,     \* the item's directory is known (scope_roots)
    delivered,  \* versions whose contents the engine has
    tokens,     \* version tokens the engine was given with contents
    raced       \* edits made while the replica was between two steps (history)

disk == <<file, used, superseded, trash>>
engine == <<scoped, delivered, tokens>>
user == <<edits, raced>>
replicaVars == <<disk, call, engine, user>>

ReplicaSteps == {"idle", "token", "write", "add", "copy", "stamp", "archive"}

\* Steps that rely on the file as an earlier one found it.
Windows == {"token", "write", "add", "copy", "stamp"}

ReplicaType ==
    /\ file = {} \/ \E v \in used : file = {v}
    /\ used \subseteq Versions /\ edits \subseteq used /\ superseded \subseteq used
    /\ trash \subseteq used /\ delivered \subseteq used /\ tokens \subseteq used
    /\ raced \subseteq edits
    /\ call \in ReplicaSteps /\ scoped \in BOOLEAN

ReplicaInit ==
    /\ file = {} /\ used = {} /\ edits = {} /\ superseded = {} /\ trash = {}
    /\ call = "idle" /\ scoped = FALSE /\ delivered = {} /\ tokens = {} /\ raced = {}

Fresh == Versions \ used

\* A writer leaves v in the file.
Put(v) == file' = {v} /\ used' = used \cup {v}

-----------------------------------------------------------------------------
(* The user, with an editor or a file manager.                             *)

Made(v) ==
    /\ edits' = edits \cup {v}
    /\ raced' = IF call \in Windows THEN raced \cup {v} ELSE raced

Edit(v) ==
    /\ v \in Fresh
    /\ Put(v) /\ Made(v)
    /\ superseded' = superseded \cup file
    /\ UNCHANGED <<trash, call, engine>>

Delete ==
    /\ file # {}
    /\ superseded' = superseded \cup file
    /\ file' = {}
    /\ UNCHANGED <<used, trash, call, engine, user>>

-----------------------------------------------------------------------------
(* Listing and reading.                                                    *)

\* The files of the item; from now on the directory of the key is known.
ListResources ==
    /\ call = "idle"
    /\ scoped' = TRUE
    /\ UNCHANGED <<disk, call, delivered, tokens, user>>

\* read_resources: the contents first ...
ReadData ==
    /\ call = "idle" /\ scoped /\ file # {}
    /\ delivered' = delivered \cup file
    /\ call' = "token"
    /\ UNCHANGED <<disk, scoped, tokens, user>>

Known == tokens' = tokens \cup file

\* ... then the token.  A file that is gone by now is left out of the answer.
ReadToken ==
    /\ call = "token"
    /\ Known
    /\ call' = "idle"
    /\ UNCHANGED <<disk, scoped, delivered, user>>

-----------------------------------------------------------------------------
(* apply_mutations.                                                        *)

\* WritePresent with a precondition, a token or Missing (the empty set), that
\* holds; one that does not changes nothing.
WritePresent(expected) ==
    /\ call = "idle" /\ scoped
    /\ expected \subseteq tokens /\ file = expected
    /\ call' = "write"
    /\ UNCHANGED <<disk, engine, user>>

\* fs::write in place, of contents the engine has.
Overwrite(v) ==
    /\ call = "write" /\ file # {} /\ v \in Fresh
    /\ Put(v)
    /\ delivered' = delivered \cup {v}
    /\ call' = "stamp"
    /\ UNCHANGED <<superseded, trash, scoped, tokens, user>>

\* fs::write or fs::copy fails, or the process ends in it: the file is cut short,
\* and the engine knows nothing of what is left.
CutShort(v) ==
    /\ (call = "write" /\ file # {}) \/ call = "copy"
    /\ v \in Fresh
    /\ Put(v)
    /\ call' = "idle"
    /\ UNCHANGED <<superseded, trash, engine, user>>

\* No file: the daemon is asked to add one.
AddAt ==
    /\ call = "write" /\ file = {}
    /\ call' = "add"
    /\ UNCHANGED <<disk, engine, user>>

\* The daemon refuses when there is a file by now, and the call ends in an error.
CheckTarget ==
    /\ call = "add"
    /\ call' = IF file = {} THEN "copy" ELSE "idle"
    /\ UNCHANGED <<disk, engine, user>>

\* fs::copy of the daemon, which replaces what it finds.
CopyIn(v) ==
    /\ call = "copy" /\ v \in Fresh
    /\ Put(v)
    /\ delivered' = delivered \cup {v}
    /\ call' = "stamp"
    /\ UNCHANGED <<superseded, trash, scoped, tokens, user>>

\* The token the engine is told its mutation has led to.  No file: an error.
Stamp ==
    /\ call = "stamp"
    /\ Known
    /\ call' = "idle"
    /\ UNCHANGED <<disk, scoped, delivered, user>>

\* ApplyDelete with a precondition that holds.
ApplyDelete(expected) ==
    /\ call = "idle" /\ scoped
    /\ expected \subseteq tokens /\ file = expected /\ file # {}
    /\ call' = "archive"
    /\ UNCHANGED <<disk, engine, user>>

\* The daemon moves the file to the trash, whatever it is by now.
Archive ==
    /\ call = "archive"
    /\ trash' = trash \cup file
    /\ file' = {}
    /\ call' = "idle"
    /\ UNCHANGED <<used, superseded, engine, user>>

\* CreateCopy where there is no file.
CreateCopy ==
    /\ call = "idle" /\ scoped /\ file = {}
    /\ call' = "add"
    /\ UNCHANGED <<disk, engine, user>>

\* CreateCopy where there is one with these very contents; with others it is refused.
SameCopy ==
    /\ call = "idle" /\ scoped /\ file # {}
    /\ delivered' = delivered \cup file
    /\ call' = "stamp"
    /\ UNCHANGED <<disk, scoped, tokens, user>>

\* An error, or the end of the plugin's process.  The engine's own store keeps the
\* tokens it has put there.
Fail ==
    /\ call' = "idle"
    /\ scoped' \in BOOLEAN
    /\ tokens' \in SUBSET tokens
    /\ UNCHANGED <<disk, delivered, user>>

User == Delete \/ \E v \in Versions : Edit(v)

Read == ListResources \/ ReadData \/ ReadToken

Mutate ==
    \/ \E expected \in {{}} \cup {{v} : v \in Versions} : WritePresent(expected) \/ ApplyDelete(expected)
    \/ \E v \in Versions : Overwrite(v) \/ CutShort(v) \/ CopyIn(v)
    \/ AddAt \/ CheckTarget \/ Stamp \/ Archive \/ CreateCopy \/ SameCopy

ReplicaNext == User \/ Read \/ Mutate \/ Fail

ReplicaSpec == ReplicaInit /\ [][ReplicaNext]_replicaVars

-----------------------------------------------------------------------------
(* No edit of the user is lost: it is in the file, the engine has its      *)
(* contents, it is in the trash, or the user replaced it himself.  The     *)
(* exception are edits made between two steps of the replica that belong   *)
(* together: the contents and the token of a reading, the precondition and *)
(* the writing, the writing and its token.                                 *)
EditsKept ==
    edits \ raced \subseteq file \cup delivered \cup trash \cup superseded

(* An edit that the engine holds a token of is one whose contents it has,  *)
(* or one made at such a moment: then it takes it for something else.      *)
TokensBacked == tokens \cap edits \subseteq delivered \cup raced
=============================================================================
