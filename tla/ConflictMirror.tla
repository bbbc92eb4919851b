--------------------------- MODULE ConflictMirror ---------------------------
(***************************************************************************)
(* Conflicts of the s3sync plugin (main.rs): the runs that change them,    *)
(* and the file that mirrors them for the plugin's page.                   *)
(*                                                                         *)
(* Each run is a process of its own.  One that syncs, rolls back or        *)
(* resolves opens the engine's database, which admits one process; the     *)
(* page is rendered by runs that read the mirror only, at any time.  What  *)
(* the engine (the rollforward crate) does to its conflicts is arbitrary,  *)
(* but for the one it is told to resolve.  Any run can be killed.          *)
(***************************************************************************)
CONSTANTS
    Runs,
    Conflicts

VARIABLES
    opener,  \* the run that has the database open, if any (a set)
    stage,       \* where that run is
    asked,    \* the conflict it is to resolve, if any (a set)
    pending,  \* the engine's conflicts
    mirror,   \* conflicts-v2.json: the set of conflicts in it, or no file (a set)
    staged,   \* its staging file, likewise
    page,     \* the rows of the page the user looks at
    behind    \* a run has ended without bringing the mirror up to date (history)

mirrorVars == <<opener, stage, asked, pending, mirror, staged, page, behind>>
files == <<mirror, staged>>

MirrorType ==
    /\ opener = {} \/ \E r \in Runs : opener = {r}
    /\ stage \in {"none", "engine", "stage", "remove", "rename"}
    /\ asked = {} \/ \E c \in Conflicts : asked = {c}
    /\ pending \subseteq Conflicts /\ page \subseteq Conflicts
    /\ mirror = {} \/ \E m \in SUBSET Conflicts : mirror = {m}
    /\ staged = {} \/ \E m \in SUBSET Conflicts : staged = {m}
    /\ behind \in BOOLEAN

MirrorInit ==
    /\ opener = {} /\ stage = "none" /\ asked = {} /\ pending = {}
    /\ mirror = {} /\ staged = {} /\ page = {} /\ behind = FALSE

\* The database is closed, by the end of the run or of its process.
Close == opener' = {} /\ stage' = "none" /\ asked' = {}

-----------------------------------------------------------------------------
\* A sync or a rollback; a run that finds the database open answers an error.
Open(r) ==
    /\ opener = {}
    /\ opener' = {r} /\ stage' = "engine"
    /\ UNCHANGED <<asked, pending, files, page, behind>>

\* A resolution of a row of the page.
OpenToResolve(r, c) ==
    /\ opener = {} /\ c \in page
    /\ opener' = {r} /\ stage' = "engine" /\ asked' = {c}
    /\ UNCHANGED <<pending, files, page, behind>>

\* "the selected conflict is no longer pending"
NotPending ==
    /\ stage = "engine" /\ asked # {} /\ ~ asked \subseteq pending
    /\ Close
    /\ UNCHANGED <<pending, files, page, behind>>

\* reconcile, rollback or resolve has succeeded.
Engine(after) ==
    /\ stage = "engine" /\ asked \subseteq pending
    /\ asked \cap after = {}
    /\ pending' = after
    /\ stage' = "stage"
    /\ UNCHANGED <<opener, asked, files, page, behind>>

\* save_conflict_mirror: write the staging file, remove the mirror, rename.
Stage ==
    /\ stage = "stage"
    /\ staged' = {pending}
    /\ stage' = IF mirror = {} THEN "rename" ELSE "remove"
    /\ UNCHANGED <<opener, asked, pending, mirror, page, behind>>

Remove ==
    /\ stage = "remove"
    /\ mirror' = {}
    /\ stage' = "rename"
    /\ UNCHANGED <<opener, asked, pending, staged, page, behind>>

Rename ==
    /\ stage = "rename"
    /\ mirror' = staged /\ staged' = {}
    /\ behind' = FALSE
    /\ Close
    /\ UNCHANGED <<pending, page>>

\* An error of the engine or of a file, or the end of the process: the conflicts may
\* have changed, the mirror has not.
MirrorFails(after) ==
    /\ stage # "none"
    /\ pending' = IF stage = "engine" THEN after ELSE pending
    /\ behind' = (behind \/ stage # "engine" \/ after # pending)
    /\ Close
    /\ UNCHANGED <<files, page>>

\* load_conflict_mirror: no file, no conflicts.
Rows == UNION mirror

ListConflicts ==
    /\ page' = Rows
    /\ UNCHANGED <<opener, stage, asked, pending, files, behind>>

MirrorNext ==
    \/ \E r \in Runs : Open(r) \/ \E c \in Conflicts : OpenToResolve(r, c)
    \/ NotPending \/ Stage \/ Remove \/ Rename \/ ListConflicts
    \/ \E after \in SUBSET Conflicts : Engine(after) \/ MirrorFails(after)

MirrorSpec == MirrorInit /\ [][MirrorNext]_mirrorVars

-----------------------------------------------------------------------------
(* The page shows the conflicts that are pending, unless a run is at work  *)
(* or has ended in an error or by a kill since the mirror was saved.       *)
PageCurrent == opener = {} /\ ~behind => Rows = pending
=============================================================================
