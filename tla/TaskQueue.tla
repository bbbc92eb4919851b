------------------------------ MODULE TaskQueue ------------------------------
(***************************************************************************)
(* The task queue of the daemon (crates/core, Daemon) and the query index  *)
(* its commands rebuild.  There is no worker: a command runs on the thread *)
(* of its caller through                                                   *)
(*   enqueue, mark_running, ensure_task_allowed, its work,                 *)
(*   rebuild_from_all, emit_event, finish                                  *)
(* and takes the queue mutex for some of these steps only, so that any     *)
(* number of commands are inside at once.  rebuild_from_all reads the      *)
(* library BEFORE it begins its write transaction: redb orders the         *)
(* transactions, nothing orders the readings.  Two calls record no task:   *)
(* archive_item_file and rebuild_index.                                    *)
(*                                                                         *)
(* A command changes the library once; the set of commands whose change is *)
(* in place stands for the library, and for what an index shows of it.     *)
(***************************************************************************)
EXTENDS Naturals, FiniteSets

CONSTANTS
    Calls,       \* the calls made to the daemon, each at most once
    Kinds,       \* the kinds of call made
    MaxPauses    \* bound on calls of pause and resume

\* write: metadata, extra, import, category and delete commands (event, finish)
\* addFile: add_file, upload (finish, event)
\* attach: late attachments, normalize_cat_directory (finish, no event)
Tasks == {"write", "addFile", "attach", "scan"}
Direct == {"archive", "refresh"}
Modes == {"All", "Writes", "Indexing"}

ASSUME KindsAssumption == Kinds \subseteq Tasks \cup Direct
ASSUME PausesAssumption == MaxPauses \in Nat

VARIABLES
    queued,      \* tasks in queue.queued
    history,     \* the state of each task in queue.history
    running,     \* queue.running
    paused,      \* queue.paused_modes
    pauses,      \* how often modes were changed
    kind,        \* the kind of each call
    pc,          \* where it is
    docs,        \* the changes it saw when it read the library
    result,      \* what its caller was told
    library,     \* calls whose change is in the library
    index,       \* changes the committed index shows
    emitted,     \* calls whose completion event was published
    overtaken    \* history: changes an index lost to a commit of an older reading

queue == <<queued, history, running>>
vars == <<queue, paused, pauses, kind, pc, docs, result, library, index, emitted,
          overtaken>>

Goto(t, step) == pc' = [pc EXCEPT ![t] = step]
Answer(t, r) == result' = [result EXCEPT ![t] = r]

Init ==
    /\ queued = {} /\ running = FALSE
    /\ history = [t \in Calls |-> "none"]
    /\ paused = {} /\ pauses = 0
    /\ kind = [t \in Calls |-> "none"]
    /\ pc = [t \in Calls |-> "idle"]
    /\ docs = [t \in Calls |-> {}]
    /\ result = [t \in Calls |-> "none"]
    /\ library = {} /\ index = {} /\ emitted = {}
    /\ overtaken = {}

-----------------------------------------------------------------------------
(* Tasks *)

Enqueue(t, k) ==
    /\ pc[t] = "idle" /\ k \in Tasks
    /\ kind' = [kind EXCEPT ![t] = k]
    /\ queued' = queued \cup {t}
    /\ history' = [history EXCEPT ![t] = "Queued"]
    /\ Goto(t, "mark")
    /\ UNCHANGED <<running, paused, pauses, docs, result, library, index, emitted,
                   overtaken>>

MarkRunning(t) ==
    /\ pc[t] = "mark"
    /\ running' = TRUE
    /\ history' = [history EXCEPT ![t] = "Running"]
    /\ Goto(t, "check")
    /\ UNCHANGED <<queued, paused, pauses, kind, docs, result, library, index,
                   emitted, overtaken>>

\* ensure_task_allowed
Blocked(k) == \/ "All" \in paused
              \/ k = "scan" /\ {"Indexing", "Writes"} \cap paused # {}
              \/ k \in Tasks \ {"scan"} /\ "Writes" \in paused

Check(t) ==
    /\ pc[t] = "check"
    /\ \/ /\ Blocked(kind[t])
          /\ Answer(t, "error")
          /\ Goto(t, "finish")
       \/ /\ ~Blocked(kind[t])
          /\ Goto(t, IF kind[t] = "scan" THEN "read" ELSE "work")
          /\ UNCHANGED result
    /\ UNCHANGED <<queue, paused, pauses, kind, docs, library, index, emitted, overtaken>>

\* archive_item_file and rebuild_index record no task and ask for no leave.
CallDirectly(t, k) ==
    /\ pc[t] = "idle" /\ k \in Direct
    /\ kind' = [kind EXCEPT ![t] = k]
    /\ Goto(t, IF k = "archive" THEN "work" ELSE "read")
    /\ UNCHANGED <<queue, paused, pauses, docs, result, library, index, emitted,
                   overtaken>>

-----------------------------------------------------------------------------
(* Work and index *)

\* Mutant of Ends: an error path that does not call finish.
EndsUnfinished(t) == "done"

Ends(t) == IF kind[t] \in Direct THEN "done" ELSE "finish"

\* Mutant of Work: late attachments do not rebuild the index.
WorkWithoutRebuild(t) ==
    /\ pc[t] = "work"
    /\ library' = library \cup {t}
    /\ IF kind[t] = "attach" THEN Goto(t, "finish") /\ Answer(t, "ok")
                             ELSE Goto(t, "read") /\ UNCHANGED result
    /\ UNCHANGED <<queue, paused, pauses, kind, docs, index, emitted, overtaken>>

Work(t) ==
    /\ pc[t] = "work"
    /\ library' = library \cup {t}
    /\ Goto(t, "read")
    /\ UNCHANGED <<queue, paused, pauses, kind, docs, result, index, emitted,
                   overtaken>>

\* An error, before or after the change: `?` goes past the rebuild.
WorkFails(t) ==
    /\ pc[t] = "work"
    /\ library' \in {library, library \cup {t}}
    /\ Answer(t, "error")
    /\ Goto(t, Ends(t))
    /\ UNCHANGED <<queue, paused, pauses, kind, docs, index, emitted, overtaken>>

\* Mutant of ReadLibrary: the documents come from the cached table.
ReadCached(t) ==
    /\ pc[t] = "read"
    /\ docs' = [docs EXCEPT ![t] = index]
    /\ Goto(t, "commit")
    /\ UNCHANGED <<queue, paused, pauses, kind, result, library, index, emitted,
                   overtaken>>

\* rebuild_from_all: scan_all_documents ...
ReadLibrary(t) ==
    /\ pc[t] = "read"
    /\ docs' = [docs EXCEPT ![t] = library]
    /\ Goto(t, "commit")
    /\ UNCHANGED <<queue, paused, pauses, kind, result, library, index, emitted,
                   overtaken>>

\* Mutant of AfterRebuild: the first rebuild of a scan is taken for the last.
AfterFirstRebuild(t) == IF kind[t] \in {"write", "scan"} THEN "emit" ELSE Ends(t)

\* Where a call goes when its rebuild is done: a scan rebuilds before and after
\* its work.
AfterRebuild(t) ==
    IF kind[t] = "scan" /\ t \notin library THEN "work"
    ELSE IF kind[t] \in {"write", "scan"} THEN "emit" ELSE Ends(t)

\* ... then one write transaction that replaces the tables.
Commit(t) ==
    /\ pc[t] = "commit"
    /\ index' = docs[t]
    /\ overtaken' = (overtaken \cup (index \ docs[t])) \ docs[t]
    /\ docs' = [docs EXCEPT ![t] = {}]
    /\ Goto(t, AfterRebuild(t))
    /\ IF AfterRebuild(t) = "work" THEN UNCHANGED result ELSE Answer(t, "ok")
    /\ UNCHANGED <<queue, paused, pauses, kind, library, emitted>>

-----------------------------------------------------------------------------
(* The end of a task *)

Emit(t) ==
    /\ pc[t] = "emit"
    /\ emitted' = emitted \cup {t}
    /\ Goto(t, IF history[t] = "Running" THEN "finish" ELSE "done")
    /\ UNCHANGED <<queue, paused, pauses, kind, docs, result, library, index,
                   overtaken>>

Finish(t) ==
    /\ pc[t] = "finish"
    /\ running' = FALSE
    /\ queued' = queued \ {t}
    /\ history' = [history EXCEPT ![t] = IF result[t] = "ok" THEN "Completed" ELSE "Failed"]
    /\ Goto(t, IF kind[t] = "addFile" /\ result[t] = "ok" THEN "emit" ELSE "done")
    /\ UNCHANGED <<paused, pauses, kind, docs, result, library, index, emitted,
                   overtaken>>

Pause(m) ==
    /\ pauses < MaxPauses /\ m \notin paused
    /\ pauses' = pauses + 1
    /\ paused' = paused \cup {m}
    /\ UNCHANGED <<queue, kind, pc, docs, result, library, index, emitted, overtaken>>

Resume(m) ==
    /\ pauses < MaxPauses /\ m \in paused
    /\ pauses' = pauses + 1
    /\ paused' = paused \ {m}
    /\ UNCHANGED <<queue, kind, pc, docs, result, library, index, emitted, overtaken>>

Step(t) ==
    \/ MarkRunning(t) \/ Check(t) \/ Work(t) \/ WorkFails(t)
    \/ ReadLibrary(t) \/ Commit(t) \/ Emit(t) \/ Finish(t)

Next ==
    \/ \E t \in Calls :
          \/ \E k \in Kinds : Enqueue(t, k) \/ CallDirectly(t, k)
          \/ Step(t)
    \/ \E m \in Modes : Pause(m) \/ Resume(m)

Spec == Init /\ [][Next]_vars

-----------------------------------------------------------------------------
(* Properties *)

Pending(t) == pc[t] \notin {"idle", "done"}
Quiet == \A t \in Calls : ~Pending(t)

TypeOK ==
    /\ queued \subseteq Calls /\ running \in BOOLEAN
    /\ history \in [Calls -> {"none", "Queued", "Running", "Completed", "Failed"}]
    /\ paused \subseteq Modes /\ pauses \in 0..MaxPauses
    /\ kind \in [Calls -> Kinds \cup {"none"}]
    /\ pc \in [Calls -> {"idle", "mark", "check", "work", "read", "commit", "emit",
                         "finish", "done"}]
    /\ docs \in [Calls -> SUBSET library]
    /\ result \in [Calls -> {"none", "ok", "error"}]
    /\ library \subseteq Calls
    /\ index \subseteq library /\ emitted \subseteq library /\ overtaken \subseteq library

(* When no call is inside, the index shows the library, but for the change *)
(* of a call that failed after it, and for what a rebuild that had read    *)
(* the library earlier committed later took away.                          *)
IndexFresh ==
    Quiet => library \ index \subseteq overtaken \cup {t \in Calls : result[t] = "error"}

(* The hook a completion event starts finds the change in the index:       *)
(* commands publish after their rebuild, and only an overtaking rebuild    *)
(* can have taken the change out again.                                    *)
EventAfterIndex ==
    [][\A t \in emitted' \ emitted : t \in index \cup overtaken]_vars

(* The status a client polls: `running` is never left set by a task that   *)
(* is over, and when no call is inside the queue is empty and each record  *)
(* tells what the caller was told.                                         *)
StatusSettles ==
    /\ running => \E t \in Calls : history[t] = "Running"
    /\ Quiet => /\ queued = {} /\ ~running
                /\ \A t \in Calls : kind[t] \in Tasks =>
                      history[t] = IF result[t] = "ok" THEN "Completed" ELSE "Failed"
=============================================================================
