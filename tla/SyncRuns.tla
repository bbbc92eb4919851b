------------------------------ MODULE SyncRuns ------------------------------
(***************************************************************************)
(* A run of the s3sync plugin from its command line to its end (main.rs,   *)
(* config.rs): the plugin's config.toml with the id of this client, the    *)
(* engine's database, and the marks a sync leaves on the items.            *)
(*                                                                         *)
(* Each run is a process.  It loads config.toml without a lock: it writes  *)
(* a starter file where there is none, and the file anew, in place, when   *)
(* it has no client id yet.  The user edits the file at any time, and any  *)
(* run may fail or be killed anywhere.                                     *)
(***************************************************************************)
CONSTANTS
    Processes,
    Ids, NoId,   \* what generate_client_id can return; the empty client_id
    Edits,       \* what the user can have in the file, the client id apart
    Usable,      \* those that load accepts
    Starter,     \* CONFIG_TEMPLATE, which it does not
    Items,
    Verdicts     \* what a report says of an item

Marks == {"status", "colour"}
Contents == [edit : Edits, id : Ids \cup {NoId}]
Template == [edit |-> Starter, id |-> NoId]

VARIABLES
    form,     \* config.toml: "missing", "torn" (empty or cut off) or "whole"
    content,  \* what it says
    place,    \* where a run is
    action,   \* what it is to do: "sync", "check" or another that needs the engine
    scopes,   \* the items a sync is for
    config,   \* the settings it has loaded
    holder,   \* the run that has the engine's database open, if any (a set)
    verdict,  \* what the engine last reported of an item
    mark,     \* the extra and the colour of an item
    todo,     \* the marks a run has still to set
    written,  \* what the user last left in the file (history)
    opened,   \* the client ids the engine was opened with (history)
    missed,   \* the marks that were not set, for a failure (history)
    crossed   \* writers of config.toml met, or one was cut off (history)

onDisk == <<form, content>>
marks == <<verdict, mark, todo, missed>>
syncRuns == <<onDisk, place, action, scopes, config, holder, marks, written, opened, crossed>>

\* With something of the file in hand that it is going to write.
Writing == {"template", "starting", "backfill", "saving"}
\* With the engine open.
Inside == {"engine", "marks", "upkeep"}

SyncRunsType ==
    /\ form \in {"missing", "torn", "whole"} /\ content \in Contents
    /\ place \in [Processes -> {"idle", "load", "build"} \cup Writing \cup Inside]
    /\ action \in [Processes -> {"sync", "check", "other"}]
    /\ scopes \in [Processes -> SUBSET Items]
    /\ config \in [Processes -> Contents]
    /\ holder \subseteq Processes
    /\ verdict \in [Items -> Verdicts] /\ mark \in [Items \X Marks -> Verdicts]
    /\ todo \in [Processes -> SUBSET (Items \X Marks)]
    /\ written \in Edits /\ opened \subseteq Ids
    /\ missed \subseteq Items \X Marks /\ crossed \in BOOLEAN

SyncRunsInit ==
    /\ \/ form = "missing" /\ content = Template
       \/ form = "whole" /\ content \in Contents
    /\ place = [p \in Processes |-> "idle"] /\ action = [p \in Processes |-> "check"]
    /\ scopes = [p \in Processes |-> {}] /\ config = [p \in Processes |-> Template]
    /\ holder = {}
    /\ \E v \in Verdicts : /\ verdict = [i \in Items |-> v]
                           /\ mark = [e \in Items \X Marks |-> v]
    /\ todo = [p \in Processes |-> {}]
    /\ written = content.edit /\ opened = {} /\ missed = {} /\ crossed = FALSE

GoTo(p, there) == place' = [place EXCEPT ![p] = there]

Meeting(p) == \E o \in Processes \ {p} : place[o] \in Writing

-----------------------------------------------------------------------------
\* The user saves the file, with the client id as it is.
EditConfig(e) ==
    /\ content' = [edit |-> e, id |-> IF form = "whole" THEN content.id ELSE NoId]
    /\ form' = "whole" /\ written' = e
    /\ crossed' = (crossed \/ \E p \in Processes : place[p] \in Writing)
    /\ UNCHANGED <<place, action, scopes, config, holder, marks, opened>>

\* main, run and sync_all: a sync of no item is refused before anything is opened.
BeginRun(p, what, items) ==
    /\ place[p] = "idle" /\ (what = "sync" => items # {})
    /\ GoTo(p, "load")
    /\ action' = [action EXCEPT ![p] = what]
    /\ scopes' = [scopes EXCEPT ![p] = items]
    /\ UNCHANGED <<onDisk, config, holder, marks, written, opened, crossed>>

\* load finds no file.
NoConfig(p) ==
    /\ place[p] = "load" /\ form = "missing"
    /\ GoTo(p, "template")
    /\ config' = [config EXCEPT ![p] = Template]
    /\ crossed' = (crossed \/ Meeting(p))
    /\ UNCHANGED <<onDisk, action, scopes, holder, marks, written, opened>>

\* load with a client id in the file.
LoadConfig(p) ==
    /\ place[p] = "load" /\ form = "whole" /\ content.edit \in Usable /\ content.id # NoId
    /\ GoTo(p, "build")
    /\ config' = [config EXCEPT ![p] = content]
    /\ crossed' = (crossed \/ Meeting(p))
    /\ UNCHANGED <<onDisk, action, scopes, holder, marks, written, opened>>

\* load with none: it generates one.
GenerateId(p, id) ==
    /\ place[p] = "load" /\ form = "whole" /\ content.edit \in Usable /\ content.id = NoId
    /\ GoTo(p, "backfill")
    /\ config' = [config EXCEPT ![p] = [content EXCEPT !.id = id]]
    /\ crossed' = (crossed \/ Meeting(p))
    /\ UNCHANGED <<onDisk, action, scopes, holder, marks, written, opened>>

\* fs::write opens the file and empties it ...
EmptyConfig(p) ==
    /\ place[p] \in {"template", "backfill"}
    /\ GoTo(p, IF place[p] = "template" THEN "starting" ELSE "saving")
    /\ form' = "torn"
    /\ UNCHANGED <<content, action, scopes, config, holder, marks, written, opened, crossed>>

\* ... and writes, over what another has written since, which may be longer.  With the
\* starter file written, the run answers that the plugin is not configured.
SaveConfig(p) ==
    /\ place[p] \in {"starting", "saving"}
    /\ GoTo(p, IF place[p] = "starting" THEN "idle" ELSE "build")
    /\ \/ form' = "whole"
       \/ form = "whole" /\ form' = "torn"
    /\ content' = config[p]
    /\ UNCHANGED <<action, scopes, config, holder, marks, written, opened, crossed>>

\* check_config: the backend is listed, and that is all.
Probe(p) ==
    /\ place[p] = "build" /\ action[p] = "check"
    /\ GoTo(p, "idle")
    /\ UNCHANGED <<onDisk, action, scopes, config, holder, marks, written, opened, crossed>>

\* open_session: the engine's database admits one process.
OpenSession(p) ==
    /\ place[p] = "build" /\ action[p] # "check" /\ holder = {}
    /\ GoTo(p, "engine")
    /\ holder' = {p} /\ opened' = opened \cup {config[p].id}
    /\ UNCHANGED <<onDisk, action, scopes, config, marks, written, crossed>>

\* list_history, rollback and resolve_conflict_v2 end after the engine's work.
Other(p) ==
    /\ place[p] = "engine" /\ action[p] = "other"
    /\ GoTo(p, "idle") /\ holder' = {}
    /\ UNCHANGED <<onDisk, action, scopes, config, marks, written, opened, crossed>>

\* sync_items_v2: the engine's report, and the marks to be set for it.
Reconcile(p, report) ==
    /\ place[p] = "engine" /\ action[p] = "sync"
    /\ GoTo(p, "marks")
    /\ verdict' = [i \in Items |-> IF i \in scopes[p] THEN report[i] ELSE verdict[i]]
    /\ todo' = [todo EXCEPT ![p] = scopes[p] \X Marks]
    /\ UNCHANGED <<onDisk, action, scopes, config, holder, mark, missed, written, opened, crossed>>

\* set_item_extra, then set_bar_color, of each item; a failure is ignored.
SetMark(p, e, ok) ==
    /\ place[p] = "marks" /\ e \in todo[p]
    /\ e[2] = "colour" => <<e[1], "status">> \notin todo[p]
    /\ todo' = [todo EXCEPT ![p] = @ \ {e}]
    /\ mark' = [mark EXCEPT ![e] = IF ok THEN verdict[e[1]] ELSE @]
    /\ missed' = IF ok THEN missed \ {e} ELSE missed \cup {e}
    /\ UNCHANGED <<onDisk, place, action, scopes, config, holder, verdict, written, opened, crossed>>

\* Maintenance and the trash come last, with the database still open.
Upkeep(p) ==
    /\ place[p] = "marks" /\ todo[p] = {}
    /\ GoTo(p, "upkeep")
    /\ UNCHANGED <<onDisk, action, scopes, config, holder, marks, written, opened, crossed>>

Complete(p) ==
    /\ place[p] = "upkeep"
    /\ GoTo(p, "idle") /\ holder' = {}
    /\ UNCHANGED <<onDisk, action, scopes, config, marks, written, opened, crossed>>

\* An error, of the configuration, the backend, the database or the engine, or the end of
\* the process.
Abandon(p) ==
    /\ place[p] # "idle"
    /\ GoTo(p, "idle") /\ holder' = holder \ {p}
    /\ missed' = missed \cup todo[p] /\ todo' = [todo EXCEPT ![p] = {}]
    /\ IF place[p] \in {"starting", "saving"}
       THEN form' \in {"torn", "whole"} /\ content' \in Contents /\ crossed' = TRUE
       ELSE UNCHANGED <<onDisk, crossed>>
    /\ UNCHANGED <<action, scopes, config, verdict, mark, written, opened>>

RunMoves(p) ==
    \/ \E what \in {"sync", "check", "other"}, items \in SUBSET Items : BeginRun(p, what, items)
    \/ NoConfig(p) \/ LoadConfig(p) \/ (\E id \in Ids : GenerateId(p, id))
    \/ EmptyConfig(p) \/ SaveConfig(p) \/ Probe(p) \/ OpenSession(p) \/ Other(p)
    \/ \E report \in [Items -> Verdicts] : Reconcile(p, report)
    \/ \E e \in Items \X Marks, ok \in BOOLEAN : SetMark(p, e, ok)
    \/ Upkeep(p) \/ Complete(p) \/ Abandon(p)

SyncRunsNext == (\E e \in Edits : EditConfig(e)) \/ \E p \in Processes : RunMoves(p)

SyncRunsSpec == SyncRunsInit /\ [][SyncRunsNext]_syncRuns

-----------------------------------------------------------------------------
(* A client keeps its id: every session had the one that is in the file,   *)
(* unless writers of the file met or one was cut off (load, "generated     *)
(* once" in config.rs).                                                    *)
IdKept == ~crossed => opened \subseteq {content.id} /\ (opened # {} => form = "whole")

(* Likewise the file has the settings the user left in it, although a run  *)
(* writes all of it to add the client id.                                  *)
EditKept == ~crossed /\ form = "whole" => content.edit = written

(* Marks of two syncs do not mix: but for those a failure left out, the    *)
(* extra and the colour of an item say what the last report said of it,    *)
(* however many runs were started at once (the run has the database open   *)
(* to its end).                                                            *)
MarksTell ==
    \A e \in Items \X Marks :
        e \notin missed /\ (\A p \in Processes : e \notin todo[p]) => mark[e] = verdict[e[1]]
=============================================================================
