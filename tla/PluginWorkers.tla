---------------------------- MODULE PluginWorkers ----------------------------
(***************************************************************************)
(* The two background workers that start plugins (crates/host,             *)
(* scheduler.rs) and what they hang on: the broadcast channel of the       *)
(* daemon's events, the schedules file (crates/core, schedule.rs), the     *)
(* list of discovered plugins, the set of disabled ones, the supervisors   *)
(* of the workers with their health report, the desktop's health monitor   *)
(* and the supervisor of the desktop process.                              *)
(*                                                                         *)
(* The hook dispatcher starts a plugin for each event the plugin declares; *)
(* the cron scheduler starts jobs of manifests and registered calls when   *)
(* they are due, and learns from SchedulesChanged, sent AFTER the file or  *)
(* the list has changed, that it must load both again.  A receiver that    *)
(* falls more than Capacity events behind loses the oldest.  A supervisor  *)
(* runs a worker that panicked again after a delay, up to Restarts times   *)
(* in five minutes; the process supervisor does the same with the process. *)
(*                                                                         *)
(* Starting a plugin is one step here: PluginRuns tells what a run does.   *)
(***************************************************************************)
EXTENDS Naturals, Sequences, FiniteSets

CONSTANTS
    Plugins,       \* plugin names
    Jobs,          \* cron jobs declared by manifests
    Scheds,        \* ids of schedules registered at run time
    Owner,         \* the plugin that each job and schedule starts
    Hooks,         \* the events each plugin has hooks for
    Found,         \* what a rescan may find in the plugins directory
    Calls,         \* calls of register_schedule and remove_schedule made
    Capacity,      \* capacity of the broadcast channel (256)
    Restarts,      \* length of the lists of delays: restarts in a window (3)
    MaxEnv         \* bound on what comes from outside: calls, events, ticks, changes
                   \* of settings and faults, together

Workers == {"hook", "cron"}
Kinds == {"SchedulesChanged", "ItemImported", "PauseChanged"}

ASSUME OwnerAssumption == Owner \in [Jobs \cup Scheds -> Plugins]
ASSUME HooksAssumption == Hooks \in [Plugins -> SUBSET Kinds]
ASSUME FoundAssumption == Found \subseteq SUBSET Plugins
ASSUME CallsAssumption == Calls \subseteq {"register", "remove"} \X Scheds
ASSUME LimitsAssumption ==
    Capacity \in Nat \ {0} /\ Restarts \in Nat /\ MaxEnv \in Nat

VARIABLES
    app,         \* the desktop process: up, down (to be started again), stopped
    exits,       \* process failures of the last five minutes
    log,         \* events published by this process
    cursor,      \* the next event of each worker's receiver
    worker,      \* where each worker is
    failures,    \* panics of each worker in the last five minutes
    health,      \* the state of RuntimeHealthTracker
    told,        \* the health monitor has reported the fatal state and ended
    file,        \* schedules.toml
    pc, text,    \* each call: where it is, what it will write
    installed,   \* SharedPlugins
    rescan,      \* rescan_plugins between its swap and its event
    disabled,    \* names of disabled plugins
    paused,      \* PauseMode::All
    snapshot,    \* the plugins a reload of the cron scheduler looks at
    loaded, due, \* its entries, and those whose time has come
    spent,       \* what was used of MaxEnv
    hooked,      \* history: pairs of event and plugin started
    missed,      \* history: events the dispatcher never received
    interrupted, \* history: plugins that were disabled or not there for a while
    started,     \* the entries it has started
    deaf,        \* history: a change the cron scheduler was not told of
    ideal,       \* history: the schedules as completed calls left them
    clobbered    \* history: schedules lost to calls that overlap or fail

process == <<app, exits>>
bus == <<log, cursor>>
supervision == <<worker, failures, health, told>>
calls == <<file, pc, text, ideal, clobbered>>
settings == <<installed, rescan, disabled, paused>>
cron == <<snapshot, loaded, due, started, deaf>>
hooks == <<hooked, missed, interrupted>>
vars == <<process, bus, supervision, calls, settings, cron, hooks, spent>>

Goto(c, step) == pc' = [pc EXCEPT ![c] = step]
WorkerIs(w, phase) == worker' = [worker EXCEPT ![w] = phase]
Spend == spent < MaxEnv /\ spent' = spent + 1
Entries == Jobs \cup Scheds

Init ==
    /\ app = "up" /\ exits = 0
    /\ log = <<>> /\ cursor = [w \in Workers |-> 1]
    /\ worker = [w \in Workers |-> "start"] /\ failures = [w \in Workers |-> 0]
    /\ health = "Healthy" /\ told = FALSE
    /\ file = {} /\ ideal = {} /\ clobbered = {}
    /\ pc = [c \in Calls |-> "idle"] /\ text = [c \in Calls |-> {}]
    /\ installed = Plugins /\ rescan = FALSE /\ disabled = {} /\ paused = FALSE
    /\ snapshot = {} /\ loaded = {} /\ due = {} /\ started = {} /\ deaf = FALSE
    /\ hooked = {} /\ missed = {} /\ interrupted = {}
    /\ spent = 0

-----------------------------------------------------------------------------
(* Events and settings *)

\* emit_event: a send never blocks and never fails its caller.
Publish(kind) == log' = Append(log, kind)

\* An import, a patch and the like: what publishes one is not looked at.
OtherEvent ==
    /\ app = "up" /\ Spend
    /\ Publish("ItemImported")
    /\ UNCHANGED <<process, cursor, supervision, calls, settings, cron, hooks>>

PauseOrResume ==
    /\ app = "up" /\ Spend
    /\ paused' = ~paused
    /\ Publish("PauseChanged")
    /\ UNCHANGED <<process, cursor, supervision, calls, installed, rescan, disabled,
                   cron, hooks>>

\* The write lock is held across the change of the set and of its file, which
\* the next process loads.
SetPluginEnabled(p) ==
    /\ app = "up" /\ p \in installed /\ Spend
    /\ disabled' = IF p \in disabled THEN disabled \ {p} ELSE disabled \cup {p}
    /\ interrupted' = interrupted \cup disabled'
    /\ UNCHANGED <<process, bus, supervision, calls, installed, rescan, paused,
                   cron, hooked, missed>>

\* rescan_plugins: the list is swapped, ...
RescanPlugins(found) ==
    /\ app = "up" /\ ~rescan /\ Spend
    /\ installed' = found
    /\ rescan' = TRUE
    /\ interrupted' = interrupted \cup (Plugins \ found)
    /\ UNCHANGED <<process, bus, supervision, calls, disabled, paused, cron, hooked,
                   missed>>

\* Mutant of NotifySchedulesChanged: a rescan tells nobody.
NotifyNobody ==
    /\ app = "up" /\ rescan
    /\ rescan' = FALSE
    /\ UNCHANGED <<process, bus, supervision, calls, installed, disabled, paused,
                   cron, hooks, spent>>

\* ... then the cron scheduler is told.
NotifySchedulesChanged ==
    /\ app = "up" /\ rescan
    /\ rescan' = FALSE
    /\ Publish("SchedulesChanged")
    /\ UNCHANGED <<process, cursor, supervision, calls, installed, disabled, paused,
                   cron, hooks, spent>>

-----------------------------------------------------------------------------
(* The schedules file.  Its functions take no lock: load reads the file,   *)
(* save empties it and writes it, and an empty file is an empty list.      *)

Edited(c, schedules) ==
    IF c[1] = "register" THEN schedules \cup {c[2]} ELSE schedules \ {c[2]}

Inside == {c \in Calls : pc[c] \in {"loaded", "writing"}}
Torn == \E c \in Calls : pc[c] = "writing"

\* What two calls at once can lose: one the schedule of the other, and each
\* schedule, when one reads the file while the other has emptied it.
Lost(c) == IF Inside = {} THEN {}
           ELSE {d[2] : d \in Inside \cup {c}} \cup (IF Torn THEN ideal ELSE {})

\* register_schedule refuses an id it finds, remove_schedule saves only when it
\* found the id.
LoadSchedules(c) ==
    /\ app = "up" /\ pc[c] = "idle" /\ Spend
    /\ IF Edited(c, file) = file
       THEN Goto(c, "done") /\ UNCHANGED <<text, clobbered>>
       ELSE /\ Goto(c, "loaded")
            /\ text' = [text EXCEPT ![c] = Edited(c, file)]
            /\ clobbered' = clobbered \cup Lost(c)
    /\ UNCHANGED <<process, bus, supervision, file, ideal, settings, cron, hooks>>

TruncateFile(c) ==
    /\ app = "up" /\ pc[c] = "loaded"
    /\ file' = {}
    /\ Goto(c, "writing")
    /\ UNCHANGED <<process, bus, supervision, text, ideal, clobbered, settings,
                   cron, hooks, spent>>

\* Mutant of WriteFile: the file is written from the new schedule alone.
WriteOnlyMine(c) ==
    /\ app = "up" /\ pc[c] = "writing"
    /\ file' = Edited(c, {})
    /\ ideal' = Edited(c, ideal)
    /\ text' = [text EXCEPT ![c] = {}]
    /\ Goto(c, "emit")
    /\ UNCHANGED <<process, bus, supervision, clobbered, settings, cron, hooks,
                   spent>>

WriteFile(c) ==
    /\ app = "up" /\ pc[c] = "writing"
    /\ file' = text[c]
    /\ ideal' = Edited(c, ideal)
    /\ text' = [text EXCEPT ![c] = {}]
    /\ Goto(c, "emit")
    /\ UNCHANGED <<process, bus, supervision, clobbered, settings, cron, hooks,
                   spent>>

\* The disk is full: the caller gets an error, the file stays empty, and no
\* event is sent.
WriteFails(c) ==
    /\ app = "up" /\ pc[c] = "writing" /\ Spend
    /\ Goto(c, "done")
    /\ text' = [text EXCEPT ![c] = {}]
    /\ clobbered' = clobbered \cup ideal \cup UNION {text[d] : d \in Inside}
    /\ deaf' = TRUE
    /\ UNCHANGED <<process, bus, supervision, file, ideal, settings, snapshot,
                   loaded, due, started, hooks>>

EmitSchedulesChanged(c) ==
    /\ app = "up" /\ pc[c] = "emit"
    /\ Publish("SchedulesChanged")
    /\ Goto(c, "done")
    /\ UNCHANGED <<process, cursor, supervision, file, text, ideal, clobbered,
                   settings, cron, hooks, spent>>

CallStep(c) == TruncateFile(c) \/ WriteFile(c) \/ EmitSchedulesChanged(c)

-----------------------------------------------------------------------------
(* Receivers *)

Lagging(w) == Len(log) + 1 - cursor[w] > Capacity
Received(w) == /\ app = "up" /\ worker[w] = "wait"
               /\ cursor[w] <= Len(log) /\ ~Lagging(w)

\* What recv steps over when it returns Lagged: all but the last Capacity events.
Skipped(w) == cursor[w]..(Len(log) - Capacity)
SkipTo(w) == cursor' = [cursor EXCEPT ![w] = Len(log) - Capacity + 1]
Advance(w) == cursor' = [cursor EXCEPT ![w] = @ + 1]

-----------------------------------------------------------------------------
(* The hook dispatcher *)

\* Mutant of HookSubscribe: a new dispatcher takes the receiver of the old one.
HookResume ==
    /\ app = "up" /\ worker["hook"] = "start"
    /\ WorkerIs("hook", "wait")
    /\ UNCHANGED <<process, bus, failures, health, told, calls, settings, cron,
                   hooks, spent>>

\* Its supervisor subscribes for each dispatcher it spawns: a new receiver
\* starts with the next event.
HookSubscribe ==
    /\ app = "up" /\ worker["hook"] = "start"
    /\ cursor' = [cursor EXCEPT !["hook"] = Len(log) + 1]
    /\ missed' = missed \cup cursor["hook"]..Len(log)
    /\ WorkerIs("hook", "wait")
    /\ UNCHANGED <<process, log, failures, health, told, calls, settings, cron,
                   hooked, interrupted, spent>>

\* matching_plugins, less the disabled ones
Bound(i) == {p \in installed \ disabled : log[i] \in Hooks[p]}

\* One isolated task per hook: what becomes of a run does not reach the worker.
StartHooks(ps) == hooked' = hooked \cup {cursor["hook"]} \X ps

DispatchEvent ==
    /\ Received("hook")
    /\ StartHooks(Bound(cursor["hook"]))
    /\ Advance("hook")
    /\ UNCHANGED <<process, log, supervision, calls, settings, cron, missed,
                   interrupted, spent>>

\* Mutant of HookLagged: a receiver that lags is taken for a closed channel.
HookLaggedEnds ==
    /\ app = "up" /\ worker["hook"] = "wait" /\ Lagging("hook")
    /\ WorkerIs("hook", "ended")
    /\ missed' = missed \cup Skipped("hook")
    /\ UNCHANGED <<process, bus, failures, health, told, calls, settings, cron,
                   hooked, interrupted, spent>>

HookLagged ==
    /\ app = "up" /\ worker["hook"] = "wait" /\ Lagging("hook")
    /\ SkipTo("hook")
    /\ missed' = missed \cup Skipped("hook")
    /\ UNCHANGED <<process, log, supervision, calls, settings, cron, hooked,
                   interrupted, spent>>

-----------------------------------------------------------------------------
(* The cron scheduler *)

CronSubscribe ==
    /\ app = "up" /\ worker["cron"] = "start"
    /\ cursor' = [cursor EXCEPT !["cron"] = Len(log) + 1]
    /\ WorkerIs("cron", "snapshot")
    /\ UNCHANGED <<process, log, failures, health, told, calls, settings, cron,
                   hooks, spent>>

\* reload_schedule: first the plugins, ...
CronSnapshot ==
    /\ app = "up" /\ worker["cron"] = "snapshot"
    /\ snapshot' = installed
    /\ WorkerIs("cron", "load")
    /\ UNCHANGED <<process, bus, failures, health, told, calls, settings, loaded,
                   due, started, deaf, hooks, spent>>

\* collect_manifest_entries, and collect_scheduled_call_entries, which skips a
\* call whose plugin is unknown
EntriesOf(plugins, schedules) == {e \in Jobs \cup schedules : Owner[e] \in plugins}

\* ... then the file.  Times are computed forward from now: what was due and
\* not started is not due any more.
CronLoad ==
    /\ app = "up" /\ worker["cron"] = "load"
    /\ loaded' = EntriesOf(snapshot, file)
    /\ due' = {}
    /\ snapshot' = {}
    /\ WorkerIs("cron", "wait")
    /\ UNCHANGED <<process, bus, failures, health, told, calls, settings, started,
                   deaf, hooks, spent>>

Tick(e) ==
    /\ app = "up" /\ worker["cron"] = "wait"
    /\ e \in loaded \ due /\ Spend
    /\ due' = due \cup {e}
    /\ UNCHANGED <<process, bus, supervision, calls, settings, snapshot, loaded,
                   started, deaf, hooks>>

Startable(e) == ~paused /\ Owner[e] \notin disabled

FireEntries == started' = started \cup {e \in due : Startable(e)}

\* The sleep ends: what is due is started, unless the daemon is paused or the
\* plugin disabled, and all of it gets a new time.
FireDue ==
    /\ app = "up" /\ worker["cron"] = "wait" /\ due # {}
    /\ FireEntries
    /\ due' = {}
    /\ UNCHANGED <<process, bus, supervision, calls, settings, snapshot, loaded,
                   deaf, hooks, spent>>

\* A reload answers each event up to now: none of them is lost on it any more.
CronReceive ==
    /\ Received("cron")
    /\ Advance("cron")
    /\ IF log[cursor["cron"]] = "SchedulesChanged"
       THEN WorkerIs("cron", "snapshot") /\ deaf' = FALSE
       ELSE UNCHANGED <<worker, deaf>>
    /\ UNCHANGED <<process, log, failures, health, told, calls, settings, snapshot,
                   loaded, due, started, hooks, spent>>

\* It goes on with the entries it has.
CronLagged ==
    /\ app = "up" /\ worker["cron"] = "wait" /\ Lagging("cron")
    /\ SkipTo("cron")
    /\ deaf' = (deaf \/ \E i \in Skipped("cron") : log[i] = "SchedulesChanged")
    /\ UNCHANGED <<process, log, supervision, calls, settings, snapshot, loaded,
                   due, started, hooks, spent>>

HookStep == HookSubscribe \/ DispatchEvent \/ HookLagged
CronStep == \/ CronSubscribe \/ CronSnapshot \/ CronLoad
            \/ CronReceive \/ CronLagged \/ FireDue

-----------------------------------------------------------------------------
(* Supervision of the workers *)

\* Mutant of UpdateHealth: the last report wins.
UpdateHealthAlways(state) == health' = state

\* RuntimeHealthTracker::update: fatal is for ever.
UpdateHealth(state) == health' = IF health = "Fatal" THEN "Fatal" ELSE state

\* A panic ends the worker's task; register_worker_failure counts it among
\* those of the last five minutes, the recent ones.  A dispatcher may have
\* started some of the hooks of its event.
Panic(w, recent) ==
    /\ app = "up" /\ worker[w] \in {"wait", "snapshot", "load"}
    /\ Spend
    /\ IF recent < Restarts
       THEN WorkerIs(w, "crashed") /\ UpdateHealth("Degraded")
       ELSE WorkerIs(w, "gaveup") /\ UpdateHealth("Fatal")
    /\ failures' = [failures EXCEPT ![w] = recent + 1]
    /\ IF w = "cron"
       THEN /\ loaded' = {} /\ due' = {} /\ snapshot' = {}
            /\ UNCHANGED <<deaf, hooks, started>>
       ELSE /\ \/ UNCHANGED hooked
               \/ Received("hook") /\ \E some \in SUBSET Bound(cursor["hook"]) : StartHooks(some)
            /\ UNCHANGED <<cron, missed, interrupted>>
    /\ UNCHANGED <<process, bus, told, calls, settings>>

\* After 1, 5, 30 seconds
RestartWorker(w) ==
    /\ app = "up" /\ worker[w] = "crashed"
    /\ WorkerIs(w, "start")
    /\ IF w = "cron" THEN deaf' = FALSE /\ UNCHANGED <<snapshot, loaded, due,
                                                       started>>
                     ELSE UNCHANGED cron
    /\ UNCHANGED <<process, bus, failures, health, told, calls, settings, hooks,
                   spent>>

\* MonitorRuntimeHealthAsync, every two seconds: one report of a fatal state,
\* which ExceptionService shows; the process goes on.
MonitorHealth ==
    /\ app = "up" /\ health = "Fatal" /\ ~told
    /\ told' = TRUE
    /\ UNCHANGED <<process, bus, worker, failures, health, calls, settings, cron,
                   hooks, spent>>

-----------------------------------------------------------------------------
(* Supervision of the process *)

\* The process ends with an exit code other than 0: a crash, or a restart that
\* ExceptionService asked for.  What is in memory is gone.
ProcessFails(recent) ==
    /\ app = "up" /\ Spend
    /\ app' = IF recent < Restarts THEN "down" ELSE "stopped"
    /\ exits' = recent + 1
    /\ log' = <<>> /\ cursor' = [w \in Workers |-> 1]
    /\ worker' = [w \in Workers |-> "start"] /\ failures' = [w \in Workers |-> 0]
    /\ health' = "Healthy" /\ told' = FALSE
    /\ pc' = [c \in Calls |-> IF pc[c] = "idle" THEN "idle" ELSE "done"]
    /\ clobbered' = IF Torn THEN clobbered \cup ideal \cup UNION {text[d] : d \in Inside}
                            ELSE clobbered
    /\ text' = [c \in Calls |-> {}]
    /\ rescan' = FALSE /\ paused' = FALSE
    /\ snapshot' = {} /\ loaded' = {} /\ due' = {} /\ started' = {} /\ deaf' = FALSE
    /\ hooked' = {} /\ missed' = {} /\ interrupted' = disabled \cup (Plugins \ installed)
    /\ UNCHANGED <<file, ideal, installed, disabled>>

\* RunLoop: after 1, 5, 30 seconds the process is started again.
RestartProcess ==
    /\ app = "down"
    /\ app' = "up"
    /\ UNCHANGED <<exits, bus, supervision, calls, settings, cron, hooks, spent>>

-----------------------------------------------------------------------------
System ==
    \/ \E c \in Calls : CallStep(c)
    \/ NotifySchedulesChanged
    \/ HookStep \/ CronStep
    \/ \E w \in Workers : RestartWorker(w)
    \/ MonitorHealth \/ RestartProcess

Environment ==
    \/ OtherEvent \/ PauseOrResume
    \/ \E p \in Plugins : SetPluginEnabled(p)
    \/ \E found \in Found : RescanPlugins(found)
    \/ \E e \in Entries : Tick(e)
    \/ \E c \in Calls : LoadSchedules(c) \/ WriteFails(c)
    \/ \E w \in Workers : \E recent \in 0..failures[w] : Panic(w, recent)
    \/ \E recent \in 0..exits : ProcessFails(recent)

Next == System \/ Environment

\* Threads and timers run on; nothing is assumed of users, failures and clocks.
Fairness ==
    /\ \A c \in Calls : WF_vars(CallStep(c))
    /\ WF_vars(NotifySchedulesChanged)
    /\ WF_vars(HookStep) /\ WF_vars(CronStep)
    /\ \A w \in Workers : WF_vars(RestartWorker(w))
    /\ WF_vars(MonitorHealth) /\ WF_vars(RestartProcess)

Spec == Init /\ [][Next]_vars /\ Fairness

-----------------------------------------------------------------------------
(* Properties *)

TypeOK ==
    /\ app \in {"up", "down", "stopped"} /\ exits \in 0..(Restarts + 1)
    /\ log \in Seq(Kinds)
    /\ cursor \in [Workers -> 1..(Len(log) + 1)]
    /\ worker \in [Workers -> {"start", "snapshot", "load", "wait", "crashed", "gaveup"}]
    /\ failures \in [Workers -> 0..(Restarts + 1)]
    /\ health \in {"Healthy", "Degraded", "Fatal"} /\ told \in BOOLEAN
    /\ file \subseteq Scheds /\ ideal \subseteq Scheds /\ clobbered \subseteq Scheds
    /\ pc \in [Calls -> {"idle", "loaded", "writing", "emit", "done"}]
    /\ text \in [Calls -> SUBSET Scheds]
    /\ installed \subseteq Plugins /\ disabled \subseteq Plugins /\ snapshot \subseteq Plugins
    /\ rescan \in BOOLEAN /\ paused \in BOOLEAN /\ deaf \in BOOLEAN
    /\ loaded \subseteq Entries /\ due \subseteq loaded
    /\ hooked \subseteq (DOMAIN log) \X Plugins /\ missed \subseteq DOMAIN log
    /\ interrupted \subseteq Plugins
    /\ spent \in 0..MaxEnv

(* No hook is started twice for an event, across panics that left some of *)
(* its hooks started, restarts and lags.                                   *)
StartedOnce ==
    [][DispatchEvent => \A p \in Bound(cursor["hook"]) :
                           <<cursor["hook"], p>> \notin hooked]_vars

(* What a completed register_schedule or remove_schedule did stays done,   *)
(* but for calls that overlapped and for a write that did not end.         *)
RegisteredStays ==
    Torn \/ (ideal \ file) \cup (file \ ideal) \subseteq clobbered

(* The cron scheduler comes to work with the schedules file and with the   *)
(* plugins as they are, however calls, rescans, reloads, panics and        *)
(* restarts interleave, and leaves nothing due, unless it lagged behind    *)
(* the event or gave up.                                                   *)
Settled == app = "up" /\ ~rescan /\ \A c \in Calls : pc[c] \in {"idle", "done"}

ScheduleTakenUp ==
    []<>(\/ ~Settled \/ deaf \/ worker["cron"] = "gaveup"
         \/ loaded = EntriesOf(installed, file) /\ due = {})

(* An event reaches each plugin that has a hook for it and was installed   *)
(* and enabled all the time, unless the dispatcher lost it by lag or panic.*)
HooksRun ==
    []<>(\/ app # "up" \/ worker["hook"] = "gaveup"
         \/ \A i \in DOMAIN log \ missed : \A p \in Plugins \ interrupted :
               log[i] \in Hooks[p] => <<i, p>> \in hooked)

(* A panic is answered: the worker runs again, or the desktop has shown    *)
(* that it does not, whatever the other worker reports meanwhile.  A       *)
(* failed process is started again or the crash loop is over.              *)
CrashAnswered ==
    /\ \A w \in Workers :
          worker[w] \in {"crashed", "gaveup"} ~>
              (worker[w] \in {"wait", "snapshot", "load"} \/ told \/ app # "up")
    /\ app = "down" ~> app = "up"
=============================================================================
