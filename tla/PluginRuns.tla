------------------------------ MODULE PluginRuns ------------------------------
(***************************************************************************)
(* The runs of plugins (crates/plugin, invoke.rs and registry.rs), from    *)
(* their three kinds of callers: previews and actions of a plugin's page   *)
(* in the desktop (PluginPageViewModel.cs), each a blocking call into the  *)
(* daemon from a thread of its own, and tasks, the hooks and cron jobs     *)
(* that the workers spawn on the runtime.                                  *)
(*                                                                         *)
(* A run spawns a process, then enters the registry, then waits for the    *)
(* first of: exit, timeout, cancellation.  Dropping the wait kills the     *)
(* process, dropping the guard removes the entry.  A run stands for its    *)
(* id: next_id gives none twice.                                           *)
(*                                                                         *)
(* Stopping the daemon cancels what is registered, then drops the handle;  *)
(* the runtime goes with the last call that still holds the handle.  The   *)
(* process of the desktop then ends and takes its threads with it.         *)
(***************************************************************************)
EXTENDS Naturals, FiniteSets

CONSTANTS
    Actions,      \* runs of the page's action
    Tasks,        \* runs spawned by the workers
    Values,       \* values of the page's form
    Default,      \* what its fields declare
    NoForm,       \* stands for no form
    MaxPreviews,  \* bound on the number of previews
    Refreshes     \* the page's submit has refreshAfterSubmit

Previews == 1..MaxPreviews
Blocking == Previews \cup Actions
Runs == Blocking \cup Tasks

ASSUME RunsAssumption ==
    /\ MaxPreviews \in Nat \ {0}
    /\ Previews \cap Actions = {} /\ Blocking \cap Tasks = {}
ASSUME ValuesAssumption == Default \in Values /\ NoForm \notin Values /\ Refreshes \in BOOLEAN

VARIABLES
    app,       \* the daemon: up, cancelled, disposed, exited
    phase,     \* where each run is
    outcome,   \* how it ended, until its caller has seen that
    alive,     \* runs whose process is alive
    entries,   \* the registry's entries
    fired,     \* runs under way whose kill signal was sent
    form,      \* the form that the page shows
    version,   \* _previewVersion: the newest preview
    sent,      \* the form that each preview under way was started with
    shown      \* the form that the shown preview answers, or none

runs == <<phase, outcome, alive, entries, fired>>
page == <<form, version, sent, shown>>
vars == <<app, runs, page>>

Goto(r, step) == phase' = [phase EXCEPT ![r] = step]
Settle(r, how) == outcome' = [outcome EXCEPT ![r] = how]

\* The opening of the page starts the first preview.
Init ==
    /\ app = "up"
    /\ phase = [r \in Runs |-> IF r = 1 THEN "delay" ELSE "idle"]
    /\ outcome = [r \in Runs |-> "none"]
    /\ alive = {} /\ entries = {} /\ fired = {}
    /\ form = Default /\ version = 1
    /\ sent = [v \in Previews |-> NoForm] /\ shown = NoForm

Running == app # "exited"

-----------------------------------------------------------------------------
(* The page, on the UI's thread, which Stop occupies to the end *)

\* RefreshPreview: the version is taken before the delay.
RefreshPreview == version' = version + 1 /\ Goto(version + 1, "delay")

\* OnFieldChanged, from the user or from a row chosen in a table
Edit(value) ==
    /\ app = "up" /\ value # form /\ version < MaxPreviews
    /\ form' = value
    /\ RefreshPreview
    /\ UNCHANGED <<app, outcome, alive, entries, fired, sent, shown>>

\* The delay is over: the form is read now, on the worker's thread, and then
\* the handle.  A stopped daemon refuses, and nobody is left to see that.
StartPreview(v) ==
    /\ app = "up" /\ phase[v] = "delay"
    /\ sent' = [sent EXCEPT ![v] = form]
    /\ Goto(v, "called")
    /\ UNCHANGED <<app, outcome, alive, entries, fired, form, version, shown>>

\* RunCore: one run at a time.
RunAction(a) ==
    /\ app = "up" /\ phase[a] = "idle"
    /\ \A b \in Actions : phase[b] \in {"idle", "seen"}
    /\ Goto(a, "called")
    /\ UNCHANGED <<app, outcome, alive, entries, fired, page>>

\* Mutant of ApplyPreview: whatever comes last is shown.
ApplyLast(v) ==
    /\ app = "up" /\ phase[v] = "over"
    /\ Goto(v, "seen") /\ Settle(v, "none")
    /\ shown' = sent[v]
    /\ sent' = [sent EXCEPT ![v] = NoForm]
    /\ UNCHANGED <<app, alive, entries, fired, form, version>>

\* Back on the UI's thread: a result, or an error, is shown when no newer
\* preview was asked for.
ApplyPreview(v) ==
    /\ app = "up" /\ phase[v] = "over"
    /\ Goto(v, "seen") /\ Settle(v, "none")
    /\ shown' = IF v = version THEN sent[v] ELSE shown
    /\ sent' = [sent EXCEPT ![v] = NoForm]
    /\ UNCHANGED <<app, alive, entries, fired, form, version>>

\* Only a result refreshes the preview.
ApplyResult(a) ==
    /\ app = "up" /\ phase[a] = "over"
    /\ IF Refreshes /\ outcome[a] = "result" /\ version < MaxPreviews
       THEN /\ phase' = [phase EXCEPT ![a] = "seen", ![version + 1] = "delay"]
            /\ version' = version + 1
       ELSE Goto(a, "seen") /\ UNCHANGED version
    /\ Settle(a, "none")
    /\ UNCHANGED <<app, alive, entries, fired, form, sent, shown>>

-----------------------------------------------------------------------------
(* A run *)

\* The spawn: a program that does not start is an error.
Launch(r) ==
    \/ Goto(r, "spawned") /\ alive' = alive \cup {r} /\ UNCHANGED outcome
    \/ Goto(r, "over") /\ Settle(r, "failed") /\ UNCHANGED alive

\* run_plugin_action, preview_plugin_action: so is an unknown plugin.
Spawn(r) ==
    /\ Running /\ phase[r] = "called"
    /\ Launch(r)
    /\ UNCHANGED <<app, entries, fired, page>>

\* PluginProcessRegistry::register, a moment after the process has started
Register(r) ==
    /\ Running /\ phase[r] = "spawned"
    /\ entries' = entries \cup {r}
    /\ Goto(r, "waiting")
    /\ UNCHANGED <<app, outcome, alive, fired, page>>

\* The process ends on its own.
ProcessExits(r) ==
    /\ r \in alive
    /\ alive' = alive \ {r}
    /\ UNCHANGED <<app, phase, outcome, entries, fired, page>>

\* The branches of select!, and what drops with the function: first the wait,
\* which kills the process, then the guard.
Take(r, how) ==
    /\ Running /\ phase[r] = "waiting"
    /\ alive' = alive \ {r}
    /\ Settle(r, how)
    /\ Goto(r, "ending")
    /\ UNCHANGED <<app, entries, fired, page>>

\* Exit code 0 and one JSON value on stdout are a result.
TakeExit(r) == r \notin alive /\ (Take(r, "result") \/ Take(r, "failed"))

\* Mutant of TakeTimeout: the process is left to itself (no kill_on_drop).
TakeTimeoutDetach(r) ==
    /\ Running /\ phase[r] = "waiting"
    /\ Settle(r, "failed")
    /\ Goto(r, "ending")
    /\ UNCHANGED <<app, alive, entries, fired, page>>

\* Every run has a timeout, declared or 30 seconds; for its caller this is one
\* more failure.
TakeTimeout(r) == Take(r, "failed")

\* The signal, or its sender's end: see RegistrationGuard.
TakeCancel(r) == r \in fired /\ Take(r, "cancelled")

\* RegistrationGuard::drop
Deregister(r) ==
    /\ Running /\ phase[r] = "ending"
    /\ entries' = entries \ {r}
    /\ fired' = fired \ {r}
    /\ Goto(r, "over")
    /\ UNCHANGED <<app, outcome, alive, page>>

RunStep(r) ==
    \/ Spawn(r) \/ Register(r)
    \/ TakeExit(r) \/ TakeTimeout(r) \/ TakeCancel(r) \/ Deregister(r)

-----------------------------------------------------------------------------
(* Cancellation and the end *)

\* Mutant of Cancel: the entry goes, its sender stays with the run.
CancelUnheard(r) ==
    /\ app = "up" /\ r \in entries
    /\ entries' = entries \ {r}
    /\ UNCHANGED <<app, phase, outcome, alive, fired, page>>

\* PluginProcessRegistry::cancel, from the Running panel: an id that is not in
\* the registry any more changes nothing.
Cancel(r) ==
    /\ app = "up" /\ r \in entries
    /\ entries' = entries \ {r}
    /\ fired' = fired \cup {r}
    /\ UNCHANGED <<app, phase, outcome, alive, page>>

\* DaemonService.Stop takes the handle away; DaemonHandle::shutdown cancels
\* what is registered now.
Shutdown ==
    /\ app = "up"
    /\ app' = "cancelled"
    /\ entries' = {}
    /\ fired' = fired \cup entries
    /\ UNCHANGED <<phase, outcome, alive, page>>

\* A worker goes on until the runtime goes.
StartTask(t) ==
    /\ app \in {"up", "cancelled", "released"} /\ phase[t] = "idle"
    /\ Launch(t)
    /\ UNCHANGED <<app, entries, fired, page>>

\* A blocking call holds the handle from its start to its return.
Held(step) == \E r \in Blocking : step[r] \in {"called", "spawned", "waiting", "ending"}

Unfinished == {t \in Tasks : phase[t] \notin {"idle", "over"}}

\* Mutant of DropRuntime: the tasks go, their processes stay.
DropTasks ==
    /\ phase' = [r \in Runs |-> IF r \in Unfinished THEN "over" ELSE phase[r]]
    /\ outcome' = [r \in Runs |-> IF r \in Unfinished THEN "dropped" ELSE outcome[r]]
    /\ entries' = entries \ Unfinished
    /\ fired' = fired \ Unfinished
    /\ UNCHANGED alive

\* Mutant of DropRuntime: a task's caller is not told.
DropSilently ==
    /\ phase' = [r \in Runs |-> IF r \in Unfinished THEN "over" ELSE phase[r]]
    /\ entries' = entries \ Unfinished
    /\ fired' = fired \ Unfinished
    /\ alive' = alive \ Unfinished
    /\ UNCHANGED outcome

\* The runtime drops its tasks, which drop their processes and entries.
DropRuntime ==
    /\ phase' = [r \in Runs |-> IF r \in Unfinished THEN "over" ELSE phase[r]]
    /\ outcome' = [r \in Runs |-> IF r \in Unfinished THEN "dropped" ELSE outcome[r]]
    /\ entries' = entries \ Unfinished
    /\ fired' = fired \ Unfinished
    /\ alive' = alive \ Unfinished

\* handle.Dispose: the desktop's reference goes.  The last one takes the
\* runtime with it.
Dispose ==
    /\ app = "cancelled"
    /\ IF Held(phase) THEN app' = "released" /\ UNCHANGED runs
                      ELSE app' = "disposed" /\ DropRuntime
    /\ UNCHANGED page

\* The last blocking call has returned.
Release ==
    /\ app = "released" /\ ~Held(phase)
    /\ app' = "disposed"
    /\ DropRuntime
    /\ UNCHANGED page

\* The desktop's process ends; it waits for none of its threads.
Exit ==
    /\ app \in {"released", "disposed"}
    /\ app' = "exited"
    /\ UNCHANGED <<runs, page>>

-----------------------------------------------------------------------------
PageStep ==
    \/ \E v \in Previews : StartPreview(v) \/ ApplyPreview(v)
    \/ \E a \in Actions : ApplyResult(a)

Next ==
    \/ \E value \in Values : Edit(value)
    \/ \E a \in Actions : RunAction(a)
    \/ \E t \in Tasks : StartTask(t)
    \/ \E r \in Runs : RunStep(r) \/ ProcessExits(r) \/ Cancel(r)
    \/ PageStep
    \/ Shutdown \/ Dispose \/ Release \/ Exit

\* Threads and timers run on.  Nothing is assumed of the user and of plugins:
\* a process need not end, and no one need cancel or quit.
Fairness == WF_vars(\E r \in Runs : RunStep(r)) /\ WF_vars(PageStep)

Spec == Init /\ [][Next]_vars /\ Fairness

-----------------------------------------------------------------------------
(* Properties *)

TypeOK ==
    /\ app \in {"up", "cancelled", "released", "disposed", "exited"}
    /\ phase \in [Runs -> {"idle", "delay", "called", "spawned", "waiting", "ending", "over", "seen"}]
    /\ outcome \in [Runs -> {"none", "result", "failed", "cancelled", "dropped"}]
    /\ \A r \in Runs : outcome[r] # "none" <=> phase[r] \in {"ending", "over"}
    /\ alive \subseteq Runs /\ entries \subseteq Runs /\ fired \subseteq Runs
    /\ form \in Values /\ version \in Previews
    /\ sent \in [Previews -> Values \cup {NoForm}] /\ shown \in Values \cup {NoForm}

(* While the daemon is up, a process that was started is in the registry,  *)
(* where it can be seen and cancelled, but for the moment before it is     *)
(* registered; what left the registry with its process alive has been told *)
(* to end.  And a run that is over is not listed.                          *)
Tracked ==
    /\ app # "exited" =>
          \A r \in alive : phase[r] = "spawned" \/ r \in entries \cup fired
    /\ \A r \in entries : phase[r] \in {"waiting", "ending"}

(* The preview on the page comes to answer the form on the page, however   *)
(* debounce, slow or hanging previews, edits, cancellations and the        *)
(* refresh after an action interleave.                                     *)
PreviewSettles == []<>(app # "up" \/ shown = form)

(* With the runtime goes the last process: one outlives the desktop only   *)
(* when the desktop's process ended while a blocking call still held the   *)
(* handle, which cancel_all cannot rule out.                               *)
NoneOutlivesRuntime == app = "disposed" => alive = {} /\ entries = {}

\* What the contract says of the phase of a run, and of its answer.
Stage(r) == IF phase[r] \in {"idle", "delay", "called"} THEN "none"
            ELSE IF phase[r] \in {"over", "seen"} THEN phase[r] ELSE "running"

AnswerOf(r) == IF phase[r] = "ending" THEN "none" ELSE outcome[r]

(* Each run keeps the contract: one process for as long as it runs, one    *)
(* answer, cancelled only on demand, and an answer in the end.             *)
Contract == INSTANCE RunContract WITH
    stage <- [r \in Runs |-> Stage(r)], answer <- [r \in Runs |-> AnswerOf(r)],
    live <- alive, asked <- fired,
    stopped <- app # "up", gone <- app = "exited"

KeepsContract == Contract!Spec
=============================================================================
