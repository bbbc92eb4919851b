-------------------------- MODULE PluginWorkersProofs --------------------------
(***************************************************************************)
(* Proofs about the plugin workers (PluginWorkers), for any plugins,       *)
(* schedules, calls and capacity of the event channel: the types, what the *)
(* schedules file keeps of completed calls, and that a hook starts once.   *)
(***************************************************************************)
EXTENDS PluginWorkers, TLAPS

(* The parts of the type invariant, with what keeps the counters of        *)
(* failures within their bounds: whoever has failed once too often is not  *)
(* started again.                                                          *)
BusOK ==
    /\ log \in Seq(Kinds)
    /\ cursor \in [Workers -> 1..(Len(log) + 1)]
    /\ hooked \subseteq (DOMAIN log) \X Plugins /\ missed \subseteq DOMAIN log

SupervisionOK ==
    /\ app \in {"up", "down", "stopped"}
    /\ exits \in 0..(Restarts + 1) /\ (app # "stopped" => exits <= Restarts)
    /\ worker \in [Workers -> {"start", "snapshot", "load", "wait", "crashed", "gaveup"}]
    /\ failures \in [Workers -> 0..(Restarts + 1)]
    /\ \A w \in Workers : worker[w] # "gaveup" => failures[w] <= Restarts
    /\ health \in {"Healthy", "Degraded", "Fatal"} /\ told \in BOOLEAN

CallsOK ==
    /\ file \subseteq Scheds /\ ideal \subseteq Scheds /\ clobbered \subseteq Scheds
    /\ pc \in [Calls -> {"idle", "loaded", "writing", "emit", "done"}]
    /\ text \in [Calls -> SUBSET Scheds]

SettingsOK ==
    /\ installed \subseteq Plugins /\ disabled \subseteq Plugins
    /\ interrupted \subseteq Plugins
    /\ rescan \in BOOLEAN /\ paused \in BOOLEAN
    /\ spent \in 0..MaxEnv

CronOK ==
    /\ snapshot \subseteq Plugins /\ deaf \in BOOLEAN
    /\ loaded \subseteq Entries /\ due \subseteq loaded

(* The dispatcher has no hook running for an event that it has still to    *)
(* receive.                                                                *)
HookedInv == worker["hook"] = "wait" => \A q \in hooked : q[1] < cursor["hook"]

(* What two sets of schedules do not share.                                *)
Differ(some, others) == (some \ others) \cup (others \ some)

(* What the file, and what each call is about to write, differ in from     *)
(* what completed calls made of the schedules, is known to be lost; while  *)
(* a call has emptied the file, it may lack anything.                      *)
FileInv ==
    /\ file \ ideal \subseteq clobbered
    /\ Torn \/ ideal \ file \subseteq clobbered
    /\ \A c \in Inside : Differ(text[c], Edited(c, ideal)) \subseteq clobbered
    /\ \A c, d \in Inside : c # d => c[2] \in clobbered

IInv == BusOK /\ SupervisionOK /\ CallsOK /\ SettingsOK /\ CronOK /\ HookedInv /\ FileInv

(* They are the type invariant.                                            *)
LEMMA TypeParts == IInv => TypeOK
BY DEF IInv, TypeOK, BusOK, SupervisionOK, CallsOK, SettingsOK, CronOK

(* The steps that touch each part of the state.                            *)
LEMMA Touching ==
    ASSUME Next
    PROVE  /\ \/ UNCHANGED <<log, cursor, hooked, missed>>
              \/ OtherEvent \/ PauseOrResume \/ NotifySchedulesChanged
              \/ \E c \in Calls : EmitSchedulesChanged(c)
              \/ HookStep \/ CronSubscribe \/ CronReceive \/ CronLagged
              \/ \E w \in Workers : \E recent \in 0..failures[w] : Panic(w, recent)
              \/ \E recent \in 0..exits : ProcessFails(recent)
           /\ \/ UNCHANGED <<app, exits, worker, failures, health, told>>
              \/ HookSubscribe \/ CronSubscribe \/ CronSnapshot \/ CronLoad \/ CronReceive
              \/ \E w \in Workers : RestartWorker(w)
              \/ \E w \in Workers : \E recent \in 0..failures[w] : Panic(w, recent)
              \/ \E recent \in 0..exits : ProcessFails(recent)
              \/ MonitorHealth \/ RestartProcess
           /\ \/ UNCHANGED <<file, ideal, clobbered, pc, text>>
              \/ \E c \in Calls : CallStep(c) \/ LoadSchedules(c) \/ WriteFails(c)
              \/ \E recent \in 0..exits : ProcessFails(recent)
           /\ \/ UNCHANGED <<installed, disabled, interrupted, rescan, paused>>
              \/ PauseOrResume \/ NotifySchedulesChanged
              \/ \E p \in Plugins : SetPluginEnabled(p)
              \/ \E found \in Found : RescanPlugins(found)
              \/ \E recent \in 0..exits : ProcessFails(recent)
           /\ UNCHANGED spent \/ Spend
           /\ \/ UNCHANGED <<snapshot, loaded, due, deaf>>
              \/ CronSnapshot \/ CronLoad \/ FireDue \/ CronReceive \/ CronLagged
              \/ \E e \in Entries : Tick(e)
              \/ \E c \in Calls : WriteFails(c)
              \/ \E w \in Workers : RestartWorker(w)
              \/ \E w \in Workers : \E recent \in 0..failures[w] : Panic(w, recent)
              \/ \E recent \in 0..exits : ProcessFails(recent)
BY
   DEF Next, System, Environment, HookStep, CronStep, CallStep, process, bus,
       supervision, calls,
  settings, cron, hooks, OtherEvent, PauseOrResume, SetPluginEnabled, RescanPlugins,
  NotifySchedulesChanged, LoadSchedules, TruncateFile, WriteFile, WriteFails,
  EmitSchedulesChanged, HookSubscribe, DispatchEvent, HookLagged, CronSubscribe, CronSnapshot,
  CronLoad, Tick, FireDue, CronReceive, CronLagged, Panic, RestartWorker, MonitorHealth,
  RestartProcess, ProcessFails, FireEntries, StartHooks

(* A published event leaves the receivers where they are.                  *)
LEMMA AppendedBus ==
    ASSUME BusOK, NEW kind \in Kinds, log' = Append(log, kind), UNCHANGED <<cursor, hooked, missed>>
    PROVE  BusOK'
<1>1. log' \in Seq(Kinds) /\ Len(log') = Len(log) + 1 /\ DOMAIN log' = 1..(Len(log) + 1)
  BY DEF BusOK
<1> QED
  BY <1>1 DEF BusOK

(* A step keeps the events and what was done with them.                    *)
LEMMA BusStep ==
    ASSUME IInv, Next
    PROVE  BusOK'
<1>0. CASE UNCHANGED <<log, cursor, hooked, missed>>
  BY <1>0 DEF IInv, BusOK
<1>1. CASE OtherEvent
  <2>1. PICK kind \in Kinds : log' = Append(log, kind)
    BY <1>1 DEF OtherEvent, Publish, Kinds
  <2>2. UNCHANGED <<cursor, hooked, missed>>
    BY <1>1 DEF OtherEvent, hooks
  <2> QED
    BY <2>1, <2>2, AppendedBus DEF IInv
<1>2. CASE PauseOrResume
  <2>1. PICK kind \in Kinds : log' = Append(log, kind)
    BY <1>2 DEF PauseOrResume, Publish, Kinds
  <2>2. UNCHANGED <<cursor, hooked, missed>>
    BY <1>2 DEF PauseOrResume, hooks
  <2> QED
    BY <2>1, <2>2, AppendedBus DEF IInv
<1>3. CASE NotifySchedulesChanged
  <2>1. PICK kind \in Kinds : log' = Append(log, kind)
    BY <1>3 DEF NotifySchedulesChanged, Publish, Kinds
  <2>2. UNCHANGED <<cursor, hooked, missed>>
    BY <1>3 DEF NotifySchedulesChanged, hooks
  <2> QED
    BY <2>1, <2>2, AppendedBus DEF IInv
<1>4. ASSUME NEW c \in Calls, EmitSchedulesChanged(c) PROVE BusOK'
  <2>1. PICK kind \in Kinds : log' = Append(log, kind)
    BY <1>4 DEF EmitSchedulesChanged, Publish, Kinds
  <2>2. UNCHANGED <<cursor, hooked, missed>>
    BY <1>4 DEF EmitSchedulesChanged, hooks
  <2> QED
    BY <2>1, <2>2, AppendedBus DEF IInv
<1>5. CASE HookSubscribe
  BY <1>5 DEF HookSubscribe, Workers, IInv, BusOK
<1>6. CASE DispatchEvent
  BY <1>6
     DEF DispatchEvent, Received, Lagging, Advance, StartHooks, Bound, SettingsOK,
         Workers, IInv, BusOK
<1>7. CASE HookLagged
  BY <1>7, LimitsAssumption DEF HookLagged, Lagging, SkipTo, Skipped, Workers, IInv, BusOK
<1>8. CASE CronSubscribe
  BY <1>8 DEF CronSubscribe, Workers, IInv, BusOK, hooks
<1>9. CASE CronReceive
  BY <1>9 DEF CronReceive, Received, Lagging, Advance, Workers, IInv, BusOK, hooks
<1>10. CASE CronLagged
  BY <1>10, LimitsAssumption DEF CronLagged, Lagging, SkipTo, Workers, IInv, BusOK, hooks
<1>11. ASSUME NEW w \in Workers, NEW recent \in 0..failures[w], Panic(w, recent) PROVE BusOK'
  BY <1>11
     DEF Panic, Received, StartHooks, Bound, SettingsOK, Workers, IInv, BusOK, bus,
         hooks
<1>12. ASSUME NEW recent \in 0..exits, ProcessFails(recent) PROVE BusOK'
  BY <1>12 DEF ProcessFails, IInv, BusOK
<1> QED
  BY <1>0, <1>1, <1>2, <1>3, <1>4, <1>5, <1>6, <1>7, <1>8, <1>9, <1>10, <1>11, <1>12, Touching
     DEF HookStep

(* A step keeps the supervisors in order.                                  *)
LEMMA SupervisionStep ==
    ASSUME IInv, Next
    PROVE  SupervisionOK'
<1>0. CASE UNCHANGED <<app, exits, worker, failures, health, told>>
  BY <1>0 DEF IInv, SupervisionOK
<1>1. CASE HookSubscribe
  BY <1>1 DEF HookSubscribe, WorkerIs, IInv, SupervisionOK, process
<1>2. CASE CronSubscribe
  BY <1>2 DEF CronSubscribe, WorkerIs, IInv, SupervisionOK, process
<1>3. CASE CronSnapshot
  BY <1>3 DEF CronSnapshot, WorkerIs, IInv, SupervisionOK, process
<1>4. CASE CronLoad
  BY <1>4 DEF CronLoad, WorkerIs, IInv, SupervisionOK, process
<1>5. CASE CronReceive
  <2>1. CASE worker' = [worker EXCEPT !["cron"] = "snapshot"]
    BY <1>5, <2>1 DEF CronReceive, Received, IInv, SupervisionOK, process
  <2>2. CASE UNCHANGED worker
    BY <1>5, <2>2 DEF CronReceive, IInv, SupervisionOK, process
  <2> QED
    BY <1>5, <2>1, <2>2 DEF CronReceive, WorkerIs
<1>6. ASSUME NEW w \in Workers, RestartWorker(w) PROVE SupervisionOK'
  BY <1>6 DEF RestartWorker, WorkerIs, IInv, SupervisionOK, process
<1>7. ASSUME NEW w \in Workers, NEW recent \in 0..failures[w], Panic(w, recent) PROVE SupervisionOK'
  BY <1>7, LimitsAssumption
     DEF Panic, WorkerIs, UpdateHealth, IInv, SupervisionOK, process
<1>8. ASSUME NEW recent \in 0..exits, ProcessFails(recent) PROVE SupervisionOK'
  <2>1. app' \in {"up", "down", "stopped"} /\ exits' \in 0..(Restarts + 1) /\ (app' # "stopped" => exits' <= Restarts)
    BY <1>8, LimitsAssumption DEF ProcessFails, IInv, SupervisionOK
  <2>2. worker' = [v \in Workers |-> "start"] /\ failures' = [v \in Workers |-> 0] /\ health' = "Healthy" /\ told' = FALSE
    BY <1>8 DEF ProcessFails
  <2>3. failures' \in [Workers -> 0..(Restarts + 1)] /\ worker' \in [Workers -> {"start"}]
    BY <2>2, LimitsAssumption
  <2>4. \A v \in Workers : failures'[v] <= Restarts
    BY <2>2, LimitsAssumption
  <2> QED
    BY <2>1, <2>2, <2>3, <2>4 DEF SupervisionOK
<1>9. CASE MonitorHealth
  BY <1>9 DEF MonitorHealth, IInv, SupervisionOK, process
<1>10. CASE RestartProcess
  BY <1>10 DEF RestartProcess, IInv, SupervisionOK, supervision
<1> QED
  BY <1>0, <1>1, <1>2, <1>3, <1>4, <1>5, <1>6, <1>7, <1>8, <1>9, <1>10, Touching

(* A step keeps the calls and the file well-typed.                         *)
LEMMA CallsStep ==
    ASSUME IInv, Next
    PROVE  CallsOK'
<1>0. CASE UNCHANGED <<file, ideal, clobbered, pc, text>>
  BY <1>0 DEF IInv, CallsOK
<1>1. ASSUME NEW c \in Calls, LoadSchedules(c) PROVE CallsOK'
  BY <1>1, CallsAssumption DEF LoadSchedules, Edited, Lost, Inside, Goto, IInv, CallsOK
<1>2. ASSUME NEW c \in Calls, TruncateFile(c) PROVE CallsOK'
  BY <1>2 DEF TruncateFile, Goto, IInv, CallsOK
<1>3. ASSUME NEW c \in Calls, WriteFile(c) PROVE CallsOK'
  BY <1>3, CallsAssumption DEF WriteFile, Edited, Goto, IInv, CallsOK
<1>4. ASSUME NEW c \in Calls, WriteFails(c) PROVE CallsOK'
  BY <1>4 DEF WriteFails, Inside, Goto, IInv, CallsOK
<1>5. ASSUME NEW c \in Calls, EmitSchedulesChanged(c) PROVE CallsOK'
  BY <1>5 DEF EmitSchedulesChanged, Goto, IInv, CallsOK
<1>6. ASSUME NEW recent \in 0..exits, ProcessFails(recent) PROVE CallsOK'
  BY <1>6 DEF ProcessFails, Inside, IInv, CallsOK
<1> QED
  BY <1>0, <1>1, <1>2, <1>3, <1>4, <1>5, <1>6, Touching DEF CallStep

(* A step keeps the cron scheduler well-typed.                             *)
LEMMA CronPartStep ==
    ASSUME IInv, Next
    PROVE  CronOK'
<1>0. CASE UNCHANGED <<snapshot, loaded, due, deaf>>
  BY <1>0 DEF IInv, CronOK
<1>1. CASE CronSnapshot
  BY <1>1 DEF CronSnapshot, SettingsOK, IInv, CronOK
<1>2. CASE CronLoad
  BY <1>2 DEF CronLoad, EntriesOf, Entries, CallsOK, IInv, CronOK
<1>3. CASE FireDue
  BY <1>3 DEF FireDue, IInv, CronOK
<1>4. CASE CronReceive
  BY <1>4 DEF CronReceive, IInv, CronOK
<1>5. CASE CronLagged
  BY <1>5 DEF CronLagged, IInv, CronOK
<1>6. ASSUME NEW e \in Entries, Tick(e) PROVE CronOK'
  BY <1>6 DEF Tick, IInv, CronOK
<1>7. ASSUME NEW c \in Calls, WriteFails(c) PROVE CronOK'
  BY <1>7 DEF WriteFails, IInv, CronOK
<1>8. ASSUME NEW w \in Workers, RestartWorker(w) PROVE CronOK'
  BY <1>8 DEF RestartWorker, IInv, CronOK, cron
<1>9. ASSUME NEW w \in Workers, NEW recent \in 0..failures[w], Panic(w, recent) PROVE CronOK'
  BY <1>9 DEF Panic, IInv, CronOK, cron
<1>10. ASSUME NEW recent \in 0..exits, ProcessFails(recent) PROVE CronOK'
  BY <1>10 DEF ProcessFails, IInv, CronOK
<1> QED
  BY <1>0, <1>1, <1>2, <1>3, <1>4, <1>5, <1>6, <1>7, <1>8, <1>9, <1>10, Touching

(* A step keeps the settings well-typed.                                   *)
LEMMA SettingsStep ==
    ASSUME IInv, Next
    PROVE  SettingsOK'
<1>9. spent' \in 0..MaxEnv
  BY Touching, LimitsAssumption DEF Spend, IInv, SettingsOK
<1>0. CASE UNCHANGED <<installed, disabled, interrupted, rescan, paused>>
  BY <1>0, <1>9 DEF IInv, SettingsOK
<1>1. CASE PauseOrResume
  BY <1>1, <1>9 DEF PauseOrResume, IInv, SettingsOK, hooks
<1>2. CASE NotifySchedulesChanged
  BY <1>2, <1>9 DEF NotifySchedulesChanged, IInv, SettingsOK, hooks
<1>3. ASSUME NEW p \in Plugins, SetPluginEnabled(p) PROVE SettingsOK'
  BY <1>3, <1>9 DEF SetPluginEnabled, IInv, SettingsOK
<1>4. ASSUME NEW found \in Found, RescanPlugins(found) PROVE SettingsOK'
  BY <1>4, <1>9, FoundAssumption DEF RescanPlugins, IInv, SettingsOK
<1>5. ASSUME NEW recent \in 0..exits, ProcessFails(recent) PROVE SettingsOK'
  BY <1>5, <1>9 DEF ProcessFails, IInv, SettingsOK
<1> QED
  BY <1>0, <1>1, <1>2, <1>3, <1>4, <1>5, Touching

(* Only these steps move the dispatcher.                                   *)
LEMMA TouchingHook ==
    ASSUME IInv, Next
    PROVE  \/ UNCHANGED <<worker["hook"], cursor["hook"], hooked>>
           \/ HookStep \/ RestartWorker("hook")
           \/ \E recent \in 0..failures["hook"] : Panic("hook", recent)
           \/ \E recent \in 0..exits : ProcessFails(recent)
BY DEF Next, System, Environment, HookStep, CronStep, CallStep, bus, supervision, 
  settings, cron, hooks, OtherEvent, PauseOrResume, SetPluginEnabled, RescanPlugins,
  NotifySchedulesChanged, LoadSchedules, TruncateFile, WriteFile, WriteFails,
  EmitSchedulesChanged, CronSubscribe, CronSnapshot, CronLoad, Tick, FireDue, CronReceive,
  CronLagged, Panic, RestartWorker, MonitorHealth, RestartProcess, IInv, BusOK, SupervisionOK,
  Workers, WorkerIs, SkipTo, Advance

(* The dispatcher is never behind what it has started.                     *)
LEMMA HookedStep ==
    ASSUME IInv, Next
    PROVE  HookedInv'
<1>0. CASE UNCHANGED <<worker["hook"], cursor["hook"], hooked>>
  BY <1>0 DEF IInv, HookedInv
<1>1. CASE HookSubscribe
  BY <1>1 DEF HookSubscribe, IInv, BusOK, HookedInv, Workers
<1>2. CASE DispatchEvent
  <2>1. cursor'["hook"] = cursor["hook"] + 1 /\ cursor["hook"] \in Nat
    BY <1>2 DEF DispatchEvent, Advance, IInv, BusOK, Workers
  <2>2. \A q \in hooked' : q \in hooked \/ q[1] = cursor["hook"]
    BY <1>2 DEF DispatchEvent, StartHooks
  <2>3. worker["hook"] = "wait" /\ \A q \in hooked : q[1] \in Nat
    BY <1>2 DEF DispatchEvent, Received, IInv, BusOK
  <2> QED
    BY <2>1, <2>2, <2>3 DEF IInv, HookedInv
<1>3. CASE HookLagged
  <2>1. cursor'["hook"] > cursor["hook"] /\ cursor["hook"] \in Nat /\ cursor'["hook"] \in Nat
    BY <1>3, LimitsAssumption DEF HookLagged, Lagging, SkipTo, IInv, BusOK, Workers
  <2>2. hooked' = hooked /\ worker["hook"] = "wait" /\ \A q \in hooked : q[1] \in Nat
    BY <1>3 DEF HookLagged, IInv, BusOK
  <2> QED
    BY <2>1, <2>2 DEF IInv, HookedInv
<1>4. CASE RestartWorker("hook")
  BY <1>4 DEF RestartWorker, WorkerIs, IInv, SupervisionOK, HookedInv
<1>5. ASSUME NEW recent \in 0..failures["hook"], Panic("hook", recent) PROVE HookedInv'
  BY <1>5 DEF Panic, WorkerIs, IInv, SupervisionOK, HookedInv, Workers
<1>6. ASSUME NEW recent \in 0..exits, ProcessFails(recent) PROVE HookedInv'
  BY <1>6 DEF ProcessFails, HookedInv
<1> QED
  BY <1>0, <1>1, <1>2, <1>3, <1>4, <1>5, <1>6, TouchingHook DEF HookStep

(* A step loses no schedule that is not known to be lost.                  *)
LEMMA FileStep ==
    ASSUME IInv, Next
    PROVE  FileInv'
<1>0. CASE UNCHANGED <<file, ideal, clobbered, pc, text>>
  BY <1>0 DEF IInv, FileInv, Torn, Inside
<1>1. ASSUME NEW c \in Calls, LoadSchedules(c) PROVE FileInv'
  <2>1. CASE Edited(c, file) = file
    <3>1. Inside' = Inside /\ (Torn' <=> Torn)
      BY <1>1, <2>1 DEF LoadSchedules, Goto, Inside, Torn, IInv, CallsOK
    <3> QED
      BY <1>1, <2>1, <3>1 DEF LoadSchedules, IInv, FileInv
  <2>2. CASE Edited(c, file) # file
    <3>1. Inside' = Inside \cup {c} /\ c \notin Inside /\ (Torn' <=> Torn)
      BY <1>1, <2>2 DEF LoadSchedules, Goto, Inside, Torn, IInv, CallsOK
    <3>2. clobbered' = clobbered \cup Lost(c) /\ UNCHANGED <<file, ideal>>
      BY <1>1, <2>2 DEF LoadSchedules
    <3>3. text'[c] = Edited(c, file) /\ \A d \in Inside : text'[d] = text[d]
      BY <1>1, <2>2, <3>1 DEF LoadSchedules, Inside, IInv, CallsOK
    <3>4. Differ(file, ideal) \subseteq clobbered'
      <4>1. CASE Torn
        BY <3>2, <4>1 DEF Lost, Torn, Inside, Differ, IInv, FileInv
      <4>2. CASE ~Torn
        BY <3>2, <4>2 DEF Differ, IInv, FileInv
      <4> QED
        BY <4>1, <4>2
    <3>5. Differ(text'[c], Edited(c, ideal)) \subseteq clobbered'
      BY <3>3, <3>4 DEF Differ, Edited
    <3>6. \A d \in Inside : {c[2], d[2]} \subseteq clobbered'
      BY <3>2 DEF Lost
    <3> QED
      BY <3>1, <3>2, <3>3, <3>5, <3>6 DEF IInv, FileInv, Edited
  <2> QED
    BY <2>1, <2>2
<1>2. ASSUME NEW c \in Calls, TruncateFile(c) PROVE FileInv'
  <2>1. Inside' = Inside /\ Torn'
    BY <1>2 DEF TruncateFile, Goto, Inside, Torn, IInv, CallsOK
  <2> QED
    BY <1>2, <2>1 DEF TruncateFile, IInv, FileInv, Edited
<1>3. ASSUME NEW c \in Calls, WriteFile(c) PROVE FileInv'
  <2>1. c \in Inside /\ Inside' = Inside \ {c}
    BY <1>3 DEF WriteFile, Goto, Inside, IInv, CallsOK
  <2>2. file' = text[c] /\ ideal' = Edited(c, ideal) /\ clobbered' = clobbered
    BY <1>3 DEF WriteFile
  <2>3. Differ(file', ideal') \subseteq clobbered'
    BY <2>1, <2>2 DEF IInv, FileInv
  <2>4. ASSUME NEW d \in Inside' PROVE Differ(text'[d], Edited(d, ideal')) \subseteq clobbered'
    <3>1. text'[d] = text[d] /\ d \in Inside /\ d # c
      BY <1>3, <2>1 DEF WriteFile, Inside, IInv, CallsOK
    <3>2. c[2] \in clobbered /\ Differ(text[d], Edited(d, ideal)) \subseteq clobbered
      BY <2>1, <3>1 DEF IInv, FileInv
    <3> QED
      BY <2>2, <3>1, <3>2 DEF Differ, Edited
  <2> QED
    BY <2>1, <2>2, <2>3, <2>4 DEF IInv, FileInv, Differ
<1>4. ASSUME NEW c \in Calls, WriteFails(c) PROVE FileInv'
  <2>1. c \in Inside /\ Inside' = Inside \ {c}
    BY <1>4 DEF WriteFails, Goto, Inside, IInv, CallsOK
  <2>2. ideal \subseteq clobbered' /\ clobbered \subseteq clobbered' /\ UNCHANGED <<file, ideal>>
    BY <1>4 DEF WriteFails
  <2>3. \A d \in Inside' : text'[d] = text[d]
    BY <1>4, <2>1 DEF WriteFails, Inside, IInv, CallsOK
  <2> QED
    BY <2>1, <2>2, <2>3 DEF IInv, FileInv, Edited
<1>5. ASSUME NEW c \in Calls, EmitSchedulesChanged(c) PROVE FileInv'
  <2>1. Inside' = Inside /\ (Torn' <=> Torn)
    BY <1>5 DEF EmitSchedulesChanged, Goto, Inside, Torn, IInv, CallsOK
  <2> QED
    BY <1>5, <2>1 DEF EmitSchedulesChanged, IInv, FileInv, Edited
<1>6. ASSUME NEW recent \in 0..exits, ProcessFails(recent) PROVE FileInv'
  <2>1. Inside' = {} /\ ~Torn'
    BY <1>6 DEF ProcessFails, Inside, Torn
  <2>2. UNCHANGED <<file, ideal>> /\ clobbered \subseteq clobbered' /\ (Torn => ideal \subseteq clobbered')
    BY <1>6 DEF ProcessFails
  <2> QED
    BY <2>1, <2>2 DEF IInv, FileInv
<1> QED
  BY <1>0, <1>1, <1>2, <1>3, <1>4, <1>5, <1>6, Touching DEF CallStep

(* What is true between any two steps.                                     *)
LEMMA Inductive == Spec => []IInv
<1>1. Init => IInv
  <2> SUFFICES ASSUME Init PROVE IInv
    OBVIOUS
  <2>1. BusOK
    BY DEF Init, BusOK
  <2>. 0 \in 0..(Restarts + 1) /\ 0 <= Restarts /\ 0 \in 0..MaxEnv
    BY LimitsAssumption
  <2>2. SupervisionOK
    <3>1. worker \in [Workers -> {"start"}] /\ failures \in [Workers -> {0}]
      BY DEF Init
    <3> QED
      BY <3>1 DEF Init, SupervisionOK
  <2>3. CallsOK /\ SettingsOK /\ CronOK
    <3>1. pc \in [Calls -> {"idle"}] /\ text \in [Calls -> {{}}]
      BY DEF Init
    <3> QED
      BY <3>1 DEF Init, CallsOK, SettingsOK, CronOK
  <2>4. HookedInv
    BY DEF Init, HookedInv
  <2>5. FileInv
    BY DEF Init, FileInv, Inside, Torn
  <2> QED
    BY <2>1, <2>2, <2>3, <2>4, <2>5 DEF IInv
<1>2. IInv /\ [Next]_vars => IInv'
  <2>1. IInv /\ Next => IInv'
    BY BusStep, SupervisionStep, CallsStep, SettingsStep, CronPartStep, HookedStep, FileStep
    DEF IInv
  <2>2. IInv /\ UNCHANGED vars => IInv'
    BY DEF vars, process, bus, supervision, calls, settings, cron, hooks, IInv, BusOK,
      SupervisionOK, CallsOK, SettingsOK, CronOK, HookedInv, FileInv, Inside, Torn
  <2> QED
    BY <2>1, <2>2
<1> QED
  BY <1>1, <1>2, PTL DEF Spec

(* Every variable keeps its type: in particular nobody is restarted more   *)
(* often than the list of delays is long, and no receiver is ahead of the  *)
(* events.                                                                 *)
THEOREM TypeCorrect == Spec => []TypeOK
BY Inductive, TypeParts, PTL

(* For any calls that register and remove schedules, overlapping as they   *)
(* like: what a completed one did stays done, but for what the overlap, or *)
(* a write that did not end, is known to have lost (schedule.rs).          *)
THEOREM CompletedCallsStay == Spec => []RegisteredStays
<1>1. IInv => RegisteredStays
  BY DEF IInv, FileInv, RegisteredStays
<1> QED
  BY <1>1, Inductive, PTL

(* The dispatcher starts each hook at most once for an event, whatever     *)
(* part of the hooks a panic had left started (scheduler.rs).              *)
THEOREM HooksStartOnce == Spec => StartedOnce
<1>1. IInv /\ Next => (DispatchEvent => \A p \in Bound(cursor["hook"]) : <<cursor["hook"], p>> \notin hooked)
  <2> SUFFICES ASSUME IInv, DispatchEvent, NEW p \in Bound(cursor["hook"]),
                      <<cursor["hook"], p>> \in hooked
               PROVE  FALSE
    OBVIOUS
  <2>1. worker["hook"] = "wait" /\ cursor["hook"] \in Nat
    BY DEF DispatchEvent, Received, IInv, BusOK
  <2>2. <<cursor["hook"], p>>[1] < cursor["hook"]
    BY <2>1 DEF IInv, HookedInv
  <2> QED
    BY <2>1, <2>2
<1> QED
  BY <1>1, Inductive, PTL DEF Spec, StartedOnce

=============================================================================
