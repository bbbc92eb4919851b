--------------------------- MODULE PluginRunsProofs ---------------------------
(***************************************************************************)
(* Proofs about the runs of plugins (PluginRuns), for any actions, tasks,  *)
(* form values and number of previews: what is listed, what the end of the *)
(* runtime leaves, and that each run keeps the contract of RunContract.    *)
(***************************************************************************)
EXTENDS PluginRuns, TLAPS

Phases == {"idle", "delay", "called", "spawned", "waiting", "ending", "over", "seen"}
Outcomes == {"none", "result", "failed", "cancelled", "dropped"}

(* What the phase of a run says of its process, its entry, its signal and  *)
(* its answer; previews after the newest are still to come.                *)
RunInv(r) ==
    /\ r \in Tasks => phase[r] \in {"idle", "spawned", "waiting", "ending", "over"}
    /\ r \in alive => phase[r] \in {"spawned", "waiting"}
    /\ r \in alive /\ phase[r] = "waiting" => r \in entries \cup fired
    /\ r \in entries \cup fired => phase[r] \in {"waiting", "ending"}
    /\ phase[r] = "ending" => outcome[r] # "dropped" /\ (outcome[r] = "cancelled" => r \in fired)

(* Once the runtime is gone no run is under way.                           *)
EndInv ==
    /\ app = "disposed" =>
          \A r \in Runs : phase[r] \notin {"called", "spawned", "waiting", "ending"}
    /\ \A v \in Previews : v > version => phase[v] = "idle"

IInv == TypeOK /\ EndInv /\ \A r \in Runs : RunInv(r)

(* Every step keeps the types.                                             *)
LEMMA TypeStep ==
    ASSUME IInv, Next
    PROVE  TypeOK'
<1>1. ASSUME NEW value \in Values, Edit(value) PROVE TypeOK'
  <2>1. version + 1 \in Previews /\ phase[version + 1] = "idle"
    BY <1>1, RunsAssumption DEF Edit, IInv, EndInv, TypeOK, Previews
  <2> QED
    BY <1>1, <2>1 DEF Edit, RefreshPreview, Goto, IInv, TypeOK
<1>2. ASSUME NEW v \in Previews, StartPreview(v) PROVE TypeOK'
  BY <1>2 DEF StartPreview, Goto, IInv, TypeOK
<1>3. ASSUME NEW v \in Previews, ApplyPreview(v) PROVE TypeOK'
  BY <1>3 DEF ApplyPreview, Goto, Settle, IInv, TypeOK
<1>4. ASSUME NEW a \in Actions, RunAction(a) PROVE TypeOK'
  BY <1>4 DEF RunAction, Goto, page, IInv, TypeOK
<1>5. ASSUME NEW a \in Actions, ApplyResult(a) PROVE TypeOK'
  <2>1. CASE Refreshes /\ outcome[a] = "result" /\ version < MaxPreviews
    <3> DEFINE v == version + 1
    <3>1. v \in Previews /\ phase[v] = "idle" /\ v # a
      BY <2>1, RunsAssumption DEF IInv, EndInv, TypeOK, Previews
    <3>2. phase' = [phase EXCEPT ![a] = "seen", ![v] = "delay"] /\ version' = v /\ outcome' = [outcome EXCEPT ![a] = "none"]
      BY <1>5, <2>1 DEF ApplyResult, Settle
    <3>3. UNCHANGED <<app, alive, entries, fired, form, sent, shown>>
      BY <1>5 DEF ApplyResult
    <3> HIDE DEF v
    <3>4. phase' \in [Runs -> Phases]
      BY <3>2 DEF Phases, IInv, TypeOK
    <3>5. ASSUME NEW s \in Runs PROVE (outcome[s] # "none" <=> phase[s] \in {"ending", "over"})'
      BY <3>1, <3>2 DEF IInv, TypeOK
    <3> QED
      BY <3>1, <3>2, <3>3, <3>4, <3>5 DEF Phases, IInv, TypeOK
  <2>2. CASE ~(Refreshes /\ outcome[a] = "result" /\ version < MaxPreviews)
    <3>1. phase' \in [Runs -> Phases]
      BY <1>5, <2>2 DEF ApplyResult, Phases, Goto, IInv, TypeOK
    <3>2. outcome' \in [Runs -> Outcomes]
      BY <1>5, <2>2 DEF ApplyResult, Outcomes, Settle, IInv, TypeOK
    <3>3. ASSUME NEW s \in Runs PROVE (outcome[s] # "none" <=> phase[s] \in {"ending", "over"})'
      BY <1>5, <2>2 DEF ApplyResult, Goto, Settle, IInv, TypeOK
    <3>4. alive' \subseteq Runs /\ entries' \subseteq Runs /\ fired' \subseteq Runs /\ UNCHANGED <<form, sent, shown>>
      BY <1>5, <2>2 DEF ApplyResult, IInv, TypeOK
    <3>5. app' \in {"up", "cancelled", "released", "disposed", "exited"} /\ UNCHANGED version
      BY <1>5, <2>2 DEF ApplyResult, IInv
    <3> QED
      BY <3>1, <3>2, <3>3, <3>4, <3>5 DEF Phases, Outcomes, IInv, TypeOK
  <2> QED
    BY <2>1, <2>2
<1>6. ASSUME NEW t \in Tasks, StartTask(t) PROVE TypeOK'
  <2>1. phase' \in [Runs -> Phases]
    BY <1>6 DEF StartTask, Launch, Phases, Goto, IInv, TypeOK
  <2>2. outcome' \in [Runs -> Outcomes]
    BY <1>6 DEF StartTask, Launch, Outcomes, Settle, IInv, TypeOK
  <2>3. ASSUME NEW s \in Runs PROVE (outcome[s] # "none" <=> phase[s] \in {"ending", "over"})'
    BY <1>6 DEF StartTask, Launch, Goto, Settle, IInv, TypeOK
  <2>4. alive' \subseteq Runs /\ entries' \subseteq Runs /\ fired' \subseteq Runs /\ UNCHANGED <<form, sent, shown>>
    BY <1>6 DEF StartTask, Launch, page, IInv, TypeOK, Runs
  <2>5. app' \in {"up", "cancelled", "released", "disposed", "exited"} /\ UNCHANGED version
    BY <1>6 DEF StartTask, Launch, page, IInv
  <2> QED
    BY <2>1, <2>2, <2>3, <2>4, <2>5 DEF Phases, Outcomes, IInv, TypeOK
<1>7. ASSUME NEW r \in Runs, Spawn(r) PROVE TypeOK'
  <2>1. phase' \in [Runs -> Phases]
    BY <1>7 DEF Spawn, Launch, Phases, Goto, IInv, TypeOK
  <2>2. outcome' \in [Runs -> Outcomes]
    BY <1>7 DEF Spawn, Launch, Outcomes, Settle, IInv, TypeOK
  <2>3. ASSUME NEW s \in Runs PROVE (outcome[s] # "none" <=> phase[s] \in {"ending", "over"})'
    BY <1>7 DEF Spawn, Launch, Goto, Settle, IInv, TypeOK
  <2>4. alive' \subseteq Runs /\ entries' \subseteq Runs /\ fired' \subseteq Runs /\ UNCHANGED <<form, sent, shown>>
    BY <1>7 DEF Spawn, Launch, page, IInv, TypeOK
  <2>5. app' \in {"up", "cancelled", "released", "disposed", "exited"} /\ UNCHANGED version
    BY <1>7 DEF Spawn, Launch, page, IInv, TypeOK
  <2> QED
    BY <2>1, <2>2, <2>3, <2>4, <2>5 DEF Phases, Outcomes, IInv, TypeOK
<1>8. ASSUME NEW r \in Runs, Register(r) PROVE TypeOK'
  BY <1>8 DEF Register, Goto, page, IInv, TypeOK
<1>9. ASSUME NEW r \in Runs, TakeExit(r) PROVE TypeOK'
  <2>1. CASE Take(r, "result")
    BY <2>1 DEF Take, Goto, Settle, page, IInv, TypeOK
  <2>2. CASE Take(r, "failed")
    BY <2>2 DEF Take, Goto, Settle, page, IInv, TypeOK
  <2> QED
    BY <1>9, <2>1, <2>2 DEF TakeExit
<1>10. ASSUME NEW r \in Runs, TakeTimeout(r) PROVE TypeOK'
  BY <1>10 DEF TakeTimeout, Take, Goto, Settle, page, IInv, TypeOK
<1>11. ASSUME NEW r \in Runs, TakeCancel(r) PROVE TypeOK'
  BY <1>11 DEF TakeCancel, Take, Goto, Settle, page, IInv, TypeOK
<1>12. ASSUME NEW r \in Runs, Deregister(r) PROVE TypeOK'
  BY <1>12 DEF Deregister, Goto, page, IInv, TypeOK
<1>13. ASSUME NEW r \in Runs, ProcessExits(r) PROVE TypeOK'
  BY <1>13 DEF ProcessExits, page, IInv, TypeOK
<1>14. ASSUME NEW r \in Runs, Cancel(r) PROVE TypeOK'
  BY <1>14 DEF Cancel, page, IInv, TypeOK
<1>15. CASE Shutdown
  BY <1>15 DEF Shutdown, page, IInv, TypeOK
<1>16. CASE Dispose
  <2>1. CASE Held(phase)
    BY <1>16, <2>1 DEF Dispose, runs, page, IInv, TypeOK
  <2>2. CASE ~Held(phase)
    <3>1. phase' \in [Runs -> Phases]
      BY <1>16, <2>2 DEF Dispose, DropRuntime, Unfinished, Phases, IInv, TypeOK
    <3>2. outcome' \in [Runs -> Outcomes]
      BY <1>16, <2>2 DEF Dispose, DropRuntime, Unfinished, Outcomes, IInv, TypeOK
    <3>3. ASSUME NEW s \in Runs PROVE (outcome[s] # "none" <=> phase[s] \in {"ending", "over"})'
      BY <1>16, <2>2 DEF Dispose, DropRuntime, Unfinished, IInv, TypeOK
    <3>4. alive' \subseteq Runs /\ entries' \subseteq Runs /\ fired' \subseteq Runs /\ UNCHANGED <<form, sent, shown>>
      BY <1>16, <2>2 DEF Dispose, DropRuntime, Unfinished, page, IInv, TypeOK
    <3>5. app' \in {"up", "cancelled", "released", "disposed", "exited"} /\ UNCHANGED version
      BY <1>16, <2>2 DEF Dispose, DropRuntime, Unfinished, page, IInv
    <3> QED
      BY <3>1, <3>2, <3>3, <3>4, <3>5 DEF Phases, Outcomes, IInv, TypeOK
  <2> QED
    BY <2>1, <2>2
<1>17. CASE Release
  BY <1>17 DEF Release, DropRuntime, Unfinished, Held, page, IInv, TypeOK
<1>18. CASE Exit
  BY <1>18 DEF Exit, runs, page, IInv, TypeOK
<1> QED
  BY <1>1, <1>2, <1>3, <1>4, <1>5, <1>6, <1>7, <1>8, <1>9, <1>10, <1>11, <1>12, <1>13, <1>14, <1>15, <1>16, <1>17, <1>18
     DEF Next, PageStep, RunStep

(* A step keeps each run in order.                                         *)
LEMMA RunInvStep ==
    ASSUME IInv, NEW s \in Runs, Next
    PROVE  RunInv(s)'
<1>1. ASSUME NEW value \in Values, Edit(value) PROVE RunInv(s)'
  <2>1. version + 1 \in Previews /\ phase[version + 1] = "idle"
    BY <1>1, RunsAssumption DEF Edit, IInv, EndInv, TypeOK, Previews
  <2> QED
    BY <1>1, <2>1, RunsAssumption DEF Edit, RefreshPreview, Goto, IInv, RunInv, Blocking
<1>2. ASSUME NEW v \in Previews, StartPreview(v) PROVE RunInv(s)'
  BY <1>2 DEF StartPreview, Goto, IInv, RunInv
<1>3. ASSUME NEW v \in Previews, ApplyPreview(v) PROVE RunInv(s)'
  BY <1>3, RunsAssumption DEF ApplyPreview, Goto, Settle, IInv, RunInv, Blocking
<1>4. ASSUME NEW a \in Actions, RunAction(a) PROVE RunInv(s)'
  BY <1>4, RunsAssumption DEF RunAction, Goto, IInv, RunInv, Blocking
<1>5. ASSUME NEW a \in Actions, ApplyResult(a) PROVE RunInv(s)'
  <2>1. CASE Refreshes /\ outcome[a] = "result" /\ version < MaxPreviews
    <3>1. version + 1 \in Previews /\ phase[version + 1] = "idle"
      BY <2>1, RunsAssumption DEF IInv, EndInv, TypeOK, Previews
    <3>2. version + 1 # a
      BY <3>1, RunsAssumption
    <3> QED
      BY <1>5, <2>1, <3>1, <3>2, RunsAssumption
         DEF ApplyResult, Settle, IInv, TypeOK, RunInv, Blocking
  <2>2. CASE ~(Refreshes /\ outcome[a] = "result" /\ version < MaxPreviews)
    BY <1>5, <2>2, RunsAssumption
       DEF ApplyResult, Goto, Settle, IInv, TypeOK, RunInv, Blocking
  <2> QED
    BY <2>1, <2>2
<1>6. ASSUME NEW t \in Tasks, StartTask(t) PROVE RunInv(s)'
  BY <1>6 DEF StartTask, Launch, Goto, Settle, IInv, TypeOK, RunInv
<1>7. ASSUME NEW r \in Runs, Spawn(r) PROVE RunInv(s)'
  BY <1>7 DEF Spawn, Launch, Goto, Settle, IInv, TypeOK, RunInv
<1>8. ASSUME NEW r \in Runs, Register(r) PROVE RunInv(s)'
  BY <1>8 DEF Register, Goto, IInv, TypeOK, RunInv
<1>9. ASSUME NEW r \in Runs, TakeExit(r) PROVE RunInv(s)'
  <2>1. CASE Take(r, "result")
    BY <2>1 DEF Take, Goto, Settle, IInv, TypeOK, RunInv
  <2>2. CASE Take(r, "failed")
    BY <2>2 DEF Take, Goto, Settle, IInv, TypeOK, RunInv
  <2> QED
    BY <1>9, <2>1, <2>2 DEF TakeExit
<1>10. ASSUME NEW r \in Runs, TakeTimeout(r) PROVE RunInv(s)'
  BY <1>10 DEF TakeTimeout, Take, Goto, Settle, IInv, TypeOK, RunInv
<1>11. ASSUME NEW r \in Runs, TakeCancel(r) PROVE RunInv(s)'
  BY <1>11 DEF TakeCancel, Take, Goto, Settle, IInv, TypeOK, RunInv
<1>12. ASSUME NEW r \in Runs, Deregister(r) PROVE RunInv(s)'
  BY <1>12 DEF Deregister, Goto, IInv, TypeOK, RunInv
<1>13. ASSUME NEW r \in Runs, ProcessExits(r) PROVE RunInv(s)'
  BY <1>13 DEF ProcessExits, IInv, RunInv
<1>14. ASSUME NEW r \in Runs, Cancel(r) PROVE RunInv(s)'
  BY <1>14 DEF Cancel, IInv, RunInv
<1>15. CASE Shutdown
  BY <1>15 DEF Shutdown, IInv, RunInv
<1>16. CASE Dispose
  <2>1. CASE Held(phase)
    BY <1>16, <2>1 DEF Dispose, runs, IInv, RunInv
  <2>2. CASE ~Held(phase)
    BY <1>16, <2>2 DEF Dispose, DropRuntime, Unfinished, Held, IInv, RunInv
  <2> QED
    BY <2>1, <2>2
<1>17. CASE Release
  BY <1>17 DEF Release, DropRuntime, Unfinished, Held, IInv, RunInv
<1>18. CASE Exit
  BY <1>18 DEF Exit, runs, IInv, RunInv
<1> QED
  BY <1>1, <1>2, <1>3, <1>4, <1>5, <1>6, <1>7, <1>8, <1>9, <1>10, <1>11, <1>12, <1>13, <1>14, <1>15, <1>16, <1>17, <1>18
     DEF Next, PageStep, RunStep

(* A step leaves nothing behind the runtime.                               *)
LEMMA EndStep ==
    ASSUME IInv, Next
    PROVE  EndInv'
<1>1. ASSUME NEW value \in Values, Edit(value) PROVE EndInv'
  <2>1. version + 1 \in Previews /\ phase[version + 1] = "idle"
    BY <1>1, RunsAssumption DEF Edit, IInv, EndInv, TypeOK, Previews
  <2> QED
    BY <1>1, <2>1 DEF Edit, RefreshPreview, Goto, IInv, TypeOK, EndInv, Previews
<1>2. ASSUME NEW v \in Previews, StartPreview(v) PROVE EndInv'
  BY <1>2 DEF StartPreview, Goto, IInv, EndInv
<1>3. ASSUME NEW v \in Previews, ApplyPreview(v) PROVE EndInv'
  BY <1>3 DEF ApplyPreview, Goto, IInv, EndInv
<1>4. ASSUME NEW a \in Actions, RunAction(a) PROVE EndInv'
  BY <1>4, RunsAssumption DEF RunAction, Goto, page, IInv, EndInv
<1>5. ASSUME NEW a \in Actions, ApplyResult(a) PROVE EndInv'
  <2>1. CASE Refreshes /\ outcome[a] = "result" /\ version < MaxPreviews
    <3>1. version + 1 \in Previews /\ phase[version + 1] = "idle"
      BY <2>1, RunsAssumption DEF IInv, EndInv, TypeOK, Previews
    <3>2. version + 1 # a
      BY <3>1, RunsAssumption
    <3> QED
      BY <1>5, <2>1, <3>1, <3>2
         DEF ApplyResult, IInv, TypeOK, EndInv, Runs, Blocking, Previews
  <2>2. CASE ~(Refreshes /\ outcome[a] = "result" /\ version < MaxPreviews)
    BY <1>5, <2>2 DEF ApplyResult, Goto, IInv, TypeOK, EndInv, Runs, Blocking
  <2> QED
    BY <2>1, <2>2
<1>6. ASSUME NEW t \in Tasks, StartTask(t) PROVE EndInv'
  BY <1>6, RunsAssumption
     DEF StartTask, Launch, Goto, page, IInv, TypeOK, EndInv, Runs, Blocking
<1>7. ASSUME NEW r \in Runs, Spawn(r) PROVE EndInv'
  BY <1>7 DEF Spawn, Launch, Goto, page, IInv, TypeOK, EndInv, Runs, Blocking
<1>8. ASSUME NEW r \in Runs, Register(r) PROVE EndInv'
  BY <1>8 DEF Register, Goto, page, IInv, EndInv
<1>9. ASSUME NEW r \in Runs, TakeExit(r) PROVE EndInv'
  <2>1. CASE Take(r, "result")
    BY <2>1 DEF Take, Goto, page, IInv, EndInv
  <2>2. CASE Take(r, "failed")
    BY <2>2 DEF Take, Goto, page, IInv, EndInv
  <2> QED
    BY <1>9, <2>1, <2>2 DEF TakeExit
<1>10. ASSUME NEW r \in Runs, TakeTimeout(r) PROVE EndInv'
  BY <1>10 DEF TakeTimeout, Take, Goto, page, IInv, EndInv
<1>11. ASSUME NEW r \in Runs, TakeCancel(r) PROVE EndInv'
  BY <1>11 DEF TakeCancel, Take, Goto, page, IInv, EndInv
<1>12. ASSUME NEW r \in Runs, Deregister(r) PROVE EndInv'
  BY <1>12 DEF Deregister, Goto, page, IInv, EndInv
<1>13. ASSUME NEW r \in Runs, ProcessExits(r) PROVE EndInv'
  BY <1>13 DEF ProcessExits, page, IInv, EndInv
<1>14. ASSUME NEW r \in Runs, Cancel(r) PROVE EndInv'
  BY <1>14 DEF Cancel, page, IInv, EndInv
<1>15. CASE Shutdown
  BY <1>15 DEF Shutdown, page, IInv, EndInv
<1>16. CASE Dispose
  <2>1. CASE Held(phase)
    BY <1>16, <2>1 DEF Dispose, runs, page, IInv, EndInv
  <2>2. CASE ~Held(phase)
    BY <1>16, <2>2
       DEF Dispose, DropRuntime, Unfinished, Held, page, IInv, EndInv, Runs, Blocking
  <2> QED
    BY <2>1, <2>2
<1>17. CASE Release
  BY <1>17 DEF Release, DropRuntime, Unfinished, Held, page, IInv, EndInv, Runs, Blocking
<1>18. CASE Exit
  BY <1>18 DEF Exit, runs, page, IInv, EndInv
<1> QED
  BY <1>1, <1>2, <1>3, <1>4, <1>5, <1>6, <1>7, <1>8, <1>9, <1>10, <1>11, <1>12, <1>13, <1>14, <1>15, <1>16, <1>17, <1>18
     DEF Next, PageStep, RunStep

(* A step that changes nothing keeps everything.                           *)
LEMMA StutterStep ==
    ASSUME IInv, UNCHANGED vars
    PROVE  IInv'
BY DEF vars, runs, page, IInv, TypeOK, EndInv, RunInv

(* What is true between any two steps.                                     *)
LEMMA Inductive == Spec => []IInv
<1>1. Init => IInv
  BY RunsAssumption, ValuesAssumption
     DEF Init, IInv, TypeOK, EndInv, RunInv, Runs, Blocking, Previews
<1>2. IInv /\ [Next]_vars => IInv'
  <2> SUFFICES ASSUME IInv, [Next]_vars PROVE IInv'
    OBVIOUS
  <2>1. CASE Next
    <3>1. TypeOK' /\ EndInv'
      BY <2>1, TypeStep, EndStep
    <3>2. \A s \in Runs : RunInv(s)'
      BY <2>1, RunInvStep
    <3> QED
      BY <3>1, <3>2 DEF IInv
  <2>2. CASE UNCHANGED vars
    BY <2>2, StutterStep
  <2> QED
    BY <2>1, <2>2
<1> QED
  BY <1>1, <1>2, PTL DEF Spec

(* Every variable keeps its type, and a run has an outcome exactly while   *)
(* it ends or its caller has still to see it (invoke.rs).                  *)
THEOREM TypeCorrect == Spec => []TypeOK
<1>1. IInv => TypeOK
  BY DEF IInv
<1> QED
  BY <1>1, Inductive, PTL

(* While the desktop lives, a process that was started is listed or has    *)
(* been told to end, but for the moment before it is registered; a run     *)
(* that is over is not listed (registry.rs, RegistrationGuard).            *)
THEOREM RunsTracked == Spec => []Tracked
<1>1. IInv => Tracked
  BY DEF IInv, RunInv, Tracked, TypeOK
<1> QED
  BY <1>1, Inductive, PTL

(* When the runtime is gone, so are all processes and all entries.         *)
THEOREM RuntimeTakesAll == Spec => []NoneOutlivesRuntime
<1>1. IInv => NoneOutlivesRuntime
  BY DEF IInv, RunInv, EndInv, NoneOutlivesRuntime, TypeOK
<1> QED
  BY <1>1, Inductive, PTL

(* The variables of the contract, as PluginRuns maps them.                 *)
Stages == [r \in Runs |-> Stage(r)]
AnswersOf == [r \in Runs |-> AnswerOf(r)]

(* A step that changes the stage of one run only, or its answer only,      *)
(* changes the mapped function at that run only.                           *)
LEMMA OneStage ==
    ASSUME NEW r \in Runs, NEW x, Stage(r)' = x,
           \A s \in Runs \ {r} : Stage(s)' = Stage(s)
    PROVE  Stages' = [Stages EXCEPT ![r] = x]
BY DEF Stages

LEMMA OneAnswer ==
    ASSUME NEW r \in Runs, NEW x, AnswerOf(r)' = x,
           \A s \in Runs \ {r} : AnswerOf(s)' = AnswerOf(s)
    PROVE  AnswersOf' = [AnswersOf EXCEPT ![r] = x]
BY DEF AnswersOf

LEMMA SameStages ==
    ASSUME \A s \in Runs : Stage(s)' = Stage(s)
    PROVE  Stages' = Stages
BY DEF Stages

LEMMA SameAnswers ==
    ASSUME \A s \in Runs : AnswerOf(s)' = AnswerOf(s)
    PROVE  AnswersOf' = AnswersOf
BY DEF AnswersOf

(* The part of the runtime's end that the contract sees.                   *)
LEMMA DropMaps ==
    ASSUME IInv, DropRuntime, app \notin {"up", "exited"}, app' \notin {"up", "exited"}
    PROVE  Contract!Drop(Unfinished)
<1>1. \A t \in Unfinished : t \in Runs /\ Stage(t) = "running"
  BY DEF Unfinished, IInv, RunInv, Stage, Runs
<1>2. Stages' = [r \in Runs |-> IF r \in Unfinished THEN "over" ELSE Stages[r]]
  <2>1. \A r \in Runs : Stage(r)' = IF r \in Unfinished THEN "over" ELSE Stage(r)
    BY DEF DropRuntime, Stage
  <2> QED
    BY <2>1 DEF Stages
<1>3. AnswersOf' = [r \in Runs |-> IF r \in Unfinished THEN "dropped" ELSE AnswersOf[r]]
  <2>1. \A r \in Runs : AnswerOf(r)' = IF r \in Unfinished THEN "dropped" ELSE AnswerOf(r)
    BY DEF DropRuntime, AnswerOf
  <2> QED
    BY <2>1 DEF AnswersOf
<1> QED
  BY <1>1, <1>2, <1>3 DEF Contract!Drop, DropRuntime, Stages, AnswersOf

(* Every step is a step of the contract or changes nothing in it.          *)
LEMMA StepMaps ==
    ASSUME IInv, Next
    PROVE  Contract!Next \/ UNCHANGED Contract!vars
<1>1. ASSUME NEW value \in Values, Edit(value) PROVE Contract!Next \/ UNCHANGED Contract!vars
  <2>0. version + 1 \in Previews /\ phase[version + 1] = "idle"
    BY <1>1, RunsAssumption DEF Edit, IInv, EndInv, TypeOK, Previews
  <2>1. Stages' = Stages
    <3>1. \A s \in Runs : Stage(s)' = Stage(s)
      BY <1>1, <2>0 DEF Edit, RefreshPreview, Stage, Goto, IInv
    <3> QED
      BY <3>1, SameStages
  <2>2. AnswersOf' = AnswersOf
    <3>1. \A s \in Runs : AnswerOf(s)' = AnswerOf(s)
      BY <1>1, <2>0 DEF Edit, RefreshPreview, AnswerOf, Goto, IInv
    <3> QED
      BY <3>1, SameAnswers
  <2> QED
    BY <1>1, <2>1, <2>2 DEF Edit, RefreshPreview, Contract!vars, Stages, AnswersOf, IInv
<1>2. ASSUME NEW v \in Previews, StartPreview(v) PROVE Contract!Next \/ UNCHANGED Contract!vars
  <2>1. Stages' = Stages
    <3>1. \A s \in Runs : Stage(s)' = Stage(s)
      BY <1>2 DEF StartPreview, Stage, Goto, IInv
    <3> QED
      BY <3>1, SameStages
  <2>2. AnswersOf' = AnswersOf
    <3>1. \A s \in Runs : AnswerOf(s)' = AnswerOf(s)
      BY <1>2 DEF StartPreview, AnswerOf, Goto, IInv
    <3> QED
      BY <3>1, SameAnswers
  <2> QED
    BY <1>2, <2>1, <2>2 DEF StartPreview, Contract!vars, Stages, AnswersOf, IInv
<1>3. ASSUME NEW v \in Previews, ApplyPreview(v) PROVE Contract!Next \/ UNCHANGED Contract!vars
  <2>1. Stages' = [Stages EXCEPT ![v] = "seen"]
    <3>1. Stage(v)' = "seen"
      BY <1>3 DEF ApplyPreview, Stage, Goto, IInv, TypeOK, Runs, Blocking
    <3>2. \A s \in Runs \ {v} : Stage(s)' = Stage(s)
      BY <1>3 DEF ApplyPreview, Stage, Goto, IInv
    <3> QED
      BY v \in Runs, <3>1, <3>2, OneStage DEF Runs, Blocking
  <2>2. AnswersOf' = [AnswersOf EXCEPT ![v] = "none"]
    <3>1. AnswerOf(v)' = "none"
      BY <1>3 DEF ApplyPreview, AnswerOf, Settle, IInv, TypeOK, Runs, Blocking
    <3>2. \A s \in Runs \ {v} : AnswerOf(s)' = AnswerOf(s)
      BY <1>3 DEF ApplyPreview, AnswerOf, Goto, Settle, IInv
    <3> QED
      BY v \in Runs, <3>1, <3>2, OneAnswer DEF Runs, Blocking
  <2>3. Contract!Deliver(v)
    BY <1>3, <2>1, <2>2
       DEF ApplyPreview, Contract!Deliver, Stages, AnswersOf, Stage, AnswerOf, IInv,
           Runs, Blocking
  <2> QED
    BY <2>3 DEF Contract!Next, Contract!Answers, IInv, Runs, Blocking
<1>4. ASSUME NEW a \in Actions, RunAction(a) PROVE Contract!Next \/ UNCHANGED Contract!vars
  <2>1. Stages' = Stages
    <3>1. \A s \in Runs : Stage(s)' = Stage(s)
      BY <1>4 DEF RunAction, Stage, Goto, IInv
    <3> QED
      BY <3>1, SameStages
  <2>2. AnswersOf' = AnswersOf
    <3>1. \A s \in Runs : AnswerOf(s)' = AnswerOf(s)
      BY <1>4 DEF RunAction, AnswerOf, Goto, IInv
    <3> QED
      BY <3>1, SameAnswers
  <2> QED
    BY <1>4, <2>1, <2>2 DEF RunAction, Contract!vars, Stages, AnswersOf, IInv
<1>5. ASSUME NEW a \in Actions, ApplyResult(a) PROVE Contract!Next \/ UNCHANGED Contract!vars
  <2>0. /\ \A s \in Runs \ {a} : (phase[s] \in {"idle", "delay"} /\ phase'[s] \in {"idle", "delay"}) \/ phase'[s] = phase[s]
        /\ phase'[a] = "seen" /\ outcome' = [outcome EXCEPT ![a] = "none"]
    <3>1. CASE Refreshes /\ outcome[a] = "result" /\ version < MaxPreviews
      <4>1. version + 1 \in Previews /\ phase[version + 1] = "idle" /\ version + 1 # a
        BY <3>1, RunsAssumption DEF IInv, EndInv, TypeOK, Previews
      <4> QED
        BY <1>5, <3>1, <4>1 DEF ApplyResult, Settle, IInv, TypeOK, Runs, Blocking
    <3>2. CASE ~(Refreshes /\ outcome[a] = "result" /\ version < MaxPreviews)
      BY <1>5, <3>2 DEF ApplyResult, Goto, Settle, IInv, TypeOK, Runs, Blocking
    <3> QED
      BY <3>1, <3>2
  <2>1. Stages' = [Stages EXCEPT ![a] = "seen"]
    <3>1. Stage(a)' = "seen" /\ \A s \in Runs \ {a} : Stage(s)' = Stage(s)
      BY <2>0 DEF Stage
    <3> QED
      BY a \in Runs, <3>1, OneStage DEF Runs, Blocking
  <2>2. AnswersOf' = [AnswersOf EXCEPT ![a] = "none"]
    <3>1. AnswerOf(a)' = "none" /\ \A s \in Runs \ {a} : AnswerOf(s)' = AnswerOf(s)
      BY <2>0 DEF AnswerOf, IInv, TypeOK, Runs, Blocking
    <3> QED
      BY a \in Runs, <3>1, OneAnswer DEF Runs, Blocking
  <2>3. Contract!Deliver(a)
    BY <1>5, <2>1, <2>2
       DEF ApplyResult, Contract!Deliver, Stages, AnswersOf, Stage, AnswerOf, IInv,
           Runs, Blocking
  <2> QED
    BY <2>3 DEF Contract!Next, Contract!Answers, IInv, Runs, Blocking
<1>6. ASSUME NEW t \in Tasks, StartTask(t) PROVE Contract!Next \/ UNCHANGED Contract!vars
  <2>1. CASE Goto(t, "spawned") /\ alive' = alive \cup {t} /\ UNCHANGED outcome
    <3>1. Stages' = [Stages EXCEPT ![t] = "running"]
      <4>1. Stage(t)' = "running"
        BY <1>6, <2>1 DEF StartTask, Stage, Goto, IInv, TypeOK, Runs
      <4>2. \A s \in Runs \ {t} : Stage(s)' = Stage(s)
        BY <1>6, <2>1 DEF StartTask, Stage, Goto, IInv
      <4> QED
        BY t \in Runs, <4>1, <4>2, OneStage DEF Runs
    <3>2. AnswersOf' = AnswersOf
      <4>1. \A s \in Runs : AnswerOf(s)' = AnswerOf(s)
        BY <1>6, <2>1 DEF StartTask, AnswerOf, Goto, IInv
      <4> QED
        BY <4>1, SameAnswers
    <3>3. Contract!Begin(t)
      BY <1>6, <2>1, <3>1, <3>2
         DEF StartTask, Contract!Begin, Stages, AnswersOf, Stage, AnswerOf, IInv, Runs
    <3> QED
      BY <3>3 DEF Contract!Next, Contract!Answers, IInv, Runs
  <2>2. CASE Goto(t, "over") /\ Settle(t, "failed") /\ UNCHANGED alive
    <3>1. Stages' = [Stages EXCEPT ![t] = "over"]
      <4>1. Stage(t)' = "over"
        BY <1>6, <2>2 DEF StartTask, Stage, Goto, IInv, TypeOK, Runs
      <4>2. \A s \in Runs \ {t} : Stage(s)' = Stage(s)
        BY <1>6, <2>2 DEF StartTask, Stage, Goto, IInv
      <4> QED
        BY t \in Runs, <4>1, <4>2, OneStage DEF Runs
    <3>2. AnswersOf' = [AnswersOf EXCEPT ![t] = "failed"]
      <4>1. AnswerOf(t)' = "failed"
        BY <1>6, <2>2 DEF StartTask, AnswerOf, Goto, Settle, IInv, TypeOK, Runs
      <4>2. \A s \in Runs \ {t} : AnswerOf(s)' = AnswerOf(s)
        BY <1>6, <2>2 DEF StartTask, AnswerOf, Goto, Settle, IInv
      <4> QED
        BY t \in Runs, <4>1, <4>2, OneAnswer DEF Runs
    <3>3. Contract!Refuse(t)
      BY <1>6, <2>2, <3>1, <3>2
         DEF StartTask, Contract!Refuse, Stages, AnswersOf, Stage, AnswerOf, IInv, Runs
    <3> QED
      BY <3>3 DEF Contract!Next, Contract!Answers, IInv, Runs
  <2> QED
    BY <1>6, <2>1, <2>2 DEF StartTask, Launch
<1>7. ASSUME NEW r \in Runs, Spawn(r) PROVE Contract!Next \/ UNCHANGED Contract!vars
  <2>1. CASE Goto(r, "spawned") /\ alive' = alive \cup {r} /\ UNCHANGED outcome
    <3>1. Stages' = [Stages EXCEPT ![r] = "running"]
      <4>1. Stage(r)' = "running"
        BY <1>7, <2>1 DEF Spawn, Stage, Goto, IInv, TypeOK
      <4>2. \A s \in Runs \ {r} : Stage(s)' = Stage(s)
        BY <1>7, <2>1 DEF Spawn, Stage, Goto, IInv
      <4> QED
        BY r \in Runs, <4>1, <4>2, OneStage
    <3>2. AnswersOf' = AnswersOf
      <4>1. \A s \in Runs : AnswerOf(s)' = AnswerOf(s)
        BY <1>7, <2>1 DEF Spawn, AnswerOf, Goto, IInv
      <4> QED
        BY <4>1, SameAnswers
    <3>3. Contract!Begin(r)
      BY <1>7, <2>1, <3>1, <3>2
         DEF Spawn, Running, Contract!Begin, Stages, AnswersOf, Stage, AnswerOf, IInv
    <3> QED
      BY <3>3 DEF Contract!Next, Contract!Answers, IInv
  <2>2. CASE Goto(r, "over") /\ Settle(r, "failed") /\ UNCHANGED alive
    <3>1. Stages' = [Stages EXCEPT ![r] = "over"]
      <4>1. Stage(r)' = "over"
        BY <1>7, <2>2 DEF Spawn, Stage, Goto, IInv, TypeOK
      <4>2. \A s \in Runs \ {r} : Stage(s)' = Stage(s)
        BY <1>7, <2>2 DEF Spawn, Stage, Goto, IInv
      <4> QED
        BY r \in Runs, <4>1, <4>2, OneStage
    <3>2. AnswersOf' = [AnswersOf EXCEPT ![r] = "failed"]
      <4>1. AnswerOf(r)' = "failed"
        BY <1>7, <2>2 DEF Spawn, AnswerOf, Goto, Settle, IInv, TypeOK
      <4>2. \A s \in Runs \ {r} : AnswerOf(s)' = AnswerOf(s)
        BY <1>7, <2>2 DEF Spawn, AnswerOf, Goto, Settle, IInv
      <4> QED
        BY r \in Runs, <4>1, <4>2, OneAnswer
    <3>3. Contract!Refuse(r)
      BY <1>7, <2>2, <3>1, <3>2
         DEF Spawn, Running, Contract!Refuse, Stages, AnswersOf, Stage, AnswerOf, IInv
    <3> QED
      BY <3>3 DEF Contract!Next, Contract!Answers, IInv
  <2> QED
    BY <1>7, <2>1, <2>2 DEF Spawn, Launch
<1>8. ASSUME NEW r \in Runs, Register(r) PROVE Contract!Next \/ UNCHANGED Contract!vars
  <2>1. Stages' = Stages
    <3>1. \A s \in Runs : Stage(s)' = Stage(s)
      BY <1>8 DEF Register, Stage, Goto, IInv
    <3> QED
      BY <3>1, SameStages
  <2>2. AnswersOf' = AnswersOf
    <3>1. \A s \in Runs : AnswerOf(s)' = AnswerOf(s)
      BY <1>8 DEF Register, AnswerOf, Goto, IInv
    <3> QED
      BY <3>1, SameAnswers
  <2> QED
    BY <1>8, <2>1, <2>2 DEF Register, Contract!vars, Stages, AnswersOf, IInv
<1>9. ASSUME NEW r \in Runs, TakeExit(r) PROVE Contract!Next \/ UNCHANGED Contract!vars
  <2>0. Take(r, "result") \/ Take(r, "failed") \/ Take(r, "cancelled")
    BY <1>9 DEF TakeExit
  <2>1. Stages' = Stages
    <3>1. \A s \in Runs : Stage(s)' = Stage(s)
      BY <2>0 DEF Take, Stage, Goto, IInv, TypeOK
    <3> QED
      BY <3>1, SameStages
  <2>2. AnswersOf' = AnswersOf
    <3>1. \A s \in Runs : AnswerOf(s)' = AnswerOf(s)
      BY <2>0 DEF Take, AnswerOf, Goto, Settle, IInv, TypeOK
    <3> QED
      BY <3>1, SameAnswers
  <2>3. Contract!Die(r)
    BY <2>0, <2>1, <2>2 DEF Take, Contract!Die, Stages, AnswersOf, Stage, AnswerOf, IInv
  <2> QED
    BY <2>3 DEF Contract!Next, Contract!Answers, IInv
<1>10. ASSUME NEW r \in Runs, TakeTimeout(r) PROVE Contract!Next \/ UNCHANGED Contract!vars
  <2>0. Take(r, "result") \/ Take(r, "failed") \/ Take(r, "cancelled")
    BY <1>10 DEF TakeTimeout
  <2>1. Stages' = Stages
    <3>1. \A s \in Runs : Stage(s)' = Stage(s)
      BY <2>0 DEF Take, Stage, Goto, IInv, TypeOK
    <3> QED
      BY <3>1, SameStages
  <2>2. AnswersOf' = AnswersOf
    <3>1. \A s \in Runs : AnswerOf(s)' = AnswerOf(s)
      BY <2>0 DEF Take, AnswerOf, Goto, Settle, IInv, TypeOK
    <3> QED
      BY <3>1, SameAnswers
  <2>3. Contract!Die(r)
    BY <2>0, <2>1, <2>2 DEF Take, Contract!Die, Stages, AnswersOf, Stage, AnswerOf, IInv
  <2> QED
    BY <2>3 DEF Contract!Next, Contract!Answers, IInv
<1>11. ASSUME NEW r \in Runs, TakeCancel(r) PROVE Contract!Next \/ UNCHANGED Contract!vars
  <2>0. Take(r, "result") \/ Take(r, "failed") \/ Take(r, "cancelled")
    BY <1>11 DEF TakeCancel
  <2>1. Stages' = Stages
    <3>1. \A s \in Runs : Stage(s)' = Stage(s)
      BY <2>0 DEF Take, Stage, Goto, IInv, TypeOK
    <3> QED
      BY <3>1, SameStages
  <2>2. AnswersOf' = AnswersOf
    <3>1. \A s \in Runs : AnswerOf(s)' = AnswerOf(s)
      BY <2>0 DEF Take, AnswerOf, Goto, Settle, IInv, TypeOK
    <3> QED
      BY <3>1, SameAnswers
  <2>3. Contract!Die(r)
    BY <2>0, <2>1, <2>2 DEF Take, Contract!Die, Stages, AnswersOf, Stage, AnswerOf, IInv
  <2> QED
    BY <2>3 DEF Contract!Next, Contract!Answers, IInv
<1>12. ASSUME NEW r \in Runs, Deregister(r) PROVE Contract!Next \/ UNCHANGED Contract!vars
  <2>1. Stages' = [Stages EXCEPT ![r] = "over"]
    <3>1. Stage(r)' = "over"
      BY <1>12 DEF Deregister, Stage, Goto, IInv, TypeOK
    <3>2. \A s \in Runs \ {r} : Stage(s)' = Stage(s)
      BY <1>12 DEF Deregister, Stage, Goto, IInv
    <3> QED
      BY r \in Runs, <3>1, <3>2, OneStage
  <2>2. AnswersOf' = [AnswersOf EXCEPT ![r] = outcome[r]]
    <3>1. AnswerOf(r)' = outcome[r]
      BY <1>12 DEF Deregister, AnswerOf, Goto, IInv, TypeOK
    <3>2. \A s \in Runs \ {r} : AnswerOf(s)' = AnswerOf(s)
      BY <1>12 DEF Deregister, AnswerOf, Goto, IInv
    <3> QED
      BY r \in Runs, <3>1, <3>2, OneAnswer
  <2>3. Contract!End(r, outcome[r])
    BY <1>12, <2>1, <2>2
       DEF Deregister, Running, Contract!End, Stages, AnswersOf, Stage, AnswerOf, IInv,
           RunInv
  <2> QED
    BY <2>3, <1>12 DEF Deregister, RunInv, Contract!Next, Contract!Answers, IInv, TypeOK
<1>13. ASSUME NEW r \in Runs, ProcessExits(r) PROVE Contract!Next \/ UNCHANGED Contract!vars
  <2>1. Stages' = Stages
    <3>1. \A s \in Runs : Stage(s)' = Stage(s)
      BY <1>13 DEF ProcessExits, Stage, IInv
    <3> QED
      BY <3>1, SameStages
  <2>2. AnswersOf' = AnswersOf
    <3>1. \A s \in Runs : AnswerOf(s)' = AnswerOf(s)
      BY <1>13 DEF ProcessExits, AnswerOf, IInv
    <3> QED
      BY <3>1, SameAnswers
  <2>3. Contract!Die(r)
    BY <1>13, <2>1, <2>2
       DEF ProcessExits, Contract!Die, Stages, AnswersOf, Stage, AnswerOf, IInv
  <2> QED
    BY <2>3 DEF Contract!Next, Contract!Answers, IInv
<1>14. ASSUME NEW r \in Runs, Cancel(r) PROVE Contract!Next \/ UNCHANGED Contract!vars
  <2>1. Stages' = Stages
    <3>1. \A s \in Runs : Stage(s)' = Stage(s)
      BY <1>14 DEF Cancel, Stage, IInv
    <3> QED
      BY <3>1, SameStages
  <2>2. AnswersOf' = AnswersOf
    <3>1. \A s \in Runs : AnswerOf(s)' = AnswerOf(s)
      BY <1>14 DEF Cancel, AnswerOf, IInv
    <3> QED
      BY <3>1, SameAnswers
  <2>3. Contract!Cancel({r})
    BY <1>14, <2>1, <2>2
       DEF Cancel, Contract!Cancel, Stages, AnswersOf, Stage, AnswerOf, IInv
  <2> QED
    BY <2>3 DEF Contract!Next, Contract!Answers, IInv
<1>15. CASE Shutdown
  <2>1. Stages' = Stages
    <3>1. \A s \in Runs : Stage(s)' = Stage(s)
      BY <1>15 DEF Shutdown, Stage, IInv
    <3> QED
      BY <3>1, SameStages
  <2>2. AnswersOf' = AnswersOf
    <3>1. \A s \in Runs : AnswerOf(s)' = AnswerOf(s)
      BY <1>15 DEF Shutdown, AnswerOf, IInv
    <3> QED
      BY <3>1, SameAnswers
  <2>3. Contract!Stop
    BY <1>15, <2>1, <2>2
       DEF Shutdown, Contract!Stop, Stages, AnswersOf, Stage, AnswerOf, IInv, TypeOK
  <2> QED
    BY <2>3 DEF Contract!Next, Contract!Answers, IInv
<1>16. CASE Dispose
  <2>1. CASE Held(phase)
    <3>1. Stages' = Stages
      <4>1. \A s \in Runs : Stage(s)' = Stage(s)
        BY <1>16, <2>1 DEF Dispose, Stage, runs, IInv
      <4> QED
        BY <4>1, SameStages
    <3>2. AnswersOf' = AnswersOf
      <4>1. \A s \in Runs : AnswerOf(s)' = AnswerOf(s)
        BY <1>16, <2>1 DEF Dispose, AnswerOf, runs, IInv
      <4> QED
        BY <4>1, SameAnswers
    <3> QED
      BY <1>16, <2>1, <3>1, <3>2 DEF Dispose, Contract!vars, Stages, AnswersOf, runs, IInv
  <2>2. CASE ~Held(phase)
    BY <1>16, <2>2, DropMaps DEF Dispose, Contract!Next, Unfinished, Runs
  <2> QED
    BY <2>1, <2>2
<1>17. CASE Release
  BY <1>17, DropMaps DEF Release, Contract!Next, Unfinished, Runs
<1>18. CASE Exit
  <2>1. Stages' = Stages
    <3>1. \A s \in Runs : Stage(s)' = Stage(s)
      BY <1>18 DEF Exit, Stage, runs, IInv
    <3> QED
      BY <3>1, SameStages
  <2>2. AnswersOf' = AnswersOf
    <3>1. \A s \in Runs : AnswerOf(s)' = AnswerOf(s)
      BY <1>18 DEF Exit, AnswerOf, runs, IInv
    <3> QED
      BY <3>1, SameAnswers
  <2>3. Contract!Exit
    BY <1>18, <2>1, <2>2
       DEF Exit, Contract!Exit, Stages, AnswersOf, Stage, AnswerOf, runs, IInv
  <2> QED
    BY <2>3 DEF Contract!Next, Contract!Answers, IInv
<1> QED
  BY <1>1, <1>2, <1>3, <1>4, <1>5, <1>6, <1>7, <1>8, <1>9, <1>10, <1>11, <1>12, <1>13, <1>14, <1>15, <1>16, <1>17, <1>18
     DEF Next, PageStep, RunStep

(* Each run keeps the contract, but for its promise to answer: one process *)
(* for as long as it runs, one answer, "cancelled" only when somebody has  *)
(* asked for that and "dropped" only when the daemon stops (invoke.rs,     *)
(* registry.rs).                                                           *)
THEOREM RunsKeepContract == Spec => Contract!Safety
<1>1. Init => Contract!Init
  BY DEF Init, Contract!Init, Stage, AnswerOf
<1>2. IInv /\ [Next]_vars => [Contract!Next]_(Contract!vars)
  <2> SUFFICES ASSUME IInv, [Next]_vars PROVE [Contract!Next]_(Contract!vars)
    OBVIOUS
  <2>1. CASE Next
    BY <2>1, StepMaps
  <2>2. CASE UNCHANGED vars
    BY <2>2 DEF vars, runs, Contract!vars, Stage, AnswerOf
  <2> QED
    BY <2>1, <2>2
<1> QED
  BY <1>1, <1>2, Inductive, PTL DEF Spec, Contract!Safety

=============================================================================
