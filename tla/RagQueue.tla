------------------------------ MODULE RagQueue ------------------------------
(***************************************************************************)
(* The work queue and the artifacts of the liteparse-rag plugin            *)
(* (examples/plugins/liteparse-rag, storage.rs and workflow.rs).           *)
(*                                                                         *)
(* A run is a process the plugin host has started: a hook puts the item of *)
(* its event in queue.json, a cron run takes the whole queue and processes *)
(* it, an action processes the selected items.  The cron job is due every  *)
(* minute and may take an hour, so runs of it overlap.  The host kills a   *)
(* run that times out or is cancelled, at any step.                        *)
(*                                                                         *)
(* Every change of queue.json is made in the directory lock queue.lock: a  *)
(* read, and a staging file renamed over it.  Artifacts are built in a     *)
(* directory of their own and swapped in with renames, under no lock.      *)
(* Directory names are made of milliseconds, taken to be distinct.  Models *)
(* and inference are outcomes: they are there or not, they fail or not.    *)
(***************************************************************************)
EXTENDS FiniteSets

CONSTANTS
    Items,
    Runs,     \* processes of the plugin, each started any number of times
    NoItem

VARIABLES
    locked,   \* queue.lock exists
    queue,    \* the items of queue.json
    stage,       \* where a run is
    task,     \* what it was started for
    read,     \* queue.json as it read it
    item,     \* the item it enqueues or processes
    work,     \* items it has still to process
    retry,    \* items it has failed on and is to enqueue again
    temp,     \* its artifact directory under construction
    aside,    \* the previous artifacts it has moved aside
    target,   \* the artifact directory of each item
    status,   \* the extra liteparse_rag.status of each item
    owed,     \* enqueued and not processed since (history)
    excused,  \* items a failure has taken from the queue (history)
    built,    \* items whose artifacts were ever in place (history)
    stranded  \* items whose artifacts were left aside (history)

call == <<task, read, item, work, retry>>
files == <<temp, aside, target>>
hist == <<owed, excused, built, stranded>>
queueVars == <<locked, queue, stage, call, files, status, hist>>

LockSteps == {"read", "write", "unlock"}
BuildSteps == {"build", "swap", "aside", "publish", "discard", "report"}
Steps == {"idle", "lock", "queued", "classify", "setup", "next", "check"} \cup LockSteps \cup BuildSteps
Directories == {"none", "partial", "whole"}

QueueType ==
    /\ locked \in BOOLEAN /\ queue \subseteq Items
    /\ stage \in [Runs -> Steps]
    /\ task \in [Runs -> {"none", "hook", "refused", "take", "action", "requeue"}]
    /\ read \in [Runs -> SUBSET Items] /\ item \in [Runs -> Items \cup {NoItem}]
    /\ work \in [Runs -> SUBSET Items] /\ retry \in [Runs -> SUBSET Items]
    /\ temp \in [Runs -> Directories] /\ aside \in [Runs -> Directories]
    /\ target \in [Items -> Directories]
    /\ status \in [Items -> {"none", "queued", "skipped", "processing", "ready", "error"}]
    /\ owed \subseteq Items /\ excused \subseteq Items
    /\ built \subseteq Items /\ stranded \subseteq Items

QueueInit ==
    /\ locked = FALSE /\ queue = {}
    /\ stage = [r \in Runs |-> "idle"] /\ task = [r \in Runs |-> "none"]
    /\ read = [r \in Runs |-> {}] /\ item = [r \in Runs |-> NoItem]
    /\ work = [r \in Runs |-> {}] /\ retry = [r \in Runs |-> {}]
    /\ temp = [r \in Runs |-> "none"] /\ aside = [r \in Runs |-> "none"]
    /\ target = [i \in Items |-> "none"] /\ status = [i \in Items |-> "none"]
    /\ owed = {} /\ excused = {} /\ built = {} /\ stranded = {}

Goto(r, step) == stage' = [stage EXCEPT ![r] = step]
Set(i, value) == status' = [status EXCEPT ![i] = value]

\* What a cron run has taken and not yet given back; the hook's own item is in the
\* queue or was never promised, an action's items come from no queue.
Held(r) == IF task[r] \in {"take", "requeue"} THEN work[r] \cup retry[r] ELSE {}
HeldByOthers(r) == {i \in Items : \E s \in Runs \ {r} : i \in Held(s)}

\* The process is gone; the host may start it again.
Clear(r) ==
    /\ Goto(r, "idle")
    /\ task' = [task EXCEPT ![r] = "none"]
    /\ read' = [read EXCEPT ![r] = {}]
    /\ item' = [item EXCEPT ![r] = NoItem]
    /\ work' = [work EXCEPT ![r] = {}]
    /\ retry' = [retry EXCEPT ![r] = {}]
    /\ temp' = [temp EXCEPT ![r] = "none"]
    /\ aside' = [aside EXCEPT ![r] = "none"]

-----------------------------------------------------------------------------
(* The three ways the host starts the plugin.                              *)

Hook(r, i) ==
    /\ stage[r] = "idle"
    /\ Goto(r, "lock")
    /\ task' = [task EXCEPT ![r] = "hook"]
    /\ item' = [item EXCEPT ![r] = i]
    /\ UNCHANGED <<locked, queue, read, work, retry, files, status, hist>>

Cron(r) ==
    /\ stage[r] = "idle"
    /\ Goto(r, "lock")
    /\ task' = [task EXCEPT ![r] = "take"]
    /\ UNCHANGED <<locked, queue, read, item, work, retry, files, status, hist>>

\* The items the user has selected; a selection of none is answered at once.
Action(r, selected) ==
    /\ stage[r] = "idle" /\ selected # {}
    /\ Goto(r, "classify")
    /\ task' = [task EXCEPT ![r] = "action"]
    /\ work' = [work EXCEPT ![r] = selected]
    /\ UNCHANGED <<locked, queue, read, item, retry, files, status, hist>>

-----------------------------------------------------------------------------
(* The queue, in its lock.                                                 *)

\* Create the lock directory: one try in twenty succeeded.
Lock(r) ==
    /\ stage[r] = "lock" /\ ~locked
    /\ locked' = TRUE
    /\ Goto(r, "read")
    /\ UNCHANGED <<queue, call, files, status, hist>>

\* An item to be enqueued again is given up without a word when the queue is busy.
DropRetry(r) ==
    /\ retry' = [retry EXCEPT ![r] = @ \ {item[r]}]
    /\ excused' = excused \cup {item[r]}
    /\ UNCHANGED <<owed, built, stranded>>

\* Every try found the lock taken: an error for a hook and a cron run.
Busy(r) ==
    /\ stage[r] = "lock" /\ locked
    /\ IF task[r] = "requeue"
       THEN /\ Goto(r, "next") /\ DropRetry(r)
            /\ item' = [item EXCEPT ![r] = NoItem]
            /\ UNCHANGED <<task, read, work, files>>
       ELSE Clear(r) /\ UNCHANGED hist
    /\ UNCHANGED <<locked, queue, target, status>>

Read(r) ==
    /\ stage[r] = "read"
    /\ Goto(r, "write")
    /\ read' = [read EXCEPT ![r] = queue]
    /\ UNCHANGED <<locked, queue, task, item, work, retry, files, status, hist>>

\* A queue.json that cannot be read counts as an empty one.
ReadFails(r) ==
    /\ stage[r] = "read"
    /\ Goto(r, "write")
    /\ read' = [read EXCEPT ![r] = {}]
    /\ excused' = excused \cup queue
    /\ UNCHANGED <<locked, queue, task, item, work, retry, files, status,
                   owed, built, stranded>>

\* The closure of Queue::enqueue: nothing is written for an item that is there.
Enqueue(r) ==
    /\ stage[r] = "write" /\ task[r] \in {"hook", "requeue"}
    /\ Goto(r, "unlock")
    /\ queue' = IF item[r] \in read[r] THEN queue ELSE read[r] \cup {item[r]}
    /\ retry' = [retry EXCEPT ![r] = @ \ {item[r]}]
    /\ owed' = owed \cup {item[r]}
    /\ excused' = excused \ {item[r]}
    /\ UNCHANGED <<locked, task, read, item, work, files, status, built, stranded>>

\* The closure of Queue::take: the queue is empty before anything is processed.
Take(r) ==
    /\ stage[r] = "write" /\ task[r] = "take"
    /\ Goto(r, "unlock")
    /\ queue' = {}
    /\ work' = [work EXCEPT ![r] = read[r]]
    /\ UNCHANGED <<locked, task, read, item, retry, files, status, hist>>

\* The staging file cannot be written or renamed: the queue stays as it is.
WriteFails(r) ==
    /\ stage[r] = "write"
    /\ Goto(r, "unlock")
    /\ IF task[r] = "requeue" THEN DropRetry(r) ELSE UNCHANGED <<retry, hist>>
    /\ task' = [task EXCEPT ![r] = IF @ = "hook" THEN "refused" ELSE @]
    /\ UNCHANGED <<locked, queue, read, item, work, files, status>>

\* Remove the lock directory and go on with what the run was started for.
Unlock(r) ==
    /\ stage[r] = "unlock"
    /\ locked' = FALSE
    /\ IF task[r] = "refused" \/ (task[r] = "take" /\ work[r] = {})
       THEN Clear(r)
       ELSE /\ Goto(r, IF task[r] = "hook" THEN "queued"
                       ELSE IF task[r] = "take" THEN "classify" ELSE "next")
            /\ UNCHANGED <<call, temp, aside>>
    /\ UNCHANGED <<queue, target, status, hist>>

\* The hook's last call; the item may have been processed in the meantime.
MarkQueued(r) ==
    /\ stage[r] = "queued"
    /\ Set(item[r], "queued")
    /\ Clear(r)
    /\ UNCHANGED <<locked, queue, target, hist>>

-----------------------------------------------------------------------------
(* process_ids.                                                            *)

\* A run is done with these items; nobody owes them unless they are queued or
\* held once more.
Settle(r, done) == owed' = owed \ (done \ (queue \cup HeldByOthers(r)))

\* The first pass: no main file, an item that cannot be fetched, or eligible.
Classify(r, skipped, failed) ==
    /\ stage[r] = "classify"
    /\ skipped \cup failed \subseteq work[r] /\ skipped \cap failed = {}
    /\ Goto(r, IF work[r] = skipped \cup failed THEN "next" ELSE "setup")
    /\ work' = [work EXCEPT ![r] = @ \ (skipped \cup failed)]
    /\ retry' = [retry EXCEPT ![r] = failed]
    /\ status' = [i \in Items |-> IF i \in skipped THEN "skipped"
                                  ELSE IF i \in failed THEN "error" ELSE status[i]]
    /\ Settle(r, skipped)
    /\ UNCHANGED <<locked, queue, task, read, item, files, excused, built, stranded>>

ModelsReady(r) ==
    /\ stage[r] = "setup"
    /\ Goto(r, "next")
    /\ UNCHANGED <<locked, queue, call, files, status, hist>>

\* Models missing or the engine cannot load them: every eligible item has failed.
ModelsMissing(r) ==
    /\ stage[r] = "setup"
    /\ Goto(r, "next")
    /\ retry' = [retry EXCEPT ![r] = @ \cup work[r]]
    /\ work' = [work EXCEPT ![r] = {}]
    /\ status' = [i \in Items |-> IF i \in work[r] THEN "error" ELSE status[i]]
    /\ UNCHANGED <<locked, queue, task, read, item, files, hist>>

NextItem(r, i) ==
    /\ stage[r] = "next" /\ i \in work[r]
    /\ Goto(r, "check")
    /\ item' = [item EXCEPT ![r] = i]
    /\ UNCHANGED <<locked, queue, task, read, work, retry, files, status, hist>>

\* When all are processed a cron run enqueues its failures again, one by one.
Requeue(r, i) ==
    /\ stage[r] = "next" /\ work[r] = {} /\ i \in retry[r] /\ task[r] # "action"
    /\ Goto(r, "lock")
    /\ task' = [task EXCEPT ![r] = "requeue"]
    /\ item' = [item EXCEPT ![r] = i]
    /\ UNCHANGED <<locked, queue, read, work, retry, files, status, hist>>

\* The failures of an action are only reported.
Done(r) ==
    /\ stage[r] = "next" /\ work[r] = {}
    /\ retry[r] = {} \/ task[r] = "action"
    /\ Clear(r)
    /\ UNCHANGED <<locked, queue, target, status, hist>>

\* An item is done with: its artifacts are ready, or it needs none.
Succeed(r, value) ==
    /\ Goto(r, "next")
    /\ work' = [work EXCEPT ![r] = @ \ {item[r]}]
    /\ item' = [item EXCEPT ![r] = NoItem]
    /\ Set(item[r], value)
    /\ Settle(r, {item[r]})
    /\ UNCHANGED <<task, read, retry>>

Fail(r) ==
    /\ Goto(r, "next")
    /\ work' = [work EXCEPT ![r] = @ \ {item[r]}]
    /\ retry' = [retry EXCEPT ![r] = @ \cup {item[r]}]
    /\ item' = [item EXCEPT ![r] = NoItem]
    /\ Set(item[r], "error")
    /\ UNCHANGED <<task, read, owed, excused>>

-----------------------------------------------------------------------------
(* process_one and write_artifacts.                                        *)

\* The main file is gone since, or the manifest matches and all files are there.
NothingToDo(r) ==
    /\ stage[r] = "check"
    /\ \/ Succeed(r, "skipped")
       \/ target[item[r]] = "whole" /\ Succeed(r, "ready")
    /\ UNCHANGED <<locked, queue, files, excused, built, stranded>>

\* Not a PDF, no such file, or it cannot be read.
Unusable(r) ==
    /\ stage[r] = "check"
    /\ Fail(r)
    /\ UNCHANGED <<locked, queue, files, built, stranded>>

Build(r) ==
    /\ stage[r] = "check"
    /\ Goto(r, "build")
    /\ temp' = [temp EXCEPT ![r] = "partial"]
    /\ Set(item[r], "processing")
    /\ UNCHANGED <<locked, queue, call, aside, target, hist>>

Built(r) ==
    /\ stage[r] = "build"
    /\ Goto(r, "swap")
    /\ temp' = [temp EXCEPT ![r] = "whole"]
    /\ UNCHANGED <<locked, queue, call, aside, target, status, hist>>

BuildFails(r) ==
    /\ stage[r] = "build"
    /\ Fail(r)
    /\ temp' = [temp EXCEPT ![r] = "none"]
    /\ UNCHANGED <<locked, queue, aside, target, built, stranded>>

\* replace_directory: are there artifacts to be moved aside?
Swap(r) ==
    /\ stage[r] = "swap"
    /\ Goto(r, IF target[item[r]] = "none" THEN "publish" ELSE "aside")
    /\ UNCHANGED <<locked, queue, call, files, status, hist>>

MoveAside(r) ==
    /\ stage[r] = "aside" /\ target[item[r]] # "none"
    /\ Goto(r, "publish")
    /\ aside' = [aside EXCEPT ![r] = target[item[r]]]
    /\ target' = [target EXCEPT ![item[r]] = "none"]
    /\ UNCHANGED <<locked, queue, call, temp, status, hist>>

\* Another run has moved them, or the rename fails; the new artifacts stay behind.
MoveAsideFails(r) ==
    /\ stage[r] = "aside"
    /\ Fail(r)
    /\ temp' = [temp EXCEPT ![r] = "none"]
    /\ UNCHANGED <<locked, queue, aside, target, built, stranded>>

Publish(r) ==
    /\ stage[r] = "publish" /\ target[item[r]] = "none"
    /\ Goto(r, IF aside[r] = "none" THEN "report" ELSE "discard")
    /\ target' = [target EXCEPT ![item[r]] = temp[r]]
    /\ temp' = [temp EXCEPT ![r] = "none"]
    /\ built' = built \cup {item[r]} /\ stranded' = stranded \ {item[r]}
    /\ UNCHANGED <<locked, queue, call, aside, status, owed, excused>>

\* What is left aside by a run that ends, when nothing is in its place.
Strand(r) ==
    stranded' = stranded \cup
        {i \in {item[r]} : aside[r] # "none" /\ target[i] = "none"}

\* Another run was faster, or the rename fails; moving the old artifacts back
\* works if it can, and its error is ignored.
PublishFails(r) ==
    /\ stage[r] = "publish"
    /\ Fail(r)
    /\ \/ /\ aside[r] # "none" /\ target[item[r]] = "none"
          /\ target' = [target EXCEPT ![item[r]] = aside[r]]
          /\ UNCHANGED stranded
       \/ UNCHANGED target /\ Strand(r)
    /\ temp' = [temp EXCEPT ![r] = "none"]
    /\ aside' = [aside EXCEPT ![r] = "none"]
    /\ UNCHANGED <<locked, queue, built>>

Discard(r) ==
    /\ stage[r] = "discard"
    /\ \/ Goto(r, "report") /\ UNCHANGED <<call, status, hist>>
       \/ Fail(r) /\ UNCHANGED <<built, stranded>>
    /\ aside' = [aside EXCEPT ![r] = "none"]
    /\ UNCHANGED <<locked, queue, temp, target>>

\* The extras of an item that is ready; the first that cannot be set is an error.
Report(r) ==
    /\ stage[r] = "report"
    /\ \/ Succeed(r, "ready") /\ excused' = excused
       \/ Fail(r)
    /\ UNCHANGED <<locked, queue, files, built, stranded>>

-----------------------------------------------------------------------------
\* The host ends a run, or the machine stops: what it holds goes with it, what
\* it made on disk stays.
Kill(r) ==
    /\ stage[r] # "idle"
    /\ excused' = excused \cup Held(r)
    /\ Strand(r)
    /\ Clear(r)
    /\ UNCHANGED <<locked, queue, target, status, owed, built>>

Start(r) ==
    \/ \E i \in Items : Hook(r, i)
    \/ Cron(r)
    \/ \E selected \in SUBSET Items : Action(r, selected)

InQueue(r) ==
    \/ Lock(r) \/ Busy(r) \/ Read(r) \/ ReadFails(r) \/ Enqueue(r) \/ Take(r)
    \/ WriteFails(r) \/ Unlock(r) \/ MarkQueued(r)

Process(r) ==
    \/ \E skipped, failed \in SUBSET Items : Classify(r, skipped, failed)
    \/ ModelsReady(r) \/ ModelsMissing(r)
    \/ \E i \in Items : NextItem(r, i) \/ Requeue(r, i)
    \/ Done(r) \/ NothingToDo(r) \/ Unusable(r) \/ Build(r) \/ Built(r)
    \/ BuildFails(r)

Replace(r) ==
    \/ Swap(r) \/ MoveAside(r) \/ MoveAsideFails(r) \/ Publish(r)
    \/ PublishFails(r) \/ Discard(r) \/ Report(r)

QueueNext == \E r \in Runs : Start(r) \/ InQueue(r) \/ Process(r) \/ Replace(r) \/ Kill(r)

QueueSpec == QueueInit /\ [][QueueNext]_queueVars

-----------------------------------------------------------------------------
(* The lock directory excludes: it exists while a run is inside, and one   *)
(* run is.                                                                 *)
QueueExclusive ==
    /\ \A r \in Runs : stage[r] \in LockSteps => locked
    /\ \A r, s \in Runs : stage[r] \in LockSteps /\ stage[s] \in LockSteps => r = s

(* An item that was enqueued and not processed since is in queue.json or   *)
(* held by a run that will process it or enqueue it again, unless a run    *)
(* was killed with it, the file could not be read, or the queue could not  *)
(* take it back (Queue::take, process_queue).                              *)
NothingForgotten ==
    \A i \in owed \ excused : i \in queue \/ \E r \in Runs : i \in Held(r)

(* What is in the place of artifacts is a whole set of them.               *)
PublishedWhole == \A i \in Items : target[i] # "partial"

(* Artifacts once published are in place, being replaced, or left aside by *)
(* a run that ended between the renames of replace_directory.              *)
ArtifactsKept ==
    \A i \in built \ stranded :
        \/ target[i] = "whole"
        \/ \E r \in Runs : stage[r] = "publish" /\ item[r] = i /\ aside[r] = "whole"
=============================================================================
