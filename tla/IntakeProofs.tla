---------------------------- MODULE IntakeProofs -----------------------------
(***************************************************************************)
(* Proofs about what comes into the library and what the liteparse-rag     *)
(* plugin makes of it.  For any number of items and of runs, killed as     *)
(* often as the host likes: its queue and its artifacts (RagQueue).  For   *)
(* any table of assets and any processes: its models (ModelStore).  For    *)
(* any imports, names and leftovers of the user: the library               *)
(* (LibraryImports).                                                       *)
(***************************************************************************)
EXTENDS RagQueue, ModelStore, LibraryImports, TLAPS

-----------------------------------------------------------------------------
(* The queue and the artifacts: RagQueue.                                  *)

Queueing == {"lock", "read", "write", "unlock"}
Working == {"check"} \cup BuildSteps

(* What the step a run is at says of its task and of what it has in hand.  *)
HandInv == \A r \in Runs :
    /\ stage[r] = "idle" => task[r] = "none"
    /\ stage[r] = "queued" => task[r] = "hook" /\ item[r] \in Items
    /\ stage[r] \in Queueing =>
         /\ task[r] \in {"hook", "take", "requeue"} \/ (stage[r] = "unlock" /\ task[r] = "refused")
         /\ task[r] \in {"hook", "requeue"} => item[r] \in Items
         /\ task[r] = "take" => retry[r] = {}
         /\ task[r] = "take" /\ stage[r] # "unlock" => work[r] = {}
    /\ stage[r] \in {"classify", "setup", "next"} \cup Working =>
         task[r] \in {"take", "action", "requeue"}
    /\ stage[r] = "classify" => retry[r] = {}
    /\ stage[r] \in Working => item[r] \in work[r]
    /\ task[r] = "none" => stage[r] = "idle" /\ work[r] = {} /\ retry[r] = {}

(* Artifacts on their way into place are whole, and so is what is there.   *)
DirInv ==
    /\ PublishedWhole
    /\ \A r \in Runs :
         /\ stage[r] \in {"swap", "aside", "publish"} => temp[r] = "whole"
         /\ aside[r] # "partial"
         /\ stage[r] \notin {"publish", "discard"} => aside[r] = "none"

(* What a run has read under the lock is the queue, but for a failed read. *)
ReadInv == \A r \in Runs :
    stage[r] = "write" => read[r] \subseteq queue /\ queue \subseteq read[r] \cup excused

-----------------------------------------------------------------------------
(* Typing is preserved by a step. *)
LEMMA QueueTypeStep ==
    ASSUME QueueType, HandInv, DirInv, [QueueNext]_queueVars
    PROVE  QueueType'
<1>0. ASSUME NEW r \in Runs, stage[r] \in Working
      PROVE  item[r] \in Items
  BY <1>0 DEF QueueType, HandInv
<1>1. ASSUME NEW r \in Runs, NEW i \in Items, Hook(r, i)
      PROVE  QueueType'
  BY <1>1 DEF Hook, Goto, files, hist, QueueType, Steps, LockSteps, BuildSteps,
     Directories, HandInv, Queueing, Working
<1>2. ASSUME NEW r \in Runs, Cron(r)
      PROVE  QueueType'
  BY <1>2 DEF Cron, Goto, files, hist, QueueType, Steps, LockSteps, BuildSteps,
     Directories, HandInv, Queueing, Working
<1>3. ASSUME NEW r \in Runs, NEW S \in SUBSET Items, Action(r, S)
      PROVE  QueueType'
  BY <1>3 DEF Action, Goto, files, hist, QueueType, Steps, LockSteps, BuildSteps,
     Directories, HandInv, Queueing, Working
<1>4. ASSUME NEW r \in Runs, Lock(r)
      PROVE  QueueType'
  BY <1>4 DEF Lock, Goto, call, files, hist, QueueType, Steps, LockSteps,
     BuildSteps, Directories, HandInv, Queueing, Working
<1>5. ASSUME NEW r \in Runs, Busy(r)
      PROVE  QueueType'
  <2>1. CASE task[r] = "requeue"
    <3>1. item[r] \in Items
      BY <1>5, <2>1 DEF Busy, HandInv, Queueing
    <3> QED
      BY <1>5, <2>1, <3>1 DEF Busy, DropRetry, Goto, files, QueueType, Steps
  <2>2. CASE task[r] # "requeue"
    BY <1>5, <2>2 DEF Busy, Clear, Goto, hist, QueueType, Steps, Directories
  <2> QED
    BY <2>1, <2>2
<1>6. ASSUME NEW r \in Runs, Read(r)
      PROVE  QueueType'
  BY <1>6 DEF Read, Goto, files, hist, QueueType, Steps, LockSteps, BuildSteps,
     Directories, HandInv, Queueing, Working
<1>7. ASSUME NEW r \in Runs, ReadFails(r)
      PROVE  QueueType'
  BY <1>7 DEF ReadFails, Goto, files, QueueType, Steps, LockSteps, BuildSteps,
     Directories, HandInv, Queueing, Working
<1>8. ASSUME NEW r \in Runs, Enqueue(r)
      PROVE  QueueType'
  BY <1>8 DEF Enqueue, Goto, files, QueueType, Steps, LockSteps, BuildSteps,
     Directories, HandInv, Queueing, Working
<1>9. ASSUME NEW r \in Runs, Take(r)
      PROVE  QueueType'
  BY <1>9 DEF Take, Goto, files, hist, QueueType, Steps, LockSteps, BuildSteps,
     Directories, HandInv, Queueing, Working
<1>10. ASSUME NEW r \in Runs, WriteFails(r)
      PROVE  QueueType'
  BY <1>10 DEF WriteFails, Goto, DropRetry, hist, files, QueueType, Steps,
     LockSteps, BuildSteps, Directories, HandInv, Queueing, Working
<1>11. ASSUME NEW r \in Runs, Unlock(r)
      PROVE  QueueType'
  <2>1. CASE task[r] = "refused" \/ (task[r] = "take" /\ work[r] = {})
    <3>1. Clear(r) /\ locked' = FALSE /\ UNCHANGED <<queue, target, status, hist>>
      BY <1>11, <2>1 DEF Unlock
    <3> QED
      BY <3>1 DEF Clear, Goto, hist, QueueType, Steps, Directories
  <2>2. CASE ~(task[r] = "refused" \/ (task[r] = "take" /\ work[r] = {}))
    BY <1>11, <2>2 DEF Unlock, Goto, call, hist, QueueType, Steps
  <2> QED
    BY <2>1, <2>2
<1>12. ASSUME NEW r \in Runs, MarkQueued(r)
      PROVE  QueueType'
  BY <1>12 DEF MarkQueued, Set, Clear, hist, Goto, QueueType, Steps, LockSteps,
     BuildSteps, Directories, HandInv, Queueing, Working
<1>13. ASSUME NEW r \in Runs, NEW S \in SUBSET Items, NEW T \in SUBSET Items, Classify(r, S, T)
      PROVE  QueueType'
  BY <1>13 DEF Classify, Goto, Settle, files, HeldByOthers, Held, QueueType,
     Steps, LockSteps, BuildSteps, Directories, HandInv, Queueing, Working
<1>14. ASSUME NEW r \in Runs, ModelsReady(r)
      PROVE  QueueType'
  BY <1>14 DEF ModelsReady, Goto, call, files, hist, QueueType, Steps, LockSteps,
     BuildSteps, Directories, HandInv, Queueing, Working
<1>15. ASSUME NEW r \in Runs, ModelsMissing(r)
      PROVE  QueueType'
  BY <1>15 DEF ModelsMissing, Goto, files, hist, QueueType, Steps, LockSteps,
     BuildSteps, Directories, HandInv, Queueing, Working
<1>16. ASSUME NEW r \in Runs, NEW i \in Items, NextItem(r, i)
      PROVE  QueueType'
  BY <1>16 DEF NextItem, Goto, files, hist, QueueType, Steps, LockSteps,
     BuildSteps, Directories, HandInv, Queueing, Working
<1>17. ASSUME NEW r \in Runs, NEW i \in Items, Requeue(r, i)
      PROVE  QueueType'
  BY <1>17 DEF Requeue, Goto, files, hist, QueueType, Steps, LockSteps,
     BuildSteps, Directories, HandInv, Queueing, Working
<1>18. ASSUME NEW r \in Runs, Done(r)
      PROVE  QueueType'
  BY <1>18 DEF Done, Clear, hist, Goto, QueueType, Steps, LockSteps, BuildSteps,
     Directories, HandInv, Queueing, Working
<1>19. ASSUME NEW r \in Runs, NothingToDo(r)
      PROVE  QueueType'
  <2>1. item[r] \in Items
    BY <1>0, <1>19 DEF NothingToDo, Working, BuildSteps
  <2> QED
    BY <1>19, <2>1 DEF NothingToDo, Succeed, files, Goto, Set, Settle,
       HeldByOthers, Held, QueueType, Steps, LockSteps, BuildSteps, Directories
<1>20. ASSUME NEW r \in Runs, Unusable(r)
      PROVE  QueueType'
  <2>1. item[r] \in Items
    BY <1>0, <1>20 DEF Unusable, Working, BuildSteps
  <2> QED
    BY <1>20, <2>1 DEF Unusable, Fail, files, Goto, Set, QueueType, Steps,
       LockSteps, BuildSteps, Directories
<1>21. ASSUME NEW r \in Runs, Build(r)
      PROVE  QueueType'
  <2>1. item[r] \in Items
    BY <1>0, <1>21 DEF Build, Working, BuildSteps
  <2> QED
    BY <1>21, <2>1 DEF Build, Goto, Set, call, hist, QueueType, Steps,
       LockSteps, BuildSteps, Directories
<1>22. ASSUME NEW r \in Runs, Built(r)
      PROVE  QueueType'
  BY <1>22 DEF Built, Goto, call, hist, QueueType, Steps, LockSteps, BuildSteps,
     Directories, HandInv, Queueing, Working
<1>23. ASSUME NEW r \in Runs, BuildFails(r)
      PROVE  QueueType'
  <2>1. item[r] \in Items
    BY <1>0, <1>23 DEF BuildFails, Working, BuildSteps
  <2> QED
    BY <1>23, <2>1 DEF BuildFails, Fail, Goto, Set, QueueType, Steps,
       LockSteps, BuildSteps, Directories
<1>24. ASSUME NEW r \in Runs, Swap(r)
      PROVE  QueueType'
  <2>1. item[r] \in Items
    BY <1>0, <1>24 DEF Swap, Working, BuildSteps
  <2> QED
    BY <1>24, <2>1 DEF Swap, Goto, call, files, hist, QueueType, Steps,
       LockSteps, BuildSteps, Directories
<1>25. ASSUME NEW r \in Runs, MoveAside(r)
      PROVE  QueueType'
  <2>1. item[r] \in Items
    BY <1>0, <1>25 DEF MoveAside, Working, BuildSteps
  <2> QED
    BY <1>25, <2>1 DEF MoveAside, Goto, call, hist, QueueType, Steps,
       LockSteps, BuildSteps, Directories
<1>26. ASSUME NEW r \in Runs, MoveAsideFails(r)
      PROVE  QueueType'
  <2>1. item[r] \in Items
    BY <1>0, <1>26 DEF MoveAsideFails, Working, BuildSteps
  <2> QED
    BY <1>26, <2>1 DEF MoveAsideFails, Fail, Goto, Set, QueueType, Steps,
       LockSteps, BuildSteps, Directories
<1>27. ASSUME NEW r \in Runs, Publish(r)
      PROVE  QueueType'
  <2>1. item[r] \in Items
    BY <1>0, <1>27 DEF Publish, Working, BuildSteps
  <2> QED
    BY <1>27, <2>1 DEF Publish, Goto, call, QueueType, Steps, LockSteps,
       BuildSteps, Directories
<1>28. ASSUME NEW r \in Runs, PublishFails(r)
      PROVE  QueueType'
  <2>1. item[r] \in Items
    BY <1>0, <1>28 DEF PublishFails, Working, BuildSteps
  <2> QED
    BY <1>28, <2>1 DEF PublishFails, Fail, Strand, Goto, Set, QueueType, Steps,
       LockSteps, BuildSteps, Directories
<1>29. ASSUME NEW r \in Runs, Discard(r)
      PROVE  QueueType'
  <2>1. item[r] \in Items
    BY <1>0, <1>29 DEF Discard, Working, BuildSteps
  <2> QED
    BY <1>29, <2>1 DEF Discard, Goto, call, hist, Fail, Set, QueueType, Steps,
       LockSteps, BuildSteps, Directories
<1>30. ASSUME NEW r \in Runs, Report(r)
      PROVE  QueueType'
  <2>1. item[r] \in Items
    BY <1>0, <1>30 DEF Report, Working, BuildSteps
  <2> QED
    BY <1>30, <2>1 DEF Report, Succeed, Fail, files, Goto, Set, Settle,
       HeldByOthers, Held, QueueType, Steps, LockSteps, BuildSteps, Directories
<1>31. ASSUME NEW r \in Runs, Kill(r)
      PROVE  QueueType'
  <2>1. Held(r) \subseteq Items
    BY <1>31 DEF QueueType, Held
  <2>2. \A i \in {item[r]} : aside[r] # "none" => i \in Items
    BY <1>31 DEF QueueType, HandInv, DirInv, Working, BuildSteps
  <2> QED
    BY <1>31, <2>1, <2>2 DEF Kill, Strand, Clear, Goto, QueueType, Steps, Directories
<1>32. CASE UNCHANGED queueVars
  BY <1>32 DEF queueVars, call, files, hist, QueueType, Steps, LockSteps, BuildSteps,
     Directories, HandInv, Queueing, Working
<1> QED
  BY <1>1, <1>2, <1>3, <1>4, <1>5, <1>6, <1>7, <1>8, <1>9, <1>10, <1>11,
     <1>12, <1>13, <1>14, <1>15, <1>16, <1>17, <1>18, <1>19, <1>20, <1>21,
     <1>22, <1>23, <1>24, <1>25, <1>26, <1>27, <1>28, <1>29, <1>30, <1>31,
     <1>32 DEF QueueNext, Start, InQueue, Process, Replace

(* What a run has in hand follows its steps. *)
LEMMA HandStep ==
    ASSUME QueueType, HandInv, [QueueNext]_queueVars
    PROVE  HandInv'
<1>1. ASSUME NEW r \in Runs, NEW i \in Items, Hook(r, i)
      PROVE  HandInv'
  BY <1>1 DEF Hook, Goto, files, hist, QueueType, Steps, LockSteps, HandInv,
     Queueing, Working, BuildSteps
<1>2. ASSUME NEW r \in Runs, Cron(r)
      PROVE  HandInv'
  BY <1>2 DEF Cron, Goto, files, hist, QueueType, Steps, LockSteps, HandInv,
     Queueing, Working, BuildSteps
<1>3. ASSUME NEW r \in Runs, NEW S \in SUBSET Items, Action(r, S)
      PROVE  HandInv'
  BY <1>3 DEF Action, Goto, files, hist, QueueType, Steps, LockSteps, HandInv,
     Queueing, Working, BuildSteps
<1>4. ASSUME NEW r \in Runs, Lock(r)
      PROVE  HandInv'
  BY <1>4 DEF Lock, Goto, call, files, hist, QueueType, Steps, LockSteps,
     HandInv, Queueing, Working, BuildSteps
<1>5. ASSUME NEW r \in Runs, Busy(r)
      PROVE  HandInv'
  BY <1>5 DEF Busy, Goto, DropRetry, files, Clear, hist, QueueType, Steps,
     LockSteps, HandInv, Queueing, Working, BuildSteps
<1>6. ASSUME NEW r \in Runs, Read(r)
      PROVE  HandInv'
  BY <1>6 DEF Read, Goto, files, hist, QueueType, Steps, LockSteps, HandInv,
     Queueing, Working, BuildSteps
<1>7. ASSUME NEW r \in Runs, ReadFails(r)
      PROVE  HandInv'
  BY <1>7 DEF ReadFails, Goto, files, QueueType, Steps, LockSteps, HandInv,
     Queueing, Working, BuildSteps
<1>8. ASSUME NEW r \in Runs, Enqueue(r)
      PROVE  HandInv'
  BY <1>8 DEF Enqueue, Goto, files, QueueType, Steps, LockSteps, HandInv,
     Queueing, Working, BuildSteps
<1>9. ASSUME NEW r \in Runs, Take(r)
      PROVE  HandInv'
  BY <1>9 DEF Take, Goto, files, hist, QueueType, Steps, LockSteps, HandInv,
     Queueing, Working, BuildSteps
<1>10. ASSUME NEW r \in Runs, WriteFails(r)
      PROVE  HandInv'
  BY <1>10 DEF WriteFails, Goto, DropRetry, hist, files, QueueType, Steps,
     LockSteps, HandInv, Queueing, Working, BuildSteps
<1>11. ASSUME NEW r \in Runs, Unlock(r)
      PROVE  HandInv'
  BY <1>11 DEF Unlock, Clear, Goto, call, hist, QueueType, Steps, LockSteps,
     HandInv, Queueing, Working, BuildSteps
<1>12. ASSUME NEW r \in Runs, MarkQueued(r)
      PROVE  HandInv'
  BY <1>12 DEF MarkQueued, Set, Clear, hist, Goto, QueueType, Steps, LockSteps,
     HandInv, Queueing, Working, BuildSteps
<1>13. ASSUME NEW r \in Runs, NEW S \in SUBSET Items, NEW T \in SUBSET Items, Classify(r, S, T)
      PROVE  HandInv'
  BY <1>13 DEF Classify, Goto, Settle, files, HeldByOthers, Held, QueueType,
     Steps, LockSteps, HandInv, Queueing, Working, BuildSteps
<1>14. ASSUME NEW r \in Runs, ModelsReady(r)
      PROVE  HandInv'
  BY <1>14 DEF ModelsReady, Goto, call, files, hist, QueueType, Steps, LockSteps,
     HandInv, Queueing, Working, BuildSteps
<1>15. ASSUME NEW r \in Runs, ModelsMissing(r)
      PROVE  HandInv'
  BY <1>15 DEF ModelsMissing, Goto, files, hist, QueueType, Steps, LockSteps,
     HandInv, Queueing, Working, BuildSteps
<1>16. ASSUME NEW r \in Runs, NEW i \in Items, NextItem(r, i)
      PROVE  HandInv'
  BY <1>16 DEF NextItem, Goto, files, hist, QueueType, Steps, LockSteps, HandInv,
     Queueing, Working, BuildSteps
<1>17. ASSUME NEW r \in Runs, NEW i \in Items, Requeue(r, i)
      PROVE  HandInv'
  BY <1>17 DEF Requeue, Goto, files, hist, QueueType, Steps, LockSteps, HandInv,
     Queueing, Working, BuildSteps
<1>18. ASSUME NEW r \in Runs, Done(r)
      PROVE  HandInv'
  BY <1>18 DEF Done, Clear, hist, Goto, QueueType, Steps, LockSteps, HandInv,
     Queueing, Working, BuildSteps
<1>19. ASSUME NEW r \in Runs, NothingToDo(r)
      PROVE  HandInv'
  BY <1>19 DEF NothingToDo, Succeed, files, Goto, Set, Settle, HeldByOthers,
     Held, QueueType, Steps, LockSteps, HandInv, Queueing, Working, BuildSteps
<1>20. ASSUME NEW r \in Runs, Unusable(r)
      PROVE  HandInv'
  BY <1>20 DEF Unusable, Fail, files, Goto, Set, QueueType, Steps, LockSteps,
     HandInv, Queueing, Working, BuildSteps
<1>21. ASSUME NEW r \in Runs, Build(r)
      PROVE  HandInv'
  BY <1>21 DEF Build, Goto, Set, call, hist, QueueType, Steps, LockSteps,
     HandInv, Queueing, Working, BuildSteps
<1>22. ASSUME NEW r \in Runs, Built(r)
      PROVE  HandInv'
  BY <1>22 DEF Built, Goto, call, hist, QueueType, Steps, LockSteps, HandInv,
     Queueing, Working, BuildSteps
<1>23. ASSUME NEW r \in Runs, BuildFails(r)
      PROVE  HandInv'
  BY <1>23 DEF BuildFails, Fail, Goto, Set, QueueType, Steps, LockSteps, HandInv,
     Queueing, Working, BuildSteps
<1>24. ASSUME NEW r \in Runs, Swap(r)
      PROVE  HandInv'
  BY <1>24 DEF Swap, Goto, call, files, hist, QueueType, Steps, LockSteps,
     HandInv, Queueing, Working, BuildSteps
<1>25. ASSUME NEW r \in Runs, MoveAside(r)
      PROVE  HandInv'
  BY <1>25 DEF MoveAside, Goto, call, hist, QueueType, Steps, LockSteps, HandInv,
     Queueing, Working, BuildSteps
<1>26. ASSUME NEW r \in Runs, MoveAsideFails(r)
      PROVE  HandInv'
  BY <1>26 DEF MoveAsideFails, Fail, Goto, Set, QueueType, Steps, LockSteps,
     HandInv, Queueing, Working, BuildSteps
<1>27. ASSUME NEW r \in Runs, Publish(r)
      PROVE  HandInv'
  BY <1>27 DEF Publish, Goto, call, QueueType, Steps, LockSteps, HandInv,
     Queueing, Working, BuildSteps
<1>28. ASSUME NEW r \in Runs, PublishFails(r)
      PROVE  HandInv'
  BY <1>28 DEF PublishFails, Fail, Strand, Goto, Set, QueueType, Steps,
     LockSteps, HandInv, Queueing, Working, BuildSteps
<1>29. ASSUME NEW r \in Runs, Discard(r)
      PROVE  HandInv'
  BY <1>29 DEF Discard, Goto, call, hist, Fail, Set, QueueType, Steps, LockSteps,
     HandInv, Queueing, Working, BuildSteps
<1>30. ASSUME NEW r \in Runs, Report(r)
      PROVE  HandInv'
  BY <1>30 DEF Report, Succeed, Fail, files, Goto, Set, Settle, HeldByOthers,
     Held, QueueType, Steps, LockSteps, HandInv, Queueing, Working, BuildSteps
<1>31. ASSUME NEW r \in Runs, Kill(r)
      PROVE  HandInv'
  BY <1>31 DEF Kill, Held, Strand, Clear, Goto, QueueType, Steps, LockSteps,
     HandInv, Queueing, Working, BuildSteps
<1>32. CASE UNCHANGED queueVars
  BY <1>32 DEF queueVars, call, files, hist, QueueType, Steps, LockSteps, HandInv,
     Queueing, Working, BuildSteps
<1> QED
  BY <1>1, <1>2, <1>3, <1>4, <1>5, <1>6, <1>7, <1>8, <1>9, <1>10, <1>11,
     <1>12, <1>13, <1>14, <1>15, <1>16, <1>17, <1>18, <1>19, <1>20, <1>21,
     <1>22, <1>23, <1>24, <1>25, <1>26, <1>27, <1>28, <1>29, <1>30, <1>31,
     <1>32 DEF QueueNext, Start, InQueue, Process, Replace

(* Nothing partial gets into place. *)
LEMMA DirStep ==
    ASSUME QueueType, HandInv, DirInv, [QueueNext]_queueVars
    PROVE  DirInv'
<1>1. ASSUME NEW r \in Runs, NEW i \in Items, Hook(r, i)
      PROVE  DirInv'
  BY <1>1 DEF Hook, Goto, files, hist, QueueType, DirInv, PublishedWhole,
     Directories, HandInv, Queueing, Working, BuildSteps
<1>2. ASSUME NEW r \in Runs, Cron(r)
      PROVE  DirInv'
  BY <1>2 DEF Cron, Goto, files, hist, QueueType, DirInv, PublishedWhole,
     Directories, HandInv, Queueing, Working, BuildSteps
<1>3. ASSUME NEW r \in Runs, NEW S \in SUBSET Items, Action(r, S)
      PROVE  DirInv'
  BY <1>3 DEF Action, Goto, files, hist, QueueType, DirInv, PublishedWhole,
     Directories, HandInv, Queueing, Working, BuildSteps
<1>4. ASSUME NEW r \in Runs, Lock(r)
      PROVE  DirInv'
  BY <1>4 DEF Lock, Goto, call, files, hist, QueueType, DirInv, PublishedWhole,
     Directories, HandInv, Queueing, Working, BuildSteps
<1>5. ASSUME NEW r \in Runs, Busy(r)
      PROVE  DirInv'
  BY <1>5 DEF Busy, Goto, DropRetry, files, Clear, hist, QueueType, DirInv,
     PublishedWhole, Directories, HandInv, Queueing, Working, BuildSteps
<1>6. ASSUME NEW r \in Runs, Read(r)
      PROVE  DirInv'
  BY <1>6 DEF Read, Goto, files, hist, QueueType, DirInv, PublishedWhole,
     Directories, HandInv, Queueing, Working, BuildSteps
<1>7. ASSUME NEW r \in Runs, ReadFails(r)
      PROVE  DirInv'
  BY <1>7 DEF ReadFails, Goto, files, QueueType, DirInv, PublishedWhole,
     Directories, HandInv, Queueing, Working, BuildSteps
<1>8. ASSUME NEW r \in Runs, Enqueue(r)
      PROVE  DirInv'
  BY <1>8 DEF Enqueue, Goto, files, QueueType, DirInv, PublishedWhole,
     Directories, HandInv, Queueing, Working, BuildSteps
<1>9. ASSUME NEW r \in Runs, Take(r)
      PROVE  DirInv'
  BY <1>9 DEF Take, Goto, files, hist, QueueType, DirInv, PublishedWhole,
     Directories, HandInv, Queueing, Working, BuildSteps
<1>10. ASSUME NEW r \in Runs, WriteFails(r)
      PROVE  DirInv'
  BY <1>10 DEF WriteFails, Goto, DropRetry, hist, files, QueueType, DirInv,
     PublishedWhole, Directories, HandInv, Queueing, Working, BuildSteps
<1>11. ASSUME NEW r \in Runs, Unlock(r)
      PROVE  DirInv'
  BY <1>11 DEF Unlock, Clear, Goto, call, hist, QueueType, DirInv,
     PublishedWhole, Directories, HandInv, Queueing, Working, BuildSteps
<1>12. ASSUME NEW r \in Runs, MarkQueued(r)
      PROVE  DirInv'
  BY <1>12 DEF MarkQueued, Set, Clear, hist, Goto, QueueType, DirInv,
     PublishedWhole, Directories, HandInv, Queueing, Working, BuildSteps
<1>13. ASSUME NEW r \in Runs, NEW S \in SUBSET Items, NEW T \in SUBSET Items, Classify(r, S, T)
      PROVE  DirInv'
  BY <1>13 DEF Classify, Goto, Settle, files, HeldByOthers, Held, QueueType,
     DirInv, PublishedWhole, Directories, HandInv, Queueing, Working,
     BuildSteps
<1>14. ASSUME NEW r \in Runs, ModelsReady(r)
      PROVE  DirInv'
  BY <1>14 DEF ModelsReady, Goto, call, files, hist, QueueType, DirInv,
     PublishedWhole, Directories, HandInv, Queueing, Working, BuildSteps
<1>15. ASSUME NEW r \in Runs, ModelsMissing(r)
      PROVE  DirInv'
  BY <1>15 DEF ModelsMissing, Goto, files, hist, QueueType, DirInv,
     PublishedWhole, Directories, HandInv, Queueing, Working, BuildSteps
<1>16. ASSUME NEW r \in Runs, NEW i \in Items, NextItem(r, i)
      PROVE  DirInv'
  BY <1>16 DEF NextItem, Goto, files, hist, QueueType, DirInv, PublishedWhole,
     Directories, HandInv, Queueing, Working, BuildSteps
<1>17. ASSUME NEW r \in Runs, NEW i \in Items, Requeue(r, i)
      PROVE  DirInv'
  BY <1>17 DEF Requeue, Goto, files, hist, QueueType, DirInv, PublishedWhole,
     Directories, HandInv, Queueing, Working, BuildSteps
<1>18. ASSUME NEW r \in Runs, Done(r)
      PROVE  DirInv'
  BY <1>18 DEF Done, Clear, hist, Goto, QueueType, DirInv, PublishedWhole,
     Directories, HandInv, Queueing, Working, BuildSteps
<1>19. ASSUME NEW r \in Runs, NothingToDo(r)
      PROVE  DirInv'
  BY <1>19 DEF NothingToDo, Succeed, files, Goto, Set, Settle, HeldByOthers,
     Held, QueueType, DirInv, PublishedWhole, Directories, HandInv, Queueing,
     Working, BuildSteps
<1>20. ASSUME NEW r \in Runs, Unusable(r)
      PROVE  DirInv'
  BY <1>20 DEF Unusable, Fail, files, Goto, Set, QueueType, DirInv,
     PublishedWhole, Directories, HandInv, Queueing, Working, BuildSteps
<1>21. ASSUME NEW r \in Runs, Build(r)
      PROVE  DirInv'
  BY <1>21 DEF Build, Goto, Set, call, hist, QueueType, DirInv, PublishedWhole,
     Directories, HandInv, Queueing, Working, BuildSteps
<1>22. ASSUME NEW r \in Runs, Built(r)
      PROVE  DirInv'
  BY <1>22 DEF Built, Goto, call, hist, QueueType, DirInv, PublishedWhole,
     Directories, HandInv, Queueing, Working, BuildSteps
<1>23. ASSUME NEW r \in Runs, BuildFails(r)
      PROVE  DirInv'
  BY <1>23 DEF BuildFails, Fail, Goto, Set, QueueType, DirInv, PublishedWhole,
     Directories, HandInv, Queueing, Working, BuildSteps
<1>24. ASSUME NEW r \in Runs, Swap(r)
      PROVE  DirInv'
  BY <1>24 DEF Swap, Goto, call, files, hist, QueueType, DirInv, PublishedWhole,
     Directories, HandInv, Queueing, Working, BuildSteps
<1>25. ASSUME NEW r \in Runs, MoveAside(r)
      PROVE  DirInv'
  BY <1>25 DEF MoveAside, Goto, call, hist, QueueType, DirInv, PublishedWhole,
     Directories, HandInv, Queueing, Working, BuildSteps
<1>26. ASSUME NEW r \in Runs, MoveAsideFails(r)
      PROVE  DirInv'
  BY <1>26 DEF MoveAsideFails, Fail, Goto, Set, QueueType, DirInv,
     PublishedWhole, Directories, HandInv, Queueing, Working, BuildSteps
<1>27. ASSUME NEW r \in Runs, Publish(r)
      PROVE  DirInv'
  BY <1>27 DEF Publish, Goto, call, QueueType, DirInv, PublishedWhole,
     Directories, HandInv, Queueing, Working, BuildSteps
<1>28. ASSUME NEW r \in Runs, PublishFails(r)
      PROVE  DirInv'
  BY <1>28 DEF PublishFails, Fail, Strand, Goto, Set, QueueType, DirInv,
     PublishedWhole, Directories, HandInv, Queueing, Working, BuildSteps
<1>29. ASSUME NEW r \in Runs, Discard(r)
      PROVE  DirInv'
  BY <1>29 DEF Discard, Goto, call, hist, Fail, Set, QueueType, DirInv,
     PublishedWhole, Directories, HandInv, Queueing, Working, BuildSteps
<1>30. ASSUME NEW r \in Runs, Report(r)
      PROVE  DirInv'
  BY <1>30 DEF Report, Succeed, Fail, files, Goto, Set, Settle, HeldByOthers,
     Held, QueueType, DirInv, PublishedWhole, Directories, HandInv, Queueing,
     Working, BuildSteps
<1>31. ASSUME NEW r \in Runs, Kill(r)
      PROVE  DirInv'
  BY <1>31 DEF Kill, Held, Strand, Clear, Goto, QueueType, DirInv,
     PublishedWhole, Directories, HandInv, Queueing, Working, BuildSteps
<1>32. CASE UNCHANGED queueVars
  BY <1>32 DEF queueVars, call, files, hist, QueueType, DirInv, PublishedWhole,
     Directories, HandInv, Queueing, Working, BuildSteps
<1> QED
  BY <1>1, <1>2, <1>3, <1>4, <1>5, <1>6, <1>7, <1>8, <1>9, <1>10, <1>11,
     <1>12, <1>13, <1>14, <1>15, <1>16, <1>17, <1>18, <1>19, <1>20, <1>21,
     <1>22, <1>23, <1>24, <1>25, <1>26, <1>27, <1>28, <1>29, <1>30, <1>31,
     <1>32 DEF QueueNext, Start, InQueue, Process, Replace

(* The lock directory excludes. *)
LEMMA ExclusiveStep ==
    ASSUME QueueType, QueueExclusive, [QueueNext]_queueVars
    PROVE  QueueExclusive'
<1>1. ASSUME NEW r \in Runs, NEW i \in Items, Hook(r, i)
      PROVE  QueueExclusive'
  BY <1>1 DEF Hook, Goto, files, hist, QueueType, QueueExclusive, LockSteps,
     BuildSteps, Steps
<1>2. ASSUME NEW r \in Runs, Cron(r)
      PROVE  QueueExclusive'
  BY <1>2 DEF Cron, Goto, files, hist, QueueType, QueueExclusive, LockSteps,
     BuildSteps, Steps
<1>3. ASSUME NEW r \in Runs, NEW S \in SUBSET Items, Action(r, S)
      PROVE  QueueExclusive'
  BY <1>3 DEF Action, Goto, files, hist, QueueType, QueueExclusive, LockSteps,
     BuildSteps, Steps
<1>4. ASSUME NEW r \in Runs, Lock(r)
      PROVE  QueueExclusive'
  BY <1>4 DEF Lock, Goto, call, files, hist, QueueType, QueueExclusive,
     LockSteps, BuildSteps, Steps
<1>5. ASSUME NEW r \in Runs, Busy(r)
      PROVE  QueueExclusive'
  BY <1>5 DEF Busy, Goto, DropRetry, files, Clear, hist, QueueType,
     QueueExclusive, LockSteps, BuildSteps, Steps
<1>6. ASSUME NEW r \in Runs, Read(r)
      PROVE  QueueExclusive'
  BY <1>6 DEF Read, Goto, files, hist, QueueType, QueueExclusive, LockSteps,
     BuildSteps, Steps
<1>7. ASSUME NEW r \in Runs, ReadFails(r)
      PROVE  QueueExclusive'
  BY <1>7 DEF ReadFails, Goto, files, QueueType, QueueExclusive, LockSteps,
     BuildSteps, Steps
<1>8. ASSUME NEW r \in Runs, Enqueue(r)
      PROVE  QueueExclusive'
  BY <1>8 DEF Enqueue, Goto, files, QueueType, QueueExclusive, LockSteps,
     BuildSteps, Steps
<1>9. ASSUME NEW r \in Runs, Take(r)
      PROVE  QueueExclusive'
  BY <1>9 DEF Take, Goto, files, hist, QueueType, QueueExclusive, LockSteps,
     BuildSteps, Steps
<1>10. ASSUME NEW r \in Runs, WriteFails(r)
      PROVE  QueueExclusive'
  BY <1>10 DEF WriteFails, Goto, DropRetry, hist, files, QueueType,
     QueueExclusive, LockSteps, BuildSteps, Steps
<1>11. ASSUME NEW r \in Runs, Unlock(r)
      PROVE  QueueExclusive'
  BY <1>11 DEF Unlock, Clear, Goto, call, hist, QueueType, QueueExclusive,
     LockSteps, BuildSteps, Steps
<1>12. ASSUME NEW r \in Runs, MarkQueued(r)
      PROVE  QueueExclusive'
  BY <1>12 DEF MarkQueued, Set, Clear, hist, Goto, QueueType, QueueExclusive,
     LockSteps, BuildSteps, Steps
<1>13. ASSUME NEW r \in Runs, NEW S \in SUBSET Items, NEW T \in SUBSET Items, Classify(r, S, T)
      PROVE  QueueExclusive'
  BY <1>13 DEF Classify, Goto, Settle, files, HeldByOthers, Held, QueueType,
     QueueExclusive, LockSteps, BuildSteps, Steps
<1>14. ASSUME NEW r \in Runs, ModelsReady(r)
      PROVE  QueueExclusive'
  BY <1>14 DEF ModelsReady, Goto, call, files, hist, QueueType, QueueExclusive,
     LockSteps, BuildSteps, Steps
<1>15. ASSUME NEW r \in Runs, ModelsMissing(r)
      PROVE  QueueExclusive'
  BY <1>15 DEF ModelsMissing, Goto, files, hist, QueueType, QueueExclusive,
     LockSteps, BuildSteps, Steps
<1>16. ASSUME NEW r \in Runs, NEW i \in Items, NextItem(r, i)
      PROVE  QueueExclusive'
  BY <1>16 DEF NextItem, Goto, files, hist, QueueType, QueueExclusive, LockSteps,
     BuildSteps, Steps
<1>17. ASSUME NEW r \in Runs, NEW i \in Items, Requeue(r, i)
      PROVE  QueueExclusive'
  BY <1>17 DEF Requeue, Goto, files, hist, QueueType, QueueExclusive, LockSteps,
     BuildSteps, Steps
<1>18. ASSUME NEW r \in Runs, Done(r)
      PROVE  QueueExclusive'
  BY <1>18 DEF Done, Clear, hist, Goto, QueueType, QueueExclusive, LockSteps,
     BuildSteps, Steps
<1>19. ASSUME NEW r \in Runs, NothingToDo(r)
      PROVE  QueueExclusive'
  BY <1>19 DEF NothingToDo, Succeed, files, Goto, Set, Settle, HeldByOthers,
     Held, QueueType, QueueExclusive, LockSteps, BuildSteps, Steps
<1>20. ASSUME NEW r \in Runs, Unusable(r)
      PROVE  QueueExclusive'
  BY <1>20 DEF Unusable, Fail, files, Goto, Set, QueueType, QueueExclusive,
     LockSteps, BuildSteps, Steps
<1>21. ASSUME NEW r \in Runs, Build(r)
      PROVE  QueueExclusive'
  BY <1>21 DEF Build, Goto, Set, call, hist, QueueType, QueueExclusive,
     LockSteps, BuildSteps, Steps
<1>22. ASSUME NEW r \in Runs, Built(r)
      PROVE  QueueExclusive'
  BY <1>22 DEF Built, Goto, call, hist, QueueType, QueueExclusive, LockSteps,
     BuildSteps, Steps
<1>23. ASSUME NEW r \in Runs, BuildFails(r)
      PROVE  QueueExclusive'
  BY <1>23 DEF BuildFails, Fail, Goto, Set, QueueType, QueueExclusive, LockSteps,
     BuildSteps, Steps
<1>24. ASSUME NEW r \in Runs, Swap(r)
      PROVE  QueueExclusive'
  BY <1>24 DEF Swap, Goto, call, files, hist, QueueType, QueueExclusive,
     LockSteps, BuildSteps, Steps
<1>25. ASSUME NEW r \in Runs, MoveAside(r)
      PROVE  QueueExclusive'
  BY <1>25 DEF MoveAside, Goto, call, hist, QueueType, QueueExclusive, LockSteps,
     BuildSteps, Steps
<1>26. ASSUME NEW r \in Runs, MoveAsideFails(r)
      PROVE  QueueExclusive'
  BY <1>26 DEF MoveAsideFails, Fail, Goto, Set, QueueType, QueueExclusive,
     LockSteps, BuildSteps, Steps
<1>27. ASSUME NEW r \in Runs, Publish(r)
      PROVE  QueueExclusive'
  BY <1>27 DEF Publish, Goto, call, QueueType, QueueExclusive, LockSteps,
     BuildSteps, Steps
<1>28. ASSUME NEW r \in Runs, PublishFails(r)
      PROVE  QueueExclusive'
  BY <1>28 DEF PublishFails, Fail, Strand, Goto, Set, QueueType, QueueExclusive,
     LockSteps, BuildSteps, Steps
<1>29. ASSUME NEW r \in Runs, Discard(r)
      PROVE  QueueExclusive'
  BY <1>29 DEF Discard, Goto, call, hist, Fail, Set, QueueType, QueueExclusive,
     LockSteps, BuildSteps, Steps
<1>30. ASSUME NEW r \in Runs, Report(r)
      PROVE  QueueExclusive'
  BY <1>30 DEF Report, Succeed, Fail, files, Goto, Set, Settle, HeldByOthers,
     Held, QueueType, QueueExclusive, LockSteps, BuildSteps, Steps
<1>31. ASSUME NEW r \in Runs, Kill(r)
      PROVE  QueueExclusive'
  BY <1>31 DEF Kill, Held, Strand, Clear, Goto, QueueType, QueueExclusive,
     LockSteps, BuildSteps, Steps
<1>32. CASE UNCHANGED queueVars
  BY <1>32 DEF queueVars, call, files, hist, QueueType, QueueExclusive, LockSteps,
     BuildSteps, Steps
<1> QED
  BY <1>1, <1>2, <1>3, <1>4, <1>5, <1>6, <1>7, <1>8, <1>9, <1>10, <1>11,
     <1>12, <1>13, <1>14, <1>15, <1>16, <1>17, <1>18, <1>19, <1>20, <1>21,
     <1>22, <1>23, <1>24, <1>25, <1>26, <1>27, <1>28, <1>29, <1>30, <1>31,
     <1>32 DEF QueueNext, Start, InQueue, Process, Replace

(* Nobody else writes what a run has read. *)
LEMMA ReadStep ==
    ASSUME QueueType, QueueExclusive, HandInv, ReadInv, [QueueNext]_queueVars
    PROVE  ReadInv'
<1>1. ASSUME NEW r \in Runs, NEW i \in Items, Hook(r, i)
      PROVE  ReadInv'
  BY <1>1 DEF Hook, Goto, files, hist, QueueType, QueueExclusive, ReadInv,
     LockSteps, HandInv, Queueing, Working, BuildSteps
<1>2. ASSUME NEW r \in Runs, Cron(r)
      PROVE  ReadInv'
  BY <1>2 DEF Cron, Goto, files, hist, QueueType, QueueExclusive, ReadInv,
     LockSteps, HandInv, Queueing, Working, BuildSteps
<1>3. ASSUME NEW r \in Runs, NEW S \in SUBSET Items, Action(r, S)
      PROVE  ReadInv'
  BY <1>3 DEF Action, Goto, files, hist, QueueType, QueueExclusive, ReadInv,
     LockSteps, HandInv, Queueing, Working, BuildSteps
<1>4. ASSUME NEW r \in Runs, Lock(r)
      PROVE  ReadInv'
  BY <1>4 DEF Lock, Goto, call, files, hist, QueueType, QueueExclusive, ReadInv,
     LockSteps, HandInv, Queueing, Working, BuildSteps
<1>5. ASSUME NEW r \in Runs, Busy(r)
      PROVE  ReadInv'
  BY <1>5 DEF Busy, Goto, DropRetry, files, Clear, hist, QueueType,
     QueueExclusive, ReadInv, LockSteps, HandInv, Queueing, Working,
     BuildSteps
<1>6. ASSUME NEW r \in Runs, Read(r)
      PROVE  ReadInv'
  BY <1>6 DEF Read, Goto, files, hist, QueueType, QueueExclusive, ReadInv,
     LockSteps, HandInv, Queueing, Working, BuildSteps
<1>7. ASSUME NEW r \in Runs, ReadFails(r)
      PROVE  ReadInv'
  BY <1>7 DEF ReadFails, Goto, files, QueueType, QueueExclusive, ReadInv,
     LockSteps, HandInv, Queueing, Working, BuildSteps
<1>8. ASSUME NEW r \in Runs, Enqueue(r)
      PROVE  ReadInv'
  BY <1>8 DEF Enqueue, Goto, files, QueueType, QueueExclusive, ReadInv,
     LockSteps, HandInv, Queueing, Working, BuildSteps
<1>9. ASSUME NEW r \in Runs, Take(r)
      PROVE  ReadInv'
  BY <1>9 DEF Take, Goto, files, hist, QueueType, QueueExclusive, ReadInv,
     LockSteps, HandInv, Queueing, Working, BuildSteps
<1>10. ASSUME NEW r \in Runs, WriteFails(r)
      PROVE  ReadInv'
  BY <1>10 DEF WriteFails, Goto, DropRetry, hist, files, QueueType,
     QueueExclusive, ReadInv, LockSteps, HandInv, Queueing, Working,
     BuildSteps
<1>11. ASSUME NEW r \in Runs, Unlock(r)
      PROVE  ReadInv'
  BY <1>11 DEF Unlock, Clear, Goto, call, hist, QueueType, QueueExclusive,
     ReadInv, LockSteps, HandInv, Queueing, Working, BuildSteps
<1>12. ASSUME NEW r \in Runs, MarkQueued(r)
      PROVE  ReadInv'
  BY <1>12 DEF MarkQueued, Set, Clear, hist, Goto, QueueType, QueueExclusive,
     ReadInv, LockSteps, HandInv, Queueing, Working, BuildSteps
<1>13. ASSUME NEW r \in Runs, NEW S \in SUBSET Items, NEW T \in SUBSET Items, Classify(r, S, T)
      PROVE  ReadInv'
  BY <1>13 DEF Classify, Goto, Settle, files, HeldByOthers, Held, QueueType,
     QueueExclusive, ReadInv, LockSteps, HandInv, Queueing, Working,
     BuildSteps
<1>14. ASSUME NEW r \in Runs, ModelsReady(r)
      PROVE  ReadInv'
  BY <1>14 DEF ModelsReady, Goto, call, files, hist, QueueType, QueueExclusive,
     ReadInv, LockSteps, HandInv, Queueing, Working, BuildSteps
<1>15. ASSUME NEW r \in Runs, ModelsMissing(r)
      PROVE  ReadInv'
  BY <1>15 DEF ModelsMissing, Goto, files, hist, QueueType, QueueExclusive,
     ReadInv, LockSteps, HandInv, Queueing, Working, BuildSteps
<1>16. ASSUME NEW r \in Runs, NEW i \in Items, NextItem(r, i)
      PROVE  ReadInv'
  BY <1>16 DEF NextItem, Goto, files, hist, QueueType, QueueExclusive, ReadInv,
     LockSteps, HandInv, Queueing, Working, BuildSteps
<1>17. ASSUME NEW r \in Runs, NEW i \in Items, Requeue(r, i)
      PROVE  ReadInv'
  BY <1>17 DEF Requeue, Goto, files, hist, QueueType, QueueExclusive, ReadInv,
     LockSteps, HandInv, Queueing, Working, BuildSteps
<1>18. ASSUME NEW r \in Runs, Done(r)
      PROVE  ReadInv'
  BY <1>18 DEF Done, Clear, hist, Goto, QueueType, QueueExclusive, ReadInv,
     LockSteps, HandInv, Queueing, Working, BuildSteps
<1>19. ASSUME NEW r \in Runs, NothingToDo(r)
      PROVE  ReadInv'
  BY <1>19 DEF NothingToDo, Succeed, files, Goto, Set, Settle, HeldByOthers,
     Held, QueueType, QueueExclusive, ReadInv, LockSteps, HandInv, Queueing,
     Working, BuildSteps
<1>20. ASSUME NEW r \in Runs, Unusable(r)
      PROVE  ReadInv'
  BY <1>20 DEF Unusable, Fail, files, Goto, Set, QueueType, QueueExclusive,
     ReadInv, LockSteps, HandInv, Queueing, Working, BuildSteps
<1>21. ASSUME NEW r \in Runs, Build(r)
      PROVE  ReadInv'
  BY <1>21 DEF Build, Goto, Set, call, hist, QueueType, QueueExclusive, ReadInv,
     LockSteps, HandInv, Queueing, Working, BuildSteps
<1>22. ASSUME NEW r \in Runs, Built(r)
      PROVE  ReadInv'
  BY <1>22 DEF Built, Goto, call, hist, QueueType, QueueExclusive, ReadInv,
     LockSteps, HandInv, Queueing, Working, BuildSteps
<1>23. ASSUME NEW r \in Runs, BuildFails(r)
      PROVE  ReadInv'
  BY <1>23 DEF BuildFails, Fail, Goto, Set, QueueType, QueueExclusive, ReadInv,
     LockSteps, HandInv, Queueing, Working, BuildSteps
<1>24. ASSUME NEW r \in Runs, Swap(r)
      PROVE  ReadInv'
  BY <1>24 DEF Swap, Goto, call, files, hist, QueueType, QueueExclusive, ReadInv,
     LockSteps, HandInv, Queueing, Working, BuildSteps
<1>25. ASSUME NEW r \in Runs, MoveAside(r)
      PROVE  ReadInv'
  BY <1>25 DEF MoveAside, Goto, call, hist, QueueType, QueueExclusive, ReadInv,
     LockSteps, HandInv, Queueing, Working, BuildSteps
<1>26. ASSUME NEW r \in Runs, MoveAsideFails(r)
      PROVE  ReadInv'
  BY <1>26 DEF MoveAsideFails, Fail, Goto, Set, QueueType, QueueExclusive,
     ReadInv, LockSteps, HandInv, Queueing, Working, BuildSteps
<1>27. ASSUME NEW r \in Runs, Publish(r)
      PROVE  ReadInv'
  BY <1>27 DEF Publish, Goto, call, QueueType, QueueExclusive, ReadInv,
     LockSteps, HandInv, Queueing, Working, BuildSteps
<1>28. ASSUME NEW r \in Runs, PublishFails(r)
      PROVE  ReadInv'
  BY <1>28 DEF PublishFails, Fail, Strand, Goto, Set, QueueType, QueueExclusive,
     ReadInv, LockSteps, HandInv, Queueing, Working, BuildSteps
<1>29. ASSUME NEW r \in Runs, Discard(r)
      PROVE  ReadInv'
  BY <1>29 DEF Discard, Goto, call, hist, Fail, Set, QueueType, QueueExclusive,
     ReadInv, LockSteps, HandInv, Queueing, Working, BuildSteps
<1>30. ASSUME NEW r \in Runs, Report(r)
      PROVE  ReadInv'
  BY <1>30 DEF Report, Succeed, Fail, files, Goto, Set, Settle, HeldByOthers,
     Held, QueueType, QueueExclusive, ReadInv, LockSteps, HandInv, Queueing,
     Working, BuildSteps
<1>31. ASSUME NEW r \in Runs, Kill(r)
      PROVE  ReadInv'
  BY <1>31 DEF Kill, Held, Strand, Clear, Goto, QueueType, QueueExclusive,
     ReadInv, LockSteps, HandInv, Queueing, Working, BuildSteps
<1>32. CASE UNCHANGED queueVars
  BY <1>32 DEF queueVars, call, files, hist, QueueType, QueueExclusive, ReadInv,
     LockSteps, HandInv, Queueing, Working, BuildSteps
<1> QED
  BY <1>1, <1>2, <1>3, <1>4, <1>5, <1>6, <1>7, <1>8, <1>9, <1>10, <1>11,
     <1>12, <1>13, <1>14, <1>15, <1>16, <1>17, <1>18, <1>19, <1>20, <1>21,
     <1>22, <1>23, <1>24, <1>25, <1>26, <1>27, <1>28, <1>29, <1>30, <1>31,
     <1>32 DEF QueueNext, Start, InQueue, Process, Replace

(* An item leaves queue and runs only processed, or by a failure. *)
LEMMA ForgottenStep ==
    ASSUME QueueType, QueueExclusive, HandInv, ReadInv, NothingForgotten, [QueueNext]_queueVars
    PROVE  NothingForgotten'
<1>1. ASSUME NEW r \in Runs, NEW i \in Items, Hook(r, i)
      PROVE  NothingForgotten'
  BY <1>1 DEF Hook, Goto, files, hist, QueueType, QueueExclusive, ReadInv,
     LockSteps, NothingForgotten, Held, HeldByOthers, HandInv, Queueing,
     Working, BuildSteps
<1>2. ASSUME NEW r \in Runs, Cron(r)
      PROVE  NothingForgotten'
  BY <1>2 DEF Cron, Goto, files, hist, QueueType, QueueExclusive, ReadInv,
     LockSteps, NothingForgotten, Held, HeldByOthers, HandInv, Queueing,
     Working, BuildSteps
<1>3. ASSUME NEW r \in Runs, NEW S \in SUBSET Items, Action(r, S)
      PROVE  NothingForgotten'
  BY <1>3 DEF Action, Goto, files, hist, QueueType, QueueExclusive, ReadInv,
     LockSteps, NothingForgotten, Held, HeldByOthers, HandInv, Queueing,
     Working, BuildSteps
<1>4. ASSUME NEW r \in Runs, Lock(r)
      PROVE  NothingForgotten'
  BY <1>4 DEF Lock, Goto, call, files, hist, QueueType, QueueExclusive, ReadInv,
     LockSteps, NothingForgotten, Held, HeldByOthers, HandInv, Queueing,
     Working, BuildSteps
<1>5. ASSUME NEW r \in Runs, Busy(r)
      PROVE  NothingForgotten'
  BY <1>5 DEF Busy, Goto, DropRetry, files, Clear, hist, QueueType,
     QueueExclusive, ReadInv, LockSteps, NothingForgotten, Held, HeldByOthers,
     HandInv, Queueing, Working, BuildSteps
<1>6. ASSUME NEW r \in Runs, Read(r)
      PROVE  NothingForgotten'
  BY <1>6 DEF Read, Goto, files, hist, QueueType, QueueExclusive, ReadInv,
     LockSteps, NothingForgotten, Held, HeldByOthers, HandInv, Queueing,
     Working, BuildSteps
<1>7. ASSUME NEW r \in Runs, ReadFails(r)
      PROVE  NothingForgotten'
  BY <1>7 DEF ReadFails, Goto, files, QueueType, QueueExclusive, ReadInv,
     LockSteps, NothingForgotten, Held, HeldByOthers, HandInv, Queueing,
     Working, BuildSteps
<1>8. ASSUME NEW r \in Runs, Enqueue(r)
      PROVE  NothingForgotten'
  BY <1>8 DEF Enqueue, Goto, files, QueueType, QueueExclusive, ReadInv,
     LockSteps, NothingForgotten, Held, HeldByOthers, HandInv, Queueing,
     Working, BuildSteps
<1>9. ASSUME NEW r \in Runs, Take(r)
      PROVE  NothingForgotten'
  BY <1>9 DEF Take, Goto, files, hist, QueueType, QueueExclusive, ReadInv,
     LockSteps, NothingForgotten, Held, HeldByOthers, HandInv, Queueing,
     Working, BuildSteps
<1>10. ASSUME NEW r \in Runs, WriteFails(r)
      PROVE  NothingForgotten'
  BY <1>10 DEF WriteFails, Goto, DropRetry, hist, files, QueueType,
     QueueExclusive, ReadInv, LockSteps, NothingForgotten, Held, HeldByOthers,
     HandInv, Queueing, Working, BuildSteps
<1>11. ASSUME NEW r \in Runs, Unlock(r)
      PROVE  NothingForgotten'
  BY <1>11 DEF Unlock, Clear, Goto, call, hist, QueueType, QueueExclusive,
     ReadInv, LockSteps, NothingForgotten, Held, HeldByOthers, HandInv,
     Queueing, Working, BuildSteps
<1>12. ASSUME NEW r \in Runs, MarkQueued(r)
      PROVE  NothingForgotten'
  BY <1>12 DEF MarkQueued, Set, Clear, hist, Goto, QueueType, QueueExclusive,
     ReadInv, LockSteps, NothingForgotten, Held, HeldByOthers, HandInv,
     Queueing, Working, BuildSteps
<1>13. ASSUME NEW r \in Runs, NEW S \in SUBSET Items, NEW T \in SUBSET Items, Classify(r, S, T)
      PROVE  NothingForgotten'
  BY <1>13 DEF Classify, Goto, Settle, files, HeldByOthers, Held, QueueType,
     QueueExclusive, ReadInv, LockSteps, NothingForgotten, HandInv, Queueing,
     Working, BuildSteps
<1>14. ASSUME NEW r \in Runs, ModelsReady(r)
      PROVE  NothingForgotten'
  BY <1>14 DEF ModelsReady, Goto, call, files, hist, QueueType, QueueExclusive,
     ReadInv, LockSteps, NothingForgotten, Held, HeldByOthers, HandInv,
     Queueing, Working, BuildSteps
<1>15. ASSUME NEW r \in Runs, ModelsMissing(r)
      PROVE  NothingForgotten'
  BY <1>15 DEF ModelsMissing, Goto, files, hist, QueueType, QueueExclusive,
     ReadInv, LockSteps, NothingForgotten, Held, HeldByOthers, HandInv,
     Queueing, Working, BuildSteps
<1>16. ASSUME NEW r \in Runs, NEW i \in Items, NextItem(r, i)
      PROVE  NothingForgotten'
  BY <1>16 DEF NextItem, Goto, files, hist, QueueType, QueueExclusive, ReadInv,
     LockSteps, NothingForgotten, Held, HeldByOthers, HandInv, Queueing,
     Working, BuildSteps
<1>17. ASSUME NEW r \in Runs, NEW i \in Items, Requeue(r, i)
      PROVE  NothingForgotten'
  BY <1>17 DEF Requeue, Goto, files, hist, QueueType, QueueExclusive, ReadInv,
     LockSteps, NothingForgotten, Held, HeldByOthers, HandInv, Queueing,
     Working, BuildSteps
<1>18. ASSUME NEW r \in Runs, Done(r)
      PROVE  NothingForgotten'
  BY <1>18 DEF Done, Clear, hist, Goto, QueueType, QueueExclusive, ReadInv,
     LockSteps, NothingForgotten, Held, HeldByOthers, HandInv, Queueing,
     Working, BuildSteps
<1>19. ASSUME NEW r \in Runs, NothingToDo(r)
      PROVE  NothingForgotten'
  BY <1>19 DEF NothingToDo, Succeed, files, Goto, Set, Settle, HeldByOthers,
     Held, QueueType, QueueExclusive, ReadInv, LockSteps, NothingForgotten,
     HandInv, Queueing, Working, BuildSteps
<1>20. ASSUME NEW r \in Runs, Unusable(r)
      PROVE  NothingForgotten'
  BY <1>20 DEF Unusable, Fail, files, Goto, Set, QueueType, QueueExclusive,
     ReadInv, LockSteps, NothingForgotten, Held, HeldByOthers, HandInv,
     Queueing, Working, BuildSteps
<1>21. ASSUME NEW r \in Runs, Build(r)
      PROVE  NothingForgotten'
  BY <1>21 DEF Build, Goto, Set, call, hist, QueueType, QueueExclusive, ReadInv,
     LockSteps, NothingForgotten, Held, HeldByOthers, HandInv, Queueing,
     Working, BuildSteps
<1>22. ASSUME NEW r \in Runs, Built(r)
      PROVE  NothingForgotten'
  BY <1>22 DEF Built, Goto, call, hist, QueueType, QueueExclusive, ReadInv,
     LockSteps, NothingForgotten, Held, HeldByOthers, HandInv, Queueing,
     Working, BuildSteps
<1>23. ASSUME NEW r \in Runs, BuildFails(r)
      PROVE  NothingForgotten'
  BY <1>23 DEF BuildFails, Fail, Goto, Set, QueueType, QueueExclusive, ReadInv,
     LockSteps, NothingForgotten, Held, HeldByOthers, HandInv, Queueing,
     Working, BuildSteps
<1>24. ASSUME NEW r \in Runs, Swap(r)
      PROVE  NothingForgotten'
  BY <1>24 DEF Swap, Goto, call, files, hist, QueueType, QueueExclusive, ReadInv,
     LockSteps, NothingForgotten, Held, HeldByOthers, HandInv, Queueing,
     Working, BuildSteps
<1>25. ASSUME NEW r \in Runs, MoveAside(r)
      PROVE  NothingForgotten'
  BY <1>25 DEF MoveAside, Goto, call, hist, QueueType, QueueExclusive, ReadInv,
     LockSteps, NothingForgotten, Held, HeldByOthers, HandInv, Queueing,
     Working, BuildSteps
<1>26. ASSUME NEW r \in Runs, MoveAsideFails(r)
      PROVE  NothingForgotten'
  BY <1>26 DEF MoveAsideFails, Fail, Goto, Set, QueueType, QueueExclusive,
     ReadInv, LockSteps, NothingForgotten, Held, HeldByOthers, HandInv,
     Queueing, Working, BuildSteps
<1>27. ASSUME NEW r \in Runs, Publish(r)
      PROVE  NothingForgotten'
  BY <1>27 DEF Publish, Goto, call, QueueType, QueueExclusive, ReadInv,
     LockSteps, NothingForgotten, Held, HeldByOthers, HandInv, Queueing,
     Working, BuildSteps
<1>28. ASSUME NEW r \in Runs, PublishFails(r)
      PROVE  NothingForgotten'
  BY <1>28 DEF PublishFails, Fail, Strand, Goto, Set, QueueType, QueueExclusive,
     ReadInv, LockSteps, NothingForgotten, Held, HeldByOthers, HandInv,
     Queueing, Working, BuildSteps
<1>29. ASSUME NEW r \in Runs, Discard(r)
      PROVE  NothingForgotten'
  BY <1>29 DEF Discard, Goto, call, hist, Fail, Set, QueueType, QueueExclusive,
     ReadInv, LockSteps, NothingForgotten, Held, HeldByOthers, HandInv,
     Queueing, Working, BuildSteps
<1>30. ASSUME NEW r \in Runs, Report(r)
      PROVE  NothingForgotten'
  BY <1>30 DEF Report, Succeed, Fail, files, Goto, Set, Settle, HeldByOthers,
     Held, QueueType, QueueExclusive, ReadInv, LockSteps, NothingForgotten,
     HandInv, Queueing, Working, BuildSteps
<1>31. ASSUME NEW r \in Runs, Kill(r)
      PROVE  NothingForgotten'
  BY <1>31 DEF Kill, Held, Strand, Clear, Goto, QueueType, QueueExclusive,
     ReadInv, LockSteps, NothingForgotten, HeldByOthers, HandInv, Queueing,
     Working, BuildSteps
<1>32. CASE UNCHANGED queueVars
  BY <1>32 DEF queueVars, call, files, hist, QueueType, QueueExclusive, ReadInv,
     LockSteps, NothingForgotten, Held, HeldByOthers, HandInv, Queueing,
     Working, BuildSteps
<1> QED
  BY <1>1, <1>2, <1>3, <1>4, <1>5, <1>6, <1>7, <1>8, <1>9, <1>10, <1>11,
     <1>12, <1>13, <1>14, <1>15, <1>16, <1>17, <1>18, <1>19, <1>20, <1>21,
     <1>22, <1>23, <1>24, <1>25, <1>26, <1>27, <1>28, <1>29, <1>30, <1>31,
     <1>32 DEF QueueNext, Start, InQueue, Process, Replace

(* Artifacts are moved aside only by a run that will put others in place. *)
LEMMA KeptStep ==
    ASSUME QueueType, HandInv, DirInv, ArtifactsKept, [QueueNext]_queueVars
    PROVE  ArtifactsKept'
<1>1. ASSUME NEW r \in Runs, NEW i \in Items, Hook(r, i)
      PROVE  ArtifactsKept'
  BY <1>1 DEF Hook, Goto, files, hist, QueueType, DirInv, PublishedWhole,
     ArtifactsKept, Directories, HandInv, Queueing, Working, BuildSteps
<1>2. ASSUME NEW r \in Runs, Cron(r)
      PROVE  ArtifactsKept'
  BY <1>2 DEF Cron, Goto, files, hist, QueueType, DirInv, PublishedWhole,
     ArtifactsKept, Directories, HandInv, Queueing, Working, BuildSteps
<1>3. ASSUME NEW r \in Runs, NEW S \in SUBSET Items, Action(r, S)
      PROVE  ArtifactsKept'
  BY <1>3 DEF Action, Goto, files, hist, QueueType, DirInv, PublishedWhole,
     ArtifactsKept, Directories, HandInv, Queueing, Working, BuildSteps
<1>4. ASSUME NEW r \in Runs, Lock(r)
      PROVE  ArtifactsKept'
  BY <1>4 DEF Lock, Goto, call, files, hist, QueueType, DirInv, PublishedWhole,
     ArtifactsKept, Directories, HandInv, Queueing, Working, BuildSteps
<1>5. ASSUME NEW r \in Runs, Busy(r)
      PROVE  ArtifactsKept'
  BY <1>5 DEF Busy, Goto, DropRetry, files, Clear, hist, QueueType, DirInv,
     PublishedWhole, ArtifactsKept, Directories, HandInv, Queueing, Working,
     BuildSteps
<1>6. ASSUME NEW r \in Runs, Read(r)
      PROVE  ArtifactsKept'
  BY <1>6 DEF Read, Goto, files, hist, QueueType, DirInv, PublishedWhole,
     ArtifactsKept, Directories, HandInv, Queueing, Working, BuildSteps
<1>7. ASSUME NEW r \in Runs, ReadFails(r)
      PROVE  ArtifactsKept'
  BY <1>7 DEF ReadFails, Goto, files, QueueType, DirInv, PublishedWhole,
     ArtifactsKept, Directories, HandInv, Queueing, Working, BuildSteps
<1>8. ASSUME NEW r \in Runs, Enqueue(r)
      PROVE  ArtifactsKept'
  BY <1>8 DEF Enqueue, Goto, files, QueueType, DirInv, PublishedWhole,
     ArtifactsKept, Directories, HandInv, Queueing, Working, BuildSteps
<1>9. ASSUME NEW r \in Runs, Take(r)
      PROVE  ArtifactsKept'
  BY <1>9 DEF Take, Goto, files, hist, QueueType, DirInv, PublishedWhole,
     ArtifactsKept, Directories, HandInv, Queueing, Working, BuildSteps
<1>10. ASSUME NEW r \in Runs, WriteFails(r)
      PROVE  ArtifactsKept'
  BY <1>10 DEF WriteFails, Goto, DropRetry, hist, files, QueueType, DirInv,
     PublishedWhole, ArtifactsKept, Directories, HandInv, Queueing, Working,
     BuildSteps
<1>11. ASSUME NEW r \in Runs, Unlock(r)
      PROVE  ArtifactsKept'
  BY <1>11 DEF Unlock, Clear, Goto, call, hist, QueueType, DirInv,
     PublishedWhole, ArtifactsKept, Directories, HandInv, Queueing, Working,
     BuildSteps
<1>12. ASSUME NEW r \in Runs, MarkQueued(r)
      PROVE  ArtifactsKept'
  BY <1>12 DEF MarkQueued, Set, Clear, hist, Goto, QueueType, DirInv,
     PublishedWhole, ArtifactsKept, Directories, HandInv, Queueing, Working,
     BuildSteps
<1>13. ASSUME NEW r \in Runs, NEW S \in SUBSET Items, NEW T \in SUBSET Items, Classify(r, S, T)
      PROVE  ArtifactsKept'
  BY <1>13 DEF Classify, Goto, Settle, files, HeldByOthers, Held, QueueType,
     DirInv, PublishedWhole, ArtifactsKept, Directories, HandInv, Queueing,
     Working, BuildSteps
<1>14. ASSUME NEW r \in Runs, ModelsReady(r)
      PROVE  ArtifactsKept'
  BY <1>14 DEF ModelsReady, Goto, call, files, hist, QueueType, DirInv,
     PublishedWhole, ArtifactsKept, Directories, HandInv, Queueing, Working,
     BuildSteps
<1>15. ASSUME NEW r \in Runs, ModelsMissing(r)
      PROVE  ArtifactsKept'
  BY <1>15 DEF ModelsMissing, Goto, files, hist, QueueType, DirInv,
     PublishedWhole, ArtifactsKept, Directories, HandInv, Queueing, Working,
     BuildSteps
<1>16. ASSUME NEW r \in Runs, NEW i \in Items, NextItem(r, i)
      PROVE  ArtifactsKept'
  BY <1>16 DEF NextItem, Goto, files, hist, QueueType, DirInv, PublishedWhole,
     ArtifactsKept, Directories, HandInv, Queueing, Working, BuildSteps
<1>17. ASSUME NEW r \in Runs, NEW i \in Items, Requeue(r, i)
      PROVE  ArtifactsKept'
  BY <1>17 DEF Requeue, Goto, files, hist, QueueType, DirInv, PublishedWhole,
     ArtifactsKept, Directories, HandInv, Queueing, Working, BuildSteps
<1>18. ASSUME NEW r \in Runs, Done(r)
      PROVE  ArtifactsKept'
  BY <1>18 DEF Done, Clear, hist, Goto, QueueType, DirInv, PublishedWhole,
     ArtifactsKept, Directories, HandInv, Queueing, Working, BuildSteps
<1>19. ASSUME NEW r \in Runs, NothingToDo(r)
      PROVE  ArtifactsKept'
  BY <1>19 DEF NothingToDo, Succeed, files, Goto, Set, Settle, HeldByOthers,
     Held, QueueType, DirInv, PublishedWhole, ArtifactsKept, Directories,
     HandInv, Queueing, Working, BuildSteps
<1>20. ASSUME NEW r \in Runs, Unusable(r)
      PROVE  ArtifactsKept'
  BY <1>20 DEF Unusable, Fail, files, Goto, Set, QueueType, DirInv,
     PublishedWhole, ArtifactsKept, Directories, HandInv, Queueing, Working,
     BuildSteps
<1>21. ASSUME NEW r \in Runs, Build(r)
      PROVE  ArtifactsKept'
  BY <1>21 DEF Build, Goto, Set, call, hist, QueueType, DirInv, PublishedWhole,
     ArtifactsKept, Directories, HandInv, Queueing, Working, BuildSteps
<1>22. ASSUME NEW r \in Runs, Built(r)
      PROVE  ArtifactsKept'
  BY <1>22 DEF Built, Goto, call, hist, QueueType, DirInv, PublishedWhole,
     ArtifactsKept, Directories, HandInv, Queueing, Working, BuildSteps
<1>23. ASSUME NEW r \in Runs, BuildFails(r)
      PROVE  ArtifactsKept'
  BY <1>23 DEF BuildFails, Fail, Goto, Set, QueueType, DirInv, PublishedWhole,
     ArtifactsKept, Directories, HandInv, Queueing, Working, BuildSteps
<1>24. ASSUME NEW r \in Runs, Swap(r)
      PROVE  ArtifactsKept'
  BY <1>24 DEF Swap, Goto, call, files, hist, QueueType, DirInv, PublishedWhole,
     ArtifactsKept, Directories, HandInv, Queueing, Working, BuildSteps
<1>25. ASSUME NEW r \in Runs, MoveAside(r)
      PROVE  ArtifactsKept'
  BY <1>25 DEF MoveAside, Goto, call, hist, QueueType, DirInv, PublishedWhole,
     ArtifactsKept, Directories, HandInv, Queueing, Working, BuildSteps
<1>26. ASSUME NEW r \in Runs, MoveAsideFails(r)
      PROVE  ArtifactsKept'
  BY <1>26 DEF MoveAsideFails, Fail, Goto, Set, QueueType, DirInv,
     PublishedWhole, ArtifactsKept, Directories, HandInv, Queueing, Working,
     BuildSteps
<1>27. ASSUME NEW r \in Runs, Publish(r)
      PROVE  ArtifactsKept'
  BY <1>27 DEF Publish, Goto, call, QueueType, DirInv, PublishedWhole,
     ArtifactsKept, Directories, HandInv, Queueing, Working, BuildSteps
<1>28. ASSUME NEW r \in Runs, PublishFails(r)
      PROVE  ArtifactsKept'
  BY <1>28 DEF PublishFails, Fail, Strand, Goto, Set, QueueType, DirInv,
     PublishedWhole, ArtifactsKept, Directories, HandInv, Queueing, Working,
     BuildSteps
<1>29. ASSUME NEW r \in Runs, Discard(r)
      PROVE  ArtifactsKept'
  BY <1>29 DEF Discard, Goto, call, hist, Fail, Set, QueueType, DirInv,
     PublishedWhole, ArtifactsKept, Directories, HandInv, Queueing, Working,
     BuildSteps
<1>30. ASSUME NEW r \in Runs, Report(r)
      PROVE  ArtifactsKept'
  BY <1>30 DEF Report, Succeed, Fail, files, Goto, Set, Settle, HeldByOthers,
     Held, QueueType, DirInv, PublishedWhole, ArtifactsKept, Directories,
     HandInv, Queueing, Working, BuildSteps
<1>31. ASSUME NEW r \in Runs, Kill(r)
      PROVE  ArtifactsKept'
  BY <1>31 DEF Kill, Held, Strand, Clear, Goto, QueueType, DirInv,
     PublishedWhole, ArtifactsKept, Directories, HandInv, Queueing, Working,
     BuildSteps
<1>32. CASE UNCHANGED queueVars
  BY <1>32 DEF queueVars, call, files, hist, QueueType, DirInv, PublishedWhole,
     ArtifactsKept, Directories, HandInv, Queueing, Working, BuildSteps
<1> QED
  BY <1>1, <1>2, <1>3, <1>4, <1>5, <1>6, <1>7, <1>8, <1>9, <1>10, <1>11,
     <1>12, <1>13, <1>14, <1>15, <1>16, <1>17, <1>18, <1>19, <1>20, <1>21,
     <1>22, <1>23, <1>24, <1>25, <1>26, <1>27, <1>28, <1>29, <1>30, <1>31,
     <1>32 DEF QueueNext, Start, InQueue, Process, Replace

-----------------------------------------------------------------------------
QueueInv ==
    /\ QueueType /\ HandInv /\ DirInv
    /\ QueueExclusive /\ ReadInv /\ NothingForgotten /\ ArtifactsKept

LEMMA QueueInitially == QueueInit => QueueInv
<1> SUFFICES ASSUME QueueInit PROVE QueueInv
  OBVIOUS
<1>1. QueueType
  <2>1. locked \in BOOLEAN
    BY DEF QueueInit
  <2>2. /\ stage \in [Runs -> Steps]
        /\ temp \in [Runs -> Directories] /\ aside \in [Runs -> Directories]
        /\ target \in [Items -> Directories]
    BY DEF QueueInit, Steps, Directories
  <2> QED BY <2>1, <2>2 DEF QueueInit, QueueType
<1>2. HandInv /\ DirInv
  BY DEF QueueInit, HandInv, DirInv, PublishedWhole, Queueing, Working, BuildSteps
<1>3. QueueExclusive /\ ReadInv /\ NothingForgotten /\ ArtifactsKept
  BY DEF QueueInit, QueueExclusive, ReadInv, NothingForgotten, ArtifactsKept, LockSteps
<1> QED BY <1>1, <1>2, <1>3 DEF QueueInv

LEMMA QueueInvariance == QueueSpec => []QueueInv
<1>1. QueueInv /\ [QueueNext]_queueVars => QueueInv'
  BY QueueTypeStep, HandStep, DirStep, ExclusiveStep, ReadStep, ForgottenStep, KeptStep
     DEF QueueInv
<1> QED BY QueueInitially, <1>1, PTL DEF QueueSpec

(* Every variable of the queue and its runs has its type.                  *)
THEOREM QueueTypeCorrect == QueueSpec => []QueueType
  BY QueueInvariance, PTL DEF QueueInv

(* with_file_lock excludes: no two runs change queue.json at a time, and   *)
(* none does without the lock directory, however many were killed inside.  *)
THEOREM LockExcludes == QueueSpec => []QueueExclusive
  BY QueueInvariance, PTL DEF QueueInv

(* What was enqueued is processed, waits in queue.json or is in the hands  *)
(* of a run, but for the failures NothingForgotten names: overlapping      *)
(* hooks and cron runs lose no item between Queue::enqueue and Queue::take. *)
THEOREM NoItemForgotten == QueueSpec => []NothingForgotten
  BY QueueInvariance, PTL DEF QueueInv

(* replace_directory puts whole artifacts in place, and runs that replace  *)
(* those of one item at a time lose none, short of a run that ends between *)
(* its renames.                                                            *)
THEOREM ArtifactsSafe == QueueSpec => [](PublishedWhole /\ ArtifactsKept)
  BY QueueInvariance, PTL DEF QueueInv, DirInv

-----------------------------------------------------------------------------
(* The models: ModelStore.                                                 *)

(* What the constants are: a table of some assets, and None is no file. *)
Table ==
    /\ Assets \in Nat /\ Size \in Nat /\ Blank \in Pieces
    /\ Temporary \in [1..Assets -> Temporaries] /\ Pinned \in [1..Assets -> Content]
    /\ None \notin Inodes

Own(r) == Temporary[at[r]]
Downloads(r) == download[r] /\ place[r] \in Fetching

(* Two downloads are at one temporary path only if it is known that they met. *)
Alone ==
    \A r, q \in Processes :
        Downloads(r) /\ Downloads(q) /\ r # q /\ Own(r) = Own(q) => Own(r) \in shared

FileInv ==
    \A r \in Processes :
        /\ file[r] # None <=> place[r] \in {"verify", "receive"}
        /\ place[r] \in Fetching \ {"verify"} => download[r]

(* A file that is written is the temporary one, and nobody else's, unless  *)
(* two downloads have met there.                                           *)
WriterInv ==
    \A r \in Processes : place[r] = "receive" =>
        /\ \A a \in 1..Assets : path[a] = file[r] => Temporary[a] \in shared
        /\ \A a \in 1..Assets : path[a] = file[r] => Temporary[a] = Own(r)
        /\ \A t \in Temporaries : temporary[t] = file[r] => t = Own(r)
        /\ Own(r) \notin shared => temporary[Own(r)] = file[r]
        /\ \A q \in Processes \ {r} : file[q] = file[r] => Own(q) = Own(r) /\ Own(q) \in shared

(* A file that is verified is the installed one, or has been replaced for  *)
(* not being right.                                                        *)
ReaderInv ==
    \A r \in Processes : place[r] = "verify" =>
        /\ \A t \in Temporaries : temporary[t] # file[r]
        /\ \A a \in 1..Assets : path[a] = file[r] => a = at[r]
        /\ Own(r) \notin shared =>
             /\ \/ path[at[r]] = file[r]
                \/ ~download[r] /\ content[file[r]] # Pinned[at[r]]
             /\ \A o \in 1..Size : o <= offset[r] => body[r][o] = content[file[r]][o]

(* A download is for an asset that is not right, and what it is about to   *)
(* rename has been compared with the table.                                *)
DownloadInv ==
    \A r \in Processes : place[r] \in Fetching \ {"verify"} /\ Own(r) \notin shared =>
        /\ ~Right(at[r])
        /\ place[r] = "receive" => content[file[r]] = body[r]
        /\ place[r] \in {"check", "publish", "rename"} =>
             temporary[Own(r)] # None /\ content[temporary[Own(r)]] = body[r]
        /\ place[r] \in {"publish", "rename"} => body[r] = Pinned[at[r]]

ReadyInv ==
    \A r \in Processes : place[r] # "idle" =>
        /\ \A a \in 1..Assets : a < at[r] => a \in known
        /\ place[r] = "ready" => at[r] = Assets + 1

StoreIInv == StoreType /\ Apart /\ Alone /\ FileInv /\ WriterInv /\ ReaderInv
        /\ DownloadInv /\ KnownRight /\ ReadyInv

-----------------------------------------------------------------------------
LEMMA SameContent ==
    ASSUME NEW c \in Content, NEW d \in Content, \A o \in 1..Size : c[o] = d[o]
    PROVE  c = d
<1>1. c = [o \in 1..Size |-> c[o]]
  BY DEF Content
<1>2. d = [o \in 1..Size |-> d[o]]
  BY DEF Content
<1>3. [o \in 1..Size |-> c[o]] = [o \in 1..Size |-> d[o]]
  OBVIOUS
<1> QED
  BY <1>1, <1>2, <1>3

LEMMA StoreTypeStep ==
    ASSUME Table, StoreType, FileInv, [StoreNext]_storeVars
    PROVE  StoreType'
<1>1. ASSUME NEW r \in Processes, NEW downloads \in BOOLEAN, NEW asRead \in ModelLock,
             StartRun(r, downloads, asRead)
      PROVE  StoreType'
  <2>1. [asRead EXCEPT !.revision = "current"] \in ModelLock
    BY DEF ModelLock, Revisions
  <2>2. mine' \in [Processes -> ModelLock]
    BY <1>1, <2>1 DEF StartRun, StoreType
  <2>3. at' \in [Processes -> 1..Assets + 1]
    BY <1>1 DEF StartRun, StoreType, Table
  <2>4. /\ place' \in [Processes -> {"idle", "next", "save", "ready"} \cup Fetching]
        /\ \A q \in Processes : place'[q] \in Fetching => place'[q] = place[q] /\ at'[q] = at[q]
    BY <1>1 DEF StartRun, GoTo, StoreType, Fetching
  <2> QED
    BY <1>1, <2>2, <2>3, <2>4 DEF StartRun, StoreType
<1>2. ASSUME NEW r \in Processes, TakeAsset(r) PROVE StoreType'
  <2>1. at[r] \in 1..Assets /\ Temporary[at[r]] \in Temporaries
    BY <1>2 DEF TakeAsset, StoreType, Table
  <2>2. shared' \subseteq Temporaries
    BY <1>2, <2>1 DEF TakeAsset, StoreType
  <2>3. /\ file' \in [Processes -> Inodes \cup {None}]
        /\ offset' \in [Processes -> 0..Size] /\ body' \in [Processes -> Content]
    <3>1. Empty \in Content /\ path[at[r]] \in Inodes \cup {None} /\ 0 \in 0..Size
      BY <2>1 DEF Table, Content, Empty, StoreType
    <3>2. CASE Opens(r, path[at[r]])
      BY <3>1, <3>2 DEF Opens, StoreType
    <3>3. CASE UNCHANGED <<file, offset, body>>
      BY <3>3 DEF StoreType
    <3> QED
      BY <1>2, <3>2, <3>3 DEF TakeAsset
  <2>4. /\ place' \in [Processes -> {"idle", "next", "save", "ready"} \cup Fetching]
        /\ \A q \in Processes : place'[q] \in Fetching => at[q] <= Assets
    BY <1>2 DEF TakeAsset, GoTo, StoreType, Fetching
  <2> QED
    BY <1>2, <2>2, <2>3, <2>4 DEF TakeAsset, StoreType
<1>3. ASSUME NEW r \in Processes, ReadPiece(r) PROVE StoreType'
  BY <1>3 DEF Table, StoreType, FileInv, Content, ReadPiece
<1>4. ASSUME NEW r \in Processes, Verified(r) PROVE StoreType'
  <2>1. at[r] \in 1..Assets
    BY <1>4 DEF Verified, StoreType, Fetching
  <2>2. /\ at' \in [Processes -> 1..Assets + 1] /\ known' \subseteq 1..Assets
        /\ place' \in [Processes -> {"idle", "next", "save", "ready"} \cup Fetching]
        /\ \A q \in Processes : place'[q] \in Fetching => place'[q] = place[q] /\ at'[q] = at[q]
    <3>1. at[r] + 1 \in 1..Assets + 1
      BY <2>1 DEF Table
    <3> QED
      BY <1>4, <2>1, <3>1 DEF Verified, Installed, GoTo, StoreType, Fetching
  <2> QED
    BY <1>4, <2>2 DEF Verified, Closes, StoreType
<1>5. ASSUME NEW r \in Processes, Mismatch(r) PROVE StoreType'
  BY <1>5 DEF StoreType, Fetching, Mismatch, GoTo, Closes
<1>6. ASSUME NEW r \in Processes, EndOfBody(r) PROVE StoreType'
  BY <1>6 DEF StoreType, Fetching, EndOfBody, GoTo, Closes
<1>7. ASSUME NEW r \in Processes, Matches(r) PROVE StoreType'
  BY <1>7 DEF StoreType, Fetching, Matches, GoTo
<1>8. ASSUME NEW r \in Processes, DiscardDownload(r) PROVE StoreType'
  BY <1>8 DEF StoreType, DiscardDownload, GoTo
<1>9. ASSUME NEW r \in Processes, Remove(r) PROVE StoreType'
  BY <1>9 DEF StoreType, Fetching, Remove, GoTo
<1>10. ASSUME NEW r \in Processes, Rename(r) PROVE StoreType'
  <2>1. at[r] \in 1..Assets
    BY <1>10 DEF Rename, StoreType, Fetching
  <2>2. /\ at' \in [Processes -> 1..Assets + 1] /\ known' \subseteq 1..Assets
        /\ place' \in [Processes -> {"idle", "next", "save", "ready"} \cup Fetching]
        /\ \A q \in Processes : place'[q] \in Fetching => place'[q] = place[q] /\ at'[q] = at[q]
    BY <1>10, <2>1 DEF Rename, Installed, GoTo, StoreType, Table, Fetching
  <2>3. mine' \in [Processes -> ModelLock]
    BY <1>10 DEF Rename, StoreType, ModelLock
  <2>4. /\ path' \in [1..Assets -> Inodes \cup {None}]
        /\ temporary' \in [Temporaries -> Inodes \cup {None}]
    BY <1>10, <2>1 DEF Rename, StoreType, Table
  <2> QED
    BY <1>10, <2>2, <2>3, <2>4 DEF Rename, StoreType
<1>11. ASSUME NEW r \in Processes, Save(r) PROVE StoreType'
  BY <1>11 DEF StoreType, Fetching, Save, GoTo
<1>12. ASSUME NEW r \in Processes, FinishDownload(r) PROVE StoreType'
  BY <1>12 DEF StoreType, Fetching, FinishDownload, GoTo
<1>13. ASSUME NEW r \in Processes, GiveUp(r) PROVE StoreType'
  BY <1>13 DEF StoreType, Fetching, GiveUp, GoTo, Closes
<1>14. ASSUME NEW r \in Processes, NEW f \in Inodes, Create(r, f) PROVE StoreType'
  BY <1>14 DEF Table, StoreType, Fetching, Content, Empty, Create, GoTo, Opens
<1>15. ASSUME NEW r \in Processes, NEW piece \in Pieces, Receive(r, piece) PROVE StoreType'
  BY <1>15 DEF Table, StoreType, FileInv, Content, Receive
<1>16. ASSUME UNCHANGED storeVars PROVE StoreType'
  BY <1>16 DEF StoreType, storeVars, run
<1> QED
  BY <1>1, <1>2, <1>3, <1>4, <1>5, <1>6, <1>7, <1>8, <1>9, <1>10, <1>11, <1>12, <1>13,
     <1>14, <1>15, <1>16
     DEF StoreNext, Step

LEMMA ApartStep ==
    ASSUME Table, StoreType, Apart, [StoreNext]_storeVars
    PROVE  Apart'
<1>1. ASSUME NEW r \in Processes, NEW downloads \in BOOLEAN, NEW asRead \in ModelLock,
             StartRun(r, downloads, asRead)
      PROVE  Apart'
  BY <1>1 DEF Apart, StartRun
<1>2. ASSUME NEW r \in Processes, TakeAsset(r) PROVE Apart'
  BY <1>2 DEF Apart, TakeAsset
<1>3. ASSUME NEW r \in Processes, ReadPiece(r) PROVE Apart'
  BY <1>3 DEF Apart, ReadPiece
<1>4. ASSUME NEW r \in Processes, Verified(r) PROVE Apart'
  BY <1>4 DEF Apart, Verified, Installed
<1>5. ASSUME NEW r \in Processes, Mismatch(r) PROVE Apart'
  BY <1>5 DEF Apart, Mismatch
<1>6. ASSUME NEW r \in Processes, EndOfBody(r) PROVE Apart'
  BY <1>6 DEF Apart, EndOfBody
<1>7. ASSUME NEW r \in Processes, Matches(r) PROVE Apart'
  BY <1>7 DEF Apart, Matches
<1>8. ASSUME NEW r \in Processes, DiscardDownload(r) PROVE Apart'
  BY <1>8 DEF Apart, DiscardDownload
<1>9. ASSUME NEW r \in Processes, Remove(r) PROVE Apart'
  BY <1>9 DEF Apart, Remove
<1>10. ASSUME NEW r \in Processes, Rename(r) PROVE Apart'
  BY <1>10 DEF Table, StoreType, Apart, Rename, Installed
<1>11. ASSUME NEW r \in Processes, Save(r) PROVE Apart'
  BY <1>11 DEF Apart, Save
<1>12. ASSUME NEW r \in Processes, FinishDownload(r) PROVE Apart'
  BY <1>12 DEF Apart, FinishDownload
<1>13. ASSUME NEW r \in Processes, GiveUp(r) PROVE Apart'
  BY <1>13 DEF Apart, GiveUp
<1>14. ASSUME NEW r \in Processes, NEW f \in Inodes, Create(r, f) PROVE Apart'
  BY <1>14 DEF Apart, Unused, Create
<1>15. ASSUME NEW r \in Processes, NEW piece \in Pieces, Receive(r, piece) PROVE Apart'
  BY <1>15 DEF Apart, Receive
<1>16. ASSUME UNCHANGED storeVars PROVE Apart'
  BY <1>16 DEF Apart, storeVars, run
<1> QED
  BY <1>1, <1>2, <1>3, <1>4, <1>5, <1>6, <1>7, <1>8, <1>9, <1>10, <1>11, <1>12, <1>13,
     <1>14, <1>15, <1>16
     DEF StoreNext, Step

LEMMA AloneStep ==
    ASSUME Table, StoreType, Alone, FileInv, [StoreNext]_storeVars
    PROVE  Alone'
<1>1. ASSUME NEW r \in Processes, NEW downloads \in BOOLEAN, NEW asRead \in ModelLock,
             StartRun(r, downloads, asRead)
      PROVE  Alone'
  BY <1>1 DEF Alone, Downloads, Own, Fetching, StartRun, GoTo
<1>2. ASSUME NEW r \in Processes, TakeAsset(r) PROVE Alone'
  BY <1>2 DEF Table, StoreType, Alone, Downloads, Own, Fetching, TakeAsset, GoTo
<1>3. ASSUME NEW r \in Processes, ReadPiece(r) PROVE Alone'
  BY <1>3 DEF Alone, Downloads, Own, ReadPiece
<1>4. ASSUME NEW r \in Processes, Verified(r) PROVE Alone'
  BY <1>4 DEF StoreType, Alone, Downloads, Own, Fetching, Verified, Installed, GoTo
<1>5. ASSUME NEW r \in Processes, Mismatch(r) PROVE Alone'
  BY <1>5 DEF StoreType, Alone, Downloads, Own, Mismatch, GoTo
<1>6. ASSUME NEW r \in Processes, EndOfBody(r) PROVE Alone'
  BY <1>6 DEF StoreType, Alone, Downloads, Own, EndOfBody, GoTo
<1>7. ASSUME NEW r \in Processes, Matches(r) PROVE Alone'
  BY <1>7 DEF StoreType, Alone, Downloads, Own, Matches, GoTo
<1>8. ASSUME NEW r \in Processes, DiscardDownload(r) PROVE Alone'
  BY <1>8 DEF StoreType, Alone, Downloads, Own, DiscardDownload, GoTo
<1>9. ASSUME NEW r \in Processes, Remove(r) PROVE Alone'
  BY <1>9 DEF StoreType, Alone, Downloads, Own, Remove, GoTo
<1>10. ASSUME NEW r \in Processes, Rename(r) PROVE Alone'
  BY <1>10 DEF StoreType, Alone, Downloads, Own, Fetching, Rename, Installed, GoTo
<1>11. ASSUME NEW r \in Processes, Save(r) PROVE Alone'
  BY <1>11 DEF Alone, Downloads, Own, Fetching, Save, GoTo
<1>12. ASSUME NEW r \in Processes, FinishDownload(r) PROVE Alone'
  BY <1>12 DEF Alone, Downloads, Own, Fetching, FinishDownload, GoTo
<1>13. ASSUME NEW r \in Processes, GiveUp(r) PROVE Alone'
  BY <1>13 DEF Alone, Downloads, Own, Fetching, GiveUp, GoTo
<1>14. ASSUME NEW r \in Processes, NEW f \in Inodes, Create(r, f) PROVE Alone'
  BY <1>14 DEF StoreType, Alone, Downloads, Own, Create, GoTo
<1>15. ASSUME NEW r \in Processes, NEW piece \in Pieces, Receive(r, piece) PROVE Alone'
  BY <1>15 DEF Alone, Downloads, Own, Receive
<1>16. ASSUME UNCHANGED storeVars PROVE Alone'
  BY <1>16 DEF Alone, Downloads, Own, storeVars, run
<1> QED
  BY <1>1, <1>2, <1>3, <1>4, <1>5, <1>6, <1>7, <1>8, <1>9, <1>10, <1>11, <1>12, <1>13,
     <1>14, <1>15, <1>16
     DEF StoreNext, Step

LEMMA FileStep ==
    ASSUME Table, StoreType, FileInv, [StoreNext]_storeVars
    PROVE  FileInv'
<1>1. ASSUME NEW r \in Processes, NEW downloads \in BOOLEAN, NEW asRead \in ModelLock,
             StartRun(r, downloads, asRead)
      PROVE  FileInv'
  BY <1>1 DEF FileInv, Fetching, StartRun, GoTo
<1>2. ASSUME NEW r \in Processes, TakeAsset(r) PROVE FileInv'
  BY <1>2 DEF StoreType, FileInv, TakeAsset, GoTo, Opens
<1>3. ASSUME NEW r \in Processes, ReadPiece(r) PROVE FileInv'
  BY <1>3 DEF FileInv, ReadPiece
<1>4. ASSUME NEW r \in Processes, Verified(r) PROVE FileInv'
  BY <1>4 DEF StoreType, FileInv, Fetching, Verified, Installed, GoTo, Closes
<1>5. ASSUME NEW r \in Processes, Mismatch(r) PROVE FileInv'
  BY <1>5 DEF StoreType, FileInv, Mismatch, GoTo, Closes
<1>6. ASSUME NEW r \in Processes, EndOfBody(r) PROVE FileInv'
  BY <1>6 DEF StoreType, FileInv, EndOfBody, GoTo, Closes
<1>7. ASSUME NEW r \in Processes, Matches(r) PROVE FileInv'
  BY <1>7 DEF StoreType, FileInv, Matches, GoTo
<1>8. ASSUME NEW r \in Processes, DiscardDownload(r) PROVE FileInv'
  BY <1>8 DEF StoreType, FileInv, DiscardDownload, GoTo
<1>9. ASSUME NEW r \in Processes, Remove(r) PROVE FileInv'
  BY <1>9 DEF StoreType, FileInv, Remove, GoTo
<1>10. ASSUME NEW r \in Processes, Rename(r) PROVE FileInv'
  BY <1>10 DEF StoreType, FileInv, Rename, Installed, GoTo
<1>11. ASSUME NEW r \in Processes, Save(r) PROVE FileInv'
  BY <1>11 DEF FileInv, Fetching, Save, GoTo
<1>12. ASSUME NEW r \in Processes, FinishDownload(r) PROVE FileInv'
  BY <1>12 DEF FileInv, Fetching, FinishDownload, GoTo
<1>13. ASSUME NEW r \in Processes, GiveUp(r) PROVE FileInv'
  BY <1>13 DEF StoreType, FileInv, Fetching, GiveUp, GoTo, Closes
<1>14. ASSUME NEW r \in Processes, NEW f \in Inodes, Create(r, f) PROVE FileInv'
  BY <1>14 DEF Table, StoreType, FileInv, Create, GoTo, Opens
<1>15. ASSUME NEW r \in Processes, NEW piece \in Pieces, Receive(r, piece) PROVE FileInv'
  BY <1>15 DEF FileInv, Receive
<1>16. ASSUME UNCHANGED storeVars PROVE FileInv'
  BY <1>16 DEF FileInv, storeVars, run
<1> QED
  BY <1>1, <1>2, <1>3, <1>4, <1>5, <1>6, <1>7, <1>8, <1>9, <1>10, <1>11, <1>12, <1>13,
     <1>14, <1>15, <1>16
     DEF StoreNext, Step

LEMMA WriterStep ==
    ASSUME Table, StoreType, Apart, Alone, FileInv, WriterInv, ReaderInv, [StoreNext]_storeVars
    PROVE  WriterInv'
<1>1. ASSUME NEW r \in Processes, NEW downloads \in BOOLEAN, NEW asRead \in ModelLock,
             StartRun(r, downloads, asRead)
      PROVE  WriterInv'
  BY <1>1 DEF Table, FileInv, WriterInv, Own, Fetching, StartRun, GoTo
<1>2. ASSUME NEW r \in Processes, TakeAsset(r) PROVE WriterInv'
  BY <1>2 DEF StoreType, WriterInv, Own, Fetching, TakeAsset, GoTo, Opens
<1>3. ASSUME NEW r \in Processes, ReadPiece(r) PROVE WriterInv'
  BY <1>3 DEF WriterInv, Own, ReadPiece
<1>4. ASSUME NEW r \in Processes, Verified(r) PROVE WriterInv'
  BY <1>4 DEF StoreType, FileInv, WriterInv, Own, Verified, Installed, GoTo, Closes
<1>5. ASSUME NEW r \in Processes, Mismatch(r) PROVE WriterInv'
  BY <1>5 DEF FileInv, WriterInv, Own, Mismatch, GoTo, Closes
<1>6. ASSUME NEW r \in Processes, EndOfBody(r) PROVE WriterInv'
  BY <1>6 DEF StoreType, FileInv, WriterInv, Own, EndOfBody, GoTo, Closes
<1>7. ASSUME NEW r \in Processes, Matches(r) PROVE WriterInv'
  BY <1>7 DEF WriterInv, Own, Matches, GoTo
<1>8. ASSUME NEW r \in Processes, DiscardDownload(r) PROVE WriterInv'
  BY <1>8
     DEF Table, Alone, Downloads, FileInv, WriterInv, Own, Fetching, DiscardDownload,
         GoTo
<1>9. ASSUME NEW r \in Processes, Remove(r) PROVE WriterInv'
  BY <1>9 DEF FileInv, WriterInv, Own, Remove, GoTo
<1>10. ASSUME NEW r \in Processes, Rename(r) PROVE WriterInv'
  BY <1>10
     DEF Table, Alone, Downloads, FileInv, WriterInv, Own, Fetching, Rename, Installed, GoTo
<1>11. ASSUME NEW r \in Processes, Save(r) PROVE WriterInv'
  BY <1>11 DEF WriterInv, Own, Save, GoTo
<1>12. ASSUME NEW r \in Processes, FinishDownload(r) PROVE WriterInv'
  BY <1>12 DEF WriterInv, Own, FinishDownload, GoTo
<1>13. ASSUME NEW r \in Processes, GiveUp(r) PROVE WriterInv'
  BY <1>13 DEF StoreType, FileInv, WriterInv, Own, GiveUp, GoTo, Closes
<1>14. ASSUME NEW r \in Processes, NEW f \in Inodes, Create(r, f) PROVE WriterInv'
  BY <1>14
     DEF Table, StoreType, Apart, Alone, Downloads, FileInv, WriterInv, ReaderInv, Own,
         Fetching, Unused, Create, GoTo, Opens
<1>15. ASSUME NEW r \in Processes, NEW piece \in Pieces, Receive(r, piece) PROVE WriterInv'
  BY <1>15 DEF WriterInv, Own, Receive
<1>16. ASSUME UNCHANGED storeVars PROVE WriterInv'
  BY <1>16 DEF WriterInv, Own, storeVars, run
<1> QED
  BY <1>1, <1>2, <1>3, <1>4, <1>5, <1>6, <1>7, <1>8, <1>9, <1>10, <1>11, <1>12, <1>13,
     <1>14, <1>15, <1>16
     DEF StoreNext, Step

LEMMA ReaderStep ==
    ASSUME Table, StoreType, Apart, Alone, FileInv, WriterInv, ReaderInv, DownloadInv, [StoreNext]_storeVars
    PROVE  ReaderInv'
<1>1. ASSUME NEW r \in Processes, NEW downloads \in BOOLEAN, NEW asRead \in ModelLock,
             StartRun(r, downloads, asRead)
      PROVE  ReaderInv'
  BY <1>1 DEF ReaderInv, Own, StartRun, GoTo
<1>2. ASSUME NEW r \in Processes, TakeAsset(r) PROVE ReaderInv'
  BY <1>2 DEF StoreType, Apart, ReaderInv, Own, Fetching, TakeAsset, GoTo, Opens
<1>3. ASSUME NEW r \in Processes, ReadPiece(r) PROVE ReaderInv'
  <2> SUFFICES ASSUME NEW q \in Processes, place'[q] = "verify", Own(q)' \notin shared'
               PROVE  \A o \in 1..Size : o <= offset'[q] => body'[q][o] = content'[file'[q]][o]
    BY <1>3 DEF ReadPiece, ReaderInv, Right, Own
  <2>1. /\ place[q] = "verify" /\ Own(q) \notin shared /\ content'[file'[q]] = content[file[q]]
        /\ body[q] \in Content /\ offset[q] \in Nat
        /\ \A o \in 1..Size : o <= offset[q] => body[q][o] = content[file[q]][o]
    BY <1>3 DEF ReadPiece, ReaderInv, Own, StoreType
  <2>2. CASE q # r
    <3>1. body'[q] = body[q] /\ offset'[q] = offset[q]
      BY <1>3, <2>2 DEF ReadPiece, StoreType
    <3> QED
      BY <2>1, <3>1
  <2>3. CASE q = r
    <3>1. /\ offset'[r] = offset[r] + 1
          /\ body'[r] = [body[r] EXCEPT ![offset[r] + 1] = content[file[r]][offset[r] + 1]]
      BY <1>3 DEF ReadPiece, StoreType
    <3>2. ASSUME NEW o \in 1..Size, o <= offset[r] + 1
          PROVE  body'[r][o] = content[file[r]][o]
      <4>1. CASE o = offset[r] + 1
        BY <2>1, <2>3, <3>1, <4>1 DEF Content
      <4>2. CASE o # offset[r] + 1
        BY <2>1, <2>3, <3>1, <3>2, <4>2 DEF Content
      <4> QED
        BY <4>1, <4>2
    <3> QED
      BY <2>1, <2>3, <3>1, <3>2
  <2> QED
    BY <2>2, <2>3
<1>4. ASSUME NEW r \in Processes, Verified(r) PROVE ReaderInv'
  BY <1>4 DEF StoreType, Alone, ReaderInv, Own, Verified, Installed, GoTo, Closes
<1>5. ASSUME NEW r \in Processes, Mismatch(r) PROVE ReaderInv'
  BY <1>5 DEF StoreType, ReaderInv, Own, Mismatch, GoTo, Closes
<1>6. ASSUME NEW r \in Processes, EndOfBody(r) PROVE ReaderInv'
  BY <1>6 DEF ReaderInv, Own, EndOfBody, GoTo, Closes
<1>7. ASSUME NEW r \in Processes, Matches(r) PROVE ReaderInv'
  BY <1>7 DEF ReaderInv, Own, Matches, GoTo
<1>8. ASSUME NEW r \in Processes, DiscardDownload(r) PROVE ReaderInv'
  BY <1>8 DEF FileInv, ReaderInv, Own, DiscardDownload, GoTo
<1>9. ASSUME NEW r \in Processes, Remove(r) PROVE ReaderInv'
  <2>1. /\ path' = [path EXCEPT ![at[r]] = None] /\ place[r] = "publish" /\ at[r] \in 1..Assets
        /\ UNCHANGED <<content, temporary, download, at, file, offset, body, shared>>
        /\ download[r] /\ \A q \in Processes : place'[q] = "verify" => place[q] = "verify" /\ q # r
    BY <1>9 DEF Remove, GoTo, StoreType, Fetching, FileInv
  <2> SUFFICES ASSUME NEW q \in Processes, place'[q] = "verify"
               PROVE  /\ \A a \in 1..Assets : path'[a] = file[q] => a = at[q]
                      /\ Own(q) \notin shared =>
                           \/ path'[at[q]] = file[q]
                           \/ ~download[q] /\ content[file[q]] # Pinned[at[q]]
    BY <2>1 DEF ReaderInv, Own
  <2>2. place[q] = "verify" /\ q # r /\ file[q] # None
    BY <2>1 DEF FileInv
  <2>3. \A a \in 1..Assets : path'[a] = file[q] => path[a] = file[q]
    BY <2>1, <2>2 DEF StoreType
  <2>4. ASSUME Own(q) \notin shared, at[q] = at[r], path[at[q]] = file[q]
        PROVE  ~download[q] /\ content[file[q]] # Pinned[at[q]]
    <3>1. ~download[q]
      BY <2>1, <2>2, <2>4 DEF Alone, Downloads, Own, Fetching
    <3>2. ~Right(at[r])
      BY <2>1, <2>4 DEF DownloadInv, Own, Fetching
    <3> QED
      BY <2>2, <2>4, <3>1, <3>2 DEF Right
  <2>5. at[q] # at[r] => path'[at[q]] = path[at[q]]
    BY <2>1, <2>2 DEF StoreType, Fetching
  <2> QED
    BY <2>2, <2>3, <2>4, <2>5 DEF ReaderInv
<1>10. ASSUME NEW r \in Processes, Rename(r) PROVE ReaderInv'
  BY <1>10
     DEF Table, Alone, Downloads, FileInv, ReaderInv, DownloadInv, Right, Own, Fetching,
         Rename, Installed, GoTo
<1>11. ASSUME NEW r \in Processes, Save(r) PROVE ReaderInv'
  BY <1>11 DEF ReaderInv, Own, Save, GoTo
<1>12. ASSUME NEW r \in Processes, FinishDownload(r) PROVE ReaderInv'
  BY <1>12 DEF ReaderInv, Own, FinishDownload, GoTo
<1>13. ASSUME NEW r \in Processes, GiveUp(r) PROVE ReaderInv'
  BY <1>13 DEF StoreType, ReaderInv, Own, GiveUp, GoTo, Closes
<1>14. ASSUME NEW r \in Processes, NEW f \in Inodes, Create(r, f) PROVE ReaderInv'
  BY <1>14 DEF Table, StoreType, ReaderInv, Own, Fetching, Unused, Create, GoTo, Opens
<1>15. ASSUME NEW r \in Processes, NEW piece \in Pieces, Receive(r, piece) PROVE ReaderInv'
  BY <1>15 DEF WriterInv, ReaderInv, Own, Receive
<1>16. ASSUME UNCHANGED storeVars PROVE ReaderInv'
  BY <1>16 DEF ReaderInv, Own, storeVars, run
<1> QED
  BY <1>1, <1>2, <1>3, <1>4, <1>5, <1>6, <1>7, <1>8, <1>9, <1>10, <1>11, <1>12, <1>13,
     <1>14, <1>15, <1>16
     DEF StoreNext, Step

LEMMA DownloadStep ==
    ASSUME Table, StoreType, Apart, Alone, FileInv, WriterInv, ReaderInv, DownloadInv, [StoreNext]_storeVars
    PROVE  DownloadInv'
<1>1. ASSUME NEW r \in Processes, NEW downloads \in BOOLEAN, NEW asRead \in ModelLock,
             StartRun(r, downloads, asRead)
      PROVE  DownloadInv'
  BY <1>1 DEF DownloadInv, Right, Own, Fetching, StartRun, GoTo
<1>2. ASSUME NEW r \in Processes, TakeAsset(r) PROVE DownloadInv'
  BY <1>2 DEF StoreType, DownloadInv, Right, Own, Fetching, TakeAsset, GoTo, Opens
<1>3. ASSUME NEW r \in Processes, ReadPiece(r) PROVE DownloadInv'
  BY <1>3 DEF DownloadInv, Right, Own, ReadPiece
<1>4. ASSUME NEW r \in Processes, Verified(r) PROVE DownloadInv'
  <2>1. /\ UNCHANGED <<content, path, temporary, body, shared>>
        /\ \A q \in Processes : place'[q] \in Fetching =>
             place[q] = place'[q] /\ at'[q] = at[q] /\ file'[q] = file[q]
    BY <1>4 DEF Verified, Installed, GoTo, Closes, StoreType, Fetching
  <2> QED
    BY <2>1 DEF DownloadInv, Right, Own
<1>5. ASSUME NEW r \in Processes, Mismatch(r) PROVE DownloadInv'
  <2>1. /\ UNCHANGED <<content, path, temporary, body, shared, at>> /\ place' = [place EXCEPT ![r] = "request"]
        /\ place[r] = "verify" /\ file' = [file EXCEPT ![r] = None] /\ download[r]
        /\ body[r] # Pinned[at[r]] /\ offset[r] = Size /\ at[r] \in 1..Assets
    BY <1>5 DEF Mismatch, GoTo, Closes, StoreType, Fetching
  <2>2. ASSUME Own(r) \notin shared PROVE ~Right(at[r])
    <3>1. /\ path[at[r]] = file[r] /\ \A o \in 1..Size : body[r][o] = content[file[r]][o]
      BY <2>1, <2>2 DEF ReaderInv, Table
    <3>2. file[r] \in Inodes
      BY <2>1 DEF FileInv, StoreType
    <3>3. body[r] = content[file[r]]
      BY <3>1, <3>2, SameContent DEF StoreType
    <3> QED
      BY <2>1, <3>1, <3>3 DEF Right
  <2> SUFFICES ASSUME NEW q \in Processes, q # r, place'[q] \in Fetching
               PROVE  place'[q] = place[q] /\ file'[q] = file[q]
    BY <2>1, <2>2 DEF DownloadInv, Right, Own, StoreType, Fetching
  <2> QED
    BY <2>1 DEF StoreType
<1>6. ASSUME NEW r \in Processes, EndOfBody(r) PROVE DownloadInv'
  BY <1>6
     DEF StoreType, FileInv, WriterInv, DownloadInv, Right, Own, Fetching, EndOfBody, GoTo,
         Closes
<1>7. ASSUME NEW r \in Processes, Matches(r) PROVE DownloadInv'
  BY <1>7 DEF StoreType, DownloadInv, Right, Own, Matches, Fetching, GoTo
<1>8. ASSUME NEW r \in Processes, DiscardDownload(r) PROVE DownloadInv'
  BY <1>8
     DEF StoreType, Alone, Downloads, FileInv, DownloadInv, Right, Own, Fetching, DiscardDownload, GoTo
<1>9. ASSUME NEW r \in Processes, Remove(r) PROVE DownloadInv'
  BY <1>9 DEF DownloadInv, Right, Own, Fetching, Remove, GoTo
<1>10. ASSUME NEW r \in Processes, Rename(r) PROVE DownloadInv'
  <2>1. /\ UNCHANGED <<content, body, shared, file>> /\ place[r] = "rename" /\ download[r]
        /\ \A q \in Processes : place'[q] \in Fetching => place[q] = place'[q] /\ at'[q] = at[q] /\ q # r
        /\ path' = [path EXCEPT ![at[r]] = temporary[Own(r)]]
        /\ temporary' = [temporary EXCEPT ![Own(r)] = None]
    BY <1>10 DEF Rename, Installed, GoTo, StoreType, Fetching, FileInv, Own
  <2> SUFFICES ASSUME NEW q \in Processes, place'[q] \in Fetching \ {"verify"}, Own(q) \notin shared
               PROVE  path'[at[q]] = path[at[q]] /\ temporary'[Own(q)] = temporary[Own(q)]
    BY <2>1 DEF DownloadInv, Right, Own
  <2>2. Own(q) # Own(r)
    BY <2>1 DEF Alone, Downloads, FileInv, Fetching
  <2> QED
    BY <2>1, <2>2 DEF Own, StoreType, Fetching, Table
<1>11. ASSUME NEW r \in Processes, Save(r) PROVE DownloadInv'
  BY <1>11 DEF DownloadInv, Right, Own, Fetching, Save, GoTo
<1>12. ASSUME NEW r \in Processes, FinishDownload(r) PROVE DownloadInv'
  BY <1>12 DEF DownloadInv, Right, Own, Fetching, FinishDownload, GoTo
<1>13. ASSUME NEW r \in Processes, GiveUp(r) PROVE DownloadInv'
  BY <1>13 DEF StoreType, DownloadInv, Right, Own, Fetching, GiveUp, GoTo, Closes
<1>14. ASSUME NEW r \in Processes, NEW f \in Inodes, Create(r, f) PROVE DownloadInv'
  BY <1>14
     DEF Table, StoreType, Apart, Alone, Downloads, FileInv, WriterInv, DownloadInv, Right,
         Own, Fetching, Unused, Create, GoTo, Opens
<1>15. ASSUME NEW r \in Processes, NEW piece \in Pieces, Receive(r, piece) PROVE DownloadInv'
  <2>1. /\ UNCHANGED <<path, temporary, place, download, at, file, shared>> /\ place[r] = "receive"
        /\ file[r] \in Inodes /\ offset[r] + 1 \in 1..Size
        /\ content' = [content EXCEPT ![file[r]] = [content[file[r]] EXCEPT ![offset[r] + 1] = piece]]
        /\ body' = [body EXCEPT ![r] = [body[r] EXCEPT ![offset[r] + 1] = piece]]
    BY <1>15 DEF Receive, StoreType, FileInv, Table
  <2> SUFFICES ASSUME NEW q \in Processes, place[q] \in Fetching \ {"verify"}, Own(q) \notin shared
               PROVE  /\ ~Right(at[q])'
                      /\ place[q] = "receive" => content'[file[q]] = body'[q]
                      /\ place[q] \in {"check", "publish", "rename"} =>
                           /\ temporary[Own(q)] # None
                           /\ content'[temporary[Own(q)]] = body'[q]
                      /\ place[q] \in {"publish", "rename"} => body'[q] = Pinned[at[q]]
    BY <2>1 DEF DownloadInv, Own
  <2>2. ~Right(at[q])'
    <3>1. at[q] \in 1..Assets /\ path[at[q]] \in Inodes \cup {None}
      BY DEF StoreType, Fetching
    <3>2. path[at[q]] # file[r]
      BY <2>1, <3>1 DEF WriterInv, Own
    <3> QED
      BY <2>1, <3>1, <3>2 DEF DownloadInv, Right, StoreType
  <2>3. CASE q = r
    BY <2>1, <2>2, <2>3 DEF DownloadInv, StoreType
  <2>4. CASE q # r
    <3>1. place[q] = "receive" => file[q] # file[r] /\ file[q] \in Inodes
      BY <2>1, <2>4 DEF WriterInv, FileInv, StoreType
    <3>2. Own(q) # Own(r)
      BY <2>1, <2>4 DEF Alone, Downloads, FileInv, Fetching
    <3>3. Own(q) \in Temporaries
      BY DEF Own, StoreType, Fetching, Table
    <3>4. temporary[Own(q)] # file[r]
      BY <2>1, <3>2, <3>3 DEF WriterInv
    <3>5. body'[q] = body[q]
      BY <2>1, <2>4 DEF StoreType
    <3>6. temporary[Own(q)] # None => content'[temporary[Own(q)]] = content[temporary[Own(q)]]
      BY <2>1, <3>3, <3>4 DEF StoreType
    <3>7. place[q] = "receive" => content'[file[q]] = content[file[q]]
      BY <2>1, <3>1 DEF StoreType
    <3> QED
      BY <2>2, <3>5, <3>6, <3>7 DEF DownloadInv
  <2> QED
    BY <2>3, <2>4
<1>16. ASSUME UNCHANGED storeVars PROVE DownloadInv'
  BY <1>16 DEF DownloadInv, Right, Own, storeVars, run
<1> QED
  BY <1>1, <1>2, <1>3, <1>4, <1>5, <1>6, <1>7, <1>8, <1>9, <1>10, <1>11, <1>12, <1>13,
     <1>14, <1>15, <1>16
     DEF StoreNext, Step

LEMMA KnownStep ==
    ASSUME Table, StoreType, Apart, FileInv, WriterInv, ReaderInv, DownloadInv, KnownRight, [StoreNext]_storeVars
    PROVE  KnownRight'
<1>1. ASSUME NEW r \in Processes, NEW downloads \in BOOLEAN, NEW asRead \in ModelLock,
             StartRun(r, downloads, asRead)
      PROVE  KnownRight'
  BY <1>1 DEF KnownRight, Right, StartRun
<1>2. ASSUME NEW r \in Processes, TakeAsset(r) PROVE KnownRight'
  BY <1>2 DEF KnownRight, Right, TakeAsset
<1>3. ASSUME NEW r \in Processes, ReadPiece(r) PROVE KnownRight'
  BY <1>3 DEF KnownRight, Right, ReadPiece
<1>4. ASSUME NEW r \in Processes, Verified(r) PROVE KnownRight'
  <2>1. /\ UNCHANGED <<content, path, shared>> /\ known' = known \cup {at[r]}
        /\ place[r] = "verify" /\ body[r] = Pinned[at[r]] /\ offset[r] = Size
        /\ at[r] \in 1..Assets
    BY <1>4 DEF Verified, Installed, StoreType, Fetching
  <2>2. ASSUME Own(r) \notin shared PROVE Right(at[r])
    <3>1. file[r] \in Inodes
      BY <2>1 DEF FileInv, StoreType
    <3>2. \A o \in 1..Size : body[r][o] = content[file[r]][o]
      BY <2>1, <2>2 DEF ReaderInv, Table
    <3>3. body[r] = content[file[r]]
      BY <3>1, <3>2, SameContent DEF StoreType
    <3>4. path[at[r]] = file[r]
      BY <2>1, <2>2, <3>3 DEF ReaderInv
    <3> QED
      BY <2>1, <3>1, <3>3, <3>4 DEF Right, Table
  <2> QED
    BY <2>1, <2>2 DEF KnownRight, Right, Own
<1>5. ASSUME NEW r \in Processes, Mismatch(r) PROVE KnownRight'
  BY <1>5 DEF KnownRight, Right, Mismatch
<1>6. ASSUME NEW r \in Processes, EndOfBody(r) PROVE KnownRight'
  BY <1>6 DEF KnownRight, Right, EndOfBody
<1>7. ASSUME NEW r \in Processes, Matches(r) PROVE KnownRight'
  BY <1>7 DEF KnownRight, Right, Matches
<1>8. ASSUME NEW r \in Processes, DiscardDownload(r) PROVE KnownRight'
  BY <1>8 DEF KnownRight, Right, DiscardDownload
<1>9. ASSUME NEW r \in Processes, Remove(r) PROVE KnownRight'
  BY <1>9
     DEF FileInv, WriterInv, ReaderInv, DownloadInv, KnownRight, Right, Own, Fetching,
         Remove
<1>10. ASSUME NEW r \in Processes, Rename(r) PROVE KnownRight'
  <2>1. /\ UNCHANGED <<content, shared>> /\ known' = known \cup {at[r]}
        /\ place[r] = "rename" /\ at[r] \in 1..Assets /\ temporary[Own(r)] # None
        /\ path' = [path EXCEPT ![at[r]] = temporary[Own(r)]]
    BY <1>10 DEF Rename, Installed, StoreType, Fetching, Own
  <2>2. ASSUME Own(r) \notin shared PROVE content[temporary[Own(r)]] = Pinned[at[r]]
    BY <2>1, <2>2 DEF DownloadInv, Fetching
  <2>3. \A a \in 1..Assets : a # at[r] => path'[a] = path[a]
    BY <2>1 DEF StoreType
  <2>4. path'[at[r]] = temporary[Own(r)]
    BY <2>1 DEF StoreType
  <2> SUFFICES ASSUME NEW a \in known', Temporary[a] \notin shared PROVE Right(a)'
    BY <2>1 DEF KnownRight
  <2>5. CASE a = at[r]
    BY <2>1, <2>2, <2>4, <2>5 DEF Right, Own
  <2>6. CASE a # at[r]
    BY <2>1, <2>3, <2>6 DEF KnownRight, Right, StoreType
  <2> QED
    BY <2>5, <2>6
<1>11. ASSUME NEW r \in Processes, Save(r) PROVE KnownRight'
  BY <1>11 DEF KnownRight, Right, Save
<1>12. ASSUME NEW r \in Processes, FinishDownload(r) PROVE KnownRight'
  BY <1>12 DEF KnownRight, Right, FinishDownload
<1>13. ASSUME NEW r \in Processes, GiveUp(r) PROVE KnownRight'
  BY <1>13 DEF KnownRight, Right, GiveUp
<1>14. ASSUME NEW r \in Processes, NEW f \in Inodes, Create(r, f) PROVE KnownRight'
  BY <1>14 DEF Table, StoreType, Apart, KnownRight, Right, Fetching, Unused, Create
<1>15. ASSUME NEW r \in Processes, NEW piece \in Pieces, Receive(r, piece) PROVE KnownRight'
  BY <1>15 DEF StoreType, WriterInv, KnownRight, Right, Receive
<1>16. ASSUME UNCHANGED storeVars PROVE KnownRight'
  BY <1>16 DEF KnownRight, Right, storeVars, run
<1> QED
  BY <1>1, <1>2, <1>3, <1>4, <1>5, <1>6, <1>7, <1>8, <1>9, <1>10, <1>11, <1>12, <1>13,
     <1>14, <1>15, <1>16
     DEF StoreNext, Step

LEMMA ReadyStep ==
    ASSUME Table, StoreType, ReadyInv, [StoreNext]_storeVars
    PROVE  ReadyInv'
<1>1. ASSUME NEW r \in Processes, NEW downloads \in BOOLEAN, NEW asRead \in ModelLock,
             StartRun(r, downloads, asRead)
      PROVE  ReadyInv'
  BY <1>1 DEF StoreType, ReadyInv, StartRun, GoTo
<1>2. ASSUME NEW r \in Processes, TakeAsset(r) PROVE ReadyInv'
  BY <1>2 DEF StoreType, ReadyInv, TakeAsset, GoTo
<1>3. ASSUME NEW r \in Processes, ReadPiece(r) PROVE ReadyInv'
  BY <1>3 DEF ReadyInv, ReadPiece
<1>4. ASSUME NEW r \in Processes, Verified(r) PROVE ReadyInv'
  BY <1>4 DEF StoreType, ReadyInv, Verified, Installed, GoTo
<1>5. ASSUME NEW r \in Processes, Mismatch(r) PROVE ReadyInv'
  BY <1>5 DEF ReadyInv, Mismatch, GoTo
<1>6. ASSUME NEW r \in Processes, EndOfBody(r) PROVE ReadyInv'
  BY <1>6 DEF ReadyInv, EndOfBody, GoTo
<1>7. ASSUME NEW r \in Processes, Matches(r) PROVE ReadyInv'
  BY <1>7 DEF ReadyInv, Matches, GoTo
<1>8. ASSUME NEW r \in Processes, DiscardDownload(r) PROVE ReadyInv'
  BY <1>8 DEF ReadyInv, DiscardDownload, GoTo
<1>9. ASSUME NEW r \in Processes, Remove(r) PROVE ReadyInv'
  BY <1>9 DEF ReadyInv, Remove, GoTo
<1>10. ASSUME NEW r \in Processes, Rename(r) PROVE ReadyInv'
  BY <1>10 DEF StoreType, ReadyInv, Rename, Installed, GoTo
<1>11. ASSUME NEW r \in Processes, Save(r) PROVE ReadyInv'
  BY <1>11 DEF ReadyInv, Save, GoTo
<1>12. ASSUME NEW r \in Processes, FinishDownload(r) PROVE ReadyInv'
  BY <1>12 DEF ReadyInv, FinishDownload, GoTo
<1>13. ASSUME NEW r \in Processes, GiveUp(r) PROVE ReadyInv'
  BY <1>13 DEF ReadyInv, GiveUp, GoTo
<1>14. ASSUME NEW r \in Processes, NEW f \in Inodes, Create(r, f) PROVE ReadyInv'
  BY <1>14 DEF ReadyInv, Create, GoTo
<1>15. ASSUME NEW r \in Processes, NEW piece \in Pieces, Receive(r, piece) PROVE ReadyInv'
  BY <1>15 DEF ReadyInv, Receive
<1>16. ASSUME UNCHANGED storeVars PROVE ReadyInv'
  BY <1>16 DEF ReadyInv, storeVars, run
<1> QED
  BY <1>1, <1>2, <1>3, <1>4, <1>5, <1>6, <1>7, <1>8, <1>9, <1>10, <1>11, <1>12, <1>13,
     <1>14, <1>15, <1>16
     DEF StoreNext, Step

LEMMA Initially == Table /\ StoreInit => StoreIInv
  BY
     DEF Table, StoreInit, StoreIInv, StoreType, Alone, FileInv, WriterInv, ReaderInv,
         DownloadInv,
         KnownRight, ReadyInv, Downloads, Fetching, Content, Empty

LEMMA StoreInvariance == ASSUME Table PROVE StoreSpec => []StoreIInv
<1>1. StoreInit => StoreIInv
  BY Initially
<1>2. StoreIInv /\ [StoreNext]_storeVars => StoreIInv'
  BY StoreTypeStep, ApartStep, AloneStep, FileStep, WriterStep, ReaderStep, DownloadStep,
     KnownStep, ReadyStep DEF StoreIInv
<1> QED
  BY <1>1, <1>2, PTL DEF StoreSpec

-----------------------------------------------------------------------------
(* Files, paths, the lock and the state of every run have their shapes.    *)
THEOREM StoreTypeCorrect == ASSUME Table PROVE StoreSpec => []StoreType
<1>1. StoreSpec => []StoreIInv
  BY StoreInvariance
<1> QED
  BY <1>1, PTL DEF StoreIInv

(* A model that was verified or installed once stays the pinned one,       *)
(* whatever further downloads do, unless two of them were at one temporary *)
(* path together (ensure_model).                                           *)
THEOREM ModelsStayRight == ASSUME Table PROVE StoreSpec => []KnownRight
<1>1. StoreSpec => []StoreIInv
  BY StoreInvariance
<1> QED
  BY <1>1, PTL DEF StoreIInv

(* An extraction runs its models only after all of them were compared with *)
(* the table, and they still agree with it (ensure).                       *)
THEOREM ExtractionsUsePinned == ASSUME Table PROVE StoreSpec => []ReadyRight
<1>1. ASSUME StoreIInv PROVE ReadyRight
  <2> SUFFICES ASSUME NEW r \in Processes, place[r] = "ready", NEW a \in 1..Assets,
                      Temporary[a] \notin shared
               PROVE  Right(a)
    BY DEF ReadyRight
  <2>1. at[r] = Assets + 1
    BY <1>1 DEF StoreIInv, ReadyInv
  <2>2. a < at[r]
    BY <2>1 DEF Table
  <2>3. a \in known
    BY <1>1, <2>2 DEF StoreIInv, ReadyInv
  <2> QED
    BY <1>1, <2>3 DEF StoreIInv, KnownRight
<1>2. StoreSpec => []StoreIInv
  BY StoreInvariance
<1> QED
  BY <1>1, <1>2, PTL

-----------------------------------------------------------------------------
(* What comes into the library: LibraryImports.                            *)

Places == {"idle", "chosen", "created", "named", "copied", "locked", "written", "made",
           "linked", "over"}
DirType == [files : SUBSET Files, id : Ids \cup {NoMeta, Absent}, filed : BOOLEAN]
JobType == [todo : SUBSET Names, cat : {"none", "candidate", "stale"}, scan : BOOLEAN,
            dir : Names, id : Ids \cup {NoMeta}, merge : BOOLEAN]

(* The types, by who writes what they are of.                              *)
AllType == all \in [Names -> DirType]
LibraryType ==
    /\ folder \in DirType
    /\ links \subseteq Names \X Names /\ manifest \subseteq Ids
    /\ index \subseteq Ids \X Names
CallsType ==
    /\ pc \in [Imports -> Places]
    /\ dir \in [Files -> Names] /\ filename \in [Files -> Names]
UpkeepType == job \in JobType
HistoryType ==
    /\ given \subseteq Files /\ merged \subseteq Files /\ met \subseteq Names
    /\ rounds \in Nat /\ crashes \in Nat
TypeInv ==
    AllType /\ LibraryType /\ CallsType /\ UpkeepType /\ HistoryType /\ locks \subseteq Ids

(* A scan or an adoption is still at the directories under All/.            *)
Adopting == step \in {"adopting", "checked", "describing"}

(* What the upkeep has decided still holds: a folder it is to move or to   *)
(* replace is there, a directory it is to file too, and only a copy of the *)
(* item at the title is merged.                                            *)
JobInv ==
    /\ step \in {"normalizing", "planned", "moving", "replacing"} => Exists(folder)
    /\ Adopting /\ job.cat # "none" => Exists(folder)
    /\ ((Adopting /\ job.cat = "stale") \/ step = "replacing") => Exists(all[Title])
    /\ step \in {"titling", "linking", "filing"} => folder = NoDir /\ Exists(all[job.dir])
    /\ step = "moving" => job.id = FolderId
    /\ step = "titling" => job.id = DirId(job.dir)
    /\ step \in {"planned", "moving"} /\ job.merge =>
          folder.id = ItemIdOf /\ job.dir = Title
    /\ step \in {"planned", "moving"} /\ folder.id = ItemIdOf => job.merge

(* Where an id can be: an item of an import in the directory it took, an   *)
(* id made of a name in the directory of that name, the user's item at the *)
(* title, and the id of the folder from elsewhere once.                    *)
IdInv ==
    /\ \A n \in Names : \/ all[n].id \in {NoMeta, Absent, DirId(n), Elsewhere}
                         \/ (all[n].id = ItemIdOf /\ n = Title)
                         \/ (\E c \in Imports :
                               all[n].id = ImportId(c) /\ dir[c] = n /\ pc[c] # "idle")
    /\ \A n, m \in Names : all[n].id = Elsewhere /\ all[m].id = Elsewhere => n = m
    /\ \A l \in index : l[1] = ItemIdOf => l[2] = Title

(* The folder under the category is the user's: what has its id, and that  *)
(* no import or adoption works on the item it is a copy of.                *)
FolderInv ==
    /\ folder.files \subseteq {"yours"} /\ folder.filed = FALSE
    /\ folder.id \in {NoMeta, Absent, ItemIdOf, Elsewhere}
    /\ ~Exists(folder) => folder = NoDir
    /\ folder.id = Elsewhere => /\ \A n \in Names : all[n].id # Elsewhere
                               /\ \A l \in index : l[1] # Elsewhere
    /\ folder.id = ItemIdOf =>
          /\ all[Title].id = ItemIdOf /\ <<ItemIdOf, Title>> \in index
          /\ \A c \in Imports : pc[c] # "idle" => dir[c] # Title
          /\ step \in {"checked", "describing"} => job.dir # Title

(* A name under the category belongs to one junction or to the folder, and *)
(* a junction leads to a directory and has its name or that of the folder. *)
LinkInv ==
    /\ \A l, k \in links : l[1] = k[1] => l = k
    /\ Exists(folder) => \A l \in links : l[1] # Title
    /\ \A l \in links : Exists(all[l[2]])
    /\ \A l \in links : l[1] = l[2] \/ l[1] = Title

(* An import has made its directory, or joined the one that had come.      *)
Made(c) ==
    \/ c \in given
    \/ pc[c] \in {"created", "named", "copied", "locked", "written", "made", "linked"}

(* An import that has made its directory keeps it, alone or with what it   *)
(* met there; its file is in no other directory, and those of the user are *)
(* where he put them or where the folder went.                             *)
HomeInv ==
    /\ \A n \in Names : ~Exists(all[n]) => all[n].files = {}
    /\ \A c \in Imports : Made(c) => pc[c] # "idle" /\ Exists(all[dir[c]])
    /\ \A c, d \in Imports : Made(c) /\ Made(d) /\ dir[c] = dir[d] => (c = d \/ dir[c] \in met)
    /\ \A n \in Names : \A f \in all[n].files : f \in given /\ dir[f] = n
    /\ folder.files \subseteq given /\ \A n \in Names : folder.files \cap all[n].files = {}
    /\ \A c \in Imports : c \in given => pc[c] \notin {"idle", "chosen", "created", "named"}
    /\ \A c \in Imports : Made(c) /\ "yours" \in all[dir[c]].files => dir[c] \in met

(* No import takes the directory that the user made under All/.            *)
MineInv == "mine" \in given =>
    /\ "mine" \in all[Title].files
    /\ \A c \in Imports : pc[c] # "idle" => dir[c] # Title

(* A scan that nothing disturbs: what is not managed is what it has still  *)
(* to adopt, then nothing but the directory it is moving; a folder with    *)
(* files is one it still has to normalize; the index is that of the last   *)
(* rebuild.                                                                *)
ScanInv == alone =>
    /\ job.scan /\ step # "idle"
    /\ Adopting => Unmanaged = job.todo /\ (job.cat # "candidate" => folder.files = {})
    /\ step \in {"checked", "describing"} => job.dir \in job.todo
    /\ ~Adopting => Unmanaged \subseteq (IF step = "titling" THEN {job.dir} ELSE {})
    /\ step \in {"replacing", "reconciling", "titling", "linking", "filing", "indexing"} =>
          folder.files = {}
    /\ step \in {"replacing", "reconciling"} => index = Rebuilt

ImportsInv ==
    /\ TypeInv /\ JobInv /\ IdInv /\ FolderInv /\ LinkInv /\ HomeInv /\ MineInv /\ ScanInv
    /\ FilesSurvive

-----------------------------------------------------------------------------
(* Ids, directories and jobs.                                              *)

(* What the ids are.                                                       *)
LEMMA IdsAre ==
    /\ NoMeta \notin Ids /\ Absent \notin Ids /\ NoMeta # Absent
    /\ ItemIdOf \in Ids /\ Elsewhere \in Ids /\ ItemIdOf # Elsewhere
    /\ \A n \in Names : DirId(n) \in Ids /\ DirId(n) # ItemIdOf /\ DirId(n) # Elsewhere
    /\ \A c \in Imports :
          ImportId(c) \in Ids /\ ImportId(c) # ItemIdOf /\ ImportId(c) # Elsewhere
    /\ \A c \in Imports, n \in Names : ImportId(c) # DirId(n)
    /\ \A n, m \in Names : DirId(n) = DirId(m) => n = m
    /\ \A c, d \in Imports : ImportId(c) = ImportId(d) => c = d
BY DEF Ids, NoMeta, Absent, ItemIdOf, Elsewhere, DirId, ImportId

(* The title is a name.                                                    *)
LEMMA TitleIs == Title \in Names
BY BoundsAssumption DEF Title, Names

(* Records made by Dir are directories.                                    *)
LEMMA DirIs ==
    ASSUME NEW fs \in SUBSET Files, NEW i \in Ids \cup {NoMeta, Absent}, NEW fl \in BOOLEAN
    PROVE  /\ Dir(fs, i, fl) \in DirType
           /\ Dir(fs, i, fl).files = fs /\ Dir(fs, i, fl).id = i
           /\ Dir(fs, i, fl).filed = fl
BY DEF Dir, DirType

(* What there is where there is no directory.                              *)
LEMMA NoDirIs ==
    /\ NoDir \in DirType /\ ~Exists(NoDir) /\ NoDir.files = {} /\ NoDir.filed = FALSE
<1>1. {} \in SUBSET Files /\ Absent \in Ids \cup {NoMeta, Absent} /\ FALSE \in BOOLEAN
  OBVIOUS
<1>2. /\ NoDir \in DirType /\ NoDir.files = {} /\ NoDir.id = Absent /\ NoDir.filed = FALSE
  BY <1>1, DirIs DEF NoDir
<1> QED
  BY <1>2 DEF Exists

(* The files and ids of the directories, after one of them was written.    *)
Put(a, b, n, fs, i) ==
    /\ b \in [Names -> DirType]
    /\ \A m \in Names : /\ b[m].files = IF m = n THEN fs ELSE a[m].files
                        /\ b[m].id = IF m = n THEN i ELSE a[m].id

(* A directory written over another.                                       *)
LEMMA Putting ==
    ASSUME NEW a \in [Names -> DirType], NEW n \in Names, NEW d \in DirType
    PROVE  Put(a, [a EXCEPT ![n] = d], n, d.files, d.id)
BY DEF Put

(* The parts of a directory.                                               *)
LEMMA DirFields ==
    ASSUME NEW d \in DirType
    PROVE  /\ d.files \in SUBSET Files
           /\ d.id \in Ids \cup {NoMeta, Absent}
           /\ d.filed \in BOOLEAN
           /\ [d EXCEPT !.filed = TRUE] \in DirType
           /\ [d EXCEPT !.filed = TRUE].files = d.files
           /\ [d EXCEPT !.filed = TRUE].id = d.id
BY DEF DirType

(* What the steps of an import write into its directory.                   *)
LEMMA ImportPuts ==
    ASSUME TypeInv, NEW c \in Imports
    PROVE  /\ CreateDir(c) => \/ /\ UNCHANGED all /\ Exists(all[dir[c]])
                                 /\ met' = met \cup {dir[c]}
                              \/ /\ Put(all, all', dir[c], {}, NoMeta)
                                 /\ ~Exists(all[dir[c]]) /\ UNCHANGED met
           /\ WriteAttachments(c) \/ CopyFile(c) =>
                 Put(all, all', dir[c], Holding(all[dir[c]].files, c), all[dir[c]].id)
           /\ WriteItem(c) => Put(all, all', dir[c], all[dir[c]].files, ImportId(c))
           /\ WriteFileItem(c) => Put(all, all', dir[c], all[dir[c]].files, DirId(dir[c]))
<1> DEFINE n == dir[c]
<1>1. /\ all \in [Names -> DirType] /\ n \in Names /\ c \in Files /\ {} \in SUBSET Files
      /\ all[n] \in DirType
  BY DEF TypeInv, CallsType, Files, AllType
<1>2. /\ all[n].files \in SUBSET Files /\ all[n].id \in Ids \cup {NoMeta, Absent}
      /\ all[n].filed \in BOOLEAN
  BY <1>1, DirFields
<1>3. ASSUME CreateDir(c)
      PROVE  \/ UNCHANGED all /\ Exists(all[n]) /\ met' = met \cup {n}
             \/ Put(all, all', n, {}, NoMeta) /\ ~Exists(all[n]) /\ UNCHANGED met
  <2>1. CASE Exists(all[n])
    BY <1>3, <2>1 DEF CreateDir
  <2>2. CASE ~Exists(all[n])
    <3> DEFINE d == Dir({}, NoMeta, FALSE)
    <3>1. d \in DirType /\ d.files = {} /\ d.id = NoMeta
      BY <1>1 DEF Dir, DirType
    <3>2. all' = [all EXCEPT ![n] = d] /\ UNCHANGED met
      BY <1>3, <2>2 DEF CreateDir
    <3> HIDE DEF d
    <3>3. Put(all, all', n, d.files, d.id)
      BY <1>1, <3>1, <3>2, Putting
    <3> QED
      BY <2>2, <3>1, <3>2, <3>3
  <2> QED
    BY <2>1, <2>2
<1>4. ASSUME WriteAttachments(c) \/ CopyFile(c)
      PROVE  Put(all, all', n, Holding(all[n].files, c), all[n].id)
  <2> DEFINE fs == Holding(all[n].files, c)
             d == [all[n] EXCEPT !.files = fs]
  <2>1. fs \in SUBSET Files
    BY <1>1, <1>2 DEF Holding
  <2>2. all' = [all EXCEPT ![n] = d]
    BY <1>4 DEF WriteAttachments, CopyFile
  <2> HIDE DEF fs
  <2>3. d \in DirType /\ d.files = fs /\ d.id = all[n].id
    BY <1>1, <2>1 DEF DirType
  <2> HIDE DEF d
  <2>4. Put(all, all', n, d.files, d.id)
    BY <1>1, <2>2, <2>3, Putting
  <2>5. Put(all, all', n, fs, all[n].id)
    BY <2>3, <2>4
  <2> QED
    BY <2>5 DEF fs
<1>6. ASSUME WriteItem(c) PROVE Put(all, all', n, all[n].files, ImportId(c))
  <2> DEFINE d == Dir(all[n].files, ImportId(c), TRUE)
  <2>1. d \in DirType /\ d.files = all[n].files /\ d.id = ImportId(c)
    BY <1>2, IdsAre DEF Dir, DirType
  <2>2. all' = [all EXCEPT ![n] = d]
    BY <1>6 DEF WriteItem
  <2> HIDE DEF d
  <2>3. Put(all, all', n, d.files, d.id)
    BY <1>1, <2>1, <2>2, Putting
  <2> QED
    BY <2>1, <2>3
<1>7. ASSUME WriteFileItem(c) PROVE Put(all, all', n, all[n].files, DirId(n))
  <2> DEFINE d == Dir(all[n].files, DirId(n), FALSE)
  <2>1. d \in DirType /\ d.files = all[n].files /\ d.id = DirId(n)
    BY <1>1, <1>2, IdsAre DEF Dir, DirType
  <2>2. all' = [all EXCEPT ![n] = d]
    BY <1>7 DEF WriteFileItem
  <2> HIDE DEF d
  <2>3. Put(all, all', n, d.files, d.id)
    BY <1>1, <2>1, <2>2, Putting
  <2> QED
    BY <2>1, <2>3
<1> QED
  BY <1>3, <1>4, <1>6, <1>7

(* What those of the upkeep write into the directory they are at.          *)
LEMMA UpkeepPuts ==
    ASSUME TypeInv
    PROVE  /\ WriteAdopted => Put(all, all', job.dir, all[job.dir].files, DirId(job.dir))
           /\ MoveFolder => Put(all, all', job.dir, folder.files, folder.id)
           /\ WriteTitle => Put(all, all', job.dir, all[job.dir].files, job.id)
           /\ FileFolder => Put(all, all', job.dir, all[job.dir].files, all[job.dir].id)
<1> DEFINE n == job.dir
<1>1. /\ all \in [Names -> DirType] /\ n \in Names /\ job.id \in Ids \cup {NoMeta}
      /\ all[n] \in DirType /\ folder \in DirType
  BY DEF TypeInv, UpkeepType, JobType, AllType, LibraryType
<1>2. all[n].files \in SUBSET Files
  BY <1>1, DirFields
<1>3. ASSUME WriteAdopted PROVE Put(all, all', n, all[n].files, DirId(n))
  <2> DEFINE d == Dir(all[n].files, DirId(n), FALSE)
  <2>1. d \in DirType /\ d.files = all[n].files /\ d.id = DirId(n)
    BY <1>1, <1>2, IdsAre DEF Dir, DirType
  <2>2. all' = [all EXCEPT ![n] = d]
    BY <1>3 DEF WriteAdopted
  <2> HIDE DEF d
  <2>3. Put(all, all', n, d.files, d.id)
    BY <1>1, <2>1, <2>2, Putting
  <2> QED
    BY <2>1, <2>3
<1>4. ASSUME MoveFolder PROVE Put(all, all', n, folder.files, folder.id)
  BY <1>1, <1>4, Putting DEF MoveFolder
<1>5. ASSUME WriteTitle PROVE Put(all, all', n, all[n].files, job.id)
  <2> DEFINE d == Dir(all[n].files, job.id, FALSE)
  <2>1. d \in DirType /\ d.files = all[n].files /\ d.id = job.id
    BY <1>1, <1>2 DEF Dir, DirType
  <2>2. all' = [all EXCEPT ![n] = d]
    BY <1>5 DEF WriteTitle
  <2> HIDE DEF d
  <2>3. Put(all, all', n, d.files, d.id)
    BY <1>1, <2>1, <2>2, Putting
  <2> QED
    BY <2>1, <2>3
<1>6. ASSUME FileFolder PROVE Put(all, all', n, all[n].files, all[n].id)
  <2> DEFINE d == [all[n] EXCEPT !.filed = TRUE]
  <2>1. d \in DirType /\ d.files = all[n].files /\ d.id = all[n].id
    BY <1>1, DirFields
  <2>2. all' = [all EXCEPT ![n] = d]
    BY <1>6 DEF FileFolder
  <2> HIDE DEF d
  <2>3. Put(all, all', n, d.files, d.id)
    BY <1>1, <2>1, <2>2, Putting
  <2> QED
    BY <2>1, <2>3
<1> QED
  BY <1>3, <1>4, <1>5, <1>6

(* What a reconciliation makes of the directories.                         *)
LEMMA ProjectsIs ==
    ASSUME TypeInv, NEW some, Projects(some)
    PROVE  /\ all' \in [Names -> DirType]
           /\ \A m \in Names :
                 /\ all[m].files' = all[m].files /\ all[m].id' = all[m].id
                 /\ m \in some \cap ToFile => all[m].filed' = TRUE
                 /\ m \notin some \cap ToFile => all[m].filed' = all[m].filed
<1>1. ASSUME NEW m \in Names
      PROVE  all'[m] = IF m \in some \cap ToFile
                       THEN [all[m] EXCEPT !.filed = TRUE] ELSE all[m]
  BY DEF Projects
<1>2. ASSUME NEW m \in Names
      PROVE  /\ all'[m] \in DirType
             /\ all[m].files' = all[m].files /\ all[m].id' = all[m].id
             /\ m \in some \cap ToFile => all[m].filed' = TRUE
             /\ m \notin some \cap ToFile => all[m].filed' = all[m].filed
  <2> DEFINE d == all[m]
  <2>1. d \in DirType
    BY DEF TypeInv, AllType
  <2> HIDE DEF d
  <2>2. all'[m] = IF m \in some \cap ToFile THEN [d EXCEPT !.filed = TRUE] ELSE d
    BY <1>1 DEF d
  <2>3. CASE m \in some \cap ToFile
    BY <2>1, <2>2, <2>3 DEF d, DirType
  <2>4. CASE m \notin some \cap ToFile
    BY <2>1, <2>2, <2>4 DEF d
  <2> QED
    BY <2>3, <2>4
<1>3. all' \in [Names -> DirType]
  BY <1>2 DEF AllType, Projects
<1> QED
  BY <1>2, <1>3

-----------------------------------------------------------------------------
(* The steps of an import, of the upkeep, and those that end it in failure.*)

ImportMove(c) ==
    \/ Choose(c) \/ CreateDir(c) \/ PickName(c) \/ WriteAttachments(c) \/ CopyFile(c)
    \/ LockFile(c) \/ LockFileFails(c) \/ WriteItem(c) \/ WriteFileItem(c)
    \/ LinkItem(c) \/ LinkItemFails(c) \/ Finish(c) \/ FinishFile(c)
Failures ==
    \/ CheckFails \/ LockAdoptedFails
    \/ LockFolderFails \/ MoveFolderFails \/ LinkFolderFails
UpkeepMove ==
    \/ \E n \in Names : StartAdoption(n) \/ CheckUnmanaged(n)
    \/ StartNormalization \/ StartScan
    \/ LockAdopted \/ WriteAdopted \/ RebuildAdopted
    \/ Plan \/ LockFolder \/ RemoveCopy \/ MoveFolder
    \/ WriteTitle \/ LinkFolder \/ FileFolder
    \/ RebuildIndex \/ ReplaceStale \/ Reconcile \/ ReconcileFails
    \/ Failures

(* The steps, by who takes them.                                           *)
LEMMA Moves == Next <=> (\E c \in Imports : ImportMove(c)) \/ UpkeepMove \/ Crash
BY DEF Next, ImportMove, UpkeepMove, Failures

(* What an import leaves alone.                                            *)
LEMMA ImportLeaves ==
    ASSUME NEW c \in Imports, ImportMove(c)
    PROVE  /\ UNCHANGED <<kind, folder, merged, step, job, rounds, crashes>>
           /\ alone' = FALSE
           /\ \E to \in Places \ {"idle"} : pc' = [pc EXCEPT ![c] = to]
           /\ Choose(c) \/ UNCHANGED dir
           /\ PickName(c) \/ UNCHANGED filename
           /\ CopyFile(c) \/ WriteAttachments(c) \/ UNCHANGED given
           /\ CreateDir(c) \/ UNCHANGED met
           /\ \/ CreateDir(c) \/ WriteAttachments(c) \/ CopyFile(c) \/ WriteItem(c)
              \/ WriteFileItem(c) \/ UNCHANGED all
           /\ LinkItem(c) \/ UNCHANGED links
           /\ UNCHANGED index \/ (index' = Rebuilt /\ UNCHANGED all)
BY DEF ImportMove, Choose, CreateDir, PickName, WriteAttachments, CopyFile, LockFile, LockFileFails,
       WriteItem, WriteFileItem, LinkItem, LinkItemFails, Finish, FinishFile, ImportStep, upkeep,
       Places

(* What an adoption, a normalization and a scan leave alone.               *)
LEMMA UpkeepLeaves ==
    ASSUME UpkeepMove
    PROVE  /\ UNCHANGED <<kind, pc, filename, given, crashes>>
           /\ MoveFolder \/ UNCHANGED <<dir, met>>
           /\ RemoveCopy \/ MoveFolder \/ ReplaceStale \/ UNCHANGED folder
           /\ RemoveCopy \/ UNCHANGED merged
           /\ \/ WriteAdopted \/ MoveFolder \/ WriteTitle \/ FileFolder \/ Reconcile
              \/ ReconcileFails \/ UNCHANGED all
           /\ LinkFolder \/ ReplaceStale \/ Reconcile \/ ReconcileFails \/ UNCHANGED links
           /\ \/ UNCHANGED index
              \/ Reconcile \/ ReconcileFails \/ (index' = Rebuilt /\ UNCHANGED all)
BY DEF UpkeepMove, StartAdoption, CheckUnmanaged, StartNormalization, StartScan, Failures,
       CheckFails, LockAdopted, LockAdoptedFails, WriteAdopted, RebuildAdopted, Plan, LockFolder,
       LockFolderFails, RemoveCopy, MoveFolder, MoveFolderFails, WriteTitle, LinkFolder,
       LinkFolderFails, FileFolder, RebuildIndex, ReplaceStale, Reconcile, ReconcileFails,
       Fails, Starts, UpkeepStep, library

(* What a failure of the upkeep leaves alone.                              *)
LEMMA FailuresIs ==
    ASSUME Failures
    PROVE  /\ step' = "idle" /\ job' = NoJob /\ alone' = FALSE /\ locks' \subseteq locks
           /\ UNCHANGED <<all, folder, links, manifest, index, rounds, merged>>
BY
   DEF Failures, CheckFails, LockAdoptedFails, LockFolderFails, MoveFolderFails,
       LinkFolderFails,
       Fails, UpkeepStep, library

(* What a rebuild of the index finds.                                      *)
LEMMA RebuiltIs ==
    ASSUME AllType
    PROVE  /\ Rebuilt \subseteq Ids \X Names
           /\ \A l \in Rebuilt : l[2] \in Names /\ l[1] = all[l[2]].id /\ l[1] \in Ids
           /\ \A n \in Names : all[n].id \in Ids => <<all[n].id, n>> \in Rebuilt
BY DEF Rebuilt, ManagedNames, Managed

(* The parts of the job.                                                   *)
LEMMA JobIs ==
    ASSUME UpkeepType
    PROVE  /\ job.todo \subseteq Names /\ job.cat \in {"none", "candidate", "stale"}
           /\ job.scan \in BOOLEAN /\ job.dir \in Names /\ job.id \in Ids \cup {NoMeta}
           /\ job.merge \in BOOLEAN
BY DEF UpkeepType, JobType

(* The parts of the job there is when there is none.                       *)
LEMMA NoJobIs ==
    /\ NoJob \in JobType /\ NoJob.todo = {} /\ NoJob.cat = "none" /\ NoJob.scan = FALSE
    /\ NoJob.merge = FALSE /\ NoJob.id = NoMeta
BY TitleIs DEF NoJob, JobType

(* The folder that is there has an id or is given one.                     *)
LEMMA FolderIdIs ==
    ASSUME TypeInv, Exists(folder)
    PROVE  FolderId \in Ids
BY JobIs, IdsAre, DirFields DEF FolderId, TypeInv, LibraryType, Exists

(* The job keeps its type.                                                 *)
LEMMA JobStep == ASSUME TypeInv, JobInv, UpkeepMove PROVE UpkeepType'
<1>1. job \in JobType /\ job.id \in Ids \cup {NoMeta} /\ job.dir \in Names
  BY JobIs DEF TypeInv, UpkeepType
<1>2. ASSUME NEW n \in Names, StartAdoption(n) \/ CheckUnmanaged(n) PROVE job' \in JobType
  BY <1>1, <1>2, NoJobIs DEF StartAdoption, CheckUnmanaged, Starts, JobType
<1>3. CASE StartNormalization
  BY <1>3, NoJobIs DEF StartNormalization, Starts, UpkeepType
<1>4. CASE StartScan
  <2>1. FolderKind \in {"none", "candidate", "stale"} /\ Unmanaged \subseteq Names
    BY DEF FolderKind, Unmanaged
  <2> QED
    BY <1>4, <2>1, NoJobIs DEF StartScan, Starts, UpkeepType, JobType
<1>5. CASE LockAdopted
  BY <1>1, <1>5, IdsAre DEF LockAdopted, UpkeepType, JobType
<1>6. CASE WriteAdopted
  BY <1>1, <1>6 DEF WriteAdopted, UpkeepType, JobType
<1>7. CASE Plan
  BY <1>1, <1>7 DEF Plan, UpkeepType, JobType
<1>8. CASE LockFolder
  BY <1>1, <1>8, FolderIdIs DEF LockFolder, UpkeepStep, JobInv, UpkeepType, JobType
<1>9. CASE RebuildIndex
  BY <1>1, <1>9, NoJobIs DEF RebuildIndex, UpkeepType, JobType
<1>10. CASE \/ RebuildAdopted \/ RemoveCopy \/ MoveFolder \/ WriteTitle \/ LinkFolder
            \/ FileFolder \/ ReplaceStale
  BY <1>1, <1>10
     DEF RebuildAdopted, RemoveCopy, MoveFolder, WriteTitle, LinkFolder, FileFolder,
                     ReplaceStale, UpkeepType
<1>11. CASE Reconcile \/ ReconcileFails \/ Failures
  BY <1>11, NoJobIs, FailuresIs DEF Reconcile, ReconcileFails, UpkeepType
<1> QED
  BY <1>2, <1>3, <1>4, <1>5, <1>6, <1>7, <1>8, <1>9, <1>10, <1>11
     DEF UpkeepMove, UpkeepType

(* What an import changes of the ids and of the files.                     *)
LEMMA ImportWrites ==
    ASSUME TypeInv, NEW c \in Imports, ImportMove(c), NEW m \in Names
    PROVE  /\ \/ all[m].id' = all[m].id
              \/ CreateDir(c) /\ m = dir[c] /\ ~Exists(all[m]) /\ all[m].id' = NoMeta
              \/ WriteItem(c) /\ m = dir[c] /\ all[m].id' = ImportId(c)
              \/ WriteFileItem(c) /\ m = dir[c] /\ all[m].id' = DirId(m)
           /\ \/ all[m].files' = all[m].files
              \/ CreateDir(c) /\ m = dir[c] /\ ~Exists(all[m]) /\ all[m].files' = {}
              \/ /\ WriteAttachments(c) \/ CopyFile(c)
                 /\ m = dir[c] /\ all[m].files' = Holding(all[m].files, c)
           /\ Exists(all[m]) => Exists(all[m])'
<1> DEFINE n == dir[c]
<1>1. n \in Names
  BY DEF TypeInv, CallsType, Files
<1>2. CASE CreateDir(c)
  <2>1. CASE UNCHANGED all
    BY <2>1 DEF Exists
  <2>2. CASE Put(all, all', n, {}, NoMeta) /\ ~Exists(all[n])
    <3>1. /\ all[m].files' = IF m = n THEN {} ELSE all[m].files
          /\ all[m].id' = IF m = n THEN NoMeta ELSE all[m].id
      BY <2>2 DEF Put
    <3> QED
      BY <1>2, <2>2, <3>1, IdsAre DEF Exists
  <2> QED
    BY <1>2, <2>1, <2>2, ImportPuts
<1>3. CASE WriteAttachments(c) \/ CopyFile(c)
  <2>1. Put(all, all', n, Holding(all[n].files, c), all[n].id)
    BY <1>3, ImportPuts
  <2>2. /\ all[m].files' = IF m = n THEN Holding(all[n].files, c) ELSE all[m].files
        /\ all[m].id' = all[m].id
    BY <2>1 DEF Put
  <2> QED
    BY <1>3, <2>2 DEF Exists
<1>5. CASE WriteItem(c)
  <2>1. Put(all, all', n, all[n].files, ImportId(c))
    BY <1>5, ImportPuts
  <2>2. /\ all[m].files' = all[m].files
        /\ all[m].id' = IF m = n THEN ImportId(c) ELSE all[m].id
    BY <2>1 DEF Put
  <2> QED
    BY <1>5, <2>2, IdsAre DEF Exists
<1>6. CASE WriteFileItem(c)
  <2>1. Put(all, all', n, all[n].files, DirId(n))
    BY <1>6, ImportPuts
  <2>2. /\ all[m].files' = all[m].files
        /\ all[m].id' = IF m = n THEN DirId(n) ELSE all[m].id
    BY <2>1 DEF Put
  <2> QED
    BY <1>6, <2>2, IdsAre DEF Exists
<1>7. CASE UNCHANGED all
  BY <1>7 DEF Exists
<1> QED
  BY <1>2, <1>3, <1>5, <1>6, <1>7, ImportLeaves

(* What an adoption, a normalization or a scan changes of them.            *)
LEMMA UpkeepWrites ==
    ASSUME TypeInv, JobInv, UpkeepMove, NEW m \in Names
    PROVE  /\ \/ all[m].id' = all[m].id
              \/ WriteAdopted /\ m = job.dir /\ all[m].id' = DirId(m)
              \/ WriteTitle /\ m = job.dir /\ all[m].id' = DirId(m)
              \/ MoveFolder /\ m = job.dir /\ all[m].id' = folder.id
           /\ \/ all[m].files' = all[m].files
              \/ MoveFolder /\ m = job.dir /\ all[m].files' = folder.files
           /\ Exists(all[m]) => Exists(all[m])'
<1> DEFINE n == job.dir
<1>1. n \in Names
  BY JobIs DEF TypeInv
<1>2. CASE WriteAdopted
  <2>1. Put(all, all', n, all[n].files, DirId(n))
    BY <1>2, UpkeepPuts
  <2>2. /\ all[m].files' = all[m].files
        /\ all[m].id' = IF m = n THEN DirId(n) ELSE all[m].id
    BY <2>1 DEF Put
  <2> QED
    BY <1>1, <1>2, <2>2, IdsAre DEF Exists
<1>3. CASE MoveFolder
  <2>1. Put(all, all', n, folder.files, folder.id)
    BY <1>3, UpkeepPuts
  <2>2. /\ all[m].files' = IF m = n THEN folder.files ELSE all[m].files
        /\ all[m].id' = IF m = n THEN folder.id ELSE all[m].id
    BY <2>1 DEF Put
  <2>3. Exists(folder)
    BY <1>3 DEF MoveFolder, UpkeepStep, JobInv
  <2> QED
    BY <1>3, <2>2, <2>3 DEF Exists
<1>4. CASE WriteTitle
  <2>1. Put(all, all', n, all[n].files, job.id)
    BY <1>4, UpkeepPuts
  <2>2. job.id = DirId(n)
    BY <1>4 DEF WriteTitle, UpkeepStep, JobInv
  <2>3. /\ all[m].files' = all[m].files
        /\ all[m].id' = IF m = n THEN DirId(n) ELSE all[m].id
    BY <2>1, <2>2 DEF Put
  <2> QED
    BY <1>1, <1>4, <2>3, IdsAre DEF Exists
<1>5. CASE FileFolder
  <2>1. Put(all, all', n, all[n].files, all[n].id)
    BY <1>5, UpkeepPuts
  <2>2. all[m].files' = all[m].files /\ all[m].id' = all[m].id
    BY <2>1 DEF Put
  <2> QED
    BY <2>2 DEF Exists
<1>6. CASE Reconcile \/ ReconcileFails
  <2>1. PICK some : Projects(some)
    BY <1>6 DEF Reconcile, ReconcileFails
  <2>2. all[m].files' = all[m].files /\ all[m].id' = all[m].id
    BY <2>1, ProjectsIs
  <2> QED
    BY <2>2 DEF Exists
<1>7. CASE UNCHANGED all
  BY <1>7 DEF Exists
<1> QED
  BY <1>2, <1>3, <1>4, <1>5, <1>6, <1>7, UpkeepLeaves

-----------------------------------------------------------------------------
(* The types.                                                              *)

(* The directories keep their type.                                        *)
LEMMA AllStep == ASSUME TypeInv, Next PROVE AllType'
<1>1. ASSUME NEW c \in Imports, ImportMove(c) PROVE AllType'
  BY <1>1, ImportPuts, ImportLeaves DEF Put, TypeInv, AllType
<1>2. ASSUME UpkeepMove PROVE AllType'
  <2>1. ASSUME NEW some, Projects(some) PROVE AllType'
    BY <2>1, ProjectsIs DEF AllType
  <2> QED
    BY <1>2, <2>1, UpkeepPuts, UpkeepLeaves
       DEF Put, TypeInv, AllType, Reconcile, ReconcileFails
<1>3. CASE Crash
  BY <1>3 DEF Crash, library, TypeInv, AllType
<1> QED
  BY <1>1, <1>2, <1>3, Moves

(* The folder, the junctions, the manifest and the index keep theirs.      *)
LEMMA LibraryStep == ASSUME TypeInv, JobInv, Next PROVE LibraryType'
<1>1. /\ folder \in DirType /\ links \subseteq Names \X Names /\ manifest \subseteq Ids
      /\ index \subseteq Ids \X Names /\ dir \in [Files -> Names] /\ job.dir \in Names
      /\ Imports \subseteq Files
      /\ NoDir \in DirType /\ Title \in Names /\ Rebuilt \subseteq Ids \X Names
  BY JobIs, NoDirIs, TitleIs, RebuiltIs DEF TypeInv, LibraryType, CallsType, Files
<1>2. ASSUME NEW c \in Imports, ImportMove(c) PROVE LibraryType'
  <2>1. UNCHANGED manifest \/ manifest' = manifest \cup {ImportId(c)}
    BY <1>2
       DEF ImportMove, Choose, CreateDir, PickName, WriteAttachments, CopyFile, LockFile,
           LockFileFails,
                WriteItem, WriteFileItem, LinkItem, LinkItemFails, Finish, FinishFile
  <2>2. links' \subseteq Names \X Names
    <3>1. dir[c] \in Names
      BY <1>1
    <3>2. LinkItem(c) => links' = links \cup {<<dir[c], dir[c]>>}
      BY DEF LinkItem
    <3>3. LinkItem(c) => links' \subseteq Names \X Names
      BY <1>1, <3>1, <3>2
    <3>4. LinkItem(c) \/ links' = links
      BY <1>2, ImportLeaves
    <3> QED
      BY <1>1, <3>3, <3>4
  <2> QED
    BY <1>1, <1>2, <2>1, <2>2, ImportLeaves, IdsAre DEF LibraryType
<1>3. ASSUME UpkeepMove PROVE LibraryType'
  <2>1. folder' \in DirType
    BY <1>1, <1>3, UpkeepLeaves DEF RemoveCopy, MoveFolder, ReplaceStale
  <2>2. links' \subseteq Names \X Names
    <3>1. ASSUME NEW some, Projects(some) PROVE links' \subseteq Names \X Names
      BY <1>1, <3>1 DEF Projects, ToLink, ManagedNames
    <3>2. LinkFolder \/ ReplaceStale => links' \subseteq Names \X Names
      BY <1>1 DEF LinkFolder, ReplaceStale
    <3>3. Reconcile \/ ReconcileFails => links' \subseteq Names \X Names
      BY <3>1 DEF Reconcile, ReconcileFails
    <3> QED
      BY <1>1, <1>3, <3>2, <3>3, UpkeepLeaves
  <2>3. Reconcile => manifest' \subseteq Ids
    BY <1>1 DEF Reconcile, IdsOf, ManagedNames, Managed, ToFile, Unlisted
  <2>4. index' \subseteq Ids \X Names /\ (Reconcile \/ UNCHANGED manifest)
    BY <1>1, <1>3, UpkeepLeaves, FailuresIs
       DEF Reconcile, ReconcileFails, UpkeepMove, StartAdoption, CheckUnmanaged,
           StartNormalization, StartScan, LockAdopted, WriteAdopted, RebuildAdopted, Plan,
           LockFolder, RemoveCopy, MoveFolder, WriteTitle, LinkFolder, FileFolder,
           RebuildIndex, ReplaceStale, Starts, library
  <2> QED
    BY <1>1, <2>1, <2>2, <2>3, <2>4 DEF LibraryType
<1>4. CASE Crash
  BY <1>1, <1>4 DEF Crash, library, LibraryType
<1> QED
  BY <1>2, <1>3, <1>4, Moves

(* The lock files are those of ids.                                        *)
LEMMA LocksStep == ASSUME TypeInv, JobInv, Next PROVE locks' \subseteq Ids
<1>1. /\ locks \subseteq Ids /\ dir \in [Files -> Names] /\ job.dir \in Names
      /\ Imports \subseteq Files
  BY JobIs DEF TypeInv, CallsType, Files
<1>2. ASSUME NEW c \in Imports, ImportMove(c) PROVE locks' \subseteq Ids
  <2>1. ImportId(c) \in Ids /\ DirId(dir[c]) \in Ids
    BY <1>1, IdsAre
  <2>2. locks' \subseteq locks \cup {ImportId(c), DirId(dir[c])}
    <3>1. CASE Choose(c)
      BY <3>1 DEF Choose
    <3>2. CASE LockFile(c)
      BY <3>2 DEF LockFile
    <3>3. CASE WriteFileItem(c) \/ LinkItem(c) \/ LinkItemFails(c)
      BY <3>3 DEF WriteFileItem, LinkItem, LinkItemFails
    <3>4. CASE UNCHANGED locks
      BY <3>4
    <3> QED
      BY <1>2, <3>1, <3>2, <3>3, <3>4
         DEF ImportMove, CreateDir, PickName, WriteAttachments, CopyFile, LockFileFails, WriteItem, Finish,
             FinishFile
  <2> QED
    BY <1>1, <2>1, <2>2
<1>3. ASSUME UpkeepMove PROVE locks' \subseteq Ids
  <2>1. LockFolder => FolderId \in Ids
    BY FolderIdIs DEF LockFolder, UpkeepStep, JobInv
  <2>2. LockAdopted => locks' \subseteq locks \cup {DirId(job.dir)}
    BY DEF LockAdopted
  <2>3. LockFolder => locks' \subseteq locks \cup {FolderId}
    BY DEF LockFolder
  <2>4. LockAdopted \/ LockFolder \/ locks' \subseteq locks
    BY <1>3, FailuresIs
       DEF Reconcile, ReconcileFails, UpkeepMove, StartAdoption, CheckUnmanaged,
           StartNormalization, StartScan, LockAdopted, WriteAdopted, RebuildAdopted, Plan,
           LockFolder, RemoveCopy, MoveFolder, WriteTitle, LinkFolder, FileFolder,
           RebuildIndex, ReplaceStale, Starts
  <2> QED
    BY <1>1, <2>1, <2>2, <2>3, <2>4, IdsAre
<1>4. CASE Crash
  BY <1>1, <1>4 DEF Crash
<1> QED
  BY <1>2, <1>3, <1>4, Moves

(* The imports keep their types.                                           *)
LEMMA CallsStep == ASSUME TypeInv, Next PROVE CallsType'
<1>1. /\ pc \in [Imports -> Places] /\ dir \in [Files -> Names]
      /\ filename \in [Files -> Names] /\ job.dir \in Names
  BY JobIs DEF TypeInv, CallsType
<1>2. ASSUME NEW c \in Imports, ImportMove(c) PROVE CallsType'
  <2>1. pc' \in [Imports -> Places]
    BY <1>1, <1>2, ImportLeaves
  <2>2. dir' \in [Files -> Names]
    BY <1>1, <1>2, ImportLeaves DEF Choose
  <2>3. filename' \in [Files -> Names]
    BY <1>1, <1>2, ImportLeaves DEF PickName
  <2> QED
    BY <2>1, <2>2, <2>3 DEF CallsType
<1>3. ASSUME UpkeepMove PROVE CallsType'
  <2>1. MoveFolder => dir' \in [Files -> Names]
    BY <1>1 DEF MoveFolder
  <2> QED
    BY <1>1, <1>3, <2>1, UpkeepLeaves DEF CallsType
<1>4. CASE Crash
  BY <1>1, <1>4 DEF Crash, CallsType, Places
<1> QED
  BY <1>2, <1>3, <1>4, Moves

(* The histories and the counters keep theirs.                             *)
LEMMA HistoryStep == ASSUME TypeInv, Next PROVE HistoryType'
<1>1. /\ given \subseteq Files /\ merged \subseteq Files /\ met \subseteq Names
      /\ rounds \in Nat /\ crashes \in Nat
      /\ folder.files \subseteq Files /\ dir \in [Files -> Names] /\ job.dir \in Names
  BY DirFields, JobIs DEF TypeInv, HistoryType, LibraryType, CallsType
<1>2. ASSUME NEW c \in Imports, ImportMove(c) PROVE HistoryType'
  <2>1. c \in Files /\ dir[c] \in Names
    BY <1>1 DEF Files
  <2>2. given' \subseteq Files
    BY <1>1, <1>2, <2>1, ImportLeaves DEF CopyFile, WriteAttachments
  <2>3. met' \subseteq Names
    BY <1>1, <1>2, <2>1, ImportLeaves DEF CreateDir
  <2> QED
    BY <1>1, <1>2, <2>2, <2>3, ImportLeaves DEF HistoryType
<1>3. ASSUME UpkeepMove PROVE HistoryType'
  <2>1. merged' \subseteq Files
    BY <1>1, <1>3, UpkeepLeaves DEF RemoveCopy
  <2>2. UNCHANGED rounds \/ rounds' = rounds + 1
    BY <1>3, FailuresIs
       DEF Reconcile, ReconcileFails, UpkeepMove, StartAdoption, CheckUnmanaged,
           StartNormalization, StartScan, LockAdopted, WriteAdopted, RebuildAdopted, Plan,
           LockFolder, RemoveCopy, MoveFolder, WriteTitle, LinkFolder, FileFolder,
           RebuildIndex, ReplaceStale, Starts
  <2>3. met' \subseteq Names
    BY <1>1, <1>3, UpkeepLeaves DEF MoveFolder
  <2> QED
    BY <1>1, <1>3, <2>1, <2>2, <2>3, UpkeepLeaves DEF HistoryType
<1>4. CASE Crash
  <2>1. UNCHANGED <<given, merged, met>> /\ rounds' = 0 /\ crashes' = crashes + 1
    BY <1>4 DEF Crash
  <2> QED
    BY <1>1, <2>1 DEF HistoryType
<1> QED
  BY <1>2, <1>3, <1>4, Moves

(* All types are kept.                                                     *)
LEMMA ImportsTypeStep == ASSUME TypeInv, JobInv, Next PROVE TypeInv'
<1>1. UpkeepType'
  BY Moves, JobStep, ImportLeaves, NoJobIs DEF Crash, TypeInv, UpkeepType
<1> QED
  BY <1>1, AllStep, LibraryStep, LocksStep, CallsStep, HistoryStep DEF TypeInv

(* No step makes a directory under All/ go.                                *)
LEMMA ExistsStays ==
    ASSUME TypeInv, JobInv, Next, NEW n \in Names, Exists(all[n])
    PROVE  Exists(all[n])'
BY Moves, ImportWrites, UpkeepWrites DEF Crash, library, Exists

-----------------------------------------------------------------------------
(* The invariant, part by part.                                            *)

(* What the upkeep has decided holds until it has done it.                 *)
LEMMA JobInvStep == ASSUME ImportsInv, Next PROVE JobInv'
<1>0. /\ TypeInv /\ JobInv /\ IdInv /\ FolderInv /\ UpkeepType
      /\ job.dir \in Names /\ Title \in Names
  BY JobIs, TitleIs DEF ImportsInv, JobInv, TypeInv
<1>1. \A n \in Names : Exists(all[n]) => Exists(all[n])'
  BY <1>0, ExistsStays
<1>2. ASSUME NEW c \in Imports, ImportMove(c) PROVE JobInv'
  BY <1>0, <1>1, <1>2, ImportLeaves DEF JobInv, Adopting, FolderId
<1>3. CASE Crash
  BY <1>3, NoJobIs DEF Crash, JobInv, Adopting
<1>4. CASE Failures
  BY <1>4, FailuresIs, NoJobIs DEF JobInv, Adopting
<1>5. ASSUME NEW n \in Names, StartAdoption(n) PROVE JobInv'
  BY <1>0, <1>5 DEF JobInv, Adopting, StartAdoption, Starts, UpkeepStep, NoJob
<1>6. ASSUME NEW n \in Names, CheckUnmanaged(n) PROVE JobInv'
  BY <1>0, <1>6, JobIs
     DEF JobInv, Adopting, CheckUnmanaged, UpkeepStep, library, UpkeepType, JobType
<1>7. CASE StartNormalization
  BY <1>0, <1>7
     DEF JobInv, Adopting, StartNormalization, Starts, UpkeepStep, NoJob, Exists
<1>8. CASE StartScan
  <2>1. folder.files # {} => Exists(folder)
    BY <1>0, NoDirIs DEF FolderInv
  <2>2. Managed(all[Title]) => Exists(all[Title])
    BY IdsAre DEF Managed, Exists
  <2>3. job'.cat = FolderKind /\ step' = "adopting" /\ UNCHANGED <<all, folder>>
    BY <1>8 DEF StartScan, Starts, UpkeepStep, NoJob
  <2>4. /\ FolderKind # "none" => Exists(folder)
        /\ FolderKind = "stale" => Exists(all[Title])
    BY <2>1, <2>2 DEF FolderKind
  <2> QED
    BY <2>3, <2>4 DEF JobInv, Adopting
<1>9. CASE LockAdopted
  BY <1>0, <1>9
     DEF JobInv, Adopting, LockAdopted, UpkeepStep, library, UpkeepType, JobType
<1>10. CASE WriteAdopted
  BY <1>0, <1>1, <1>10 DEF JobInv, Adopting, WriteAdopted, UpkeepStep, UpkeepType, JobType
<1>11. CASE RebuildAdopted
  BY <1>0, <1>11 DEF JobInv, Adopting, RebuildAdopted, UpkeepStep
<1>12. CASE Plan
  <2>1. Exists(folder) /\ step' = "planned" /\ UNCHANGED <<all, folder>>
    BY <1>0, <1>12 DEF JobInv, Plan, UpkeepStep, library
  <2>2. \A l \in IndexedAs(folder.id) : folder.id = ItemIdOf /\ l[2] = Title
    BY <1>0, <2>1, IdsAre DEF IndexedAs, FolderInv, IdInv, TypeInv, LibraryType, Exists
  <2>3. folder.id = ItemIdOf => <<ItemIdOf, Title>> \in IndexedAs(folder.id)
    BY <1>0 DEF FolderInv, IndexedAs
  <2>4. PICK n \in Names :
           /\ IndexedAs(folder.id) # {} => \E l \in IndexedAs(folder.id) : n = l[2]
           /\ job' = [job EXCEPT !.dir = n, !.merge = IndexedAs(folder.id) # {}]
    BY <1>12 DEF Plan
  <2>5. job'.dir = n /\ (job'.merge <=> IndexedAs(folder.id) # {})
    BY <1>0, <2>4 DEF UpkeepType, JobType
  <2> QED
    BY <2>1, <2>2, <2>3, <2>4, <2>5 DEF JobInv, Adopting
<1>13. CASE LockFolder
  <2>1. /\ step = "planned" /\ step' = "moving" /\ UNCHANGED <<all, folder>>
        /\ job' = [job EXCEPT !.id = FolderId]
    BY <1>13 DEF LockFolder, UpkeepStep, library
  <2>2. /\ job'.id = FolderId /\ job'.dir = job.dir /\ (job'.merge <=> job.merge)
    BY <1>0, <2>1 DEF UpkeepType, JobType
  <2>3. FolderId' = FolderId
    BY <2>1, <2>2 DEF FolderId
  <2> QED
    BY <1>0, <2>1, <2>2, <2>3 DEF JobInv, Adopting
<1>14. CASE RemoveCopy
  <2>1. /\ step = "moving" /\ step' = "linking" /\ job.merge /\ UNCHANGED <<all, job>>
        /\ folder' = NoDir
    BY <1>14 DEF RemoveCopy, UpkeepStep
  <2>2. Exists(all[job.dir])
    BY <1>0, <2>1, IdsAre DEF JobInv, FolderInv, Exists
  <2> QED
    BY <2>1, <2>2 DEF JobInv, Adopting, Exists
<1>15. CASE MoveFolder
  <2>1. /\ step = "moving" /\ step' = (IF folder.id = NoMeta THEN "titling" ELSE "linking")
        /\ UNCHANGED job /\ folder' = NoDir
    BY <1>15 DEF MoveFolder, UpkeepStep
  <2>2. Put(all, all', job.dir, folder.files, folder.id)
    BY <1>0, <1>15, UpkeepPuts
  <2>3. Exists(all[job.dir])'
    BY <1>0, <2>1, <2>2 DEF Put, JobInv, Exists
  <2>4. step' = "titling" => job.id = DirId(job.dir)
    BY <1>0, <2>1 DEF JobInv, FolderId
  <2> QED
    BY <2>1, <2>3, <2>4 DEF JobInv, Adopting
<1>16. CASE WriteTitle
  BY <1>0, <1>1, <1>16 DEF JobInv, Adopting, WriteTitle, UpkeepStep
<1>17. CASE LinkFolder \/ FileFolder
  BY <1>0, <1>1, <1>17 DEF JobInv, Adopting, LinkFolder, FileFolder, UpkeepStep
<1>18. CASE RebuildIndex \/ ReplaceStale \/ Reconcile \/ ReconcileFails
  BY <1>18, NoJobIs
     DEF JobInv, Adopting, RebuildIndex, ReplaceStale, Reconcile, ReconcileFails,
         UpkeepStep
<1> QED
  BY <1>2, <1>3, <1>4, <1>5, <1>6, <1>7, <1>8, <1>9, <1>10, <1>11, <1>12, <1>13, <1>14, <1>15,
     <1>16, <1>17, <1>18, Moves DEF UpkeepMove

(* A folder that is moved takes no import with it.                         *)
LEMMA MovesYours ==
    ASSUME TypeInv, FolderInv, UpkeepMove, NEW f \in Files, f \notin folder.files
    PROVE  dir'[f] = dir[f]
BY UpkeepLeaves DEF MoveFolder

(* Ids stay where they can be.                                             *)
LEMMA IdInvStep == ASSUME ImportsInv, Next PROVE IdInv'
<1>0. /\ TypeInv /\ JobInv /\ IdInv /\ FolderInv /\ dir \in [Files -> Names] /\ Title \in Names
      /\ Imports \subseteq Files
  BY TitleIs DEF ImportsInv, TypeInv, CallsType, Files
<1>1. ASSUME NEW c \in Imports, ImportMove(c) PROVE IdInv'
  <2>1. ASSUME NEW d \in Imports, pc[d] # "idle"
        PROVE  dir'[d] = dir[d] /\ pc'[d] # "idle"
    BY <1>0, <1>1, <2>1, ImportLeaves DEF Choose, ImportStep, TypeInv, CallsType
  <2>2. ASSUME NEW n \in Names
        PROVE  \/ all[n].id' \in {NoMeta, Absent, DirId(n), Elsewhere}
               \/ (all[n].id' = ItemIdOf /\ n = Title)
               \/ (\E d \in Imports :
                     all[n].id' = ImportId(d) /\ dir'[d] = n /\ pc'[d] # "idle")
    <3>1. CASE all[n].id' = all[n].id
      BY <1>0, <2>1, <3>1 DEF IdInv
    <3>2. CASE WriteItem(c) /\ n = dir[c] /\ all[n].id' = ImportId(c)
      BY <2>1, <3>2 DEF WriteItem, ImportStep
    <3> QED
      BY <1>0, <1>1, <3>1, <3>2, ImportWrites
  <2>3. ASSUME NEW n \in Names, all[n].id' = Elsewhere PROVE all[n].id = Elsewhere
    BY <1>0, <1>1, <2>3, ImportWrites, IdsAre
  <2>4. \A l \in index' : l[1] = ItemIdOf => l[2] = Title
    <3>1. \A l \in Rebuilt : l[1] = ItemIdOf => l[2] = Title
      BY <1>0, RebuiltIs, IdsAre DEF IdInv, TypeInv
    <3> QED
      BY <1>0, <1>1, <3>1, ImportLeaves DEF IdInv
  <2> QED
    BY <1>0, <2>2, <2>3, <2>4 DEF IdInv
<1>2. ASSUME UpkeepMove PROVE IdInv'
  <2>1. UNCHANGED pc /\ \A d \in Imports : dir'[d] = dir[d]
    BY <1>0, <1>2, MovesYours, UpkeepLeaves, ImportsAssumption DEF FolderInv
  <2>2. MoveFolder => folder.id \in {NoMeta, Elsewhere}
    BY <1>0, IdsAre DEF MoveFolder, UpkeepStep, JobInv, FolderInv, Exists
  <2>3. ASSUME NEW n \in Names
        PROVE  \/ all[n].id' \in {NoMeta, Absent, DirId(n), Elsewhere}
               \/ (all[n].id' = ItemIdOf /\ n = Title)
               \/ (\E d \in Imports :
                     all[n].id' = ImportId(d) /\ dir'[d] = n /\ pc'[d] # "idle")
    <3>1. CASE all[n].id' = all[n].id
      BY <1>0, <2>1, <3>1 DEF IdInv
    <3> QED
      BY <1>0, <1>2, <2>2, <3>1, UpkeepWrites
  <2>4. ASSUME NEW n \in Names, NEW m \in Names, all[n].id' = Elsewhere, all[m].id' = Elsewhere
        PROVE  n = m
    <3>1. MoveFolder /\ folder.id = Elsewhere => \A k \in Names : all[k].id # Elsewhere
      BY <1>0 DEF FolderInv
    <3> QED
      BY <1>0, <1>2, <2>4, <3>1, UpkeepWrites, IdsAre DEF IdInv
  <2>5. \A l \in index' : l[1] = ItemIdOf => l[2] = Title
    <3>1. \A l \in Rebuilt : l[1] = ItemIdOf => l[2] = Title
      BY <1>0, RebuiltIs, IdsAre DEF IdInv, TypeInv
    <3>2. Reconcile \/ ReconcileFails => index' = Rebuilt
      BY DEF Reconcile, ReconcileFails
    <3> QED
      BY <1>0, <1>2, <3>1, <3>2, UpkeepLeaves DEF IdInv
  <2> QED
    BY <2>3, <2>4, <2>5 DEF IdInv
<1>3. CASE Crash
  <2>1. ASSUME NEW d \in Imports, pc[d] # "idle" PROVE pc'[d] # "idle"
    BY <1>0, <1>3, <2>1 DEF Crash, TypeInv, CallsType
  <2> QED
    BY <1>0, <1>3, <2>1 DEF Crash, library, IdInv
<1> QED
  BY <1>1, <1>2, <1>3, Moves

(* What is said of the folder under the category is kept.                  *)
LEMMA FolderInvStep == ASSUME ImportsInv, Next PROVE FolderInv'
<1>0. /\ TypeInv /\ JobInv /\ IdInv /\ FolderInv /\ dir \in [Files -> Names] /\ Title \in Names
      /\ Imports \subseteq Files
  BY TitleIs DEF ImportsInv, TypeInv, CallsType, Files
<1>1. ASSUME folder' = NoDir PROVE FolderInv'
  BY <1>1, NoDirIs, IdsAre DEF FolderInv, Exists
<1>2. ASSUME UNCHANGED folder, Next, ~MoveFolder,
             folder.id = Elsewhere =>
                \A n \in Names : all[n].id' # Elsewhere,
             folder.id = ItemIdOf => all[Title].id' = ItemIdOf
      PROVE  /\ folder'.files \subseteq {"yours"}
             /\ folder'.id = Elsewhere => \A l \in index' : l[1] # Elsewhere
             /\ folder'.id = ItemIdOf => <<ItemIdOf, Title>> \in index'
  <2>1. UNCHANGED index \/ index' = Rebuilt
    BY <1>2, Moves, ImportLeaves, UpkeepLeaves
       DEF Crash, library, Reconcile, ReconcileFails
  <2> QED
    BY <1>0, <1>2, <2>1, RebuiltIs, IdsAre DEF FolderInv, TypeInv
<1>3. ASSUME NEW c \in Imports, ImportMove(c) PROVE FolderInv'
  <2>1. UNCHANGED <<folder, step, job>>
    BY <1>3, ImportLeaves
  <2>2. folder.id = ItemIdOf => \A d \in Imports : pc'[d] # "idle" => dir'[d] # Title
    <3>1. ASSUME folder.id = ItemIdOf PROVE Exists(all[Title])
      BY <1>0, <3>1, IdsAre DEF FolderInv, Exists
    <3>2. CASE Choose(c)
      <4>1. folder.id = ItemIdOf => dir'[c] # Title
        BY <1>0, <3>1, <3>2 DEF Choose, IsFreeName
      <4>2. \A d \in Imports \ {c} : dir'[d] = dir[d] /\ pc'[d] = pc[d]
        BY <1>0, <3>2 DEF Choose, ImportStep, TypeInv, CallsType
      <4> QED
        BY <1>0, <4>1, <4>2 DEF FolderInv
    <3>3. CASE ~Choose(c)
      <4>1. pc[c] # "idle"
        BY <1>3, <3>3
           DEF ImportMove, CreateDir, PickName, WriteAttachments, CopyFile, LockFile,
               LockFileFails,
             WriteItem, WriteFileItem, LinkItem, LinkItemFails, Finish, FinishFile, ImportStep
      <4>2. UNCHANGED dir /\ \A d \in Imports \ {c} : pc'[d] = pc[d]
        BY <1>0, <1>3, <3>3, ImportLeaves DEF TypeInv, CallsType
      <4> QED
        BY <1>0, <4>1, <4>2 DEF FolderInv
    <3> QED
      BY <3>2, <3>3
  <2>3. folder.id = Elsewhere => \A n \in Names : all[n].id' # Elsewhere
    BY <1>0, <1>3, ImportWrites, IdsAre DEF FolderInv
  <2>4. folder.id = ItemIdOf => all[Title].id' = ItemIdOf
    <3>1. WriteItem(c) \/ WriteFileItem(c) => pc[c] # "idle"
      BY DEF WriteItem, WriteFileItem, ImportStep
    <3> QED
      BY <1>0, <1>3, <3>1, ImportWrites, IdsAre DEF FolderInv, Exists
  <2>5. Next /\ ~MoveFolder
    BY <1>3, <2>1, Moves DEF MoveFolder, UpkeepStep
  <2>6. /\ folder'.files \subseteq {"yours"}
        /\ folder'.id = Elsewhere => \A l \in index' : l[1] # Elsewhere
        /\ folder'.id = ItemIdOf => <<ItemIdOf, Title>> \in index'
    BY <2>1, <2>3, <2>4, <2>5, <1>2
  <2> QED
    BY <1>0, <2>1, <2>2, <2>3, <2>4, <2>6 DEF FolderInv, Exists
<1>4. ASSUME UpkeepMove PROVE FolderInv'
  <2>1. CASE RemoveCopy \/ MoveFolder \/ ReplaceStale
    BY <1>1, <2>1 DEF RemoveCopy, MoveFolder, ReplaceStale
  <2>2. CASE ~(RemoveCopy \/ MoveFolder \/ ReplaceStale)
    <3>1. UNCHANGED <<folder, pc, dir>> /\ Next
      BY <1>4, <2>2, UpkeepLeaves, Moves
    <3>2. WriteTitle => folder = NoDir
      BY <1>0 DEF WriteTitle, UpkeepStep, JobInv
    <3>3. folder.id = Elsewhere => \A n \in Names : all[n].id' # Elsewhere
      BY <1>0, <1>4, <2>2, UpkeepWrites, IdsAre DEF FolderInv
    <3>4. folder.id = ItemIdOf => all[Title].id' = ItemIdOf
      <4>1. folder.id = ItemIdOf /\ WriteAdopted => job.dir # Title
        BY <1>0 DEF FolderInv, WriteAdopted, UpkeepStep
      <4>2. folder.id = ItemIdOf => folder # NoDir
        BY IdsAre, NoDirIs DEF Exists
      <4> QED
        BY <1>0, <1>4, <2>2, <3>2, <4>1, <4>2, UpkeepWrites DEF FolderInv
    <3>5. folder.id = ItemIdOf /\ step' \in {"checked", "describing"} => job'.dir # Title
      <4>1. ASSUME NEW n \in Names, CheckUnmanaged(n), folder.id = ItemIdOf
            PROVE  job'.dir # Title
        BY <1>0, <4>1, IdsAre DEF CheckUnmanaged, FolderInv, TypeInv, UpkeepType, JobType
      <4>2. LockAdopted => step \in {"checked", "describing"} /\ job'.dir = job.dir
        BY <1>0 DEF LockAdopted, UpkeepStep, TypeInv, UpkeepType, JobType
      <4>3. step' \in {"checked", "describing"} =>
               LockAdopted \/ \E n \in Names : CheckUnmanaged(n)
        BY <1>4, FailuresIs
           DEF UpkeepMove, UpkeepStep, StartAdoption, StartNormalization, StartScan, Starts,
               WriteAdopted, RebuildAdopted, Plan, LockFolder, RemoveCopy, MoveFolder,
               WriteTitle, LinkFolder, FileFolder, RebuildIndex, ReplaceStale, Reconcile,
               ReconcileFails
      <4> QED
        BY <1>0, <4>1, <4>2, <4>3 DEF FolderInv
    <3>6. /\ folder'.files \subseteq {"yours"}
          /\ folder'.id = Elsewhere => \A l \in index' : l[1] # Elsewhere
          /\ folder'.id = ItemIdOf => <<ItemIdOf, Title>> \in index'
      BY <1>2, <2>2, <3>1, <3>3, <3>4
    <3> QED
      BY <1>0, <3>1, <3>3, <3>4, <3>5, <3>6 DEF FolderInv, Exists
  <2> QED
    BY <2>1, <2>2
<1>5. CASE Crash
  <2>1. ASSUME NEW d \in Imports, pc'[d] # "idle" PROVE pc[d] # "idle"
    BY <1>0, <1>5, <2>1 DEF Crash, TypeInv, CallsType
  <2> QED
    BY <1>0, <1>5, <2>1 DEF Crash, library, FolderInv, Exists
<1> QED
  BY <1>3, <1>4, <1>5, Moves

(* Names under the category stay distinct, and junctions lead somewhere.   *)
LEMMA LinkInvStep == ASSUME ImportsInv, Next PROVE LinkInv'
<1>0. TypeInv /\ JobInv /\ FolderInv /\ LinkInv /\ HomeInv
  BY DEF ImportsInv
<1>1. \A n \in Names : Exists(all[n]) => Exists(all[n])'
  BY <1>0, ExistsStays
<1>2. Exists(folder)' => UNCHANGED folder
  BY Moves, ImportLeaves, UpkeepLeaves, NoDirIs
     DEF Crash, library, RemoveCopy, MoveFolder, ReplaceStale, Exists
<1>3. \A l \in links : l[2] \in Names
  BY <1>0 DEF TypeInv, LibraryType
<1>4. CASE UNCHANGED links
  BY <1>0, <1>1, <1>2, <1>3, <1>4 DEF LinkInv, Exists
<1>5. ASSUME NEW entry \in Names, NEW leads \in Names, CanLink(entry, leads),
             links' = links \cup {<<entry, leads>>}, Exists(all[leads]),
             entry = leads \/ entry = Title
      PROVE  LinkInv'
  <2>1. ASSUME NEW l \in links', NEW k \in links', l[1] = k[1] PROVE l = k
    BY <1>0, <1>3, <1>5, <2>1 DEF LinkInv, CanLink, TypeInv, LibraryType
  <2>2. ASSUME Exists(folder)', NEW l \in links' PROVE l[1] # Title
    BY <1>0, <1>2, <1>5, <2>2 DEF LinkInv, CanLink
  <2>3. ASSUME NEW l \in links' PROVE Exists(all[l[2]])' /\ (l[1] = l[2] \/ l[1] = Title)
    BY <1>0, <1>1, <1>3, <1>5 DEF LinkInv, Exists
  <2> QED
    BY <2>1, <2>2, <2>3 DEF LinkInv
<1>6. ASSUME NEW c \in Imports, LinkItem(c) PROVE LinkInv'
  BY <1>0, <1>5, <1>6 DEF LinkItem, ImportStep, HomeInv, Made, TypeInv, CallsType, Files
<1>7. CASE LinkFolder
  BY <1>0, <1>5, <1>7, JobIs, TitleIs DEF LinkFolder, UpkeepStep, JobInv, TypeInv
<1>8. CASE ReplaceStale
  BY <1>0, <1>1, <1>3, <1>8, NoDirIs DEF ReplaceStale, UpkeepStep, JobInv, LinkInv
<1>9. ASSUME NEW some \in SUBSET Names, some \cap Stuck = {}, Projects(some) PROVE LinkInv'
  <2>1. /\ links' = {l \in links : l[1] \notin some \cap ToUnlink}
                        \cup {<<n, n>> : n \in some \cap ToLink}
    BY <1>9 DEF Projects
  <2>2. ASSUME NEW n \in some \cap ToLink PROVE n \in Names /\ CanLink(n, n) /\ Exists(all[n])
    BY <1>9, IdsAre DEF Stuck, ToLink, ManagedNames, Managed, Exists
  <2>3. ASSUME NEW l \in links', l \notin links
        PROVE  \E n \in some \cap ToLink : l = <<n, n>>
    BY <2>1, <2>3
  <2>4. ASSUME NEW l \in links', NEW k \in links', l[1] = k[1] PROVE l = k
    <3>1. CASE l \in links /\ k \in links
      BY <1>0, <2>4, <3>1 DEF LinkInv
    <3>2. CASE l \notin links /\ k \notin links
      BY <2>3, <2>4, <3>2
    <3>3. ASSUME NEW a \in links, NEW n \in some \cap ToLink, a[1] = n PROVE a = <<n, n>>
      BY <1>0, <2>2, <3>3 DEF CanLink, TypeInv, LibraryType
    <3> QED
      BY <2>3, <2>4, <3>1, <3>2, <3>3
  <2>5. ASSUME Exists(folder)', NEW l \in links' PROVE l[1] # Title
    <3>1. CASE l \in links
      BY <1>0, <1>2, <2>5, <3>1 DEF LinkInv
    <3>2. CASE l \notin links
      BY <1>2, <2>2, <2>3, <2>5, <3>2 DEF CanLink
    <3> QED
      BY <3>1, <3>2
  <2>6. ASSUME NEW l \in links' PROVE Exists(all[l[2]])' /\ (l[1] = l[2] \/ l[1] = Title)
    <3>1. Exists(all[l[2]]) /\ l[2] \in Names /\ (l[1] = l[2] \/ l[1] = Title)
      BY <1>0, <1>3, <2>2, <2>3, <2>6 DEF LinkInv
    <3>2. Exists(all'[l[2]])
      BY <1>1, <3>1 DEF Exists
    <3> QED
      BY <3>1, <3>2
  <2> QED
    BY <2>4, <2>5, <2>6 DEF LinkInv
<1>10. CASE Reconcile
  <2>1. ToLink \cup Unlisted \in SUBSET Names
    BY DEF ToLink, Unlisted, ManagedNames
  <2> QED
    BY <1>9, <1>10, <2>1 DEF Reconcile
<1>11. CASE ReconcileFails
  <2>1. ToLink \cup Unlisted \in SUBSET Names
    BY DEF ToLink, Unlisted, ManagedNames
  <2>2. PICK some \in SUBSET ((ToLink \cup Unlisted) \ Stuck) : Projects(some)
    BY <1>11 DEF ReconcileFails
  <2> QED
    BY <1>9, <2>1, <2>2
<1> QED
  BY <1>4, <1>6, <1>7, <1>8, <1>10, <1>11, Moves, ImportLeaves, UpkeepLeaves
     DEF Crash, library

(* Imports keep their directories and files.                               *)
LEMMA HomeInvStep == ASSUME ImportsInv, Next PROVE HomeInv'
<1>0. /\ TypeInv /\ JobInv /\ FolderInv /\ HomeInv /\ dir \in [Files -> Names]
      /\ pc \in [Imports -> Places] /\ Imports \subseteq Files
      /\ {"mine", "yours"} \subseteq Files /\ "yours" \notin Imports /\ given \subseteq Files
  BY ImportsAssumption DEF ImportsInv, TypeInv, CallsType, HistoryType, Files
<1>1. \A n \in Names : Exists(all[n]) => Exists(all[n])'
  BY <1>0, ExistsStays
<1>2. ASSUME NEW c \in Imports, ImportMove(c) PROVE HomeInv'
  <2>1. ASSUME NEW d \in Imports, d # c
        PROVE  dir'[d] = dir[d] /\ pc'[d] = pc[d] /\ (d \in given' <=> d \in given)
               /\ (Made(d)' <=> Made(d))
    <3>1. dir'[d] = dir[d]
      BY <1>0, <1>2, <2>1, ImportLeaves DEF Choose
    <3>2. pc'[d] = pc[d]
      BY <1>0, <1>2, <2>1, ImportLeaves
    <3>3. d \in given' <=> d \in given
      BY <1>2, <2>1, ImportLeaves DEF CopyFile, WriteAttachments
    <3> QED
      BY <3>1, <3>2, <3>3 DEF Made
  <2>2. Made(c)' => /\ pc'[c] # "idle" /\ dir' = dir
                    /\ \/ Made(c) /\ UNCHANGED met
                       \/ CreateDir(c)
    <3>1. CASE Choose(c)
      BY <1>0, <3>1 DEF Choose, ImportStep, Made, HomeInv
    <3>2. CASE CreateDir(c)
      BY <1>0, <3>2 DEF CreateDir, ImportStep
    <3>3. CASE ~Choose(c) /\ ~CreateDir(c)
      <4>1. pc[c] \in {"created", "named", "copied", "locked", "written", "made", "linked"}
        BY <1>2, <3>3 DEF ImportMove, PickName, WriteAttachments, CopyFile, LockFile, LockFileFails,
             WriteItem, WriteFileItem, LinkItem, LinkItemFails, Finish, FinishFile, ImportStep
      <4> QED
        BY <1>0, <1>2, <3>3, <4>1, ImportLeaves DEF Made
    <3> QED
      BY <3>1, <3>2, <3>3
  <2>3. CreateDir(c) => /\ Exists(all'[dir[c]]) /\ UNCHANGED dir
                        /\ Exists(all[dir[c]]) => met' = met \cup {dir[c]}
                        /\ met \subseteq met'
    <3> SUFFICES ASSUME CreateDir(c)
                 PROVE  /\ Exists(all'[dir[c]]) /\ UNCHANGED dir
                        /\ Exists(all[dir[c]]) => met' = met \cup {dir[c]}
                        /\ met \subseteq met'
      OBVIOUS
    <3>1. Put(all, all', dir[c], {}, NoMeta) => all'[dir[c]].id = NoMeta
      BY <1>0 DEF Put
    <3>2. Exists(all'[dir[c]])
      <4>1. (UNCHANGED all /\ Exists(all[dir[c]])) \/ Put(all, all', dir[c], {}, NoMeta)
        BY <1>0, ImportPuts
      <4> QED
        BY <3>1, <4>1, IdsAre DEF Exists
    <3> QED
      BY <3>2 DEF CreateDir
  <2>4. ASSUME NEW n \in Names, ~Exists(all[n])' PROVE all[n].files' = {}
    <3>1. CopyFile(c) \/ WriteAttachments(c) => Exists(all[dir[c]])
      BY <1>0 DEF CopyFile, WriteAttachments, ImportStep, HomeInv, Made
    <3> QED
      BY <1>0, <1>1, <1>2, <2>4, <3>1, ImportWrites DEF HomeInv
  <2>5. ASSUME NEW d \in Imports, Made(d)' PROVE pc'[d] # "idle" /\ Exists(all[dir[d]])'
    BY <1>0, <1>1, <2>1, <2>2, <2>3, <2>5 DEF HomeInv, Exists
  <2>6. ASSUME NEW d \in Imports, NEW e \in Imports, Made(d)', Made(e)', dir'[d] = dir'[e], d # e
        PROVE  dir'[d] \in met'
    <3>1. met \subseteq met'
      BY <1>2, <2>3, ImportLeaves
    <3>2. CASE d # c /\ e # c
      BY <1>0, <2>1, <2>6, <3>1, <3>2 DEF HomeInv
    <3>3. ASSUME NEW o \in Imports, o # c, Made(o)', Made(c)', dir'[o] = dir'[c]
          PROVE  dir'[c] \in met'
      <4>1. dir[o] = dir[c] /\ dir'[c] = dir[c] /\ Made(o)
        BY <2>1, <2>2, <3>3
      <4>2. CASE Made(c)
        BY <1>0, <3>1, <3>3, <4>1, <4>2 DEF HomeInv
      <4>3. CASE CreateDir(c)
        BY <1>0, <2>3, <3>3, <4>1, <4>3 DEF HomeInv
      <4> QED
        BY <2>2, <3>3, <4>2, <4>3
    <3> QED
      BY <2>6, <3>2, <3>3
  <2>7. given \subseteq given' /\ met \subseteq met' /\ UNCHANGED folder
    BY <1>2, ImportLeaves DEF CopyFile, WriteAttachments, CreateDir
  <2>8. ASSUME NEW n \in Names, NEW f \in all[n].files'
        PROVE  /\ f \in given' /\ dir'[f] = n
               /\ f \in all[n].files \/ (f = c /\ n = dir[c])
    <3>1. CASE f \in all[n].files
      <4>1. f \in given /\ dir[f] = n
        BY <1>0, <3>1 DEF HomeInv
      <4>2. Choose(c) => f # c
        BY <1>0, <4>1 DEF Choose, ImportStep, HomeInv
      <4>3. dir'[f] = n
        BY <1>0, <1>2, <4>1, <4>2, ImportLeaves DEF Choose
      <4> QED
        BY <2>7, <3>1, <4>1, <4>3
    <3>2. CASE f \notin all[n].files
      <4>1. f = c /\ n = dir[c] /\ (WriteAttachments(c) \/ CopyFile(c))
        BY <1>0, <1>2, <2>8, <3>2, ImportWrites DEF Holding
      <4> QED
        BY <4>1 DEF WriteAttachments, CopyFile
    <3> QED
      BY <3>1, <3>2
  <2>9. ASSUME NEW d \in Imports, d \in given'
        PROVE  pc'[d] \notin {"idle", "chosen", "created", "named"}
    <3>1. CASE d # c
      BY <1>0, <2>1, <2>9, <3>1 DEF HomeInv
    <3>2. CASE d = c /\ c \in given
      <4>1. pc[c] \notin {"idle", "chosen", "created", "named"}
        BY <1>0, <3>2 DEF HomeInv
      <4> QED
        BY <1>0, <1>2, <3>2, <4>1
           DEF ImportMove, Choose, CreateDir, PickName, WriteAttachments, CopyFile, LockFile,
               LockFileFails, WriteItem, WriteFileItem, LinkItem, LinkItemFails, Finish,
               FinishFile, ImportStep
    <3>3. CASE d = c /\ c \notin given
      <4>1. WriteAttachments(c) \/ CopyFile(c)
        BY <1>2, <2>9, <3>3, ImportLeaves
      <4> QED
        BY <1>0, <3>3, <4>1 DEF WriteAttachments, CopyFile, ImportStep
    <3> QED
      BY <3>1, <3>2, <3>3
  <2>10. ASSUME NEW d \in Imports, Made(d)', "yours" \in all'[dir'[d]].files
         PROVE  dir'[d] \in met'
    <3>1. dir'[d] = dir[d] /\ dir[d] \in Names /\ (Made(d) \/ (d = c /\ CreateDir(c)))
      BY <1>0, <2>1, <2>2, <2>10
    <3>2. "yours" \in all[dir[d]].files
      BY <1>0, <2>8, <2>10, <3>1
    <3>3. Exists(all[dir[d]])
      BY <1>0, <3>1, <3>2 DEF HomeInv
    <3> QED
      BY <1>0, <2>3, <2>7, <3>1, <3>2, <3>3 DEF HomeInv
  <2>11. folder'.files \subseteq given' /\ \A n \in Names : folder'.files \cap all'[n].files = {}
    BY <1>0, <2>7, <2>8 DEF HomeInv, FolderInv
  <2> QED
    BY <2>4, <2>5, <2>6, <2>8, <2>9, <2>10, <2>11 DEF HomeInv
<1>3. ASSUME UpkeepMove PROVE HomeInv'
  <2>1. /\ UNCHANGED <<pc, given>> /\ met \subseteq met'
        /\ \A c \in Imports : dir'[c] = dir[c]
    BY <1>0, <1>3, MovesYours, UpkeepLeaves, ImportsAssumption DEF FolderInv, MoveFolder
  <2>2. \A c \in Imports : Made(c)' <=> Made(c)
    BY <2>1 DEF Made
  <2>3. ASSUME NEW n \in Names, ~Exists(all[n])' PROVE all[n].files' = {}
    <3>1. MoveFolder => Exists(folder)
      BY <1>0 DEF MoveFolder, JobInv
    <3>2. MoveFolder /\ n = job.dir => Exists(all[n])'
      BY <1>0, <3>1, UpkeepPuts DEF Put, Exists
    <3> QED
      BY <1>0, <1>1, <1>3, <2>3, <3>2, UpkeepWrites DEF HomeInv
  <2>4. MoveFolder => all[job.dir].files = {}
    BY NoDirIs DEF MoveFolder, NoDir, Dir
  <2>5. ASSUME NEW n \in Names, NEW f \in all[n].files'
        PROVE  /\ f \in given' /\ dir'[f] = n
               /\ f \in all[n].files \/ (MoveFolder /\ n = job.dir)
    <3>1. CASE all[n].files' = all[n].files /\ ~MoveFolder
      BY <1>0, <1>3, <2>1, <3>1, UpkeepLeaves DEF HomeInv
    <3>2. CASE MoveFolder /\ n = job.dir
      <4>1. f \in folder.files /\ f \in Files
        BY <1>0, <2>5, <3>2, UpkeepPuts, DirFields DEF Put, TypeInv, LibraryType
      <4> QED
        BY <1>0, <2>1, <3>2, <4>1 DEF MoveFolder, HomeInv
    <3>3. CASE MoveFolder /\ n # job.dir
      <4>1. f \in all[n].files /\ f \in Files
        BY <1>0, <2>5, <3>3, UpkeepPuts, DirFields DEF Put, TypeInv, AllType
      <4>2. f \in given /\ dir[f] = n /\ f \notin folder.files
        BY <1>0, <4>1 DEF HomeInv
      <4> QED
        BY <2>1, <4>1, <4>2, <3>3 DEF MoveFolder
    <3> QED
      BY <1>0, <1>3, <3>1, <3>2, <3>3, UpkeepWrites
  <2>6. ASSUME NEW d \in Imports, Made(d)', "yours" \in all'[dir'[d]].files
        PROVE  dir'[d] \in met'
    <3>1. dir'[d] = dir[d] /\ dir[d] \in Names /\ Made(d)
      BY <1>0, <2>1, <2>2, <2>6
    <3>2. CASE "yours" \in all[dir[d]].files
      BY <1>0, <2>1, <3>1, <3>2 DEF HomeInv
    <3>3. CASE MoveFolder /\ dir[d] = job.dir
      BY <1>0, <3>1, <3>3 DEF MoveFolder, HomeInv
    <3> QED
      BY <2>5, <2>6, <3>1, <3>2, <3>3
  <2>7. folder'.files \subseteq given' /\ \A n \in Names : folder'.files \cap all'[n].files = {}
    <3>1. CASE folder' = NoDir
      BY <3>1, NoDirIs
    <3>2. CASE UNCHANGED folder /\ ~MoveFolder
      BY <1>0, <2>1, <2>5, <3>2 DEF HomeInv
    <3> QED
      BY <1>3, <3>1, <3>2, UpkeepLeaves DEF RemoveCopy, MoveFolder, ReplaceStale
  <2> QED
    BY <1>0, <1>1, <2>1, <2>2, <2>3, <2>5, <2>6, <2>7 DEF HomeInv, Exists
<1>4. CASE Crash
  <2>1. UNCHANGED <<all, folder, dir, given, met>>
    BY <1>4 DEF Crash, library
  <2>2. ASSUME NEW c \in Imports, Made(c)' PROVE Made(c) /\ pc'[c] # "idle"
    BY <1>0, <1>4, <2>2 DEF Crash, Made, HomeInv
  <2>3. ASSUME NEW c \in Imports, c \in given
        PROVE  pc'[c] \notin {"idle", "chosen", "created", "named"}
    BY <1>0, <1>4, <2>3 DEF Crash, HomeInv
  <2> QED
    BY <1>0, <2>1, <2>2, <2>3 DEF HomeInv, Exists
<1> QED
  BY <1>2, <1>3, <1>4, Moves

(* No step touches the directory that the user made under All/.            *)
LEMMA MineInvStep == ASSUME ImportsInv, Next PROVE MineInv'
<1>0. /\ TypeInv /\ JobInv /\ FolderInv /\ HomeInv /\ MineInv /\ Title \in Names
      /\ "mine" \notin Imports /\ pc \in [Imports -> Places] /\ dir \in [Files -> Names]
      /\ Imports \subseteq Files
  BY TitleIs, ImportsAssumption DEF ImportsInv, TypeInv, CallsType, Files
<1>1. "mine" \in given' => "mine" \in given
  BY <1>0, Moves, ImportLeaves, UpkeepLeaves DEF CopyFile, WriteAttachments, Crash
<1> SUFFICES ASSUME "mine" \in given
             PROVE  /\ "mine" \in all[Title].files'
                    /\ \A c \in Imports : pc'[c] # "idle" => dir'[c] # Title
  BY <1>1 DEF MineInv
<1>2. /\ "mine" \in all[Title].files /\ Exists(all[Title])
      /\ \A c \in Imports : pc[c] # "idle" => dir[c] # Title
  BY <1>0 DEF MineInv, HomeInv
<1>3. ASSUME NEW c \in Imports, ImportMove(c)
      PROVE  /\ "mine" \in all[Title].files'
             /\ \A d \in Imports : pc'[d] # "idle" => dir'[d] # Title
  <2>1. Choose(c) => dir'[c] # Title
    BY <1>0, <1>2 DEF Choose, IsFreeName
  <2>2. ~Choose(c) => pc[c] # "idle" /\ UNCHANGED dir
    BY <1>3, ImportLeaves
       DEF ImportMove, CreateDir, PickName, WriteAttachments, CopyFile, LockFile,
           LockFileFails, WriteItem, WriteFileItem, LinkItem, LinkItemFails, Finish,
           FinishFile, ImportStep
  <2>3. ASSUME NEW d \in Imports, d # c PROVE pc'[d] = pc[d] /\ dir'[d] = dir[d]
    BY <1>0, <1>3, <2>3, ImportLeaves DEF Choose
  <2>4. "mine" \in all[Title].files'
    BY <1>0, <1>2, <1>3, <2>2, ImportWrites, ImportLeaves DEF Choose
  <2> QED
    BY <1>2, <2>1, <2>2, <2>3, <2>4
<1>4. ASSUME UpkeepMove
      PROVE  /\ "mine" \in all[Title].files'
             /\ \A d \in Imports : pc'[d] # "idle" => dir'[d] # Title
  <2>1. MoveFolder => all[job.dir].files = {}
    BY NoDirIs DEF MoveFolder, NoDir, Dir
  <2>2. UNCHANGED pc /\ \A d \in Imports : dir'[d] = dir[d]
    BY <1>0, <1>4, MovesYours, UpkeepLeaves, ImportsAssumption DEF FolderInv
  <2>3. "mine" \in all[Title].files'
    BY <1>0, <1>2, <1>4, <2>1, UpkeepWrites
  <2> QED
    BY <1>2, <2>2, <2>3
<1>5. CASE Crash
  <2>1. ASSUME NEW d \in Imports, pc'[d] # "idle" PROVE pc[d] # "idle"
    BY <1>0, <1>5, <2>1 DEF Crash
  <2> QED
    BY <1>2, <1>5, <2>1 DEF Crash, library
<1> QED
  BY <1>3, <1>4, <1>5, Moves

(* A file that was overwritten stays so.                                   *)
LEMMA OverwrittenStays ==
    ASSUME ImportsInv, Next, NEW f \in given, f \notin folder.files, Overwritten(f)
    PROVE  Overwritten(f)'
<1>0. /\ TypeInv /\ FolderInv /\ HomeInv /\ f \in Files /\ given \subseteq Files
      /\ dir \in [Files -> Names] /\ filename \in [Files -> Names] /\ Imports \subseteq Files
  BY DEF ImportsInv, TypeInv, HistoryType, CallsType, Files
<1>1. given \subseteq given' /\ met \subseteq met'
  BY Moves, ImportLeaves, UpkeepLeaves
     DEF CopyFile, WriteAttachments, CreateDir, MoveFolder, Crash
<1>2. ASSUME NEW g \in given, g \notin folder.files
      PROVE  dir'[g] = dir[g] /\ filename'[g] = filename[g]
  <2>1. ASSUME NEW c \in Imports, ImportMove(c)
        PROVE  dir'[g] = dir[g] /\ filename'[g] = filename[g]
    <3>1. Choose(c) \/ PickName(c) => c # g
      BY <1>0 DEF Choose, PickName, ImportStep, HomeInv
    <3> QED
      BY <1>0, <2>1, <3>1, ImportLeaves DEF Choose, PickName
  <2>2. ASSUME UpkeepMove PROVE dir'[g] = dir[g] /\ filename'[g] = filename[g]
    BY <1>0, <1>2, <2>2, MovesYours, UpkeepLeaves
  <2> QED
    BY <2>1, <2>2, Moves DEF Crash
<1>3. PICK g \in given \cap Imports :
         g # f /\ dir[g] = dir[f] /\ filename[g] = filename[f]
  BY DEF Overwritten
<1>4. g \notin folder.files
  BY <1>0, ImportsAssumption DEF FolderInv
<1> QED
  BY <1>1, <1>2, <1>3, <1>4 DEF Overwritten

(* No step loses a file but by writing over it.                            *)
LEMMA SurvivalStep == ASSUME ImportsInv, Next PROVE FilesSurvive'
<1>0. /\ TypeInv /\ JobInv /\ FolderInv /\ HomeInv /\ MineInv /\ FilesSurvive
      /\ dir \in [Files -> Names] /\ Imports \subseteq Files /\ given \subseteq Files
  BY DEF ImportsInv, TypeInv, CallsType, HistoryType, Files
<1>1. ASSUME NEW c \in Imports, ImportMove(c) PROVE FilesSurvive'
  <2>1. UNCHANGED <<folder, merged, kind>> /\ met \subseteq met'
    BY <1>1, ImportLeaves DEF CreateDir
  <2>2. ASSUME NEW f \in given, NEW n \in Names, f \in all[n].files, f \notin all[n].files'
        PROVE  Overwritten(f)'
    <3>1. f \in given /\ dir[f] = n
      BY <1>0, <2>2 DEF HomeInv
    <3>2. ~(CreateDir(c) /\ ~Exists(all[n]))
      BY <1>0, <2>2 DEF HomeInv
    <3>3. /\ WriteAttachments(c) \/ CopyFile(c)
          /\ n = dir[c] /\ f \notin Holding(all[n].files, c)
      BY <1>0, <1>1, <2>2, <3>2, ImportWrites
    <3>4. f # c /\ filename[f] = filename[c]
      BY <2>2, <3>3 DEF Holding
    <3>5. Made(c) /\ pc[c] # "idle"
      BY <3>3 DEF WriteAttachments, CopyFile, ImportStep, Made
    <3>6. f # "mine"
      BY <1>0, <3>1, <3>3, <3>5, TitleIs DEF MineInv, HomeInv
    <3>7. n \in met
      <4>1. CASE f \in Imports
        BY <1>0, <3>1, <3>3, <3>4, <3>5, <4>1 DEF HomeInv, Made
      <4>2. CASE f = "yours"
        BY <1>0, <2>2, <3>3, <3>5, <4>2 DEF HomeInv
      <4> QED
        BY <1>0, <2>2, <3>6, <4>1, <4>2 DEF Files
    <3>8. UNCHANGED <<dir, filename>> /\ c \in given'
      BY <3>3 DEF WriteAttachments, CopyFile
    <3> QED
      BY <2>1, <3>1, <3>3, <3>4, <3>6, <3>7, <3>8 DEF Overwritten
  <2>3. ASSUME NEW f \in given'
        PROVE  f \in given \/ \E n \in Names : f \in all[n].files'
    <3>1. CASE WriteAttachments(c) \/ CopyFile(c)
      <4>1. /\ dir[c] \in Names
            /\ Put(all, all', dir[c], Holding(all[dir[c]].files, c), all[dir[c]].id)
        BY <1>0, <3>1, ImportPuts
      <4>2. c \in all'[dir[c]].files
        BY <4>1 DEF Put, Holding
      <4>3. given' = given \cup {c}
        BY <3>1 DEF WriteAttachments, CopyFile
      <4> QED
        BY <2>3, <4>1, <4>2, <4>3
    <3> QED
      BY <1>1, <2>3, <3>1, ImportLeaves
  <2>4. ASSUME NEW f \in given, f \notin folder.files, Overwritten(f) PROVE Overwritten(f)'
    BY <2>4, OverwrittenStays, Moves, <1>1
  <2> QED
    BY <1>0, <2>1, <2>2, <2>3, <2>4 DEF FilesSurvive
<1>2. ASSUME UpkeepMove PROVE FilesSurvive'
  <2>1. UNCHANGED given /\ merged \subseteq merged'
    BY <1>2, UpkeepLeaves DEF RemoveCopy
  <2>2. ASSUME NEW n \in Names, NEW f \in all[n].files PROVE f \in all[n].files'
    <3>1. MoveFolder => all[job.dir].files = {}
      BY NoDirIs DEF MoveFolder, NoDir, Dir
    <3> QED
      BY <1>0, <1>2, <3>1, UpkeepWrites
  <2>3. ASSUME NEW f \in folder.files
        PROVE  f \in folder'.files \/ f \in merged' \/ \E n \in Names : f \in all[n].files'
    <3>1. CASE RemoveCopy
      BY <1>0, <3>1 DEF RemoveCopy, UpkeepStep, JobInv, FolderInv
    <3>2. CASE MoveFolder
      <4>1. job.dir \in Names /\ Put(all, all', job.dir, folder.files, folder.id)
        BY <1>0, <3>2, JobIs, UpkeepPuts DEF TypeInv
      <4> QED
        BY <4>1 DEF Put
    <3>3. CASE ReplaceStale
      BY <3>3 DEF ReplaceStale
    <3> QED
      BY <1>2, <3>1, <3>2, <3>3, UpkeepLeaves
  <2>4. ASSUME NEW f \in given, f \notin folder.files, Overwritten(f) PROVE Overwritten(f)'
    BY <2>4, OverwrittenStays, Moves, <1>2
  <2> QED
    BY <1>0, <2>1, <2>2, <2>3, <2>4 DEF FilesSurvive
<1>3. CASE Crash
  BY <1>0, <1>3 DEF Crash, library, FilesSurvive, Overwritten
<1> QED
  BY <1>1, <1>2, <1>3, Moves

(* What a scan goes by holds as long as nothing else happens.              *)
LEMMA ScanInvStep == ASSUME ImportsInv, Next PROVE ScanInv'
<1>0. /\ TypeInv /\ JobInv /\ IdInv /\ FolderInv /\ HomeInv /\ UpkeepType
      /\ job.dir \in Names /\ NoDir.files = {}
  BY JobIs, NoDirIs DEF ImportsInv, TypeInv
<1>1. CASE alone' = FALSE
  BY <1>1 DEF ScanInv
<1>2. CASE StartScan
  <2>1. /\ step' = "adopting" /\ UNCHANGED <<all, folder>>
        /\ job'.scan = TRUE /\ job'.todo = Unmanaged /\ job'.cat = FolderKind
    BY <1>2 DEF StartScan, Starts, UpkeepStep, NoJob
  <2>2. Unmanaged' = Unmanaged
    BY <2>1 DEF Unmanaged
  <2>3. FolderKind # "candidate" => folder.files = {}
    BY DEF FolderKind
  <2> QED
    BY <2>1, <2>2, <2>3 DEF ScanInv, Adopting
<1>3. ASSUME UpkeepMove, ~StartScan, alone' # FALSE PROVE ScanInv'
  <2>1. UNCHANGED alone
    BY <1>3, NoJobIs, FailuresIs
       DEF UpkeepMove, StartAdoption, CheckUnmanaged, StartNormalization, Starts, LockAdopted,
           WriteAdopted, RebuildAdopted, Plan, LockFolder, RemoveCopy, MoveFolder, WriteTitle,
           LinkFolder, FileFolder, RebuildIndex, ReplaceStale, Reconcile, ReconcileFails, NoJob
  <2> SUFFICES ASSUME alone PROVE ScanInv'
    BY <2>1 DEF ScanInv
  <2>2. /\ job.scan /\ step # "idle"
        /\ Adopting => Unmanaged = job.todo /\ (job.cat # "candidate" => folder.files = {})
        /\ step \in {"checked", "describing"} => job.dir \in job.todo
        /\ ~Adopting => Unmanaged \subseteq (IF step = "titling" THEN {job.dir} ELSE {})
        /\ step \in {"replacing", "reconciling", "titling", "linking", "filing", "indexing"} =>
              folder.files = {}
        /\ step \in {"replacing", "reconciling"} => index = Rebuilt
    BY <1>3 DEF ImportsInv, ScanInv
  <2>3. /\ UNCHANGED all => Unmanaged' = Unmanaged /\ Rebuilt' = Rebuilt
    BY DEF Unmanaged, Rebuilt, ManagedNames
  <2>4. CASE \E n \in Names : CheckUnmanaged(n)
    BY <1>0, <2>2, <2>3, <2>4
       DEF CheckUnmanaged, UpkeepStep, library, ScanInv, Adopting, IsNext, UpkeepType, JobType
  <2>5. CASE LockAdopted
    BY <1>0, <2>2, <2>3, <2>5
       DEF LockAdopted, UpkeepStep, library, ScanInv, Adopting, UpkeepType, JobType
  <2>6. CASE WriteAdopted
    <3>1. /\ step = "describing" /\ step' = "adopting" /\ UNCHANGED folder
          /\ job' = [job EXCEPT !.todo = @ \ {job.dir}, !.id = NoMeta]
      BY <2>2, <2>6 DEF WriteAdopted, UpkeepStep
    <3>2. /\ job'.todo = job.todo \ {job.dir} /\ job'.cat = job.cat /\ job'.scan = job.scan
      BY <1>0, <3>1 DEF UpkeepType, JobType
    <3>3. Put(all, all', job.dir, all[job.dir].files, DirId(job.dir))
      BY <1>0, <2>6, UpkeepPuts
    <3>4. \A n \in Names : all[n].id' = IF n = job.dir THEN DirId(job.dir) ELSE all[n].id
      BY <3>3 DEF Put
    <3>5. Unmanaged' = Unmanaged \ {job.dir}
      BY <1>0, <3>4, IdsAre DEF Unmanaged
    <3> QED
      BY <2>2, <3>1, <3>2, <3>5 DEF ScanInv, Adopting
  <2>7. CASE RebuildAdopted
    BY <1>0, <2>2, <2>3, <2>7 DEF RebuildAdopted, UpkeepStep, ScanInv, Adopting
  <2>8. CASE Plan
    BY <1>0, <2>2, <2>3, <2>8
       DEF Plan, UpkeepStep, library, ScanInv, Adopting, UpkeepType, JobType
  <2>9. CASE LockFolder
    BY <1>0, <2>2, <2>3, <2>9
       DEF LockFolder, UpkeepStep, library, ScanInv, Adopting, UpkeepType, JobType
  <2>10. CASE RemoveCopy
    BY <1>0, <2>2, <2>3, <2>10 DEF RemoveCopy, UpkeepStep, ScanInv, Adopting
  <2>11. CASE MoveFolder
    BY <1>0, <2>2, <2>11, UpkeepWrites
       DEF MoveFolder, UpkeepStep, ScanInv, Adopting, Unmanaged
  <2>12. CASE WriteTitle
    <3>1. step = "titling" /\ step' = "linking" /\ UNCHANGED <<folder, job>>
      BY <2>12 DEF WriteTitle, UpkeepStep
    <3>2. Put(all, all', job.dir, all[job.dir].files, job.id) /\ job.id = DirId(job.dir)
      BY <1>0, <2>12, <3>1, UpkeepPuts DEF JobInv
    <3>3. \A n \in Names : all[n].id' = IF n = job.dir THEN DirId(job.dir) ELSE all[n].id
      BY <3>2 DEF Put
    <3>4. Unmanaged' = Unmanaged \ {job.dir}
      BY <1>0, <3>3, IdsAre DEF Unmanaged
    <3> QED
      BY <2>2, <3>1, <3>4 DEF ScanInv, Adopting
  <2>13. CASE LinkFolder
    BY <1>0, <2>2, <2>3, <2>13 DEF LinkFolder, UpkeepStep, ScanInv, Adopting
  <2>14. CASE FileFolder
    BY <1>0, <2>2, <2>14, UpkeepWrites
       DEF FileFolder, UpkeepStep, ScanInv, Adopting, Unmanaged
  <2>15. CASE RebuildIndex
    BY <1>0, <2>2, <2>3, <2>15 DEF RebuildIndex, UpkeepStep, ScanInv, Adopting, NoJob
  <2>16. CASE ReplaceStale
    BY <1>0, <2>2, <2>3, <2>16 DEF ReplaceStale, UpkeepStep, ScanInv, Adopting
  <2> QED
    BY <1>3, <2>2, <2>4, <2>5, <2>6, <2>7, <2>8, <2>9, <2>10, <2>11, <2>12, <2>13, <2>14, <2>15,
       <2>16, FailuresIs
       DEF UpkeepMove, StartAdoption, StartNormalization, Starts, UpkeepStep, Reconcile,
           ReconcileFails
<1> QED
  BY <1>1, <1>2, <1>3, Moves, ImportLeaves DEF Crash

-----------------------------------------------------------------------------
(* What the invariant is for.                                              *)

(* What the user has left satisfies the invariant.                         *)
LEMMA ImportsInitially == Init => ImportsInv
<1> SUFFICES ASSUME Init PROVE ImportsInv
  OBVIOUS
<1>1. PICK l \in Leftovers :
         /\ all = [n \in Names |-> IF n = Title THEN l.all ELSE NoDir]
         /\ folder = l.cat
         /\ links = IF l.linked THEN {<<Title, Title>>} ELSE {}
         /\ manifest = IF l.all.filed THEN {ItemIdOf} ELSE {}
         /\ index = IF l.all.id = ItemIdOf THEN {<<ItemIdOf, Title>>} ELSE {}
         /\ given = l.all.files \cup l.cat.files
  BY DEF Init
<1>2. /\ locks = {} /\ merged = {} /\ met = {} /\ alone = FALSE
      /\ pc = [c \in Imports |-> "idle"] /\ dir = [f \in Files |-> Title]
      /\ filename = [f \in Files |-> FileName]
      /\ step = "idle" /\ job = NoJob /\ rounds = 0 /\ crashes = 0
  BY DEF Init
<1>3. /\ l.all \in DirType /\ l.all.files \subseteq {"mine"}
      /\ l.all.id \in {NoMeta, Absent, ItemIdOf} /\ (l.all.id = Absent => l.all = NoDir)
      /\ l.cat \in DirType /\ l.cat.files \subseteq {"yours"} /\ l.cat.filed = FALSE
      /\ l.cat.id \in {NoMeta, Absent, ItemIdOf, Elsewhere}
      /\ (l.cat.id = Absent => l.cat = NoDir)
      /\ (l.cat.id = ItemIdOf => l.all.id = ItemIdOf)
      /\ (l.linked => l.all.filed /\ ~Exists(l.cat))
      /\ (l.all.filed => l.all.id = ItemIdOf)
  <2>1. /\ l.all \in {NoDir, Dir({"mine"}, NoMeta, FALSE)}
                        \cup {Dir({"mine"}, ItemIdOf, filed) : filed \in BOOLEAN}
        /\ l.cat \in {NoDir, Dir({}, NoMeta, FALSE)}
                        \cup {Dir({"yours"}, id, FALSE) :
                                  id \in {NoMeta, ItemIdOf, Elsewhere}}
        /\ l.cat.id = ItemIdOf => l.all.id = ItemIdOf
        /\ l.linked => l.all.filed /\ ~Exists(l.cat)
    BY LeftoversAssumption DEF LeftoversOK
  <2>2. \/ l.all = Dir({}, Absent, FALSE) \/ l.all = Dir({"mine"}, NoMeta, FALSE)
        \/ l.all = Dir({"mine"}, ItemIdOf, TRUE) \/ l.all = Dir({"mine"}, ItemIdOf, FALSE)
    BY <2>1 DEF NoDir
  <2>3. /\ l.all \in DirType /\ l.all.files \subseteq {"mine"}
        /\ l.all.id \in {NoMeta, Absent, ItemIdOf} /\ (l.all.id = Absent => l.all = NoDir)
        /\ (l.all.filed => l.all.id = ItemIdOf)
    <3>1. CASE l.all = Dir({}, Absent, FALSE)
      BY <3>1, IdsAre DEF Dir, NoDir, DirType
    <3>2. CASE l.all = Dir({"mine"}, NoMeta, FALSE)
      BY <3>2, IdsAre DEF Dir, DirType, Files
    <3>3. CASE l.all = Dir({"mine"}, ItemIdOf, TRUE)
      BY <3>3, IdsAre DEF Dir, DirType, Files
    <3>4. CASE l.all = Dir({"mine"}, ItemIdOf, FALSE)
      BY <3>4, IdsAre DEF Dir, DirType, Files
    <3> QED
      BY <2>2, <3>1, <3>2, <3>3, <3>4
  <2>4. \/ l.cat = Dir({}, Absent, FALSE) \/ l.cat = Dir({}, NoMeta, FALSE)
        \/ \E id \in {NoMeta, ItemIdOf, Elsewhere} : l.cat = Dir({"yours"}, id, FALSE)
    BY <2>1 DEF NoDir
  <2>5. /\ l.cat \in DirType /\ l.cat.files \subseteq {"yours"} /\ l.cat.filed = FALSE
        /\ l.cat.id \in {NoMeta, Absent, ItemIdOf, Elsewhere}
        /\ (l.cat.id = Absent => l.cat = NoDir)
    <3>1. CASE l.cat = Dir({}, Absent, FALSE)
      BY <3>1, IdsAre DEF Dir, NoDir, DirType
    <3>2. CASE l.cat = Dir({}, NoMeta, FALSE)
      BY <3>2, IdsAre DEF Dir, DirType
    <3>3. ASSUME NEW id \in {NoMeta, ItemIdOf, Elsewhere}, l.cat = Dir({"yours"}, id, FALSE)
          PROVE  /\ l.cat \in DirType /\ l.cat.files = {"yours"} /\ l.cat.filed = FALSE
                 /\ l.cat.id = id /\ id # Absent
      BY <3>3, IdsAre DEF Dir, DirType, Files
    <3> QED
      BY <2>4, <3>1, <3>2, <3>3
  <2> QED
    BY <2>1, <2>3, <2>5
<1>4. Title \in Names /\ NoDir \in DirType /\ ~Exists(NoDir) /\ NoDir.files = {}
  BY TitleIs, NoDirIs
<1>5. \A n \in Names : all[n] = IF n = Title THEN l.all ELSE NoDir
  BY <1>1
<1>6. TypeInv
  BY <1>1, <1>2, <1>3, <1>4, <1>5, NoJobIs, IdsAre
     DEF TypeInv, AllType, LibraryType, CallsType, UpkeepType, HistoryType, Places, Files,
         FileName, Title
<1>7. JobInv /\ ScanInv
  BY <1>2, NoJobIs DEF JobInv, ScanInv, Adopting
<1>8. IdInv /\ FolderInv
  BY <1>1, <1>2, <1>3, <1>4, <1>5, IdsAre DEF IdInv, FolderInv, Exists
<1>9. LinkInv
  BY <1>1, <1>3, <1>4, <1>5, IdsAre DEF LinkInv, Exists
<1>10. HomeInv
  <2>1. \A c \in Imports : ~Made(c) /\ c \notin given
    BY <1>1, <1>2, <1>3, ImportsAssumption DEF Made
  <2>2. ASSUME NEW n \in Names, NEW f \in all[n].files PROVE f \in given /\ dir[f] = n
    BY <1>1, <1>2, <1>3, <1>4, <1>5 DEF Files
  <2> QED
    BY <1>1, <1>3, <1>4, <1>5, <2>1, <2>2 DEF HomeInv, Exists
<1>12. MineInv
  BY <1>1, <1>2, <1>3, <1>4, <1>5 DEF MineInv
<1>11. FilesSurvive
  BY <1>1, <1>4, <1>5 DEF FilesSurvive
<1> QED
  BY <1>6, <1>7, <1>8, <1>9, <1>10, <1>11, <1>12 DEF ImportsInv

(* The invariant is one.                                                   *)
LEMMA ImportsInvariance == Spec => []ImportsInv
<1>1. ImportsInv /\ [Next]_vars => ImportsInv'
  <2> SUFFICES ASSUME ImportsInv, [Next]_vars PROVE ImportsInv'
    OBVIOUS
  <2>1. CASE Next
    BY <2>1, ImportsTypeStep, JobInvStep, IdInvStep, FolderInvStep, LinkInvStep, HomeInvStep,
       MineInvStep, SurvivalStep, ScanInvStep DEF ImportsInv
  <2>2. CASE UNCHANGED vars
    BY <2>2
       DEF vars, library, upkeep, ImportsInv, TypeInv, AllType, LibraryType, CallsType,
           UpkeepType,
                HistoryType, JobInv, Adopting, FolderId, IdInv, FolderInv, Exists, LinkInv,
                HomeInv, Made, MineInv, FilesSurvive, Overwritten, ScanInv, Unmanaged, Rebuilt, ManagedNames, Managed
  <2> QED
    BY <2>1, <2>2
<1> QED
  BY <1>1, ImportsInitially, PTL DEF Spec

(* The variables keep their types; names under the category, ids and the   *)
(* ends of junctions stay as TypeOK says.                                  *)
THEOREM TypeCorrect == Spec => []TypeOK
<1>1. ImportsInv => TypeOK
  <2> SUFFICES ASSUME ImportsInv PROVE TypeOK
    OBVIOUS
  <2>1. TypeInv /\ IdInv /\ FolderInv /\ LinkInv
    BY DEF ImportsInv
  <2>2. \A n \in Names : /\ all[n].id \in Ids \cup {NoMeta, Absent} /\ all[n].files \subseteq Files
                         /\ all[n].filed \in BOOLEAN
    BY <2>1, DirFields DEF TypeInv, AllType
  <2>3. folder \in {NoDir} \cup [files : SUBSET Files, id : Ids \cup {NoMeta}, filed : {FALSE}]
    BY <2>1 DEF TypeInv, LibraryType, FolderInv, Exists, DirType
  <2>4. ASSUME NEW n \in ManagedNames, NEW m \in ManagedNames, all[n].id = all[m].id PROVE n = m
    BY <2>1, <2>4, IdsAre DEF IdInv, ManagedNames, Managed
  <2> QED
    BY <2>1, <2>2, <2>3, <2>4 DEF TypeOK, TypeInv, LibraryType, LinkInv, CallsType
<1> QED
  BY <1>1, ImportsInvariance, PTL

(* No file that the user or an import put into the library gets lost, but  *)
(* for a copy of an item, and for a file in a directory that an import     *)
(* shares, which that import has written over (FilesSurvive).              *)
THEOREM FilesStay == Spec => []FilesSurvive
BY ImportsInvariance, PTL DEF ImportsInv

(* A scan that ends well leaves all in agreement, but for strays.          *)
LEMMA RepairStep ==
    ASSUME ImportsInv, Next,
           step = "reconciling", Stuck = {}, step' = "idle", crashes' = crashes, alone
    PROVE  /\ Repaired'
           /\ \A n \in Names \ Straying : Linked(n)' => all[n].filed'
<1>0. TypeInv /\ IdInv /\ LinkInv /\ ScanInv /\ crashes \in Nat
  BY DEF ImportsInv, TypeInv, HistoryType
<1>1. Reconcile
  BY <1>0, Moves, ImportLeaves
     DEF UpkeepMove, Crash, StartAdoption, CheckUnmanaged, StartNormalization, StartScan, Failures,
       CheckFails, LockAdopted, LockAdoptedFails, WriteAdopted, RebuildAdopted, Plan, LockFolder,
       LockFolderFails, RemoveCopy, MoveFolder, MoveFolderFails, WriteTitle, LinkFolder,
       LinkFolderFails, FileFolder, RebuildIndex, ReplaceStale, ReconcileFails,
       Fails, Starts, UpkeepStep
<1>2. /\ index' = Rebuilt /\ UNCHANGED folder /\ Projects(ToLink \cup Unlisted)
      /\ manifest' =
            (manifest \cup IdsOf({n \in ManagedNames : all[n].filed} \cup ToFile))
                \ IdsOf(ToUnlink)
  BY <1>1 DEF Reconcile
<1>3. links' = {l \in links : l[1] \notin ToUnlink} \cup {<<n, n>> : n \in ToLink}
  <2>1. /\ (ToLink \cup Unlisted) \cap ToUnlink = ToUnlink
        /\ (ToLink \cup Unlisted) \cap ToLink = ToLink
    BY DEF ToUnlink
  <2> QED
    BY <1>2, <2>1 DEF Projects
<1>4. \A n \in Names : /\ all[n].id' = all[n].id
                       /\ n \in ToFile => all[n].filed' = TRUE
                       /\ n \notin ToFile => all[n].filed' = all[n].filed
  <2>1. (ToLink \cup Unlisted) \cap ToFile = ToFile
    BY DEF ToFile
  <2> QED
    BY <1>0, <1>2, <2>1, ProjectsIs
<1>5. /\ ManagedNames' = ManagedNames /\ Unmanaged' = Unmanaged /\ Rebuilt' = Rebuilt
  BY <1>4 DEF ManagedNames, Managed, Unmanaged, Rebuilt
<1>6. Unmanaged = {} /\ folder.files = {}
  BY <1>0 DEF ScanInv, Adopting
<1>7. ASSUME NEW n \in ManagedNames, NEW m \in ManagedNames, all[n].id = all[m].id PROVE n = m
  BY <1>0, <1>7, IdsAre DEF IdInv, ManagedNames, Managed
<1>8. ASSUME NEW n \in ManagedNames, all[n].filed'
      PROVE  Linked(n)' /\ all[n].id' \in manifest'
  <2>1. n \in Names /\ (all[n].filed \/ n \in ToFile) /\ n \notin ToUnlink
    BY <1>4, <1>8 DEF ManagedNames, ToFile, ToUnlink, Unlisted
  <2>2. all[n].id' \in manifest'
    <3>1. all[n].id \in IdsOf({m \in ManagedNames : all[m].filed} \cup ToFile)
      BY <1>8, <2>1 DEF IdsOf
    <3>2. all[n].id \notin IdsOf(ToUnlink)
      BY <1>7, <2>1 DEF IdsOf, ToUnlink, Unlisted
    <3> QED
      BY <1>2, <1>4, <2>1, <3>1, <3>2
  <2>3. CASE n \in ToLink
    <3>1. <<n, n>> \in links' /\ <<n, n>>[2] = n
      BY <1>3, <2>3
    <3>2. \E l \in links' : l[2] = n
      BY <3>1
    <3> QED
      BY <2>2, <3>2 DEF Linked
  <2>4. CASE n \notin ToLink
    <3>1. PICK l \in links : l[2] = n
      BY <2>1, <2>4 DEF ToLink, ToFile, Unlisted, Linked
    <3>2. l[1] \notin ToUnlink
      <4> SUFFICES ASSUME l[1] \in ToUnlink PROVE FALSE
        OBVIOUS
      <4>1. l[1] # n /\ l[1] = Title
        BY <1>0, <2>1, <3>1 DEF LinkInv
      <4>2. PICK k \in links : k[2] = Title
        BY <4>1 DEF ToUnlink, Unlisted, Linked
      <4>3. k[1] = l[1]
        BY <1>0, <4>1, <4>2 DEF LinkInv
      <4>4. k = l
        BY <1>0, <4>3 DEF LinkInv
      <4> QED
        BY <3>1, <4>1, <4>2, <4>4
    <3>3. l \in links'
      BY <1>3, <3>2
    <3>4. \E k \in links' : k[2] = n
      BY <3>1, <3>3
    <3> QED
      BY <2>2, <3>4 DEF Linked
  <2> QED
    BY <2>2, <2>3, <2>4
<1>9. ASSUME NEW n \in Names \ Straying, Linked(n)' PROVE all[n].filed'
  <2>1. PICK l \in links' : l[2] = n
    BY <1>9 DEF Linked
  <2>2. CASE \E m \in ToLink : l = <<m, m>>
    <3>1. n \in ToLink
      BY <2>1, <2>2
    <3> QED
      BY <1>4, <3>1 DEF ToLink, ToFile, Unlisted
  <2>3. CASE l \in links /\ l[1] \notin ToUnlink
    <3>1. Linked(n) /\ Exists(all[n])
      BY <1>0, <2>1, <2>3 DEF Linked, LinkInv
    <3>2. n \in ManagedNames
      BY <1>0, <1>6, <3>1 DEF ManagedNames, Managed, Unmanaged, Exists, TypeInv, AllType, DirType
    <3>3. n \notin ToUnlink
      BY <1>9, <2>1, <2>3 DEF Straying
    <3> QED
      BY <1>0, <1>4, <3>1, <3>2, <3>3, DirFields DEF ToFile, Unlisted, TypeInv, AllType
  <2> QED
    BY <1>3, <2>1, <2>2, <2>3
<1> QED
  BY <1>2, <1>5, <1>6, <1>8, <1>9 DEF Repaired

(* A scan that ends well, undisturbed, leaves a library in which metadata, *)
(* junctions, manifest and index agree, but for items whose category an    *)
(* import wrote away and whose junction goes by another name (ScanRepairs). *)
THEOREM ScansRepair == Spec => ScanRepairs
<1>1. ImportsInv /\ [Next]_vars =>
         [step = "reconciling" /\ Stuck = {} /\ step' = "idle" /\ crashes' = crashes /\ alone
             => /\ Repaired'
                /\ \A n \in Names \ Straying : Linked(n)' => all[n].filed']_vars
  BY RepairStep
<1> QED
  BY <1>1, ImportsInvariance, PTL DEF Spec, ScanRepairs

=============================================================================
