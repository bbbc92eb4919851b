-------------------------- MODULE ItemWritesProofs --------------------------
(***************************************************************************)
(* What holds of the writers of one item for any number of requests, any   *)
(* attachments and any number of crashes.                                  *)
(***************************************************************************)
EXTENDS ItemWrites, TLAPS

(* What the step a request is at says of its operation.                    *)
CallInv ==
    \A r \in Requests :
        /\ pc[r] # "idle" => op[r] \in AllOperations
        /\ pc[r] \in {"acquire", "candidate", "empty", "rmdir", "unlock"} => Locks(r)
        /\ pc[r] \in {"read", "open", "write"}
             /\ op[r] \in {"addFile", "upload", "attach"} => file[r] # NoFile
        /\ pc[r] \in {"empty", "rmdir"} => op[r] = "delete"
        /\ pc[r] = "unlock" /\ IndexesUnderLock(r) => result[r] # "none"

(* While a request holds its guard its lock file exists, and no other      *)
(* request holds a guard of the same key.                                  *)
LockInv ==
    /\ \A r \in Requests : Holds(r) => KeyOf(op[r]) \in lockFiles
    /\ \A r, s \in Requests :
          Holds(r) /\ Holds(s) /\ KeyOf(op[r]) = KeyOf(op[s]) => r = s

(* Between its read and its rename a locking request misses only changes   *)
(* of other keys.                                                          *)
MissedInv ==
    /\ \A r \in Requests : \A v \in missed[r] : pc[v] # "idle"
    /\ \A r \in Requests : Locks(r) /\ pc[r] \in {"open", "write", "rename"} =>
          \A v \in missed[r] : KeyOf(op[v]) # KeyOf(op[r])
    /\ \A w, v \in Requests : <<w, v>> \in clobbered =>
          pc[w] # "idle" /\ pc[v] # "idle"

(* A patch whose request has missed nothing works on the text in place.    *)
PatchInv ==
    \A r \in Requests :
        op[r] = "patch" /\ pc[r] \in {"open", "write", "rename"} /\ missed[r] = {}
          => meta = snap[r]

Overwritten(v) == \E w \in Requests : <<w, v>> \in clobbered

(* Until a delete removes them, metadata.toml is whole, has every published *)
(* edit that was not overwritten, and lists files that are there or in the *)
(* trash.                                                                  *)
TextInv ==
    ~emptied =>
        /\ meta.state = "whole"
        /\ meta.files \subseteq disk \cup trashed
        /\ \A v \in published : v \in meta.edits \/ Overwritten(v)

(* Until then a request that is to rewrite it works from such a text, but  *)
(* for the edits it has missed, and the staging file is its own.           *)
WriterInv(r) ==
    ~emptied =>
        /\ pc[r] \in {"open", "write", "rename"} =>
              /\ snap[r].state = "whole"
              /\ snap[r].files \subseteq disk \cup trashed
              /\ \A v \in published : v \in snap[r].edits \cup missed[r] \/ Overwritten(v)
        /\ pc[r] \in {"write", "rename"} => tmpOwner = r /\ tmp.state # "absent"
        /\ pc[r] = "rename" => tmp = Edited(r)
        /\ pc[r] \in {"read", "open", "write", "rename"}
             /\ op[r] \in {"addFile", "upload", "attach"} => file[r] \in disk \cup trashed

(* Without a fault a lock file has a holder, and the staging file too.     *)
LeakInv ==
    faults = 0 =>
        /\ \A k \in lockFiles : \E r \in Requests : Holds(r) /\ KeyOf(op[r]) = k
        /\ tmp.state # "absent" =>
              tmpOwner \in Requests /\ pc[tmpOwner] \in {"write", "rename"}

-----------------------------------------------------------------------------
(* The document a request computes is a document.                          *)
LEMMA EditedType ==
    ASSUME TypeOK, NEW r \in Requests,
           op[r] \in {"addFile", "upload", "attach"} => file[r] \in Files
    PROVE  Edited(r) \in Doc
  BY DEF TypeOK, Edited, Doc

LEMMA DocConstants == Absent \in Doc /\ Torn \in Doc
  BY DEF Absent, Torn, Doc

(* Typing is preserved by a step.                                          *)
LEMMA TypeStep ==
    ASSUME TypeOK, CallInv, [Next]_vars
    PROVE  TypeOK'
<1> USE MaxFaultsAssumption DEF Goto, Fail, Steps, call, stage, hist
<1>1. ASSUME NEW r \in Requests, NEW o \in Operations,
             NEW f \in Files \cup {NoFile}, Arrive(r, o, f)
      PROVE  TypeOK'
  BY <1>1, DocConstants, OperationsAssumption DEF Arrive, TypeOK
<1>2. ASSUME NEW r \in Requests, Lookup(r)
      PROVE  TypeOK'
  BY <1>2 DEF Lookup, TypeOK
<1>3. ASSUME NEW r \in Requests, Acquire(r)
      PROVE  TypeOK'
  <2>1. KeyOf(op[r]) \in {"id", "dir"}
    BY <1>3 DEF Acquire, CallInv, Locks, AllOperations, Unlocked, KeyOf
  <2> QED BY <1>3, <2>1 DEF Acquire, TypeOK
<1>4. ASSUME NEW r \in Requests, AcquireFails(r)
      PROVE  TypeOK'
  <2>1. KeyOf(op[r]) \in {"id", "dir"}
    BY <1>4 DEF AcquireFails, CallInv, Locks, AllOperations, Unlocked, KeyOf
  <2>2. lockFiles' \subseteq {"id", "dir"}
    BY <1>4, <2>1 DEF AcquireFails, TypeOK
  <2>4. faults' \in 0..MaxFaults
    BY <1>4 DEF AcquireFails, TypeOK
  <2>3. pc' \in [Requests -> Steps] /\ result' \in
          [Requests -> {"none", "ok", "error", "absent", "lost"}]
    BY <1>4 DEF AcquireFails, TypeOK
  <2> QED BY <1>4, <2>2, <2>3, <2>4 DEF AcquireFails, TypeOK
<1>5. ASSUME NEW r \in Requests, CopyTo(r)
      PROVE  TypeOK'
  BY <1>5 DEF CopyTo, TypeOK
<1>6. ASSUME NEW r \in Requests, WriteUnique(r)
      PROVE  TypeOK'
  <2>1. pc' \in [Requests -> Steps] /\ result' \in
          [Requests -> {"none", "ok", "error", "absent", "lost"}]
    BY <1>6 DEF WriteUnique, TypeOK
  <2>2. disk' \subseteq Files /\ file' \in [Requests -> Files \cup {NoFile}]
    BY <1>6 DEF WriteUnique, TypeOK
  <2>3. dir' \in BOOLEAN
    BY <1>6 DEF WriteUnique, TypeOK
  <2> QED BY <1>6, <2>1, <2>2, <2>3 DEF WriteUnique, TypeOK
<1>7. ASSUME NEW r \in Requests, MoveToTrash(r)
      PROVE  TypeOK'
  BY <1>7 DEF MoveToTrash, TypeOK
<1>8. ASSUME NEW r \in Requests, Read(r)
      PROVE  TypeOK'
  BY <1>8 DEF Read, TypeOK
<1>9. ASSUME NEW r \in Requests, SaveCandidate(r)
      PROVE  TypeOK'
  BY <1>9 DEF SaveCandidate, TypeOK
<1>10. ASSUME NEW r \in Requests, OpenTmp(r)
      PROVE  TypeOK'
  BY <1>10, DocConstants DEF OpenTmp, TypeOK
<1>11. ASSUME NEW r \in Requests, WriteTmp(r)
      PROVE  TypeOK'
  <2>1. Edited(r) \in Doc
    BY <1>11, EditedType DEF WriteTmp, TypeOK, CallInv
  <2> QED BY <1>11, <2>1 DEF WriteTmp, TypeOK
<1>12. ASSUME NEW r \in Requests, WriteFails(r)
      PROVE  TypeOK'
  BY <1>12 DEF WriteFails, TypeOK
<1>13. ASSUME NEW r \in Requests, Rename(r)
      PROVE  TypeOK'
  BY <1>13, DocConstants DEF Rename, Changed, TypeOK
<1>14. ASSUME NEW r \in Requests, RemoveEntries(r)
      PROVE  TypeOK'
  <2>1. pc' \in [Requests -> Steps] /\ result' \in
          [Requests -> {"none", "ok", "error", "absent", "lost"}]
    BY <1>14 DEF RemoveEntries, TypeOK
  <2>2. meta' \in Doc /\ tmp' \in Doc /\ tmpOwner' \in Requests \cup {NoOne}
    BY <1>14, DocConstants DEF RemoveEntries, TypeOK
  <2>3. saved' \in BOOLEAN /\ disk' \subseteq Files
    BY <1>14 DEF RemoveEntries, TypeOK
  <2>4. missed' \in [Requests -> SUBSET Requests]
    BY <1>14 DEF RemoveEntries, Changed, TypeOK
  <2> QED BY <1>14, <2>1, <2>2, <2>3, <2>4 DEF RemoveEntries, TypeOK
<1>15. ASSUME NEW r \in Requests, RemoveDir(r)
      PROVE  TypeOK'
  <2>1. pc' \in [Requests -> Steps] /\ result' \in
          [Requests -> {"none", "ok", "error", "absent", "lost"}]
    BY <1>15 DEF RemoveDir, TypeOK
  <2>2. dir' \in BOOLEAN
    BY <1>15 DEF RemoveDir, TypeOK
  <2> QED BY <1>15, <2>1, <2>2 DEF RemoveDir, TypeOK
<1>16. ASSUME NEW r \in Requests, Reindex(r)
      PROVE  TypeOK'
  BY <1>16 DEF Reindex, TypeOK
<1>17. ASSUME NEW r \in Requests, Unlock(r)
      PROVE  TypeOK'
  BY <1>17 DEF Unlock, TypeOK
<1>18. CASE Crash
  BY <1>18 DEF Crash, TypeOK
<1>19. CASE UNCHANGED vars
  BY <1>19 DEF vars, TypeOK
<1> QED
  BY <1>1, <1>2, <1>3, <1>4, <1>5, <1>6, <1>7, <1>8, <1>9, <1>10, <1>11, <1>12,
     <1>13, <1>14, <1>15, <1>16, <1>17, <1>18, <1>19 DEF Next, Step

(* The facts about control are preserved by a step.                        *)
LEMMA CallStep ==
    ASSUME TypeOK, CallInv, [Next]_vars
    PROVE  CallInv'
<1> USE DEF Goto, Fail, Holds, Locks, IndexesUnderLock, LockedSteps, Unlocked,
            call, hist
<1>1. ASSUME NEW r \in Requests, NEW o \in Operations,
             NEW f \in Files \cup {NoFile}, Arrive(r, o, f)
      PROVE  CallInv'
  BY <1>1, OperationsAssumption DEF Arrive, TypeOK, CallInv
<1>2. ASSUME NEW r \in Requests, Lookup(r)
      PROVE  CallInv'
  BY <1>2 DEF Lookup, Ready, TypeOK, CallInv
<1>3. ASSUME NEW r \in Requests, Acquire(r)
      PROVE  CallInv'
  BY <1>3 DEF Acquire, TypeOK, CallInv
<1>4. ASSUME NEW r \in Requests, AcquireFails(r)
      PROVE  CallInv'
  BY <1>4 DEF AcquireFails, TypeOK, CallInv
<1>5. ASSUME NEW r \in Requests, CopyTo(r)
      PROVE  CallInv'
  BY <1>5 DEF CopyTo, TypeOK, CallInv
<1>6. ASSUME NEW r \in Requests, WriteUnique(r)
      PROVE  CallInv'
  BY <1>6, NoFileAssumption
     DEF WriteUnique, DirKeyed, IdKeyed, AllOperations, TypeOK, CallInv
<1>7. ASSUME NEW r \in Requests, MoveToTrash(r)
      PROVE  CallInv'
  BY <1>7 DEF MoveToTrash, TypeOK, CallInv
<1>8. ASSUME NEW r \in Requests, Read(r)
      PROVE  CallInv'
  BY <1>8 DEF Read, DirKeyed, IdKeyed, AllOperations, TypeOK, CallInv
<1>9. ASSUME NEW r \in Requests, SaveCandidate(r)
      PROVE  CallInv'
  BY <1>9 DEF SaveCandidate, TypeOK, CallInv
<1>10. ASSUME NEW r \in Requests, OpenTmp(r)
      PROVE  CallInv'
  BY <1>10 DEF OpenTmp, TypeOK, CallInv
<1>11. ASSUME NEW r \in Requests, WriteTmp(r)
      PROVE  CallInv'
  BY <1>11 DEF WriteTmp, TypeOK, CallInv
<1>12. ASSUME NEW r \in Requests, WriteFails(r)
      PROVE  CallInv'
  BY <1>12 DEF WriteFails, TypeOK, CallInv
<1>13. ASSUME NEW r \in Requests, Rename(r)
      PROVE  CallInv'
  BY <1>13 DEF Rename, TypeOK, CallInv
<1>14. ASSUME NEW r \in Requests, RemoveEntries(r)
      PROVE  CallInv'
  BY <1>14 DEF RemoveEntries, TypeOK, CallInv
<1>15. ASSUME NEW r \in Requests, RemoveDir(r)
      PROVE  CallInv'
  BY <1>15 DEF RemoveDir, TypeOK, CallInv
<1>16. ASSUME NEW r \in Requests, Reindex(r)
      PROVE  CallInv'
  BY <1>16 DEF Reindex, TypeOK, CallInv
<1>17. ASSUME NEW r \in Requests, Unlock(r)
      PROVE  CallInv'
  BY <1>17 DEF Unlock, TypeOK, CallInv
<1>18. CASE Crash
  BY <1>18 DEF Crash, TypeOK, CallInv
<1>19. CASE UNCHANGED vars
  BY <1>19 DEF vars, CallInv
<1> QED
  BY <1>1, <1>2, <1>3, <1>4, <1>5, <1>6, <1>7, <1>8, <1>9, <1>10, <1>11, <1>12,
     <1>13, <1>14, <1>15, <1>16, <1>17, <1>18, <1>19 DEF Next, Step

-----------------------------------------------------------------------------
(* Locking: the guards are kept by every step that takes none.             *)
LEMMA KeepLocks ==
    ASSUME LockInv, UNCHANGED op, lockFiles \subseteq lockFiles',
           \A s \in Requests : Holds(s)' => Holds(s)
    PROVE  LockInv'
  BY DEF LockInv

LEMMA LockStep ==
    ASSUME TypeOK, CallInv, LockInv, [Next]_vars
    PROVE  LockInv'
<1> USE DEF Goto, Fail
<1>1. ASSUME NEW r \in Requests, NEW o \in Operations,
             NEW f \in Files \cup {NoFile}, Arrive(r, o, f)
      PROVE  LockInv'
  <2>1. \A s \in Requests : Holds(s)' => s # r /\ Holds(s)
    BY <1>1 DEF Arrive, TypeOK, Holds, Locks, IndexesUnderLock, LockedSteps
  <2>2. UNCHANGED lockFiles /\ \A s \in Requests : s # r => op'[s] = op[s]
    BY <1>1 DEF Arrive, TypeOK
  <2> QED BY <2>1, <2>2 DEF LockInv
<1>2. ASSUME NEW r \in Requests, Acquire(r)
      PROVE  LockInv'
  <2>1. CASE KeyOf(op[r]) \in lockFiles
    <3>1. \A s \in Requests : Holds(s)' => Holds(s)
      BY <1>2, <2>1 DEF Acquire, TypeOK, Holds, Locks, IndexesUnderLock, LockedSteps, call
    <3> QED BY <1>2, <2>1, <3>1, KeepLocks DEF Acquire, call
  <2>2. CASE KeyOf(op[r]) \notin lockFiles
    <3>1. \A s \in Requests : s # r /\ Holds(s)' => Holds(s)
      BY <1>2, <2>2 DEF Acquire, TypeOK, Holds, Locks, IndexesUnderLock, LockedSteps, call
    <3>2. UNCHANGED op /\ lockFiles' = lockFiles \cup {KeyOf(op[r])}
      BY <1>2, <2>2 DEF Acquire, call
    <3>3. \A s \in Requests : Holds(s) => KeyOf(op[s]) # KeyOf(op[r])
      BY <2>2 DEF LockInv
    <3> QED BY <3>1, <3>2, <3>3 DEF LockInv
  <2> QED BY <2>1, <2>2
<1>3. ASSUME NEW r \in Requests, Unlock(r)
      PROVE  LockInv'
  <2>1. Holds(r) /\ \A s \in Requests : Holds(s)' => s # r /\ Holds(s)
    BY <1>3 DEF Unlock, TypeOK, CallInv, Holds, Locks, IndexesUnderLock, LockedSteps, call
  <2>2. UNCHANGED op /\ lockFiles' = lockFiles \ {KeyOf(op[r])}
    BY <1>3 DEF Unlock, call
  <2> QED BY <2>1, <2>2 DEF LockInv
<1>4. CASE Crash
  <2>1. \A s \in Requests : ~Holds(s)'
    BY <1>4 DEF Crash, TypeOK, Holds, LockedSteps
  <2> QED BY <2>1 DEF LockInv
<1>5. CASE UNCHANGED vars
  BY <1>5, KeepLocks DEF vars, call, Holds, Locks, IndexesUnderLock
<1>6. ASSUME NEW r \in Requests, Lookup(r)
      PROVE  LockInv'
  <2>1. \A s \in Requests : Holds(s)' => Holds(s)
    BY <1>6
       DEF Lookup, Ready, TypeOK, CallInv, Holds, Locks, IndexesUnderLock, LockedSteps,
           call
  <2> QED BY <1>6, <2>1, KeepLocks DEF Lookup, call
<1>7. ASSUME NEW r \in Requests, AcquireFails(r)
      PROVE  LockInv'
  <2>1. \A s \in Requests : Holds(s)' => Holds(s)
    BY <1>7
       DEF AcquireFails, TypeOK, CallInv, Holds, Locks, IndexesUnderLock, LockedSteps,
           call
  <2> QED BY <1>7, <2>1, KeepLocks DEF AcquireFails, call
<1>8. ASSUME NEW r \in Requests, CopyTo(r)
      PROVE  LockInv'
  <2>1. \A s \in Requests : Holds(s)' => Holds(s)
    BY <1>8 DEF CopyTo, TypeOK, CallInv, Holds, Locks, IndexesUnderLock, LockedSteps, call
  <2> QED BY <1>8, <2>1, KeepLocks DEF CopyTo, call
<1>9. ASSUME NEW r \in Requests, WriteUnique(r)
      PROVE  LockInv'
  <2>1. \A s \in Requests : Holds(s)' => Holds(s)
    BY <1>9
       DEF WriteUnique, TypeOK, CallInv, Holds, Locks, IndexesUnderLock, LockedSteps,
           call
  <2> QED BY <1>9, <2>1, KeepLocks DEF WriteUnique, call
<1>10. ASSUME NEW r \in Requests, MoveToTrash(r)
      PROVE  LockInv'
  <2>1. \A s \in Requests : Holds(s)' => Holds(s)
    BY <1>10
       DEF MoveToTrash, TypeOK, CallInv, Holds, Locks, IndexesUnderLock, LockedSteps,
           call
  <2> QED BY <1>10, <2>1, KeepLocks DEF MoveToTrash, call
<1>11. ASSUME NEW r \in Requests, Read(r)
      PROVE  LockInv'
  <2>1. \A s \in Requests : Holds(s)' => Holds(s)
    BY <1>11 DEF Read, TypeOK, CallInv, Holds, Locks, IndexesUnderLock, LockedSteps, call
  <2> QED BY <1>11, <2>1, KeepLocks DEF Read, call
<1>12. ASSUME NEW r \in Requests, SaveCandidate(r)
      PROVE  LockInv'
  <2>1. \A s \in Requests : Holds(s)' => Holds(s)
    BY <1>12
       DEF SaveCandidate, TypeOK, CallInv, Holds, Locks, IndexesUnderLock, LockedSteps,
           call
  <2> QED BY <1>12, <2>1, KeepLocks DEF SaveCandidate, call
<1>13. ASSUME NEW r \in Requests, OpenTmp(r)
      PROVE  LockInv'
  <2>1. \A s \in Requests : Holds(s)' => Holds(s)
    BY <1>13
       DEF OpenTmp, TypeOK, CallInv, Holds, Locks, IndexesUnderLock, LockedSteps, call
  <2> QED BY <1>13, <2>1, KeepLocks DEF OpenTmp, call
<1>14. ASSUME NEW r \in Requests, WriteTmp(r)
      PROVE  LockInv'
  <2>1. \A s \in Requests : Holds(s)' => Holds(s)
    BY <1>14
       DEF WriteTmp, TypeOK, CallInv, Holds, Locks, IndexesUnderLock, LockedSteps, call
  <2> QED BY <1>14, <2>1, KeepLocks DEF WriteTmp, call
<1>15. ASSUME NEW r \in Requests, WriteFails(r)
      PROVE  LockInv'
  <2>1. \A s \in Requests : Holds(s)' => Holds(s)
    BY <1>15
       DEF WriteFails, TypeOK, CallInv, Holds, Locks, IndexesUnderLock, LockedSteps,
           call
  <2> QED BY <1>15, <2>1, KeepLocks DEF WriteFails, call
<1>16. ASSUME NEW r \in Requests, Rename(r)
      PROVE  LockInv'
  <2>1. \A s \in Requests : Holds(s)' => Holds(s)
    BY <1>16
       DEF Rename, TypeOK, CallInv, Holds, Locks, IndexesUnderLock, LockedSteps, call
  <2> QED BY <1>16, <2>1, KeepLocks DEF Rename, call
<1>17. ASSUME NEW r \in Requests, RemoveEntries(r)
      PROVE  LockInv'
  <2>1. \A s \in Requests : Holds(s)' => Holds(s)
    BY <1>17
       DEF RemoveEntries, TypeOK, CallInv, Holds, Locks, IndexesUnderLock, LockedSteps,
           call
  <2> QED BY <1>17, <2>1, KeepLocks DEF RemoveEntries, call
<1>18. ASSUME NEW r \in Requests, RemoveDir(r)
      PROVE  LockInv'
  <2>1. \A s \in Requests : Holds(s)' => Holds(s)
    BY <1>18
       DEF RemoveDir, TypeOK, CallInv, Holds, Locks, IndexesUnderLock, LockedSteps, call
  <2> QED BY <1>18, <2>1, KeepLocks DEF RemoveDir, call
<1>19. ASSUME NEW r \in Requests, Reindex(r)
      PROVE  LockInv'
  <2>1. \A s \in Requests : Holds(s)' => Holds(s)
    BY <1>19
       DEF Reindex, TypeOK, CallInv, Holds, Locks, IndexesUnderLock, LockedSteps, call
  <2> QED BY <1>19, <2>1, KeepLocks DEF Reindex, call
<1> QED
  BY <1>1, <1>2, <1>3, <1>4, <1>5, <1>6, <1>7, <1>8, <1>9, <1>10, <1>11, <1>12,
     <1>13, <1>14, <1>15, <1>16, <1>17, <1>18, <1>19 DEF Next, Step

-----------------------------------------------------------------------------
(* Overwriting: steps that change neither metadata.toml nor an operation.  *)
LEMMA KeepMissed ==
    ASSUME MissedInv, SameKeyNoOverwrite, UNCHANGED <<op, clobbered>>,
           \A s \in Requests :
              /\ missed[s] \subseteq Requests
              /\ missed'[s] \subseteq missed[s]
              /\ pc'[s] = "idle" => pc[s] = "idle"
              /\ pc'[s] \in {"open", "write", "rename"} =>
                    pc[s] \in {"open", "write", "rename"} \/ missed'[s] = {}
    PROVE  MissedInv' /\ SameKeyNoOverwrite'
  BY DEF MissedInv, SameKeyNoOverwrite, Locks

(* A request that changes metadata.toml holds its guard or locks nothing,  *)
(* so that those who come to miss its change hold another key.             *)
LEMMA OthersDiffer ==
    ASSUME CallInv, LockInv, NEW r \in Requests, NEW s \in Requests, s # r,
           pc[r] \in {"rename", "empty"},
           Locks(s), pc[s] \in {"open", "write", "rename"}
    PROVE  KeyOf(op[r]) # KeyOf(op[s])
<1>1. CASE Locks(r)
  <2>1. Holds(r) /\ Holds(s)
    BY <1>1 DEF Holds, LockedSteps
  <2> QED BY <2>1 DEF LockInv
<1>2. CASE ~Locks(r)
  <2>1. KeyOf(op[r]) = "none"
    BY <1>2 DEF Locks, Unlocked, KeyOf, IdKeyed, DirKeyed
  <2>2. KeyOf(op[s]) # "none"
    BY DEF CallInv, AllOperations, Locks, Unlocked, KeyOf, IdKeyed, DirKeyed
  <2> QED BY <2>1, <2>2
<1> QED BY <1>1, <1>2

LEMMA MissedStep ==
    ASSUME TypeOK, CallInv, LockInv, MissedInv, SameKeyNoOverwrite, [Next]_vars
    PROVE  MissedInv' /\ SameKeyNoOverwrite'
<1> USE DEF Goto, Fail
<1>1. ASSUME NEW r \in Requests, NEW o \in Operations,
             NEW f \in Files \cup {NoFile}, Arrive(r, o, f)
      PROVE  MissedInv' /\ SameKeyNoOverwrite'
  <2>1. UNCHANGED hist /\ pc[r] = "idle" /\ pc'[r] = "lookup"
          /\ \A s \in Requests : s # r => op'[s] = op[s] /\ pc'[s] = pc[s]
    BY <1>1 DEF Arrive, TypeOK
  <2>2. \A s \in Requests : missed[s] \subseteq Requests
    BY DEF TypeOK
  <2>3. MissedInv'
    BY <2>1, <2>2 DEF MissedInv, Locks, hist
  <2>4. SameKeyNoOverwrite'
    BY <2>1 DEF SameKeyNoOverwrite, MissedInv, hist
  <2> QED BY <2>3, <2>4
<1>2. ASSUME NEW r \in Requests, Rename(r)
      PROVE  MissedInv' /\ SameKeyNoOverwrite'
  <2>1. CASE tmp.state = "absent"
    <3>1. UNCHANGED <<op, clobbered, missed>> /\ pc'[r] \in {"unlock", "done"}
            /\ \A s \in Requests : s # r => pc'[s] = pc[s]
      BY <1>2, <2>1 DEF Rename, TypeOK, hist, call
    <3> QED BY <3>1, KeepMissed DEF TypeOK
  <2>2. CASE tmp.state # "absent"
    <3>1. /\ UNCHANGED op
          /\ \A s \in Requests : missed'[s] = missed[s] \cup {r}
          /\ clobbered' = clobbered \cup {<<r, v>> : v \in missed[r]}
          /\ pc[r] = "rename" /\ pc'[r] \in {"reindex", "unlock"}
          /\ \A s \in Requests : s # r => pc'[s] = pc[s]
      BY <1>2, <2>2 DEF Rename, Changed, TypeOK, hist, call
    <3>2. \A s \in Requests : Locks(s)' /\ pc'[s] \in {"open", "write", "rename"} =>
             \A v \in missed'[s] : KeyOf(op'[v]) # KeyOf(op'[s])
      <4> SUFFICES ASSUME NEW s \in Requests, Locks(s)',
                          pc'[s] \in {"open", "write", "rename"}, NEW v \in missed'[s]
                   PROVE  KeyOf(op[v]) # KeyOf(op[s])
        BY <3>1
      <4>1. s # r /\ Locks(s) /\ pc[s] \in {"open", "write", "rename"}
        BY <3>1 DEF Locks
      <4>2. CASE v = r
        BY <3>1, <4>1, <4>2, OthersDiffer
      <4>3. CASE v \in missed[s]
        BY <4>1, <4>3 DEF MissedInv
      <4> QED BY <3>1, <4>2, <4>3
    <3>5. MissedInv'
      <4>1. \A s \in Requests : missed[s] \subseteq Requests
        BY DEF TypeOK
      <4>2. \A s \in Requests : pc[s] # "idle" => pc'[s] # "idle"
        BY <3>1
      <4>3. \A s \in Requests : \A v \in missed'[s] : pc'[v] # "idle"
        BY <3>1, <4>1, <4>2 DEF MissedInv
      <4>4. \A w, v \in Requests : <<w, v>> \in clobbered' =>
               pc'[w] # "idle" /\ pc'[v] # "idle"
        BY <3>1, <4>1, <4>2 DEF MissedInv
      <4> QED BY <3>1, <3>2, <4>3, <4>4 DEF MissedInv, Locks
    <3>3. ASSUME NEW v \in Requests, v \in missed[r]
          PROVE  ~ ({op[r], op[v]} \subseteq IdKeyed \/ {op[r], op[v]} \subseteq DirKeyed)
      <4>1. CASE Locks(r)
        <5>1. KeyOf(op[v]) # KeyOf(op[r])
          BY <3>1, <3>3, <4>1 DEF MissedInv
        <5> QED BY <5>1 DEF KeyOf, IdKeyed, DirKeyed
      <4>2. CASE ~Locks(r)
        BY <4>2 DEF Locks, Unlocked, IdKeyed, DirKeyed
      <4> QED BY <4>1, <4>2
    <3>4. SameKeyNoOverwrite'
      BY <3>1, <3>3 DEF SameKeyNoOverwrite
    <3> QED BY <3>4, <3>5
  <2> QED BY <2>1, <2>2
<1>3. ASSUME NEW r \in Requests, RemoveEntries(r)
      PROVE  MissedInv' /\ SameKeyNoOverwrite'
  <2>1. /\ UNCHANGED <<op, clobbered>>
        /\ \/ UNCHANGED missed
           \/ \A s \in Requests : missed'[s] = missed[s] \cup {r}
        /\ pc[r] = "empty" /\ pc'[r] \in {"unlock", "done", "rmdir"}
        /\ \A s \in Requests : s # r => pc'[s] = pc[s]
    BY <1>3 DEF RemoveEntries, Changed, TypeOK, call
  <2>2. \A s \in Requests : missed[s] \subseteq Requests
    BY DEF TypeOK
  <2>4. \A s \in Requests : Locks(s) /\ pc'[s] \in {"open", "write", "rename"} =>
           KeyOf(op[r]) # KeyOf(op[s])
    BY <2>1, OthersDiffer
  <2>5. MissedInv'
    BY <2>1, <2>2, <2>4 DEF MissedInv, Locks
  <2>3. SameKeyNoOverwrite'
    BY <2>1 DEF SameKeyNoOverwrite
  <2> QED BY <2>3, <2>5
<1>4. CASE Crash
  <2>1. UNCHANGED <<op, clobbered, missed>>
          /\ \A s \in Requests : pc'[s] \in {"idle", "done"} /\ (pc'[s] = "idle" => pc[s] = "idle")
    BY <1>4 DEF Crash, call, hist
  <2> QED BY <2>1, KeepMissed DEF TypeOK
<1>5. CASE UNCHANGED vars
  BY <1>5, KeepMissed DEF vars, call, hist, TypeOK
<1>6. ASSUME NEW r \in Requests, Lookup(r)
      PROVE  MissedInv' /\ SameKeyNoOverwrite'
  BY <1>6, KeepMissed DEF Lookup, TypeOK, call, hist
<1>7. ASSUME NEW r \in Requests, Acquire(r)
      PROVE  MissedInv' /\ SameKeyNoOverwrite'
  BY <1>7, KeepMissed DEF Acquire, TypeOK, call, hist
<1>8. ASSUME NEW r \in Requests, AcquireFails(r)
      PROVE  MissedInv' /\ SameKeyNoOverwrite'
  BY <1>8, KeepMissed DEF AcquireFails, TypeOK, call, hist
<1>9. ASSUME NEW r \in Requests, CopyTo(r)
      PROVE  MissedInv' /\ SameKeyNoOverwrite'
  BY <1>9, KeepMissed DEF CopyTo, TypeOK, call, hist
<1>10. ASSUME NEW r \in Requests, WriteUnique(r)
      PROVE  MissedInv' /\ SameKeyNoOverwrite'
  BY <1>10, KeepMissed DEF WriteUnique, TypeOK, call, hist
<1>11. ASSUME NEW r \in Requests, MoveToTrash(r)
      PROVE  MissedInv' /\ SameKeyNoOverwrite'
  BY <1>11, KeepMissed DEF MoveToTrash, TypeOK, call, hist
<1>12. ASSUME NEW r \in Requests, Read(r)
      PROVE  MissedInv' /\ SameKeyNoOverwrite'
  BY <1>12, KeepMissed DEF Read, TypeOK, call, hist
<1>13. ASSUME NEW r \in Requests, SaveCandidate(r)
      PROVE  MissedInv' /\ SameKeyNoOverwrite'
  BY <1>13, KeepMissed DEF SaveCandidate, TypeOK, call, hist
<1>14. ASSUME NEW r \in Requests, OpenTmp(r)
      PROVE  MissedInv' /\ SameKeyNoOverwrite'
  BY <1>14, KeepMissed DEF OpenTmp, TypeOK, call, hist
<1>15. ASSUME NEW r \in Requests, WriteTmp(r)
      PROVE  MissedInv' /\ SameKeyNoOverwrite'
  BY <1>15, KeepMissed DEF WriteTmp, TypeOK, call, hist
<1>16. ASSUME NEW r \in Requests, WriteFails(r)
      PROVE  MissedInv' /\ SameKeyNoOverwrite'
  BY <1>16, KeepMissed DEF WriteFails, TypeOK, call, hist
<1>17. ASSUME NEW r \in Requests, RemoveDir(r)
      PROVE  MissedInv' /\ SameKeyNoOverwrite'
  BY <1>17, KeepMissed DEF RemoveDir, TypeOK, call, hist
<1>18. ASSUME NEW r \in Requests, Reindex(r)
      PROVE  MissedInv' /\ SameKeyNoOverwrite'
  BY <1>18, KeepMissed DEF Reindex, TypeOK, call, hist
<1>19. ASSUME NEW r \in Requests, Unlock(r)
      PROVE  MissedInv' /\ SameKeyNoOverwrite'
  BY <1>19, KeepMissed DEF Unlock, TypeOK, call, hist
<1> QED
  BY <1>1, <1>2, <1>3, <1>4, <1>5, <1>6, <1>7, <1>8, <1>9, <1>10, <1>11, <1>12,
     <1>13, <1>14, <1>15, <1>16, <1>17, <1>18, <1>19 DEF Next, Step

-----------------------------------------------------------------------------
(* A patch: what it missed nothing of is in place.                         *)
LEMMA PatchStep ==
    ASSUME TypeOK, PatchInv, [Next]_vars
    PROVE  PatchInv'
<1> USE DEF Goto, Fail
<1>1. ASSUME NEW r \in Requests, NEW o \in Operations,
             NEW f \in Files \cup {NoFile}, Arrive(r, o, f)
      PROVE  PatchInv'
  BY <1>1 DEF Arrive, TypeOK, PatchInv, hist
<1>2. ASSUME NEW r \in Requests, Rename(r)
      PROVE  PatchInv'
  <2>1. CASE tmp.state = "absent"
    BY <1>2, <2>1 DEF Rename, TypeOK, PatchInv, call
  <2>2. CASE tmp.state # "absent"
    BY <1>2, <2>2 DEF Rename, Changed, TypeOK, PatchInv
  <2> QED BY <2>1, <2>2
<1>3. ASSUME NEW r \in Requests, RemoveEntries(r)
      PROVE  PatchInv'
  <2>1. CASE ~dir
    <3>1. UNCHANGED <<meta, missed, snap, op>>
            /\ \A s \in Requests : pc'[s] = pc[s] \/ pc'[s] \in {"unlock", "done"}
      BY <1>3, <2>1 DEF RemoveEntries, TypeOK, call
    <3> QED BY <3>1 DEF PatchInv
  <2>2. CASE dir
    <3>1. \A s \in Requests : missed'[s] # {}
      BY <1>3, <2>2 DEF RemoveEntries, Changed
    <3> QED BY <3>1 DEF PatchInv
  <2> QED BY <2>1, <2>2
<1>4. CASE Crash
  BY <1>4 DEF Crash, TypeOK, PatchInv, hist, call
<1>5. CASE UNCHANGED vars
  BY <1>5 DEF vars, PatchInv, hist, call
<1>6. ASSUME NEW r \in Requests, Lookup(r)
      PROVE  PatchInv'
  BY <1>6 DEF Lookup, TypeOK, PatchInv, call, hist
<1>7. ASSUME NEW r \in Requests, Acquire(r)
      PROVE  PatchInv'
  BY <1>7 DEF Acquire, TypeOK, PatchInv, call, hist
<1>8. ASSUME NEW r \in Requests, AcquireFails(r)
      PROVE  PatchInv'
  BY <1>8 DEF AcquireFails, TypeOK, PatchInv, call, hist
<1>9. ASSUME NEW r \in Requests, CopyTo(r)
      PROVE  PatchInv'
  BY <1>9 DEF CopyTo, TypeOK, PatchInv, call, hist
<1>10. ASSUME NEW r \in Requests, WriteUnique(r)
      PROVE  PatchInv'
  BY <1>10 DEF WriteUnique, TypeOK, PatchInv, call, hist
<1>11. ASSUME NEW r \in Requests, MoveToTrash(r)
      PROVE  PatchInv'
  BY <1>11 DEF MoveToTrash, TypeOK, PatchInv, call, hist
<1>12. ASSUME NEW r \in Requests, Read(r)
      PROVE  PatchInv'
  BY <1>12 DEF Read, RevisionMatches, TypeOK, PatchInv, call, hist
<1>13. ASSUME NEW r \in Requests, SaveCandidate(r)
      PROVE  PatchInv'
  BY <1>13 DEF SaveCandidate, TypeOK, PatchInv, call, hist
<1>14. ASSUME NEW r \in Requests, OpenTmp(r)
      PROVE  PatchInv'
  BY <1>14 DEF OpenTmp, TypeOK, PatchInv, call, hist
<1>15. ASSUME NEW r \in Requests, WriteTmp(r)
      PROVE  PatchInv'
  BY <1>15 DEF WriteTmp, TypeOK, PatchInv, call, hist
<1>16. ASSUME NEW r \in Requests, WriteFails(r)
      PROVE  PatchInv'
  BY <1>16 DEF WriteFails, TypeOK, PatchInv, call, hist
<1>17. ASSUME NEW r \in Requests, RemoveDir(r)
      PROVE  PatchInv'
  BY <1>17 DEF RemoveDir, TypeOK, PatchInv, call, hist
<1>18. ASSUME NEW r \in Requests, Reindex(r)
      PROVE  PatchInv'
  BY <1>18 DEF Reindex, TypeOK, PatchInv, call, hist
<1>19. ASSUME NEW r \in Requests, Unlock(r)
      PROVE  PatchInv'
  BY <1>19 DEF Unlock, TypeOK, PatchInv, call, hist
<1> QED
  BY <1>1, <1>2, <1>3, <1>4, <1>5, <1>6, <1>7, <1>8, <1>9, <1>10, <1>11, <1>12,
     <1>13, <1>14, <1>15, <1>16, <1>17, <1>18, <1>19 DEF Next, Step

-----------------------------------------------------------------------------
(* The text.  What a request makes of a document keeps its edits and adds  *)
(* its own; it lists no file but those of the document and its own.        *)
LEMMA EditedGrows ==
    ASSUME TypeOK, NEW r \in Requests
    PROVE  /\ Edited(r).state = snap[r].state
           /\ snap[r].edits \subseteq Edited(r).edits /\ r \in Edited(r).edits
           /\ Edited(r).files \subseteq snap[r].files \cup
                (IF op[r] \in {"addFile", "upload", "attach"} THEN {file[r]} ELSE {})
  BY DEF TypeOK, Edited, Doc

(* Steps after which the documents are what they were.                     *)
LEMMA KeepWriter ==
    ASSUME NEW s \in Requests, WriterInv(s), UNCHANGED <<emptied, stage, published, clobbered>>,
           disk \cup trashed \subseteq disk' \cup trashed',
           pc'[s] \in {"open", "write", "rename"} =>
              /\ pc'[s] = pc[s] /\ op'[s] = op[s] /\ file'[s] = file[s]
              /\ snap'[s] = snap[s] /\ missed'[s] = missed[s],
           pc'[s] = "read" =>
              \/ op'[s] \notin {"addFile", "upload", "attach"}
              \/ file'[s] \in disk' \cup trashed'
              \/ pc[s] = "read" /\ op'[s] = op[s] /\ file'[s] = file[s]
    PROVE  WriterInv(s)'
<1>1. pc'[s] = "rename" => Edited(s)' = Edited(s)
  BY DEF Edited
<1> QED BY <1>1 DEF WriterInv, Overwritten, stage

(* A step keeps the text whole and complete.                               *)
LEMMA TextStep ==
    ASSUME TypeOK, CallInv, TextInv, \A r \in Requests : WriterInv(r), [Next]_vars
    PROVE  TextInv'
<1> USE DEF Goto, Fail, call, stage, hist
<1>1. ASSUME NEW r \in Requests, NEW o \in Operations,
             NEW f \in Files \cup {NoFile}, Arrive(r, o, f)
      PROVE  TextInv'
  BY <1>1 DEF Arrive, TypeOK, TextInv, Overwritten
<1>2. ASSUME NEW r \in Requests, Lookup(r)
      PROVE  TextInv'
  BY <1>2 DEF Lookup, TypeOK, TextInv, Overwritten
<1>3. ASSUME NEW r \in Requests, Acquire(r)
      PROVE  TextInv'
  BY <1>3 DEF Acquire, TypeOK, TextInv, Overwritten
<1>4. ASSUME NEW r \in Requests, AcquireFails(r)
      PROVE  TextInv'
  BY <1>4 DEF AcquireFails, TypeOK, TextInv, Overwritten
<1>5. ASSUME NEW r \in Requests, CopyTo(r)
      PROVE  TextInv'
  BY <1>5 DEF CopyTo, TypeOK, TextInv, Overwritten
<1>6. ASSUME NEW r \in Requests, WriteUnique(r)
      PROVE  TextInv'
  BY <1>6 DEF WriteUnique, TypeOK, TextInv, Overwritten
<1>7. ASSUME NEW r \in Requests, MoveToTrash(r)
      PROVE  TextInv'
  BY <1>7 DEF MoveToTrash, TypeOK, TextInv, Overwritten
<1>8. ASSUME NEW r \in Requests, Read(r)
      PROVE  TextInv'
  BY <1>8 DEF Read, TypeOK, TextInv, Overwritten
<1>9. ASSUME NEW r \in Requests, SaveCandidate(r)
      PROVE  TextInv'
  BY <1>9 DEF SaveCandidate, TypeOK, TextInv, Overwritten
<1>10. ASSUME NEW r \in Requests, OpenTmp(r)
      PROVE  TextInv'
  BY <1>10 DEF OpenTmp, TypeOK, TextInv, Overwritten
<1>11. ASSUME NEW r \in Requests, WriteTmp(r)
      PROVE  TextInv'
  BY <1>11 DEF WriteTmp, TypeOK, TextInv, Overwritten
<1>12. ASSUME NEW r \in Requests, WriteFails(r)
      PROVE  TextInv'
  BY <1>12 DEF WriteFails, TypeOK, TextInv, Overwritten
<1>13. ASSUME NEW r \in Requests, Rename(r)
      PROVE  TextInv'
  <2>1. CASE tmp.state = "absent" \/ emptied
    BY <1>13, <2>1 DEF Rename, TextInv, Overwritten
  <2>2. CASE tmp.state # "absent" /\ ~emptied
    <3>1. /\ meta' = Edited(r) /\ published' = published \cup {r}
          /\ clobbered' = clobbered \cup {<<r, v>> : v \in missed[r]}
          /\ UNCHANGED <<disk, trashed>>
      BY <1>13, <2>2 DEF Rename, WriterInv
    <3>2. /\ snap[r].state = "whole" /\ snap[r].files \subseteq disk \cup trashed
          /\ \A v \in published : v \in snap[r].edits \cup missed[r] \/ Overwritten(v)
          /\ op[r] \in {"addFile", "upload", "attach"} => file[r] \in disk \cup trashed
      BY <1>13, <2>2 DEF Rename, WriterInv
    <3>3. \A v \in published' : v \in meta'.edits \/ Overwritten(v)'
      BY <3>1, <3>2, EditedGrows DEF Overwritten
    <3>4. meta'.state = "whole" /\ meta'.files \subseteq disk' \cup trashed'
      BY <3>1, <3>2, EditedGrows
    <3> QED BY <3>3, <3>4 DEF TextInv
  <2> QED BY <2>1, <2>2
<1>14. ASSUME NEW r \in Requests, RemoveEntries(r)
      PROVE  TextInv'
  BY <1>14 DEF RemoveEntries, TypeOK, TextInv, Overwritten
<1>15. ASSUME NEW r \in Requests, RemoveDir(r)
      PROVE  TextInv'
  BY <1>15 DEF RemoveDir, TypeOK, TextInv, Overwritten
<1>16. ASSUME NEW r \in Requests, Reindex(r)
      PROVE  TextInv'
  BY <1>16 DEF Reindex, TypeOK, TextInv, Overwritten
<1>17. ASSUME NEW r \in Requests, Unlock(r)
      PROVE  TextInv'
  BY <1>17 DEF Unlock, TypeOK, TextInv, Overwritten
<1>18. CASE Crash
  BY <1>18 DEF Crash, TypeOK, TextInv, Overwritten
<1>19. CASE UNCHANGED vars
  BY <1>19 DEF vars, TypeOK, TextInv, Overwritten
<1> QED
  BY <1>1, <1>2, <1>3, <1>4, <1>5, <1>6, <1>7, <1>8, <1>9, <1>10, <1>11, <1>12,
     <1>13, <1>14, <1>15, <1>16, <1>17, <1>18, <1>19 DEF Next, Step

(* A step keeps what the writers work from.                                *)
LEMMA WriterStep ==
    ASSUME TypeOK, CallInv, TextInv, NEW s \in Requests, \A r \in Requests : WriterInv(r), [Next]_vars
    PROVE  WriterInv(s)'
<1> USE DEF Goto, Fail, call, stage, hist
<1>1. ASSUME NEW r \in Requests, NEW o \in Operations,
             NEW f \in Files \cup {NoFile}, Arrive(r, o, f)
      PROVE  WriterInv(s)'
  BY <1>1, KeepWriter DEF Arrive, TypeOK
<1>2. ASSUME NEW r \in Requests, Lookup(r)
      PROVE  WriterInv(s)'
  BY <1>2, KeepWriter DEF Lookup, TypeOK, Locks, Unlocked
<1>3. ASSUME NEW r \in Requests, Acquire(r)
      PROVE  WriterInv(s)'
  BY <1>3, KeepWriter DEF Acquire, TypeOK, AllOperations, CallInv
<1>4. ASSUME NEW r \in Requests, AcquireFails(r)
      PROVE  WriterInv(s)'
  BY <1>4, KeepWriter DEF AcquireFails, TypeOK
<1>5. ASSUME NEW r \in Requests, CopyTo(r)
      PROVE  WriterInv(s)'
  BY <1>5, KeepWriter DEF CopyTo, TypeOK
<1>6. ASSUME NEW r \in Requests, WriteUnique(r)
      PROVE  WriterInv(s)'
  BY <1>6, KeepWriter DEF WriteUnique, TypeOK
<1>7. ASSUME NEW r \in Requests, MoveToTrash(r)
      PROVE  WriterInv(s)'
  BY <1>7, KeepWriter DEF MoveToTrash, TypeOK
<1>8. ASSUME NEW r \in Requests, Read(r)
      PROVE  WriterInv(s)'
  <2>1. CASE s = r /\ pc'[r] = "open"
    <3>1. snap'[r] = meta /\ missed'[r] = {} /\ pc[r] = "read"
      BY <1>8, <2>1 DEF Read, RevisionMatches, TypeOK
    <3>2. UNCHANGED <<op, file, emptied, disk, trashed, published, clobbered>>
      BY <1>8 DEF Read
    <3> QED BY <2>1, <3>1, <3>2 DEF TextInv, WriterInv, Overwritten
  <2>2. CASE s = r /\ pc'[r] # "open"
    BY <1>8, <2>2, KeepWriter DEF Read, TypeOK
  <2>3. CASE s # r
    BY <1>8, <2>3, KeepWriter DEF Read, TypeOK
  <2> QED BY <2>1, <2>2, <2>3
<1>9. ASSUME NEW r \in Requests, SaveCandidate(r)
      PROVE  WriterInv(s)'
  BY <1>9, KeepWriter DEF SaveCandidate, TypeOK
<1>10. ASSUME NEW r \in Requests, OpenTmp(r)
      PROVE  WriterInv(s)'
  <2>1. CASE tmp.state # "absent"
    BY <1>10, <2>1, KeepWriter DEF OpenTmp, TypeOK
  <2>2. CASE tmp.state = "absent"
    <3>1. /\ pc[r] = "open" /\ pc' = [pc EXCEPT ![r] = "write"] /\ tmp' = Torn /\ tmpOwner' = r
          /\ UNCHANGED <<op, file, snap, missed, emptied, disk, trashed, published, clobbered>>
      BY <1>10, <2>2 DEF OpenTmp
    <3>2. ~emptied /\ s # r => pc[s] \notin {"write", "rename"}
      BY <2>2 DEF WriterInv
    <3> QED BY <3>1, <3>2 DEF TypeOK, WriterInv, Overwritten, Torn
  <2> QED BY <2>1, <2>2
<1>11. ASSUME NEW r \in Requests, WriteTmp(r)
      PROVE  WriterInv(s)'
  <2>1. /\ pc[r] = "write" /\ pc' = [pc EXCEPT ![r] = "rename"]
        /\ tmp' = IF tmpOwner = r THEN Edited(r) ELSE tmp
        /\ UNCHANGED <<op, file, snap, missed, tmpOwner, emptied, disk, trashed, published, clobbered>>
    BY <1>11 DEF WriteTmp
  <2>2. Edited(s)' = Edited(s)
    BY <2>1 DEF Edited
  <2>3. ~emptied => tmpOwner = r /\ Edited(r).state = "whole"
    BY <2>1, EditedGrows DEF WriterInv
  <2>4. ~emptied /\ s # r => pc[s] \notin {"write", "rename"}
    BY <2>3 DEF WriterInv
  <2> QED BY <2>1, <2>2, <2>3, <2>4 DEF TypeOK, WriterInv, Overwritten
<1>12. ASSUME NEW r \in Requests, WriteFails(r)
      PROVE  WriterInv(s)'
  <2>1. /\ pc[r] = "write" /\ pc' = [pc EXCEPT ![r] = pc'[r]] /\ pc'[r] \in {"unlock", "done"}
        /\ UNCHANGED <<op, file, snap, missed, tmp, emptied, disk, trashed, published, clobbered>>
    BY <1>12 DEF WriteFails, TypeOK
  <2>2. ~emptied /\ s # r => pc[s] \notin {"write", "rename"}
    BY <2>1 DEF WriterInv
  <2>3. CASE emptied \/ s = r
    BY <2>1, <2>3 DEF TypeOK, WriterInv
  <2>4. CASE ~emptied /\ s # r
    <3>1. pc'[s] = pc[s] /\ pc'[s] \notin {"write", "rename"}
      BY <2>1, <2>2, <2>4 DEF TypeOK
    <3> QED BY <2>1, <3>1 DEF WriterInv, Overwritten
  <2> QED BY <2>3, <2>4
<1>13. ASSUME NEW r \in Requests, Rename(r)
      PROVE  WriterInv(s)'
  <2>1. CASE tmp.state = "absent"
    BY <1>13, <2>1, KeepWriter DEF Rename, TypeOK
  <2>2. CASE emptied
    BY <1>13, <2>2 DEF Rename, WriterInv
  <2>3. CASE tmp.state # "absent" /\ ~emptied
    <3>1. /\ pc[r] = "rename" /\ pc'[r] \in {"reindex", "unlock"}
          /\ \A o \in Requests \ {r} : pc'[o] = pc[o]
          /\ \A o \in Requests : missed'[o] = missed[o] \cup {r}
          /\ published' = published \cup {r} /\ clobbered \subseteq clobbered'
          /\ UNCHANGED <<op, file, snap, emptied, disk, trashed>>
      BY <1>13, <2>3 DEF Rename, Changed, TypeOK
    <3>2. s # r => pc[s] \notin {"write", "rename"}
      BY <2>3, <3>1 DEF WriterInv
    <3> QED BY <3>1, <3>2 DEF WriterInv, Overwritten
  <2> QED BY <2>1, <2>2, <2>3
<1>14. ASSUME NEW r \in Requests, RemoveEntries(r)
      PROVE  WriterInv(s)'
  <2>1. CASE dir
    BY <1>14, <2>1 DEF RemoveEntries, WriterInv
  <2>2. CASE ~dir
    BY <1>14, <2>2, KeepWriter DEF RemoveEntries, TypeOK
  <2> QED BY <2>1, <2>2
<1>15. ASSUME NEW r \in Requests, RemoveDir(r)
      PROVE  WriterInv(s)'
  BY <1>15, KeepWriter DEF RemoveDir, TypeOK
<1>16. ASSUME NEW r \in Requests, Reindex(r)
      PROVE  WriterInv(s)'
  BY <1>16, KeepWriter DEF Reindex, TypeOK
<1>17. ASSUME NEW r \in Requests, Unlock(r)
      PROVE  WriterInv(s)'
  BY <1>17, KeepWriter DEF Unlock, TypeOK
<1>18. CASE Crash
  BY <1>18 DEF Crash, WriterInv
<1>19. CASE UNCHANGED vars
  BY <1>19, KeepWriter DEF vars, TypeOK
<1> QED
  BY <1>1, <1>2, <1>3, <1>4, <1>5, <1>6, <1>7, <1>8, <1>9, <1>10, <1>11, <1>12,
     <1>13, <1>14, <1>15, <1>16, <1>17, <1>18, <1>19 DEF Next, Step

(* A step that is no fault leaves no lock file and no staging file behind. *)
LEMMA LeakStep ==
    ASSUME TypeOK, CallInv, LockInv, LeakInv, [Next]_vars
    PROVE  LeakInv'
<1> USE DEF Goto, Fail, call, stage, hist
<1>1. ASSUME NEW r \in Requests, NEW o \in Operations,
             NEW f \in Files \cup {NoFile}, Arrive(r, o, f)
      PROVE  LeakInv'
  BY <1>1
     DEF Arrive, TypeOK, CallInv, LeakInv, Holds, Locks, IndexesUnderLock, LockedSteps
<1>2. ASSUME NEW r \in Requests, Lookup(r)
      PROVE  LeakInv'
  BY <1>2
     DEF Lookup, TypeOK, CallInv, LeakInv, Holds, Locks, IndexesUnderLock, LockedSteps
<1>3. ASSUME NEW r \in Requests, Acquire(r)
      PROVE  LeakInv'
  BY <1>3
     DEF Acquire, TypeOK, CallInv, LeakInv, Holds, Locks, IndexesUnderLock, LockedSteps
<1>4. ASSUME NEW r \in Requests, AcquireFails(r)
      PROVE  LeakInv'
  BY <1>4
     DEF AcquireFails, TypeOK, CallInv, LeakInv, Holds, Locks, IndexesUnderLock,
         LockedSteps
<1>5. ASSUME NEW r \in Requests, CopyTo(r)
      PROVE  LeakInv'
  BY <1>5
     DEF CopyTo, TypeOK, CallInv, LeakInv, Holds, Locks, IndexesUnderLock, LockedSteps
<1>6. ASSUME NEW r \in Requests, WriteUnique(r)
      PROVE  LeakInv'
  BY <1>6
     DEF WriteUnique, TypeOK, CallInv, LeakInv, Holds, Locks, IndexesUnderLock,
         LockedSteps
<1>7. ASSUME NEW r \in Requests, MoveToTrash(r)
      PROVE  LeakInv'
  BY <1>7
     DEF MoveToTrash, TypeOK, CallInv, LeakInv, Holds, Locks, IndexesUnderLock,
         LockedSteps
<1>8. ASSUME NEW r \in Requests, Read(r)
      PROVE  LeakInv'
  BY <1>8 DEF Read, TypeOK, CallInv, LeakInv, Holds, Locks, IndexesUnderLock, LockedSteps
<1>9. ASSUME NEW r \in Requests, SaveCandidate(r)
      PROVE  LeakInv'
  BY <1>9
     DEF SaveCandidate, TypeOK, CallInv, LeakInv, Holds, Locks, IndexesUnderLock,
         LockedSteps
<1>10. ASSUME NEW r \in Requests, OpenTmp(r)
      PROVE  LeakInv'
  BY <1>10
     DEF OpenTmp, TypeOK, CallInv, LeakInv, Holds, Locks, IndexesUnderLock, LockedSteps
<1>11. ASSUME NEW r \in Requests, WriteTmp(r)
      PROVE  LeakInv'
  BY <1>11
     DEF WriteTmp, TypeOK, CallInv, LeakInv, Holds, Locks, IndexesUnderLock, LockedSteps
<1>12. ASSUME NEW r \in Requests, WriteFails(r)
      PROVE  LeakInv'
  BY <1>12
     DEF WriteFails, TypeOK, CallInv, LeakInv, Holds, Locks, IndexesUnderLock,
         LockedSteps
<1>13. ASSUME NEW r \in Requests, Rename(r)
      PROVE  LeakInv'
  <2>1. \A s \in Requests : Holds(s) => Holds(s)'
    BY <1>13 DEF Rename, TypeOK, CallInv, Holds, Locks, IndexesUnderLock, LockedSteps
  <2> QED BY <1>13, <2>1 DEF Rename, TypeOK, LeakInv, Absent
<1>14. ASSUME NEW r \in Requests, RemoveEntries(r)
      PROVE  LeakInv'
  <2>1. \A s \in Requests : Holds(s) => Holds(s)'
    BY <1>14
       DEF RemoveEntries, TypeOK, CallInv, Holds, Locks, IndexesUnderLock, LockedSteps
  <2> QED BY <1>14, <2>1 DEF RemoveEntries, TypeOK, LeakInv, Absent
<1>15. ASSUME NEW r \in Requests, RemoveDir(r)
      PROVE  LeakInv'
  <2>1. \A s \in Requests : Holds(s) => Holds(s)'
    BY <1>15 DEF RemoveDir, TypeOK, CallInv, Holds, Locks, IndexesUnderLock, LockedSteps
  <2> QED BY <1>15, <2>1 DEF RemoveDir, TypeOK, LeakInv
<1>16. ASSUME NEW r \in Requests, Reindex(r)
      PROVE  LeakInv'
  BY <1>16
     DEF Reindex, TypeOK, CallInv, LeakInv, Holds, Locks, IndexesUnderLock, LockedSteps
<1>17. ASSUME NEW r \in Requests, Unlock(r)
      PROVE  LeakInv'
  BY <1>17
     DEF Unlock, TypeOK, CallInv, LeakInv, Holds, Locks, IndexesUnderLock, LockedSteps
<1>18. CASE Crash
  BY <1>18
     DEF Crash, TypeOK, CallInv, LeakInv, Holds, Locks, IndexesUnderLock, LockedSteps
<1>19. CASE UNCHANGED vars
  BY <1>19 DEF vars, TypeOK, CallInv, LeakInv, Holds, Locks, IndexesUnderLock, LockedSteps
<1> QED
  BY <1>1, <1>2, <1>3, <1>4, <1>5, <1>6, <1>7, <1>8, <1>9, <1>10, <1>11, <1>12,
     <1>13, <1>14, <1>15, <1>16, <1>17, <1>18, <1>19 DEF Next, Step

-----------------------------------------------------------------------------
IInv == TypeOK /\ CallInv /\ LockInv /\ MissedInv /\ SameKeyNoOverwrite /\ PatchInv
          /\ TextInv /\ (\A r \in Requests : WriterInv(r)) /\ LeakInv

LEMMA InitIInv == Init => IInv
<1> SUFFICES ASSUME Init PROVE IInv
  OBVIOUS
<1>1. TypeOK
  <2>1. meta \in Doc /\ tmp \in Doc /\ snap \in [Requests -> Doc]
    BY DocConstants DEF Init, Doc
  <2>2. dir \in BOOLEAN /\ saved \in BOOLEAN /\ indexed \in BOOLEAN
    BY DEF Init
  <2>3. faults \in 0..MaxFaults
    BY MaxFaultsAssumption DEF Init
  <2>4. /\ pc \in [Requests -> Steps]
        /\ op \in [Requests -> AllOperations \cup {"none"}]
        /\ file \in [Requests -> Files \cup {NoFile}]
        /\ result \in [Requests -> {"none", "ok", "error", "absent", "lost"}]
        /\ missed \in [Requests -> SUBSET Requests]
    BY DEF Init, Steps
  <2>5. /\ tmpOwner \in Requests \cup {NoOne}
        /\ disk \subseteq Files /\ trashed \subseteq Files
        /\ lockFiles \subseteq {"id", "dir"}
        /\ published \subseteq Requests /\ emptied \in BOOLEAN
        /\ clobbered \subseteq Requests \X Requests
    BY DEF Init
  <2> QED BY <2>1, <2>2, <2>3, <2>4, <2>5 DEF TypeOK
<1>2. CallInv /\ LockInv /\ MissedInv /\ SameKeyNoOverwrite /\ PatchInv
  BY DEF Init, CallInv, LockInv, Holds, LockedSteps, MissedInv, SameKeyNoOverwrite,
         PatchInv
<1>3. TextInv /\ (\A r \in Requests : WriterInv(r)) /\ LeakInv
  BY DEF Init, TextInv, WriterInv, LeakInv, Absent
<1> QED BY <1>1, <1>2, <1>3 DEF IInv

LEMMA Invariance == Spec => []IInv
<1>1. IInv /\ [Next]_vars => IInv'
  BY TypeStep, CallStep, LockStep, MissedStep, PatchStep, TextStep, WriterStep, LeakStep
     DEF IInv
<1> QED BY InitIInv, <1>1, PTL DEF Spec

(* Every variable of the writers has its type, whatever the requests.      *)
THEOREM TypeCorrect == Spec => []TypeOK
  BY Invariance, PTL DEF IInv

(* The lock files of LockManager::acquire exclude: no two requests hold    *)
(* guards of one key, and the file of a guard that is held exists.         *)
THEOREM MutualExclusion == Spec => []LockInv
  BY Invariance, PTL DEF IInv

(* No operation rewrites metadata.toml from a text that lacks the change   *)
(* of an operation of its own key.                                         *)
THEOREM NoOverwrite == Spec => []SameKeyNoOverwrite
  BY Invariance, PTL DEF IInv

(* A patch that is published replaces the very text its caller fetched,    *)
(* unless a writer of another key came between.                            *)
THEOREM CompareAndSwap == Spec => PatchIsCompareAndSwap
<1>1. ASSUME IInv, [Next]_vars, NEW r \in Requests, op[r] = "patch",
             r \in published' \ published, missed[r] = {}
      PROVE  meta = snap[r]
  <2>1. PICK w \in Requests : Rename(w)
    BY <1>1 DEF Next, Step, vars, hist, Arrive, Lookup, Acquire, AcquireFails, CopyTo,
       WriteUnique, MoveToTrash, Read, SaveCandidate, OpenTmp, WriteTmp, WriteFails,
       RemoveEntries, RemoveDir, Reindex, Unlock, Crash
  <2>2. w = r /\ pc[r] = "rename"
    BY <1>1, <2>1 DEF Rename, hist
  <2> QED BY <1>1, <2>2 DEF IInv, PatchInv
<1>2. IInv /\ [Next]_vars =>
        [\A r \in Requests :
            op[r] = "patch" /\ r \in published' \ published /\ missed[r] = {}
              => meta = snap[r]]_vars
  BY <1>1
<1> QED BY Invariance, <1>2, PTL DEF Spec, PatchIsCompareAndSwap

(* However requests of different keys cross, and wherever they are killed, *)
(* a published edit is in metadata.toml, unless a writer of another key    *)
(* rewrote it from an older text or a delete removed it (atomic_write).    *)
THEOREM NoEditVanishes == Spec => []EditsSurvive
<1>1. ASSUME IInv PROVE EditsSurvive
  <2>1. ASSUME NEW w \in Requests, NEW v \in Requests, <<w, v>> \in clobbered
        PROVE  KeyOf(op[w]) # KeyOf(op[v]) \/ op[w] \in Unlocked
    <3>1. {op[w], op[v]} \subseteq AllOperations
      BY <1>1, <2>1 DEF IInv, CallInv, MissedInv
    <3>2. ~ ({op[w], op[v]} \subseteq IdKeyed \/ {op[w], op[v]} \subseteq DirKeyed)
      BY <1>1, <2>1 DEF IInv, SameKeyNoOverwrite
    <3> QED BY <3>1, <3>2 DEF AllOperations, KeyOf, IdKeyed, DirKeyed, Unlocked
  <2> QED BY <1>1, <2>1 DEF IInv, TypeOK, TextInv, Overwritten, EditsSurvive
<1> QED BY <1>1, Invariance, PTL

(* metadata.toml is whole until a delete removes it, crashes and writes    *)
(* that fail included (atomic_write).                                      *)
THEOREM NoTornText == Spec => []NeverTorn
<1>1. IInv => NeverTorn
  BY DEF IInv, TextInv, NeverTorn
<1> QED BY <1>1, Invariance, PTL

(* A file that metadata.toml lists is in the directory, or some archive    *)
(* moved it to the trash (add_file, archive_item_file).                    *)
THEOREM ListedFilesKept == Spec => []ListedFilesExist
<1>1. IInv => ListedFilesExist
  BY DEF IInv, TextInv, ListedFilesExist
<1> QED BY <1>1, Invariance, PTL

(* Every path out of an operation gives back its lock file and its staging *)
(* file; only a crash or a write that fails leaves one (FsLock::drop).     *)
THEOREM LeakFree == Spec => []NothingLeaks
<1>1. IInv => NothingLeaks
  BY DEF IInv, LeakInv, NothingLeaks
<1> QED BY <1>1, Invariance, PTL

(* What a request renames into place is the document it computed, unless a *)
(* delete had removed its staging file (atomic_write).                     *)
THEOREM PublishesOwnText == Spec => PublishesItsOwn
<1>1. ASSUME IInv, [Next]_vars, NEW r \in published' \ published
      PROVE  meta' = Edited(r) \/ emptied
  <2>1. PICK w \in Requests : Rename(w)
    BY <1>1 DEF Next, Step, vars, hist, Arrive, Lookup, Acquire, AcquireFails, CopyTo,
       WriteUnique, MoveToTrash, Read, SaveCandidate, OpenTmp, WriteTmp, WriteFails,
       RemoveEntries, RemoveDir, Reindex, Unlock, Crash
  <2>2. w = r /\ pc[r] = "rename" /\ meta' = tmp
    BY <1>1, <2>1 DEF Rename, hist
  <2> QED BY <1>1, <2>1, <2>2 DEF IInv, WriterInv
<1>2. IInv /\ [Next]_vars => [\A r \in published' \ published : meta' = Edited(r) \/ emptied]_vars
  BY <1>1
<1> QED BY Invariance, <1>2, PTL DEF Spec, PublishesItsOwn
=============================================================================
