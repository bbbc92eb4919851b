------------------------------ MODULE SyncProofs ------------------------------
(***************************************************************************)
(* Proofs about the s3sync plugin: the attachment it shares with its user  *)
(* (SyncReplica), the conflicts on its page (ConflictMirror), what its     *)
(* runs do to config.toml and to the marks of items (SyncRuns), and the    *)
(* remote catalog that clients share (CatalogStore), for any clients,      *)
(* commits and compactions: the types, and until a compaction comes        *)
(* across another, or a scan, that the catalog loses nothing and a scan    *)
(* skips nothing.                                                          *)
(***************************************************************************)
EXTENDS SyncReplica, ConflictMirror, SyncRuns, CatalogStore,
        FiniteSetTheorems, WellFoundedInduction, TLAPS

-----------------------------------------------------------------------------
(* The attachment: SyncReplica.                                            *)

(* Between a check and what relies on it, the file holds what the engine   *)
(* has, or an edit made since.                                             *)
WindowInv == call \in Windows => file \cap edits \subseteq delivered \cup raced

ReplicaIInv == ReplicaType /\ WindowInv /\ TokensBacked /\ EditsKept

(* Typing is preserved by a step. *)
LEMMA ReplicaTypeStep ==
    ASSUME ReplicaType, [ReplicaNext]_replicaVars
    PROVE  ReplicaType'
<1>1. ASSUME NEW v \in Versions, Edit(v) PROVE ReplicaType'
  BY <1>1 DEF Edit, Fresh, Put, Made, engine, Windows, ReplicaType, ReplicaSteps
<1>2. ASSUME Delete PROVE ReplicaType'
  BY <1>2 DEF Delete, engine, user, ReplicaType, ReplicaSteps, Windows
<1>3. ASSUME ListResources PROVE ReplicaType'
  BY <1>3 DEF ListResources, disk, user, ReplicaType, ReplicaSteps, Windows
<1>4. ASSUME ReadData PROVE ReplicaType'
  BY <1>4 DEF ReadData, disk, user, ReplicaType, ReplicaSteps, Windows
<1>5. ASSUME ReadToken PROVE ReplicaType'
  BY <1>5 DEF ReadToken, Known, disk, user, ReplicaType, ReplicaSteps, Windows
<1>6. ASSUME NEW e \in {{}} \cup {{v} : v \in Versions}, WritePresent(e) PROVE ReplicaType'
  BY <1>6 DEF WritePresent, disk, engine, user, ReplicaType, ReplicaSteps, Windows
<1>7. ASSUME NEW v \in Versions, Overwrite(v) PROVE ReplicaType'
  BY <1>7 DEF Overwrite, Fresh, Put, user, ReplicaType, ReplicaSteps, Windows
<1>8. ASSUME NEW v \in Versions, CutShort(v) PROVE ReplicaType'
  BY <1>8 DEF CutShort, Fresh, Put, engine, user, ReplicaType, ReplicaSteps, Windows
<1>9. ASSUME AddAt PROVE ReplicaType'
  BY <1>9 DEF AddAt, disk, engine, user, ReplicaType, ReplicaSteps, Windows
<1>10. ASSUME CheckTarget PROVE ReplicaType'
  BY <1>10 DEF CheckTarget, disk, engine, user, ReplicaType, ReplicaSteps, Windows
<1>11. ASSUME NEW v \in Versions, CopyIn(v) PROVE ReplicaType'
  BY <1>11 DEF CopyIn, Fresh, Put, user, ReplicaType, ReplicaSteps, Windows
<1>12. ASSUME Stamp PROVE ReplicaType'
  BY <1>12 DEF Stamp, Known, disk, user, ReplicaType, ReplicaSteps, Windows
<1>13. ASSUME NEW e \in {{}} \cup {{v} : v \in Versions}, ApplyDelete(e) PROVE ReplicaType'
  BY <1>13 DEF ApplyDelete, disk, engine, user, ReplicaType, ReplicaSteps, Windows
<1>14. ASSUME Archive PROVE ReplicaType'
  BY <1>14 DEF Archive, engine, user, ReplicaType, ReplicaSteps, Windows
<1>15. ASSUME CreateCopy PROVE ReplicaType'
  BY <1>15 DEF CreateCopy, disk, engine, user, ReplicaType, ReplicaSteps, Windows
<1>16. ASSUME SameCopy PROVE ReplicaType'
  BY <1>16 DEF SameCopy, disk, user, ReplicaType, ReplicaSteps, Windows
<1>17. ASSUME Fail PROVE ReplicaType'
  BY <1>17 DEF Fail, disk, user, ReplicaType, ReplicaSteps, Windows
<1>18. CASE UNCHANGED replicaVars
  BY <1>18 DEF replicaVars, disk, engine, user, ReplicaType, ReplicaSteps, Windows
<1> QED
  BY <1>1, <1>2, <1>3, <1>4, <1>5, <1>6, <1>7, <1>8, <1>9, <1>10, <1>11,
     <1>12, <1>13, <1>14, <1>15, <1>16, <1>17, <1>18 DEF ReplicaNext, User, Read,
     Mutate

(* So is what is known of the file in a window. *)
LEMMA WindowStep ==
    ASSUME ReplicaType, WindowInv, TokensBacked, [ReplicaNext]_replicaVars
    PROVE  WindowInv'
<1>1. ASSUME NEW v \in Versions, Edit(v) PROVE WindowInv'
  BY <1>1 DEF Edit, Fresh, Put, Made, engine, Windows, ReplicaType, WindowInv,
     TokensBacked
<1>2. ASSUME Delete PROVE WindowInv'
  BY <1>2 DEF Delete, engine, user, ReplicaType, WindowInv, TokensBacked, Windows
<1>3. ASSUME ListResources PROVE WindowInv'
  BY <1>3 DEF ListResources, disk, user, ReplicaType, WindowInv, TokensBacked,
     Windows
<1>4. ASSUME ReadData PROVE WindowInv'
  BY <1>4 DEF ReadData, disk, user, ReplicaType, WindowInv, TokensBacked, Windows
<1>5. ASSUME ReadToken PROVE WindowInv'
  BY <1>5 DEF ReadToken, Known, disk, user, ReplicaType, WindowInv, TokensBacked,
     Windows
<1>6. ASSUME NEW e \in {{}} \cup {{v} : v \in Versions}, WritePresent(e) PROVE WindowInv'
  BY <1>6 DEF WritePresent, disk, engine, user, ReplicaType, WindowInv,
     TokensBacked, Windows
<1>7. ASSUME NEW v \in Versions, Overwrite(v) PROVE WindowInv'
  BY <1>7 DEF Overwrite, Fresh, Put, user, ReplicaType, WindowInv, TokensBacked,
     Windows
<1>8. ASSUME NEW v \in Versions, CutShort(v) PROVE WindowInv'
  BY <1>8 DEF CutShort, Fresh, Put, engine, user, ReplicaType, WindowInv,
     TokensBacked, Windows
<1>9. ASSUME AddAt PROVE WindowInv'
  BY <1>9 DEF AddAt, disk, engine, user, ReplicaType, WindowInv, TokensBacked,
     Windows
<1>10. ASSUME CheckTarget PROVE WindowInv'
  BY <1>10 DEF CheckTarget, disk, engine, user, ReplicaType, WindowInv,
     TokensBacked, Windows
<1>11. ASSUME NEW v \in Versions, CopyIn(v) PROVE WindowInv'
  BY <1>11 DEF CopyIn, Fresh, Put, user, ReplicaType, WindowInv, TokensBacked,
     Windows
<1>12. ASSUME Stamp PROVE WindowInv'
  BY <1>12 DEF Stamp, Known, disk, user, ReplicaType, WindowInv, TokensBacked,
     Windows
<1>13. ASSUME NEW e \in {{}} \cup {{v} : v \in Versions}, ApplyDelete(e) PROVE WindowInv'
  BY <1>13 DEF ApplyDelete, disk, engine, user, ReplicaType, WindowInv,
     TokensBacked, Windows
<1>14. ASSUME Archive PROVE WindowInv'
  BY <1>14 DEF Archive, engine, user, ReplicaType, WindowInv, TokensBacked, Windows
<1>15. ASSUME CreateCopy PROVE WindowInv'
  BY <1>15 DEF CreateCopy, disk, engine, user, ReplicaType, WindowInv,
     TokensBacked, Windows
<1>16. ASSUME SameCopy PROVE WindowInv'
  BY <1>16 DEF SameCopy, disk, user, ReplicaType, WindowInv, TokensBacked, Windows
<1>17. ASSUME Fail PROVE WindowInv'
  BY <1>17 DEF Fail, disk, user, ReplicaType, WindowInv, TokensBacked, Windows
<1>18. CASE UNCHANGED replicaVars
  BY <1>18 DEF replicaVars, disk, engine, user, ReplicaType, WindowInv, TokensBacked,
     Windows
<1> QED
  BY <1>1, <1>2, <1>3, <1>4, <1>5, <1>6, <1>7, <1>8, <1>9, <1>10, <1>11,
     <1>12, <1>13, <1>14, <1>15, <1>16, <1>17, <1>18 DEF ReplicaNext, User, Read,
     Mutate

(* A token is taken in a window only. *)
LEMMA TokensStep ==
    ASSUME ReplicaType, WindowInv, TokensBacked, [ReplicaNext]_replicaVars
    PROVE  TokensBacked'
<1>1. ASSUME NEW v \in Versions, Edit(v) PROVE TokensBacked'
  BY <1>1 DEF Edit, Fresh, Put, Made, engine, Windows, ReplicaType, WindowInv,
     TokensBacked
<1>2. ASSUME Delete PROVE TokensBacked'
  BY <1>2 DEF Delete, engine, user, ReplicaType, WindowInv, TokensBacked, Windows
<1>3. ASSUME ListResources PROVE TokensBacked'
  BY <1>3 DEF ListResources, disk, user, ReplicaType, WindowInv, TokensBacked,
     Windows
<1>4. ASSUME ReadData PROVE TokensBacked'
  BY <1>4 DEF ReadData, disk, user, ReplicaType, WindowInv, TokensBacked, Windows
<1>5. ASSUME ReadToken PROVE TokensBacked'
  BY <1>5 DEF ReadToken, Known, disk, user, ReplicaType, WindowInv, TokensBacked,
     Windows
<1>6. ASSUME NEW e \in {{}} \cup {{v} : v \in Versions}, WritePresent(e) PROVE TokensBacked'
  BY <1>6 DEF WritePresent, disk, engine, user, ReplicaType, WindowInv,
     TokensBacked, Windows
<1>7. ASSUME NEW v \in Versions, Overwrite(v) PROVE TokensBacked'
  BY <1>7 DEF Overwrite, Fresh, Put, user, ReplicaType, WindowInv, TokensBacked,
     Windows
<1>8. ASSUME NEW v \in Versions, CutShort(v) PROVE TokensBacked'
  BY <1>8 DEF CutShort, Fresh, Put, engine, user, ReplicaType, WindowInv,
     TokensBacked, Windows
<1>9. ASSUME AddAt PROVE TokensBacked'
  BY <1>9 DEF AddAt, disk, engine, user, ReplicaType, WindowInv, TokensBacked,
     Windows
<1>10. ASSUME CheckTarget PROVE TokensBacked'
  BY <1>10 DEF CheckTarget, disk, engine, user, ReplicaType, WindowInv,
     TokensBacked, Windows
<1>11. ASSUME NEW v \in Versions, CopyIn(v) PROVE TokensBacked'
  BY <1>11 DEF CopyIn, Fresh, Put, user, ReplicaType, WindowInv, TokensBacked,
     Windows
<1>12. ASSUME Stamp PROVE TokensBacked'
  BY <1>12 DEF Stamp, Known, disk, user, ReplicaType, WindowInv, TokensBacked,
     Windows
<1>13. ASSUME NEW e \in {{}} \cup {{v} : v \in Versions}, ApplyDelete(e) PROVE TokensBacked'
  BY <1>13 DEF ApplyDelete, disk, engine, user, ReplicaType, WindowInv,
     TokensBacked, Windows
<1>14. ASSUME Archive PROVE TokensBacked'
  BY <1>14 DEF Archive, engine, user, ReplicaType, WindowInv, TokensBacked, Windows
<1>15. ASSUME CreateCopy PROVE TokensBacked'
  BY <1>15 DEF CreateCopy, disk, engine, user, ReplicaType, WindowInv,
     TokensBacked, Windows
<1>16. ASSUME SameCopy PROVE TokensBacked'
  BY <1>16 DEF SameCopy, disk, user, ReplicaType, WindowInv, TokensBacked, Windows
<1>17. ASSUME Fail PROVE TokensBacked'
  BY <1>17 DEF Fail, disk, user, ReplicaType, WindowInv, TokensBacked, Windows
<1>18. CASE UNCHANGED replicaVars
  BY <1>18 DEF replicaVars, disk, engine, user, ReplicaType, WindowInv, TokensBacked,
     Windows
<1> QED
  BY <1>1, <1>2, <1>3, <1>4, <1>5, <1>6, <1>7, <1>8, <1>9, <1>10, <1>11,
     <1>12, <1>13, <1>14, <1>15, <1>16, <1>17, <1>18 DEF ReplicaNext, User, Read,
     Mutate

(* What leaves the file is kept elsewhere. *)
LEMMA KeptStep ==
    ASSUME ReplicaType, WindowInv, EditsKept, [ReplicaNext]_replicaVars
    PROVE  EditsKept'
<1>1. ASSUME NEW v \in Versions, Edit(v) PROVE EditsKept'
  BY <1>1 DEF Edit, Fresh, Put, Made, engine, Windows, ReplicaType, WindowInv,
     EditsKept
<1>2. ASSUME Delete PROVE EditsKept'
  BY <1>2 DEF Delete, engine, user, ReplicaType, WindowInv, EditsKept, Windows
<1>3. ASSUME ListResources PROVE EditsKept'
  BY <1>3 DEF ListResources, disk, user, ReplicaType, WindowInv, EditsKept, Windows
<1>4. ASSUME ReadData PROVE EditsKept'
  BY <1>4 DEF ReadData, disk, user, ReplicaType, WindowInv, EditsKept, Windows
<1>5. ASSUME ReadToken PROVE EditsKept'
  BY <1>5 DEF ReadToken, Known, disk, user, ReplicaType, WindowInv, EditsKept,
     Windows
<1>6. ASSUME NEW e \in {{}} \cup {{v} : v \in Versions}, WritePresent(e) PROVE EditsKept'
  BY <1>6 DEF WritePresent, disk, engine, user, ReplicaType, WindowInv, EditsKept,
     Windows
<1>7. ASSUME NEW v \in Versions, Overwrite(v) PROVE EditsKept'
  BY <1>7 DEF Overwrite, Fresh, Put, user, ReplicaType, WindowInv, EditsKept,
     Windows
<1>8. ASSUME NEW v \in Versions, CutShort(v) PROVE EditsKept'
  BY <1>8 DEF CutShort, Fresh, Put, engine, user, ReplicaType, WindowInv,
     EditsKept, Windows
<1>9. ASSUME AddAt PROVE EditsKept'
  BY <1>9 DEF AddAt, disk, engine, user, ReplicaType, WindowInv, EditsKept, Windows
<1>10. ASSUME CheckTarget PROVE EditsKept'
  BY <1>10 DEF CheckTarget, disk, engine, user, ReplicaType, WindowInv, EditsKept,
     Windows
<1>11. ASSUME NEW v \in Versions, CopyIn(v) PROVE EditsKept'
  BY <1>11 DEF CopyIn, Fresh, Put, user, ReplicaType, WindowInv, EditsKept, Windows
<1>12. ASSUME Stamp PROVE EditsKept'
  BY <1>12 DEF Stamp, Known, disk, user, ReplicaType, WindowInv, EditsKept, Windows
<1>13. ASSUME NEW e \in {{}} \cup {{v} : v \in Versions}, ApplyDelete(e) PROVE EditsKept'
  BY <1>13 DEF ApplyDelete, disk, engine, user, ReplicaType, WindowInv, EditsKept,
     Windows
<1>14. ASSUME Archive PROVE EditsKept'
  BY <1>14 DEF Archive, engine, user, ReplicaType, WindowInv, EditsKept, Windows
<1>15. ASSUME CreateCopy PROVE EditsKept'
  BY <1>15 DEF CreateCopy, disk, engine, user, ReplicaType, WindowInv, EditsKept,
     Windows
<1>16. ASSUME SameCopy PROVE EditsKept'
  BY <1>16 DEF SameCopy, disk, user, ReplicaType, WindowInv, EditsKept, Windows
<1>17. ASSUME Fail PROVE EditsKept'
  BY <1>17 DEF Fail, disk, user, ReplicaType, WindowInv, EditsKept, Windows
<1>18. CASE UNCHANGED replicaVars
  BY <1>18 DEF replicaVars, disk, engine, user, ReplicaType, WindowInv, EditsKept, Windows
<1> QED
  BY <1>1, <1>2, <1>3, <1>4, <1>5, <1>6, <1>7, <1>8, <1>9, <1>10, <1>11,
     <1>12, <1>13, <1>14, <1>15, <1>16, <1>17, <1>18 DEF ReplicaNext, User, Read,
     Mutate

LEMMA ReplicaInvariance == ReplicaSpec => []ReplicaIInv
<1>1. ReplicaInit => ReplicaIInv
  BY
     DEF ReplicaInit, ReplicaIInv, ReplicaType, WindowInv, TokensBacked, EditsKept,
         ReplicaSteps, Windows
<1>2. ReplicaIInv /\ [ReplicaNext]_replicaVars => ReplicaIInv'
  BY ReplicaTypeStep, WindowStep, TokensStep, KeptStep DEF ReplicaIInv
<1> QED BY <1>1, <1>2, PTL DEF ReplicaSpec

(* The state of the replica and of its attachment is of its type.          *)
THEOREM ReplicaTypeCorrect == ReplicaSpec => []ReplicaType
  BY ReplicaInvariance, PTL DEF ReplicaIInv

(* apply_mutations and read_resources lose an edit of the user only when   *)
(* it was made in one of the three windows EditsKept names; preconditions  *)
(* and the trash protect every other.                                      *)
THEOREM NoEditLost == ReplicaSpec => []EditsKept
  BY ReplicaInvariance, PTL DEF ReplicaIInv

(* The engine never mistakes an edit for a version of its own, but for     *)
(* those edits.                                                            *)
THEOREM NoEditMistaken == ReplicaSpec => []TokensBacked
  BY ReplicaInvariance, PTL DEF ReplicaIInv

-----------------------------------------------------------------------------
(* The conflicts: ConflictMirror.                                          *)

(* The database is open while a run is at work; before the engine changes  *)
(* a conflict the mirror is as good as between runs; and the staging file  *)
(* lists what is pending until it is renamed.                              *)
StageInv ==
    /\ stage = "none" <=> opener = {}
    /\ stage = "engine" /\ ~behind => Rows = pending
    /\ stage \in {"remove", "rename"} => staged = {pending}

MirrorIInv == MirrorType /\ StageInv /\ PageCurrent

(* One step preserves the three. *)
LEMMA MirrorStep ==
    ASSUME MirrorIInv, [MirrorNext]_mirrorVars
    PROVE  MirrorIInv'
<1> USE DEF MirrorIInv, MirrorType, StageInv, PageCurrent, Rows, files
<1>1. ASSUME NEW r \in Runs, Open(r) PROVE MirrorIInv'
  BY <1>1 DEF Open
<1>2. ASSUME NEW r \in Runs, NEW c \in Conflicts, OpenToResolve(r, c) PROVE MirrorIInv'
  BY <1>2 DEF OpenToResolve
<1>3. ASSUME NotPending PROVE MirrorIInv'
  BY <1>3 DEF NotPending, Close
<1>4. ASSUME NEW after \in SUBSET Conflicts, Engine(after) PROVE MirrorIInv'
  BY <1>4 DEF Engine
<1>5. ASSUME Stage PROVE MirrorIInv'
  BY <1>5 DEF Stage
<1>6. ASSUME Remove PROVE MirrorIInv'
  BY <1>6 DEF Remove
<1>7. ASSUME Rename PROVE MirrorIInv'
  <2>1. mirror' = {pending} /\ staged' = {} /\ opener' = {} /\ stage' = "none"
        /\ asked' = {} /\ UNCHANGED <<pending, page>> /\ behind' = FALSE
    BY <1>7 DEF Rename, Close
  <2>2. UNION {pending} = pending
    OBVIOUS
  <2> QED BY <2>1, <2>2
<1>8. ASSUME NEW after \in SUBSET Conflicts, MirrorFails(after) PROVE MirrorIInv'
  <2>1. opener' = {} /\ stage' = "none" /\ asked' = {} /\ UNCHANGED <<files, page>>
    BY <1>8 DEF MirrorFails, Close
  <2>2. pending' \subseteq Conflicts /\ behind' \in BOOLEAN
    BY <1>8 DEF MirrorFails
  <2>3. ~behind' => stage = "engine" /\ ~behind /\ pending' = pending
    BY <1>8 DEF MirrorFails
  <2> QED BY <2>1, <2>2, <2>3
<1>9. ASSUME ListConflicts PROVE MirrorIInv'
  BY <1>9 DEF ListConflicts
<1>10. CASE UNCHANGED mirrorVars
  BY <1>10 DEF mirrorVars
<1> QED
  BY <1>1, <1>2, <1>3, <1>4, <1>5, <1>6, <1>7, <1>8, <1>9, <1>10 DEF MirrorNext

(* Between runs the page lists what is pending (save_conflict_mirror after *)
(* every change of the engine), errors and kills excepted.                 *)
THEOREM PageShowsPending == MirrorSpec => [](MirrorType /\ PageCurrent)
<1>1. MirrorInit => MirrorIInv
  BY DEF MirrorInit, MirrorIInv, MirrorType, StageInv, PageCurrent, Rows
<1>2. MirrorIInv => MirrorType /\ PageCurrent
  BY DEF MirrorIInv
<1> QED BY <1>1, <1>2, MirrorStep, PTL DEF MirrorSpec


-----------------------------------------------------------------------------
(* The settings and the marks: SyncRuns.                                   *)

(* What the proofs need of the settings.                                   *)
SyncTable == NoId \notin Ids /\ Starter \in Edits \ Usable /\ Usable \subseteq Edits

(* The database is open to the run that is at work, and to no other, until *)
(* the marks it owes are set or missed; it has a client id by then.        *)
HolderInv ==
    /\ \A p \in Processes : p \in holder <=> place[p] \in Inside
    /\ \A p, o \in holder : p = o
    /\ \A p \in Processes :
        /\ todo[p] # {} => place[p] = "marks"
        /\ place[p] \in {"backfill", "saving", "build"} \cup Inside => config[p].id \in Ids
    /\ MarksTell

(* Unless writers met, one run at most has the file to write, and what it  *)
(* is to write has the user's settings; an id is added where there was     *)
(* none, before any session.                                               *)
ConfigInv ==
    ~crossed =>
        /\ form = "missing" => content = Template
        /\ form # "torn" => content.edit = written
        /\ form = "torn" => \E p \in Processes : place[p] \in {"starting", "saving"}
        /\ opened # {} => form = "whole" /\ content.id # NoId
        /\ opened \subseteq {content.id}
        /\ \A p \in Processes :
            /\ place[p] \in Writing => ~Meeting(p)
            /\ place[p] = "template" => form = "missing"
            /\ place[p] \in {"template", "starting"} => config[p] = Template /\ written = Starter
            /\ place[p] = "backfill" => form = "whole" /\ content.id = NoId
            /\ place[p] \in {"starting", "saving"} => form = "torn"
            /\ place[p] \in {"backfill", "saving"} => config[p].edit = written
            /\ place[p] \in {"build"} \cup Inside =>
                   form = "whole" /\ content.id = config[p].id

SyncInv == SyncRunsType /\ HolderInv /\ ConfigInv

(* Every step keeps the types.                                             *)
LEMMA SyncRunsTypeStep ==
    ASSUME SyncTable, SyncInv, NEW p \in Processes, RunMoves(p) PROVE SyncRunsType'
<1>1. ASSUME NEW what \in {"sync", "check", "other"}, NEW items \in SUBSET Items, BeginRun(p, what, items) PROVE SyncRunsType'
  BY <1>1 DEF BeginRun, marks, GoTo, SyncInv, SyncRunsType, onDisk
<1>2. ASSUME NoConfig(p) PROVE SyncRunsType'
  BY <1>2
     DEF NoConfig, marks, GoTo, SyncInv, SyncRunsType, Contents, Template, Writing,
         SyncTable, onDisk
<1>3. ASSUME LoadConfig(p) PROVE SyncRunsType'
  BY <1>3 DEF LoadConfig, marks, GoTo, SyncInv, SyncRunsType, onDisk
<1>4. ASSUME NEW id \in Ids, GenerateId(p, id) PROVE SyncRunsType'
  BY <1>4 DEF GenerateId, marks, GoTo, SyncInv, SyncRunsType, Contents, Writing, onDisk
<1>5. ASSUME EmptyConfig(p) PROVE SyncRunsType'
  BY <1>5 DEF EmptyConfig, marks, GoTo, SyncInv, SyncRunsType, Writing
<1>6. ASSUME SaveConfig(p) PROVE SyncRunsType'
  BY <1>6 DEF SaveConfig, marks, GoTo, SyncInv, SyncRunsType
<1>7. ASSUME Probe(p) PROVE SyncRunsType'
  BY <1>7 DEF Probe, marks, GoTo, SyncInv, SyncRunsType, onDisk
<1>8. ASSUME OpenSession(p) PROVE SyncRunsType'
  BY <1>8 DEF OpenSession, marks, GoTo, SyncInv, HolderInv, SyncRunsType, Inside, onDisk
<1>9. ASSUME Other(p) PROVE SyncRunsType'
  BY <1>9 DEF Other, marks, GoTo, SyncInv, SyncRunsType, onDisk
<1>10. ASSUME NEW report \in [Items -> Verdicts], Reconcile(p, report) PROVE SyncRunsType'
  BY <1>10 DEF Reconcile, GoTo, SyncInv, SyncRunsType, Inside, onDisk
<1>11. ASSUME NEW e \in Items \X Marks, NEW ok \in BOOLEAN, SetMark(p, e, ok) PROVE SyncRunsType'
  BY <1>11 DEF SetMark, SyncInv, SyncRunsType, onDisk
<1>12. ASSUME Upkeep(p) PROVE SyncRunsType'
  BY <1>12 DEF Upkeep, marks, GoTo, SyncInv, SyncRunsType, Inside, onDisk
<1>13. ASSUME Complete(p) PROVE SyncRunsType'
  BY <1>13 DEF Complete, marks, GoTo, SyncInv, SyncRunsType, onDisk
<1>14. ASSUME Abandon(p) PROVE SyncRunsType'
  BY <1>14 DEF Abandon, GoTo, SyncInv, SyncRunsType, onDisk
<1> QED
  BY <1>1, <1>2, <1>3, <1>4, <1>5, <1>6, <1>7, <1>8, <1>9, <1>10, <1>11, <1>12, <1>13, <1>14
     DEF RunMoves

(* Marks are set by the run that has the database.                         *)
LEMMA HolderInvStep ==
    ASSUME SyncTable, SyncInv, NEW p \in Processes, RunMoves(p) PROVE HolderInv'
<1>1. ASSUME NEW what \in {"sync", "check", "other"}, NEW items \in SUBSET Items, BeginRun(p, what, items) PROVE HolderInv'
  BY <1>1 DEF BeginRun, marks, GoTo, SyncInv, HolderInv, MarksTell, SyncRunsType, Inside
<1>2. ASSUME NoConfig(p) PROVE HolderInv'
  BY <1>2 DEF NoConfig, marks, GoTo, SyncInv, HolderInv, MarksTell, SyncRunsType, Inside
<1>3. ASSUME LoadConfig(p) PROVE HolderInv'
  BY <1>3
     DEF LoadConfig, marks, GoTo, SyncInv, HolderInv, MarksTell, SyncRunsType, Contents,
         Inside
<1>4. ASSUME NEW id \in Ids, GenerateId(p, id) PROVE HolderInv'
  BY <1>4 DEF GenerateId, marks, GoTo, SyncInv, HolderInv, MarksTell, SyncRunsType, Inside
<1>5. ASSUME EmptyConfig(p) PROVE HolderInv'
  BY <1>5
     DEF EmptyConfig, marks, GoTo, SyncInv, HolderInv, MarksTell, SyncRunsType, Inside
<1>6. ASSUME SaveConfig(p) PROVE HolderInv'
  BY <1>6 DEF SaveConfig, marks, GoTo, SyncInv, HolderInv, MarksTell, SyncRunsType, Inside
<1>7. ASSUME Probe(p) PROVE HolderInv'
  BY <1>7 DEF Probe, marks, GoTo, SyncInv, HolderInv, MarksTell, SyncRunsType, Inside
<1>8. ASSUME OpenSession(p) PROVE HolderInv'
  BY <1>8
     DEF OpenSession, marks, GoTo, SyncInv, HolderInv, MarksTell, SyncRunsType, Inside
<1>9. ASSUME Other(p) PROVE HolderInv'
  BY <1>9 DEF Other, marks, GoTo, SyncInv, HolderInv, MarksTell, SyncRunsType, Inside
<1>10. ASSUME NEW report \in [Items -> Verdicts], Reconcile(p, report) PROVE HolderInv'
  BY <1>10
     DEF Reconcile, GoTo, SyncTable, SyncInv, HolderInv, MarksTell, SyncRunsType, Inside
<1>11. ASSUME NEW e \in Items \X Marks, NEW ok \in BOOLEAN, SetMark(p, e, ok) PROVE HolderInv'
  <2>1. /\ todo' = [todo EXCEPT ![p] = todo[p] \ {e}] /\ UNCHANGED <<place, config, holder, verdict>>
        /\ mark' = [mark EXCEPT ![e] = IF ok THEN verdict[e[1]] ELSE mark[e]]
        /\ missed' = IF ok THEN missed \ {e} ELSE missed \cup {e}
    BY <1>11 DEF SetMark, onDisk
  <2>2. \A o \in Processes : todo'[o] \subseteq todo[o]
    BY <2>1 DEF SyncInv, SyncRunsType
  <2>3. \A f \in (Items \X Marks) \ {e} :
            /\ mark'[f] = mark[f] /\ (f \in missed <=> f \in missed')
            /\ \A o \in Processes : f \in todo[o] <=> f \in todo'[o]
    BY <2>1 DEF SyncInv, SyncRunsType
  <2>4. e \notin missed' => mark'[e] = verdict[e[1]]
    BY <2>1 DEF SyncInv, SyncRunsType
  <2>5. MarksTell'
    BY <2>1, <2>3, <2>4 DEF SyncInv, HolderInv, MarksTell
  <2> QED
    BY <2>1, <2>2, <2>5 DEF SyncInv, HolderInv
<1>12. ASSUME Upkeep(p) PROVE HolderInv'
  BY <1>12 DEF Upkeep, marks, GoTo, SyncInv, HolderInv, MarksTell, SyncRunsType, Inside
<1>13. ASSUME Complete(p) PROVE HolderInv'
  BY <1>13 DEF Complete, marks, GoTo, SyncInv, HolderInv, MarksTell, SyncRunsType, Inside
<1>14. ASSUME Abandon(p) PROVE HolderInv'
  BY <1>14 DEF Abandon, GoTo, SyncInv, HolderInv, MarksTell, SyncRunsType, Inside
<1> QED
  BY <1>1, <1>2, <1>3, <1>4, <1>5, <1>6, <1>7, <1>8, <1>9, <1>10, <1>11, <1>12, <1>13, <1>14
     DEF RunMoves

(* A run that did not meet a writer adds an id and no more.                *)
LEMMA ConfigInvStep ==
    ASSUME SyncTable, SyncInv, NEW p \in Processes, RunMoves(p) PROVE ConfigInv'
<1>1. ASSUME NEW what \in {"sync", "check", "other"}, NEW items \in SUBSET Items, BeginRun(p, what, items) PROVE ConfigInv'
  BY <1>1
     DEF BeginRun, GoTo, SyncInv, ConfigInv, Meeting, SyncRunsType, Writing, Inside, onDisk
<1>2. ASSUME NoConfig(p) PROVE ConfigInv'
  <2>1. CASE crossed'
    BY <2>1 DEF ConfigInv
  <2>2. CASE ~crossed'
    <3>1. ~crossed /\ form = "missing" /\ content = Template /\ content.edit = written /\ opened = {}
      BY <1>2, <2>2 DEF NoConfig, SyncInv, ConfigInv
    <3>2. /\ place' = [place EXCEPT ![p] = "template"] /\ config' = [config EXCEPT ![p] = Template]
          /\ UNCHANGED <<form, content, opened, written>> /\ ~Meeting(p)
      BY <1>2, <2>2 DEF NoConfig, GoTo, onDisk
    <3>3. \A o \in Processes : place[o] \notin {"starting", "saving", "backfill", "build"} \cup Inside
      BY <3>1 DEF SyncInv, ConfigInv
    <3>4. \A o \in Processes \ {p} : place'[o] = place[o] /\ place[o] \notin Writing
      BY <3>2 DEF Meeting, SyncInv, SyncRunsType
    <3>5. place'[p] = "template" /\ config'[p] = Template /\ ~Meeting(p)'
      BY <3>2, <3>4 DEF Meeting, SyncInv, SyncRunsType
    <3>6. written = Starter
      BY <3>1 DEF Template
    <3> QED
      BY <3>1, <3>2, <3>3, <3>4, <3>5, <3>6 DEF ConfigInv, Writing, Inside, Meeting
  <2> QED
    BY <2>1, <2>2
<1>3. ASSUME LoadConfig(p) PROVE ConfigInv'
  BY <1>3 DEF LoadConfig, GoTo, SyncInv, ConfigInv, SyncRunsType, Writing, onDisk
<1>4. ASSUME NEW id \in Ids, GenerateId(p, id) PROVE ConfigInv'
  <2>1. CASE crossed'
    BY <2>1 DEF ConfigInv
  <2>2. CASE ~crossed'
    <3>1. ~crossed /\ form = "whole" /\ content.id = NoId /\ content.edit = written /\ opened = {}
      BY <1>4, <2>2 DEF GenerateId, SyncInv, ConfigInv
    <3>2. /\ place' = [place EXCEPT ![p] = "backfill"]
          /\ config' = [config EXCEPT ![p] = [content EXCEPT !.id = id]]
          /\ UNCHANGED <<form, content, opened, written>> /\ ~Meeting(p)
      BY <1>4, <2>2 DEF GenerateId, GoTo, onDisk
    <3>3. \A o \in Processes : place[o] \notin {"template", "starting", "saving", "build"} \cup Inside
      BY <3>1 DEF SyncInv, SyncTable, ConfigInv, HolderInv
    <3>4. \A o \in Processes \ {p} : place'[o] = place[o] /\ place[o] \notin Writing
      BY <3>2 DEF Meeting, SyncInv, SyncRunsType
    <3>5. place'[p] = "backfill" /\ config'[p].edit = written /\ ~Meeting(p)'
      BY <3>1, <3>2, <3>4 DEF Meeting, SyncInv, SyncRunsType, Contents
    <3> QED
      BY <3>1, <3>2, <3>3, <3>4, <3>5 DEF ConfigInv, Writing, Inside, Meeting
  <2> QED
    BY <2>1, <2>2
<1>5. ASSUME EmptyConfig(p) PROVE ConfigInv'
  BY <1>5
     DEF EmptyConfig, GoTo, SyncTable, SyncInv, ConfigInv, HolderInv, Meeting,
         SyncRunsType, Inside
<1>6. ASSUME SaveConfig(p) PROVE ConfigInv'
  BY <1>6 DEF SaveConfig, GoTo, SyncInv, ConfigInv, Meeting, SyncRunsType, Template
<1>7. ASSUME Probe(p) PROVE ConfigInv'
  BY <1>7 DEF Probe, GoTo, SyncInv, ConfigInv, Meeting, SyncRunsType, Writing, onDisk
<1>8. ASSUME OpenSession(p) PROVE ConfigInv'
  BY <1>8
     DEF OpenSession, GoTo, SyncTable, SyncInv, ConfigInv, HolderInv, SyncRunsType,
         Writing, onDisk
<1>9. ASSUME Other(p) PROVE ConfigInv'
  BY <1>9 DEF Other, GoTo, SyncInv, ConfigInv, Meeting, SyncRunsType, Writing, onDisk
<1>10. ASSUME NEW report \in [Items -> Verdicts], Reconcile(p, report) PROVE ConfigInv'
  BY <1>10 DEF Reconcile, GoTo, SyncInv, ConfigInv, Meeting, SyncRunsType, Writing, onDisk
<1>11. ASSUME NEW e \in Items \X Marks, NEW ok \in BOOLEAN, SetMark(p, e, ok) PROVE ConfigInv'
  BY <1>11 DEF SetMark, SyncInv, ConfigInv, Meeting, SyncRunsType, onDisk
<1>12. ASSUME Upkeep(p) PROVE ConfigInv'
  BY <1>12 DEF Upkeep, GoTo, SyncInv, ConfigInv, Meeting, SyncRunsType, Writing, onDisk
<1>13. ASSUME Complete(p) PROVE ConfigInv'
  BY <1>13 DEF Complete, GoTo, SyncInv, ConfigInv, Meeting, SyncRunsType, Writing, onDisk
<1>14. ASSUME Abandon(p) PROVE ConfigInv'
  BY <1>14
     DEF Abandon, GoTo, SyncInv, ConfigInv, Meeting, SyncRunsType, Writing, Inside,
         onDisk
<1> QED
  BY <1>1, <1>2, <1>3, <1>4, <1>5, <1>6, <1>7, <1>8, <1>9, <1>10, <1>11, <1>12, <1>13, <1>14
     DEF RunMoves

LEMMA SyncInvariance == ASSUME SyncTable PROVE SyncRunsSpec => []SyncInv
<1>1. ASSUME SyncRunsInit PROVE SyncInv
  <2>1. SyncRunsType
    <3>1. Template \in Contents
      BY DEF SyncTable, Template, Contents
    <3>2. content \in Contents /\ content.edit \in Edits
      BY <1>1, <3>1 DEF SyncRunsInit, Contents
    <3> QED
      BY <1>1, <3>1, <3>2 DEF SyncRunsInit, SyncRunsType
  <2>2. HolderInv
    BY <1>1 DEF SyncRunsInit, HolderInv, MarksTell, Inside
  <2>3. ConfigInv
    <3>1. \A p \in Processes : place[p] = "idle"
      BY <1>1 DEF SyncRunsInit
    <3>2. opened = {} /\ (form = "missing" => content = Template) /\ form # "torn" /\ content.edit = written
      BY <1>1 DEF SyncRunsInit
    <3> QED
      BY <3>1, <3>2 DEF ConfigInv, Writing, Inside
  <2> QED
    BY <2>1, <2>2, <2>3 DEF SyncInv
<1>2. ASSUME SyncInv, [SyncRunsNext]_syncRuns PROVE SyncInv'
  <2>1. ASSUME NEW p \in Processes, RunMoves(p) PROVE SyncInv'
    BY <1>2, <2>1, SyncRunsTypeStep, HolderInvStep, ConfigInvStep DEF SyncInv
  <2>2. ASSUME NEW e \in Edits, EditConfig(e) PROVE SyncInv'
    <3>1. SyncRunsType'
      BY <1>2, <2>2 DEF EditConfig, marks, SyncInv, SyncRunsType, Contents, Template
    <3>2. HolderInv'
      BY <1>2, <2>2 DEF EditConfig, marks, SyncInv, HolderInv, MarksTell
    <3>3. ConfigInv'
      BY <1>2, <2>2
         DEF EditConfig, marks, SyncInv, ConfigInv, Meeting, SyncRunsType, Contents,
             Template, Writing, Inside
    <3> QED
      BY <3>1, <3>2, <3>3 DEF SyncInv
  <2>3. ASSUME UNCHANGED syncRuns PROVE SyncInv'
    BY <1>2, <2>3
       DEF syncRuns, onDisk, marks, SyncInv, HolderInv, MarksTell, ConfigInv, Meeting,
           SyncRunsType
  <2> QED
    BY <1>2, <2>1, <2>2, <2>3 DEF SyncRunsNext
<1> QED
  BY <1>1, <1>2, PTL DEF SyncRunsSpec

(* A client keeps its id, and the user's settings are kept, unless writers *)
(* of config.toml meet or one is cut off (load, save).                     *)
THEOREM IdentityStays ==
    ASSUME SyncTable PROVE SyncRunsSpec => [](SyncRunsType /\ IdKept /\ EditKept)
<1>1. SyncInv => SyncRunsType /\ IdKept /\ EditKept
  BY DEF SyncInv, ConfigInv, IdKept, EditKept
<1> QED
  BY <1>1, SyncInvariance, PTL

(* However many syncs are started, the marks of an item are those of the   *)
(* last report of it, but for those that failed (sync_items_v2).           *)
THEOREM MarksAreOfTheLast == ASSUME SyncTable PROVE SyncRunsSpec => []MarksTell
<1>1. SyncInv => MarksTell
  BY DEF SyncInv, HolderInv
<1> QED
  BY <1>1, SyncInvariance, PTL

-----------------------------------------------------------------------------
(* The remote catalog: CatalogStore.                                       *)

(* What the sets of numbers below have a least and a greatest member for.  *)
LEMMA LeastExists ==
    ASSUME NEW T, T \subseteq Nat, T # {}
    PROVE  \E n \in T : \A m \in T : n <= m
<1>1. PICK n \in T : \A m \in T : <<m, n>> \notin OpToRel(<, Nat)
  BY WFMin, NatLessThanWellFounded
<1>2. \A m \in T : ~(m < n)
  BY <1>1 DEF OpToRel
<1> QED
  BY <1>2

LEMMA GreatestExists ==
    ASSUME NEW T, T \subseteq Nat, T # {}, NEW b \in Nat, \A n \in T : n <= b
    PROVE  \E n \in T : \A m \in T : m <= n
<1> DEFINE D == {b - n : n \in T}
<1>1. D \subseteq Nat /\ D # {}
  <2>1. \A n \in T : b - n \in Nat
    OBVIOUS
  <2> QED
    BY <2>1
<1>2. PICK d \in D : \A e \in D : d <= e
  <2> HIDE DEF D
  <2> QED
    BY <1>1, LeastExists
<1>3. PICK n \in T : d = b - n
  OBVIOUS
<1>4. \A m \in T : b - n <= b - m
  BY <1>2, <1>3
<1> QED
  BY <1>4

-----------------------------------------------------------------------------
(* The state, for any maintainers *)

SnapshotType == [covered : [Clients -> Nat], events : SUBSET Events]
ScanType == [gen : 0..MaxSnapshots, snapshot : SnapshotType, clients : SUBSET Clients,
             found : SUBSET Segments, overtaken : BOOLEAN]
PlanType == [base : 0..MaxSnapshots, gen : 0..MaxSnapshots, snapshot : SnapshotType,
             obsolete : SUBSET Events]

StoreType ==
    /\ packs \subseteq Events /\ commits \subseteq Events /\ retired \subseteq Events
    /\ registry \subseteq Clients /\ segments \subseteq Segments
    /\ snapshots \in [1..MaxSnapshots -> SnapshotType]
    /\ kept \subseteq 1..MaxSnapshots /\ latest \in 0..MaxSnapshots /\ disturbed \in BOOLEAN
    /\ acks \in [Clients -> SUBSET Events]

ClientType ==
    /\ got \in [Clients -> SUBSET Events]
    /\ made \in [Clients -> Nat] /\ \A c \in Clients : made[c] <= MaxMade
    /\ sent \in [Clients -> Nat]
    /\ cursor \in [Clients -> [Clients -> Nat]]

SessionType ==
    /\ pc \in [Clients -> Steps]
    /\ scan \in [Clients -> ScanType]
    /\ batch \in [Clients -> SUBSET Events]
    /\ plan \in [Clients -> PlanType]

(* The n-th commit of client d is published.                               *)
IsOut(d, n) == <<d, n>> \in got[d]

(* What a client publishes grows from its first commit on without a gap,   *)
(* and what it has recorded as published is.                               *)
PublishInv(c) ==
    /\ \A n \in Nat : IsOut(c, n) => n \in 1..made[c] /\ \A k \in 1..n : IsOut(c, k)
    /\ sent[c] <= made[c] /\ \A n \in 1..sent[c] : IsOut(c, n)
    /\ batch[c] # {} => batch[c] = {c} \X ((sent[c] + 1)..made[c])
    /\ batch[c] # {} => pc[c] \in {"commits", "segment", "acknowledge"}
    /\ pc[c] \in {"commits", "segment"} => batch[c] # {}
    /\ pc[c] = "acknowledge" => batch[c] \subseteq got[c]

(* A segment, a snapshot and a cursor never speak of what is not published.*)
OutSegment(s) == 1 <= s.first /\ s.first <= s.last /\ IsOut(s.client, s.last)

Reaches(cur) == \A d \in Clients : cur[d] = 0 \/ IsOut(d, cur[d])

OutSnapshot(snapshot) ==
    /\ Reaches(snapshot.covered)
    /\ \A e \in snapshot.events : IsOut(e[1], e[2]) /\ e[2] <= snapshot.covered[e[1]]

OutStore ==
    /\ \A s \in segments : OutSegment(s)
    /\ \A g \in 1..MaxSnapshots : OutSnapshot(snapshots[g])

OutClient(c) ==
    /\ \A e \in got[c] : IsOut(e[1], e[2])
    /\ Reaches(cursor[c])
    /\ acks[c] \subseteq got[c] /\ plan[c].obsolete \subseteq got[c]
    /\ OutSnapshot(plan[c].snapshot) /\ OutSnapshot(scan[c].snapshot)
    /\ \A s \in scan[c].found : OutSegment(s)
    /\ scan[c].clients \subseteq registry
    /\ pc[c] \in {"publish snapshot", "delete", "prune", "unpack"} =>
          plan[c].gen # 0

OutInv == OutStore /\ \A c \in Clients : OutClient(c)

TypeInv == StoreType /\ ClientType /\ SessionType
IInv == TypeInv /\ OutInv /\ \A c \in Clients : PublishInv(c)

LEMMA EventIs ==
    /\ \A e \in Events : /\ e = <<e[1], e[2]>> /\ e[1] \in Clients
                         /\ e[2] \in Nat /\ 1 <= e[2] /\ e[2] <= MaxMade
    /\ \A d \in Clients : \A n \in 1..MaxMade : <<d, n>> \in Events
    /\ \A n \in Counters : n \in Nat /\ 1 <= n
BY CatalogAssumption DEF Events, Counters

(* The generation a scan reads, or a plan, is a snapshot with its covered  *)
(* counters; 0 covers nothing.                                             *)
LEMMA SnapshotIs ==
    ASSUME StoreType, NEW g \in 0..MaxSnapshots
    PROVE  Snapshot(g) \in SnapshotType
<1>1. CASE g = 0
  BY <1>1 DEF Snapshot, NoSnapshot, NoCursor, SnapshotType
<1>2. CASE g # 0
  BY <1>2 DEF Snapshot, StoreType
<1> QED
  BY <1>1, <1>2

LEMMA OutSnapshotIs ==
    ASSUME IInv, NEW g \in 0..MaxSnapshots
    PROVE  Snapshot(g) \in SnapshotType /\ OutSnapshot(Snapshot(g))
<1>1. Snapshot(g) \in SnapshotType
  BY SnapshotIs DEF IInv, TypeInv
<1>2. CASE g = 0
  <2>1. Snapshot(g).events = {} /\ \A d \in Clients : Snapshot(g).covered[d] = 0
    BY <1>2 DEF Snapshot, NoSnapshot, NoCursor
  <2> QED
    BY <1>1, <2>1 DEF OutSnapshot, Reaches
<1>3. CASE g # 0
  <2>1. g \in 1..MaxSnapshots
    BY <1>3, CatalogAssumption
  <2> QED
    BY <1>1, <1>3, <2>1 DEF Snapshot, IInv, OutInv, OutStore, OutClient
<1> QED
  BY <1>1, <1>2, <1>3

(* The cursors after a scan are the highest of what it has seen.           *)
LEMMA RaisedIs ==
    ASSUME IInv, NEW from \in [Clients -> Nat], NEW snapshot \in SnapshotType,
           NEW segs, segs \subseteq Segments, \A s \in segs : OutSegment(s), NEW d \in Clients
    PROVE  LET n == Raised(from, snapshot, segs)[d] IN
           /\ n \in Nat /\ from[d] <= n /\ snapshot.covered[d] <= n
           /\ \A s \in segs : s.client = d => s.last <= n
           /\ \/ n = from[d] \/ n = snapshot.covered[d]
              \/ \E s \in segs : s.client = d /\ n = s.last
<1> DEFINE reached == {from[d], snapshot.covered[d]}
                      \cup {s.last : s \in {t \in segs : t.client = d}}
<1>1. \A s \in segs : s.client = d => s.last \in Nat /\ s.last <= MaxMade
  <2> SUFFICES ASSUME NEW s \in segs, s.client = d
               PROVE  s.last \in Nat /\ s.last <= MaxMade
    OBVIOUS
  <2>1. <<d, s.last>> \in Events
    BY DEF OutSegment, IsOut, IInv, TypeInv, ClientType
  <2> QED
    BY <2>1, EventIs
<1>2. from[d] \in Nat /\ snapshot.covered[d] \in Nat /\ MaxMade \in Nat
  BY CatalogAssumption DEF SnapshotType
<1>3. reached \subseteq Nat /\ reached # {}
  BY <1>1, <1>2
<1>4. \A n \in reached : n <= from[d] + snapshot.covered[d] + MaxMade
  BY <1>1, <1>2
<1>5. \E n \in reached : \A m \in reached : m <= n
  <2>1. from[d] + snapshot.covered[d] + MaxMade \in Nat
    BY <1>2
  <2> HIDE DEF reached
  <2> QED
    BY <1>3, <1>4, <2>1, GreatestExists
<1>6. Raised(from, snapshot, segs)[d] = CHOOSE n \in reached : \A m \in reached : m <= n
  BY DEF Raised
<1> DEFINE n == Raised(from, snapshot, segs)[d]
<1>7. n \in reached /\ \A m \in reached : m <= n
  <2> HIDE DEF reached
  <2> QED
    BY <1>5, <1>6
<1> QED
  BY <1>3, <1>7

LEMMA RaisedType ==
    ASSUME IInv, NEW from \in [Clients -> Nat], NEW snapshot \in SnapshotType,
           NEW segs, segs \subseteq Segments, \A s \in segs : OutSegment(s)
    PROVE  Raised(from, snapshot, segs) \in [Clients -> Nat]
<1>1. \A d \in Clients : Raised(from, snapshot, segs)[d] \in Nat
  BY RaisedIs
<1>2. Raised(from, snapshot, segs) = [d \in Clients |-> Raised(from, snapshot, segs)[d]]
  BY DEF Raised
<1> QED
  BY <1>1, <1>2

(* What a client publishes next is what it has not recorded as published.  *)
LEMMA UnsentIs ==
    ASSUME IInv, NEW c \in Clients, made'[c] \in Nat, made'[c] <= MaxMade
    PROVE  Unsent(c) = {c} \X ((sent[c] + 1)..made'[c])
<1>1. \A e \in Unsent(c) : e \in {c} \X ((sent[c] + 1)..made'[c])
  BY EventIs DEF Unsent, IInv, TypeInv, ClientType
<1>2. \A n \in (sent[c] + 1)..made'[c] : <<c, n>> \in Unsent(c)
  <2> SUFFICES ASSUME NEW n \in (sent[c] + 1)..made'[c] PROVE <<c, n>> \in Unsent(c)
    OBVIOUS
  <2>1. n \in 1..MaxMade /\ sent[c] < n /\ n <= made'[c]
    BY CatalogAssumption DEF IInv, TypeInv, ClientType
  <2>2. <<c, n>> \in Events
    BY <2>1, EventIs
  <2> QED
    BY <2>1, <2>2 DEF Unsent
<1> QED
  BY <1>1, <1>2

(* The segment that is put.                                                *)
LEMMA SegmentIs ==
    ASSUME IInv, NEW c \in Clients, PutSegment(c)
    PROVE  /\ sent[c] < made[c] /\ batch[c] = {c} \X ((sent[c] + 1)..made[c])
           /\ segments' = segments \cup {[client |-> c, first |-> sent[c] + 1, last |-> made[c]]}
           /\ got' = [got EXCEPT ![c] = @ \cup batch[c]]
<1> DEFINE counters == {e[2] : e \in batch[c]}
<1>1. batch[c] # {} /\ batch[c] = {c} \X ((sent[c] + 1)..made[c])
  BY DEF PutSegment, IInv, PublishInv
<1>2. sent[c] \in Nat /\ made[c] \in Nat
  BY DEF IInv, TypeInv, ClientType
<1>3. counters = (sent[c] + 1)..made[c]
  <2>1. \A n \in (sent[c] + 1)..made[c] : <<c, n>> \in batch[c] /\ <<c, n>>[2] = n
    BY <1>1
  <2>2. \A n \in (sent[c] + 1)..made[c] : n \in counters
    BY <2>1
  <2> QED
    BY <1>1, <2>2
<1>4. sent[c] < made[c]
  <2>1. PICK e \in batch[c] : TRUE
    BY <1>1
  <2> QED
    BY <1>1, <1>2, <2>1
<1>5. (CHOOSE n \in counters : \A m \in counters : n <= m) = sent[c] + 1
  <2> HIDE DEF counters
  <2>1. sent[c] + 1 \in counters /\ \A m \in counters : sent[c] + 1 <= m
    BY <1>2, <1>3, <1>4
  <2>2. \A n \in counters : (\A m \in counters : n <= m) => n = sent[c] + 1
    BY <1>2, <1>3, <2>1
  <2> QED
    BY <2>1, <2>2
<1>6. (CHOOSE n \in counters : \A m \in counters : m <= n) = made[c]
  <2> HIDE DEF counters
  <2>1. made[c] \in counters /\ \A m \in counters : m <= made[c]
    BY <1>2, <1>3, <1>4
  <2>2. \A n \in counters : (\A m \in counters : m <= n) => n = made[c]
    BY <1>2, <1>3, <2>1
  <2> QED
    BY <2>1, <2>2
<1> QED
  BY <1>1, <1>4, <1>5, <1>6 DEF PutSegment

(* A client records as published what it has published.                    *)
LEMMA AcknowledgeIs ==
    ASSUME IInv, NEW c \in Clients, Acknowledge(c)
    PROVE  \/ batch[c] = {} /\ sent' = sent
           \/ batch[c] # {} /\ sent' = [sent EXCEPT ![c] = made[c]]
<1>0. sent[c] \in Nat /\ made[c] \in Nat /\ sent \in [Clients -> Nat]
  BY DEF IInv, TypeInv, ClientType
<1>1. CASE batch[c] = {}
  <2>1. Cardinality(batch[c]) = 0
    BY <1>1, FS_EmptySet
  <2> QED
    BY <1>0, <1>1, <2>1 DEF Acknowledge
<1>2. CASE batch[c] # {}
  <2> DEFINE numbers == (sent[c] + 1)..made[c]
  <2> DEFINE f == [n \in numbers |-> <<c, n>>]
  <2>1. batch[c] = {c} \X numbers
    BY <1>2 DEF IInv, PublishInv
  <2>2. f \in Bijection(numbers, batch[c])
    <3>1. f \in [numbers -> batch[c]]
      BY <2>1
    <3>2. \A i, j \in numbers : f[i] = f[j] => i = j
      OBVIOUS
    <3>3. \A e \in batch[c] : \E n \in numbers : f[n] = e
      BY <2>1
    <3> HIDE DEF f, numbers
    <3> QED
      BY <3>1, <3>2, <3>3 DEF Bijection, Injection, Surjection, IsInjective
  <2>3. sent[c] < made[c]
    <3>1. PICK e \in batch[c] : TRUE
      BY <1>2
    <3> QED
      BY <1>0, <2>1, <3>1
  <2>4. IsFiniteSet(numbers) /\ Cardinality(numbers) = made[c] - sent[c]
    <3>1. sent[c] + 1 \in Int /\ made[c] \in Int /\ ~(sent[c] + 1 > made[c])
      BY <1>0, <2>3
    <3>2. made[c] - (sent[c] + 1) + 1 = made[c] - sent[c]
      BY <1>0
    <3> QED
      BY <3>1, <3>2, FS_Interval
  <2>5. Cardinality(batch[c]) = made[c] - sent[c]
    <3> HIDE DEF f, numbers
    <3> QED
      BY <2>2, <2>4, FS_Bijection DEF ExistsBijection
  <2>6. sent' = [sent EXCEPT ![c] = sent[c] + Cardinality(batch[c])]
    BY DEF Acknowledge
  <2>7. sent[c] + Cardinality(batch[c]) = made[c]
    BY <1>0, <2>5
  <2> QED
    BY <1>2, <2>6, <2>7
<1> QED
  BY <1>1, <1>2

(* One step of the session of one client.                                  *)
Step(c) == Scan(c) \/ Publish(c) \/ Maintain(c) \/ Abort(c)

(* A snapshot is put under generation g.                                   *)
SnapshotPut(c, g) ==
    /\ snapshots' = IF g \in kept THEN snapshots
                    ELSE [snapshots EXCEPT ![g] = plan[c].snapshot]
    /\ kept' = kept \cup {g}
    /\ plan' = [plan EXCEPT ![c].gen = g]
    /\ disturbed' = (disturbed \/ Disturbs(c, g))

(* The steps that touch each part of the state.                            *)
LEMMA Touching ==
    ASSUME NEW c \in Clients, Step(c)
    PROVE  /\ \/ UNCHANGED <<packs, commits, registry, segments, snapshots, kept, latest, acks, retired>>
              \/ PutPacks(c) \/ PutCommits(c) \/ PutSegment(c) \/ Acknowledge(c)
              \/ PutSnapshot(c) \/ PutLatest(c) \/ DeleteSegment(c) \/ DeleteCommits(c)
              \/ Prune(c) \/ DeletePacks(c)
           /\ \/ UNCHANGED <<made, sent, cursor, got>>
              \/ Deliver(c) \/ PutPacks(c) \/ PutSegment(c) \/ Acknowledge(c)
           /\ UNCHANGED disturbed \/ Deliver(c) \/ PutSnapshot(c)
<1>1. \/ UNCHANGED <<packs, commits, registry, segments, snapshots, kept, latest, acks, retired>>
      \/ PutPacks(c) \/ PutCommits(c) \/ PutSegment(c) \/ Acknowledge(c)
      \/ PutSnapshot(c) \/ PutLatest(c) \/ DeleteSegment(c) \/ DeleteCommits(c)
      \/ Prune(c) \/ DeletePacks(c)
  BY
     DEF Step, Scan, Publish, Maintain, store, Begin, ReadSnapshot, List, Load, Deliver,
         Plan, Abort
<1>2. \/ UNCHANGED <<made, sent, cursor, got>>
      \/ Deliver(c) \/ PutPacks(c) \/ PutSegment(c) \/ Acknowledge(c)
  BY
     DEF Step, Scan, Publish, Maintain, client, Begin, ReadSnapshot, List, Load, Plan,
         Abort,
    PutCommits, PutSnapshot, PutLatest, DeleteSegment, DeleteCommits, Prune, DeletePacks
<1>3. UNCHANGED disturbed \/ Deliver(c) \/ PutSnapshot(c)
  BY DEF Step, Scan, Publish, Maintain, store, Begin, ReadSnapshot, List, Load, Plan,
         Abort, PutPacks, PutCommits, PutSegment, Acknowledge, PutLatest, DeleteSegment,
         DeleteCommits, Prune, DeletePacks
<1> QED
  BY <1>1, <1>2, <1>3

(* A step keeps the store well-typed.                                      *)
LEMMA StoreStep ==
    ASSUME IInv, NEW c \in Clients, Step(c)
    PROVE  StoreType'
<1>99. disturbed' \in BOOLEAN
  <2>1. CASE UNCHANGED disturbed
    BY <2>1 DEF IInv, TypeInv, StoreType
  <2>2. CASE Deliver(c)
    <3>1. disturbed' = disturbed \/ disturbed' = (disturbed \/ scan[c].overtaken)
      BY <2>2 DEF Deliver
    <3> QED
      BY <3>1 DEF IInv, TypeInv, StoreType
  <2>3. CASE PutSnapshot(c)
    <3>1. PICK g \in 1..MaxSnapshots : SnapshotPut(c, g)
      BY <2>3 DEF PutSnapshot, SnapshotPut, PutCreate
    <3> QED
      BY <3>1 DEF SnapshotPut
  <2> QED
    BY <2>1, <2>2, <2>3, Touching
<1>0. CASE UNCHANGED <<packs, commits, registry, segments, snapshots, kept, latest, acks, retired>>
  BY <1>99, <1>0
     DEF IInv, TypeInv, StoreType, ClientType, SessionType, ScanType, PlanType,
         SnapshotType
<1>1. CASE PutPacks(c)
  <2>1. Unsent(c) \subseteq Events
    BY DEF Unsent
  <2> QED
    BY <1>99, <1>1, <2>1 DEF PutPacks, IInv, TypeInv, StoreType
<1>2. CASE PutCommits(c)
  BY <1>99, <1>2
     DEF PutCommits, Goto, store, client, session, IInv, TypeInv, StoreType, ClientType,
         SessionType, ScanType, PlanType, SnapshotType
<1>3. CASE PutSegment(c)
  <2>1. [client |-> c, first |-> sent[c] + 1, last |-> made[c]] \in Segments
    <3>1. sent[c] + 1 \in 1..MaxMade /\ made[c] \in 1..MaxMade
      BY <1>99, <1>3, SegmentIs, CatalogAssumption DEF IInv, TypeInv, ClientType
    <3> QED
      BY <3>1 DEF Segments, Counters
  <2>2. segments' = segments \cup {[client |-> c, first |-> sent[c] + 1, last |-> made[c]]}
    BY <1>99, <1>3, SegmentIs
  <2>3. UNCHANGED <<packs, commits, registry, snapshots, kept, latest, acks, retired, disturbed>>
    BY <1>99, <1>3 DEF PutSegment
  <2> QED
    BY <1>99, <2>1, <2>2, <2>3 DEF IInv, TypeInv, StoreType
<1>4. CASE Acknowledge(c)
  BY <1>99, <1>4
     DEF Acknowledge, Goto, store, client, session, IInv, TypeInv, StoreType,
         ClientType, SessionType, ScanType, PlanType, SnapshotType
<1>5. CASE PutSnapshot(c)
  <2>1. plan[c].snapshot \in SnapshotType
    BY DEF IInv, TypeInv, SessionType, PlanType
  <2>2. PICK g \in 1..MaxSnapshots : SnapshotPut(c, g)
    BY <1>99, <1>5 DEF PutSnapshot, SnapshotPut, PutCreate
  <2>3. UNCHANGED <<packs, commits, registry, segments, latest, acks, retired>>
    BY <1>99, <1>5 DEF PutSnapshot
  <2> QED
    BY <1>99, <2>1, <2>2, <2>3 DEF SnapshotPut, IInv, TypeInv, StoreType
<1>6. CASE PutLatest(c)
  <2>1. plan[c].gen \in 0..MaxSnapshots
    BY DEF IInv, TypeInv, SessionType, PlanType
  <2>2. plan[c].obsolete \subseteq Events
    BY DEF IInv, TypeInv, SessionType, PlanType
  <2> QED
    BY <1>99, <1>6, <2>1, <2>2
       DEF PutLatest, IInv, TypeInv, StoreType, ClientType, SessionType
<1>7. CASE DeleteSegment(c)
  BY <1>99, <1>7
     DEF DeleteSegment, Covered, Goto, store, client, session, IInv, TypeInv, StoreType,
         ClientType, SessionType, ScanType, PlanType, SnapshotType
<1>8. CASE DeleteCommits(c)
  BY <1>99, <1>8
     DEF DeleteCommits, Goto, store, client, session, IInv, TypeInv, StoreType,
         ClientType, SessionType, ScanType, PlanType, SnapshotType
<1>9. CASE Prune(c)
  BY <1>99, <1>9
     DEF Prune, Goto, store, client, session, IInv, TypeInv, StoreType, ClientType,
         SessionType, ScanType, PlanType, SnapshotType
<1>10. CASE DeletePacks(c)
  BY <1>99, <1>10
     DEF DeletePacks, Stop, Goto, store, client, session, IInv, TypeInv, StoreType,
         ClientType, SessionType, ScanType, PlanType, SnapshotType
<1> QED
  BY <1>0, <1>1, <1>2, <1>3, <1>4, <1>5, <1>6, <1>7, <1>8, <1>9, <1>10, Touching
     DEF Step, Scan, Publish, Maintain

(* A step keeps the clients well-typed.                                    *)
LEMMA ClientStep ==
    ASSUME IInv, NEW c \in Clients, Step(c)
    PROVE  ClientType'
<1>0. CASE UNCHANGED <<made, sent, cursor, got>>
  BY <1>0
     DEF IInv, TypeInv, StoreType, ClientType, SessionType, ScanType, PlanType,
         SnapshotType
<1>1. CASE Deliver(c)
  <2> DEFINE snapshot == scan[c].snapshot
             new == Raised(cursor[c], snapshot, scan[c].found)
  <2>0. snapshot \in SnapshotType /\ scan[c].found \subseteq Segments /\ cursor[c] \in [Clients -> Nat]
        /\ \A s \in scan[c].found : OutSegment(s)
    BY DEF IInv, OutInv, OutStore, OutClient, TypeInv, SessionType, ClientType, ScanType
  <2>2. new \in [Clients -> Nat]
    BY <2>0, RaisedType
  <2>3. ASSUME cursor' = [cursor EXCEPT ![c] = new] /\ Found(cursor[c], snapshot, scan[c].found) \subseteq commits \cap packs
             /\ got' = [got EXCEPT ![c] = got[c] \cup Found(cursor[c], snapshot, scan[c].found)]
        PROVE  ClientType'
    <3>1. Found(cursor[c], snapshot, scan[c].found) \subseteq Events
      BY <2>3 DEF IInv, TypeInv, StoreType
    <3>2. got' \in [Clients -> SUBSET Events]
      BY <2>3, <3>1 DEF IInv, TypeInv, ClientType
    <3>3. UNCHANGED <<made, sent>>
      BY <1>1 DEF Deliver
    <3> HIDE DEF new, snapshot
    <3> QED
      BY <2>2, <2>3, <3>2, <3>3 DEF IInv, TypeInv, ClientType
  <2>4. CASE UNCHANGED <<cursor, got>>
    BY <1>1, <2>4 DEF Deliver, IInv, TypeInv, ClientType
  <2> QED
    BY <1>1, <2>3, <2>4 DEF Deliver, Stop
<1>2. CASE PutPacks(c)
  <2>1. PICK n \in made[c]..MaxMade : made' = [made EXCEPT ![c] = n]
    BY <1>2 DEF PutPacks
  <2> QED
    BY <1>2, <2>1, CatalogAssumption DEF PutPacks, IInv, TypeInv, ClientType
<1>3. CASE PutSegment(c)
  BY <1>3, SegmentIs DEF PutSegment, IInv, TypeInv, ClientType, SessionType
<1>4. CASE Acknowledge(c)
  BY <1>4, AcknowledgeIs DEF Acknowledge, IInv, TypeInv, ClientType
<1> QED
  BY <1>0, <1>1, <1>2, <1>3, <1>4, Touching DEF Step, Scan, Publish, Maintain

(* What a session forgets, it forgets to something of its type.            *)
LEMMA NoPlanType == NoSnapshot \in SnapshotType /\ NoPlan \in PlanType /\ NoScan \in ScanType
BY CatalogAssumption
   DEF NoSnapshot, NoCursor, NoPlan, NoScan, SnapshotType, PlanType, ScanType

LEMMA StopIs ==
    ASSUME IInv, NEW c \in Clients, Stop(c)
    PROVE  /\ pc' \in [Clients -> Steps] /\ scan' \in [Clients -> ScanType]
           /\ batch' \in [Clients -> SUBSET Events] /\ plan' \in [Clients -> PlanType]
BY NoPlanType DEF Stop, Goto, IInv, TypeInv, SessionType, Steps

(* A step keeps the sessions well-typed.                                   *)
LEMMA SessionStep ==
    ASSUME IInv, NEW c \in Clients, Step(c)
    PROVE  SessionType'
<1>1. CASE Begin(c)
  <2>1. [NoScan EXCEPT !.gen = latest, !.clients = registry] \in ScanType
    BY NoPlanType DEF IInv, TypeInv, StoreType, ScanType
  <2> QED
    BY <1>1, <2>1 DEF Begin, Goto, IInv, TypeInv, SessionType, Steps
<1>2. CASE ReadSnapshot(c)
  <2>1. CASE Stop(c)
    BY <1>2, <2>1, StopIs DEF SessionType
  <2>2. CASE /\ scan[c].gen \in kept /\ scan' = [scan EXCEPT ![c].snapshot = snapshots[scan[c].gen]]
             /\ Goto(c, "list") /\ UNCHANGED <<batch, plan>>
    <3>1. snapshots[scan[c].gen] \in SnapshotType
      BY <2>2 DEF IInv, TypeInv, StoreType
    <3>2. [scan[c] EXCEPT !.snapshot = snapshots[scan[c].gen]] \in ScanType
      BY <3>1 DEF IInv, TypeInv, SessionType, ScanType
    <3> QED
      BY <2>2, <3>2 DEF Goto, IInv, TypeInv, SessionType, Steps
  <2> QED
    BY <1>2, <2>1, <2>2 DEF ReadSnapshot
<1>3. CASE List(c)
  <2>1. PICK found \in SUBSET Segments, late \in BOOLEAN :
           scan' = [scan EXCEPT ![c].found = found, ![c].overtaken = late]
    <3> DEFINE F == {s \in segments :
              /\ s.client \in scan[c].clients
              /\ s.last > Larger(cursor[c][s.client], scan[c].snapshot.covered[s.client])}
    <3>1. F \in SUBSET Segments /\ (scan[c].gen # latest) \in BOOLEAN
      BY DEF IInv, TypeInv, StoreType
    <3>2. scan' = [scan EXCEPT ![c].found = F, ![c].overtaken = scan[c].gen # latest]
      BY <1>3 DEF List
    <3> HIDE DEF F
    <3> QED
      BY <3>1, <3>2
  <2>2. UNCHANGED <<batch, plan>> /\ Goto(c, "load")
    BY <1>3 DEF List
  <2>3. [scan[c] EXCEPT !.found = found, !.overtaken = late] \in ScanType
    <3>1. scan[c] \in ScanType /\ found \subseteq Segments /\ late \in BOOLEAN
      BY DEF IInv, TypeInv, SessionType
    <3> QED
      BY <3>1 DEF ScanType
  <2> QED
    BY <2>1, <2>2, <2>3 DEF Goto, IInv, TypeInv, SessionType, Steps
<1>4. CASE Load(c)
  BY <1>4, StopIs DEF Load, Goto, session, IInv, TypeInv, SessionType, Steps
<1>5. CASE Deliver(c)
  <2>1. CASE Stop(c)
    BY <1>5, <2>1, StopIs DEF Deliver, IInv, TypeInv, SessionType
  <2>2. CASE /\ Goto(c, "publish") /\ scan' = [scan EXCEPT ![c] = NoScan] /\ UNCHANGED batch
             /\ plan' = [plan EXCEPT ![c].base = scan[c].gen]
    <3>1. [plan[c] EXCEPT !.base = scan[c].gen] \in PlanType
      BY DEF IInv, TypeInv, SessionType, ScanType, PlanType
    <3> QED
      BY <2>2, <3>1, NoPlanType DEF Goto, IInv, TypeInv, SessionType, Steps
  <2> QED
    BY <1>5, <2>1, <2>2 DEF Deliver
<1>6. CASE PutPacks(c)
  <2>1. Unsent(c) \subseteq Events
    BY DEF Unsent
  <2> QED
    BY <1>6, <2>1 DEF PutPacks, Goto, IInv, TypeInv, SessionType, Steps
<1>7. CASE PutCommits(c)
  BY <1>7
     DEF PutCommits, Goto, store, client, session, IInv, TypeInv, StoreType, ClientType,
         SessionType, ScanType, PlanType, NoScan, NoPlan, Steps
<1>8. CASE PutSegment(c)
  BY <1>8
     DEF PutSegment, Goto, store, client, session, IInv, TypeInv, StoreType, ClientType,
         SessionType, ScanType, PlanType, NoScan, NoPlan, Steps
<1>9. CASE Acknowledge(c)
  BY <1>9
     DEF Acknowledge, Goto, store, client, session, IInv, TypeInv, StoreType,
         ClientType, SessionType, ScanType, PlanType, NoScan, NoPlan, Steps
<1>10. CASE Plan(c)
  <2>1. CASE Stop(c)
    BY <1>10, <2>1, StopIs DEF Plan, IInv, TypeInv, SessionType
  <2>2. ASSUME NEW obsolete \in SUBSET Events, NEW events \in SUBSET Events,
               plan' = [plan EXCEPT ![c].snapshot = [covered |-> cursor[c], events |-> events],
                                    ![c].obsolete = obsolete],
               Goto(c, "compact"), UNCHANGED <<scan, batch>>
        PROVE  SessionType'
    <3>1. [plan[c] EXCEPT !.snapshot = [covered |-> cursor[c], events |-> events],
                          !.obsolete = obsolete] \in PlanType
      BY DEF PlanType, SnapshotType, IInv, TypeInv, ClientType, SessionType
    <3> QED
      BY <1>10, <2>2, <3>1 DEF Plan, Goto, IInv, TypeInv, SessionType, Steps
  <2>3. ASSUME ~Stop(c) PROVE SessionType'
    <3> DEFINE covered == {e \in got[c] \ retired : e[2] <= cursor[c][e[1]]}
    <3>1. PICK obsolete \in {{}, AcknowledgedByAll \cap covered} :
             /\ plan' = [plan EXCEPT
                   ![c].snapshot = [covered |-> cursor[c], events |-> covered \ obsolete],
                   ![c].obsolete = obsolete]
             /\ Goto(c, "compact") /\ UNCHANGED <<scan, batch>>
      BY <1>10, <2>3 DEF Plan
    <3>2. covered \subseteq Events
      BY DEF IInv, TypeInv, ClientType
    <3>3. obsolete \in SUBSET Events /\ covered \ obsolete \in SUBSET Events
      BY <3>2
    <3> HIDE DEF covered
    <3> QED
      BY <2>2, <3>1, <3>3
  <2> QED
    BY <2>1, <2>3
<1>11. CASE PutSnapshot(c)
  <2>1. PICK g \in 1..MaxSnapshots : SnapshotPut(c, g)
    BY <1>11 DEF PutSnapshot, SnapshotPut, PutCreate
  <2>2. [plan[c] EXCEPT !.gen = g] \in PlanType
    BY DEF IInv, TypeInv, SessionType, PlanType
  <2> QED
    BY <1>11, <2>1, <2>2
       DEF SnapshotPut, PutSnapshot, Goto, IInv, TypeInv, SessionType, Steps
<1>12. CASE PutLatest(c)
  BY <1>12
     DEF PutLatest, Goto, store, client, session, IInv, TypeInv, StoreType, ClientType,
         SessionType, ScanType, PlanType, NoScan, NoPlan, Steps
<1>13. CASE DeleteSegment(c)
  BY <1>13
     DEF DeleteSegment, Covered, Goto, store, client, session, IInv, TypeInv, StoreType,
         ClientType, SessionType, ScanType, PlanType, NoScan, NoPlan, Steps
<1>14. CASE DeleteCommits(c)
  BY <1>14
     DEF DeleteCommits, Goto, store, client, session, IInv, TypeInv, StoreType,
         ClientType, SessionType, ScanType, PlanType, NoScan, NoPlan, Steps
<1>15. CASE Prune(c)
  BY <1>15
     DEF Prune, Goto, store, client, session, IInv, TypeInv, StoreType, ClientType,
         SessionType, ScanType, PlanType, NoScan, NoPlan, Steps
<1>16. CASE DeletePacks(c)
  BY <1>16, StopIs DEF DeletePacks, IInv, TypeInv, SessionType
<1>17. CASE Abort(c)
  BY <1>17, StopIs DEF Abort, SessionType
<1> QED
  BY <1>1, <1>2, <1>3, <1>4, <1>5, <1>6, <1>7, <1>8, <1>9, <1>10, <1>11, <1>12, <1>13, <1>14, <1>15, <1>16, <1>17
     DEF Step, Scan, Publish, Maintain

(* A step of one client leaves what is of another client alone.            *)
LEMMA Elsewhere ==
    ASSUME IInv, NEW c \in Clients, Step(c), NEW d \in Clients, d # c
    PROVE  /\ got'[d] = got[d] /\ made'[d] = made[d] /\ sent'[d] = sent[d] /\ cursor'[d] = cursor[d]
           /\ acks'[d] = acks[d]
           /\ pc'[d] = pc[d] /\ scan'[d] = scan[d] /\ batch'[d] = batch[d] /\ plan'[d] = plan[d]
<1>1. CASE Begin(c)
  BY <1>1
     DEF Begin, Goto, store, client, session, IInv, TypeInv, StoreType, ClientType,
         SessionType
<1>2. CASE ReadSnapshot(c)
  BY <1>2
     DEF ReadSnapshot, Stop, Goto, store, client, session, IInv, TypeInv, StoreType,
         ClientType, SessionType
<1>3. CASE List(c)
  BY <1>3
     DEF List, Goto, store, client, session, IInv, TypeInv, StoreType, ClientType,
         SessionType
<1>4. CASE Load(c)
  BY <1>4
     DEF Load, Stop, Goto, store, client, session, IInv, TypeInv, StoreType, ClientType,
         SessionType
<1>5. CASE Deliver(c)
  BY <1>5
     DEF Deliver, Stop, Goto, store, client, session, IInv, TypeInv, StoreType,
         ClientType, SessionType
<1>6. CASE PutPacks(c)
  BY <1>6
     DEF PutPacks, Goto, store, client, session, IInv, TypeInv, StoreType, ClientType,
         SessionType
<1>7. CASE PutCommits(c)
  BY <1>7
     DEF PutCommits, Goto, store, client, session, IInv, TypeInv, StoreType, ClientType,
         SessionType
<1>8. CASE PutSegment(c)
  BY <1>8
     DEF PutSegment, Goto, store, client, session, IInv, TypeInv, StoreType, ClientType,
         SessionType
<1>9. CASE Acknowledge(c)
  BY <1>9
     DEF Acknowledge, Goto, store, client, session, IInv, TypeInv, StoreType,
         ClientType, SessionType
<1>10. CASE Plan(c)
  BY <1>10
     DEF Plan, Stop, Goto, store, client, session, IInv, TypeInv, StoreType, ClientType,
         SessionType
<1>11. CASE PutSnapshot(c)
  BY <1>11
     DEF PutSnapshot, Goto, store, client, session, IInv, TypeInv, StoreType,
         ClientType, SessionType
<1>12. CASE PutLatest(c)
  BY <1>12
     DEF PutLatest, Goto, store, client, session, IInv, TypeInv, StoreType, ClientType,
         SessionType
<1>13. CASE DeleteSegment(c)
  BY <1>13
     DEF DeleteSegment, Covered, Goto, store, client, session, IInv, TypeInv, StoreType,
         ClientType, SessionType
<1>14. CASE DeleteCommits(c)
  BY <1>14
     DEF DeleteCommits, Goto, store, client, session, IInv, TypeInv, StoreType,
         ClientType, SessionType
<1>15. CASE Prune(c)
  BY <1>15
     DEF Prune, Goto, store, client, session, IInv, TypeInv, StoreType, ClientType,
         SessionType
<1>16. CASE DeletePacks(c)
  BY <1>16
     DEF DeletePacks, Stop, Goto, store, client, session, IInv, TypeInv, StoreType,
         ClientType, SessionType
<1>17. CASE Abort(c)
  BY <1>17
     DEF Abort, Stop, Goto, store, client, session, IInv, TypeInv, StoreType,
         ClientType, SessionType
<1> QED
  BY <1>1, <1>2, <1>3, <1>4, <1>5, <1>6, <1>7, <1>8, <1>9, <1>10, <1>11, <1>12, <1>13, <1>14, <1>15, <1>16, <1>17
     DEF Step, Scan, Publish, Maintain

(* What a scan makes of the catalog is published.                          *)
LEMMA FoundIsOut ==
    ASSUME IInv, NEW c \in Clients, NEW snapshot \in SnapshotType, OutSnapshot(snapshot),
           NEW e \in Found(cursor[c], snapshot, scan[c].found)
    PROVE  e = <<e[1], e[2]>> /\ e[1] \in Clients /\ IsOut(e[1], e[2])
<1>1. CASE e \in snapshot.events
  BY <1>1, EventIs DEF OutSnapshot, SnapshotType
<1>2. ASSUME NEW s \in scan[c].found, e \in EventsOf(s)
      PROVE  e = <<e[1], e[2]>> /\ e[1] \in Clients /\ IsOut(e[1], e[2])
  <2>1. s.client \in Clients /\ s.first \in Nat /\ s.last \in Nat /\ OutSegment(s)
    <3>1. s \in Segments /\ OutSegment(s)
      BY DEF IInv, OutInv, OutClient, TypeInv, SessionType, ScanType
    <3> QED
      BY <3>1, EventIs DEF Segments
  <2>2. e = <<e[1], e[2]>> /\ e[1] = s.client /\ e[2] \in s.first..s.last
    BY <1>2 DEF EventsOf
  <2>3. e[2] \in 1..s.last
    BY <2>1, <2>2 DEF OutSegment
  <2> QED
    BY <2>1, <2>2, <2>3 DEF OutSegment, IInv, PublishInv
<1> QED
  BY <1>1, <1>2 DEF Found

(* Commits become published by the segment that holds them, and stay so.   *)
LEMMA OutChange ==
    ASSUME IInv, NEW c \in Clients, Step(c), NEW d \in Clients, NEW n
    PROVE  /\ IsOut(d, n) => IsOut(d, n)'
           /\ IsOut(d, n)' => \/ IsOut(d, n)
                              \/ PutSegment(c) /\ d = c /\ n \in (sent[c] + 1)..made[c]
<1>0. CASE UNCHANGED <<made, sent, cursor, got>>
  BY <1>0 DEF IsOut
<1>1. CASE Deliver(c)
  <2>1. CASE UNCHANGED got
    BY <2>1 DEF IsOut
  <2>2. CASE got' = [got EXCEPT ![c] = @ \cup Found(cursor[c], scan[c].snapshot, scan[c].found)]
    <3>1. scan[c].snapshot \in SnapshotType /\ OutSnapshot(scan[c].snapshot)
      BY DEF IInv, OutInv, OutClient, TypeInv, SessionType, ScanType
    <3>2. \A e \in Found(cursor[c], scan[c].snapshot, scan[c].found) : IsOut(e[1], e[2])
      BY <3>1, FoundIsOut
    <3>3. d # c => got'[d] = got[d]
      BY Elsewhere
    <3>4. got'[c] = got[c] \cup Found(cursor[c], scan[c].snapshot, scan[c].found)
      BY <2>2 DEF IInv, TypeInv, ClientType
    <3> QED
      BY <3>2, <3>3, <3>4 DEF IsOut
  <2> QED
    BY <1>1, <2>1, <2>2 DEF Deliver
<1>2. CASE PutPacks(c) \/ Acknowledge(c)
  BY <1>2 DEF PutPacks, Acknowledge, IsOut
<1>3. CASE PutSegment(c)
  <2>1. got' = [got EXCEPT ![c] = @ \cup ({c} \X ((sent[c] + 1)..made[c]))]
    BY <1>3, SegmentIs
  <2> QED
    BY <1>3, <2>1 DEF IsOut, IInv, TypeInv, ClientType
<1> QED
  BY <1>0, <1>1, <1>2, <1>3, Touching

LEMMA ReachesKept ==
    ASSUME IInv, NEW c \in Clients, Step(c)
    PROVE  /\ \A cur \in [Clients -> Nat] : Reaches(cur) => Reaches(cur)'
           /\ \A s \in Segments : OutSegment(s) => OutSegment(s)'
           /\ \A snapshot \in SnapshotType : OutSnapshot(snapshot) => OutSnapshot(snapshot)'
<1>1. \A d \in Clients : \A n : IsOut(d, n) => IsOut(d, n)'
  BY OutChange
<1>2. \A cur \in [Clients -> Nat] : Reaches(cur) => Reaches(cur)'
  BY <1>1 DEF Reaches
<1>3. \A s \in Segments : OutSegment(s) => OutSegment(s)'
  BY <1>1 DEF OutSegment, Segments
<1>4. \A snapshot \in SnapshotType : OutSnapshot(snapshot) => OutSnapshot(snapshot)'
  <2> SUFFICES ASSUME NEW snapshot \in SnapshotType, OutSnapshot(snapshot)
               PROVE  OutSnapshot(snapshot)'
    OBVIOUS
  <2>1. Reaches(snapshot.covered)'
    BY <1>2 DEF OutSnapshot, SnapshotType
  <2>2. \A e \in snapshot.events : e[1] \in Clients
    BY EventIs DEF SnapshotType
  <2> QED
    BY <1>1, <2>1, <2>2 DEF OutSnapshot
<1> QED
  BY <1>2, <1>3, <1>4

(* A put creates a generation or leaves it as it is.                       *)
LEMMA SnapshotsIs ==
    ASSUME IInv, NEW c \in Clients, Step(c), NEW g \in 1..MaxSnapshots
    PROVE  /\ snapshots'[g] = snapshots[g] \/ snapshots'[g] = plan[c].snapshot
           /\ g \in kept => snapshots'[g] = snapshots[g]
<1>1. CASE PutSnapshot(c)
  <2>1. PICK h \in 1..MaxSnapshots : SnapshotPut(c, h)
    BY <1>1 DEF PutSnapshot, SnapshotPut, PutCreate
  <2> QED
    BY <2>1 DEF SnapshotPut, IInv, TypeInv, StoreType
<1>2. CASE ~PutSnapshot(c)
  <2>1. UNCHANGED snapshots
    BY <1>2, Touching DEF PutPacks, PutCommits, PutSegment, Acknowledge, PutLatest,
      DeleteSegment, DeleteCommits, Prune, DeletePacks
  <2> QED
    BY <2>1
<1> QED
  BY <1>1, <1>2

(* A step keeps to what is published: in the store, ...                    *)
LEMMA OutStoreStep ==
    ASSUME IInv, NEW c \in Clients, Step(c)
    PROVE  OutStore'
<1>1. ASSUME NEW s \in segments' PROVE OutSegment(s)'
  <2>1. CASE s \in segments
    BY <2>1, ReachesKept DEF IInv, OutInv, OutStore, TypeInv, StoreType
  <2>2. CASE s \notin segments
    <3>1. PutSegment(c) /\ s = [client |-> c, first |-> sent[c] + 1, last |-> made[c]]
      <4>1. PutSegment(c)
        BY <2>2, Touching DEF PutPacks, PutCommits, Acknowledge, PutSnapshot, PutLatest,
          DeleteSegment, DeleteCommits, Prune, DeletePacks
      <4> QED
        BY <2>2, <4>1, SegmentIs
    <3>2. sent[c] < made[c] /\ sent[c] \in Nat /\ made[c] \in Nat
      BY <3>1, SegmentIs DEF IInv, TypeInv, ClientType
    <3>3. <<c, made[c]>> \in got'[c]
      BY <3>1, <3>2, SegmentIs DEF IInv, TypeInv, ClientType
    <3> QED
      BY <3>1, <3>2, <3>3 DEF OutSegment, IsOut
  <2> QED
    BY <2>1, <2>2
<1>2. ASSUME NEW g \in 1..MaxSnapshots, NEW t, t = snapshots'[g] PROVE OutSnapshot(t)'
  <2>1. t \in SnapshotType /\ OutSnapshot(t)
    <3>1. plan[c].snapshot \in SnapshotType /\ OutSnapshot(plan[c].snapshot)
      BY DEF IInv, TypeInv, SessionType, PlanType, OutInv, OutClient
    <3>2. t = snapshots[g] \/ t = plan[c].snapshot
      BY <1>2, SnapshotsIs
    <3>3. snapshots[g] \in SnapshotType /\ OutSnapshot(snapshots[g])
      BY DEF IInv, TypeInv, StoreType, OutInv, OutStore
    <3> QED
      BY <3>1, <3>2, <3>3
  <2> QED
    BY <2>1, ReachesKept
<1> QED
  BY <1>1, <1>2 DEF OutStore, OutSnapshot, Reaches, IsOut

(* The registry only grows.                                                *)
LEMMA GrowthIs ==
    ASSUME NEW c \in Clients, Step(c)
    PROVE  registry \subseteq registry'
BY Touching
   DEF PutPacks, PutCommits, PutSegment, Acknowledge, PutSnapshot, PutLatest,
       DeleteSegment, DeleteCommits, Prune, DeletePacks

(* ... in the sessions of other clients, ...                               *)
LEMMA OutOtherStep ==
    ASSUME IInv, NEW c \in Clients, Step(c), NEW d \in Clients, d # c
    PROVE  OutClient(d)'
<1>1. /\ got'[d] = got[d] /\ cursor'[d] = cursor[d] /\ acks'[d] = acks[d]
      /\ pc'[d] = pc[d] /\ scan'[d] = scan[d] /\ plan'[d] = plan[d]
  BY Elsewhere
<1>2. OutClient(d)
  BY DEF IInv, OutInv
<1>3. registry \subseteq registry'
  BY GrowthIs
<1>4. \A e \in got[d] : IsOut(e[1], e[2])'
  <2>1. \A e \in got[d] : e[1] \in Clients
    BY EventIs DEF IInv, TypeInv, ClientType
  <2> QED
    BY <1>2, <2>1, OutChange DEF OutClient
<1>5. \A cur \in {cursor[d]} : Reaches(cur)'
  BY <1>2, ReachesKept DEF OutClient, IInv, TypeInv, ClientType
<1>6. \A s \in scan[d].found : OutSegment(s)'
  BY <1>2, ReachesKept DEF OutClient, IInv, TypeInv, SessionType, ScanType
<1>7. \A t \in {plan[d].snapshot, scan[d].snapshot} : OutSnapshot(t)'
  BY <1>2, ReachesKept DEF OutClient, IInv, TypeInv, SessionType, PlanType, ScanType
<1>8. Reaches(cursor[d])'
  BY <1>1, <1>5 DEF Reaches, IsOut
<1>9. OutSnapshot(plan[d].snapshot)' /\ OutSnapshot(scan[d].snapshot)'
  BY <1>1, <1>7 DEF OutSnapshot, Reaches, IsOut
<1>10. \A e \in got'[d] : IsOut(e[1], e[2])'
  BY <1>1, <1>4
<1>11. \A s \in scan'[d].found : OutSegment(s)'
  BY <1>1, <1>6
<1>12. acks'[d] \subseteq got'[d] /\ plan'[d].obsolete \subseteq got'[d]
  BY <1>1, <1>2 DEF OutClient
<1>13. scan'[d].clients \subseteq registry'
  BY <1>1, <1>2, <1>3 DEF OutClient
<1>14. pc'[d] \in {"publish snapshot", "delete", "prune", "unpack"} => plan'[d].gen # 0
  BY <1>1, <1>2 DEF OutClient
<1> QED
  BY <1>8, <1>9, <1>10, <1>11, <1>12, <1>13, <1>14 DEF OutClient

(* What a step makes of the plan and of the scan of its client.            *)
LEMMA PlanIs ==
    ASSUME IInv, NEW c \in Clients, Step(c)
    PROVE  \/ plan'[c].obsolete = plan[c].obsolete /\ plan'[c].snapshot = plan[c].snapshot
           \/ plan'[c] = NoPlan
           \/ /\ Plan(c) /\ plan'[c].obsolete \subseteq got[c] /\ plan'[c].snapshot.covered = cursor[c]
              /\ plan'[c].snapshot.events \subseteq {e \in got[c] : e[2] <= cursor[c][e[1]]}
<1>1. CASE Begin(c)
  BY <1>1 DEF Begin, session, IInv, TypeInv, SessionType, PlanType
<1>2. CASE ReadSnapshot(c)
  BY <1>2 DEF ReadSnapshot, Stop, session, IInv, TypeInv, SessionType, PlanType
<1>3. CASE List(c)
  BY <1>3 DEF List, session, IInv, TypeInv, SessionType, PlanType
<1>4. CASE Load(c)
  BY <1>4 DEF Load, Stop, session, IInv, TypeInv, SessionType, PlanType
<1>5. CASE Deliver(c)
  BY <1>5 DEF Deliver, Stop, session, IInv, TypeInv, SessionType, PlanType
<1>6. CASE PutPacks(c)
  BY <1>6 DEF PutPacks, session, IInv, TypeInv, SessionType, PlanType
<1>7. CASE PutCommits(c)
  BY <1>7 DEF PutCommits, session, IInv, TypeInv, SessionType, PlanType
<1>8. CASE PutSegment(c)
  BY <1>8 DEF PutSegment, session, IInv, TypeInv, SessionType, PlanType
<1>9. CASE Acknowledge(c)
  BY <1>9 DEF Acknowledge, session, IInv, TypeInv, SessionType, PlanType
<1>10. CASE Plan(c)
  BY <1>10 DEF Plan, Stop, session, IInv, TypeInv, SessionType, PlanType
<1>11. CASE PutSnapshot(c)
  BY <1>11 DEF PutSnapshot, session, IInv, TypeInv, SessionType, PlanType
<1>12. CASE PutLatest(c)
  BY <1>12 DEF PutLatest, session, IInv, TypeInv, SessionType, PlanType
<1>13. CASE DeleteSegment(c)
  BY <1>13 DEF DeleteSegment, Covered, session, IInv, TypeInv, SessionType, PlanType
<1>14. CASE DeleteCommits(c)
  BY <1>14 DEF DeleteCommits, session, IInv, TypeInv, SessionType, PlanType
<1>15. CASE Prune(c)
  BY <1>15 DEF Prune, session, IInv, TypeInv, SessionType, PlanType
<1>16. CASE DeletePacks(c)
  BY <1>16 DEF DeletePacks, Stop, session, IInv, TypeInv, SessionType, PlanType
<1>17. CASE Abort(c)
  BY <1>17 DEF Abort, Stop, session, IInv, TypeInv, SessionType, PlanType
<1> QED
  BY <1>1, <1>2, <1>3, <1>4, <1>5, <1>6, <1>7, <1>8, <1>9, <1>10, <1>11, <1>12, <1>13, <1>14, <1>15, <1>16, <1>17
     DEF Step, Scan, Publish, Maintain

LEMMA ScanIs ==
    ASSUME IInv, NEW c \in Clients, Step(c)
    PROVE  \/ scan'[c] = scan[c] \/ scan'[c] = NoScan
           \/ Begin(c) /\ scan'[c] = [NoScan EXCEPT !.gen = latest, !.clients = registry]
           \/ /\ ReadSnapshot(c) /\ scan[c].gen \in kept
              /\ scan'[c] = [scan[c] EXCEPT !.snapshot = snapshots[scan[c].gen]]
           \/ /\ List(c) /\ scan'[c].gen = scan[c].gen /\ scan'[c].clients = scan[c].clients
              /\ scan'[c].snapshot = scan[c].snapshot /\ scan'[c].found \subseteq segments
              /\ scan'[c].overtaken = (scan[c].gen # latest)
<1>1. CASE Begin(c)
  BY <1>1 DEF Begin, session, IInv, TypeInv, SessionType, ScanType
<1>2. CASE ReadSnapshot(c)
  BY <1>2 DEF ReadSnapshot, Stop, session, IInv, TypeInv, SessionType, ScanType
<1>3. CASE List(c)
  BY <1>3 DEF List, session, IInv, TypeInv, SessionType, ScanType
<1>4. CASE Load(c)
  BY <1>4 DEF Load, Stop, session, IInv, TypeInv, SessionType, ScanType
<1>5. CASE Deliver(c)
  BY <1>5 DEF Deliver, Stop, session, IInv, TypeInv, SessionType, ScanType
<1>6. CASE PutPacks(c)
  BY <1>6 DEF PutPacks, session, IInv, TypeInv, SessionType, ScanType
<1>7. CASE PutCommits(c)
  BY <1>7 DEF PutCommits, session, IInv, TypeInv, SessionType, ScanType
<1>8. CASE PutSegment(c)
  BY <1>8 DEF PutSegment, session, IInv, TypeInv, SessionType, ScanType
<1>9. CASE Acknowledge(c)
  BY <1>9 DEF Acknowledge, session, IInv, TypeInv, SessionType, ScanType
<1>10. CASE Plan(c)
  BY <1>10 DEF Plan, Stop, session, IInv, TypeInv, SessionType, ScanType
<1>11. CASE PutSnapshot(c)
  BY <1>11 DEF PutSnapshot, session, IInv, TypeInv, SessionType, ScanType
<1>12. CASE PutLatest(c)
  BY <1>12 DEF PutLatest, session, IInv, TypeInv, SessionType, ScanType
<1>13. CASE DeleteSegment(c)
  BY <1>13 DEF DeleteSegment, Covered, session, IInv, TypeInv, SessionType, ScanType
<1>14. CASE DeleteCommits(c)
  BY <1>14 DEF DeleteCommits, session, IInv, TypeInv, SessionType, ScanType
<1>15. CASE Prune(c)
  BY <1>15 DEF Prune, session, IInv, TypeInv, SessionType, ScanType
<1>16. CASE DeletePacks(c)
  BY <1>16 DEF DeletePacks, Stop, session, IInv, TypeInv, SessionType, ScanType
<1>17. CASE Abort(c)
  BY <1>17 DEF Abort, Stop, session, IInv, TypeInv, SessionType, ScanType
<1> QED
  BY <1>1, <1>2, <1>3, <1>4, <1>5, <1>6, <1>7, <1>8, <1>9, <1>10, <1>11, <1>12, <1>13, <1>14, <1>15, <1>16, <1>17
     DEF Step, Scan, Publish, Maintain

(* ... and in its own.                                                     *)
LEMMA OutOwnStep ==
    ASSUME IInv, NEW c \in Clients, Step(c)
    PROVE  OutClient(c)'
<1>1. OutClient(c) /\ got \in [Clients -> SUBSET Events] /\ cursor \in [Clients -> [Clients -> Nat]]
  BY DEF IInv, OutInv, TypeInv, ClientType
<1>2. registry \subseteq registry'
  BY GrowthIs
<1>3. got[c] \subseteq got'[c] /\ \A e \in got'[c] : IsOut(e[1], e[2])'
  <2>1. \A e \in got[c] : e[1] \in Clients
    BY <1>1, EventIs
  <2>2. \A e \in got[c] : IsOut(e[1], e[2])'
    BY <1>1, <2>1, OutChange DEF OutClient
  <2>3. CASE UNCHANGED got
    BY <2>2, <2>3
  <2>4. CASE Deliver(c) /\ got' = [got EXCEPT ![c] = @ \cup Found(cursor[c], scan[c].snapshot, scan[c].found)]
    <3>1. \A e \in Found(cursor[c], scan[c].snapshot, scan[c].found) : e[1] \in Clients /\ IsOut(e[1], e[2])
      BY <1>1, FoundIsOut DEF OutClient, IInv, TypeInv, SessionType, ScanType
    <3>2. \A e \in Found(cursor[c], scan[c].snapshot, scan[c].found) : IsOut(e[1], e[2])'
      BY <3>1, OutChange
    <3> QED
      BY <1>1, <2>2, <2>4, <3>2
  <2>5. CASE PutSegment(c)
    <3>1. got'[c] = got[c] \cup batch[c] /\ batch[c] = {c} \X ((sent[c] + 1)..made[c])
      BY <1>1, <2>5, SegmentIs
    <3>2. \A e \in batch[c] : e[1] = c /\ e = <<e[1], e[2]>>
      BY <3>1
    <3>3. \A e \in batch[c] : IsOut(e[1], e[2])'
      BY <3>1, <3>2 DEF IsOut
    <3> QED
      BY <2>2, <3>1, <3>3
  <2> QED
    BY <2>3, <2>4, <2>5, Touching DEF Deliver, PutPacks, Acknowledge
<1>4. Reaches(cursor[c])'
  <2>1. \A cur \in [Clients -> Nat] : cur = cursor[c] => Reaches(cur)'
    BY <1>1, ReachesKept DEF OutClient
  <2>2. CASE UNCHANGED cursor
    BY <1>1, <2>1, <2>2 DEF Reaches, IsOut
  <2>3. CASE Deliver(c) /\ cursor' = [cursor EXCEPT ![c] = Raised(cursor[c], scan[c].snapshot, scan[c].found)]
    <3> DEFINE snapshot == scan[c].snapshot
               new == Raised(cursor[c], snapshot, scan[c].found)
    <3>1. snapshot \in SnapshotType /\ OutSnapshot(snapshot) /\ cursor[c] \in [Clients -> Nat] /\ Reaches(cursor[c])
          /\ scan[c].found \subseteq Segments /\ \A s \in scan[c].found : OutSegment(s)
      BY <1>1 DEF OutClient, IInv, TypeInv, SessionType, ScanType
    <3> HIDE DEF snapshot
    <3>2. ASSUME NEW d \in Clients PROVE new[d] = 0 \/ IsOut(d, new[d])
      <4>1. \/ new[d] = cursor[c][d] \/ new[d] = snapshot.covered[d]
            \/ \E s \in scan[c].found : s.client = d /\ new[d] = s.last
        BY <3>1, RaisedIs
      <4> HIDE DEF new
      <4> QED
        BY <3>1, <4>1 DEF Reaches, OutSegment, OutSnapshot
    <3>3. cursor'[c] = new
      BY <1>1, <2>3 DEF snapshot
    <3> HIDE DEF new
    <3> QED
      BY <3>2, <3>3, OutChange DEF Reaches, IsOut
  <2> QED
    BY <2>2, <2>3, Touching DEF Deliver, PutPacks, PutSegment, Acknowledge
<1>5. acks'[c] \subseteq got'[c]
  <2>1. acks'[c] = acks[c] \/ acks'[c] = got[c]
    BY Touching DEF PutPacks, PutCommits, PutSegment, Acknowledge, PutSnapshot, PutLatest,
      DeleteSegment, DeleteCommits, Prune, DeletePacks, IInv, TypeInv, StoreType
  <2> QED
    BY <1>1, <1>3, <2>1 DEF OutClient
<1>6. plan'[c].obsolete \subseteq got'[c] /\ \A t \in SnapshotType : t = plan'[c].snapshot => OutSnapshot(t)'
  <2>1. CASE plan'[c].obsolete = plan[c].obsolete /\ plan'[c].snapshot = plan[c].snapshot
    BY <1>1, <1>3, <2>1, ReachesKept DEF OutClient
  <2>2. CASE plan'[c] = NoPlan
    <3>1. OutSnapshot(NoSnapshot) /\ NoSnapshot \in SnapshotType
      BY NoPlanType DEF OutSnapshot, Reaches, NoSnapshot, NoCursor
    <3> QED
      BY <2>2, <3>1, ReachesKept DEF NoPlan
  <2>3. CASE /\ Plan(c) /\ plan'[c].obsolete \subseteq got[c] /\ plan'[c].snapshot.covered = cursor[c]
             /\ plan'[c].snapshot.events \subseteq {e \in got[c] : e[2] <= cursor[c][e[1]]}
    <3>1. \A t \in SnapshotType : t = plan'[c].snapshot => OutSnapshot(t)
      BY <1>1, <2>3 DEF OutSnapshot, OutClient
    <3> QED
      BY <1>3, <2>3, <3>1, ReachesKept
  <2> QED
    BY <2>1, <2>2, <2>3, PlanIs
<1>7. /\ \A s \in scan'[c].found : OutSegment(s)'
      /\ \A t \in SnapshotType : t = scan'[c].snapshot => OutSnapshot(t)'
      /\ scan'[c].clients \subseteq registry'
  <2>0. /\ segments \subseteq Segments /\ \A s \in segments : OutSegment(s)
        /\ scan[c].found \subseteq Segments /\ \A s \in scan[c].found : OutSegment(s)
        /\ OutSnapshot(scan[c].snapshot) /\ scan[c].clients \subseteq registry
        /\ scan[c] \in ScanType
    BY <1>1
       DEF OutClient, IInv, OutInv, OutStore, TypeInv, StoreType, SessionType, ScanType
  <2>1. CASE scan'[c] = scan[c]
    BY <1>2, <2>0, <2>1, ReachesKept
  <2>2. CASE scan'[c] = NoScan
    <3>1. OutSnapshot(NoSnapshot) /\ NoSnapshot \in SnapshotType
      BY NoPlanType DEF OutSnapshot, Reaches, NoSnapshot, NoCursor
    <3> QED
      BY <1>2, <2>2, <3>1, ReachesKept DEF NoScan
  <2>3. CASE Begin(c) /\ scan'[c] = [NoScan EXCEPT !.gen = latest, !.clients = registry]
    <3>1. OutSnapshot(NoSnapshot) /\ NoSnapshot \in SnapshotType
      BY NoPlanType DEF OutSnapshot, Reaches, NoSnapshot, NoCursor
    <3> QED
      BY <1>2, <2>3, <3>1, ReachesKept DEF NoScan
  <2>4. CASE List(c) /\ scan'[c].clients = scan[c].clients /\ scan'[c].snapshot = scan[c].snapshot
             /\ scan'[c].found \subseteq segments
    BY <1>2, <2>0, <2>4, ReachesKept
  <2>5. CASE /\ ReadSnapshot(c) /\ scan[c].gen \in kept
             /\ scan'[c] = [scan[c] EXCEPT !.snapshot = snapshots[scan[c].gen]]
    <3>1. OutSnapshot(snapshots[scan[c].gen])
      BY <2>5 DEF IInv, OutInv, OutStore, TypeInv, StoreType
    <3>2. /\ scan'[c].snapshot = snapshots[scan[c].gen] /\ scan'[c].found = scan[c].found
          /\ scan'[c].clients = scan[c].clients
      BY <2>0, <2>5 DEF ScanType
    <3> QED
      BY <1>2, <2>0, <3>1, <3>2, ReachesKept
  <2> QED
    BY <2>1, <2>2, <2>3, <2>4, <2>5, ScanIs
<1>8. pc'[c] \in {"publish snapshot", "delete", "prune", "unpack"} => plan'[c].gen # 0
  <2>1. CASE PutSnapshot(c)
    <3>1. PICK g \in 1..MaxSnapshots : SnapshotPut(c, g)
      BY <2>1 DEF PutSnapshot, SnapshotPut, PutCreate
    <3>2. plan'[c].gen = g
      BY <3>1 DEF SnapshotPut, IInv, TypeInv, SessionType, PlanType
    <3>3. g # 0
      BY CatalogAssumption
    <3> QED
      BY <3>2, <3>3
  <2>2. CASE PutLatest(c) \/ DeleteSegment(c) \/ DeleteCommits(c) \/ Prune(c)
    BY <1>1, <2>2
       DEF PutLatest, DeleteSegment, DeleteCommits, Prune, Goto, session, OutClient,
           IInv, TypeInv, SessionType
  <2>3. CASE ~(PutSnapshot(c) \/ PutLatest(c) \/ DeleteSegment(c) \/ DeleteCommits(c) \/ Prune(c))
    BY <2>3
       DEF Step, Scan, Publish, Maintain, Begin, ReadSnapshot, List, Load, Deliver,
           PutPacks, PutCommits, PutSegment,
      Acknowledge, Plan, DeletePacks, Abort, Stop, Goto, IInv, TypeInv, SessionType
  <2> QED
    BY <2>1, <2>2, <2>3
<1>9. OutSnapshot(plan[c].snapshot)' /\ OutSnapshot(scan[c].snapshot)'
  <2>1. plan'[c].snapshot \in SnapshotType /\ scan'[c].snapshot \in SnapshotType
    BY SessionStep DEF SessionType, PlanType, ScanType
  <2> QED
    BY <1>6, <1>7, <2>1 DEF OutSnapshot, Reaches, IsOut
<1> QED
  BY <1>3, <1>4, <1>5, <1>6, <1>7, <1>8, <1>9 DEF OutClient

(* A step keeps the order in which each client publishes.                  *)
LEMMA PublishOtherStep ==
    ASSUME IInv, NEW c \in Clients, Step(c), NEW d \in Clients, d # c
    PROVE  PublishInv(d)'
<1>1. /\ got'[d] = got[d] /\ made'[d] = made[d] /\ sent'[d] = sent[d]
      /\ pc'[d] = pc[d] /\ batch'[d] = batch[d]
  BY Elsewhere
<1>2. PublishInv(d)
  BY DEF IInv
<1> QED
  BY <1>1, <1>2 DEF PublishInv, IsOut

LEMMA PublishOwnStep ==
    ASSUME IInv, NEW c \in Clients, Step(c)
    PROVE  PublishInv(c)'
<1>0. /\ PublishInv(c) /\ sent[c] \in Nat /\ made[c] \in Nat
      /\ got \in [Clients -> SUBSET Events] /\ batch \in [Clients -> SUBSET Events]
      /\ pc \in [Clients -> Steps] /\ sent \in [Clients -> Nat] /\ made \in [Clients -> Nat]
  BY DEF IInv, TypeInv, ClientType, SessionType
<1>1. CASE Begin(c)
  BY <1>0, <1>1 DEF Begin, Goto, client, session, PublishInv, IsOut
<1>2. CASE ReadSnapshot(c)
  BY <1>0, <1>2 DEF ReadSnapshot, Stop, Goto, client, session, PublishInv, IsOut
<1>3. CASE List(c)
  BY <1>0, <1>3 DEF List, Goto, client, session, PublishInv, IsOut
<1>4. CASE Load(c)
  BY <1>0, <1>4 DEF Load, Stop, Goto, client, session, PublishInv, IsOut
<1>5. CASE Deliver(c)
  <2>1. \A n \in Nat : IsOut(c, n)' <=> IsOut(c, n)
    BY <1>5, OutChange DEF Deliver, PutSegment
  <2>2. made'[c] = made[c] /\ sent'[c] = sent[c] /\ batch[c] = {} /\ batch'[c] = {}
        /\ pc'[c] \in {"publish", "idle"}
    BY <1>0, <1>5 DEF Deliver, Stop, Goto, PublishInv
  <2> QED
    BY <1>0, <2>1, <2>2 DEF PublishInv
<1>6. CASE PutPacks(c)
  <2>1. PICK n \in made[c]..MaxMade : made' = [made EXCEPT ![c] = n]
    BY <1>6 DEF PutPacks
  <2>2. made'[c] \in Nat /\ made[c] <= made'[c] /\ made'[c] <= MaxMade
    BY <1>0, <2>1, CatalogAssumption
  <2>3. batch'[c] = {c} \X ((sent[c] + 1)..made'[c])
    BY <1>0, <1>6, <2>2, UnsentIs DEF PutPacks
  <2>4. pc'[c] = IF batch'[c] = {} THEN "acknowledge" ELSE "commits"
    BY <1>0, <1>6 DEF PutPacks, Goto
  <2>5. \A k \in Nat : IsOut(c, k)' <=> IsOut(c, k)
    BY <1>6 DEF PutPacks, IsOut
  <2>6. sent'[c] = sent[c]
    BY <1>6 DEF PutPacks
  <2> QED
    BY <1>0, <2>2, <2>3, <2>4, <2>5, <2>6 DEF PublishInv
<1>7. CASE PutCommits(c)
  BY <1>0, <1>7 DEF PutCommits, Goto, client, session, PublishInv, IsOut
<1>8. CASE PutSegment(c)
  <2>1. /\ sent[c] < made[c] /\ batch[c] = {c} \X ((sent[c] + 1)..made[c])
        /\ got'[c] = got[c] \cup batch[c]
    BY <1>0, <1>8, SegmentIs
  <2>2. \A n \in Nat : IsOut(c, n)' <=> IsOut(c, n) \/ n \in (sent[c] + 1)..made[c]
    BY <2>1 DEF IsOut
  <2>3. \A n \in Nat : IsOut(c, n)' <=> n \in 1..made[c]
    <3>1. \A n \in 1..made[c] : n \in 1..sent[c] \/ n \in (sent[c] + 1)..made[c]
      BY <1>0
    <3>2. \A n \in (sent[c] + 1)..made[c] : n \in 1..made[c]
      BY <1>0
    <3> QED
      BY <1>0, <2>2, <3>1, <3>2 DEF PublishInv
  <2>4. UNCHANGED <<made, sent, batch>> /\ pc'[c] = "acknowledge"
    BY <1>0, <1>8 DEF PutSegment, Goto, session
  <2> QED
    BY <1>0, <2>1, <2>3, <2>4 DEF PublishInv
<1>9. CASE Acknowledge(c)
  <2>1. batch'[c] = {} /\ pc'[c] \in {"maintain", "idle"} /\ UNCHANGED <<got, made>>
    BY <1>0, <1>9 DEF Acknowledge, Goto
  <2>2. \A n \in Nat : IsOut(c, n)' <=> IsOut(c, n)
    BY <2>1 DEF IsOut
  <2>3. CASE batch[c] = {} /\ sent' = sent
    BY <1>0, <2>1, <2>2, <2>3 DEF PublishInv
  <2>4. CASE batch[c] # {} /\ sent' = [sent EXCEPT ![c] = made[c]]
    <3>1. \A n \in (sent[c] + 1)..made[c] : <<c, n>> \in batch[c]
      BY <1>0, <2>4 DEF PublishInv
    <3>2. \A n \in (sent[c] + 1)..made[c] : IsOut(c, n)
      BY <1>0, <1>9, <3>1 DEF Acknowledge, PublishInv, IsOut
    <3>3. \A n \in 1..made[c] : n \in 1..sent[c] \/ n \in (sent[c] + 1)..made[c]
      BY <1>0
    <3>4. \A n \in 1..made[c] : IsOut(c, n)
      BY <1>0, <3>2, <3>3 DEF PublishInv
    <3> QED
      BY <1>0, <2>1, <2>2, <2>4, <3>4 DEF PublishInv
  <2> QED
    BY <1>9, <2>3, <2>4, AcknowledgeIs
<1>10. CASE Plan(c)
  BY <1>0, <1>10 DEF Plan, Stop, Goto, client, session, PublishInv, IsOut
<1>11. CASE PutSnapshot(c)
  BY <1>0, <1>11 DEF PutSnapshot, Goto, client, session, PublishInv, IsOut
<1>12. CASE PutLatest(c)
  BY <1>0, <1>12 DEF PutLatest, Goto, client, session, PublishInv, IsOut
<1>13. CASE DeleteSegment(c)
  BY <1>0, <1>13 DEF DeleteSegment, Covered, Goto, client, session, PublishInv, IsOut
<1>14. CASE DeleteCommits(c)
  BY <1>0, <1>14 DEF DeleteCommits, Goto, client, session, PublishInv, IsOut
<1>15. CASE Prune(c)
  BY <1>0, <1>15 DEF Prune, Goto, client, session, PublishInv, IsOut
<1>16. CASE DeletePacks(c)
  BY <1>0, <1>16 DEF DeletePacks, Stop, Goto, client, session, PublishInv, IsOut
<1>17. CASE Abort(c)
  BY <1>0, <1>17 DEF Abort, Stop, Goto, client, session, PublishInv, IsOut
<1> QED
  BY <1>1, <1>2, <1>3, <1>4, <1>5, <1>6, <1>7, <1>8, <1>9, <1>10, <1>11, <1>12, <1>13, <1>14, <1>15, <1>16, <1>17
     DEF Step, Scan, Publish, Maintain

(* What is true between any two steps.                                     *)
LEMMA InvStep ==
    ASSUME IInv, [Next]_vars
    PROVE  IInv'
<1>1. ASSUME NEW c \in Clients, Step(c) PROVE IInv'
  <2>1. TypeInv'
    BY <1>1, StoreStep, ClientStep, SessionStep DEF TypeInv
  <2>2. OutInv'
    BY <1>1, OutStoreStep, OutOtherStep, OutOwnStep DEF OutInv
  <2>3. \A d \in Clients : PublishInv(d)'
    BY <1>1, PublishOtherStep, PublishOwnStep
  <2> QED
    BY <2>1, <2>2, <2>3 DEF IInv
<1>2. CASE UNCHANGED vars
  BY <1>2
     DEF vars, store, client, session, IInv, TypeInv, StoreType, ClientType,
         SessionType,
    OutInv, OutStore, OutClient, OutSegment, OutSnapshot, Reaches, PublishInv, IsOut
<1> QED
  BY <1>1, <1>2 DEF Next, Step

LEMMA InitInv == Init => IInv
<1> SUFFICES ASSUME Init PROVE IInv
  OBVIOUS
<1>1. StoreType
  <2>1. snapshots \in [1..MaxSnapshots -> SnapshotType] /\ latest \in 0..MaxSnapshots
    BY NoPlanType, CatalogAssumption DEF Init
  <2>2. disturbed \in BOOLEAN /\ acks \in [Clients -> SUBSET Events]
    BY DEF Init
  <2> QED
    BY <2>1, <2>2 DEF Init, StoreType
<1>2. ClientType
  BY CatalogAssumption DEF Init, ClientType, NoCursor
<1>3. SessionType
  BY NoPlanType, CatalogAssumption DEF Init, SessionType, Steps
<1>4. OutInv
  BY
     DEF Init, OutInv, OutStore, OutClient, OutSnapshot, Reaches, NoCursor, NoScan,
         NoPlan, NoSnapshot
<1>5. \A c \in Clients : PublishInv(c)
  BY DEF Init, PublishInv, IsOut, NoCursor
<1> QED
  BY <1>1, <1>2, <1>3, <1>4, <1>5 DEF IInv, TypeInv

LEMMA Inductive == Spec => []IInv
BY InitInv, InvStep, PTL DEF Spec

(* Every variable keeps its type, for any clients and maintainers.         *)
THEOREM TypeCorrect == Spec => []TypeOK
<1>1. IInv => TypeOK
  <2> SUFFICES ASSUME IInv PROVE TypeOK
    OBVIOUS
  <2>1. \A c \in Clients : \A n \in Nat : IsOut(c, n) => n \in Counters
    BY EventIs DEF Events, IsOut, IInv, TypeInv, ClientType
  <2>2. \A cur \in [Clients -> Nat] : Reaches(cur) => cur \in Cursors
    <3> SUFFICES ASSUME NEW cur \in [Clients -> Nat], Reaches(cur) PROVE cur \in Cursors
      OBVIOUS
    <3>1. \A d \in Clients : cur[d] = 0 \/ cur[d] \in Counters
      BY <2>1 DEF Reaches
    <3>2. \A d \in Clients : cur[d] \in 0..MaxMade
      BY <3>1, CatalogAssumption DEF Counters
    <3> QED
      BY <3>2 DEF Cursors
  <2>3. made \in Cursors
    BY CatalogAssumption DEF Cursors, IInv, TypeInv, ClientType
  <2>4. \A t \in SnapshotType : OutSnapshot(t) => t \in Snapshots
    BY <2>2 DEF OutSnapshot, SnapshotType, Snapshots
  <2>5. cursor \in [Clients -> Cursors]
    BY <2>2 DEF IInv, OutInv, OutClient, TypeInv, ClientType
  <2>6. \A c \in Clients : sent[c] \in 0..made[c] /\ acks[c] \subseteq got[c]
    <3> SUFFICES ASSUME NEW c \in Clients PROVE sent[c] \in 0..made[c] /\ acks[c] \subseteq got[c]
      OBVIOUS
    <3>1. sent[c] \in Nat /\ made[c] \in Nat /\ sent[c] <= made[c]
      BY DEF IInv, PublishInv, TypeInv, ClientType
    <3>2. acks[c] \subseteq got[c]
      BY DEF IInv, OutInv, OutClient
    <3> QED
      BY <3>1, <3>2
  <2>7. snapshots \in [1..MaxSnapshots -> Snapshots]
    BY <2>4 DEF IInv, OutInv, OutStore, TypeInv, StoreType
  <2>8. \A c \in Clients :
          /\ scan[c].gen \in 0..MaxSnapshots /\ scan[c].snapshot \in Snapshots
          /\ scan[c].clients \subseteq registry /\ scan[c].found \subseteq Segments
          /\ scan[c].overtaken \in BOOLEAN /\ batch[c] \subseteq Events
          /\ plan[c].base \in 0..MaxSnapshots /\ plan[c].gen \in 0..MaxSnapshots
          /\ plan[c].snapshot \in Snapshots /\ plan[c].obsolete \subseteq got[c]
    BY <2>4 DEF IInv, OutInv, OutClient, TypeInv, SessionType, ScanType, PlanType
  <2> QED
    BY <2>3, <2>5, <2>6, <2>7, <2>8
       DEF TypeOK, IInv, TypeInv, StoreType, ClientType, SessionType
<1> QED
  BY <1>1, Inductive, PTL

-----------------------------------------------------------------------------
(* The catalog, while no compaction comes across another, or a scan *)

\* How far the visible snapshot goes.
Cov(d) == Snapshot(latest).covered[d]

\* A new client is given the n-th commit of client d.
Shown(d, n) ==
    \/ <<d, n>> \in Snapshot(latest).events
    \/ Cov(d) < n /\ \E s \in segments : s.client = d /\ n \in s.first..s.last

Maintenance == {"publish snapshot", "delete", "prune"}

(* What is published is shown until it is retired; nothing retired is; and *)
(* what is shown, or is going to be by the segment that comes next, is     *)
(* stored.                                                                 *)
CatalogInv ==
    /\ \A d \in Clients : \A n \in Nat : IsOut(d, n) => <<d, n>> \in retired \/ Shown(d, n)
    /\ \A e \in retired : e[2] <= Cov(e[1]) /\ e \notin Snapshot(latest).events
    /\ Snapshot(latest).events \subseteq commits \cap packs
    /\ \A s \in segments : \A n \in s.first..s.last :
          Cov(s.client) < n => <<s.client, n>> \in commits \cap packs
    /\ latest # 0 => latest \in kept

StoredInv(c) ==
    /\ pc[c] = "commits" => \A e \in batch[c] : Cov(c) < e[2] => e \in packs
    /\ pc[c] = "segment" => \A e \in batch[c] : Cov(c) < e[2] => e \in commits \cap packs

(* A scan holds the visible snapshot as long as that is the one it asked   *)
(* for; that snapshot, and the segments listed above it while it was       *)
(* visible, leave no gap, even when it no longer is.                       *)
ScanInv(c) ==
    /\ scan[c].gen <= latest
    /\ pc[c] \in {"list", "load", "deliver"} /\ scan[c].gen = latest =>
          scan[c].snapshot = Snapshot(latest)
    /\ pc[c] \in {"load", "deliver"} /\ ~ scan[c].overtaken =>
          /\ \A d \in Clients : \A n \in 1..scan[c].snapshot.covered[d] :
                <<d, n>> \in retired \cup scan[c].snapshot.events
          /\ \A t \in scan[c].found : \A n \in 1..t.last :
                \/ n <= cursor[c][t.client] \/ n <= scan[c].snapshot.covered[t.client]
                \/ <<t.client, n>> \in retired
                \/ \E s \in scan[c].found : s.client = t.client /\ n \in s.first..s.last

(* A client has been given all that is not retired below its cursors, and  *)
(* these are beyond the visible snapshot when its scan has read that.      *)
CursorInv(c) ==
    /\ plan[c].base <= latest
    /\ \A d \in Clients : \A n \in Nat :
          IsOut(d, n) /\ n <= cursor[c][d] => <<d, n>> \in retired \cup got[c]
    /\ pc[c] \in {"publish", "commits", "segment", "acknowledge", "maintain", "compact",
                  "publish snapshot"} /\ plan[c].base = latest =>
          \A d \in Clients : Cov(d) <= cursor[c][d]

(* So a plan takes up what it replaces, as long as no other compaction     *)
(* comes between; and the compaction under way is the only one.            *)
PlanInv(c) ==
    /\ pc[c] \in {"compact", "publish snapshot"} /\ plan[c].base = latest =>
          /\ plan[c].snapshot.covered = cursor[c]
          /\ plan[c].snapshot.events \cup plan[c].obsolete =
                {e \in got[c] \ retired : e[2] <= cursor[c][e[1]]}
          /\ plan[c].snapshot.events \cap plan[c].obsolete = {}
    /\ pc[c] = "publish snapshot" =>
          plan[c].base = latest /\ latest < plan[c].gen /\ plan[c].gen \in kept
    /\ pc[c] \in Maintenance =>
          /\ snapshots[plan[c].gen] = plan[c].snapshot
          /\ \A h \in kept : h <= plan[c].gen
          /\ \A d \in Clients \ {c} : pc[d] \notin Maintenance
    /\ pc[c] \in {"delete", "prune"} => plan[c].gen = latest
    /\ pc[c] \in {"delete", "prune", "unpack"} => plan[c].obsolete \subseteq retired

ClientInv(c) == StoredInv(c) /\ ScanInv(c) /\ CursorInv(c) /\ PlanInv(c)

UndisturbedInv == CatalogInv /\ \A c \in Clients : ClientInv(c)

\* Nothing has disturbed yet.
Calm == IInv /\ ~ disturbed /\ UndisturbedInv

AInv == IInv /\ (disturbed \/ UndisturbedInv)

(* How far the visible snapshot goes, everything is published.             *)
LEMMA CovIs ==
    ASSUME IInv
    PROVE  /\ Snapshot(latest) \in SnapshotType /\ OutSnapshot(Snapshot(latest))
           /\ \A d \in Clients : Cov(d) \in Nat /\ \A n \in 1..Cov(d) : IsOut(d, n)
<1>1. Snapshot(latest) \in SnapshotType /\ OutSnapshot(Snapshot(latest))
  BY OutSnapshotIs DEF IInv, TypeInv, StoreType
<1>2. \A d \in Clients : Cov(d) \in Nat
  BY <1>1 DEF Cov, SnapshotType
<1>3. ASSUME NEW d \in Clients, NEW n \in 1..Cov(d) PROVE IsOut(d, n)
  <2>1. IsOut(d, Cov(d))
    BY <1>1, <1>2, <1>3 DEF OutSnapshot, Reaches, Cov
  <2> QED
    BY <1>2, <1>3, <2>1 DEF IInv, PublishInv
<1> QED
  BY <1>1, <1>2, <1>3

(* Only PutLatest changes what readers are sent to.                        *)
LEMMA CovKept ==
    ASSUME Calm, NEW c \in Clients, Step(c), ~PutLatest(c)
    PROVE  /\ latest' = latest /\ retired' = retired /\ Snapshot(latest)' = Snapshot(latest)
           /\ \A d : Cov(d)' = Cov(d)
<1>1. latest' = latest /\ retired' = retired
  BY Touching
     DEF PutPacks, PutCommits, PutSegment, Acknowledge, PutSnapshot, DeleteSegment,
    DeleteCommits, Prune, DeletePacks
<1>2. latest # 0 => latest \in 1..MaxSnapshots /\ latest \in kept
  BY CatalogAssumption DEF Calm, UndisturbedInv, CatalogInv, IInv, TypeInv, StoreType
<1>3. latest # 0 => snapshots'[latest] = snapshots[latest]
  BY <1>2, SnapshotsIs DEF Calm
<1>4. Snapshot(latest)' = Snapshot(latest)
  BY <1>1, <1>3 DEF Snapshot
<1> QED
  BY <1>1, <1>4 DEF Cov

(* What is deleted was retired.                                            *)
LEMMA StoredKept ==
    ASSUME Calm, NEW c \in Clients, Step(c)
    PROVE  commits \ retired \subseteq commits' /\ packs \ retired \subseteq packs'
<1>1. pc[c] \in {"delete", "prune", "unpack"} => plan[c].obsolete \subseteq retired
  BY DEF Calm, UndisturbedInv, ClientInv, PlanInv
<1> QED
  BY <1>1, Touching
     DEF PutPacks, PutCommits, PutSegment, Acknowledge, PutSnapshot, PutLatest,
    DeleteSegment, DeleteCommits, Prune, DeletePacks

(* A segment goes only when the visible snapshot covers it.                *)
LEMMA SegmentsKept ==
    ASSUME Calm, NEW c \in Clients, Step(c), NEW s \in segments
    PROVE  s \in segments' \/ s.last <= Cov(s.client)
<1>1. CASE DeleteSegment(c)
  <2>1. plan[c].gen = latest /\ snapshots[plan[c].gen] = plan[c].snapshot /\ plan[c].gen # 0
    BY <1>1
       DEF DeleteSegment, Calm, UndisturbedInv, ClientInv, PlanInv, Maintenance, IInv,
           OutInv, OutClient
  <2>2. Snapshot(latest) = plan[c].snapshot
    BY <2>1 DEF Snapshot
  <2> QED
    BY <1>1, <2>2 DEF DeleteSegment, Covered, Cov
<1>2. CASE ~DeleteSegment(c)
  BY <1>2, Touching
     DEF PutPacks, PutCommits, PutSegment, Acknowledge, PutSnapshot, PutLatest,
    DeleteCommits, Prune, DeletePacks
<1> QED
  BY <1>1, <1>2

(* A step that makes no snapshot visible keeps the catalog intact, ...     *)
LEMMA CatalogStep ==
    ASSUME Calm, NEW c \in Clients, Step(c), ~PutLatest(c)
    PROVE  CatalogInv'
<1>0. /\ IInv /\ CatalogInv /\ StoredInv(c) /\ PublishInv(c) /\ PlanInv(c)
      /\ latest' = latest /\ retired' = retired /\ Snapshot(latest)' = Snapshot(latest)
      /\ \A d : Cov(d)' = Cov(d)
      /\ \A d \in Clients : Cov(d) \in Nat
  BY CovKept, CovIs DEF Calm, IInv, UndisturbedInv, ClientInv
<1>1. ASSUME NEW d \in Clients, NEW n \in Nat, IsOut(d, n)', <<d, n>> \notin retired
      PROVE  Shown(d, n)'
  <2>1. CASE IsOut(d, n)
    <3>1. Shown(d, n)
      BY <1>0, <1>1, <2>1 DEF CatalogInv
    <3>2. ASSUME NEW s \in segments, s.client = d, n \in s.first..s.last, Cov(d) < n
          PROVE  s \in segments'
      BY <1>0, <3>2, SegmentsKept, EventIs DEF Segments, IInv, TypeInv, StoreType
    <3> QED
      BY <1>0, <3>1, <3>2 DEF Shown
  <2>2. CASE ~IsOut(d, n)
    <3>1. PutSegment(c) /\ d = c /\ n \in (sent[c] + 1)..made[c]
      BY <1>1, <2>2, OutChange, <1>0
    <3>2. Cov(d) < n
      <4>1. sent[c] \in Nat
        BY <1>0 DEF IInv, TypeInv, ClientType
      <4> QED
        BY <1>0, <2>2, <3>1, <4>1, CovIs
    <3>3. [client |-> c, first |-> sent[c] + 1, last |-> made[c]] \in segments'
      BY <1>0, <3>1, SegmentIs
    <3> QED
      BY <1>0, <3>1, <3>2, <3>3 DEF Shown
  <2> QED
    BY <2>1, <2>2
<1>2. Snapshot(latest).events \subseteq commits' \cap packs'
  BY <1>0, StoredKept DEF CatalogInv
<1>3. ASSUME NEW s \in segments', NEW n \in s.first..s.last, Cov(s.client) < n
      PROVE  <<s.client, n>> \in commits' \cap packs'
  <2>1. CASE s \in segments
    <3>1. <<s.client, n>> \in commits \cap packs
      BY <1>0, <1>3, <2>1 DEF CatalogInv
    <3>2. <<s.client, n>> \notin retired
      <4>1. s.client \in Clients /\ n \in Nat
        BY <2>1, EventIs, <1>0 DEF IInv, TypeInv, StoreType, Segments
      <4> QED
        BY <1>0, <1>3, <4>1 DEF CatalogInv
    <3> QED
      BY <3>1, <3>2, StoredKept
  <2>2. CASE s \notin segments
    <3>1. PutSegment(c)
      BY <2>2, Touching DEF PutPacks, PutCommits, Acknowledge, PutSnapshot, PutLatest,
        DeleteSegment, DeleteCommits, Prune, DeletePacks
    <3>2. s = [client |-> c, first |-> sent[c] + 1, last |-> made[c]] /\ batch[c] = {c} \X ((sent[c] + 1)..made[c])
      BY <1>0, <2>2, <3>1, SegmentIs
    <3>3. <<c, n>> \in batch[c] /\ <<c, n>>[2] = n
      BY <3>2
    <3>4. <<c, n>> \in commits \cap packs
      BY <1>0, <1>3, <3>1, <3>2, <3>3 DEF PutSegment, StoredInv
    <3> QED
      BY <3>1, <3>2, <3>4 DEF PutSegment
  <2> QED
    BY <2>1, <2>2
<1>4. latest # 0 => latest \in kept'
  <2>1. CASE Prune(c)
    <3>1. plan[c].gen = latest /\ kept \subseteq Nat /\ latest \in Nat
      BY <1>0, <2>1 DEF Prune, PlanInv, IInv, TypeInv, StoreType
    <3>2. \A h \in kept : h <= latest
      BY <1>0, <2>1, <3>1 DEF Prune, PlanInv, Maintenance
    <3>3. {h \in kept : h > latest} = {}
      <4>1. \A h \in kept : h \in Nat /\ h <= latest
        BY <3>1, <3>2
      <4>2. \A h \in kept : ~(h > latest)
        BY <3>1, <4>1
      <4> QED
        BY <4>2
    <3>4. Cardinality({h \in kept : h > latest}) < Keep
      BY <3>3, FS_EmptySet, CatalogAssumption
    <3> QED
      BY <1>0, <2>1, <3>4 DEF Prune, CatalogInv
  <2>2. CASE ~Prune(c)
    <3>1. kept \subseteq kept'
      BY <2>2, Touching DEF PutPacks, PutCommits, PutSegment, Acknowledge, PutSnapshot, PutCreate,
        PutLatest, DeleteSegment, DeleteCommits, DeletePacks
    <3> QED
      BY <1>0, <3>1 DEF CatalogInv
  <2> QED
    BY <2>1, <2>2
<1>5. \A e \in retired : e[2] <= Cov(e[1]) /\ e \notin Snapshot(latest).events
  BY <1>0 DEF CatalogInv
<1>6. \A d \in Clients : \A n \in Nat : IsOut(d, n)' => <<d, n>> \in retired' \/ Shown(d, n)'
  BY <1>0, <1>1
<1>7. \A s \in segments' : \A n \in s.first..s.last : Cov(s.client)' < n => <<s.client, n>> \in commits' \cap packs'
  BY <1>0, <1>3
<1> QED
  BY <1>0, <1>2, <1>4, <1>5, <1>6, <1>7 DEF CatalogInv

(* Where a session goes, and by which step.                                *)
LEMMA PcIs ==
    ASSUME IInv, NEW c \in Clients, Step(c)
    PROVE  \/ pc'[c] = "idle"
           \/ Begin(c) /\ pc'[c] \in {"list", "snapshot"} /\ pc[c] = "idle"
           \/ ReadSnapshot(c) /\ pc'[c] = "list" /\ pc[c] = "snapshot"
           \/ List(c) /\ pc'[c] = "load"
           \/ Load(c) /\ pc'[c] = "deliver" /\ UNCHANGED session
           \/ Deliver(c) /\ pc'[c] = "publish"
           \/ PutPacks(c) /\ pc'[c] \in {"acknowledge", "commits"}
           \/ PutCommits(c) /\ pc'[c] = "segment"
           \/ PutSegment(c) /\ pc'[c] = "acknowledge"
           \/ Acknowledge(c) /\ pc'[c] = "maintain" /\ c \in Maintainers
           \/ Plan(c) /\ pc'[c] = "compact"
           \/ PutSnapshot(c) /\ pc'[c] = "publish snapshot"
           \/ PutLatest(c) /\ pc'[c] = "delete"
           \/ DeleteSegment(c) /\ pc'[c] = "delete"
           \/ DeleteCommits(c) /\ pc'[c] = "prune"
           \/ Prune(c) /\ pc'[c] = "unpack"
<1>1. CASE Begin(c)
  BY <1>1 DEF Begin, Goto, store, client, session, IInv, TypeInv, SessionType
<1>2. CASE ReadSnapshot(c)
  BY <1>2 DEF ReadSnapshot, Stop, Goto, store, client, session, IInv, TypeInv, SessionType
<1>3. CASE List(c)
  BY <1>3 DEF List, Goto, store, client, session, IInv, TypeInv, SessionType
<1>4. CASE Load(c)
  BY <1>4 DEF Load, Stop, Goto, store, client, session, IInv, TypeInv, SessionType
<1>5. CASE Deliver(c)
  BY <1>5 DEF Deliver, Stop, Goto, store, client, session, IInv, TypeInv, SessionType
<1>6. CASE PutPacks(c)
  BY <1>6 DEF PutPacks, Goto, store, client, session, IInv, TypeInv, SessionType
<1>7. CASE PutCommits(c)
  BY <1>7 DEF PutCommits, Goto, store, client, session, IInv, TypeInv, SessionType
<1>8. CASE PutSegment(c)
  BY <1>8 DEF PutSegment, Goto, store, client, session, IInv, TypeInv, SessionType
<1>9. CASE Acknowledge(c)
  BY <1>9 DEF Acknowledge, Goto, store, client, session, IInv, TypeInv, SessionType
<1>10. CASE Plan(c)
  BY <1>10 DEF Plan, Stop, Goto, store, client, session, IInv, TypeInv, SessionType
<1>11. CASE PutSnapshot(c)
  BY <1>11 DEF PutSnapshot, Goto, store, client, session, IInv, TypeInv, SessionType
<1>12. CASE PutLatest(c)
  BY <1>12 DEF PutLatest, Goto, store, client, session, IInv, TypeInv, SessionType
<1>13. CASE DeleteSegment(c)
  BY <1>13
     DEF DeleteSegment, Covered, Goto, store, client, session, IInv, TypeInv,
         SessionType
<1>14. CASE DeleteCommits(c)
  BY <1>14 DEF DeleteCommits, Goto, store, client, session, IInv, TypeInv, SessionType
<1>15. CASE Prune(c)
  BY <1>15 DEF Prune, Goto, store, client, session, IInv, TypeInv, SessionType
<1>16. CASE DeletePacks(c)
  BY <1>16 DEF DeletePacks, Stop, Goto, store, client, session, IInv, TypeInv, SessionType
<1>17. CASE Abort(c)
  BY <1>17 DEF Abort, Stop, Goto, store, client, session, IInv, TypeInv, SessionType
<1> QED
  BY <1>1, <1>2, <1>3, <1>4, <1>5, <1>6, <1>7, <1>8, <1>9, <1>10, <1>11, <1>12, <1>13, <1>14, <1>15, <1>16, <1>17
     DEF Step, Scan, Publish, Maintain

(* What is made visible is the plan of a client that has seen what it      *)
(* replaces.                                                               *)
LEMMA LatestIs ==
    ASSUME Calm, NEW c \in Clients, PutLatest(c)
    PROVE  /\ latest' = plan[c].gen /\ latest < latest' /\ latest' \in kept
           /\ retired' = retired \cup plan[c].obsolete
           /\ UNCHANGED <<packs, commits, segments, snapshots, kept, disturbed, got, cursor>>
           /\ UNCHANGED <<scan, batch, plan>>
           /\ Snapshot(latest)' = plan[c].snapshot /\ \A d : Cov(d)' = cursor[c][d]
           /\ \A d \in Clients : Cov(d) <= cursor[c][d]
<1>1. /\ pc[c] = "publish snapshot" /\ latest' = plan[c].gen
      /\ retired' = retired \cup plan[c].obsolete
      /\ UNCHANGED <<packs, commits, segments, snapshots, kept, disturbed, got, cursor>>
      /\ UNCHANGED <<scan, batch, plan>>
  BY DEF PutLatest, client, session
<1>2. PlanInv(c) /\ CursorInv(c) /\ OutClient(c)
  BY DEF Calm, UndisturbedInv, ClientInv, IInv, OutInv
<1>3. /\ latest < plan[c].gen /\ plan[c].gen \in kept /\ plan[c].gen # 0
      /\ snapshots[plan[c].gen] = plan[c].snapshot /\ plan[c].snapshot.covered = cursor[c]
      /\ \A d \in Clients : Cov(d) <= cursor[c][d]
  BY <1>1, <1>2 DEF PlanInv, CursorInv, OutClient, Maintenance
<1>5. Snapshot(latest)' = plan[c].snapshot
  BY <1>1, <1>3 DEF Snapshot
<1> QED
  BY <1>1, <1>3, <1>5 DEF Cov

LEMMA LatestStep ==
    ASSUME Calm, NEW c \in Clients, PutLatest(c)
    PROVE  CatalogInv'
<1> DEFINE covered == {e \in got[c] \ retired : e[2] <= cursor[c][e[1]]}
           events == plan[c].snapshot.events
           obsolete == plan[c].obsolete
<1>0. /\ IInv /\ CatalogInv
      /\ \A d \in Clients : Cov(d) \in Nat /\ Cov(d) <= cursor[c][d] /\ cursor[c][d] \in Nat
      /\ \A d \in Clients : \A n \in Nat :
            IsOut(d, n) /\ n <= cursor[c][d] => <<d, n>> \in retired \cup got[c]
      /\ events \cup obsolete = covered /\ events \cap obsolete = {}
  <2>1. PlanInv(c) /\ CursorInv(c) /\ pc[c] = "publish snapshot"
    BY DEF Calm, UndisturbedInv, ClientInv, PutLatest
  <2>2. IInv /\ CatalogInv
    BY DEF Calm, UndisturbedInv
  <2>3. \A d \in Clients : Cov(d) \in Nat /\ cursor[c][d] \in Nat /\ Cov(d) <= cursor[c][d]
    BY <2>2, CovIs, LatestIs DEF IInv, TypeInv, ClientType
  <2>4. events \cup obsolete = covered /\ events \cap obsolete = {}
    BY <2>1 DEF PlanInv
  <2> QED
    BY <2>1, <2>2, <2>3, <2>4 DEF CursorInv
<1>1. \A d, n : IsOut(d, n)' <=> IsOut(d, n)
  BY LatestIs DEF IsOut
<1>2. ASSUME NEW d \in Clients, NEW n \in Nat, IsOut(d, n), <<d, n>> \notin retired'
      PROVE  Shown(d, n)'
  <2>1. CASE n <= cursor[c][d]
    <3>1. <<d, n>> \in covered
      BY <1>0, <1>2, <2>1, LatestIs
    <3>2. <<d, n>> \in events
      BY <1>0, <1>2, <3>1, LatestIs
    <3> QED
      BY <3>2, LatestIs DEF Shown
  <2>2. CASE ~(n <= cursor[c][d])
    <3>1. Cov(d) < n /\ cursor[c][d] < n
      BY <1>0, <2>2
    <3>2. <<d, n>> \notin Snapshot(latest).events
      <4>1. \A e \in Snapshot(latest).events : e[2] <= Cov(e[1])
        BY <1>0, CovIs DEF OutSnapshot, Cov
      <4> QED
        BY <1>0, <3>1, <4>1
    <3>3. \E s \in segments : s.client = d /\ n \in s.first..s.last
      BY <1>0, <1>2, <3>2, LatestIs DEF CatalogInv, Shown
    <3> QED
      BY <3>1, <3>3, LatestIs DEF Shown
  <2> QED
    BY <2>1, <2>2
<1>3. ASSUME NEW e \in retired' PROVE e[2] <= cursor[c][e[1]] /\ e \notin events
  <2>1. CASE e \in retired
    <3>1. e[2] <= Cov(e[1]) /\ e[1] \in Clients /\ e[2] \in Nat
      BY <1>0, <2>1, EventIs DEF CatalogInv, IInv, TypeInv, StoreType
    <3> QED
      BY <1>0, <2>1, <3>1
  <2>2. CASE e \in obsolete
    BY <1>0, <2>2
  <2> QED
    BY <1>3, <2>1, <2>2, LatestIs
<1>4. ASSUME NEW e \in events PROVE e \in commits \cap packs
  <2>1. e \in got[c] /\ e \notin retired
    BY <1>0
  <2>2. e = <<e[1], e[2]>> /\ e[1] \in Clients /\ e[2] \in Nat /\ IsOut(e[1], e[2])
    BY <1>0, <2>1, EventIs DEF IInv, OutInv, OutClient, TypeInv, ClientType
  <2>3. Shown(e[1], e[2])
    BY <1>0, <2>1, <2>2 DEF CatalogInv
  <2> QED
    BY <1>0, <2>2, <2>3 DEF CatalogInv, Shown
<1>5. ASSUME NEW s \in segments, NEW n \in s.first..s.last, cursor[c][s.client] < n
      PROVE  <<s.client, n>> \in commits \cap packs
  <2>1. s.client \in Clients /\ n \in Nat
    BY <1>0, EventIs DEF IInv, TypeInv, StoreType, Segments
  <2>2. Cov(s.client) < n
    BY <1>0, <1>5, <2>1
  <2> QED
    BY <1>0, <2>2 DEF CatalogInv
<1>6. \A d \in Clients : \A n \in Nat : IsOut(d, n)' => <<d, n>> \in retired' \/ Shown(d, n)'
  BY <1>1, <1>2
<1>7. \A e \in retired' : e[2] <= Cov(e[1])' /\ e \notin Snapshot(latest)'.events
  BY <1>3, LatestIs
<1>8. Snapshot(latest)'.events \subseteq commits' \cap packs'
  BY <1>4, LatestIs
<1>9. \A s \in segments' : \A n \in s.first..s.last :
          Cov(s.client)' < n => <<s.client, n>> \in commits' \cap packs'
  BY <1>5, LatestIs
<1>10. latest' # 0 => latest' \in kept'
  BY LatestIs
<1> QED
  BY <1>6, <1>7, <1>8, <1>9, <1>10 DEF CatalogInv

(* The visible snapshot only grows.                                        *)
LEMMA CovGrows ==
    ASSUME Calm, NEW c \in Clients, Step(c), NEW d \in Clients
    PROVE  /\ Cov(d) \in Nat /\ Cov(d) <= Cov(d)' /\ retired \subseteq retired'
           /\ latest \in Nat /\ latest' \in Nat /\ latest <= latest'
           /\ PutLatest(c) => latest < latest'
<1>0. Cov(d) \in Nat /\ latest \in Nat /\ plan[c].gen \in Nat
  BY CovIs DEF Calm, IInv, TypeInv, StoreType, SessionType, PlanType
<1>1. CASE PutLatest(c)
  BY <1>0, <1>1, LatestIs
<1>2. CASE ~PutLatest(c)
  BY <1>0, <1>2, CovKept DEF Calm
<1> QED
  BY <1>1, <1>2

(* What a client is about to make visible stays stored.                    *)
LEMMA StoredStep ==
    ASSUME Calm, NEW c \in Clients, Step(c), NEW d \in Clients
    PROVE  StoredInv(d)'
<1>0. IInv /\ CatalogInv /\ StoredInv(d) /\ PublishInv(d)
  BY DEF Calm, UndisturbedInv, IInv, ClientInv
<1>1. CASE d # c
  <2>1. pc'[d] = pc[d] /\ batch'[d] = batch[d]
    BY <1>0, <1>1, Elsewhere
  <2>2. ASSUME NEW e \in batch[d], Cov(d)' < e[2], pc[d] \in {"commits", "segment"}
        PROVE  Cov(d) < e[2] /\ e \notin retired
    <3>1. e[1] = d /\ e[2] \in Nat /\ batch[d] \in SUBSET Events
      BY <1>0, <2>2, EventIs DEF PublishInv, IInv, TypeInv, SessionType
    <3>2. Cov(d) < e[2]
      <4>1. Cov(d) \in Nat /\ Cov(d)' \in Nat /\ Cov(d) <= Cov(d)'
        <5>1. CASE PutLatest(c)
          BY <5>1, LatestIs, CovGrows DEF Calm, IInv, TypeInv, ClientType
        <5>2. CASE ~PutLatest(c)
          BY <1>0, <5>2, CovKept, CovGrows
        <5> QED
          BY <5>1, <5>2
      <4> QED
        BY <2>2, <3>1, <4>1
    <3>3. e \notin retired
      <4>1. Cov(d) \in Nat
        BY CovGrows
      <4> QED
        BY <1>0, <3>1, <3>2, <4>1 DEF CatalogInv
    <3> QED
      BY <3>2, <3>3
  <2> QED
    BY <1>0, <2>1, <2>2, StoredKept DEF StoredInv
<1>2. CASE d = c
  <2>1. pc'[c] = "commits" => PutPacks(c)
    BY <1>0, <1>2, PcIs
  <2>2. pc'[c] = "segment" => PutCommits(c)
    BY <1>0, <1>2, PcIs
  <2>3. CASE PutPacks(c)
    <3>1. batch'[c] \subseteq packs' /\ pc'[c] # "segment"
      BY <1>0, <2>3 DEF PutPacks, Goto, IInv, TypeInv, SessionType
    <3> QED
      BY <1>2, <3>1 DEF StoredInv
  <2>4. CASE PutCommits(c)
    <3>1. pc[c] = "commits" /\ batch' = batch /\ commits' = commits \cup batch[c] /\ packs' = packs
          /\ pc'[c] = "segment"
      BY <1>0, <2>4 DEF PutCommits, Goto, session, IInv, TypeInv, SessionType
    <3>2. Cov(c)' = Cov(c)
      <4>1. ~PutLatest(c)
        BY <3>1 DEF PutLatest
      <4> QED
        BY <1>0, <4>1, CovKept
    <3> QED
      BY <1>0, <1>2, <3>1, <3>2 DEF StoredInv
  <2>5. CASE pc'[c] \notin {"commits", "segment"}
    BY <1>2, <2>5 DEF StoredInv
  <2> QED
    BY <2>1, <2>2, <2>3, <2>4, <2>5
<1> QED
  BY <1>1, <1>2

(* What a client has been given, it keeps, and nothing new comes to be     *)
(* below its cursors.                                                      *)
LEMMA BelowIs ==
    ASSUME IInv, NEW c \in Clients, Step(c), NEW m \in Clients
    PROVE  /\ got[m] \subseteq got'[m]
           /\ \A d \in Clients : \A n \in Nat :
                 IsOut(d, n)' /\ n <= cursor[m][d] => IsOut(d, n)
<1>1. got[m] \subseteq got'[m]
  <2>1. CASE m # c
    BY <2>1, Elsewhere
  <2>2. CASE m = c
    <3>1. CASE UNCHANGED got
      BY <2>2, <3>1
    <3>2. ASSUME NEW more, got' = [got EXCEPT ![c] = @ \cup more] PROVE got[c] \subseteq got'[c]
      BY <3>2 DEF IInv, TypeInv, ClientType
    <3>3. UNCHANGED got \/ \E more : got' = [got EXCEPT ![c] = @ \cup more]
      BY Touching DEF Deliver, PutPacks, PutSegment, Acknowledge
    <3> QED
      BY <2>2, <3>1, <3>2, <3>3
  <2> QED
    BY <2>1, <2>2
<1>2. ASSUME NEW d \in Clients, NEW n \in Nat, IsOut(d, n)', n <= cursor[m][d], ~IsOut(d, n)
      PROVE  FALSE
  <2>1. PutSegment(c) /\ d = c /\ n \in (sent[c] + 1)..made[c]
    BY <1>2, OutChange
  <2>2. sent[c] \in Nat /\ cursor[m][d] \in Nat
    BY DEF IInv, TypeInv, ClientType
  <2>3. n \in 1..cursor[m][d] /\ cursor[m][d] # 0
    BY <1>2, <2>1, <2>2
  <2>4. IsOut(d, cursor[m][d])
    BY <2>3 DEF IInv, OutInv, OutClient, Reaches
  <2> QED
    BY <1>2, <2>2, <2>3, <2>4 DEF IInv, PublishInv
<1> QED
  BY <1>1, <1>2

(* A scan that no compaction overtook is given all that its cursors pass.  *)
LEMMA DeliveredIs ==
    ASSUME Calm, NEW c \in Clients, pc[c] = "deliver", ~ scan[c].overtaken,
           NEW d \in Clients, NEW n \in Nat, IsOut(d, n), <<d, n>> \notin retired,
           cursor[c][d] < n,
           n <= Raised(cursor[c], scan[c].snapshot, scan[c].found)[d]
    PROVE  <<d, n>> \in Found(cursor[c], scan[c].snapshot, scan[c].found)
<1> DEFINE new == Raised(cursor[c], scan[c].snapshot, scan[c].found)
           found == scan[c].found
           covered == scan[c].snapshot.covered
<1>0. /\ IInv /\ ScanInv(c) /\ scan[c].snapshot \in SnapshotType /\ covered[d] \in Nat
      /\ cursor[c] \in [Clients -> Nat] /\ found \subseteq Segments
      /\ \A s \in found : OutSegment(s)
  <2>1. IInv /\ ScanInv(c) /\ OutClient(c)
    BY DEF Calm, UndisturbedInv, ClientInv, IInv, OutInv
  <2>2. scan[c] \in ScanType /\ cursor[c] \in [Clients -> Nat]
    BY <2>1 DEF IInv, TypeInv, ClientType, SessionType
  <2> QED
    BY <2>1, <2>2 DEF OutClient, ScanType, SnapshotType
<1>1. /\ new[d] \in Nat
      /\ new[d] = cursor[c][d] \/ new[d] = covered[d] \/ \E s \in found : s.client = d /\ new[d] = s.last
  BY <1>0, RaisedIs
<1>2. CASE n <= covered[d]
  <2>1. <<d, n>> \in scan[c].snapshot.events
    <3>1. cursor[c][d] \in Nat
      BY <1>0
    <3>2. n \in 1..covered[d]
      BY <1>0, <1>2, <3>1
    <3> QED
      BY <1>0, <3>2 DEF ScanInv
  <2> QED
    BY <2>1 DEF Found
<1>3. CASE ~(n <= covered[d])
  <2>1. cursor[c][d] \in Nat
    BY <1>0
  <2>2. PICK t \in found : t.client = d /\ new[d] = t.last
    BY <1>1, <1>3, <2>1
  <2>3. n \in 1..t.last
    BY <1>1, <2>1, <2>2
  <2>4. PICK s \in found : s.client = d /\ n \in s.first..s.last
    BY <1>0, <1>3, <2>1, <2>2, <2>3 DEF ScanInv
  <2>5. <<d, n>> \in EventsOf(s)
    BY <2>4 DEF EventsOf
  <2>6. n > Larger(cursor[c][d], covered[d])
    BY <1>0, <1>3, <2>1 DEF Larger
  <2> QED
    BY <2>4, <2>5, <2>6 DEF Found
<1> QED
  BY <1>2, <1>3

(* Where the base of a plan comes from.                                    *)
LEMMA BaseIs ==
    ASSUME IInv, NEW c \in Clients, Step(c)
    PROVE  \/ plan'[c].base = plan[c].base \/ plan'[c].base = 0
           \/ Deliver(c) /\ pc[c] = "deliver" /\ plan'[c].base = scan[c].gen
<1>0. /\ plan \in [Clients -> PlanType]
      /\ Stop(c) => plan'[c].base = 0
  BY DEF IInv, TypeInv, SessionType, Stop, NoPlan
<1>1. CASE UNCHANGED plan
  BY <1>1
<1>2. CASE Deliver(c)
  BY <1>0, <1>2 DEF Deliver, PlanType
<1>3. CASE Plan(c)
  BY <1>0, <1>3 DEF Plan, PlanType
<1>4. CASE PutSnapshot(c)
  BY <1>0, <1>4 DEF PutSnapshot, PlanType
<1> QED
  BY <1>0, <1>1, <1>2, <1>3, <1>4
     DEF Step, Scan, Publish, Maintain, session, Begin, ReadSnapshot, List, Load,
         PutPacks, PutCommits, PutSegment, Acknowledge, PutLatest, DeleteSegment,
         DeleteCommits, Prune, DeletePacks, Abort

\* The part of a session in which a plan is made and has not become visible.
Ahead == {"publish", "commits", "segment", "acknowledge", "maintain", "compact",
          "publish snapshot"}

(* What is known of the cursors of a client stays so, whoever takes a step.*)
LEMMA CursorStep ==
    ASSUME Calm, NEW c \in Clients, Step(c), ~ disturbed', NEW m \in Clients
    PROVE  CursorInv(m)'
<1>0. /\ IInv /\ CursorInv(m) /\ ScanInv(c)
      /\ \A d \in Clients : Cov(d) \in Nat /\ cursor[m][d] \in Nat
      /\ plan[m].base \in Nat /\ scan[c].gen \in Nat
      /\ plan[m].base <= latest /\ scan[c].gen <= latest
  <2>1. IInv /\ CursorInv(m) /\ ScanInv(c)
    BY DEF Calm, UndisturbedInv, ClientInv
  <2>2. plan[m] \in PlanType /\ scan[c] \in ScanType /\ cursor[m] \in [Clients -> Nat]
    BY <2>1 DEF IInv, TypeInv, SessionType, ClientType
  <2>3. plan[m].base <= latest /\ scan[c].gen <= latest
    BY <2>1 DEF CursorInv, ScanInv
  <2> QED
    BY <2>1, <2>2, <2>3, CovIs, CatalogAssumption DEF PlanType, ScanType
<1>1. latest \in Nat /\ latest' \in Nat /\ latest <= latest' /\ retired \subseteq retired'
      /\ (PutLatest(c) => latest < latest')
  BY <1>0, CovGrows
<1>2. CASE UNCHANGED <<cursor[m], plan[m].base>>
           /\ (pc'[m] \in Ahead => pc[m] \in Ahead)
  <2>1. plan'[m].base = plan[m].base /\ plan'[m].base <= latest'
    BY <1>0, <1>1, <1>2
  <2>2. \A d \in Clients : \A n \in Nat :
            IsOut(d, n)' /\ n <= cursor'[m][d] => <<d, n>> \in retired' \cup got'[m]
    BY <1>0, <1>1, <1>2, BelowIs DEF CursorInv
  <2>3. ASSUME pc'[m] \in Ahead, plan'[m].base = latest', NEW d \in Clients
        PROVE  Cov(d)' <= cursor'[m][d]
    <3>1. ~PutLatest(c)
      BY <1>0, <1>1, <2>1, <2>3
    <3>2. latest' = latest /\ Cov(d)' = Cov(d)
      BY <3>1, CovKept
    <3> QED
      BY <1>0, <1>2, <2>3, <3>2 DEF CursorInv, Ahead
  <2> QED
    BY <2>1, <2>2, <2>3 DEF CursorInv, Ahead
<1>3. CASE m # c
  BY <1>0, <1>2, <1>3, Elsewhere
<1>4. CASE m = c /\ UNCHANGED cursor[c] /\ pc'[c] \notin Ahead
  <2>1. plan'[c].base <= latest'
    <3>1. plan'[c].base = plan[c].base \/ plan'[c].base = 0 \/ plan'[c].base = scan[c].gen
      BY <1>0, BaseIs
    <3> QED
      BY <1>0, <1>1, <1>4, <3>1
  <2>2. \A d \in Clients : \A n \in Nat :
            IsOut(d, n)' /\ n <= cursor'[c][d] => <<d, n>> \in retired' \cup got'[c]
    BY <1>0, <1>1, <1>4, BelowIs DEF CursorInv
  <2> QED
    BY <1>4, <2>1, <2>2 DEF CursorInv, Ahead
<1>5. CASE m = c /\ Deliver(c) /\ pc'[c] = "publish"
  <2> DEFINE new == Raised(cursor[c], scan[c].snapshot, scan[c].found)
             events == Found(cursor[c], scan[c].snapshot, scan[c].found)
  <2>1. /\ pc[c] = "deliver" /\ cursor'[c] = new /\ got'[c] = got[c] \cup events
        /\ plan'[c].base = scan[c].gen /\ ~ scan[c].overtaken
    <3>1. ~Stop(c)
      BY <1>0, <1>5 DEF Stop, Goto, IInv, TypeInv, SessionType
    <3>2. /\ pc[c] = "deliver" /\ cursor' = [cursor EXCEPT ![c] = new]
          /\ got' = [got EXCEPT ![c] = @ \cup events]
          /\ plan' = [plan EXCEPT ![c].base = scan[c].gen]
          /\ disturbed' = (disturbed \/ scan[c].overtaken)
      BY <1>5, <3>1 DEF Deliver
    <3> HIDE DEF new, events
    <3> QED
      BY <1>0, <3>2 DEF IInv, TypeInv, ClientType, SessionType, PlanType
  <2>2. ~PutLatest(c)
    BY <2>1 DEF PutLatest
  <2>3. latest' = latest /\ retired' = retired /\ \A d : Cov(d)' = Cov(d)
    BY <2>2, CovKept
  <2>4. plan'[c].base <= latest'
    BY <1>0, <2>1, <2>3 DEF ScanInv
  <2>5. ASSUME NEW d \in Clients, NEW n \in Nat, IsOut(d, n)', n <= cursor'[c][d],
               <<d, n>> \notin retired
        PROVE  <<d, n>> \in got'[c]
    <3>1. IsOut(d, n)
      BY <1>0, <2>5, <2>1, OutChange DEF PutSegment
    <3>2. CASE n <= cursor[c][d]
      BY <1>0, <1>5, <2>1, <2>5, <3>1, <3>2 DEF CursorInv
    <3>3. CASE ~(n <= cursor[c][d])
      <4>1. cursor[c][d] < n
        BY <1>0, <1>5, <3>3
      <4> HIDE DEF new, events
      <4>2. n <= new[d]
        BY <2>1, <2>5
      <4> USE DEF new, events
      <4>3. <<d, n>> \in events
        BY <2>1, <2>5, <3>1, <4>1, <4>2, DeliveredIs
      <4> QED
        BY <2>1, <4>3
    <3> QED
      BY <3>2, <3>3
  <2>6. ASSUME plan'[c].base = latest', NEW d \in Clients
        PROVE  Cov(d)' <= cursor'[c][d]
    <3>1. scan[c].snapshot = Snapshot(latest)
      BY <1>0, <2>1, <2>3, <2>6 DEF ScanInv
    <3>2. scan[c].snapshot.covered[d] <= new[d]
      <4>1. OutClient(c) /\ scan[c] \in ScanType /\ cursor[c] \in [Clients -> Nat]
        BY <1>0 DEF IInv, OutInv, TypeInv, SessionType, ClientType
      <4> QED
        BY <1>0, <4>1, RaisedIs DEF OutClient, ScanType
    <3> QED
      BY <2>1, <2>3, <3>1, <3>2 DEF Cov
  <2> QED
    BY <1>5, <2>3, <2>4, <2>5, <2>6 DEF CursorInv
<1>6. m = c => \/ UNCHANGED <<cursor[c], plan[c].base>> /\ (pc'[c] \in Ahead => pc[c] \in Ahead)
               \/ UNCHANGED cursor[c] /\ pc'[c] \notin Ahead
               \/ Deliver(c) /\ pc'[c] = "publish"
  <2>1. CASE Deliver(c)
    <3>1. CASE Stop(c)
      BY <1>0, <2>1, <3>1 DEF Deliver, Stop, Goto, Ahead, IInv, TypeInv, SessionType
    <3>2. CASE ~Stop(c)
      BY <1>0, <2>1, <3>2 DEF Deliver, Goto, IInv, TypeInv, SessionType
    <3> QED
      BY <3>1, <3>2
  <2>2. CASE ~Deliver(c)
    <3>1. UNCHANGED cursor
      BY <2>2, Touching DEF PutPacks, PutSegment, Acknowledge
    <3>2. CASE pc'[c] \notin Ahead
      BY <3>1, <3>2
    <3>3. CASE pc'[c] \in Ahead
      <4>1. PutPacks(c) \/ PutCommits(c) \/ PutSegment(c) \/ Acknowledge(c) \/ Plan(c) \/ PutSnapshot(c)
        BY <1>0, <2>2, <3>3, PcIs DEF Ahead
      <4>2. pc[c] \in Ahead
        BY <4>1
           DEF Ahead, PutPacks, PutCommits, PutSegment, Acknowledge, Plan, PutSnapshot
      <4>3. plan'[c].base = plan[c].base
        <5>1. CASE PutPacks(c) \/ PutCommits(c) \/ PutSegment(c) \/ Acknowledge(c)
          BY <5>1 DEF PutPacks, PutCommits, PutSegment, Acknowledge, session
        <5>2. CASE Plan(c)
          <6>1. ~Stop(c)
            BY <1>0, <3>3 DEF Stop, Goto, Ahead, IInv, TypeInv, SessionType
          <6> QED
            BY <1>0, <5>2, <6>1 DEF Plan, IInv, TypeInv, SessionType, PlanType
        <5>3. CASE PutSnapshot(c)
          BY <1>0, <5>3 DEF PutSnapshot, IInv, TypeInv, SessionType, PlanType
        <5> QED
          BY <4>1, <5>1, <5>2, <5>3
      <4> QED
        BY <3>1, <4>2, <4>3
    <3> QED
      BY <3>2, <3>3
  <2> QED
    BY <2>1, <2>2
<1> QED
  BY <1>2, <1>3, <1>4, <1>5, <1>6

(* A snapshot that disturbs nothing is the newest, and its maker alone.    *)
LEMMA CalmPut ==
    ASSUME Calm, NEW c \in Clients, PutSnapshot(c), ~ disturbed'
    PROVE  \E g \in 1..MaxSnapshots :
              /\ SnapshotPut(c, g) /\ g \notin kept /\ \A h \in kept : h < g
              /\ latest = plan[c].base /\ latest < g
              /\ \A d \in Clients \ {c} : pc[d] \notin Maintenance
              /\ snapshots'[g] = plan[c].snapshot /\ plan'[c].gen = g
              /\ plan'[c].base = plan[c].base /\ plan'[c].snapshot = plan[c].snapshot
              /\ plan'[c].obsolete = plan[c].obsolete
<1>1. PICK g \in 1..MaxSnapshots : SnapshotPut(c, g)
  BY DEF PutSnapshot, SnapshotPut, PutCreate
<1>2. ~ Disturbs(c, g)
  BY <1>1 DEF SnapshotPut
<1>3. kept \subseteq Nat /\ latest \in Nat /\ g \in Nat /\ g # 0 /\ plan \in [Clients -> PlanType]
      /\ snapshots \in [1..MaxSnapshots -> SnapshotType]
  BY CatalogAssumption DEF Calm, IInv, TypeInv, StoreType, SessionType
<1>4. latest = plan[c].base /\ \A d \in Clients \ {c} : pc[d] \notin Maintenance
  BY <1>2 DEF Disturbs, Maintenance
<1>5. \A h \in kept : h < g
  <2>1. ~ \E h \in kept : h >= g
    BY <1>2 DEF Disturbs
  <2>2. ASSUME NEW h \in kept PROVE h < g
    <3>1. h \in Nat /\ ~ (h >= g)
      BY <1>3, <2>1
    <3> QED
      BY <1>3, <3>1
  <2> QED
    BY <2>2
<1>6. g \notin kept
  BY <1>3, <1>5
<1>7. latest < g
  <2>1. latest # 0 => latest \in kept
    BY DEF Calm, UndisturbedInv, CatalogInv
  <2> QED
    BY <1>3, <1>5, <2>1
<1>8. /\ snapshots'[g] = plan[c].snapshot /\ plan'[c].gen = g
      /\ plan'[c].base = plan[c].base /\ plan'[c].snapshot = plan[c].snapshot
      /\ plan'[c].obsolete = plan[c].obsolete
  BY <1>1, <1>3, <1>6 DEF SnapshotPut, PlanType
<1> QED
  BY <1>1, <1>4, <1>5, <1>6, <1>7, <1>8

(* A step of another client leaves a plan as good as it was, ...           *)
LEMMA PlanOtherStep ==
    ASSUME Calm, NEW c \in Clients, Step(c), ~ disturbed', NEW d \in Clients, d # c
    PROVE  PlanInv(d)'
<1>0. /\ IInv /\ PlanInv(d) /\ plan[d].base <= latest /\ plan[d].base \in Nat
      /\ UNCHANGED <<got[d], cursor[d], pc[d], plan[d]>>
      /\ latest \in Nat /\ latest' \in Nat /\ (PutLatest(c) => latest < latest')
      /\ retired \subseteq retired'
  <2>1. IInv /\ PlanInv(d) /\ CursorInv(d)
    BY DEF Calm, UndisturbedInv, ClientInv
  <2>2. plan[d].base <= latest
    BY <2>1 DEF CursorInv
  <2>3. plan[d].base \in 0..MaxSnapshots
    BY <2>1 DEF IInv, TypeInv, SessionType, PlanType
  <2> QED
    BY <2>1, <2>2, <2>3, CovGrows, Elsewhere, CatalogAssumption
<1>1. ASSUME pc[d] \in {"compact", "publish snapshot"}, plan[d].base = latest'
      PROVE  latest' = latest /\ retired' = retired
  <2>1. latest' <= latest
    BY <1>0, <1>1
  <2>2. ~ (latest < latest')
    BY <1>0, <2>1
  <2>3. ~PutLatest(c)
    BY <1>0, <2>2
  <2> QED
    BY <2>3, CovKept
<1>2. ASSUME pc[d] \in Maintenance
      PROVE  /\ UNCHANGED <<snapshots, kept, latest>>
             /\ \A e \in Clients \ {d} : pc'[e] \notin Maintenance
  <2>1. \A e \in Clients \ {d} : pc[e] \notin Maintenance
    BY <1>0, <1>2 DEF PlanInv
  <2>2. ~PutSnapshot(c)
    BY <1>2, CalmPut
  <2>3. ~PutLatest(c) /\ ~DeleteSegment(c) /\ ~DeleteCommits(c) /\ ~Prune(c)
    BY <2>1 DEF Maintenance, PutLatest, DeleteSegment, DeleteCommits, Prune
  <2>4. UNCHANGED <<snapshots, kept, latest>>
    BY <2>2, <2>3, Touching
       DEF PutPacks, PutCommits, PutSegment, Acknowledge, DeletePacks
  <2>5. pc'[c] \notin Maintenance
    BY <1>0, <2>2, <2>3, PcIs DEF Maintenance
  <2>6. \A e \in Clients \ {c} : pc'[e] = pc[e]
    BY <1>0, Elsewhere
  <2> QED
    BY <2>1, <2>4, <2>5, <2>6
<1>3. pc'[d] \in {"compact", "publish snapshot"} /\ plan'[d].base = latest' =>
          /\ plan'[d].snapshot.covered = cursor'[d]
          /\ plan'[d].snapshot.events \cup plan'[d].obsolete =
                {e \in got'[d] \ retired' : e[2] <= cursor'[d][e[1]]}
          /\ plan'[d].snapshot.events \cap plan'[d].obsolete = {}
  BY <1>0, <1>1 DEF PlanInv
<1>4. pc'[d] \in {"delete", "prune", "unpack"} => plan'[d].obsolete \subseteq retired'
  BY <1>0 DEF PlanInv
<1>5. /\ pc'[d] = "publish snapshot" =>
            plan'[d].base = latest' /\ latest' < plan'[d].gen /\ plan'[d].gen \in kept'
      /\ pc'[d] \in Maintenance =>
            /\ snapshots'[plan'[d].gen] = plan'[d].snapshot
            /\ \A h \in kept' : h <= plan'[d].gen
            /\ \A e \in Clients \ {d} : pc'[e] \notin Maintenance
      /\ pc'[d] \in {"delete", "prune"} => plan'[d].gen = latest'
  BY <1>0, <1>2 DEF PlanInv, Maintenance
<1> QED
  BY <1>3, <1>4, <1>5 DEF PlanInv

(* ... and the steps of maintenance keep to the plan.                      *)
LEMMA PlanOwnStep ==
    ASSUME Calm, NEW c \in Clients, Step(c), ~ disturbed'
    PROVE  PlanInv(c)'
<1>0. /\ IInv /\ PlanInv(c) /\ pc \in [Clients -> Steps] /\ plan \in [Clients -> PlanType]
      /\ kept \subseteq Nat
  BY DEF Calm, UndisturbedInv, ClientInv, IInv, TypeInv, StoreType, SessionType
<1>1. CASE pc'[c] = "compact"
  <2>1. Plan(c) /\ ~Stop(c)
    BY <1>0, <1>1, PcIs DEF Stop, Goto
  <2> DEFINE covered == {e \in got[c] \ retired : e[2] <= cursor[c][e[1]]}
  <2>2. PICK obsolete \in {{}, AcknowledgedByAll \cap covered} :
           plan' = [plan EXCEPT
                   ![c].snapshot = [covered |-> cursor[c], events |-> covered \ obsolete],
                   ![c].obsolete = obsolete]
    BY <2>1 DEF Plan
  <2>3. UNCHANGED <<got, retired, cursor>>
    BY <2>1 DEF Plan, store, client
  <2>4. obsolete \subseteq covered
    OBVIOUS
  <2> HIDE DEF covered
  <2>5. /\ plan'[c].snapshot.covered = cursor[c]
        /\ plan'[c].snapshot.events = covered \ obsolete /\ plan'[c].obsolete = obsolete
    BY <1>0, <2>2 DEF PlanType
  <2>6. /\ plan'[c].snapshot.events \cup plan'[c].obsolete = covered
        /\ plan'[c].snapshot.events \cap plan'[c].obsolete = {}
    BY <2>4, <2>5
  <2>7. /\ plan'[c].snapshot.covered = cursor'[c]
        /\ plan'[c].snapshot.events \cup plan'[c].obsolete =
              {e \in got'[c] \ retired' : e[2] <= cursor'[c][e[1]]}
        /\ plan'[c].snapshot.events \cap plan'[c].obsolete = {}
    BY <2>3, <2>5, <2>6 DEF covered
  <2> QED
    BY <1>1, <2>7 DEF PlanInv, Maintenance
<1>2. CASE pc'[c] = "publish snapshot"
  <2>1. PutSnapshot(c)
    BY <1>0, <1>2, PcIs
  <2>2. PICK g \in 1..MaxSnapshots :
              /\ SnapshotPut(c, g) /\ g \notin kept /\ \A h \in kept : h < g
              /\ latest = plan[c].base /\ latest < g
              /\ \A d \in Clients \ {c} : pc[d] \notin Maintenance
              /\ snapshots'[g] = plan[c].snapshot /\ plan'[c].gen = g
              /\ plan'[c].base = plan[c].base /\ plan'[c].snapshot = plan[c].snapshot
              /\ plan'[c].obsolete = plan[c].obsolete
    BY <2>1, CalmPut
  <2>3. kept' = kept \cup {g} /\ pc[c] = "compact" /\ UNCHANGED <<latest, retired, got, cursor>>
    BY <2>1, <2>2 DEF SnapshotPut, PutSnapshot, client
  <2>4. /\ plan'[c].snapshot.covered = cursor'[c]
        /\ plan'[c].snapshot.events \cup plan'[c].obsolete =
              {e \in got'[c] \ retired' : e[2] <= cursor'[c][e[1]]}
        /\ plan'[c].snapshot.events \cap plan'[c].obsolete = {}
    BY <1>0, <2>2, <2>3 DEF PlanInv
  <2>5. plan'[c].base = latest' /\ latest' < plan'[c].gen /\ plan'[c].gen \in kept'
        /\ snapshots'[plan'[c].gen] = plan'[c].snapshot
    BY <2>2, <2>3
  <2>6. \A h \in kept' : h <= plan'[c].gen
    <3>1. g \in Nat /\ \A h \in kept : h \in Nat /\ h < g
      BY <1>0, <2>2, CatalogAssumption
    <3> QED
      BY <2>2, <2>3, <3>1
  <2>7. \A d \in Clients \ {c} : pc'[d] \notin Maintenance
    BY <1>0, <2>2, Elsewhere
  <2> QED
    BY <1>2, <2>4, <2>5, <2>6, <2>7 DEF PlanInv
<1>3. CASE pc'[c] \in {"delete", "prune", "unpack"}
  <2>1. PutLatest(c) \/ DeleteSegment(c) \/ DeleteCommits(c) \/ Prune(c)
    BY <1>0, <1>3, PcIs
  <2>2. pc[c] \in Maintenance /\ UNCHANGED <<plan, snapshots>> /\ kept' \subseteq kept
    BY <2>1 DEF Maintenance, PutLatest, DeleteSegment, DeleteCommits, Prune, session
  <2>3. /\ snapshots'[plan'[c].gen] = plan'[c].snapshot
        /\ \A h \in kept' : h <= plan'[c].gen
        /\ \A d \in Clients \ {c} : pc'[d] \notin Maintenance
    <3>1. \A d \in Clients \ {c} : pc'[d] = pc[d]
      BY <1>0, Elsewhere
    <3> QED
      BY <1>0, <2>2, <3>1 DEF PlanInv
  <2>4. plan'[c].obsolete \subseteq retired' /\ plan'[c].gen = latest'
    <3>1. CASE PutLatest(c)
      BY <2>2, <3>1 DEF PutLatest
    <3>2. CASE DeleteSegment(c) \/ DeleteCommits(c) \/ Prune(c)
      <4>1. pc[c] \in {"delete", "prune"} /\ UNCHANGED <<latest, retired>>
        BY <3>2 DEF DeleteSegment, DeleteCommits, Prune
      <4> QED
        BY <1>0, <2>2, <4>1 DEF PlanInv
    <3> QED
      BY <2>1, <3>1, <3>2
  <2> QED
    BY <1>3, <2>3, <2>4 DEF PlanInv
<1>4. CASE pc'[c] \notin {"compact", "publish snapshot", "delete", "prune", "unpack"}
  BY <1>4 DEF PlanInv, Maintenance
<1> QED
  BY <1>1, <1>2, <1>3, <1>4

(* The segments that a scan lists leave no gap.                            *)
LEMMA ListIs ==
    ASSUME Calm, NEW c \in Clients, List(c), scan[c].snapshot = Snapshot(latest),
           NEW t \in scan'[c].found, NEW n \in 1..t.last
    PROVE  \/ n <= cursor[c][t.client] \/ n <= Cov(t.client) \/ <<t.client, n>> \in retired
           \/ \E s \in scan'[c].found : s.client = t.client /\ n \in s.first..s.last
<1> DEFINE d == t.client
<1>0. IInv /\ CatalogInv
  BY DEF Calm, UndisturbedInv
<1>1. scan'[c].found = {s \in segments : s.client \in scan[c].clients
                          /\ s.last > Larger(cursor[c][s.client], Cov(s.client))}
  <2>1. scan' = [scan EXCEPT
          ![c].found = {s \in segments :
              /\ s.client \in scan[c].clients
              /\ s.last > Larger(cursor[c][s.client], Cov(s.client))},
          ![c].overtaken = scan[c].gen # latest]
    BY DEF List, Cov
  <2> QED
    BY <1>0, <2>1 DEF IInv, TypeInv, SessionType, ScanType
<1>2. t \in segments /\ d \in scan[c].clients /\ t \in Segments /\ OutSegment(t)
  BY <1>0, <1>1 DEF IInv, TypeInv, StoreType, OutInv, OutStore
<1>3. d \in Clients /\ t.last \in Nat
  BY <1>2, EventIs DEF Segments
<1>4. cursor[c][d] \in Nat /\ Cov(d) \in Nat
  BY <1>0, <1>3, CovIs DEF IInv, TypeInv, ClientType
<1>5. SUFFICES ASSUME cursor[c][d] < n, Cov(d) < n, <<d, n>> \notin retired
               PROVE  \E s \in scan'[c].found : s.client = d /\ n \in s.first..s.last
  BY <1>3, <1>4
<1>6. IsOut(d, n) /\ n \in Nat
  BY <1>0, <1>2, <1>3 DEF OutSegment, IInv, PublishInv
<1>7. <<d, n>> \notin Snapshot(latest).events
  <2>1. \A e \in Snapshot(latest).events : e[2] <= Cov(e[1])
    BY <1>0, CovIs DEF OutSnapshot, Cov
  <2> QED
    BY <1>4, <1>5, <2>1
<1>8. PICK s \in segments : s.client = d /\ n \in s.first..s.last
  BY <1>0, <1>3, <1>5, <1>6, <1>7 DEF CatalogInv, Shown
<1>9. s.last > Larger(cursor[c][d], Cov(d))
  <2>1. s.last \in Nat
    BY <1>0, <1>8, EventIs DEF IInv, TypeInv, StoreType, Segments
  <2> QED
    BY <1>4, <1>5, <1>8, <2>1 DEF Larger
<1> QED
  BY <1>1, <1>2, <1>8, <1>9

(* Where a scan stands after a step: as it was, or one step further.       *)
LEMMA ScanAfter ==
    ASSUME IInv, NEW c \in Clients, Step(c), NEW d \in Clients,
           pc'[d] \in {"list", "load", "deliver"}
    PROVE  \/ /\ UNCHANGED <<scan[d], cursor[d]>> /\ pc[d] \in {"list", "load", "deliver"}
              /\ pc'[d] \in {"load", "deliver"} => pc[d] \in {"load", "deliver"}
           \/ d = c /\ Begin(c) /\ pc'[c] = "list"
           \/ d = c /\ ReadSnapshot(c) /\ pc'[c] = "list" /\ pc[c] = "snapshot"
           \/ d = c /\ List(c) /\ pc'[c] = "load"
<1>1. CASE d # c
  BY <1>1, Elsewhere
<1>2. CASE d = c /\ Load(c) /\ pc'[c] = "deliver" /\ UNCHANGED session
  BY <1>2 DEF Load, session, client
<1>3. d = c => \/ Begin(c) /\ pc'[c] = "list"
               \/ ReadSnapshot(c) /\ pc'[c] = "list" /\ pc[c] = "snapshot"
               \/ List(c) /\ pc'[c] = "load"
               \/ Load(c) /\ pc'[c] = "deliver" /\ UNCHANGED session
  BY PcIs
<1> QED
  BY <1>1, <1>2, <1>3

LEMMA ScanStep ==
    ASSUME Calm, NEW c \in Clients, Step(c), NEW d \in Clients
    PROVE  ScanInv(d)'
<1>0. /\ IInv /\ ScanInv(d) /\ latest \in Nat /\ scan[d].gen \in Nat /\ latest' \in Nat
      /\ scan \in [Clients -> ScanType] /\ scan[d].gen <= latest
      /\ latest <= latest' /\ (PutLatest(c) => latest < latest') /\ retired \subseteq retired'
  <2>1. IInv /\ ScanInv(d)
    BY DEF Calm, UndisturbedInv, ClientInv
  <2>2. scan \in [Clients -> ScanType] /\ scan[d].gen \in 0..MaxSnapshots
    BY <2>1 DEF IInv, TypeInv, SessionType, ScanType
  <2>3. scan[d].gen <= latest
    BY <2>1 DEF ScanInv
  <2> QED
    BY <2>1, <2>2, <2>3, CovGrows, CatalogAssumption
<1>1. scan'[d].gen <= latest'
  <2>1. scan'[d] = scan[d] \/ scan'[d] = NoScan \/ scan'[d].gen = latest \/ scan'[d].gen = scan[d].gen
    <3>1. CASE d # c
      BY <1>0, <3>1, Elsewhere
    <3>2. CASE d = c
      <4>1. [NoScan EXCEPT !.gen = latest, !.clients = registry].gen = latest
        BY DEF NoScan
      <4>2. [scan[c] EXCEPT !.snapshot = snapshots[scan[c].gen]].gen = scan[c].gen
        BY <1>0 DEF ScanType
      <4> QED
        BY <1>0, <3>2, <4>1, <4>2, ScanIs
    <3> QED
      BY <3>1, <3>2
  <2>2. scan'[d].gen = scan[d].gen \/ scan'[d].gen = 0 \/ scan'[d].gen = latest
    BY <2>1 DEF NoScan
  <2> QED
    BY <1>0, <2>2
<1>2. ASSUME pc'[d] \in {"list", "load", "deliver"}, scan'[d].gen = latest'
      PROVE  scan'[d].snapshot = Snapshot(latest)'
  <2>1. CASE UNCHANGED <<scan[d], cursor[d]>> /\ pc[d] \in {"list", "load", "deliver"}
    <3>1. latest' <= latest
      BY <1>0, <1>2, <2>1
    <3>2. ~ (latest < latest')
      BY <1>0, <3>1
    <3>3. ~PutLatest(c)
      BY <1>0, <3>2
    <3> QED
      BY <1>0, <1>2, <2>1, <3>3, CovKept DEF ScanInv
  <2>2. CASE d = c /\ Begin(c) /\ pc'[c] = "list"
    <3>1. latest = 0 /\ latest' = 0
      BY <1>0, <2>2 DEF Begin, Goto, store, IInv, TypeInv, SessionType
    <3>2. scan'[c].snapshot = NoSnapshot
      BY <1>0, <2>2 DEF Begin, NoScan
    <3> QED
      BY <2>2, <3>1, <3>2 DEF Snapshot
  <2>3. CASE d = c /\ ReadSnapshot(c) /\ pc'[c] = "list" /\ pc[c] = "snapshot"
    <3>1. ~Stop(c)
      BY <1>0, <2>3 DEF Stop, Goto, IInv, TypeInv, SessionType
    <3>2. /\ scan[c].gen \in kept /\ scan' = [scan EXCEPT ![c].snapshot = snapshots[scan[c].gen]]
          /\ UNCHANGED <<latest, snapshots>>
      BY <2>3, <3>1 DEF ReadSnapshot, store
    <3>3. scan'[c].gen = scan[c].gen /\ scan'[c].snapshot = snapshots[scan[c].gen]
      BY <1>0, <3>2 DEF ScanType
    <3>4. scan[c].gen # 0
      BY <1>0, <3>2, CatalogAssumption DEF IInv, TypeInv, StoreType
    <3> QED
      BY <1>2, <2>3, <3>2, <3>3, <3>4 DEF Snapshot
  <2>4. CASE d = c /\ List(c) /\ pc'[c] = "load"
    <3>1. /\ scan'[c].gen = scan[c].gen /\ scan'[c].snapshot = scan[c].snapshot
          /\ pc[c] = "list" /\ UNCHANGED <<latest, snapshots>>
      BY <1>0, <2>4 DEF List, ScanType, store
    <3> QED
      BY <1>0, <1>2, <2>4, <3>1 DEF ScanInv, Snapshot
  <2> QED
    BY <1>0, <1>2, <2>1, <2>2, <2>3, <2>4, ScanAfter
<1>3. ASSUME pc'[d] \in {"load", "deliver"}, ~ scan'[d].overtaken
      PROVE  /\ \A e \in Clients : \A n \in 1..scan'[d].snapshot.covered[e] :
                    <<e, n>> \in retired' \cup scan'[d].snapshot.events
             /\ \A t \in scan'[d].found : \A n \in 1..t.last :
                    \/ n <= cursor'[d][t.client] \/ n <= scan'[d].snapshot.covered[t.client]
                    \/ <<t.client, n>> \in retired'
                    \/ \E s \in scan'[d].found : s.client = t.client /\ n \in s.first..s.last
  <2>1. CASE UNCHANGED <<scan[d], cursor[d]>> /\ pc[d] \in {"load", "deliver"}
    BY <1>0, <1>3, <2>1 DEF ScanInv
  <2>2. CASE d = c /\ List(c) /\ pc'[c] = "load"
    <3>1. /\ scan'[c].gen = scan[c].gen /\ scan'[c].snapshot = scan[c].snapshot
          /\ scan'[c].overtaken = (scan[c].gen # latest)
          /\ pc[c] = "list" /\ UNCHANGED <<latest, retired, cursor>>
      BY <1>0, <2>2 DEF List, ScanType, store, client
    <3>2. scan[c].snapshot = Snapshot(latest)
      BY <1>0, <1>3, <2>2, <3>1 DEF ScanInv
    <3>3. ASSUME NEW e \in Clients, NEW n \in 1..Snapshot(latest).covered[e]
          PROVE  <<e, n>> \in retired \cup Snapshot(latest).events
      <4>1. Cov(e) \in Nat /\ n \in 1..Cov(e)
        BY <1>0, <3>3, CovIs DEF Cov
      <4>2. n \in Nat /\ ~(Cov(e) < n) /\ IsOut(e, n)
        BY <1>0, <4>1, CovIs
      <4>3. CatalogInv
        BY DEF Calm, UndisturbedInv
      <4> QED
        BY <4>2, <4>3 DEF CatalogInv, Shown
    <3>4. ASSUME NEW t \in scan'[c].found, NEW n \in 1..t.last
          PROVE  \/ n <= cursor[c][t.client] \/ n <= Cov(t.client) \/ <<t.client, n>> \in retired
                 \/ \E s \in scan'[c].found : s.client = t.client /\ n \in s.first..s.last
      BY <2>2, <3>2, <3>4, ListIs
    <3> QED
      BY <2>2, <3>1, <3>2, <3>3, <3>4 DEF Cov
  <2> QED
    BY <1>0, <1>3, <2>1, <2>2, ScanAfter
<1> QED
  BY <1>1, <1>2, <1>3 DEF ScanInv

(* A disturbance is for good.                                              *)
LEMMA DisturbedKept ==
    ASSUME NEW c \in Clients, Step(c), disturbed
    PROVE  disturbed'
<1>1. CASE UNCHANGED disturbed
  BY <1>1
<1>2. CASE Deliver(c)
  BY <1>2 DEF Deliver
<1>3. CASE PutSnapshot(c)
  BY <1>3 DEF PutSnapshot
<1> QED
  BY <1>1, <1>2, <1>3, Touching

(* The invariant of the catalog.                                           *)
LEMMA CatalogInvStep ==
    ASSUME AInv, [Next]_vars
    PROVE  AInv'
<1>1. IInv'
  BY InvStep DEF AInv
<1>2. ASSUME NEW c \in Clients, Step(c) PROVE AInv'
  <2>1. CASE disturbed'
    BY <1>1, <2>1 DEF AInv
  <2>2. CASE ~ disturbed'
    <3>1. Calm
      BY <1>2, <2>2, DisturbedKept DEF AInv, Calm
    <3>2. CatalogInv'
      BY <1>2, <3>1, CatalogStep, LatestStep
    <3>3. ASSUME NEW d \in Clients PROVE ClientInv(d)'
      <4>1. StoredInv(d)' /\ ScanInv(d)' /\ CursorInv(d)'
        BY <1>2, <2>2, <3>1, StoredStep, ScanStep, CursorStep
      <4>2. PlanInv(d)'
        BY <1>2, <2>2, <3>1, PlanOtherStep, PlanOwnStep
      <4> QED
        BY <4>1, <4>2 DEF ClientInv
    <3> QED
      BY <1>1, <3>2, <3>3 DEF AInv, UndisturbedInv
  <2> QED
    BY <2>1, <2>2
<1>3. CASE UNCHANGED vars
  <2>1. disturbed' = disturbed
    BY <1>3 DEF vars, store
  <2>2. ASSUME CatalogInv PROVE CatalogInv'
    BY <1>3, <2>2
       DEF CatalogInv, vars, store, client, session, Snapshot, Cov, Shown, IsOut
  <2>3. ASSUME NEW d \in Clients, ClientInv(d) PROVE ClientInv(d)'
    <3>1. \A e : Cov(e)' = Cov(e)
      BY <1>3 DEF vars, store, Snapshot, Cov
    <3>2. StoredInv(d)'
      BY <1>3, <2>3, <3>1 DEF ClientInv, StoredInv, vars, store, client, session
    <3>3. CursorInv(d)'
      BY <1>3, <2>3, <3>1 DEF ClientInv, CursorInv, vars, store, client, session, IsOut
    <3>4. ScanInv(d)'
      BY <1>3, <2>3 DEF ClientInv, ScanInv, Snapshot, vars, store, client, session
    <3>5. PlanInv(d)'
      BY <1>3, <2>3 DEF ClientInv, PlanInv, vars, store, client, session
    <3> QED
      BY <3>2, <3>3, <3>4, <3>5 DEF ClientInv
  <2> QED
    BY <1>1, <2>1, <2>2, <2>3 DEF AInv, UndisturbedInv
<1> QED
  BY <1>2, <1>3 DEF Next, Step

LEMMA CatalogInvInit == Init => AInv
<1> SUFFICES ASSUME Init PROVE AInv
  OBVIOUS
<1>1. IInv
  BY InitInv
<1>2. \A d \in Clients : Cov(d) = 0 /\ Snapshot(latest).events = {}
  BY DEF Init, Cov, Snapshot, NoSnapshot, NoCursor
<1>3. \A d \in Clients : \A n : ~IsOut(d, n)
  BY DEF Init, IsOut
<1>4. CatalogInv
  BY <1>2, <1>3 DEF Init, CatalogInv, Snapshot, NoSnapshot
<1>5. ASSUME NEW d \in Clients PROVE ClientInv(d)
  BY <1>2, <1>3, <1>5
     DEF Init, ClientInv, StoredInv, CursorInv, ScanInv, PlanInv, Maintenance, NoScan,
         NoPlan, NoCursor
<1> QED
  BY <1>1, <1>4, <1>5 DEF AInv, UndisturbedInv

(* Until a compaction comes across another, or a scan, the catalog loses   *)
(* nothing, however many clients compact: the snapshot that readers are    *)
(* sent to exists, a published commit is found by a new client until it is *)
(* retired, and what is found can be read.  About: the order of requests   *)
(* in commit_batch and compact_catalog.                                    *)
THEOREM CatalogStaysIntact == Spec => []CatalogIntact
<1>1. ASSUME AInv PROVE CatalogIntact
  <2>0. SUFFICES ASSUME Calm PROVE CatalogIntact
    BY <1>1 DEF AInv, Calm, CatalogIntact
  <2>1. IInv /\ CatalogInv
    BY <2>0 DEF Calm, UndisturbedInv
  <2>2. Snapshot(latest) \in SnapshotType
    BY <2>1, CovIs
  <2>3. ASSUME NEW e \in Published, e \notin retired PROVE e \in Visible
    <3>1. PICK c \in Clients : e \in got[c] /\ e[1] = c
      BY <2>3 DEF Published
    <3>2. e = <<c, e[2]>> /\ e[2] \in Nat /\ 1 <= e[2] /\ IsOut(c, e[2])
      BY <2>1, <3>1, EventIs DEF IInv, TypeInv, ClientType, IsOut
    <3>3. Shown(c, e[2])
      BY <2>1, <2>3, <3>2 DEF CatalogInv
    <3>4. NoCursor[c] = 0 /\ Cov(c) \in Nat
      BY <2>1, CovIs DEF NoCursor
    <3>5. CASE e \in Snapshot(latest).events
      BY <3>1, <3>2, <3>4, <3>5 DEF Visible, Found
    <3>6. CASE Cov(c) < e[2] /\ \E s \in segments : s.client = c /\ e[2] \in s.first..s.last
      <4>1. PICK s \in segments : e \in EventsOf(s)
        BY <3>2, <3>6 DEF EventsOf
      <4>2. e[2] > Larger(NoCursor[c], Cov(c))
        BY <3>2, <3>4, <3>6 DEF Larger
      <4> QED
        BY <3>1, <4>1, <4>2 DEF Visible, Found, Cov
    <3> QED
      BY <3>2, <3>3, <3>5, <3>6 DEF Shown
  <2>4. ASSUME NEW e \in Visible PROVE e \in commits \cap packs
    <3>1. CASE e \in Snapshot(latest).events
      BY <2>1, <3>1 DEF CatalogInv
    <3>2. CASE \E s \in segments : e \in EventsOf(s) /\ e[2] > Larger(NoCursor[e[1]], Cov(e[1]))
      <4>1. PICK s \in segments : e \in EventsOf(s) /\ e[2] > Larger(NoCursor[e[1]], Cov(e[1]))
        BY <3>2
      <4>2. e = <<s.client, e[2]>> /\ e[1] = s.client /\ e[2] \in s.first..s.last
        BY <4>1 DEF EventsOf
      <4>3. s.client \in Clients /\ e[2] \in Nat
        BY <2>1, <4>2, EventIs DEF IInv, TypeInv, StoreType, Segments
      <4>4. Cov(s.client) < e[2]
        <5>1. NoCursor[s.client] = 0 /\ Cov(s.client) \in Nat
          BY <2>1, <4>3, CovIs DEF NoCursor
        <5> QED
          BY <4>1, <4>2, <4>3, <5>1 DEF Larger
      <4> QED
        BY <2>1, <4>2, <4>4 DEF CatalogInv
    <3> QED
      BY <3>1, <3>2 DEF Visible, Found, Cov
  <2> QED
    BY <2>1, <2>3, <2>4 DEF CatalogIntact, CatalogInv
<1> QED
  BY <1>1, CatalogInvInit, CatalogInvStep, PTL DEF Spec

(* Nor does a scan skip anything, whatever other clients publish, compact  *)
(* and delete from its listing on.  About: the comparisons of counters in  *)
(* scan_catalog, and what the listed segments leave no gap between.        *)
THEOREM ScansSkipNothing == Spec => ScansComplete
<1> DEFINE Whole(c) ==
        pc[c] = "deliver" /\ cursor'[c] # cursor[c] /\ ~ disturbed' =>
            {e \in Published \ retired : cursor[c][e[1]] < e[2] /\ e[2] <= cursor'[c][e[1]]}
                \subseteq got'[c]
<1>1. ASSUME AInv, Next, NEW c \in Clients PROVE Whole(c)
  <2>0. IInv
    BY <1>1 DEF AInv
  <2>1. SUFFICES ASSUME pc[c] = "deliver", cursor'[c] # cursor[c], ~ disturbed',
                        NEW e \in Published, e \notin retired,
                        cursor[c][e[1]] < e[2], e[2] <= cursor'[c][e[1]]
                 PROVE  e \in got'[c]
    OBVIOUS
  <2>2. Step(c)
    BY <1>1, <2>0, <2>1, Elsewhere DEF Next, Step
  <2>3. Calm
    BY <1>1, <2>1, <2>2, DisturbedKept DEF AInv, Calm
  <2>4. Deliver(c)
    BY <2>1, <2>2, Touching DEF PutPacks, PutSegment, Acknowledge
  <2>5. /\ cursor' = [cursor EXCEPT ![c] = Raised(cursor[c], scan[c].snapshot, scan[c].found)]
        /\ got' = [got EXCEPT ![c] = @ \cup Found(cursor[c], scan[c].snapshot, scan[c].found)]
        /\ ~ scan[c].overtaken
    BY <2>1, <2>4 DEF Deliver
  <2>6. /\ cursor'[c] = Raised(cursor[c], scan[c].snapshot, scan[c].found)
        /\ got'[c] = got[c] \cup Found(cursor[c], scan[c].snapshot, scan[c].found)
    BY <2>0, <2>5 DEF IInv, TypeInv, ClientType
  <2>7. e = <<e[1], e[2]>> /\ e[1] \in Clients /\ e[2] \in Nat /\ IsOut(e[1], e[2])
    BY <2>0, <2>1, EventIs DEF Published, IInv, TypeInv, ClientType, IsOut
  <2>8. e[2] <= Raised(cursor[c], scan[c].snapshot, scan[c].found)[e[1]]
    BY <2>1, <2>6
  <2>9. e \in Found(cursor[c], scan[c].snapshot, scan[c].found)
    BY <2>1, <2>3, <2>5, <2>7, <2>8, DeliveredIs
  <2> QED
    BY <2>6, <2>9
<1>2. ASSUME AInv, [Next]_vars PROVE [\A c \in Clients : Whole(c)]_vars
  BY <1>1, <1>2
<1>3. AInv /\ [Next]_vars => [\A c \in Clients : Whole(c)]_vars
  BY <1>2
<1> QED
  BY <1>3, CatalogInvInit, CatalogInvStep, PTL DEF Spec, ScansComplete

=============================================================================
