-------------------------- MODULE CategorySyncProofs --------------------------
(***************************************************************************)
(* Proofs about the membership in categories (CategorySync), for any       *)
(* items, categories, names of junctions, commands and edits by hand: the  *)
(* types, that a removal sticks, and what the copies agree on when a       *)
(* command or a scan has gone through undisturbed.                         *)
(***************************************************************************)
EXTENDS CategorySync, TLAPS

Places == {"idle", "done", "failed", "load", "edit", "tombs", "list", "save", "rebuild", "link",
           "drop", "unlink", "mkdir", "move", "remap", "refresh", "disk", "work"}

CommandType == [op : AllCommands \cup {"none"}, items : SUBSET Items,
                cat : Categories \cup {Unmatched}, to : Categories \cup {Unmatched}]

(* The copies, ...                                                         *)
CopiesOK ==
    /\ meta \subseteq Pairs /\ tomb \subseteq Pairs /\ manifest \subseteq Pairs
    /\ index \subseteq Pairs /\ removed \subseteq Pairs /\ evicted \subseteq Pairs
    /\ handEdits \in 0..MaxHandEdits

(* ... the junctions with the directories they are in, ...                 *)
LinksOK ==
    /\ links \subseteq Junctions /\ hand \subseteq links /\ dirs \subseteq Categories
    /\ \A l, m \in links : At(l) = At(m) => l = m
    /\ \A l \in links : l[1][2] \in dirs

(* ... and the commands; one that is under way has categories to work on.  *)
CallsOK ==
    /\ local \in [Calls -> LocalType] /\ call \in [Calls -> CommandType]
    /\ pc \in [Calls -> Places]
    /\ \A c \in Calls : Pending(c) =>
          /\ call[c].cat \in Categories /\ call[c].to \in Categories
          /\ Op(c) \in {"rename", "merge"} => call[c].to # call[c].cat

(* A command that is alone is the only one under way.                      *)
AloneInv == \A c, d \in Calls : alone[c] /\ Pending(d) => c = d

(* What was removed has left metadata and has its tombstone.               *)
RemovedInv == removed \cap meta = {} /\ removed \subseteq tomb

(* No command under way but a scan is about to file what was removed, a    *)
(* scan that reconciles has read the tombstones of all that was, and a     *)
(* removal that is alone has taken out its pair for good.                  *)
CommandInv(c) ==
    Pending(c) =>
       /\ Op(c) = "add" => (Target(c) \cup Default(c)) \cap removed = {}
       /\ Op(c) \in {"rename", "merge"} => (In(call[c].cat) \cup In(call[c].to)) \cap removed = {}
       /\ Op(c) \in {"rename", "merge"} /\ pc[c] = "remap" => local[c].todo \subseteq In(call[c].cat)
       /\ Op(c) = "scan" /\ pc[c] = "work" => removed \subseteq local[c].seenTomb
       /\ Op(c) = "remove" /\ alone[c] /\ pc[c] \in {"unlink", "save", "rebuild"} =>
             Target(c) \subseteq tomb /\ Target(c) \cap meta = {}

TypeInv == CopiesOK /\ LinksOK /\ CallsOK
IInv == TypeInv /\ AloneInv /\ RemovedInv /\ \A c \in Calls : CommandInv(c)

(* A command is given, or the user does something.                         *)
Given(c) ==
    \E op \in Commands, i \in Items, k, to \in Categories : Give(c, op, i, k, to)
ByUser ==
    \/ \E l \in Junctions : MakeJunction(l) \/ DeleteJunction(l)
    \/ \E p \in Pairs : EditMetadata(p)

(* The steps of a command, by the commands that take them.                 *)
LEMMA StepIs ==
    ASSUME NEW c \in Calls, Step(c)
    PROVE  \/ Op(c) \in {"add", "remove", "rename", "merge", "scan"} /\ (LoadManifest(c) \/ SaveManifest(c))
           \/ Op(c) \in {"add", "remove"} /\ (EditCategory(c) \/ RemoveLink(c))
           \/ Op(c) = "add" /\ (CreateLink(c) \/ DropUnmatched(c))
           \/ Op(c) = "create" /\ CreateCategoryDir(c)
           \/ RenameDir(c) \/ MergeDir(c)
           \/ Op(c) \in {"rename", "merge"} /\ Remap(c)
           \/ Op(c) \in {"rename", "merge", "scan"} /\ ListItems(c)
           \/ Op(c) = "scan" /\ (Refresh(c) \/ ScanDisk(c) \/ ReadTombstones(c) \/ Reconcile(c))
           \/ Op(c) \in AllCommands /\ Rebuild(c)
           \/ Pending(c) /\ Fails(c)
BY DEF Step, CreateCategory, AddItemCategory, RemoveItemCategory, RenameCategory,
       MergeCategory, RemapCategoryPrefix, ScanAndReconcile, AllCommands,
       EditConflict, LinkConflict, EditSteps, Pending

(* Setting parts of the copies of a command.                               *)
LEMMA LocalIs ==
    ASSUME local \in [Calls -> LocalType], NEW c \in Calls, NEW S \in SUBSET Pairs, NEW T \in SUBSET Pairs
    PROVE  /\ [local EXCEPT ![c].man = S] \in [Calls -> LocalType]
           /\ [local EXCEPT ![c].seenMeta = S] \in [Calls -> LocalType]
           /\ [local EXCEPT ![c].seenDisk = S] \in [Calls -> LocalType]
           /\ [local EXCEPT ![c].todo = S] \in [Calls -> LocalType]
           /\ [local EXCEPT ![c].seenTomb = S, ![c].todo = T] \in [Calls -> LocalType]
           /\ [local EXCEPT ![c].todo = S, ![c].man = T] \in [Calls -> LocalType]
<1>1. [local EXCEPT ![c].man = S] \in [Calls -> LocalType]
  BY DEF LocalType
<1>2. [local EXCEPT ![c].seenMeta = S] \in [Calls -> LocalType]
  BY DEF LocalType
<1>3. [local EXCEPT ![c].seenDisk = S] \in [Calls -> LocalType]
  BY DEF LocalType
<1>4. [local EXCEPT ![c].todo = S] \in [Calls -> LocalType]
  BY DEF LocalType
<1>5. [local EXCEPT ![c].seenTomb = S, ![c].todo = T] \in [Calls -> LocalType]
  BY DEF LocalType
<1>6. [local EXCEPT ![c].todo = S, ![c].man = T] \in [Calls -> LocalType]
  BY DEF LocalType
<1> QED
  BY <1>1, <1>2, <1>3, <1>4, <1>5, <1>6

(* What a command that is under way works on.                              *)
LEMMA WorkIs ==
    ASSUME IInv, NEW c \in Calls
    PROVE  /\ local[c].man \subseteq Pairs /\ local[c].seenMeta \subseteq Pairs
           /\ local[c].seenDisk \subseteq Pairs /\ local[c].seenTomb \subseteq Pairs
           /\ local[c].todo \subseteq Pairs
           /\ meta \subseteq Pairs /\ tomb \subseteq Pairs
           /\ links \subseteq Junctions /\ Disk \subseteq Pairs
           /\ manifest \subseteq Pairs /\ index \subseteq Pairs
           /\ local \in [Calls -> LocalType]
           /\ Pending(c) => /\ Target(c) \subseteq Pairs
                            /\ Default(c) \subseteq Pairs
                            /\ \A p \in Pairs : <<p[1], call[c].to>> \in Pairs
<1>1. local \in [Calls -> LocalType] /\ call \in [Calls -> CommandType] /\ CopiesOK /\ LinksOK
  BY DEF IInv, TypeInv, CallsOK
<1>0. Disk \subseteq Pairs
  BY <1>1 DEF LinksOK, Junctions, Disk
<1>2. /\ local[c].man \subseteq Pairs /\ local[c].seenMeta \subseteq Pairs
      /\ local[c].seenDisk \subseteq Pairs /\ local[c].seenTomb \subseteq Pairs
      /\ local[c].todo \subseteq Pairs
  BY <1>1 DEF LocalType
<1>3. Pending(c) => /\ Target(c) \subseteq Pairs /\ Default(c) \subseteq Pairs
                    /\ \A p \in Pairs : <<p[1], call[c].to>> \in Pairs
  BY <1>1, UnmatchedAssumption
     DEF IInv, TypeInv, CallsOK, Target, Default, Pairs, CommandType
<1> QED
  BY <1>0, <1>1, <1>2, <1>3 DEF CopiesOK, LinksOK

(* A junction under the name of its item.                                  *)
LEMMA OwnIs ==
    ASSUME NEW p \in Pairs
    PROVE  /\ Own(p) \in Junctions /\ Own(p)[1] = p
           /\ At(Own(p)) = <<p[2], DirName[p[1]]>>
           /\ \A q \in Pairs : At(Own(p)) = At(Own(q)) => p = q
BY NamesAssumption DEF Own, Junctions, Pairs, At

(* Removing the junctions that have the names of items.                    *)
LEMMA RemovesIs ==
    ASSUME LinksOK, evicted \subseteq Pairs, NEW gone \in SUBSET Pairs, Removes(gone)
    PROVE  /\ links' \subseteq links /\ hand' \subseteq links' /\ Disk' \subseteq Disk
           /\ evicted' \subseteq Pairs /\ evicted \subseteq evicted'
           /\ \A l \in links' : l[1] \in gone => Misnamed(l)
           /\ Disk \subseteq Disk' \cup evicted' \cup gone
           /\ \A l \in links \ links' : \E p \in gone : l[1][2] = p[2]
<1> DEFINE entries == UNION {AtOwnName(p) : p \in gone}
<1>1. /\ links' = links \ entries /\ hand' = hand \ entries
      /\ evicted' = evicted \cup ({l[1] : l \in entries} \ gone)
  BY DEF Removes
<1>2. \A l \in entries : l \in links /\ \E p \in gone : At(l) = At(Own(p))
  BY DEF AtOwnName
<1>3. \A l \in links : (\E p \in gone : At(l) = At(Own(p))) => l \in entries
  BY DEF AtOwnName
<1> HIDE DEF entries
<1>4. \A l \in links : l[1] \in Pairs
  BY DEF LinksOK, Junctions
<1>5. links' \subseteq links /\ hand' \subseteq links' /\ Disk' \subseteq Disk
  BY <1>1 DEF LinksOK, Disk
<1>6. evicted' \subseteq Pairs /\ evicted \subseteq evicted'
  BY <1>1, <1>2, <1>4
<1>7. ASSUME NEW l \in links', l[1] \in gone PROVE Misnamed(l)
  BY <1>1, <1>3, <1>7 DEF Misnamed
<1>8. ASSUME NEW p \in Disk PROVE p \in Disk' \cup evicted' \cup gone
  <2>1. PICK l \in links : p = l[1]
    BY DEF Disk
  <2> QED
    BY <1>1, <2>1 DEF Disk
<1>9. ASSUME NEW l \in links \ links' PROVE \E p \in gone : l[1][2] = p[2]
  <2>1. PICK p \in gone : At(l) = At(Own(p))
    BY <1>1, <1>2
  <2> QED
    BY <2>1, OwnIs DEF At
<1> QED
  BY <1>5, <1>6, <1>7, <1>8, <1>9

(* Reconciling is over, or goes through one more pair: one that junctions  *)
(* lack gets one, one that is no more in metadata loses the junction of    *)
(* its name, and one that is the user's goes into metadata.                *)
Through(c, p) ==
    /\ pc' = pc
    /\ local' = [local EXCEPT ![c].todo = @ \ {p},
                    ![c].man = IF Orphan(c, p) THEN @ \ {p} ELSE @ \cup {p}]
    /\ Orphan(c, p) => Removes({p})
    /\ Project(c, p) => links' = links \cup {Own(p)} /\ ~Blocked(p)
    /\ ~Orphan(c, p) /\ ~Project(c, p) => links' = links
    /\ ~Orphan(c, p) => hand' = hand /\ evicted' = evicted
    /\ dirs' = IF Project(c, p) THEN dirs \cup {p[2]} ELSE dirs
    /\ IF Adopt(c, p) THEN Edit({p}, {}, {}) ELSE UNCHANGED <<meta, tomb>>

LEMMA ReconcileIs ==
    ASSUME NEW c \in Calls, Reconcile(c)
    PROVE  \/ /\ local[c].todo = {} /\ Goto(c, "save")
              /\ UNCHANGED <<meta, tomb, links, dirs, local, hand, evicted>>
           \/ \E p \in local[c].todo : Through(c, p)
<1> SUFFICES ASSUME ~(/\ local[c].todo = {} /\ Goto(c, "save")
                      /\ UNCHANGED <<meta, tomb, links, dirs, local, hand, evicted>>)
             PROVE  \E p \in local[c].todo : Through(c, p)
  OBVIOUS
<1>1. PICK p \in local[c].todo :
          /\ Project(c, p) => ~Blocked(p)
          /\ local' = [local EXCEPT ![c].todo = @ \ {p},
                          ![c].man = IF Orphan(c, p) THEN @ \ {p} ELSE @ \cup {p}]
          /\ IF Orphan(c, p) THEN Removes({p})
             ELSE /\ links' = IF Project(c, p) THEN links \cup {Own(p)} ELSE links
                  /\ UNCHANGED <<hand, evicted>>
          /\ dirs' = IF Project(c, p) THEN dirs \cup {p[2]} ELSE dirs
          /\ IF Adopt(c, p) THEN Edit({p}, {}, {}) ELSE UNCHANGED <<meta, tomb>>
          /\ UNCHANGED pc
  BY DEF Reconcile
<1>2. ~(Orphan(c, p) /\ Project(c, p))
  BY DEF Orphan, Project
<1>3. Through(c, p)
  BY <1>1, <1>2, Zenon DEF Through
<1> QED
  BY <1>3

(* The copies of the commands keep their types.                            *)
LEMMA LocalStep ==
    ASSUME IInv, NEW c \in Calls, Step(c)
    PROVE  local' \in [Calls -> LocalType]
<1>1. CASE LoadManifest(c)
  BY <1>1, WorkIs, LocalIs DEF LoadManifest, IInv
<1>2. CASE CreateLink(c)
  <2>1. local[c].man \cup Target(c) \in SUBSET Pairs
    BY <1>2, WorkIs DEF CreateLink, Pending
  <2> QED
    BY <1>2, <2>1, WorkIs, LocalIs DEF CreateLink
<1>3. CASE RemoveLink(c)
  <2>1. PICK gone : local' = [local EXCEPT ![c].man = local[c].man \ gone]
    BY <1>3 DEF RemoveLink
  <2>2. local[c].man \ gone \in SUBSET Pairs
    BY WorkIs
  <2> QED
    BY <2>1, <2>2, WorkIs, LocalIs
<1>4. CASE ListItems(c)
  <2>1. index \cap In(call[c].cat) \in SUBSET Pairs
    BY WorkIs
  <2>2. index \in SUBSET Pairs
    BY WorkIs
  <2>3. \/ local' = [local EXCEPT ![c].seenMeta = index]
        \/ local' = [local EXCEPT ![c].todo = index \cap In(call[c].cat)]
    BY <1>4 DEF ListItems
  <2>4. /\ [local EXCEPT ![c].seenMeta = index] \in [Calls -> LocalType]
        /\ [local EXCEPT ![c].todo = index \cap In(call[c].cat)] \in [Calls -> LocalType]
    BY <2>1, <2>2, WorkIs, LocalIs
  <2> QED
    BY <2>3, <2>4
<1>5. CASE Remap(c)
  <2>1. CASE UNCHANGED local
    BY <2>1, WorkIs
  <2>2. ASSUME NEW p \in local[c].todo,
               local' = [local EXCEPT ![c].todo = @ \ {p},
                                      ![c].man = (@ \ {p}) \cup {<<p[1], call[c].to>>}]
        PROVE  local' \in [Calls -> LocalType]
    <3>1. <<p[1], call[c].to>> \in Pairs
      BY <1>5, WorkIs DEF Remap, Pending
    <3>2. local[c].todo \ {p} \in SUBSET Pairs
          /\ (local[c].man \ {p}) \cup {<<p[1], call[c].to>>} \in SUBSET Pairs
      BY <3>1, WorkIs
    <3> QED
      BY <2>2, <3>2, WorkIs, LocalIs
  <2> QED
    BY <1>5, <2>1, <2>2 DEF Remap
<1>6. CASE ScanDisk(c)
  BY <1>6, WorkIs, LocalIs DEF ScanDisk, IInv
<1>7. CASE ReadTombstones(c)
  BY <1>7, WorkIs, LocalIs DEF ReadTombstones, IInv
<1>8. CASE Reconcile(c)
  <2>1. CASE UNCHANGED local
    BY <2>1, WorkIs
  <2>2. ASSUME NEW p \in local[c].todo, Through(c, p)
        PROVE  local' \in [Calls -> LocalType]
    <3>1. local[c].todo \ {p} \in SUBSET Pairs
          /\ (IF Orphan(c, p) THEN local[c].man \ {p} ELSE local[c].man \cup {p}) \in SUBSET Pairs
      BY WorkIs
    <3> QED
      BY <2>2, <3>1, WorkIs, LocalIs DEF Through
  <2> QED
    BY <1>8, <2>1, <2>2, ReconcileIs
<1>9. CASE Rebuild(c)
  BY <1>9, WorkIs DEF Rebuild, NoLocal, LocalType
<1>10. CASE Fails(c)
  BY <1>10, WorkIs DEF Fails, NoLocal, LocalType
<1>11. CASE \/ EditCategory(c) \/ DropUnmatched(c) \/ SaveManifest(c)
            \/ CreateCategoryDir(c) \/ RenameDir(c) \/ MergeDir(c) \/ Refresh(c)
  BY <1>11
     DEF EditCategory, DropUnmatched, SaveManifest, CreateCategoryDir, RenameDir,
         MergeDir, Refresh, IInv, TypeInv, CallsOK
<1> QED
  BY <1>1, <1>2, <1>3, <1>4, <1>5, <1>6, <1>7, <1>8, <1>9, <1>10, <1>11, StepIs

(* The copies keep their types.                                            *)
LEMMA CopiesStep ==
    ASSUME IInv, NEW c \in Calls, Step(c)
    PROVE  CopiesOK'
<1>1. CASE EditCategory(c)
  <2>1. Target(c) \subseteq Pairs
    BY <1>1, WorkIs DEF EditCategory, Pending
  <2> QED
    BY <1>1, <2>1 DEF EditCategory, Edit, IInv, TypeInv, CopiesOK
<1>2. CASE DropUnmatched(c)
  BY <1>2 DEF DropUnmatched, Edit, IInv, TypeInv, CopiesOK
<1>3. CASE SaveManifest(c)
  BY <1>3, WorkIs DEF SaveManifest, IInv, TypeInv, CopiesOK
<1>4. CASE Rebuild(c)
  <2>1. Target(c) \subseteq Pairs
    BY <1>4, WorkIs DEF Rebuild, Pending
  <2> QED
    BY <1>4, <2>1 DEF Rebuild, IInv, TypeInv, CopiesOK
<1>5. CASE Remap(c)
  <2>1. \A p \in local[c].todo : <<p[1], call[c].to>> \in Pairs
    BY <1>5, WorkIs DEF Remap, Pending
  <2> QED
    BY <1>5, <2>1 DEF Remap, Edit, IInv, TypeInv, CopiesOK
<1>6. CASE Refresh(c)
  BY <1>6, WorkIs DEF Refresh, IInv, TypeInv, CopiesOK
<1>7. CASE Reconcile(c)
  <2>0. /\ UNCHANGED <<manifest, index, handEdits, removed>>
        /\ CopiesOK /\ LinksOK
    BY <1>7 DEF Reconcile, IInv, TypeInv
  <2>1. CASE UNCHANGED <<meta, tomb, evicted>>
    BY <2>0, <2>1 DEF CopiesOK
  <2>2. ASSUME NEW p \in local[c].todo, Through(c, p)
        PROVE  CopiesOK'
    <3>1. p \in Pairs
      BY WorkIs
    <3>2. evicted' \subseteq Pairs
      BY <2>0, <2>2, <3>1, RemovesIs DEF Through, CopiesOK
    <3>3. meta' \subseteq Pairs /\ tomb' \subseteq Pairs
      BY <2>0, <2>2, <3>1 DEF Through, Edit, CopiesOK
    <3> QED
      BY <2>0, <3>2, <3>3 DEF CopiesOK
  <2> QED
    BY <1>7, <2>1, <2>2, ReconcileIs
<1>9. CASE RemoveLink(c)
  <2>1. PICK gone \in SUBSET Pairs : Removes(gone)
    BY <1>9, WorkIs DEF RemoveLink, Pending
  <2> QED
    BY <1>9, <2>1, RemovesIs DEF RemoveLink, IInv, TypeInv, CopiesOK
<1>8. CASE \/ LoadManifest(c) \/ CreateLink(c)
           \/ CreateCategoryDir(c) \/ RenameDir(c) \/ MergeDir(c) \/ ListItems(c)
           \/ ScanDisk(c) \/ ReadTombstones(c) \/ Fails(c)
  BY <1>8
     DEF LoadManifest, CreateLink, CreateCategoryDir, RenameDir, MergeDir,
         ListItems, ScanDisk, ReadTombstones, Fails, lib, IInv, TypeInv, CopiesOK
<1> QED
  BY <1>1, <1>2, <1>3, <1>4, <1>5, <1>6, <1>7, <1>8, <1>9, StepIs

(* Junctions that have the names of their items, where those are free.     *)
LEMMA AddedIs ==
    ASSUME LinksOK, NEW S \in SUBSET Pairs, \A p \in S : ~Blocked(p),
           links' = links \cup {Own(p) : p \in S}, hand' = hand,
           dirs' = dirs \cup {p[2] : p \in S}
    PROVE  LinksOK'
<1>1. {Own(p) : p \in S} \subseteq Junctions
  BY OwnIs
<1>2. ASSUME NEW p \in S, NEW m \in links, At(m) = At(Own(p))
      PROVE  m = Own(p)
  BY <1>2 DEF Blocked, AtOwnName
<1>3. ASSUME NEW p \in S, NEW q \in S, At(Own(p)) = At(Own(q))
      PROVE  Own(p) = Own(q)
  BY <1>3, OwnIs
<1>4. ASSUME NEW l \in links', NEW m \in links', At(l) = At(m)
      PROVE  l = m
  BY <1>2, <1>3, <1>4 DEF LinksOK
<1>5. \A l \in links' : l[1][2] \in dirs'
  BY OwnIs DEF LinksOK
<1>6. dirs' \subseteq Categories
  BY DEF LinksOK, Pairs
<1> QED
  BY <1>1, <1>4, <1>5, <1>6 DEF LinksOK

(* Junctions that go to another category, where their names are free.      *)
LEMMA MovedIs ==
    ASSUME LinksOK, NEW c \in Calls, NEW S \in SUBSET links,
           call[c].to \in Categories, call[c].to # call[c].cat,
           \A l \in S : l[1][2] = call[c].cat =>
               \A m \in links : At(m) # <<call[c].to, l[2]>>
    PROVE  /\ Moved(c, S) \subseteq Junctions
           /\ \A q \in Moved(c, S) :
                  q[1][2] = call[c].to \/ (q \in links /\ q[1][2] # call[c].cat)
           /\ \A q, r \in Moved(c, S) \cup (links \ S) : At(q) = At(r) => q = r
<1> DEFINE Goes(l) == IF l[1][2] = call[c].cat THEN <<<<l[1][1], call[c].to>>, l[2]>> ELSE l
<1>1. Moved(c, S) = {Goes(l) : l \in S}
  BY DEF Moved
<1>2. ASSUME NEW l \in S
      PROVE  /\ Goes(l) \in Junctions
             /\ \/ /\ l[1][2] = call[c].cat /\ Goes(l)[1][2] = call[c].to
                   /\ At(Goes(l)) = <<call[c].to, l[2]>>
                \/ l[1][2] # call[c].cat /\ Goes(l) = l
  <2>1. l \in Junctions
    BY DEF LinksOK
  <2> QED
    BY <2>1 DEF Junctions, Pairs, At
<1>3. ASSUME NEW l \in S, NEW m \in S, At(Goes(l)) = At(Goes(m)) PROVE Goes(l) = Goes(m)
  <2>1. CASE l[1][2] = call[c].cat /\ m[1][2] = call[c].cat
    <3>1. l[2] = m[2]
      BY <1>2, <1>3, <2>1
    <3>2. l = m
      BY <2>1, <3>1 DEF At, LinksOK
    <3> QED
      BY <3>2
  <2>2. CASE l[1][2] # call[c].cat \/ m[1][2] # call[c].cat
    <3> HIDE DEF Goes
    <3> QED
      BY <1>2, <1>3, <2>2 DEF LinksOK
  <2> QED
    BY <2>1, <2>2
<1>4. ASSUME NEW l \in S, NEW m \in links \ S, At(Goes(l)) = At(m) PROVE FALSE
  <2> HIDE DEF Goes
  <2> QED
    BY <1>2, <1>4 DEF LinksOK
<1> HIDE DEF Goes
<1>5. ASSUME NEW q \in Moved(c, S) \cup (links \ S), NEW r \in Moved(c, S) \cup (links \ S),
             At(q) = At(r)
      PROVE  q = r
  <2>1. CASE q \in Moved(c, S) /\ r \in Moved(c, S)
    BY <1>1, <1>3, <1>5, <2>1
  <2>2. CASE q \in links \ S /\ r \in links \ S
    BY <1>5, <2>2 DEF LinksOK
  <2>3. CASE \/ q \in Moved(c, S) /\ r \in links \ S
             \/ r \in Moved(c, S) /\ q \in links \ S
    BY <1>1, <1>4, <1>5, <2>3
  <2> QED
    BY <2>1, <2>2, <2>3
<1> QED
  BY <1>1, <1>2, <1>5

(* The junctions keep to their directories, and their names apart.         *)
LEMMA LinksStep ==
    ASSUME IInv, NEW c \in Calls, Step(c)
    PROVE  LinksOK'
<1>0. LinksOK /\ evicted \subseteq Pairs
  BY DEF IInv, TypeInv, CopiesOK
<1>1. CASE CreateLink(c)
  <2>1. Target(c) \subseteq Pairs
    BY <1>1, WorkIs DEF CreateLink, Pending
  <2>2. CASE Target(c) # {}
    <3>1. dirs' = dirs \cup {p[2] : p \in Target(c)}
      BY <1>1, <2>2 DEF CreateLink, Target
    <3> QED
      BY <1>0, <1>1, <2>1, <3>1, AddedIs DEF CreateLink
  <2>3. CASE Target(c) = {}
    <3>1. call[c].cat \in Categories
      BY <1>1 DEF CreateLink, IInv, TypeInv, CallsOK, Pending
    <3>2. links' = links /\ hand' = hand /\ dirs' = dirs \cup {call[c].cat}
      BY <1>1, <2>3 DEF CreateLink
    <3> QED
      BY <1>0, <3>1, <3>2 DEF LinksOK
  <2> QED
    BY <2>2, <2>3
<1>2. CASE RemoveLink(c)
  <2>1. PICK gone \in SUBSET Pairs : Removes(gone)
    BY <1>2, WorkIs DEF RemoveLink, Pending
  <2>2. links' \subseteq links /\ hand' \subseteq links' /\ dirs' = dirs
    BY <1>0, <1>2, <2>1, RemovesIs DEF RemoveLink
  <2> QED
    BY <1>0, <2>2 DEF LinksOK
<1>3. CASE CreateCategoryDir(c)
  BY <1>3 DEF CreateCategoryDir, IInv, TypeInv, LinksOK, CallsOK, Pending
<1>4. CASE RenameDir(c)
  <2>1. CASE UNCHANGED <<links, dirs, hand>>
    BY <1>0, <2>1 DEF LinksOK
  <2>2. CASE /\ In(call[c].to) \cap Disk = {}
             /\ links' = Moved(c, links) /\ hand' = Moved(c, hand)
             /\ dirs' = (dirs \ {call[c].cat}) \cup {call[c].to}
    <3>1. call[c].to \in Categories /\ call[c].to # call[c].cat
      BY <1>4 DEF RenameDir, IInv, TypeInv, CallsOK, Pending
    <3>2. ASSUME NEW m \in links PROVE m[1][2] # call[c].to
      <4>1. m[1] \in Disk /\ m[1] \in Pairs
        BY <1>0 DEF Disk, LinksOK, Junctions
      <4> QED
        BY <2>2, <4>1 DEF In, Pairs
    <3>3. \A l \in links : \A m \in links : At(m) # <<call[c].to, l[2]>>
      BY <3>2 DEF At
    <3>4. /\ Moved(c, links) \subseteq Junctions
          /\ \A q \in Moved(c, links) :
                 q[1][2] = call[c].to \/ (q \in links /\ q[1][2] # call[c].cat)
          /\ \A q, r \in Moved(c, links) : At(q) = At(r) => q = r
      BY <1>0, <3>1, <3>3, MovedIs
    <3>5. Moved(c, hand) \subseteq Moved(c, links)
      BY <1>0 DEF Moved, LinksOK
    <3> QED
      BY <1>0, <2>2, <3>1, <3>4, <3>5 DEF LinksOK
  <2> QED
    BY <1>4, <2>1, <2>2 DEF RenameDir
<1>5. CASE MergeDir(c)
  <2>1. PICK stay : stay = {l \in links : /\ l[1][2] = call[c].cat
                                          /\ \E m \in links : At(m) = <<call[c].to, l[2]>>}
    OBVIOUS
  <2>0. /\ links' = Moved(c, links \ stay) \cup stay
        /\ hand' = Moved(c, hand \ stay) \cup (hand \cap stay)
        /\ dirs' = (dirs \cup {call[c].to}) \ (IF stay = {} THEN {call[c].cat} ELSE {})
    BY <1>5, <2>1 DEF MergeDir
  <2>2. call[c].to \in Categories /\ call[c].to # call[c].cat
    BY <1>5 DEF MergeDir, IInv, TypeInv, CallsOK, Pending
  <2>3. \A l \in links \ stay : l[1][2] = call[c].cat =>
            \A m \in links : At(m) # <<call[c].to, l[2]>>
    BY <2>1
  <2>4. links \ (links \ stay) = stay
    BY <2>1
  <2>5. /\ Moved(c, links \ stay) \subseteq Junctions
        /\ \A q \in Moved(c, links \ stay) :
               q[1][2] = call[c].to \/ (q \in links /\ q[1][2] # call[c].cat)
        /\ \A q, r \in Moved(c, links \ stay) \cup (links \ (links \ stay)) :
               At(q) = At(r) => q = r
    BY <1>0, <2>2, <2>3, MovedIs
  <2>6. \A q \in stay : q \in Junctions /\ q[1][2] \in dirs'
    BY <1>0, <2>0, <2>1 DEF LinksOK
  <2>7. Moved(c, hand \ stay) \subseteq Moved(c, links \ stay)
    BY <1>0 DEF Moved, LinksOK
  <2>8. \A q \in Moved(c, links \ stay) : q[1][2] \in dirs'
    BY <1>0, <2>0, <2>2, <2>5 DEF LinksOK
  <2>9. \A q, r \in links' : At(q) = At(r) => q = r
    BY <2>0, <2>4, <2>5
  <2>10. links' \subseteq Junctions /\ hand' \subseteq links' /\ \A l \in links' : l[1][2] \in dirs'
    BY <2>0, <2>5, <2>6, <2>7, <2>8
  <2>11. dirs' \subseteq Categories
    BY <1>0, <2>0, <2>2 DEF LinksOK
  <2> QED
    BY <2>9, <2>10, <2>11 DEF LinksOK
<1>6. CASE Reconcile(c)
  <2>1. CASE UNCHANGED <<links, dirs, hand>>
    BY <1>0, <2>1 DEF LinksOK
  <2>2. ASSUME NEW p \in local[c].todo, Through(c, p)
        PROVE  LinksOK'
    <3>1. p \in Pairs
      BY WorkIs
    <3>2. CASE Project(c, p)
      <4>1. ~Orphan(c, p)
        BY <3>2 DEF Project, Orphan
      <4>2. PICK S \in SUBSET Pairs : S = {p}
        BY <3>1
      <4>3. {Own(q) : q \in S} = {Own(p)} /\ {q[2] : q \in S} = {p[2]}
        BY <4>2
      <4>4. /\ links' = links \cup {Own(q) : q \in S} /\ hand' = hand
            /\ dirs' = dirs \cup {q[2] : q \in S} /\ \A q \in S : ~Blocked(q)
        BY <2>2, <3>2, <4>1, <4>2, <4>3 DEF Through
      <4> QED
        BY <1>0, <4>4, AddedIs
    <3>3. CASE Orphan(c, p)
      <4>1. ~Project(c, p) /\ Removes({p})
        BY <2>2, <3>3 DEF Project, Orphan, Through
      <4>2. links' \subseteq links /\ hand' \subseteq links' /\ dirs' = dirs
        BY <1>0, <2>2, <3>1, <4>1, RemovesIs DEF Through
      <4> QED
        BY <1>0, <4>2 DEF LinksOK
    <3>4. CASE ~Project(c, p) /\ ~Orphan(c, p)
      BY <1>0, <2>2, <3>4 DEF Through, LinksOK
    <3> QED
      BY <3>2, <3>3, <3>4
  <2> QED
    BY <1>6, <2>1, <2>2, ReconcileIs
<1>7. CASE \/ LoadManifest(c) \/ EditCategory(c) \/ DropUnmatched(c)
           \/ SaveManifest(c) \/ Rebuild(c) \/ ListItems(c) \/ Remap(c) \/ Refresh(c)
           \/ ScanDisk(c) \/ ReadTombstones(c) \/ Fails(c)
  BY <1>0, <1>7
     DEF LoadManifest, EditCategory, DropUnmatched, SaveManifest, Rebuild, ListItems,
         Remap, Refresh, ScanDisk, ReadTombstones, Fails, lib, LinksOK
<1> QED
  BY <1>1, <1>2, <1>3, <1>4, <1>5, <1>6, <1>7, StepIs

(* The commands keep their types.                                          *)
LEMMA CallsStep ==
    ASSUME IInv, NEW c \in Calls, Step(c)
    PROVE  CallsOK'
<1>1. CASE LoadManifest(c)
  BY <1>1, LocalStep
     DEF LoadManifest, Goto, IInv, TypeInv, CallsOK, Pending, Op, Places, CommandType
<1>2. CASE EditCategory(c)
  BY <1>2, LocalStep
     DEF EditCategory, Goto, IInv, TypeInv, CallsOK, Pending, Op, Places, CommandType
<1>3. CASE CreateLink(c)
  BY <1>3, LocalStep
     DEF CreateLink, Goto, IInv, TypeInv, CallsOK, Pending, Op, Places, CommandType
<1>4. CASE DropUnmatched(c)
  BY <1>4, LocalStep
     DEF DropUnmatched, Goto, IInv, TypeInv, CallsOK, Pending, Op, Places, CommandType
<1>5. CASE RemoveLink(c)
  BY <1>5, LocalStep
     DEF RemoveLink, Goto, IInv, TypeInv, CallsOK, Pending, Op, Places, CommandType
<1>6. CASE SaveManifest(c)
  BY <1>6, LocalStep
     DEF SaveManifest, Goto, IInv, TypeInv, CallsOK, Pending, Op, Places, CommandType
<1>7. CASE Rebuild(c)
  BY <1>7, LocalStep
     DEF Rebuild, Goto, IInv, TypeInv, CallsOK, Pending, Op, Places, NoCall, CommandType
<1>8. CASE CreateCategoryDir(c)
  BY <1>8, LocalStep
     DEF CreateCategoryDir, Goto, IInv, TypeInv, CallsOK, Pending, Op, Places, CommandType
<1>9. CASE RenameDir(c)
  BY <1>9, LocalStep
     DEF RenameDir, Goto, IInv, TypeInv, CallsOK, Pending, Op, Places, CommandType, Moved
<1>10. CASE MergeDir(c)
  BY <1>10, LocalStep
     DEF MergeDir, Goto, IInv, TypeInv, CallsOK, Pending, Op, Places, CommandType, Moved
<1>11. CASE ListItems(c)
  BY <1>11, LocalStep
     DEF ListItems, Goto, IInv, TypeInv, CallsOK, Pending, Op, Places, CommandType
<1>12. CASE Remap(c)
  BY <1>12, LocalStep
     DEF Remap, Goto, IInv, TypeInv, CallsOK, Pending, Op, Places, CommandType
<1>13. CASE Refresh(c)
  BY <1>13, LocalStep
     DEF Refresh, Goto, IInv, TypeInv, CallsOK, Pending, Op, Places, CommandType
<1>14. CASE ScanDisk(c)
  BY <1>14, LocalStep
     DEF ScanDisk, Goto, IInv, TypeInv, CallsOK, Pending, Op, Places, CommandType
<1>15. CASE ReadTombstones(c)
  BY <1>15, LocalStep
     DEF ReadTombstones, Goto, IInv, TypeInv, CallsOK, Pending, Op, Places, CommandType
<1>16. CASE Reconcile(c)
  <2>1. call' = call /\ pc[c] = "work" /\ (pc' = pc \/ Goto(c, "save"))
    BY <1>16, ReconcileIs DEF Reconcile, Through
  <2> QED
    BY <2>1, LocalStep
       DEF Goto, IInv, TypeInv, CallsOK, Pending, Op, Places, CommandType
<1>17. CASE Fails(c)
  BY <1>17, LocalStep
     DEF Fails, Goto, IInv, TypeInv, CallsOK, Pending, Op, Places, NoCall, CommandType
<1> QED
  BY <1>1, <1>2, <1>3, <1>4, <1>5, <1>6, <1>7, <1>8, <1>9, <1>10, <1>11, <1>12, <1>13, <1>14, <1>15, <1>16, <1>17, StepIs

(* A step of a command leaves the others where they are, and they are not alone. *)
LEMMA OthersStay ==
    ASSUME IInv, NEW c \in Calls, Step(c), NEW d \in Calls
    PROVE  /\ alone'[d] => alone[d] /\ d = c
           /\ d # c => pc'[d] = pc[d] /\ call'[d] = call[d] /\ local'[d] = local[d]
<1>1. CASE LoadManifest(c)
  BY <1>1 DEF LoadManifest, Disturb, Goto, IInv, TypeInv, CallsOK
<1>2. CASE EditCategory(c)
  BY <1>2 DEF EditCategory, Disturb, Goto, IInv, TypeInv, CallsOK
<1>3. CASE CreateLink(c)
  BY <1>3 DEF CreateLink, Disturb, Goto, IInv, TypeInv, CallsOK
<1>4. CASE DropUnmatched(c)
  BY <1>4 DEF DropUnmatched, Disturb, Goto, IInv, TypeInv, CallsOK
<1>5. CASE RemoveLink(c)
  BY <1>5 DEF RemoveLink, Disturb, Goto, IInv, TypeInv, CallsOK
<1>6. CASE SaveManifest(c)
  BY <1>6 DEF SaveManifest, Disturb, Goto, IInv, TypeInv, CallsOK
<1>7. CASE Rebuild(c)
  BY <1>7 DEF Rebuild, DisturbAll, Goto, IInv
<1>8. CASE CreateCategoryDir(c)
  BY <1>8 DEF CreateCategoryDir, Disturb, Goto, IInv, TypeInv, CallsOK
<1>9. CASE RenameDir(c)
  BY <1>9 DEF RenameDir, Disturb, Goto, IInv, TypeInv, CallsOK
<1>10. CASE MergeDir(c)
  BY <1>10 DEF MergeDir, Disturb, Goto, IInv, TypeInv, CallsOK
<1>11. CASE ListItems(c)
  BY <1>11 DEF ListItems, Disturb, Goto, IInv, TypeInv, CallsOK
<1>12. CASE Remap(c)
  BY <1>12 DEF Remap, Disturb, Goto, IInv, TypeInv, CallsOK
<1>13. CASE Refresh(c)
  BY <1>13 DEF Refresh, Disturb, Goto, IInv, TypeInv, CallsOK
<1>14. CASE ScanDisk(c)
  BY <1>14 DEF ScanDisk, Disturb, Goto, IInv, TypeInv, CallsOK
<1>15. CASE ReadTombstones(c)
  BY <1>15 DEF ReadTombstones, Disturb, Goto, IInv, TypeInv, CallsOK
<1>16. CASE Reconcile(c)
  <2>1. /\ call' = call /\ Disturb(c) /\ (pc' = pc \/ Goto(c, "save"))
        /\ d # c => local'[d] = local[d]
    BY <1>16, ReconcileIs DEF Reconcile, Through, IInv, TypeInv, CallsOK
  <2> QED
    BY <2>1 DEF Disturb, Goto, IInv, TypeInv, CallsOK
<1>17. CASE Fails(c)
  BY <1>17 DEF Fails, Disturb, Goto, IInv, TypeInv, CallsOK
<1> QED
  BY <1>1, <1>2, <1>3, <1>4, <1>5, <1>6, <1>7, <1>8, <1>9, <1>10, <1>11, <1>12, <1>13, <1>14, <1>15, <1>16, <1>17, StepIs

(* A step of a command leaves at most one alone.                           *)
LEMMA AloneStep ==
    ASSUME IInv, NEW c \in Calls, Step(c)
    PROVE  AloneInv'
<1> SUFFICES ASSUME NEW d \in Calls, NEW e \in Calls, alone'[d], Pending(e)'
             PROVE  d = e
  BY DEF AloneInv
<1>1. d = c /\ alone[c]
  BY OthersStay
<1>2. e # c => Pending(e)
  BY OthersStay DEF Pending
<1> QED
  BY <1>1, <1>2 DEF IInv, AloneInv

(* What was removed stays out of metadata and keeps its tombstone.         *)
LEMMA RemovedStep ==
    ASSUME IInv, NEW c \in Calls, Step(c)
    PROVE  RemovedInv'
<1>1. CASE \/ LoadManifest(c) \/ CreateLink(c) \/ RemoveLink(c) \/ SaveManifest(c)
           \/ CreateCategoryDir(c) \/ RenameDir(c) \/ MergeDir(c) \/ ListItems(c)
           \/ Refresh(c) \/ ScanDisk(c) \/ ReadTombstones(c) \/ Fails(c)
  BY <1>1
     DEF LoadManifest, CreateLink, RemoveLink, SaveManifest, CreateCategoryDir,
         RenameDir, MergeDir, ListItems, Refresh, ScanDisk, ReadTombstones, Fails,
         lib, IInv, RemovedInv
<1>2. CASE Op(c) \in {"add", "remove"} /\ EditCategory(c)
  BY <1>2 DEF EditCategory, Edit, Pending, IInv, RemovedInv, CommandInv
<1>3. CASE Op(c) = "add" /\ DropUnmatched(c)
  BY <1>3 DEF DropUnmatched, Edit, Pending, IInv, RemovedInv, CommandInv
<1>4. CASE Op(c) \in {"rename", "merge"} /\ Remap(c)
  <2>1. (In(call[c].cat) \cup In(call[c].to)) \cap removed = {} /\ local[c].todo \subseteq In(call[c].cat)
    BY <1>4 DEF Remap, Pending, IInv, CommandInv
  <2>2. CASE UNCHANGED <<meta, tomb>>
    BY <1>4, <2>2 DEF Remap, IInv, RemovedInv
  <2>3. ASSUME NEW p \in local[c].todo, Edit({<<p[1], call[c].to>>}, {}, {p})
        PROVE  RemovedInv'
    <3>1. p \notin removed /\ <<p[1], call[c].to>> \in In(call[c].to)
      BY <2>1 DEF In
    <3>2. <<p[1], call[c].to>> \notin removed
      BY <2>1, <3>1
    <3> QED
      BY <1>4, <2>3, <3>1, <3>2 DEF Remap, Edit, IInv, RemovedInv
  <2> QED
    BY <1>4, <2>2, <2>3 DEF Remap
<1>5. CASE Op(c) = "scan" /\ Reconcile(c)
  <2>1. removed \subseteq local[c].seenTomb
    BY <1>5 DEF Reconcile, Pending, IInv, CommandInv
  <2> QED
    BY <1>5, <2>1 DEF Reconcile, Adopt, Edit, IInv, RemovedInv
<1>6. CASE Rebuild(c)
  BY <1>6 DEF Rebuild, Pending, IInv, RemovedInv, CommandInv
<1> QED
  BY <1>1, <1>2, <1>3, <1>4, <1>5, <1>6, StepIs

(* A step of a command keeps what is said of that command.                 *)
LEMMA OwnStep ==
    ASSUME IInv, NEW c \in Calls, Step(c)
    PROVE  CommandInv(c)'
<1>0. CASE ~Pending(c)'
  BY <1>0 DEF CommandInv
<1>1. CASE LoadManifest(c)
  BY <1>1 DEF LoadManifest, Goto, Pending, Op, Target, Default, IInv, CommandInv
<1>2. CASE EditCategory(c)
  BY <1>2 DEF EditCategory, Goto, Pending, Op, Target, Default, Edit, IInv, CommandInv
<1>3. CASE Op(c) = "add" /\ CreateLink(c)
  <2>1. call' = call /\ removed' = removed /\ pc'[c] \in {"save", "drop"} /\ Pending(c)
    BY <1>3 DEF CreateLink, Goto, Pending, IInv, TypeInv, CallsOK
  <2>2. Op(c) \in {"add"}
    BY <1>3
  <2> QED
    BY <2>1, <2>2 DEF Op, Target, Default, IInv, CommandInv
<1>4. CASE Op(c) = "add" /\ DropUnmatched(c)
  <2>1. call' = call /\ removed' = removed /\ pc'[c] \in {"unlink"} /\ Pending(c)
    BY <1>4 DEF DropUnmatched, Goto, Pending, IInv, TypeInv, CallsOK
  <2>2. Op(c) \in {"add"}
    BY <1>4
  <2> QED
    BY <2>1, <2>2 DEF Op, Target, Default, IInv, CommandInv
<1>5. CASE RemoveLink(c)
  BY <1>5
     DEF RemoveLink, Goto, Disturb, Pending, Op, Target, Default, IInv, TypeInv, CallsOK,
         CommandInv
<1>6. CASE SaveManifest(c)
  BY <1>6
     DEF SaveManifest, Goto, Disturb, Pending, Op, Target, Default, IInv, TypeInv, CallsOK,
         CommandInv
<1>7. CASE Rebuild(c)
  BY <1>7 DEF Rebuild, Goto, Pending, IInv, TypeInv, CallsOK, CommandInv
<1>8. CASE Op(c) = "create" /\ CreateCategoryDir(c)
  <2>1. call' = call /\ removed' = removed /\ pc'[c] \in {"rebuild"} /\ Pending(c)
    BY <1>8 DEF CreateCategoryDir, Goto, Pending, IInv, TypeInv, CallsOK
  <2>2. Op(c) \in {"create"}
    BY <1>8
  <2> QED
    BY <2>1, <2>2 DEF Op, IInv, CommandInv
<1>9. CASE RenameDir(c)
  BY <1>9 DEF RenameDir, Goto, Pending, Op, IInv, TypeInv, CallsOK, CommandInv
<1>10. CASE MergeDir(c)
  BY <1>10 DEF MergeDir, Goto, Pending, Op, IInv, CommandInv
<1>11. CASE Op(c) \in {"rename", "merge", "scan"} /\ ListItems(c)
  <2>1. call' = call /\ removed' = removed /\ pc'[c] \in {"disk", "remap"} /\ Pending(c)
    BY <1>11 DEF ListItems, Goto, Pending, IInv, TypeInv, CallsOK
  <2>2. Op(c) \in {"rename", "merge", "scan"}
    BY <1>11
  <2>3. Op(c) # "scan" => local'[c].todo \subseteq In(call[c].cat)
    BY <1>11, WorkIs DEF ListItems, LocalType
  <2> QED
    BY <2>1, <2>2, <2>3 DEF Op, IInv, CommandInv
<1>12. CASE Op(c) \in {"rename", "merge"} /\ Remap(c)
  <2>1. call' = call /\ removed' = removed /\ pc'[c] \in {"save", "remap"} /\ Pending(c) /\ pc[c] = "remap"
    BY <1>12 DEF Remap, Goto, Pending, IInv, TypeInv, CallsOK
  <2>2. Op(c) \in {"rename", "merge"}
    BY <1>12
  <2>3. local'[c].todo \subseteq local[c].todo
    <3>1. CASE UNCHANGED local
      BY <3>1
    <3>2. ASSUME NEW p \in local[c].todo,
                 local' = [local EXCEPT ![c].todo = @ \ {p},
                                        ![c].man = (@ \ {p}) \cup {<<p[1], call[c].to>>}]
          PROVE  local'[c].todo \subseteq local[c].todo
      BY <3>2, WorkIs DEF LocalType
    <3> QED
      BY <1>12, <3>1, <3>2 DEF Remap
  <2> QED
    BY <2>1, <2>2, <2>3 DEF Op, IInv, CommandInv
<1>13. CASE Refresh(c)
  BY <1>13 DEF Refresh, Goto, Pending, Op, Target, Default, IInv, CommandInv
<1>14. CASE ScanDisk(c)
  BY <1>14 DEF ScanDisk, Goto, Pending, Op, Target, Default, IInv, CommandInv
<1>15. CASE ReadTombstones(c)
  BY <1>15
     DEF ReadTombstones, Goto, Pending, Op, Target, Default, IInv, TypeInv, CallsOK, RemovedInv,
         CommandInv
<1>16. CASE Op(c) = "scan" /\ Reconcile(c)
  <2>1. call' = call /\ removed' = removed /\ pc'[c] \in {"save", "work"} /\ Pending(c) /\ pc[c] = "work"
    BY <1>16 DEF Reconcile, Goto, Pending, IInv, TypeInv, CallsOK
  <2>2. Op(c) \in {"scan"}
    BY <1>16
  <2>3. local'[c].seenTomb = local[c].seenTomb
    <3>1. CASE UNCHANGED local
      BY <3>1
    <3>2. ASSUME NEW p \in local[c].todo, Through(c, p)
          PROVE  local'[c].seenTomb = local[c].seenTomb
      BY <3>2, WorkIs DEF Through, LocalType
    <3> QED
      BY <1>16, <3>1, <3>2, ReconcileIs
  <2> QED
    BY <2>1, <2>2, <2>3 DEF Op, IInv, CommandInv
<1>17. CASE Fails(c)
  BY <1>17 DEF Fails, Goto, Pending, IInv, TypeInv, CallsOK, CommandInv
<1> QED
  BY <1>0, <1>1, <1>2, <1>3, <1>4, <1>5, <1>6, <1>7, <1>8, <1>9, <1>10, <1>11, <1>12, <1>13, <1>14, <1>15, <1>16, <1>17, StepIs

(* A step of a command keeps what is said of the others.                   *)
LEMMA OthersStep ==
    ASSUME IInv, NEW c \in Calls, Step(c), NEW d \in Calls, d # c
    PROVE  CommandInv(d)'
<1>1. ~alone'[d] /\ pc'[d] = pc[d] /\ call'[d] = call[d] /\ local'[d] = local[d]
  BY OthersStay
<1>2. Pending(d) => removed' \subseteq removed
  <2>1. CASE Rebuild(c)
    BY <2>1 DEF Rebuild, IInv, AloneInv
  <2>2. CASE ~Rebuild(c)
    BY <2>2, StepIs
       DEF LoadManifest, EditCategory, CreateLink, DropUnmatched, RemoveLink,
           SaveManifest, CreateCategoryDir, RenameDir, MergeDir, ListItems, Remap, Refresh,
           ScanDisk, ReadTombstones, Reconcile, Fails
  <2> QED
    BY <2>1, <2>2
<1> QED
  BY <1>1, <1>2 DEF Pending, Op, Target, Default, IInv, CommandInv

(* A step of a command keeps the invariant.                                *)
LEMMA StepKeeps ==
    ASSUME IInv, NEW c \in Calls, Step(c)
    PROVE  IInv'
<1>1. \A d \in Calls : CommandInv(d)'
  BY OwnStep, OthersStep
<1> QED
  BY <1>1, CopiesStep, LinksStep, CallsStep, AloneStep, RemovedStep DEF IInv, TypeInv

(* Giving a command keeps the invariant.                                   *)
LEMMA GivenKeeps ==
    ASSUME IInv, NEW c \in Calls, Given(c)
    PROVE  IInv'
<1> PICK op \in Commands, i \in Items, k \in Categories, to \in Categories : Give(c, op, i, k, to)
  BY DEF Given
<1>1. op \in AllCommands
  BY CommandsAssumption
<1>2. CopiesOK' /\ LinksOK' /\ RemovedInv'
  BY DEF Give, lib, IInv, TypeInv, CopiesOK, LinksOK, RemovedInv
<1>3. [op |-> op, items |-> IF op \in {"add", "remove"} THEN {i} ELSE {}, cat |-> k, to |-> to]
          \in CommandType
  BY <1>1 DEF CommandType
<1>4. CallsOK'
  BY <1>1, <1>3 DEF Give, Goto, IInv, TypeInv, CallsOK, Pending, Op, Places
<1>5. AloneInv'
  BY DEF Give, Goto, IInv, TypeInv, CallsOK, Pending, AloneInv
<1>6. ASSUME NEW d \in Calls, d # c PROVE CommandInv(d)'
  BY <1>6 DEF Give, Goto, IInv, TypeInv, CallsOK, Pending, Op, Target, Default, CommandInv
<1>7. CommandInv(c)'
  BY <1>1 DEF Give, Goto, IInv, TypeInv, CallsOK, Op, Target, Default, In, CommandInv
<1> QED
  BY <1>2, <1>4, <1>5, <1>6, <1>7 DEF IInv, TypeInv

(* What the user does keeps the invariant.                                 *)
LEMMA UserKeeps ==
    ASSUME IInv, ByUser
    PROVE  IInv'
<1>0. /\ UNCHANGED <<tomb, manifest, index, call, pc, local>>
      /\ \A d \in Calls : ~alone'[d]
      /\ removed' \subseteq removed
      /\ handEdits' \in 0..MaxHandEdits
  BY HandEditsAssumption
     DEF ByUser, MakeJunction, DeleteJunction, EditMetadata, ByHand, DisturbAll, IInv,
         TypeInv, CopiesOK
<1>1. CopiesOK' /\ RemovedInv'
  BY <1>0
     DEF ByUser, MakeJunction, DeleteJunction, EditMetadata, ByHand, IInv, TypeInv, CopiesOK,
         RemovedInv
<1>2. LinksOK'
  <2>1. CASE \E l \in Junctions : MakeJunction(l)
    BY <2>1 DEF MakeJunction, Junctions, Pairs, IInv, TypeInv, LinksOK
  <2>2. CASE \E l \in Junctions : DeleteJunction(l)
    BY <2>2 DEF DeleteJunction, IInv, TypeInv, LinksOK
  <2>3. CASE \E p \in Pairs : EditMetadata(p)
    BY <2>3 DEF EditMetadata, IInv, TypeInv, LinksOK
  <2> QED
    BY <2>1, <2>2, <2>3 DEF ByUser
<1>3. CallsOK' /\ AloneInv'
  BY <1>0 DEF IInv, TypeInv, CallsOK, Pending, Op, AloneInv
<1>4. ASSUME NEW d \in Calls PROVE CommandInv(d)'
  BY <1>0 DEF IInv, Pending, Op, Target, Default, CommandInv
<1> QED
  BY <1>1, <1>2, <1>3, <1>4 DEF IInv, TypeInv

(* At first no command is under way.                                       *)
LEMMA InitIs ==
    ASSUME Init
    PROVE  IInv
<1>1. NoCall \in CommandType /\ NoLocal \in LocalType
  BY DEF NoCall, CommandType, NoLocal, LocalType
<1>2. CopiesOK
  BY HandEditsAssumption DEF Init, CopiesOK
<1>3. LinksOK
  <2>1. ASSUME NEW p \in meta PROVE p[2] \in dirs
    BY DEF Init, Pairs, In
  <2>2. PICK name \in [meta -> EntryNames] :
            /\ \A p, q \in meta : At(<<p, name[p]>>) = At(<<q, name[q]>>) => p = q
            /\ links = {<<p, name[p]>> : p \in meta}
    BY DEF Init
  <2>3. links \subseteq Junctions /\ \A l \in links : l[1][2] \in dirs
    BY <2>1, <2>2 DEF Init, Junctions
  <2>4. \A l, m \in links : At(l) = At(m) => l = m
    BY <2>2
  <2> QED
    BY <2>3, <2>4 DEF Init, LinksOK
<1>4. CallsOK
  BY <1>1 DEF Init, CallsOK, Pending, Places
<1> QED
  BY <1>2, <1>3, <1>4 DEF Init, IInv, TypeInv, AloneInv, RemovedInv, CommandInv

(* The pairs that the junctions have moved to.                             *)
MovedPairs(c, S) == {IF p[2] = call[c].cat THEN <<p[1], call[c].to>> ELSE p : p \in S}

LEMMA MovedDisk ==
    ASSUME NEW c \in Calls, links' = Moved(c, links)
    PROVE  Disk' = MovedPairs(c, Disk)
<1> DEFINE Goes(l) == IF l[1][2] = call[c].cat THEN <<<<l[1][1], call[c].to>>, l[2]>> ELSE l
           To(p) == IF p[2] = call[c].cat THEN <<p[1], call[c].to>> ELSE p
<1>1. \A l : Goes(l)[1] = To(l[1])
  OBVIOUS
<1>2. links' = {Goes(l) : l \in links}
  BY DEF Moved
<1>3. MovedPairs(c, Disk) = {To(p) : p \in Disk}
  BY DEF MovedPairs
<1> HIDE DEF Goes, To
<1> QED
  BY <1>1, <1>2, <1>3 DEF Disk

(* Junctions that are made under the names of their items.                 *)
LEMMA AddedDisk ==
    ASSUME NEW S \in SUBSET Pairs, links' = links \cup {Own(p) : p \in S}
    PROVE  Disk' = Disk \cup S
<1>1. \A p \in S : Own(p)[1] = p
  BY OwnIs
<1> QED
  BY <1>1 DEF Disk

(* The junctions stand for what metadata lists, as far as they have the    *)
(* names of their items.                                                   *)
Named ==
    /\ meta \subseteq Disk \cup evicted
    /\ \A l \in links : l[1] \in meta \/ Misnamed(l)

Gone(c) == IF Op(c) = "add" THEN Default(c) ELSE Target(c)

(* A command on copies in agreement, which nothing interleaves with: what  *)
(* is left to do when it files or unfiles items, ...                       *)
FileInv(c) ==
    clean[c] /\ Op(c) \in {"add", "remove", "create"} =>
       /\ pc[c] \in {"load", "edit", "mkdir"} => Agree
       /\ pc[c] = "edit" => meta \subseteq local[c].man
       /\ pc[c] = "link" => meta = Disk \cup Target(c) /\ Disk \subseteq local[c].man
       /\ pc[c] = "drop" => Disk = meta /\ meta \subseteq local[c].man /\ call[c].cat # Unmatched
       /\ pc[c] = "unlink" => /\ meta = Disk \ Gone(c)
                              /\ meta \subseteq local[c].man
                              /\ Op(c) = "add" => call[c].cat # Unmatched
       /\ pc[c] \in {"save", "rebuild"} => Named
       /\ pc[c] = "save" => meta \subseteq local[c].man
       /\ pc[c] = "rebuild" => meta \subseteq manifest
       /\ pc[c] = "rebuild" /\ Op(c) = "create" => Disk = meta
       /\ Op(c) = "add" =>
             /\ pc[c] \in {"drop", "unlink", "save", "rebuild"} => Target(c) \subseteq meta \cap Disk
             /\ pc[c] = "save" /\ call[c].cat # Unmatched => Default(c) \cap (meta \cup local[c].man) = {}
             /\ pc[c] = "rebuild" /\ call[c].cat # Unmatched => Default(c) \cap (meta \cup manifest) = {}

(* ... and when it renames or merges: the junctions are ahead by what is   *)
(* still to be remapped.                                                   *)
MoveInv(c) ==
    clean[c] /\ Op(c) \in {"rename", "merge"} =>
       /\ pc[c] = "move" => Agree
       /\ pc[c] \in {"load", "list", "remap"} => Disk = MovedPairs(c, meta)
       /\ pc[c] \in {"load", "list"} => index = meta
       /\ pc[c] = "load" => meta \subseteq manifest
       /\ pc[c] \in {"list", "remap", "save"} => meta \subseteq local[c].man
       /\ pc[c] = "remap" => local[c].todo = meta \cap In(call[c].cat)
       /\ pc[c] \in {"save", "rebuild"} => Disk = meta
       /\ pc[c] = "rebuild" => meta \subseteq manifest

(* A scan that nothing interleaves with has seen what there is; a pair it  *)
(* has been through agrees, but for a junction of another name, whose      *)
(* record is gone; one it has still to go through is as it saw it, but for *)
(* a junction that went with another pair's.                               *)
ScanInv(c) ==
    alone[c] /\ Op(c) = "scan" =>
       /\ pc[c] = "list" => index = meta
       /\ pc[c] \in {"disk", "load", "tombs"} => local[c].seenMeta = meta
       /\ pc[c] \in {"load", "tombs"} => local[c].seenDisk = Disk
       /\ pc[c] \in {"work", "save", "rebuild"} =>
             local[c].seenMeta \subseteq meta /\ Disk \ meta \subseteq local[c].seenDisk
       /\ pc[c] = "work" =>
             /\ local[c].todo \subseteq local[c].seenMeta \cup local[c].seenDisk
             /\ \A p \in local[c].todo :
                    /\ p \in meta <=> p \in local[c].seenMeta
                    /\ p \in local[c].seenDisk => p \in Disk \cup evicted
                    /\ p \in Disk => p \in local[c].seenDisk
             /\ \A p \in meta \ local[c].todo : p \in Disk \cup evicted /\ p \in local[c].man
             /\ \A l \in links : \/ l[1] \in local[c].todo \cup meta
                                 \/ Misnamed(l) /\ l[1] \notin local[c].man
       /\ pc[c] \in {"save", "rebuild"} => Named
       /\ pc[c] = "save" => meta \subseteq local[c].man /\ (Disk \ meta) \cap local[c].man = {}
       /\ pc[c] = "rebuild" => meta \subseteq manifest /\ (Disk \ meta) \cap manifest = {}

(* Only a command that is alone may be clean, and no scan is.              *)
CleanInv == \A c \in Calls : clean[c] => alone[c] /\ (Pending(c) => Op(c) # "scan")

AInv == CleanInv /\ \A c \in Calls : FileInv(c) /\ MoveInv(c) /\ ScanInv(c)

(* A command alone, or clean, after a step was so before, and is not over. *)
LEMMA AfterStep ==
    ASSUME IInv, AInv, NEW c \in Calls, Step(c)
    PROVE  /\ CleanInv'
           /\ \A d \in Calls : (clean'[d] => clean[d] /\ alone'[d]) /\ (alone'[d] => alone[d] /\ d = c)
           /\ Op(c)' # "none" => call'[c] = call[c] /\ ~Rebuild(c) /\ ~Fails(c)
<1>1. /\ \A d \in Calls : clean'[d] => clean[d] /\ alone'[d]
      /\ \/ UNCHANGED call
         \/ Op(c)' = "none"
  <2>1. CASE LoadManifest(c)
    BY <2>1 DEF LoadManifest, Disturb, IInv
  <2>2. CASE EditCategory(c)
    BY <2>2 DEF EditCategory, Disturb, IInv
  <2>3. CASE CreateLink(c)
    BY <2>3 DEF CreateLink, Disturb, IInv
  <2>4. CASE DropUnmatched(c)
    BY <2>4 DEF DropUnmatched, Disturb, IInv
  <2>5. CASE RemoveLink(c)
    BY <2>5 DEF RemoveLink, Disturb, IInv
  <2>6. CASE SaveManifest(c)
    BY <2>6 DEF SaveManifest, Disturb, IInv
  <2>7. CASE Rebuild(c)
    BY <2>7 DEF Rebuild, DisturbAll, NoCall, Op, IInv, TypeInv, CallsOK
  <2>8. CASE CreateCategoryDir(c)
    BY <2>8 DEF CreateCategoryDir, Disturb, IInv
  <2>9. CASE RenameDir(c)
    BY <2>9 DEF RenameDir, Disturb, IInv
  <2>10. CASE MergeDir(c)
    BY <2>10 DEF MergeDir, Disturb, IInv
  <2>11. CASE ListItems(c)
    BY <2>11 DEF ListItems, Disturb, IInv
  <2>12. CASE Remap(c)
    BY <2>12 DEF Remap, Disturb, IInv
  <2>13. CASE Refresh(c)
    BY <2>13 DEF Refresh, Disturb, IInv
  <2>14. CASE ScanDisk(c)
    BY <2>14 DEF ScanDisk, Disturb, IInv
  <2>15. CASE ReadTombstones(c)
    BY <2>15 DEF ReadTombstones, Disturb, IInv
  <2>16. CASE Reconcile(c)
    BY <2>16 DEF Reconcile, Disturb, IInv
  <2>17. CASE Fails(c)
    BY <2>17 DEF Fails, Disturb, NoCall, Op, IInv, TypeInv, CallsOK
  <2> QED
    BY <2>1, <2>2, <2>3, <2>4, <2>5, <2>6, <2>7, <2>8, <2>9, <2>10, <2>11, <2>12, <2>13, <2>14, <2>15, <2>16, <2>17, StepIs
<1>2. \A d \in Calls : alone'[d] => alone[d] /\ d = c
  BY OthersStay
<1>3. CleanInv'
  <2> SUFFICES ASSUME NEW d \in Calls, clean'[d]
               PROVE  alone'[d] /\ (Pending(d)' => Op(d)' # "scan")
    BY DEF CleanInv
  <2>1. Pending(c)
    BY StepIs
       DEF Pending, LoadManifest, EditCategory, CreateLink, DropUnmatched, RemoveLink,
           SaveManifest, Rebuild, CreateCategoryDir, RenameDir, MergeDir, ListItems, Remap,
           Refresh, ScanDisk, ReadTombstones, Reconcile, Fails, EditSteps
  <2> QED
    BY <1>1, <1>2, <2>1 DEF Op, AInv, CleanInv
<1>4. Rebuild(c) \/ Fails(c) => Op(c)' = "none"
  BY DEF Rebuild, Fails, NoCall, Op, IInv, TypeInv, CallsOK
<1> QED
  BY <1>1, <1>2, <1>3, <1>4

(* A step of a command that files or unfiles.                              *)
LEMMA FileStep ==
    ASSUME IInv, AInv, NEW c \in Calls, Step(c)
    PROVE  FileInv(c)'
<1> SUFFICES ASSUME clean'[c], Op(c)' \in {"add", "remove", "create"}
             PROVE  FileInv(c)'
  BY DEF FileInv
<1>0. /\ clean[c] /\ call'[c] = call[c] /\ Op(c) \in {"add", "remove", "create"}
      /\ ~Rebuild(c) /\ ~Fails(c) /\ FileInv(c)
  BY AfterStep DEF Op, AInv
<1>1. CASE Op(c) \in {"add", "remove"} /\ LoadManifest(c)
  <2>1. Op(c) \in {"add", "remove"} /\ Agree
    BY <1>1, <1>0 DEF LoadManifest, FileInv
  <2>2. pc'[c] = "edit" /\ UNCHANGED <<links, meta, manifest, index>>
    BY <1>1, <2>1 DEF LoadManifest, Goto, lib, IInv, TypeInv, CallsOK
  <2>3. local'[c].man = manifest
    BY <1>1, WorkIs DEF LoadManifest, LocalType
  <2>4. Agree' /\ meta' \subseteq local'[c].man
    BY <2>1, <2>2, <2>3 DEF Agree, Disk
  <2> QED
    BY <2>2, <2>4 DEF FileInv
<1>2. CASE Op(c) \in {"add", "remove"} /\ EditCategory(c)
  <2>1. Disk' = Disk /\ Disk = meta /\ meta \subseteq local[c].man /\ local' = local
    BY <1>2, <1>0 DEF EditCategory, Disk, Agree, FileInv
  <2>2. \/ Op(c) = "add" /\ pc'[c] = "link" /\ meta' = meta \cup Target(c)
        \/ Op(c) = "remove" /\ pc'[c] = "unlink" /\ meta' = meta \ Target(c)
    BY <1>2 DEF EditCategory, Goto, Edit, IInv, TypeInv, CallsOK
  <2> QED
    BY <1>0, <2>1, <2>2 DEF Op, Target, Default, Gone, FileInv
<1>3. CASE Op(c) = "add" /\ CreateLink(c)
  <2>1. /\ meta = Disk \cup Target(c) /\ Disk \subseteq local[c].man
        /\ meta' = meta /\ evicted' = evicted
    BY <1>3, <1>0 DEF CreateLink, FileInv
  <2>2. Disk' = Disk \cup Target(c)
    <3>1. Target(c) \subseteq Pairs
      BY <1>3, WorkIs DEF CreateLink, Pending
    <3> QED
      BY <1>3, <3>1, AddedDisk DEF CreateLink
  <2>3. local'[c].man = local[c].man \cup Target(c)
    BY <1>3, WorkIs DEF CreateLink, LocalType
  <2>4. pc'[c] = IF call[c].cat = Unmatched THEN "save" ELSE "drop"
    BY <1>3 DEF CreateLink, Goto, IInv, TypeInv, CallsOK
  <2>5. Disk' = meta' /\ meta' \subseteq local'[c].man /\ Target(c) \subseteq meta'
    BY <2>1, <2>2, <2>3
  <2>6. Named'
    BY <2>5 DEF Named, Disk
  <2> QED
    BY <1>0, <1>3, <2>4, <2>5, <2>6 DEF Op, Target, Default, FileInv
<1>4. CASE Op(c) = "add" /\ DropUnmatched(c)
  <2>1. /\ Op(c) = "add" /\ Disk = meta /\ meta \subseteq local[c].man
        /\ call[c].cat # Unmatched /\ Target(c) \subseteq meta
    BY <1>4, <1>0 DEF DropUnmatched, FileInv
  <2>2. meta' = meta \ Default(c) /\ UNCHANGED <<links, local>> /\ pc'[c] = "unlink"
    BY <1>4 DEF DropUnmatched, Edit, Goto, IInv, TypeInv, CallsOK
  <2>3. Target(c) \subseteq meta'
    BY <2>1, <2>2 DEF Target, Default
  <2>4. Disk' = Disk
    BY <2>2 DEF Disk
  <2>5. Gone(c) = Default(c)
    BY <2>1 DEF Gone
  <2> QED
    BY <1>0, <2>1, <2>2, <2>3, <2>4, <2>5 DEF Op, Target, Default, Gone, FileInv
<1>5. CASE Op(c) \in {"add", "remove"} /\ RemoveLink(c)
  <2>1. /\ meta = Disk \ Gone(c) /\ meta \subseteq local[c].man
        /\ Op(c) = "add" => call[c].cat # Unmatched /\ Target(c) \subseteq meta \cap Disk
    BY <1>5, <1>0 DEF RemoveLink, FileInv
  <2>2. Gone(c) \in SUBSET Pairs /\ Removes(Gone(c)) /\ meta' = meta
    BY <1>5, WorkIs DEF RemoveLink, Gone, Pending
  <2>3. local'[c].man = local[c].man \ Gone(c)
    BY <1>5, WorkIs DEF RemoveLink, Gone, LocalType
  <2>4. pc'[c] = "save"
    BY <1>5 DEF RemoveLink, Goto, IInv, TypeInv, CallsOK
  <2>5. /\ links' \subseteq links
        /\ \A l \in links' : l[1] \in Gone(c) => Misnamed(l)
        /\ Disk \subseteq Disk' \cup evicted' \cup Gone(c)
        /\ \A l \in links \ links' : \E p \in Gone(c) : l[1][2] = p[2]
    BY <2>2, RemovesIs DEF IInv, TypeInv, CopiesOK
  <2>6. Named'
    <3>1. meta' \subseteq Disk' \cup evicted'
      BY <2>1, <2>2, <2>5
    <3>2. ASSUME NEW l \in links' PROVE l[1] \in meta' \/ Misnamed(l)
      BY <2>1, <2>2, <2>5 DEF Disk
    <3> QED
      BY <3>1, <3>2 DEF Named, Misnamed, Own
  <2>7. meta' \subseteq local'[c].man
    BY <2>1, <2>2, <2>3
  <2>8. ASSUME Op(c) = "add"
        PROVE  /\ Target(c) \subseteq meta' \cap Disk'
               /\ Default(c) \cap (meta' \cup local'[c].man) = {}
    <3>1. Gone(c) = Default(c)
      BY <2>8 DEF Gone
    <3>2. ASSUME NEW p \in Target(c) PROVE p \in Disk'
      <4>1. p[2] # Unmatched /\ p \in Disk
        BY <2>1, <2>8 DEF Target
      <4>2. PICK l \in links : l[1] = p
        BY <4>1 DEF Disk
      <4>3. l \in links'
        BY <2>5, <3>1, <4>1, <4>2 DEF Default
      <4> QED
        BY <4>2, <4>3 DEF Disk
    <3> QED
      BY <2>1, <2>2, <2>3, <2>8, <3>1, <3>2
  <2>9. Op(c)' = Op(c) /\ Target(c)' = Target(c) /\ Default(c)' = Default(c)
    BY <1>0 DEF Op, Target, Default
  <2>10. Op(c)' = "add" => /\ Target(c)' \subseteq meta' \cap Disk'
                           /\ Default(c)' \cap (meta' \cup local'[c].man) = {}
    BY <2>8, <2>9
  <2> HIDE DEF Gone
  <2> QED
    BY <2>4, <2>6, <2>7, <2>10 DEF FileInv
<1>6. CASE Op(c) \in {"add", "remove"} /\ SaveManifest(c)
  <2>1. /\ Named /\ meta \subseteq local[c].man
        /\ Op(c) = "add" => Target(c) \subseteq meta \cap Disk
        /\ Op(c) = "add" /\ call[c].cat # Unmatched =>
              Default(c) \cap (meta \cup local[c].man) = {}
    BY <1>6, <1>0 DEF SaveManifest, FileInv
  <2>2. /\ UNCHANGED <<links, meta, evicted>> /\ manifest' = local[c].man
        /\ pc'[c] = "rebuild"
    BY <1>6 DEF SaveManifest, Goto, IInv, TypeInv, CallsOK
  <2>3. Disk' = Disk /\ Named'
    BY <2>1, <2>2 DEF Disk, Named
  <2>4. Op(c)' = Op(c) /\ Target(c)' = Target(c) /\ Default(c)' = Default(c) /\ Op(c) # "create"
    BY <1>0, <1>6 DEF Op, Target, Default
  <2>5. meta' \subseteq manifest'
    BY <2>1, <2>2
  <2>6. Op(c)' = "add" =>
          /\ Target(c)' \subseteq (meta \cap Disk)'
          /\ call'[c].cat # Unmatched => Default(c)' \cap (meta \cup manifest)' = {}
    BY <1>0, <2>1, <2>2, <2>3, <2>4
  <2> QED
    BY <2>2, <2>3, <2>4, <2>5, <2>6 DEF FileInv
<1>7. CASE Op(c) = "create" /\ CreateCategoryDir(c)
  <2>1. Agree /\ UNCHANGED <<links, meta, manifest, evicted>> /\ pc'[c] = "rebuild"
    BY <1>7, <1>0 DEF CreateCategoryDir, Goto, IInv, TypeInv, CallsOK, FileInv
  <2>2. Disk' = meta' /\ meta' \subseteq manifest' /\ Named'
    BY <2>1 DEF Agree, Disk, Named
  <2> QED
    BY <1>0, <1>7, <2>1, <2>2 DEF Op, FileInv
<1> QED
  BY <1>0, <1>1, <1>2, <1>3, <1>4, <1>5, <1>6, <1>7, StepIs DEF RenameDir, MergeDir

(* A step of a command that renames or merges.                             *)
LEMMA MoveStep ==
    ASSUME IInv, AInv, NEW c \in Calls, Step(c)
    PROVE  MoveInv(c)'
<1> SUFFICES ASSUME clean'[c], Op(c)' \in {"rename", "merge"}
             PROVE  MoveInv(c)'
  BY DEF MoveInv
<1>0. /\ clean[c] /\ call'[c] = call[c] /\ Op(c) \in {"rename", "merge"}
      /\ ~Rebuild(c) /\ ~Fails(c) /\ MoveInv(c)
  BY AfterStep DEF Op, AInv
<1>1. CASE RenameDir(c)
  <2>1. MovedPairs(c, meta)' = MovedPairs(c, meta)
    BY <1>1, <1>0 DEF RenameDir, MovedPairs
  <2>2. Disk = meta /\ index = meta /\ meta \subseteq manifest
    BY <1>1, <1>0 DEF RenameDir, Agree, MoveInv
  <2>3. pc'[c] # "failed" => pc'[c] = "load" /\ links' = Moved(c, links)
    BY <1>1 DEF RenameDir, Goto, IInv, TypeInv, CallsOK
  <2>4. pc'[c] # "failed" => Disk' = MovedPairs(c, Disk)
    BY <2>3, MovedDisk
  <2> QED
    BY <1>1, <2>1, <2>2, <2>3, <2>4 DEF RenameDir, MoveInv
<1>2. CASE MergeDir(c)
  <2>1. MovedPairs(c, meta)' = MovedPairs(c, meta)
    BY <1>2, <1>0 DEF MergeDir, MovedPairs
  <2>2. Disk = meta /\ index = meta /\ meta \subseteq manifest
    BY <1>2, <1>0 DEF MergeDir, Agree, MoveInv
  <2>3. pc'[c] # "failed" => pc'[c] = "load" /\ links' = Moved(c, links \ {}) \cup {}
    BY <1>2 DEF MergeDir, Goto, IInv, TypeInv, CallsOK
  <2>4. links \ {} = links /\ Moved(c, links) \cup {} = Moved(c, links)
    OBVIOUS
  <2>5. pc'[c] # "failed" => pc'[c] = "load" /\ links' = Moved(c, links)
    BY <2>3, <2>4
  <2>6. pc'[c] # "failed" => Disk' = MovedPairs(c, Disk)
    BY <2>5, MovedDisk
  <2> QED
    BY <1>2, <2>1, <2>2, <2>5, <2>6 DEF MergeDir, MoveInv
<1>3. CASE LoadManifest(c)
  <2>1. MovedPairs(c, meta)' = MovedPairs(c, meta)
    BY <1>3, <1>0 DEF LoadManifest, lib, MovedPairs
  <2>2. Disk = MovedPairs(c, meta) /\ index = meta /\ meta \subseteq manifest
    BY <1>3, <1>0 DEF LoadManifest, MoveInv
  <2>3. pc'[c] = "list" /\ local'[c].man = manifest
    BY <1>3, <1>0, WorkIs DEF LoadManifest, Goto, LocalType, IInv, TypeInv, CallsOK
  <2> QED
    BY <1>3, <2>1, <2>2, <2>3 DEF LoadManifest, lib, Disk, MoveInv
<1>4. CASE ListItems(c)
  <2>1. MovedPairs(c, meta)' = MovedPairs(c, meta)
    BY <1>4, <1>0 DEF ListItems, lib, MovedPairs
  <2>2. Disk = MovedPairs(c, meta) /\ index = meta /\ meta \subseteq local[c].man
    BY <1>4, <1>0 DEF ListItems, MoveInv
  <2>3. /\ pc'[c] = "remap" /\ local'[c].todo = index \cap In(call[c].cat)
        /\ local'[c].man = local[c].man
    BY <1>4, <1>0, WorkIs DEF ListItems, Goto, LocalType, IInv, TypeInv, CallsOK
  <2> QED
    BY <1>4, <1>0, <2>1, <2>2, <2>3 DEF ListItems, lib, Disk, MoveInv
<1>5. CASE Remap(c)
  <2>1. /\ Disk = MovedPairs(c, meta) /\ meta \subseteq local[c].man
        /\ local[c].todo = meta \cap In(call[c].cat) /\ Disk' = Disk
    BY <1>5, <1>0 DEF Remap, Disk, MoveInv
  <2>2. CASE local[c].todo = {} /\ Goto(c, "save") /\ UNCHANGED <<meta, tomb, local>>
    <3>1. \A p \in meta : p[2] # call[c].cat
      BY <2>1, <2>2, WorkIs DEF In, Pairs
    <3>2. MovedPairs(c, meta) = meta
      BY <3>1 DEF MovedPairs
    <3>3. pc'[c] = "save"
      BY <2>2 DEF Goto, IInv, TypeInv, CallsOK
    <3> QED
      BY <2>1, <2>2, <3>2, <3>3 DEF MoveInv
  <2>3. ASSUME NEW p \in local[c].todo, UNCHANGED pc,
               Edit({<<p[1], call[c].to>>}, {}, {p}),
               local' = [local EXCEPT ![c].todo = @ \ {p},
                                      ![c].man = (@ \ {p}) \cup {<<p[1], call[c].to>>}]
        PROVE  MoveInv(c)'
    <3> DEFINE q == <<p[1], call[c].to>>
    <3>0. Op(c) \in {"rename", "merge"} /\ pc[c] = "remap" /\ call[c].to # call[c].cat
      BY <1>5, <1>0 DEF Remap, Pending, IInv, TypeInv, CallsOK
    <3>1. p \in meta /\ p[2] = call[c].cat /\ q # p /\ q[2] = call[c].to
      BY <2>1, <3>0 DEF In
    <3>2. meta' = (meta \ {p}) \cup {q}
      BY <2>3, <3>1 DEF Edit
    <3>3. /\ local'[c].todo = local[c].todo \ {p}
          /\ local'[c].man = (local[c].man \ {p}) \cup {q}
      BY <2>3, WorkIs DEF LocalType
    <3>4. q \notin In(call[c].cat)
      BY <3>0 DEF In
    <3>5. MovedPairs(c, meta)' = {IF r[2] = call[c].cat THEN <<r[1], call[c].to>> ELSE r : r \in meta'}
      BY <1>0 DEF MovedPairs
    <3> HIDE DEF q
    <3>6. {IF r[2] = call[c].cat THEN <<r[1], call[c].to>> ELSE r : r \in meta'} = MovedPairs(c, meta)
      BY <3>0, <3>1, <3>2 DEF MovedPairs, q
    <3>7. Disk' = MovedPairs(c, meta)'
      BY <2>1, <3>5, <3>6
    <3>8. meta' \subseteq local'[c].man
      BY <2>1, <3>2, <3>3
    <3>9. In(call[c].cat)' = In(call[c].cat)
      BY <1>0 DEF In
    <3>10. local'[c].todo = meta' \cap In(call[c].cat)'
      BY <2>1, <3>2, <3>3, <3>4, <3>9
    <3>11. pc'[c] = "remap"
      BY <2>3, <3>0
    <3> QED
      BY <3>7, <3>8, <3>10, <3>11 DEF MoveInv
  <2> QED
    BY <1>5, <2>2, <2>3 DEF Remap
<1>6. CASE SaveManifest(c)
  BY <1>6, <1>0, WorkIs DEF SaveManifest, Goto, Disk, LocalType, IInv, MoveInv
<1> QED
  BY <1>0, <1>1, <1>2, <1>3, <1>4, <1>5, <1>6, StepIs

(* A step of a scan.                                                       *)
LEMMA ScanStep ==
    ASSUME IInv, AInv, NEW c \in Calls, Step(c)
    PROVE  ScanInv(c)'
<1> SUFFICES ASSUME alone'[c], Op(c)' \in {"scan"}
             PROVE  ScanInv(c)'
  BY DEF ScanInv
<1>0. /\ alone[c] /\ call'[c] = call[c] /\ Op(c) \in {"scan"}
      /\ ~Rebuild(c) /\ ~Fails(c) /\ ScanInv(c)
  BY AfterStep DEF Op, AInv
<1>1. CASE Refresh(c)
  BY <1>1, <1>0, WorkIs DEF Refresh, Goto, LocalType, IInv, TypeInv, CallsOK, ScanInv
<1>2. CASE ListItems(c)
  BY <1>2, <1>0, WorkIs
     DEF ListItems, Goto, lib, LocalType, IInv, TypeInv, CallsOK, ScanInv
<1>3. CASE ScanDisk(c)
  <2>1. local[c].seenMeta = meta /\ UNCHANGED <<meta, links>> /\ pc'[c] = "load"
    BY <1>3, <1>0 DEF ScanDisk, Goto, lib, IInv, TypeInv, CallsOK, ScanInv
  <2>2. local'[c].seenMeta = local[c].seenMeta /\ local'[c].seenDisk = Disk
    BY <1>3, WorkIs DEF ScanDisk, LocalType
  <2>3. Disk' = Disk
    BY <2>1 DEF Disk
  <2> QED
    BY <2>1, <2>2, <2>3 DEF ScanInv
<1>4. CASE LoadManifest(c)
  <2>1. /\ local[c].seenMeta = meta /\ local[c].seenDisk = Disk
        /\ UNCHANGED <<meta, links>> /\ pc'[c] = "tombs"
    BY <1>4, <1>0 DEF LoadManifest, Goto, lib, IInv, TypeInv, CallsOK, ScanInv
  <2>2. local'[c].seenMeta = local[c].seenMeta /\ local'[c].seenDisk = local[c].seenDisk
    BY <1>4, WorkIs DEF LoadManifest, LocalType
  <2>3. Disk' = Disk
    BY <2>1 DEF Disk
  <2> QED
    BY <2>1, <2>2, <2>3 DEF ScanInv
<1>5. CASE ReadTombstones(c)
  <2>1. /\ local[c].seenMeta = meta /\ local[c].seenDisk = Disk
        /\ UNCHANGED <<meta, links, evicted>> /\ pc'[c] = "work"
    BY <1>5, <1>0 DEF ReadTombstones, Goto, lib, IInv, TypeInv, CallsOK, ScanInv
  <2>2. /\ local'[c].seenMeta = local[c].seenMeta /\ local'[c].seenDisk = local[c].seenDisk
        /\ local'[c].todo = local[c].seenMeta \cup local[c].seenDisk
    BY <1>5, WorkIs DEF ReadTombstones, LocalType
  <2>3. Disk' = Disk /\ \A l \in links : l[1] \in Disk
    BY <2>1 DEF Disk
  <2> QED
    BY <2>1, <2>2, <2>3 DEF ScanInv
<1>6. CASE Reconcile(c)
  <2>0. /\ local[c].seenMeta \subseteq meta /\ Disk \ meta \subseteq local[c].seenDisk
        /\ local[c].todo \subseteq local[c].seenMeta \cup local[c].seenDisk
        /\ \A p \in local[c].todo :
               /\ p \in meta <=> p \in local[c].seenMeta
               /\ p \in local[c].seenDisk => p \in Disk \cup evicted
               /\ p \in Disk => p \in local[c].seenDisk
        /\ \A p \in meta \ local[c].todo : p \in Disk \cup evicted /\ p \in local[c].man
        /\ \A l \in links : \/ l[1] \in local[c].todo \cup meta
                            \/ Misnamed(l) /\ l[1] \notin local[c].man
    BY <1>6, <1>0 DEF Reconcile, ScanInv
  <2>1. CASE /\ local[c].todo = {} /\ Goto(c, "save")
             /\ UNCHANGED <<meta, links, local, evicted>>
    <3>1. pc'[c] = "save"
      BY <2>1 DEF Goto, IInv, TypeInv, CallsOK
    <3>2. Named /\ meta \subseteq local[c].man
      BY <2>0, <2>1 DEF Named
    <3>3. (Disk \ meta) \cap local[c].man = {}
      BY <2>0, <2>1 DEF Disk
    <3>4. Disk' = Disk /\ Named'
      BY <2>1, <3>2 DEF Disk, Named
    <3> QED
      BY <2>0, <2>1, <3>1, <3>2, <3>3, <3>4 DEF ScanInv
  <2>2. ASSUME NEW p \in local[c].todo, Through(c, p)
        PROVE  ScanInv(c)'
    <3>1. /\ local'[c].seenMeta = local[c].seenMeta /\ local'[c].seenDisk = local[c].seenDisk
          /\ local'[c].todo = local[c].todo \ {p}
          /\ local'[c].man = IF Orphan(c, p) THEN local[c].man \ {p} ELSE local[c].man \cup {p}
      BY <2>2, WorkIs DEF Through, LocalType
    <3>2. meta' = (IF Adopt(c, p) THEN meta \cup {p} ELSE meta) /\ pc'[c] = "work"
      BY <1>6, <2>2 DEF Through, Edit, Reconcile
    <3>3. p \in Pairs
      BY WorkIs
    <3>4. CASE Orphan(c, p)
      <4>1. meta' = meta /\ p \notin meta /\ ~Project(c, p)
        BY <2>0, <3>2, <3>4 DEF Orphan, Adopt, Project
      <4>2. /\ links' \subseteq links /\ Disk' \subseteq Disk /\ evicted \subseteq evicted'
            /\ \A l \in links' : l[1] = p => Misnamed(l)
            /\ Disk \subseteq Disk' \cup evicted' \cup {p}
        BY <2>2, <3>3, <3>4, RemovesIs DEF Through, IInv, TypeInv, CopiesOK
      <4>3. \A q \in Disk \cup evicted : q # p => q \in Disk' \cup evicted'
        BY <4>2
      <4>4. \A q \in local'[c].todo :
                /\ q \in meta' <=> q \in local[c].seenMeta
                /\ q \in local[c].seenDisk => q \in Disk' \cup evicted'
                /\ q \in Disk' => q \in local[c].seenDisk
        BY <2>0, <3>1, <4>1, <4>2, <4>3
      <4>5. \A q \in meta' \ local'[c].todo : q \in Disk' \cup evicted' /\ q \in local'[c].man
        BY <2>0, <3>1, <3>4, <4>1, <4>3
      <4>6. \A l \in links' : \/ l[1] \in local'[c].todo \cup meta'
                              \/ Misnamed(l) /\ l[1] \notin local'[c].man
        BY <2>0, <3>1, <3>4, <4>1, <4>2
      <4>7. Disk' \ meta' \subseteq local[c].seenDisk
        BY <2>0, <4>1, <4>2
      <4> QED
        BY <2>0, <3>1, <3>2, <4>1, <4>4, <4>5, <4>6, <4>7 DEF ScanInv, Misnamed, Own
    <3>5. CASE ~Orphan(c, p)
      <4>1. /\ local'[c].man = local[c].man \cup {p} /\ evicted' = evicted
            /\ meta' = meta \cup {p}
        BY <2>0, <2>2, <3>1, <3>2, <3>5 DEF Orphan, Adopt, Through
      <4>2. /\ Disk \subseteq Disk' /\ Disk' \subseteq Disk \cup {p} /\ p \in Disk' \cup evicted
            /\ \A l \in links' : l \in links \/ l[1] = p
        <5>1. CASE Project(c, p)
          <6>1. links' = links \cup {Own(p)} /\ Own(p)[1] = p
            BY <2>2, <3>3, <5>1, OwnIs DEF Through
          <6> QED
            BY <6>1 DEF Disk
        <5>2. CASE ~Project(c, p)
          <6>1. links' = links /\ p \in local[c].seenDisk
            BY <2>0, <2>2, <3>5, <5>2 DEF Through, Project
          <6>2. Disk' = Disk /\ p \in Disk \cup evicted
            BY <2>0, <6>1 DEF Disk
          <6> QED
            BY <6>1, <6>2
        <5> QED
          BY <5>1, <5>2
      <4>3. \A q \in local'[c].todo :
                /\ q \in meta' <=> q \in local[c].seenMeta
                /\ q \in local[c].seenDisk => q \in Disk' \cup evicted'
                /\ q \in Disk' => q \in local[c].seenDisk
        BY <2>0, <3>1, <4>1, <4>2
      <4>4. \A q \in meta' \ local'[c].todo : q \in Disk' \cup evicted' /\ q \in local'[c].man
        BY <2>0, <3>1, <4>1, <4>2
      <4>5. \A l \in links' : \/ l[1] \in local'[c].todo \cup meta'
                              \/ Misnamed(l) /\ l[1] \notin local'[c].man
        BY <2>0, <3>1, <4>1, <4>2
      <4>6. Disk' \ meta' \subseteq local[c].seenDisk
        BY <2>0, <4>1, <4>2
      <4>7. local[c].seenMeta \subseteq meta'
        BY <2>0, <4>1
      <4> QED
        BY <2>0, <3>1, <3>2, <4>3, <4>4, <4>5, <4>6, <4>7 DEF ScanInv, Misnamed, Own
    <3> QED
      BY <3>4, <3>5
  <2> QED
    BY <1>6, <2>1, <2>2, ReconcileIs
<1>7. CASE SaveManifest(c)
  <2>1. /\ Named /\ meta \subseteq local[c].man /\ (Disk \ meta) \cap local[c].man = {}
        /\ local[c].seenMeta \subseteq meta /\ Disk \ meta \subseteq local[c].seenDisk
    BY <1>7, <1>0 DEF SaveManifest, ScanInv
  <2>2. /\ UNCHANGED <<meta, links, evicted, local>> /\ manifest' = local[c].man
        /\ pc'[c] = "rebuild"
    BY <1>7 DEF SaveManifest, Goto, IInv, TypeInv, CallsOK
  <2>3. Disk' = Disk /\ Named'
    BY <2>1, <2>2 DEF Disk, Named
  <2> QED
    BY <2>1, <2>2, <2>3 DEF ScanInv
<1> QED
  BY <1>0, <1>1, <1>2, <1>3, <1>4, <1>5, <1>6, <1>7, StepIs DEF RenameDir, MergeDir

(* A step of a command keeps what is said of undisturbed commands.         *)
LEMMA AgreementKeeps ==
    ASSUME IInv, AInv, NEW c \in Calls, Step(c)
    PROVE  AInv'
<1>1. ASSUME NEW d \in Calls PROVE FileInv(d)' /\ MoveInv(d)' /\ ScanInv(d)'
  <2>1. CASE d = c
    BY <2>1, FileStep, MoveStep, ScanStep
  <2>2. CASE d # c
    <3>1. ~alone'[d] /\ ~clean'[d]
      BY <2>2, AfterStep
    <3> QED
      BY <3>1 DEF FileInv, MoveInv, ScanInv
  <2> QED
    BY <2>1, <2>2
<1> QED
  BY <1>1, AfterStep DEF AInv

(* A command that is given finds the copies as the last one left them.     *)
LEMMA AgreementGiven ==
    ASSUME IInv, AInv, NEW c \in Calls, Given(c)
    PROVE  AInv'
<1> PICK op \in Commands, i \in Items, k \in Categories, to \in Categories : Give(c, op, i, k, to)
  BY DEF Given
<1>1. op \in AllCommands
  BY CommandsAssumption
<1>2. \A d \in Calls : d # c => ~alone'[d] /\ ~clean'[d]
  BY DEF Give
<1>3. /\ Op(c)' = op
      /\ pc'[c] = IF op = "scan" THEN "refresh"
                  ELSE IF op \in {"rename", "merge"} THEN "move"
                  ELSE IF op = "create" THEN "mkdir" ELSE "load"
      /\ clean'[c] => Agree /\ alone'[c] /\ op # "scan"
      /\ UNCHANGED <<links, meta, manifest, index>>
      /\ Disk' = Disk
  BY DEF Give, Goto, Op, lib, Disk, IInv, TypeInv, CallsOK
<1>4. CleanInv'
  BY <1>2, <1>3 DEF CleanInv
<1>5. ASSUME NEW d \in Calls, d # c PROVE FileInv(d)' /\ MoveInv(d)' /\ ScanInv(d)'
  BY <1>2, <1>5 DEF FileInv, MoveInv, ScanInv
<1>6. FileInv(c)' /\ MoveInv(c)' /\ ScanInv(c)'
  BY <1>1, <1>3 DEF AllCommands, Agree, FileInv, MoveInv, ScanInv
<1> QED
  BY <1>4, <1>5, <1>6 DEF AInv

(* After the user did something by hand no command is undisturbed.         *)
LEMMA AgreementLeft ==
    ASSUME ByUser
    PROVE  AInv'
<1>1. \A d \in Calls : ~alone'[d] /\ ~clean'[d]
  BY DEF ByUser, MakeJunction, DeleteJunction, EditMetadata, ByHand, DisturbAll
<1> QED
  BY <1>1 DEF AInv, CleanInv, FileInv, MoveInv, ScanInv

(* The inductive invariant.                                                *)
LEMMA Invariance == Spec => [](IInv /\ AInv)
<1>1. Init => IInv /\ AInv
  BY InitIs DEF Init, AInv, CleanInv, FileInv, MoveInv, ScanInv
<1>2. IInv /\ AInv /\ [Next]_vars => IInv' /\ AInv'
  <2> SUFFICES ASSUME IInv, AInv, [Next]_vars PROVE IInv' /\ AInv'
    OBVIOUS
  <2>1. CASE UNCHANGED vars
    BY <2>1
       DEF vars, lib, hist, IInv, TypeInv, CopiesOK, LinksOK, CallsOK, AloneInv, RemovedInv,
           CommandInv, Pending, Op, Target, Default,
            AInv, CleanInv, FileInv, MoveInv, ScanInv, Agree, Disk, Named, Gone, MovedPairs
  <2>2. ASSUME NEW c \in Calls, Given(c) \/ Step(c) PROVE IInv' /\ AInv'
    BY <2>2, GivenKeeps, StepKeeps, AgreementGiven, AgreementKeeps
  <2>3. CASE ByUser
    BY <2>3, UserKeeps, AgreementLeft
  <2> QED
    BY <2>1, <2>2, <2>3 DEF Next, Given, ByUser
<1> QED
  BY <1>1, <1>2, PTL DEF Spec

(* Type correctness of the membership in categories: in particular every   *)
(* junction is in a category directory that exists, and the junctions the  *)
(* user made are among the junctions, whatever commands, scans and edits   *)
(* by hand meet.                                                           *)
THEOREM TypeCorrect == Spec => []TypeOK
<1>1. IInv => TypeOK
  BY DEF IInv, TypeInv, CopiesOK, LinksOK, CallsOK, TypeOK
<1> QED
  BY <1>1, Invariance, PTL

(* RemovalSticks for any items, categories and commands: what a removal by *)
(* command, undisturbed, took out of a category is in no metadata until it *)
(* is filed again by command or by hand; no scan, whatever it meets,       *)
(* adopts a junction of it.                                                *)
THEOREM RemovalsStick == Spec => []RemovalSticks
<1>1. IInv => RemovalSticks
  BY DEF IInv, RemovedInv, RemovalSticks
<1> QED
  BY <1>1, Invariance, PTL

(* A command finishes by its last step.                                    *)
LEMMA FinishIs ==
    ASSUME IInv, [Next]_vars, NEW c \in Calls, Finishes(c)
    PROVE  Rebuild(c) /\ Op(c) \in AllCommands
<1>1. ~UNCHANGED vars
  BY DEF vars, Finishes
<1>2. ASSUME NEW d \in Calls, Given(d) PROVE FALSE
  BY <1>2 DEF Given, Give, Goto, Finishes, IInv
<1>3. ~ByUser
  BY DEF ByUser, MakeJunction, DeleteJunction, EditMetadata, ByHand, Finishes
<1>4. PICK d \in Calls : Step(d)
  BY <1>1, <1>2, <1>3 DEF Next, Given, ByUser
<1>5. d = c
  BY <1>4, OthersStay DEF Finishes
<1>6. pc[c] # "done" /\ pc'[c] = "done"
  BY DEF Finishes
<1>7. ~LoadManifest(c)
  BY <1>6 DEF LoadManifest, Goto, IInv, TypeInv, CallsOK
<1>8. ~EditCategory(c)
  BY <1>6 DEF EditCategory, Goto, IInv, TypeInv, CallsOK
<1>9. ~CreateLink(c)
  BY <1>6 DEF CreateLink, Goto, IInv, TypeInv, CallsOK
<1>10. ~DropUnmatched(c)
  BY <1>6 DEF DropUnmatched, Goto, IInv, TypeInv, CallsOK
<1>11. ~RemoveLink(c)
  BY <1>6 DEF RemoveLink, Goto, IInv, TypeInv, CallsOK
<1>12. ~SaveManifest(c)
  BY <1>6 DEF SaveManifest, Goto, IInv, TypeInv, CallsOK
<1>13. ~CreateCategoryDir(c)
  BY <1>6 DEF CreateCategoryDir, Goto, IInv, TypeInv, CallsOK
<1>14. ~RenameDir(c)
  BY <1>6 DEF RenameDir, Goto, IInv, TypeInv, CallsOK
<1>15. ~MergeDir(c)
  BY <1>6 DEF MergeDir, Goto, IInv, TypeInv, CallsOK
<1>16. ~ListItems(c)
  BY <1>6 DEF ListItems, Goto, IInv, TypeInv, CallsOK
<1>17. ~Remap(c)
  BY <1>6 DEF Remap, Goto, IInv, TypeInv, CallsOK
<1>18. ~Refresh(c)
  BY <1>6 DEF Refresh, Goto, IInv, TypeInv, CallsOK
<1>19. ~ScanDisk(c)
  BY <1>6 DEF ScanDisk, Goto, IInv, TypeInv, CallsOK
<1>20. ~ReadTombstones(c)
  BY <1>6 DEF ReadTombstones, Goto, IInv, TypeInv, CallsOK
<1>21. ~Reconcile(c)
  BY <1>6 DEF Reconcile, Goto, IInv, TypeInv, CallsOK
<1>22. ~Fails(c)
  BY <1>6 DEF Fails, Goto, IInv, TypeInv, CallsOK
<1> QED
  BY <1>4, <1>5, <1>7, <1>8, <1>9, <1>10, <1>11, <1>12, <1>13, <1>14, <1>15, <1>16, <1>17, <1>18, <1>19, <1>20, <1>21, <1>22, StepIs

(* What the copies come to once the index is rebuilt.                      *)
LEMMA RebuiltIs ==
    ASSUME NEW c \in Calls, Rebuild(c), Named, meta \subseteq manifest
    PROVE  AgreeByName' /\ (Disk = meta => Agree')
<1>1. index' = meta /\ UNCHANGED <<meta, links, manifest, evicted>>
  BY DEF Rebuild
<1>2. Disk' = Disk
  BY <1>1 DEF Disk
<1>3. Disk = meta => Agree'
  BY <1>1, <1>2 DEF Agree
<1>4. \A l \in links' : l[1] \in meta' \/ Misnamed(l)
  BY <1>1 DEF Named
<1>5. AgreeByName'
  BY <1>1, <1>2, <1>4 DEF AgreeByName, Named, Misnamed, Own
<1> QED
  BY <1>3, <1>5

(* CommandsKeepAgreement for any items, categories, names and commands: a  *)
(* command that succeeds with nothing in between, on copies that agree,    *)
(* leaves metadata, manifest and index in agreement, and every junction    *)
(* that has the name of its item with them; renames, merges and creations  *)
(* leave all in agreement, whatever the names.                             *)
THEOREM CommandsAgree == Spec => CommandsKeepAgreement
<1>1. IInv /\ AInv /\ [Next]_vars =>
        [\A c \in Calls : Finishes(c) /\ clean[c] =>
            /\ AgreeByName'
            /\ Op(c) \in {"rename", "merge", "create"} => Agree']_vars
  <2> SUFFICES ASSUME IInv, AInv, [Next]_vars, NEW c \in Calls, Finishes(c), clean[c]
               PROVE  /\ AgreeByName'
                      /\ Op(c) \in {"rename", "merge", "create"} => Agree'
    OBVIOUS
  <2>1. Rebuild(c) /\ Op(c) \in AllCommands
    BY FinishIs
  <2>2. pc[c] = "rebuild" /\ Pending(c) /\ Op(c) # "scan"
    BY <2>1 DEF Rebuild, Pending, AInv, CleanInv
  <2>3. CASE Op(c) \in {"add", "remove", "create"}
    <3>1. Named /\ meta \subseteq manifest /\ (Op(c) = "create" => Disk = meta)
      BY <2>2, <2>3 DEF AInv, FileInv
    <3> QED
      BY <2>1, <2>3, <3>1, RebuiltIs
  <2>4. CASE Op(c) \in {"rename", "merge"}
    <3>1. Disk = meta /\ meta \subseteq manifest
      BY <2>2, <2>4 DEF AInv, MoveInv
    <3>2. Named
      BY <3>1 DEF Named, Disk
    <3> QED
      BY <2>1, <3>1, <3>2, RebuiltIs
  <2> QED
    BY <2>1, <2>2, <2>3, <2>4 DEF AllCommands
<1> QED
  BY <1>1, Invariance, PTL DEF Spec, CommandsKeepAgreement

(* FilingLeavesUnmatched for any items, categories, names and commands:    *)
(* filing an item under a real category, undisturbed, takes it out of      *)
(* "unmatched" in metadata, manifest and index, and leaves it there by no  *)
(* junction but one of another name; and it is filed in all of them.       *)
THEOREM FilingLeaves == Spec => FilingLeavesUnmatched
<1>1. IInv /\ AInv /\ [Next]_vars =>
        [\A c \in Calls : Op(c) = "add" /\ Finishes(c) /\ clean[c] =>
            /\ Target(c) \subseteq meta' \cap Disk' \cap manifest'
            /\ call[c].cat # Unmatched =>
                  /\ Default(c) \cap (meta' \cup manifest' \cup index') = {}
                  /\ \A l \in links' : l[1] \in Default(c) => Misnamed(l)]_vars
  <2> SUFFICES ASSUME IInv, AInv, [Next]_vars, NEW c \in Calls,
                      Op(c) = "add", Finishes(c), clean[c]
               PROVE  /\ Target(c) \subseteq meta' \cap Disk' \cap manifest'
                      /\ call[c].cat # Unmatched =>
                            /\ Default(c) \cap (meta' \cup manifest' \cup index') = {}
                            /\ \A l \in links' : l[1] \in Default(c) => Misnamed(l)
    OBVIOUS
  <2>1. Rebuild(c)
    BY FinishIs
  <2>2. /\ Named /\ meta \subseteq manifest /\ Target(c) \subseteq meta \cap Disk
        /\ call[c].cat # Unmatched => Default(c) \cap (meta \cup manifest) = {}
    BY <2>1 DEF Rebuild, AInv, FileInv
  <2>3. links' = links /\ meta' = meta /\ manifest' = manifest /\ index' = meta
    BY <2>1 DEF Rebuild
  <2>4. Disk' = Disk
    BY <2>3 DEF Disk
  <2>5. ASSUME call[c].cat # Unmatched, NEW l \in links', l[1] \in Default(c)
        PROVE  Misnamed(l)
    BY <2>2, <2>3, <2>5 DEF Named
  <2> QED
    BY <2>2, <2>3, <2>4, <2>5
<1> QED
  BY <1>1, Invariance, PTL DEF Spec, FilingLeavesUnmatched

(* ScanConverges for any items, categories and names: a scan that nothing  *)
(* interleaves with leaves metadata, manifest and index in agreement, and  *)
(* the junctions with them as far as they have the names of their items,   *)
(* from whatever failed commands and edits by hand left, and unfiles       *)
(* nothing that metadata listed when it began; a junction that stays       *)
(* though metadata lacks its pair was there, and has no record any more.   *)
THEOREM ScansConverge == Spec => ScanConverges
<1>1. IInv /\ AInv /\ [Next]_vars =>
        [\A c \in Calls : Op(c) = "scan" /\ Finishes(c) /\ alone[c] =>
            /\ AgreeByName'
            /\ local[c].seenMeta \subseteq meta'
            /\ Disk' \ meta' \subseteq local[c].seenDisk \ manifest']_vars
  <2> SUFFICES ASSUME IInv, AInv, [Next]_vars, NEW c \in Calls,
                      Op(c) = "scan", Finishes(c), alone[c]
               PROVE  /\ AgreeByName'
                      /\ local[c].seenMeta \subseteq meta'
                      /\ Disk' \ meta' \subseteq local[c].seenDisk \ manifest'
    OBVIOUS
  <2>1. Rebuild(c)
    BY FinishIs
  <2>2. /\ Named /\ meta \subseteq manifest /\ local[c].seenMeta \subseteq meta
        /\ Disk \ meta \subseteq local[c].seenDisk /\ (Disk \ meta) \cap manifest = {}
    BY <2>1 DEF Rebuild, AInv, ScanInv
  <2>3. AgreeByName'
    BY <2>1, <2>2, RebuiltIs
  <2>4. UNCHANGED <<meta, links, manifest>>
    BY <2>1 DEF Rebuild
  <2>5. Disk' = Disk
    BY <2>4 DEF Disk
  <2> QED
    BY <2>2, <2>3, <2>4, <2>5
<1> QED
  BY <1>1, Invariance, PTL DEF Spec, ScanConverges
=============================================================================
