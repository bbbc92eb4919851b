---------------------------- MODULE CategorySync ----------------------------
(***************************************************************************)
(* Category membership in a localref library (crates/core).  Four copies   *)
(* of "item i is filed under category k" are kept by commands that run at  *)
(* the same time on the threads of their callers:                          *)
(*   - metadata.toml of the item, the source of truth, which the user's    *)
(*     editor also writes;                                                 *)
(*   - the junctions under Cat/<k>/, which the user also makes and deletes; *)
(*   - .localref/cat-manifest.toml, the junctions the daemon projected;    *)
(*   - the query index.                                                    *)
(* The daemon makes and removes the junction that has the name of the      *)
(* item's directory; a scan knows a junction by the item it leads to, and  *)
(* the user (and a folder of his that was normalized) may have given it    *)
(* any name.  A scan (ScanAll) reconciles all four.                        *)
(* A metadata edit of one item is one step here (module ItemWrites has     *)
(* what is under its lock); everything else interleaves.  Creation and     *)
(* deletion of items, and the rewriting of real directories under Cat/,    *)
(* are left out.                                                           *)
(***************************************************************************)
EXTENDS Naturals, FiniteSets

CONSTANTS
    Items,          \* indexed items
    Categories,     \* category paths
    Unmatched,      \* the category "unmatched"
    EntryNames,     \* names of the entries of a category directory
    DirName,        \* the name of each item's directory under All/
    Calls,          \* the commands given to the daemon, each at most once
    Commands,       \* the kinds of command given
    MaxHandEdits    \* bound on what the user does behind the daemon's back

AllCommands == {"add", "remove", "scan", "rename", "merge", "create"}

ASSUME CommandsAssumption == Commands \subseteq AllCommands
ASSUME HandEditsAssumption == MaxHandEdits \in Nat
ASSUME UnmatchedAssumption == Unmatched \in Categories
ASSUME NamesAssumption ==
    /\ DirName \in [Items -> EntryNames]
    /\ \A i, j \in Items : DirName[i] = DirName[j] => i = j

Pairs == Items \X Categories
In(k) == Items \X {k}

\* A junction: the item it leads to and its category, and its own name there.
Junctions == Pairs \X EntryNames
At(l) == <<l[1][2], l[2]>>
Own(p) == <<p, DirName[p[1]]>>
Misnamed(l) == l # Own(l[1])

VARIABLES
    meta,        \* pairs listed in metadata.toml
    tomb,        \* [state].removed_categories
    links,       \* junctions, one at most of a name in a category
    dirs,        \* categories whose directory exists under Cat/
    manifest,    \* cat-manifest.toml
    index,       \* pairs the query index answers
    call,        \* what each command is: [op, item, cat, to]
    pc,          \* where it is
    local,       \* its own copies: [man, seenMeta, seenDisk, seenTomb, todo]
    hand,        \* history: junctions whose maker is the user
    handEdits,   \* how often the user intervened
    alone,       \* history: nothing else has happened since the command began
    clean,       \* history: ... and the copies agreed when it began
    removed,     \* history: pairs a command removed, undisturbed
    evicted      \* history: pairs whose junction went with another item's pair

lib == <<meta, tomb, links, dirs, manifest, index>>
hist == <<hand, handEdits, alone, clean, removed, evicted>>
vars == <<lib, call, pc, local, hist>>

NoCall == [op |-> "none", items |-> {}, cat |-> Unmatched, to |-> Unmatched]
NoLocal == [man |-> {}, seenMeta |-> {}, seenDisk |-> {}, seenTomb |-> {}, todo |-> {}]

Pending(c) == pc[c] \notin {"idle", "done", "failed"}
Goto(c, step) == pc' = [pc EXCEPT ![c] = step]
Op(c) == call[c].op

\* The pair an add or a remove is about, and its unmatched pair.
Target(c) == call[c].items \X {call[c].cat}
Default(c) == call[c].items \X {Unmatched}

\* The pairs that junctions stand for, whatever their names (scan_cat_memberships).
Disk == {l[1] : l \in links}

\* The junction under the name of the item, wherever it leads.
AtOwnName(p) == {l \in links : At(l) = At(Own(p))}
Blocked(p) == AtOwnName(p) \ {Own(p)} # {}

\* The copies agree; the manifest may hold records of junctions long gone.
Agree == Disk = meta /\ index = meta /\ meta \subseteq manifest

\* They agree as far as junctions have the names of their items: one that does not
\* may stand for a pair that metadata lacks, or may have been removed in its place.
AgreeByName ==
    /\ index = meta /\ meta \subseteq manifest
    /\ meta \subseteq Disk \cup evicted
    /\ \A l \in links : l[1] \in meta \/ Misnamed(l)

\* c takes a step: every other command is no longer alone.
Disturb(c) == /\ alone' = [d \in Calls |-> alone[d] /\ d = c]
              /\ clean' = [d \in Calls |-> clean[d] /\ alone'[d]]
DisturbAll == /\ alone' = [d \in Calls |-> FALSE]
              /\ clean' = [d \in Calls |-> FALSE]

Init ==
    /\ meta \in SUBSET Pairs
    /\ \A i \in Items : <<i, Unmatched>> \in meta => {p \in meta : p[1] = i} = {<<i, Unmatched>>}
    /\ tomb = {} /\ manifest = meta /\ index = meta
    /\ \E name \in [meta -> EntryNames] :
          /\ \A p, q \in meta : At(<<p, name[p]>>) = At(<<q, name[q]>>) => p = q
          /\ links = {<<p, name[p]>> : p \in meta}
    /\ hand = {l \in links : Misnamed(l)}
    /\ dirs = {k \in Categories : In(k) \cap meta # {}}
    /\ call = [c \in Calls |-> NoCall]
    /\ pc = [c \in Calls |-> "idle"]
    /\ local = [c \in Calls |-> NoLocal]
    /\ handEdits = 0 /\ removed = {} /\ evicted = {}
    /\ alone = [c \in Calls |-> FALSE] /\ clean = [c \in Calls |-> FALSE]

\* A command is given.  What it is about may now change by the user's will.
Give(c, op, i, k, to) ==
    /\ pc[c] = "idle"
    /\ op \in {"rename", "merge"} <=> to # k
    /\ op = "scan" => k = Unmatched
    /\ Goto(c, IF op = "scan" THEN "refresh"
               ELSE IF op \in {"rename", "merge"} THEN "move"
               ELSE IF op = "create" THEN "mkdir" ELSE "load")
    /\ call' = [call EXCEPT ![c] =
                  [op |-> op, items |-> IF op \in {"add", "remove"} THEN {i} ELSE {},
                   cat |-> k, to |-> to]]
    /\ LET quiet == \A d \in Calls : ~Pending(d)
       IN /\ alone' = [d \in Calls |-> d = c /\ quiet /\ (Agree \/ op \in {"scan", "remove"})]
          /\ clean' = [d \in Calls |-> d = c /\ quiet /\ Agree /\ op # "scan"]
          /\ evicted' = IF quiet THEN {} ELSE evicted
    /\ removed' = removed \ (IF op = "add" THEN {i} \X {k, Unmatched}
                              ELSE IF op \in {"rename", "merge"} THEN In(k) \cup In(to)
                              ELSE {})
    /\ UNCHANGED <<lib, local, hand, handEdits>>

-----------------------------------------------------------------------------
(* Steps of several commands *)

\* CatManifest::load, into the command's own copy.
LoadManifest(c) ==
    /\ pc[c] = "load"
    /\ local' = [local EXCEPT ![c].man = manifest]
    /\ Goto(c, IF Op(c) \in {"add", "remove"} THEN "edit"
               ELSE IF Op(c) = "scan" THEN "tombs" ELSE "list")
    /\ Disturb(c)
    /\ UNCHANGED <<lib, call, hand, handEdits, removed, evicted>>

\* Mutant of Edit: a removal leaves no tombstone.
EditWithoutTombstone(add, remove, drop) ==
    /\ meta' = (meta \cup add) \ (remove \cup drop)
    /\ tomb' = tomb \ (add \cup drop)

\* edit_item_categories, under the lock of the item: add, remove, drop of
\* apply_category_edits.  Adding or dropping clears the tombstone.
Edit(add, remove, drop) ==
    /\ meta' = (meta \cup add) \ (remove \cup drop)
    /\ tomb' = (tomb \ (add \cup drop)) \cup remove

\* CatManifest::save replaces the file.
SaveManifest(c) ==
    /\ pc[c] = "save"
    /\ manifest' = local[c].man
    /\ Goto(c, "rebuild")
    /\ Disturb(c)
    /\ UNCHANGED <<meta, tomb, links, dirs, index, call, local, hand, handEdits,
                   removed, evicted>>

\* storage.rebuild_from_all, the last step.
Rebuild(c) ==
    /\ pc[c] = "rebuild"
    /\ index' = meta
    /\ Goto(c, "done")
    /\ call' = [call EXCEPT ![c] = NoCall] /\ local' = [local EXCEPT ![c] = NoLocal]
    /\ DisturbAll
    /\ removed' = IF Op(c) = "remove" /\ alone[c] THEN removed \cup Target(c) ELSE removed
    /\ UNCHANGED <<meta, tomb, links, dirs, manifest, hand, handEdits, evicted>>

-----------------------------------------------------------------------------
(* add_item_category, remove_item_category *)

EditCategory(c) ==
    /\ pc[c] = "edit"
    /\ IF Op(c) = "add" THEN Edit(Target(c), {}, {}) ELSE Edit({}, Target(c), {})
    /\ Goto(c, IF Op(c) = "add" THEN "link" ELSE "unlink")
    /\ Disturb(c)
    /\ UNCHANGED <<links, dirs, manifest, index, call, local, hand, handEdits,
                   removed, evicted>>

\* Mutant of CreateLink: the category directory is not created first.
CreateLinkWithoutDir(c) ==
    /\ pc[c] = "link"
    /\ \A p \in Target(c) : ~Blocked(p)
    /\ links' = links \cup {Own(p) : p \in Target(c)}
    /\ local' = [local EXCEPT ![c].man = @ \cup Target(c)]
    /\ Goto(c, IF call[c].cat = Unmatched THEN "save" ELSE "drop")
    /\ Disturb(c)
    /\ UNCHANGED <<meta, tomb, dirs, manifest, index, call, hand, handEdits,
                   removed, evicted>>

\* create_category_link, and the record in the command's own manifest.  A junction
\* of that name that leads to the item already will do.
CreateLink(c) ==
    /\ pc[c] = "link"
    /\ \A p \in Target(c) : ~Blocked(p)
    /\ links' = links \cup {Own(p) : p \in Target(c)}
    /\ dirs' = dirs \cup {call[c].cat}
    /\ local' = [local EXCEPT ![c].man = @ \cup Target(c)]
    /\ Goto(c, IF call[c].cat = Unmatched THEN "save" ELSE "drop")
    /\ Disturb(c)
    /\ UNCHANGED <<meta, tomb, manifest, index, call, hand, handEdits, removed,
                   evicted>>

\* An item filed under a real category is no longer unmatched.
DropUnmatched(c) ==
    /\ pc[c] = "drop"
    /\ Edit({}, {}, Default(c))
    /\ Goto(c, "unlink")
    /\ Disturb(c)
    /\ UNCHANGED <<links, dirs, manifest, index, call, local, hand, handEdits,
                   removed, evicted>>

\* remove_category_link: by name, whatever the junction leads to; a name that is not
\* there is no error.
Removes(gone) ==
    LET entries == UNION {AtOwnName(p) : p \in gone}
    IN /\ links' = links \ entries
       /\ hand' = hand \ entries
       /\ evicted' = evicted \cup ({l[1] : l \in entries} \ gone)

\* Mutant of RemoveLink: the record of the junction is kept.
RemoveLinkKeepRecord(c) ==
    /\ pc[c] = "unlink"
    /\ Removes(IF Op(c) = "add" THEN Default(c) ELSE Target(c))
    /\ Goto(c, "save")
    /\ Disturb(c)
    /\ UNCHANGED <<meta, tomb, dirs, manifest, index, call, local, handEdits,
                   removed>>

\* The junction goes, and with it the record, whether there was one or not.
RemoveLink(c) ==
    /\ pc[c] = "unlink"
    /\ LET gone == IF Op(c) = "add" THEN Default(c) ELSE Target(c)
       IN Removes(gone) /\ local' = [local EXCEPT ![c].man = @ \ gone]
    /\ Goto(c, "save")
    /\ Disturb(c)
    /\ UNCHANGED <<meta, tomb, dirs, manifest, index, call, handEdits, removed>>

-----------------------------------------------------------------------------
(* create_category: only the directory, which may be there already. *)

CreateCategoryDir(c) ==
    /\ pc[c] = "mkdir"
    /\ dirs' = dirs \cup {call[c].cat}
    /\ Goto(c, "rebuild")
    /\ Disturb(c)
    /\ UNCHANGED <<meta, tomb, links, manifest, index, call, local, hand, handEdits,
                   removed, evicted>>

-----------------------------------------------------------------------------
(* rename_category, merge_category *)

\* Mutant of Moved: the entries keep their old path.
MovedNowhere(c, S) == S

\* The junctions of the category go to the other, under their names.
Moved(c, S) ==
    {IF l[1][2] = call[c].cat THEN <<<<l[1][1], call[c].to>>, l[2]>> ELSE l : l \in S}

\* The directory moves: fs::rename of the whole, which a target that exists
\* refuses (an empty one only on Windows); an error leaves all as it was.
RenameDir(c) ==
    /\ pc[c] = "move" /\ Op(c) = "rename"
    /\ \/ /\ call[c].cat \notin dirs \/ call[c].to \in dirs
          /\ Goto(c, "failed")
          /\ UNCHANGED <<links, dirs, hand>>
       \/ /\ call[c].cat \in dirs /\ In(call[c].to) \cap Disk = {}
          /\ links' = Moved(c, links) /\ hand' = Moved(c, hand)
          /\ dirs' = (dirs \ {call[c].cat}) \cup {call[c].to}
          /\ Goto(c, "load")
    /\ Disturb(c)
    /\ UNCHANGED <<meta, tomb, manifest, index, call, local, handEdits, removed,
                   evicted>>

\* Entry by entry: one whose name the target has stays behind, and remove_dir then
\* refuses the source.  Without a source there is nothing to move.
MergeDir(c) ==
    /\ pc[c] = "move" /\ Op(c) = "merge"
    /\ LET stay == {l \in links : /\ l[1][2] = call[c].cat
                                  /\ \E m \in links : At(m) = <<call[c].to, l[2]>>}
       IN /\ links' = Moved(c, links \ stay) \cup stay
          /\ hand' = Moved(c, hand \ stay) \cup (hand \cap stay)
          /\ dirs' = (dirs \cup {call[c].to}) \
                       (IF stay = {} THEN {call[c].cat} ELSE {})
          /\ Goto(c, IF stay = {} THEN "load" ELSE "failed")
    /\ Disturb(c)
    /\ UNCHANGED <<meta, tomb, manifest, index, call, local, handEdits, removed,
                   evicted>>

\* remap_category_prefix goes through the items the index lists.
ListItems(c) ==
    /\ pc[c] = "list"
    /\ IF Op(c) = "scan"
       THEN /\ local' = [local EXCEPT ![c].seenMeta = index]
            /\ Goto(c, "disk")
       ELSE /\ local' = [local EXCEPT ![c].todo = index \cap In(call[c].cat)]
            /\ Goto(c, "remap")
    /\ Disturb(c)
    /\ UNCHANGED <<lib, call, hand, handEdits, removed, evicted>>

Remap(c) ==
    /\ pc[c] = "remap"
    /\ \/ /\ local[c].todo = {}
          /\ Goto(c, "save")
          /\ UNCHANGED <<meta, tomb, local>>
       \/ \E p \in local[c].todo :
          /\ Edit({<<p[1], call[c].to>>}, {}, {p})
          /\ local' = [local EXCEPT ![c].todo = @ \ {p},
                                    ![c].man = (@ \ {p}) \cup {<<p[1], call[c].to>>}]
          /\ UNCHANGED pc
    /\ Disturb(c)
    /\ UNCHANGED <<links, dirs, manifest, index, call, hand, handEdits, removed,
                   evicted>>

-----------------------------------------------------------------------------
(* The scan: scan_and_normalize, reconcile_categories *)

Refresh(c) ==
    /\ pc[c] = "refresh"
    /\ index' = meta
    /\ Goto(c, "list")
    /\ Disturb(c)
    /\ UNCHANGED <<meta, tomb, links, dirs, manifest, call, local, hand, handEdits,
                   removed, evicted>>

ScanDisk(c) ==
    /\ pc[c] = "disk"
    /\ local' = [local EXCEPT ![c].seenDisk = Disk]
    /\ Goto(c, "load")
    /\ Disturb(c)
    /\ UNCHANGED <<lib, call, hand, handEdits, removed, evicted>>

ReadTombstones(c) ==
    /\ pc[c] = "tombs"
    /\ local' = [local EXCEPT ![c].seenTomb = tomb,
                              ![c].todo = local[c].seenMeta \cup local[c].seenDisk]
    /\ Goto(c, "work")
    /\ Disturb(c)
    /\ UNCHANGED <<lib, call, hand, handEdits, removed, evicted>>

\* Mutant of Project: a junction deleted by hand is not made again.
ProjectNever(c, p) == p # p

\* What reconcile_categories does of one pair, from what it has seen; a pair in
\* metadata and on disk is in sync and only recorded.
Project(c, p) == p \in local[c].seenMeta /\ p \notin local[c].seenDisk
Orphan(c, p)  == p \notin local[c].seenMeta /\ p \in local[c].man \cup local[c].seenTomb
Adopt(c, p)   == p \notin local[c].seenMeta /\ p \notin local[c].man \cup local[c].seenTomb

Reconcile(c) ==
    /\ pc[c] = "work"
    /\ \/ /\ local[c].todo = {}
          /\ Goto(c, "save")
          /\ UNCHANGED <<meta, tomb, links, dirs, local, hand, evicted>>
       \/ \E p \in local[c].todo :
          /\ p \notin local[c].seenMeta =>      \* what metadata lists comes first
               {q \in local[c].todo : q[1] = p[1]} \cap local[c].seenMeta = {}
          /\ Project(c, p) => ~Blocked(p)
          /\ local' = [local EXCEPT ![c].todo = @ \ {p},
                                    ![c].man = IF Orphan(c, p) THEN @ \ {p} ELSE @ \cup {p}]
          /\ IF Orphan(c, p) THEN Removes({p})
             ELSE /\ links' = IF Project(c, p) THEN links \cup {Own(p)} ELSE links
                  /\ UNCHANGED <<hand, evicted>>
          /\ dirs' = IF Project(c, p) THEN dirs \cup {p[2]} ELSE dirs
          /\ IF Adopt(c, p) THEN Edit({p}, {}, {}) ELSE UNCHANGED <<meta, tomb>>
          /\ UNCHANGED pc
    /\ Disturb(c)
    /\ UNCHANGED <<manifest, index, call, handEdits, removed>>

EditSteps == {"edit", "drop", "remap", "work"}

\* An error ends the command, its copy of the manifest unsaved.
Fails(c) ==
    /\ Goto(c, "failed")
    /\ call' = [call EXCEPT ![c] = NoCall] /\ local' = [local EXCEPT ![c] = NoLocal]
    /\ Disturb(c)
    /\ UNCHANGED <<lib, hand, handEdits, removed, evicted>>

\* The lock of the item is taken: some other command is editing too.
EditConflict(c) ==
    /\ pc[c] \in EditSteps
    /\ \E d \in Calls \ {c} : pc[d] \in EditSteps
    /\ pc[c] = "remap" => local[c].todo # {}
    /\ pc[c] = "work" => \E p \in local[c].todo : Adopt(c, p)
    /\ Fails(c)

\* The name of the item has a junction that leads elsewhere.
LinkConflict(c) ==
    /\ \/ pc[c] = "link" /\ \E p \in Target(c) : Blocked(p)
       \/ pc[c] = "work" /\ \E p \in local[c].todo : Project(c, p) /\ Blocked(p)
    /\ Fails(c)

-----------------------------------------------------------------------------
(* The user, with a file manager and an editor *)

ByHand ==
    /\ handEdits < MaxHandEdits
    /\ handEdits' = handEdits + 1
    /\ DisturbAll
    /\ UNCHANGED <<tomb, manifest, index, call, pc, local, evicted>>

MakeJunction(l) ==
    /\ \A m \in links : At(m) # At(l)
    /\ links' = links \cup {l} /\ hand' = hand \cup {l}
    /\ dirs' = dirs \cup {l[1][2]}
    /\ ByHand
    /\ UNCHANGED <<meta, removed>>

DeleteJunction(l) ==
    /\ l \in links
    /\ links' = links \ {l} /\ hand' = hand \ {l}
    /\ ByHand
    /\ UNCHANGED <<meta, dirs, removed>>

EditMetadata(p) ==
    /\ meta' = IF p \in meta THEN meta \ {p} ELSE meta \cup {p}
    /\ removed' = removed \ {p}
    /\ ByHand
    /\ UNCHANGED <<links, dirs, hand>>

-----------------------------------------------------------------------------
\* The steps of each command, one after the other as pc says.
CreateCategory(c) == Op(c) = "create" /\ (CreateCategoryDir(c) \/ Rebuild(c))

AddItemCategory(c) ==
    /\ Op(c) = "add"
    /\ \/ LoadManifest(c) \/ EditCategory(c) \/ CreateLink(c) \/ DropUnmatched(c)
       \/ RemoveLink(c) \/ SaveManifest(c) \/ Rebuild(c)

RemoveItemCategory(c) ==
    /\ Op(c) = "remove"
    /\ \/ LoadManifest(c) \/ EditCategory(c) \/ RemoveLink(c) \/ SaveManifest(c)
       \/ Rebuild(c)

\* remap_category_prefix
RemapCategoryPrefix(c) == LoadManifest(c) \/ ListItems(c) \/ Remap(c) \/ SaveManifest(c)

RenameCategory(c) ==
    Op(c) = "rename" /\ (RenameDir(c) \/ RemapCategoryPrefix(c) \/ Rebuild(c))

MergeCategory(c) ==
    Op(c) = "merge" /\ (MergeDir(c) \/ RemapCategoryPrefix(c) \/ Rebuild(c))

ScanAndReconcile(c) ==
    /\ Op(c) = "scan"
    /\ \/ Refresh(c) \/ ListItems(c) \/ ScanDisk(c) \/ LoadManifest(c)
       \/ ReadTombstones(c) \/ Reconcile(c) \/ SaveManifest(c) \/ Rebuild(c)

Step(c) ==
    \/ CreateCategory(c) \/ AddItemCategory(c) \/ RemoveItemCategory(c)
    \/ RenameCategory(c) \/ MergeCategory(c) \/ ScanAndReconcile(c)
    \/ EditConflict(c) \/ LinkConflict(c)

Next ==
    \/ \E c \in Calls :
          \/ \E op \in Commands, i \in Items, k, to \in Categories : Give(c, op, i, k, to)
          \/ Step(c)
    \/ \E l \in Junctions : MakeJunction(l) \/ DeleteJunction(l)
    \/ \E p \in Pairs : EditMetadata(p)

Spec == Init /\ [][Next]_vars

-----------------------------------------------------------------------------
(* Properties *)

LocalType == [man : SUBSET Pairs, seenMeta : SUBSET Pairs, seenDisk : SUBSET Pairs,
              seenTomb : SUBSET Pairs, todo : SUBSET Pairs]

TypeOK ==
    /\ meta \subseteq Pairs /\ tomb \subseteq Pairs /\ links \subseteq Junctions
    /\ manifest \subseteq Pairs /\ index \subseteq Pairs
    /\ hand \subseteq links /\ removed \subseteq Pairs /\ evicted \subseteq Pairs
    /\ \A l, m \in links : At(l) = At(m) => l = m
    /\ \A l \in links : l[1][2] \in dirs
    /\ dirs \subseteq Categories
    /\ \A c \in Calls : local[c] \in LocalType
    /\ handEdits \in 0..MaxHandEdits

Finishes(c) == pc[c] # "done" /\ pc'[c] = "done"

(* A scan that nothing interleaves with leaves metadata, junctions and     *)
(* index in agreement, from whatever the user and failed commands left,    *)
(* and unfiles nothing on the way.  But a junction that has another name   *)
(* than its item stays where the removal of its pair was due: the record   *)
(* goes, the junction does not (reconcile_categories).                     *)
ScanConverges ==
    [][\A c \in Calls : Op(c) = "scan" /\ Finishes(c) /\ alone[c] =>
          /\ AgreeByName'
          /\ local[c].seenMeta \subseteq meta'
          /\ Disk' \ meta' \subseteq local[c].seenDisk \ manifest']_vars

(* A command that succeeds, undisturbed, on copies in agreement leaves     *)
(* them in agreement, as far as junctions have the names of their items:   *)
(* what is unfiled keeps at most a junction of another name, and no other  *)
(* item loses a junction but one that had the name of the unfiled.         *)
CommandsKeepAgreement ==
    [][\A c \in Calls : Finishes(c) /\ clean[c] =>
          /\ AgreeByName'
          /\ Op(c) \in {"rename", "merge", "create"} => Agree']_vars

(* A category the user removed by command stays removed until he adds it   *)
(* again: a scan does not adopt a junction of it, whoever made it and      *)
(* whatever its name is.                                                   *)
RemovalSticks == removed \cap meta = {}

(* Filing an item under a real category takes it out of unmatched in every *)
(* copy, but for junctions of other names, and leaves it filed.            *)
FilingLeavesUnmatched ==
    [][\A c \in Calls : Op(c) = "add" /\ Finishes(c) /\ clean[c] =>
          /\ Target(c) \subseteq meta' \cap Disk' \cap manifest'
          /\ call[c].cat # Unmatched =>
                /\ Default(c) \cap (meta' \cup manifest' \cup index') = {}
                /\ \A l \in links' : l[1] \in Default(c) => Misnamed(l)]_vars

(* manifest.rs:8-14: the manifest tells a junction the daemon projected,   *)
(* and the user took out of metadata, from "a hand-made junction to        *)
(* adopt": a scan that nothing disturbs adopts only the latter.            *)
AdoptsOnlyHandMade ==
    [][\A c \in Calls : \A p \in local[c].todo \ local'[c].todo :
          Op(c) = "scan" /\ alone[c] /\ Adopt(c, p) =>
              \E l \in hand : l[1] = p]_vars
=============================================================================
