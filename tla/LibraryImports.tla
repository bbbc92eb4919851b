---------------------------- MODULE LibraryImports ----------------------------
(***************************************************************************)
(* How items come into the library (crates/core, lib.rs, scan, platformfs): *)
(*   - an import of the browser connector and an import of one file each   *)
(*     make a directory under All/ and then its metadata.toml;             *)
(*   - a directory that the user made under All/ is adopted: it is given a *)
(*     metadata.toml;                                                      *)
(*   - a real directory that the user put under Cat/ is normalized: it     *)
(*     moves to All/, or goes if it is a copy of an item, and a link takes *)
(*     its place;                                                          *)
(*   - a scan adopts and normalizes all it finds, then reconciles Cat/.    *)
(* Adoptions, normalizations and scans are one client's, who makes them    *)
(* one after the other; they interleave with the imports, and those with   *)
(* each other, as each call runs on the thread of its caller.              *)
(*                                                                         *)
(* Everything has one title and one category, and all files come with one  *)
(* name, so that names collide: the first name is the title, or the name   *)
(* that the files come with, and the n-th has the n-th suffix.  The writing *)
(* of a file, the reading of the library for the index and the             *)
(* reconciliation are single steps here; ItemWrites, TaskQueue and         *)
(* CategorySync take them apart.  The user's own work is in Init.          *)
(***************************************************************************)
EXTENDS Naturals, FiniteSets

CONSTANTS
    Leftovers,  \* what the user may have left under All/ and Cat/ (see LeftoversOK)
    Imports,    \* imports, each of the browser connector or of one file
    MaxName,    \* bound on the names, of directories and of files
    MaxRounds,  \* bound on the adoptions, normalizations and scans between two crashes
    MaxCrashes  \* bound on the crashes of the daemon

Names == 1..MaxName
Title == 1
FileName == 1   \* the name that the files come with

ASSUME BoundsAssumption ==
    MaxName \in Nat \ {0} /\ MaxRounds \in Nat /\ MaxCrashes \in Nat
ASSUME ImportsAssumption == Imports \cap {"mine", "yours"} = {}

VARIABLES
    all,       \* the directories under All/
    folder,    \* the real directory with the title under the category, if any
    links,     \* the junctions under the category: entry name and target
    manifest,  \* ids of the items whose junction the daemon recorded
    index,     \* the items of the query index: id and name
    locks,     \* ids whose lock file exists
    kind,      \* what each import is
    pc,        \* where it is
    dir,       \* the name of its directory, and of that of each file of the user
    filename,  \* the name of its file in the directory, and of the user's
    step,      \* where the adoption, normalization or scan is
    job,       \* what it found and decided
    given,     \* history: the files of the user and of the imports
    merged,    \* history: files of a folder that was a copy of an item
    met,       \* history: names that an import and another, or a folder, took
    alone,     \* history: nothing else has happened since the scan began
    rounds, crashes  \* counters (bounds)

library == <<all, folder, links, manifest, index>>
upkeep == <<step, job, rounds>>
vars == <<library, locks, kind, pc, dir, filename, upkeep, given, merged, met, alone,
          crashes>>

\* Ids: of an import's item, of a directory by its name, and of the user's metadata.
ImportId(c) == <<"import", c>>
DirId(n) == <<"dir", n>>
ItemIdOf == <<"user", 1>>
Elsewhere == <<"user", 2>>
NoMeta == <<"none", 1>>   \* the directory has no metadata.toml
Absent == <<"none", 2>>   \* there is no directory
Ids == {ImportId(c) : c \in Imports} \cup {DirId(n) : n \in Names}
           \cup {ItemIdOf, Elsewhere}

Files == Imports \cup {"mine", "yours"}
Dir(files, id, filed) == [files |-> files, id |-> id, filed |-> filed]
NoDir == Dir({}, Absent, FALSE)
Exists(d) == d.id # Absent
Managed(d) == d.id \in Ids
ManagedNames == {n \in Names : Managed(all[n])}
Unmanaged == {n \in Names : all[n].id = NoMeta}

NoJob == [todo |-> {}, cat |-> "none", scan |-> FALSE, dir |-> Title, id |-> NoMeta,
          merge |-> FALSE]

(***************************************************************************)
(* What the user may have left: at the title under All/ nothing, a         *)
(* directory with a file, or an item, filed under the category or not, with *)
(* or without its junction; and under Cat/ nothing, an empty directory, or *)
(* a folder with a file, which may be a copy of the item, or come from     *)
(* elsewhere with its metadata.                                            *)
(***************************************************************************)
LeftoversOK ==
    \A l \in Leftovers :
        /\ l.all \in {NoDir, Dir({"mine"}, NoMeta, FALSE)}
                        \cup {Dir({"mine"}, ItemIdOf, filed) : filed \in BOOLEAN}
        /\ l.cat \in {NoDir, Dir({}, NoMeta, FALSE)}
                        \cup {Dir({"yours"}, id, FALSE) :
                                  id \in {NoMeta, ItemIdOf, Elsewhere}}
        /\ l.cat.id = ItemIdOf => l.all.id = ItemIdOf
        /\ l.linked \in BOOLEAN
        /\ l.linked => l.all.filed /\ ~Exists(l.cat)

ASSUME LeftoversAssumption == LeftoversOK

Init ==
    /\ \E l \in Leftovers :
          /\ all = [n \in Names |-> IF n = Title THEN l.all ELSE NoDir]
          /\ folder = l.cat
          /\ links = IF l.linked THEN {<<Title, Title>>} ELSE {}
          /\ manifest = IF l.all.filed THEN {ItemIdOf} ELSE {}
          /\ index = IF l.all.id = ItemIdOf THEN {<<ItemIdOf, Title>>} ELSE {}
          /\ given = l.all.files \cup l.cat.files
    /\ locks = {} /\ merged = {} /\ met = {} /\ alone = FALSE
    /\ kind \in [Imports -> {"connector", "file"}]
    /\ pc = [c \in Imports |-> "idle"]
    /\ dir = [f \in Files |-> Title] /\ filename = [f \in Files |-> FileName]
    /\ step = "idle" /\ job = NoJob
    /\ rounds = 0 /\ crashes = 0

-------------------------------------------------------------------------------
\* The first name under All/ that no directory has (create_unique_item_dir and
\* unique_all_item_path look for it in the same way).
IsFreeName(n) ==
    /\ ~Exists(all[n])
    /\ \A m \in 1..(n - 1) : Exists(all[m])

\* Mutant of CanLink: only junctions are looked for, not real directories.
CanLinkOverFolder(entry, target) == \A l \in links : l[1] = entry => l[2] = target

\* A junction can be made if its path is free, or if it is there already.
CanLink(entry, target) ==
    /\ entry = Title => ~Exists(folder)
    /\ \A l \in links : l[1] = entry => l[2] = target

\* The items that a rebuild finds.
Rebuilt == {<<all[n].id, n>> : n \in ManagedNames}

(***************************************************************************)
(* Imports.  The connector's takes the lock of its own id first, the       *)
(* file's the lock of its directory's id when the file has been copied.    *)
(***************************************************************************)
ImportStep(c, from, to) ==
    /\ pc[c] = from /\ pc' = [pc EXCEPT ![c] = to]
    /\ alone' = FALSE
    /\ UNCHANGED <<kind, folder, merged, upkeep, crashes>>

Choose(c) ==
    /\ ImportStep(c, "idle", "chosen")
    /\ \E n \in Names : IsFreeName(n) /\ dir' = [dir EXCEPT ![c] = n]
    /\ locks' = IF kind[c] = "connector" THEN locks \cup {ImportId(c)} ELSE locks
    /\ UNCHANGED <<all, links, manifest, index, filename, given, met>>

\* create_dir_all does not mind a directory that has come since.
CreateDir(c) ==
    /\ ImportStep(c, "chosen", "created")
    /\ IF Exists(all[dir[c]])
       THEN UNCHANGED all /\ met' = met \cup {dir[c]}
       ELSE all' = [all EXCEPT ![dir[c]] = Dir({}, NoMeta, FALSE)] /\ UNCHANGED met
    /\ UNCHANGED <<links, manifest, index, locks, dir, filename, given>>

\* write_attachment looks for a name that no file of the directory has; ...
PickName(c) ==
    /\ kind[c] = "connector"
    /\ ImportStep(c, "created", "named")
    /\ LET taken == {filename[g] : g \in all[dir[c]].files} IN
         \E n \in Names \ taken :
            /\ 1..(n - 1) \subseteq taken
            /\ filename' = [filename EXCEPT ![c] = n]
    /\ UNCHANGED <<all, links, manifest, index, locks, dir, given, met>>

\* What is in the directory when an import has written its file, which replaces one of
\* its name.
Holding(files, c) == {g \in files : filename[g] # filename[c]} \cup {c}

\* ... then it writes, though a file of that name may have come since.
WriteAttachments(c) ==
    /\ ImportStep(c, "named", "locked")
    /\ all' = [all EXCEPT ![dir[c]].files = Holding(@, c)]
    /\ given' = given \cup {c}
    /\ UNCHANGED <<links, manifest, index, locks, dir, filename, met>>

\* fs::copy replaces whatever has the name of the imported file.
CopyFile(f) ==
    /\ kind[f] = "file"
    /\ ImportStep(f, "created", "copied")
    /\ all' = [all EXCEPT ![dir[f]].files = Holding(@, f)]
    /\ given' = given \cup {f}
    /\ UNCHANGED <<links, manifest, index, locks, dir, filename, met>>

LockFile(f) ==
    /\ DirId(dir[f]) \notin locks
    /\ ImportStep(f, "copied", "locked")
    /\ locks' = locks \cup {DirId(dir[f])}
    /\ UNCHANGED <<all, links, manifest, index, dir, filename, given, met>>

LockFileFails(f) ==
    /\ DirId(dir[f]) \in locks
    /\ ImportStep(f, "copied", "over")
    /\ UNCHANGED <<all, links, manifest, index, locks, dir, filename, given, met>>

\* The metadata of an item from the connector has the category, that of a file none.
WriteItem(c) ==
    /\ kind[c] = "connector"
    /\ ImportStep(c, "locked", "written")
    /\ all' = [all EXCEPT ![dir[c]] = Dir(@.files, ImportId(c), TRUE)]
    /\ UNCHANGED <<links, manifest, index, locks, dir, filename, given, met>>

WriteFileItem(f) ==
    /\ kind[f] = "file"
    /\ ImportStep(f, "locked", "made")
    /\ all' = [all EXCEPT ![dir[f]] = Dir(@.files, DirId(dir[f]), FALSE)]
    /\ locks' = locks \ {DirId(dir[f])}
    /\ UNCHANGED <<links, manifest, index, dir, filename, given, met>>

LinkItem(c) ==
    /\ CanLink(dir[c], dir[c])
    /\ ImportStep(c, "written", "linked")
    /\ links' = links \cup {<<dir[c], dir[c]>>}
    /\ locks' = locks \ {ImportId(c)}
    /\ UNCHANGED <<all, manifest, index, dir, filename, given, met>>

\* The item stays in the library when the call fails here.
LinkItemFails(c) ==
    /\ ~CanLink(dir[c], dir[c])
    /\ ImportStep(c, "written", "over")
    /\ locks' = locks \ {ImportId(c)}
    /\ UNCHANGED <<all, links, manifest, index, dir, filename, given, met>>

\* The daemon records the junctions of the import and rebuilds the index.
Finish(c) ==
    /\ ImportStep(c, "linked", "over")
    /\ manifest' = manifest \cup {ImportId(c)}
    /\ index' = Rebuilt
    /\ UNCHANGED <<all, links, locks, dir, filename, given, met>>

FinishFile(f) ==
    /\ ImportStep(f, "made", "over")
    /\ index' = Rebuilt
    /\ UNCHANGED <<all, links, manifest, locks, dir, filename, given, met>>

-------------------------------------------------------------------------------
(***************************************************************************)
(* Adoptions, normalizations and scans.                                    *)
(***************************************************************************)
UpkeepStep(from, to) ==
    /\ step = from /\ step' = to
    /\ UNCHANGED <<kind, pc, dir, filename, given, met, crashes>>

\* The call fails; a lock that it holds is released.
Fails(from) ==
    /\ UpkeepStep(from, "idle")
    /\ locks' = locks \ {job.id}
    /\ job' = NoJob
    /\ alone' = FALSE
    /\ UNCHANGED <<library, merged, rounds>>

Starts(to, found) ==
    /\ rounds < MaxRounds
    /\ UpkeepStep("idle", to)
    /\ rounds' = rounds + 1
    /\ job' = found
    /\ alone' = found.scan
    /\ UNCHANGED <<all, folder, links, manifest, locks, merged>>

StartAdoption(n) ==
    /\ n \in Unmanaged
    /\ Starts("adopting", [NoJob EXCEPT !.todo = {n}])
    /\ UNCHANGED index

\* normalize_cat_directory of the daemon rebuilds the index first.
StartNormalization ==
    /\ Exists(folder)
    /\ Starts("normalizing", NoJob)
    /\ index' = Rebuilt

\* A folder with a file in it is a candidate; an empty one stands for a junction that
\* got lost if a managed item has its name, and is a category otherwise.
FolderKind ==
    IF folder.files # {} THEN "candidate"
    ELSE IF Exists(folder) /\ Managed(all[Title]) THEN "stale" ELSE "none"

StartScan ==
    /\ Starts("adopting",
              [NoJob EXCEPT !.todo = Unmanaged, !.cat = FolderKind, !.scan = TRUE])
    /\ UNCHANGED index

\* The directories that the scan listed come in the order of their names.
IsNext(n) == n \in job.todo /\ \A m \in job.todo : n <= m

\* Nobody may have written metadata.toml since; this is tested before the lock is taken.
CheckUnmanaged(n) ==
    /\ IsNext(n) /\ all[n].id = NoMeta
    /\ UpkeepStep("adopting", "checked")
    /\ job' = [job EXCEPT !.dir = n]
    /\ UNCHANGED <<library, locks, merged, alone, rounds>>

CheckFails ==
    /\ \E n \in Names : IsNext(n) /\ all[n].id # NoMeta
    /\ Fails("adopting")

LockAdopted ==
    /\ DirId(job.dir) \notin locks
    /\ UpkeepStep("checked", "describing")
    /\ locks' = locks \cup {DirId(job.dir)}
    /\ job' = [job EXCEPT !.id = DirId(job.dir)]
    /\ UNCHANGED <<library, merged, alone, rounds>>

LockAdoptedFails == DirId(job.dir) \in locks /\ Fails("checked")

\* Writes metadata.toml over whatever is there.
WriteAdopted ==
    /\ UpkeepStep("describing", IF job.scan THEN "adopting" ELSE "indexing")
    /\ all' = [all EXCEPT ![job.dir] = Dir(@.files, DirId(job.dir), FALSE)]
    /\ locks' = locks \ {job.id}
    /\ job' = [job EXCEPT !.todo = @ \ {job.dir}, !.id = NoMeta]
    /\ UNCHANGED <<folder, links, manifest, index, merged, alone, rounds>>

\* A scan has adopted all it listed.
RebuildAdopted ==
    /\ job.todo = {} /\ job.scan
    /\ UpkeepStep("adopting",
                  IF job.cat = "candidate" THEN "normalizing"
                  ELSE IF job.cat = "stale" THEN "replacing" ELSE "reconciling")
    /\ index' = Rebuilt
    /\ UNCHANGED <<all, folder, links, manifest, locks, job, merged, alone, rounds>>

\* Mutant of IndexedAs: an item of the folder's name will do.
IndexedByName(id) == {l \in index : l[1] = id \/ l[2] = Title}

\* The items of the index with this id.
IndexedAs(id) == {l \in index : l[1] = id}

\* Decided before the lock is taken: whether the folder goes or moves, and where to.
Plan ==
    /\ UpkeepStep("normalizing", "planned")
    /\ LET existing == IndexedAs(folder.id) IN
         \E n \in Names :
            /\ IF existing # {} THEN \E l \in existing : n = l[2] ELSE IsFreeName(n)
            /\ job' = [job EXCEPT !.dir = n, !.merge = existing # {}]
    /\ UNCHANGED <<library, locks, merged, alone, rounds>>

FolderId == IF folder.id = NoMeta THEN DirId(job.dir) ELSE folder.id

LockFolder ==
    /\ FolderId \notin locks
    /\ UpkeepStep("planned", "moving")
    /\ locks' = locks \cup {FolderId}
    /\ job' = [job EXCEPT !.id = FolderId]
    /\ UNCHANGED <<library, merged, alone, rounds>>

LockFolderFails == FolderId \in locks /\ Fails("planned")

\* The folder is a copy of an item: remove_dir_all.
RemoveCopy ==
    /\ job.merge
    /\ UpkeepStep("moving", "linking")
    /\ folder' = NoDir
    /\ merged' = IF folder.id = all[job.dir].id THEN merged \cup folder.files ELSE merged
    /\ UNCHANGED <<all, links, manifest, index, locks, job, alone, rounds>>

\* A rename onto a directory that has come since may succeed if that is empty.
MoveFolder ==
    /\ step = "moving" /\ ~job.merge
    /\ all[job.dir] \in {NoDir, Dir({}, NoMeta, FALSE)}
    /\ step' = IF folder.id = NoMeta THEN "titling" ELSE "linking"
    /\ all' = [all EXCEPT ![job.dir] = folder]
    /\ folder' = NoDir
    /\ dir' = [f \in Files |-> IF f \in folder.files THEN job.dir ELSE dir[f]]
    /\ met' = IF Exists(all[job.dir]) THEN met \cup {job.dir} ELSE met
    /\ UNCHANGED <<links, manifest, index, locks, kind, pc, filename, job, rounds, given,
                   merged, alone, crashes>>

MoveFolderFails == ~job.merge /\ Exists(all[job.dir]) /\ Fails("moving")

WriteTitle ==
    /\ UpkeepStep("titling", "linking")
    /\ all' = [all EXCEPT ![job.dir] = Dir(@.files, job.id, FALSE)]
    /\ UNCHANGED <<folder, links, manifest, index, locks, job, merged, alone, rounds>>

\* The junction has the name of the folder, which need not be that of the directory.
LinkFolder ==
    /\ CanLink(Title, job.dir)
    /\ UpkeepStep("linking", "filing")
    /\ links' = links \cup {<<Title, job.dir>>}
    /\ UNCHANGED <<all, folder, manifest, index, locks, job, merged, alone, rounds>>

LinkFolderFails == ~CanLink(Title, job.dir) /\ Fails("linking")

\* The category goes into the metadata of the item.
FileFolder ==
    /\ Managed(all[job.dir])
    /\ UpkeepStep("filing", "indexing")
    /\ all' = [all EXCEPT ![job.dir].filed = TRUE]
    /\ locks' = locks \ {job.id}
    /\ UNCHANGED <<folder, links, manifest, index, job, merged, alone, rounds>>

\* The rebuild after an adoption or a normalization; a scan goes on to Cat/.
RebuildIndex ==
    /\ UpkeepStep("indexing", IF job.scan THEN "reconciling" ELSE "idle")
    /\ index' = Rebuilt
    /\ job' = [NoJob EXCEPT !.scan = job.scan]
    /\ UNCHANGED <<all, folder, links, manifest, locks, merged, alone, rounds>>

\* replace_empty_category_dir_with_link
ReplaceStale ==
    /\ folder.files = {}
    /\ UpkeepStep("replacing", "reconciling")
    /\ folder' = NoDir
    /\ links' = links \cup {<<Title, Title>>}
    /\ UNCHANGED <<all, manifest, index, locks, job, merged, alone, rounds>>

(***************************************************************************)
(* reconcile_categories, between two rebuilds.  An item whose metadata has *)
(* the category gets a junction of its directory's name if none leads to   *)
(* it.  One with a junction and without the category is filed under it,    *)
(* which takes its lock, unless the manifest has the junction: then        *)
(* metadata has lost the category, and the junction of the directory's     *)
(* name goes, if there is one, and so does the record.  (An import that    *)
(* shares its directory with an item writes over its metadata; removals by *)
(* the user are in CategorySync.)  The first error ends the scan, with     *)
(* what was done before it in place and the manifest not saved.            *)
(***************************************************************************)
Linked(n) == \E l \in links : l[2] = n
ToLink == {n \in ManagedNames : all[n].filed /\ ~Linked(n)}
Unlisted == {n \in ManagedNames : ~all[n].filed /\ Linked(n)}
ToUnlink == {n \in Unlisted : all[n].id \in manifest}
ToFile == Unlisted \ ToUnlink

IdsOf(names) == {all[n].id : n \in names}

Stuck ==
    {n \in ToLink : ~CanLink(n, n)} \cup {n \in ToFile : all[n].id \in locks}
        \cup {n \in ToUnlink : n = Title /\ Exists(folder)}

Projects(some) ==
    /\ links' = {l \in links : l[1] \notin some \cap ToUnlink}
                    \cup {<<n, n>> : n \in some \cap ToLink}
    /\ all' = [n \in Names |->
                IF n \in some \cap ToFile THEN [all[n] EXCEPT !.filed = TRUE] ELSE all[n]]

\* Mutant of Reconcile: the junctions that are there are not looked at.
ReconcileMetadata ==
    /\ Stuck = {}
    /\ UpkeepStep("reconciling", "idle")
    /\ Projects(ToLink)
    /\ manifest' = manifest \cup IdsOf({n \in ManagedNames : all[n].filed})
    /\ index' = Rebuilt
    /\ job' = NoJob /\ alone' = FALSE
    /\ UNCHANGED <<folder, locks, merged, rounds>>

Reconcile ==
    /\ Stuck = {}
    /\ UpkeepStep("reconciling", "idle")
    /\ Projects(ToLink \cup Unlisted)
    /\ manifest' = (manifest \cup IdsOf({n \in ManagedNames : all[n].filed} \cup ToFile))
                       \ IdsOf(ToUnlink)
    /\ index' = Rebuilt
    /\ job' = NoJob /\ alone' = FALSE
    /\ UNCHANGED <<folder, locks, merged, rounds>>

ReconcileFails ==
    /\ Stuck # {}
    /\ UpkeepStep("reconciling", "idle")
    /\ \E some \in SUBSET ((ToLink \cup Unlisted) \ Stuck) : Projects(some)
    /\ index' = Rebuilt
    /\ job' = NoJob /\ alone' = FALSE
    /\ UNCHANGED <<folder, manifest, locks, merged, rounds>>

(***************************************************************************)
(* The daemon is killed: all calls end where they are, the lock files stay. *)
(***************************************************************************)
Crash ==
    /\ crashes < MaxCrashes
    /\ crashes' = crashes + 1
    /\ pc' = [c \in Imports |-> IF pc[c] \in {"idle", "over"} THEN pc[c] ELSE "over"]
    /\ step' = "idle" /\ job' = NoJob
    /\ alone' = FALSE /\ rounds' = 0
    /\ UNCHANGED <<library, locks, kind, dir, filename, given, merged, met>>

Next ==
    \/ \E c \in Imports :
          \/ Choose(c) \/ CreateDir(c) \/ PickName(c) \/ WriteAttachments(c)
          \/ CopyFile(c)
          \/ LockFile(c) \/ LockFileFails(c) \/ WriteItem(c) \/ WriteFileItem(c)
          \/ LinkItem(c) \/ LinkItemFails(c) \/ Finish(c) \/ FinishFile(c)
    \/ \E n \in Names : StartAdoption(n) \/ CheckUnmanaged(n)
    \/ StartNormalization \/ StartScan
    \/ CheckFails \/ LockAdopted \/ LockAdoptedFails \/ WriteAdopted \/ RebuildAdopted
    \/ Plan \/ LockFolder \/ LockFolderFails \/ RemoveCopy \/ MoveFolder
    \/ MoveFolderFails \/ WriteTitle \/ LinkFolder \/ LinkFolderFails \/ FileFolder
    \/ RebuildIndex \/ ReplaceStale \/ Reconcile \/ ReconcileFails
    \/ Crash

Spec == Init /\ [][Next]_vars

-------------------------------------------------------------------------------
(***************************************************************************)
(* The types; a name under the category belongs to a junction or to the    *)
(* folder; an item is in the library once (the index is keyed by id, so of *)
(* two directories with one id it would show one), and each junction leads *)
(* to a directory.                                                         *)
(***************************************************************************)
TypeOK ==
    /\ \A n \in Names :
          /\ all[n].id \in Ids \cup {NoMeta, Absent} /\ all[n].files \subseteq Files
          /\ all[n].filed \in BOOLEAN
    /\ folder \in
         {NoDir} \cup [files : SUBSET Files, id : Ids \cup {NoMeta}, filed : {FALSE}]
    /\ manifest \subseteq Ids /\ locks \subseteq Ids
    /\ index \subseteq Ids \X Names /\ links \subseteq Names \X Names
    /\ \A l, k \in links : l[1] = k[1] => l = k
    /\ Exists(folder) => \A l \in links : l[1] # Title
    /\ \A n, m \in ManagedNames : all[n].id = all[m].id => n = m
    /\ \A l \in links : Exists(all[l[2]])
    /\ dir \in [Files -> Names] /\ filename \in [Files -> Names]

(***************************************************************************)
(* A file that the user or an import put into the library gets lost in an  *)
(* import, an adoption, a normalization or a scan, whatever runs beside it *)
(* and wherever the daemon is killed, in two cases only: it was in a folder *)
(* that had the id of an item (remove_dir_all), or its directory is one    *)
(* that an import took at the same time as another import or as the folder *)
(* that was moved there, and that import's own file has its name.  What    *)
(* the user had in his own directory under All/ is never lost.             *)
(***************************************************************************)
Overwritten(f) ==
    /\ f # "mine" /\ dir[f] \in met
    /\ \E g \in given \cap Imports : g # f /\ dir[g] = dir[f] /\ filename[g] = filename[f]

FilesSurvive ==
    \A f \in given :
        \/ f \in folder.files
        \/ \E n \in Names : f \in all[n].files
        \/ f \in merged
        \/ Overwritten(f)

(***************************************************************************)
(* A scan that ends well, with nothing else happening from its start to    *)
(* its end, leaves a library in which all agrees, whatever imports and     *)
(* normalizations that failed or were killed left behind: each directory   *)
(* under All/ has its metadata and is in the index, no folder with files   *)
(* is left under the category, and an item has a junction, which the       *)
(* manifest has, exactly if its metadata has the category.  But for one    *)
(* case: the junction of a normalized folder has not the name of its       *)
(* directory, and stays when an import has written the category away.      *)
(***************************************************************************)
Repaired ==
    /\ Unmanaged = {} /\ index = Rebuilt
    /\ folder.files = {}
    /\ \A n \in ManagedNames : all[n].filed => Linked(n) /\ all[n].id \in manifest

\* Items that metadata no longer files, with a junction that goes by another name.
Straying == {n \in ToUnlink : \E l \in links : l[2] = n /\ l[1] # n}

ScanRepairs ==
    [][step = "reconciling" /\ Stuck = {} /\ step' = "idle" /\ crashes' = crashes /\ alone
        => /\ Repaired'
           /\ \A n \in Names \ Straying : Linked(n)' => all[n].filed']_vars
===============================================================================
