# A TLA+ model of localref

localref is a local reference manager: a Rust daemon that owns a library of
items on disk, a connector server that receives items from the Zotero browser
extension, a host that runs plugins, and a desktop application in C#. This
directory holds TLA+ modules of the parts whose correctness depends on the
order of concurrent steps and on failures between them, the TLC configurations
that check them on small instances, and TLAPS proofs.

`PROJECT.json` lists the components, the runs, for every property a plausible
bug of the code that breaks it, the source lines each definition models, the
disagreements found between code and documentation, and the hazards of the code
with the properties that cover them. Paths below are relative to the repository
root; `core` is `src/crates/core/src`, `csc` is `src/crates/csc/src`, `host`,
`plugin` likewise.

    tlc -workers 2 -config MCItemWrites.cfg MCItemWrites.tla
    tlapm ItemWritesProofs.tla

A module without an `MC` module has no run: its properties are stated by
theorems only (section 5), which hold for every value of its constants.

## 1. Inventory

### The system

    browser ──saveItems/saveAttachment──▶ csc sink ─┐
    desktop (C#) ──FFI──▶ host runtime ─────────────┤
    clients ──REST──────────────────────────────────┼─▶ LocalrefDaemon ─▶ library on disk
    plugins (processes) ──REST──────────────────────┘        │             + redb index
         ▲                                                   ▼
         └──── hook dispatcher, cron scheduler ◀── broadcast events (256)

There is no worker thread in the daemon. Every command runs synchronously on
the thread of whoever called it, so any number are inside at once; a few steps
take the mutex of the task queue, a few take a lock *file*, redb orders its
write transactions, and nothing else orders anything. The user's editor and file
manager write the same library at the same time, and the library outlives every
crash.

### Components

| component | state | operations | what makes it correct | modelled in |
|---|---|---|---|---|
| **Item writers** (`core/lib.rs`, `lock.rs`, `platformfs`) | `All/<item>/metadata.toml`, its staging file, the attachments, `.localref/locks/*` | patch, extra edit, category edit, add file, upload, attach, archive, delete | no lost update, compare-and-swap patches, whole files, no leaked locks | `ItemWrites` |
| **Category membership** (`core/lib.rs`, `manifest.rs`, `platformfs`) | metadata categories, tombstones, `Cat/` junctions, `cat-manifest.toml`, index | add, remove, create, rename, merge, scan; the user's edits by hand | the copies converge; a removal sticks; hand-made junctions are adopted, projected ones are not | `CategorySync` |
| **Task queue and index rebuilds** (`core/lib.rs`, `storage`) | queued tasks, history, `running`, pause modes, the committed index | every daemon call, pause, resume | the index shows the library; events follow the index; status settles | `TaskQueue` |
| **Query index** (`core/storage`) | the redb tables, the set of indexed fields | rebuild, rescan, search, list, summaries | a committed state is one reading of the library; its tables agree | `QueryIndex` |
| **Imports and normalization** (`core/lib.rs`, `scan`) | `All/`, `Cat/` directories | import file, import connector item, adopt a directory, normalize folders, scan | each import has a directory of its own; no file is lost on the way; a scan repairs | `LibraryImports` |
| **Connector sessions** (`csc/daemon_sink.rs`) | the list of save sessions in memory | saveItems, saveAttachment | 201 means saved; a file goes to the item of its save; nothing is dropped; the list is bounded | `ConnectorSessions` |
| Rules (`core/rules`) | `rules.toml` | save, edit by hand, file an import | an import is filed by the rules last saved | `RuleFiling` |
| Event bus (`core/lib.rs`) | a broadcast channel of 256 events | emit, subscribe | receivers that lag learn what they need | `TaskQueue` (when), `PluginWorkers` (loss), `LibraryView` |
| Schedules (`core/schedule.rs`) | `schedules.toml` | register, remove, list | no schedule is lost | `PluginWorkers` |
| **Plugin workers** (`host/scheduler.rs`, `health.rs`) | hook receiver, cron table, failure window, health | dispatch, fire, reload, restart with back-off | no hook twice, a new schedule is taken up, a crash is answered | `PluginWorkers` |
| **Plugin registry and runs** (`plugin`) | running entries with cancel channels | invoke, exit, timeout, cancel, cancel all | one answer per run; shutdown stops every run | `PluginRuns`, `RunContract` |
| Host start-up (`host/init.rs`, `ffi`, `core/plugin_state.rs`) | installed bundles, `plugin-state.toml`, the owner of the database | install, start, enable, disable | a bundle is whole; a disabled plugin stays so | `HostSetup` |
| Settings (`core/config`, settings windows) | `config.toml` | load, save | no setting is lost | `SettingsFile` |
| Daemon log (`core/logging.rs`) | the log files, ring buffer | write, rotate, poll | only the oldest lines go; the ring is recent | `DaemonLog`, `LogRing` |
| Desktop (`src/app/Localref.Desktop`) | child process, crash window, preview version, list of references | start, exit, restart, preview, refresh | restarts are bounded; a late preview does not win; the window follows the library | `PluginWorkers`, `PluginRuns`, `LibraryView` |
| **s3sync** (`src/examples/plugins/s3sync`) | objects in a bucket; attachments; `config.toml`; the mirror of the conflicts; marks of items | scan, publish, acknowledge, compact; apply; resolve; sync | a compaction loses no commit, a scan skips none; the user's edits survive; the page tells | `CatalogStore`, `SyncReplica`, `ConflictMirror`, `SyncRuns` |
| **liteparse-rag** (`src/examples/plugins/liteparse-rag`) | queue file, lock directory, artifacts, models | enqueue, take, process, publish; download, verify | no item is forgotten; artifacts are whole; models are the pinned ones | `RagQueue`, `ModelStore` |
| REST, FFI translation, server sockets, small plugins, SDK, error and type definitions | none of their own | translation of calls, parsing, operating-system calls | a unit test reaches it | not modelled |

How they interact: REST, FFI and the connector sink *call* the daemon and block
until it answers; the daemon *publishes* completion events; the workers
*receive* them and start plugin processes, which *call* REST; the commands of
the daemon *share* the library, the manifest and the index.

### Hard behaviours

1. **Two keys for one file.** Category edits, extra edits and deletes lock the
   item id; patches and attachment writes lock the path of the directory; an
   archive locks nothing. All rewrite `metadata.toml`.
2. **Lock files and staging files outlive a crash**, and a failed write.
3. **Filing is six steps** over three files, each of which can fail, while the
   user edits two of them.
4. **The index is read before its transaction begins**, so a rebuild that was
   overtaken commits an older library over a newer one.
5. **Pause modes are asked once**, at the start of a task, and not by calls that
   record no task (section 4).
6. **Requests of one browser save come one by one** and are joined by a session
   id the daemon does not control, in a list that forgets.
7. **Events are lossy**, receivers lag, workers crash and restart, plugin runs
   end by exit, timeout or cancellation at once.
8. **The catalog of the s3sync plugin** lives in a store without transactions,
   and several machines commit and compact it.

## 2. Modules

### `ItemWrites`: the writers of one item

One item, a set of requests, each of any kind, at the grain of filesystem
calls. A document (the text of `metadata.toml`) is the set of edits it reflects
and the files it lists, and may be *torn* (half written). `snap[r]` is the text
request `r` works from: for a patch what its caller fetched earlier, then what
the request read under its lock.

| state | code |
|---|---|
| `meta`, `tmp`, `tmpOwner` | `metadata.toml`; `.metadata.toml.localref-tmp` and the open handle on it (`platformfs` `atomic_write`: `create_new`, write, sync, rename; a failed write leaves it behind) |
| `lockFiles` | `.localref/locks/<key>.lock` (`lock.rs`: `create_new`, owner line, removed on drop) |
| `dir`, `disk`, `saved` | the directory, its attachments, the refused candidate `metadata.daemon.toml` |
| `indexed` | the item is in the query index |
| `pc`, `op`, `file`, `snap`, `result` | a call in progress: where it is, what it is, what it has in hand, what it answered |
| `missed`, `published`, `clobbered`, `trashed`, `emptied` | history, for the properties |

`Arrive`, `Lookup`, `Acquire`, `AcquireFails`, `CopyTo`, `WriteUnique`,
`MoveToTrash`, `Read`, `SaveCandidate`, `OpenTmp`, `WriteTmp`, `WriteFails`,
`Rename`, `RemoveEntries`, `RemoveDir`, `Reindex` and `Unlock` are the steps of
the calls; a kind of operation takes those its code makes, in its order.
`Crash` stops every request where it is and leaves the files.

`SameKeyNoOverwrite`, `EditsSurvive`: which overwriting the locks exclude.
`PatchIsCompareAndSwap`, `PublishesItsOwn`: a patch replaces what its caller
fetched, and what is renamed is what was computed. `NeverTorn`: no half document
is published. `ListedFilesExist`, `NothingLeaks`: the error paths.

### `CategorySync`: four copies of one relation

`meta` (the source of truth), `manifest` and `index` are sets of pairs of an item
and a category, `tomb` is `[state].removed_categories`. `links` is the set of
junctions, each with the pair it stands for and its own name, and `dirs` the
directories of categories. The daemon makes and removes the junction named like
the directory of the item (`Own`); a scan finds one by the item it leads to,
under any name (`Disk` is the pairs it finds). So a removal may take nothing, or
the junction of another item that has that name (`evicted`), and a name in use
stops the making of a junction (`Blocked`).
A command owns the copies it has loaded (`local`): the manifest, which it saves
whole at the end, and what the scan saw. `Give` starts a command; `LoadManifest`,
`EditCategory`, `CreateLink`, `DropUnmatched`, `RemoveLink`, `RenameDir`,
`MergeDir`, `ListItems`, `Remap`, `Refresh`, `ScanDisk`, `ReadTombstones`,
`Reconcile`, `SaveManifest`, `Rebuild` are the steps of the six commands;
`EditConflict` is an edit that answers `Conflict`; `ByHand` is the user, who makes
junctions of any name. A metadata edit of one item is one step, because
`ItemWrites` has what happens under its lock.

`ScanConverges`: an undisturbed scan repairs whatever failures and hands left,
and unfiles nothing; what is left is junctions of other names that metadata does
not list and the manifest no longer has. `CommandsKeepAgreement`,
`FilingLeavesUnmatched`: an undisturbed command on copies in agreement keeps them
so, up to such junctions after a removal. `RemovalSticks`: a removed category does not
come back by a scan, in any interleaving. `AdoptsOnlyHandMade` is the manifest's
promise, and fails (below).

### `TaskQueue`: tasks, pauses and rebuilds

The commands by the order of their steps: `write` (metadata, extra, import,
category and delete commands: rebuild, event, finish), `addFile` (rebuild,
finish, event), `attach` (no event), `scan`, and the calls without a task,
`archive` and `refresh` (`rebuild_index`). A command's change of the library
is one step (`Work`), and the set of commands whose change is in place stands
for the library. `ReadLibrary` and `Commit` are the two halves of
`rebuild_from_all`. `Enqueue`, `MarkRunning`, `Check`, `Finish`, `Pause`,
`Resume` are the steps under the queue mutex.

`IndexFresh`: with no call inside, only what an overtaking rebuild took out, or
a call that failed after its change, is missing from the index.
`EventAfterIndex`: a hook started by an event finds the change. `StatusSettles`:
the records end in a state that agrees with the answers. Pauses are modelled
(`Check` asks, once), but no property is stated of them: what the docs promise
does not hold (section 4), and what does hold is the guard itself.

### `ConnectorSessions`: the saves of the browser

`sessions` is the list behind the mutex of `DaemonConnectorSink`; since both
requests hold the mutex throughout, each is one action: `AcceptImport`, and for
an attachment `SaveLate`, `Buffer`, `Orphan` or `Standalone`, by where `Route`
sends it. The loop `try_import_locked` is the choice of the place where it
stops (`Stops`), with the imports before it done; a failed import leaves
nothing, or the whole item when its last steps failed. `Restart` clears the list.

`CreatedIsSaved`, `NothingDropped`: what 201 promises. `RightItem`: a file goes
to the item of its save. `WindowBounded`: the list stays bounded, failed
requests aside, which skip the pruning.

### `PluginWorkers`: hooks, schedules and their supervision

Two workers, the hook dispatcher and the cron scheduler, each with a receiver
(`cursor`) on the list of events (`log`), of which the channel holds the last
`Capacity`: a receiver further behind continues at the oldest it can have.
`schedules.toml` (`file`) is changed by calls that load it, truncate it, write
it and publish `SchedulesChanged` (`pc`, `text`), under no lock. `worker`,
`failures`, `health`, `told` are the supervisors, the health report and the
desktop's monitor; `app`, `exits` the process and its supervisor. `System` is
what the program does by itself, `Environment` the calls, events, clock ticks,
rescans, settings and faults, `MaxEnv` of them in all.

`RegisteredStays`: what completed calls made of the schedules is in the file,
but for overlapping calls and cut-off writes. `StartedOnce`: no hook twice for
one event, whatever a panic interrupts. `ScheduleTakenUp`, `HooksRun`,
`CrashAnswered`: in the end the cron table is that of the file and the plugins
found, the events not lagged over have started their hooks, a panicked worker
runs again or health is fatal and reported.

### `RunContract` and `PluginRuns`: the runs of plugins

`RunContract` is the abstract promise: a run begins, has one process, ends with
one answer, which is `cancelled` only if somebody asked and `dropped` only if the
daemon stops; and no run is under way for ever (`Answered`). `PluginRuns` is
the code: `phase` takes a run from its thread through spawn, registration and
the wait for the first of exit, timeout and cancellation; `entries` is the
registry; `app` is the end of the daemon, step by step; `form`, `version`,
`sent`, `shown` are the page with its previews. The refinement (`KeepsContract`,
which is `Contract!Spec`) maps `stage`, `answer` to what `phase` and `outcome`
say of a run, `live` to `alive`, `asked` to `fired`, `stopped` to `app # "up"`,
`gone` to `app = "exited"`.

`Tracked`: a live process is listed or told to end, but between spawn and
registration; an ended run is not listed. `NoneOutlivesRuntime`.
`PreviewSettles`: the page ends up showing the answer to its form.

### `CatalogStore`: the remote catalog of s3sync

Packs, commits, segments, snapshots, `latest.json`, the registry and the
acknowledgements are sets of objects; each action is one request to a store
without transactions. A session scans (latest, snapshot, list, fetch), delivers,
publishes in four requests, acknowledges, and if it is a maintainer, as every
client is by default, compacts: puts a snapshot, moves `latest.json`, retires.
The engine chooses the generation; a put of one that is stored is a success and
changes nothing (`PutCreate`). `Abort` ends a session anywhere. `disturbed` says
that a compaction came across another one (a generation as high as its own, a
snapshot published since its scan, one under way) or across a scan that had not
listed the segments yet and goes on.

Both properties hold up to the first such encounter, for any number of clients
that compact, and not beyond it (section 4). `CatalogIntact`: `latest.json` names
a stored snapshot; published commits stay visible until retired, that is
acknowledged by all who are registered; what is visible is stored.
`ScansComplete`: a scan moves its cursors past nothing it did not deliver,
whatever is compacted from its listing on. `ReadersFind` is what the comment of
`compact_catalog` promises the readers, and fails.

### `LibraryImports`: how items come into the library

`all` is what is under `All/`, `folder` the user's own directory under the
category, `links` the junctions, `manifest`, `index`, `locks`; `pc`, `dir` are
the imports, `step`, `job` the adoption, normalization or scan in progress. All
names collide: there is one title, and the n-th name is its n-th suffix; and all
files come with one name. `filename` is the name a file has in its directory: an
attachment of the connector looks for a free one (`PickName`) and then writes, a
dropped file is copied over whatever has its name. A junction is a pair of its
own name and the directory it leads to. The user's own work is the choice of
`Init` among `Leftovers`. A crash stops all calls and leaves what is on disk.

`FilesSurvive`: each file the user or an import gave (`given`) is in the
library, but for two known losses: the folder that had the id of an item, which
normalization removes (`merged`), and a file that an import wrote over in a
directory it came to share (`Overwritten`), with another import or with a folder
that normalization moved there. What the user has in a directory of his own
under `All/` is in neither case. `ScanRepairs`: an undisturbed scan leaves all
directories adopted and indexed, no folder under the category, junctions where
metadata has the category, and none elsewhere but `Straying` ones: the manifest
has the item, so the scan removes the junction named like its directory, and
the junction there has another name.

### The modules that have theorems and no run

- `QueryIndex`: a rebuild reads `All/` directory by directory while others
  change it, and puts two tables in one transaction; a rescan changes the set of
  indexed fields first. `NothingMadeUp`, `SteadyShown`, `TablesAgree`,
  `FieldsIndexed`.
- `RuleFiling`: `rules.toml` rewritten in place beside imports that read it.
- `HostSetup`: instances that install bundles file by file, one owner of the
  database, `plugin-state.toml`. `BundlesWhole`, `DisabledKept`.
- `SettingsFile`: load-change-save of `config.toml` from many processes without
  a lock. `SettingsKept`: unless saves met or one was cut off.
- `DaemonLog`, `LogRing`: the rotation as a walk over the backups each of whose
  steps may fail and be begun anew; the ring whose numbers and pushes are under
  different locks. `NewestRetained`, `FilesInOrder`, `RingIsRecent`,
  `NumbersAccounted`. A line counts as written when it is in the file.
- `LibraryView`: the window of the desktop, its subscription with a channel that
  drops the oldest, and the reads that follow a change.
- `SyncReplica`: the calls the sync engine makes, in any order, on an attachment
  its user edits; `EditsKept`, `TokensBacked`.
- `ConflictMirror`: the conflicts, the file that mirrors them, the page;
  `PageCurrent`.
- `SyncRuns`: a run of s3sync: `config.toml` with the client id, the engine's
  database, the marks of items; `IdKept`, `EditKept`, `MarksTell`.
- `RagQueue`: `queue.json` under the directory lock, runs of hooks, cron and
  actions, artifacts swapped in by renames, kills at any step.
  `QueueExclusive`, `NothingForgotten`, `PublishedWhole`, `ArtifactsKept`.
- `ModelStore`: downloads and verifications of pinned models by many processes
  over temporary paths that two assets may share. `KnownRight`, `ReadyRight`.

`ItemWritesProofs`, `CategorySyncProofs`, `PluginRunsProofs` and
`PluginWorkersProofs` extend the module they are named after. `IndexProofs`
extends `TaskQueue` and `QueryIndex`; `IntakeProofs` extends `LibraryImports`,
`RagQueue` and `ModelStore`; `SyncProofs` the four modules of s3sync;
`HostProofs` `ConnectorSessions`, `HostSetup`, `SettingsFile`, `RuleFiling`,
`DaemonLog`, `LogRing` and `LibraryView`. That is why the modules of one such
group have no names in common (`QueueInit`, `StoreInit`, ...).

## 3. Runs

| run | instance | distinct states | shows |
|---|---|---|---|
| `item_writes` | 3 requests of any of 8 kinds, 2 attachment names, 1 crash or failed write | 583,821 | what locks, staging file and revision exclude |
| `item_writes_keys` | 2 requests, patch and extra edit, no fault | stops at the violation | a lost update across lock keys |
| `category_sync` | 2 items, 2 categories (one is `unmatched`), junctions named like either item, 2 commands of 6 kinds, 1 edit by hand | 1,170,123 | convergence, lasting removals |
| `category_sync_adopt` | 3 commands (add, scan), 1 edit by hand | stops at the violation | a scan adopts the daemon's own junction |
| `task_queue` | 3 calls of 6 kinds, 2 changes of pause modes | 1,202,248 | freshness, order of events, settled status |
| `connector_sessions` | 3 saves (one never importable), 2 attachments, 2 session ids and none, 1 completed session kept, 1 failure or restart | 762,080 | 201 means saved, in the right item |
| `connector_sessions_blocked` | 2 saves (one never importable), 1 attachment, no failure by chance | stops at the violation | a failing save blocks the later ones |
| `plugin_workers` | 2 plugins, 1 job, 2 schedules, calls register, register, remove, a channel of 1, 1 restart, 3 things from outside | 158,586 | schedules stay and are taken up, hooks run once, crashes are answered |
| `plugin_runs` | 2 previews, 1 action that refreshes, 1 task, 2 form values | 607,990 | the registry is true, the preview settles, the contract is kept |
| `catalog` | 2 clients, both compact; 2 commits, both by one or one by each; 2 generations, 1 kept; sessions end anywhere; states up to the first disturbance | 2,359,398 | until then the catalog loses nothing, scans skip nothing |
| `catalog_readers` | 2 clients, one compacts; 2 commits; 1 generation | stops at the violation | a compaction between the reads of a scan makes it skip a commit |
| `imports` | 2 imports, 4 names, files of one name, 10 leftover layouts, 1 upkeep call before and after each crash, 1 crash | 2,450,667 | files survive, a scan repairs |

### Bounds, and why they are enough

- *Requests, commands, calls* happen at most once each; a repeated call is
  another element of the set. Three requests let one hold the id key, one the
  directory key and one no key, and let a third observe what two others left.
- *One item* (`ItemWrites`): the locks are per item. *Two items* (`CategorySync`),
  whose names are all the names there are: a junction may have the name of its
  item or of the other, so a removal or a projection by name can meet one that
  leads elsewhere. A third name only adds junctions no command ever names.
- *Two categories*: `unmatched` and one other; a rename or a merge takes either
  for its source, `category_sync_adopt` has a third.
- *`MaxFaults` = 1, `MaxHandEdits` = 1, `MaxPauses` = 2*: one fault or edit by
  hand, then everything that can happen after it (the junctions of the first
  state may be of any names besides); a pause and a resume, or two modes.
- *`MaxCompleted` = 1* (16 in the code): so that pruning happens after the second
  save. *`Capacity` = 1* (256), *`Restarts` = 1* (3): so that a receiver lags, and
  a worker is given up, within three events.
- *`MaxSnapshots` = 2, `Keep` = 1* (2): so that a generation is deleted when the
  next one is there, and a put can meet a generation that is stored; two commits
  of one client let one be in a snapshot and one not. The constraints of the two
  catalog runs cut off states only: behind a disturbance the first claims
  nothing, and the second leaves out puts that meet a stored generation, so that
  what it shows is due to the order of the requests alone.
- *Four names*: two for the imports, one for the user's directory and one for the
  folder that normalization moves.
- The theorems are free of the bounds: they hold for every value of them.
- Symmetry is declared over interchangeable constants only (requests, files,
  real categories, calls, importable saves, attachments, session ids, imports),
  and no configuration with a liveness property uses it.

### Fairness and deadlock

`PluginWorkers` assumes weak fairness of each call's own steps, the notification
of a changed schedule, the two workers, the restarts of their supervisors, the
health monitor and the restart of the process; `PluginRuns` of the steps of the
runs (their timeouts among them) and of the page's own steps. Those are threads,
tasks and timers that the operating system and the async runtime run on.
Nothing is assumed of users, of failures, of the clock that makes jobs due, nor
of plugin processes, which may never exit by themselves. The other modules have
no liveness property and no fairness.

`CHECK_DEADLOCK FALSE` stands in the configurations because each call happens at
most once, or what comes from outside is bounded: when all is over the modelled
system has nothing left to do, as the daemon when nobody calls it. (No step of
a daemon call waits for another one but for the mutexes, which are held within
one action: a taken lock file is answered with a conflict, a taken staging file
with an error.)

## 4. Disagreements between the code and what it says

1. **Lost update across lock keys** (`item_writes_keys`, `WritesSerialized`).
   `core/lock.rs:3-6` says the locks serialize daemon write commands instead of
   silently overwriting. `write_metadata_if_revision` locks the path of the
   directory, `set_item_extra` and `edit_item_categories` the item id: both
   requests read the same text, both rename, the first change is gone, and both
   callers were told ok.
2. **The daemon's own junction adopted** (`category_sync_adopt`,
   `AdoptsOnlyHandMade`). `core/manifest.rs:8-14` says the manifest tells
   projected junctions from hand-made ones. A command that ends in a lock
   conflict after creating its junction never saves the manifest; when the user
   takes the category out of metadata, the next scan files the item again.
3. **A compaction between the reads of a scan** (`catalog_readers`, `ReadersFind`).
   `s3_remote.rs:1549-1550` says that covered segments and commits are deleted
   only after readers can discover the snapshot. `scan_catalog` reads
   `latest.json` first and lists the segments later. When a compaction publishes
   its snapshot and deletes the segments it covers in between, the scan finds a
   newer segment of that client only, and its cursor goes past commits that were
   never delivered; later scans ask for what is beyond it. One compacting client
   and one reader are enough.
4. **A failing save blocks the later ones** (`connector_sessions_blocked`,
   `EverySessionTried`). `csc/daemon_sink.rs:51` says every buffered session is
   tried; the loop ends at the first import that fails, and a session that can
   never be imported stays first until the daemon restarts.

### Also seen

What follows was met while modelling. It contradicts no sentence of the
repository that a run could quote, or it is where a property has its exception.

- *Imports.* `create_metadata_for_all_directory` asks whether `metadata.toml` is
  absent before it takes its lock, which is that of an id of its own making: a
  connector import that finishes in between has its metadata replaced by a bare
  one, and its id changed (TLC finds it in eleven states). An item filed under a
  category whose junction is missing, with a user's folder of the same name
  there: the folder moves to `title (2)` and is linked under `title`, and then
  the item cannot be projected; that scan and all later ones fail. Two imports
  may take one directory, `create_unique_item_dir` being a test and a creation.
  A leaked lock, or the first directory that cannot be adopted, ends a scan with
  the rest undone. Normalization removes the copy of an item before the link
  that replaces it exists.
- *Imports that share a directory.* `fs::copy` (`core/lib.rs:2478`) replaces a
  file of the imported name, also one of the user's that came with a folder
  which normalization moved to that name between the test and the creation. Two
  connector imports in one directory can pick one free name
  (`core/lib.rs:3241-3270`) and the second replaces the attachment of the first.
- *Junctions of other names.* Removals go by the name of the item's directory
  (`core/lib.rs:1410-1416`, `2079-2081`) and call it a success when there is no
  such entry (`platformfs/mod.rs:328-343`); scans go by the item a junction leads
  to. A junction of another name (the user's, or one that a normalized folder
  left, `core/lib.rs:2702-2706`) is therefore not removed while its record is. If
  a command removed the category, its tombstone keeps later scans from adopting
  the junction, which stays; if the user took it out of metadata, a later scan
  takes the junction for hand-made, and the category comes back. A removal by
  name can take the junction of another item, which the next scan makes again
  under its own name. (On Unix `remove_dir` fails on a symbolic link; the
  junctions of Windows are modelled.)
- *Pauses.* `core/lib.rs:213-216` says that the modes pause all daemon work, or
  all writes: `archive_item_file` records no task and never asks (1023). Line 219
  has `Indexing` pause index updates: only tasks of kind scan ask for that mode,
  and every write task rebuilds the index under it. A call that has passed its
  check goes on through a pause.
- *The catalog with several compacting clients.* `history_retention_versions`
  defaults to 50, so every client compacts (`s3sync/main.rs:511`); there is no
  lease. Beyond what `disturbed` excludes TLC finds: two compactions that read
  one `latest.json`, where the lesser snapshot or the pruned generation ends up
  visible; a put that meets the generation of a compaction that died and takes
  those contents for its own (`s3_remote.rs:281-294`), then deletes what only its
  own had; and a client that skipped a commit (disagreement 3) and compacts,
  which loses it for everyone.
- *Workers.* A fatal health state is reported once and nothing restarts the
  worker, although `scheduler.rs:57` says both run for the process lifetime. Jobs
  that were due at a reload are dropped. The workers hold a clone of the daemon,
  so their channel never closes.
- *Runs.* "No plugin child outlives the app" (`registry.rs:173-174`) does not
  hold between the spawn of a blocking call and its registration when
  `cancel_all` comes there. `preview_plugin_action` passes no timeout though one is
  resolved for it. "Cancelled X" is told though the run may have ended.
- *Connector.* `sessionProgress` always answers done, `saveSnapshot` 201 though
  nothing is saved (as documented). The list of targets is ordered as strings,
  so `a-b` can come between `a` and `a/b`.
- *liteparse-rag.* A run killed in the lock leaves `queue.lock` for ever. `take`
  empties the queue before the work, so a killed run loses what it held. An
  unreadable `queue.json` counts as empty and is overwritten. Failures of an
  action are never requeued though `docs/liteparse-rag-plugin.md:50-51` says so. A
  hook sets the status `queued` after it has enqueued, and may overwrite `ready`.
  A kill between the renames strands artifacts under another name. Two downloads
  with one temporary path can publish a damaged model (`shared`), and the digest
  is that of the bytes received. A lock entry that differs from the pinned digest
  is never repaired.
- *s3sync on the client.* Between test and use in the replica there are three
  windows: of an edit there the engine may have the token without the contents,
  takes it for its own version and never uploads it. A kill inside a write leaves
  a torn attachment, which the next sync uploads. The mirror of the conflicts is
  removed before the new one is renamed into place. The first save of `config.toml`
  drops the comments of the starter file; two first runs can make two ids. A
  resolution does not reset the marks of the item.
- *Log.* A failed rotation leaves the writer without a file and a length above
  the limit, so the next line rotates again: the backups shift twice and the
  lines in between are lost. A failed opening turns the file log off. `entries()`
  need not be in the order of the numbers, which are taken under another lock.
- *Index.* A malformed `metadata.toml` is skipped; of two directories with one id
  the items table has the last read and the extra index both; a file that
  vanishes while it is read fails the rebuild. The extra index is written and
  never read by the search.
- *Files rewritten in place* (`config.toml`, `schedules.toml`, `rules.toml`,
  `plugin-state.toml`): a reader at that moment sees all defaults, and may save
  them; a kill leaves a prefix. An import that reads `rules.toml` while it is
  empty is unmatched; an unreadable `plugin-state.toml` enables every plugin. A
  bundle copied half is never completed without `--force`.
- *Rules.* Rules about `venue` match no import. A query without atoms is accepted
  though the doc says it is rejected. ` OR ` inside a regular expression splits it.
- *Window.* Enough status messages push a change out of the channel, and the
  window stays stale until the next change; commands that fail half way publish
  no event.

## 5. Proofs

| module | theorems (the property of a run in bold) |
|---|---|
| `ItemWritesProofs` | `TypeCorrect` (**TypeOK**), `MutualExclusion`, `NoOverwrite` (**SameKeyNoOverwrite**), `CompareAndSwap` (**PatchIsCompareAndSwap**), `NoEditVanishes` (**EditsSurvive**), `NoTornText` (**NeverTorn**), `ListedFilesKept` (**ListedFilesExist**), `LeakFree` (**NothingLeaks**), `PublishesOwnText` (**PublishesItsOwn**) |
| `CategorySyncProofs` | `TypeCorrect` (**TypeOK**), `RemovalsStick` (**RemovalSticks**), `ScansConverge` (**ScanConverges**), `CommandsAgree` (**CommandsKeepAgreement**), `FilingLeaves` (**FilingLeavesUnmatched**) |
| `IndexProofs` | `TypeCorrect` (**TypeOK**), `IndexStaysFresh` (**IndexFresh**), `EventsAfterIndex` (**EventAfterIndex**), `StatusTells` (**StatusSettles**); of `QueryIndex`: `ItemsShown`, `IndexAgrees`, `RescanTakesEffect` |
| `HostProofs` | of `ConnectorSessions`: `TypeCorrect` (**TypeOK**), `SavesArrive` (**CreatedIsSaved**), `FilesGoToTheirItem` (**RightItem**), `FilesAreKept` (**NothingDropped**), `WindowStaysBounded` (**WindowBounded**); `BundlesStayWhole`, `DisabledStay`, `SettingsStay`, `WindowsApart`, `ImportsAreFiled`, `VenueMatchesNothing`, `OnlyOldestLost`, `RingHasTheLast`, `NumbersAreKept`, `WindowFollows` |
| `IntakeProofs` | of `LibraryImports`: `TypeCorrect` (**TypeOK**), `FilesStay` (**FilesSurvive**), `ScansRepair` (**ScanRepairs**); `LockExcludes`, `NoItemForgotten`, `ArtifactsSafe`, `ModelsStayRight`, `ExtractionsUsePinned` |
| `PluginWorkersProofs` | `TypeCorrect` (**TypeOK**), `CompletedCallsStay` (**RegisteredStays**), `HooksStartOnce` (**StartedOnce**) |
| `PluginRunsProofs` | `TypeCorrect` (**TypeOK**), `RunsTracked` (**Tracked**), `RuntimeTakesAll` (**NoneOutlivesRuntime**), `RunsKeepContract` (the safety half of **KeepsContract**) |
| `SyncProofs` | of `CatalogStore`: `TypeCorrect` (**TypeOK**), `CatalogStaysIntact` (**CatalogIntact**), `ScansSkipNothing` (**ScansComplete**); `NoEditLost`, `NoEditMistaken`, `PageShowsPending`, `IdentityStays`, `MarksAreOfTheLast` |

So every invariant and every action property that a run checks holds for every
value of the constants, under the assumptions below. Type correctness of the
modules without a run is proved too (`QueueTypeCorrect`, `StoreTypeCorrect`, ...).

### Assumptions

Those on the constants of modules with a run are named in the module and TLC
evaluates them in each run: kinds are subsets of the kinds there are, bounds are
natural numbers, what stands for nothing is no element, and

- `ImportsAssumption`: an import is neither of the two marks of the user's files;
- `LeftoversAssumption`: what the user left is a set of well-formed layouts;
- `RequestsAssumption`: a save and an attachment are different requests;
- `RunsAssumption`: previews, actions and tasks are different runs.

Modules without a run state theirs in the theorems: `Table` (the pinned models
are contents and a temporary path is given for each), `SyncTable`,
`SettingsTable`, `FilingTable` (what stands for absent or broken is no value),
`Nobody \notin Instances`, `Backups \in Nat`, `Capacity \in Nat \ {0}`, `Channel \in
Nat \ {0}`. No set is assumed
finite.

### The arguments

**Item writers.** `TypeOK` is not inductive: `CallInv` says what the place of a
request tells of its operation. `SameKeyNoOverwrite` talks about the past; it
follows from what a request has *missed* since it read: `MissedInv` says that
between its read and its rename a request with a lock misses only changes of
other keys. That needs `LockInv`, the mutual exclusion of lock files, which
holds across crashes because a crash takes the guards and leaves the files.
`PatchInv` adds that a patch that missed nothing has the text in place in hand.
Until a delete empties the directory, `TextInv` says of the published text that
it is whole, lists files that are there or in the trash, and has every edit that
was not overwritten; `WriterInv(r)` says the same of the text a request works
from, and that the staging file is its own. `LeakInv`: without a fault each lock
file and staging file has its holder.

**Membership.** `IInv` is the types (`TypeInv`); that a command nothing has
disturbed is the only one under way (`AloneInv`); that what was removed is in no
metadata and has its tombstone (`RemovedInv`); and that no command but a scan is
about to file it, while a scan that reconciles has read its tombstone
(`CommandInv`). `AInv` adds what an undisturbed command has made of copies that
agreed (`CleanInv`, `FileInv`), that after a rename or merge the pairs of the
junctions are ahead of metadata by just what is still to be remapped (`MoveInv`),
and that of a scan the pairs it has been through agree while the others are
still as it saw them (`ScanInv`). Names enter in three places: a junction without
metadata that is left behind has another name than its item's, and no record
(`Named`); a pair whose junction a removal by name took from another item is in
`evicted`, so it lacks no more than that; and two junctions of one name in a category are
one. TLC finds both to be invariants of the `category_sync`
instance, and likewise those of the connector, the catalog and the imports of
theirs.

**Tasks and index.** `RecordInv` relates each record to where its call is,
`ChangeInv` says that a change which the index lacks was taken out by an older
reading, or its call failed or has still to rebuild. For `QueryIndex`, `ReadInv` says what a reading has seen of
each directory since it began, `WriteInv` that a transaction puts both tables
from one reading and the fields declared in it, `ItemsInv` what the committed
state owes to them.

**Connector.** `ConnectorInv` relates the list in memory, the library and the
answers: pending sessions differ in id; a save has one session; a completed
session names the directory of its save; an attachment answered 201 is in the
library or in a session. The list operations of the code become lemmas about
sequences: a loop over the pending sessions that stops anywhere (`Importing`),
the first session of an id (`FirstIs`), and a pruning that keeps order and all
pending sessions (`PruneIs`).

**Imports.** `ImportsInv` is the conjunction of the types; `JobInv` (what the
upkeep call decided still holds when it acts on it); `IdInv` (where an id can
be); `FolderInv` (the folder under the category is the user's, and what has its
id); `LinkInv` (a junction has the name of its directory, or the title);
`HomeInv` (an import keeps its directory, shares it only with what it met, and
each file is where its `dir` says, so one that a write replaces has a witness);
`MineInv` (no import takes the user's directory); `ScanInv` (what an undisturbed
scan goes by); and `FilesSurvive`. The lemmas `ImportPuts` and `UpkeepPuts` reduce each of the many
steps to what it does to one directory, and `ImportWrites`, `UpkeepWrites`,
`ImportLeaves`, `UpkeepLeaves` to what it may write and leave; the parts are
then proved from those.

**liteparse-rag.** `HandInv` and `DirInv` say what a run at each step has in
hand and on disk; `ReadInv` that a run inside the lock still has `queue.json` as
it read it. For the models, a run has a file open just while it verifies or
receives (`FileInv`), each temporary path has one writer or is `shared`
(`Alone`, `WriterInv`), what a reader has read is the file (`ReaderInv`), and
what a download is about to rename was compared with the table (`DownloadInv`);
an extraction has been through the assets below its place (`ReadyInv`).

**Workers and runs.** Seven conjuncts, one per part of `PluginWorkers`;
`FileInv` with `Differ` says that the file and what completed calls made of it
differ in schedules of overlapping calls only. `RunInv` relates place, process,
registry entry and answer of each run, `EndInv` the end of the daemon. The
refinement is by steps: `OneStage`, `OneAnswer` map a step of one run,
`DropMaps` the end of the runtime, which ends many at once, and `StepMaps` the
rest or a stutter.

**s3sync.** `OutInv` says that no segment, snapshot or cursor speaks of what is
not published, `PublishInv` that a client publishes in order; `CatalogInv`,
`StoredInv` that what is visible is stored; `CursorInv` that a client has been
given what is not retired below its cursors, and that these are beyond the
snapshot its scan went by; `PlanInv` that a plan takes up all it replaces while
that snapshot is the visible one, and that a compaction under way is the only
one; `ScanInv` that a scan which no compaction came across before its listing
leaves no gap, even when its snapshot is no longer the visible one. These hold
until `disturbed`, which is never unset: the induction carries the disjunction.
Least and greatest generations exist by `LeastExists`, `GreatestExists`, from
the well-foundedness of the natural numbers, with no operator argument.
`WindowInv` confines the replica's windows, `StageInv` the steps of the mirror,
`HolderInv` and `ConfigInv` the runs.

**Host.** `BundleInv`, `OwnerInv`, `StoreInv` (the exclusive open of the
database is why there is one writer of `plugin-state.toml`); `CopyInv` (a copy
loaded in a save that met no other is the file); `FiledInv`; `ShiftInv`,
`NewInv` (a walk has emptied the place the next file is renamed to, and the line
in hand is newer than what is written); `NumberInv` (numbers taken and not
pushed differ, and from those pushed); `FollowInv` (with no change on its way
the window is right as far as the refresh has come).

### Only model-checked

`ScheduleTakenUp`, `HooksRun`, `CrashAnswered`, `PreviewSettles` and the liveness half
of `KeepsContract`: liveness under fairness and `ENABLED` are beyond the prover
used. The properties of the four violation runs are false. The theorem modules
without a run were explored with TLC on small instances while they were written
(`SyncRuns` 5.98 million states, `RuleFiling` 143,703, `LibraryView` 25,804). What a
recursive definition computes for every input would need induction theorems that
take an operator; no module declares a `RECURSIVE` operator.

## 6. Not modelled, and why

- *The sync engine* (rollforward), its detection of conflicts and the S3 client
  are dependencies outside the repository; what they may do is a nondeterministic
  choice. Large parts of `s3_remote.rs` are compiled out (`#[cfg(any())]`).
- *REST, DTOs and most FFI calls* translate types and call the daemon.
- *A connector save's items after the first*, because the sink never imports
  them; the HTTP routes of the connector that keep no session.
- *Categories below categories* and the commands for several items at once, which
  take the same steps in a loop.
- *Contents*: field values, BibTeX, wording, PDF text and inference, formats.
- *Pure input handling*: manifests of plugins, cron expressions, paths.
- *Housekeeping*: the cleanup of the trash by age, the consumer of notifications.
- *Views* of the desktop other than the list and the plugin page.

## 7. Plan

1. An abstract specification `Membership` (one relation, changed by commands and
   by hand, that forgets nothing but what was removed), which `CategorySync`
   implements between scans.
2. Theorems: an abstract item (edits put one at a time) implemented by
   `ItemWrites` for requests of one lock key; an append-only log of commits
   implemented by `CatalogStore` until it is disturbed; a register of schedules
   implemented by `PluginWorkers` when calls do not overlap.
3. Candidates to model: the transfers of contents and the pages of history in
   `s3_remote.rs`, the bulk category commands, the REST handlers with a state of
   their own, the HTTP surface of the connector.
