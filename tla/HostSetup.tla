------------------------------ MODULE HostSetup ------------------------------
(***************************************************************************)
(* The start of a daemon (ffi, start_daemon), the built-in plugins it and  *)
(* localref init install (host, init.rs), and the plugins that are         *)
(* disabled (core, plugin_state.rs).                                       *)
(*                                                                         *)
(* Instances of the desktop and of the CLI share one library.  The query   *)
(* database has one owner, and the two server ports have; nothing else     *)
(* keeps instances apart.  A bundle is copied file by file, and            *)
(* plugin-state.toml is rewritten in place, so a failure or a kill leaves  *)
(* a part of either.                                                       *)
(***************************************************************************)
CONSTANTS
    Bundles,   \* built-in plugins staged beside the program
    Files,     \* what a bundle has beside plugin.toml
    Names,     \* plugins that can be disabled, built-in or others that are there
    Instances, Nobody

Parts == {"directory", "plugin.toml"} \cup Files

VARIABLES
    parts,    \* what is there of each bundle
    state,    \* plugin-state.toml: the plugins it disables
    owner,    \* who has the query database open
    bound,    \* who has the ports
    pc,       \* where an instance is
    daemon,   \* it is to start a daemon, not localref init
    force,    \* init --force
    left,     \* bundles to look at
    bundle,   \* the one it copies
    copied,   \* what it has copied of it
    found,    \* the plugins the daemon discovered
    disabled, \* the plugins that are disabled in the daemon
    off,      \* what was disabled last, or at first (history)
    broken,   \* bundles a copy of failed, or that a forced copy took from another (history)
    cut       \* a write of plugin-state.toml failed (history)

copying == <<daemon, force, left, bundle, copied>>
served == <<state, owner, bound, found, disabled, off, cut>>
hostVars == <<parts, served, pc, copying, broken>>

HostType ==
    /\ parts \in [Bundles -> SUBSET Parts]
    /\ state \subseteq Names /\ off \subseteq Names /\ disabled \in [Instances -> SUBSET Names]
    /\ owner \in Instances \cup {Nobody} /\ bound \in Instances \cup {Nobody}
    /\ pc \in [Instances -> {"idle", "open", "look", "next", "copy", "discover", "bind",
                             "up", "store"}]
    /\ daemon \in [Instances -> BOOLEAN] /\ force \in [Instances -> BOOLEAN]
    /\ left \in [Instances -> SUBSET Bundles]
    /\ bundle \in [Instances -> Bundles] /\ copied \in [Instances -> SUBSET Parts]
    /\ found \in [Instances -> SUBSET Bundles]
    /\ broken \subseteq Bundles /\ cut \in BOOLEAN

HostInit ==
    /\ parts \in [Bundles -> {{}, Parts}] /\ state \in SUBSET Names /\ off = state
    /\ disabled = [i \in Instances |-> {}] /\ found = [i \in Instances |-> {}]
    /\ owner = Nobody /\ bound = Nobody
    /\ pc = [i \in Instances |-> "idle"]
    /\ daemon = [i \in Instances |-> FALSE] /\ force = [i \in Instances |-> FALSE]
    /\ left = [i \in Instances |-> {}] /\ copied = [i \in Instances |-> {}]
    /\ bundle \in [Instances -> Bundles]
    /\ broken = {} /\ cut = FALSE

Goto(i, step) == pc' = [pc EXCEPT ![i] = step]

-----------------------------------------------------------------------------
\* localref init, after the settings are saved (SettingsFile).
RunInit(i, forced) ==
    /\ pc[i] = "idle"
    /\ Goto(i, "next")
    /\ daemon' = [daemon EXCEPT ![i] = FALSE]
    /\ force' = [force EXCEPT ![i] = forced]
    /\ left' = [left EXCEPT ![i] = Bundles]
    /\ UNCHANGED <<parts, served, bundle, copied, broken>>

StartDaemon(i) ==
    /\ pc[i] = "idle"
    /\ Goto(i, "open")
    /\ daemon' = [daemon EXCEPT ![i] = TRUE]
    /\ force' = [force EXCEPT ![i] = FALSE]
    /\ UNCHANGED <<parts, served, left, bundle, copied, broken>>

\* StorageDb::open: redb refuses a database that is open.
OpenDatabase(i) ==
    /\ pc[i] = "open" /\ owner = Nobody
    /\ owner' = i
    /\ Goto(i, "look")
    /\ UNCHANGED <<parts, state, bound, found, disabled, off, cut, copying, broken>>

\* plugins_dir_is_empty: one bundle with its plugin.toml and nothing is installed.
Look(i) ==
    /\ pc[i] = "look"
    /\ IF \E b \in Bundles : "plugin.toml" \in parts[b]
       THEN Goto(i, "discover") /\ UNCHANGED left
       ELSE Goto(i, "next") /\ left' = [left EXCEPT ![i] = Bundles]
    /\ UNCHANGED <<parts, served, daemon, force, bundle, copied, broken>>

Copying(i, b) == pc[i] = "copy" /\ bundle[i] = b

\* copy_plugins: a bundle that is there is left, or removed first.
Copy(i, b) ==
    /\ pc[i] = "next" /\ b \in left[i]
    /\ parts[b] = {} \/ force[i]
    /\ Goto(i, "copy")
    /\ left' = [left EXCEPT ![i] = @ \ {b}]
    /\ bundle' = [bundle EXCEPT ![i] = b]
    /\ copied' = [copied EXCEPT ![i] = {}]
    /\ parts' = [parts EXCEPT ![b] = {}]
    /\ broken' = IF parts[b] # {} /\ \E j \in Instances : Copying(j, b)
                 THEN broken \cup {b} ELSE broken
    /\ UNCHANGED <<served, daemon, force>>

\* A removal that fails half way, or is killed there.
RemoveFails(i, b) ==
    /\ pc[i] = "next" /\ b \in left[i] /\ force[i] /\ parts[b] # {}
    /\ Goto(i, "idle")
    /\ \E rest \in SUBSET parts[b] : parts' = [parts EXCEPT ![b] = rest]
    /\ broken' = broken \cup {b}
    /\ UNCHANGED <<served, copying>>

Skip(i, b) ==
    /\ pc[i] = "next" /\ b \in left[i]
    /\ parts[b] # {} /\ ~force[i]
    /\ left' = [left EXCEPT ![i] = @ \ {b}]
    /\ UNCHANGED <<parts, served, pc, daemon, force, bundle, copied, broken>>

\* copy_dir.
CopyPart(i, part) ==
    /\ pc[i] = "copy" /\ part \notin copied[i]
    /\ part = "directory" \/ "directory" \in copied[i] \cap parts[bundle[i]]
    /\ parts' = [parts EXCEPT ![bundle[i]] = @ \cup {part}]
    /\ copied' = [copied EXCEPT ![i] = @ \cup {part}]
    /\ UNCHANGED <<served, pc, daemon, force, left, bundle, broken>>

Copied(i) ==
    /\ pc[i] = "copy" /\ copied[i] = Parts
    /\ Goto(i, "next")
    /\ UNCHANGED <<parts, served, copying, broken>>

\* An error ends the installation, not the start.
CopyFails(i) ==
    /\ pc[i] = "copy"
    /\ Goto(i, IF daemon[i] THEN "discover" ELSE "idle")
    /\ broken' = broken \cup {bundle[i]}
    /\ UNCHANGED <<parts, served, copying>>

InstallEnds(i) ==
    /\ pc[i] = "next" /\ left[i] = {}
    /\ Goto(i, IF daemon[i] THEN "discover" ELSE "idle")
    /\ UNCHANGED <<parts, served, copying, broken>>

\* discover_plugins and load_disabled: a file that does not parse disables none.
Discover(i) ==
    /\ pc[i] = "discover"
    /\ found' = [found EXCEPT ![i] = {b \in Bundles : "plugin.toml" \in parts[b]}]
    /\ disabled' = [disabled EXCEPT ![i] = state]
    /\ Goto(i, "bind")
    /\ UNCHANGED <<parts, state, owner, bound, off, cut, copying, broken>>

\* Both ports, or an error; the servers and workers are spawned at once.
Bind(i) ==
    /\ pc[i] = "bind" /\ bound = Nobody
    /\ bound' = i
    /\ Goto(i, "up")
    /\ UNCHANGED <<parts, state, owner, found, disabled, off, cut, copying, broken>>

\* rescan_plugins.
Rescan(i) ==
    /\ pc[i] = "up"
    /\ found' = [found EXCEPT ![i] = {b \in Bundles : "plugin.toml" \in parts[b]}]
    /\ UNCHANGED <<parts, state, owner, bound, disabled, off, cut, pc, copying, broken>>

\* set_plugin_enabled, under the lock of the set: the file is emptied ...
SetEnabled(i, name, enabled) ==
    /\ pc[i] = "up" /\ name \in found[i] \cup (Names \ Bundles)
    /\ Goto(i, "store")
    /\ disabled' = [disabled EXCEPT ![i] = IF enabled THEN @ \ {name} ELSE @ \cup {name}]
    /\ state' = {}
    /\ UNCHANGED <<parts, owner, bound, found, off, cut, copying, broken>>

\* ... and written.
Store(i) ==
    /\ pc[i] = "store"
    /\ Goto(i, "up")
    /\ state' = disabled[i] /\ off' = disabled[i]
    /\ UNCHANGED <<parts, owner, bound, found, disabled, cut, copying, broken>>

StoreFails(i) ==
    /\ pc[i] = "store"
    /\ Goto(i, "up")
    /\ state' \in SUBSET disabled[i] /\ cut' = TRUE
    /\ UNCHANGED <<parts, owner, bound, found, disabled, off, copying, broken>>

\* shutdown, a start that fails, or the end of the process, wherever it is.
Stop(i) ==
    /\ pc[i] # "idle"
    /\ Goto(i, "idle")
    /\ owner' = IF owner = i THEN Nobody ELSE owner
    /\ bound' = IF bound = i THEN Nobody ELSE bound
    /\ broken' = IF pc[i] = "copy" THEN broken \cup {bundle[i]} ELSE broken
    /\ IF pc[i] = "store"
       THEN state' \in SUBSET disabled[i] /\ cut' = TRUE
       ELSE UNCHANGED <<state, cut>>
    /\ UNCHANGED <<parts, found, disabled, off, copying>>

Step(i) ==
    \/ \E forced \in BOOLEAN : RunInit(i, forced)
    \/ StartDaemon(i) \/ OpenDatabase(i) \/ Look(i)
    \/ \E b \in Bundles : Copy(i, b) \/ Skip(i, b) \/ RemoveFails(i, b)
    \/ \E part \in Parts : CopyPart(i, part)
    \/ Copied(i) \/ CopyFails(i) \/ InstallEnds(i) \/ Discover(i) \/ Bind(i) \/ Rescan(i)
    \/ \E name \in Names, enabled \in BOOLEAN : SetEnabled(i, name, enabled)
    \/ Store(i) \/ StoreFails(i) \/ Stop(i)

HostNext == \E i \in Instances : Step(i)

HostSpec == HostInit /\ [][HostNext]_hostVars

-----------------------------------------------------------------------------
(* A bundle is there as a whole or not at all, but while it is copied, and *)
(* unless a copy of it failed or met a forced one.                         *)
BundlesWhole ==
    \A b \in Bundles \ broken :
        parts[b] \in {{}, Parts} \/ \E i \in Instances : Copying(i, b)

(* What the user has disabled stays so, in the daemon that is up and over  *)
(* restarts: plugin-state.toml, which nothing locks, has one writer,       *)
(* because the daemon that is up is the owner of the database.             *)
DisabledKept ==
    ~cut => \A i \in Instances :
        /\ pc[i] \in {"up", "store"} => owner = i /\ bound = i
        /\ pc[i] = "up" => disabled[i] = state
        /\ (\A j \in Instances : pc[j] # "store") => state = off
=============================================================================
