------------------------------ MODULE HostProofs ------------------------------
(***************************************************************************)
(* Proofs about the start of the host and the files around it: built-in    *)
(* plugins and plugin-state.toml (HostSetup), config.toml (SettingsFile),  *)
(* rules.toml (RuleFiling), the log file (DaemonLog) and the ring of       *)
(* recent entries (LogRing), the window the user looks at (LibraryView),   *)
(* and the save sessions of the browser connector (ConnectorSessions), for *)
(* any number of whatever uses them.                                       *)
(***************************************************************************)
EXTENDS HostSetup, SettingsFile, RuleFiling, DaemonLog, LogRing, LibraryView,
        ConnectorSessions, FiniteSetTheorems, TLAPS

-----------------------------------------------------------------------------
(* The start of the host and its settings: HostSetup, SettingsFile.        *)

(* What is copied is there.                                                *)
BundleInv ==
    /\ \A i \in Instances :
         pc[i] = "copy" /\ bundle[i] \notin broken => copied[i] \subseteq parts[bundle[i]]
    /\ BundlesWhole

(* A daemon has the database from its start, and the ports while it is up. *)
OwnerInv ==
    /\ \A i \in Instances :
         pc[i] \in {"look", "discover", "bind", "up", "store"} => owner = i
    /\ \A i \in Instances : pc[i] \in {"next", "copy"} /\ daemon[i] => owner = i
    /\ \A i \in Instances : pc[i] \in {"up", "store"} => bound = i

(* The owner of the database has plugin-state.toml for itself.             *)
StoreInv ==
    ~cut => /\ \A i \in Instances : pc[i] \in {"bind", "up"} => disabled[i] = state
            /\ (\A i \in Instances : pc[i] # "store") => state = off

HostInv == HostType /\ BundleInv /\ OwnerInv /\ StoreInv

(* Every step keeps the types.                                             *)
LEMMA HostTypeStep ==
    ASSUME HostType, NEW i \in Instances, Step(i) PROVE HostType'
<1>1. ASSUME NEW forced \in BOOLEAN, RunInit(i, forced) PROVE HostType'
  BY <1>1 DEF RunInit, served, HostType, Goto
<1>2. ASSUME StartDaemon(i) PROVE HostType'
  BY <1>2 DEF StartDaemon, served, HostType, Goto
<1>3. ASSUME OpenDatabase(i) PROVE HostType'
  BY <1>3 DEF OpenDatabase, copying, HostType, Goto
<1>4. ASSUME Look(i) PROVE HostType'
  BY <1>4 DEF Look, served, HostType, Goto
<1>5. ASSUME NEW b \in Bundles, Copy(i, b) PROVE HostType'
  BY <1>5 DEF Copy, served, HostType, Goto
<1>6. ASSUME NEW b \in Bundles, Skip(i, b) PROVE HostType'
  BY <1>6 DEF Skip, served, HostType
<1>7. ASSUME NEW b \in Bundles, RemoveFails(i, b) PROVE HostType'
  BY <1>7 DEF RemoveFails, served, copying, HostType, Goto
<1>8. ASSUME NEW part \in Parts, CopyPart(i, part) PROVE HostType'
  BY <1>8 DEF CopyPart, served, HostType
<1>9. ASSUME Copied(i) PROVE HostType'
  BY <1>9 DEF Copied, served, copying, HostType, Goto
<1>10. ASSUME CopyFails(i) PROVE HostType'
  BY <1>10 DEF CopyFails, served, copying, HostType, Goto
<1>11. ASSUME InstallEnds(i) PROVE HostType'
  BY <1>11 DEF InstallEnds, served, copying, HostType, Goto
<1>12. ASSUME Discover(i) PROVE HostType'
  BY <1>12 DEF Discover, copying, HostType, Goto
<1>13. ASSUME Bind(i) PROVE HostType'
  BY <1>13 DEF Bind, copying, HostType, Goto
<1>14. ASSUME Rescan(i) PROVE HostType'
  BY <1>14 DEF Rescan, copying, HostType
<1>15. ASSUME NEW name \in Names, NEW enabled \in BOOLEAN, SetEnabled(i, name, enabled)
       PROVE  HostType'
  BY <1>15 DEF SetEnabled, copying, HostType, Goto
<1>16. ASSUME Store(i) PROVE HostType'
  BY <1>16 DEF Store, copying, HostType, Goto
<1>17. ASSUME StoreFails(i) PROVE HostType'
  BY <1>17 DEF StoreFails, copying, HostType, Goto
<1>18. ASSUME Stop(i) PROVE HostType'
  BY <1>18 DEF Stop, copying, HostType, Goto
<1> QED
  BY <1>1, <1>2, <1>3, <1>4, <1>5, <1>6, <1>7, <1>8, <1>9, <1>10, <1>11, <1>12, <1>13,
     <1>14, <1>15, <1>16, <1>17, <1>18
     DEF Step

(* A bundle loses nothing unless it is removed.                            *)
LEMMA BundleInvStep ==
    ASSUME HostInv, NEW i \in Instances, Step(i) PROVE BundleInv'
<1>1. ASSUME NEW forced \in BOOLEAN, RunInit(i, forced) PROVE BundleInv'
  BY <1>1 DEF RunInit, HostInv, BundleInv, BundlesWhole, Copying, Goto
<1>2. ASSUME StartDaemon(i) PROVE BundleInv'
  BY <1>2 DEF StartDaemon, HostInv, BundleInv, BundlesWhole, Copying, Goto
<1>3. ASSUME OpenDatabase(i) PROVE BundleInv'
  BY <1>3 DEF OpenDatabase, copying, HostInv, BundleInv, BundlesWhole, Copying, Goto
<1>4. ASSUME Look(i) PROVE BundleInv'
  BY <1>4 DEF Look, HostInv, HostType, BundleInv, BundlesWhole, Copying, Goto
<1>5. ASSUME NEW b \in Bundles, Copy(i, b) PROVE BundleInv'
  BY <1>5 DEF Copy, HostInv, HostType, BundleInv, BundlesWhole, Copying, Goto
<1>6. ASSUME NEW b \in Bundles, Skip(i, b) PROVE BundleInv'
  BY <1>6 DEF Skip, HostInv, BundleInv, BundlesWhole, Copying
<1>7. ASSUME NEW b \in Bundles, RemoveFails(i, b) PROVE BundleInv'
  BY <1>7 DEF RemoveFails, copying, HostInv, BundleInv, BundlesWhole, Copying, Goto
<1>8. ASSUME NEW part \in Parts, CopyPart(i, part) PROVE BundleInv'
  BY <1>8 DEF CopyPart, HostInv, HostType, BundleInv, BundlesWhole, Copying
<1>9. ASSUME Copied(i) PROVE BundleInv'
  BY <1>9
     DEF Copied, copying, HostInv, HostType, BundleInv, BundlesWhole, Copying, Goto, Parts
<1>10. ASSUME CopyFails(i) PROVE BundleInv'
  BY <1>10 DEF CopyFails, copying, HostInv, BundleInv, BundlesWhole, Copying, Goto
<1>11. ASSUME InstallEnds(i) PROVE BundleInv'
  BY <1>11 DEF InstallEnds, copying, HostInv, BundleInv, BundlesWhole, Copying, Goto
<1>12. ASSUME Discover(i) PROVE BundleInv'
  BY <1>12 DEF Discover, copying, HostInv, BundleInv, BundlesWhole, Copying, Goto
<1>13. ASSUME Bind(i) PROVE BundleInv'
  BY <1>13 DEF Bind, copying, HostInv, BundleInv, BundlesWhole, Copying, Goto
<1>14. ASSUME Rescan(i) PROVE BundleInv'
  BY <1>14 DEF Rescan, copying, HostInv, BundleInv, BundlesWhole, Copying
<1>15. ASSUME NEW name \in Names, NEW enabled \in BOOLEAN, SetEnabled(i, name, enabled)
       PROVE  BundleInv'
  BY <1>15 DEF SetEnabled, copying, HostInv, BundleInv, BundlesWhole, Copying, Goto
<1>16. ASSUME Store(i) PROVE BundleInv'
  BY <1>16 DEF Store, copying, HostInv, BundleInv, BundlesWhole, Copying, Goto
<1>17. ASSUME StoreFails(i) PROVE BundleInv'
  BY <1>17 DEF StoreFails, copying, HostInv, BundleInv, BundlesWhole, Copying, Goto
<1>18. ASSUME Stop(i) PROVE BundleInv'
  BY <1>18 DEF Stop, copying, HostInv, BundleInv, BundlesWhole, Copying, Goto
<1> QED
  BY <1>1, <1>2, <1>3, <1>4, <1>5, <1>6, <1>7, <1>8, <1>9, <1>10, <1>11, <1>12, <1>13,
     <1>14, <1>15, <1>16, <1>17, <1>18
     DEF Step

(* No instance gives up the database but by its end.                       *)
LEMMA OwnerInvStep ==
    ASSUME Nobody \notin Instances, HostInv, NEW i \in Instances, Step(i) PROVE OwnerInv'
<1>1. ASSUME NEW forced \in BOOLEAN, RunInit(i, forced) PROVE OwnerInv'
  BY <1>1 DEF RunInit, served, HostInv, HostType, OwnerInv, Goto
<1>2. ASSUME StartDaemon(i) PROVE OwnerInv'
  BY <1>2 DEF StartDaemon, served, HostInv, OwnerInv, Goto
<1>3. ASSUME OpenDatabase(i) PROVE OwnerInv'
  BY <1>3 DEF OpenDatabase, copying, HostInv, OwnerInv, Goto
<1>4. ASSUME Look(i) PROVE OwnerInv'
  BY <1>4 DEF Look, served, HostInv, HostType, OwnerInv, Goto
<1>5. ASSUME NEW b \in Bundles, Copy(i, b) PROVE OwnerInv'
  BY <1>5 DEF Copy, served, HostInv, OwnerInv, Goto
<1>6. ASSUME NEW b \in Bundles, Skip(i, b) PROVE OwnerInv'
  BY <1>6 DEF Skip, served, HostInv, OwnerInv
<1>7. ASSUME NEW b \in Bundles, RemoveFails(i, b) PROVE OwnerInv'
  BY <1>7 DEF RemoveFails, served, copying, HostInv, OwnerInv, Goto
<1>8. ASSUME NEW part \in Parts, CopyPart(i, part) PROVE OwnerInv'
  BY <1>8 DEF CopyPart, served, HostInv, OwnerInv
<1>9. ASSUME Copied(i) PROVE OwnerInv'
  BY <1>9 DEF Copied, served, copying, HostInv, OwnerInv, Goto
<1>10. ASSUME CopyFails(i) PROVE OwnerInv'
  BY <1>10 DEF CopyFails, served, copying, HostInv, OwnerInv, Goto
<1>11. ASSUME InstallEnds(i) PROVE OwnerInv'
  BY <1>11 DEF InstallEnds, served, copying, HostInv, OwnerInv, Goto
<1>12. ASSUME Discover(i) PROVE OwnerInv'
  BY <1>12 DEF Discover, copying, HostInv, OwnerInv, Goto
<1>13. ASSUME Bind(i) PROVE OwnerInv'
  BY <1>13 DEF Bind, copying, HostInv, OwnerInv, Goto
<1>14. ASSUME Rescan(i) PROVE OwnerInv'
  BY <1>14 DEF Rescan, copying, HostInv, OwnerInv
<1>15. ASSUME NEW name \in Names, NEW enabled \in BOOLEAN, SetEnabled(i, name, enabled)
       PROVE  OwnerInv'
  BY <1>15 DEF SetEnabled, copying, HostInv, OwnerInv, Goto
<1>16. ASSUME Store(i) PROVE OwnerInv'
  BY <1>16 DEF Store, copying, HostInv, OwnerInv, Goto
<1>17. ASSUME StoreFails(i) PROVE OwnerInv'
  BY <1>17 DEF StoreFails, copying, HostInv, OwnerInv, Goto
<1>18. ASSUME Stop(i) PROVE OwnerInv'
  BY <1>18 DEF Stop, copying, HostInv, HostType, OwnerInv, Goto
<1> QED
  BY <1>1, <1>2, <1>3, <1>4, <1>5, <1>6, <1>7, <1>8, <1>9, <1>10, <1>11, <1>12, <1>13,
     <1>14, <1>15, <1>16, <1>17, <1>18
     DEF Step

(* Two instances are not up at once, nor one about to be.                  *)
LEMMA StoreInvStep ==
    ASSUME HostInv, NEW i \in Instances, Step(i) PROVE StoreInv'
<1>1. ASSUME NEW forced \in BOOLEAN, RunInit(i, forced) PROVE StoreInv'
  BY <1>1 DEF RunInit, served, HostInv, StoreInv, Goto
<1>2. ASSUME StartDaemon(i) PROVE StoreInv'
  BY <1>2 DEF StartDaemon, served, HostInv, StoreInv, Goto
<1>3. ASSUME OpenDatabase(i) PROVE StoreInv'
  BY <1>3 DEF OpenDatabase, HostInv, StoreInv, Goto
<1>4. ASSUME Look(i) PROVE StoreInv'
  BY <1>4 DEF Look, served, HostInv, HostType, StoreInv, Goto
<1>5. ASSUME NEW b \in Bundles, Copy(i, b) PROVE StoreInv'
  BY <1>5 DEF Copy, served, HostInv, StoreInv, Goto
<1>6. ASSUME NEW b \in Bundles, Skip(i, b) PROVE StoreInv'
  BY <1>6 DEF Skip, served, HostInv, StoreInv
<1>7. ASSUME NEW b \in Bundles, RemoveFails(i, b) PROVE StoreInv'
  BY <1>7 DEF RemoveFails, served, HostInv, StoreInv, Goto
<1>8. ASSUME NEW part \in Parts, CopyPart(i, part) PROVE StoreInv'
  BY <1>8 DEF CopyPart, served, HostInv, StoreInv
<1>9. ASSUME Copied(i) PROVE StoreInv'
  BY <1>9 DEF Copied, served, HostInv, StoreInv, Goto
<1>10. ASSUME CopyFails(i) PROVE StoreInv'
  BY <1>10 DEF CopyFails, served, HostInv, StoreInv, Goto
<1>11. ASSUME InstallEnds(i) PROVE StoreInv'
  BY <1>11 DEF InstallEnds, served, HostInv, StoreInv, Goto
<1>12. ASSUME Discover(i) PROVE StoreInv'
  BY <1>12 DEF Discover, HostInv, HostType, StoreInv, Goto
<1>13. ASSUME Bind(i) PROVE StoreInv'
  BY <1>13 DEF Bind, HostInv, StoreInv, Goto
<1>14. ASSUME Rescan(i) PROVE StoreInv'
  BY <1>14 DEF Rescan, HostInv, StoreInv
<1>15. ASSUME NEW name \in Names, NEW enabled \in BOOLEAN, SetEnabled(i, name, enabled)
       PROVE  StoreInv'
  BY <1>15 DEF SetEnabled, HostInv, HostType, OwnerInv, StoreInv, Goto
<1>16. ASSUME Store(i) PROVE StoreInv'
  BY <1>16 DEF Store, HostInv, OwnerInv, StoreInv, Goto
<1>17. ASSUME StoreFails(i) PROVE StoreInv'
  BY <1>17 DEF StoreFails, HostInv, StoreInv
<1>18. ASSUME Stop(i) PROVE StoreInv'
  BY <1>18 DEF Stop, HostInv, StoreInv, Goto
<1> QED
  BY <1>1, <1>2, <1>3, <1>4, <1>5, <1>6, <1>7, <1>8, <1>9, <1>10, <1>11, <1>12, <1>13,
     <1>14, <1>15, <1>16, <1>17, <1>18
     DEF Step

LEMMA HostInvariance == ASSUME Nobody \notin Instances PROVE HostSpec => []HostInv
<1>1. HostInit => HostInv
  BY DEF HostInit, HostInv, HostType, BundleInv, BundlesWhole, OwnerInv, StoreInv, Parts
<1>2. ASSUME HostInv, [HostNext]_hostVars PROVE HostInv'
  <2>1. ASSUME NEW i \in Instances, Step(i) PROVE HostInv'
    BY <1>2, <2>1, HostTypeStep, BundleInvStep, OwnerInvStep, StoreInvStep DEF HostInv
  <2>2. ASSUME UNCHANGED hostVars PROVE HostInv'
    BY <1>2, <2>2
       DEF hostVars, served, copying, HostInv, HostType, BundleInv, BundlesWhole, Copying,
           OwnerInv, StoreInv
  <2> QED
    BY <1>2, <2>1, <2>2 DEF HostNext
<1> QED
  BY <1>1, <1>2, PTL DEF HostSpec

(* Type correctness, with any bundles, names and instances.                *)
THEOREM HostTypeCorrect == ASSUME Nobody \notin Instances PROVE HostSpec => []HostType
<1>1. HostSpec => []HostInv
  BY HostInvariance
<1> QED
  BY <1>1, PTL DEF HostInv

(* Instances that install at once, fail or are killed leave a part of a    *)
(* bundle only where a copy of that bundle failed or met a forced one      *)
(* (copy_plugins, copy_dir).                                               *)
THEOREM BundlesStayWhole == ASSUME Nobody \notin Instances PROVE HostSpec => []BundlesWhole
<1>1. HostSpec => []HostInv
  BY HostInvariance
<1> QED
  BY <1>1, PTL DEF HostInv, BundleInv

(* The daemon that is up is the only writer of plugin-state.toml, and what *)
(* it and its next start hold disabled is what was last said               *)
(* (set_plugin_enabled, load_disabled).                                    *)
THEOREM DisabledStay == ASSUME Nobody \notin Instances PROVE HostSpec => []DisabledKept
<1>1. HostSpec => []HostInv
  BY HostInvariance
<1>2. HostInv => DisabledKept
  BY DEF HostInv, OwnerInv, StoreInv, DisabledKept
<1> QED
  BY <1>1, <1>2, PTL

-----------------------------------------------------------------------------
(* What the proofs need of the settings: values, and windows of commands.  *)
SettingsTable ==
    /\ Absent \notin Values /\ Default \in Full
    /\ Window \in [Commands -> SUBSET Settings]

(* Unless saves met, one caller at most is to write, and the copy it has   *)
(* is of what was last said, but for its window.                           *)
CopyInv ==
    ~met => \A c \in Callers :
        /\ at[c] \in ToWrite => ~Meets(c)
        /\ at[c] \in {"create", "created"} => copy[c] = Default /\ said = Default
        /\ at[c] = "set" => copy[c] = said
        /\ at[c] \in {"truncate", "write"} =>
             \A s \in Settings : s \notin Window[command[c]] => copy[c][s] = said[s]
        /\ at[c] \in {"created", "write"} => file = "text" /\ text = Blank

SettingsInv ==
    /\ SettingsType /\ (file = "missing" => text = Blank)
    /\ CopyInv /\ SettingsKept

(* What loading a text gives, the empty one and one that says all.         *)
LEMMA Resolved ==
    ASSUME SettingsTable
    PROVE  /\ Full \subseteq [Settings -> Values \cup {Absent}]
           /\ Blank \in [Settings -> Values \cup {Absent}]
           /\ \A t \in [Settings -> Values \cup {Absent}] : Resolve(t) \in Full
           /\ Resolve(Blank) = Default
           /\ \A t \in Full : Resolve(t) = t
<1>1. Default = [s \in Settings |-> Default[s]]
  BY DEF SettingsTable, Full
<1>2. \A t \in Full : t = [s \in Settings |-> t[s]] /\ \A s \in Settings : t[s] # Absent
  BY DEF SettingsTable, Full
<1>3. Resolve(Blank) = Default
  BY <1>1 DEF Resolve, Blank
<1>4. ASSUME NEW t \in Full PROVE Resolve(t) = t
  BY <1>2 DEF Resolve
<1>5. Full \subseteq [Settings -> Values \cup {Absent}]
  BY DEF Full
<1>6. Blank \in [Settings -> Values \cup {Absent}]
  BY DEF Blank
<1>7. ASSUME NEW t \in [Settings -> Values \cup {Absent}] PROVE Resolve(t) \in Full
  <2>1. \A s \in Settings : (IF t[s] = Absent THEN Default[s] ELSE t[s]) \in Values
    BY DEF SettingsTable, Full
  <2> QED
    BY <2>1 DEF Resolve, Full
<1> QED
  BY <1>3, <1>4, <1>5, <1>6, <1>7

(* Every step keeps the types.                                             *)
LEMMA SettingsTypeStep ==
    ASSUME SettingsTable, SettingsInv, NEW c \in Callers, SettingsStep(c)
    PROVE  SettingsType' /\ (file = "missing" => text = Blank)'
<1>1. ASSUME NEW what \in Commands, NEW values \in Full, Call(c, what, values)
      PROVE  SettingsType' /\ (file = "missing" => text = Blank)'
  BY <1>1, Resolved DEF Call, disk, Turn, SettingsInv, SettingsType
<1>2. ASSUME Missing(c) PROVE SettingsType' /\ (file = "missing" => text = Blank)'
  BY <1>2, Resolved DEF Missing, disk, Turn, SettingsInv, SettingsType, ToWrite
<1>3. ASSUME Load(c) PROVE SettingsType' /\ (file = "missing" => text = Blank)'
  BY <1>3, Resolved DEF Load, disk, Turn, SettingsInv, SettingsType, ToWrite
<1>4. ASSUME Set(c) PROVE SettingsType' /\ (file = "missing" => text = Blank)'
  <2>1. [s \in Settings |-> IF s \in Window[command[c]] THEN wanted[c][s] ELSE copy[c][s]]
           \in Full
    BY DEF SettingsInv, SettingsType, Full
  <2> QED
    BY <1>4, <2>1 DEF Set, disk, Turn, SettingsTable, SettingsInv, SettingsType, ToWrite
<1>5. ASSUME Truncate(c) PROVE SettingsType' /\ (file = "missing" => text = Blank)'
  BY <1>5, Resolved DEF Truncate, Turn, SettingsInv, SettingsType, ToWrite
<1>6. ASSUME Write(c) PROVE SettingsType' /\ (file = "missing" => text = Blank)'
  BY <1>6, Resolved DEF Write, Turn, SettingsInv, SettingsType, ToWrite
<1>7. ASSUME Return(c) PROVE SettingsType' /\ (file = "missing" => text = Blank)'
  BY <1>7, Resolved DEF Return, disk, Turn, SettingsInv, SettingsType
<1>8. ASSUME GiveUp(c) PROVE SettingsType' /\ (file = "missing" => text = Blank)'
  BY <1>8, Resolved DEF GiveUp, disk, Turn, SettingsInv, SettingsType
<1> QED
  BY <1>1, <1>2, <1>3, <1>4, <1>5, <1>6, <1>7, <1>8 DEF SettingsStep

(* A copy is alone, from the load to the write.                            *)
LEMMA SettingsCopyStep ==
    ASSUME SettingsTable, SettingsInv, NEW c \in Callers, SettingsStep(c)
    PROVE  CopyInv'
<1>1. ASSUME NEW what \in Commands, NEW values \in Full, Call(c, what, values)
      PROVE  CopyInv'
  BY <1>1, Resolved DEF Call, disk, Turn, SettingsInv, CopyInv, Meets, ToWrite
<1>2. ASSUME Missing(c) PROVE CopyInv'
  BY <1>2, Resolved
     DEF Missing, Turn, SettingsInv, SettingsType, CopyInv, SettingsKept, Meets
<1>3. ASSUME Load(c) PROVE CopyInv'
  BY <1>3, Resolved
     DEF Load, disk, Turn, SettingsInv, SettingsType, CopyInv, SettingsKept, Meets,
         ToWrite
<1>4. ASSUME Set(c) PROVE CopyInv'
  BY <1>4, Resolved DEF Set, Turn, SettingsInv, SettingsType, CopyInv, Meets
<1>5. ASSUME Truncate(c) PROVE CopyInv'
  BY <1>5, Resolved DEF Truncate, Turn, SettingsInv, CopyInv, Meets, ToWrite
<1>6. ASSUME Write(c) PROVE CopyInv'
  BY <1>6, Resolved DEF Write, Turn, SettingsInv, SettingsType, CopyInv, Meets
<1>7. ASSUME Return(c) PROVE CopyInv'
  BY <1>7, Resolved DEF Return, disk, Turn, SettingsInv, CopyInv, Meets, ToWrite
<1>8. ASSUME GiveUp(c) PROVE CopyInv'
  BY <1>8, Resolved DEF GiveUp, disk, Turn, SettingsInv, CopyInv, Meets, ToWrite
<1> QED
  BY <1>1, <1>2, <1>3, <1>4, <1>5, <1>6, <1>7, <1>8 DEF SettingsStep

(* What is written is what was last said.                                  *)
LEMMA SettingsKeptStep ==
    ASSUME SettingsTable, SettingsInv, NEW c \in Callers, SettingsStep(c)
    PROVE  SettingsKept'
<1>1. ASSUME NEW what \in Commands, NEW values \in Full, Call(c, what, values)
      PROVE  SettingsKept'
  BY <1>1, Resolved DEF Call, disk, Turn, SettingsInv, SettingsKept
<1>2. ASSUME Missing(c) PROVE SettingsKept'
  BY <1>2, Resolved DEF Missing, disk, SettingsInv, SettingsKept, Meets, ToWrite
<1>3. ASSUME Load(c) PROVE SettingsKept'
  BY <1>3, Resolved DEF Load, disk, Turn, SettingsInv, SettingsType, SettingsKept
<1>4. ASSUME Set(c) PROVE SettingsKept'
  BY <1>4, Resolved DEF Set, disk, SettingsInv, CopyInv, SettingsKept, Meets, ToWrite
<1>5. ASSUME Truncate(c) PROVE SettingsKept'
  BY <1>5, Resolved DEF Truncate, Turn, SettingsInv, SettingsType, SettingsKept
<1>6. ASSUME Write(c) PROVE SettingsKept'
  BY <1>6, Resolved DEF Write, SettingsInv, SettingsType, CopyInv, SettingsKept
<1>7. ASSUME Return(c) PROVE SettingsKept'
  BY <1>7, Resolved DEF Return, disk, Turn, SettingsInv, SettingsKept
<1>8. ASSUME GiveUp(c) PROVE SettingsKept'
  BY <1>8, Resolved DEF GiveUp, disk, Turn, SettingsInv, SettingsKept
<1> QED
  BY <1>1, <1>2, <1>3, <1>4, <1>5, <1>6, <1>7, <1>8 DEF SettingsStep

LEMMA SettingsInvariance == ASSUME SettingsTable PROVE SettingsSpec => []SettingsInv
<1>1. SettingsInit => SettingsInv
  <2> SUFFICES ASSUME SettingsInit PROVE SettingsInv
    OBVIOUS
  <2>1. /\ \A c \in Callers : at[c] = "idle" /\ at \in [Callers -> {"idle"}]
        /\ text \in [Settings -> Values \cup {Absent}] /\ said = Resolve(text)
        /\ file \in {"missing", "text"} /\ (file = "missing" => text = Blank)
    BY DEF SettingsInit
  <2>2. SettingsType
    BY <2>1, Resolved DEF SettingsInit, SettingsTable, SettingsType, ToWrite, Commands
  <2>3. CopyInv /\ SettingsKept
    BY <2>1 DEF CopyInv, SettingsKept, ToWrite
  <2> QED
    BY <2>1, <2>2, <2>3 DEF SettingsInv
<1>2. ASSUME SettingsInv, [SettingsNext]_settings PROVE SettingsInv'
  <2>1. ASSUME NEW c \in Callers, SettingsStep(c) PROVE SettingsInv'
    BY <1>2, <2>1, SettingsTypeStep, SettingsCopyStep, SettingsKeptStep DEF SettingsInv
  <2>2. ASSUME UNCHANGED settings PROVE SettingsInv'
    BY <1>2, <2>2
       DEF settings, disk, SettingsInv, SettingsType, CopyInv, SettingsKept, Meets
  <2> QED
    BY <1>2, <2>1, <2>2 DEF SettingsNext
<1> QED
  BY <1>1, <1>2, PTL DEF SettingsSpec

(* However windows, the CLI and plugins load and save, and fail at it, no  *)
(* setting is lost unless saves met or one failed half way                 *)
(* (load_from_path, save).                                                 *)
THEOREM SettingsStay == ASSUME SettingsTable PROVE SettingsSpec => []SettingsKept
<1>1. SettingsSpec => []SettingsInv
  BY SettingsInvariance
<1> QED
  BY <1>1, PTL DEF SettingsInv

(* A save that met no other changes no setting of another window           *)
(* (save_app_settings, save_desktop_ui_settings, run_init).                *)
THEOREM WindowsApart == ASSUME SettingsTable PROVE SettingsSpec => OnlyItsWindow
<1>1. SettingsSpec => []SettingsInv
  BY SettingsInvariance
<1> DEFINE Kept ==
      \A c \in Callers : at[c] = "write" /\ at'[c] = "idle" /\ ~met' =>
          \A s \in Settings : s \notin Window[command[c]] => said'[s] = said[s]
<1>2. ASSUME SettingsInv, [SettingsNext]_settings PROVE [Kept]_settings
  <2> SUFFICES ASSUME NEW c \in Callers, SettingsStep(c) PROVE Kept
    BY <1>2 DEF SettingsNext
  <2>1. CASE Write(c)
    BY <1>2, <2>1 DEF Write, Turn, SettingsInv, SettingsType, CopyInv
  <2>2. CASE ~Write(c)
    BY <1>2, <2>2
       DEF SettingsStep, Call, Missing, Load, Set, Truncate, Return, GiveUp, SettingsInv
  <2> QED
    BY <2>1, <2>2
<1> QED
  BY <1>1, <1>2, PTL DEF SettingsSpec, OnlyItsWindow

-----------------------------------------------------------------------------
(* The rules: RuleFiling.                                                  *)

(* The text that is not one of rules.                                      *)
FilingTable == Broken \notin SUBSET Rule

(* Unless a save was cut off, the file is as it was last saved, or empty   *)
(* while it is written anew; the window saves texts that parse.            *)
FileInv ==
    /\ ~cutOff => rules = (IF rulesFile = "empty" THEN {} ELSE saved)
    /\ ~cutOff => (rulesWindow = "write" <=> rulesFile = "empty")
    /\ rulesWindow \in {"empty", "write"} => Parses(draft)
    /\ RulesParse

(* What an import is to be filed under is what the rules say it read.      *)
FiledInv ==
    /\ \A i \in Imports \ astray :
        phase[i] = "file" => matched[i] = MatchMetadata(governing[i], metadata[i])
    /\ FiledByRules /\ Reachable

FilingInv == FilingType /\ FileInv /\ FiledInv

(* Without rules a text parses, and a rule gives its target only.          *)
LEMMA Matching ==
    ASSUME FilingTable
    PROVE  /\ Parses({})
           /\ \A t \in Text, data \in Metadata :
                 Parses(t) => MatchMetadata(t, data) \subseteq Targets
           /\ \A categories : FiledUnder(categories) # {}
           /\ \A categories \in SUBSET (Targets \cup {Unmatched}) :
                 FiledUnder(categories) \subseteq Targets \cup {Unmatched}
  BY DEF FilingTable, Parses, MatchMetadata, FiledUnder, Text, Rule

(* Every step keeps the types.                                             *)
LEMMA FilingTypeStep ==
    ASSUME FilingTable, FilingInv, FilingNext PROVE FilingType'
<1>1. ASSUME ShowRules PROVE FilingType'
  BY <1>1, Matching DEF ShowRules, importing, FilingInv, FilingType, Text, rulesOnDisk
<1>2. ASSUME EmptyRules PROVE FilingType'
  BY <1>2, Matching DEF EmptyRules, importing, FilingInv, FilingType, Text
<1>3. ASSUME WriteRules PROVE FilingType'
  BY <1>3, Matching DEF WriteRules, importing, FilingInv, FilingType
<1>4. ASSUME TellRules PROVE FilingType'
  BY <1>4, Matching DEF TellRules, importing, FilingInv, FilingType, rulesOnDisk
<1>5. ASSUME SaveFails PROVE FilingType'
  BY <1>5, Matching
     DEF SaveFails, importing, FilingInv, FilingType, FileInv, Parses, Text, rulesOnDisk
<1>6. ASSUME NEW t \in Text, SaveRules(t) PROVE FilingType'
  BY <1>6, Matching DEF SaveRules, importing, FilingInv, FilingType, rulesOnDisk
<1>7. ASSUME NEW t \in Text, EditRules(t) PROVE FilingType'
  BY <1>7, Matching DEF EditRules, importing, FilingInv, FilingType
<1>8. ASSUME NEW i \in Imports, NEW data \in Metadata, BeginImport(i, data)
      PROVE  FilingType'
  BY <1>8, Matching
     DEF BeginImport, rulesEdited, FilingInv, FilingType, Metadata, FromImport,
         importing, rulesOnDisk
<1>9. ASSUME NEW i \in Imports, LoadRules(i) PROVE FilingType'
  <2>1. Parses(rules) => MatchMetadata(rules, metadata[i]) \subseteq Targets
    BY Matching DEF FilingInv, FilingType
  <2>2. /\ UNCHANGED <<rulesEdited, metadata>> /\ astray' \subseteq Imports
        /\ governing' \in [Imports -> Text]
        /\ phase' \in [Imports -> {"new", "load", "file", "filed", "failed"}]
    BY <1>9 DEF LoadRules, FilingInv, FilingType
  <2>3. matched' \in [Imports -> SUBSET (Targets \cup {Unmatched})]
    BY <1>9, <2>1 DEF LoadRules, FilingInv, FilingType
  <2> QED
    BY <2>2, <2>3 DEF rulesEdited, rulesOnDisk, FilingInv, FilingType
<1>10. ASSUME NEW i \in Imports, FileImport(i) PROVE FilingType'
  BY <1>10, Matching
     DEF FileImport, rulesEdited, FilingInv, FilingType, importing, rulesOnDisk
<1>11. ASSUME NEW i \in Imports, FailImport(i) PROVE FilingType'
  BY <1>11, Matching
     DEF FailImport, rulesEdited, FilingInv, FilingType, importing, rulesOnDisk
<1> QED
  BY <1>1, <1>2, <1>3, <1>4, <1>5, <1>6, <1>7, <1>8, <1>9, <1>10, <1>11 DEF FilingNext

(* Saves leave the file as they should.                                    *)
LEMMA FileInvStep ==
    ASSUME FilingTable, FilingInv, FilingNext PROVE FileInv'
<1>1. ASSUME ShowRules PROVE FileInv'
  BY <1>1, Matching DEF ShowRules, FilingInv, FileInv, RulesParse, importing, rulesOnDisk
<1>2. ASSUME EmptyRules PROVE FileInv'
  BY <1>2, Matching DEF EmptyRules, FilingInv, FileInv, RulesParse
<1>3. ASSUME WriteRules PROVE FileInv'
  BY <1>3, Matching DEF WriteRules, FilingInv, FileInv, RulesParse
<1>4. ASSUME TellRules PROVE FileInv'
  BY <1>4, Matching DEF TellRules, FilingInv, FileInv, RulesParse, importing, rulesOnDisk
<1>5. ASSUME SaveFails PROVE FileInv'
  BY <1>5, Matching DEF SaveFails, FilingInv, FileInv, RulesParse, importing, rulesOnDisk
<1>6. ASSUME NEW t \in Text, SaveRules(t) PROVE FileInv'
  BY <1>6, Matching DEF SaveRules, FilingInv, FileInv, RulesParse, importing, rulesOnDisk
<1>7. ASSUME NEW t \in Text, EditRules(t) PROVE FileInv'
  BY <1>7, Matching DEF EditRules, FilingInv, FileInv, RulesParse
<1>8. ASSUME NEW i \in Imports, NEW data \in Metadata, BeginImport(i, data) PROVE FileInv'
  BY <1>8
     DEF BeginImport, rulesEdited, FilingInv, FileInv, RulesParse, importing,
         rulesOnDisk
<1>9. ASSUME NEW i \in Imports, LoadRules(i) PROVE FileInv'
  BY <1>9
     DEF LoadRules, rulesEdited, FilingInv, FileInv, RulesParse, importing, rulesOnDisk
<1>10. ASSUME NEW i \in Imports, FileImport(i) PROVE FileInv'
  BY <1>10
     DEF FileImport, rulesEdited, FilingInv, FileInv, RulesParse, importing, rulesOnDisk
<1>11. ASSUME NEW i \in Imports, FailImport(i) PROVE FileInv'
  BY <1>11
     DEF FailImport, rulesEdited, FilingInv, FileInv, RulesParse, importing, rulesOnDisk
<1> QED
  BY <1>1, <1>2, <1>3, <1>4, <1>5, <1>6, <1>7, <1>8, <1>9, <1>10, <1>11 DEF FilingNext

(* An import keeps to the rules it read.                                   *)
LEMMA FiledInvStep ==
    ASSUME FilingTable, FilingInv, FilingNext PROVE FiledInv'
<1>1. ASSUME ShowRules PROVE FiledInv'
  BY <1>1, Matching DEF ShowRules, importing, FilingInv, FiledInv, FiledByRules, Reachable
<1>2. ASSUME EmptyRules PROVE FiledInv'
  BY <1>2, Matching
     DEF EmptyRules, importing, FilingInv, FiledInv, FiledByRules, Reachable
<1>3. ASSUME WriteRules PROVE FiledInv'
  BY <1>3, Matching
     DEF WriteRules, importing, FilingInv, FiledInv, FiledByRules, Reachable
<1>4. ASSUME TellRules PROVE FiledInv'
  BY <1>4, Matching DEF TellRules, importing, FilingInv, FiledInv, FiledByRules, Reachable
<1>5. ASSUME SaveFails PROVE FiledInv'
  BY <1>5, Matching DEF SaveFails, importing, FilingInv, FiledInv, FiledByRules, Reachable
<1>6. ASSUME NEW t \in Text, SaveRules(t) PROVE FiledInv'
  BY <1>6, Matching DEF SaveRules, importing, FilingInv, FiledInv, FiledByRules, Reachable
<1>7. ASSUME NEW t \in Text, EditRules(t) PROVE FiledInv'
  BY <1>7, Matching DEF EditRules, importing, FilingInv, FiledInv, FiledByRules, Reachable
<1>8. ASSUME NEW i \in Imports, NEW data \in Metadata, BeginImport(i, data) PROVE FiledInv'
  BY <1>8, Matching DEF BeginImport, FilingInv, FiledInv, FiledByRules, Reachable
<1>9. ASSUME NEW i \in Imports, LoadRules(i) PROVE FiledInv'
  BY <1>9, Matching
     DEF LoadRules, FilingInv, FilingType, FileInv, FiledInv, FiledByRules, Reachable
<1>10. ASSUME NEW i \in Imports, FileImport(i) PROVE FiledInv'
  BY <1>10, Matching
     DEF FileImport, FilingInv, FilingType, FiledInv, FiledByRules, Reachable
<1>11. ASSUME NEW i \in Imports, FailImport(i) PROVE FiledInv'
  BY <1>11, Matching DEF FailImport, FilingInv, FiledInv, FiledByRules, Reachable
<1> QED
  BY <1>1, <1>2, <1>3, <1>4, <1>5, <1>6, <1>7, <1>8, <1>9, <1>10, <1>11 DEF FilingNext

LEMMA FilingInvariance == ASSUME FilingTable PROVE FilingSpec => []FilingInv
<1>1. ASSUME FilingInit PROVE FilingInv
  BY <1>1, Matching
     DEF FilingInit, FilingInv, FilingType, Metadata, Text, FileInv, RulesParse,
         FiledInv, FiledByRules, Reachable
<1>2. ASSUME FilingInv, [FilingNext]_filing PROVE FilingInv'
  <2>1. CASE FilingNext
    BY <1>2, <2>1, FilingTypeStep, FileInvStep, FiledInvStep DEF FilingInv
  <2>2. CASE UNCHANGED filing
    BY <1>2, <2>2
       DEF filing, rulesEdited, rulesOnDisk, importing, FilingInv, FilingType, FileInv,
           RulesParse, FiledInv, FiledByRules, Reachable
  <2> QED
    BY <1>2, <2>1, <2>2
<1> QED
  BY <1>1, <1>2, PTL DEF FilingSpec

(* An import that read a whole file is filed by the rules that were saved  *)
(* last, under some category always, and saves leave rules that parse      *)
(* (write_rules_text, import_connector_item).                              *)
THEOREM ImportsAreFiled ==
    ASSUME FilingTable
    PROVE  FilingSpec => [](FilingType /\ FiledByRules /\ RulesParse /\ Reachable)
<1>1. FilingInv => FilingType /\ FiledByRules /\ RulesParse /\ Reachable
  BY DEF FilingInv, FileInv, FiledInv
<1> QED
  BY <1>1, FilingInvariance, PTL

(* A rule on the venue matches no import: metadata_from_import says none.  *)
THEOREM VenueMatchesNothing ==
    ASSUME NEW r \in Rule, \A atom \in r.query : atom.field = "venue",
           NEW data \in Metadata
    PROVE  ~Matches(r, FromImport(data))
<1>1. "venue" \in Columns /\ ColumnOf["venue"] = "venue"
  BY DEF Columns, ColumnOf
<1>2. FromImport(data)["venue"] = {}
  BY <1>1 DEF FromImport, Metadata
<1> QED
  BY <1>1, <1>2 DEF Matches, ValuesForField

-----------------------------------------------------------------------------
(* The log: DaemonLog, LogRing.                                            *)

(* The walk has emptied the place that the next file is renamed to, and    *)
(* the active file when it is to be opened for a line.                     *)
ShiftInv ==
    /\ writer = "shift" => shift < Backups /\ files[shift + 1] = {}
    /\ writer = "open" /\ ~opening => files[0] = {}

(* Files have lines that were written, and the line in hand is newer.      *)
NewInv ==
    /\ \A i \in 0..Backups : files[i] \subseteq written
    /\ \A n \in written : n <= line
    /\ writer \in Rotating \cup {"put"} /\ ~opening => \A n \in written : n < line
    /\ writer = "put" => ~opening

LogIInv == LogType /\ ShiftInv /\ NewInv /\ FilesInOrder /\ NewestRetained

LEMMA LogTypeStep ==
    ASSUME Backups \in Nat, LogType, ShiftInv, [LogNext]_logVars
    PROVE  LogType'
<1> USE DEF LogType, Rotating
<1>1. CASE Start BY <1>1 DEF Start
<1>2. CASE WriteNext
  <2>1. writer' = "put" \/ writer' = "flush" \/ writer' = "oldest"
    BY <1>2, Zenon DEF WriteNext
  <2>2. line' = line + 1 /\ opening' = FALSE
    BY <1>2, Zenon DEF WriteNext
  <2>3. UNCHANGED <<files, open, filled, shift, written>>
    BY <1>2, Zenon DEF WriteNext
  <2>4. files' \in [0..Backups -> SUBSET Nat] /\ written' \subseteq Nat
    BY <2>3
  <2>5. open' \in BOOLEAN /\ filled' \in BOOLEAN /\ opening' \in BOOLEAN
    BY <2>2, <2>3, Zenon
  <2>6. shift' \in Nat /\ shift' <= Backups /\ line' \in Nat
    BY <2>2, <2>3
  <2>7. writer' \in {"off", "ready", "put"} \cup Rotating
    BY <2>1
  <2> QED BY <2>4, <2>5, <2>6, <2>7, Zenon
<1>3. CASE Flush BY <1>3 DEF Flush
<1>4. CASE RemoveOldest BY <1>4 DEF RemoveOldest
<1>5. CASE Shift BY <1>5 DEF Shift, ShiftInv
<1>6. CASE Open BY <1>6 DEF Open
<1>7. CASE Fail BY <1>7 DEF Fail
<1>8. CASE Put BY <1>8 DEF Put
<1>9. CASE NotOpen BY <1>9 DEF NotOpen
<1>10. CASE LogStops BY <1>10 DEF LogStops
<1>11. CASE UNCHANGED logVars BY <1>11 DEF logVars
<1> QED
  BY <1>1, <1>2, <1>3, <1>4, <1>5, <1>6, <1>7, <1>8, <1>9, <1>10, <1>11
     DEF LogNext, Rotate

LEMMA ShiftStep ==
    ASSUME Backups \in Nat, LogType, ShiftInv, [LogNext]_logVars
    PROVE  ShiftInv'
<1> USE DEF LogType, ShiftInv, Rotating
<1>1. CASE Start BY <1>1 DEF Start
<1>2. CASE WriteNext BY <1>2 DEF WriteNext
<1>3. CASE Flush BY <1>3 DEF Flush
<1>4. CASE RemoveOldest BY <1>4 DEF RemoveOldest
<1>5. CASE Shift BY <1>5 DEF Shift
<1>6. CASE Open BY <1>6 DEF Open
<1>7. CASE Fail BY <1>7 DEF Fail
<1>8. CASE Put BY <1>8 DEF Put
<1>9. CASE NotOpen BY <1>9 DEF NotOpen
<1>10. CASE LogStops BY <1>10 DEF LogStops
<1>11. CASE UNCHANGED logVars BY <1>11 DEF logVars
<1> QED
  BY <1>1, <1>2, <1>3, <1>4, <1>5, <1>6, <1>7, <1>8, <1>9, <1>10, <1>11
     DEF LogNext, Rotate

LEMMA NewStep ==
    ASSUME Backups \in Nat, LogType, ShiftInv, NewInv, [LogNext]_logVars
    PROVE  NewInv'
<1> USE DEF LogType, NewInv, Rotating
<1>1. CASE Start BY <1>1 DEF Start
<1>2. CASE WriteNext BY <1>2 DEF WriteNext
<1>3. CASE Flush BY <1>3 DEF Flush
<1>4. CASE RemoveOldest BY <1>4 DEF RemoveOldest
<1>5. CASE Shift BY <1>5 DEF Shift, ShiftInv
<1>6. CASE Open BY <1>6 DEF Open
<1>7. CASE Fail BY <1>7 DEF Fail
<1>8. CASE Put BY <1>8 DEF Put
<1>9. CASE NotOpen BY <1>9 DEF NotOpen
<1>10. CASE LogStops BY <1>10 DEF LogStops
<1>11. CASE UNCHANGED logVars BY <1>11 DEF logVars
<1> QED
  BY <1>1, <1>2, <1>3, <1>4, <1>5, <1>6, <1>7, <1>8, <1>9, <1>10, <1>11
     DEF LogNext, Rotate

LEMMA OrderStep ==
    ASSUME Backups \in Nat, LogType, ShiftInv, NewInv, FilesInOrder, [LogNext]_logVars
    PROVE  FilesInOrder'
<1> USE DEF LogType, FilesInOrder
<1>1. CASE RemoveOldest BY <1>1 DEF RemoveOldest
<1>2. CASE Shift BY <1>2 DEF Shift, ShiftInv
<1>3. CASE Put BY <1>3 DEF Put, NewInv
<1>4. CASE UNCHANGED files BY <1>4
<1> QED
  BY <1>1, <1>2, <1>3, <1>4
     DEF LogNext, Rotate, Start, WriteNext, Flush, Open, Fail, NotOpen, LogStops, logVars

LEMMA RetainedStep ==
    ASSUME Backups \in Nat, LogType, ShiftInv, NewInv, FilesInOrder, NewestRetained,
           [LogNext]_logVars
    PROVE  NewestRetained'
<1> USE DEF LogType
<1>1. CASE RemoveOldest
  <2>1. \A i \in 0..Backups : files'[i] = IF i = Backups THEN {} ELSE files[i]
    BY <1>1 DEF RemoveOldest
  <2> SUFFICES ASSUME NEW old \in Retained', NEW new \in written', old < new
               PROVE  new \in Retained'
    BY DEF NewestRetained
  <2>2. PICK i \in 0..Backups : old \in files'[i]
    BY DEF Retained
  <2>3. i # Backups /\ old \in files[i]
    BY <2>1, <2>2
  <2>4. PICK j \in 0..Backups : new \in files[j]
    BY <1>1, <2>3 DEF NewestRetained, Retained, RemoveOldest
  <2>5. j # Backups
    BY <2>3, <2>4 DEF FilesInOrder
  <2> QED BY <2>1, <2>4, <2>5 DEF Retained
<1>2. CASE Shift
  <2>1. shift \in 0..Backups /\ shift + 1 \in 0..Backups /\ files[shift + 1] = {}
    BY <1>2 DEF Shift, ShiftInv
  <2>2. files'[shift + 1] = files[shift] /\ files'[shift] = {}
    BY <1>2, <2>1 DEF Shift
  <2>3. \A i \in 0..Backups : i # shift /\ i # shift + 1 => files'[i] = files[i]
    BY <1>2, <2>1 DEF Shift
  <2>4. Retained' = Retained
    BY <2>1, <2>2, <2>3 DEF Retained
  <2> QED BY <1>2, <2>4 DEF NewestRetained, Shift
<1>3. CASE Put
  <2>1. Retained' = Retained \cup {line}
    <3>1. \A i \in 0..Backups : files'[i] = IF i = 0 THEN files[0] \cup {line} ELSE files[i]
      BY <1>3 DEF Put
    <3> QED BY <3>1 DEF Retained
  <2>2. \A n \in written : n < line
    BY <1>3 DEF Put, NewInv
  <2> QED BY <1>3, <2>1, <2>2 DEF NewestRetained, Put
<1>4. CASE UNCHANGED <<files, written>>
  BY <1>4 DEF NewestRetained, Retained
<1> QED
  BY <1>1, <1>2, <1>3, <1>4
     DEF LogNext, Rotate, Start, WriteNext, Flush, Open, Fail, NotOpen, LogStops, logVars

LEMMA LogInvariance == ASSUME Backups \in Nat PROVE LogSpec => []LogIInv
<1>1. LogInit => LogIInv
  <2>1. LogInit => LogType
    <3>1. LogInit => files \in [0..Backups -> SUBSET Nat] /\ written \subseteq Nat
      BY DEF LogInit
    <3>2. LogInit => shift \in Nat /\ shift <= Backups /\ line \in Nat
      BY DEF LogInit
    <3>3. LogInit => /\ open \in BOOLEAN /\ filled \in BOOLEAN /\ opening \in BOOLEAN
                  /\ writer \in {"off", "ready", "put"}
      BY DEF LogInit
    <3> QED BY <3>1, <3>2, <3>3 DEF LogType
  <2>2. LogInit => ShiftInv /\ NewInv
    BY DEF LogInit, ShiftInv, NewInv, Rotating
  <2>3. LogInit => FilesInOrder /\ NewestRetained
    BY DEF LogInit, FilesInOrder, NewestRetained, Retained
  <2> QED BY <2>1, <2>2, <2>3 DEF LogIInv
<1>2. LogIInv /\ [LogNext]_logVars => LogIInv'
  BY LogTypeStep, ShiftStep, NewStep, OrderStep, RetainedStep DEF LogIInv
<1> QED BY <1>1, <1>2, PTL DEF LogSpec

(* The writer's state is of its type.                                      *)
THEOREM LogTypeCorrect == ASSUME Backups \in Nat PROVE LogSpec => []LogType
  BY LogInvariance, PTL DEF LogIInv

(* Whatever steps of rotate_files fail, in the rotations of lines and of   *)
(* openings, the files hold the newest of the lines that were written, in  *)
(* the order of the files' numbers.                                        *)
THEOREM OnlyOldestLost ==
    ASSUME Backups \in Nat PROVE LogSpec => [](NewestRetained /\ FilesInOrder)
  BY LogInvariance, PTL DEF LogIInv

-----------------------------------------------------------------------------
(* Numbers taken and not pushed are different, and not in the ring's past. *)
NumberInv ==
    /\ \A e \in Emitters : stage[e] # "idle" => number[e] \in 1..next_id - 1
    /\ \A e, f \in Emitters :
         stage[e] # "idle" /\ stage[f] # "idle" /\ number[e] = number[f] => e = f
    /\ \A k \in 1..Len(pushed) :
         /\ pushed[k] \in 1..next_id - 1
         /\ \A e \in Emitters : stage[e] # "idle" => number[e] # pushed[k]

RingInv == RingType /\ next_id > 0 /\ RingIsRecent /\ NumberInv /\ NumbersAccounted

(* A step that leaves the ring's past and the numbers alone changes nothing here. *)
LEMMA RingUntouched ==
    ASSUME RingInv, RingType', UNCHANGED <<number, next_id, ring, pushed>>,
           \A e \in Emitters : (stage[e] # "idle") <=> (stage'[e] # "idle")
    PROVE  RingInv'
<1>1. RingIsRecent' /\ next_id' > 0
  BY DEF RingInv, RingIsRecent
<1>2. NumberInv'
  BY DEF RingInv, NumberInv
<1>3. NumbersAccounted'
  BY DEF RingInv, NumbersAccounted
<1> QED
  BY <1>1, <1>2, <1>3 DEF RingInv

LEMMA NumberKeeps ==
    ASSUME RingInv, NEW e \in Emitters, Number(e) PROVE RingInv'
<1>1. /\ next_id' = next_id + 1 /\ UNCHANGED <<queue, ring, pushed>> /\ next_id \in Nat
      /\ stage' = [stage EXCEPT ![e] = "numbered"] /\ stage[e] = "idle"
      /\ number' = [number EXCEPT ![e] = next_id]
  BY DEF Number, RingInv, RingType
<1>2. RingType' /\ next_id' > 0
  BY <1>1 DEF RingInv, RingType
<1>3. RingIsRecent'
  BY <1>1 DEF RingInv, RingIsRecent
<1>4. NumberInv'
  BY <1>1 DEF RingInv, RingType, NumberInv
<1>5. NumbersAccounted'
  <2>1. \A n \in 1..next_id' - 1 : n = next_id \/ n \in 1..next_id - 1
    BY <1>1
  <2> QED
    BY <1>1, <2>1 DEF RingInv, RingType, NumbersAccounted
<1> QED
  BY <1>2, <1>3, <1>4, <1>5 DEF RingInv

(* What Append does to a sequence of numbers, as the steps below use it.   *)
LEMMA Appended ==
    ASSUME NEW s \in Seq(Nat), NEW x \in Nat
    PROVE  /\ Append(s, x) \in Seq(Nat) /\ Len(Append(s, x)) = Len(s) + 1
           /\ Append(s, x)[Len(s) + 1] = x
           /\ \A k \in 1..Len(s) : Append(s, x)[k] = s[k]
OBVIOUS

LEMMA Shortened ==
    ASSUME NEW s \in Seq(Nat), s # <<>>
    PROVE  /\ Tail(s) \in Seq(Nat) /\ Len(Tail(s)) = Len(s) - 1
           /\ \A k \in 1..Len(s) - 1 : Tail(s)[k] = s[k + 1]
OBVIOUS

(* The ring has the last entries before a push, and has them after it.     *)
LEMMA PushKeepsRing ==
    ASSUME Capacity \in Nat \ {0}, RingInv, NEW e \in Emitters, Push(e)
    PROVE  ring' \in Seq(Nat) /\ RingIsRecent'
<1>1. /\ number[e] \in Nat /\ pushed' = Append(pushed, number[e])
      /\ pushed \in Seq(Nat) /\ ring \in Seq(Nat)
      /\ Len(pushed) \in Nat /\ Len(ring) \in Nat
  BY DEF Push, RingInv, RingType
<1>2. /\ Len(pushed') = Len(pushed) + 1 /\ pushed'[Len(pushed) + 1] = number[e]
      /\ \A k \in 1..Len(pushed) : pushed'[k] = pushed[k]
  BY <1>1, Appended
<1>3. /\ Len(ring) = IF Len(pushed) < Capacity THEN Len(pushed) ELSE Capacity
      /\ \A k \in 1..Len(ring) : ring[k] = pushed[Len(pushed) - Len(ring) + k]
  BY DEF RingInv, RingIsRecent
<1>4. CASE Len(ring) >= Capacity
  <2>1. ring # <<>> /\ Len(ring) = Capacity /\ Len(pushed) >= Capacity
    BY <1>1, <1>3, <1>4
  <2>2. ring' = Append(Tail(ring), number[e])
    BY <1>4 DEF Push
  <2>3. /\ ring' \in Seq(Nat) /\ Len(ring') = Capacity /\ ring'[Capacity] = number[e]
        /\ \A k \in 1..Capacity - 1 : ring'[k] = ring[k + 1]
    <3>1. /\ Tail(ring) \in Seq(Nat) /\ Len(Tail(ring)) = Capacity - 1
          /\ \A k \in 1..Capacity - 1 : Tail(ring)[k] = ring[k + 1]
      BY <1>1, <2>1, Shortened
    <3>2. /\ Append(Tail(ring), number[e]) \in Seq(Nat)
          /\ Len(Append(Tail(ring), number[e])) = Capacity
          /\ Append(Tail(ring), number[e])[Capacity] = number[e]
          /\ \A k \in 1..Capacity - 1 : Append(Tail(ring), number[e])[k] = Tail(ring)[k]
      BY <1>1, <3>1, Appended
    <3> QED
      BY <2>2, <3>1, <3>2
  <2>4. ASSUME NEW k \in 1..Capacity
        PROVE  ring'[k] = pushed'[Len(pushed') - Capacity + k]
    <3>1. CASE k = Capacity
      BY <1>1, <1>2, <2>3, <3>1
    <3>2. CASE k # Capacity
      <4>1. /\ k \in 1..Capacity - 1 /\ k + 1 \in 1..Len(ring)
            /\ Len(pushed) - Len(ring) + (k + 1) \in 1..Len(pushed)
            /\ Len(pushed') - Capacity + k = Len(pushed) - Len(ring) + (k + 1)
        BY <1>1, <1>2, <2>1, <3>2
      <4>2. /\ ring'[k] = ring[k + 1]
            /\ ring[k + 1] = pushed[Len(pushed) - Len(ring) + (k + 1)]
        BY <1>3, <2>3, <4>1
      <4> QED
        BY <1>2, <4>1, <4>2
    <3> QED
      BY <3>1, <3>2
  <2>5. Len(ring') = IF Len(pushed') < Capacity THEN Len(pushed') ELSE Capacity
    BY <1>1, <1>2, <2>1, <2>3
  <2>6. \A k \in 1..Len(ring') : ring'[k] = pushed'[Len(pushed') - Len(ring') + k]
    BY <2>3, <2>4
  <2> QED
    BY <2>3, <2>5, <2>6 DEF RingIsRecent
<1>5. CASE Len(ring) < Capacity
  <2>1. /\ ring' = Append(ring, number[e]) /\ Len(ring) = Len(pushed)
        /\ \A k \in 1..Len(pushed) : ring[k] = pushed[k]
    <3>1. ring' = Append(ring, number[e])
      BY <1>5 DEF Push
    <3>2. Len(ring) = Len(pushed)
      BY <1>1, <1>3, <1>5
    <3>3. \A k \in 1..Len(pushed) : Len(pushed) - Len(ring) + k = k
      BY <1>1, <3>2
    <3> QED
      BY <1>3, <3>1, <3>2, <3>3
  <2>2. /\ ring' \in Seq(Nat) /\ Len(ring') = Len(pushed')
        /\ ring'[Len(pushed) + 1] = number[e]
        /\ \A k \in 1..Len(pushed) : ring'[k] = pushed'[k]
    BY <1>1, <1>2, <2>1, Appended
  <2>3. /\ \A k \in 1..Len(pushed') : k = Len(pushed) + 1 \/ k \in 1..Len(pushed)
        /\ \A k \in 1..Len(pushed') : Len(pushed') - Len(ring') + k = k
    BY <1>1, <1>2, <2>2
  <2>4. \A k \in 1..Len(ring') : ring'[k] = pushed'[Len(pushed') - Len(ring') + k]
    BY <1>2, <2>2, <2>3
  <2>5. Len(ring') = IF Len(pushed') < Capacity THEN Len(pushed') ELSE Capacity
    BY <1>1, <1>2, <1>5, <2>1, <2>2
  <2> QED
    BY <2>2, <2>4, <2>5 DEF RingIsRecent
<1> QED
  BY <1>1, <1>4, <1>5

LEMMA PushKeeps ==
    ASSUME Capacity \in Nat \ {0}, RingInv, NEW e \in Emitters, Push(e)
    PROVE  RingInv'
<1>1. /\ UNCHANGED <<number, next_id, queue>> /\ stage[e] = "handed"
      /\ stage' = [stage EXCEPT ![e] = "idle"] /\ number[e] \in Nat
      /\ pushed' = Append(pushed, number[e]) /\ pushed \in Seq(Nat)
      /\ Len(pushed) \in Nat /\ next_id \in Nat
      /\ stage \in [Emitters -> {"idle", "numbered", "handed"}]
  BY DEF Push, RingInv, RingType
<1>2. /\ Len(pushed') = Len(pushed) + 1 /\ pushed'[Len(pushed) + 1] = number[e]
      /\ \A k \in 1..Len(pushed) : pushed'[k] = pushed[k]
      /\ pushed' \in Seq(Nat)
  BY <1>1, Appended
<1>3. RingType' /\ RingIsRecent' /\ next_id' > 0
  BY <1>1, <1>2, PushKeepsRing DEF RingInv, RingType
<1>4. /\ \A k \in 1..Len(pushed') : k = Len(pushed) + 1 \/ k \in 1..Len(pushed)
      /\ 1..Len(pushed) \subseteq 1..Len(pushed') /\ Len(pushed) + 1 \in 1..Len(pushed')
  BY <1>1, <1>2
<1>5. \A k \in 1..Len(pushed) : pushed[k] # number[e]
  BY <1>1 DEF RingInv, NumberInv
<1>6. NumberInv'
  BY <1>1, <1>2, <1>4 DEF RingInv, RingType, NumberInv
<1>7. \A k, m \in 1..Len(pushed') : pushed'[k] = pushed'[m] => k = m
  <2>1. \A k, m \in 1..Len(pushed) : pushed[k] = pushed[m] => k = m
    BY DEF RingInv, NumbersAccounted
  <2> QED
    BY <1>2, <1>4, <1>5, <2>1
<1>8. ASSUME NEW n \in 1..next_id - 1
      PROVE  \/ \E k \in 1..Len(pushed') : pushed'[k] = n
             \/ \E f \in Emitters : stage'[f] # "idle" /\ number[f] = n
  <2>1. CASE \E k \in 1..Len(pushed) : pushed[k] = n
    BY <1>2, <1>4, <2>1
  <2>2. CASE number[e] = n
    BY <1>2, <1>4, <2>2
  <2>3. CASE \E f \in Emitters : f # e /\ stage[f] # "idle" /\ number[f] = n
    BY <1>1, <2>3
  <2> QED
    BY <2>1, <2>2, <2>3 DEF RingInv, NumbersAccounted
<1> QED
  BY <1>1, <1>3, <1>6, <1>7, <1>8 DEF RingInv, NumbersAccounted

LEMMA RingInvariance == ASSUME Capacity \in Nat \ {0} PROVE RingSpec => []RingInv
<1>1. RingInit => RingInv
  BY DEF RingInit, RingInv, RingType, RingIsRecent, NumberInv, NumbersAccounted
<1>2. ASSUME RingInv, [RingNext]_ringVars PROVE RingInv'
  <2>1. ASSUME NEW e \in Emitters, Number(e) PROVE RingInv'
    BY <1>2, <2>1, NumberKeeps
  <2>2. ASSUME NEW e \in Emitters, HandOver(e) PROVE RingInv'
    <3>1. /\ UNCHANGED <<number, next_id, ring, pushed>> /\ stage[e] = "numbered"
          /\ stage' = [stage EXCEPT ![e] = "handed"] /\ queue' \in Seq(Nat)
      BY <1>2, <2>2 DEF HandOver, RingInv, RingType
    <3>2. RingType'
      BY <1>2, <3>1 DEF RingInv, RingType
    <3>3. \A f \in Emitters : (stage[f] # "idle") <=> (stage'[f] # "idle")
      BY <1>2, <3>1 DEF RingInv, RingType
    <3> QED
      BY <1>2, <3>1, <3>2, <3>3, RingUntouched
  <2>3. ASSUME NEW e \in Emitters, Push(e) PROVE RingInv'
    BY <1>2, <2>3, PushKeeps
  <2>4. ASSUME WriteLine PROVE RingInv'
    <3>1. UNCHANGED <<stage, number, next_id, ring, pushed>> /\ queue' \in Seq(Nat)
      BY <1>2, <2>4, Shortened DEF WriteLine, RingInv, RingType
    <3>2. RingType'
      BY <1>2, <3>1 DEF RingInv, RingType
    <3> QED
      BY <1>2, <3>1, <3>2, RingUntouched
  <2>5. ASSUME StartAgain PROVE RingInv'
    BY <1>2, <2>5
       DEF StartAgain, RingInv, RingType, RingIsRecent, NumberInv, NumbersAccounted
  <2>6. ASSUME UNCHANGED ringVars PROVE RingInv'
    BY <1>2, <2>6, RingUntouched DEF ringVars, RingInv, RingType
  <2> QED
    BY <1>2, <2>1, <2>2, <2>3, <2>4, <2>5, <2>6 DEF RingNext
<1> QED
  BY <1>1, <1>2, PTL DEF RingSpec

(* Whatever order threads log in, the ring has the entries pushed last, as *)
(* many as it holds (push).                                                *)
THEOREM RingHasTheLast == ASSUME Capacity \in Nat \ {0} PROVE RingSpec => []RingIsRecent
<1>1. RingSpec => []RingInv
  BY RingInvariance
<1> QED
  BY <1>1, PTL DEF RingInv

(* No two entries have one number, and none is missing but those in the    *)
(* hand of a thread (next_id, on_event).                                   *)
THEOREM NumbersAreKept == ASSUME Capacity \in Nat \ {0} PROVE RingSpec => []NumbersAccounted
<1>1. RingSpec => []RingInv
  BY RingInvariance
<1> QED
  BY <1>1, PTL DEF RingInv

-----------------------------------------------------------------------------
(* The window: LibraryView.                                                *)

(* What the window shows is right as far as the refresh has come, and it   *)
(* is subscribed as long as it has the handle.                             *)
FollowInv ==
    running /\ ~untold /\ changing = {} /\ NoneTells(channel) =>
        \A p \in Views : reading = "nothing" \/ (reading = "items" /\ p = "categories") =>
            view[p] = content[p]

ViewInv == ViewType /\ FollowInv /\ QuietAfterStop /\ (running => subscribed)

(* A change in a sequence of events.                                       *)
LEMMA AmongAppended ==
    ASSUME NEW s \in Seq(Kinds), NEW e \in Kinds
    PROVE  /\ Append(s, e) \in Seq(Kinds) /\ Len(Append(s, e)) = Len(s) + 1
           /\ "change" \in Among(Append(s, e)) <=> "change" \in Among(s) \/ e = "change"
<1>1. /\ Append(s, e) \in Seq(Kinds) /\ Len(Append(s, e)) = Len(s) + 1
      /\ DOMAIN s = 1..Len(s) /\ DOMAIN Append(s, e) = 1..(Len(s) + 1) /\ Len(s) \in Nat
  OBVIOUS
<1>2. /\ \A k \in 1..Len(s) : Append(s, e)[k] = s[k]
      /\ Append(s, e)[Len(s) + 1] = e
  OBVIOUS
<1> QED
  BY <1>1, <1>2 DEF Among

LEMMA AmongTail ==
    ASSUME NEW s \in Seq(Kinds), s # <<>>
    PROVE  /\ Tail(s) \in Seq(Kinds) /\ Len(Tail(s)) = Len(s) - 1 /\ Head(s) \in Kinds
           /\ "change" \in Among(s) <=> "change" \in Among(Tail(s)) \/ Head(s) = "change"
<1>1. /\ Tail(s) \in Seq(Kinds) /\ Len(Tail(s)) = Len(s) - 1 /\ Head(s) \in Kinds
      /\ DOMAIN s = 1..Len(s) /\ DOMAIN Tail(s) = 1..(Len(s) - 1) /\ Len(s) \in Nat \ {0}
      /\ Head(s) = s[1]
  OBVIOUS
<1>2. \A k \in 1..(Len(s) - 1) : Tail(s)[k] = s[k + 1]
  OBVIOUS
<1>3. ASSUME "change" \in Among(s) PROVE "change" \in Among(Tail(s)) \/ Head(s) = "change"
  <2>1. PICK k \in 1..Len(s) : s[k] = "change"
    BY <1>1, <1>3 DEF Among
  <2>2. CASE k # 1
    <3>1. k - 1 \in 1..(Len(s) - 1) /\ Tail(s)[k - 1] = s[k]
      BY <1>1, <1>2, <2>2
    <3> QED
      BY <1>1, <2>1, <3>1 DEF Among
  <2> QED
    BY <1>1, <2>1, <2>2
<1>4. ASSUME "change" \in Among(Tail(s)) PROVE "change" \in Among(s)
  <2>1. PICK k \in 1..(Len(s) - 1) : Tail(s)[k] = "change"
    BY <1>1, <1>4 DEF Among
  <2>2. k + 1 \in 1..Len(s) /\ s[k + 1] = "change"
    BY <1>1, <1>2, <2>1
  <2> QED
    BY <1>1, <2>2 DEF Among
<1> QED
  BY <1>1, <1>3, <1>4 DEF Among

LEMMA EmptyChannel ==
    ASSUME Channel \in Nat \ {0}, NEW s, s = <<>>
    PROVE  s \in Seq(Kinds) /\ Len(s) <= Channel
<1>1. Len(s) = 0 /\ s \in Seq(Kinds)
  OBVIOUS
<1> QED
  BY <1>1

(* A full channel drops its oldest event for the new one.                  *)
LEMMA PublishedFits ==
    ASSUME Channel \in Nat \ {0}, ViewType, NEW e \in Kinds
    PROVE  /\ Published(e) \in Seq(Kinds) /\ Len(Published(e)) <= Channel
           /\ e = "change" => "change" \in Among(Published(e))
           /\ "change" \in Among(Published(e)) =>
                 e = "change" \/ "change" \in Among(channel)
<1>1. CASE Len(channel) < Channel
  BY <1>1, AmongAppended DEF ViewType, Published
<1>2. CASE ~(Len(channel) < Channel)
  <2>1. channel # <<>> /\ Len(channel) = Channel
    BY <1>2 DEF ViewType
  <2>2. /\ Tail(channel) \in Seq(Kinds) /\ Len(Tail(channel)) = Channel - 1
        /\ "change" \in Among(Tail(channel)) => "change" \in Among(channel)
    BY <2>1, AmongTail DEF ViewType
  <2>3. Published(e) = Append(Tail(channel), e)
    BY <1>2 DEF Published
  <2>4. /\ Published(e) \in Seq(Kinds) /\ Len(Published(e)) = Len(Tail(channel)) + 1
        /\ "change" \in Among(Published(e)) <=>
              "change" \in Among(Tail(channel)) \/ e = "change"
    BY <2>2, <2>3, AmongAppended
  <2> QED
    BY <2>2, <2>4
<1> QED
  BY <1>1, <1>2

LEMMA ViewStep ==
    ASSUME Channel \in Nat \ {0}, ViewInv, ViewNext PROVE ViewInv'
<1> USE DEF ViewInv, ViewType, FollowInv, QuietAfterStop, NoneTells, Kinds, Views
<1>1. ASSUME NEW c \in Changers, NEW after \in [Views -> Contents], ChangeLibrary(c, after)
      PROVE  ViewInv'
  BY <1>1 DEF ChangeLibrary, events, desktop
<1>2. ASSUME NEW c \in Changers, EmitEvent(c) PROVE ViewInv'
  BY <1>2, PublishedFits DEF EmitEvent, desktop
<1>3. ASSUME NEW c \in Changers, CommandFails(c) PROVE ViewInv'
  BY <1>3 DEF CommandFails, events, desktop
<1>4. ASSUME EmitStatus PROVE ViewInv'
  BY <1>4, PublishedFits DEF EmitStatus, desktop
<1>5. ASSUME NEW ok \in BOOLEAN, Receive(ok) PROVE ViewInv'
  <2>1. /\ channel' \in Seq(Kinds) /\ Len(channel') <= Channel /\ Head(channel) \in Kinds
        /\ "change" \in Among(channel) <=>
             "change" \in Among(channel') \/ Head(channel) = "change"
    BY <1>5, AmongTail DEF Receive
  <2>2. /\ posted' \in Seq(Kinds)
        /\ ok => ("change" \in Among(posted') <=>
                    "change" \in Among(posted) \/ Head(channel) = "change")
    BY <1>5, <2>1, AmongAppended DEF Receive
  <2> QED
    BY <1>5, <2>1, <2>2 DEF Receive, desktop
<1>6. ASSUME OnEvent PROVE ViewInv'
  <2>1. /\ posted' \in Seq(Kinds) /\ Head(posted) \in Kinds
        /\ "change" \in Among(posted) <=>
             "change" \in Among(posted') \/ Head(posted) = "change"
    BY <1>6, AmongTail DEF OnEvent
  <2> QED
    BY <1>6, <2>1 DEF OnEvent, BeginRefresh, events, desktop
<1>7. ASSUME UserRefresh PROVE ViewInv'
  BY <1>7 DEF UserRefresh, BeginRefresh
<1>8. ASSUME ReadPart PROVE ViewInv'
  BY <1>8 DEF ReadPart, events
<1>9. ASSUME RefreshFails PROVE ViewInv'
  BY <1>9 DEF RefreshFails, events
<1>10. ASSUME GiveUpHandle PROVE ViewInv'
  BY <1>10 DEF GiveUpHandle, events
<1>11. ASSUME Shutdown PROVE ViewInv'
  <2>1. channel' \in Seq(Kinds) /\ Len(channel') <= Channel
    BY <1>11, EmptyChannel DEF Shutdown
  <2> QED
    BY <1>11, <2>1 DEF Shutdown, desktop
<1> QED
  BY <1>1, <1>2, <1>3, <1>4, <1>5, <1>6, <1>7, <1>8, <1>9, <1>10, <1>11 DEF ViewNext

(* The window of a daemon that runs shows the library as it is once all    *)
(* commands have told of their changes and it has answered, but for        *)
(* changes that failed half way, whose event was lost to status messages,  *)
(* or whose refresh failed (subscribe_events, OnEvent, Refresh).           *)
THEOREM WindowFollows ==
    ASSUME Channel \in Nat \ {0}
    PROVE  ViewSpec => [](ViewType /\ ViewFollows /\ QuietAfterStop)
<1>1. ASSUME ViewInit PROVE ViewInv
  <2>1. channel \in Seq(Kinds) /\ posted \in Seq(Kinds) /\ Len(channel) <= Channel
    BY <1>1, EmptyChannel DEF ViewInit
  <2>2. ViewType
    BY <1>1, <2>1 DEF ViewInit, ViewType, Views
  <2> QED
    BY <1>1, <2>2 DEF ViewInit, ViewInv, FollowInv, QuietAfterStop
<1>2. ASSUME ViewInv, [ViewNext]_viewVars PROVE ViewInv'
  <2>1. CASE UNCHANGED viewVars
    BY <1>2, <2>1 DEF viewVars, events, desktop, ViewInv, ViewType, FollowInv, NoneTells,
       QuietAfterStop
  <2> QED
    BY <1>2, <2>1, ViewStep
<1>3. ASSUME ViewInv PROVE ViewType /\ ViewFollows /\ QuietAfterStop
  <2>1. ASSUME running, reading = "nothing", ~untold, changing = {}, NoneTells(channel)
        PROVE  view = content
    <3>1. \A p \in Views : view[p] = content[p]
      BY <1>3, <2>1 DEF ViewInv, FollowInv
    <3> QED
      BY <1>3, <3>1 DEF ViewInv, ViewType
  <2> QED
    BY <1>3, <2>1 DEF ViewInv, ViewFollows
<1> QED
  BY <1>1, <1>2, <1>3, PTL DEF ViewSpec

-----------------------------------------------------------------------------
(* The save sessions of the connector: ConnectorSessions.                  *)

(* Places and ranks.                                                       *)

(* The members of a set of places have the ranks from 1 to their number.   *)
LEMMA RankIs ==
    ASSUME NEW K, IsFiniteSet(K), K \subseteq Nat
    PROVE  /\ \A i \in K : Rank(K, i) \in 1..Cardinality(K)
           /\ \A i, j \in K : Rank(K, i) = Rank(K, j) => i = j
           /\ \A k \in 1..Cardinality(K) : \E i \in K : Rank(K, i) = k
           /\ \A i, j \in K : i < j => Rank(K, i) < Rank(K, j)
<1> DEFINE Upto(i) == {j \in K : j <= i}
<1>1. ASSUME NEW i \in K
      PROVE  /\ IsFiniteSet(Upto(i)) /\ Cardinality(Upto(i)) \in Nat
             /\ Cardinality(Upto(i)) <= Cardinality(K)
  BY FS_Subset, FS_CardinalityType
<1>2. ASSUME NEW i \in K PROVE Cardinality(Upto(i)) # 0
  BY <1>1, FS_EmptySet, i \in Upto(i)
<1>3. Cardinality(K) \in Nat
  BY FS_CardinalityType
<1>4. ASSUME NEW i \in K, NEW j \in K, i < j
      PROVE  Cardinality(Upto(i)) < Cardinality(Upto(j))
  <2>1. Upto(i) \subseteq Upto(j) /\ j \in Upto(j) /\ j \notin Upto(i)
    <3>1. ASSUME NEW x \in K, x <= i PROVE x <= j
      <4>1. x \in Nat /\ i \in Nat /\ j \in Nat
        OBVIOUS
      <4> QED
        BY <1>4, <3>1, <4>1
    <3>2. ~(j <= i)
      <4>1. i \in Nat /\ j \in Nat
        OBVIOUS
      <4> QED
        BY <1>4, <4>1
    <3>3. j <= j
      <4>1. j \in Nat
        OBVIOUS
      <4> QED
        BY <4>1
    <3> QED
      BY <3>1, <3>2, <3>3
  <2> QED
    BY <1>1, <2>1, FS_Subset
<1>5. \A i \in K : Rank(K, i) \in 1..Cardinality(K)
  <2> SUFFICES ASSUME NEW i \in K PROVE Cardinality(Upto(i)) \in 1..Cardinality(K)
    BY DEF Rank
  <2> HIDE DEF Upto
  <2> QED
    BY <1>1, <1>2, <1>3
<1>6. \A i, j \in K : Rank(K, i) = Rank(K, j) => i = j
  <2> SUFFICES ASSUME NEW i \in K, NEW j \in K, Cardinality(Upto(i)) = Cardinality(Upto(j))
               PROVE  i = j
    BY DEF Rank
  <2> HIDE DEF Upto
  <2> QED
    BY <1>1, <1>4
<1>7. \A k \in 1..Cardinality(K) : \E i \in K : Rank(K, i) = k
  <2> DEFINE f == [i \in K |-> Rank(K, i)]
  <2>1. f \in Injection(K, 1..Cardinality(K))
    BY <1>5, <1>6 DEF Injection, IsInjective
  <2>2. IsFiniteSet(1..Cardinality(K)) /\ Cardinality(1..Cardinality(K)) = Cardinality(K)
    BY <1>3, FS_Interval
  <2>3. f \in Surjection(K, 1..Cardinality(K))
    BY <2>1, <2>2, FS_Injection
  <2> QED
    BY <2>3 DEF Surjection
<1>8. \A i, j \in K : i < j => Rank(K, i) < Rank(K, j)
  BY <1>4 DEF Rank
<1> QED
  BY <1>5, <1>6, <1>7, <1>8

(* What is taken from a list at some of its places.                        *)
LEMMA AtIs ==
    ASSUME NEW X, NEW ss \in Seq(X), NEW K, K \subseteq DOMAIN ss
    PROVE  /\ IsFiniteSet(K) /\ Cardinality(K) \in Nat
           /\ At(ss, K) \in Seq(X) /\ DOMAIN At(ss, K) = 1..Cardinality(K)
           /\ \A i \in K : Rank(K, i) \in 1..Cardinality(K) /\ At(ss, K)[Rank(K, i)] = ss[i]
           /\ \A i, j \in K : Rank(K, i) = Rank(K, j) => i = j
           /\ \A k \in 1..Cardinality(K) : \E i \in K : Rank(K, i) = k
<1>1. K \subseteq Nat /\ Len(ss) \in Nat /\ DOMAIN ss = 1..Len(ss)
  OBVIOUS
<1>0. IsFiniteSet(1..Len(ss))
  BY <1>1, FS_Interval
<1>2. IsFiniteSet(K)
  BY <1>0, <1>1, FS_Subset
<1>3. Cardinality(K) \in Nat
  BY <1>2, FS_CardinalityType
<1>4. /\ \A i \in K : Rank(K, i) \in 1..Cardinality(K)
      /\ \A i, j \in K : Rank(K, i) = Rank(K, j) => i = j
      /\ \A k \in 1..Cardinality(K) : \E i \in K : Rank(K, i) = k
  BY <1>1, <1>2, RankIs
<1> DEFINE At1(k) == CHOOSE i \in K : Rank(K, i) = k
<1>5. ASSUME NEW k \in 1..Cardinality(K) PROVE At1(k) \in K /\ Rank(K, At1(k)) = k
  BY <1>4
<1>6. At(ss, K) = [k \in 1..Cardinality(K) |-> ss[At1(k)]]
  BY DEF At
<1> HIDE DEF At1
<1>7. At(ss, K) \in Seq(X)
  BY <1>3, <1>5, <1>6
<1>8. ASSUME NEW i \in K PROVE At(ss, K)[Rank(K, i)] = ss[i]
  BY <1>4, <1>5, <1>6
<1> QED
  BY <1>2, <1>3, <1>4, <1>6, <1>7, <1>8

(* The least of some places.                                               *)
LEMMA FirstIs ==
    ASSUME NEW n \in Nat, NEW K, K \subseteq 1..n, K # {}
    PROVE  First(K) \in K
<1>0. IsFiniteSet(1..n) /\ K \subseteq Nat
  BY FS_Interval
<1>1. IsFiniteSet(K) /\ K \subseteq Nat
  BY <1>0, FS_Subset
<1>2. Cardinality(K) \in Nat /\ Cardinality(K) # 0
  BY <1>1, FS_CardinalityType, FS_EmptySet
<1>3. PICK i \in K : Rank(K, i) = 1
  <2>1. 1 \in 1..Cardinality(K)
    BY <1>2
  <2> QED
    BY <1>1, <2>1, RankIs
<1>4. ASSUME NEW j \in K PROVE i <= j
  <2>1. ~(j < i)
    <3>1. Rank(K, j) \in 1..Cardinality(K) /\ (j < i => Rank(K, j) < Rank(K, i))
      BY <1>1, RankIs
    <3> QED
      BY <1>2, <1>3, <3>1
  <2> QED
    BY <1>1, <2>1
<1> QED
  BY <1>4 DEF First

-----------------------------------------------------------------------------
(* Imports and prunes.                                                     *)

SessionType == [id : Ids \cup {NoId}, save : Saves \cup {NoSave},
                atts : SUBSET Attachments, item : Nat]
DirType == [save : Saves \cup {NoSave}, atts : SUBSET Attachments]

(* An import of the sessions at B turns ss into ts and the library into    *)
(* lib: each of them gets a new directory of its own, with its save and    *)
(* its attachments, and no directory is of anything but a pending session. *)
Importing(ss, B, ts, lib) ==
    /\ ts \in Seq(SessionType) /\ DOMAIN ts = DOMAIN ss
    /\ lib \in Seq(DirType) /\ DOMAIN library \subseteq DOMAIN lib
    /\ \A k \in DOMAIN library : lib[k] = library[k]
    /\ B \subseteq DOMAIN ss
    /\ \A i \in DOMAIN ss \ B : ts[i] = ss[i]
    /\ \A i \in B : /\ ss[i].item = 0 /\ ss[i].save # NoSave
                    /\ ts[i].id = ss[i].id /\ ts[i].save = ss[i].save
                    /\ ts[i].atts = ss[i].atts
                    /\ ts[i].item \in DOMAIN lib \ DOMAIN library
                    /\ lib[ts[i].item].save = ss[i].save
                    /\ lib[ts[i].item].atts = ss[i].atts
    /\ \A i, j \in B : ts[i].item = ts[j].item => i = j
    /\ \A k \in DOMAIN lib \ DOMAIN library : \E i \in DOMAIN ss :
          /\ ss[i].item = 0 /\ ss[i].save # NoSave
          /\ lib[k].save = ss[i].save /\ lib[k].atts = ss[i].atts

(* The directories an import makes.                                        *)
LEMMA WrittenIs ==
    ASSUME NEW ss \in Seq(SessionType), NEW K, K \subseteq DOMAIN ss
    PROVE  /\ IsFiniteSet(K) /\ Cardinality(K) \in Nat
           /\ Written(ss, K) \in Seq(DirType) /\ DOMAIN Written(ss, K) = 1..Cardinality(K)
           /\ \A i \in K : /\ Rank(K, i) \in 1..Cardinality(K)
                           /\ Written(ss, K)[Rank(K, i)] =
                                 [save |-> ss[i].save, atts |-> ss[i].atts]
           /\ \A i, j \in K : Rank(K, i) = Rank(K, j) => i = j
           /\ \A k \in 1..Cardinality(K) : \E i \in K : Rank(K, i) = k
<1> DEFINE done == At(ss, K)
<1>1. /\ IsFiniteSet(K) /\ Cardinality(K) \in Nat
      /\ done \in Seq(SessionType) /\ DOMAIN done = 1..Cardinality(K)
      /\ \A i \in K : Rank(K, i) \in 1..Cardinality(K) /\ done[Rank(K, i)] = ss[i]
      /\ \A i, j \in K : Rank(K, i) = Rank(K, j) => i = j
      /\ \A k \in 1..Cardinality(K) : \E i \in K : Rank(K, i) = k
  BY AtIs
<1>2. Written(ss, K) =
         [k \in 1..Cardinality(K) |-> [save |-> done[k].save, atts |-> done[k].atts]]
  BY <1>1 DEF Written
<1> HIDE DEF done
<1>3. ASSUME NEW k \in 1..Cardinality(K)
      PROVE  [save |-> done[k].save, atts |-> done[k].atts] \in DirType
  <2>1. done[k] \in SessionType
    BY <1>1
  <2> QED
    BY <2>1 DEF SessionType, DirType
<1>4. Written(ss, K) \in Seq(DirType)
  BY <1>1, <1>2, <1>3
<1>5. \A i \in K : Written(ss, K)[Rank(K, i)] = [save |-> ss[i].save, atts |-> ss[i].atts]
  BY <1>1, <1>2
<1> QED
  BY <1>1, <1>2, <1>4, <1>5

(* A library with more directories at its end.                             *)
LEMMA LongerIs ==
    ASSUME NEW lib \in Seq(DirType), NEW new \in Seq(DirType)
    PROVE  /\ lib \o new \in Seq(DirType)
           /\ DOMAIN (lib \o new) = 1..(Len(lib) + Len(new))
           /\ DOMAIN lib \subseteq DOMAIN (lib \o new)
           /\ \A k \in DOMAIN lib : (lib \o new)[k] = lib[k]
           /\ \A k \in DOMAIN new : /\ Len(lib) + k \in DOMAIN (lib \o new) \ DOMAIN lib
                                    /\ (lib \o new)[Len(lib) + k] = new[k]
           /\ \A k \in DOMAIN (lib \o new) \ DOMAIN lib :
                 k - Len(lib) \in DOMAIN new /\ k = Len(lib) + (k - Len(lib))
<1>1. /\ Len(lib) \in Nat /\ Len(new) \in Nat /\ DOMAIN lib = 1..Len(lib)
      /\ DOMAIN new = 1..Len(new)
      /\ lib \o new \in Seq(DirType) /\ Len(lib \o new) = Len(lib) + Len(new)
      /\ DOMAIN (lib \o new) = 1..Len(lib \o new)
  OBVIOUS
<1>2. \A k \in 1..(Len(lib) + Len(new)) :
         (lib \o new)[k] = IF k <= Len(lib) THEN lib[k] ELSE new[k - Len(lib)]
  OBVIOUS
<1> QED
  BY <1>1, <1>2

(* The library after an import that wrote the directories of K, among them *)
(* those of B, whose ranks they kept.                                      *)
LEMMA ImportOf ==
    ASSUME library \in Seq(DirType), NEW ss \in Seq(SessionType), NEW stop,
           NEW K, K \subseteq Importable(ss), Before(ss, stop) \subseteq K,
           \A i \in Before(ss, stop) : Rank(K, i) = Rank(Before(ss, stop), i)
    PROVE  Importing(ss, Before(ss, stop), Imported(ss, stop), library \o Written(ss, K))
<1> DEFINE B == Before(ss, stop)
           ts == Imported(ss, stop)
           lib == library \o Written(ss, K)
<1>1. /\ K \subseteq DOMAIN ss /\ B \subseteq DOMAIN ss
      /\ \A i \in K : ss[i].item = 0 /\ ss[i].save # NoSave
  BY DEF Importable, Before, Pending
<1>2. /\ Cardinality(K) \in Nat
      /\ Written(ss, K) \in Seq(DirType) /\ DOMAIN Written(ss, K) = 1..Cardinality(K)
      /\ \A i \in K : /\ Rank(K, i) \in 1..Cardinality(K)
                      /\ Written(ss, K)[Rank(K, i)] =
                            [save |-> ss[i].save, atts |-> ss[i].atts]
      /\ \A i, j \in K : Rank(K, i) = Rank(K, j) => i = j
      /\ \A k \in 1..Cardinality(K) : \E i \in K : Rank(K, i) = k
  BY <1>1, WrittenIs
<1>3. /\ lib \in Seq(DirType) /\ DOMAIN library \subseteq DOMAIN lib
      /\ \A k \in DOMAIN library : lib[k] = library[k]
      /\ \A k \in 1..Cardinality(K) : /\ Len(library) + k \in DOMAIN lib \ DOMAIN library
                                      /\ lib[Len(library) + k] = Written(ss, K)[k]
      /\ \A k \in DOMAIN lib \ DOMAIN library :
            k - Len(library) \in 1..Cardinality(K) /\ k = Len(library) + (k - Len(library))
  BY <1>2, LongerIs
<1>4. Len(library) \in Nat
  OBVIOUS
<1>5. ASSUME NEW i \in B
      PROVE  /\ [ss[i] EXCEPT !.item = Len(library) + Rank(B, i)] \in SessionType
             /\ Len(library) + Rank(B, i) \in DOMAIN lib \ DOMAIN library
             /\ lib[Len(library) + Rank(B, i)] = [save |-> ss[i].save, atts |-> ss[i].atts]
  <2>1. Rank(B, i) = Rank(K, i) /\ Rank(K, i) \in 1..Cardinality(K) /\ i \in K
    BY <1>2
  <2>2. ss[i] \in SessionType /\ Len(library) + Rank(B, i) \in Nat
    BY <1>1, <1>2, <1>4, <2>1
  <2>3. [ss[i] EXCEPT !.item = Len(library) + Rank(B, i)] \in SessionType
    BY <2>2 DEF SessionType
  <2> HIDE DEF B, lib
  <2> QED
    BY <1>2, <1>3, <2>1, <2>3
<1>6. ts = [i \in DOMAIN ss |->
               IF i \in B THEN [ss[i] EXCEPT !.item = Len(library) + Rank(B, i)] ELSE ss[i]]
  BY DEF Imported
<1>7. ts \in Seq(SessionType) /\ DOMAIN ts = DOMAIN ss
  <2>1. ASSUME NEW i \in DOMAIN ss PROVE ts[i] \in SessionType
    <3>1. ss[i] \in SessionType
      OBVIOUS
    <3> HIDE DEF B, ts, lib
    <3> QED
      BY <1>5, <1>6, <3>1
  <2>2. DOMAIN ss = 1..Len(ss) /\ Len(ss) \in Nat
    OBVIOUS
  <2> HIDE DEF B, ts, lib
  <2> QED
    BY <1>6, <2>1, <2>2
<1>8. \A i \in DOMAIN ss \ B : ts[i] = ss[i]
  <2> HIDE DEF B, ts
  <2> QED
    BY <1>6
<1>9. ASSUME NEW i \in B
      PROVE  /\ ss[i].item = 0 /\ ss[i].save # NoSave
             /\ ts[i].id = ss[i].id /\ ts[i].save = ss[i].save /\ ts[i].atts = ss[i].atts
             /\ ts[i].item = Len(library) + Rank(B, i)
             /\ ts[i].item \in DOMAIN lib \ DOMAIN library
             /\ lib[ts[i].item].save = ss[i].save /\ lib[ts[i].item].atts = ss[i].atts
  <2>1. ss[i] \in SessionType /\ i \in DOMAIN ss /\ i \in K
    BY <1>1
  <2>2. ts[i] = [ss[i] EXCEPT !.item = Len(library) + Rank(B, i)]
    <3> HIDE DEF B, ts
    <3> QED
      BY <1>6, <2>1
  <2>3. /\ ts[i].id = ss[i].id /\ ts[i].save = ss[i].save /\ ts[i].atts = ss[i].atts
        /\ ts[i].item = Len(library) + Rank(B, i)
    BY <2>1, <2>2 DEF SessionType
  <2>4. /\ ts[i].item \in DOMAIN lib \ DOMAIN library
        /\ lib[ts[i].item] = [save |-> ss[i].save, atts |-> ss[i].atts]
    <3> HIDE DEF B, ts, lib
    <3> QED
      BY <1>5, <2>3
  <2> HIDE DEF B, ts, lib
  <2> QED
    BY <1>1, <2>1, <2>3, <2>4
<1>10. \A i, j \in B : ts[i].item = ts[j].item => i = j
  <2> SUFFICES ASSUME NEW i \in B, NEW j \in B, ts[i].item = ts[j].item PROVE i = j
    OBVIOUS
  <2>1. /\ Rank(B, i) = Rank(K, i) /\ Rank(B, j) = Rank(K, j) /\ i \in K /\ j \in K
        /\ Rank(K, i) \in Nat /\ Rank(K, j) \in Nat
    <3>1. i \in K /\ j \in K /\ Rank(B, i) = Rank(K, i) /\ Rank(B, j) = Rank(K, j)
      OBVIOUS
    <3>2. Rank(K, i) \in 1..Cardinality(K) /\ Rank(K, j) \in 1..Cardinality(K)
      BY <1>2, <3>1
    <3>3. \A n \in 1..Cardinality(K) : n \in Nat
      BY <1>2
    <3> QED
      BY <3>1, <3>2, <3>3
  <2>2. Len(library) + Rank(K, i) = Len(library) + Rank(K, j)
    BY <1>9, <2>1
  <2> QED
    BY <1>2, <1>4, <2>1, <2>2
<1>11. ASSUME NEW k \in DOMAIN lib \ DOMAIN library
       PROVE  \E i \in DOMAIN ss : /\ ss[i].item = 0 /\ ss[i].save # NoSave
                                   /\ lib[k].save = ss[i].save /\ lib[k].atts = ss[i].atts
  <2>1. PICK i \in K : Rank(K, i) = k - Len(library)
    BY <1>2, <1>3
  <2>2. lib[k] = [save |-> ss[i].save, atts |-> ss[i].atts]
    <3> HIDE DEF lib
    <3>1. k = Len(library) + Rank(K, i) /\ Rank(K, i) \in 1..Cardinality(K)
      BY <1>2, <1>3, <2>1
    <3>2. lib[k] = Written(ss, K)[Rank(K, i)]
      BY <1>3, <3>1
    <3> QED
      BY <1>2, <3>2
  <2> HIDE DEF lib
  <2> QED
    BY <1>1, <2>1, <2>2
<1> HIDE DEF B, ts, lib
<1>12. Importing(ss, B, ts, lib)
  BY <1>1, <1>3, <1>7, <1>8, <1>9, <1>10, <1>11 DEF Importing
<1> QED
  BY <1>12 DEF B, ts, lib


(* What is imported before stop, and what becomes of the faults.           *)
LEMMA ImportIs ==
    ASSUME library \in Seq(DirType), faults \in 0..MaxFaults,
           NEW ss \in Seq(SessionType), NEW stop \in Stops(ss), ImportFrom(ss, stop)
    PROVE  /\ Importing(ss, Before(ss, stop), Imported(ss, stop), library')
           /\ faults' \in 0..MaxFaults
           /\ faults' = 0 => /\ faults = 0
                             /\ library' = library \o Written(ss, Before(ss, stop))
           /\ ~Failed(ss, stop) => Before(ss, stop) = Importable(ss)
<1> DEFINE B == Before(ss, stop)
<1>1. Importable(ss) \subseteq 1..Len(ss) /\ Len(ss) \in Nat /\ DOMAIN ss = 1..Len(ss)
  BY DEF Importable, Pending
<1>2. B \subseteq Importable(ss) /\ stop \in Importable(ss) \cup {Len(ss) + 1}
  BY DEF Before, Stops
<1>3. Importing(ss, B, Imported(ss, stop), library \o Written(ss, B))
  BY <1>2, ImportOf
<1>4. ASSUME stop \in Importable(ss)
      PROVE  Importing(ss, B, Imported(ss, stop), library \o Written(ss, B \cup {stop}))
  <2>1. ASSUME NEW i \in B PROVE Rank(B \cup {stop}, i) = Rank(B, i)
    <3>1. i < stop /\ i \in Nat /\ stop \in Nat
      BY <1>1, <1>2, <1>4 DEF Before
    <3>2. {j \in B \cup {stop} : j <= i} = {j \in B : j <= i}
      BY <3>1
    <3> QED
      BY <3>2 DEF Rank
  <2>2. B \cup {stop} \subseteq Importable(ss) /\ B \subseteq B \cup {stop}
    BY <1>2, <1>4
  <2> QED
    BY <2>1, <2>2, ImportOf
<1>5. ~Failed(ss, stop) => B = Importable(ss)
  BY <1>1, <1>2 DEF Failed, Before
<1>6. CASE Failed(ss, stop) /\ ss[stop].save \notin Unimportable
  <2>1. stop \in Importable(ss)
    BY <1>1, <1>2, <1>6 DEF Failed
  <2>2. faults < MaxFaults
    BY <1>1, <1>6, <2>1 DEF Stops, Failed
  <2>3. /\ faults' = faults + 1
        /\ library' \in {library \o Written(ss, B), library \o Written(ss, B \cup {stop})}
    BY <1>6 DEF ImportFrom
  <2> HIDE DEF B
  <2>4. faults' \in 0..MaxFaults /\ faults' # 0
    BY <2>2, <2>3, MaxAssumption
  <2> QED
    BY <1>3, <1>4, <1>5, <2>1, <2>3, <2>4 DEF B
<1>7. CASE ~(Failed(ss, stop) /\ ss[stop].save \notin Unimportable)
  <2>1. library' = library \o Written(ss, B) /\ faults' = faults
    BY <1>7 DEF ImportFrom
  <2> QED
    BY <1>3, <1>5, <2>1
<1> QED
  BY <1>6, <1>7

(* tt has only sessions of ss, each of them once.                          *)
Thins(ss, tt, place) ==
    /\ tt \in Seq(SessionType)
    /\ place \in [DOMAIN tt -> DOMAIN ss]
    /\ \A k \in DOMAIN tt : tt[k] = ss[place[k]]
    /\ \A k, l \in DOMAIN tt : place[k] = place[l] => k = l

(* A prune keeps the pending sessions and of the completed ones no more    *)
(* than are to be kept.                                                    *)
LEMMA PruneIs ==
    ASSUME NEW ss \in Seq(SessionType)
    PROVE  \E place : /\ Thins(ss, Prune(ss), place)
                      /\ \A i \in Pending(ss) : \E k \in DOMAIN Prune(ss) : place[k] = i
                      /\ \A k \in DOMAIN Prune(ss) : place[k] \in Completed(ss) =>
                            Cardinality({j \in Completed(ss) : j >= place[k]}) <= MaxCompleted
<1> DEFINE K == {i \in DOMAIN ss : i \in Completed(ss) =>
                    Cardinality({j \in Completed(ss) : j >= i}) <= MaxCompleted}
           tt == Prune(ss)
           place == [k \in DOMAIN tt |-> CHOOSE i \in K : Rank(K, i) = k]
<1>1. tt = At(ss, K) /\ K \subseteq DOMAIN ss
  BY DEF Prune
<1>3. Pending(ss) \subseteq K
  BY DEF Pending, Completed
<1>4. \A i \in K :
         i \in Completed(ss) => Cardinality({j \in Completed(ss) : j >= i}) <= MaxCompleted
  OBVIOUS
<1> HIDE DEF K, tt
<1>2. /\ tt \in Seq(SessionType) /\ DOMAIN tt = 1..Cardinality(K)
      /\ \A i \in K : Rank(K, i) \in 1..Cardinality(K) /\ tt[Rank(K, i)] = ss[i]
      /\ \A i, j \in K : Rank(K, i) = Rank(K, j) => i = j
      /\ \A k \in 1..Cardinality(K) : \E i \in K : Rank(K, i) = k
  BY <1>1, AtIs
<1>5. ASSUME NEW k \in DOMAIN tt PROVE place[k] \in K /\ Rank(K, place[k]) = k
  BY <1>2
<1>6. ASSUME NEW i \in Pending(ss) PROVE \E k \in DOMAIN tt : place[k] = i
  <2>1. i \in K /\ Rank(K, i) \in DOMAIN tt
    BY <1>2, <1>3
  <2> QED
    BY <1>2, <1>5, <2>1
<1>7. Thins(ss, tt, place)
  <2>1. \A k \in DOMAIN tt : tt[k] = ss[place[k]]
    BY <1>2, <1>5
  <2>2. place \in [DOMAIN tt -> DOMAIN ss]
    BY <1>1, <1>5
  <2>3. \A k, l \in DOMAIN tt : place[k] = place[l] => k = l
    BY <1>5
  <2> QED
    BY <1>2, <2>1, <2>2, <2>3 DEF Thins
<1> HIDE DEF place
<1> QED
  BY <1>4, <1>5, <1>6, <1>7 DEF tt

-----------------------------------------------------------------------------
(* The invariant, of a list of sessions and a library: a request goes      *)
(* through lists that are no state.                                        *)

Answers == {"nothing", "created", "error"}
ArrivalType == [save : Saves \cup {NoSave}, id : Ids \cup {NoId}]

ListsOK(ss, lib) == ss \in Seq(SessionType) /\ lib \in Seq(DirType)

(* A completed session is of a save, whose directory it names; no other    *)
(* names it.                                                               *)
ItemsOK(ss, lib) ==
    /\ \A i \in DOMAIN ss : ss[i].item # 0 =>
          /\ ss[i].save # NoSave
          /\ ss[i].item \in DOMAIN lib /\ lib[ss[i].item].save = ss[i].save
    /\ \A i, j \in DOMAIN ss : ss[i].item # 0 /\ ss[i].item = ss[j].item => i = j

(* The session of a save has its id, and what else has that id is another  *)
(* save's that shares it.                                                  *)
IdsOK(ss) ==
    /\ \A i, j \in Pending(ss) : ss[i].id = ss[j].id => i = j
    /\ \A i \in DOMAIN ss : ss[i].save # NoSave => ss[i].id = idOf[ss[i].save]
    /\ \A i, j \in DOMAIN ss : ss[i].save = ss[j].save /\ ss[i].save # NoSave => i = j
    /\ \A s \in Saves : Unshared(s) =>
          \A i, j \in DOMAIN ss : ss[i].id = idOf[s] /\ ss[j].id = idOf[s] => i = j

(* What is in a session or in the library came with a request.             *)
ToldOK(ss, lib, t) ==
    /\ \A i \in DOMAIN ss : /\ ss[i].save # NoSave => t[ss[i].save] # "nothing"
                            /\ \A a \in ss[i].atts : t[a] # "nothing"
    /\ \A k \in DOMAIN lib : /\ lib[k].save # NoSave => t[lib[k].save] # "nothing"
                             /\ \A a \in lib[k].atts : t[a] # "nothing"

SavedOK(lib, t) == \A s \in Saves : t[s] = "created" =>
   \E k \in DOMAIN lib : lib[k].save = s

(* As long as no import failed by chance, a save has one directory, and    *)
(* none while its session is pending.                                      *)
OnceOK(ss, lib, f) == f = 0 =>
    /\ \A k, l \in DOMAIN lib : lib[k].save = lib[l].save /\ lib[k].save # NoSave => k = l
    /\ \A i \in Pending(ss), k \in DOMAIN lib :
          ss[i].save # NoSave => lib[k].save # ss[i].save

(* What was awaited is with its save alone.                                *)
RightOK(ss, lib, aw, b) ==
    \A a \in aw : Unshared(b[a].save) =>
        /\ b[a].save # NoSave
        /\ \A k \in DOMAIN lib : a \in lib[k].atts => lib[k].save = b[a].save
        /\ \A i \in DOMAIN ss : a \in ss[i].atts => ss[i].save = b[a].save

(* What was answered 201 is in the library, in a pending session or        *)
(* forgotten by a restart.                                                 *)
KeptOK(ss, lib, t, fg) ==
    \A a \in Attachments : t[a] = "created" =>
        \/ \E k \in DOMAIN lib : a \in lib[k].atts
        \/ \E i \in Pending(ss) : a \in ss[i].atts
        \/ a \in fg

Errors(t) == {r \in Saves \cup Attachments : t[r] = "error"}
Filed(ss) == {i \in DOMAIN ss : ss[i].save # NoSave}

(* Of the sessions of a save all but MaxCompleted have cost an error: one  *)
(* that is pending has failed, and one that is completed was kept by the   *)
(* last prune or follows a request that failed after its import.           *)
WindowOK(ss, t) ==
    /\ IsFiniteSet(Errors(t))
    /\ Cardinality(Filed(ss)) <= MaxCompleted + Cardinality(Errors(t))

StateOK ==
    /\ idOf \in [Saves -> Ids \cup {NoId}]
    /\ told \in [Saves \cup Attachments -> Answers]
    /\ belongs \in [Attachments -> ArrivalType]
    /\ faults \in 0..MaxFaults
    /\ awaited \subseteq Attachments
    /\ \A a \in awaited : told[a] # "nothing"

ConnectorInv ==
    /\ StateOK /\ ListsOK(sessions, library)
    /\ ItemsOK(sessions, library) /\ IdsOK(sessions)
    /\ ToldOK(sessions, library, told) /\ SavedOK(library, told)
    /\ OnceOK(sessions, library, faults) /\ RightOK(sessions, library, awaited, belongs)
    /\ KeptOK(sessions, library, told, forgotten) /\ WindowOK(sessions, told)

(* An import keeps each part.                                              *)
LEMMA ImportKeeps ==
    ASSUME NEW ss \in Seq(SessionType), library \in Seq(DirType), NEW B, NEW ts, NEW lib,
           Importing(ss, B, ts, lib), NEW t, NEW b, NEW aw, NEW fg
    PROVE  /\ ListsOK(ts, lib)
           /\ ItemsOK(ss, library) => ItemsOK(ts, lib)
           /\ IdsOK(ss) => IdsOK(ts)
           /\ ToldOK(ss, library, t) => ToldOK(ts, lib, t)
           /\ SavedOK(library, t) => SavedOK(lib, t)
           /\ RightOK(ss, library, aw, b) => RightOK(ts, lib, aw, b)
           /\ KeptOK(ss, library, t, fg) => KeptOK(ts, lib, t, fg)
           /\ Filed(ts) = Filed(ss)
<1>0. 0 \notin DOMAIN lib
  BY DEF Importing
<1>1. ListsOK(ts, lib)
  BY DEF Importing, ListsOK
<1>2. \A i \in DOMAIN ss :
         /\ ts[i].id = ss[i].id /\ ts[i].save = ss[i].save /\ ts[i].atts = ss[i].atts
         /\ i \in Pending(ts) => i \in Pending(ss) /\ i \notin B
  BY <1>0 DEF Importing, Pending
<1>10. /\ DOMAIN ts = DOMAIN ss /\ B \subseteq DOMAIN ss
       /\ DOMAIN library \subseteq DOMAIN lib
       /\ \A k \in DOMAIN library : lib[k] = library[k]
       /\ \A k \in DOMAIN lib \ DOMAIN library : \E i \in DOMAIN ss :
             /\ ss[i].save # NoSave
             /\ lib[k].save = ss[i].save /\ lib[k].atts = ss[i].atts
  BY DEF Importing
<1>3. ItemsOK(ss, library) => ItemsOK(ts, lib)
  <2> SUFFICES ASSUME ItemsOK(ss, library) PROVE ItemsOK(ts, lib)
    OBVIOUS
  <2>1. ASSUME NEW i \in DOMAIN ts, ts[i].item # 0
        PROVE  /\ ts[i].save # NoSave /\ ts[i].item \in DOMAIN lib
               /\ lib[ts[i].item].save = ts[i].save
    <3>1. CASE i \in B
      BY <1>2, <1>10, <3>1 DEF Importing
    <3>2. CASE i \notin B
      <4>1. ts[i] = ss[i] /\ i \in DOMAIN ss
        BY <1>10, <3>2 DEF Importing
      <4> QED
        BY <1>10, <2>1, <4>1 DEF ItemsOK
    <3> QED
      BY <3>1, <3>2
  <2>2. ASSUME NEW i \in DOMAIN ts, NEW j \in DOMAIN ts, ts[i].item # 0,
               ts[i].item = ts[j].item
        PROVE  i = j
    <3>1. \A m \in DOMAIN ss : m \in B => ts[m].item \in DOMAIN lib \ DOMAIN library
      BY DEF Importing
    <3>2. \A m \in DOMAIN ss : m \notin B /\ ts[m].item # 0 => ts[m].item \in DOMAIN library
      BY DEF Importing, ItemsOK
    <3>3. CASE i \in B /\ j \in B
      BY <2>2, <3>3 DEF Importing
    <3>4. CASE i \notin B /\ j \notin B
      <4>1. ts[i] = ss[i] /\ ts[j] = ss[j]
        BY <1>10, <3>4 DEF Importing
      <4> QED
        BY <1>10, <2>2, <4>1 DEF ItemsOK
    <3> QED
      BY <1>10, <2>2, <3>1, <3>2, <3>3, <3>4
  <2> QED
    BY <2>1, <2>2 DEF ItemsOK
<1>4. IdsOK(ss) => IdsOK(ts)
  <2> SUFFICES ASSUME IdsOK(ss) PROVE IdsOK(ts)
    OBVIOUS
  <2>0. \A i \in Pending(ts) : i \in DOMAIN ss /\ i \in Pending(ss)
    BY <1>2, <1>10 DEF Pending
  <2>1. \A i, j \in Pending(ts) : ts[i].id = ts[j].id => i = j
    BY <1>2, <2>0 DEF IdsOK
  <2>2. \A i \in DOMAIN ts : ts[i].save # NoSave => ts[i].id = idOf[ts[i].save]
    BY <1>2, <1>10 DEF IdsOK
  <2>3. \A i, j \in DOMAIN ts : ts[i].save = ts[j].save /\ ts[i].save # NoSave => i = j
    BY <1>2, <1>10 DEF IdsOK
  <2>4. \A s \in Saves : Unshared(s) =>
          \A i, j \in DOMAIN ts : ts[i].id = idOf[s] /\ ts[j].id = idOf[s] => i = j
    BY <1>2, <1>10 DEF IdsOK
  <2> QED
    BY <2>1, <2>2, <2>3, <2>4 DEF IdsOK
<1>5. ToldOK(ss, library, t) => ToldOK(ts, lib, t)
  <2> SUFFICES ASSUME ToldOK(ss, library, t) PROVE ToldOK(ts, lib, t)
    OBVIOUS
  <2>1. \A i \in DOMAIN ts : /\ ts[i].save # NoSave => t[ts[i].save] # "nothing"
                             /\ \A a \in ts[i].atts : t[a] # "nothing"
    BY <1>2, <1>10 DEF ToldOK
  <2>2. ASSUME NEW k \in DOMAIN lib
        PROVE  /\ lib[k].save # NoSave => t[lib[k].save] # "nothing"
               /\ \A a \in lib[k].atts : t[a] # "nothing"
    <3>1. CASE k \in DOMAIN library
      BY <1>10, <3>1 DEF ToldOK
    <3>2. CASE k \notin DOMAIN library
      BY <1>10, <3>2 DEF ToldOK
    <3> QED
      BY <3>1, <3>2
  <2> QED
    BY <2>1, <2>2 DEF ToldOK
<1>6. SavedOK(library, t) => SavedOK(lib, t)
  BY DEF Importing, SavedOK
<1>7. RightOK(ss, library, aw, b) => RightOK(ts, lib, aw, b)
  <2> SUFFICES ASSUME RightOK(ss, library, aw, b), NEW a \in aw, Unshared(b[a].save)
               PROVE  /\ b[a].save # NoSave
                      /\ \A k \in DOMAIN lib : a \in lib[k].atts => lib[k].save = b[a].save
                      /\ \A i \in DOMAIN ts : a \in ts[i].atts => ts[i].save = b[a].save
    BY DEF RightOK
  <2>1. /\ b[a].save # NoSave
        /\ \A k \in DOMAIN library : a \in library[k].atts => library[k].save = b[a].save
        /\ \A i \in DOMAIN ss : a \in ss[i].atts => ss[i].save = b[a].save
    BY DEF RightOK
  <2>2. ASSUME NEW k \in DOMAIN lib, a \in lib[k].atts PROVE lib[k].save = b[a].save
    <3>1. CASE k \in DOMAIN library
      BY <1>10, <2>1, <2>2, <3>1
    <3>2. CASE k \notin DOMAIN library
      BY <1>10, <2>1, <2>2, <3>2
    <3> QED
      BY <3>1, <3>2
  <2>3. \A i \in DOMAIN ts : a \in ts[i].atts => ts[i].save = b[a].save
    BY <1>2, <1>10, <2>1
  <2> QED
    BY <2>1, <2>2, <2>3
<1>8. KeptOK(ss, library, t, fg) => KeptOK(ts, lib, t, fg)
  BY <1>2 DEF Importing, KeptOK, Pending
<1>9. Filed(ts) = Filed(ss)
  BY <1>2 DEF Importing, Filed
<1> QED
  BY <1>1, <1>3, <1>4, <1>5, <1>6, <1>7, <1>8, <1>9

(* An import that did not fail by chance makes no other directories than   *)
(* those of the sessions it completes.                                     *)
LEMMA OnceKept ==
    ASSUME NEW ss \in Seq(SessionType), library \in Seq(DirType), NEW stop,
           Importing(ss, Before(ss, stop), Imported(ss, stop),
                   library \o Written(ss, Before(ss, stop))),
           IdsOK(ss), OnceOK(ss, library, 0)
    PROVE  OnceOK(Imported(ss, stop), library \o Written(ss, Before(ss, stop)), 0)
<1> DEFINE B == Before(ss, stop)
           ts == Imported(ss, stop)
           lib == library \o Written(ss, B)
<1>1. B \subseteq DOMAIN ss /\ Importing(ss, B, ts, lib)
  BY DEF Before, Importable, Pending
<1>2. ASSUME NEW k \in DOMAIN lib \ DOMAIN library PROVE \E i \in B : k = ts[i].item
  <2>0. /\ Written(ss, B) \in Seq(DirType) /\ DOMAIN Written(ss, B) = 1..Cardinality(B)
        /\ \A n \in 1..Cardinality(B) : \E i \in B : Rank(B, i) = n
    BY <1>1, WrittenIs
  <2>1. k - Len(library) \in DOMAIN Written(ss, B) /\ k = Len(library) + (k - Len(library))
    <3>1. \A n \in DOMAIN lib \ DOMAIN library :
             /\ n - Len(library) \in DOMAIN Written(ss, B)
             /\ n = Len(library) + (n - Len(library))
      BY <2>0, LongerIs
    <3> HIDE DEF B, lib
    <3> QED
      BY <3>1
  <2>2. PICK i \in B : Rank(B, i) = k - Len(library)
    BY <2>0, <2>1
  <2>3. i \in DOMAIN ss /\ ss[i] \in SessionType
    BY <1>1
  <2>4. ts[i] = [ss[i] EXCEPT !.item = Len(library) + Rank(B, i)]
    BY <2>3 DEF Imported
  <2>5. ts[i].item = k
    BY <2>1, <2>2, <2>3, <2>4 DEF SessionType
  <2> QED
    BY <2>5
<1> HIDE DEF B, ts, lib
<1>3. \A k \in DOMAIN lib : k \in DOMAIN library \/ \E i \in B : k = ts[i].item
  BY <1>2
<1>4. 0 \notin DOMAIN lib
  BY <1>1 DEF Importing
<1>5. \A i \in Pending(ts) : i \in Pending(ss) \ B /\ ts[i] = ss[i]
  BY <1>1, <1>4 DEF Importing, Pending
<1>6. \A i \in B : i \in Pending(ss) /\ ss[i].save # NoSave
  BY <1>1 DEF Importing, Pending
<1>7. ASSUME NEW k \in DOMAIN lib, NEW l \in DOMAIN lib, lib[k].save = lib[l].save,
             lib[k].save # NoSave
      PROVE  k = l
  <2>1. CASE k \in DOMAIN library /\ l \in DOMAIN library
    BY <1>1, <1>7, <2>1 DEF Importing, OnceOK
  <2>2. ASSUME NEW m \in DOMAIN library, NEW i \in B, lib[m].save = lib[ts[i].item].save
        PROVE  FALSE
    BY <1>1, <1>6, <2>2 DEF Importing, OnceOK
  <2>3. ASSUME NEW i \in B, NEW j \in B, k = ts[i].item, l = ts[j].item PROVE k = l
    BY <1>1, <1>6, <1>7, <2>3 DEF Importing, IdsOK
  <2> QED
    BY <1>3, <1>7, <2>1, <2>2, <2>3
<1>8. ASSUME NEW i \in Pending(ts), NEW k \in DOMAIN lib, ts[i].save # NoSave
      PROVE  lib[k].save # ts[i].save
  <2>1. i \in Pending(ss) \ B /\ ts[i] = ss[i] /\ i \in DOMAIN ss
    BY <1>5 DEF Pending
  <2>2. CASE k \in DOMAIN library
    BY <1>1, <1>8, <2>1, <2>2 DEF Importing, OnceOK
  <2>3. ASSUME NEW j \in B, k = ts[j].item PROVE lib[k].save # ts[i].save
    BY <1>1, <1>6, <1>8, <2>1, <2>3 DEF Importing, IdsOK
  <2> QED
    BY <1>3, <2>2, <2>3
<1> QED
  BY <1>7, <1>8 DEF OnceOK, B, ts, lib

(* Keeping some of the sessions, all that are pending among them, keeps    *)
(* each part.                                                              *)
LEMMA ThinningKeeps ==
    ASSUME NEW ss \in Seq(SessionType), NEW tt, NEW place, Thins(ss, tt, place),
           NEW lib \in Seq(DirType), NEW t, NEW b, NEW aw, NEW fg, NEW f
    PROVE  /\ ListsOK(tt, lib)
           /\ ItemsOK(ss, lib) => ItemsOK(tt, lib)
           /\ IdsOK(ss) => IdsOK(tt)
           /\ ToldOK(ss, lib, t) => ToldOK(tt, lib, t)
           /\ OnceOK(ss, lib, f) => OnceOK(tt, lib, f)
           /\ RightOK(ss, lib, aw, b) => RightOK(tt, lib, aw, b)
           /\ (\A i \in Pending(ss) : \E k \in DOMAIN tt : place[k] = i)
                 /\ KeptOK(ss, lib, t, fg) => KeptOK(tt, lib, t, fg)
<1>1. ListsOK(tt, lib)
  BY DEF Thins, ListsOK
<1>2. \A k \in DOMAIN tt : place[k] \in DOMAIN ss /\ tt[k] = ss[place[k]]
                           /\ (k \in Pending(tt) <=> place[k] \in Pending(ss))
  BY DEF Thins, Pending
<1>3. ItemsOK(ss, lib) => ItemsOK(tt, lib)
  BY <1>2 DEF Thins, ItemsOK
<1>4. IdsOK(ss) => IdsOK(tt)
  <2> SUFFICES ASSUME IdsOK(ss) PROVE IdsOK(tt)
    OBVIOUS
  <2>1. \A k, l \in Pending(tt) : tt[k].id = tt[l].id => k = l
    BY <1>2 DEF Thins, IdsOK, Pending
  <2>2. \A k \in DOMAIN tt : tt[k].save # NoSave => tt[k].id = idOf[tt[k].save]
    BY <1>2 DEF IdsOK
  <2>3. \A k, l \in DOMAIN tt : tt[k].save = tt[l].save /\ tt[k].save # NoSave => k = l
    BY <1>2 DEF Thins, IdsOK
  <2>4. \A s \in Saves : Unshared(s) =>
          \A k, l \in DOMAIN tt : tt[k].id = idOf[s] /\ tt[l].id = idOf[s] => k = l
    <3> SUFFICES ASSUME NEW s \in Saves, Unshared(s),
                        NEW k \in DOMAIN tt, NEW l \in DOMAIN tt,
                        tt[k].id = idOf[s], tt[l].id = idOf[s]
                 PROVE  k = l
      OBVIOUS
    <3>1. place[k] = place[l]
      BY <1>2 DEF IdsOK
    <3> QED
      BY <3>1 DEF Thins
  <2> QED
    BY <2>1, <2>2, <2>3, <2>4 DEF IdsOK
<1>5. ToldOK(ss, lib, t) => ToldOK(tt, lib, t)
  BY <1>2 DEF ToldOK
<1>6. OnceOK(ss, lib, f) => OnceOK(tt, lib, f)
  BY <1>2 DEF OnceOK, Pending
<1>7. RightOK(ss, lib, aw, b) => RightOK(tt, lib, aw, b)
  BY <1>2 DEF RightOK
<1>8. (\A i \in Pending(ss) : \E k \in DOMAIN tt : place[k] = i)
         /\ KeptOK(ss, lib, t, fg) => KeptOK(tt, lib, t, fg)
  BY <1>2 DEF KeptOK
<1> QED
  BY <1>1, <1>3, <1>4, <1>5, <1>6, <1>7, <1>8

(* Of a list and what a prune leaves of it.                                *)
LEMMA PruneWindow ==
    ASSUME NEW ss \in Seq(SessionType)
    PROVE  /\ IsFiniteSet(Filed(ss)) /\ Cardinality(Filed(ss)) \in Nat
           /\ Cardinality(Filed(Prune(ss))) <= Cardinality(Filed(ss))
           /\ Cardinality(Filed(Prune(ss))) \in Nat
           /\ Filed(ss) \subseteq Completed(ss) =>
                 Cardinality(Filed(Prune(ss))) <= MaxCompleted
<1> DEFINE tt == Prune(ss)
<1>1. PICK place : /\ Thins(ss, tt, place)
                   /\ \A k \in DOMAIN tt : place[k] \in Completed(ss) =>
                         Cardinality({j \in Completed(ss) : j >= place[k]}) <= MaxCompleted
  BY PruneIs
<1> HIDE DEF tt
<1>2. IsFiniteSet(1..Len(ss)) /\ DOMAIN ss = 1..Len(ss) /\ Len(ss) \in Nat
  BY FS_Interval
<1>3. IsFiniteSet(Filed(ss)) /\ Cardinality(Filed(ss)) \in Nat
  <2>1. Filed(ss) \subseteq 1..Len(ss)
    BY <1>2 DEF Filed
  <2> QED
    BY <1>2, <2>1, FS_Subset, FS_CardinalityType
<1> DEFINE f == [k \in Filed(tt) |-> place[k]]
<1>4. f \in Injection(Filed(tt), Filed(ss))
  BY <1>1 DEF Thins, Filed, Injection, IsInjective
<1>5. /\ IsFiniteSet(Filed(tt)) /\ Cardinality(Filed(tt)) <= Cardinality(Filed(ss))
      /\ Cardinality(Filed(tt)) \in Nat
  BY <1>3, <1>4, FS_Injection, FS_CardinalityType
<1>6. ASSUME Filed(ss) \subseteq Completed(ss) PROVE Cardinality(Filed(tt)) <= MaxCompleted
  <2> DEFINE C == Completed(ss)
             From(i) == {j \in C : j >= i}
             g == [k \in Filed(tt) |-> Cardinality(From(place[k]))]
  <2>1. C \subseteq Nat /\ IsFiniteSet(C)
    <3>1. C \subseteq 1..Len(ss)
      BY <1>2 DEF Completed
    <3> QED
      BY <1>2, <3>1, FS_Subset
  <2>2. ASSUME NEW i \in C
        PROVE  /\ IsFiniteSet(From(i)) /\ Cardinality(From(i)) \in Nat
               /\ Cardinality(From(i)) # 0
    <3>1. From(i) \subseteq C /\ i \in From(i)
      BY <2>1
    <3> QED
      BY <2>1, <3>1, FS_Subset, FS_CardinalityType, FS_EmptySet
  <2>3. ASSUME NEW i \in C, NEW j \in C, i < j
        PROVE  Cardinality(From(j)) < Cardinality(From(i))
    <3>1. From(j) \subseteq From(i) /\ i \in From(i) /\ i \notin From(j)
      <4>0. i \in Nat /\ j \in Nat
        BY <2>1
      <4>1. ASSUME NEW n \in C, n >= j PROVE n >= i
        <5>1. n \in Nat
          BY <2>1
        <5> QED
          BY <2>3, <4>0, <4>1, <5>1
      <4>2. i >= i /\ ~(i >= j)
        BY <2>3, <4>0
      <4> QED
        BY <4>1, <4>2
    <3>2. IsFiniteSet(From(i)) /\ Cardinality(From(i)) \in Nat
      BY <2>2
    <3> HIDE DEF From, C
    <3>3. /\ Cardinality(From(j)) <= Cardinality(From(i))
          /\ Cardinality(From(j)) # Cardinality(From(i))
      BY <3>1, <3>2, FS_Subset
    <3>4. Cardinality(From(j)) \in Nat
      BY <2>2
    <3> QED
      BY <3>2, <3>3, <3>4
  <2>4. \A i, j \in C : Cardinality(From(i)) = Cardinality(From(j)) => i = j
    <3> SUFFICES ASSUME NEW i \in C, NEW j \in C, Cardinality(From(i)) = Cardinality(From(j))
                 PROVE  i = j
      OBVIOUS
    <3> HIDE DEF From, C
    <3>0. Cardinality(From(i)) \in Nat
      BY <2>2
    <3>1. ~(i < j) /\ ~(j < i)
      BY <2>3, <3>0
    <3>2. i \in Nat /\ j \in Nat
      BY <2>1
    <3> QED
      BY <3>1, <3>2
  <2>5. \A k \in Filed(tt) : /\ place[k] \in C /\ k \in DOMAIN tt
                             /\ Cardinality(From(place[k])) <= MaxCompleted
    BY <1>1, <1>6 DEF Thins, Filed
  <2>6. \A k \in Filed(tt) : Cardinality(From(place[k])) \in 1..MaxCompleted
    <3> SUFFICES ASSUME NEW k \in Filed(tt)
                 PROVE  Cardinality(From(place[k])) \in 1..MaxCompleted
      OBVIOUS
    <3>1. Cardinality(From(place[k])) \in Nat /\ Cardinality(From(place[k])) # 0
      BY <2>2, <2>5
    <3> HIDE DEF From
    <3> QED
      BY <2>5, <3>1, MaxAssumption
  <2>7. g \in Injection(Filed(tt), 1..MaxCompleted)
    <3>1. \A k, l \in Filed(tt) : g[k] = g[l] => k = l
      BY <1>1, <2>4, <2>5 DEF Thins
    <3> QED
      BY <2>6, <3>1 DEF Injection, IsInjective
  <2>8. IsFiniteSet(1..MaxCompleted) /\ Cardinality(1..MaxCompleted) = MaxCompleted
    BY MaxAssumption, FS_Interval
  <2> QED
    BY <2>7, <2>8, FS_Injection
<1> QED
  BY <1>3, <1>5, <1>6 DEF tt


-----------------------------------------------------------------------------
(* Requests.                                                               *)

(* The parts that an import has to keep.                                   *)
PartsOK(ss, lib, t, f, aw, b, fg) ==
    /\ ItemsOK(ss, lib) /\ IdsOK(ss) /\ ToldOK(ss, lib, t)
    /\ OnceOK(ss, lib, f) /\ RightOK(ss, lib, aw, b) /\ KeptOK(ss, lib, t, fg)

(* A request that imports the pending sessions of ss, and prunes when no   *)
(* import failed.                                                          *)
LEMMA RequestImports ==
    ASSUME library \in Seq(DirType), faults \in 0..MaxFaults,
           NEW ss \in Seq(SessionType), NEW stop \in Stops(ss), ImportFrom(ss, stop),
           sessions' = IF Failed(ss, stop) THEN Imported(ss, stop)
                       ELSE Prune(Imported(ss, stop)),
           NEW t, NEW b, NEW aw, NEW fg, PartsOK(ss, library, t, faults, aw, b, fg)
    PROVE  /\ ListsOK(sessions', library')
           /\ PartsOK(sessions', library', t, faults', aw, b, fg)
           /\ faults' \in 0..MaxFaults
           /\ DOMAIN library \subseteq DOMAIN library'
           /\ \A k \in DOMAIN library : library'[k] = library[k]
           /\ Cardinality(Filed(ss)) \in Nat /\ Cardinality(Filed(sessions')) \in Nat
           /\ Cardinality(Filed(sessions')) <= Cardinality(Filed(ss))
           /\ ~Failed(ss, stop) =>
                 /\ Cardinality(Filed(sessions')) <= MaxCompleted
                 /\ \A i \in Importable(ss) :
                       \E k \in DOMAIN library' : library'[k].save = ss[i].save
<1> DEFINE B == Before(ss, stop)
           ts == Imported(ss, stop)
<1>1. /\ Importing(ss, B, ts, library') /\ faults' \in 0..MaxFaults
      /\ faults' = 0 => faults = 0 /\ library' = library \o Written(ss, B)
      /\ ~Failed(ss, stop) => B = Importable(ss)
  BY ImportIs
<1>2. /\ ItemsOK(ss, library) /\ IdsOK(ss) /\ ToldOK(ss, library, t)
      /\ OnceOK(ss, library, faults) /\ RightOK(ss, library, aw, b)
      /\ KeptOK(ss, library, t, fg)
  BY DEF PartsOK
<1>3. /\ ListsOK(ts, library') /\ ItemsOK(ts, library') /\ IdsOK(ts)
      /\ ToldOK(ts, library', t)
      /\ RightOK(ts, library', aw, b) /\ KeptOK(ts, library', t, fg)
      /\ Filed(ts) = Filed(ss)
  <2> HIDE DEF B, ts
  <2> QED
    BY <1>1, <1>2, ImportKeeps
<1>4. OnceOK(ts, library', faults')
  <2>1. CASE faults' = 0
    BY <1>1, <1>2, <2>1, OnceKept
  <2>2. CASE faults' # 0
    BY <2>2 DEF OnceOK
  <2> QED
    BY <2>1, <2>2
<1>5. ts \in Seq(SessionType) /\ library' \in Seq(DirType)
  BY <1>3 DEF ListsOK
<1>6. /\ DOMAIN library \subseteq DOMAIN library'
      /\ \A k \in DOMAIN library : library'[k] = library[k]
  BY <1>1 DEF Importing
<1> HIDE DEF B
<1>7. /\ Cardinality(Filed(ts)) \in Nat
      /\ Cardinality(Filed(Prune(ts))) <= Cardinality(Filed(ts))
      /\ Cardinality(Filed(Prune(ts))) \in Nat
      /\ Filed(ts) \subseteq Completed(ts) => Cardinality(Filed(Prune(ts))) <= MaxCompleted
  <2> HIDE DEF ts
  <2> QED
    BY <1>5, PruneWindow
<1>8. CASE Failed(ss, stop)
  <2>1. sessions' = ts
    BY <1>8
  <2> HIDE DEF ts
  <2> QED
    BY <1>1, <1>3, <1>4, <1>6, <1>7, <1>8, <2>1 DEF PartsOK
<1>9. CASE ~Failed(ss, stop)
  <2>1. sessions' = Prune(ts) /\ B = Importable(ss)
    BY <1>1, <1>9
  <2> HIDE DEF ts
  <2>2. PICK place : /\ Thins(ts, Prune(ts), place)
                     /\ \A i \in Pending(ts) : \E k \in DOMAIN Prune(ts) : place[k] = i
    BY <1>5, PruneIs
  <2>3. /\ ListsOK(sessions', library') /\ ItemsOK(sessions', library') /\ IdsOK(sessions')
        /\ ToldOK(sessions', library', t) /\ OnceOK(sessions', library', faults')
        /\ RightOK(sessions', library', aw, b) /\ KeptOK(sessions', library', t, fg)
    <3>1. /\ ListsOK(Prune(ts), library')
          /\ ItemsOK(ts, library') => ItemsOK(Prune(ts), library')
          /\ IdsOK(ts) => IdsOK(Prune(ts))
          /\ ToldOK(ts, library', t) => ToldOK(Prune(ts), library', t)
          /\ OnceOK(ts, library', faults') => OnceOK(Prune(ts), library', faults')
          /\ RightOK(ts, library', aw, b) => RightOK(Prune(ts), library', aw, b)
          /\ (\A i \in Pending(ts) : \E k \in DOMAIN Prune(ts) : place[k] = i)
                /\ KeptOK(ts, library', t, fg) => KeptOK(Prune(ts), library', t, fg)
      BY <1>5, <2>2, ThinningKeeps
    <3> QED
      BY <1>3, <1>4, <2>1, <2>2, <3>1
  <2>4. ASSUME NEW i \in Importable(ss)
        PROVE  \E k \in DOMAIN library' : library'[k].save = ss[i].save
    BY <1>1, <2>1 DEF Importing
  <2>5. ASSUME NEW i \in Filed(ts) PROVE i \in Completed(ts)
    <3>1. i \in DOMAIN ts /\ i \in DOMAIN ss /\ ts[i].save # NoSave /\ ss[i].save # NoSave
      BY <1>1, <1>3 DEF Importing, Filed
    <3>2. CASE i \in B
      <4>1. ts[i].item \in DOMAIN library'
        BY <1>1, <3>2 DEF Importing
      <4>2. 0 \notin DOMAIN library'
        BY <1>5
      <4> QED
        BY <3>1, <4>1, <4>2 DEF Completed, Pending
    <3>3. CASE i \notin B
      <4>1. ts[i] = ss[i] /\ i \notin Importable(ss)
        BY <1>1, <2>1, <3>1, <3>3 DEF Importing
      <4> QED
        BY <3>1, <4>1 DEF Importable, Completed, Pending
    <3> QED
      BY <3>2, <3>3
  <2> QED
    BY <1>1, <1>3, <1>6, <1>7, <1>9, <2>1, <2>3, <2>4, <2>5 DEF PartsOK
<1> QED
  BY <1>8, <1>9

(* The answer to a request that had none.                                  *)
LEMMA AnswerIs ==
    ASSUME StateOK, IsFiniteSet(Errors(told)),
           NEW r \in Saves \cup Attachments, told[r] = "nothing",
           NEW x \in {"created", "error"}, told' = [told EXCEPT ![r] = x]
    PROVE  /\ told' \in [Saves \cup Attachments -> Answers]
           /\ told'[r] = x
           /\ \A q \in Saves \cup Attachments : q # r => told'[q] = told[q]
           /\ \A q \in Saves \cup Attachments :
                 told[q] # "nothing" => told'[q] # "nothing" /\ q # r
           /\ IsFiniteSet(Errors(told')) /\ Cardinality(Errors(told)) \in Nat
           /\ Cardinality(Errors(told')) =
                 IF x = "error" THEN Cardinality(Errors(told)) + 1
                 ELSE Cardinality(Errors(told))
<1>1. told \in [Saves \cup Attachments -> Answers]
  BY DEF StateOK
<1>2. /\ told' \in [Saves \cup Attachments -> Answers] /\ told'[r] = x
      /\ \A q \in Saves \cup Attachments : q # r => told'[q] = told[q]
      /\ \A q \in Saves \cup Attachments :
            told[q] # "nothing" => told'[q] # "nothing" /\ q # r
  BY <1>1 DEF Answers
<1>3. /\ r \notin Errors(told)
      /\ Errors(told') = IF x = "error" THEN Errors(told) \cup {r} ELSE Errors(told)
  BY <1>1, <1>2 DEF Errors
<1>4. /\ IsFiniteSet(Errors(told) \cup {r})
      /\ Cardinality(Errors(told) \cup {r}) = Cardinality(Errors(told)) + 1
  BY <1>3, FS_AddElement
<1>5. Cardinality(Errors(told)) \in Nat
  BY FS_CardinalityType
<1> QED
  BY <1>2, <1>3, <1>4, <1>5

(* A list with one element replaced.                                       *)
LEMMA ReplacedIs ==
    ASSUME NEW X, NEW ss \in Seq(X), NEW p \in DOMAIN ss, NEW x \in X
    PROVE  /\ [ss EXCEPT ![p] = x] \in Seq(X) /\ DOMAIN [ss EXCEPT ![p] = x] = DOMAIN ss
           /\ [ss EXCEPT ![p] = x][p] = x
           /\ \A i \in DOMAIN ss : i # p => [ss EXCEPT ![p] = x][i] = ss[i]
<1>1. ss \in [1..Len(ss) -> X] /\ Len(ss) \in Nat /\ DOMAIN ss = 1..Len(ss)
  OBVIOUS
<1>2. [ss EXCEPT ![p] = x] \in [1..Len(ss) -> X]
  BY <1>1
<1>3. [ss EXCEPT ![p] = x] \in Seq(X)
  BY <1>1, <1>2
<1> QED
  BY <1>1, <1>3

(* A set that has one member more at most.                                 *)
LEMMA GrowsByOne ==
    ASSUME NEW F, IsFiniteSet(F), NEW p, NEW G, G \subseteq F \cup {p}
    PROVE  /\ Cardinality(F) \in Nat /\ Cardinality(G) \in Nat
           /\ Cardinality(G) <= Cardinality(F) + 1
<1>1. Cardinality(F) \in Nat
  BY FS_CardinalityType
<1>2. /\ IsFiniteSet(F \cup {p})
      /\ Cardinality(F \cup {p}) = IF p \in F THEN Cardinality(F) ELSE Cardinality(F) + 1
  <2>1. CASE p \in F
    <3>1. F \cup {p} = F
      BY <2>1
    <3> QED
      BY <2>1, <3>1
  <2>2. CASE p \notin F
    BY <2>2, FS_AddElement
  <2> QED
    BY <2>1, <2>2
<1>3. Cardinality(G) <= Cardinality(F \cup {p}) /\ Cardinality(G) \in Nat
  BY <1>2, FS_Subset, FS_CardinalityType
<1> QED
  BY <1>1, <1>2, <1>3

(* The list accept_import goes on with.                                    *)
Continued(s) ==
    IF Reused(idOf[s]) = {} THEN Append(sessions, Session(idOf[s], s, {}))
    ELSE [sessions EXCEPT ![First(Reused(idOf[s]))].save = s]

(* accept_import takes up the pending session with the id of its request,  *)
(* or opens one: either way every part holds of the list it goes on with.  *)
LEMMA TakenUp ==
    ASSUME ConnectorInv, NEW s \in Saves, told[s] = "nothing", NEW ss, ss = Continued(s)
    PROVE  /\ ss \in Seq(SessionType)
           /\ ItemsOK(ss, library) /\ IdsOK(ss) /\ OnceOK(ss, library, faults)
           /\ RightOK(ss, library, awaited, belongs) /\ KeptOK(ss, library, told, forgotten)
           /\ \A i \in DOMAIN ss :
                 /\ ss[i].save \in {s, NoSave} \/ told[ss[i].save] # "nothing"
                 /\ \A a \in ss[i].atts : told[a] # "nothing"
           /\ \E i \in Importable(ss) : ss[i].save = s
           /\ Cardinality(Filed(sessions)) \in Nat /\ Cardinality(Filed(ss)) \in Nat
           /\ Cardinality(Filed(ss)) <= Cardinality(Filed(sessions)) + 1
<1>1. /\ sessions \in Seq(SessionType) /\ library \in Seq(DirType)
      /\ idOf \in [Saves -> Ids \cup {NoId}]
      /\ ItemsOK(sessions, library) /\ IdsOK(sessions) /\ ToldOK(sessions, library, told)
      /\ OnceOK(sessions, library, faults) /\ RightOK(sessions, library, awaited, belongs)
      /\ KeptOK(sessions, library, told, forgotten)
  BY DEF ConnectorInv, StateOK, ListsOK
<1>2. s # NoSave
  BY NoneAssumption
<1>3. \A i \in DOMAIN sessions : /\ sessions[i].save # s
                                 /\ sessions[i].save # NoSave =>
                                       told[sessions[i].save] # "nothing"
                                 /\ \A a \in sessions[i].atts : told[a] # "nothing"
  BY <1>1, <1>2 DEF ToldOK
<1>4. \A k \in DOMAIN library : library[k].save # s
  BY <1>1, <1>2 DEF ToldOK
<1>5. IsFiniteSet(Filed(sessions)) /\ Cardinality(Filed(sessions)) \in Nat
  BY <1>1, PruneWindow
<1>6. ASSUME NEW p, IsFiniteSet(Filed(ss)), Filed(ss) \subseteq Filed(sessions) \cup {p}
      PROVE  /\ Cardinality(Filed(ss)) \in Nat
             /\ Cardinality(Filed(ss)) <= Cardinality(Filed(sessions)) + 1
  BY <1>5, <1>6, GrowsByOne
<1>7. CASE Reused(idOf[s]) = {}
  <2> DEFINE n == Len(sessions) + 1
             new == Session(idOf[s], s, {})
  <2>1. /\ new \in SessionType /\ new.id = idOf[s] /\ new.save = s /\ new.atts = {}
        /\ new.item = 0
    BY <1>1 DEF Session, SessionType
  <2>2. ss = Append(sessions, new)
    BY <1>7 DEF Continued
  <2> HIDE DEF new
  <2>3. /\ ss \in Seq(SessionType) /\ DOMAIN ss = DOMAIN sessions \cup {n}
        /\ n \notin DOMAIN sessions
        /\ ss[n] = new /\ \A i \in DOMAIN sessions : ss[i] = sessions[i]
    BY <1>1, <2>1, <2>2
  <2> HIDE DEF n
  <2>4. ItemsOK(ss, library)
    BY <1>1, <2>1, <2>3 DEF ItemsOK
  <2>5. Pending(ss) = Pending(sessions) \cup {n}
    BY <2>1, <2>3 DEF Pending
  <2>6. IdsOK(ss)
    <3>1. \A i \in Pending(sessions) : sessions[i].id # idOf[s]
      BY <1>7 DEF Reused
    <3>2. \A i \in Pending(sessions) : i \in DOMAIN sessions /\ ss[i] = sessions[i]
      BY <2>3 DEF Pending
    <3>3. \A i, j \in Pending(ss) : ss[i].id = ss[j].id => i = j
      BY <1>1, <2>1, <2>3, <2>5, <3>1, <3>2 DEF IdsOK
    <3>4. \A i \in DOMAIN ss : ss[i].save # NoSave => ss[i].id = idOf[ss[i].save]
      BY <1>1, <2>1, <2>3 DEF IdsOK
    <3>5. \A i, j \in DOMAIN ss : ss[i].save = ss[j].save /\ ss[i].save # NoSave => i = j
      BY <1>1, <1>3, <2>1, <2>3 DEF IdsOK
    <3>6. ASSUME NEW u \in Saves, Unshared(u), NEW i \in DOMAIN ss, NEW j \in DOMAIN ss,
                 ss[i].id = idOf[u], ss[j].id = idOf[u]
          PROVE  i = j
      <4>1. ASSUME NEW m \in DOMAIN sessions, sessions[m].id = idOf[s] PROVE ~Unshared(s)
        <5>1. m \notin Pending(sessions)
          BY <3>1, <4>1
        <5>2. sessions[m].save # NoSave
          BY <1>1, <5>1 DEF Pending, ItemsOK
        <5>3. sessions[m].save \in Saves \ {s} /\ idOf[sessions[m].save] = idOf[s]
          <6>1. sessions[m] \in SessionType
            BY <1>1
          <6> QED
            BY <1>1, <1>3, <4>1, <5>2, <6>1 DEF IdsOK, SessionType
        <5> QED
          BY <5>3 DEF Unshared
      <4>2. CASE u = s
        BY <2>3, <3>6, <4>1, <4>2
      <4>3. CASE u # s
        <5>1. idOf[u] # idOf[s]
          BY <3>6, <4>3 DEF Unshared
        <5>2. i \in DOMAIN sessions /\ j \in DOMAIN sessions
          BY <2>1, <2>3, <3>6, <5>1
        <5> QED
          BY <1>1, <2>3, <3>6, <5>2 DEF IdsOK
      <4> QED
        BY <4>2, <4>3
    <3>7. \A u \in Saves : Unshared(u) =>
             \A i, j \in DOMAIN ss : ss[i].id = idOf[u] /\ ss[j].id = idOf[u] => i = j
      BY <3>6
    <3> QED
      BY <3>3, <3>4, <3>5, <3>7 DEF IdsOK
  <2>7. OnceOK(ss, library, faults)
    <3>1. \A i \in Pending(sessions) : ss[i] = sessions[i]
      BY <2>3 DEF Pending
    <3>2. ASSUME faults = 0, NEW i \in Pending(ss), NEW k \in DOMAIN library,
                 ss[i].save # NoSave
          PROVE  library[k].save # ss[i].save
      <4>1. CASE i = n
        BY <1>4, <2>1, <2>3, <4>1
      <4>2. CASE i # n
        BY <1>1, <2>5, <3>1, <3>2, <4>2 DEF OnceOK
      <4> QED
        BY <4>1, <4>2
    <3> QED
      BY <1>1, <3>2 DEF OnceOK
  <2>8. RightOK(ss, library, awaited, belongs)
    BY <1>1, <2>1, <2>3 DEF RightOK
  <2>9. KeptOK(ss, library, told, forgotten)
    <3>1. \A i \in Pending(sessions) : ss[i] = sessions[i]
      BY <2>3 DEF Pending
    <3> QED
      BY <1>1, <2>5, <3>1 DEF KeptOK
  <2>10. n \in Importable(ss) /\ ss[n].save = s
    BY <1>2, <2>1, <2>3, <2>5 DEF Importable
  <2>11. Filed(ss) \subseteq Filed(sessions) \cup {n}
    BY <2>3 DEF Filed
  <2>12. IsFiniteSet(Filed(ss))
    BY <2>3, PruneWindow
  <2>13. \A i \in DOMAIN ss : /\ ss[i].save \in {s, NoSave} \/ told[ss[i].save] # "nothing"
                              /\ \A a \in ss[i].atts : told[a] # "nothing"
    BY <1>3, <2>1, <2>3
  <2> QED
    BY <1>5, <1>6, <2>3, <2>4, <2>6, <2>7, <2>8, <2>9, <2>10, <2>11, <2>12, <2>13
<1>8. CASE Reused(idOf[s]) # {}
  <2> DEFINE p == First(Reused(idOf[s]))
  <2>1. p \in Reused(idOf[s])
    <3>1. Reused(idOf[s]) \subseteq 1..Len(sessions) /\ Len(sessions) \in Nat
      BY <1>1 DEF Reused, Pending
    <3> QED
      BY <1>8, <3>1, FirstIs
  <2>2. ss = [sessions EXCEPT ![p].save = s]
    BY <1>8 DEF Continued
  <2> HIDE DEF p
  <2>3. /\ p \in DOMAIN sessions /\ p \in Pending(sessions) /\ sessions[p].item = 0
        /\ sessions[p].id = idOf[s]
    BY <2>1 DEF Reused, Pending
  <2>4. /\ DOMAIN ss = DOMAIN sessions
        /\ \A i \in DOMAIN sessions : i # p => ss[i] = sessions[i]
        /\ ss[p] = [sessions[p] EXCEPT !.save = s]
    BY <1>1, <2>2, <2>3
  <2>5. /\ sessions[p] \in SessionType /\ ss[p] \in SessionType
        /\ ss[p].save = s /\ ss[p].id = idOf[s] /\ ss[p].atts = sessions[p].atts
        /\ ss[p].item = 0
    <3>1. sessions[p] \in SessionType
      BY <1>1, <2>3
    <3> QED
      BY <2>3, <2>4, <3>1 DEF SessionType
  <2>6. ss \in Seq(SessionType)
    <3> DEFINE change == [sessions[p] EXCEPT !.save = s]
    <3>1. change \in SessionType
      BY <2>4, <2>5
    <3>2. ss = [sessions EXCEPT ![p] = change]
      BY <2>2
    <3> HIDE DEF change
    <3>3. sessions \in Seq(SessionType) /\ p \in DOMAIN sessions
      BY <1>1, <2>3
    <3>4. [sessions EXCEPT ![p] = change] \in Seq(SessionType)
      BY <3>1, <3>3, ReplacedIs
    <3> QED
      BY <3>2, <3>4
  <2>7. /\ \A i \in DOMAIN ss :
              /\ ss[i].id = sessions[i].id /\ ss[i].atts = sessions[i].atts
              /\ ss[i].item = sessions[i].item
              /\ i # p => ss[i].save = sessions[i].save
        /\ Pending(ss) = Pending(sessions)
    BY <2>3, <2>4, <2>5 DEF Pending
  <2>8. ItemsOK(ss, library)
    BY <1>1, <2>3, <2>4, <2>7 DEF ItemsOK
  <2>9. IdsOK(ss)
    <3>1. \A i, j \in Pending(ss) : ss[i].id = ss[j].id => i = j
      <4>1. \A i \in Pending(ss) : i \in DOMAIN ss
        BY DEF Pending
      <4> QED
        BY <1>1, <2>7, <4>1 DEF IdsOK
    <3>2. \A i \in DOMAIN ss : ss[i].save # NoSave => ss[i].id = idOf[ss[i].save]
      <4> SUFFICES ASSUME NEW i \in DOMAIN ss, ss[i].save # NoSave
                   PROVE  ss[i].id = idOf[ss[i].save]
        OBVIOUS
      <4>1. CASE i = p
        BY <2>5, <4>1
      <4>2. CASE i # p
        <5>1. ss[i] = sessions[i] /\ i \in DOMAIN sessions
          BY <2>4, <4>2
        <5> QED
          BY <1>1, <5>1 DEF IdsOK
      <4> QED
        BY <4>1, <4>2
    <3>3. \A i, j \in DOMAIN ss : ss[i].save = ss[j].save /\ ss[i].save # NoSave => i = j
      <4>1. \A i \in DOMAIN sessions :
               i # p => ss[i].save = sessions[i].save /\ sessions[i].save # s
        BY <1>3, <2>7, <2>4
      <4>2. \A i, j \in DOMAIN sessions :
               sessions[i].save = sessions[j].save /\ sessions[i].save # NoSave => i = j
        BY <1>1 DEF IdsOK
      <4>3. DOMAIN ss = DOMAIN sessions /\ ss[p].save = s
        BY <2>4, <2>5
      <4> QED
        BY <4>1, <4>2, <4>3
    <3>4. \A u \in Saves : Unshared(u) =>
             \A i, j \in DOMAIN ss : ss[i].id = idOf[u] /\ ss[j].id = idOf[u] => i = j
      BY <1>1, <2>4, <2>7 DEF IdsOK
    <3> QED
      BY <3>1, <3>2, <3>3, <3>4 DEF IdsOK
  <2>10. OnceOK(ss, library, faults)
    <3>1. \A i \in Pending(sessions) : i \in DOMAIN ss
      BY <2>4 DEF Pending
    <3>2. ASSUME faults = 0, NEW i \in Pending(ss), NEW k \in DOMAIN library,
                 ss[i].save # NoSave
          PROVE  library[k].save # ss[i].save
      <4>1. CASE i = p
        BY <1>4, <2>5, <4>1
      <4>2. CASE i # p
        <5>1. ss[i].save = sessions[i].save /\ i \in Pending(sessions)
          BY <2>7, <3>1, <3>2, <4>2
        <5> QED
          BY <1>1, <3>2, <5>1 DEF OnceOK
      <4> QED
        BY <4>1, <4>2
    <3>3. faults = 0 => \A i \in Pending(ss), k \in DOMAIN library :
                           ss[i].save # NoSave => library[k].save # ss[i].save
      BY <3>2
    <3> QED
      BY <1>1, <3>3 DEF OnceOK
  <2>11. RightOK(ss, library, awaited, belongs)
    <3> SUFFICES ASSUME NEW a \in awaited, Unshared(belongs[a].save)
                 PROVE  /\ belongs[a].save # NoSave
                        /\ \A k \in DOMAIN library :
                              a \in library[k].atts => library[k].save = belongs[a].save
                        /\ \A i \in DOMAIN ss :
                              a \in ss[i].atts => ss[i].save = belongs[a].save
      BY DEF RightOK
    <3>1. /\ belongs[a].save # NoSave
          /\ \A k \in DOMAIN library :
                a \in library[k].atts => library[k].save = belongs[a].save
          /\ \A i \in DOMAIN sessions :
                a \in sessions[i].atts => sessions[i].save = belongs[a].save
      BY <1>1 DEF RightOK
    <3>2. a \notin sessions[p].atts
      <4> SUFFICES ASSUME a \in sessions[p].atts PROVE FALSE
        OBVIOUS
      <4>1. /\ sessions[p].save = belongs[a].save /\ sessions[p].save # NoSave
            /\ sessions[p].save # s
        BY <1>3, <2>3, <3>1
      <4>2. idOf[sessions[p].save] = idOf[s]
        BY <1>1, <2>3, <4>1 DEF IdsOK
      <4>3. idOf[s] # idOf[belongs[a].save]
        BY <4>1 DEF Unshared
      <4> QED
        BY <4>1, <4>2, <4>3
    <3> QED
      BY <2>4, <2>7, <3>1, <3>2
  <2>12. KeptOK(ss, library, told, forgotten)
    <3>1. \A i \in Pending(sessions) : i \in DOMAIN ss
      BY <2>4 DEF Pending
    <3> QED
      BY <1>1, <2>7, <3>1 DEF KeptOK
  <2>13. p \in Importable(ss) /\ ss[p].save = s
    BY <1>2, <2>3, <2>5, <2>7 DEF Importable
  <2>14. Filed(ss) \subseteq Filed(sessions) \cup {p}
    BY <2>4, <2>7 DEF Filed
  <2>15. IsFiniteSet(Filed(ss))
    BY <2>6, PruneWindow
  <2>16. \A i \in DOMAIN ss : /\ ss[i].save \in {s, NoSave} \/ told[ss[i].save] # "nothing"
                              /\ \A a \in ss[i].atts : told[a] # "nothing"
    <3> SUFFICES ASSUME NEW i \in DOMAIN ss
                 PROVE  /\ ss[i].save \in {s, NoSave} \/ told[ss[i].save] # "nothing"
                        /\ \A a \in ss[i].atts : told[a] # "nothing"
      OBVIOUS
    <3>1. CASE i = p
      BY <1>3, <2>3, <2>5, <3>1
    <3>2. CASE i # p
      <4>1. ss[i] = sessions[i] /\ i \in DOMAIN sessions
        BY <2>4, <3>2
      <4> QED
        BY <1>3, <4>1
    <3> QED
      BY <3>1, <3>2
  <2> QED
    BY <1>5, <1>6, <2>6, <2>8, <2>9, <2>10, <2>11, <2>12, <2>13, <2>14, <2>15, <2>16
<1> QED
  BY <1>7, <1>8

(* What a list of sessions and a library hold.                             *)
LEMMA MembersAre ==
    /\ \A ss \in Seq(SessionType) : \A i \in DOMAIN ss :
          ss[i].save \in Saves \cup {NoSave} /\ ss[i].atts \subseteq Attachments
    /\ \A lib \in Seq(DirType) : \A k \in DOMAIN lib :
          lib[k].save \in Saves \cup {NoSave} /\ lib[k].atts \subseteq Attachments
<1>1. ASSUME NEW ss \in Seq(SessionType), NEW i \in DOMAIN ss
      PROVE  ss[i].save \in Saves \cup {NoSave} /\ ss[i].atts \subseteq Attachments
  <2>1. ss[i] \in SessionType
    OBVIOUS
  <2> QED
    BY <2>1 DEF SessionType
<1>2. ASSUME NEW lib \in Seq(DirType), NEW k \in DOMAIN lib
      PROVE  lib[k].save \in Saves \cup {NoSave} /\ lib[k].atts \subseteq Attachments
  <2>1. lib[k] \in DirType
    OBVIOUS
  <2> QED
    BY <2>1 DEF DirType
<1> QED
  BY <1>1, <1>2

(* The parts of the invariant make it up.                                  *)
LEMMA Together ==
    ASSUME idOf' = idOf, StateOK', ListsOK(sessions', library'),
           PartsOK(sessions', library', told', faults', awaited', belongs', forgotten'),
           SavedOK(library', told'), WindowOK(sessions', told')
    PROVE  ConnectorInv'
<1>1. \A s : Unshared(s)' = Unshared(s)
  BY DEF Unshared
<1>2. IdsOK(sessions)'
  BY <1>1 DEF PartsOK, IdsOK, Pending
<1>3. RightOK(sessions, library, awaited, belongs)'
  BY <1>1 DEF PartsOK, RightOK
<1> QED
  BY <1>2, <1>3
     DEF ConnectorInv, PartsOK, ListsOK, ItemsOK, ToldOK, SavedOK, OnceOK, KeptOK, WindowOK,
                    Errors, Filed, Pending

(* accept_import.                                                          *)
LEMMA SaveStep ==
    ASSUME ConnectorInv, NEW s \in Saves, AcceptImport(s)
    PROVE  ConnectorInv'
<1> DEFINE ss == Continued(s)
<1>1. told[s] = "nothing" /\ UNCHANGED <<idOf, belongs, awaited, forgotten>>
  BY DEF AcceptImport
<1>2. PICK stop \in Stops(ss) :
         /\ ImportFrom(ss, stop)
         /\ IF Failed(ss, stop)
            THEN /\ sessions' = Imported(ss, stop)
                 /\ told' = [told EXCEPT ![s] = "error"]
            ELSE /\ sessions' = Prune(Imported(ss, stop))
                 /\ told' = [told EXCEPT ![s] = "created"]
  BY DEF AcceptImport, Continued
<1>3. /\ ss \in Seq(SessionType)
      /\ ItemsOK(ss, library) /\ IdsOK(ss) /\ OnceOK(ss, library, faults)
      /\ RightOK(ss, library, awaited, belongs) /\ KeptOK(ss, library, told, forgotten)
      /\ \A i \in DOMAIN ss : /\ ss[i].save \in {s, NoSave} \/ told[ss[i].save] # "nothing"
                              /\ \A a \in ss[i].atts : told[a] # "nothing"
      /\ \E i \in Importable(ss) : ss[i].save = s
      /\ Cardinality(Filed(sessions)) \in Nat /\ Cardinality(Filed(ss)) \in Nat
      /\ Cardinality(Filed(ss)) <= Cardinality(Filed(sessions)) + 1
  BY <1>1, TakenUp
<1> HIDE DEF ss
<1>4. /\ StateOK /\ library \in Seq(DirType) /\ faults \in 0..MaxFaults
      /\ ToldOK(sessions, library, told)
      /\ SavedOK(library, told) /\ WindowOK(sessions, told)
  BY DEF ConnectorInv, ListsOK, StateOK
<1> DEFINE x == IF Failed(ss, stop) THEN "error" ELSE "created"
<1>5. x \in {"created", "error"} /\ told' = [told EXCEPT ![s] = x]
  BY <1>2
<1> HIDE DEF x
<1>6. /\ told' \in [Saves \cup Attachments -> Answers] /\ told'[s] = x
      /\ \A q \in Saves \cup Attachments : q # s => told'[q] = told[q]
      /\ \A q \in Saves \cup Attachments :
            told[q] # "nothing" => told'[q] # "nothing" /\ q # s
      /\ IsFiniteSet(Errors(told')) /\ Cardinality(Errors(told)) \in Nat
      /\ Cardinality(Errors(told')) =
            IF x = "error" THEN Cardinality(Errors(told)) + 1 ELSE Cardinality(Errors(told))
  BY <1>1, <1>4, <1>5, AnswerIs DEF WindowOK
<1>7. ToldOK(ss, library, told')
  <2>1. ASSUME NEW i \in DOMAIN ss
        PROVE  /\ ss[i].save # NoSave => told'[ss[i].save] # "nothing"
               /\ \A a \in ss[i].atts : told'[a] # "nothing"
    <3>1. ss[i].save \in Saves \cup {NoSave} /\ ss[i].atts \subseteq Attachments
      BY <1>3, MembersAre
    <3>2. x # "nothing"
      BY <1>5
    <3> QED
      BY <1>3, <1>6, <3>1, <3>2
  <2>2. ASSUME NEW k \in DOMAIN library
        PROVE  /\ library[k].save # NoSave => told'[library[k].save] # "nothing"
               /\ \A a \in library[k].atts : told'[a] # "nothing"
    <3>1. library[k].save \in Saves \cup {NoSave} /\ library[k].atts \subseteq Attachments
      BY <1>4, MembersAre
    <3> QED
      BY <1>4, <1>6, <3>1 DEF ToldOK
  <2> QED
    BY <2>1, <2>2 DEF ToldOK
<1>8. KeptOK(ss, library, told', forgotten)
  <2>1. \A a \in Attachments : told'[a] = told[a]
    BY <1>6, RequestsAssumption
  <2> QED
    BY <1>3, <2>1 DEF KeptOK
<1>9. PartsOK(ss, library, told', faults, awaited, belongs, forgotten)
  BY <1>3, <1>7, <1>8 DEF PartsOK
<1>10. sessions' = IF Failed(ss, stop) THEN Imported(ss, stop)
                   ELSE Prune(Imported(ss, stop))
  BY <1>2
<1>11. /\ ListsOK(sessions', library')
       /\ PartsOK(sessions', library', told', faults', awaited, belongs, forgotten)
       /\ faults' \in 0..MaxFaults
       /\ DOMAIN library \subseteq DOMAIN library'
       /\ \A k \in DOMAIN library : library'[k] = library[k]
       /\ Cardinality(Filed(ss)) \in Nat /\ Cardinality(Filed(sessions')) \in Nat
       /\ Cardinality(Filed(sessions')) <= Cardinality(Filed(ss))
       /\ ~Failed(ss, stop) =>
             /\ Cardinality(Filed(sessions')) <= MaxCompleted
             /\ \A i \in Importable(ss) :
                   \E k \in DOMAIN library' : library'[k].save = ss[i].save
  BY <1>2, <1>3, <1>4, <1>9, <1>10, RequestImports
<1>12. SavedOK(library', told')
  <2> SUFFICES ASSUME NEW u \in Saves, told'[u] = "created"
               PROVE  \E k \in DOMAIN library' : library'[k].save = u
    BY DEF SavedOK
  <2>1. CASE u = s
    <3>1. ~Failed(ss, stop)
      BY <1>6, <2>1 DEF x
    <3> QED
      BY <1>3, <1>11, <2>1, <3>1
  <2>2. CASE u # s
    BY <1>4, <1>6, <1>11, <2>2 DEF SavedOK
  <2> QED
    BY <2>1, <2>2
<1>13. WindowOK(sessions', told')
  <2>1. Cardinality(Filed(sessions)) <= MaxCompleted + Cardinality(Errors(told))
    BY <1>4 DEF WindowOK
  <2>2. CASE Failed(ss, stop)
    <3>1. Cardinality(Errors(told')) = Cardinality(Errors(told)) + 1
      BY <1>6, <2>2 DEF x
    <3> QED
      BY <1>3, <1>6, <1>11, <2>1, <3>1, MaxAssumption DEF WindowOK
  <2>3. CASE ~Failed(ss, stop)
    <3>1. Cardinality(Errors(told')) \in Nat
      BY <1>6
    <3> QED
      BY <1>6, <1>11, <2>3, <3>1, MaxAssumption DEF WindowOK
  <2> QED
    BY <2>2, <2>3
<1>14. StateOK'
  <2>1. \A a \in awaited : told'[a] # "nothing"
    BY <1>4, <1>6 DEF StateOK
  <2> QED
    BY <1>1, <1>4, <1>6, <1>11, <2>1 DEF StateOK
<1> QED
  BY <1>1, <1>11, <1>12, <1>13, <1>14, Together

(* An attachment that arrives is nowhere yet; if its save had a session,   *)
(* that session has the id it came under.                                  *)
Arrived(a, s, id, x) ==
    /\ StateOK' /\ idOf' = idOf /\ forgotten' = forgotten
    /\ told'[a] = x /\ \A q \in Saves \cup Attachments : q # a => told'[q] = told[q]
    /\ IsFiniteSet(Errors(told')) /\ Cardinality(Errors(told)) \in Nat
    /\ Cardinality(Errors(told')) =
          IF x = "error" THEN Cardinality(Errors(told)) + 1 ELSE Cardinality(Errors(told))
    /\ \A i \in DOMAIN sessions : a \notin sessions[i].atts
    /\ \A k \in DOMAIN library : a \notin library[k].atts
    /\ ToldOK(sessions, library, told') /\ SavedOK(library, told')
    /\ belongs'[a].save = s
    /\ awaited' \subseteq awaited \cup {a}
    /\ RightOK(sessions, library, awaited' \ {a}, belongs')
    /\ a \in awaited' =>
          \E i \in DOMAIN sessions : sessions[i].save = s /\ sessions[i].id = id

(* So it is when an attachment arrives and is answered.                    *)
LEMMA Arrival ==
    ASSUME ConnectorInv, NEW a \in Attachments, NEW s \in Saves, NEW id \in Ids \cup {NoId},
           Arrive(a, s, id),
           NEW x \in {"created", "error"}, told' = [told EXCEPT ![a] = x],
           faults' \in 0..MaxFaults
    PROVE  Arrived(a, s, id, x)
<1>1. /\ StateOK /\ sessions \in Seq(SessionType) /\ library \in Seq(DirType)
      /\ ToldOK(sessions, library, told) /\ SavedOK(library, told)
      /\ WindowOK(sessions, told)
      /\ RightOK(sessions, library, awaited, belongs) /\ IdsOK(sessions)
  BY DEF ConnectorInv, ListsOK
<1>2. /\ told[a] = "nothing" /\ UNCHANGED <<idOf, forgotten>>
      /\ belongs' = [belongs EXCEPT ![a] = [save |-> s, id |-> id]]
      /\ awaited' = IF id = idOf[s] /\ \E i \in DOMAIN sessions : sessions[i].save = s
                      THEN awaited \cup {a} ELSE awaited
  BY DEF Arrive
<1>3. /\ told' \in [Saves \cup Attachments -> Answers] /\ told'[a] = x
      /\ \A q \in Saves \cup Attachments : q # a => told'[q] = told[q]
      /\ \A q \in Saves \cup Attachments :
            told[q] # "nothing" => told'[q] # "nothing" /\ q # a
      /\ IsFiniteSet(Errors(told')) /\ Cardinality(Errors(told)) \in Nat
      /\ Cardinality(Errors(told')) =
            IF x = "error" THEN Cardinality(Errors(told)) + 1 ELSE Cardinality(Errors(told))
  BY <1>1, <1>2, AnswerIs DEF WindowOK
<1>4. /\ belongs' \in [Attachments -> ArrivalType] /\ belongs'[a].save = s
      /\ \A c \in Attachments : c # a => belongs'[c] = belongs[c]
  <2>1. belongs \in [Attachments -> ArrivalType] /\ [save |-> s, id |-> id] \in ArrivalType
    BY <1>1 DEF StateOK, ArrivalType
  <2> QED
    BY <1>2, <2>1
<1>5. /\ \A i \in DOMAIN sessions : a \notin sessions[i].atts
      /\ \A k \in DOMAIN library : a \notin library[k].atts
  BY <1>1, <1>2 DEF ToldOK
<1>6. ToldOK(sessions, library, told')
  <2>1. ASSUME NEW i \in DOMAIN sessions
        PROVE  /\ sessions[i].save # NoSave => told'[sessions[i].save] # "nothing"
               /\ \A c \in sessions[i].atts : told'[c] # "nothing"
    <3>1. sessions[i].save \in Saves \cup {NoSave} /\ sessions[i].atts \subseteq Attachments
      BY <1>1, MembersAre
    <3> QED
      BY <1>1, <1>3, <3>1 DEF ToldOK
  <2>2. ASSUME NEW k \in DOMAIN library
        PROVE  /\ library[k].save # NoSave => told'[library[k].save] # "nothing"
               /\ \A c \in library[k].atts : told'[c] # "nothing"
    <3>1. library[k].save \in Saves \cup {NoSave} /\ library[k].atts \subseteq Attachments
      BY <1>1, MembersAre
    <3> QED
      BY <1>1, <1>3, <3>1 DEF ToldOK
  <2> QED
    BY <2>1, <2>2 DEF ToldOK
<1>7. SavedOK(library, told')
  <2>1. \A u \in Saves : told'[u] = told[u]
    BY <1>3, RequestsAssumption
  <2> QED
    BY <1>1, <2>1 DEF SavedOK
<1>8. /\ awaited \subseteq Attachments /\ a \notin awaited
      /\ awaited' \subseteq awaited \cup {a}
      /\ \A c \in awaited : told[c] # "nothing"
  BY <1>1, <1>2 DEF StateOK
<1>9. RightOK(sessions, library, awaited' \ {a}, belongs')
  <2>1. \A c \in awaited' \ {a} : c \in awaited /\ belongs'[c] = belongs[c]
    BY <1>4, <1>8
  <2> QED
    BY <1>1, <2>1 DEF RightOK
<1>10. ASSUME a \in awaited'
       PROVE  \E i \in DOMAIN sessions : sessions[i].save = s /\ sessions[i].id = id
  <2>1. PICK i \in DOMAIN sessions : sessions[i].save = s /\ id = idOf[s]
    BY <1>2, <1>8, <1>10
  <2>2. sessions[i].id = idOf[s]
    BY <1>1, <2>1, NoneAssumption DEF IdsOK
  <2> QED
    BY <2>1, <2>2
<1>11. StateOK'
  <2>1. \A c \in awaited' : told'[c] # "nothing"
    BY <1>3, <1>8
  <2>2. awaited' \subseteq Attachments
    BY <1>8
  <2> QED
    BY <1>1, <1>2, <1>3, <1>4, <2>1, <2>2 DEF StateOK
<1> QED
  BY <1>2, <1>3, <1>4, <1>5, <1>6, <1>7, <1>8, <1>9, <1>10, <1>11 DEF Arrived

(* Where an attachment goes: to a session with its id, if there is one.    *)
LEMMA RouteIs ==
    ASSUME sessions \in Seq(SessionType), NEW id, NEW child \in BOOLEAN
    PROVE  /\ Route(id, child) \in DOMAIN sessions \cup {0}
           /\ (\E i \in DOMAIN sessions : sessions[i].id = id) =>
                 Route(id, child) \in DOMAIN sessions /\ sessions[Route(id, child)].id = id
           /\ Route(id, child) = 0 /\ child => sessions = <<>>
<1> DEFINE same == {i \in DOMAIN sessions : sessions[i].id = id}
<1>1. DOMAIN sessions = 1..Len(sessions) /\ Len(sessions) \in Nat
  OBVIOUS
<1>2. same # {} => First(same) \in same
  BY <1>1, FirstIs
<1>3. Route(id, child) = IF same # {} THEN First(same)
                         ELSE IF id = NoId \/ child THEN Len(sessions) ELSE 0
  BY DEF Route
<1>4. CASE same # {}
  <2>1. First(same) \in DOMAIN sessions /\ sessions[First(same)].id = id /\ First(same) # 0
    BY <1>1, <1>2, <1>4
  <2> QED
    BY <1>3, <1>4, <2>1
<1>5. CASE same = {}
  <2>1. /\ Route(id, child) \in {0, Len(sessions)}
        /\ (child => Route(id, child) = Len(sessions))
    BY <1>3, <1>5
  <2>2. Len(sessions) = 0 \/ Len(sessions) \in DOMAIN sessions
    BY <1>1
  <2>3. Len(sessions) = 0 => sessions = <<>>
    OBVIOUS
  <2>4. ~\E i \in DOMAIN sessions : sessions[i].id = id
    BY <1>5
  <2> HIDE DEF same
  <2> QED
    BY <2>1, <2>2, <2>3, <2>4
<1> QED
  BY <1>4, <1>5

(* An awaited attachment goes to the session of its save.                  *)
LEMMA RoutedRight ==
    ASSUME ConnectorInv, NEW s \in Saves, NEW id, NEW child \in BOOLEAN, Unshared(s),
           NEW j \in DOMAIN sessions, sessions[j].save = s, sessions[j].id = id
    PROVE  Route(id, child) = j
<1>1. sessions \in Seq(SessionType) /\ IdsOK(sessions)
  BY DEF ConnectorInv, ListsOK
<1>2. Route(id, child) \in DOMAIN sessions /\ sessions[Route(id, child)].id = id
  BY <1>1, RouteIs
<1>3. idOf[s] = id
  BY <1>1, NoneAssumption DEF IdsOK
<1> QED
  BY <1>1, <1>2, <1>3 DEF IdsOK

(* accept_attachment, the session is not imported yet.                     *)
LEMMA BufferStep ==
    ASSUME ConnectorInv, NEW a \in Attachments, NEW s \in Saves, NEW id \in Ids \cup {NoId},
           NEW child \in BOOLEAN, Buffer(a, s, id, child)
    PROVE  ConnectorInv'
<1> DEFINE r == Route(id, child)
           ss == [sessions EXCEPT ![r].atts = @ \cup {a}]
<1>1. /\ StateOK /\ sessions \in Seq(SessionType) /\ library \in Seq(DirType)
      /\ faults \in 0..MaxFaults
      /\ ItemsOK(sessions, library) /\ IdsOK(sessions) /\ OnceOK(sessions, library, faults)
      /\ KeptOK(sessions, library, told, forgotten) /\ WindowOK(sessions, told)
  BY DEF ConnectorInv, ListsOK, StateOK
<1>2. Arrive(a, s, id) /\ r \in Pending(sessions)
  BY DEF Buffer
<1>3. PICK stop \in Stops(ss) :
         /\ ImportFrom(ss, stop)
         /\ Answer(a, ~Failed(ss, stop))
         /\ sessions' = IF Failed(ss, stop) THEN Imported(ss, stop)
                        ELSE Prune(Imported(ss, stop))
  BY DEF Buffer
<1> HIDE DEF r
<1>4. r \in DOMAIN sessions /\ sessions[r] \in SessionType /\ sessions[r].item = 0
  BY <1>1, <1>2 DEF Pending
<1> DEFINE joined == [sessions[r] EXCEPT !.atts = @ \cup {a}]
<1>5. /\ joined \in SessionType /\ joined.id = sessions[r].id
      /\ joined.save = sessions[r].save
      /\ joined.item = 0 /\ joined.atts = sessions[r].atts \cup {a}
  BY <1>4 DEF SessionType
<1>6. ss = [sessions EXCEPT ![r] = joined]
  OBVIOUS
<1> HIDE DEF joined, ss
<1>7. /\ ss \in Seq(SessionType) /\ DOMAIN ss = DOMAIN sessions /\ ss[r] = joined
      /\ \A i \in DOMAIN sessions : i # r => ss[i] = sessions[i]
  BY <1>1, <1>4, <1>5, <1>6, ReplacedIs
<1>8. /\ \A i \in DOMAIN sessions :
            /\ ss[i].id = sessions[i].id /\ ss[i].save = sessions[i].save
            /\ ss[i].item = sessions[i].item
            /\ sessions[i].atts \subseteq ss[i].atts
            /\ ss[i].atts \subseteq sessions[i].atts \cup {a}
            /\ i # r => ss[i].atts = sessions[i].atts
      /\ Pending(ss) = Pending(sessions) /\ Filed(ss) = Filed(sessions)
  <2>1. ASSUME NEW i \in DOMAIN sessions
        PROVE  /\ ss[i].id = sessions[i].id /\ ss[i].save = sessions[i].save
               /\ ss[i].item = sessions[i].item
               /\ sessions[i].atts \subseteq ss[i].atts
               /\ ss[i].atts \subseteq sessions[i].atts \cup {a}
               /\ i # r => ss[i].atts = sessions[i].atts
    <3>1. CASE i = r
      BY <1>4, <1>5, <1>7, <3>1
    <3>2. CASE i # r
      BY <1>7, <3>2
    <3> QED
      BY <3>1, <3>2
  <2> QED
    BY <1>7, <2>1 DEF Pending, Filed
<1>9. faults' \in 0..MaxFaults
  BY <1>1, <1>3, <1>7, ImportIs
<1> DEFINE x == IF Failed(ss, stop) THEN "error" ELSE "created"
<1>10. x \in {"created", "error"} /\ told' = [told EXCEPT ![a] = x]
  BY <1>3 DEF Answer
<1> HIDE DEF x
<1>11. /\ StateOK' /\ idOf' = idOf /\ forgotten' = forgotten
       /\ told'[a] = x /\ \A q \in Saves \cup Attachments : q # a => told'[q] = told[q]
       /\ IsFiniteSet(Errors(told')) /\ Cardinality(Errors(told)) \in Nat
       /\ Cardinality(Errors(told')) =
             IF x = "error" THEN Cardinality(Errors(told)) + 1
             ELSE Cardinality(Errors(told))
       /\ \A i \in DOMAIN sessions : a \notin sessions[i].atts
       /\ \A k \in DOMAIN library : a \notin library[k].atts
       /\ ToldOK(sessions, library, told') /\ SavedOK(library, told')
       /\ belongs'[a].save = s
       /\ awaited' \subseteq awaited \cup {a}
       /\ RightOK(sessions, library, awaited' \ {a}, belongs')
       /\ a \in awaited' =>
             \E i \in DOMAIN sessions : sessions[i].save = s /\ sessions[i].id = id
  <2>1. Arrived(a, s, id, x)
    BY <1>2, <1>9, <1>10, Arrival
  <2> QED
    BY <2>1 DEF Arrived
<1>12. ItemsOK(ss, library)
  BY <1>1, <1>7, <1>8 DEF ItemsOK
<1>13. IdsOK(ss)
  <2>0. \A i \in Pending(ss) : i \in DOMAIN sessions
    BY <1>8 DEF Pending
  <2>1. \A i, j \in Pending(ss) : ss[i].id = ss[j].id => i = j
    BY <1>1, <1>8, <2>0 DEF IdsOK
  <2>2. \A i \in DOMAIN ss : ss[i].save # NoSave => ss[i].id = idOf[ss[i].save]
    BY <1>1, <1>7, <1>8 DEF IdsOK
  <2>3. \A i, j \in DOMAIN ss : ss[i].save = ss[j].save /\ ss[i].save # NoSave => i = j
    BY <1>1, <1>7, <1>8 DEF IdsOK
  <2>4. \A u \in Saves : Unshared(u) =>
           \A i, j \in DOMAIN ss : ss[i].id = idOf[u] /\ ss[j].id = idOf[u] => i = j
    BY <1>1, <1>7, <1>8 DEF IdsOK
  <2> QED
    BY <2>1, <2>2, <2>3, <2>4 DEF IdsOK
<1>14. ToldOK(ss, library, told')
  <2>1. x # "nothing"
    BY <1>10
  <2>2. \A i \in DOMAIN ss : /\ ss[i].save # NoSave => told'[ss[i].save] # "nothing"
                             /\ \A c \in ss[i].atts : told'[c] # "nothing"
    BY <1>7, <1>8, <1>11, <2>1 DEF ToldOK
  <2> QED
    BY <1>11, <2>2 DEF ToldOK
<1>15. OnceOK(ss, library, faults)
  <2>1. \A i \in Pending(ss) : ss[i].save = sessions[i].save
    BY <1>8 DEF Pending
  <2> QED
    BY <1>1, <1>8, <2>1 DEF OnceOK
<1>16. RightOK(ss, library, awaited', belongs')
  <2> SUFFICES ASSUME NEW c \in awaited', Unshared(belongs'[c].save)
               PROVE  /\ belongs'[c].save # NoSave
                      /\ \A k \in DOMAIN library :
                            c \in library[k].atts => library[k].save = belongs'[c].save
                      /\ \A i \in DOMAIN ss :
                            c \in ss[i].atts => ss[i].save = belongs'[c].save
    BY DEF RightOK
  <2>1. CASE c = a
    <3>1. PICK j \in DOMAIN sessions : sessions[j].save = s /\ sessions[j].id = id
      BY <1>11, <2>1
    <3>2. Unshared(s)
      BY <1>11, <2>1
    <3>3. r = j
      BY <3>1, <3>2, RoutedRight DEF r
    <3>4. \A i \in DOMAIN ss : a \in ss[i].atts => i = r
      BY <1>7, <1>8, <1>11
    <3> QED
      BY <1>7, <1>8, <1>11, <2>1, <3>1, <3>3, <3>4, NoneAssumption
  <2>2. CASE c # a
    <3>1. c \in awaited' \ {a}
      BY <2>2
    <3>2. /\ belongs'[c].save # NoSave
          /\ \A k \in DOMAIN library :
                c \in library[k].atts => library[k].save = belongs'[c].save
          /\ \A i \in DOMAIN sessions :
                c \in sessions[i].atts => sessions[i].save = belongs'[c].save
      BY <1>11, <3>1 DEF RightOK
    <3> QED
      BY <1>7, <1>8, <2>2, <3>2
  <2> QED
    BY <2>1, <2>2
<1>17. KeptOK(ss, library, told', forgotten)
  <2> SUFFICES ASSUME NEW c \in Attachments, told'[c] = "created"
               PROVE  \/ \E k \in DOMAIN library : c \in library[k].atts
                      \/ \E i \in Pending(ss) : c \in ss[i].atts
                      \/ c \in forgotten
    BY DEF KeptOK
  <2>1. CASE c = a
    BY <1>2, <1>5, <1>7, <1>8, <2>1 DEF r
  <2>2. CASE c # a
    <3>1. told[c] = "created"
      BY <1>11, <2>2
    <3>2. \A i \in Pending(sessions) : sessions[i].atts \subseteq ss[i].atts
      BY <1>8 DEF Pending
    <3> QED
      BY <1>1, <1>8, <3>1, <3>2 DEF KeptOK
  <2> QED
    BY <2>1, <2>2
<1>18. PartsOK(ss, library, told', faults, awaited', belongs', forgotten')
  BY <1>11, <1>12, <1>13, <1>14, <1>15, <1>16, <1>17 DEF PartsOK
<1>19. /\ ListsOK(sessions', library')
       /\ PartsOK(sessions', library', told', faults', awaited', belongs', forgotten')
       /\ DOMAIN library \subseteq DOMAIN library'
       /\ \A k \in DOMAIN library : library'[k] = library[k]
       /\ Cardinality(Filed(ss)) \in Nat /\ Cardinality(Filed(sessions')) \in Nat
       /\ Cardinality(Filed(sessions')) <= Cardinality(Filed(ss))
  BY <1>1, <1>3, <1>7, <1>18, RequestImports
<1>20. SavedOK(library', told')
  BY <1>11, <1>19 DEF SavedOK
<1>21. WindowOK(sessions', told')
  <2>1. Cardinality(Filed(sessions)) <= MaxCompleted + Cardinality(Errors(told))
    BY <1>1 DEF WindowOK
  <2>2. /\ Cardinality(Errors(told')) \in Nat
        /\ Cardinality(Errors(told)) <= Cardinality(Errors(told'))
    BY <1>11
  <2> QED
    BY <1>8, <1>11, <1>19, <2>1, <2>2, MaxAssumption DEF WindowOK
<1> QED
  BY <1>11, <1>19, <1>20, <1>21, Together

(* A library with an attachment more in the directory of a session.        *)
LEMMA LateIs ==
    ASSUME library \in Seq(DirType), NEW a \in Attachments, NEW n \in DOMAIN library,
           NEW lib, lib = [library EXCEPT ![n].atts = @ \cup {a}]
    PROVE  /\ lib \in Seq(DirType) /\ DOMAIN lib = DOMAIN library
           /\ \A k \in DOMAIN library : /\ lib[k].save = library[k].save
                                        /\ library[k].atts \subseteq lib[k].atts
                                        /\ lib[k].atts \subseteq library[k].atts \cup {a}
                                        /\ k # n => lib[k].atts = library[k].atts
           /\ a \in lib[n].atts
<1> DEFINE more == [library[n] EXCEPT !.atts = @ \cup {a}]
<1>1. library[n] \in DirType
  OBVIOUS
<1>2. /\ more \in DirType /\ more.save = library[n].save
      /\ more.atts = library[n].atts \cup {a}
  BY <1>1 DEF DirType
<1>3. lib = [library EXCEPT ![n] = more]
  OBVIOUS
<1> HIDE DEF more
<1>4. /\ lib \in Seq(DirType) /\ DOMAIN lib = DOMAIN library /\ lib[n] = more
      /\ \A i \in DOMAIN library : i # n => lib[i] = library[i]
  <2>1. more \in DirType
    BY <1>2
  <2>2. /\ [library EXCEPT ![n] = more] \in Seq(DirType)
        /\ DOMAIN [library EXCEPT ![n] = more] = DOMAIN library
        /\ [library EXCEPT ![n] = more][n] = more
        /\ \A i \in DOMAIN library : i # n => [library EXCEPT ![n] = more][i] = library[i]
    BY <2>1, ReplacedIs
  <2> QED
    BY <1>3, <2>2
<1>5. ASSUME NEW k \in DOMAIN library
      PROVE  /\ lib[k].save = library[k].save
             /\ library[k].atts \subseteq lib[k].atts
             /\ lib[k].atts \subseteq library[k].atts \cup {a}
             /\ k # n => lib[k].atts = library[k].atts
  <2>1. CASE k = n
    BY <1>2, <1>4, <2>1
  <2>2. CASE k # n
    BY <1>4, <2>2
  <2> QED
    BY <2>1, <2>2
<1> QED
  BY <1>2, <1>4, <1>5

(* accept_attachment, the session is imported.                             *)
LEMMA LateStep ==
    ASSUME ConnectorInv, NEW a \in Attachments, NEW s \in Saves, NEW id \in Ids \cup {NoId},
           NEW child \in BOOLEAN, SaveLate(a, s, id, child)
    PROVE  ConnectorInv'
<1> DEFINE r == Route(id, child)
           n == sessions[r].item
           late == [library EXCEPT ![n].atts = @ \cup {a}]
<1>1. /\ StateOK /\ sessions \in Seq(SessionType) /\ library \in Seq(DirType)
      /\ faults \in 0..MaxFaults
      /\ ItemsOK(sessions, library) /\ IdsOK(sessions) /\ OnceOK(sessions, library, faults)
      /\ KeptOK(sessions, library, told, forgotten) /\ WindowOK(sessions, told)
  BY DEF ConnectorInv, ListsOK, StateOK
<1>2. Arrive(a, s, id) /\ r \in Completed(sessions)
  BY DEF SaveLate
<1>3. PICK x \in {"created", "error"} :
         /\ told' = [told EXCEPT ![a] = x]
         /\ x = "created" =>
               library' = late /\ sessions' = Prune(sessions) /\ faults' = faults
         /\ x = "error" => /\ faults < MaxFaults /\ faults' = faults + 1
                           /\ library' \in {library, late} /\ sessions' = sessions
  BY DEF SaveLate, Answer
<1> HIDE DEF r
<1>4. r \in DOMAIN sessions /\ n \in DOMAIN library /\ library[n].save = sessions[r].save
  BY <1>1, <1>2 DEF Completed, Pending, ItemsOK
<1>5. /\ late \in Seq(DirType) /\ DOMAIN late = DOMAIN library
      /\ \A k \in DOMAIN library : /\ late[k].save = library[k].save
                                   /\ library[k].atts \subseteq late[k].atts
                                   /\ late[k].atts \subseteq library[k].atts \cup {a}
                                   /\ k # n => late[k].atts = library[k].atts
      /\ a \in late[n].atts
  BY <1>1, <1>4, LateIs
<1> HIDE DEF late, n
<1>6. faults' \in 0..MaxFaults
  BY <1>1, <1>3, MaxAssumption
<1>11. /\ StateOK' /\ idOf' = idOf /\ forgotten' = forgotten
       /\ told'[a] = x /\ \A q \in Saves \cup Attachments : q # a => told'[q] = told[q]
       /\ IsFiniteSet(Errors(told')) /\ Cardinality(Errors(told)) \in Nat
       /\ Cardinality(Errors(told')) =
             IF x = "error" THEN Cardinality(Errors(told)) + 1
             ELSE Cardinality(Errors(told))
       /\ \A i \in DOMAIN sessions : a \notin sessions[i].atts
       /\ \A k \in DOMAIN library : a \notin library[k].atts
       /\ ToldOK(sessions, library, told') /\ SavedOK(library, told')
       /\ belongs'[a].save = s
       /\ awaited' \subseteq awaited \cup {a}
       /\ RightOK(sessions, library, awaited' \ {a}, belongs')
       /\ a \in awaited' =>
             \E i \in DOMAIN sessions : sessions[i].save = s /\ sessions[i].id = id
  <2>1. Arrived(a, s, id, x)
    BY <1>2, <1>3, <1>6, Arrival
  <2> QED
    BY <2>1 DEF Arrived
<1>7. /\ library' \in Seq(DirType) /\ DOMAIN library' = DOMAIN library
      /\ \A k \in DOMAIN library : /\ library'[k].save = library[k].save
                                   /\ library[k].atts \subseteq library'[k].atts
                                   /\ library'[k].atts \subseteq library[k].atts \cup {a}
                                   /\ k # n => library'[k].atts = library[k].atts
      /\ x = "created" => a \in library'[n].atts
  <2>1. CASE library' = late
    BY <1>5, <2>1
  <2>2. CASE library' = library /\ x = "error"
    BY <1>1, <2>2
  <2> QED
    BY <1>3, <2>1, <2>2
<1>12. ItemsOK(sessions, library')
  BY <1>1, <1>7 DEF ItemsOK
<1>14. ToldOK(sessions, library', told')
  <2>1. x # "nothing"
    BY <1>3
  <2>2. \A k \in DOMAIN library' :
           /\ library'[k].save # NoSave => told'[library'[k].save] # "nothing"
           /\ \A c \in library'[k].atts : told'[c] # "nothing"
    BY <1>7, <1>11, <2>1 DEF ToldOK
  <2> QED
    BY <1>11, <2>2 DEF ToldOK
<1>15. OnceOK(sessions, library', faults')
  <2>1. faults' = 0 => faults = 0
    BY <1>1, <1>3
  <2> QED
    BY <1>1, <1>7, <2>1 DEF OnceOK
<1>16. RightOK(sessions, library', awaited', belongs')
  <2> SUFFICES ASSUME NEW c \in awaited', Unshared(belongs'[c].save)
               PROVE  /\ belongs'[c].save # NoSave
                      /\ \A k \in DOMAIN library' :
                            c \in library'[k].atts => library'[k].save = belongs'[c].save
                      /\ \A i \in DOMAIN sessions :
                            c \in sessions[i].atts => sessions[i].save = belongs'[c].save
    BY DEF RightOK
  <2>1. CASE c = a
    <3>1. PICK j \in DOMAIN sessions : sessions[j].save = s /\ sessions[j].id = id
      BY <1>11, <2>1
    <3>2. Unshared(s)
      BY <1>11, <2>1
    <3>3. r = j
      BY <3>1, <3>2, RoutedRight DEF r
    <3>4. \A k \in DOMAIN library' : a \in library'[k].atts => k = n
      BY <1>7, <1>11
    <3> QED
      BY <1>4, <1>7, <1>11, <2>1, <3>1, <3>3, <3>4, NoneAssumption
  <2>2. CASE c # a
    <3>1. c \in awaited' \ {a}
      BY <2>2
    <3>2. /\ belongs'[c].save # NoSave
          /\ \A k \in DOMAIN library :
                c \in library[k].atts => library[k].save = belongs'[c].save
          /\ \A i \in DOMAIN sessions :
                c \in sessions[i].atts => sessions[i].save = belongs'[c].save
      BY <1>11, <3>1 DEF RightOK
    <3> QED
      BY <1>7, <2>2, <3>2
  <2> QED
    BY <2>1, <2>2
<1>17. KeptOK(sessions, library', told', forgotten')
  <2> SUFFICES ASSUME NEW c \in Attachments, told'[c] = "created"
               PROVE  \/ \E k \in DOMAIN library' : c \in library'[k].atts
                      \/ \E i \in Pending(sessions) : c \in sessions[i].atts
                      \/ c \in forgotten'
    BY DEF KeptOK
  <2>1. CASE c = a
    BY <1>4, <1>7, <1>11, <2>1
  <2>2. CASE c # a
    BY <1>1, <1>7, <1>11, <2>2 DEF KeptOK
  <2> QED
    BY <2>1, <2>2
<1>20. SavedOK(library', told')
  BY <1>7, <1>11 DEF SavedOK
<1>21. /\ Cardinality(Filed(sessions)) <= MaxCompleted + Cardinality(Errors(told))
       /\ Cardinality(Filed(sessions)) \in Nat
  BY <1>1, PruneWindow DEF WindowOK
<1>22. CASE x = "error"
  <2>1. /\ PartsOK(sessions', library', told', faults', awaited', belongs', forgotten')
        /\ ListsOK(sessions', library')
    BY <1>1, <1>3, <1>7, <1>12, <1>14, <1>15, <1>16, <1>17, <1>22 DEF PartsOK, ListsOK
  <2>2. WindowOK(sessions', told')
    BY <1>3, <1>11, <1>21, <1>22, MaxAssumption DEF WindowOK
  <2> QED
    BY <1>11, <1>20, <2>1, <2>2, Together
<1>23. CASE x = "created"
  <2>1. sessions' = Prune(sessions)
    BY <1>3, <1>23
  <2>2. PICK place : /\ Thins(sessions, Prune(sessions), place)
                     /\ \A i \in Pending(sessions) :
                           \E k \in DOMAIN Prune(sessions) : place[k] = i
    BY <1>1, PruneIs
  <2>3. /\ ListsOK(Prune(sessions), library')
        /\ ItemsOK(sessions, library') => ItemsOK(Prune(sessions), library')
        /\ IdsOK(sessions) => IdsOK(Prune(sessions))
        /\ ToldOK(sessions, library', told') => ToldOK(Prune(sessions), library', told')
        /\ OnceOK(sessions, library', faults') => OnceOK(Prune(sessions), library', faults')
        /\ RightOK(sessions, library', awaited', belongs') =>
              RightOK(Prune(sessions), library', awaited', belongs')
        /\ (\A i \in Pending(sessions) : \E k \in DOMAIN Prune(sessions) : place[k] = i)
              /\ KeptOK(sessions, library', told', forgotten') =>
                    KeptOK(Prune(sessions), library', told', forgotten')
    BY <1>1, <1>7, <2>2, ThinningKeeps
  <2>4. /\ PartsOK(sessions', library', told', faults', awaited', belongs', forgotten')
        /\ ListsOK(sessions', library')
    BY <1>1, <1>12, <1>14, <1>15, <1>16, <1>17, <2>1, <2>2, <2>3 DEF PartsOK
  <2>5. /\ Cardinality(Filed(Prune(sessions))) <= Cardinality(Filed(sessions))
        /\ Cardinality(Filed(Prune(sessions))) \in Nat
    BY <1>1, PruneWindow
  <2>6. WindowOK(sessions', told')
    BY <1>11, <1>21, <1>23, <2>1, <2>5, MaxAssumption DEF WindowOK
  <2> QED
    BY <1>11, <1>20, <2>4, <2>6, Together
<1> QED
  BY <1>3, <1>22, <1>23

(* accept_attachment, there is no session: a child waits in one of its     *)
(* own.                                                                    *)
LEMMA OrphanStep ==
    ASSUME ConnectorInv, NEW a \in Attachments, NEW s \in Saves, NEW id \in Ids \cup {NoId},
           NEW child \in BOOLEAN, Orphan(a, s, id, child)
    PROVE  ConnectorInv'
<1>1. /\ StateOK /\ sessions \in Seq(SessionType) /\ library \in Seq(DirType)
      /\ faults \in 0..MaxFaults
      /\ KeptOK(sessions, library, told, forgotten) /\ WindowOK(sessions, told)
  BY DEF ConnectorInv, ListsOK, StateOK
<1>2. /\ Arrive(a, s, id) /\ Route(id, child) = 0 /\ child
      /\ sessions' = Append(sessions, Session(id, NoSave, {a}))
      /\ told' = [told EXCEPT ![a] = "created"] /\ library' = library /\ faults' = faults
  BY DEF Orphan, Answer
<1>3. sessions = <<>>
  BY <1>1, <1>2, RouteIs
<1>4. Arrived(a, s, id, "created")
  BY <1>1, <1>2, Arrival
<1> DEFINE new == Session(id, NoSave, {a})
<1>5. /\ new \in SessionType /\ new.id = id /\ new.save = NoSave /\ new.atts = {a}
      /\ new.item = 0
  BY DEF Session, SessionType
<1>6. sessions' = <<new>>
  BY <1>2, <1>3
<1> HIDE DEF new
<1>7. sessions' \in Seq(SessionType) /\ DOMAIN sessions' = {1} /\ sessions'[1] = new
  BY <1>5, <1>6
<1>8. ItemsOK(sessions', library)
  BY <1>5, <1>7 DEF ItemsOK
<1>9. IdsOK(sessions')
  BY <1>5, <1>7 DEF IdsOK, Pending
<1>10. ToldOK(sessions', library, told')
  <2>1. told'[a] = "created" /\ ToldOK(sessions, library, told')
    BY <1>4 DEF Arrived
  <2> QED
    BY <1>5, <1>7, <2>1 DEF ToldOK
<1>11. OnceOK(sessions', library, faults)
  <2>1. OnceOK(sessions, library, faults)
    BY DEF ConnectorInv
  <2> QED
    BY <1>5, <1>7, <2>1 DEF OnceOK, Pending
<1>12. a \notin awaited'
  BY <1>3, <1>4 DEF Arrived
<1>13. RightOK(sessions', library, awaited', belongs')
  <2>1. awaited' \ {a} = awaited'
    BY <1>12
  <2>2. RightOK(sessions, library, awaited', belongs')
    BY <1>4, <2>1 DEF Arrived
  <2> QED
    BY <1>5, <1>7, <1>12, <2>2 DEF RightOK
<1>14. KeptOK(sessions', library, told', forgotten)
  <2>1. 1 \in Pending(sessions') /\ a \in sessions'[1].atts
    BY <1>5, <1>7 DEF Pending
  <2>2. \A c \in Attachments : c # a => told'[c] = told[c]
    BY <1>4 DEF Arrived
  <2>3. Pending(sessions) = {}
    BY <1>3 DEF Pending
  <2> QED
    BY <1>1, <2>1, <2>2, <2>3 DEF KeptOK
<1>15. StateOK' /\ idOf' = idOf /\ forgotten' = forgotten /\ SavedOK(library, told')
  BY <1>4 DEF Arrived
<1>16. /\ PartsOK(sessions', library', told', faults', awaited', belongs', forgotten')
       /\ ListsOK(sessions', library')
  BY <1>1, <1>2, <1>7, <1>8, <1>9, <1>10, <1>11, <1>13, <1>14, <1>15 DEF PartsOK, ListsOK
<1>17. WindowOK(sessions', told')
  <2>1. Filed(sessions') = {}
    BY <1>5, <1>7 DEF Filed
  <2>2. IsFiniteSet(Errors(told')) /\ Cardinality(Errors(told')) \in Nat
    BY <1>4, FS_CardinalityType DEF Arrived
  <2>3. Cardinality({}) = 0
    BY FS_EmptySet
  <2> QED
    BY <2>1, <2>2, <2>3, MaxAssumption DEF WindowOK
<1> QED
  BY <1>2, <1>15, <1>16, <1>17, Together

(* ... or it is imported as an item of its own.                            *)
LEMMA StandaloneStep ==
    ASSUME ConnectorInv, NEW a \in Attachments, NEW s \in Saves, NEW id \in Ids \cup {NoId},
           NEW child \in BOOLEAN, Standalone(a, s, id, child)
    PROVE  ConnectorInv'
<1> DEFINE own == [save |-> NoSave, atts |-> {a}]
           n == Len(library) + 1
<1>1. /\ StateOK /\ sessions \in Seq(SessionType) /\ library \in Seq(DirType)
      /\ faults \in 0..MaxFaults
      /\ ItemsOK(sessions, library) /\ IdsOK(sessions) /\ OnceOK(sessions, library, faults)
      /\ KeptOK(sessions, library, told, forgotten) /\ WindowOK(sessions, told)
  BY DEF ConnectorInv, ListsOK, StateOK
<1>2. Arrive(a, s, id) /\ Route(id, child) = 0 /\ sessions' = sessions
  BY DEF Standalone
<1>3. PICK x \in {"created", "error"} :
         /\ told' = [told EXCEPT ![a] = x]
         /\ x = "created" => library' = Append(library, own)
         /\ library' \in {library, Append(library, own)}
         /\ faults' = faults \/ (faults < MaxFaults /\ faults' = faults + 1)
  BY DEF Standalone, Answer
<1>4. own \in DirType /\ own.save = NoSave /\ own.atts = {a}
  BY DEF DirType
<1> HIDE DEF own
<1>5. /\ library' \in Seq(DirType) /\ DOMAIN library \subseteq DOMAIN library'
      /\ \A k \in DOMAIN library : library'[k] = library[k]
      /\ \A k \in DOMAIN library' : k \notin DOMAIN library => library'[k] = own
      /\ x = "created" => n \in DOMAIN library' /\ library'[n] = own
  <2>1. CASE library' = library /\ x # "created"
    BY <1>1, <2>1
  <2>2. CASE library' = Append(library, own)
    BY <1>1, <1>4, <2>2
  <2> QED
    BY <1>3, <2>1, <2>2
<1> HIDE DEF n
<1>6. faults' \in 0..MaxFaults /\ (faults' = 0 => faults = 0)
  BY <1>1, <1>3, MaxAssumption
<1>7. Arrived(a, s, id, x)
  BY <1>2, <1>3, <1>6, Arrival
<1>8. a \notin awaited'
  <2>1. ~\E i \in DOMAIN sessions : sessions[i].id = id
    <3>1. 0 \notin DOMAIN sessions
      BY <1>1
    <3> QED
      BY <1>1, <1>2, <3>1, RouteIs
  <2> QED
    BY <1>7, <2>1 DEF Arrived
<1>9. ItemsOK(sessions, library')
  BY <1>1, <1>5 DEF ItemsOK
<1>10. ToldOK(sessions, library', told')
  <2>1. told'[a] = x /\ ToldOK(sessions, library, told') /\ x # "nothing"
    BY <1>3, <1>7 DEF Arrived
  <2>2. ASSUME NEW k \in DOMAIN library'
        PROVE  /\ library'[k].save # NoSave => told'[library'[k].save] # "nothing"
               /\ \A c \in library'[k].atts : told'[c] # "nothing"
    <3>1. CASE k \in DOMAIN library
      BY <1>5, <2>1, <3>1 DEF ToldOK
    <3>2. CASE k \notin DOMAIN library
      BY <1>4, <1>5, <2>1, <3>2
    <3> QED
      BY <3>1, <3>2
  <2> QED
    BY <2>1, <2>2 DEF ToldOK
<1>11. OnceOK(sessions, library', faults')
  <2>1. \A k \in DOMAIN library' :
           library'[k].save # NoSave => k \in DOMAIN library /\ library'[k] = library[k]
    BY <1>4, <1>5
  <2> QED
    BY <1>1, <1>6, <2>1 DEF OnceOK
<1>12. RightOK(sessions, library', awaited', belongs')
  <2>1. awaited' \ {a} = awaited'
    BY <1>8
  <2>2. RightOK(sessions, library, awaited', belongs')
    BY <1>7, <2>1 DEF Arrived
  <2>3. \A c \in awaited', k \in DOMAIN library' :
           c \in library'[k].atts => k \in DOMAIN library /\ library'[k] = library[k]
    BY <1>4, <1>5, <1>8
  <2> QED
    BY <2>2, <2>3 DEF RightOK
<1>13. KeptOK(sessions, library', told', forgotten)
  <2> SUFFICES ASSUME NEW c \in Attachments, told'[c] = "created"
               PROVE  \/ \E k \in DOMAIN library' : c \in library'[k].atts
                      \/ \E i \in Pending(sessions) : c \in sessions[i].atts
                      \/ c \in forgotten
    BY DEF KeptOK
  <2>1. told'[a] = x /\ \A q \in Attachments : q # a => told'[q] = told[q]
    BY <1>7 DEF Arrived
  <2>2. CASE c = a
    BY <1>4, <1>5, <2>1, <2>2
  <2>3. CASE c # a
    BY <1>1, <1>5, <2>1, <2>3 DEF KeptOK
  <2> QED
    BY <2>2, <2>3
<1>14. StateOK' /\ idOf' = idOf /\ forgotten' = forgotten /\ SavedOK(library, told')
  BY <1>7 DEF Arrived
<1>15. SavedOK(library', told')
  BY <1>5, <1>14 DEF SavedOK
<1>16. /\ PartsOK(sessions', library', told', faults', awaited', belongs', forgotten')
       /\ ListsOK(sessions', library')
  BY <1>1, <1>2, <1>5, <1>9, <1>10, <1>11, <1>12, <1>13, <1>14 DEF PartsOK, ListsOK
<1>17. WindowOK(sessions', told')
  <2>1. /\ Cardinality(Filed(sessions)) <= MaxCompleted + Cardinality(Errors(told))
        /\ Cardinality(Filed(sessions)) \in Nat
    BY <1>1, PruneWindow DEF WindowOK
  <2>2. /\ IsFiniteSet(Errors(told')) /\ Cardinality(Errors(told)) \in Nat
        /\ Cardinality(Errors(told')) \in Nat
        /\ Cardinality(Errors(told)) <= Cardinality(Errors(told'))
    BY <1>7 DEF Arrived
  <2> QED
    BY <1>2, <2>1, <2>2, MaxAssumption DEF WindowOK
<1> QED
  BY <1>14, <1>15, <1>16, <1>17, Together

(* The daemon restarts.                                                    *)
LEMMA RestartStep ==
    ASSUME ConnectorInv, Restart
    PROVE  ConnectorInv'
<1>1. /\ StateOK /\ sessions \in Seq(SessionType) /\ library \in Seq(DirType)
      /\ faults \in 0..MaxFaults
      /\ ToldOK(sessions, library, told) /\ SavedOK(library, told)
      /\ RightOK(sessions, library, awaited, belongs)
      /\ KeptOK(sessions, library, told, forgotten) /\ WindowOK(sessions, told)
  BY DEF ConnectorInv, ListsOK, StateOK
<1>2. /\ faults < MaxFaults /\ faults' = faults + 1 /\ sessions' = <<>>
      /\ forgotten' = forgotten \cup UNION {sessions[i].atts : i \in Pending(sessions)}
      /\ UNCHANGED <<library, idOf, told, belongs, awaited>>
  BY DEF Restart
<1>3. faults' \in 0..MaxFaults /\ faults' # 0
  BY <1>1, <1>2, MaxAssumption
<1>4. /\ DOMAIN sessions' = {} /\ sessions' \in Seq(SessionType) /\ Pending(sessions') = {}
      /\ Filed(sessions') = {}
  BY <1>2 DEF Pending, Filed
<1>5. /\ ItemsOK(sessions', library) /\ IdsOK(sessions') /\ ToldOK(sessions', library, told)
      /\ OnceOK(sessions', library, faults')
      /\ RightOK(sessions', library, awaited, belongs)
  BY <1>1, <1>3, <1>4 DEF ItemsOK, IdsOK, ToldOK, OnceOK, RightOK
<1>6. KeptOK(sessions', library, told, forgotten')
  BY <1>1, <1>2 DEF KeptOK
<1>7. StateOK'
  BY <1>1, <1>2, <1>3 DEF StateOK
<1>8. WindowOK(sessions', told)
  <2>1. /\ IsFiniteSet(Errors(told)) /\ Cardinality(Errors(told)) \in Nat
        /\ Cardinality({}) = 0
    BY <1>1, FS_CardinalityType, FS_EmptySet DEF WindowOK
  <2> QED
    BY <1>4, <2>1, MaxAssumption DEF WindowOK
<1>9. /\ PartsOK(sessions', library', told', faults', awaited', belongs', forgotten')
      /\ ListsOK(sessions', library')
  BY <1>1, <1>2, <1>4, <1>5, <1>6 DEF PartsOK, ListsOK
<1> QED
  BY <1>1, <1>2, <1>7, <1>8, <1>9, Together

(* The invariant holds initially.                                          *)
LEMMA ConnectorInitially == Init => ConnectorInv
<1> SUFFICES ASSUME Init PROVE ConnectorInv
  OBVIOUS
<1>1. /\ sessions = <<>> /\ library = <<>> /\ idOf \in [Saves -> Ids \cup {NoId}]
      /\ told = [r \in Saves \cup Attachments |-> "nothing"]
      /\ belongs = [a \in Attachments |-> [save |-> NoSave, id |-> NoId]]
      /\ faults = 0 /\ awaited = {} /\ forgotten = {}
  BY DEF Init
<1>2. /\ DOMAIN sessions = {} /\ sessions \in Seq(SessionType) /\ DOMAIN library = {}
      /\ library \in Seq(DirType)
  BY <1>1
<1>3. Pending(sessions) = {} /\ Filed(sessions) = {} /\ Errors(told) = {}
  BY <1>1, <1>2 DEF Pending, Filed, Errors
<1>4. StateOK
  <2>1. belongs \in [Attachments -> ArrivalType]
    BY <1>1 DEF ArrivalType
  <2> QED
    BY <1>1, <2>1, MaxAssumption DEF StateOK, Answers
<1>5. /\ ItemsOK(sessions, library) /\ IdsOK(sessions) /\ ToldOK(sessions, library, told)
      /\ OnceOK(sessions, library, faults)
  BY <1>2, <1>3 DEF ItemsOK, IdsOK, ToldOK, OnceOK
<1>6. /\ RightOK(sessions, library, awaited, belongs)
      /\ KeptOK(sessions, library, told, forgotten) /\ SavedOK(library, told)
  BY <1>1 DEF RightOK, KeptOK, SavedOK
<1>7. WindowOK(sessions, told)
  BY <1>3, FS_EmptySet, MaxAssumption DEF WindowOK
<1> QED
  BY <1>2, <1>4, <1>5, <1>6, <1>7 DEF ConnectorInv, ListsOK

(* The invariant is inductive.                                             *)
LEMMA ConnectorInvariance == Spec => []ConnectorInv
<1>1. Init => ConnectorInv
  BY ConnectorInitially
<1>2. ConnectorInv /\ [Next]_vars => ConnectorInv'
  <2> SUFFICES ASSUME ConnectorInv, [Next]_vars PROVE ConnectorInv'
    OBVIOUS
  <2>1. ASSUME NEW s \in Saves, AcceptImport(s) PROVE ConnectorInv'
    BY <2>1, SaveStep
  <2>2. ASSUME NEW a \in Attachments, NEW s \in Saves, NEW id \in Ids \cup {NoId},
               NEW child \in BOOLEAN,
               AcceptAttachment(a, s, id, child)
        PROVE  ConnectorInv'
    BY <2>2, LateStep, BufferStep, OrphanStep, StandaloneStep DEF AcceptAttachment
  <2>3. CASE Restart
    BY <2>3, RestartStep
  <2>4. CASE UNCHANGED vars
    <3>1. /\ UNCHANGED <<sessions, library, idOf, told, belongs, faults, awaited, forgotten>>
      BY <2>4 DEF vars
    <3>2. \A s : Unshared(s)' = Unshared(s)
      BY <3>1 DEF Unshared
    <3> QED
      BY <3>1, <3>2
         DEF ConnectorInv, StateOK, ListsOK, ItemsOK, IdsOK, ToldOK, SavedOK, OnceOK, RightOK,
             KeptOK,
                        WindowOK, Pending, Filed, Errors
  <2> QED
    BY <2>1, <2>2, <2>3, <2>4 DEF Next
<1> QED
  BY <1>1, <1>2, PTL DEF Spec

-----------------------------------------------------------------------------
(* What the invariant is for.                                              *)

(* The variables keep their types; a completed session names the directory *)
(* of its save, and no two pending ones share an id.                       *)
THEOREM TypeCorrect == Spec => []TypeOK
<1>1. ConnectorInv => TypeOK
  <2> SUFFICES ASSUME ConnectorInv PROVE TypeOK
    OBVIOUS
  <2>1. /\ StateOK /\ sessions \in Seq(SessionType) /\ library \in Seq(DirType)
        /\ ItemsOK(sessions, library) /\ IdsOK(sessions)
    BY DEF ConnectorInv, ListsOK
  <2>2. ASSUME NEW i \in DOMAIN sessions
        PROVE  /\ sessions[i].id \in Ids \cup {NoId}
               /\ sessions[i].save \in Saves \cup {NoSave}
               /\ sessions[i].atts \subseteq Attachments
    <3>1. sessions[i] \in SessionType
      BY <2>1
    <3> QED
      BY <3>1 DEF SessionType
  <2>3. \A i \in DOMAIN sessions : sessions[i].item # 0 =>
           /\ sessions[i].item \in DOMAIN library
           /\ library[sessions[i].item].save = sessions[i].save
    BY <2>1 DEF ItemsOK
  <2>4. \A i, j \in Pending(sessions) : sessions[i].id = sessions[j].id => i = j
    BY <2>1 DEF IdsOK
  <2>5. \A i, j \in Completed(sessions) : sessions[i].item = sessions[j].item => i = j
    BY <2>1 DEF ItemsOK, Completed, Pending
  <2> QED
    BY <2>1, <2>2, <2>3, <2>4, <2>5 DEF TypeOK, StateOK, DirType, Answers
<1> QED
  BY <1>1, ConnectorInvariance, PTL

(* A save that was answered 201 is in the library, and in one directory    *)
(* only unless an import failed on the way (CreatedIsSaved).               *)
THEOREM SavesArrive == Spec => []CreatedIsSaved
<1>1. ConnectorInv => CreatedIsSaved
  <2> SUFFICES ASSUME ConnectorInv, NEW s \in Saves, told[s] = "created"
               PROVE  LET dirs == {k \in DOMAIN library : library[k].save = s}
                      IN dirs # {} /\ (faults = 0 => Cardinality(dirs) = 1)
    BY DEF CreatedIsSaved
  <2> DEFINE dirs == {k \in DOMAIN library : library[k].save = s}
  <2>1. PICK k \in DOMAIN library : library[k].save = s
    BY DEF ConnectorInv, SavedOK
  <2>2. faults = 0 => dirs = {k}
    BY <2>1, NoneAssumption DEF ConnectorInv, OnceOK
  <2>3. Cardinality({k}) = 1
    BY FS_Singleton
  <2> QED
    BY <2>1, <2>2, <2>3
<1> QED
  BY <1>1, ConnectorInvariance, PTL

(* An attachment whose save had a session when it came, under an id of its *)
(* own, goes to no item but the item of the save (RightItem).              *)
THEOREM FilesGoToTheirItem == Spec => []RightItem
<1>1. ConnectorInv => RightItem
  BY DEF ConnectorInv, RightOK, RightItem, Places
<1> QED
  BY <1>1, ConnectorInvariance, PTL

(* An attachment that was answered 201 is in the library or waits for its  *)
(* item, unless a restart lost it (NothingDropped).                        *)
THEOREM FilesAreKept == Spec => []NothingDropped
<1>1. ConnectorInv => NothingDropped
  BY DEF ConnectorInv, KeptOK, NothingDropped, Places
<1> QED
  BY <1>1, ConnectorInvariance, PTL

(* The completed sessions in memory are bounded by MAX_COMPLETED_SESSIONS  *)
(* and the requests answered with an error (WindowBounded).                *)
THEOREM WindowStaysBounded == Spec => []WindowBounded
<1>1. ConnectorInv => WindowBounded
  <2> SUFFICES ASSUME ConnectorInv PROVE WindowBounded
    OBVIOUS
  <2>1. /\ sessions \in Seq(SessionType) /\ ItemsOK(sessions, library)
        /\ WindowOK(sessions, told)
        /\ DOMAIN told = Saves \cup Attachments
    BY DEF ConnectorInv, ListsOK, StateOK
  <2>2. Completed(sessions) \subseteq Filed(sessions)
    BY <2>1 DEF Completed, Pending, Filed, ItemsOK
  <2>3. IsFiniteSet(Filed(sessions)) /\ Cardinality(Filed(sessions)) \in Nat
    BY <2>1, PruneWindow
  <2>4. /\ Cardinality(Completed(sessions)) <= Cardinality(Filed(sessions))
        /\ Cardinality(Completed(sessions)) \in Nat
    BY <2>2, <2>3, FS_Subset, FS_CardinalityType
  <2>5. Cardinality(Errors(told)) \in Nat
    BY <2>1, FS_CardinalityType DEF WindowOK
  <2>6. Cardinality(Filed(sessions)) <= MaxCompleted + Cardinality(Errors(told))
    BY <2>1 DEF WindowOK
  <2>7. Cardinality(Completed(sessions)) <= MaxCompleted + Cardinality(Errors(told))
    BY <2>3, <2>4, <2>5, <2>6, MaxAssumption
  <2> QED
    BY <2>1, <2>7 DEF WindowBounded, Errors
<1> QED
  BY <1>1, ConnectorInvariance, PTL
==============================================================================
