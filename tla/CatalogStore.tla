----------------------------- MODULE CatalogStore -----------------------------
(***************************************************************************)
(* The remote catalog of the s3sync plugin (examples/plugins/s3sync,       *)
(* s3_remote.rs) and the sessions of sync_items_v2 (main.rs) that several  *)
(* clients run against it.  The store has no transactions: every action    *)
(* below is one request, or a run of requests nobody can tell from one.    *)
(*                                                                         *)
(* A client makes commits, numbered by a counter of its own; an event is a *)
(* client and a counter.  A session scans the catalog, delivers the events *)
(* above its cursors, publishes its own commits as a segment, acknowledges *)
(* and, where the history's retention asks for it, compacts: a snapshot    *)
(* replaces the segments that it covers and leaves out what every          *)
(* registered client has acknowledged.  No lease keeps two compactions     *)
(* apart: the one client's requests come between the other's.              *)
(*                                                                         *)
(* One scope is modelled: keys of different scopes never meet.  The engine *)
(* (the rollforward crate) is no part of the repository: what it keeps on  *)
(* the client and puts in a compaction is modelled from the types of the   *)
(* calls it makes here.  No call tells it which generations are taken, so  *)
(* it may number a compaction as it likes.                                 *)
(***************************************************************************)
EXTENDS Naturals, FiniteSets

CONSTANTS
    Clients,
    Maintainers,  \* clients with history_retention_versions > 0
    Keep,         \* generations that a compaction keeps (2 in the code)
    MaxMade,      \* bound on the commits that are made
    MaxSnapshots  \* bound on the generations

ASSUME CatalogAssumption ==
    /\ Maintainers \subseteq Clients
    /\ Keep \in Nat \ {0}
    /\ MaxMade \in Nat /\ MaxSnapshots \in Nat

VARIABLES
    packs,      \* events whose pack and index are stored
    commits,    \* events whose commit object is stored
    registry,   \* clients with a registry entry
    segments,   \* the segments stored
    snapshots,  \* what was put under each generation
    kept,       \* generations still stored
    latest,     \* latest.json, or 0
    acks,       \* the events each client has acknowledged
    made,       \* commits each client has made
    sent,       \* those it has recorded as published
    cursor,     \* how far it has read each client
    got,        \* the events delivered to it
    pc,         \* where its session is
    scan,       \* what its scan has found so far
    batch,      \* the commits it publishes
    plan,       \* the compaction it carries out
    retired,    \* events that a visible snapshot left out (history)
    disturbed   \* a compaction came across another, or across a scan (history)

store == <<packs, commits, registry, segments, snapshots, kept, latest, acks, retired,
           disturbed>>
client == <<made, sent, cursor, got>>
session == <<scan, batch, plan>>
vars == <<store, client, pc, session>>

Counters == 1..MaxMade
Events == Clients \X Counters
Cursors == [Clients -> 0..MaxMade]
Snapshots == [covered : Cursors, events : SUBSET Events]
Segments == [client : Clients, first : Counters, last : Counters]
Steps == {"idle", "snapshot", "list", "load", "deliver", "publish",
          "commits", "segment", "acknowledge", "maintain", "compact",
          "publish snapshot", "delete", "prune", "unpack"}

Larger(m, n) == IF m > n THEN m ELSE n
NoCursor == [c \in Clients |-> 0]
NoSnapshot == [covered |-> NoCursor, events |-> {}]
NoScan == [gen |-> 0, snapshot |-> NoSnapshot, clients |-> {}, found |-> {},
           overtaken |-> FALSE]
NoPlan == [base |-> 0, gen |-> 0, snapshot |-> NoSnapshot, obsolete |-> {}]

Init ==
    /\ packs = {} /\ commits = {} /\ registry = {} /\ segments = {}
    /\ snapshots = [g \in 1..MaxSnapshots |-> NoSnapshot] /\ kept = {} /\ latest = 0
    /\ retired = {} /\ disturbed = FALSE
    /\ acks = [c \in Clients |-> {}] /\ got = [c \in Clients |-> {}]
    /\ made = NoCursor /\ sent = NoCursor
    /\ cursor = [c \in Clients |-> NoCursor]
    /\ pc = [c \in Clients |-> "idle"]
    /\ scan = [c \in Clients |-> NoScan]
    /\ batch = [c \in Clients |-> {}]
    /\ plan = [c \in Clients |-> NoPlan]

Goto(c, step) == pc' = [pc EXCEPT ![c] = step]

\* An error ends the session; what it had scanned or planned goes with it.
Stop(c) ==
    /\ Goto(c, "idle")
    /\ scan' = [scan EXCEPT ![c] = NoScan]
    /\ batch' = [batch EXCEPT ![c] = {}]
    /\ plan' = [plan EXCEPT ![c] = NoPlan]

\* What latest.json leads to; 0 is no snapshot at all.
Snapshot(gen) == IF gen = 0 THEN NoSnapshot ELSE snapshots[gen]

EventsOf(s) == {s.client} \X (s.first .. s.last)

\* Mutant of Found: snapshot events are compared with the cursors it just raised.
FoundAboveCovered(from, snapshot, segs) ==
    {e \in snapshot.events \cup UNION {EventsOf(s) : s \in segs} :
        e[2] > Larger(from[e[1]], snapshot.covered[e[1]])}

\* The events that a scan from these cursors makes of a snapshot and segments.
Found(from, snapshot, segs) ==
    {e \in snapshot.events : e[2] > from[e[1]]}
    \cup {e \in UNION {EventsOf(s) : s \in segs} :
             e[2] > Larger(from[e[1]], snapshot.covered[e[1]])}

\* The cursors after it: raised to the snapshot's, then to the last of each segment.
Raised(from, snapshot, segs) ==
    [d \in Clients |->
        LET reached == {from[d], snapshot.covered[d]}
                       \cup {s.last : s \in {t \in segs : t.client = d}}
        IN CHOOSE n \in reached : \A m \in reached : m <= n]

(***************************************************************************)
(* A session.  The engine's store admits one process, so one per client.   *)
(***************************************************************************)
\* The scopes and the registry are listed (they only grow, and a client that registers
\* later waits for the next scan), then latest.json names the generation, if any.
Begin(c) ==
    /\ pc[c] = "idle"
    /\ scan' = [scan EXCEPT ![c] = [NoScan EXCEPT !.gen = latest, !.clients = registry]]
    /\ Goto(c, IF latest = 0 THEN "list" ELSE "snapshot")
    /\ UNCHANGED <<store, client, batch, plan>>

\* A generation that was pruned meanwhile fails the scan.
ReadSnapshot(c) ==
    /\ pc[c] = "snapshot"
    /\ \/ /\ scan[c].gen \in kept
          /\ scan' = [scan EXCEPT ![c].snapshot = snapshots[scan[c].gen]]
          /\ Goto(c, "list")
          /\ UNCHANGED <<batch, plan>>
       \/ scan[c].gen \notin kept /\ Stop(c)
    /\ UNCHANGED <<store, client>>

\* The listings of the registered clients' segments, of what is beyond cursor and
\* snapshot.  Each is a request; one instant for all leaves each client's the same.
List(c) ==
    LET covered == scan[c].snapshot.covered
    IN
    /\ pc[c] = "list"
    /\ scan' = [scan EXCEPT
          ![c].found = {s \in segments :
              /\ s.client \in scan[c].clients
              /\ s.last > Larger(cursor[c][s.client], covered[s.client])},
          ![c].overtaken = scan[c].gen # latest]
    /\ Goto(c, "load")
    /\ UNCHANGED <<store, client, batch, plan>>

\* All candidates are fetched; one that was deleted after the listing fails the scan.
Load(c) ==
    /\ pc[c] = "load"
    /\ \/ scan[c].found \subseteq segments /\ Goto(c, "deliver") /\ UNCHANGED session
       \/ ~ scan[c].found \subseteq segments /\ Stop(c)
    /\ UNCHANGED <<store, client>>

\* The commits and chunks of the events are read, and only then the cursors kept.
Deliver(c) ==
    LET events == Found(cursor[c], scan[c].snapshot, scan[c].found)
    IN
    /\ pc[c] = "deliver"
    /\ \/ /\ events \subseteq commits \cap packs
          /\ got' = [got EXCEPT ![c] = @ \cup events]
          /\ cursor' = [cursor EXCEPT ![c] = Raised(@, scan[c].snapshot, scan[c].found)]
          /\ Goto(c, "publish")
          /\ plan' = [plan EXCEPT ![c].base = scan[c].gen]
          /\ disturbed' = (disturbed \/ scan[c].overtaken)
          /\ scan' = [scan EXCEPT ![c] = NoScan]
          /\ UNCHANGED batch
       \/ /\ ~ events \subseteq commits \cap packs
          /\ Stop(c)
          /\ UNCHANGED <<cursor, got, disturbed>>
    /\ UNCHANGED <<packs, commits, registry, segments, snapshots, kept, latest, acks,
                   retired, made, sent>>

Unsent(c) == {e \in Events : e[1] = c /\ sent[c] < e[2] /\ e[2] <= made'[c]}

\* The engine commits what changed locally since, and numbers it in its own store, so
\* that a batch that failed comes again, maybe longer.  Packs and indexes go up
\* together; the session goes on only when all of them have.
PutPacks(c) ==
    /\ pc[c] = "publish"
    /\ \E n \in made[c]..MaxMade : made' = [made EXCEPT ![c] = n]
    /\ Cardinality({e \in Events : e[2] <= made'[e[1]]}) <= MaxMade
    /\ packs' = packs \cup Unsent(c)
    /\ batch' = [batch EXCEPT ![c] = Unsent(c)]
    /\ Goto(c, IF Unsent(c) = {} THEN "acknowledge" ELSE "commits")
    /\ UNCHANGED <<commits, registry, segments, snapshots, kept, latest, acks, retired,
                   disturbed, sent, cursor, got, scan, plan>>

\* The commits, then the entry by which a scan finds the client (and the scope).
PutCommits(c) ==
    /\ pc[c] = "commits"
    /\ commits' = commits \cup batch[c]
    /\ registry' = registry \cup {c}
    /\ Goto(c, "segment")
    /\ UNCHANGED <<packs, segments, snapshots, kept, latest, acks, retired, disturbed,
                   client, session>>

\* The segment makes the commits visible; put again by a retry it is the same object.
PutSegment(c) ==
    LET counters == {e[2] : e \in batch[c]}
        segment == [client |-> c,
                    first  |-> CHOOSE n \in counters : \A m \in counters : n <= m,
                    last   |-> CHOOSE n \in counters : \A m \in counters : m <= n]
    IN
    /\ pc[c] = "segment"
    /\ segments' = segments \cup {segment}
    /\ got' = [got EXCEPT ![c] = @ \cup batch[c]]
    /\ Goto(c, "acknowledge")
    /\ UNCHANGED <<packs, commits, registry, snapshots, kept, latest, acks, retired,
                   disturbed, made, sent, cursor, session>>

\* Mutant of Acknowledge: it acknowledges what is stored, delivered or not.
AcknowledgeStored(c) ==
    /\ pc[c] = "acknowledge"
    /\ sent' = [sent EXCEPT ![c] = @ + Cardinality(batch[c])]
    /\ acks' = [acks EXCEPT ![c] = commits]
    /\ batch' = [batch EXCEPT ![c] = {}]
    /\ Goto(c, IF c \in Maintainers THEN "maintain" ELSE "idle")
    /\ UNCHANGED <<packs, commits, registry, segments, snapshots, kept, latest, retired,
                   disturbed, made, cursor, got, scan, plan>>

\* The engine records what it published and acknowledges what it has.
Acknowledge(c) ==
    /\ pc[c] = "acknowledge"
    /\ sent' = [sent EXCEPT ![c] = @ + Cardinality(batch[c])]
    /\ acks' = [acks EXCEPT ![c] = got[c]]
    /\ batch' = [batch EXCEPT ![c] = {}]
    /\ Goto(c, IF c \in Maintainers THEN "maintain" ELSE "idle")
    /\ UNCHANGED <<packs, commits, registry, segments, snapshots, kept, latest, retired,
                   disturbed, made, cursor, got, scan, plan>>

(***************************************************************************)
(* Maintenance.                                                            *)
(***************************************************************************)
AcknowledgedByAll == {e \in Events : \A d \in registry : e \in acks[d]}

\* The engine plans a snapshot up to its cursors, or finds nothing to do.  What
\* everyone has may be left out, as versions beyond the retention are.
Plan(c) ==
    LET covered == {e \in got[c] \ retired : e[2] <= cursor[c][e[1]]}
    IN
    /\ pc[c] = "maintain"
    /\ \/ \E obsolete \in {{}, AcknowledgedByAll \cap covered} :
            /\ plan' = [plan EXCEPT
                   ![c].snapshot = [covered |-> cursor[c],
                                    events  |-> covered \ obsolete],
                   ![c].obsolete = obsolete]
            /\ Goto(c, "compact")
            /\ UNCHANGED <<disturbed, scan, batch>>
       \/ Stop(c)
    /\ UNCHANGED <<store, client>>

\* What an undisturbed compaction never meets: a generation as high as its own; a
\* snapshot published since its scan; another compaction under way.
Disturbs(c, g) ==
    \/ \E h \in kept : h >= g
    \/ latest # plan[c].base
    \/ \E d \in Clients \ {c} : pc[d] \in {"publish snapshot", "delete", "prune"}

\* Where the generation is there already, that is a success too, and its contents stay.
PutCreate(g, snapshot) ==
    /\ snapshots' = IF g \in kept THEN snapshots ELSE [snapshots EXCEPT ![g] = snapshot]
    /\ kept' = kept \cup {g}

\* The generation is the engine's choice.
PutSnapshot(c) ==
    /\ pc[c] = "compact"
    /\ \E g \in 1..MaxSnapshots :
          /\ PutCreate(g, plan[c].snapshot)
          /\ plan' = [plan EXCEPT ![c].gen = g]
          /\ disturbed' = (disturbed \/ Disturbs(c, g))
    /\ Goto(c, "publish snapshot")
    /\ UNCHANGED <<packs, commits, registry, segments, latest, acks, retired, client,
                   scan, batch>>

\* Segments that end within the snapshot.
Covered(c) == {s \in segments : s.last <= plan[c].snapshot.covered[s.client]}

\* Mutant of PutLatest: the covered segments go first, latest.json comes last.
PutLatestLast(c) ==
    /\ pc[c] = "publish snapshot"
    /\ IF Covered(c) # {}
       THEN /\ segments' = segments \ Covered(c)
            /\ UNCHANGED <<latest, retired, pc>>
       ELSE /\ latest' = plan[c].gen
            /\ retired' = retired \cup plan[c].obsolete
            /\ Goto(c, "delete")
            /\ UNCHANGED segments
    /\ UNCHANGED <<packs, commits, registry, snapshots, kept, acks, disturbed, client,
                   session>>

\* From here on readers find the snapshot.
PutLatest(c) ==
    /\ pc[c] = "publish snapshot"
    /\ latest' = plan[c].gen
    /\ retired' = retired \cup plan[c].obsolete
    /\ Goto(c, "delete")
    /\ UNCHANGED <<packs, commits, registry, segments, snapshots, kept, acks, disturbed,
                   client, session>>

\* The covered segments are deleted, one request each.
DeleteSegment(c) ==
    /\ pc[c] = "delete"
    /\ \E s \in Covered(c) : segments' = segments \ {s}
    /\ UNCHANGED <<packs, commits, registry, snapshots, kept, latest, acks, retired,
                   disturbed, client, pc, session>>

\* The commits that no version needs go when the segments are gone.
DeleteCommits(c) ==
    /\ pc[c] = "delete"
    /\ Covered(c) = {}
    /\ commits' = commits \ plan[c].obsolete
    /\ Goto(c, "prune")
    /\ UNCHANGED <<packs, registry, segments, snapshots, kept, latest, acks, retired,
                   disturbed, client, session>>

\* The newest generations stay.
Prune(c) ==
    /\ pc[c] = "prune"
    /\ kept' = {g \in kept : Cardinality({h \in kept : h > g}) < Keep}
    /\ Goto(c, "unpack")
    /\ UNCHANGED <<packs, commits, registry, segments, snapshots, latest, acks, retired,
                   disturbed, client, session>>

\* Packs that no commit needs any more are deleted, as far as that succeeds.
DeletePacks(c) ==
    /\ pc[c] = "unpack"
    /\ packs' = packs \ plan[c].obsolete
    /\ Stop(c)
    /\ UNCHANGED <<commits, registry, segments, snapshots, kept, latest, acks, retired,
                   disturbed, client>>

\* A request fails, or the process is killed: between any two steps.
Abort(c) ==
    /\ pc[c] # "idle"
    /\ Stop(c)
    /\ UNCHANGED <<store, client>>

Scan(c) == Begin(c) \/ ReadSnapshot(c) \/ List(c) \/ Load(c) \/ Deliver(c)
Publish(c) ==
    PutPacks(c) \/ PutCommits(c) \/ PutSegment(c) \/ Acknowledge(c)
Maintain(c) ==
    \/ Plan(c) \/ PutSnapshot(c) \/ PutLatest(c) \/ DeleteSegment(c)
    \/ DeleteCommits(c) \/ Prune(c) \/ DeletePacks(c)

Next == \E c \in Clients : Scan(c) \/ Publish(c) \/ Maintain(c) \/ Abort(c)

Spec == Init /\ [][Next]_vars

-----------------------------------------------------------------------------

(* What the store and the clients hold is of its type. *)
TypeOK ==
    /\ packs \subseteq Events /\ commits \subseteq Events /\ retired \subseteq Events
    /\ registry \subseteq Clients /\ segments \subseteq Segments
    /\ snapshots \in [1..MaxSnapshots -> Snapshots]
    /\ kept \subseteq 1..MaxSnapshots /\ latest \in 0..MaxSnapshots
    /\ disturbed \in BOOLEAN
    /\ acks \in [Clients -> SUBSET Events] /\ got \in [Clients -> SUBSET Events]
    /\ made \in Cursors /\ cursor \in [Clients -> Cursors]
    /\ \A c \in Clients : sent[c] \in 0..made[c] /\ acks[c] \subseteq got[c]
    /\ pc \in [Clients -> Steps]
    /\ \A c \in Clients :
          /\ scan[c].gen \in 0..MaxSnapshots /\ scan[c].snapshot \in Snapshots
          /\ scan[c].clients \subseteq registry /\ scan[c].found \subseteq Segments
          /\ scan[c].overtaken \in BOOLEAN /\ batch[c] \subseteq Events
          /\ plan[c].base \in 0..MaxSnapshots /\ plan[c].gen \in 0..MaxSnapshots
          /\ plan[c].snapshot \in Snapshots /\ plan[c].obsolete \subseteq got[c]

\* What a client without cursors would be given now.
Visible == Found(NoCursor, Snapshot(latest), segments)

\* What any client was ever given, or has published.
Published == UNION {{e \in got[c] : e[1] = c} : c \in Clients}

(***************************************************************************)
(* While compactions keep clear of each other and of the scans that have   *)
(* not listed yet, the catalog loses nothing, whatever step of a session   *)
(* is its last and whoever compacts next: the snapshot that readers are    *)
(* sent to exists; a published commit is found by a new client, until      *)
(* every registered client has acknowledged it and a visible snapshot      *)
(* leaves it out; and what is found can be read, for its commit and its    *)
(* pack are stored.  About: the order of requests in commit_batch and      *)
(* compact_catalog ("Covered segments and commits are deleted only after   *)
(* readers can discover the snapshot"), with retries that publish again    *)
(* what is stored already and sessions that died in the middle of a        *)
(* compaction, by any number of clients that compact.                      *)
(***************************************************************************)
CatalogIntact ==
    \/ disturbed
    \/ /\ latest # 0 => latest \in kept
       /\ Published \ retired \subseteq Visible
       /\ Visible \subseteq commits \cap packs

(***************************************************************************)
(* Nor does a scan skip anything: the cursors move past no published       *)
(* commit without the client being given it, whatever is compacted from    *)
(* its listing on.  About: the three comparisons of counters in            *)
(* scan_catalog (of the snapshot, the listing, the segment) while segments *)
(* are added, deleted and put again by every client.                       *)
(***************************************************************************)
ScansComplete ==
    [][\A c \in Clients :
          pc[c] = "deliver" /\ cursor'[c] # cursor[c] /\ ~ disturbed'
              => {e \in Published \ retired :
                     cursor[c][e[1]] < e[2] /\ e[2] <= cursor'[c][e[1]]}
                     \subseteq got'[c]]_vars

(***************************************************************************)
(* What the comment of compact_catalog promises of the deletions, "only    *)
(* after readers can discover the snapshot": a client that was not given a *)
(* published commit finds it with its next scan, until a visible snapshot  *)
(* leaves it out.                                                          *)
(***************************************************************************)
ReadersFind ==
    \A c \in Clients :
        (Published \ retired) \ got[c]
            \subseteq Found(cursor[c], Snapshot(latest), segments)

=============================================================================
