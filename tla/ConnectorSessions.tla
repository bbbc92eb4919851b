-------------------------- MODULE ConnectorSessions --------------------------
(***************************************************************************)
(* The save sessions of the Zotero connector (crates/csc,                  *)
(* DaemonConnectorSink).  The browser sends the item of a page with        *)
(* saveItems and its files one by one with saveAttachment; the sink keeps  *)
(* a list of sessions in memory that routes each file to the item of its   *)
(* save.  Both requests hold the mutex of the list throughout, imports     *)
(* included, so each is one step here; what is hard is the order in which  *)
(* requests come, imports that fail half way, and what the list has        *)
(* forgotten.                                                              *)
(*                                                                         *)
(* An import that fails leaves the library alone or leaves the whole item  *)
(* (its last steps record the junctions and rebuild the index); the        *)
(* half-written directory without metadata.toml in between is abstracted.  *)
(* A save stands for its first item: try_import_locked imports no other.   *)
(***************************************************************************)
EXTENDS Naturals, Sequences, FiniteSets

CONSTANTS
    Saves,          \* saveItems requests, each at most once
    NoSave,         \* no item received
    Attachments,    \* saveAttachment requests, each at most once
    Ids,            \* session ids the browser made up
    NoId,           \* a request without one
    Unimportable,   \* saves whose import always fails: no id, a title that is
                    \* no file name
    MaxCompleted,   \* MAX_COMPLETED_SESSIONS, 16 in the code
    MaxFaults       \* bound on imports that fail by chance and on restarts

ASSUME UnimportableAssumption == Unimportable \subseteq Saves
ASSUME MaxAssumption == MaxCompleted \in Nat \ {0} /\ MaxFaults \in Nat
ASSUME NoneAssumption == NoSave \notin Saves /\ NoId \notin Ids
ASSUME RequestsAssumption == Saves \cap Attachments = {}

VARIABLES
    sessions,   \* the list: [id, save, atts, item], item the index of its
                \* directory in library, 0 until it is imported
    library,    \* item directories: [save, atts]
    idOf,       \* the session id of each save
    told,       \* the answer to each request
    belongs,    \* the attachments that arrived: [save, id]
    faults,     \* imports that failed by chance, and restarts
    awaited,    \* history: attachments whose save had a session when they came
    forgotten   \* history: attachments a restart lost

vars == <<sessions, library, idOf, told, belongs, faults, awaited, forgotten>>

Pending(ss) == {i \in DOMAIN ss : ss[i].item = 0}
Completed(ss) == DOMAIN ss \ Pending(ss)
Session(id, s, atts) == [id |-> id, save |-> s, atts |-> atts, item |-> 0]

\* The sessions of ss at the places K, in order: i is the Rank(K, i)-th of K.
Rank(K, i) == Cardinality({j \in K : j <= i})
At(ss, K) == [k \in 1..Cardinality(K) |-> ss[CHOOSE i \in K : Rank(K, i) = k]]

First(K) == CHOOSE i \in K : \A j \in K : i <= j

Init ==
    /\ sessions = <<>> /\ library = <<>>
    /\ idOf \in [Saves -> Ids \cup {NoId}]
    /\ told = [r \in Saves \cup Attachments |-> "nothing"]
    /\ belongs = [a \in Attachments |-> [save |-> NoSave, id |-> NoId]]
    /\ faults = 0
    /\ awaited = {} /\ forgotten = {}

-----------------------------------------------------------------------------
(* The import of the pending sessions *)

Importable(ss) == {i \in Pending(ss) : ss[i].save # NoSave}

\* try_import_locked goes through the list until an import fails: the places
\* where it can stop, Len(ss) + 1 when all succeed.
Stops(ss) ==
    LET bad == {i \in Importable(ss) : ss[i].save \in Unimportable}
        chance == IF faults < MaxFaults THEN Importable(ss) ELSE {}
        reach(i) == \A j \in bad : i <= j
    IN {i \in bad \cup chance \cup {Len(ss) + 1} : reach(i)}

\* Mutant of Failed: the error is logged and the request goes on to its 201.
FailedUnnoticed(ss, stop) == FALSE

Failed(ss, stop) == stop <= Len(ss)

Before(ss, stop) == {i \in Importable(ss) : i < stop}

\* The list when the imports before stop have succeeded.
Imported(ss, stop) ==
    [i \in DOMAIN ss |->
        IF i \in Before(ss, stop)
          THEN [ss[i] EXCEPT !.item = Len(library) + Rank(Before(ss, stop), i)]
          ELSE ss[i]]

\* The item directories they make, and whether the one that failed made its own.
Written(ss, K) == LET done == At(ss, K)
                  IN [k \in DOMAIN done |-> [save |-> done[k].save, atts |-> done[k].atts]]

ImportFrom(ss, stop) ==
    IF Failed(ss, stop) /\ ss[stop].save \notin Unimportable
    THEN /\ faults' = faults + 1
         /\ library' \in {library \o Written(ss, Before(ss, stop)),
                          library \o Written(ss, Before(ss, stop) \cup {stop})}
    ELSE /\ library' = library \o Written(ss, Before(ss, stop))
         /\ UNCHANGED faults

\* Mutant of Prune: the oldest sessions go, completed or not.
PruneOldest(ss) ==
    IF Len(ss) <= MaxCompleted THEN ss
    ELSE SubSeq(ss, Len(ss) - MaxCompleted + 1, Len(ss))

\* Mutant of Prune: the comparison is off by one.
PruneLate(ss) ==
    At(ss, {i \in DOMAIN ss : i \in Completed(ss) =>
              Cardinality({j \in Completed(ss) : j >= i}) <= MaxCompleted + 1})

\* prune_completed_sessions keeps the last MaxCompleted completed ones.
Prune(ss) ==
    At(ss, {i \in DOMAIN ss : i \in Completed(ss) =>
              Cardinality({j \in Completed(ss) : j >= i}) <= MaxCompleted})

-----------------------------------------------------------------------------
(* Requests *)

\* Mutant of Reused: a completed session with the id is taken too.
ReusedCompleted(id) == {i \in DOMAIN sessions : sessions[i].id = id}

\* The pending sessions that a saveItems with this id continues.
Reused(id) == {i \in Pending(sessions) : sessions[i].id = id}

\* accept_import
AcceptImport(s) ==
    /\ told[s] = "nothing"
    /\ LET same == Reused(idOf[s])
           ss == IF same = {} THEN Append(sessions, Session(idOf[s], s, {}))
                 ELSE [sessions EXCEPT ![First(same)].save = s]
       IN \E stop \in Stops(ss) :
            /\ ImportFrom(ss, stop)
            /\ IF Failed(ss, stop)
               THEN /\ sessions' = Imported(ss, stop)
                    /\ told' = [told EXCEPT ![s] = "error"]
               ELSE /\ sessions' = Prune(Imported(ss, stop))
                    /\ told' = [told EXCEPT ![s] = "created"]
    /\ UNCHANGED <<idOf, belongs, awaited, forgotten>>

\* Mutant of Route: the most recent session, whatever the id.
RouteRecent(id, child) == Len(sessions)

\* The session an attachment goes to: the first with its id, else the most
\* recent for one that has no id or names a parent item; 0 when there is none.
Route(id, child) ==
    LET same == {i \in DOMAIN sessions : sessions[i].id = id}
    IN IF same # {} THEN First(same)
       ELSE IF id = NoId \/ child THEN Len(sessions) ELSE 0

\* An attachment of save s arrives, under an id of its own; it names its parent
\* item or not.
Arrive(a, s, id) ==
    /\ told[a] = "nothing"
    /\ belongs' = [belongs EXCEPT ![a] = [save |-> s, id |-> id]]
    /\ awaited' = IF id = idOf[s] /\ \E i \in DOMAIN sessions : sessions[i].save = s
                    THEN awaited \cup {a} ELSE awaited
    /\ UNCHANGED <<idOf, forgotten>>

Answer(a, ok) == told' = [told EXCEPT ![a] = IF ok THEN "created" ELSE "error"]

\* accept_attachment, the session is imported: save_connector_attachment_to_item,
\* which fails or not.  The prune follows a success only.
SaveLate(a, s, id, child) ==
    /\ Arrive(a, s, id)
    /\ LET r == Route(id, child)
       IN /\ r \in Completed(sessions)
          /\ \/ /\ library' = [library EXCEPT ![sessions[r].item].atts = @ \cup {a}]
                /\ sessions' = Prune(sessions)
                /\ Answer(a, TRUE)
                /\ UNCHANGED faults
             \/ /\ faults < MaxFaults
                /\ faults' = faults + 1
                /\ library' \in {library,
                                 [library EXCEPT ![sessions[r].item].atts = @ \cup {a}]}
                /\ Answer(a, FALSE)
                /\ UNCHANGED sessions

\* ... is not imported: the attachment joins it and the imports are tried.
Buffer(a, s, id, child) ==
    /\ Arrive(a, s, id)
    /\ LET r == Route(id, child)
       IN /\ r \in Pending(sessions)
          /\ LET ss == [sessions EXCEPT ![r].atts = @ \cup {a}]
             IN \E stop \in Stops(ss) :
                  /\ ImportFrom(ss, stop)
                  /\ Answer(a, ~Failed(ss, stop))
                  /\ sessions' = IF Failed(ss, stop) THEN Imported(ss, stop)
                                 ELSE Prune(Imported(ss, stop))

\* ... there is none: a child waits in a session of its own for an item that
\* may come; anything else is imported as an item.
Orphan(a, s, id, child) ==
    /\ Arrive(a, s, id)
    /\ Route(id, child) = 0 /\ child
    /\ sessions' = Append(sessions, Session(id, NoSave, {a}))
    /\ Answer(a, TRUE)
    /\ UNCHANGED <<library, faults>>

Standalone(a, s, id, child) ==
    /\ Arrive(a, s, id)
    /\ Route(id, child) = 0 /\ ~child
    /\ \/ /\ id # NoId                  \* connector_item_id needs an id
          /\ library' = Append(library, [save |-> NoSave, atts |-> {a}])
          /\ Answer(a, TRUE)
          /\ UNCHANGED faults
       \/ /\ id = NoId
          /\ Answer(a, FALSE)
          /\ UNCHANGED <<library, faults>>
       \/ /\ faults < MaxFaults /\ id # NoId
          /\ faults' = faults + 1
          /\ library' \in {library, Append(library, [save |-> NoSave, atts |-> {a}])}
          /\ Answer(a, FALSE)
    /\ UNCHANGED sessions

AcceptAttachment(a, s, id, child) ==
    \/ SaveLate(a, s, id, child) \/ Buffer(a, s, id, child)
    \/ Orphan(a, s, id, child) \/ Standalone(a, s, id, child)

\* The daemon restarts: the sessions are gone, the library is not.
Restart ==
    /\ faults < MaxFaults /\ sessions # <<>>
    /\ faults' = faults + 1
    /\ sessions' = <<>>
    /\ forgotten' = forgotten \cup UNION {sessions[i].atts : i \in Pending(sessions)}
    /\ UNCHANGED <<library, idOf, told, belongs, awaited>>

Next ==
    \/ \E s \in Saves : AcceptImport(s)
    \/ \E a \in Attachments, s \in Saves, id \in Ids \cup {NoId}, child \in BOOLEAN :
          AcceptAttachment(a, s, id, child)
    \/ Restart

Spec == Init /\ [][Next]_vars

-----------------------------------------------------------------------------
(* Properties *)

Places(a) == {k \in DOMAIN library : a \in library[k].atts}

\* No other save came under the id of s.
Unshared(s) == \A t \in Saves \ {s} : idOf[t] # idOf[s]

TypeOK ==
    /\ \A i \in DOMAIN sessions :
          /\ sessions[i].id \in Ids \cup {NoId}
          /\ sessions[i].save \in Saves \cup {NoSave}
          /\ sessions[i].atts \subseteq Attachments
          /\ sessions[i].item # 0 =>
                /\ sessions[i].item \in DOMAIN library
                /\ library[sessions[i].item].save = sessions[i].save
    /\ \A i, j \in Pending(sessions) : sessions[i].id = sessions[j].id => i = j
    /\ \A i, j \in Completed(sessions) : sessions[i].item = sessions[j].item => i = j
    /\ library \in Seq([save : Saves \cup {NoSave}, atts : SUBSET Attachments])
    /\ told \in [Saves \cup Attachments -> {"nothing", "created", "error"}]
    /\ faults \in 0..MaxFaults

(* A save that was answered 201 is in the library, and in one directory    *)
(* only unless an import of it failed on the way.                          *)
CreatedIsSaved ==
    \A s \in Saves : told[s] = "created" =>
        LET dirs == {k \in DOMAIN library : library[k].save = s}
        IN dirs # {} /\ (faults = 0 => Cardinality(dirs) = 1)

(* An attachment that comes under the id of its save, while the sink has a *)
(* session of the save and no other save shares the id, goes to no item    *)
(* but the item of the save.                                               *)
RightItem ==
    \A a \in awaited : Unshared(belongs[a].save) =>
        \A k \in Places(a) : library[k].save = belongs[a].save

(* An attachment that was answered 201 is in the library or waits in a     *)
(* session for its item: pruning and failed imports drop none, only a      *)
(* restart does.                                                           *)
NothingDropped ==
    \A a \in Attachments : told[a] = "created" =>
        \/ Places(a) # {}
        \/ \E i \in Pending(sessions) : a \in sessions[i].atts
        \/ a \in forgotten

(* The completed sessions in memory are bounded by MAX_COMPLETED_SESSIONS  *)
(* and the requests that were answered with an error, which skip the       *)
(* prune.                                                                  *)
WindowBounded ==
    Cardinality(Completed(sessions))
        <= MaxCompleted + Cardinality({r \in DOMAIN told : told[r] = "error"})

(* daemon_sink.rs:51, "Try to import every buffered session that has       *)
(* metadata": a save whose import does not fail is imported by its own     *)
(* request, whatever becomes of the others.                                *)
EverySessionTried ==
    [][faults' = faults =>
          \A s \in Saves \ Unimportable : told[s] = "nothing" => told'[s] # "error"]_vars
=============================================================================
