----------------------------- MODULE QueryIndex -----------------------------
(***************************************************************************)
(* What the query database says (core, storage/mod.rs).                    *)
(*                                                                         *)
(* A rebuild reads All/ directory by directory while others change it, and *)
(* puts what it has read into the two tables of the database, in one       *)
(* transaction of redb, which has one writer at a time.  The fields of     *)
(* plugins that are indexed are a set in memory; a rescan of the plugins   *)
(* replaces it and rebuilds.  Queries read a committed state.              *)
(*                                                                         *)
(* A document is what metadata.toml says; of its texts it matters which    *)
(* search terms they contain.  {} stands for a directory that is absent,   *)
(* or has no metadata.toml, or one that does not parse, and {c} for one    *)
(* with the document c.                                                    *)
(***************************************************************************)
CONSTANTS
    Dirs,        \* names under All/
    Ids,         \* item ids
    Fields,      \* extra fields, namespace.key
    Values,      \* their values
    Categories,  \* category paths
    Terms,       \* search terms
    Contains,    \* which value contains which term
    Rebuilders,       \* threads in a call that rebuilds
    Queries      \* threads in a call that asks

Document == [id : Ids, text : SUBSET Terms, extra : [Fields -> SUBSET Values],
             categories : SUBSET Categories]
Held == {{}} \cup {{c} : c \in Document}

VARIABLES
    disk,    \* what each directory holds
    empty,      \* the empty directories of Cat/
    fields,     \* the fields declared as indexed
    items,      \* the items table: by id, the document or nothing
    extra,      \* the extra_index table: field, value and id
    place,         \* where a call is
    rescan,     \* it is a rescan of the plugins
    unread,     \* directories it has still to look at
    documents,       \* the documents it has read
    table,      \* by id, the last of them
    used,       \* the fields it has found declared
    asked,      \* what a query is in the middle of
    found,      \* the fields or directories it has read
    answer,     \* what it was last told
    window,     \* all that a directory held while it could be read (history)
    basis,      \* the window of the committed rebuild (history)
    indexed,    \* the fields of the committed rebuild (history)
    unsettled   \* a rescan or the daemon has failed since (history)

call == <<place, rescan, unread, documents, table, used, window>>
tables == <<items, extra, basis, indexed>>
query == <<asked, found, answer>>
indexVars == <<disk, empty, fields, call, tables, query, unsettled>>

Reading == {"read", "ready", "write", "commit"}
Nothing == [i \in Ids |-> {}]

QueryType ==
    /\ disk \in [Dirs -> Held] /\ empty \subseteq Categories
    /\ fields \subseteq Fields /\ indexed \subseteq Fields
    /\ items \in [Ids -> Held] /\ extra \subseteq Fields \X Values \X Ids
    /\ place \in [Rebuilders -> {"idle", "list"} \cup Reading]
    /\ rescan \in [Rebuilders -> BOOLEAN]
    /\ unread \in [Rebuilders -> SUBSET Dirs] /\ documents \in [Rebuilders -> SUBSET Document]
    /\ table \in [Rebuilders -> [Ids -> Held]] /\ used \in [Rebuilders -> SUBSET Fields]
    /\ window \in [Rebuilders -> [Dirs -> SUBSET Held]]
    /\ basis \in [Dirs -> SUBSET Held] /\ unsettled \in BOOLEAN
    /\ asked \in [Queries -> {"nothing", "search", "categories"}]
    /\ found \in [Queries -> SUBSET (Fields \cup Categories)]
    /\ \A q \in Queries : asked[q] = "categories" => found[q] \subseteq Categories
    /\ answer \in [Queries -> SUBSET (Ids \cup (Categories \X SUBSET Ids))]

QueryInit ==
    /\ disk \in [Dirs -> Held] /\ empty = {}
    /\ fields = {} /\ indexed = {}
    /\ items = Nothing /\ extra = {}
    /\ place = [p \in Rebuilders |-> "idle"] /\ rescan = [p \in Rebuilders |-> FALSE]
    /\ unread = [p \in Rebuilders |-> {}] /\ documents = [p \in Rebuilders |-> {}]
    /\ table = [p \in Rebuilders |-> Nothing] /\ used = [p \in Rebuilders |-> {}]
    /\ window = [p \in Rebuilders |-> [d \in Dirs |-> {}]]
    /\ basis = [d \in Dirs |-> {{}}] /\ unsettled = FALSE
    /\ asked = [q \in Queries |-> "nothing"] /\ found = [q \in Queries |-> {}]
    /\ answer = [q \in Queries |-> {}]

GoTo(p, step) == place' = [place EXCEPT ![p] = step]

-----------------------------------------------------------------------------
(* Everyone who writes below All/ and Cat/: metadata.toml is renamed into  *)
(* place, so a reader finds the old text or the new one.                   *)

Change(d, held) ==
    /\ disk' = [disk EXCEPT ![d] = held]
    /\ window' = [p \in Rebuilders |->
                     IF place[p] = "read" /\ d \in unread[p]
                     THEN [window[p] EXCEPT ![d] = @ \cup {held}] ELSE window[p]]
    /\ UNCHANGED <<empty, fields, place, rescan, unread, documents, table, used, tables,
                   query, unsettled>>

ChangeCategories(S) ==
    /\ empty' = S
    /\ UNCHANGED <<disk, fields, call, tables, query, unsettled>>

-----------------------------------------------------------------------------
(* rebuild_from_all.                                                       *)

\* Any command that ends with a rebuild.
Rebuild(p) ==
    /\ place[p] = "idle"
    /\ GoTo(p, "list")
    /\ UNCHANGED <<disk, empty, fields, rescan, unread, documents, table, used, window,
                   tables, query, unsettled>>

\* set_indexed_extra_fields: the start of the daemon, and each rescan of plugins.
SetIndexedFields(p, declared) ==
    /\ place[p] = "idle"
    /\ GoTo(p, "list")
    /\ fields' = declared
    /\ rescan' = [rescan EXCEPT ![p] = TRUE]
    /\ UNCHANGED <<disk, empty, unread, documents, table, used, window, tables,
                   query, unsettled>>

\* read_dir: from here on directories come and go under the reader.
List(p) ==
    /\ place[p] = "list"
    /\ GoTo(p, "read")
    /\ unread' = [unread EXCEPT ![p] = Dirs]
    /\ documents' = [documents EXCEPT ![p] = {}]
    /\ table' = [table EXCEPT ![p] = Nothing]
    /\ window' = [window EXCEPT ![p] = [d \in Dirs |-> {disk[d]}]]
    /\ UNCHANGED <<disk, empty, fields, rescan, used, tables, query, unsettled>>

\* Of two documents with one id the one read later stays in the items table.
Insert(t, held) == [i \in Ids |-> IF \E c \in held : c.id = i THEN held ELSE t[i]]

\* A text that does not parse is skipped, like a directory without one.
Read(p, d) ==
    /\ place[p] = "read" /\ d \in unread[p]
    /\ unread' = [unread EXCEPT ![p] = @ \ {d}]
    /\ documents' = [documents EXCEPT ![p] = @ \cup disk[d]]
    /\ table' = [table EXCEPT ![p] = Insert(@, disk[d])]
    /\ UNCHANGED <<disk, empty, fields, place, rescan, used, window, tables,
                   query, unsettled>>

\* A directory that was away at some moment may not be listed.
NotListed(p, d) ==
    /\ place[p] = "read" /\ d \in unread[p] /\ {} \in window[p][d]
    /\ unread' = [unread EXCEPT ![p] = @ \ {d}]
    /\ UNCHANGED <<disk, empty, fields, place, rescan, documents, table, used, window,
                   tables, query, unsettled>>

ReadAll(p) ==
    /\ place[p] = "read" /\ unread[p] = {}
    /\ GoTo(p, "ready")
    /\ UNCHANGED <<disk, empty, fields, rescan, unread, documents, table, used, window,
                   tables, query, unsettled>>

CallEnds(p) ==
    /\ GoTo(p, "idle")
    /\ rescan' = [rescan EXCEPT ![p] = FALSE]

\* A file that is gone since it was tested for, or an error of the database.
Fails(p) ==
    /\ place[p] \notin {"idle", "list"}
    /\ CallEnds(p)
    /\ unsettled' = (unsettled \/ rescan[p])
    /\ UNCHANGED <<disk, empty, fields, unread, documents, table, used, window, tables,
                   query>>

BeginWrite(p) ==
    /\ place[p] = "ready" /\ \A o \in Rebuilders : place[o] \notin {"write", "commit"}
    /\ GoTo(p, "write")
    /\ UNCHANGED <<disk, empty, fields, rescan, unread, documents, table, used, window,
                   tables, query, unsettled>>

ReadFields(p) ==
    /\ place[p] = "write"
    /\ GoTo(p, "commit")
    /\ used' = [used EXCEPT ![p] = fields]
    /\ UNCHANGED <<disk, empty, fields, rescan, unread, documents, table, window, tables,
                   query, unsettled>>

\* build_extra_index: made of all documents read, two of one id included.
ExtraIndex(read, declared) ==
    {e \in Fields \X Values \X Ids :
        e[1] \in declared /\ \E c \in read : c.id = e[3] /\ e[2] \in c.extra[e[1]]}

CommitTables(p) ==
    /\ place[p] = "commit"
    /\ CallEnds(p)
    /\ items' = table[p]
    /\ extra' = ExtraIndex(documents[p], used[p])
    /\ basis' = window[p] /\ indexed' = used[p]
    /\ unsettled' = (unsettled /\ used[p] # fields)
    /\ UNCHANGED <<disk, empty, fields, unread, documents, table, used, window, query>>

\* The daemon ends and is started again; it declares its fields anew.
Restart ==
    /\ fields' = {} /\ unsettled' = TRUE
    /\ place' = [p \in Rebuilders |-> "idle"] /\ rescan' = [p \in Rebuilders |-> FALSE]
    /\ asked' = [q \in Queries |-> "nothing"] /\ found' = [q \in Queries |-> {}]
    /\ answer' = [q \in Queries |-> {}]
    /\ UNCHANGED <<disk, empty, unread, documents, table, used, window, tables>>

-----------------------------------------------------------------------------
(* Queries of two reads.  list_items and get_item are one: the table.      *)

item_matches(c, term) == term \in c.text

indexed_extra_matches(c, term, declared) ==
    \E f \in declared : \E v \in c.extra[f] : <<v, term>> \in Contains

Hits(term, declared) ==
    {i \in Ids : \E c \in items[i] :
        item_matches(c, term) \/ indexed_extra_matches(c, term, declared)}

\* The categories of the items, and the empty directories of Cat/.
Summaries(directories) ==
    {<<category, {i \in Ids : \E c \in items[i] : category \in c.categories}>> :
        category \in directories \cup
            {d \in Categories : \E i \in Ids : \E c \in items[i] : d \in c.categories}}

Ask(q, what) ==
    /\ asked[q] = "nothing"
    /\ asked' = [asked EXCEPT ![q] = what]
    /\ found' = [found EXCEPT ![q] = IF what = "search" THEN fields ELSE empty]
    /\ UNCHANGED <<disk, empty, fields, call, tables, answer, unsettled>>

Tell(q, told) ==
    /\ asked' = [asked EXCEPT ![q] = "nothing"]
    /\ found' = [found EXCEPT ![q] = {}]
    /\ answer' = [answer EXCEPT ![q] = told]
    /\ UNCHANGED <<disk, empty, fields, call, tables, unsettled>>

AnswerQuery(q) ==
    \/ asked[q] = "search" /\ \E term \in Terms : Tell(q, Hits(term, found[q]))
    \/ asked[q] = "categories" /\ Tell(q, Summaries(found[q]))

-----------------------------------------------------------------------------
RebuildStep(p) ==
    \/ Rebuild(p) \/ List(p) \/ ReadAll(p) \/ Fails(p)
    \/ \E declared \in SUBSET Fields : SetIndexedFields(p, declared)
    \/ \E d \in Dirs : Read(p, d) \/ NotListed(p, d)
    \/ BeginWrite(p) \/ ReadFields(p) \/ CommitTables(p)

QueryNext ==
    \/ \E d \in Dirs, held \in Held : Change(d, held)
    \/ \E S \in SUBSET Categories : ChangeCategories(S)
    \/ \E p \in Rebuilders : RebuildStep(p)
    \/ \E q \in Queries : AnswerQuery(q) \/ \E what \in {"search", "categories"} : Ask(q, what)
    \/ Restart

QuerySpec == QueryInit /\ [][QueryNext]_indexVars

-----------------------------------------------------------------------------
(* What an item is shown as is what some directory said while the rebuild  *)
(* was reading, under that item's id.                                      *)
NothingMadeUp ==
    \A i \in Ids : \A c \in items[i] : c.id = i /\ \E d \in Dirs : {c} \in basis[d]

(* A document nobody touched during the reading is shown, unless another   *)
(* directory had one of the same id.                                       *)
SteadyShown ==
    \A d \in Dirs : \A c \in Document :
        basis[d] = {{c}} =>
            \/ items[c.id] = {c}
            \/ \E e \in Dirs \ {d} : \E k \in Document : k.id = c.id /\ {k} \in basis[e]

(* The two tables agree: the extra index has every indexed value of every  *)
(* item, and nothing that no directory said.                               *)
ValuesIndexed ==
    \A i \in Ids : \A c \in items[i] : \A f \in indexed : \A v \in c.extra[f] :
        <<f, v, i>> \in extra

IndexedSaid ==
    \A e \in extra :
        e[1] \in indexed /\ \E d \in Dirs : \E c \in Document :
            {c} \in basis[d] /\ c.id = e[3] /\ e[2] \in c.extra[e[1]]

TablesAgree == ValuesIndexed /\ IndexedSaid

(* The extra index is of the fields declared now, or a rescan is still to  *)
(* rebuild it: no rebuild with older fields comes last.                    *)
FieldsIndexed == indexed = fields \/ unsettled \/ \E p \in Rebuilders : rescan[p]
=============================================================================
