----------------------------- MODULE IndexProofs ------------------------------
(***************************************************************************)
(* Proofs about the query index: what a rebuild puts into it (QueryIndex), *)
(* and the commands that rebuild it while others are inside (TaskQueue),   *)
(* for any number of calls.                                                *)
(***************************************************************************)
EXTENDS TaskQueue, QueryIndex, TLAPS

-----------------------------------------------------------------------------
(* The tables: QueryIndex.                                                 *)

(* What a call in a rebuild has read is what its directories held, and all *)
(* that stayed as it was.                                                  *)
Follows(p) ==
    /\ \A d \in unread[p] : disk[d] \in window[p][d]
    /\ \A c \in documents[p] : \E d \in Dirs \ unread[p] : {c} \in window[p][d]
    /\ \A d \in Dirs \ unread[p] : \A c \in Document :
         window[p][d] = {{c}} => c \in documents[p]
    /\ \A i \in Ids : \A c \in table[p][i] : c.id = i /\ c \in documents[p]
    /\ \A c \in documents[p] : table[p][c.id] # {}
    /\ place[p] # "read" => unread[p] = {}

ReadInv == \A p \in Rebuilders : place[p] \in Reading => Follows(p)

(* One call is in a transaction, and it knows the fields of now, or of an  *)
(* earlier moment while the rescan that changed them has still to rebuild. *)
WriteInv ==
    /\ \A p, o \in Rebuilders :
         place[p] \in {"write", "commit"} /\ place[o] \in {"write", "commit"} => p = o
    /\ \A p \in Rebuilders : place[p] = "commit" =>
         used[p] = fields \/ unsettled \/ \E o \in Rebuilders \ {p} : rescan[o]
    /\ \A p \in Rebuilders : rescan[p] => place[p] # "idle"

(* NothingMadeUp and SteadyShown, with what they follow from. *)
ItemsInv ==
    /\ NothingMadeUp
    /\ \A d \in Dirs : \A c \in Document : basis[d] = {{c}} => items[c.id] # {}

QueryIInv == QueryType /\ ReadInv /\ WriteInv /\ ItemsInv /\ TablesAgree /\ FieldsIndexed

-----------------------------------------------------------------------------
(* Inserting a document replaces only that of the same id. *)
LEMMA InsertTyped ==
    ASSUME NEW t \in [Ids -> Held], NEW held \in Held
    PROVE  Insert(t, held) \in [Ids -> Held]
BY DEF Insert

LEMMA HeldDocument ==
    ASSUME NEW held \in Held, NEW c \in held
    PROVE  c \in Document /\ held = {c} /\ c.id \in Ids
BY DEF Held, Document

LEMMA Initially == ASSUME QueryInit PROVE QueryIInv
<1>1. QueryType
  BY DEF QueryInit, QueryType, Held, Nothing, Reading
<1>2. ReadInv /\ WriteInv
  BY DEF QueryInit, ReadInv, WriteInv, Reading
<1>3. ItemsInv
  BY DEF QueryInit, ItemsInv, NothingMadeUp, Nothing
<1>4. TablesAgree /\ FieldsIndexed
  BY DEF QueryInit, TablesAgree, ValuesIndexed, IndexedSaid, FieldsIndexed, Nothing
<1> QED
  BY <1>1, <1>2, <1>3, <1>4 DEF QueryIInv

LEMMA QueryTypeStep == ASSUME QueryType, [QueryNext]_indexVars PROVE QueryType'
<1>1. ASSUME NEW d \in Dirs, NEW held \in Held, Change(d, held) PROVE QueryType'
  <2>1. window' \in [Rebuilders -> [Dirs -> SUBSET Held]]
    BY <1>1 DEF Change, QueryType
  <2> QED
    BY <1>1, <2>1 DEF Change, QueryType, tables, query
<1>2. ASSUME NEW S \in SUBSET Categories, ChangeCategories(S) PROVE QueryType'
  BY <1>2 DEF ChangeCategories, QueryType, call, tables, query
<1>3. ASSUME NEW p \in Rebuilders, Rebuild(p) PROVE QueryType'
  BY <1>3 DEF Rebuild, GoTo, QueryType, tables, query
<1>4. ASSUME NEW p \in Rebuilders, NEW F \in SUBSET Fields, SetIndexedFields(p, F) PROVE QueryType'
  BY <1>4 DEF SetIndexedFields, GoTo, QueryType, tables, query
<1>5. ASSUME NEW p \in Rebuilders, List(p) PROVE QueryType'
  <2>1. Nothing \in [Ids -> Held]
    BY DEF Nothing, Held
  <2>2. [d \in Dirs |-> {disk[d]}] \in [Dirs -> SUBSET Held]
    BY DEF QueryType
  <2> QED
    BY <1>5, <2>1, <2>2 DEF List, GoTo, QueryType, tables, query, Reading
<1>6. ASSUME NEW p \in Rebuilders, NEW d \in Dirs, Read(p, d) PROVE QueryType'
  <2>1. disk[d] \in Held /\ disk[d] \subseteq Document
    <3>1. disk[d] \in Held
      BY DEF QueryType
    <3> QED
      BY <3>1, HeldDocument
  <2>2. table' \in [Rebuilders -> [Ids -> Held]]
    BY <1>6, <2>1, InsertTyped DEF Read, QueryType
  <2> QED
    BY <1>6, <2>1, <2>2 DEF Read, QueryType, tables, query
<1>7. ASSUME NEW p \in Rebuilders, NEW d \in Dirs, NotListed(p, d) PROVE QueryType'
  BY <1>7 DEF NotListed, QueryType, tables, query
<1>8. ASSUME NEW p \in Rebuilders, ReadAll(p) PROVE QueryType'
  BY <1>8 DEF ReadAll, GoTo, QueryType, tables, query, Reading
<1>9. ASSUME NEW p \in Rebuilders, Fails(p) PROVE QueryType'
  <2>1. unsettled' \in BOOLEAN
    BY <1>9 DEF Fails
  <2> QED
    BY <1>9, <2>1 DEF Fails, CallEnds, GoTo, QueryType, tables, query
<1>10. ASSUME NEW p \in Rebuilders, BeginWrite(p) PROVE QueryType'
  BY <1>10 DEF BeginWrite, GoTo, QueryType, tables, query, Reading
<1>11. ASSUME NEW p \in Rebuilders, ReadFields(p) PROVE QueryType'
  BY <1>11 DEF ReadFields, GoTo, QueryType, tables, query, Reading
<1>12. ASSUME NEW p \in Rebuilders, CommitTables(p) PROVE QueryType'
  <2>1. unsettled' \in BOOLEAN
    BY <1>12 DEF CommitTables
  <2>2. extra' \subseteq Fields \X Values \X Ids
    BY <1>12 DEF CommitTables, ExtraIndex
  <2> QED
    BY <1>12, <2>1, <2>2 DEF CommitTables, CallEnds, GoTo, QueryType, query
<1>13. ASSUME NEW q \in Queries, AnswerQuery(q) PROVE QueryType'
  <2>1. CASE \E term \in Terms : Tell(q, Hits(term, found[q]))
    <3>1. \A term \in Terms : Hits(term, found[q]) \in SUBSET (Ids \cup (Categories \X SUBSET Ids))
      BY DEF Hits
    <3> QED
      BY <2>1, <3>1 DEF Tell, QueryType, call, tables
  <2>2. CASE asked[q] = "categories" /\ Tell(q, Summaries(found[q]))
    <3>1. Summaries(found[q]) \in SUBSET (Ids \cup (Categories \X SUBSET Ids))
      BY <2>2 DEF Summaries, QueryType
    <3> QED
      BY <2>2, <3>1 DEF Tell, QueryType, call, tables
  <2> QED
    BY <1>13, <2>1, <2>2 DEF AnswerQuery
<1>14. ASSUME NEW q \in Queries, NEW what \in {"search", "categories"}, Ask(q, what) PROVE QueryType'
  BY <1>14 DEF Ask, QueryType, call, tables
<1>15. CASE Restart
  BY <1>15 DEF Restart, QueryType, tables
<1>16. CASE UNCHANGED indexVars
  BY <1>16 DEF indexVars, QueryType, call, tables, query
<1> QED
  BY <1>1, <1>2, <1>3, <1>4, <1>5, <1>6, <1>7, <1>8, <1>9, <1>10, <1>11,
     <1>12, <1>13, <1>14, <1>15, <1>16 DEF QueryNext, RebuildStep

(* What a call has read is left alone, and its directories are. *)
LEMMA FollowsKept ==
    ASSUME NEW p \in Rebuilders, Follows(p), disk' = disk, unread'[p] = unread[p],
           documents'[p] = documents[p], table'[p] = table[p], window'[p] = window[p],
           place'[p] # "read" => place[p] # "read" \/ unread[p] = {}
    PROVE  Follows(p)'
<1>1. \A d \in unread'[p] : disk'[d] \in window'[p][d]
  BY DEF Follows
<1>2. \A c \in documents'[p] : \E d \in Dirs \ unread'[p] : {c} \in window'[p][d]
  BY DEF Follows
<1>3. \A d \in Dirs \ unread'[p] : \A c \in Document :
        window'[p][d] = {{c}} => c \in documents'[p]
  BY DEF Follows
<1>4. \A i \in Ids : \A c \in table'[p][i] : c.id = i /\ c \in documents'[p]
  BY DEF Follows
<1>5. \A c \in documents'[p] : table'[p][c.id] # {}
  BY DEF Follows
<1>6. place'[p] # "read" => unread'[p] = {}
  BY DEF Follows
<1> QED
  BY <1>1, <1>2, <1>3, <1>4, <1>5, <1>6 DEF Follows

(* Nothing changes of what has been read in the other steps. *)
LEMMA ReadKept ==
    ASSUME QueryType, ReadInv, UNCHANGED <<disk, unread, documents, table, window>>,
           \A p \in Rebuilders : place'[p] \in Reading => place[p] \in Reading,
           \A p \in Rebuilders : place'[p] \in Reading \ {"read"} /\ place[p] = "read" => unread[p] = {}
    PROVE  ReadInv'
<1> SUFFICES ASSUME NEW p \in Rebuilders, place'[p] \in Reading PROVE Follows(p)'
  BY DEF ReadInv
<1>1. Follows(p)
  BY DEF ReadInv
<1> QED
  BY <1>1, FollowsKept

LEMMA ReadStep == ASSUME QueryType, ReadInv, [QueryNext]_indexVars PROVE ReadInv'
<1>1. ASSUME NEW d \in Dirs, NEW held \in Held, Change(d, held) PROVE ReadInv'
  <2> SUFFICES ASSUME NEW p \in Rebuilders, place'[p] \in Reading PROVE Follows(p)'
    BY DEF ReadInv
  <2>1. /\ place[p] \in Reading /\ place' = place /\ documents' = documents
        /\ table' = table /\ unread' = unread
    BY <1>1 DEF Change
  <2>2. CASE place[p] = "read" /\ d \in unread[p]
    <3>1. window'[p] = [window[p] EXCEPT ![d] = @ \cup {held}]
      BY <1>1, <2>2 DEF Change
    <3>2. \A e \in Dirs \ unread[p] : window'[p][e] = window[p][e]
      BY <3>1, <2>2 DEF QueryType
    <3>3. \A e \in unread[p] : disk'[e] \in window'[p][e]
      BY <1>1, <2>1, <3>1 DEF Change, QueryType, ReadInv, Follows
    <3>4. Follows(p)
      BY <2>1 DEF ReadInv
    <3>8. place'[p] = "read"
      BY <2>1, <2>2
    <3>5. \A c \in documents'[p] : \E e \in Dirs \ unread'[p] : {c} \in window'[p][e]
      BY <2>1, <3>2, <3>4 DEF Follows
    <3>6. \A e \in Dirs \ unread'[p] : \A c \in Document :
            window'[p][e] = {{c}} => c \in documents'[p]
      BY <2>1, <3>2, <3>4 DEF Follows
    <3>7. /\ \A i \in Ids : \A c \in table'[p][i] : c.id = i /\ c \in documents'[p]
          /\ \A c \in documents'[p] : table'[p][c.id] # {}
      BY <2>1, <3>4 DEF Follows
    <3> QED
      BY <2>1, <3>3, <3>5, <3>6, <3>7, <3>8 DEF Follows
  <2>3. CASE ~(place[p] = "read" /\ d \in unread[p])
    <3>1. window'[p] = window[p]
      BY <1>1, <2>3 DEF Change
    <3>2. \A e \in unread[p] : disk'[e] = disk[e]
      BY <1>1, <2>1, <2>3 DEF Change, QueryType, ReadInv, Follows
    <3> QED
      BY <2>1, <3>1, <3>2 DEF ReadInv, Follows
  <2> QED
    BY <2>2, <2>3
<1>2. ASSUME NEW S \in SUBSET Categories, ChangeCategories(S) PROVE ReadInv'
  BY <1>2, ReadKept DEF ChangeCategories, call
<1>3. ASSUME NEW p \in Rebuilders, Rebuild(p) PROVE ReadInv'
  BY <1>3, ReadKept DEF Rebuild, GoTo, QueryType, Reading
<1>4. ASSUME NEW p \in Rebuilders, NEW F \in SUBSET Fields, SetIndexedFields(p, F) PROVE ReadInv'
  BY <1>4, ReadKept DEF SetIndexedFields, GoTo, QueryType, Reading
<1>5. ASSUME NEW p \in Rebuilders, List(p) PROVE ReadInv'
  <2> SUFFICES ASSUME NEW o \in Rebuilders, place'[o] \in Reading PROVE Follows(o)'
    BY DEF ReadInv
  <2>1. CASE o = p
    <3>1. /\ unread'[p] = Dirs /\ documents'[p] = {} /\ table'[p] = Nothing
          /\ window'[p] = [d \in Dirs |-> {disk[d]}] /\ place'[p] = "read"
          /\ disk' = disk
      BY <1>5 DEF List, GoTo, QueryType
    <3>2. /\ \A d \in Dirs : disk'[d] \in window'[p][d]
          /\ \A i \in Ids : table'[p][i] = {}
      BY <3>1 DEF Nothing
    <3> QED
      BY <2>1, <3>1, <3>2 DEF Follows
  <2>2. CASE o # p
    <3>1. /\ disk' = disk /\ unread'[o] = unread[o] /\ documents'[o] = documents[o]
          /\ table'[o] = table[o] /\ window'[o] = window[o] /\ place'[o] = place[o]
      BY <1>5, <2>2 DEF List, GoTo, QueryType
    <3>2. Follows(o)
      BY <3>1 DEF ReadInv
    <3> QED
      BY <3>1, <3>2, FollowsKept
  <2> QED
    BY <2>1, <2>2
<1>6. ASSUME NEW p \in Rebuilders, NEW d \in Dirs, Read(p, d) PROVE ReadInv'
  <2> SUFFICES ASSUME NEW o \in Rebuilders, place'[o] \in Reading PROVE Follows(o)'
    BY DEF ReadInv
  <2>1. CASE o = p
    <3>1. /\ unread'[p] = unread[p] \ {d} /\ documents'[p] = documents[p] \cup disk[d]
          /\ table'[p] = Insert(table[p], disk[d])
          /\ window' = window /\ place' = place /\ disk' = disk
      BY <1>6 DEF Read, QueryType
    <3>2. Follows(p) /\ d \in unread[p] /\ place[p] = "read"
      BY <1>6 DEF Read, ReadInv, Reading
    <3>3. disk[d] \in Held /\ disk[d] \in window[p][d]
      BY <3>2 DEF QueryType, Follows
    <3>4. documents[p] \subseteq Document /\ window[p] \in [Dirs -> SUBSET Held]
      BY DEF QueryType
    <3>5. \A c \in documents'[p] : \E e \in Dirs \ unread'[p] : {c} \in window'[p][e]
      <4> SUFFICES ASSUME NEW c \in documents'[p]
                   PROVE  \E e \in Dirs \ unread'[p] : {c} \in window'[p][e]
        OBVIOUS
      <4>1. CASE c \in disk[d]
        <5>1. disk[d] = {c}
          BY <3>3, <4>1, HeldDocument
        <5>2. {c} \in window'[p][d] /\ d \in Dirs \ unread'[p]
          BY <3>1, <3>3, <5>1
        <5> QED
          BY <5>2
      <4>2. CASE c \in documents[p]
        BY <3>1, <3>2, <4>2 DEF Follows
      <4> QED
        BY <3>1, <4>1, <4>2
    <3>6. \A e \in Dirs \ unread'[p] : \A c \in Document :
            window'[p][e] = {{c}} => c \in documents'[p]
      <4> SUFFICES ASSUME NEW e \in Dirs \ unread'[p], NEW c \in Document,
                          window'[p][e] = {{c}}
                   PROVE  c \in documents'[p]
        OBVIOUS
      <4>1. CASE e = d
        BY <3>1, <3>3, <4>1
      <4>2. CASE e # d
        BY <3>1, <3>2, <4>2 DEF Follows
      <4> QED
        BY <4>1, <4>2
    <3>7. \A i \in Ids : \A c \in table'[p][i] : c.id = i /\ c \in documents'[p]
      <4> SUFFICES ASSUME NEW i \in Ids, NEW c \in table'[p][i]
                   PROVE  c.id = i /\ c \in documents'[p]
        OBVIOUS
      <4>1. CASE \E k \in disk[d] : k.id = i
        BY <3>1, <3>3, <4>1, HeldDocument DEF Insert
      <4>2. CASE ~\E k \in disk[d] : k.id = i
        BY <3>1, <3>2, <4>2 DEF Insert, Follows
      <4> QED
        BY <4>1, <4>2
    <3>8. \A c \in documents'[p] : table'[p][c.id] # {}
      <4> SUFFICES ASSUME NEW c \in documents'[p] PROVE table'[p][c.id] # {}
        OBVIOUS
      <4>1. c.id \in Ids
        BY <3>1, <3>3, <3>4, HeldDocument DEF Document
      <4>2. CASE \E k \in disk[d] : k.id = c.id
        BY <3>1, <4>1, <4>2 DEF Insert
      <4>3. CASE ~\E k \in disk[d] : k.id = c.id
        BY <3>1, <3>2, <4>1, <4>3 DEF Insert, Follows
      <4> QED
        BY <4>2, <4>3
    <3>9. \A e \in unread'[p] : disk'[e] \in window'[p][e]
      BY <3>1, <3>2 DEF Follows
    <3> QED
      BY <2>1, <3>1, <3>2, <3>5, <3>6, <3>7, <3>8, <3>9 DEF Follows
  <2>2. CASE o # p
    <3>1. /\ disk' = disk /\ unread'[o] = unread[o] /\ documents'[o] = documents[o]
          /\ table'[o] = table[o] /\ window'[o] = window[o] /\ place'[o] = place[o]
      BY <1>6, <2>2 DEF Read, QueryType
    <3>2. Follows(o)
      BY <3>1 DEF ReadInv
    <3> QED
      BY <3>1, <3>2, FollowsKept
  <2> QED
    BY <2>1, <2>2
<1>7. ASSUME NEW p \in Rebuilders, NEW d \in Dirs, NotListed(p, d) PROVE ReadInv'
  <2> SUFFICES ASSUME NEW o \in Rebuilders, place'[o] \in Reading PROVE Follows(o)'
    BY DEF ReadInv
  <2>1. CASE o = p
    <3>1. /\ unread'[p] = unread[p] \ {d} /\ documents' = documents /\ table' = table
          /\ window' = window /\ place' = place /\ disk' = disk
      BY <1>7 DEF NotListed, QueryType
    <3>2. Follows(p) /\ d \in unread[p] /\ place[p] = "read" /\ {} \in window[p][d]
      BY <1>7 DEF NotListed, ReadInv, Reading
    <3>3. \A c \in Document : window[p][d] # {{c}}
      BY <3>2
    <3> QED
      BY <2>1, <3>1, <3>2, <3>3 DEF Follows
  <2>2. CASE o # p
    <3>1. /\ disk' = disk /\ unread'[o] = unread[o] /\ documents'[o] = documents[o]
          /\ table'[o] = table[o] /\ window'[o] = window[o] /\ place'[o] = place[o]
      BY <1>7, <2>2 DEF NotListed, QueryType
    <3>2. Follows(o)
      BY <3>1 DEF ReadInv
    <3> QED
      BY <3>1, <3>2, FollowsKept
  <2> QED
    BY <2>1, <2>2
<1>8. ASSUME NEW p \in Rebuilders, ReadAll(p) PROVE ReadInv'
  BY <1>8, ReadKept DEF ReadAll, GoTo, QueryType, Reading
<1>9. ASSUME NEW p \in Rebuilders, Fails(p) PROVE ReadInv'
  BY <1>9, ReadKept DEF Fails, CallEnds, GoTo, QueryType, Reading
<1>10. ASSUME NEW p \in Rebuilders, BeginWrite(p) PROVE ReadInv'
  BY <1>10, ReadKept DEF BeginWrite, GoTo, QueryType, Reading
<1>11. ASSUME NEW p \in Rebuilders, ReadFields(p) PROVE ReadInv'
  BY <1>11, ReadKept DEF ReadFields, GoTo, QueryType, Reading
<1>12. ASSUME NEW p \in Rebuilders, CommitTables(p) PROVE ReadInv'
  BY <1>12, ReadKept DEF CommitTables, CallEnds, GoTo, QueryType, Reading
<1>13. ASSUME NEW q \in Queries, AnswerQuery(q) PROVE ReadInv'
  BY <1>13, ReadKept DEF AnswerQuery, Tell, call
<1>14. ASSUME NEW q \in Queries, NEW what \in {"search", "categories"}, Ask(q, what) PROVE ReadInv'
  BY <1>14, ReadKept DEF Ask, call
<1>15. CASE Restart
  BY <1>15, ReadKept DEF Restart, Reading
<1>16. CASE UNCHANGED indexVars
  BY <1>16, ReadKept DEF indexVars, call
<1> QED
  BY <1>1, <1>2, <1>3, <1>4, <1>5, <1>6, <1>7, <1>8, <1>9, <1>10, <1>11,
     <1>12, <1>13, <1>14, <1>15, <1>16 DEF QueryNext, RebuildStep

(* One transaction at a time, and the fields it has found. *)
LEMMA WriteStep == ASSUME QueryType, WriteInv, [QueryNext]_indexVars PROVE WriteInv'
<1>1. CASE UNCHANGED <<place, rescan, used, fields, unsettled>>
  BY <1>1 DEF WriteInv
<1>2. ASSUME NEW p \in Rebuilders, Rebuild(p) PROVE WriteInv'
  BY <1>2 DEF Rebuild, GoTo, QueryType, WriteInv
<1>3. ASSUME NEW p \in Rebuilders, NEW F \in SUBSET Fields, SetIndexedFields(p, F) PROVE WriteInv'
  BY <1>3 DEF SetIndexedFields, GoTo, QueryType, WriteInv
<1>4. ASSUME NEW p \in Rebuilders, List(p) \/ ReadAll(p) PROVE WriteInv'
  <2>1. /\ UNCHANGED <<used, fields, unsettled, rescan>>
        /\ place[p] \in {"list", "read"}
        /\ \E step \in {"read", "ready"} : place' = [place EXCEPT ![p] = step]
    BY <1>4 DEF List, ReadAll, GoTo
  <2> QED
    BY <2>1 DEF QueryType, WriteInv
<1>5. ASSUME NEW p \in Rebuilders, Fails(p) PROVE WriteInv'
  BY <1>5 DEF Fails, CallEnds, GoTo, QueryType, WriteInv
<1>6. ASSUME NEW p \in Rebuilders, BeginWrite(p) PROVE WriteInv'
  BY <1>6 DEF BeginWrite, GoTo, QueryType, WriteInv
<1>7. ASSUME NEW p \in Rebuilders, ReadFields(p) PROVE WriteInv'
  BY <1>7 DEF ReadFields, GoTo, QueryType, WriteInv
<1>8. ASSUME NEW p \in Rebuilders, CommitTables(p) PROVE WriteInv'
  BY <1>8 DEF CommitTables, CallEnds, GoTo, QueryType, WriteInv
<1>9. CASE Restart
  BY <1>9 DEF Restart, WriteInv
<1> QED
  BY <1>1, <1>2, <1>3, <1>4, <1>5, <1>6, <1>7, <1>8, <1>9
     DEF QueryNext, RebuildStep, Change, ChangeCategories, Read, NotListed, AnswerQuery, Tell, Ask,
         call, indexVars

(* Only a commit changes the tables. *)
LEMMA TablesStep ==
    ASSUME QueryType, ReadInv, WriteInv, ItemsInv, TablesAgree, FieldsIndexed, [QueryNext]_indexVars
    PROVE  ItemsInv' /\ TablesAgree' /\ FieldsIndexed'
<1>1. ASSUME NEW p \in Rebuilders, CommitTables(p)
      PROVE  ItemsInv' /\ TablesAgree' /\ FieldsIndexed'
  <2>1. /\ items' = table[p] /\ extra' = ExtraIndex(documents[p], used[p])
        /\ basis' = window[p] /\ indexed' = used[p] /\ fields' = fields
        /\ unsettled' = (unsettled /\ used[p] # fields)
        /\ rescan' = [rescan EXCEPT ![p] = FALSE] /\ place[p] = "commit"
    BY <1>1 DEF CommitTables, CallEnds
  <2>2. Follows(p) /\ unread[p] = {} /\ documents[p] \subseteq Document /\ used[p] \subseteq Fields
    BY <2>1 DEF ReadInv, Reading, Follows, QueryType
  <2>3. ItemsInv'
    BY <2>1, <2>2 DEF Follows, ItemsInv, NothingMadeUp
  <2>4. TablesAgree'
    <3>1. ASSUME NEW i \in Ids, NEW c \in items'[i], NEW f \in indexed', NEW v \in c.extra[f]
          PROVE  <<f, v, i>> \in extra'
      <4>1. c.id = i /\ c \in documents[p] /\ c \in Document /\ f \in Fields
        BY <2>1, <2>2 DEF Follows
      <4>2. v \in Values
        BY <4>1 DEF Document
      <4> QED
        BY <2>1, <4>1, <4>2 DEF ExtraIndex
    <3>2. ASSUME NEW e \in extra'
          PROVE  e[1] \in indexed' /\ \E d \in Dirs : \E c \in Document :
                     {c} \in basis'[d] /\ c.id = e[3] /\ e[2] \in c.extra[e[1]]
      <4>1. e[1] \in used[p] /\ \E c \in documents[p] : c.id = e[3] /\ e[2] \in c.extra[e[1]]
        BY <2>1, <3>2 DEF ExtraIndex
      <4> QED
        BY <2>1, <2>2, <4>1 DEF Follows
    <3> QED
      BY <3>1, <3>2 DEF TablesAgree, ValuesIndexed, IndexedSaid
  <2>5. FieldsIndexed'
    BY <2>1 DEF WriteInv, FieldsIndexed, QueryType
  <2> QED
    BY <2>3, <2>4, <2>5
<1>2. ASSUME UNCHANGED tables PROVE ItemsInv' /\ TablesAgree'
  <2>1. items' = items /\ extra' = extra /\ basis' = basis /\ indexed' = indexed
    BY <1>2 DEF tables
  <2>2. ItemsInv'
    BY <2>1 DEF ItemsInv, NothingMadeUp
  <2>3. TablesAgree'
    <3>1. ASSUME NEW i \in Ids, NEW c \in items'[i], NEW f \in indexed', NEW v \in c.extra[f]
          PROVE  <<f, v, i>> \in extra'
      BY <2>1, <3>1 DEF TablesAgree, ValuesIndexed
    <3>2. IndexedSaid'
      BY <2>1 DEF TablesAgree, IndexedSaid
    <3> QED
      BY <3>1, <3>2 DEF TablesAgree, ValuesIndexed
  <2> QED
    BY <2>2, <2>3
<1>3. ASSUME NEW p \in Rebuilders, NEW F \in SUBSET Fields, SetIndexedFields(p, F) PROVE FieldsIndexed'
  BY <1>3 DEF SetIndexedFields, FieldsIndexed, QueryType
<1>4. ASSUME NEW p \in Rebuilders, Fails(p) PROVE FieldsIndexed'
  BY <1>4 DEF Fails, CallEnds, FieldsIndexed, tables, QueryType
<1>5. ASSUME Restart PROVE FieldsIndexed'
  BY <1>5 DEF Restart, FieldsIndexed
<1>6. ASSUME UNCHANGED <<tables, fields, rescan, unsettled>> PROVE FieldsIndexed'
  BY <1>6 DEF tables, FieldsIndexed
<1> QED
  BY <1>1, <1>2, <1>3, <1>4, <1>5, <1>6
     DEF QueryNext, RebuildStep, Change, ChangeCategories, Rebuild, SetIndexedFields, List,
         Read, NotListed, ReadAll, Fails, BeginWrite, ReadFields, AnswerQuery, Tell, Ask,
         Restart, call, indexVars

LEMMA QueryInvariance == QuerySpec => []QueryIInv
<1>1. ASSUME QueryIInv, [QueryNext]_indexVars PROVE QueryIInv'
  BY <1>1, QueryTypeStep, ReadStep, WriteStep, TablesStep DEF QueryIInv
<1> QED
  BY Initially, <1>1, PTL DEF QuerySpec

-----------------------------------------------------------------------------
(* Documents, tables and the state of every call have their shapes.        *)
THEOREM QueryTypeCorrect == QuerySpec => []QueryType
BY QueryInvariance, PTL DEF QueryIInv

(* However directories come, go and change while a rebuild goes over them, *)
(* an item is shown as some directory had it during that reading, and one  *)
(* nobody touched is shown as it is (scan_all_documents).                  *)
THEOREM ItemsShown == QuerySpec => [](NothingMadeUp /\ SteadyShown)
<1>1. ASSUME QueryIInv PROVE SteadyShown
  <2> SUFFICES ASSUME NEW d \in Dirs, NEW c \in Document, basis[d] = {{c}},
                      items[c.id] # {c}
               PROVE  \E e \in Dirs \ {d} : \E k \in Document :
                          k.id = c.id /\ {k} \in basis[e]
    BY DEF SteadyShown
  <2>1. c.id \in Ids /\ items[c.id] # {} /\ items[c.id] \in Held
    BY <1>1 DEF QueryIInv, ItemsInv, QueryType, Document
  <2>2. PICK k \in Document : items[c.id] = {k}
    BY <2>1 DEF Held
  <2>3. k.id = c.id /\ \E e \in Dirs : {k} \in basis[e]
    BY <1>1, <2>1, <2>2 DEF QueryIInv, ItemsInv, NothingMadeUp
  <2>4. PICK e \in Dirs : {k} \in basis[e]
    BY <2>3
  <2>5. e # d
    <3>1. SUFFICES ASSUME e = d PROVE FALSE
      OBVIOUS
    <3>2. {k} = {c}
      BY <2>4, <3>1
    <3> QED
      BY <2>2, <3>2
  <2> QED
    BY <2>3, <2>4, <2>5
<1>2. QueryIInv => NothingMadeUp /\ SteadyShown
  BY <1>1 DEF QueryIInv, ItemsInv
<1> QED
  BY QueryInvariance, <1>2, PTL

(* The extra index lists every indexed value of every item the items table *)
(* has, though two directories may hold documents of one id, and nothing   *)
(* no directory said (build_extra_index).                                  *)
THEOREM IndexAgrees == QuerySpec => []TablesAgree
BY QueryInvariance, PTL DEF QueryIInv

(* Rescans of plugins and rebuilds of commands may overlap in any way: the *)
(* last of them to commit has the fields declared now, because they are    *)
(* read inside the transaction (rebuild_from_all).                         *)
THEOREM RescanTakesEffect == QuerySpec => []FieldsIndexed
BY QueryInvariance, PTL DEF QueryIInv

-----------------------------------------------------------------------------
(* The tasks: TaskQueue.                                                   *)

(* How far a call has come says what the queue has of it, and what its     *)
(* caller was told; a task is on record as running from mark_running to    *)
(* finish.                                                                 *)
RecordInv(t) ==
    /\ pc[t] = "idle" => kind[t] = "none" /\ history[t] = "none"
    /\ kind[t] = "none" => pc[t] = "idle"
    /\ kind[t] \in Direct =>
          pc[t] \in {"work", "read", "commit", "done"} /\ history[t] = "none"
    /\ t \in queued => history[t] \in {"Queued", "Running"}
    /\ pc[t] = "mark" => kind[t] \in Tasks /\ history[t] = "Queued"
    /\ pc[t] = "check" => kind[t] \in Tasks
    /\ kind[t] \in Tasks /\ pc[t] \in {"check", "work", "read", "commit"} =>
          history[t] = "Running"
    /\ pc[t] \in {"idle", "mark", "check"} => result[t] = "none"
    /\ pc[t] = "emit" => history[t] \in {"Running", "Completed"} /\ result[t] = "ok"
    /\ pc[t] = "finish" => history[t] = "Running" /\ result[t] \in {"ok", "error"}
    /\ pc[t] = "done" /\ kind[t] \in Tasks =>
          history[t] = IF result[t] = "ok" THEN "Completed" ELSE "Failed"

(* A call that has read the library after its change has read it, and one  *)
(* that is to publish or has answered its caller has changed it.           *)
ChangeInv(t) ==
    /\ pc[t] \in {"idle", "mark", "check", "work"} => t \notin library
    /\ pc[t] = "emit" => t \in library
    /\ pc[t] = "finish" /\ result[t] = "ok" => t \in library
    /\ pc[t] = "read" /\ t \notin library => kind[t] \in {"scan", "refresh"}
    /\ pc[t] = "commit" /\ t \notin library => kind[t] \in {"scan", "refresh"}
    /\ pc[t] = "commit" /\ t \in library => t \in docs[t]
    /\ t \in library \ index =>
          t \in overtaken \/ result[t] = "error" \/ pc[t] \in {"read", "commit"}

RunningInv == running => \E t \in Calls : history[t] = "Running"

IInv ==
    /\ TypeOK /\ RunningInv
    /\ \A t \in Calls : RecordInv(t) /\ ChangeInv(t)

(* Every step keeps the types.                                             *)
LEMMA TypeStep == ASSUME IInv, Next PROVE TypeOK'
<1>1. ASSUME NEW s \in Calls, NEW k \in Kinds, Enqueue(s, k) PROVE TypeOK'
  BY <1>1, PausesAssumption DEF Enqueue, Goto, IInv, TypeOK
<1>2. ASSUME NEW s \in Calls, NEW k \in Kinds, CallDirectly(s, k) PROVE TypeOK'
  BY <1>2, PausesAssumption DEF CallDirectly, Goto, queue, IInv, TypeOK
<1>3. ASSUME NEW s \in Calls, MarkRunning(s) PROVE TypeOK'
  BY <1>3, PausesAssumption DEF MarkRunning, Goto, IInv, TypeOK
<1>4. ASSUME NEW s \in Calls, Check(s) PROVE TypeOK'
  BY <1>4, PausesAssumption DEF Check, Blocked, Goto, Answer, queue, IInv, TypeOK
<1>5. ASSUME NEW s \in Calls, Work(s) PROVE TypeOK'
  BY <1>5, PausesAssumption DEF Work, Goto, queue, IInv, TypeOK
<1>6. ASSUME NEW s \in Calls, WorkFails(s) PROVE TypeOK'
  BY <1>6, PausesAssumption DEF WorkFails, Ends, Goto, Answer, queue, IInv, TypeOK
<1>7. ASSUME NEW s \in Calls, ReadLibrary(s) PROVE TypeOK'
  BY <1>7, PausesAssumption DEF ReadLibrary, Goto, queue, IInv, TypeOK
<1>8. ASSUME NEW s \in Calls, Commit(s) PROVE TypeOK'
  BY <1>8, PausesAssumption
     DEF Commit, AfterRebuild, Ends, Goto, Answer, queue, IInv, TypeOK
<1>9. ASSUME NEW s \in Calls, Emit(s) PROVE TypeOK'
  BY <1>9 DEF Emit, Goto, queue, IInv, TypeOK, ChangeInv
<1>10. ASSUME NEW s \in Calls, Finish(s) PROVE TypeOK'
  BY <1>10, PausesAssumption DEF Finish, Goto, IInv, TypeOK
<1>11. ASSUME NEW m \in Modes, Pause(m) PROVE TypeOK'
  BY <1>11, PausesAssumption DEF Pause, queue, IInv, TypeOK
<1>12. ASSUME NEW m \in Modes, Resume(m) PROVE TypeOK'
  BY <1>12, PausesAssumption DEF Resume, queue, IInv, TypeOK
<1> QED
  BY <1>1, <1>2, <1>3, <1>4, <1>5, <1>6, <1>7, <1>8, <1>9, <1>10, <1>11, <1>12
     DEF Next, Step

(* The flag is set while a task is on record as running.                   *)
LEMMA RunningStep == ASSUME IInv, Next PROVE RunningInv'
<1>1. ASSUME NEW s \in Calls, NEW k \in Kinds, Enqueue(s, k) PROVE RunningInv'
  BY <1>1 DEF Enqueue, IInv, RunningInv, RecordInv
<1>2. ASSUME NEW s \in Calls, NEW k \in Kinds, CallDirectly(s, k) PROVE RunningInv'
  BY <1>2 DEF CallDirectly, queue, IInv, RunningInv
<1>3. ASSUME NEW s \in Calls, MarkRunning(s) PROVE RunningInv'
  BY <1>3 DEF MarkRunning, IInv, TypeOK, RunningInv
<1>4. ASSUME NEW s \in Calls, Check(s) PROVE RunningInv'
  BY <1>4 DEF Check, Blocked, queue, IInv, RunningInv
<1>5. ASSUME NEW s \in Calls, Work(s) PROVE RunningInv'
  BY <1>5 DEF Work, queue, IInv, RunningInv
<1>6. ASSUME NEW s \in Calls, WorkFails(s) PROVE RunningInv'
  BY <1>6 DEF WorkFails, Ends, queue, IInv, RunningInv
<1>7. ASSUME NEW s \in Calls, ReadLibrary(s) PROVE RunningInv'
  BY <1>7 DEF ReadLibrary, queue, IInv, RunningInv
<1>8. ASSUME NEW s \in Calls, Commit(s) PROVE RunningInv'
  BY <1>8 DEF Commit, AfterRebuild, Ends, queue, IInv, RunningInv
<1>9. ASSUME NEW s \in Calls, Emit(s) PROVE RunningInv'
  BY <1>9 DEF Emit, queue, IInv, RunningInv
<1>10. ASSUME NEW s \in Calls, Finish(s) PROVE RunningInv'
  BY <1>10 DEF Finish, IInv, RunningInv
<1>11. ASSUME NEW m \in Modes, Pause(m) PROVE RunningInv'
  BY <1>11 DEF Pause, queue, IInv, RunningInv
<1>12. ASSUME NEW m \in Modes, Resume(m) PROVE RunningInv'
  BY <1>12 DEF Resume, queue, IInv, RunningInv
<1> QED
  BY <1>1, <1>2, <1>3, <1>4, <1>5, <1>6, <1>7, <1>8, <1>9, <1>10, <1>11, <1>12
     DEF Next, Step

(* The record of a call keeps to how far it has come.                      *)
LEMMA RecordStep == ASSUME IInv, Next, NEW t \in Calls PROVE RecordInv(t)'
<1>1. ASSUME NEW s \in Calls, NEW k \in Kinds, Enqueue(s, k) PROVE RecordInv(t)'
  BY <1>1, KindsAssumption DEF Enqueue, Goto, IInv, TypeOK, Tasks, Direct, RecordInv
<1>2. ASSUME NEW s \in Calls, NEW k \in Kinds, CallDirectly(s, k) PROVE RecordInv(t)'
  BY <1>2, KindsAssumption
     DEF CallDirectly, Goto, queue, IInv, TypeOK, Tasks, Direct, RecordInv
<1>3. ASSUME NEW s \in Calls, MarkRunning(s) PROVE RecordInv(t)'
  BY <1>3, KindsAssumption DEF MarkRunning, Goto, IInv, TypeOK, RecordInv
<1>4. ASSUME NEW s \in Calls, Check(s) PROVE RecordInv(t)'
  BY <1>4, KindsAssumption
     DEF Check, Blocked, Goto, Answer, queue, IInv, TypeOK, RecordInv
<1>5. ASSUME NEW s \in Calls, Work(s) PROVE RecordInv(t)'
  BY <1>5, KindsAssumption DEF Work, Goto, queue, IInv, RecordInv
<1>6. ASSUME NEW s \in Calls, WorkFails(s) PROVE RecordInv(t)'
  <2>1. CASE s = t
    <3>1. pc[t] = "work" /\ kind'[t] = kind[t] /\ history'[t] = history[t] /\ result'[t] = "error"
          /\ pc'[t] = Ends(t) /\ queued' = queued
      BY <1>6, <2>1 DEF WorkFails, Goto, Answer, queue, IInv, TypeOK
    <3>2. kind[t] \in Tasks \cup Direct
      BY <3>1, KindsAssumption DEF IInv, TypeOK, RecordInv
    <3> QED
      BY <3>1, <3>2 DEF Ends, IInv, RecordInv
  <2>2. CASE s # t
    BY <1>6, <2>2 DEF WorkFails, Goto, Answer, queue, IInv, RecordInv
  <2> QED
    BY <2>1, <2>2
<1>7. ASSUME NEW s \in Calls, ReadLibrary(s) PROVE RecordInv(t)'
  BY <1>7, KindsAssumption DEF ReadLibrary, Goto, queue, IInv, RecordInv
<1>8. ASSUME NEW s \in Calls, Commit(s) PROVE RecordInv(t)'
  <2>1. CASE s = t
    <3>1. pc[t] = "commit" /\ kind'[t] = kind[t] /\ history'[t] = history[t] /\ queued' = queued
          /\ pc'[t] = AfterRebuild(t)
          /\ result'[t] = IF AfterRebuild(t) = "work" THEN result[t] ELSE "ok"
      BY <1>8, <2>1 DEF Commit, Goto, Answer, queue, IInv, TypeOK
    <3>2. kind[t] \in Tasks \cup Direct
      BY <3>1, KindsAssumption DEF IInv, TypeOK, RecordInv
    <3> QED
      BY <3>1, <3>2 DEF AfterRebuild, Ends, IInv, RecordInv, Tasks
  <2>2. CASE s # t
    BY <1>8, <2>2 DEF Commit, Goto, Answer, queue, IInv, TypeOK, RecordInv
  <2> QED
    BY <2>1, <2>2
<1>9. ASSUME NEW s \in Calls, Emit(s) PROVE RecordInv(t)'
  BY <1>9, KindsAssumption DEF Emit, Goto, queue, IInv, RecordInv
<1>10. ASSUME NEW s \in Calls, Finish(s) PROVE RecordInv(t)'
  BY <1>10, KindsAssumption DEF Finish, Goto, IInv, TypeOK, RecordInv
<1>11. ASSUME NEW m \in Modes, Pause(m) PROVE RecordInv(t)'
  BY <1>11, KindsAssumption DEF Pause, queue, IInv, RecordInv
<1>12. ASSUME NEW m \in Modes, Resume(m) PROVE RecordInv(t)'
  BY <1>12, KindsAssumption DEF Resume, queue, IInv, RecordInv
<1> QED
  BY <1>1, <1>2, <1>3, <1>4, <1>5, <1>6, <1>7, <1>8, <1>9, <1>10, <1>11, <1>12
     DEF Next, Step

(* What a call has changed is shown, or about to be.                       *)
LEMMA ChangeStep == ASSUME IInv, Next, NEW t \in Calls PROVE ChangeInv(t)'
<1>1. ASSUME NEW s \in Calls, NEW k \in Kinds, Enqueue(s, k) PROVE ChangeInv(t)'
  BY <1>1, KindsAssumption DEF Enqueue, Goto, IInv, ChangeInv
<1>2. ASSUME NEW s \in Calls, NEW k \in Kinds, CallDirectly(s, k) PROVE ChangeInv(t)'
  BY <1>2, KindsAssumption DEF CallDirectly, Goto, IInv, TypeOK, Direct, ChangeInv
<1>3. ASSUME NEW s \in Calls, MarkRunning(s) PROVE ChangeInv(t)'
  BY <1>3, KindsAssumption DEF MarkRunning, Goto, IInv, ChangeInv
<1>4. ASSUME NEW s \in Calls, Check(s) PROVE ChangeInv(t)'
  BY <1>4, KindsAssumption DEF Check, Blocked, Goto, Answer, IInv, TypeOK, ChangeInv
<1>5. ASSUME NEW s \in Calls, Work(s) PROVE ChangeInv(t)'
  BY <1>5, KindsAssumption DEF Work, Goto, IInv, TypeOK, ChangeInv
<1>6. ASSUME NEW s \in Calls, WorkFails(s) PROVE ChangeInv(t)'
  BY <1>6, KindsAssumption DEF WorkFails, Ends, Goto, Answer, IInv, TypeOK, ChangeInv
<1>7. ASSUME NEW s \in Calls, ReadLibrary(s) PROVE ChangeInv(t)'
  BY <1>7, KindsAssumption DEF ReadLibrary, Goto, IInv, TypeOK, ChangeInv
<1>8. ASSUME NEW s \in Calls, Commit(s) PROVE ChangeInv(t)'
  BY <1>8, KindsAssumption
     DEF Commit, AfterRebuild, Ends, Goto, Answer, IInv, TypeOK, Tasks, ChangeInv
<1>9. ASSUME NEW s \in Calls, Emit(s) PROVE ChangeInv(t)'
  BY <1>9, KindsAssumption DEF Emit, Goto, IInv, ChangeInv
<1>10. ASSUME NEW s \in Calls, Finish(s) PROVE ChangeInv(t)'
  BY <1>10, KindsAssumption DEF Finish, Goto, IInv, ChangeInv
<1>11. ASSUME NEW m \in Modes, Pause(m) PROVE ChangeInv(t)'
  BY <1>11, KindsAssumption DEF Pause, IInv, ChangeInv
<1>12. ASSUME NEW m \in Modes, Resume(m) PROVE ChangeInv(t)'
  BY <1>12, KindsAssumption DEF Resume, IInv, ChangeInv
<1> QED
  BY <1>1, <1>2, <1>3, <1>4, <1>5, <1>6, <1>7, <1>8, <1>9, <1>10, <1>11, <1>12
     DEF Next, Step

LEMMA TaskInvariance == Spec => []IInv
<1>1. ASSUME Init PROVE IInv
  <2>1. TypeOK
    <3>1. /\ pauses \in 0..MaxPauses /\ docs \in [Calls -> SUBSET library]
      BY <1>1, PausesAssumption DEF Init
    <3> QED
      BY <1>1, <3>1 DEF Init, TypeOK
  <2>2. ASSUME NEW t \in Calls PROVE RecordInv(t) /\ ChangeInv(t)
    BY <1>1 DEF Init, RecordInv, ChangeInv, Direct
  <2> QED
    BY <1>1, <2>1, <2>2 DEF Init, IInv, RunningInv
<1>2. ASSUME IInv, [Next]_vars PROVE IInv'
  <2>1. CASE Next
    BY <1>2, <2>1, TypeStep, RunningStep, RecordStep, ChangeStep DEF IInv
  <2>2. CASE UNCHANGED vars
    BY <1>2, <2>2
       DEF vars, queue, IInv, TypeOK, RunningInv, RecordInv, ChangeInv
  <2> QED
    BY <1>2, <2>1, <2>2
<1> QED
  BY <1>1, <1>2, PTL DEF Spec

(* Type correctness of the queue and its calls, for any number of them.    *)
THEOREM TypeCorrect == Spec => []TypeOK
<1>1. IInv => TypeOK
  BY DEF IInv
<1> QED
  BY <1>1, TaskInvariance, PTL

(* However rebuilds cross, when no call is inside the index shows every    *)
(* change, but for one whose call failed after it and one an older reading *)
(* of the library took away (rebuild_from_all).                            *)
THEOREM IndexStaysFresh == Spec => []IndexFresh
<1>1. IInv => IndexFresh
  BY DEF IInv, TypeOK, ChangeInv, IndexFresh, Quiet, Pending
<1> QED
  BY <1>1, TaskInvariance, PTL

(* A completion event is published when the index has the change, or an    *)
(* older reading has taken it away (emit_event after rebuild_from_all).    *)
THEOREM EventsAfterIndex == Spec => EventAfterIndex
<1>1. ASSUME IInv, [Next]_vars, NEW t \in emitted' \ emitted PROVE t \in index \cup overtaken
  <2>1. ASSUME NEW s \in Calls, Emit(s) PROVE t \in index \cup overtaken
    <3>1. t = s /\ pc[t] = "emit" /\ t \in Calls
      BY <1>1, <2>1 DEF Emit
    <3> QED
      BY <1>1, <3>1 DEF IInv, RecordInv, ChangeInv
  <2>2. \E s \in Calls : Emit(s)
    BY <1>1 DEF Next, Step, Enqueue, CallDirectly, MarkRunning, Check, Work, WorkFails,
                ReadLibrary, Commit, Finish, Pause, Resume, vars
  <2> QED
    BY <2>1, <2>2
<1>2. IInv /\ [Next]_vars => [\A t \in emitted' \ emitted : t \in index \cup overtaken]_vars
  BY <1>1
<1> QED
  BY <1>2, TaskInvariance, PTL DEF Spec, EventAfterIndex

(* The status tells: running is never left set by a task that is over, and *)
(* each record says what its caller was told (mark_running, finish).       *)
THEOREM StatusTells == Spec => []StatusSettles
<1>1. ASSUME IInv PROVE StatusSettles
  <2>1. ASSUME Quiet PROVE \A t \in Calls : pc[t] \in {"idle", "done"}
    BY <2>1 DEF Quiet, Pending
  <2>2. ASSUME Quiet, NEW t \in Calls PROVE history[t] \notin {"Queued", "Running"}
    BY <1>1, <2>1, <2>2, KindsAssumption DEF IInv, TypeOK, RecordInv
  <2>3. Quiet => queued = {} /\ ~running
    BY <1>1, <2>2 DEF IInv, TypeOK, RunningInv, RecordInv
  <2>4. ASSUME Quiet, NEW t \in Calls, kind[t] \in Tasks
        PROVE history[t] = IF result[t] = "ok" THEN "Completed" ELSE "Failed"
    BY <1>1, <2>1, <2>4 DEF IInv, RecordInv, Tasks
  <2> QED
    BY <1>1, <2>3, <2>4 DEF IInv, RunningInv, StatusSettles
<1> QED
  BY <1>1, TaskInvariance, PTL
=============================================================================
