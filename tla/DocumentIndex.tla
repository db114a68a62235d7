---------------------------- MODULE DocumentIndex ----------------------------
(***************************************************************************)
(* Documents of services/documents and their copy in the vector store: the *)
(* handlers of documents.create, update, delete, cover.upload and reindex  *)
(* over PostgreSQL and MinIO, the events they publish, index-python, and   *)
(* the JetStream consumer that sets the indexed flag.                      *)
(*                                                                         *)
(* A handler serves one request at a time, handlers of different subjects  *)
(* run concurrently; one action is one statement or one MinIO request.     *)
(* Events leave from goroutines of their own over core NATS, in any order; *)
(* what nobody receives is lost.  index-python has a queue and a worker    *)
(* per subject.  Its outcomes are stored by JetStream, delivered once in   *)
(* the order of the stream, and delivered again after errors, in any order *)
(* with the others, at most MaxDeliver times.                              *)
(*                                                                         *)
(* An element of Docs stands for one create request: the directory drawn   *)
(* for its first content and the id the database draws for its row.  The   *)
(* two differ, so that the directory of the row's id holds versions 2, 3,  *)
(* ... only.  A content is the number of times its path was written; it    *)
(* has at least one chunk.                                                 *)
(*                                                                         *)
(* Left out: the fields without a part in indexing (title, tags,           *)
(* participants and so on), the cover's own path and object, and           *)
(* corpus.document.deleted, to which nobody subscribes.  One instance of   *)
(* each service: their subscriptions are not queue groups.                 *)
(***************************************************************************)
EXTENDS Naturals, Sequences, FiniteSets

CONSTANTS Docs, NoDoc,
          MaxDeliver,  \* deliveries of an outcome by JetStream
          MaxVersion,  \* bound: versions of a document
          MaxWrites,   \* bound: writes of one path
          MaxEvents,   \* bound: events published
          MaxFaults    \* bound: errors and stops

ASSUME NoDocAssumption == NoDoc \notin Docs
ASSUME MaxDeliverAssumption == MaxDeliver \in Nat \ {0}
ASSUME BoundsAssumption == /\ MaxVersion \in Nat \ {0}
                           /\ MaxWrites \in Nat \ {0}
                           /\ MaxEvents \in Nat
                           /\ MaxFaults \in Nat

Versions == 1..MaxVersion
Ids == 1..MaxEvents
Absent == [version |-> 0, indexed |-> FALSE]
Rows == [version : Versions, indexed : BOOLEAN]
Handlers == {"create", "update", "delete", "cover", "reindex"}
Publishers == {"create", "update", "reindex"}
Steps == {"idle", "insert", "undo", "save", "list", "write", "reload",
          "blobs", "reset"}
Kinds == {"created", "updated"}
Events == [kind : Kinds, doc : Docs, version : Versions]
Stages == {"none", "publishing", "queued", "loaded", "report", "stored", "gone"}

VARIABLES
  \* PostgreSQL and MinIO
  row,      \* documents
  listed,   \* document_versions: pairs of a document and a version
  blob,     \* per document and version: writes of the object, 0 if there is none
  drawn,    \* documents a create has begun with
  \* the request each handler is serving
  pc, on,
  held,     \* current_version of the row the handler has read
  target,   \* documents.update: the version it will write
  \* events; an event is its index
  evt, stage,
  gen,      \* content the worker has loaded
  ok,       \* outcome: status "success"
  tries,    \* failed deliveries of the outcome
  fresh,    \* outcomes in the stream that were not delivered yet
  \* index-python
  up, queue,
  points,   \* contents in the vector store
  \* history and bounds
  doubtful, \* documents with an error that leaves the stores apart
  spoiled,  \* documents with an event that was lost or failed, or set back
            \* to an older version by a cover
  faults

store == <<row, listed, blob, drawn>>
request == <<pc, on, held, target>>
event == <<evt, stage, gen, ok, tries, fresh>>
indexer == <<up, queue, points>>
history == <<doubtful, spoiled>>
vars == <<store, request, event, indexer, history, faults>>

Exists(d) == row[d] # Absent
Recorded == 1..Len(evt)
Doc(e) == evt[e].doc
Content(d, v) == <<d, v, blob[d][v]>>

Init ==
  /\ row = [d \in Docs |-> Absent]
  /\ listed = {}
  /\ blob = [d \in Docs |-> [v \in Versions |-> 0]]
  /\ drawn = {}
  /\ pc = [h \in Handlers |-> "idle"]
  /\ on = [h \in Handlers |-> NoDoc]
  /\ held = [h \in Handlers |-> 0]
  /\ target = 0
  /\ evt = <<>>
  /\ stage = [e \in Ids |-> "none"]
  /\ gen = [e \in Ids |-> 0]
  /\ ok = [e \in Ids |-> FALSE]
  /\ tries = [e \in Ids |-> 0]
  /\ fresh = <<>>
  /\ up = TRUE
  /\ queue = [k \in Kinds |-> <<>>]
  /\ points = {}
  /\ doubtful = {} /\ spoiled = {}
  /\ faults = 0

-----------------------------------------------------------------------------
At(h, step) == pc[h] = step
Goto(h, step) == pc' = [pc EXCEPT ![h] = step]

\* The subscription of h delivers a request; a request that will publish
\* starts only when the bound leaves room for its event.
Room == Len(evt) + Cardinality({h \in Publishers : ~At(h, "idle")}) < MaxEvents
Accept(h, d, step) ==
  /\ At(h, "idle")
  /\ h \in Publishers => Room
  /\ Goto(h, step)
  /\ on' = [on EXCEPT ![h] = d]

Return(h) ==
  /\ Goto(h, "idle")
  /\ on' = [on EXCEPT ![h] = NoDoc]
  /\ held' = [held EXCEPT ![h] = 0]
  /\ target' = (IF h = "update" THEN 0 ELSE target)

Fault == faults < MaxFaults /\ faults' = faults + 1

\* GetByID.
Read(h, d) ==
  /\ Exists(d)
  /\ held' = [held EXCEPT ![h] = row[d].version]

SaveDocument(d, v) ==
  /\ blob[d][v] < MaxWrites
  /\ blob' = [blob EXCEPT ![d][v] = @ + 1]

\* The goroutine of publishDocumentCreatedEvent or publishDocumentUpdatedEvent.
GoPublish(k, d, v) ==
  /\ Len(evt) < MaxEvents
  /\ evt' = Append(evt, [kind |-> k, doc |-> d, version |-> v])
  /\ stage' = [stage EXCEPT ![Len(evt) + 1] = "publishing"]
  /\ UNCHANGED <<gen, ok, tries, fresh>>

\* The document has its row and not yet its first version.
Creating(d) == At("create", "list") /\ on["create"] = d

\* An error, or a crash of the process: what was done stays.  A row that was
\* written and whose event was not published yet is never indexed.
Abort(h) ==
  /\ Fault
  /\ ~At(h, "idle")
  /\ doubtful' = doubtful \cup {d \in {on[h]} : h = "create" /\ Creating(d)}
  /\ spoiled' = spoiled \cup {d \in {on[h]} : At(h, "reload") \/ (h = "create" /\ Creating(d))}
  /\ Return(h)
  /\ UNCHANGED <<store, event, indexer>>

-----------------------------------------------------------------------------
\* CreateDocument

Create(d) ==
  /\ d \notin drawn
  /\ Accept("create", d, "insert")
  /\ SaveDocument(d, 1)
  /\ drawn' = drawn \cup {d}
  /\ UNCHANGED <<row, listed, held, target, event, indexer, history, faults>>

NewRow == [version |-> 1, indexed |-> FALSE]

InsertDocument ==
  /\ At("create", "insert")
  /\ row' = [row EXCEPT ![on["create"]] = NewRow]
  /\ Goto("create", "list")
  /\ UNCHANGED <<listed, blob, drawn, on, held, target>>
  /\ UNCHANGED <<event, indexer, history, faults>>

\* The INSERT answers with an error, whether or not it committed.
InsertFails ==
  /\ Fault
  /\ At("create", "insert")
  /\ \/ UNCHANGED <<row, history>>
     \/ /\ row' = [row EXCEPT ![on["create"]] = NewRow]
        /\ doubtful' = doubtful \cup {on["create"]}
        /\ spoiled' = spoiled \cup {on["create"]}
  /\ Goto("create", "undo")
  /\ UNCHANGED <<listed, blob, drawn, on, held, target, event, indexer>>

\* The content saved for a row that could not be inserted is removed.
UndoSave ==
  /\ At("create", "undo")
  /\ blob' = [blob EXCEPT ![on["create"]][1] = 0]
  /\ Return("create")
  /\ UNCHANGED <<row, listed, drawn, event, indexer, history, faults>>

-----------------------------------------------------------------------------
\* The version's row, in CreateDocument and UpdateDocument: the foreign key
\* needs the document, the unique key lets one row in; errors are logged.
VersionOf(h) == IF h = "create" THEN 1 ELSE target
AfterList(h) == IF h = "create" THEN "reload" ELSE "write"

ListVersion(h) ==
  /\ At(h, "list")
  /\ listed' = IF Exists(on[h]) THEN listed \cup {<<on[h], VersionOf(h)>>}
                                ELSE listed
  /\ Goto(h, AfterList(h))
  /\ UNCHANGED <<row, blob, drawn, on, held, target>>
  /\ UNCHANGED <<event, indexer, history, faults>>

ListFails(h) ==
  /\ Fault
  /\ At(h, "list")
  /\ doubtful' = doubtful \cup {on[h]}
  /\ Goto(h, AfterList(h))
  /\ UNCHANGED <<store, on, held, target, event, indexer, spoiled>>

\* The row is read again and its event published.
EventKind(h) == IF h = "create" THEN "created" ELSE "updated"

EventVersion_Old(h) == IF h = "update" THEN held[h] ELSE row[on[h]].version
EventVersion(h) == row[on[h]].version

Reload(h) ==
  /\ At(h, "reload")
  /\ \/ /\ Exists(on[h])
        /\ GoPublish(EventKind(h), on[h], EventVersion(h))
     \/ /\ ~Exists(on[h])
        /\ UNCHANGED event
  /\ Return(h)
  /\ UNCHANGED <<store, indexer, history, faults>>

-----------------------------------------------------------------------------
\* UpdateDocument

NewVersion_Same(v) == v
NewVersion(v) == v + 1

FirstStep_Unsaved(content) == IF content THEN "list" ELSE "write"
FirstStep(content) == IF content THEN "save" ELSE "write"

\* A request with or without a new content.
Update(d) ==
  /\ Read("update", d)
  /\ \E content \in BOOLEAN :
       /\ target' = IF content THEN NewVersion(row[d].version) ELSE row[d].version
       /\ content => target' \in Versions
       /\ Accept("update", d, FirstStep(content))
  /\ UNCHANGED <<store, event, indexer, history, faults>>

SaveVersion ==
  /\ At("update", "save")
  /\ SaveDocument(on["update"], target)
  /\ Goto("update", "list")
  /\ UNCHANGED <<row, listed, drawn, on, held, target>>
  /\ UNCHANGED <<event, indexer, history, faults>>

\* An invalid document type or participant, found after the content is saved.
RejectUpdate ==
  /\ At("update", "write")
  /\ Return("update")
  /\ UNCHANGED <<store, event, indexer, history, faults>>

\* Update writes back every column GetByID read, changed or not.
WriteRow ==
  /\ At("update", "write")
  /\ \/ /\ Exists(on["update"])
        /\ row' = [row EXCEPT ![on["update"]].version = target]
        /\ Goto("update", "reload")
        /\ UNCHANGED <<on, held, target>>
     \/ /\ ~Exists(on["update"])
        /\ Return("update")
        /\ UNCHANGED row
  /\ UNCHANGED <<listed, blob, drawn, event, indexer, history, faults>>

-----------------------------------------------------------------------------
\* DeleteDocument: the row with its versions (ON DELETE CASCADE), then the
\* objects under the directory of the row's id.

Cascade_None(d) == listed
Cascade(d) == {p \in listed : p[1] # d}

Delete(d) ==
  /\ Exists(d)
  /\ Accept("delete", d, "blobs")
  /\ row' = [row EXCEPT ![d] = Absent]
  /\ listed' = Cascade(d)
  /\ UNCHANGED <<blob, drawn, held, target, event, indexer, history, faults>>

DeleteBlobs ==
  /\ At("delete", "blobs")
  /\ blob' = [blob EXCEPT ![on["delete"]] =
                [v \in Versions |-> IF v = 1 THEN blob[on["delete"]][1] ELSE 0]]
  /\ Return("delete")
  /\ UNCHANGED <<row, listed, drawn, event, indexer, history, faults>>

-----------------------------------------------------------------------------
\* UploadCover: every column of the row is written back with the cover's path.

UploadCover(d) ==
  /\ Read("cover", d)
  /\ Accept("cover", d, "write")
  /\ UNCHANGED <<store, target, event, indexer, history, faults>>

WriteCover ==
  /\ At("cover", "write")
  /\ \/ /\ Exists(on["cover"])
        /\ row' = [row EXCEPT ![on["cover"]].version = held["cover"]]
        /\ spoiled' = spoiled \cup
             {d \in {on["cover"]} : row[d].version # held["cover"]}
     \/ /\ ~Exists(on["cover"])
        /\ UNCHANGED <<row, spoiled>>
  /\ Return("cover")
  /\ UNCHANGED <<listed, blob, drawn, event, indexer, doubtful, faults>>

-----------------------------------------------------------------------------
\* ReindexDocument: the event is the one of the row read first.

Reindex(d) ==
  /\ Read("reindex", d)
  /\ Accept("reindex", d, "reset")
  /\ UNCHANGED <<store, target, event, indexer, history, faults>>

ResetIndexed_Silent ==
  /\ At("reindex", "reset")
  /\ Exists(on["reindex"])
  /\ row' = [row EXCEPT ![on["reindex"]].indexed = FALSE]
  /\ Return("reindex")
  /\ UNCHANGED <<listed, blob, drawn, event, indexer, history, faults>>

\* Every column of the row that was read, written back as UploadCover does.
ResetIndexed_WholeRow ==
  /\ At("reindex", "reset")
  /\ row' = IF Exists(on["reindex"])
            THEN [row EXCEPT ![on["reindex"]] = [version |-> held["reindex"], indexed |-> FALSE]]
            ELSE row
  /\ GoPublish("updated", on["reindex"], held["reindex"])
  /\ Return("reindex")
  /\ UNCHANGED <<listed, blob, drawn, indexer, history, faults>>

ResetIndexed ==
  /\ At("reindex", "reset")
  /\ row' = IF Exists(on["reindex"])
            THEN [row EXCEPT ![on["reindex"]].indexed = FALSE] ELSE row
  /\ GoPublish("updated", on["reindex"], held["reindex"])
  /\ Return("reindex")
  /\ UNCHANGED <<listed, blob, drawn, indexer, history, faults>>

-----------------------------------------------------------------------------
\* Events and index-python

Move(e, s) == stage' = [stage EXCEPT ![e] = s]
Lose(e) == Move(e, "gone") /\ spoiled' = spoiled \cup {Doc(e)}

Publish(e) ==
  /\ stage[e] = "publishing"
  /\ \/ /\ up
        /\ Move(e, "queued")
        /\ queue' = [queue EXCEPT ![evt[e].kind] = Append(@, e)]
        /\ UNCHANGED spoiled
     \/ /\ ~up
        /\ Lose(e)
        /\ UNCHANGED queue
  /\ UNCHANGED <<store, request, evt, gen, ok, tries, fresh, up, points, doubtful, faults>>

\* The goroutine ends without a message: a timeout, or a crash.
PublishFails(e) ==
  /\ Fault
  /\ stage[e] = "publishing"
  /\ Lose(e)
  /\ UNCHANGED <<store, request, evt, gen, ok, tries, fresh, indexer, doubtful>>

Working(k) == \E e \in Recorded : evt[e].kind = k /\ stage[e] \in {"loaded", "report"}

\* The worker takes the next event and loads the object at its content path.
Load(k) ==
  /\ ~Working(k)
  /\ queue[k] # <<>>
  /\ queue' = [queue EXCEPT ![k] = Tail(@)]
  /\ LET e == Head(queue[k])
         n == blob[Doc(e)][evt[e].version]
     IN \/ /\ n # 0
           /\ Move(e, "loaded")
           /\ gen' = [gen EXCEPT ![e] = n]
           /\ UNCHANGED spoiled
        \/ /\ n = 0
           /\ Move(e, "report")
           /\ spoiled' = spoiled \cup {Doc(e)}
           /\ UNCHANGED gen
  /\ UNCHANGED <<store, request, evt, ok, tries, fresh, up, points, doubtful, faults>>

Loaded(e) == <<Doc(e), evt[e].version, gen[e]>>

WritePoints_Skipped(e) ==
  /\ stage[e] = "loaded"
  /\ ok' = [ok EXCEPT ![e] = TRUE]
  /\ Move(e, "report")
  /\ UNCHANGED <<store, request, evt, gen, tries, fresh, indexer, history, faults>>

\* The chunks are embedded and written under fresh ids.
WritePoints(e) ==
  /\ stage[e] = "loaded"
  /\ points' = points \cup {Loaded(e)}
  /\ ok' = [ok EXCEPT ![e] = TRUE]
  /\ Move(e, "report")
  /\ UNCHANGED <<store, request, evt, gen, tries, fresh, up, queue, history, faults>>

\* Embedding or writing fails, before or after the points are there.
WriteFails(e) ==
  /\ Fault
  /\ stage[e] = "loaded"
  /\ points' \in {points, points \cup {Loaded(e)}}
  /\ Move(e, "report")
  /\ spoiled' = spoiled \cup {Doc(e)}
  /\ UNCHANGED <<store, request, evt, gen, ok, tries, fresh, up, queue, doubtful>>

\* The outcome is stored in the stream.
Report(e) ==
  /\ stage[e] = "report"
  /\ Move(e, "stored")
  /\ fresh' = Append(fresh, e)
  /\ UNCHANGED <<store, request, evt, gen, ok, tries, indexer, history, faults>>

ReportFails(e) ==
  /\ Fault
  /\ stage[e] = "report"
  /\ Lose(e)
  /\ UNCHANGED <<store, request, evt, gen, ok, tries, fresh, indexer, doubtful>>

\* index-python stops: its queues and the event of each worker are lost.
Held == {e \in Recorded : stage[e] \in {"queued", "loaded", "report"}}

Stop ==
  /\ Fault
  /\ up /\ up' = FALSE
  /\ queue' = [k \in Kinds |-> <<>>]
  /\ stage' = [e \in Ids |-> IF e \in Held THEN "gone" ELSE stage[e]]
  /\ spoiled' = spoiled \cup {Doc(e) : e \in Held}
  /\ UNCHANGED <<store, request, evt, gen, ok, tries, fresh, points, doubtful>>

Start ==
  /\ ~up /\ up' = TRUE
  /\ UNCHANGED <<store, request, event, queue, points, history, faults>>

-----------------------------------------------------------------------------
\* HandleDocumentIndexed, called by the JetStream consumer.

\* UpdateIndexedStatus, which no row is no error for.
MarkIndexed(e) ==
  row' = IF Exists(Doc(e)) THEN [row EXCEPT ![Doc(e)].indexed = ok[e]] ELSE row

\* First deliveries are in the order of the stream, redeliveries in none.
Deliver(e) ==
  /\ stage[e] = "stored"
  /\ \/ /\ fresh # <<>> /\ e = Head(fresh)
        /\ fresh' = Tail(fresh)
     \/ /\ tries[e] > 0
        /\ UNCHANGED fresh

Handle(e) ==
  /\ Deliver(e)
  /\ MarkIndexed(e)
  /\ Move(e, "gone")
  /\ UNCHANGED <<listed, blob, drawn, request, evt, gen, ok, tries>>
  /\ UNCHANGED <<indexer, history, faults>>

\* The last delivery JetStream makes.
LastTry(e) == tries[e] + 1 = MaxDeliver

\* An error, a crash or an acknowledgement that is lost: the outcome is
\* delivered again, or never again.
HandleFails(e) ==
  /\ Fault
  /\ Deliver(e)
  /\ UNCHANGED row \/ MarkIndexed(e)
  /\ tries' = [tries EXCEPT ![e] = @ + 1]
  /\ \/ /\ LastTry(e)
        /\ Lose(e)
     \/ /\ ~LastTry(e)
        /\ UNCHANGED <<stage, spoiled>>
  /\ UNCHANGED <<listed, blob, drawn, request, evt, gen, ok, indexer, doubtful>>

-----------------------------------------------------------------------------
CreateStep == InsertDocument \/ InsertFails \/ UndoSave
UpdateStep == SaveVersion \/ RejectUpdate \/ WriteRow
Request(d) ==
  \/ Create(d) \/ Update(d) \/ Delete(d) \/ UploadCover(d) \/ Reindex(d)
HandlerStep ==
  \/ CreateStep \/ UpdateStep \/ DeleteBlobs \/ WriteCover \/ ResetIndexed
  \/ \E h \in {"create", "update"} : ListVersion(h) \/ ListFails(h) \/ Reload(h)
  \/ \E h \in Handlers : Abort(h)
EventStep(e) ==
  \/ Publish(e) \/ PublishFails(e)
  \/ WritePoints(e) \/ WriteFails(e) \/ Report(e) \/ ReportFails(e)
  \/ Handle(e) \/ HandleFails(e)
IndexerStep == Stop \/ Start \/ \E k \in Kinds : Load(k)

Next ==
  \/ \E d \in Docs : Request(d)
  \/ HandlerStep
  \/ \E e \in Ids : EventStep(e)
  \/ IndexerStep

Spec == Init /\ [][Next]_vars

\* A request that is being served, a goroutine that publishes, a worker with
\* an event and a consumer with an outcome go on.
FairSpec ==
  /\ Spec
  /\ WF_vars(ListVersion("create")) /\ WF_vars(Reload("create"))
  /\ \A k \in Kinds : WF_vars(Load(k))
  /\ \A e \in Ids : /\ WF_vars(Publish(e)) /\ WF_vars(WritePoints(e))
                    /\ WF_vars(Report(e)) /\ WF_vars(Handle(e))

-----------------------------------------------------------------------------
StoreTypes ==
  /\ row \in [Docs -> Rows \cup {Absent}]
  /\ listed \subseteq {d \in Docs : Exists(d)} \X Versions
  /\ blob \in [Docs -> [Versions -> 0..MaxWrites]]
  /\ drawn \subseteq Docs
RequestTypes ==
  /\ pc \in [Handlers -> Steps]
  /\ on \in [Handlers -> drawn \cup {NoDoc}]
  /\ held \in [Handlers -> 0..MaxVersion]
  /\ target \in 0..MaxVersion
EventTypes ==
  /\ evt \in Seq(Events) /\ Len(evt) <= MaxEvents
  /\ stage \in [Ids -> Stages]
  /\ \A e \in Ids : stage[e] = "none" <=> e \notin Recorded
  /\ gen \in [Ids -> 0..MaxWrites]
  /\ ok \in [Ids -> BOOLEAN]
  /\ tries \in [Ids -> Nat]
  /\ fresh \in Seq(Ids)
IndexerTypes ==
  /\ up \in BOOLEAN
  /\ queue \in [Kinds -> Seq(Recorded)]
  /\ points \subseteq Docs \X Versions \X (0..MaxWrites)
HistoryTypes ==
  /\ doubtful \subseteq drawn /\ spoiled \subseteq drawn
  /\ faults \in 0..MaxFaults

\* Every variable has its type, the versions that are listed belong to
\* documents that exist, and only recorded events have left the initial stage.
TypeOK == StoreTypes /\ RequestTypes /\ EventTypes /\ IndexerTypes /\ HistoryTypes

\* A document always has the content its row names, and that version in its
\* list of versions, whatever updates, covers and deletions cross each other,
\* unless a statement of its own failed half-way.
RowsBacked ==
  \A d \in Docs \ doubtful : Exists(d) =>
    /\ blob[d][row[d].version] # 0
    /\ <<d, row[d].version>> \in listed \/ Creating(d)

\* The content a row names is never overwritten under its readers, although
\* UploadCover can set a row back to a version that an update has left behind
\* and the next update writes the same path again.
CurrentKept ==
  [][\A d \in Docs \ doubtful' : Exists(d) =>
       blob'[d][row[d].version] = blob[d][row[d].version]]_vars

\* UpdateDocument writes a version it has computed some statements before, and
\* every other write of a row is of a row read before: yet no document falls
\* back to an older version, except under a cover that crossed an update.
OnlyCoverSetsBack ==
  [][\A d \in Docs : Exists(d) /\ Exists(d)' /\ row'[d].version < row[d].version =>
       WriteCover /\ on["cover"] = d]_vars

\* A document with nothing under way is in the vector store with the content
\* it has now, unless one of its events was lost or failed, or a cover that
\* crossed an update has set it back: events that cross each other, or are read
\* after later updates, make no difference.
Settled(d) ==
  /\ \A h \in Publishers : on[h] # d
  /\ \A e \in Recorded : Doc(e) = d => stage[e] = "gone"
SettledIndexed ==
  \A d \in Docs \ spoiled : Exists(d) /\ Settled(d) =>
    Content(d, row[d].version) \in points

\* A document that is flagged indexed can be found, whatever order outcomes
\* are delivered in and however often.
IndexedIsFound ==
  \A d \in Docs : row[d].indexed => \E p \in points : p[1] = d

\* A document that is not flagged, because it is new or because a reindex has
\* taken the flag away, is flagged in the end, unless an event was lost.
IndexedInTheEnd ==
  \A d \in Docs : (Exists(d) /\ ~row[d].indexed) ~>
    (~Exists(d) \/ row[d].indexed \/ d \in spoiled)

-----------------------------------------------------------------------------
\* Statements of the repository that the code does not keep.

\* UploadCover saves a cover image: the document keeps its version.
CoverKeepsVersion ==
  [][WriteCover => \A d \in Docs : row'[d].version = row[d].version]_vars
=============================================================================
