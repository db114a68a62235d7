------------------------ MODULE DocumentIndex_proofs ------------------------
(***************************************************************************)
(* Theorems of DocumentIndex, for any number of documents, any number of   *)
(* deliveries and any bounds, in layers: types; what a row names; what a   *)
(* flag says; what the vector store holds.  Each layer rests on the ones   *)
(* before it and takes each action once.                                   *)
(***************************************************************************)
EXTENDS DocumentIndex, TLAPS

\* What a handler holds while it serves a request.
Requests ==
  /\ \A h \in Handlers : At(h, "idle") <=> on[h] = NoDoc
  /\ pc["create"] \in {"idle", "insert", "undo", "list", "reload"}
  /\ pc["update"] \in {"idle", "save", "list", "write", "reload"}
  /\ pc["delete"] \in {"idle", "blobs"}
  /\ pc["cover"] \in {"idle", "write"}
  /\ pc["reindex"] \in {"idle", "reset"}
  /\ \A h \in {"update", "cover", "reindex"} : ~At(h, "idle") => held[h] \in Versions
  /\ ~At("update", "idle") => target \in Versions /\ held["update"] <= target
  /\ At("update", "save") \/ At("update", "list") => target = held["update"] + 1

\* A document with a row or an event has been created.
Known ==
  /\ \A d \in Docs : Exists(d) => d \in drawn
  /\ \A e \in Recorded : Doc(e) \in drawn

Typed == TypeOK /\ Requests /\ Known

-----------------------------------------------------------------------------
LEMMA SeqMonotonic ==
  ASSUME NEW S, NEW T, S \subseteq T, NEW s \in Seq(S)
  PROVE  s \in Seq(T)
<1>1. \A i \in 1..Len(s) : s[i] \in T
  OBVIOUS
<1> QED BY <1>1

LEMMA TailType ==
  ASSUME NEW S, NEW s \in Seq(S), s # <<>>
  PROVE  Tail(s) \in Seq(S) /\ Head(s) \in S
OBVIOUS

LEMMA AppendType ==
  ASSUME NEW S, NEW s \in Seq(S), NEW x \in S
  PROVE  Append(s, x) \in Seq(S)
OBVIOUS

\* What a step leaves alone keeps its type.
LEMMA StoreKept ==
  ASSUME StoreTypes, UNCHANGED store
  PROVE  StoreTypes' /\ \A d \in Docs : Exists(d)' = Exists(d)
BY DEF StoreTypes, store, Exists

LEMMA RequestKept ==
  ASSUME RequestTypes, Requests, UNCHANGED <<drawn, request>>
  PROVE  RequestTypes' /\ Requests'
BY DEF RequestTypes, Requests, request, At

LEMMA EventKept ==
  ASSUME EventTypes, UNCHANGED event
  PROVE  EventTypes' /\ Recorded' = Recorded /\ \A e : Doc(e)' = Doc(e)
BY DEF EventTypes, event, Recorded, Doc

LEMMA IndexerKept ==
  ASSUME IndexerTypes, UNCHANGED <<evt, indexer>>
  PROVE  IndexerTypes'
BY DEF IndexerTypes, indexer, Recorded

LEMMA HistoryKept ==
  ASSUME HistoryTypes, UNCHANGED <<drawn, history>>, UNCHANGED faults \/ Fault
  PROVE  HistoryTypes'
BY BoundsAssumption DEF HistoryTypes, history, Fault

LEMMA FaultType ==
  ASSUME HistoryTypes, Fault
  PROVE  faults' \in 0..MaxFaults
BY BoundsAssumption DEF HistoryTypes, Fault

\* The parts of an event that has left its initial stage.
LEMMA EventFields ==
  ASSUME Typed, NEW e \in Ids, e \in Recorded \/ stage[e] # "none"
  PROVE  /\ e \in Recorded /\ stage[e] # "none"
         /\ Doc(e) \in Docs /\ Doc(e) \in drawn
         /\ evt[e].version \in Versions /\ evt[e].kind \in Kinds
<1>1. e \in Recorded /\ stage[e] # "none"
  BY DEF Typed, TypeOK, EventTypes
<1>2. evt[e] \in Events
  BY <1>1 DEF Typed, TypeOK, EventTypes, Recorded
<1> QED BY <1>1, <1>2 DEF Events, Doc, Typed, Known

LEMMA RecordedIds ==
  ASSUME Typed
  PROVE  Recorded \subseteq Ids
BY BoundsAssumption DEF Typed, TypeOK, EventTypes, Recorded, Ids

\* A step of a request that goes on or returns.
LEMMA ReturnTypes ==
  ASSUME RequestTypes, Requests, NEW h \in Handlers, Return(h), UNCHANGED drawn
  PROVE  RequestTypes' /\ Requests'
<1> USE DEF RequestTypes, Requests, Return, Goto, At, Handlers
<1>1. RequestTypes'
  BY BoundsAssumption DEF Steps
<1>2. Requests'
  BY DEF Steps
<1> QED BY <1>1, <1>2

LEMMA GotoTypes ==
  ASSUME RequestTypes, Requests, UNCHANGED <<drawn, on, held, target>>,
         NEW h \in Handlers, NEW step, Goto(h, step), ~At(h, "idle"),
         \/ h = "create" /\ step \in {"undo", "list", "reload"}
         \/ h = "update" /\ step \in {"write", "reload"}
         \/ h = "update" /\ step = "list" /\ At("update", "save")
  PROVE  RequestTypes' /\ Requests'
<1> USE DEF RequestTypes, Requests, Goto, At, Handlers
<1>1. RequestTypes'
  BY DEF Steps
<1>2. Requests'
  BY DEF Steps
<1> QED BY <1>1, <1>2

\* An event that is recorded: its id is in no queue yet.
LEMMA GoPublishTypes ==
  ASSUME EventTypes, IndexerTypes, Known,
         NEW k \in Kinds, NEW d \in Docs, d \in drawn, NEW v \in Versions,
         GoPublish(k, d, v), UNCHANGED <<drawn, indexer>>
  PROVE  /\ EventTypes' /\ IndexerTypes'
         /\ \A e \in Recorded' : Doc(e)' \in drawn'
<1> DEFINE x == [kind |-> k, doc |-> d, version |-> v]
<1>1. /\ evt' = Append(evt, x) /\ x \in Events
      /\ evt \in Seq(Events) /\ Len(evt) \in Nat /\ Len(evt) < MaxEvents
  BY DEF GoPublish, Events, EventTypes
<1>2. /\ evt' \in Seq(Events) /\ Len(evt') = Len(evt) + 1
      /\ \A e \in 1..Len(evt) : evt'[e] = evt[e]
      /\ evt'[Len(evt) + 1] = x
  BY <1>1
<1>3. /\ Recorded \subseteq Recorded'
      /\ \A e \in Recorded' : e \in Recorded \/ e = Len(evt) + 1
  BY <1>1, <1>2 DEF Recorded
<1>4. EventTypes'
  <2>1. Len(evt') <= MaxEvents
    BY <1>1, <1>2, BoundsAssumption
  <2>2. stage' \in [Ids -> Stages]
    BY <1>1 DEF GoPublish, EventTypes, Stages
  <2>3. \A e \in Ids : stage'[e] = "none" <=> e \notin Recorded'
    BY <1>1, <1>2, BoundsAssumption DEF GoPublish, EventTypes, Recorded, Ids
  <2>4. UNCHANGED <<gen, ok, tries, fresh>>
    BY DEF GoPublish
  <2> QED BY <1>2, <2>1, <2>2, <2>3, <2>4 DEF EventTypes
<1>5. IndexerTypes'
  <2>1. queue' \in [Kinds -> Seq(Recorded')]
    <3> SUFFICES ASSUME NEW l \in Kinds PROVE queue[l] \in Seq(Recorded')
      BY DEF IndexerTypes, indexer
    <3> QED BY <1>3, SeqMonotonic DEF IndexerTypes
  <2> QED BY <2>1 DEF IndexerTypes, indexer
<1>6. \A e \in Recorded' : Doc(e)' \in drawn'
  BY <1>2, <1>3 DEF Doc, Known, Recorded
<1> QED BY <1>4, <1>5, <1>6

-----------------------------------------------------------------------------
\* The initial state.
LEMMA InitTyped == Init => Typed
<1> SUFFICES ASSUME Init PROVE Typed
  OBVIOUS
<1> USE DEF Init
<1>1. StoreTypes /\ \A d \in Docs : ~Exists(d)
  BY BoundsAssumption DEF StoreTypes, Exists
<1>2. RequestTypes
  BY BoundsAssumption DEF RequestTypes, Handlers, Steps
<1>3. Recorded = {}
  BY DEF Recorded
<1>4. EventTypes
  BY <1>3, BoundsAssumption, MaxDeliverAssumption DEF EventTypes, Stages
<1>5. IndexerTypes
  BY DEF IndexerTypes
<1>6. HistoryTypes
  BY BoundsAssumption DEF HistoryTypes
<1>7. Requests
  BY DEF Requests, At, Handlers
<1>8. Known
  BY <1>1, <1>3 DEF Known
<1> QED BY <1>1, <1>2, <1>4, <1>5, <1>6, <1>7, <1>8 DEF Typed, TypeOK

-----------------------------------------------------------------------------
\* CreateDocument.
LEMMA CreateTyped ==
  ASSUME Typed, NEW d \in Docs, Create(d)
  PROVE  Typed'
<1> USE DEF Typed, TypeOK, Create, Accept, SaveDocument
<1>1. StoreTypes' /\ \A c \in Docs : Exists(c)' = Exists(c)
  BY BoundsAssumption DEF StoreTypes, Exists, Versions
<1>2. RequestTypes'
  BY DEF RequestTypes, Goto, Steps, Handlers
<1>3. Requests'
  BY NoDocAssumption DEF Requests, RequestTypes, Goto, At, Handlers
<1>4. EventTypes' /\ Recorded' = Recorded /\ \A e : Doc(e)' = Doc(e)
  BY EventKept
<1>5. IndexerTypes'
  BY IndexerKept DEF event
<1>6. HistoryTypes'
  BY DEF HistoryTypes, history
<1>7. Known'
  BY <1>1, <1>4 DEF Known
<1> QED BY <1>1, <1>2, <1>3, <1>4, <1>5, <1>6, <1>7

\* A row that appears or changes, of a known document.
LEMMA RowTypes ==
  ASSUME StoreTypes, NEW d \in Docs, NEW r \in Rows,
         row' = [row EXCEPT ![d] = r], UNCHANGED <<listed, blob, drawn>>
  PROVE  /\ StoreTypes'
         /\ Exists(d)' /\ \A c \in Docs \ {d} : Exists(c)' = Exists(c)
<1>1. r # Absent
  BY DEF Rows, Absent, Versions
<1> QED BY <1>1 DEF StoreTypes, Exists

LEMMA InsertDocumentTyped ==
  ASSUME Typed, InsertDocument
  PROVE  Typed'
<1> USE DEF Typed, TypeOK, InsertDocument
<1>1. on["create"] \in Docs /\ on["create"] \in drawn
  BY DEF Requests, RequestTypes, StoreTypes, At, Handlers
<1>2. NewRow \in Rows
  BY BoundsAssumption DEF NewRow, Rows, Versions
<1>3. StoreTypes' /\ \A c \in Docs \ {on["create"]} : Exists(c)' = Exists(c)
  BY <1>1, <1>2, RowTypes
<1>4. RequestTypes' /\ Requests'
  BY GotoTypes DEF At, Handlers
<1>5. EventTypes' /\ Recorded' = Recorded /\ \A e : Doc(e)' = Doc(e)
  BY EventKept
<1>6. IndexerTypes' /\ HistoryTypes'
  BY IndexerKept, HistoryKept DEF event
<1>7. Known'
  BY <1>1, <1>3, <1>5 DEF Known
<1> QED BY <1>3, <1>4, <1>5, <1>6, <1>7

LEMMA InsertFailsTyped ==
  ASSUME Typed, InsertFails
  PROVE  Typed'
<1> USE DEF Typed, TypeOK, InsertFails
<1>1. on["create"] \in Docs /\ on["create"] \in drawn
  BY DEF Requests, RequestTypes, StoreTypes, At, Handlers
<1>2. NewRow \in Rows
  BY BoundsAssumption DEF NewRow, Rows, Versions
<1>3. StoreTypes' /\ \A c \in Docs \ {on["create"]} : Exists(c)' = Exists(c)
  <2>1. CASE UNCHANGED row
    BY <2>1, StoreKept DEF store
  <2>2. CASE row' = [row EXCEPT ![on["create"]] = NewRow]
    BY <1>1, <1>2, <2>2, RowTypes
  <2> QED BY <2>1, <2>2
<1>4. RequestTypes' /\ Requests'
  BY GotoTypes DEF At, Handlers
<1>5. EventTypes' /\ Recorded' = Recorded /\ \A e : Doc(e)' = Doc(e)
  BY EventKept
<1>6. IndexerTypes'
  BY IndexerKept DEF event
<1>7. HistoryTypes'
  BY <1>1, FaultType DEF HistoryTypes, history
<1>8. Known'
  BY <1>1, <1>3, <1>5 DEF Known
<1> QED BY <1>3, <1>4, <1>5, <1>6, <1>7, <1>8

\* Writes of objects and of rows of versions.
LEMMA BlobTypes ==
  ASSUME StoreTypes, UNCHANGED <<row, listed, drawn>>,
         blob' \in [Docs -> [Versions -> 0..MaxWrites]]
  PROVE  StoreTypes' /\ \A d \in Docs : Exists(d)' = Exists(d)
BY DEF StoreTypes, Exists

LEMMA UndoSaveTyped ==
  ASSUME Typed, UndoSave
  PROVE  Typed'
<1> USE DEF Typed, TypeOK, UndoSave
<1>1. on["create"] \in Docs
  BY DEF Requests, RequestTypes, StoreTypes, At, Handlers
<1>2. blob' \in [Docs -> [Versions -> 0..MaxWrites]]
  BY <1>1, BoundsAssumption DEF StoreTypes, Versions
<1>3. StoreTypes' /\ \A c \in Docs : Exists(c)' = Exists(c)
  BY <1>2, BlobTypes
<1>4. RequestTypes' /\ Requests'
  BY ReturnTypes DEF Handlers
<1>5. EventTypes' /\ Recorded' = Recorded /\ \A e : Doc(e)' = Doc(e)
  BY EventKept
<1>6. IndexerTypes' /\ HistoryTypes'
  BY IndexerKept, HistoryKept DEF event
<1>7. Known'
  BY <1>3, <1>5 DEF Known
<1> QED BY <1>3, <1>4, <1>5, <1>6, <1>7

LEMMA ListVersionTyped ==
  ASSUME Typed, NEW h \in {"create", "update"}, ListVersion(h)
  PROVE  Typed'
<1> USE DEF Typed, TypeOK, ListVersion
<1>1. on[h] \in Docs /\ VersionOf(h) \in Versions
  BY BoundsAssumption DEF Requests, RequestTypes, StoreTypes, At, Handlers, VersionOf, Versions
<1>2. StoreTypes' /\ \A c \in Docs : Exists(c)' = Exists(c)
  BY <1>1 DEF StoreTypes, Exists
<1>3. RequestTypes' /\ Requests'
  BY GotoTypes DEF At, Handlers, AfterList
<1>4. EventTypes' /\ Recorded' = Recorded /\ \A e : Doc(e)' = Doc(e)
  BY EventKept
<1>5. IndexerTypes' /\ HistoryTypes'
  BY IndexerKept, HistoryKept DEF event
<1>6. Known'
  BY <1>2, <1>4 DEF Known
<1> QED BY <1>2, <1>3, <1>4, <1>5, <1>6

LEMMA ListFailsTyped ==
  ASSUME Typed, NEW h \in {"create", "update"}, ListFails(h)
  PROVE  Typed'
<1> USE DEF Typed, TypeOK, ListFails, store
<1>1. on[h] \in drawn
  BY DEF Requests, RequestTypes, StoreTypes, At, Handlers
<1>2. StoreTypes' /\ \A c \in Docs : Exists(c)' = Exists(c)
  BY StoreKept
<1>3. RequestTypes' /\ Requests'
  BY GotoTypes DEF At, Handlers, AfterList
<1>4. EventTypes' /\ Recorded' = Recorded /\ \A e : Doc(e)' = Doc(e)
  BY EventKept
<1>5. IndexerTypes'
  BY IndexerKept DEF event
<1>6. HistoryTypes'
  BY <1>1, FaultType DEF HistoryTypes
<1>7. Known'
  BY <1>2, <1>4 DEF Known
<1> QED BY <1>2, <1>3, <1>4, <1>5, <1>6, <1>7

LEMMA ReloadTyped ==
  ASSUME Typed, NEW h \in {"create", "update"}, Reload(h)
  PROVE  Typed'
<1> USE DEF Typed, TypeOK, Reload, store
<1>1. on[h] \in Docs
  BY DEF Requests, RequestTypes, StoreTypes, At, Handlers
<1>2. StoreTypes' /\ \A c \in Docs : Exists(c)' = Exists(c)
  BY StoreKept
<1>3. RequestTypes' /\ Requests'
  BY ReturnTypes DEF Handlers
<1>4. HistoryTypes'
  BY HistoryKept
<1>5. CASE ~Exists(on[h]) /\ UNCHANGED event
  <2>1. EventTypes' /\ Recorded' = Recorded /\ \A e : Doc(e)' = Doc(e)
    BY <1>5, EventKept
  <2>2. IndexerTypes'
    BY <1>5, IndexerKept DEF event
  <2>3. Known'
    BY <1>2, <2>1 DEF Known
  <2> QED BY <1>2, <1>3, <1>4, <2>1, <2>2, <2>3
<1>6. CASE Exists(on[h]) /\ GoPublish(EventKind(h), on[h], EventVersion(h))
  <2>1. EventKind(h) \in Kinds /\ EventVersion(h) \in Versions /\ on[h] \in drawn
    BY <1>1, <1>6 DEF EventKind, Kinds, EventVersion, StoreTypes, Exists, Rows, Known
  <2>2. EventTypes' /\ IndexerTypes' /\ \A e \in Recorded' : Doc(e)' \in drawn'
    BY <1>1, <1>6, <2>1, GoPublishTypes
  <2>3. Known'
    BY <1>2, <2>2 DEF Known
  <2> QED BY <1>2, <1>3, <1>4, <2>2, <2>3
<1> QED BY <1>5, <1>6

-----------------------------------------------------------------------------
\* UpdateDocument, UploadCover and ReindexDocument: the request that begins.
LEMMA UpdateTyped ==
  ASSUME Typed, NEW d \in Docs, Update(d)
  PROVE  Typed'
<1> USE DEF Typed, TypeOK, Update, store
<1>1. row[d].version \in Versions /\ d \in drawn
  BY DEF Read, StoreTypes, Exists, Rows, Known
<1>2. PICK content \in BOOLEAN :
        /\ target' = IF content THEN NewVersion(row[d].version) ELSE row[d].version
        /\ content => target' \in Versions
        /\ Accept("update", d, FirstStep(content))
  OBVIOUS
<1>3. StoreTypes' /\ \A c \in Docs : Exists(c)' = Exists(c)
  BY StoreKept
<1>4. target' \in Versions /\ row[d].version <= target' /\ (content => target' = row[d].version + 1)
  BY <1>1, <1>2, BoundsAssumption DEF NewVersion, Versions
<1>5. RequestTypes'
  BY <1>1, <1>2, <1>4, BoundsAssumption
     DEF RequestTypes, Accept, Goto, Steps, Handlers, FirstStep, Read, Versions
<1>6. Requests'
  BY <1>1, <1>2, <1>4, NoDocAssumption
     DEF Requests, RequestTypes, Accept, Goto, At, Handlers, FirstStep, Read
<1>7. EventTypes' /\ Recorded' = Recorded /\ \A e : Doc(e)' = Doc(e)
  BY EventKept
<1>8. IndexerTypes' /\ HistoryTypes'
  BY IndexerKept, HistoryKept DEF event
<1>9. Known'
  BY <1>3, <1>7 DEF Known
<1> QED BY <1>3, <1>5, <1>6, <1>7, <1>8, <1>9

LEMMA OtherRequestTyped ==
  ASSUME Typed, NEW d \in Docs, UploadCover(d) \/ Reindex(d)
  PROVE  Typed'
<1> USE DEF Typed, TypeOK, UploadCover, Reindex, store
<1>1. row[d].version \in Versions /\ d \in drawn
  BY DEF Read, StoreTypes, Exists, Rows, Known
<1>2. StoreTypes' /\ \A c \in Docs : Exists(c)' = Exists(c)
  BY StoreKept
<1>3. RequestTypes'
  BY <1>1, BoundsAssumption DEF RequestTypes, Accept, Goto, Steps, Handlers, Read, Versions
<1>4. Requests'
  BY <1>1, NoDocAssumption DEF Requests, RequestTypes, Accept, Goto, At, Handlers, Read
<1>5. EventTypes' /\ Recorded' = Recorded /\ \A e : Doc(e)' = Doc(e)
  BY EventKept
<1>6. IndexerTypes' /\ HistoryTypes'
  BY IndexerKept, HistoryKept DEF event
<1>7. Known'
  BY <1>2, <1>5 DEF Known
<1> QED BY <1>2, <1>3, <1>4, <1>5, <1>6, <1>7

\* The rest of UpdateDocument.
LEMMA SaveVersionTyped ==
  ASSUME Typed, SaveVersion
  PROVE  Typed'
<1> USE DEF Typed, TypeOK, SaveVersion
<1>1. on["update"] \in Docs /\ target \in Versions
  BY DEF Requests, RequestTypes, StoreTypes, At, Handlers
<1>2. blob' \in [Docs -> [Versions -> 0..MaxWrites]]
  BY <1>1, BoundsAssumption DEF StoreTypes, SaveDocument
<1>3. StoreTypes' /\ \A c \in Docs : Exists(c)' = Exists(c)
  BY <1>2, BlobTypes
<1>4. RequestTypes' /\ Requests'
  BY GotoTypes DEF At, Handlers
<1>5. EventTypes' /\ Recorded' = Recorded /\ \A e : Doc(e)' = Doc(e)
  BY EventKept
<1>6. IndexerTypes' /\ HistoryTypes'
  BY IndexerKept, HistoryKept DEF event
<1>7. Known'
  BY <1>3, <1>5 DEF Known
<1> QED BY <1>3, <1>4, <1>5, <1>6, <1>7

LEMMA RejectUpdateTyped ==
  ASSUME Typed, RejectUpdate
  PROVE  Typed'
<1> USE DEF Typed, TypeOK, RejectUpdate, store
<1>1. StoreTypes' /\ \A c \in Docs : Exists(c)' = Exists(c)
  BY StoreKept
<1>2. RequestTypes' /\ Requests'
  BY ReturnTypes DEF Handlers
<1>3. EventTypes' /\ Recorded' = Recorded /\ \A e : Doc(e)' = Doc(e)
  BY EventKept
<1>4. IndexerTypes' /\ HistoryTypes'
  BY IndexerKept, HistoryKept DEF event
<1>5. Known'
  BY <1>1, <1>3 DEF Known
<1> QED BY <1>1, <1>2, <1>3, <1>4, <1>5

\* A column of a row that exists is written.
LEMMA ColumnTypes ==
  ASSUME StoreTypes, NEW d \in Docs, Exists(d), UNCHANGED <<listed, blob, drawn>>,
         \/ \E v \in Versions : row' = [row EXCEPT ![d].version = v]
         \/ \E b \in BOOLEAN : row' = [row EXCEPT ![d].indexed = b]
  PROVE  StoreTypes' /\ \A c \in Docs : Exists(c)' = Exists(c)
<1>1. row[d] \in Rows
  BY DEF StoreTypes, Exists
<1>2. ASSUME NEW v \in Versions, row' = [row EXCEPT ![d].version = v]
      PROVE  \E r \in Rows : row' = [row EXCEPT ![d] = r]
  <2>1. [row[d] EXCEPT !.version = v] \in Rows
    BY <1>1 DEF Rows
  <2> QED BY <1>2, <2>1
<1>3. ASSUME NEW b \in BOOLEAN, row' = [row EXCEPT ![d].indexed = b]
      PROVE  \E r \in Rows : row' = [row EXCEPT ![d] = r]
  <2>1. [row[d] EXCEPT !.indexed = b] \in Rows
    BY <1>1 DEF Rows
  <2> QED BY <1>3, <2>1
<1>4. PICK r \in Rows : row' = [row EXCEPT ![d] = r]
  BY <1>2, <1>3
<1>5. StoreTypes' /\ Exists(d)' /\ \A c \in Docs \ {d} : Exists(c)' = Exists(c)
  BY <1>4, RowTypes
<1> QED BY <1>5 DEF Exists

LEMMA WriteRowTyped ==
  ASSUME Typed, WriteRow
  PROVE  Typed'
<1> USE DEF Typed, TypeOK, WriteRow
<1>1. on["update"] \in Docs /\ target \in Versions
  BY DEF Requests, RequestTypes, StoreTypes, At, Handlers
<1>2. StoreTypes' /\ \A c \in Docs : Exists(c)' = Exists(c)
  BY <1>1, ColumnTypes, StoreKept DEF store
<1>3. RequestTypes' /\ Requests'
  BY GotoTypes, ReturnTypes DEF At, Handlers
<1>4. EventTypes' /\ Recorded' = Recorded /\ \A e : Doc(e)' = Doc(e)
  BY EventKept
<1>5. IndexerTypes' /\ HistoryTypes'
  BY IndexerKept, HistoryKept DEF event
<1>6. Known'
  BY <1>2, <1>4 DEF Known
<1> QED BY <1>2, <1>3, <1>4, <1>5, <1>6

\* DeleteDocument.
LEMMA DeleteTyped ==
  ASSUME Typed, NEW d \in Docs, Delete(d)
  PROVE  Typed'
<1> USE DEF Typed, TypeOK, Delete
<1>1. \A c \in Docs : Exists(c)' = (Exists(c) /\ c # d)
  BY DEF StoreTypes, Exists
<1>2. StoreTypes'
  BY <1>1 DEF StoreTypes, Cascade
<1>3. d \in drawn
  BY DEF Known
<1>4. RequestTypes'
  BY <1>3 DEF RequestTypes, Accept, Goto, Steps, Handlers
<1>5. Requests'
  BY NoDocAssumption DEF Requests, RequestTypes, Accept, Goto, At, Handlers
<1>6. EventTypes' /\ Recorded' = Recorded /\ \A e : Doc(e)' = Doc(e)
  BY EventKept
<1>7. IndexerTypes' /\ HistoryTypes'
  BY IndexerKept, HistoryKept DEF event
<1>8. Known'
  BY <1>1, <1>6 DEF Known
<1> QED BY <1>2, <1>4, <1>5, <1>6, <1>7, <1>8

LEMMA DeleteBlobsTyped ==
  ASSUME Typed, DeleteBlobs
  PROVE  Typed'
<1> USE DEF Typed, TypeOK, DeleteBlobs
<1>1. on["delete"] \in Docs
  BY DEF Requests, RequestTypes, StoreTypes, At, Handlers
<1>2. blob' \in [Docs -> [Versions -> 0..MaxWrites]]
  BY <1>1, BoundsAssumption DEF StoreTypes, Versions
<1>3. StoreTypes' /\ \A c \in Docs : Exists(c)' = Exists(c)
  BY <1>2, BlobTypes
<1>4. RequestTypes' /\ Requests'
  BY ReturnTypes DEF Handlers
<1>5. EventTypes' /\ Recorded' = Recorded /\ \A e : Doc(e)' = Doc(e)
  BY EventKept
<1>6. IndexerTypes' /\ HistoryTypes'
  BY IndexerKept, HistoryKept DEF event
<1>7. Known'
  BY <1>3, <1>5 DEF Known
<1> QED BY <1>3, <1>4, <1>5, <1>6, <1>7

-----------------------------------------------------------------------------
\* The rest of UploadCover and ReindexDocument, and requests cut short.
LEMMA WriteCoverTyped ==
  ASSUME Typed, WriteCover
  PROVE  Typed'
<1> USE DEF Typed, TypeOK, WriteCover
<1>1. on["cover"] \in Docs /\ on["cover"] \in drawn /\ held["cover"] \in Versions
  BY DEF Requests, RequestTypes, StoreTypes, At, Handlers
<1>2. StoreTypes' /\ \A c \in Docs : Exists(c)' = Exists(c)
  BY <1>1, ColumnTypes, StoreKept DEF store
<1>3. RequestTypes' /\ Requests'
  BY ReturnTypes DEF Handlers
<1>4. EventTypes' /\ Recorded' = Recorded /\ \A e : Doc(e)' = Doc(e)
  BY EventKept
<1>5. IndexerTypes'
  BY IndexerKept DEF event
<1>6. HistoryTypes'
  BY <1>1 DEF HistoryTypes
<1>7. Known'
  BY <1>2, <1>4 DEF Known
<1> QED BY <1>2, <1>3, <1>4, <1>5, <1>6, <1>7

LEMMA ResetIndexedTyped ==
  ASSUME Typed, ResetIndexed
  PROVE  Typed'
<1> USE DEF Typed, TypeOK, ResetIndexed
<1>1. on["reindex"] \in Docs /\ on["reindex"] \in drawn /\ held["reindex"] \in Versions
  BY DEF Requests, RequestTypes, StoreTypes, At, Handlers
<1>2. StoreTypes' /\ \A c \in Docs : Exists(c)' = Exists(c)
  BY <1>1, ColumnTypes, StoreKept DEF store
<1>3. RequestTypes' /\ Requests'
  BY ReturnTypes DEF Handlers
<1>4. EventTypes' /\ IndexerTypes' /\ \A e \in Recorded' : Doc(e)' \in drawn'
  BY <1>1, GoPublishTypes DEF Kinds
<1>5. HistoryTypes'
  BY HistoryKept
<1>6. Known'
  BY <1>2, <1>4 DEF Known
<1> QED BY <1>2, <1>3, <1>4, <1>5, <1>6

LEMMA AbortTyped ==
  ASSUME Typed, NEW h \in Handlers, Abort(h)
  PROVE  Typed'
<1> USE DEF Typed, TypeOK, Abort, store
<1>1. on[h] \in drawn
  BY DEF Requests, RequestTypes, StoreTypes, At
<1>2. StoreTypes' /\ \A c \in Docs : Exists(c)' = Exists(c)
  BY StoreKept
<1>3. RequestTypes' /\ Requests'
  BY ReturnTypes
<1>4. EventTypes' /\ Recorded' = Recorded /\ \A e : Doc(e)' = Doc(e)
  BY EventKept
<1>5. IndexerTypes'
  BY IndexerKept DEF event
<1>6. HistoryTypes'
  BY <1>1, FaultType DEF HistoryTypes
<1>7. Known'
  BY <1>2, <1>4 DEF Known
<1> QED BY <1>2, <1>3, <1>4, <1>5, <1>6, <1>7

-----------------------------------------------------------------------------
\* Events and index-python.  A step of them records no event.
LEMMA SameEventsTyped ==
  ASSUME Typed, UNCHANGED <<store, request, evt>>,
         EventTypes', IndexerTypes', HistoryTypes'
  PROVE  Typed'
<1>1. StoreTypes' /\ \A c \in Docs : Exists(c)' = Exists(c)
  BY StoreKept DEF Typed, TypeOK
<1>2. RequestTypes' /\ Requests'
  BY RequestKept DEF Typed, TypeOK, store
<1>3. Known'
  BY <1>1 DEF Typed, Known, Recorded, Doc, store
<1> QED BY <1>1, <1>2, <1>3 DEF Typed, TypeOK

LEMMA MoveTypes ==
  ASSUME EventTypes, NEW e \in Ids, NEW s \in Stages \ {"none"}, stage[e] # "none",
         Move(e, s), UNCHANGED <<evt, ok, tries>>,
         gen' \in [Ids -> 0..MaxWrites], fresh' \in Seq(Ids)
  PROVE  EventTypes'
BY DEF EventTypes, Move, Recorded

LEMMA LoseTypes ==
  ASSUME Typed, NEW e \in Ids, stage[e] # "none", Lose(e),
         UNCHANGED <<store, evt, gen, ok, tries, fresh, doubtful>>, UNCHANGED faults \/ Fault
  PROVE  EventTypes' /\ HistoryTypes'
<1>1. EventTypes'
  BY MoveTypes DEF Typed, TypeOK, Lose, Stages, EventTypes
<1>2. Doc(e) \in drawn
  BY DEF Typed, TypeOK, Known, EventTypes
<1>3. HistoryTypes'
  BY <1>2, FaultType DEF Typed, TypeOK, HistoryTypes, Lose, store
<1> QED BY <1>1, <1>3

LEMMA PublishTyped ==
  ASSUME Typed, NEW e \in Ids, Publish(e) \/ PublishFails(e)
  PROVE  Typed'
<1>1. CASE PublishFails(e)
  <2>1. EventTypes' /\ HistoryTypes'
    BY <1>1, LoseTypes DEF PublishFails
  <2>2. IndexerTypes'
    BY <1>1, IndexerKept DEF PublishFails, Typed, TypeOK
  <2> QED BY <1>1, <2>1, <2>2, SameEventsTyped DEF PublishFails
<1>2. CASE Publish(e) /\ Lose(e) /\ UNCHANGED queue
  <2>1. EventTypes' /\ HistoryTypes'
    BY <1>2, LoseTypes DEF Publish
  <2>2. IndexerTypes'
    BY <1>2, IndexerKept DEF Publish, Typed, TypeOK, indexer
  <2> QED BY <1>2, <2>1, <2>2, SameEventsTyped DEF Publish
<1>3. CASE /\ Publish(e) /\ Move(e, "queued") /\ UNCHANGED spoiled
           /\ queue' = [queue EXCEPT ![evt[e].kind] = Append(@, e)]
  <2>1. EventTypes'
    BY <1>3, MoveTypes DEF Publish, Typed, TypeOK, Stages, EventTypes
  <2>2. e \in Recorded /\ evt[e].kind \in Kinds
    BY <1>3, EventFields DEF Publish
  <2>3. queue' \in [Kinds -> Seq(Recorded)]
    <3>1. Append(queue[evt[e].kind], e) \in Seq(Recorded)
      BY <2>2, AppendType DEF Typed, TypeOK, IndexerTypes
    <3> QED BY <1>3, <2>2, <3>1 DEF Typed, TypeOK, IndexerTypes
  <2>4. IndexerTypes'
    BY <1>3, <2>3 DEF Publish, Typed, TypeOK, IndexerTypes, Recorded
  <2>5. HistoryTypes'
    BY <1>3 DEF Publish, Typed, TypeOK, HistoryTypes, store
  <2> QED BY <1>3, <2>1, <2>4, <2>5, SameEventsTyped DEF Publish
<1> QED BY <1>1, <1>2, <1>3 DEF Publish

LEMMA LoadTyped ==
  ASSUME Typed, NEW k \in Kinds, Load(k)
  PROVE  Typed'
<1> DEFINE e == Head(queue[k])
           n == blob[Doc(e)][evt[e].version]
<1>1. queue[k] \in Seq(Recorded) /\ queue[k] # <<>>
  BY DEF Typed, TypeOK, IndexerTypes, Load
<1>2. e \in Recorded /\ Tail(queue[k]) \in Seq(Recorded)
  BY <1>1, TailType
<1>3. /\ e \in Ids /\ stage[e] # "none"
      /\ Doc(e) \in Docs /\ Doc(e) \in drawn /\ evt[e].version \in Versions
  BY <1>2, RecordedIds, EventFields
<1>4. n \in 0..MaxWrites
  BY <1>3 DEF Typed, TypeOK, StoreTypes
<1>5. EventTypes'
  BY <1>3, <1>4, MoveTypes DEF Load, Typed, TypeOK, EventTypes, Stages
<1>6. IndexerTypes'
  BY <1>2 DEF Load, Typed, TypeOK, IndexerTypes, Recorded
<1>7. HistoryTypes'
  BY <1>3 DEF Load, Typed, TypeOK, HistoryTypes, store
<1> QED BY <1>5, <1>6, <1>7, SameEventsTyped DEF Load

LEMMA WritePointsTyped ==
  ASSUME Typed, NEW e \in Ids, WritePoints(e) \/ WriteFails(e)
  PROVE  Typed'
<1>1. /\ stage[e] = "loaded" /\ Move(e, "report")
      /\ UNCHANGED <<store, request, evt, gen, tries, up, queue, doubtful>>
  BY DEF WritePoints, WriteFails, history
<1>2. /\ e \in Recorded /\ Doc(e) \in Docs /\ Doc(e) \in drawn
      /\ evt[e].version \in Versions /\ gen[e] \in 0..MaxWrites
  BY <1>1, EventFields DEF Typed, TypeOK, EventTypes
<1>3. Loaded(e) \in Docs \X Versions \X (0..MaxWrites)
  BY <1>2 DEF Loaded
<1>4. IndexerTypes'
  BY <1>1, <1>3 DEF WritePoints, WriteFails, Typed, TypeOK, IndexerTypes, Recorded
<1>5. EventTypes'
  BY <1>1 DEF WritePoints, WriteFails, Typed, TypeOK, EventTypes, Move, Recorded, Stages
<1>6. HistoryTypes'
  BY <1>1, <1>2, FaultType
     DEF WritePoints, WriteFails, Typed, TypeOK, HistoryTypes, store, history
<1> QED BY <1>1, <1>4, <1>5, <1>6, SameEventsTyped

LEMMA ReportTyped ==
  ASSUME Typed, NEW e \in Ids, Report(e) \/ ReportFails(e)
  PROVE  Typed'
<1>1. CASE ReportFails(e)
  <2>1. EventTypes' /\ HistoryTypes'
    BY <1>1, LoseTypes DEF ReportFails
  <2>2. IndexerTypes'
    BY <1>1, IndexerKept DEF ReportFails, Typed, TypeOK
  <2> QED BY <1>1, <2>1, <2>2, SameEventsTyped DEF ReportFails
<1>2. CASE Report(e)
  <2>1. EventTypes'
    <3>1. Append(fresh, e) \in Seq(Ids)
      BY AppendType DEF Typed, TypeOK, EventTypes
    <3> QED BY <1>2, <3>1, MoveTypes DEF Report, Typed, TypeOK, Stages, EventTypes
  <2>2. IndexerTypes' /\ HistoryTypes'
    BY <1>2, IndexerKept, HistoryKept DEF Report, Typed, TypeOK, store
  <2> QED BY <1>2, <2>1, <2>2, SameEventsTyped DEF Report
<1> QED BY <1>1, <1>2

LEMMA StopStartTyped ==
  ASSUME Typed, Stop \/ Start
  PROVE  Typed'
<1>1. UNCHANGED <<store, request, evt, gen, ok, tries, points, doubtful>>
  BY DEF Stop, Start, event, history
<1>2. EventTypes'
  BY <1>1 DEF Stop, Start, event, Held, Typed, TypeOK, EventTypes, Recorded, Stages
<1>3. IndexerTypes'
  <2>1. <<>> \in Seq(Recorded)
    OBVIOUS
  <2> QED BY <1>1, <2>1 DEF Stop, Start, Typed, TypeOK, IndexerTypes, Recorded
<1>4. HistoryTypes'
  <2>1. \A e \in Held : Doc(e) \in drawn
    BY DEF Held, Typed, Known
  <2> QED BY <1>1, <2>1, FaultType
          DEF Stop, Start, Typed, TypeOK, HistoryTypes, store, history
<1> QED BY <1>1, <1>2, <1>3, <1>4, SameEventsTyped

\* HandleDocumentIndexed.  It changes the flag of a row at most.
LEMMA MarkIndexedTypes ==
  ASSUME Typed, NEW e \in Ids, stage[e] # "none",
         UNCHANGED row \/ MarkIndexed(e), UNCHANGED <<listed, blob, drawn>>
  PROVE  StoreTypes' /\ \A c \in Docs : Exists(c)' = Exists(c)
<1>1. Doc(e) \in Docs /\ ok[e] \in BOOLEAN
  BY EventFields DEF Typed, TypeOK, EventTypes
<1>2. CASE UNCHANGED row
  BY <1>2, StoreKept DEF store, Typed, TypeOK
<1>3. CASE MarkIndexed(e)
  BY <1>1, <1>3, ColumnTypes, StoreKept DEF store, MarkIndexed, Typed, TypeOK
<1> QED BY <1>2, <1>3

LEMMA HandleTyped ==
  ASSUME Typed, NEW e \in Ids, Handle(e) \/ HandleFails(e)
  PROVE  Typed'
<1>1. /\ stage[e] = "stored" /\ (UNCHANGED row \/ MarkIndexed(e))
      /\ UNCHANGED <<listed, blob, drawn, request, evt, gen, ok, indexer, doubtful>>
  BY DEF Handle, HandleFails, Deliver, history
<1>2. StoreTypes' /\ \A c \in Docs : Exists(c)' = Exists(c)
  BY <1>1, MarkIndexedTypes
<1>3. RequestTypes' /\ Requests'
  BY <1>1, RequestKept DEF Typed, TypeOK
<1>4. Doc(e) \in drawn
  BY <1>1, EventFields
<1>5. EventTypes'
  <2>1. stage' \in [Ids -> Stages] /\ \A i \in Ids : stage'[i] = "none" <=> i \notin Recorded'
    BY <1>1 DEF Handle, HandleFails, Typed, TypeOK, EventTypes, Move, Lose, Recorded, Stages
  <2>2. tries' \in [Ids -> Nat]
    <3>1. UNCHANGED tries \/ tries' = [tries EXCEPT ![e] = tries[e] + 1]
      BY DEF Handle, HandleFails
    <3>2. tries \in [Ids -> Nat]
      BY DEF Typed, TypeOK, EventTypes
    <3> QED BY <3>1, <3>2
  <2>3. fresh' \in Seq(Ids)
    <3>1. fresh \in Seq(Ids) /\ (UNCHANGED fresh \/ (fresh # <<>> /\ fresh' = Tail(fresh)))
      BY DEF Handle, HandleFails, Deliver, Typed, TypeOK, EventTypes
    <3> QED BY <3>1, TailType
  <2> QED BY <1>1, <2>1, <2>2, <2>3 DEF Typed, TypeOK, EventTypes
<1>6. IndexerTypes'
  BY <1>1, IndexerKept DEF Typed, TypeOK
<1>7. HistoryTypes'
  BY <1>1, <1>4, FaultType
     DEF Handle, HandleFails, Lose, Typed, TypeOK, HistoryTypes, history
<1>8. Known'
  BY <1>1, <1>2 DEF Typed, Known, Recorded, Doc
<1> QED BY <1>2, <1>3, <1>5, <1>6, <1>7, <1>8 DEF Typed, TypeOK

-----------------------------------------------------------------------------
LEMMA NextTyped == Typed /\ [Next]_vars => Typed'
<1> SUFFICES ASSUME Typed, [Next]_vars PROVE Typed'
  OBVIOUS
<1>1. ASSUME NEW d \in Docs, Request(d) PROVE Typed'
  BY <1>1, CreateTyped, UpdateTyped, DeleteTyped, OtherRequestTyped DEF Request
<1>2. CASE HandlerStep
  <2>1. CASE CreateStep
    BY <2>1, InsertDocumentTyped, InsertFailsTyped, UndoSaveTyped DEF CreateStep
  <2>2. CASE UpdateStep
    BY <2>2, SaveVersionTyped, RejectUpdateTyped, WriteRowTyped DEF UpdateStep
  <2>3. CASE DeleteBlobs \/ WriteCover \/ ResetIndexed
    BY <2>3, DeleteBlobsTyped, WriteCoverTyped, ResetIndexedTyped
  <2>4. ASSUME NEW h \in {"create", "update"}, ListVersion(h) \/ ListFails(h) \/ Reload(h)
        PROVE  Typed'
    BY <2>4, ListVersionTyped, ListFailsTyped, ReloadTyped
  <2> QED BY <1>2, <2>1, <2>2, <2>3, <2>4, AbortTyped DEF HandlerStep
<1>3. ASSUME NEW e \in Ids, EventStep(e) PROVE Typed'
  BY <1>3, PublishTyped, WritePointsTyped, ReportTyped, HandleTyped DEF EventStep
<1>4. CASE IndexerStep
  BY <1>4, StopStartTyped, LoadTyped DEF IndexerStep
<1>5. CASE UNCHANGED vars
  <2> USE <1>5 DEF vars
  <2>1. EventTypes' /\ IndexerTypes' /\ HistoryTypes'
    BY EventKept, IndexerKept, HistoryKept DEF Typed, TypeOK, event, store
  <2> QED BY <2>1, SameEventsTyped DEF event
<1> QED BY <1>1, <1>2, <1>3, <1>4, <1>5 DEF Next

LEMMA SpecTyped == Spec => []Typed
<1> QED BY InitTyped, NextTyped, PTL DEF Spec

\* Every variable of the handlers, of index-python and of the stream keeps its
\* type: TypeOK of DocumentIndex.
THEOREM TypeCorrect == Spec => []TypeOK
<1>1. Typed => TypeOK
  BY DEF Typed
<1> QED BY <1>1, SpecTyped, PTL


-----------------------------------------------------------------------------
\* Theorems of DocumentIndex about the documents' contents: what a row
\* names is there and is not overwritten, for any number of documents and
\* any bounds.  StoreInv adds what the handlers of update and cover.upload
\* know of a row to what the theorems say of it.

\* A row about to be inserted is nobody's yet, and its content is saved.
NotYetCreated(d) ==
  At("create", "insert") /\ on["create"] = d =>
    /\ ~Exists(d) /\ blob[d][1] # 0
    /\ \A h \in Handlers \ {"create"} : on[h] # d

\* A row whose INSERT committed with an error is on record as doubtful.
HalfUndone(d) ==
  At("create", "undo") /\ on["create"] = d /\ Exists(d) =>
    d \in doubtful /\ d \in spoiled

\* The row goes before its objects.
BeingDeleted(d) == on["delete"] = d => ~Exists(d)

Backed(d, v) ==
  blob[d][v] # 0 /\ (<<d, v>> \in listed \/ (v = 1 /\ Creating(d)))

\* The version in the row, the one UploadCover will write and the one
\* UpdateDocument will write have their content.
ContentsBacked(d) ==
  Exists(d) /\ d \notin doubtful =>
    /\ Backed(d, row[d].version)
    /\ on["cover"] = d => Backed(d, held["cover"])
    /\ on["update"] = d /\ At("update", "list") => blob[d][target] # 0
    /\ on["update"] = d /\ At("update", "write") => Backed(d, target)

\* Between the two a row moves only back: UploadCover knows no version newer
\* than the row's, and UpdateDocument none that is older.
VersionsOrdered(d) ==
  Exists(d) =>
    /\ on["cover"] = d => held["cover"] <= row[d].version
    /\ on["update"] = d /\ ~At("update", "reload") => row[d].version <= held["update"]

Kept(d) ==
  /\ NotYetCreated(d) /\ HalfUndone(d) /\ BeingDeleted(d)
  /\ ContentsBacked(d) /\ VersionsOrdered(d)
StoreInv == \A d \in Docs : Kept(d)

-----------------------------------------------------------------------------
\* The fields of a row after one of its columns is written.
LEMMA VersionWritten ==
  ASSUME StoreTypes, NEW d \in Docs, Exists(d), NEW v,
         row' = [row EXCEPT ![d].version = v]
  PROVE  /\ row'[d].version = v /\ row'[d].indexed = row[d].indexed
         /\ \A c \in Docs \ {d} : row'[c] = row[c]
BY DEF StoreTypes, Exists, Rows

LEMMA FlagWritten ==
  ASSUME StoreTypes, NEW d \in Docs, Exists(d), NEW b,
         row' = [row EXCEPT ![d].indexed = b]
  PROVE  /\ row'[d].version = row[d].version /\ row'[d].indexed = b
         /\ \A c \in Docs \ {d} : row'[c] = row[c]
BY DEF StoreTypes, Exists, Rows

\* A handler that serves a request serves one document.
LEMMA Serving ==
  ASSUME Typed, NEW h \in Handlers, ~At(h, "idle")
  PROVE  on[h] \in Docs /\ on[h] \in drawn
BY DEF Typed, TypeOK, Requests, RequestTypes, StoreTypes, At

LEMMA IdleServesNone ==
  ASSUME Typed, NEW h \in Handlers, At(h, "idle"), NEW d \in Docs
  PROVE  on[h] # d
BY NoDocAssumption DEF Typed, Requests, At

\* Events, the indexer and the flag make no difference.
LEMMA StoreInvKept ==
  ASSUME StoreInv, UNCHANGED <<listed, blob, request, doubtful>>, spoiled \subseteq spoiled',
         \A d \in Docs : Exists(d)' = Exists(d) /\ row'[d].version = row[d].version
  PROVE  StoreInv'
BY DEF StoreInv, Kept, NotYetCreated, HalfUndone, BeingDeleted, ContentsBacked,
       VersionsOrdered, Backed, Creating, At, request

LEMMA EventStepKeepsStore ==
  ASSUME Typed, StoreInv, NEW e \in Ids, EventStep(e)
  PROVE  /\ UNCHANGED <<listed, blob, request, doubtful>> /\ spoiled \subseteq spoiled'
         /\ \A d \in Docs : Exists(d)' = Exists(d) /\ row'[d].version = row[d].version
<1>1. CASE Handle(e) \/ HandleFails(e)
  <2>1. /\ stage[e] = "stored" /\ (UNCHANGED row \/ MarkIndexed(e))
        /\ UNCHANGED <<listed, blob, drawn, request, doubtful>> /\ spoiled \subseteq spoiled'
    BY <1>1 DEF Handle, HandleFails, Deliver, history, Lose
  <2>2. \A d \in Docs : Exists(d)' = Exists(d)
    BY <2>1, MarkIndexedTypes
  <2>3. Doc(e) \in Docs
    BY <2>1, EventFields
  <2>4. \A d \in Docs : row'[d].version = row[d].version
    BY <2>1, <2>3, FlagWritten DEF MarkIndexed, Typed, TypeOK
  <2> QED BY <2>1, <2>2, <2>4
<1>2. CASE ~(Handle(e) \/ HandleFails(e))
  BY <1>2 DEF EventStep, Publish, PublishFails, WritePoints, WriteFails, Report,
              ReportFails, Lose, store, history, Exists
<1> QED BY <1>1, <1>2

LEMMA IndexerStepKeepsStore ==
  ASSUME IndexerStep
  PROVE  /\ UNCHANGED <<row, listed, blob, request, doubtful>> /\ spoiled \subseteq spoiled'
BY DEF IndexerStep, Stop, Start, Load, store, history

-----------------------------------------------------------------------------
\* A request that begins.
LEMMA CreateKeepsStore ==
  ASSUME Typed, StoreInv, NEW c \in Docs, Create(c)
  PROVE  StoreInv'
<1> SUFFICES ASSUME NEW d \in Docs PROVE Kept(d)'
  BY DEF StoreInv
<1> USE DEF Create, Accept, Goto, SaveDocument, history
<1>1. Kept(d)
  BY DEF StoreInv
<1>2. /\ \A h \in Handlers : on'[h] = IF h = "create" THEN c ELSE on[h]
      /\ \A h \in Handlers : pc'[h] = IF h = "create" THEN "insert" ELSE pc[h]
      /\ UNCHANGED <<row, listed, held, target, doubtful, spoiled>>
  BY DEF Typed, TypeOK, RequestTypes, Handlers
<1>3. /\ \A v \in Versions : blob'[d][v] = blob[d][v] \/ (d = c /\ v = 1 /\ blob'[d][v] = blob[d][v] + 1)
      /\ d = c => blob'[d][1] # 0
  BY BoundsAssumption DEF Typed, TypeOK, StoreTypes, Versions
<1>4. ~Exists(c) /\ ~Exists(c)' /\ \A h \in Handlers : on[h] # c
  BY NoDocAssumption DEF Typed, Known, TypeOK, RequestTypes, Exists
<1>5. d # c => blob'[d] = blob[d]
  BY DEF Typed, TypeOK, StoreTypes
<1>6. d = c => Kept(d)'
  BY <1>2, <1>3, <1>4
     DEF Kept, NotYetCreated, HalfUndone, BeingDeleted, ContentsBacked, VersionsOrdered, At, Handlers
<1>7. d # c => Kept(d)'
  BY <1>1, <1>2, <1>5
     DEF Kept, NotYetCreated, HalfUndone, BeingDeleted, ContentsBacked, VersionsOrdered,
         Backed, Creating, Exists, At, Handlers
<1> QED BY <1>6, <1>7

LEMMA UpdateKeepsStore ==
  ASSUME Typed, StoreInv, NEW c \in Docs, Update(c)
  PROVE  StoreInv'
<1> SUFFICES ASSUME NEW d \in Docs PROVE Kept(d)'
  BY DEF StoreInv
<1> USE DEF Update, Accept, Goto, Read, FirstStep, NewVersion, store, history
<1>1. Kept(d) /\ Kept(c)
  BY DEF StoreInv
<1>2. /\ \A h \in Handlers : on'[h] = IF h = "update" THEN c ELSE on[h]
      /\ \A h \in Handlers \ {"update"} : pc'[h] = pc[h]
      /\ \A h \in Handlers : held'[h] = IF h = "update" THEN row[c].version ELSE held[h]
      /\ pc'["update"] = "save" \/ (pc'["update"] = "write" /\ target' = row[c].version)
      /\ UNCHANGED <<row, listed, blob, doubtful, spoiled>>
  BY DEF Typed, TypeOK, RequestTypes, Handlers
<1>3. Exists(c) /\ Exists(c)' /\ row[c].version \in Versions
  BY DEF Typed, TypeOK, StoreTypes, Exists, Rows
<1>4. NotYetCreated(d)' /\ HalfUndone(d)' /\ BeingDeleted(d)'
  BY <1>1, <1>2, <1>3
     DEF Kept, NotYetCreated, HalfUndone, BeingDeleted, Exists, At, Handlers
<1>5. ContentsBacked(d)'
  BY <1>1, <1>2 DEF Kept, ContentsBacked, Backed, Creating, Exists, At, Handlers
<1>6. VersionsOrdered(d)'
  BY <1>1, <1>2, <1>3 DEF Kept, VersionsOrdered, Exists, At, Handlers, Versions
<1> QED BY <1>4, <1>5, <1>6 DEF Kept

LEMMA UploadCoverKeepsStore ==
  ASSUME Typed, StoreInv, NEW c \in Docs, UploadCover(c)
  PROVE  StoreInv'
<1> SUFFICES ASSUME NEW d \in Docs PROVE Kept(d)'
  BY DEF StoreInv
<1> USE DEF UploadCover, Accept, Goto, Read, store, history
<1>1. Kept(d) /\ Kept(c)
  BY DEF StoreInv
<1>2. /\ \A h \in Handlers : on'[h] = IF h = "cover" THEN c ELSE on[h]
      /\ \A h \in Handlers \ {"cover"} : pc'[h] = pc[h] /\ held'[h] = held[h]
      /\ held'["cover"] = row[c].version
      /\ UNCHANGED <<row, listed, blob, target, doubtful, spoiled>>
  BY DEF Typed, TypeOK, RequestTypes, Handlers
<1>3. Exists(c) /\ Exists(c)' /\ row[c].version \in Versions
  BY DEF Typed, TypeOK, StoreTypes, Exists, Rows
<1>4. NotYetCreated(d)' /\ HalfUndone(d)' /\ BeingDeleted(d)'
  BY <1>1, <1>2, <1>3
     DEF Kept, NotYetCreated, HalfUndone, BeingDeleted, Exists, At, Handlers
<1>5. ContentsBacked(d)'
  BY <1>1, <1>2 DEF Kept, ContentsBacked, Backed, Creating, Exists, At, Handlers
<1>6. VersionsOrdered(d)'
  BY <1>1, <1>2, <1>3 DEF Kept, VersionsOrdered, Exists, At, Handlers, Versions
<1> QED BY <1>4, <1>5, <1>6 DEF Kept

LEMMA ReindexKeepsStore ==
  ASSUME Typed, StoreInv, NEW c \in Docs, Reindex(c)
  PROVE  StoreInv'
<1> SUFFICES ASSUME NEW d \in Docs PROVE Kept(d)'
  BY DEF StoreInv
<1> USE DEF Reindex, Accept, Goto, Read, store, history
<1>1. Kept(d) /\ Exists(c)
  BY DEF StoreInv
<1>2. /\ \A h \in Handlers : on'[h] = IF h = "reindex" THEN c ELSE on[h]
      /\ \A h \in Handlers \ {"reindex"} : pc'[h] = pc[h] /\ held'[h] = held[h]
      /\ UNCHANGED <<row, listed, blob, target, doubtful, spoiled>>
  BY DEF Typed, TypeOK, RequestTypes, Handlers
<1> QED BY <1>1, <1>2
        DEF Kept, NotYetCreated, HalfUndone, BeingDeleted, ContentsBacked, VersionsOrdered,
            Backed, Creating, Exists, At, Handlers

LEMMA DeleteKeepsStore ==
  ASSUME Typed, StoreInv, NEW c \in Docs, Delete(c)
  PROVE  StoreInv'
<1> SUFFICES ASSUME NEW d \in Docs PROVE Kept(d)'
  BY DEF StoreInv
<1> USE DEF Delete, Accept, Goto, Cascade, history
<1>1. Kept(d)
  BY DEF StoreInv
<1>2. /\ \A h \in Handlers : on'[h] = IF h = "delete" THEN c ELSE on[h]
      /\ \A h \in Handlers \ {"delete"} : pc'[h] = pc[h]
      /\ UNCHANGED <<blob, held, target, doubtful, spoiled>>
  BY DEF Typed, TypeOK, RequestTypes, Handlers
<1>3. /\ Exists(d)' => Exists(d) /\ d # c /\ row'[d] = row[d]
      /\ \A v : d # c /\ <<d, v>> \in listed => <<d, v>> \in listed'
      /\ Exists(c)
  BY DEF Typed, TypeOK, StoreTypes, Exists
<1>4. NotYetCreated(d)' /\ HalfUndone(d)' /\ BeingDeleted(d)'
  BY <1>1, <1>2, <1>3
     DEF Kept, NotYetCreated, HalfUndone, BeingDeleted, At, Handlers
<1>5. ContentsBacked(d)'
  BY <1>1, <1>2, <1>3 DEF Kept, ContentsBacked, Backed, Creating, At, Handlers
<1>6. VersionsOrdered(d)'
  BY <1>1, <1>2, <1>3 DEF Kept, VersionsOrdered, At, Handlers
<1> QED BY <1>4, <1>5, <1>6 DEF Kept

-----------------------------------------------------------------------------
\* The steps of CreateDocument.
LEMMA InsertKeepsStore ==
  ASSUME Typed, StoreInv, InsertDocument \/ InsertFails
  PROVE  StoreInv'
<1> DEFINE c == on["create"]
<1> SUFFICES ASSUME NEW d \in Docs PROVE Kept(d)'
  BY DEF StoreInv
<1>1. Kept(d) /\ At("create", "insert") /\ c \in Docs
  BY Serving DEF StoreInv, InsertDocument, InsertFails, At, Handlers
<1>2. /\ \A h \in Handlers \ {"create"} : pc'[h] = pc[h]
      /\ UNCHANGED <<listed, blob, on, held, target>>
      /\ doubtful \subseteq doubtful' /\ spoiled \subseteq spoiled'
  BY DEF InsertDocument, InsertFails, Goto, Typed, TypeOK, RequestTypes, Handlers, history
<1>3. d # c => row'[d] = row[d] /\ Exists(d)' = Exists(d)
  BY DEF InsertDocument, InsertFails, Typed, TypeOK, StoreTypes, Exists
<1>4. d = c => /\ ~Exists(d) /\ blob[d][1] # 0 /\ \A h \in Handlers \ {"create"} : on[h] # d
  BY <1>1 DEF Kept, NotYetCreated
<1>5. CASE InsertDocument
  <2>1. pc'["create"] = "list" /\ (d = c => row'[d].version = 1)
    BY <1>1, <1>5 DEF InsertDocument, Goto, NewRow, Typed, TypeOK, RequestTypes, StoreTypes, Handlers
  <2>2. d = c => Kept(d)'
    BY <1>1, <1>2, <1>4, <2>1
       DEF Kept, NotYetCreated, HalfUndone, BeingDeleted, ContentsBacked, VersionsOrdered,
           Backed, Creating, At, Handlers
  <2>3. d # c => Kept(d)'
    BY <1>1, <1>2, <1>3, <2>1
       DEF Kept, NotYetCreated, HalfUndone, BeingDeleted, ContentsBacked, VersionsOrdered,
           Backed, Creating, At, Handlers
  <2> QED BY <2>2, <2>3
<1>6. CASE InsertFails
  <2>1. /\ pc'["create"] = "undo"
        /\ d = c /\ Exists(d)' => d \in doubtful' /\ d \in spoiled'
    BY <1>1, <1>4, <1>6
       DEF InsertFails, Goto, Typed, TypeOK, RequestTypes, StoreTypes, Handlers, Exists
  <2>2. d = c => Kept(d)'
    BY <1>1, <1>2, <1>4, <2>1
       DEF Kept, NotYetCreated, HalfUndone, BeingDeleted, ContentsBacked, VersionsOrdered,
           At, Handlers
  <2>3. d # c => Kept(d)'
    BY <1>1, <1>2, <1>3, <2>1
       DEF Kept, NotYetCreated, HalfUndone, BeingDeleted, ContentsBacked, VersionsOrdered,
           Backed, Creating, At, Handlers
  <2> QED BY <2>2, <2>3
<1> QED BY <1>5, <1>6

\* Objects that are removed belong to no row, or to a doubtful one.
LEMMA RemovalKeepsStore ==
  ASSUME Typed, StoreInv, UndoSave \/ DeleteBlobs
  PROVE  StoreInv'
<1> SUFFICES ASSUME NEW d \in Docs PROVE Kept(d)'
  BY DEF StoreInv
<1>1. Kept(d)
  BY DEF StoreInv
<1>2. PICK h \in {"create", "delete"} :
        /\ Return(h) /\ ~At(h, "idle")
        /\ h = "create" => At(h, "undo")
        /\ \A v \in Versions : d # on[h] => blob'[d][v] = blob[d][v]
        /\ UNCHANGED <<row, listed, doubtful, spoiled>>
  BY Serving DEF UndoSave, DeleteBlobs, At, Typed, TypeOK, StoreTypes, history, Handlers
<1>3. /\ \A g \in Handlers : on'[g] = IF g = h THEN NoDoc ELSE on[g]
      /\ \A g \in Handlers : pc'[g] = IF g = h THEN "idle" ELSE pc[g]
      /\ \A g \in Handlers \ {h} : held'[g] = held[g]
      /\ UNCHANGED target
  BY <1>2 DEF Return, Goto, Typed, TypeOK, RequestTypes, Handlers
<1>4. d = on[h] /\ Exists(d) => d \in doubtful
  BY <1>1, <1>2 DEF Kept, HalfUndone, BeingDeleted
<1>5. /\ Exists(d) => row[d].version \in Versions
      /\ on["cover"] = d => held["cover"] \in Versions
      /\ on["update"] = d => target \in Versions
  BY IdleServesNone DEF Typed, TypeOK, StoreTypes, Exists, Rows, Requests, Handlers
<1>6. h = "create" => ~Creating(d)
  BY <1>2 DEF Creating, At
<1>7. NotYetCreated(d)' /\ HalfUndone(d)' /\ BeingDeleted(d)'
  <2>1. At("create", "insert")' /\ on'["create"] = d => d # on[h]
    BY <1>1, <1>2, <1>3 DEF Kept, NotYetCreated, At, Handlers
  <2>2. 1 \in Versions
    BY BoundsAssumption DEF Versions
  <2> QED BY <1>1, <1>2, <1>3, <2>1, <2>2, NoDocAssumption
          DEF Kept, NotYetCreated, HalfUndone, BeingDeleted, Exists, At, Handlers
<1>8. ContentsBacked(d)'
  BY <1>1, <1>2, <1>3, <1>4, <1>5, <1>6, NoDocAssumption
     DEF Kept, ContentsBacked, Backed, Creating, Exists, At, Handlers
<1>9. VersionsOrdered(d)'
  BY <1>1, <1>2, <1>3, NoDocAssumption DEF Kept, VersionsOrdered, Exists, At, Handlers
<1> QED BY <1>7, <1>8, <1>9 DEF Kept

\* A handler that returns forgets what it knows.
LEMMA ReturnKeepsStore ==
  ASSUME Typed, StoreInv, NEW h \in Handlers, Return(h), UNCHANGED <<listed, blob>>,
         doubtful \subseteq doubtful', spoiled \subseteq spoiled',
         \A d \in Docs : Exists(d)' = Exists(d) /\ row'[d].version = row[d].version,
         h = "create" => \A d \in Docs : Creating(d) => d \in doubtful'
  PROVE  StoreInv'
<1> SUFFICES ASSUME NEW d \in Docs PROVE Kept(d)'
  BY DEF StoreInv
<1>1. Kept(d)
  BY DEF StoreInv
<1>2. /\ \A g \in Handlers : on'[g] = IF g = h THEN NoDoc ELSE on[g]
      /\ \A g \in Handlers : pc'[g] = IF g = h THEN "idle" ELSE pc[g]
      /\ \A g \in Handlers \ {h} : held'[g] = held[g]
      /\ h # "update" => UNCHANGED target
  BY DEF Return, Goto, Typed, TypeOK, RequestTypes, Handlers
<1>3. NotYetCreated(d)' /\ HalfUndone(d)' /\ BeingDeleted(d)'
  BY <1>1, <1>2, NoDocAssumption
     DEF Kept, NotYetCreated, HalfUndone, BeingDeleted, At, Handlers
<1>4. ContentsBacked(d)'
  BY <1>1, <1>2, NoDocAssumption DEF Kept, ContentsBacked, Backed, Creating, At, Handlers
<1>5. VersionsOrdered(d)'
  BY <1>1, <1>2, NoDocAssumption DEF Kept, VersionsOrdered, At, Handlers
<1> QED BY <1>3, <1>4, <1>5 DEF Kept

LEMMA ReloadKeepsStore ==
  ASSUME Typed, StoreInv, NEW h \in {"create", "update"}, Reload(h)
  PROVE  StoreInv'
BY ReturnKeepsStore DEF Reload, store, history, Exists, Creating, At, Handlers

LEMMA AbortKeepsStore ==
  ASSUME Typed, StoreInv, NEW h \in Handlers, Abort(h)
  PROVE  StoreInv'
<1>1. h = "create" => \A d \in Docs : Creating(d) => d \in doubtful'
  BY DEF Abort, Creating
<1> QED BY <1>1, ReturnKeepsStore DEF Abort, store, Exists

LEMMA ResetIndexedKeepsStore ==
  ASSUME Typed, StoreInv, ResetIndexed
  PROVE  StoreInv'
<1>1. on["reindex"] \in Docs
  BY Serving DEF ResetIndexed, At, Handlers
<1>2. \A d \in Docs : Exists(d)' = Exists(d)
  BY <1>1, ColumnTypes, StoreKept DEF ResetIndexed, store, Typed, TypeOK
<1>3. \A d \in Docs : row'[d].version = row[d].version
  BY <1>1, FlagWritten DEF ResetIndexed, Typed, TypeOK
<1> QED BY <1>2, <1>3, ReturnKeepsStore DEF ResetIndexed, history, Handlers

\* The version's row, written by CreateDocument and UpdateDocument.
LEMMA ListKeepsStore ==
  ASSUME Typed, StoreInv, NEW h \in {"create", "update"}, ListVersion(h) \/ ListFails(h)
  PROVE  StoreInv'
<1> SUFFICES ASSUME NEW d \in Docs PROVE Kept(d)'
  BY DEF StoreInv
<1>1. Kept(d) /\ At(h, "list") /\ on[h] \in Docs
  BY Serving DEF StoreInv, ListVersion, ListFails, At, Handlers
<1>2. /\ \A g \in Handlers : pc'[g] = IF g = h THEN AfterList(h) ELSE pc[g]
      /\ UNCHANGED <<row, blob, on, held, target, spoiled>>
      /\ listed \subseteq listed' /\ doubtful \subseteq doubtful'
      /\ d = on[h] /\ Exists(d) => d \in doubtful' \/ <<d, VersionOf(h)>> \in listed'
  BY DEF ListVersion, ListFails, Goto, Typed, TypeOK, RequestTypes, Handlers, store, history
<1>3. Exists(d)' = Exists(d)
  BY <1>2 DEF Exists
<1>4. NotYetCreated(d)' /\ HalfUndone(d)' /\ BeingDeleted(d)'
  BY <1>1, <1>2, <1>3
     DEF Kept, NotYetCreated, HalfUndone, BeingDeleted, At, Handlers, AfterList
<1>5. ASSUME NEW v, Exists(d), d \notin doubtful', Backed(d, v) PROVE Backed(d, v)'
  BY <1>1, <1>2, <1>5 DEF Backed, Creating, At, Handlers, VersionOf
<1>6. ContentsBacked(d)'
  <2> SUFFICES ASSUME Exists(d), d \notin doubtful' PROVE ContentsBacked(d)'
    BY <1>3 DEF ContentsBacked
  <2>1. Backed(d, row[d].version)'
    BY <1>1, <1>2, <1>5 DEF Kept, ContentsBacked
  <2>2. (on["cover"] = d => Backed(d, held["cover"]))'
    BY <1>1, <1>2, <1>5 DEF Kept, ContentsBacked
  <2>3. (on["update"] = d /\ At("update", "list") => blob[d][target] # 0)'
    BY <1>1, <1>2 DEF Kept, ContentsBacked, At, Handlers, AfterList
  <2>4. (on["update"] = d /\ At("update", "write") => Backed(d, target))'
    <3>1. CASE h = "create"
      BY <1>1, <1>2, <1>5, <3>1 DEF Kept, ContentsBacked, At, Handlers
    <3>2. CASE h = "update"
      BY <1>1, <1>2, <3>2 DEF Kept, ContentsBacked, At, Handlers, Backed, VersionOf
    <3> QED BY <3>1, <3>2
  <2> QED BY <2>1, <2>2, <2>3, <2>4 DEF ContentsBacked
<1>7. VersionsOrdered(d)'
  BY <1>1, <1>2, <1>3 DEF Kept, VersionsOrdered, At, Handlers, AfterList
<1> QED BY <1>4, <1>6, <1>7 DEF Kept

-----------------------------------------------------------------------------
\* The steps of UpdateDocument and of UploadCover.
LEMMA SaveVersionKeepsStore ==
  ASSUME Typed, StoreInv, SaveVersion
  PROVE  StoreInv'
<1> DEFINE c == on["update"]
<1> SUFFICES ASSUME NEW d \in Docs PROVE Kept(d)'
  BY DEF StoreInv
<1>1. Kept(d) /\ At("update", "save") /\ c \in Docs /\ target \in Versions
  BY Serving DEF StoreInv, SaveVersion, At, Handlers, Typed, Requests
<1>2. /\ \A g \in Handlers : pc'[g] = IF g = "update" THEN "list" ELSE pc[g]
      /\ UNCHANGED <<row, listed, on, held, target, doubtful, spoiled>>
  BY DEF SaveVersion, Goto, Typed, TypeOK, RequestTypes, Handlers, history
<1>3. /\ \A v \in Versions : blob[d][v] # 0 => blob'[d][v] # 0
      /\ d = c => blob'[d][target] # 0
  BY <1>1, BoundsAssumption DEF SaveVersion, SaveDocument, Typed, TypeOK, StoreTypes
<1>4. /\ Exists(d) => row[d].version \in Versions
      /\ on["cover"] = d => held["cover"] \in Versions
      /\ 1 \in Versions
  BY IdleServesNone, BoundsAssumption
     DEF Typed, TypeOK, StoreTypes, Exists, Rows, Requests, Handlers, Versions
<1>5. NotYetCreated(d)' /\ HalfUndone(d)' /\ BeingDeleted(d)'
  BY <1>1, <1>2, <1>3, <1>4
     DEF Kept, NotYetCreated, HalfUndone, BeingDeleted, Exists, At, Handlers
<1>6. ContentsBacked(d)'
  BY <1>1, <1>2, <1>3, <1>4 DEF Kept, ContentsBacked, Backed, Creating, Exists, At, Handlers
<1>7. VersionsOrdered(d)'
  BY <1>1, <1>2 DEF Kept, VersionsOrdered, Exists, At, Handlers
<1> QED BY <1>5, <1>6, <1>7 DEF Kept

LEMMA WriteRowKeepsStore ==
  ASSUME Typed, StoreInv, WriteRow
  PROVE  StoreInv'
<1> DEFINE c == on["update"]
<1>1. At("update", "write") /\ c \in Docs /\ target \in Versions
  BY Serving DEF WriteRow, At, Handlers, Typed, Requests
<1>2. CASE ~Exists(c)
  BY <1>2, ReturnKeepsStore DEF WriteRow, Handlers, history, Exists
<1>3. CASE Exists(c)
  <2> SUFFICES ASSUME NEW d \in Docs PROVE Kept(d)'
    BY DEF StoreInv
  <2>1. Kept(d)
    BY DEF StoreInv
  <2>2. /\ row' = [row EXCEPT ![c].version = target]
        /\ \A g \in Handlers : pc'[g] = IF g = "update" THEN "reload" ELSE pc[g]
        /\ UNCHANGED <<listed, blob, on, held, target, doubtful, spoiled>>
    BY <1>3 DEF WriteRow, Goto, Typed, TypeOK, RequestTypes, Handlers, history
  <2>3. row'[d].version = (IF d = c THEN target ELSE row[d].version)
    <3>1. row'[c].version = target /\ \A b \in Docs \ {c} : row'[b] = row[b]
      BY <1>1, <1>3, <2>2, VersionWritten DEF Typed, TypeOK
    <3> QED BY <3>1
  <2>4. Exists(d)' = Exists(d)
    BY <1>1, <1>3, <2>2, ColumnTypes DEF WriteRow, Typed, TypeOK
  <2>5. NotYetCreated(d)' /\ HalfUndone(d)' /\ BeingDeleted(d)'
    BY <2>1, <2>2, <2>4
       DEF Kept, NotYetCreated, HalfUndone, BeingDeleted, At, Handlers
  <2>6. ContentsBacked(d)'
    BY <1>1, <2>1, <2>2, <2>3, <2>4 DEF Kept, ContentsBacked, Backed, Creating, At, Handlers
  <2>7. VersionsOrdered(d)'
    <3>1. /\ held["update"] <= target /\ held["update"] \in Versions
          /\ Exists(d) => row[d].version \in Versions
          /\ on["cover"] = d => held["cover"] \in Versions
      BY <1>1, IdleServesNone
         DEF Typed, TypeOK, StoreTypes, Exists, Rows, Requests, At, Handlers
    <3> QED BY <1>1, <2>1, <2>2, <2>3, <2>4, <3>1
            DEF Kept, VersionsOrdered, At, Handlers, Versions
  <2> QED BY <2>5, <2>6, <2>7 DEF Kept
<1> QED BY <1>2, <1>3

LEMMA WriteCoverKeepsStore ==
  ASSUME Typed, StoreInv, WriteCover
  PROVE  StoreInv'
<1> DEFINE c == on["cover"]
<1>1. At("cover", "write") /\ c \in Docs /\ held["cover"] \in Versions
  BY Serving DEF WriteCover, At, Handlers, Typed, Requests
<1>2. CASE ~Exists(c)
  BY <1>2, ReturnKeepsStore DEF WriteCover, Handlers, Exists
<1>3. CASE Exists(c)
  <2> SUFFICES ASSUME NEW d \in Docs PROVE Kept(d)'
    BY DEF StoreInv
  <2>1. Kept(d)
    BY DEF StoreInv
  <2>2. /\ row' = [row EXCEPT ![c].version = held["cover"]]
        /\ \A g \in Handlers : on'[g] = IF g = "cover" THEN NoDoc ELSE on[g]
        /\ \A g \in Handlers : pc'[g] = IF g = "cover" THEN "idle" ELSE pc[g]
        /\ \A g \in Handlers \ {"cover"} : held'[g] = held[g]
        /\ UNCHANGED <<listed, blob, target, doubtful>> /\ spoiled \subseteq spoiled'
    BY <1>3 DEF WriteCover, Return, Goto, Typed, TypeOK, RequestTypes, Handlers
  <2>3. row'[d].version = (IF d = c THEN held["cover"] ELSE row[d].version)
    <3>1. row'[c].version = held["cover"] /\ \A b \in Docs \ {c} : row'[b] = row[b]
      BY <1>1, <1>3, <2>2, VersionWritten DEF Typed, TypeOK
    <3> QED BY <3>1
  <2>4. Exists(d)' = Exists(d)
    BY <1>1, <1>3, <2>2, ColumnTypes DEF WriteCover, Typed, TypeOK
  <2>5. NotYetCreated(d)' /\ HalfUndone(d)' /\ BeingDeleted(d)'
    BY <2>1, <2>2, <2>4, NoDocAssumption
       DEF Kept, NotYetCreated, HalfUndone, BeingDeleted, At, Handlers
  <2>6. ContentsBacked(d)'
    BY <1>1, <2>1, <2>2, <2>3, <2>4, NoDocAssumption
       DEF Kept, ContentsBacked, Backed, Creating, At, Handlers
  <2>7. VersionsOrdered(d)'
    <3>1. /\ Exists(d) => row[d].version \in Versions
          /\ on["update"] = d => held["update"] \in Versions
      BY IdleServesNone DEF Typed, TypeOK, StoreTypes, Exists, Rows, Requests, At, Handlers
    <3> QED BY <1>1, <2>1, <2>2, <2>3, <2>4, <3>1, NoDocAssumption
            DEF Kept, VersionsOrdered, At, Handlers, Versions
  <2> QED BY <2>5, <2>6, <2>7 DEF Kept
<1> QED BY <1>2, <1>3

-----------------------------------------------------------------------------
LEMMA InitStoreInv == Init => StoreInv
BY NoDocAssumption
   DEF Init, StoreInv, Kept, NotYetCreated, HalfUndone, BeingDeleted, ContentsBacked,
       VersionsOrdered, Exists, At, Handlers

LEMMA NextKeepsStore == Typed /\ StoreInv /\ [Next]_vars => StoreInv'
<1> SUFFICES ASSUME Typed, StoreInv, [Next]_vars PROVE StoreInv'
  OBVIOUS
<1>1. ASSUME NEW d \in Docs, Request(d) PROVE StoreInv'
  BY <1>1, CreateKeepsStore, UpdateKeepsStore, DeleteKeepsStore, UploadCoverKeepsStore,
     ReindexKeepsStore DEF Request
<1>2. CASE HandlerStep
  <2>1. CASE RejectUpdate
    BY <2>1, ReturnKeepsStore DEF RejectUpdate, Handlers, store, history, Exists
  <2>2. CASE CreateStep \/ DeleteBlobs
    BY <2>2, InsertKeepsStore, RemovalKeepsStore DEF CreateStep
  <2>3. CASE SaveVersion \/ WriteRow \/ WriteCover \/ ResetIndexed
    BY <2>3, SaveVersionKeepsStore, WriteRowKeepsStore, WriteCoverKeepsStore,
       ResetIndexedKeepsStore
  <2>4. ASSUME NEW h \in {"create", "update"}, ListVersion(h) \/ ListFails(h) \/ Reload(h)
        PROVE  StoreInv'
    BY <2>4, ListKeepsStore, ReloadKeepsStore
  <2> QED BY <1>2, <2>1, <2>2, <2>3, <2>4, AbortKeepsStore DEF HandlerStep, UpdateStep
<1>3. ASSUME NEW e \in Ids, EventStep(e) PROVE StoreInv'
  BY <1>3, EventStepKeepsStore, StoreInvKept
<1>4. CASE IndexerStep
  BY <1>4, IndexerStepKeepsStore, StoreInvKept DEF Exists
<1>5. CASE UNCHANGED vars
  BY <1>5, StoreInvKept DEF vars, store, history, Exists
<1> QED BY <1>1, <1>2, <1>3, <1>4, <1>5 DEF Next

LEMMA SpecStoreInv == Spec => [](Typed /\ StoreInv)
<1>1. Init => Typed /\ StoreInv
  BY InitTyped, InitStoreInv
<1>2. Typed /\ StoreInv /\ [Next]_vars => (Typed /\ StoreInv)'
  BY NextTyped, NextKeepsStore
<1> QED BY <1>1, <1>2, PTL DEF Spec

\* RowsBacked of DocumentIndex: whatever updates, covers and deletions cross
\* each other, a row names a version that has its content and is listed.
THEOREM RowsAreBacked == Spec => []RowsBacked
<1>1. Typed /\ StoreInv => RowsBacked
  <2> SUFFICES ASSUME StoreInv, NEW d \in Docs \ doubtful, Exists(d)
               PROVE  /\ blob[d][row[d].version] # 0
                      /\ <<d, row[d].version>> \in listed \/ Creating(d)
    BY DEF RowsBacked
  <2> QED BY DEF StoreInv, Kept, ContentsBacked, Backed
<1> QED BY <1>1, SpecStoreInv, PTL

\* CurrentKept of DocumentIndex: no step writes or removes the object a row
\* names, since UpdateDocument's next version is newer than the row's even
\* after UploadCover has set the row back.
THEOREM CurrentIsKept == Spec => CurrentKept
<1>1. ASSUME Typed, StoreInv, [Next]_vars
      PROVE  \A d \in Docs \ doubtful' : Exists(d) =>
               blob'[d][row[d].version] = blob[d][row[d].version]
  <2> SUFFICES ASSUME NEW d \in Docs, d \notin doubtful', Exists(d)
               PROVE  blob'[d][row[d].version] = blob[d][row[d].version]
    OBVIOUS
  <2>1. Kept(d) /\ row[d].version \in Versions /\ d \in drawn
    BY <1>1 DEF StoreInv, Typed, Known, TypeOK, StoreTypes, Exists, Rows
  <2>2. CASE UNCHANGED blob
    BY <2>2
  <2>3. ASSUME NEW c \in Docs, Create(c)
        PROVE  blob'[d] = blob[d]
    BY <2>1, <2>3, <1>1 DEF Create, SaveDocument, Typed, TypeOK, StoreTypes
  <2>4. CASE UndoSave
    BY <1>1, <2>1, <2>4, Serving
       DEF UndoSave, Kept, HalfUndone, Typed, TypeOK, StoreTypes, At, Handlers, history
  <2>5. CASE DeleteBlobs
    BY <1>1, <2>1, <2>5, Serving
       DEF DeleteBlobs, Kept, BeingDeleted, Typed, TypeOK, StoreTypes, At, Handlers
  <2>6. CASE SaveVersion
    <3>1. on["update"] = d => target # row[d].version
      <4>1. At("update", "save") /\ target = held["update"] + 1 /\ held["update"] \in Versions
        BY <1>1, <2>6 DEF SaveVersion, Typed, Requests, At
      <4> QED BY <2>1, <4>1 DEF Kept, VersionsOrdered, At, Versions
    <3>2. on["update"] \in Docs /\ target \in Versions
      BY <1>1, <2>6, Serving DEF SaveVersion, At, Handlers, Typed, Requests
    <3> QED BY <1>1, <2>1, <2>6, <3>1, <3>2
            DEF SaveVersion, SaveDocument, Typed, TypeOK, StoreTypes
  <2>7. CASE \/ \E c \in Docs : Request(c) /\ ~Create(c)
             \/ InsertDocument \/ InsertFails \/ RejectUpdate \/ WriteRow
             \/ WriteCover \/ ResetIndexed
             \/ \E h \in {"create", "update"} : ListVersion(h) \/ ListFails(h) \/ Reload(h)
             \/ \E h \in Handlers : Abort(h)
    BY <2>7 DEF Request, Update, Delete, UploadCover, Reindex, InsertDocument, InsertFails,
                RejectUpdate, WriteRow, WriteCover, ResetIndexed, ListVersion, ListFails,
                Reload, Abort, store
  <2>8. CASE (\E e \in Ids : EventStep(e)) \/ IndexerStep \/ UNCHANGED vars
    BY <1>1, <2>8, EventStepKeepsStore, IndexerStepKeepsStore DEF vars, store
  <2> QED BY <1>1, <2>2, <2>3, <2>4, <2>5, <2>6, <2>7, <2>8
          DEF Next, HandlerStep, CreateStep, UpdateStep
<1>2. Typed /\ StoreInv /\ [Next]_vars =>
        [\A d \in Docs \ doubtful' : Exists(d) =>
           blob'[d][row[d].version] = blob[d][row[d].version]]_vars
  BY <1>1
<1> QED BY <1>2, SpecStoreInv, PTL DEF Spec, CurrentKept

\* OnlyCoverSetsBack of DocumentIndex: the version UpdateDocument writes is no
\* older than the row's, whatever has been written since it was computed, and
\* of the other writes of a row only the one of UploadCover can set it back.
THEOREM OnlyCoversSetBack == Spec => OnlyCoverSetsBack
<1>1. ASSUME Typed, StoreInv, [Next]_vars
      PROVE  \A d \in Docs : Exists(d) /\ Exists(d)' /\ row'[d].version < row[d].version =>
               WriteCover /\ on["cover"] = d
  <2> SUFFICES ASSUME NEW d \in Docs, Exists(d), Exists(d)', row'[d].version < row[d].version
               PROVE  WriteCover /\ on["cover"] = d
    OBVIOUS
  <2> USE <1>1
  <2>1. Kept(d) /\ row[d].version \in Versions /\ row'[d].version # row[d].version
    BY DEF StoreInv, Typed, TypeOK, StoreTypes, Exists, Rows, Versions
  <2>2. ~UNCHANGED row
    BY <2>1
  <2>3. ASSUME NEW c \in Docs, Delete(c) PROVE FALSE
    BY <2>1, <2>3 DEF Delete, Typed, TypeOK, StoreTypes, Exists
  <2>4. ~InsertDocument /\ ~InsertFails
    <3> SUFFICES ASSUME InsertDocument \/ InsertFails PROVE FALSE
      OBVIOUS
    <3>1. on["create"] # d
      BY <2>1 DEF InsertDocument, InsertFails, Kept, NotYetCreated
    <3> QED BY <2>1, <3>1 DEF InsertDocument, InsertFails, Typed, TypeOK, StoreTypes
  <2>5. ~WriteRow
    <3> SUFFICES ASSUME WriteRow PROVE FALSE
      OBVIOUS
    <3> DEFINE c == on["update"]
    <3>1. /\ At("update", "write") /\ c \in Docs /\ target \in Versions
          /\ held["update"] \in Versions /\ held["update"] <= target
      BY Serving DEF WriteRow, At, Handlers, Typed, Requests
    <3>2. Exists(c) /\ row' = [row EXCEPT ![c].version = target]
      BY <2>2 DEF WriteRow
    <3>3. c = d /\ row'[d].version = target
      <4>1. row'[c].version = target /\ \A b \in Docs \ {c} : row'[b] = row[b]
        BY <3>1, <3>2, VersionWritten DEF Typed, TypeOK
      <4> QED BY <2>1, <4>1
    <3>4. row[d].version <= held["update"]
      BY <2>1, <3>1, <3>3 DEF Kept, VersionsOrdered, At
    <3> QED BY <2>1, <3>1, <3>3, <3>4 DEF Versions
  <2>6. ~ResetIndexed
    BY <2>1, Serving, FlagWritten DEF ResetIndexed, Typed, TypeOK, At, Handlers
  <2>7. ASSUME NEW e \in Ids, EventStep(e) PROVE FALSE
    BY <2>1, <2>7, EventStepKeepsStore
  <2>8. ASSUME WriteCover PROVE on["cover"] = d
    BY <2>1, <2>8 DEF WriteCover, Typed, TypeOK, StoreTypes
  <2>9. ASSUME NEW c \in Docs, Request(c) PROVE FALSE
    BY <2>2, <2>3, <2>9 DEF Request, Create, Update, UploadCover, Reindex, store
  <2>10. CASE HandlerStep
    BY <2>2, <2>4, <2>5, <2>6, <2>8, <2>10
       DEF HandlerStep, CreateStep, UpdateStep, UndoSave, SaveVersion, RejectUpdate,
           DeleteBlobs, ListVersion, ListFails, Reload, Abort, store
  <2>11. ~IndexerStep /\ ~UNCHANGED vars
    BY <2>2, IndexerStepKeepsStore DEF vars, store
  <2> QED BY <2>7, <2>9, <2>10, <2>11 DEF Next
<1>2. Typed /\ StoreInv /\ [Next]_vars =>
        [\A d \in Docs : Exists(d) /\ Exists(d)' /\ row'[d].version < row[d].version =>
           WriteCover /\ on["cover"] = d]_vars
  BY <1>1
<1> QED BY <1>2, SpecStoreInv, PTL DEF Spec, OnlyCoverSetsBack

=============================================================================
