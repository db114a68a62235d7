------------------------ MODULE DocumentSearch_proofs ------------------------
(***************************************************************************)
(* Theorems of DocumentIndex about the vector store: a document that is    *)
(* flagged indexed is in it, and a document with nothing under way is in   *)
(* it with its current content, for any number of documents, events and    *)
(* faults.                                                                 *)
(***************************************************************************)
EXTENDS DocumentIndex_proofs

\* An outcome that says success has its chunks in the vector store.
SuccessIsWritten ==
  \A e \in Ids : ok[e] => e \in Recorded /\ \E p \in points : p[1] = Doc(e)

OutcomeInv == SuccessIsWritten /\ IndexedIsFound

-----------------------------------------------------------------------------
\* Recorded events stay as they are.
LEMMA RecordedStay ==
  ASSUME Typed, NEW k, NEW d, NEW v, GoPublish(k, d, v)
  PROVE  /\ Recorded \subseteq Recorded' /\ Len(evt) + 1 \in Recorded'
         /\ \A e \in Recorded : evt'[e] = evt[e] /\ stage'[e] = stage[e] /\ gen'[e] = gen[e]
         /\ evt'[Len(evt) + 1] = [kind |-> k, doc |-> d, version |-> v]
         /\ stage'[Len(evt) + 1] = "publishing"
<1>1. /\ evt \in Seq(Events) /\ Len(evt) \in Nat /\ Len(evt) < MaxEvents
      /\ evt' = Append(evt, [kind |-> k, doc |-> d, version |-> v])
      /\ stage' = [stage EXCEPT ![Len(evt) + 1] = "publishing"]
      /\ stage \in [Ids -> Stages] /\ UNCHANGED gen
  BY DEF GoPublish, Typed, TypeOK, EventTypes
<1>2. Len(evt') = Len(evt) + 1 /\ \A e \in 1..Len(evt) : evt'[e] = evt[e]
  BY <1>1
<1> QED BY <1>1, <1>2, BoundsAssumption DEF Recorded, Ids

LEMMA OutcomeKept ==
  ASSUME OutcomeInv, UNCHANGED ok, points \subseteq points', Recorded \subseteq Recorded',
         \A e \in Recorded : evt'[e] = evt[e],
         \A d \in Docs : row'[d].indexed => row[d].indexed
  PROVE  OutcomeInv'
BY DEF OutcomeInv, SuccessIsWritten, IndexedIsFound, Doc

LEMMA HandlerKeepsOutcomes ==
  ASSUME Typed, OutcomeInv, (\E d \in Docs : Request(d)) \/ HandlerStep
  PROVE  OutcomeInv'
<1>1. UNCHANGED <<ok, points>>
  BY DEF Request, Create, Update, Delete, UploadCover, Reindex, HandlerStep, CreateStep,
         InsertDocument, InsertFails, UndoSave, UpdateStep, SaveVersion, RejectUpdate,
         WriteRow, DeleteBlobs, WriteCover, ResetIndexed, ListVersion, ListFails, Reload,
         GoPublish, Abort, event, indexer
<1>2. Recorded \subseteq Recorded' /\ \A e \in Recorded : evt'[e] = evt[e]
  <2>1. ASSUME NEW k, NEW d, NEW v, GoPublish(k, d, v)
        PROVE  Recorded \subseteq Recorded' /\ \A e \in Recorded : evt'[e] = evt[e]
    BY <2>1, RecordedStay
  <2>2. CASE UNCHANGED evt
    BY <2>2 DEF Recorded
  <2>3. UNCHANGED evt \/ \E k, d, v : GoPublish(k, d, v)
    BY DEF Request, Create, Update, Delete, UploadCover, Reindex, HandlerStep, CreateStep,
           InsertDocument, InsertFails, UndoSave, UpdateStep, SaveVersion, RejectUpdate,
           WriteRow, DeleteBlobs, WriteCover, ResetIndexed, ListVersion, ListFails, Reload,
           Abort, event
  <2> QED BY <2>1, <2>2, <2>3
<1>3. ASSUME NEW d \in Docs PROVE row'[d].indexed => row[d].indexed
  <2>1. CASE UNCHANGED row
    BY <2>1
  <2>2. ASSUME NEW c \in Docs, Delete(c) PROVE row'[d].indexed => row[d].indexed
    BY <2>2 DEF Delete, Absent, Typed, TypeOK, StoreTypes
  <2>3. CASE InsertDocument \/ InsertFails
    BY <2>3, Serving
       DEF InsertDocument, InsertFails, NewRow, At, Handlers, Typed, TypeOK, StoreTypes
  <2>4. CASE WriteRow
    BY <2>4, <2>1, Serving, VersionWritten DEF WriteRow, At, Handlers, Typed, TypeOK
  <2>5. CASE WriteCover
    BY <2>5, <2>1, Serving, VersionWritten DEF WriteCover, At, Handlers, Typed, TypeOK
  <2>6. CASE ResetIndexed
    BY <2>6, Serving, FlagWritten DEF ResetIndexed, At, Handlers, Typed, TypeOK
  <2>7. \/ UNCHANGED row \/ \E c \in Docs : Delete(c)
        \/ InsertDocument \/ InsertFails \/ WriteRow \/ WriteCover \/ ResetIndexed
    BY DEF Request, Create, Update, UploadCover, Reindex, HandlerStep, CreateStep,
           UndoSave, UpdateStep, SaveVersion, RejectUpdate, DeleteBlobs, ListVersion,
           ListFails, Reload, Abort, store
  <2> QED BY <2>1, <2>2, <2>3, <2>4, <2>5, <2>6, <2>7
<1> QED BY <1>1, <1>2, <1>3, OutcomeKept

LEMMA EventKeepsOutcomes ==
  ASSUME Typed, OutcomeInv, NEW e \in Ids, EventStep(e)
  PROVE  OutcomeInv'
<1>1. CASE WritePoints(e)
  <2>1. /\ stage[e] = "loaded" /\ ok' = [ok EXCEPT ![e] = TRUE]
        /\ points' = points \cup {Loaded(e)} /\ UNCHANGED <<row, evt>>
    BY <1>1 DEF WritePoints, store
  <2>2. e \in Recorded /\ Loaded(e)[1] = Doc(e)
    BY <2>1, EventFields DEF Loaded
  <2>3. SuccessIsWritten'
    <3> SUFFICES ASSUME NEW i \in Ids, ok'[i]
                 PROVE  i \in Recorded' /\ \E p \in points' : p[1] = Doc(i)'
      BY DEF SuccessIsWritten
    <3>1. Recorded' = Recorded /\ Doc(i)' = Doc(i)
      BY <2>1 DEF Recorded, Doc
    <3>2. CASE i = e
      BY <2>1, <2>2, <3>1, <3>2
    <3>3. CASE i # e
      BY <2>1, <3>1, <3>3 DEF OutcomeInv, SuccessIsWritten, Typed, TypeOK, EventTypes
    <3> QED BY <3>2, <3>3
  <2>4. IndexedIsFound'
    BY <2>1 DEF OutcomeInv, IndexedIsFound
  <2> QED BY <2>3, <2>4 DEF OutcomeInv
<1>2. CASE Handle(e) \/ HandleFails(e)
  <2>1. /\ stage[e] = "stored" /\ (UNCHANGED row \/ MarkIndexed(e))
        /\ UNCHANGED <<evt, ok, points>>
    BY <1>2 DEF Handle, HandleFails, Deliver, indexer
  <2>2. SuccessIsWritten'
    BY <2>1 DEF OutcomeInv, SuccessIsWritten, Recorded, Doc
  <2>3. ASSUME NEW d \in Docs, row'[d].indexed
        PROVE  \E p \in points : p[1] = d
    <3>1. CASE row[d].indexed
      BY <3>1 DEF OutcomeInv, IndexedIsFound
    <3>2. CASE ~row[d].indexed
      <4>1. MarkIndexed(e) /\ Doc(e) \in Docs
        BY <2>1, <2>3, <3>2, EventFields
      <4>2. d = Doc(e) /\ ok[e]
        BY <2>3, <3>2, <4>1, FlagWritten DEF MarkIndexed, Typed, TypeOK
      <4> QED BY <4>2 DEF OutcomeInv, SuccessIsWritten
    <3> QED BY <3>1, <3>2
  <2> QED BY <2>1, <2>2, <2>3 DEF OutcomeInv, IndexedIsFound
<1>3. CASE \/ Publish(e) \/ PublishFails(e) \/ WriteFails(e) \/ Report(e) \/ ReportFails(e)
  <2>1. UNCHANGED <<row, evt, ok>> /\ points \subseteq points'
    BY <1>3 DEF Publish, PublishFails, WriteFails, Report, ReportFails, store, indexer
  <2> QED BY <2>1, OutcomeKept DEF Recorded
<1> QED BY <1>1, <1>2, <1>3 DEF EventStep

LEMMA SpecOutcomes == Spec => [](Typed /\ OutcomeInv)
<1>1. Init => Typed /\ OutcomeInv
  <2>1. Init => OutcomeInv
    BY DEF Init, OutcomeInv, SuccessIsWritten, IndexedIsFound, Absent
  <2> QED BY <2>1, InitTyped
<1>2. Typed /\ OutcomeInv /\ [Next]_vars => (Typed /\ OutcomeInv)'
  <2> SUFFICES ASSUME Typed, OutcomeInv, [Next]_vars PROVE OutcomeInv'
    BY NextTyped
  <2>1. CASE IndexerStep \/ UNCHANGED vars
    <3>1. UNCHANGED <<row, evt, ok, points>>
      BY <2>1 DEF IndexerStep, Stop, Start, Load, vars, store, event, indexer
    <3> QED BY <3>1, OutcomeKept DEF Recorded
  <2> QED BY <2>1, HandlerKeepsOutcomes, EventKeepsOutcomes DEF Next
<1> QED BY <1>1, <1>2, PTL DEF Spec

\* IndexedIsFound of DocumentIndex: HandleDocumentIndexed sets the flag of
\* documents that the vector store holds only, in whatever order and however
\* often outcomes are delivered.
THEOREM IndexedAreFound == Spec => []IndexedIsFound
<1>1. Typed /\ OutcomeInv => IndexedIsFound
  BY DEF OutcomeInv
<1> QED BY <1>1, SpecOutcomes, PTL

-----------------------------------------------------------------------------
\* The content a row names is in the vector store or on its way there: with an
\* event that has not been read, or was read since the content was written, or
\* with a handler that has yet to publish one.
Carries(e, d, v) ==
  /\ Doc(e) = d /\ evt[e].version = v
  /\ \/ stage[e] \in {"publishing", "queued"}
     \/ stage[e] = "loaded" /\ gen[e] = blob[d][v]
BeingWritten(d) ==
  \/ on["create"] = d /\ (At("create", "list") \/ At("create", "reload"))
  \/ on["update"] = d /\ At("update", "reload")
Underway(d) ==
  Exists(d) /\ d \notin spoiled =>
    \/ Content(d, row[d].version) \in points
    \/ BeingWritten(d)
    \/ \E e \in Recorded : Carries(e, d, row[d].version)
SearchInv == \A d \in Docs : Underway(d)

\* What a step must leave alone.
LEMMA UnderwayKept ==
  ASSUME NEW d \in Docs, Underway(d), points \subseteq points', spoiled \subseteq spoiled',
         Exists(d)' /\ d \notin spoiled' =>
           /\ Exists(d) /\ row'[d].version = row[d].version
           /\ blob'[d][row[d].version] = blob[d][row[d].version]
           /\ BeingWritten(d) => BeingWritten(d)'
           /\ \A e \in Recorded : Carries(e, d, row[d].version) =>
                \/ e \in Recorded' /\ Carries(e, d, row[d].version)'
                \/ Content(d, row[d].version) \in points'
  PROVE  Underway(d)'
<1> SUFFICES ASSUME Exists(d)', d \notin spoiled'
             PROVE  \/ Content(d, row[d].version)' \in points'
                    \/ BeingWritten(d)'
                    \/ \E e \in Recorded' : Carries(e, d, row[d].version)'
  BY DEF Underway
<1>1. /\ Exists(d) /\ d \notin spoiled /\ row'[d].version = row[d].version
      /\ Content(d, row[d].version)' = Content(d, row[d].version)
  BY DEF Content
<1>2. CASE Content(d, row[d].version) \in points
  BY <1>1, <1>2 DEF Content
<1>3. CASE BeingWritten(d)
  BY <1>1, <1>3
<1>4. ASSUME NEW e \in Recorded, Carries(e, d, row[d].version)
      PROVE  \/ Content(d, row[d].version)' \in points'
             \/ \E i \in Recorded' : Carries(i, d, row[d].version)'
  BY <1>1, <1>4 DEF Content, Carries, Doc
<1> QED BY <1>1, <1>2, <1>3, <1>4 DEF Underway

\* The same where no event changes.
LEMMA EventsSame ==
  ASSUME NEW d \in Docs, Underway(d), UNCHANGED <<event, points>>, spoiled \subseteq spoiled',
         Exists(d)' /\ d \notin spoiled' =>
           /\ Exists(d) /\ row'[d].version = row[d].version
           /\ blob'[d][row[d].version] = blob[d][row[d].version]
           /\ BeingWritten(d) => BeingWritten(d)'
  PROVE  Underway(d)'
<1>1. Exists(d)' /\ d \notin spoiled' =>
        \A e \in Recorded : Carries(e, d, row[d].version) =>
          e \in Recorded' /\ Carries(e, d, row[d].version)'
  BY DEF event, Recorded, Carries, Doc
<1> QED BY <1>1, UnderwayKept

\* And where one more is recorded.
LEMMA OneMoreEvent ==
  ASSUME Typed, NEW d \in Docs, Underway(d), UNCHANGED <<blob, points>>,
         spoiled \subseteq spoiled', NEW k, NEW c, NEW v, GoPublish(k, c, v),
         Exists(d)' /\ d \notin spoiled' =>
           /\ Exists(d) /\ row'[d].version = row[d].version
           /\ BeingWritten(d) => BeingWritten(d)' \/ (c = d /\ v = row[d].version)
  PROVE  Underway(d)'
<1>1. /\ Recorded \subseteq Recorded' /\ Len(evt) + 1 \in Recorded'
      /\ \A e \in Recorded : evt'[e] = evt[e] /\ stage'[e] = stage[e] /\ gen'[e] = gen[e]
      /\ evt'[Len(evt) + 1] = [kind |-> k, doc |-> c, version |-> v]
      /\ stage'[Len(evt) + 1] = "publishing"
  BY RecordedStay
<1>2. Exists(d)' /\ d \notin spoiled' =>
        \A e \in Recorded : Carries(e, d, row[d].version) =>
          e \in Recorded' /\ Carries(e, d, row[d].version)'
  BY <1>1 DEF Carries, Doc
<1>3. CASE c = d /\ v = row[d].version /\ Exists(d)' /\ d \notin spoiled'
  <2>1. \E e \in Recorded' : Carries(e, d, row[d].version)'
    <3>1. PICK e \in Recorded' : e = Len(evt) + 1
      BY <1>1
    <3>2. Carries(e, d, row[d].version)'
      BY <1>1, <1>3, <3>1 DEF Carries, Doc
    <3> QED BY <3>2
  <2> QED BY <1>1, <2>1 DEF Underway
<1>4. CASE ~(c = d /\ v = row[d].version /\ Exists(d)' /\ d \notin spoiled')
  BY <1>2, <1>4, UnderwayKept
<1> QED BY <1>3, <1>4

-----------------------------------------------------------------------------
\* Requests that begin: the handler was idle.
LEMMA RequestKeepsSearch ==
  ASSUME Typed, SearchInv, NEW c \in Docs, Request(c)
  PROVE  SearchInv'
<1> SUFFICES ASSUME NEW d \in Docs PROVE Underway(d)'
  BY DEF SearchInv
<1>1. Underway(d) /\ UNCHANGED <<event, points, spoiled>>
  BY DEF SearchInv, Request, Create, Update, Delete, UploadCover, Reindex, indexer, history
<1>2. PICK h \in Handlers, s \in Steps : Accept(h, c, s)
  BY DEF Request, Create, Update, Delete, UploadCover, Reindex, Handlers, Steps, FirstStep
<1>3. /\ At(h, "idle") /\ on[h] # d
      /\ \A g \in Handlers \ {h} : on'[g] = on[g] /\ pc'[g] = pc[g]
  BY <1>2, IdleServesNone DEF Accept, Goto, Typed, TypeOK, RequestTypes
<1>4. BeingWritten(d) => BeingWritten(d)'
  BY <1>3 DEF BeingWritten, At, Handlers
<1>5. CASE Create(c)
  <2>1. d # c => blob'[d] = blob[d] /\ row'[d] = row[d]
    BY <1>5 DEF Create, SaveDocument, Typed, TypeOK, StoreTypes
  <2>2. ~Exists(c)'
    BY <1>5 DEF Create, Exists, Typed, Known
  <2> QED BY <1>1, <1>4, <2>1, <2>2, EventsSame DEF Exists
<1>6. CASE Delete(c)
  <2>1. UNCHANGED blob /\ (d # c => row'[d] = row[d]) /\ ~Exists(c)'
    BY <1>6 DEF Delete, Typed, TypeOK, StoreTypes, Exists
  <2> QED BY <1>1, <1>4, <2>1, EventsSame DEF Exists
<1>7. CASE Update(c) \/ UploadCover(c) \/ Reindex(c)
  <2>1. UNCHANGED <<row, blob>>
    BY <1>7 DEF Update, UploadCover, Reindex, store
  <2> QED BY <1>1, <1>4, <2>1, EventsSame DEF Exists
<1> QED BY <1>5, <1>6, <1>7 DEF Request

-----------------------------------------------------------------------------
\* The steps of CreateDocument.
LEMMA CreateKeepsSearch ==
  ASSUME Typed, StoreInv, SearchInv, CreateStep
  PROVE  SearchInv'
<1> DEFINE c == on["create"]
<1> SUFFICES ASSUME NEW d \in Docs PROVE Underway(d)'
  BY DEF SearchInv
<1>1. /\ Underway(d) /\ Kept(d) /\ c \in Docs
      /\ UNCHANGED <<event, points>> /\ spoiled \subseteq spoiled'
  BY Serving DEF SearchInv, StoreInv, CreateStep, InsertDocument, InsertFails, UndoSave,
                 indexer, history, At, Handlers
<1>2. \A g \in Handlers \ {"create"} : on'[g] = on[g] /\ pc'[g] = pc[g]
  BY DEF CreateStep, InsertDocument, InsertFails, UndoSave, Return, Goto,
         Typed, TypeOK, RequestTypes
<1>3. d # c => (BeingWritten(d) => BeingWritten(d)')
  BY <1>2 DEF BeingWritten, At, Handlers
<1>4. CASE InsertDocument
  <2>1. d = c => BeingWritten(d)'
    BY <1>4 DEF InsertDocument, Goto, BeingWritten, At, Typed, TypeOK, RequestTypes, Handlers
  <2>2. UNCHANGED blob /\ (d # c => row'[d] = row[d])
    BY <1>4 DEF InsertDocument, Typed, TypeOK, StoreTypes
  <2>3. CASE d = c
    BY <2>1, <2>3 DEF Underway
  <2>4. CASE d # c
    BY <1>1, <1>3, <2>2, <2>4, EventsSame DEF Exists
  <2> QED BY <2>3, <2>4
<1>5. CASE InsertFails
  <2>1. UNCHANGED blob /\ (d # c => row'[d] = row[d])
    BY <1>5 DEF InsertFails, Typed, TypeOK, StoreTypes
  <2>2. d = c => ~Exists(d)' \/ d \in spoiled'
    BY <1>1, <1>5 DEF InsertFails, Kept, NotYetCreated, Exists, history
  <2> QED BY <1>1, <1>3, <2>1, <2>2, EventsSame DEF Exists
<1>6. CASE UndoSave
  <2>1. UNCHANGED <<row, spoiled>> /\ (d # c => blob'[d] = blob[d])
    BY <1>6 DEF UndoSave, Typed, TypeOK, StoreTypes, history
  <2>2. d = c => ~Exists(d)' \/ d \in spoiled'
    BY <1>1, <1>6, <2>1 DEF UndoSave, Kept, HalfUndone, Exists
  <2> QED BY <1>1, <1>3, <2>1, <2>2, EventsSame DEF Exists
<1> QED BY <1>4, <1>5, <1>6 DEF CreateStep

\* The steps of both CreateDocument and UpdateDocument.
LEMMA ListKeepsSearch ==
  ASSUME Typed, SearchInv, NEW h \in {"create", "update"}, ListVersion(h) \/ ListFails(h)
  PROVE  SearchInv'
<1> SUFFICES ASSUME NEW d \in Docs PROVE Underway(d)'
  BY DEF SearchInv
<1>1. /\ Underway(d) /\ At(h, "list")
      /\ UNCHANGED <<row, blob, on, event, points, spoiled>>
      /\ pc' = [pc EXCEPT ![h] = AfterList(h)]
  BY DEF SearchInv, ListVersion, ListFails, Goto, store, indexer, history
<1>2. BeingWritten(d) => BeingWritten(d)'
  BY <1>1 DEF BeingWritten, At, AfterList, Typed, TypeOK, RequestTypes, Handlers
<1> QED BY <1>1, <1>2, EventsSame DEF Exists

LEMMA ReloadKeepsSearch ==
  ASSUME Typed, SearchInv, NEW h \in {"create", "update"}, Reload(h)
  PROVE  SearchInv'
<1> SUFFICES ASSUME NEW d \in Docs PROVE Underway(d)'
  BY DEF SearchInv
<1>1. Underway(d) /\ UNCHANGED <<row, blob, points, spoiled>>
  BY DEF SearchInv, Reload, store, indexer, history
<1>2. \A g \in Handlers \ {h} : on'[g] = on[g] /\ pc'[g] = pc[g]
  BY DEF Reload, Return, Goto, Typed, TypeOK, RequestTypes
<1>3. d # on[h] => (BeingWritten(d) => BeingWritten(d)')
  BY <1>2 DEF BeingWritten, At, Handlers
<1>4. CASE Exists(on[h]) /\ GoPublish(EventKind(h), on[h], EventVersion(h))
  BY <1>1, <1>3, <1>4, OneMoreEvent DEF EventVersion, Exists
<1>5. CASE ~Exists(on[h]) /\ UNCHANGED event
  BY <1>1, <1>3, <1>5, EventsSame DEF Exists
<1> QED BY <1>4, <1>5 DEF Reload

-----------------------------------------------------------------------------
\* The steps of UpdateDocument.
LEMMA UpdateKeepsSearch ==
  ASSUME Typed, StoreInv, SearchInv, UpdateStep
  PROVE  SearchInv'
<1> DEFINE c == on["update"]
<1> SUFFICES ASSUME NEW d \in Docs PROVE Underway(d)'
  BY DEF SearchInv
<1>1. /\ Underway(d) /\ Kept(d) /\ c \in Docs /\ target \in Versions
      /\ UNCHANGED <<event, points, spoiled>>
      /\ At("update", "save") \/ At("update", "write")
  BY Serving DEF SearchInv, StoreInv, UpdateStep, SaveVersion, RejectUpdate, WriteRow,
                 indexer, history, At, Handlers, Typed, Requests
<1>2. \A g \in Handlers \ {"update"} : on'[g] = on[g] /\ pc'[g] = pc[g]
  BY DEF UpdateStep, SaveVersion, RejectUpdate, WriteRow, Return, Goto,
         Typed, TypeOK, RequestTypes
<1>3. BeingWritten(d) => BeingWritten(d)'
  BY <1>1, <1>2 DEF BeingWritten, At, Handlers
<1>4. CASE SaveVersion
  <2>1. /\ At("update", "save") /\ target = held["update"] + 1 /\ held["update"] \in Versions
        /\ Exists(d) => row[d].version \in Versions
    BY <1>4 DEF SaveVersion, Typed, Requests, At, TypeOK, StoreTypes, Exists, Rows
  <2>2. Exists(d) /\ d = c => target # row[d].version
    BY <1>1, <2>1 DEF Kept, VersionsOrdered, At, Versions
  <2>3. UNCHANGED row /\ (Exists(d) => blob'[d][row[d].version] = blob[d][row[d].version])
    BY <1>1, <1>4, <2>1, <2>2 DEF SaveVersion, SaveDocument, Typed, TypeOK, StoreTypes
  <2> QED BY <1>1, <1>3, <2>3, EventsSame DEF Exists
<1>5. CASE UNCHANGED <<row, blob>>
  BY <1>1, <1>3, <1>5, EventsSame DEF Exists
<1>6. CASE WriteRow /\ Exists(c)
  <2>1. d = c => BeingWritten(d)'
    BY <1>6 DEF WriteRow, Goto, BeingWritten, At, Typed, TypeOK, RequestTypes, Handlers
  <2>2. UNCHANGED blob /\ (d # c => row'[d] = row[d])
    BY <1>6 DEF WriteRow, Typed, TypeOK, StoreTypes
  <2>3. CASE d = c
    BY <2>1, <2>3 DEF Underway
  <2>4. CASE d # c
    BY <1>1, <1>3, <2>2, <2>4, EventsSame DEF Exists
  <2> QED BY <2>3, <2>4
<1> QED BY <1>4, <1>5, <1>6 DEF UpdateStep, RejectUpdate, WriteRow, store

\* The last steps of DeleteDocument, UploadCover and ReindexDocument.
LEMMA OtherHandlersKeepSearch ==
  ASSUME Typed, StoreInv, SearchInv, DeleteBlobs \/ WriteCover \/ ResetIndexed
  PROVE  SearchInv'
<1> SUFFICES ASSUME NEW d \in Docs PROVE Underway(d)'
  BY DEF SearchInv
<1>1. /\ Underway(d) /\ Kept(d) /\ UNCHANGED points /\ spoiled \subseteq spoiled'
      /\ \A g \in {"create", "update"} : on'[g] = on[g] /\ pc'[g] = pc[g]
  BY DEF SearchInv, StoreInv, DeleteBlobs, WriteCover, ResetIndexed, Return, Goto,
         Typed, TypeOK, RequestTypes, Handlers, indexer, history
<1>2. BeingWritten(d) => BeingWritten(d)'
  BY <1>1 DEF BeingWritten, At
<1>3. CASE DeleteBlobs
  <2>1. UNCHANGED <<row, event>> /\ on["delete"] \in Docs
    BY <1>3, Serving DEF DeleteBlobs, At, Handlers
  <2>2. Exists(d) => d # on["delete"] /\ blob'[d] = blob[d]
    BY <1>1, <1>3, <2>1 DEF Kept, BeingDeleted, DeleteBlobs, Typed, TypeOK, StoreTypes
  <2> QED BY <1>1, <1>2, <2>1, <2>2, EventsSame DEF Exists
<1>4. CASE WriteCover
  <2>1. UNCHANGED <<blob, event>> /\ on["cover"] \in Docs /\ held["cover"] \in Versions
    BY <1>4, Serving DEF WriteCover, At, Handlers, Typed, Requests
  <2>2. Exists(d)' /\ d \notin spoiled' => Exists(d) /\ row'[d].version = row[d].version
    <3>1. CASE UNCHANGED row
      BY <3>1 DEF Exists
    <3>2. CASE /\ Exists(on["cover"])
               /\ row' = [row EXCEPT ![on["cover"]].version = held["cover"]]
      <4>1. /\ row'[on["cover"]].version = held["cover"]
            /\ \A b \in Docs \ {on["cover"]} : row'[b] = row[b]
        BY <2>1, <3>2, VersionWritten DEF Typed, TypeOK
      <4>2. \A b \in Docs : Exists(b)' = Exists(b)
        BY <1>4, <2>1, <3>2, ColumnTypes DEF WriteCover, Typed, TypeOK
      <4>3. d = on["cover"] /\ d \notin spoiled' => row[d].version = held["cover"]
        BY <1>4, <3>2 DEF WriteCover
      <4> QED BY <4>1, <4>2, <4>3
    <3> QED BY <1>4, <3>1, <3>2 DEF WriteCover
  <2> QED BY <1>1, <1>2, <2>1, <2>2, EventsSame
<1>5. CASE ResetIndexed
  <2>1. /\ on["reindex"] \in Docs /\ UNCHANGED <<blob, spoiled>>
        /\ GoPublish("updated", on["reindex"], held["reindex"])
    BY <1>5, Serving DEF ResetIndexed, At, Handlers, history
  <2>2. \A b \in Docs : Exists(b)' = Exists(b)
    BY <1>5, <2>1, ColumnTypes, StoreKept DEF ResetIndexed, store, Typed, TypeOK
  <2>3. \A b \in Docs : row'[b].version = row[b].version
    BY <1>5, <2>1, FlagWritten DEF ResetIndexed, Typed, TypeOK
  <2> QED BY <1>1, <1>2, <2>1, <2>2, <2>3, OneMoreEvent
<1> QED BY <1>3, <1>4, <1>5

LEMMA AbortKeepsSearch ==
  ASSUME Typed, SearchInv, NEW h \in Handlers, Abort(h)
  PROVE  SearchInv'
<1> SUFFICES ASSUME NEW d \in Docs PROVE Underway(d)'
  BY DEF SearchInv
<1>1. /\ Underway(d) /\ UNCHANGED <<row, blob, event, points>> /\ spoiled \subseteq spoiled'
      /\ \A g \in Handlers \ {h} : on'[g] = on[g] /\ pc'[g] = pc[g]
  BY DEF SearchInv, Abort, Return, Goto, Typed, TypeOK, RequestTypes, store, indexer
<1>2. d \notin spoiled' /\ BeingWritten(d) => BeingWritten(d)'
  BY <1>1 DEF BeingWritten, Abort, Creating, At, Handlers
<1> QED BY <1>1, <1>2, EventsSame DEF Exists

-----------------------------------------------------------------------------
\* Events.  A step of an event changes that event only.
LEMMA EventKeepsSearch ==
  ASSUME Typed, StoreInv, SearchInv, NEW e \in Ids, EventStep(e)
  PROVE  SearchInv'
<1> SUFFICES ASSUME NEW d \in Docs PROVE Underway(d)'
  BY DEF SearchInv
<1>1. /\ Underway(d) /\ spoiled \subseteq spoiled' /\ UNCHANGED <<blob, request>>
      /\ Exists(d)' = Exists(d) /\ row'[d].version = row[d].version
  BY EventStepKeepsStore DEF SearchInv
<1>2. /\ points \subseteq points' /\ UNCHANGED <<evt, gen>>
      /\ \A i \in Ids \ {e} : stage'[i] = stage[i]
  BY DEF EventStep, Publish, PublishFails, WritePoints, WriteFails, Report, ReportFails,
         Handle, HandleFails, Move, Lose, indexer, Typed, TypeOK, EventTypes
<1>3. Recorded' = Recorded /\ Recorded \subseteq Ids /\ \A i : Doc(i)' = Doc(i)
  BY <1>2, RecordedIds DEF Recorded, Doc
<1>4. BeingWritten(d) => BeingWritten(d)'
  BY <1>1 DEF BeingWritten, At, request
<1>5. ASSUME NEW i \in Recorded \ {e}, Carries(i, d, row[d].version)
      PROVE  Carries(i, d, row[d].version)'
  BY <1>1, <1>2, <1>3, <1>5 DEF Carries
<1>6. ASSUME Carries(e, d, row[d].version), d \notin spoiled'
      PROVE  \/ Carries(e, d, row[d].version)'
             \/ Content(d, row[d].version) \in points'
  <2>1. stage[e] \in {"publishing", "queued", "loaded"} /\ Doc(e) = d
    BY <1>6 DEF Carries
  <2>2. CASE WritePoints(e)
    BY <1>6, <2>2 DEF WritePoints, Carries, Loaded, Content
  <2>3. CASE Publish(e)
    <3>1. stage'[e] = "queued"
      BY <1>6, <2>1, <2>3 DEF Publish, Lose, Move, Typed, TypeOK, EventTypes
    <3> QED BY <1>1, <1>2, <1>3, <1>6, <3>1 DEF Carries
  <2>4. CASE PublishFails(e) \/ WriteFails(e)
    BY <1>6, <2>1, <2>4 DEF PublishFails, WriteFails, Lose
  <2>5. CASE Report(e) \/ ReportFails(e) \/ Handle(e) \/ HandleFails(e)
    BY <2>1, <2>5 DEF Report, ReportFails, Handle, HandleFails, Deliver
  <2> QED BY <2>2, <2>3, <2>4, <2>5 DEF EventStep
<1> QED BY <1>1, <1>2, <1>3, <1>4, <1>5, <1>6, UnderwayKept

\* The worker that takes an event reads what its path holds now.
LEMMA LoadKeepsSearch ==
  ASSUME Typed, SearchInv, NEW k \in Kinds, Load(k)
  PROVE  SearchInv'
<1> SUFFICES ASSUME NEW d \in Docs PROVE Underway(d)'
  BY DEF SearchInv
<1>1. /\ Underway(d) /\ UNCHANGED <<row, blob, request, evt, points>>
      /\ spoiled \subseteq spoiled'
  BY DEF SearchInv, Load, store
<1>2. PICK e \in Recorded : e = Head(queue[k]) /\ e \in Ids
  <2>1. queue[k] \in Seq(Recorded) /\ queue[k] # <<>>
    BY DEF Typed, TypeOK, IndexerTypes, Load
  <2> QED BY <2>1, TailType, RecordedIds
<1>3. Recorded' = Recorded /\ Recorded \subseteq Ids /\ \A i : Doc(i)' = Doc(i)
  BY <1>1, RecordedIds DEF Recorded, Doc
<1>4. /\ \A i \in Ids \ {e} : stage'[i] = stage[i] /\ gen'[i] = gen[i]
      /\ \/ stage'[e] = "loaded" /\ gen'[e] = blob[Doc(e)][evt[e].version]
         \/ Doc(e) \in spoiled'
  BY <1>2 DEF Load, Move, Typed, TypeOK, EventTypes
<1>5. BeingWritten(d) => BeingWritten(d)'
  BY <1>1 DEF BeingWritten, At, request
<1>6. ASSUME NEW i \in Recorded \ {e}, Carries(i, d, row[d].version)
      PROVE  Carries(i, d, row[d].version)'
  BY <1>1, <1>3, <1>4, <1>6 DEF Carries
<1>7. ASSUME Carries(e, d, row[d].version), d \notin spoiled'
      PROVE  Carries(e, d, row[d].version)'
  <2>1. Doc(e) = d /\ evt[e].version = row[d].version
    BY <1>7 DEF Carries
  <2>2. stage'[e] = "loaded" /\ gen'[e] = blob[d][row[d].version]
    BY <1>4, <1>7, <2>1
  <2> QED BY <1>1, <1>3, <2>1, <2>2 DEF Carries
<1> QED BY <1>1, <1>3, <1>5, <1>6, <1>7, UnderwayKept DEF Exists

LEMMA StopStartKeepsSearch ==
  ASSUME Typed, SearchInv, Stop \/ Start
  PROVE  SearchInv'
<1> SUFFICES ASSUME NEW d \in Docs PROVE Underway(d)'
  BY DEF SearchInv
<1>1. /\ Underway(d) /\ UNCHANGED <<row, blob, request, evt, gen, points>>
      /\ spoiled \subseteq spoiled'
  BY DEF SearchInv, Stop, Start, store, event, history
<1>2. Recorded' = Recorded /\ Recorded \subseteq Ids /\ \A i : Doc(i)' = Doc(i)
  BY <1>1, RecordedIds DEF Recorded, Doc
<1>3. BeingWritten(d) => BeingWritten(d)'
  BY <1>1 DEF BeingWritten, At, request
<1>4. ASSUME NEW i \in Recorded, Carries(i, d, row[d].version), d \notin spoiled'
      PROVE  Carries(i, d, row[d].version)'
  <2>1. CASE UNCHANGED stage
    BY <1>1, <1>2, <1>4, <2>1 DEF Carries
  <2>2. CASE Stop
    <3>1. Doc(i) = d /\ stage'[i] = IF i \in Held THEN "gone" ELSE stage[i]
      BY <1>2, <1>4, <2>2 DEF Carries, Stop
    <3>2. i \notin Held
      BY <1>4, <2>2, <3>1 DEF Stop
    <3> QED BY <1>1, <1>2, <1>4, <3>1, <3>2 DEF Carries
  <2> QED BY <2>1, <2>2 DEF Start, event
<1> QED BY <1>1, <1>2, <1>3, <1>4, UnderwayKept DEF Exists

-----------------------------------------------------------------------------
LEMMA NextKeepsSearch ==
  Typed /\ StoreInv /\ SearchInv /\ [Next]_vars => SearchInv'
<1> SUFFICES ASSUME Typed, StoreInv, SearchInv, [Next]_vars PROVE SearchInv'
  OBVIOUS
<1>1. CASE HandlerStep
  <2>1. CASE CreateStep \/ UpdateStep \/ DeleteBlobs \/ WriteCover \/ ResetIndexed
    BY <2>1, CreateKeepsSearch, UpdateKeepsSearch, OtherHandlersKeepSearch
  <2>2. ASSUME NEW h \in {"create", "update"}, ListVersion(h) \/ ListFails(h) \/ Reload(h)
        PROVE  SearchInv'
    BY <2>2, ListKeepsSearch, ReloadKeepsSearch
  <2> QED BY <1>1, <2>1, <2>2, AbortKeepsSearch DEF HandlerStep
<1>2. CASE IndexerStep
  BY <1>2, LoadKeepsSearch, StopStartKeepsSearch DEF IndexerStep
<1>3. CASE UNCHANGED vars
  BY <1>3, EventsSame DEF SearchInv, vars, store, request, indexer, history, Exists,
                          BeingWritten, At
<1> QED BY <1>1, <1>2, <1>3, RequestKeepsSearch, EventKeepsSearch DEF Next

LEMMA SpecSearch == Spec => [](Typed /\ StoreInv /\ SearchInv)
<1>1. Init => Typed /\ StoreInv /\ SearchInv
  <2>1. Init => SearchInv
    BY DEF Init, SearchInv, Underway, Exists
  <2> QED BY <2>1, InitTyped, InitStoreInv
<1>2. Typed /\ StoreInv /\ SearchInv /\ [Next]_vars => (Typed /\ StoreInv /\ SearchInv)'
  BY NextTyped, NextKeepsStore, NextKeepsSearch
<1> QED BY <1>1, <1>2, PTL DEF Spec

\* SettledIndexed of DocumentIndex: once no handler and no event is under way
\* for a document, the vector store has the content its row names, unless an
\* event was lost or failed or a cover has set the row back.
THEOREM SettledAreIndexed == Spec => []SettledIndexed
<1>1. Typed /\ StoreInv /\ SearchInv => SettledIndexed
  <2> SUFFICES ASSUME Typed, SearchInv, NEW d \in Docs \ spoiled, Exists(d), Settled(d)
               PROVE  Content(d, row[d].version) \in points
    BY DEF SettledIndexed
  <2>1. ~BeingWritten(d)
    BY DEF Settled, BeingWritten, Publishers
  <2>2. \A e \in Recorded : ~Carries(e, d, row[d].version)
    BY DEF Settled, Carries
  <2> QED BY <2>1, <2>2 DEF SearchInv, Underway
<1> QED BY <1>1, SpecSearch, PTL

=============================================================================
