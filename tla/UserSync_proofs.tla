-------------------------- MODULE UserSync_proofs --------------------------
(***************************************************************************)
(* Theorems of UserSync, for any number of users, names, events, rollbacks *)
(* and stops, any batch size and any retry limit.  Each action is taken    *)
(* once, with the type invariant and Accounted, which says of the batch    *)
(* that is open what RetiredWasPublished says of the batches committed.    *)
(***************************************************************************)
EXTENDS UserSync, TLAPS, FiniteSetTheorems

\* What the open transaction is about to retire has been published, or its
\* retries are used up.
Accounted ==
  \A e \in Ids : mark[e] = "processed" => e \in published \/ retries[e] = MaxRetry

\* An event about to be counted as failed has a retry left.
CountsInRange ==
  \A e \in Ids : mark[e] = "failed" => retries[e] < MaxRetry

IInv == TypeOK /\ RetiredWasPublished /\ Accounted /\ CountsInRange

-----------------------------------------------------------------------------
LEMMA SeqMonotonic ==
  ASSUME NEW S, NEW T, S \subseteq T, NEW s \in Seq(S)
  PROVE  s \in Seq(T)
<1>1. \A i \in 1..Len(s) : s[i] \in T
  OBVIOUS
<1> QED BY <1>1

LEMMA TailType ==
  ASSUME NEW S, NEW s \in Seq(S), s # <<>>
  PROVE  Tail(s) \in Seq(S) /\ Head(s) \in S
OBVIOUS

LEMMA InitIInv == Init => IInv
<1> SUFFICES ASSUME Init PROVE IInv
  OBVIOUS
<1> USE DEF Init
<1>1. TypeOK
  <2>1. Recorded = {} /\ outbox \in [Recorded -> Events]
    BY DEF Recorded
  <2>2. /\ begun \in [Kinds -> (Ids \ Recorded) \cup {0}]
        /\ begun["updated"] = 0 /\ late = {}
    BY DEF Kinds
  <2>3. retries \in [Ids -> 0..MaxRetry]
    BY MaxRetryAssumption
  <2>4. mark \in [Ids -> Marks] /\ \A e \in Ids : ~InBatch(e)
    BY DEF Marks, InBatch
  <2>5. subs \in [Kinds -> Seq(Recorded)]
    OBVIOUS
  <2>6. rollbacks \in 0..MaxRollbacks /\ stops \in 0..MaxStops
    BY BoundsAssumption
  <2> QED BY <2>1, <2>2, <2>3, <2>4, <2>5, <2>6 DEF TypeOK
<1>2. RetiredWasPublished /\ Accounted /\ CountsInRange
  BY DEF RetiredWasPublished, Accounted, CountsInRange
<1> QED BY <1>1, <1>2 DEF IInv

-----------------------------------------------------------------------------
\* What the COMMIT of a transaction with an event adds: the event takes the
\* place its BEGIN reserved, which no event and no open transaction has.
LEMMA Recording ==
  ASSUME IInv, NEW k \in Kinds, NEW u \in Users, NEW r \in Rows, Record(k, u, r)
  PROVE  /\ begun[k] \in Ids /\ begun[k] \notin Recorded
         /\ Recorded' = Recorded \cup {begun[k]}
         /\ \A e \in Recorded : outbox'[e] = outbox[e]
         /\ outbox'[begun[k]] = [kind |-> k, user |-> u, row |-> r]
         /\ outbox' \in [Recorded' -> Events]
         /\ row' = [row EXCEPT ![u] = r]
         /\ begun' = [begun EXCEPT ![k] = 0]
         /\ late' = IF Idle THEN late ELSE late \cup {begun[k]}
<1>1. begun[k] \in Ids /\ begun[k] \notin Recorded
  BY DEF IInv, TypeOK, Record, Write
<1>2. outbox' = [e \in Recorded \cup {begun[k]} |->
                  IF e = begun[k] THEN [kind |-> k, user |-> u, row |-> r] ELSE outbox[e]]
  BY DEF Record, Write
<1>3. Recorded' = Recorded \cup {begun[k]}
  BY <1>2 DEF Recorded
<1>4. [kind |-> k, user |-> u, row |-> r] \in Events /\ outbox \in [Recorded -> Events]
  BY DEF Events, IInv, TypeOK
<1>5. outbox' \in [Recorded' -> Events]
  BY <1>2, <1>3, <1>4
<1> QED BY <1>1, <1>2, <1>3, <1>5 DEF Record, Write

\* Such a COMMIT keeps the types.
LEMMA RecordKeeps ==
  ASSUME IInv,
         NEW k \in Kinds, NEW u \in Users, NEW r \in Rows,
         Record(k, u, r),
         UNCHANGED <<processed, retries, mark, authSide, history, bounds>>
  PROVE  IInv'
<1>1. /\ begun[k] \in Ids /\ begun[k] \notin Recorded
      /\ Recorded' = Recorded \cup {begun[k]}
      /\ outbox' \in [Recorded' -> Events] /\ Recorded \subseteq Ids
      /\ row' = [row EXCEPT ![u] = r]
      /\ begun' = [begun EXCEPT ![k] = 0]
      /\ late' = IF Idle THEN late ELSE late \cup {begun[k]}
  <2>1. Recorded \subseteq Ids
    BY DEF IInv, TypeOK
  <2> QED BY <2>1, Recording
<1> USE DEF IInv, authSide, history, bounds
<1>2. Recorded \subseteq Recorded' /\ Pending \subseteq Pending'
  BY <1>1 DEF Pending
<1>3. subs' \in [Kinds -> Seq(Recorded')]
  <2> SUFFICES ASSUME NEW l \in Kinds PROVE subs[l] \in Seq(Recorded')
    BY DEF TypeOK
  <2> HIDE DEF IInv
  <2> QED BY <1>2, SeqMonotonic DEF IInv, TypeOK
<1>4. row' \in [Users -> Rows \cup {Absent}]
  BY <1>1 DEF TypeOK
<1>5. \A e \in Ids : InBatch(e)' => e \in Pending'
  BY <1>2 DEF TypeOK, InBatch, Ids
<1>6. /\ begun' \in [Kinds -> (Ids \ Recorded') \cup {0}]
      /\ begun'["registered"] = begun'["updated"] => begun'["updated"] = 0
  <2>1. \A l \in Kinds : begun[l] \in (Ids \ Recorded) \cup {0}
    BY DEF TypeOK
  <2>2. \A l \in Kinds : l # k => begun[l] # begun[k]
    BY <1>1 DEF TypeOK, Kinds, Ids
  <2>3. begun \in [Kinds -> (Ids \ Recorded) \cup {0}]
    BY DEF TypeOK
  <2>4. \A l \in Kinds : begun'[l] \in (Ids \ Recorded') \cup {0}
    BY <1>1, <2>1, <2>2, <2>3
  <2>5. begun'["registered"] = begun'["updated"] => begun'["updated"] = 0
    BY <1>1, <2>3 DEF TypeOK, Kinds
  <2> QED BY <1>1, <2>3, <2>4, <2>5
<1>7. late' \subseteq Recorded' /\ Recorded' \subseteq Ids
  BY <1>1 DEF TypeOK
<1>8. TypeOK'
  BY <1>1, <1>2, <1>3, <1>4, <1>5, <1>6, <1>7 DEF TypeOK, Ids
<1>9. (RetiredWasPublished /\ Accounted /\ CountsInRange)'
  BY DEF RetiredWasPublished, Accounted, CountsInRange, Ids
<1> QED BY <1>8, <1>9

\* A step that leaves the outbox alone keeps the sets of ids.
LEMMA SameIds ==
  ASSUME UNCHANGED <<outbox, processed>>
  PROVE  Recorded' = Recorded /\ Pending' = Pending
BY DEF Recorded, Pending

\* BEGIN and ROLLBACK touch nothing but the open transactions.
LEMMA BeginAbandonKeep ==
  ASSUME IInv, NEW k \in Kinds, Begin(k) \/ Abandon(k)
  PROVE  /\ IInv'
         /\ UNCHANGED <<row, outbox, processed, retries, mark, late, authSide, history, bounds>>
<1>1. UNCHANGED <<row, outbox, processed, retries, mark, late, authSide, history, bounds>>
  BY DEF Begin, Abandon
<1> USE DEF IInv, authSide, history, bounds
<1>2. Recorded' = Recorded /\ Pending' = Pending
  BY <1>1, SameIds
<1>3. /\ begun' \in [Kinds -> (Ids \ Recorded) \cup {0}]
      /\ begun'["registered"] = begun'["updated"] => begun'["updated"] = 0
  <2>1. CASE Abandon(k)
    BY <2>1 DEF Abandon, TypeOK, Kinds
  <2>2. CASE Begin(k)
    <3>1. PICK e \in Ids : /\ \A f \in Opened : f < e
                          /\ begun' = [begun EXCEPT ![k] = e]
      BY <2>2 DEF Begin
    <3>2. e \in Int /\ ~(e < e)
      BY DEF Ids
    <3>3. e \notin Recorded /\ \A l \in Kinds : begun[l] # e
      BY <3>1, <3>2 DEF Opened
    <3> QED BY <3>1, <3>3 DEF TypeOK, Kinds
  <2> QED BY <2>1, <2>2
<1>4. TypeOK'
  BY <1>1, <1>2, <1>3 DEF TypeOK, InBatch, Ids
<1>5. (RetiredWasPublished /\ Accounted /\ CountsInRange)'
  BY <1>1 DEF RetiredWasPublished, Accounted, CountsInRange, Ids
<1> QED BY <1>1, <1>4, <1>5

LEMMA DeleteUserKeeps ==
  ASSUME IInv, NEW u \in Users, DeleteUser(u)
  PROVE  IInv'
<1> USE DEF IInv, DeleteUser, authSide, bounds
<1>1. row' \in [Users -> Rows \cup {Absent}]
  <2>1. row[u] \in Rows
    BY DEF TypeOK, Exists
  <2>2. [row[u] EXCEPT !.active = FALSE] \in Rows
    BY <2>1 DEF Rows
  <2> QED BY <2>2 DEF TypeOK
<1>2. Recorded' = Recorded /\ Pending' = Pending
  BY SameIds
<1>3. TypeOK'
  BY <1>1, <1>2 DEF TypeOK, InBatch, Ids
<1>4. (RetiredWasPublished /\ Accounted /\ CountsInRange)'
  BY DEF RetiredWasPublished, Accounted, CountsInRange, Ids
<1> QED BY <1>3, <1>4

-----------------------------------------------------------------------------
\* The processor.
LEMMA FetchBatchKeeps == IInv /\ FetchBatch => IInv'
<1> SUFFICES ASSUME IInv, FetchBatch PROVE IInv'
  OBVIOUS
<1> USE DEF IInv, FetchBatch, usersDB, authSide, history, bounds
<1>1. Recorded' = Recorded /\ Pending' = Pending
  BY SameIds
<1>2. mark' \in [Ids -> Marks]
  BY DEF Marks
<1>3. \A e \in Ids : InBatch(e)' => e \in Pending'
  BY <1>1 DEF InBatch, Oldest
<1>4. TypeOK'
  BY <1>1, <1>2, <1>3 DEF TypeOK, Ids
<1>5. (RetiredWasPublished /\ Accounted /\ CountsInRange)'
  BY DEF RetiredWasPublished, Accounted, CountsInRange, Ids
<1> QED BY <1>4, <1>5

\* The event of the batch a step works on.
LEMMA CurrentIsPending ==
  ASSUME IInv, NEW e \in Ids, Current(e)
  PROVE  e \in Pending /\ e \in Recorded /\ outbox[e] \in Events
<1>1. e \in Pending /\ e \in Recorded
  BY DEF IInv, TypeOK, Current, InBatch, Pending
<1>2. outbox \in [Recorded -> Events]
  BY DEF IInv, TypeOK
<1> QED BY <1>1, <1>2

LEMMA EventStepKeeps ==
  ASSUME IInv, NEW e \in Ids, EventStep(e)
  PROVE  IInv'
<1>0. Current(e)
  BY DEF EventStep, GiveUp, Publish, PublishError
<1>c. e \in Pending /\ e \in Recorded /\ outbox[e] \in Events
  BY <1>0, CurrentIsPending
<1>s. Recorded' = Recorded /\ Pending' = Pending
  BY SameIds DEF EventStep, GiveUp, Publish, PublishError, usersDB
<1>1. CASE GiveUp(e)
  <2> USE DEF IInv, GiveUp, usersDB, authSide, history, bounds
  <2>1. TypeOK'
    BY <1>1, <1>s, <1>c DEF TypeOK, InBatch, Marks, Ids
  <2>2. retries[e] = MaxRetry
    BY <1>1, MaxRetryAssumption DEF TypeOK, Exhausted
  <2>3. (RetiredWasPublished /\ Accounted /\ CountsInRange)'
    BY <1>1, <2>2 DEF TypeOK, RetiredWasPublished, Accounted, CountsInRange, Ids
  <2> QED BY <2>1, <2>3
<1>2. CASE Publish(e)
  <2> USE DEF IInv, Publish, usersDB, bounds
  <2>1. subs' \in [Kinds -> Seq(Recorded)] /\ spoiled' \subseteq Users
    <3>1. outbox[e].kind \in Kinds /\ outbox[e].user \in Users
      BY <1>c DEF Events
    <3>2. CASE UNCHANGED spoiled /\ subs' = [subs EXCEPT ![outbox[e].kind] = Append(@, e)]
      <4>1. Append(subs[outbox[e].kind], e) \in Seq(Recorded)
        BY <3>1, <1>c DEF TypeOK
      <4> QED BY <4>1, <3>2 DEF TypeOK
    <3>3. CASE UNCHANGED subs /\ spoiled' = spoiled \cup {outbox[e].user}
      BY <3>1, <3>3 DEF TypeOK
    <3> QED BY <1>2, <3>2, <3>3
  <2>2. mark' \in [Ids -> Marks] /\ \A f \in Ids : InBatch(f)' => f \in Pending'
    BY <1>2, <1>s, <1>c DEF TypeOK, InBatch, Marks
  <2>3. TypeOK'
    BY <1>2, <1>s, <1>c, <2>1, <2>2 DEF TypeOK, Ids
  <2>4. (RetiredWasPublished /\ Accounted /\ CountsInRange)'
    BY <1>2 DEF TypeOK, RetiredWasPublished, Accounted, CountsInRange, Ids
  <2> QED BY <2>3, <2>4
<1>3. CASE PublishError(e)
  <2> USE DEF IInv, PublishError, FailedMark, usersDB, authSide, bounds
  <2>1. outbox[e].user \in Users
    BY <1>c DEF Events
  <2>2. TypeOK'
    BY <1>3, <1>s, <1>c, <2>1 DEF TypeOK, InBatch, Marks, Ids
  <2>3. retries[e] < MaxRetry
    BY <1>3, MaxRetryAssumption DEF TypeOK, Exhausted
  <2>4. (RetiredWasPublished /\ Accounted /\ CountsInRange)'
    BY <1>3, <2>3 DEF TypeOK, RetiredWasPublished, Accounted, CountsInRange, Ids
  <2> QED BY <2>2, <2>4
<1> QED BY <1>1, <1>2, <1>3 DEF EventStep

LEMMA CommitKeeps == IInv /\ Commit => IInv'
<1> SUFFICES ASSUME IInv, Commit PROVE IInv'
  OBVIOUS
<1> USE DEF IInv, Commit, authSide, history, bounds
<1>1. Recorded' = Recorded
  BY DEF Recorded
<1>2. Retired \subseteq Recorded
  BY DEF TypeOK, Retired, InBatch, Pending
<1>3. retries' \in [Ids -> 0..MaxRetry]
  BY MaxRetryAssumption DEF TypeOK, CountsInRange
<1>4. TypeOK'
  BY <1>1, <1>2, <1>3 DEF TypeOK, InBatch, Marks, Ids
<1>5. ASSUME NEW e \in processed'
      PROVE  e \in published' \/ retries'[e] = MaxRetry
  <2>1. e \in Ids
    <3>1. Recorded \subseteq Ids
      BY DEF TypeOK
    <3> QED BY <3>1, <1>2 DEF TypeOK
  <2>2. CASE e \in published
    BY <2>2
  <2>3. CASE e \in processed /\ e \notin published
    <3>1. retries[e] = MaxRetry
      BY <2>3 DEF RetiredWasPublished
    <3>2. mark[e] # "failed"
      BY <3>1, <2>1, MaxRetryAssumption DEF CountsInRange
    <3> QED BY <3>1, <3>2, <2>1
  <2>4. CASE e \in Retired /\ e \notin published
    BY <2>4, <2>1 DEF Retired, Accounted
  <2> QED BY <2>2, <2>3, <2>4
<1>6. (Accounted /\ CountsInRange)'
  BY DEF Accounted, CountsInRange, Ids
<1> QED BY <1>4, <1>5, <1>6 DEF RetiredWasPublished

LEMMA RollbackKeeps == IInv /\ Rollback => IInv'
<1> SUFFICES ASSUME IInv, Rollback PROVE IInv'
  OBVIOUS
<1> USE DEF IInv, Rollback, usersDB, authSide, history
<1>1. Recorded' = Recorded /\ Pending' = Pending
  BY SameIds
<1>2. TypeOK'
  BY <1>1, BoundsAssumption DEF TypeOK, InBatch, Marks, Ids
<1>3. (RetiredWasPublished /\ Accounted /\ CountsInRange)'
  BY DEF RetiredWasPublished, Accounted, CountsInRange, Ids
<1> QED BY <1>2, <1>3

-----------------------------------------------------------------------------
\* services/auth.
LEMMA AuthSideKeeps ==
  ASSUME IInv,
         UNCHANGED <<usersDB, mark, late, published>>,
         up' \in BOOLEAN,
         subs' \in [Kinds -> Seq(Recorded)],
         auth' \in [Users -> Rows \cup {Absent}],
         spoiled' \subseteq Users,
         rollbacks' \in 0..MaxRollbacks, stops' \in 0..MaxStops
  PROVE  IInv'
<1> USE DEF IInv, usersDB
<1>1. Recorded' = Recorded /\ Pending' = Pending
  BY SameIds
<1>2. TypeOK'
  BY <1>1 DEF TypeOK, InBatch, Ids
<1>3. (RetiredWasPublished /\ Accounted /\ CountsInRange)'
  BY DEF RetiredWasPublished, Accounted, CountsInRange, Ids
<1> QED BY <1>2, <1>3

LEMMA DeliverType ==
  ASSUME IInv, NEW k \in Kinds, Deliver(k)
  PROVE  /\ subs' \in [Kinds -> Seq(Recorded)]
         /\ outbox[First(k)] \in Events
<1>1. subs[k] \in Seq(Recorded) /\ subs[k] # <<>>
  BY DEF IInv, TypeOK, Deliver
<1>2. Tail(subs[k]) \in Seq(Recorded) /\ First(k) \in Recorded
  BY <1>1, TailType DEF First
<1>3. outbox \in [Recorded -> Events]
  BY DEF IInv, TypeOK
<1>4. outbox[First(k)] \in Events
  BY <1>2, <1>3
<1>5. subs' \in [Kinds -> Seq(Recorded)]
  BY <1>2 DEF IInv, TypeOK, Deliver
<1> QED BY <1>4, <1>5

LEMMA AuthStepKeeps == IInv /\ AuthStep => IInv'
<1> SUFFICES ASSUME IInv, AuthStep PROVE IInv'
  OBVIOUS
<1>t. /\ up \in BOOLEAN /\ auth \in [Users -> Rows \cup {Absent}] /\ spoiled \subseteq Users
      /\ rollbacks \in 0..MaxRollbacks /\ stops \in 0..MaxStops
  BY DEF IInv, TypeOK
<1>1. CASE HandleRegistered
  <2> DEFINE e == outbox[First("registered")]
  <2>1. subs' \in [Kinds -> Seq(Recorded)] /\ e \in Events
    BY <1>1, DeliverType DEF HandleRegistered, Kinds
  <2>2. e.user \in Users /\ e.row \in Rows
    BY <2>1 DEF Events
  <2>3. auth' \in [Users -> Rows \cup {Absent}] /\ spoiled' \subseteq Users
    BY <1>1, <1>t, <2>2 DEF HandleRegistered, Insert
  <2> QED BY <1>1, <1>t, <2>1, <2>3, AuthSideKeeps DEF HandleRegistered, bounds
<1>2. CASE HandleUpdated
  <2> DEFINE e == outbox[First("updated")]
  <2>1. subs' \in [Kinds -> Seq(Recorded)] /\ e \in Events
    BY <1>2, DeliverType DEF HandleUpdated, Kinds
  <2>2. e.user \in Users /\ e.row \in Rows
    BY <2>1 DEF Events
  <2>3. auth' \in [Users -> Rows \cup {Absent}] /\ spoiled' \subseteq Users
    BY <1>2, <1>t, <2>2 DEF HandleUpdated
  <2> QED BY <1>2, <1>t, <2>1, <2>3, AuthSideKeeps DEF HandleUpdated, bounds
<1> QED BY <1>1, <1>2 DEF AuthStep

LEMMA HandlerFailsKeeps ==
  ASSUME IInv, NEW k \in Kinds, HandlerFails(k)
  PROVE  IInv'
<1>t. /\ up \in BOOLEAN /\ auth \in [Users -> Rows \cup {Absent}] /\ spoiled \subseteq Users
      /\ rollbacks \in 0..MaxRollbacks /\ stops \in 0..MaxStops
  BY DEF IInv, TypeOK
<1>1. subs' \in [Kinds -> Seq(Recorded)] /\ outbox[First(k)] \in Events
  BY DeliverType DEF HandlerFails
<1>2. spoiled' \subseteq Users /\ stops' \in 0..MaxStops
  BY <1>t, <1>1, BoundsAssumption DEF HandlerFails, Events
<1> QED BY <1>t, <1>1, <1>2, AuthSideKeeps DEF HandlerFails

LEMMA StopStartKeep == IInv /\ (Stop \/ Start) => IInv'
<1> SUFFICES ASSUME IInv, Stop \/ Start PROVE IInv'
  OBVIOUS
<1>t. /\ up \in BOOLEAN /\ auth \in [Users -> Rows \cup {Absent}] /\ spoiled \subseteq Users
      /\ rollbacks \in 0..MaxRollbacks /\ stops \in 0..MaxStops
      /\ subs \in [Kinds -> Seq(Recorded)] /\ outbox \in [Recorded -> Events]
  BY DEF IInv, TypeOK
<1>1. CASE Stop
  <2>1. Queued \subseteq Recorded
    BY <1>t DEF Queued
  <2>2. \A e \in Queued : outbox[e].user \in Users
    <3> SUFFICES ASSUME NEW e \in Queued PROVE outbox[e].user \in Users
      OBVIOUS
    <3>1. outbox[e] \in Events
      BY <2>1, <1>t
    <3> QED BY <3>1 DEF Events
  <2>3. subs' \in [Kinds -> Seq(Recorded)] /\ spoiled' \subseteq Users
    BY <1>1, <1>t, <2>2 DEF Stop
  <2>4. stops' \in 0..MaxStops
    BY <1>1, <1>t, BoundsAssumption DEF Stop
  <2> QED BY <1>1, <1>t, <2>3, <2>4, AuthSideKeeps DEF Stop
<1>2. CASE Start
  BY <1>2, <1>t, AuthSideKeeps DEF Start, history, bounds
<1> QED BY <1>1, <1>2

-----------------------------------------------------------------------------
LEMMA UsersStepKeeps == IInv /\ UsersStep => IInv'
<1> SUFFICES ASSUME IInv, UsersStep PROVE IInv'
  OBVIOUS
<1>1. ASSUME NEW n \in Names, Approve(n) PROVE IInv'
  <2>1. NewUser \in Users
    BY <1>1 DEF Approve, NewUser
  <2>2. [name |-> n, active |-> TRUE] \in Rows
    BY DEF Rows
  <2> QED BY <1>1, <2>1, <2>2, RecordKeeps DEF Approve, Kinds
<1>2. ASSUME NEW u \in Users, NEW r \in Rows, UpdateUser(u, r) PROVE IInv'
  BY <1>2, RecordKeeps DEF UpdateUser, Kinds
<1> QED BY <1>1, <1>2, BeginAbandonKeep, DeleteUserKeeps DEF UsersStep

LEMMA StutterKeeps == IInv /\ UNCHANGED vars => IInv'
<1> SUFFICES ASSUME IInv, UNCHANGED vars PROVE IInv'
  OBVIOUS
<1> USE DEF vars, usersDB, authSide, history, bounds, IInv
<1>1. Recorded' = Recorded /\ Pending' = Pending
  BY SameIds
<1>2. TypeOK'
  BY <1>1 DEF TypeOK, InBatch, Ids
<1>3. (RetiredWasPublished /\ Accounted /\ CountsInRange)'
  BY DEF RetiredWasPublished, Accounted, CountsInRange, Ids
<1> QED BY <1>2, <1>3

LEMMA NextIInv == IInv /\ [Next]_vars => IInv'
BY UsersStepKeeps, FetchBatchKeeps, EventStepKeeps, CommitKeeps, AuthStepKeeps,
   RollbackKeeps, StopStartKeep, HandlerFailsKeeps, StutterKeeps
   DEF Next, ProcessorStep, Fault

LEMMA SpecIInv == Spec => []IInv
BY InitIInv, NextIInv, PTL DEF Spec

\* Every variable keeps its type; in particular a queue and a batch name only
\* events that were recorded, and a batch none that is processed.
THEOREM TypeCorrect == Spec => []TypeOK
<1>1. IInv => TypeOK
  BY DEF IInv
<1> QED BY <1>1, SpecIInv, PTL

\* An event is retired only published or out of retries, whatever is rolled
\* back: the processor's accounting, for any limit and any batch size.
THEOREM RetiredEventsWerePublished == Spec => []RetiredWasPublished
<1>1. IInv => RetiredWasPublished
  BY DEF IInv
<1> QED BY <1>1, SpecIInv, PTL

-----------------------------------------------------------------------------
\* The two users tables agree: SettledAgree of UserSync, for any number of
\* users, names, events, rollbacks and stops, any batch size and any retry
\* limit.
\*
\* The argument follows the newest event of a user none of whose events
\* took a wrong turn.  Its payload is the user's row (RowIsNewest).  The
\* processor sends the events of the user in their order, a rollback
\* sending some again, and never sends an older one while the newest is
\* retired (InOrder): so once the newest is sent, and is an update, it is
\* the last of the user's in its queue, or what auth's row was last
\* written from (UpdatedArrives).  A newest event that is a registration
\* is the only event of its user (RegisteredFirst), and auth's row, which
\* can come from no other event (AuthFromEvents), is there once the event
\* has left its queue (RegisteredArrives).

\* The user an event is about.
Owner(e) == outbox[e].user

\* The last event recorded for its user.
Newest(e) == e \in Recorded /\ \A f \in Recorded : Owner(f) = Owner(e) => f <= e

\* Published or given up, unless the open batch is rolled back.
Sent(e) == e \in processed \/ mark[e] = "processed"

Positions(k) == 1..Len(subs[k])
InQueue(e, k) == \E i \in Positions(k) : subs[k][i] = e

\* e is queued, and no later message of that queue is about its user.
LastQueued(e) ==
  \E i \in Positions("updated") :
    /\ subs["updated"][i] = e
    /\ \A j \in Positions("updated") : j > i => Owner(subs["updated"][j]) # Owner(e)

NoneQueued(u) == \A i \in Positions("updated") : Owner(subs["updated"][i]) # u

RowsRecorded ==
  \A u \in Users :
    /\ Exists(row, u) => \E e \in Recorded : Newest(e) /\ Owner(e) = u
    /\ ~Exists(row, u) => \A e \in Recorded : Owner(e) # u

RowIsNewest ==
  \A e \in Recorded : Newest(e) /\ Owner(e) \notin spoiled => row[Owner(e)] = outbox[e].row

RegisteredFirst ==
  \A e, f \in Recorded :
    outbox[e].kind = "registered" /\ Owner(f) = Owner(e) => e <= f

\* Updates are served one at a time, and each begins behind all it can see.
UpdatesInOrder ==
  \A e \in Recorded : outbox[e].kind = "updated" /\ begun["updated"] # 0
     => e < begun["updated"]

AuthFromEvents ==
  \A u \in Users : Exists(auth, u) =>
     \E e \in Recorded : Owner(e) = u /\ auth[u] = outbox[e].row

FailuresSpoil ==
  \A e \in Ids : retries[e] > 0 \/ mark[e] = "failed" =>
     e \in Recorded /\ Owner(e) \in spoiled

InOrder ==
  \A e, f \in Recorded : e < f /\ Owner(e) = Owner(f) /\ Owner(e) \notin spoiled =>
     /\ f \in processed => e \in processed
     /\ InBatch(f) => e \in processed \/ InBatch(e)
     /\ mark[f] = "processed" => Sent(e)

RegisteredArrives ==
  \A e \in Recorded :
    Sent(e) /\ Owner(e) \notin spoiled /\ outbox[e].kind = "registered"
      => InQueue(e, "registered") \/ Exists(auth, Owner(e))

UpdatedArrives ==
  \A e \in Recorded :
    Sent(e) /\ Owner(e) \notin spoiled /\ outbox[e].kind = "updated" /\ Newest(e)
      => LastQueued(e) \/ (NoneQueued(Owner(e)) /\ auth[Owner(e)] = outbox[e].row)

AInv == /\ RowsRecorded /\ RowIsNewest /\ RegisteredFirst /\ UpdatesInOrder /\ AuthFromEvents
        /\ FailuresSpoil /\ InOrder /\ RegisteredArrives /\ UpdatedArrives

-----------------------------------------------------------------------------
\* The types the proofs below use.
LEMMA Types ==
  ASSUME IInv
  PROVE  /\ row \in [Users -> Rows \cup {Absent}]
         /\ auth \in [Users -> Rows \cup {Absent}]
         /\ MaxEvents \in Nat /\ Recorded \subseteq Ids /\ Ids \subseteq Nat
         /\ processed \subseteq Recorded /\ spoiled \subseteq Users
         /\ mark \in [Ids -> Marks] /\ retries \in [Ids -> 0..MaxRetry]
         /\ \A e \in Ids : InBatch(e) => e \in Pending
         /\ \A e \in Recorded : outbox[e] \in Events /\ Owner(e) \in Users
         /\ \A k \in Kinds : subs[k] \in Seq(Recorded)
         /\ \A k \in Kinds : \A i \in Positions(k) : subs[k][i] \in Recorded
         /\ Absent \notin Rows
<1>1. outbox \in [Recorded -> Events]
  BY DEF IInv, TypeOK
<1>2. Recorded \subseteq Ids /\ Ids \subseteq Nat
  BY DEF IInv, TypeOK, Ids
<1>3. \A e \in Recorded : outbox[e] \in Events
  BY <1>1
<1>4. \A e \in Recorded : Owner(e) \in Users
  BY <1>3 DEF Owner, Events
<1>5. \A k \in Kinds : subs[k] \in Seq(Recorded)
  BY DEF IInv, TypeOK
<1>6. \A k \in Kinds : \A i \in Positions(k) : subs[k][i] \in Recorded
  BY <1>5 DEF Positions
<1>7. Absent \notin Rows
  BY NoNameAssumption DEF Absent, Rows
<1> QED BY <1>1, <1>2, <1>3, <1>4, <1>5, <1>6, <1>7, BoundsAssumption DEF IInv, TypeOK

LEMMA InitAInv == Init => AInv
<1> SUFFICES ASSUME Init PROVE AInv
  OBVIOUS
<1>1. Recorded = {}
  BY DEF Init, Recorded
<1>2. \A e \in Ids : retries[e] = 0 /\ mark[e] = "none"
  BY DEF Init
<1>3. \A u \in Users : ~Exists(row, u) /\ ~Exists(auth, u)
  BY DEF Init, Exists
<1> QED BY <1>1, <1>2, <1>3 DEF AInv, RowsRecorded, RowIsNewest, RegisteredFirst,
           UpdatesInOrder, AuthFromEvents, FailuresSpoil, InOrder, RegisteredArrives, UpdatedArrives

-----------------------------------------------------------------------------
\* What a step that leaves a part of the state alone keeps.
LEMMA FrameRows ==
  ASSUME UNCHANGED <<outbox, row>>, spoiled \subseteq spoiled',
         RowsRecorded, RowIsNewest, RegisteredFirst
  PROVE  RowsRecorded' /\ RowIsNewest' /\ RegisteredFirst'
BY DEF RowsRecorded, RowIsNewest, RegisteredFirst, Recorded, Newest, Owner, Exists

LEMMA FrameUpdates ==
  ASSUME UNCHANGED <<outbox, begun>>, UpdatesInOrder
  PROVE  UpdatesInOrder'
BY DEF UpdatesInOrder, Recorded

LEMMA FrameAuth ==
  ASSUME UNCHANGED <<outbox, auth>>, AuthFromEvents
  PROVE  AuthFromEvents'
BY DEF AuthFromEvents, Recorded, Owner, Exists

LEMMA FrameFailures ==
  ASSUME UNCHANGED <<outbox, retries, mark>>, spoiled \subseteq spoiled', FailuresSpoil
  PROVE  FailuresSpoil'
BY DEF FailuresSpoil, Recorded, Owner

LEMMA FrameOrder ==
  ASSUME UNCHANGED <<outbox, processed, mark>>, spoiled \subseteq spoiled', InOrder
  PROVE  InOrder'
BY DEF InOrder, Recorded, Owner, InBatch, Sent

LEMMA FrameArrives ==
  ASSUME UNCHANGED <<outbox, subs, auth>>, spoiled \subseteq spoiled',
         \A e \in Recorded : Sent(e)' /\ Owner(e) \notin spoiled' => Sent(e),
         RegisteredArrives, UpdatedArrives
  PROVE  RegisteredArrives' /\ UpdatedArrives'
BY DEF RegisteredArrives, UpdatedArrives, Recorded, Owner, Exists, Newest,
       InQueue, LastQueued, NoneQueued, Positions
-----------------------------------------------------------------------------
\* services/users.
LEMMA RecordAgrees ==
  ASSUME IInv, AInv,
         NEW k \in Kinds, NEW u \in Users, NEW r \in Rows,
         Record(k, u, r),
         k = "registered" <=> ~Exists(row, u),
         k = "updated" => Registered(u),
         UNCHANGED <<processed, retries, mark, authSide, history, bounds>>
  PROVE  AInv'
<1>n. PICK n : n = begun[k]
  OBVIOUS
<1>t. /\ row \in [Users -> Rows \cup {Absent}] /\ Absent \notin Rows
      /\ Recorded \subseteq Ids /\ Ids \subseteq Nat
      /\ processed \subseteq Recorded
      /\ \A e \in Recorded : Owner(e) \in Users /\ outbox[e].kind \in Kinds
      /\ \A l \in Kinds : \A i \in Positions(l) : subs[l][i] \in Recorded
  BY Types DEF Events
<1>k. k \in {"registered", "updated"}
  BY DEF Kinds
<1>u. UNCHANGED <<processed, retries, mark, subs, auth, spoiled>>
  BY DEF authSide, history
<1>1. /\ Recorded' = Recorded \cup {n} /\ n \notin Recorded
      /\ \A e \in Recorded : outbox'[e] = outbox[e]
      /\ outbox'[n] = [kind |-> k, user |-> u, row |-> r]
      /\ row' = [row EXCEPT ![u] = r]
      /\ n \in Ids /\ begun' = [begun EXCEPT ![k] = 0]
  BY <1>n, Recording
<1>m. n \in Nat /\ \A e \in Recorded : e \in Nat
  BY <1>1, <1>t DEF Ids
\* Other users may have younger events, this one has none.
<1>y. \A e \in Recorded : Owner(e) = u => e < n
  <2> SUFFICES ASSUME NEW e \in Recorded, Owner(e) = u PROVE e < n
    OBVIOUS
  <2>1. k = "updated" /\ Exists(row, u)
    BY <1>k DEF AInv, RowsRecorded
  <2>2. PICK f \in Recorded : outbox[f].kind = "registered" /\ Owner(f) = u /\ f < n
    BY <2>1, <1>n DEF Registered, Owner
  <2>3. CASE outbox[e].kind = "registered"
    <3>1. e <= f
      BY <2>2, <2>3 DEF AInv, RegisteredFirst
    <3> QED BY <3>1, <2>2, <1>m
  <2>4. CASE outbox[e].kind = "updated"
    <3>1. begun["updated"] = n /\ n # 0
      BY <2>1, <1>n, <1>1 DEF Ids
    <3> QED BY <2>4, <3>1 DEF AInv, UpdatesInOrder
  <2> QED BY <2>3, <2>4, <1>t DEF Kinds
<1>2. /\ \A e \in Recorded : Owner(e)' = Owner(e)
      /\ Owner(n)' = u
  BY <1>1 DEF Owner
<1>3. /\ \A e \in Recorded : Newest(e)' <=> Newest(e) /\ Owner(e) # u
      /\ Newest(n)'
  <2>1. Newest(n)'
    <3>1. n \in Recorded'
      BY <1>1
    <3>2. \A f \in Recorded' : Owner(f)' = Owner(n)' => f <= n
      BY <1>1, <1>2, <1>y, <1>m
    <3> QED BY <3>1, <3>2 DEF Newest
  <2>2. ASSUME NEW e \in Recorded
        PROVE  Newest(e)' <=> Newest(e) /\ Owner(e) # u
    <3>1. e \in Recorded' /\ Owner(e)' = Owner(e) /\ (Owner(e) = u => ~(n <= e))
      BY <1>1, <1>2, <1>y, <1>m
    <3> QED BY <3>1, <1>1, <1>2 DEF Newest
  <2> QED BY <2>1, <2>2
<1>4. ~InBatch(n) /\ n \notin processed /\ ~Sent(n)' /\ \A e : Sent(e)' <=> Sent(e)
  <2>1. n \notin Pending
    BY <1>1 DEF Pending
  <2>2. mark[n] = "none"
    BY <2>1, <1>1, Types DEF InBatch
  <2> QED BY <2>2, <1>1, <1>t, <1>u DEF InBatch, Sent
<1>5. RowsRecorded'
  <2> SUFFICES ASSUME NEW v \in Users
               PROVE  /\ Exists(row, v)' => \E e \in Recorded' : Newest(e)' /\ Owner(e)' = v
                      /\ ~Exists(row, v)' => \A e \in Recorded' : Owner(e)' # v
    BY DEF RowsRecorded
  <2>1. CASE v = u
    <3>1. row'[u] = r
      BY <1>1, <1>t
    <3> QED BY <2>1, <3>1, <1>1, <1>2, <1>3, <1>t DEF Exists
  <2>2. CASE v # u
    <3>1. row'[v] = row[v]
      BY <2>2, <1>1, <1>t
    <3>2. /\ row[v] # Absent => \E e \in Recorded : Newest(e) /\ Owner(e) = v
          /\ row[v] = Absent => \A e \in Recorded : Owner(e) # v
      BY DEF AInv, RowsRecorded, Exists
    <3> QED BY <2>2, <3>1, <3>2, <1>1, <1>2, <1>3 DEF Exists
  <2> QED BY <2>1, <2>2
<1>6. RowIsNewest'
  <2> SUFFICES ASSUME NEW e \in Recorded', Newest(e)', Owner(e)' \notin spoiled
               PROVE  row'[Owner(e)'] = outbox'[e].row
    BY <1>u DEF RowIsNewest
  <2>1. CASE e = n
    BY <2>1, <1>1, <1>2, <1>t
  <2>2. CASE e \in Recorded
    <3>1. Newest(e) /\ Owner(e) # u
      BY <2>2, <1>3
    <3>2. row[Owner(e)] = outbox[e].row
      BY <2>2, <3>1, <1>2 DEF AInv, RowIsNewest
    <3> QED BY <2>2, <3>1, <3>2, <1>1, <1>2, <1>t
  <2> QED BY <2>1, <2>2, <1>1
<1>7. RegisteredFirst'
  <2> SUFFICES ASSUME NEW e \in Recorded', NEW f \in Recorded',
                      outbox'[e].kind = "registered", Owner(f)' = Owner(e)'
               PROVE  e <= f
    BY DEF RegisteredFirst
  <2>1. CASE e \in Recorded /\ f \in Recorded
    BY <2>1, <1>1, <1>2 DEF AInv, RegisteredFirst
  <2>2. CASE e \in Recorded /\ f = n
    <3>1. Owner(e) = u
      BY <2>2, <1>2
    <3>2. e < n /\ e \in Nat
      BY <2>2, <3>1, <1>y, <1>m
    <3> QED BY <2>2, <3>2, <1>m
  <2>3. CASE e = n /\ f = n
    BY <2>3, <1>m
  <2>4. CASE e = n /\ f \in Recorded
    <3>1. ~Exists(row, u)
      BY <2>4, <1>1
    <3>2. Owner(f) = u
      BY <2>4, <1>2
    <3> QED BY <3>1, <3>2, <2>4 DEF AInv, RowsRecorded
  <2> QED BY <2>1, <2>2, <2>3, <2>4, <1>1
<1>8. AuthFromEvents'
  BY <1>1, <1>2, <1>u DEF AInv, AuthFromEvents, Exists
<1>9. FailuresSpoil'
  <2> SUFFICES ASSUME NEW e \in Ids, retries[e] > 0 \/ mark[e] = "failed"
               PROVE  e \in Recorded' /\ Owner(e)' \in spoiled
    BY <1>u DEF FailuresSpoil
  <2>1. e \in Recorded /\ Owner(e) \in spoiled
    BY DEF AInv, FailuresSpoil
  <2> QED BY <2>1, <1>1, <1>2
<1>10. InOrder'
  <2> SUFFICES ASSUME NEW e \in Recorded', NEW f \in Recorded', e < f,
                      Owner(e)' = Owner(f)', Owner(e)' \notin spoiled
               PROVE  /\ f \in processed => e \in processed
                      /\ InBatch(f) => e \in processed \/ InBatch(e)
                      /\ mark[f] = "processed" => Sent(e)
    BY <1>u, <1>4 DEF InOrder, InBatch
  <2>1. CASE f = n
    BY <2>1, <1>4 DEF Sent, InBatch
  <2>2. CASE f \in Recorded /\ e \in Recorded
    BY <2>2, <1>2 DEF AInv, InOrder
  <2>3. CASE f \in Recorded /\ e = n
    <3>1. Owner(f) = u
      BY <2>3, <1>2
    <3>2. f < n /\ f \in Nat
      BY <2>3, <3>1, <1>y, <1>m
    <3> QED BY <2>3, <3>2, <1>m
  <2> QED BY <2>1, <2>2, <2>3, <1>1
<1>11. RegisteredArrives'
  <2> SUFFICES ASSUME NEW e \in Recorded', Sent(e)', Owner(e)' \notin spoiled,
                      outbox'[e].kind = "registered"
               PROVE  InQueue(e, "registered") \/ Exists(auth, Owner(e)')
    BY <1>u DEF RegisteredArrives, InQueue, Positions, Exists
  <2>1. e \in Recorded /\ Sent(e)
    BY <1>1, <1>4
  <2> QED BY <2>1, <1>1, <1>2 DEF AInv, RegisteredArrives
<1>12. UpdatedArrives'
  <2> SUFFICES ASSUME NEW e \in Recorded', Sent(e)', Owner(e)' \notin spoiled,
                      outbox'[e].kind = "updated", Newest(e)'
               PROVE  LastQueued(e)' \/ (NoneQueued(Owner(e))' /\ auth[Owner(e)'] = outbox'[e].row)
    BY <1>u DEF UpdatedArrives
  <2>1. e \in Recorded /\ Sent(e) /\ Newest(e)
    BY <1>1, <1>3, <1>4
  <2>2. LastQueued(e) \/ (NoneQueued(Owner(e)) /\ auth[Owner(e)] = outbox[e].row)
    BY <2>1, <1>1, <1>2 DEF AInv, UpdatedArrives
  <2>3. \A i \in Positions("updated") : Owner(subs["updated"][i])' = Owner(subs["updated"][i])
    BY <1>t, <1>2, <1>u DEF Kinds, Owner
  <2>4. Positions("updated")' = Positions("updated") /\ subs' = subs
    BY <1>u DEF Positions
  <2>5. LastQueued(e) => LastQueued(e)'
    BY <2>1, <2>3, <2>4, <1>2 DEF LastQueued, Owner
  <2>6. NoneQueued(Owner(e)) => NoneQueued(Owner(e))'
    BY <2>1, <2>3, <2>4, <1>2 DEF NoneQueued, Owner
  <2> QED BY <2>1, <2>2, <2>5, <2>6, <1>1, <1>2
<1>13. UpdatesInOrder'
  <2>1. CASE k = "updated"
    <3>1. begun'["updated"] = 0
      BY <2>1, <1>1, Types DEF IInv, TypeOK
    <3> QED BY <3>1 DEF UpdatesInOrder
  <2>2. CASE k = "registered"
    <3>1. begun'["updated"] = begun["updated"]
      BY <2>2, <1>1 DEF IInv, TypeOK, Kinds
    <3> QED BY <2>2, <3>1, <1>1 DEF AInv, UpdatesInOrder
  <2> QED BY <2>1, <2>2, <1>k
<1> QED BY <1>5, <1>6, <1>7, <1>8, <1>9, <1>10, <1>11, <1>12, <1>13 DEF AInv

LEMMA BeginAbandonAgree ==
  ASSUME IInv, AInv, NEW k \in Kinds, Begin(k) \/ Abandon(k)
  PROVE  AInv'
<1>1. UNCHANGED <<row, outbox, processed, retries, mark, subs, auth, spoiled>>
  BY BeginAbandonKeep DEF authSide, history
<1>2. \A e : Sent(e)' => Sent(e)
  BY <1>1 DEF Sent
<1>3. UpdatesInOrder'
  <2> SUFFICES ASSUME NEW e \in Recorded, outbox[e].kind = "updated", begun'["updated"] # 0
               PROVE  e < begun'["updated"]
    BY <1>1 DEF UpdatesInOrder, Recorded
  <2>t. begun \in [Kinds -> (Ids \ Recorded) \cup {0}] /\ "updated" \in Kinds
    BY DEF IInv, TypeOK, Kinds
  <2>1. CASE begun'["updated"] = begun["updated"]
    BY <2>1 DEF AInv, UpdatesInOrder
  <2>2. CASE begun'["updated"] # begun["updated"]
    <3>1. Begin(k) /\ k = "updated"
      BY <2>2, <2>t DEF Begin, Abandon
    <3>2. PICK f \in Ids : /\ \A g \in Opened : g < f
                          /\ begun' = [begun EXCEPT ![k] = f]
      BY <3>1 DEF Begin
    <3> QED BY <3>1, <3>2, <2>t DEF Opened
  <2> QED BY <2>1, <2>2
<1> QED BY <1>1, <1>2, <1>3, FrameRows, FrameAuth, FrameFailures, FrameOrder, FrameArrives
        DEF AInv

LEMMA UsersStepAgrees == IInv /\ AInv /\ UsersStep => AInv'
<1> SUFFICES ASSUME IInv, AInv, UsersStep PROVE AInv'
  OBVIOUS
<1>1. ASSUME NEW n \in Names, Approve(n) PROVE AInv'
  <2>1. NewUser \in Users /\ ~Exists(row, NewUser)
    BY <1>1 DEF Approve, NewUser
  <2>2. [name |-> n, active |-> TRUE] \in Rows
    BY DEF Rows
  <2> QED BY <1>1, <2>1, <2>2, RecordAgrees DEF Approve, Kinds
<1>2. ASSUME NEW u \in Users, NEW r \in Rows, UpdateUser(u, r) PROVE AInv'
  BY <1>2, RecordAgrees DEF UpdateUser, Kinds
<1>3. ASSUME NEW u \in Users, DeleteUser(u) PROVE AInv'
  <2>t. row \in [Users -> Rows \cup {Absent}] /\ Absent \notin Rows
    BY Types
  <2>1. \A v \in Users : Exists(row, v)' <=> Exists(row, v)
    <3>1. row[u] \in Rows
      BY <1>3, <2>t DEF DeleteUser, Exists
    <3>2. [row[u] EXCEPT !.active = FALSE] \in Rows
      BY <3>1 DEF Rows
    <3> QED BY <1>3, <2>t, <3>1, <3>2 DEF DeleteUser, Exists
  <2>2. UNCHANGED <<outbox, begun, processed, retries, mark, subs, auth>>
        /\ spoiled' = spoiled \cup {u} /\ \A v \in Users \ {u} : row'[v] = row[v]
    BY <1>3, <2>t DEF DeleteUser, authSide
  <2>3. RowsRecorded'
    BY <2>1, <2>2 DEF AInv, RowsRecorded, Recorded, Newest, Owner
  <2>4. RowIsNewest' /\ RegisteredFirst'
    <3>1. \A e \in Recorded : Owner(e) \in Users
      BY Types
    <3> QED BY <2>2, <3>1 DEF AInv, RowIsNewest, RegisteredFirst, Recorded, Newest, Owner
  <2>5. \A e : Sent(e)' => Sent(e)
    BY <2>2 DEF Sent
  <2> QED BY <2>2, <2>3, <2>4, <2>5, FrameUpdates, FrameAuth, FrameFailures, FrameOrder, FrameArrives
          DEF AInv
<1> QED BY <1>1, <1>2, <1>3, BeginAbandonAgree DEF UsersStep
-----------------------------------------------------------------------------
\* The processor.

\* A batch of the oldest events holds, with an event, every older one.
LEMMA OldestIsClosed ==
  ASSUME IInv, NEW f \in Oldest, NEW e \in Pending, e < f
  PROVE  e \in Oldest
<1> DEFINE Before(x) == {g \in Pending : g < x}
<1>1. MaxEvents \in Nat /\ Pending \subseteq 1..MaxEvents
  BY Types DEF Pending, Ids
<1>2. e \in Int /\ f \in Int /\ f \in Pending
  BY <1>1 DEF Oldest
<1>3. Before(e) \subseteq Before(f)
  <2> SUFFICES ASSUME NEW g \in Pending, g < e PROVE g < f
    OBVIOUS
  <2>1. g \in Int
    BY <1>1
  <2> QED BY <2>1, <1>2
<1>4. IsFiniteSet(1..MaxEvents)
  BY <1>1, FS_Interval
<1>5. IsFiniteSet(Before(f))
  BY <1>1, <1>4, FS_Subset
<1>6. IsFiniteSet(Before(e)) /\ Cardinality(Before(e)) <= Cardinality(Before(f))
  BY <1>3, <1>5, FS_Subset
<1>7. Cardinality(Before(e)) \in Nat /\ Cardinality(Before(f)) \in Nat
  BY <1>5, <1>6, FS_CardinalityType
<1>8. Cardinality(Before(f)) < BatchSize
  BY DEF Oldest
<1>9. Cardinality(Before(e)) < BatchSize
  BY <1>6, <1>7, <1>8, BatchSizeAssumption
<1> QED BY <1>9 DEF Oldest

LEMMA FetchBatchAgrees == IInv /\ AInv /\ FetchBatch => AInv'
<1> SUFFICES ASSUME IInv, AInv, FetchBatch PROVE AInv'
  OBVIOUS
<1>1. UNCHANGED <<row, outbox, begun, processed, retries, subs, auth, spoiled>>
  BY DEF FetchBatch, usersDB, authSide, history
<1>2. \A e \in Ids : mark[e] = "none" /\ mark'[e] = (IF e \in Oldest THEN "locked" ELSE "none")
  BY DEF FetchBatch, Idle, InBatch
<1>3. Recorded \subseteq Ids /\ Recorded' = Recorded
  BY <1>1, Types DEF Recorded
<1>4. FailuresSpoil'
  BY <1>1, <1>2, <1>3 DEF AInv, FailuresSpoil, Owner
<1>5. InOrder'
  <2> SUFFICES ASSUME NEW e \in Recorded, NEW f \in Recorded, e < f,
                      Owner(e) = Owner(f), Owner(e) \notin spoiled
               PROVE  /\ f \in processed => e \in processed
                      /\ InBatch(f)' => e \in processed \/ InBatch(e)'
                      /\ mark'[f] = "processed" => Sent(e)'
    BY <1>1, <1>3 DEF InOrder, Owner
  <2>1. f \in processed => e \in processed
    BY DEF AInv, InOrder
  <2>2. mark'[f] # "processed"
    BY <1>2, <1>3
  <2>3. ASSUME InBatch(f)', e \notin processed PROVE InBatch(e)'
    <3>1. f \in Oldest
      BY <2>3, <1>2, <1>3 DEF InBatch
    <3>2. e \in Oldest
      BY <3>1, <2>3, OldestIsClosed DEF Pending
    <3> QED BY <3>2, <1>2, <1>3 DEF InBatch
  <2> QED BY <2>1, <2>2, <2>3
<1>6. \A e \in Recorded : Sent(e)' => Sent(e)
  BY <1>1, <1>2, <1>3 DEF Sent
<1> QED BY <1>1, <1>4, <1>5, <1>6, FrameRows, FrameUpdates, FrameAuth, FrameArrives DEF AInv

\* A step that only changes the mark of an event whose user took a wrong turn.
LEMMA SpoiledMarkAgrees ==
  ASSUME IInv, AInv, NEW e \in Recorded, Owner(e) \in spoiled', NEW m,
         mark' = [mark EXCEPT ![e] = m],
         spoiled \subseteq spoiled',
         UNCHANGED <<row, outbox, begun, processed, retries, subs, auth>>
  PROVE  AInv'
<1>1. Recorded \subseteq Ids /\ Recorded' = Recorded /\ mark \in [Ids -> Marks]
  BY Types DEF Recorded
<1>2. \A f \in Ids : f # e => mark'[f] = mark[f]
  BY <1>1
<1>3. FailuresSpoil'
  BY <1>1, <1>2 DEF AInv, FailuresSpoil, Owner
<1>4. \A f \in Recorded : Owner(f) \notin spoiled' =>
         /\ mark'[f] = mark[f] /\ (InBatch(f)' <=> InBatch(f)) /\ (Sent(f)' <=> Sent(f))
  BY <1>1, <1>2 DEF InBatch, Sent
<1>5. InOrder'
  <2> SUFFICES ASSUME NEW g \in Recorded, NEW f \in Recorded, g < f,
                      Owner(g) = Owner(f), Owner(g) \notin spoiled'
               PROVE  /\ f \in processed => g \in processed
                      /\ InBatch(f)' => g \in processed \/ InBatch(g)'
                      /\ mark'[f] = "processed" => Sent(g)'
    BY <1>1 DEF InOrder, Owner
  <2>1. /\ f \in processed => g \in processed
        /\ InBatch(f) => g \in processed \/ InBatch(g)
        /\ mark[f] = "processed" => Sent(g)
    BY DEF AInv, InOrder
  <2> QED BY <2>1, <1>4
<1> QED BY <1>3, <1>4, <1>5, FrameRows, FrameUpdates, FrameAuth, FrameArrives DEF AInv

LEMMA PublishAgrees ==
  ASSUME IInv, AInv, NEW e \in Ids, Publish(e)
  PROVE  AInv'
<1>c. e \in Recorded /\ e \in Pending /\ outbox[e] \in Events /\ Current(e)
  BY CurrentIsPending DEF Publish
<1>t. /\ Recorded \subseteq Ids /\ mark \in [Ids -> Marks]
      /\ \A k \in Kinds : subs[k] \in Seq(Recorded)
      /\ \A k \in Kinds : \A i \in Positions(k) : subs[k][i] \in Recorded
      /\ \A k \in Kinds : Len(subs[k]) \in Nat
      /\ \A f \in Ids : InBatch(f) => f \in Pending
      /\ subs \in [Kinds -> Seq(Recorded)]
  BY Types DEF IInv, TypeOK
<1>1. /\ UNCHANGED <<row, outbox, begun, processed, retries, auth>>
      /\ mark' = [mark EXCEPT ![e] = "processed"]
  BY DEF Publish, usersDB
<1>2. CASE ~up /\ spoiled' = spoiled \cup {Owner(e)} /\ UNCHANGED subs
  BY <1>1, <1>2, <1>c, SpoiledMarkAgrees
<1>3. CASE up /\ subs' = [subs EXCEPT ![outbox[e].kind] = Append(@, e)] /\ UNCHANGED spoiled
  <2>1. Recorded' = Recorded /\ \A f : Owner(f)' = Owner(f) /\ (Newest(f)' <=> Newest(f))
    BY <1>1 DEF Recorded, Owner, Newest
  <2>2. \A f \in Ids : mark'[f] = IF f = e THEN "processed" ELSE mark[f]
    BY <1>1, <1>t
  <2>3. FailuresSpoil'
    <3> SUFFICES ASSUME NEW f \in Ids, retries[f] > 0 \/ mark'[f] = "failed"
                 PROVE  f \in Recorded /\ Owner(f) \in spoiled
      BY <1>1, <1>3, <2>1 DEF FailuresSpoil
    <3>1. retries[f] > 0 \/ mark[f] = "failed"
      BY <2>2
    <3> QED BY <3>1 DEF AInv, FailuresSpoil
  <2>4. mark[e] = "locked" /\ e \notin processed
        /\ \A f \in Ids : mark[f] = "locked" => e <= f
    BY <1>c DEF Current, Pending
  \* No later event of the user has been sent, every earlier one has.
  <2>5. ASSUME NEW f \in Recorded, Owner(f) = Owner(e), Owner(e) \notin spoiled, e < f
        PROVE  ~Sent(f) /\ ~Sent(f)'
    <3>1. ~Sent(e)
      BY <2>4 DEF Sent
    <3>2. f \notin processed /\ mark[f] # "processed"
      BY <2>5, <3>1, <2>4, <1>c DEF AInv, InOrder
    <3>3. f \in Ids /\ f # e /\ processed' = processed
      BY <2>5, <1>1, <1>t, Types
    <3>4. mark'[f] = mark[f]
      BY <3>3, <2>2
    <3> QED BY <3>2, <3>3, <3>4 DEF Sent
  <2>6. ASSUME NEW f \in Recorded, Owner(f) = Owner(e), Owner(e) \notin spoiled, f < e
        PROVE  Sent(f)
    <3>1. f \in processed \/ InBatch(f)
      BY <2>6, <2>4, <1>c DEF AInv, InOrder, InBatch
    <3>2. mark[f] # "failed"
      BY <2>6, <1>t DEF AInv, FailuresSpoil
    <3>3. mark[f] # "locked"
      <4>1. e \in Int /\ f \in Int
        BY <1>t DEF Ids
      <4> QED BY <4>1, <2>4, <2>6, <1>t
    <3> QED BY <3>1, <3>2, <3>3, <1>t DEF InBatch, Marks, Sent
  <2>7. InOrder'
    <3> SUFFICES ASSUME NEW g \in Recorded, NEW f \in Recorded, g < f,
                        Owner(g) = Owner(f), Owner(g) \notin spoiled
                 PROVE  /\ f \in processed => g \in processed
                        /\ InBatch(f)' => g \in processed \/ InBatch(g)'
                        /\ mark'[f] = "processed" => Sent(g)'
      BY <1>1, <1>3, <2>1 DEF InOrder
    <3>1. /\ f \in processed => g \in processed
          /\ InBatch(f) => g \in processed \/ InBatch(g)
          /\ mark[f] = "processed" => Sent(g)
      BY DEF AInv, InOrder
    <3>2. \A h \in Recorded : (InBatch(h)' <=> InBatch(h)) /\ (Sent(h) => Sent(h)')
      BY <1>1, <2>2, <2>4, <1>t DEF InBatch, Sent
    <3>3. f = e => Sent(g)
      BY <2>6
    <3> QED BY <3>1, <3>2, <3>3, <2>2, <1>t
  <2>8. \A k \in Kinds \ {outbox[e].kind} : subs'[k] = subs[k]
    BY <1>3, <1>t
  <2>9. /\ outbox[e].kind \in Kinds
        /\ Len(subs'[outbox[e].kind]) = Len(subs[outbox[e].kind]) + 1
        /\ \A i \in Positions(outbox[e].kind) : subs'[outbox[e].kind][i] = subs[outbox[e].kind][i]
        /\ subs'[outbox[e].kind][Len(subs[outbox[e].kind]) + 1] = e
    <3>1. outbox[e].kind \in Kinds
      BY <1>c DEF Events
    <3>2. subs'[outbox[e].kind] = Append(subs[outbox[e].kind], e)
      BY <1>3, <3>1, <1>t
    <3> QED BY <3>1, <3>2, <1>t, <1>1 DEF Positions
  <2>10. RegisteredArrives'
    <3> SUFFICES ASSUME NEW f \in Recorded, Sent(f)', Owner(f) \notin spoiled,
                        outbox[f].kind = "registered"
                 PROVE  InQueue(f, "registered")' \/ Exists(auth, Owner(f))
      BY <1>1, <1>3, <2>1 DEF RegisteredArrives, Exists
    <3>1. CASE f = e
      BY <3>1, <2>9, <1>t DEF InQueue, Positions
    <3>2. CASE f # e
      <4>1. Sent(f)
        BY <3>2, <2>2, <1>1, <1>t DEF Sent
      <4>2. InQueue(f, "registered") \/ Exists(auth, Owner(f))
        BY <4>1 DEF AInv, RegisteredArrives
      <4>3. InQueue(f, "registered") => InQueue(f, "registered")'
        <5>1. CASE outbox[e].kind = "registered"
          BY <5>1, <2>9, <1>t DEF InQueue, Positions
        <5>2. CASE outbox[e].kind # "registered"
          BY <5>2, <2>8 DEF InQueue, Positions, Kinds
        <5> QED BY <5>1, <5>2
      <4> QED BY <4>2, <4>3
    <3> QED BY <3>1, <3>2
  <2>11. UpdatedArrives'
    <3> SUFFICES ASSUME NEW f \in Recorded, Sent(f)', Owner(f) \notin spoiled,
                        outbox[f].kind = "updated", Newest(f)
                 PROVE  LastQueued(f)' \/ (NoneQueued(Owner(f))' /\ auth[Owner(f)] = outbox[f].row)
      BY <1>1, <1>3, <2>1 DEF UpdatedArrives, NoneQueued
    <3>1. CASE f = e
      BY <3>1, <2>9, <1>t DEF LastQueued, Positions
    <3>2. CASE f # e
      <4>1. Sent(f)
        BY <3>2, <2>2, <1>1, <1>t DEF Sent
      <4>2. LastQueued(f) \/ (NoneQueued(Owner(f)) /\ auth[Owner(f)] = outbox[f].row)
        BY <4>1 DEF AInv, UpdatedArrives
      <4>3. Owner(e) # Owner(f)
        <5>1. SUFFICES ASSUME Owner(e) = Owner(f) PROVE FALSE
          OBVIOUS
        <5>2. e <= f /\ e \in Int /\ f \in Int
          BY <5>1, <1>c, <1>t DEF Newest, Ids
        <5>3. e < f
          BY <5>2, <3>2
        <5> QED BY <5>1, <5>3, <4>1, <2>5
      <4>4. CASE outbox[e].kind = "updated"
        BY <4>2, <4>3, <4>4, <2>1, <2>9, <1>t DEF LastQueued, NoneQueued, Positions
      <4>5. CASE outbox[e].kind # "updated"
        <5>1. subs'["updated"] = subs["updated"]
          BY <4>5, <2>8 DEF Kinds
        <5> QED BY <4>2, <5>1, <2>1 DEF LastQueued, NoneQueued, Positions
      <4> QED BY <4>4, <4>5
    <3> QED BY <3>1, <3>2
  <2> QED BY <1>1, <1>3, <2>3, <2>7, <2>10, <2>11, FrameRows, FrameUpdates, FrameAuth DEF AInv
<1> QED BY <1>2, <1>3 DEF Publish, Owner

LEMMA EventStepAgrees ==
  ASSUME IInv, AInv, NEW e \in Ids, EventStep(e)
  PROVE  AInv'
<1>1. CASE GiveUp(e)
  <2>1. e \in Recorded
    BY <1>1, CurrentIsPending DEF GiveUp
  <2>2. Owner(e) \in spoiled
    <3>1. retries[e] >= MaxRetry /\ retries[e] \in 0..MaxRetry
      BY <1>1, Types DEF GiveUp, Exhausted
    <3>2. retries[e] > 0
      BY <3>1, MaxRetryAssumption
    <3> QED BY <3>2 DEF AInv, FailuresSpoil
  <2> QED BY <1>1, <2>1, <2>2, SpoiledMarkAgrees DEF GiveUp, usersDB, authSide, history
<1>2. CASE Publish(e)
  BY <1>2, PublishAgrees
<1>3. CASE PublishError(e)
  <2>1. e \in Recorded
    BY <1>3, CurrentIsPending DEF PublishError
  <2> QED BY <1>3, <2>1, SpoiledMarkAgrees DEF PublishError, usersDB, authSide, Owner
<1> QED BY <1>1, <1>2, <1>3 DEF EventStep

LEMMA CommitAgrees == IInv /\ AInv /\ Commit => AInv'
<1> SUFFICES ASSUME IInv, AInv, Commit PROVE AInv'
  OBVIOUS
<1>t. Recorded \subseteq Ids /\ mark \in [Ids -> Marks] /\ retries \in [Ids -> 0..MaxRetry]
  BY Types
<1>1. UNCHANGED <<row, outbox, begun, subs, auth, spoiled>> /\ Recorded' = Recorded
  BY DEF Commit, authSide, history, Recorded
<1>2. /\ \A e \in Ids : mark'[e] = "none"
      /\ \A e \in Ids : e \in processed' <=> Sent(e)
  BY DEF Commit, Retired, Sent
<1>3. FailuresSpoil'
  <2> SUFFICES ASSUME NEW e \in Ids, retries'[e] > 0
               PROVE  e \in Recorded /\ Owner(e) \in spoiled
    BY <1>1, <1>2 DEF FailuresSpoil, Owner
  <2>1. retries[e] > 0 \/ mark[e] = "failed"
    BY <1>t DEF Commit
  <2> QED BY <2>1 DEF AInv, FailuresSpoil
<1>4. InOrder'
  <2> SUFFICES ASSUME NEW e \in Recorded, NEW f \in Recorded, e < f,
                      Owner(e) = Owner(f), Owner(e) \notin spoiled
               PROVE  f \in processed' => e \in processed'
    BY <1>1, <1>2, <1>t DEF InOrder, Owner, InBatch
  <2>1. Sent(f) => Sent(e)
    BY DEF AInv, InOrder, Sent
  <2> QED BY <2>1, <1>2, <1>t
<1>5. \A e \in Recorded : Sent(e)' => Sent(e)
  BY <1>2, <1>t DEF Sent
<1> QED BY <1>1, <1>3, <1>4, <1>5, FrameRows, FrameUpdates, FrameAuth, FrameArrives DEF AInv

LEMMA RollbackAgrees == IInv /\ AInv /\ Rollback => AInv'
<1> SUFFICES ASSUME IInv, AInv, Rollback PROVE AInv'
  OBVIOUS
<1>1. UNCHANGED <<row, outbox, begun, processed, retries, subs, auth, spoiled>>
      /\ \A e \in Ids : mark'[e] = "none"
  BY DEF Rollback, usersDB, authSide, history
<1>2. Recorded' = Recorded /\ Recorded \subseteq Ids
  BY <1>1, Types DEF Recorded
<1>3. FailuresSpoil'
  BY <1>1, <1>2 DEF AInv, FailuresSpoil, Owner
<1>4. InOrder'
  BY <1>1, <1>2 DEF AInv, InOrder, Owner, InBatch
<1>5. \A e \in Recorded : Sent(e)' => Sent(e)
  BY <1>1, <1>2 DEF Sent
<1> QED BY <1>1, <1>3, <1>4, <1>5, FrameRows, FrameUpdates, FrameAuth, FrameArrives DEF AInv
-----------------------------------------------------------------------------
\* services/auth.

\* A queue without its head.
LEMMA Delivered ==
  ASSUME IInv, NEW k \in Kinds, Deliver(k)
  PROVE  /\ First(k) \in Recorded /\ First(k) = subs[k][1]
         /\ Len(subs[k]) \in Nat /\ Len(subs[k]) > 0
         /\ Len(subs'[k]) = Len(subs[k]) - 1
         /\ \A i \in 1..(Len(subs[k]) - 1) : subs'[k][i] = subs[k][i + 1]
         /\ \A l \in Kinds : l # k => subs'[l] = subs[l]
<1>1. subs \in [Kinds -> Seq(Recorded)] /\ subs[k] \in Seq(Recorded) /\ subs[k] # <<>>
  BY DEF IInv, TypeOK, Deliver
<1>2. subs'[k] = Tail(subs[k])
  BY <1>1 DEF Deliver
<1>3. Len(subs[k]) \in Nat /\ Len(subs[k]) > 0
  BY <1>1
<1>4. First(k) = subs[k][1] /\ First(k) \in Recorded
  BY <1>1, <1>3 DEF First
<1>5. \A l \in Kinds : l # k => subs'[l] = subs[l]
  BY <1>1 DEF Deliver
<1> QED BY <1>1, <1>2, <1>3, <1>4, <1>5

\* Only the head has left; the last message of a user, unless it was the
\* head, is where it was.
LEMMA DeliveredQueues ==
  ASSUME IInv, NEW k \in Kinds, Deliver(k), UNCHANGED outbox,
         NEW e \in Recorded
  PROVE  /\ \A l \in Kinds : InQueue(e, l) /\ ~(l = k /\ e = First(k)) => InQueue(e, l)'
         /\ LastQueued(e) =>
              \/ LastQueued(e)'
              \/ k = "updated" /\ e = First(k) /\ NoneQueued(Owner(e))'
         /\ \A u : NoneQueued(u) => NoneQueued(u)'
<1>1. /\ First(k) = subs[k][1]
      /\ Len(subs[k]) \in Nat /\ Len(subs[k]) > 0
      /\ Len(subs'[k]) = Len(subs[k]) - 1
      /\ \A i \in 1..(Len(subs[k]) - 1) : subs'[k][i] = subs[k][i + 1]
      /\ \A l \in Kinds : l # k => subs'[l] = subs[l]
  BY Delivered
<1>2. \A x : Owner(x)' = Owner(x)
  BY DEF Owner
<1>3. ASSUME NEW l \in Kinds, InQueue(e, l), ~(l = k /\ e = First(k))
      PROVE  InQueue(e, l)'
  <2>1. PICK i \in Positions(l) : subs[l][i] = e
    BY <1>3 DEF InQueue
  <2>2. CASE l # k
    BY <2>1, <2>2, <1>1 DEF InQueue, Positions
  <2>3. CASE l = k
    <3>1. i # 1 /\ i - 1 \in 1..(Len(subs[k]) - 1)
      BY <2>1, <2>3, <1>1, <1>3 DEF Positions
    <3>2. subs'[k][i - 1] = e
      BY <3>1, <2>1, <2>3, <1>1 DEF Positions
    <3> QED BY <3>1, <3>2, <2>3, <1>1 DEF InQueue, Positions
  <2> QED BY <2>2, <2>3
<1>4. ASSUME NEW u, NoneQueued(u) PROVE NoneQueued(u)'
  <2> SUFFICES ASSUME NEW i \in Positions("updated")' PROVE Owner(subs'["updated"][i]) # u
    BY <1>2 DEF NoneQueued, Owner
  <2>1. CASE k # "updated"
    BY <2>1, <1>1, <1>4 DEF NoneQueued, Positions, Kinds
  <2>2. CASE k = "updated"
    <3>1. i + 1 \in Positions("updated") /\ subs'["updated"][i] = subs["updated"][i + 1]
      BY <2>2, <1>1 DEF Positions
    <3> QED BY <3>1, <1>4 DEF NoneQueued
  <2> QED BY <2>1, <2>2
<1>5. ASSUME LastQueued(e), ~(k = "updated" /\ e = First(k) /\ NoneQueued(Owner(e))')
      PROVE  LastQueued(e)'
  <2>1. PICK i \in Positions("updated") :
          /\ subs["updated"][i] = e
          /\ \A j \in Positions("updated") : j > i => Owner(subs["updated"][j]) # Owner(e)
    BY <1>5 DEF LastQueued
  <2>2. CASE k # "updated"
    BY <2>1, <2>2, <1>1, <1>2 DEF LastQueued, Positions, Kinds
  <2>3. CASE k = "updated"
    <3>1. ASSUME NEW j \in Positions("updated")', j >= i
          PROVE  Owner(subs'["updated"][j]) # Owner(e)
      <4>1. j + 1 \in Positions("updated") /\ subs'["updated"][j] = subs["updated"][j + 1]
            /\ j + 1 > i
        BY <3>1, <2>3, <1>1 DEF Positions
      <4>2. Owner(subs["updated"][j + 1]) # Owner(e)
        BY <4>1, <2>1
      <4> QED BY <4>1, <4>2
    <3>2. CASE i = 1
      <4>1. NoneQueued(Owner(e))'
        BY <3>1, <3>2, <1>2, <1>1 DEF NoneQueued, Positions, Owner
      <4> QED BY <4>1, <3>2, <2>1, <2>3, <1>1, <1>5
    <3>3. CASE i # 1
      <4>1. i - 1 \in Positions("updated")' /\ subs'["updated"][i - 1] = e
        BY <3>3, <2>1, <2>3, <1>1 DEF Positions
      <4>2. \A j \in Positions("updated")' : j > i - 1 => Owner(subs'["updated"][j]) # Owner(e)
        BY <3>1, <3>3, <1>1, <2>3 DEF Positions
      <4> QED BY <4>1, <4>2, <1>2 DEF LastQueued, Owner
    <3> QED BY <3>2, <3>3
  <2> QED BY <2>2, <2>3
<1> QED BY <1>3, <1>4, <1>5

\* The conjuncts that a step of services/auth leaves alone.
LEMMA FrameUsersSide ==
  ASSUME AInv, UNCHANGED <<usersDB, mark>>, spoiled \subseteq spoiled'
  PROVE  /\ RowsRecorded' /\ RowIsNewest' /\ RegisteredFirst' /\ UpdatesInOrder'
         /\ FailuresSpoil' /\ InOrder'
BY FrameRows, FrameUpdates, FrameFailures, FrameOrder DEF AInv, usersDB

LEMMA SentFrame ==
  ASSUME UNCHANGED <<usersDB, mark>>
  PROVE  /\ Recorded' = Recorded
         /\ \A e : /\ Sent(e)' <=> Sent(e)
                   /\ Newest(e)' <=> Newest(e)
                   /\ Owner(e)' = Owner(e)
BY DEF Sent, Newest, Recorded, Owner, usersDB

LEMMA HandleRegisteredAgrees == IInv /\ AInv /\ HandleRegistered => AInv'
<1> SUFFICES ASSUME IInv, AInv, HandleRegistered PROVE AInv'
  OBVIOUS
<1>x. PICK x : x = First("registered")
  OBVIOUS
<1>1. /\ UNCHANGED <<usersDB, mark>> /\ UNCHANGED outbox
      /\ "registered" \in Kinds /\ "updated" \in Kinds /\ Deliver("registered")
  BY DEF HandleRegistered, usersDB, Kinds
<1>2. x \in Recorded /\ outbox[x].row \in Rows /\ Owner(x) \in Users
  BY <1>1, <1>x, Delivered, Types DEF Events
<1>t. /\ auth \in [Users -> Rows \cup {Absent}] /\ Absent \notin Rows
      /\ \A e \in Recorded : Owner(e) \in Users /\ outbox[e].row \in Rows
  BY Types DEF Events
<1>3. /\ spoiled \subseteq spoiled'
      /\ \A u \in Users : Exists(auth, u) => auth'[u] = auth[u]
      /\ \A u \in Users : u # Owner(x) => auth'[u] = auth[u]
      /\ auth'[Owner(x)] \in {auth[Owner(x)], outbox[x].row}
      /\ auth'[Owner(x)] # Absent \/ Owner(x) \in spoiled'
  <2>1. CASE /\ UNCHANGED auth
             /\ spoiled' = IF Exists(auth, Owner(x)) THEN spoiled ELSE spoiled \cup {Owner(x)}
    BY <2>1, <1>2 DEF Exists
  <2>2. CASE auth' = Insert(Owner(x), outbox[x].row) /\ UNCHANGED spoiled
    BY <2>2, <1>2, <1>t DEF Insert, Exists
  <2> QED BY <2>1, <2>2, <1>x DEF HandleRegistered, Owner
<1>4. /\ Recorded' = Recorded
      /\ \A e : (Sent(e)' <=> Sent(e)) /\ (Newest(e)' <=> Newest(e)) /\ Owner(e)' = Owner(e)
  BY <1>1, SentFrame
<1>5. AuthFromEvents'
  <2> SUFFICES ASSUME NEW u \in Users, auth'[u] # Absent
               PROVE  \E e \in Recorded : Owner(e) = u /\ auth'[u] = outbox[e].row
    BY <1>1, <1>4 DEF AuthFromEvents, Exists
  <2>1. CASE auth'[u] = auth[u]
    BY <2>1 DEF AInv, AuthFromEvents, Exists
  <2>2. CASE auth'[u] # auth[u]
    BY <2>2, <1>2, <1>3
  <2> QED BY <2>1, <2>2
<1>6. RegisteredArrives'
  <2> SUFFICES ASSUME NEW e \in Recorded, Sent(e), Owner(e) \notin spoiled',
                      outbox[e].kind = "registered"
               PROVE  InQueue(e, "registered")' \/ auth'[Owner(e)] # Absent
    BY <1>1, <1>4 DEF RegisteredArrives, Exists
  <2>1. InQueue(e, "registered") \/ Exists(auth, Owner(e))
    BY <1>3 DEF AInv, RegisteredArrives
  <2>2. CASE Exists(auth, Owner(e))
    BY <2>2, <1>3, <1>t DEF Exists
  <2>3. CASE InQueue(e, "registered") /\ e # x
    BY <2>3, <1>1, <1>x, DeliveredQueues
  <2>4. CASE e = x
    BY <2>4, <1>3, <1>4 DEF Exists
  <2> QED BY <2>1, <2>2, <2>3, <2>4
<1>7. UpdatedArrives'
  <2> SUFFICES ASSUME NEW e \in Recorded, Sent(e), Owner(e) \notin spoiled',
                      outbox[e].kind = "updated", Newest(e)
               PROVE  LastQueued(e)' \/ (NoneQueued(Owner(e))' /\ auth'[Owner(e)] = outbox[e].row)
    BY <1>1, <1>4 DEF UpdatedArrives
  <2>1. LastQueued(e) \/ (NoneQueued(Owner(e)) /\ auth[Owner(e)] = outbox[e].row)
    BY <1>3 DEF AInv, UpdatedArrives
  <2>2. CASE LastQueued(e)
    BY <2>2, <1>1, DeliveredQueues
  <2>3. CASE NoneQueued(Owner(e)) /\ auth[Owner(e)] = outbox[e].row
    <3>1. NoneQueued(Owner(e))'
      <4>1. \A u : NoneQueued(u) => NoneQueued(u)'
        BY <1>1, DeliveredQueues
      <4>2. Owner(e)' = Owner(e)
        BY <1>4
      <4> QED BY <4>1, <4>2, <2>3
    <3>2. Exists(auth, Owner(e))
      BY <2>3, <1>t DEF Exists
    <3> QED BY <3>1, <3>2, <2>3, <1>3, <1>t
  <2> QED BY <2>1, <2>2, <2>3
<1> QED BY <1>1, <1>3, <1>5, <1>6, <1>7, FrameUsersSide DEF AInv

LEMMA HandleUpdatedAgrees == IInv /\ AInv /\ HandleUpdated => AInv'
<1> SUFFICES ASSUME IInv, AInv, HandleUpdated PROVE AInv'
  OBVIOUS
<1>x. PICK x : x = First("updated")
  OBVIOUS
<1>1. /\ UNCHANGED <<usersDB, mark>> /\ UNCHANGED outbox
      /\ "registered" \in Kinds /\ "updated" \in Kinds /\ Deliver("updated")
  BY DEF HandleUpdated, usersDB, Kinds
<1>2. x \in Recorded /\ outbox[x].row \in Rows /\ Owner(x) \in Users
  BY <1>1, <1>x, Delivered, Types DEF Events
<1>t. /\ auth \in [Users -> Rows \cup {Absent}] /\ Absent \notin Rows
      /\ \A e \in Recorded : Owner(e) \in Users /\ outbox[e].row \in Rows
  BY Types DEF Events
<1>3. /\ spoiled \subseteq spoiled'
      /\ \A u \in Users : u # Owner(x) => auth'[u] = auth[u]
      /\ auth'[Owner(x)] \in {auth[Owner(x)], outbox[x].row}
      /\ auth'[Owner(x)] = outbox[x].row \/ Owner(x) \in spoiled'
      /\ \A u \in Users : Exists(auth, u) => auth'[u] # Absent
  BY <1>x, <1>2, <1>t DEF HandleUpdated, Exists, Owner
<1>4. /\ Recorded' = Recorded
      /\ \A e : (Sent(e)' <=> Sent(e)) /\ (Newest(e)' <=> Newest(e)) /\ Owner(e)' = Owner(e)
  BY <1>1, SentFrame
<1>5. AuthFromEvents'
  <2> SUFFICES ASSUME NEW u \in Users, auth'[u] # Absent
               PROVE  \E e \in Recorded : Owner(e) = u /\ auth'[u] = outbox[e].row
    BY <1>1, <1>4 DEF AuthFromEvents, Exists
  <2>1. CASE auth'[u] = auth[u]
    BY <2>1 DEF AInv, AuthFromEvents, Exists
  <2>2. CASE auth'[u] # auth[u]
    BY <2>2, <1>2, <1>3
  <2> QED BY <2>1, <2>2
<1>6. RegisteredArrives'
  <2> SUFFICES ASSUME NEW e \in Recorded, Sent(e), Owner(e) \notin spoiled',
                      outbox[e].kind = "registered"
               PROVE  InQueue(e, "registered")' \/ auth'[Owner(e)] # Absent
    BY <1>1, <1>4 DEF RegisteredArrives, Exists
  <2>1. InQueue(e, "registered") \/ Exists(auth, Owner(e))
    BY <1>3 DEF AInv, RegisteredArrives
  <2>2. InQueue(e, "registered") => InQueue(e, "registered")'
    BY <1>1, DeliveredQueues
  <2> QED BY <2>1, <2>2, <1>3, <1>t
<1>7. UpdatedArrives'
  <2> SUFFICES ASSUME NEW e \in Recorded, Sent(e), Owner(e) \notin spoiled',
                      outbox[e].kind = "updated", Newest(e)
               PROVE  LastQueued(e)' \/ (NoneQueued(Owner(e))' /\ auth'[Owner(e)] = outbox[e].row)
    BY <1>1, <1>4 DEF UpdatedArrives
  <2>1. LastQueued(e) \/ (NoneQueued(Owner(e)) /\ auth[Owner(e)] = outbox[e].row)
    BY <1>3 DEF AInv, UpdatedArrives
  <2>2. CASE LastQueued(e)
    <3>1. LastQueued(e)' \/ (e = x /\ NoneQueued(Owner(e))')
      BY <2>2, <1>1, <1>x, DeliveredQueues
    <3> QED BY <3>1, <1>3
  <2>3. CASE NoneQueued(Owner(e)) /\ auth[Owner(e)] = outbox[e].row
    <3>1. NoneQueued(Owner(e))'
      <4>1. \A u : NoneQueued(u) => NoneQueued(u)'
        BY <1>1, DeliveredQueues
      <4>2. Owner(e)' = Owner(e)
        BY <1>4
      <4> QED BY <4>1, <4>2, <2>3
    <3>2. Owner(e) # Owner(x)
      <4>1. 1 \in Positions("updated") /\ subs["updated"][1] = x
        BY <1>1, <1>x, Delivered DEF Positions
      <4> QED BY <4>1, <2>3 DEF NoneQueued
    <3> QED BY <3>1, <3>2, <2>3, <1>3, <1>t
  <2> QED BY <2>1, <2>2, <2>3
<1> QED BY <1>1, <1>3, <1>5, <1>6, <1>7, FrameUsersSide DEF AInv

\* Messages that are lost spoil their users.
LEMMA HandlerFailsAgrees ==
  ASSUME IInv, AInv, NEW k \in Kinds, HandlerFails(k)
  PROVE  AInv'
<1>x. PICK x : x = First(k)
  OBVIOUS
<1>1. /\ UNCHANGED <<usersDB, mark, auth>> /\ UNCHANGED outbox /\ Deliver(k)
      /\ spoiled' = spoiled \cup {Owner(x)} /\ "registered" \in Kinds
  BY <1>x DEF HandlerFails, usersDB, Owner, Kinds
<1>4. /\ Recorded' = Recorded
      /\ \A e : (Sent(e)' <=> Sent(e)) /\ (Newest(e)' <=> Newest(e)) /\ Owner(e)' = Owner(e)
  BY <1>1, SentFrame
<1>6. RegisteredArrives'
  <2> SUFFICES ASSUME NEW e \in Recorded, Sent(e), Owner(e) \notin spoiled',
                      outbox[e].kind = "registered"
               PROVE  InQueue(e, "registered")' \/ Exists(auth, Owner(e))
    BY <1>1, <1>4 DEF RegisteredArrives, Exists
  <2>1. InQueue(e, "registered") \/ Exists(auth, Owner(e))
    BY <1>1 DEF AInv, RegisteredArrives
  <2>2. e # x
    BY <1>1
  <2> QED BY <2>1, <2>2, <1>1, <1>x, DeliveredQueues
<1>7. UpdatedArrives'
  <2> SUFFICES ASSUME NEW e \in Recorded, Sent(e), Owner(e) \notin spoiled',
                      outbox[e].kind = "updated", Newest(e)
               PROVE  LastQueued(e)' \/ (NoneQueued(Owner(e))' /\ auth[Owner(e)] = outbox[e].row)
    BY <1>1, <1>4 DEF UpdatedArrives
  <2>1. LastQueued(e) \/ (NoneQueued(Owner(e)) /\ auth[Owner(e)] = outbox[e].row)
    BY <1>1 DEF AInv, UpdatedArrives
  <2>2. LastQueued(e) => LastQueued(e)'
    BY <1>1, <1>x, DeliveredQueues
  <2>3. NoneQueued(Owner(e)) => NoneQueued(Owner(e))'
    <3>1. \A u : NoneQueued(u) => NoneQueued(u)'
      BY <1>1, DeliveredQueues
    <3>2. Owner(e)' = Owner(e)
      BY <1>4
    <3> QED BY <3>1, <3>2
  <2> QED BY <2>1, <2>2, <2>3
<1> QED BY <1>1, <1>6, <1>7, FrameUsersSide, FrameAuth DEF AInv

LEMMA StopAgrees == IInv /\ AInv /\ Stop => AInv'
<1> SUFFICES ASSUME IInv, AInv, Stop PROVE AInv'
  OBVIOUS
<1>1. /\ UNCHANGED <<usersDB, mark, auth>> /\ UNCHANGED outbox
      /\ spoiled' = spoiled \cup {Owner(e) : e \in Queued}
      /\ \A k \in Kinds : subs'[k] = <<>>
      /\ "registered" \in Kinds /\ "updated" \in Kinds
  BY DEF Stop, usersDB, Owner, Kinds
<1>2. \A k \in Kinds : \A i \in Positions(k) : subs[k][i] \in Queued
  <2>1. \A k \in Kinds : DOMAIN subs[k] = Positions(k)
    BY Types DEF Positions
  <2> QED BY <2>1 DEF Queued
<1>3. \A e : (\E k \in Kinds : InQueue(e, k)) => Owner(e) \in spoiled'
  BY <1>1, <1>2 DEF InQueue
<1>4. /\ Recorded' = Recorded
      /\ \A e : (Sent(e)' <=> Sent(e)) /\ (Newest(e)' <=> Newest(e)) /\ Owner(e)' = Owner(e)
  BY <1>1, SentFrame
<1>6. RegisteredArrives'
  <2> SUFFICES ASSUME NEW e \in Recorded, Sent(e), Owner(e) \notin spoiled',
                      outbox[e].kind = "registered"
               PROVE  Exists(auth, Owner(e))
    BY <1>1, <1>4 DEF RegisteredArrives, Exists
  <2> QED BY <1>1, <1>3 DEF AInv, RegisteredArrives
<1>7. UpdatedArrives'
  <2> SUFFICES ASSUME NEW e \in Recorded, Sent(e), Owner(e) \notin spoiled',
                      outbox[e].kind = "updated", Newest(e)
               PROVE  NoneQueued(Owner(e))' /\ auth[Owner(e)] = outbox[e].row
    BY <1>1, <1>4 DEF UpdatedArrives
  <2>1. LastQueued(e) => InQueue(e, "updated")
    BY DEF LastQueued, InQueue
  <2>2. auth[Owner(e)] = outbox[e].row
    BY <2>1, <1>1, <1>3 DEF AInv, UpdatedArrives
  <2>3. NoneQueued(Owner(e))'
    BY <1>1 DEF NoneQueued, Positions
  <2> QED BY <2>2, <2>3
<1> QED BY <1>1, <1>6, <1>7, FrameUsersSide, FrameAuth DEF AInv

LEMMA QuietAgrees ==
  ASSUME AInv, UNCHANGED <<usersDB, mark, subs, auth, spoiled>>
  PROVE  AInv'
<1>1. UNCHANGED <<outbox, row, begun, processed, retries>>
  BY DEF usersDB
<1>2. \A e : Sent(e)' => Sent(e)
  BY SentFrame
<1> QED BY <1>1, <1>2, FrameRows, FrameUpdates, FrameAuth, FrameFailures, FrameOrder, FrameArrives DEF AInv

-----------------------------------------------------------------------------
LEMMA NextAInv == IInv /\ AInv /\ [Next]_vars => AInv'
<1> SUFFICES ASSUME IInv, AInv, [Next]_vars PROVE AInv'
  OBVIOUS
<1>1. CASE Start
  BY <1>1, QuietAgrees DEF Start, history
<1>2. CASE UNCHANGED vars
  BY <1>2, QuietAgrees DEF vars, authSide, history
<1> QED BY <1>1, <1>2, UsersStepAgrees, FetchBatchAgrees, EventStepAgrees, CommitAgrees,
           RollbackAgrees, HandleRegisteredAgrees, HandleUpdatedAgrees,
           HandlerFailsAgrees, StopAgrees
           DEF Next, ProcessorStep, AuthStep, Fault

LEMMA AgreementFollows == IInv /\ AInv => SettledAgree
<1> SUFFICES ASSUME IInv, AInv, NEW u \in Users \ spoiled, Settled(u)
             PROVE  auth[u] = row[u]
  BY DEF SettledAgree
<1>1. \A k \in Kinds : \A i \in Positions(k) : Owner(subs[k][i]) # u
  <2>1. \A k \in Kinds : DOMAIN subs[k] = Positions(k)
    BY Types DEF Positions
  <2> QED BY <2>1 DEF Settled, Queued, Owner
<1>2. CASE ~Exists(row, u)
  <2>1. \A e \in Recorded : Owner(e) # u
    BY <1>2 DEF AInv, RowsRecorded
  <2>2. ~Exists(auth, u)
    BY <2>1 DEF AInv, AuthFromEvents
  <2> QED BY <1>2, <2>2 DEF Exists
<1>3. CASE Exists(row, u)
  <2>1. PICK e \in Recorded : Newest(e) /\ Owner(e) = u
    BY <1>3 DEF AInv, RowsRecorded
  <2>2. Sent(e) /\ row[u] = outbox[e].row
    BY <2>1 DEF Settled, Pending, Owner, Sent, AInv, RowIsNewest
  <2>3. CASE outbox[e].kind = "updated"
    <3>1. ~LastQueued(e)
      BY <2>1, <1>1 DEF LastQueued, Kinds
    <3> QED BY <3>1, <2>1, <2>2, <2>3 DEF AInv, UpdatedArrives
  <2>4. CASE outbox[e].kind = "registered"
    <3>1. ~InQueue(e, "registered")
      BY <2>1, <1>1 DEF InQueue, Kinds
    <3>2. Exists(auth, u)
      BY <3>1, <2>1, <2>2, <2>4 DEF AInv, RegisteredArrives
    <3>3. PICK f \in Recorded : Owner(f) = u /\ auth[u] = outbox[f].row
      BY <3>2 DEF AInv, AuthFromEvents
    <3>4. f = e
      <4>1. e <= f /\ f <= e
        BY <2>1, <2>4, <3>3 DEF AInv, RegisteredFirst, Newest
      <4>2. e \in Nat /\ f \in Nat
        BY Types
      <4> QED BY <4>1, <4>2
    <3> QED BY <3>3, <3>4, <2>2
  <2>5. outbox[e].kind \in Kinds
    BY <2>1, Types DEF Events
  <2> QED BY <2>3, <2>4, <2>5 DEF Kinds
<1> QED BY <1>2, <1>3

\* A user whose events are all worked off reads the same in both services,
\* unless one of the wrong turns was taken: for any number of users, events,
\* rollbacks and stops, any batch size and any retry limit.
THEOREM SettledUsersAgree == Spec => []SettledAgree
<1>1. Spec => []AInv
  BY InitAInv, NextAInv, SpecIInv, PTL DEF Spec
<1> QED BY <1>1, SpecIInv, AgreementFollows, PTL

-----------------------------------------------------------------------------
\* The refinement of UserCopies, for spoiled users as for the others.

\* A message is in the queue of its kind, whatever was lost or sent twice.
QueuesByKind ==
  \A k \in Kinds : \A i \in Positions(k) : outbox[subs[k][i]].kind = k

\* A user with a row was registered by an event.
RegistrationRecorded ==
  \A u \in Users : Exists(row, u) =>
    \E e \in Recorded : outbox[e].kind = "registered" /\ Owner(e) = u

CInv == IInv /\ AInv /\ QueuesByKind /\ RegistrationRecorded

\* What a transaction of services/users can do: record an approval or an
\* update, deactivate a row, or begin or end with nothing written.
LEMMA UsersStepRecords ==
  ASSUME IInv, UsersStep
  PROVE  \/ /\ \E k \in Kinds, u \in Users, r \in Rows :
                 Record(k, u, r) /\ (k = "registered" <=> ~Exists(row, u))
            /\ UNCHANGED <<processed, mark, subs, auth>>
         \/ \E u \in Users : DeleteUser(u)
         \/ UNCHANGED <<row, outbox, processed, mark, late, subs, auth>>
<1>1. ASSUME NEW n \in Names, Approve(n)
      PROVE  \E u \in Users, r \in Rows :
               /\ Record("registered", u, r) /\ ~Exists(row, u)
               /\ UNCHANGED <<processed, mark, subs, auth>>
  <2>1. NewUser \in Users /\ ~Exists(row, NewUser)
    BY <1>1 DEF Approve, NewUser
  <2>2. [name |-> n, active |-> TRUE] \in Rows
    BY DEF Rows
  <2> QED BY <1>1, <2>1, <2>2 DEF Approve, authSide
<1>2. ASSUME NEW u \in Users, NEW r \in Rows, UpdateUser(u, r)
      PROVE  /\ Record("updated", u, r) /\ Exists(row, u)
             /\ UNCHANGED <<processed, mark, subs, auth>>
  BY <1>2 DEF UpdateUser, authSide
<1>3. ASSUME NEW k \in Kinds, Begin(k) \/ Abandon(k)
      PROVE  UNCHANGED <<row, outbox, processed, mark, late, subs, auth>>
  BY <1>3, BeginAbandonKeep DEF authSide
<1> QED BY <1>1, <1>2, <1>3 DEF UsersStep, Kinds

\* What is in a queue after a step was there before, except that a
\* publication appends its event to the queue of its kind.
LEMMA QueuesKeep ==
  ASSUME CInv, [Next]_vars
  PROVE  QueuesByKind'
<1>t. /\ \A k \in Kinds : subs[k] \in Seq(Recorded) /\ Len(subs[k]) \in Nat
      /\ subs \in [Kinds -> Seq(Recorded)]
      /\ \A k \in Kinds : \A i \in Positions(k) : subs[k][i] \in Recorded
  BY Types DEF CInv, IInv, TypeOK
<1>1. CASE UsersStep
  <2>1. \A e \in Recorded : outbox'[e].kind = outbox[e].kind
    BY <1>1, UsersStepRecords, Recording DEF CInv, DeleteUser
  <2>2. UNCHANGED subs
    BY <1>1, UsersStepRecords DEF CInv, DeleteUser, authSide
  <2> QED BY <1>t, <2>1, <2>2 DEF CInv, QueuesByKind, Positions
<1>2. ASSUME NEW e \in Ids, Publish(e) PROVE QueuesByKind'
  <2>1. e \in Recorded /\ outbox[e].kind \in Kinds
    BY <1>2, CurrentIsPending DEF CInv, Publish, Events
  <2>2. CASE UNCHANGED subs
    BY <1>2, <2>2 DEF CInv, QueuesByKind, Positions, Publish, usersDB
  <2>3. CASE subs' = [subs EXCEPT ![outbox[e].kind] = Append(@, e)]
    BY <1>2, <1>t, <2>1, <2>3 DEF CInv, QueuesByKind, Positions, Publish, usersDB
  <2> QED BY <1>2, <2>2, <2>3 DEF Publish
<1>3. ASSUME NEW k \in Kinds, Deliver(k), UNCHANGED outbox PROVE QueuesByKind'
  <2>1. \A i \in 1..(Len(subs[k]) - 1) : subs'[k][i] = subs[k][i + 1]
    BY <1>3, Delivered DEF CInv
  <2>2. Len(subs'[k]) = Len(subs[k]) - 1 /\ \A l \in Kinds : l # k => subs'[l] = subs[l]
    BY <1>3, Delivered DEF CInv
  <2> QED BY <1>3, <1>t, <2>1, <2>2 DEF CInv, QueuesByKind, Positions
<1>4. CASE Stop
  BY <1>4 DEF CInv, QueuesByKind, Positions, Stop
<1>5. CASE UNCHANGED <<outbox, subs>>
  BY <1>5 DEF CInv, QueuesByKind, Positions
<1> QED
  BY <1>1, <1>2, <1>3, <1>4, <1>5
  DEF Next, ProcessorStep, EventStep, AuthStep, Fault, FetchBatch, GiveUp, PublishError,
      Commit, Rollback, HandleRegistered, HandleUpdated, HandlerFails, Start, Kinds,
      usersDB, authSide, vars

LEMMA RegistrationKeeps ==
  ASSUME CInv, [Next]_vars
  PROVE  RegistrationRecorded'
<1>1. CASE UsersStep
  <2>1. ASSUME NEW u \in Users, DeleteUser(u) PROVE RegistrationRecorded'
    BY <2>1, Types DEF CInv, RegistrationRecorded, Recorded, Owner, DeleteUser, Exists
  <2>2. ASSUME NEW k \in Kinds, NEW u \in Users, NEW r \in Rows, Record(k, u, r),
               k = "registered" <=> ~Exists(row, u)
        PROVE  RegistrationRecorded'
    <3> SUFFICES ASSUME NEW v \in Users, Exists(row, v)'
                 PROVE  \E e \in Recorded' : outbox'[e].kind = "registered" /\ Owner(e)' = v
      BY DEF RegistrationRecorded
    <3>1. CASE Exists(row, v)
      <4>1. PICK e \in Recorded : outbox[e].kind = "registered" /\ Owner(e) = v
        BY <3>1 DEF CInv, RegistrationRecorded
      <4> QED BY <2>2, <4>1, Recording DEF CInv, Owner
    <3>2. CASE ~Exists(row, v)
      <4>1. row' = [row EXCEPT ![u] = r] /\ row \in [Users -> Rows \cup {Absent}]
        <5>1. IInv
          BY DEF CInv
        <5>2. row' = [row EXCEPT ![u] = r]
          BY <2>2, <5>1, Recording
        <5> QED BY <5>1, <5>2, Types
      <4>2. v = u
        BY <3>2, <4>1 DEF Exists
      <4>3. k = "registered"
        BY <2>2, <3>2, <4>2
      <4>n. PICK n : n = begun[k]
        OBVIOUS
      <4>4. n \in Recorded' /\ outbox'[n] = [kind |-> k, user |-> u, row |-> r]
        BY <2>2, <4>n, Recording DEF CInv
      <4>5. outbox'[n].kind = "registered" /\ Owner(n)' = v
        BY <4>2, <4>3, <4>4 DEF Owner
      <4> QED BY <4>4, <4>5
    <3> QED BY <3>1, <3>2
  <2>3. CASE UNCHANGED <<row, outbox>>
    BY <2>3 DEF CInv, RegistrationRecorded, Recorded, Owner
  <2> QED BY <1>1, <2>1, <2>2, <2>3, UsersStepRecords DEF CInv
<1>2. CASE UNCHANGED <<row, outbox>>
  BY <1>2 DEF CInv, RegistrationRecorded, Recorded, Owner
<1> QED
  BY <1>1, <1>2
  DEF Next, ProcessorStep, EventStep, AuthStep, Fault, FetchBatch, GiveUp, Publish,
      PublishError, Commit, Rollback, HandleRegistered, HandleUpdated, HandlerFails, Stop,
      Start, usersDB, vars

LEMMA SpecCInv == Spec => []CInv
<1>1. Init => QueuesByKind /\ RegistrationRecorded
  BY DEF Init, QueuesByKind, RegistrationRecorded, Positions, Exists
<1>2. CInv /\ [Next]_vars => CInv'
  BY NextIInv, NextAInv, QueuesKeep, RegistrationKeeps DEF CInv
<1> QED BY <1>1, <1>2, InitIInv, InitAInv, PTL DEF Spec, CInv

Born == [u \in Users |-> Payloads("registered", u)]
Renewed == [u \in Users |-> Payloads("updated", u)]

\* An event adds its payload to its user's and changes no other.
LEMMA RecordingCopies ==
  ASSUME CInv, NEW k \in Kinds, NEW u \in Users, NEW r \in Rows, Record(k, u, r),
         k = "registered" <=> ~Exists(row, u), UNCHANGED auth
  PROVE  Copies!Next
<1>1. ASSUME NEW l \in Kinds, NEW v \in Users
      PROVE  Payloads(l, v)' = Payloads(l, v) \cup (IF l = k /\ v = u THEN {r} ELSE {})
  <2> DEFINE n == begun[k]
             About(e) == outbox[e].kind = l /\ outbox[e].user = v
  <2>1. /\ Recorded' = Recorded \cup {n} /\ n \notin Recorded
        /\ \A e \in Recorded : outbox'[e] = outbox[e]
        /\ outbox'[n] = [kind |-> k, user |-> u, row |-> r]
    BY Recording DEF CInv
  <2>2. outbox'[n].kind = k /\ outbox'[n].user = u /\ outbox'[n].row = r
    BY <2>1
  <2> HIDE DEF n
  <2>3. {e \in Recorded' : About(e)'} =
          {e \in Recorded : About(e)} \cup (IF l = k /\ v = u THEN {n} ELSE {})
    BY <2>1, <2>2
  <2>4. Payloads(l, v)' = {outbox'[e].row : e \in {f \in Recorded' : About(f)'}}
    BY DEF Payloads
  <2>5. Payloads(l, v) = {outbox[e].row : e \in {f \in Recorded : About(f)}}
    BY DEF Payloads
  <2> HIDE DEF About
  <2> QED BY <2>1, <2>2, <2>3, <2>4, <2>5
<1>2. CASE k = "registered"
  <2>1. Born[u] = {}
    BY <1>2 DEF CInv, AInv, RowsRecorded, Owner, Born, Payloads
  <2>2. Born' = [Born EXCEPT ![u] = {r}] /\ Renewed' = Renewed
    <3>1. \A v \in Users : Payloads("updated", v)' = Payloads("updated", v)
      BY <1>1, <1>2 DEF Kinds
    <3>2. \A v \in Users : Payloads("registered", v)' =
            Payloads("registered", v) \cup (IF v = u THEN {r} ELSE {})
      BY <1>1, <1>2
    <3>3. Payloads("registered", u) = {}
      BY <2>1 DEF Born
    <3> QED BY <3>1, <3>2, <3>3 DEF Born, Renewed
  <2>3. Copies!Register(u, r)
    BY <2>1, <2>2 DEF Copies!Register, Born, Renewed
  <2> QED BY <2>3 DEF Copies!Next
<1>3. CASE k = "updated"
  <2>1. Born[u] # {}
    BY <1>3 DEF CInv, RegistrationRecorded, Owner, Born, Payloads
  <2>2. Renewed' = [Renewed EXCEPT ![u] = @ \cup {r}] /\ Born' = Born
    <3>1. \A v \in Users : Payloads("registered", v)' = Payloads("registered", v)
      BY <1>1, <1>3 DEF Kinds
    <3>2. \A v \in Users : Payloads("updated", v)' =
            Payloads("updated", v) \cup (IF v = u THEN {r} ELSE {})
      BY <1>1, <1>3
    <3> QED BY <3>1, <3>2 DEF Born, Renewed
  <2>3. Copies!Update(u, r)
    BY <2>1, <2>2 DEF Copies!Update, Born, Renewed
  <2> QED BY <2>3 DEF Copies!Next
<1> QED BY <1>2, <1>3 DEF Kinds

\* A handler inserts a registration's row or overwrites with an update's.
LEMMA HandlerCopies ==
  ASSUME CInv, AuthStep
  PROVE  [Copies!Next]_(Copies!vars)
<1>1. Born' = Born /\ Renewed' = Renewed
  BY DEF AuthStep, HandleRegistered, HandleUpdated, usersDB, Born, Renewed, Payloads, Recorded
<1>2. ASSUME NEW k \in Kinds, Deliver(k)
      PROVE  /\ First(k) \in Recorded /\ outbox[First(k)].kind = k
             /\ outbox[First(k)] \in Events
  <2>1. First(k) = subs[k][1] /\ 1 \in Positions(k) /\ First(k) \in Recorded
    BY <1>2, Delivered DEF CInv, Positions
  <2> QED BY <2>1, Types DEF CInv, QueuesByKind
<1>3. CASE UNCHANGED auth
  BY <1>1, <1>3 DEF Copies!vars, Born, Renewed
<1>4. CASE HandleRegistered /\ auth' # auth
  <2> DEFINE e == outbox[First("registered")]
  <2>1. e \in Events /\ e.row \in Born[e.user]
    BY <1>2, <1>4 DEF HandleRegistered, Kinds, Events, Born, Payloads
  <2>2. auth[e.user] = Absent /\ auth' = [auth EXCEPT ![e.user] = e.row]
    BY <1>4 DEF HandleRegistered, Insert, Exists
  <2>3. Copies!Insert(e.user, e.row)
    BY <1>1, <2>1, <2>2 DEF Copies!Insert, Born, Renewed, Events
  <2> QED BY <2>1, <2>3 DEF Copies!Next, Events
<1>5. CASE HandleUpdated /\ auth' # auth
  <2> DEFINE e == outbox[First("updated")]
  <2>1. e \in Events /\ e.row \in Renewed[e.user]
    BY <1>2, <1>5 DEF HandleUpdated, Kinds, Events, Renewed, Payloads
  <2>2. auth[e.user] # Absent /\ auth' = [auth EXCEPT ![e.user] = e.row]
    BY <1>5 DEF HandleUpdated, Exists
  <2>3. Copies!Overwrite(e.user, e.row)
    BY <1>1, <2>1, <2>2 DEF Copies!Overwrite, Born, Renewed, Events
  <2> QED BY <2>1, <2>3 DEF Copies!Next, Events
<1> QED BY <1>3, <1>4, <1>5 DEF AuthStep

LEMMA NextCopies == CInv /\ [Next]_vars => [Copies!Next]_(Copies!vars)
<1> SUFFICES ASSUME CInv, [Next]_vars PROVE [Copies!Next]_(Copies!vars)
  OBVIOUS
<1>1. CASE UNCHANGED <<outbox, auth>>
  BY <1>1 DEF Copies!vars, Payloads, Recorded
<1>2. CASE UsersStep
  BY <1>1, <1>2, UsersStepRecords, RecordingCopies DEF CInv, DeleteUser, authSide
<1> QED
  BY <1>1, <1>2, HandlerCopies
  DEF Next, ProcessorStep, EventStep, Fault, FetchBatch, GiveUp, Publish, PublishError,
      Commit, Rollback, HandlerFails, Stop, Start, usersDB, authSide, vars

LEMMA InitCopies == Init => Copies!Init
<1> SUFFICES ASSUME Init PROVE Copies!Init
  OBVIOUS
<1>1. \A k, u : Payloads(k, u) = {}
  BY DEF Init, Payloads, Recorded
<1> QED BY <1>1 DEF Init, Copies!Init

\* However events are delayed, lost, replayed or overtaken, the copy of a user
\* is made once from its registration and then shows rows its updates wrote.
THEOREM AuthImplementsCopies == Spec => ImplementsCopies
  BY InitCopies, NextCopies, SpecCInv, PTL DEF Spec, Copies!Spec, ImplementsCopies

-----------------------------------------------------------------------------
\* The processor's progress: OldestMoves of UserSync.

\* An open batch holds the oldest of the events that were there when it was
\* fetched and are not processed; what has come since is in late.
HoldsOldest ==
  /\ Idle => late = {}
  /\ \A e \in Pending \ late :
       ~Idle /\ (\A f \in Pending \ late : e <= f) => InBatch(e)

LEMMA FetchHoldsOldest ==
  ASSUME IInv, HoldsOldest, FetchBatch
  PROVE  HoldsOldest'
<1>1. Pending' = Pending /\ Pending \subseteq Ids /\ Ids \subseteq Int
  BY Types, SameIds DEF FetchBatch, usersDB, Pending, Ids
<1>2. late = {} /\ late' = {}
  BY DEF FetchBatch, HoldsOldest
<1> SUFFICES ASSUME NEW e \in Pending, \A f \in Pending : e <= f
             PROVE  InBatch(e)'
  BY <1>1, <1>2 DEF HoldsOldest
<1>3. {f \in Pending : f < e} = {}
  <2>1. ASSUME NEW f \in Pending, f < e PROVE FALSE
    <3>1. e \in Int /\ f \in Int /\ e <= f
      BY <1>1
    <3> QED BY <2>1, <3>1
  <2> QED BY <2>1
<1>4. e \in Oldest
  BY <1>3, FS_EmptySet, BatchSizeAssumption DEF Oldest
<1> QED BY <1>1, <1>4 DEF FetchBatch, InBatch

\* An event recorded beside an open batch may be the oldest of all, and is
\* late.
LEMMA RecordHoldsOldest ==
  ASSUME IInv, HoldsOldest, NEW k \in Kinds, NEW u \in Users, NEW r \in Rows,
         Record(k, u, r), UNCHANGED <<processed, mark>>
  PROVE  HoldsOldest'
<1> DEFINE n == begun[k]
<1>1. /\ Recorded' = Recorded \cup {n} /\ n \notin Recorded
      /\ late' = IF Idle THEN late ELSE late \cup {n}
  BY Recording
<1>2. (Idle' <=> Idle) /\ \A e : InBatch(e)' <=> InBatch(e)
  BY DEF Idle, InBatch
<1>3. CASE Idle
  BY <1>1, <1>2, <1>3 DEF HoldsOldest
<1>4. CASE ~Idle
  <2>1. (Pending \ late)' = Pending \ late
    BY <1>1, <1>4 DEF Pending
  <2> QED BY <1>2, <1>4, <2>1 DEF HoldsOldest
<1> QED BY <1>3, <1>4

LEMMA NextHoldsOldest == IInv /\ HoldsOldest /\ [Next]_vars => HoldsOldest'
<1> SUFFICES ASSUME IInv, HoldsOldest, [Next]_vars PROVE HoldsOldest'
  OBVIOUS
<1>1. CASE UNCHANGED <<outbox, processed, mark, late>>
  BY <1>1, SameIds DEF HoldsOldest, Idle, InBatch
<1>2. CASE UsersStep
  BY <1>1, <1>2, UsersStepRecords, RecordHoldsOldest DEF DeleteUser
<1>3. ASSUME NEW e \in Ids, EventStep(e) PROVE HoldsOldest'
  <2>1. /\ Pending' = Pending /\ InBatch(e) /\ late' = late
        /\ \A f \in Ids : InBatch(f)' <=> InBatch(f)
    BY <1>3, SameIds DEF EventStep, GiveUp, Publish, PublishError, FailedMark, Current,
                         usersDB, InBatch, IInv, TypeOK
  <2>2. Pending \subseteq Ids
    BY Types DEF Pending
  <2> QED BY <2>1, <2>2 DEF HoldsOldest, Idle
<1>4. CASE Commit \/ Rollback
  BY <1>4 DEF Commit, Rollback, HoldsOldest, Idle, InBatch
<1> QED BY <1>1, <1>2, <1>3, <1>4, FetchHoldsOldest
        DEF Next, ProcessorStep, AuthStep, Fault, HandleRegistered, HandleUpdated,
            HandlerFails, Stop, Start, usersDB, vars

\* Each COMMIT retires the oldest event its batch could have fetched or counts
\* a failure of it; with retries bounded (TypeOK) that can happen MaxRetry + 1
\* times at most, which is why failing publications cannot hold the batch
\* forever.
THEOREM OldestEventsMove == Spec => OldestMoves
<1>1. IInv /\ HoldsOldest /\ [Next]_vars =>
        [Commit => \A e \in Pending \ late :
           (\A f \in Pending \ late : e <= f) =>
             e \in processed' \/ retries'[e] = retries[e] + 1]_vars
  <2> SUFFICES ASSUME IInv, HoldsOldest, Commit,
                      NEW e \in Pending \ late, \A f \in Pending \ late : e <= f
               PROVE  e \in processed' \/ retries'[e] = retries[e] + 1
    OBVIOUS
  <2>1. e \in Ids
    BY Types DEF Pending
  <2>2. InBatch(e)
    BY DEF HoldsOldest, Commit
  <2>3. mark[e] \in {"processed", "failed"}
    BY <2>1, <2>2 DEF Commit, InBatch, IInv, TypeOK, Marks
  <2> QED BY <2>1, <2>3 DEF Commit, Retired
<1>2. Init => HoldsOldest
  BY DEF Init, HoldsOldest, Recorded, Pending, Idle, InBatch
<1> QED BY <1>1, <1>2, InitIInv, NextIInv, NextHoldsOldest, PTL DEF Spec, OldestMoves

=============================================================================
