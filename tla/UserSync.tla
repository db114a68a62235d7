------------------------------ MODULE UserSync ------------------------------
(***************************************************************************)
(* How the users table of services/users reaches the users table of        *)
(* services/auth: transactions of services/users that write a row and an   *)
(* outbox event together, the outbox processor that publishes the events   *)
(* on NATS, and the two subscriptions of services/auth that apply them.    *)
(*                                                                         *)
(* Users are written by two subscriptions, one for approvals and one for   *)
(* updates, with one transaction each at a time.  An event is dated when   *)
(* its transaction begins, which is what SQL's NOW() returns in all of it, *)
(* and is seen when it commits: an event can appear behind others that are *)
(* younger, and the batch takes events in the order of their dates.  So a  *)
(* transaction is two actions, its BEGIN, which takes the event's place in *)
(* that order, and its COMMIT, which does the rest.  The processor is one  *)
(* goroutine; its batch is one transaction, which a crash, a failing UPDATE *)
(* or a failing COMMIT rolls back after messages have left: core NATS is   *)
(* not part of the transaction.  The subscriptions to users.user.registered *)
(* and users.user.updated are separate goroutines with a queue each, in    *)
(* memory: what is published while services/auth is down, and what is      *)
(* queued when it stops, is gone.  A handler of services/auth is one       *)
(* action: its lookups only return early, and its last statement decides   *)
(* under the table's unique constraints.  A COMMIT of services/auth that   *)
(* fails is ignored by the code, an earlier error is logged: either way    *)
(* the event is gone (HandlerFails).                                       *)
(*                                                                         *)
(* Left out: email and username are one unique name; role and full name    *)
(* travel like the active flag; processing_started_at, which a batch sets  *)
(* and clears inside its own transaction for every type of event that is   *)
(* produced, so that CleanupStaleLocks finds nothing; two transactions     *)
(* that begin within the same microsecond, whose events have no order.     *)
(***************************************************************************)
EXTENDS Naturals, Sequences, FiniteSets

CONSTANTS Users, Names, NoName,
          BatchSize,    \* events per batch
          MaxRetry,     \* failed publications before an event is given up
          MaxEvents,    \* bound: rows of the outbox
          MaxRollbacks, \* bound: batches lost to a crash or a database error
          MaxStops,     \* bound: times services/auth stops or fails an event
          PublishFails  \* whether publications may fail

ASSUME NoNameAssumption == NoName \notin Names
ASSUME BatchSizeAssumption == BatchSize \in Nat \ {0}
ASSUME MaxRetryAssumption == MaxRetry \in Nat \ {0}
ASSUME BoundsAssumption == /\ MaxEvents \in Nat
                           /\ MaxRollbacks \in Nat
                           /\ MaxStops \in Nat
ASSUME PublishFailsAssumption == PublishFails \in BOOLEAN

Ids == 1..MaxEvents
Kinds == {"registered", "updated"}
Absent == [name |-> NoName, active |-> FALSE]
Rows == [name : Names, active : BOOLEAN]
Events == [kind : Kinds, user : Users, row : Rows]
Marks == {"none", "locked", "processed", "failed"}

VARIABLES
  \* database of services/users
  row,        \* users
  outbox,     \* events; an event is its place in the order of created_at
  begun,      \* the open transaction of a subject: the place of its event
  processed,  \* events with processed_at set
  retries,    \* retry_count
  \* the processor's transaction
  mark,       \* per event: not in the batch, locked, or the UPDATE it got
  late,       \* history: events recorded since the batch was fetched
  \* services/auth
  up,
  subs,       \* queues of the two subscriptions: event ids
  auth,       \* users
  \* history and bounds
  published,  \* events some publication of which succeeded
  spoiled,    \* users with an event or a change that took a wrong turn
  rollbacks, stops

usersDB == <<row, outbox, begun, processed, retries>>
authSide == <<up, subs, auth>>
history == <<published, spoiled>>
bounds == <<rollbacks, stops>>
vars == <<usersDB, mark, late, authSide, history, bounds>>

Recorded == DOMAIN outbox
Pending == Recorded \ processed
Queued == UNION {{subs[k][i] : i \in DOMAIN subs[k]} : k \in Kinds}
Exists(table, u) == table[u] # Absent
InBatch(e) == mark[e] # "none"
Idle == \A e \in Ids : ~InBatch(e)
Taken(table, u, n) == \E v \in Users \ {u} : table[v].name = n

Init ==
  /\ row = [u \in Users |-> Absent]
  /\ outbox = <<>> /\ processed = {}
  /\ begun = [k \in Kinds |-> 0]
  /\ retries = [e \in Ids |-> 0]
  /\ mark = [e \in Ids |-> "none"] /\ late = {}
  /\ up = TRUE
  /\ subs = [k \in Kinds |-> <<>>]
  /\ auth = [u \in Users |-> Absent]
  /\ published = {} /\ spoiled = {}
  /\ rollbacks = 0 /\ stops = 0

-----------------------------------------------------------------------------
\* services/users

\* The places taken in the order of created_at, and 0.
Opened == Recorded \cup {begun[k] : k \in Kinds}

\* BEGIN: the event the transaction will write comes after all that began.
Begin(k) ==
  /\ begun[k] = 0
  /\ \E e \in Ids : /\ e - 1 \in Opened /\ \A f \in Opened : f < e
                    /\ begun' = [begun EXCEPT ![k] = e]
  /\ UNCHANGED <<row, outbox, processed, retries, mark, late, authSide>>
  /\ UNCHANGED <<history, bounds>>

\* ROLLBACK: a request refused, a statement that fails, or a crash.
Abandon(k) ==
  /\ begun[k] # 0
  /\ begun' = [begun EXCEPT ![k] = 0]
  /\ UNCHANGED <<row, outbox, processed, retries, mark, late, authSide>>
  /\ UNCHANGED <<history, bounds>>

\* COMMIT of the row and of its event, at the place its BEGIN took.
Write(k, u, r, payload) ==
  /\ begun[k] # 0
  /\ outbox' = [e \in Recorded \cup {begun[k]} |->
                  IF e = begun[k] THEN [kind |-> k, user |-> u, row |-> payload]
                                  ELSE outbox[e]]
  /\ row' = [row EXCEPT ![u] = r]
  /\ begun' = [begun EXCEPT ![k] = 0]
  /\ late' = IF Idle THEN late ELSE late \cup {begun[k]}

\* An event whose payload is the row before the update.
Record_Before(k, u, r) == Write(k, u, r, IF k = "registered" THEN r ELSE row[u])
Record(k, u, r) == Write(k, u, r, r)

\* The id the database gives a new row.
NewUser == CHOOSE u \in Users : ~Exists(row, u)

\* ApproveRegistrationRequest, of a request that is pending.
Approve(n) ==
  /\ \E u \in Users : ~Exists(row, u)
  /\ ~Taken(row, NewUser, n)
  /\ Record("registered", NewUser, [name |-> n, active |-> TRUE])
  /\ UNCHANGED <<processed, retries, mark, authSide, history, bounds>>

\* The id of a user is known from its registration on, whose transaction is
\* older than that of any update that names it.
Registered(u) ==
  \E e \in Recorded : /\ outbox[e].kind = "registered" /\ outbox[e].user = u
                      /\ e < begun["updated"]

\* UpdateUser: any of the fields, the event holds all of them.
UpdateUser(u, r) ==
  /\ Exists(row, u) /\ Registered(u)
  /\ ~Taken(row, u, r.name)
  /\ Record("updated", u, r)
  /\ UNCHANGED <<processed, retries, mark, authSide, history, bounds>>

\* DeleteUser deactivates the row and records no event.
DeleteUser(u) ==
  /\ Exists(row, u)
  /\ row' = [row EXCEPT ![u].active = FALSE]
  /\ spoiled' = spoiled \cup {u}
  /\ UNCHANGED <<outbox, begun, processed, retries, mark, late, authSide>>
  /\ UNCHANGED <<published, bounds>>

-----------------------------------------------------------------------------
\* The outbox processor

Current(e) == /\ mark[e] = "locked"
              /\ \A f \in Ids : mark[f] = "locked" => e <= f

\* Without the test of processed_at.
Oldest_Any == {e \in Recorded : Cardinality({f \in Recorded : f < e}) < BatchSize}

\* The youngest ones first: ORDER BY created_at DESC.
Oldest_Youngest == {e \in Pending : Cardinality({f \in Pending : f > e}) < BatchSize}

\* The oldest events not processed yet.
Oldest == {e \in Pending : Cardinality({f \in Pending : f < e}) < BatchSize}

\* GetUnprocessedEventsTx.
FetchBatch ==
  /\ Idle
  /\ Pending # {}
  /\ mark' = [e \in Ids |-> IF e \in Oldest THEN "locked" ELSE "none"]
  /\ UNCHANGED <<usersDB, late, authSide, history, bounds>>

Exhausted_Early(e) == retries[e] + 1 >= MaxRetry
Exhausted(e) == retries[e] >= MaxRetry

\* An event that failed too often is marked processed, unpublished.
GiveUp(e) ==
  /\ Current(e)
  /\ Exhausted(e)
  /\ mark' = [mark EXCEPT ![e] = "processed"]
  /\ UNCHANGED <<usersDB, late, authSide, history, bounds>>

\* The message goes to the queue of its subject, when somebody subscribes.
Publish(e) ==
  /\ Current(e)
  /\ ~Exhausted(e)
  /\ mark' = [mark EXCEPT ![e] = "processed"]
  /\ published' = published \cup {e}
  /\ \/ /\ up
        /\ subs' = [subs EXCEPT ![outbox[e].kind] = Append(@, e)]
        /\ UNCHANGED spoiled
     \/ /\ ~up
        /\ spoiled' = spoiled \cup {outbox[e].user}
        /\ UNCHANGED subs
  /\ UNCHANGED <<usersDB, late, up, auth, bounds>>

\* Marked failed by an update that does not count the failure.
FailedMark_Uncounted == "none"
FailedMark == "failed"

PublishError(e) ==
  /\ PublishFails
  /\ Current(e)
  /\ ~Exhausted(e)
  /\ mark' = [mark EXCEPT ![e] = FailedMark]
  /\ spoiled' = spoiled \cup {outbox[e].user}
  /\ UNCHANGED <<usersDB, late, authSide, published, bounds>>

\* The batch commits: MarkEventAsProcessed and MarkEventAsFailed take effect.
Retired == {e \in Ids : mark[e] = "processed"}

Commit ==
  /\ ~Idle
  /\ \A e \in Ids : mark[e] # "locked"
  /\ processed' = processed \cup Retired
  /\ retries' = [e \in Ids |-> IF mark[e] = "failed" THEN retries[e] + 1
                                                     ELSE retries[e]]
  /\ mark' = [e \in Ids |-> "none"] /\ late' = {}
  /\ UNCHANGED <<row, outbox, begun, authSide, history, bounds>>

\* The batch is rolled back, wherever it was.
Rollback ==
  /\ ~Idle
  /\ rollbacks < MaxRollbacks
  /\ rollbacks' = rollbacks + 1
  /\ mark' = [e \in Ids |-> "none"] /\ late' = {}
  /\ UNCHANGED <<usersDB, authSide, history, stops>>

-----------------------------------------------------------------------------
\* services/auth

First(k) == Head(subs[k])
Deliver(k) ==
  /\ up
  /\ subs[k] # <<>>
  /\ subs' = [subs EXCEPT ![k] = Tail(@)]

\* An insert that takes the place of the row it finds.
Insert_Upsert(u, r) == [auth EXCEPT ![u] = r]
Insert(u, r) == IF Exists(auth, u) THEN auth ELSE [auth EXCEPT ![u] = r]

\* handleUserRegistered: a user with the event's name, this one or another,
\* makes it skip the event; a row with the event's id makes the insert fail.
HandleRegistered ==
  /\ Deliver("registered")
  /\ LET e == outbox[First("registered")] IN
       \/ /\ \E v \in Users : auth[v].name = e.row.name
          /\ spoiled' = IF Exists(auth, e.user) THEN spoiled
                                                ELSE spoiled \cup {e.user}
          /\ UNCHANGED auth
       \/ /\ \A v \in Users : auth[v].name # e.row.name
          /\ auth' = Insert(e.user, e.row)
          /\ UNCHANGED spoiled
  /\ UNCHANGED <<usersDB, mark, late, up, published, bounds>>

\* handleUserUpdated: an error, and the event is lost, when the user is not
\* there yet or the name is another's; otherwise the row becomes the event's.
HandleUpdated ==
  /\ Deliver("updated")
  /\ LET e == outbox[First("updated")] IN
       \/ /\ Exists(auth, e.user) /\ ~Taken(auth, e.user, e.row.name)
          /\ auth' = [auth EXCEPT ![e.user] = e.row]
          /\ UNCHANGED spoiled
       \/ /\ ~Exists(auth, e.user) \/ Taken(auth, e.user, e.row.name)
          /\ spoiled' = spoiled \cup {e.user}
          /\ UNCHANGED auth
  /\ UNCHANGED <<usersDB, mark, late, up, published, bounds>>

\* A handler whose lookup, statement or COMMIT fails.
HandlerFails(k) ==
  /\ stops < MaxStops
  /\ stops' = stops + 1
  /\ Deliver(k)
  /\ spoiled' = spoiled \cup {outbox[First(k)].user}
  /\ UNCHANGED <<usersDB, mark, late, up, auth, published, rollbacks>>

\* The process stops: its queues are lost.
Stop ==
  /\ up
  /\ stops < MaxStops
  /\ stops' = stops + 1
  /\ up' = FALSE
  /\ subs' = [k \in Kinds |-> <<>>]
  /\ spoiled' = spoiled \cup {outbox[e].user : e \in Queued}
  /\ UNCHANGED <<usersDB, mark, late, auth, published, rollbacks>>

Start ==
  /\ ~up
  /\ up' = TRUE
  /\ UNCHANGED <<usersDB, mark, late, subs, auth, history, bounds>>

-----------------------------------------------------------------------------
UsersStep ==
  \/ \E k \in Kinds : Begin(k) \/ Abandon(k)
  \/ \E n \in Names : Approve(n)
  \/ \E u \in Users, r \in Rows : UpdateUser(u, r)
  \/ \E u \in Users : DeleteUser(u)
EventStep(e) == GiveUp(e) \/ Publish(e) \/ PublishError(e)
ProcessorStep == FetchBatch \/ (\E e \in Ids : EventStep(e)) \/ Commit
AuthStep == HandleRegistered \/ HandleUpdated
Fault == Rollback \/ Stop \/ Start \/ \E k \in Kinds : HandlerFails(k)

Next == UsersStep \/ ProcessorStep \/ AuthStep \/ Fault

Spec == Init /\ [][Next]_vars

\* The processor's tickers run for the life of the process.
FairSpec == Spec /\ WF_vars(ProcessorStep)

-----------------------------------------------------------------------------
TypeOK ==
  /\ row \in [Users -> Rows \cup {Absent}]
  /\ Recorded \subseteq Ids /\ outbox \in [Recorded -> Events]
  /\ begun \in [Kinds -> (Ids \ Recorded) \cup {0}]
  /\ begun["registered"] = begun["updated"] => begun["updated"] = 0
  /\ processed \subseteq Recorded
  /\ retries \in [Ids -> 0..MaxRetry]
  /\ mark \in [Ids -> Marks]
  /\ \A e \in Ids : InBatch(e) => e \in Pending
  /\ late \subseteq Recorded
  /\ up \in BOOLEAN
  /\ subs \in [Kinds -> Seq(Recorded)]
  /\ auth \in [Users -> Rows \cup {Absent}]
  /\ published \subseteq Recorded
  /\ spoiled \subseteq Users
  /\ rollbacks \in 0..MaxRollbacks /\ stops \in 0..MaxStops

\* Whatever transactions are rolled back after messages have left, an event
\* is marked processed only after it was published, or after MaxRetry failed
\* publications that were counted by transactions that committed.
RetiredWasPublished ==
  \A e \in processed : e \in published \/ retries[e] = MaxRetry

\* A user whose events are all worked off reads the same in both services,
\* replays after a rollback included, unless one of the wrong turns the code
\* knows was taken: a publication that failed, services/auth away, an event
\* its handler gave up, or a DeleteUser.
Settled(u) ==
  /\ \A e \in Pending : outbox[e].user # u
  /\ \A e \in Queued : outbox[e].user # u
SettledAgree == \A u \in Users \ spoiled : Settled(u) => auth[u] = row[u]

\* Every event is published or given up in the end, however publications
\* fail, and none stays pending for good: the retries of the oldest events
\* cannot hold the batch forever.
EventsRetire == \A e \in Ids : []<>(e \notin Pending)

\* Why they retire: the COMMIT of a batch takes the oldest event that was
\* there to be fetched a step towards its end, a failure that counts or the
\* last, whatever publications of the batch failed and whatever committed
\* while it was open: that may be older than every event of the batch, if
\* its transaction began before theirs, and then waits for the next one.
OldestMoves ==
  [][Commit => \A e \in Pending \ late :
       (\A f \in Pending \ late : e <= f) =>
         e \in processed' \/ retries'[e] = retries[e] + 1]_vars

\* However events are delayed, lost, replayed or overtaken, the copy of a
\* user is made once, from its registration, and shows rows that its updates
\* wrote: never another user's, never one that was not committed, and never
\* the registration's again.
Payloads(k, u) ==
  {outbox[e].row : e \in {f \in Recorded : outbox[f].kind = k /\ outbox[f].user = u}}
Copies == INSTANCE UserCopies WITH
  born <- [u \in Users |-> Payloads("registered", u)],
  renewed <- [u \in Users |-> Payloads("updated", u)],
  copy <- auth
ImplementsCopies == Copies!Spec

-----------------------------------------------------------------------------
\* Statements of the repository that the code does not keep.

\* "Events are not lost even when a service goes down": a user whose events
\* were all published and worked off exists in services/auth.
RegisteredReachesAuth ==
  \A u \in Users : Settled(u) /\ Exists(row, u) => Exists(auth, u)

\* A status change is synchronised: once all events of a user are worked
\* off, a user deactivated in services/users is not active in services/auth.
DeactivationReachesAuth ==
  \A u \in Users : Settled(u) /\ auth[u].active => row[u].active
=============================================================================
