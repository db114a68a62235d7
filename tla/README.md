# Raibecas: specifications of the services

TLA+ specifications of the Go services of Raibecas, model-checked with TLC and
proved about with TLAPS. They are written from the code under `src/`; file and
line of every definition are in `PROJECT.json` ("map").

## 1. The system

| part | state it keeps | operations | talks to |
|---|---|---|---|
| services/auth: sessions | refresh tokens, index per user and per family (Redis) | login, refresh, logout, logout_all, change_password | gateway (NATS request/reply) |
| services/auth: access tokens | blacklist (Redis); tokens are JWTs | validate, logout | gateway, users table of auth |
| services/auth: users table | a copy of users (Postgres) | consumers of `users.user.registered`, `users.user.updated` | services/users (NATS events) |
| services/auth: registration | registration requests (Postgres) | register, admin approved/rejected | nobody: the gateway uses services/users, nothing publishes the admin events |
| services/users: users | users (Postgres) | list, get, update, delete | gateway |
| services/users: registration requests | requests with a status (Postgres) | create, list, approve, reject | gateway |
| services/users: outbox | events, retry counts, locks (Postgres) | fetch a batch, publish, mark, clean up | services/auth |
| services/documents: documents | documents, versions (Postgres), blobs (MinIO) | create, update, delete, reindex, mark indexed | gateway, index-python (events; JetStream for `indexed`) |
| services/documents: bookmarks | bookmarks (Postgres) | create, list, delete | gateway |
| services/documents: notes, authors, categories, tags | rows (Postgres) | single statements | gateway |
| services/index-python | points (Qdrant) | index a document, answer with `indexed` | services/documents |
| services/chat | sessions and messages (Postgres) | process input (stream an answer), history, clear | gateway (WebSocket and HTTP) |
| services/gateway: WebSocket bridge | a map from user to connection | connect, forward both ways, disconnect | browser, services/chat |
| services/gateway: HTTP API | cookies in the browser | translation to NATS requests | all services |
| libs/natsw | subscriptions, middlewares, JetStream consumer | subscribe, publish, request | NATS |

### How the parts interact, and where it is hard

* **Concurrency is per subject.** `Client.Subscribe` (libs/natsw/client.go:123)
  is a plain NATS subscription: one goroutine and one queue in memory per
  subject. Handlers of one subject are serial, handlers of different subjects
  run at the same time, and nothing orders messages of different subjects.
* **Redis is not transactional.** `TokenStoreRedis` uses `Pipeline`, not
  `TxPipeline`, and reads in one round trip what it writes in a later one.
* **Postgres and NATS are not one transaction.** The outbox processor publishes
  inside the transaction that marks its events, on core NATS, where a publish
  nobody receives succeeds.
* **Nothing is redelivered** except on the JetStream consumer of
  services/documents (5 deliveries, 30 s to acknowledge); handlers of core NATS
  log their errors and drop the message.

What makes each part correct, and what a test would hardly reach, is the list
"hazards" of `PROJECT.json`, each with its line and the properties that watch
it. In short:

* sessions: at most one usable token per family whatever runs concurrently;
  dead tokens stay dead; a theft response leaves nothing usable; logout_all
  reaches every token;
* access tokens: a token whose logout was answered is refused from then on;
* user copy: both services agree once the events are worked off, replays and
  events that appear late included; an event is retired only after it was published or given up; every
  event is retired;
* registration: a request has one user exactly when it is approved, a rejection
  stands, and its statements do what a BEGIN and a COMMIT would;
* documents: a document has the content its row names; once its events are
  worked off the index has that content; a flagged document can be found; a
  document that is not flagged is flagged in the end;
* chat: an answer stands behind its question, in a session of the user who
  asked; two first messages do not go on inserting sessions;
* bridge: the map of connections names what is open, and a dead bridge returns.

## 2. Modules

| module | models | uses |
|---|---|---|
| `TokenFamilies` | abstract: what the session store promises | |
| `AuthSessions` | handlers of auth over the Redis token store | refines `TokenFamilies` |
| `LogoutAll` | what a `RevokeAllUserTokens` that succeeds has reached | extends `AuthSessions` by history variables |
| `MCAuthSessions` | the instance TLC checks | extends `LogoutAll` |
| `UserCopies` | abstract: what the users table of services/auth promises | |
| `UserSync` | services/users, outbox processor, NATS queues, consumers of services/auth | refines `UserCopies` |
| `DocumentIndex` | handlers of services/documents over Postgres and MinIO, events, index-python, the JetStream consumer | |
| `Registrations` | requests, and the approval statement by statement | extends `UserSync` and refines it |
| `Conversations` | abstract: what services/chat promises of sessions and messages | |
| `ChatHistory` | sessions and messages of services/chat, the turns that write them | refines `Conversations` |
| `MCChatHistory` | the instance TLC checks | extends `ChatHistory` |
| `AccessTokens` | signing, validation and logout of access tokens against a clock | |
| `Gateway` | WebSocket bridges behind the validation | extends `AccessTokens`, composed with it |
| `TokenFamilies_proofs`, `AuthSessions_proofs`, `UserSync_proofs`, `Registrations_proofs`, `DocumentIndex_proofs`, `ChatHistory_proofs`, `Gateway_proofs` | theorems | extend the module they are about |
| `DocumentSearch_proofs` | theorems about the search side of `DocumentIndex` | extends `DocumentIndex_proofs` |

### TokenFamilies and AuthSessions

`TokenFamilies` has three operations: a family begins, a token is retired, a
dead token is succeeded once. A family is a chain; only its end can be live.

`AuthSessions` is the code. State: `tok` is the key `auth:refresh:{id}` (absent,
live or revoked metadata), `owner`, `fam`, `prev` fields of the metadata,
`userIdx` and `famIdx` the index sets. They keep the fields of a key after it
is gone, because ids are UUIDs and never drawn twice. Each of the five handlers
is one process (`pc`, `req`, `who`, `cur`, `todo`), serving one request at a
time.

| action | code |
|---|---|
| `Login`, `StoreToken`, `IndexUser`, `IndexFamily` | `AuthService.Login`, then the commands of `StoreRefreshToken`; the same three actions end a rotation |
| `Refresh`, `RejectDead`, `AcceptLive`, `RejectFingerprint`, `CheckUser`, `Rotate` | `AuthService.RefreshTokens`: `ValidateRefreshToken`, the user check, `RotateRefreshToken` |
| `RevokeGet`, `RevokeSet` | `RevokeRefreshToken`, for a rotation, a family revocation and `auth.logout` |
| `FamilyMembers`, `FamilyNext`, `FamilySkip`, `FamilyDone` | `RevokeRefreshTokenFamily` |
| `Purge`, `Members`, `DelToken`, `DelIndex` | `RevokeAllUserTokens`, for `auth.logout_all` and `auth.change_password` |
| `Abort`, `Expire` | Redis error or crash at any command; expiry of a key |

One action is one Redis command. `granted` and `compromised` are history
variables: tokens whose storing succeeded, and families revoked without a Redis
error.

`LogoutAll` adds two variables and no behaviour (`LogoutAllIsAuthSessions`).
`before` remembers, for a purge that runs, what its user had been granted at the
SMEMBERS; `orphaned` the tokens a DEL took off their user's index while they
were usable, which is finding 1. `LogoutAllReaches` says what the function is
worth all the same: when it returns without an error, nothing of `before` is
usable. The login that runs beside it, the rotation that mints a successor
beside it and the tokens another purge has orphaned are all it misses; a
rotation or theft response between its reads and deletions cannot hide a token
from it. `granted` is what makes this hard: the SET of a token, its SADD and the
reply are separate commands, and a token counts once its storing has succeeded.

### UserSync and UserCopies

`UserCopies` has no outbox, no messages and no restarts: a user is registered
once, updated any number of times, and the copy begins with the registered row
and then shows any row an update wrote. That is all the code keeps when events
are lost and overtake each other, and it is refined with `born` and `renewed`
read off the outbox (`Payloads`): the copy is never made from an update, never
another user's, never a row that was rolled back, and a replayed registration
never writes over an update.

State: `row`, `outbox`, `processed`, `retries` are the database of
services/users, `begun` its two transactions that write events; `mark` is the
open transaction of the processor; `subs` the two NATS queues in the memory of
services/auth; `auth` its users table. `published`, `spoiled` and `late` are
history: events that left at least once, users with an event or change that
took one of the wrong turns the code has, and events recorded since the open
batch was fetched.

An event is named by its place in the order of `created_at`, by which the batch
takes events (outbox_repository.go:57). `created_at` is the `NOW()` of the
transaction that writes the event (queries.sql:3 and 44), which in PostgreSQL is
its start. So a transaction is a BEGIN, which takes the next place, and a
COMMIT, which makes the event appear there: an approval that began before an
update and commits after it appears behind an event that is younger, and may
have been fetched, or sent, already. The id of a user is drawn by the approval,
and nobody knows it before its COMMIT; an update of a user therefore begins
after the registration (`Registered`), and the events of one user appear in
order.

| action | code |
|---|---|
| `Begin`, `Abandon` | BEGIN of an approval or an update, which dates its event; ROLLBACK, for a refusal, an error or a crash |
| `Approve`, `UpdateUser` | the COMMIT of either, a row and its event |
| `DeleteUser` | one statement, without an event |
| `FetchBatch`, `GiveUp`, `Publish`, `PublishError`, `Commit` | `Processor.processEvents` and `processEvent` |
| `Rollback` | a crash, a failed UPDATE or a failed COMMIT anywhere in the batch, after messages have left |
| `HandleRegistered`, `HandleUpdated` | the consumers of services/auth, early returns included |
| `HandlerFails`, `Stop`, `Start` | an error of a handler's database call (an ignored COMMIT error included), a stop and a start of services/auth |

### DocumentIndex

State: `row` (version and indexed flag) and `listed` are the tables `documents`
and `document_versions`; `blob` the content objects of MinIO, as the number of
times each path was written; `pc`, `on`, `held`, `target` the request each of
the five handlers is serving and the row it has read; `evt` and `stage` the
events and how far each has come; `queue` and `points` the queues of
index-python and the contents in Qdrant; `ok`, `tries`, `fresh` the outcomes
in the stream. History: `doubtful` names the documents with a half-failed
create or version row, `spoiled` those with an event that was lost or failed,
or set back by a cover.

| action | code |
|---|---|
| `Create`, `InsertDocument`, `InsertFails`, `UndoSave` | `CreateDocument`: content, row, and the content's removal when the row fails |
| `Update`, `SaveVersion`, `RejectUpdate`, `WriteRow` | `UpdateDocument`: read, content of the next version, write every column back |
| `ListVersion`, `ListFails`, `Reload` | what both share: the version's row, the second read, the event |
| `Delete`, `DeleteBlobs` | `DeleteDocument` |
| `UploadCover`, `WriteCover` | `UploadCover` |
| `Reindex`, `ResetIndexed` | `ReindexDocument` |
| `Abort` | an error return or a crash at any point of a handler |
| `Publish`, `PublishFails` | the goroutine of an event, over core NATS |
| `Load`, `WritePoints`, `WriteFails`, `Report`, `ReportFails`, `Stop`, `Start` | index-python: one worker per subject, the outcome, a stop |
| `Handle`, `HandleFails` | `HandleDocumentIndexed` under the JetStream consumer: acknowledged, or delivered again at most `MaxDeliver` times |

Versions of a document get their paths from two directories: the first content
is saved under an id drawn before the row exists, later ones under the id of
the row. That is why `DeleteBlobs` leaves version 1 where it is.

### Registrations

`Registrations` extends `UserSync` and replaces the two steps of its approval,
BEGIN and COMMIT, by the statements of `ApproveRegistrationRequest`. State: `status` and `wanted` are the
table `registration_requests`; `at` and `on` the open transaction. The five
subjects that write are five subscriptions, each serving one request at a time,
so that one approval is open at most. PostgreSQL's locks are guards: an update
that wants the name of an uncommitted user waits (`Reserved`), and a rejection
of a request whose row the approval has updated waits (`Locked`) and then tests
the status again. `made` is history: the users a request became.

| action | code |
|---|---|
| `CreateRequest`, `Reject` | one statement each |
| `BeginApproval`, `InsertUser`, `UpdateRequest`, `CommitApproval`, `AbortApproval` | `ApproveRegistrationRequest`: SELECT without FOR UPDATE, INSERT, UPDATE by id, outbox event and COMMIT, ROLLBACK |
| `OpenOrDropUpdate`, `ChangeUser` | BEGIN or ROLLBACK, and COMMIT, of an update beside it |
| `RemoveUser`, `Elsewhere` | what else `UserSync` does beside it |

### ChatHistory and Conversations

`Conversations` has users, sessions and turns with one question and one answer:
each message has one chance to be written, at the end of a session of its
author, the answer not before the question had its chance, and only a clear
takes messages away, all of a session at once. `ChatHistory` refines it with
`Past`: a message has had its chance once its INSERT was tried, whether or not
the error of a later statement (the `updated_at` of the session) was logged.

State: `owner`, `newer` (the order of `updated_at`) and `log` are the tables of
services/chat; `at`, `role`, `user`, `asked`, `into` the turns under way;
`clearing` the session a clear has selected. A turn saves twice, and each save
resolves its session anew: the one asked for, if it is the user's, or the one
that is newest at that moment, or a new one. `disturbed` is history: turns
whose question was cleared or not saved, or that lost the newest session to
another one between question and answer; `implicit` the sessions a save inserted.

| action | code |
|---|---|
| `Start`, `StreamDone`, `Cut`, `Break` | `Chat.ProcessInput`: a request, the last chunk, a stream without one, an error or crash |
| `ResolveSession`, `SessionNotFound`, `FindNone`, `CreateMissing` | `resolveSessionID`, whose SELECT and INSERT are two statements |
| `SaveMessage`, `BumpSession`, `SaveFails` | `Store.SaveMessage`; its error is logged and the turn goes on |
| `ClearSelect`, `ClearDelete`, `CreateSession` | `ClearChatHistory`, two statements, and `CreateSession` |

### AccessTokens and Gateway

`AccessTokens`: `holder` and `expiry` are what a token says of itself, `listed`
the expiry of its blacklist entry, `active` the users table, `now` the clock
that services and Redis share. A request is validated in three reads, with
anything in between. The middleware's validation of a logout request comes
before the one its handler makes and is one more chance to be refused; it is
not a step of its own.

| action | code |
|---|---|
| `Sign` | `GenerateAccessToken` |
| `Parse`, `CheckBlacklist`, `CheckUser`, `Finish` | `ValidateAccessToken` of manager and service; every refusal, and the end of a request that is served |
| `RevokeRefresh`, `RevokeAccess`, `LogoutFails` | `AuthService.Logout` called by the gateway's handler |
| `ChangeUser`, `Tick` | the users table and time |

`Gateway` adds what an accepted request becomes: `registered` is the map of
connections, by the user id of the `path`; `client`, `chat` and `peer` are the
three ends of a bridge; `up` and `down` its forwarders; `bridged` the calls of
`Connect` that have not returned.

| action | code |
|---|---|
| `Connect`, `Return` | `ChatWSConnector.Connect` before and after its wait, with `Disconnect` |
| `UpReadFails`, `UpWriteFails`, `DownReadFails`, `DownWriteFails` | the ends of `forwardClientToChat` and `forwardChatToClient` |
| `ClientLeaves`, `PeerLeaves` | browser and services/chat |

## 3. Runs

| run | asks | answer |
|---|---|---|
| `auth_sessions` | all interleavings of two requests, Redis errors, crashes, expiry: `OneLivePerFamily`, `CompromisedDead`, `DeadStaysDead`, `LogoutAllReaches`, and `ImplementsChains` (refinement) | hold |
| `auth_logout_all` | does the index `RevokeAllUserTokens` reads name every usable token? | no (finding 1) |
| `auth_reuse` | does presenting a rotated token revoke its family? | no (finding 2) |
| `user_sync` | transactions that overlap, batches that fail, roll back and replay, services/auth stopping: `RetiredWasPublished`, `SettledAgree`, `OldestMoves`, `ImplementsCopies` (refinement), and `EventsRetire` (liveness) | hold |
| `user_sync_lost` | does every registered user reach services/auth? | no (finding 3) |
| `user_sync_delete` | does a deactivation reach services/auth? | no (finding 4) |
| `document_index` | documents, events and outcomes that overtake each other, with a lost event, a failing statement, a stop or a redelivery: `RowsBacked`, `CurrentKept`, `OnlyCoverSetsBack`, `IndexedIsFound`, `SettledIndexed`, and `IndexedInTheEnd` (liveness) | hold |
| `document_cover` | does uploading a cover leave the document's version alone? | no (finding 5) |
| `registrations` | approvals crossed by rejections, renamed users and aborts: `OneUserPerRequest`, `RejectionStands`, and `ImplementsUserSync` (refinement) | hold |
| `chat_history` | turns, clears and new sessions crossing each other, with failing saves: `AnswersFollowQuestions`, `MessagesInOwnSessions`, `NoMoreFirstSessions`, and `ImplementsConversations` (refinement) | hold |
| `gateway` | validations crossed by logouts and time, bridges that replace and disconnect each other: `LoggedOutRefused`, `ConnectionsAccounted`, and `DeadBridgesReturn` (liveness) | hold |
| `gateway_leak` | does a bridge end when either direction has ended? | no (finding 6) |

### Bounds

* `AuthSessions`: 1 user, 3 tokens, at most 2 requests at a time (`MaxBusy`),
  symmetry over users and tokens. Three ids are what a chain with a dead, a
  live and a coming token needs, or two families side by side; every race found
  in the code is between two handlers. Users do not interact: they share no
  key. The proofs cover any number of users, tokens and requests.
* `UserSync`: 2 users, 2 names, 3 events (`MaxEvents`), batches of 2
  (`BatchSize`, 10 in the code), 1 retry (`MaxRetry`, 5 in the code), 1
  rollback, 1 stop or failing handler. Two users are needed for names that
  collide, a batch shorter than the outbox for events that wait, and a rollback
  in a batch of two for a replay behind a later message. A BEGIN takes one of
  the three places; an open batch and a transaction that began before its
  events need no more. Deadlock is not
  checked: when all users exist, the outbox is full and everything is worked
  off, the system has stopped.
* `DocumentIndex`: 1 document, 2 versions, 2 writes of a path (`MaxWrites`).
  Documents share no row, path or chunk; they meet only in the queues, where
  two events of one document already change places. Two versions and two
  writes are what a cover that sets the row back, and an update that then
  writes the same path again, need. Three events let a create, an update and a
  reindex overtake each other; one fault and two deliveries (`MaxDeliver`, 5 in
  the code) let an outcome fail its first delivery or be acknowledged late, or
  an event be lost. A create, update or reindex starts only when its event fits
  under the bound. Deadlock is not checked: with the events used up and the
  document deleted, nothing is left to do.
* `Registrations`: 2 requests, 2 users, 2 names, 3 events: two requests for one
  name, an approval that aborts, and a user renamed to the name an open approval
  has inserted. The faults of the outbox are off, because `user_sync` has them
  and the statements of an approval do not touch what they change. Deadlock is
  not checked: when every request is decided and the events are used up, the
  system has stopped.
* `ChatHistory`: 2 users, 3 sessions, 2 turns, 1 failing statement or broken
  turn, symmetry over each of the sets. Two turns are two first messages, or a
  turn that moves the newest session under another; two users and three
  sessions let a turn ask for a session of somebody else while its own user has
  two. Deadlock is not checked: turns end.
* `Gateway`: 1 user, 1 token, 3 requests, lifetime 2, time 0 to 2. Users meet
  nowhere but in the map, under different keys, and tokens nowhere at all;
  three requests are a logout, a late request and a slow one, or a bridge that
  replaces another and is replaced. A lifetime of 2 lets a token be logged out
  at half its age and the blacklist entry outlast it. With time up to 3 the
  same properties hold (1.25 million states). `gateway_leak` needs one request.
  Deadlock is not checked: requests end, and time is bounded.
* The violation runs turn off what their question does not need (`Faults`,
  `PublishFails`, `MaxRollbacks`, `MaxStops`), so that the counterexample is
  not a fault the statement would excuse.

### Fairness

Three properties need it. For `EventsRetire`: weak fairness of `ProcessorStep`.
The processor is one goroutine that loops over a ticker until the process ends
(processor.go:80), and the number of rollbacks is bounded, which is the
assumption that the database works again in the end. Publications may fail
forever. For `IndexedInTheEnd`: weak fairness of the last two steps of a create
and, for each event, of its publication, its worker and the consumer's handler:
goroutines that are running or have a message waiting, which Go, asyncio and
NATS schedule. A fault may still come first; the property excuses a document
with a lost event. For `DeadBridgesReturn`: weak fairness of a forwarder's read
of an end that was closed, which then returns an error, and of `Return` once
both forwarders have ended. No fairness is assumed of frames, of clients, of
services/auth and services/chat, of a restart of index-python or of faults; so
no write of a forwarder has to fail, and finding 6 does not come from a service
that stands still where the code would run.

### Findings

1. `RevokeAllUserTokens` reads the user's index (token_store.go:216) and later
   deletes all of it (235). A login in between keeps a usable token that no
   later logout_all finds.
2. `ValidateRefreshToken` rejects a revoked token (jwt.go:251) before the reuse
   branch of `RotateRefreshToken` (279) can see it: presenting a rotated token
   is only an error, its family stays usable.
3. An event published while services/auth is down, or queued in it when it
   stops, is marked processed and never sent again (processor.go:161).
4. `DeleteUser` (user_repository.go:174) records no event: services/auth goes on
   accepting the deactivated user.
5. `UploadCover` writes back the whole row it has read (document_service.go:430):
   a cover that crosses an update sets the document back to its old version.
   The newer content stays in MinIO and in the index, and the next update
   overwrites it under the same path.
6. `Connect` waits for both forwarders (chat_ws_connector.go:89) although its
   comment says either. When a client leaves, the forwarder from services/chat
   stays in a read without deadline, and the chat connection is closed only
   after the wait (92): two goroutines and both sockets stay for every client
   that has left, until services/chat restarts or an older bridge of the same
   user returns and closes what is registered, which is this one's connection.

Besides, `RefreshTokens` answers with the id it has just revoked
(auth_service.go:241) while its comment and SEQUENCE_DIAGRAMS.md:147 say that the
new tokens are returned: a client that goes by the cookies of the reply can
refresh once. That is one assignment, plain to see, and no run asks about it;
`AuthSessions` lets clients present any id.

The documents and comments these disagree with are quoted in `PROJECT.json`.

## 4. Proofs

All theorems are for every value of the constants that satisfies the ASSUMEs of
the modules: sentinels are not elements of the sets they complete, bounds are
naturals, `BatchSize` and `MaxRetry` are positive.

* `TokenFamilies_proofs`: `FamilyHasOneLiveToken`, `DeadTokensStayDead`. The
  invariant `OneEnd` says that a family has one token without a successor and
  that a live token is such an end.
* `AuthSessions_proofs`: `TypeCorrect`, `CompromisedFamiliesAreDead`,
  `DeadTokensStayDead`, `StoreImplementsChains`, and from the last and
  `FamilyHasOneLiveToken`, `OneLiveTokenPerFamily`. `OneLivePerFamily` is not
  inductive: the SET of a new token is several commands away from the test that
  allows it. `IInv` adds where a handler can stand (`Position`), that what is
  not stored has no successor (`Unstored`, `PrevStored`, `LiveIsEnd`), that
  between the SET of the revoked metadata and the SET of the successor the old
  token is dead and has no successor, because only `auth.refresh` mints
  successors and it serves one request at a time (`Rotating`); and for theft
  responses that a granted token is in its family's index (`Indexed`), that the
  token being stored is not granted yet (`Fresh`), and that a family under
  revocation has live tokens only among those still to be visited
  (`Revoking`). The same handler both rotates and revokes families, which is
  why no successor can be minted past a revocation.
  In the same module `LogoutAllTypeCorrect`, `LogoutAllReachesGranted` and
  `LogoutAllKeepsSessions`, the last because every step of `LogoutAll` is one of
  `AuthSessions`. `LInv` adds to `IInv` that a token stays its user's from the
  login or rotation that mints it (`Owned`), that a granted token is in its
  user's index, or dead, or orphaned (`Named`), and that a purge under way has usable tokens of `before`
  only among those it still has to delete (`Purging`). `Purging` needs `Named`
  at the SMEMBERS and `DeadStaysDead` afterwards: a stale write of
  `RevokeRefreshToken` brings back metadata, but only revoked metadata.
* `UserSync_proofs`: `TypeCorrect`, `RetiredEventsWerePublished`
  from `IInv`. An event marked processed in the open batch was published
  or is out of retries (`Accounted`), and counts stay in range because a batch
  counts an event only below the limit (`CountsInRange`).
  `SettledUsersAgree`, in the same module: for a user that took no wrong
  turn: its row is the one of its newest event (`RowIsNewest`), its first event
  and no other is the registration (`RegisteredFirst`), an update that is open
  began after every update recorded, because they come one at a time
  (`UpdatesInOrder`), so that a user's event always appears as its newest,
  though not as the newest of the outbox; the row of
  services/auth is that of some event (`AuthFromEvents`), and either the newest
  event is still to come - unprocessed or in a queue, behind every older one
  that is (`InOrder`) - or the row has arrived (`RegisteredArrives`,
  `UpdatedArrives`). A replay after a rollback sends the oldest pending
  events again, in order, so that the newest of a user is still last.
  `AuthImplementsCopies`, for the users that took a wrong turn as well: `CInv`
  adds that a message is in the queue of its kind, whatever was lost or sent
  twice (`QueuesByKind`), and that a user with a row was registered by an event
  (`RegistrationRecorded`). A handler is then an `Insert`, an `Overwrite` or a
  stutter, a transaction of services/users a `Register`, an `Update` or a
  stutter.
  `OldestEventsMove`: an open batch holds the oldest of the events that are not
  processed and were there when it was fetched (`HoldsOldest`). What is recorded
  while it is open is `late`, may be older than all of the batch, and waits for
  the next one. The batch ends only when each of its events was marked.
  This is the safety half of `EventsRetire`: with it, an event is at the head of
  at most `MaxRetry + 1` batches that commit, and transactions that began before
  it, which can still come in front, are one at a time of each kind.
* `DocumentIndex_proofs`: `TypeCorrect`, of an invariant `Typed` that ties every
  event's index to `evt` and every handler's step to what it holds; and
  `RowsAreBacked`, `CurrentIsKept`, from `StoreInv`, which adds
  that a row about to be inserted is nobody's yet and has its content
  (`NotYetCreated`), that a failed INSERT which committed is on record
  (`HalfUndone`), that a row goes before its objects (`BeingDeleted`), that the
  versions in a row, and those a cover or an update is about to write into it,
  have their content (`ContentsBacked`), and that a cover holds no version newer
  than the row's and an update none older (`VersionsOrdered`). An update writes
  the path one above the version it holds, so never the one the row names.
  `OnlyCoversSetBack` follows from `VersionsOrdered`: the other whole-row write
  holds a version above the row's, and the flag and reindex statements write
  single columns.
* `DocumentSearch_proofs`: `IndexedAreFound` from `OutcomeInv` (a successful
  outcome has its points, and a document's points are never removed) and
  `SettledAreIndexed` from `SearchInv`: the current content of a document that
  took no wrong turn is in the points, or in an event that will still read it,
  or with a handler that will publish that event.

* `Registrations_proofs`: `RTypeCorrect`, `ApprovedHaveOneUser`,
  `RejectionsStand`, `RegistrationsImplementUserSync`, and by refinement
  `RegisteredUsersAgree` and `RegisteredUsersAreCopied`, which carry `SettledAgree`
  and the refinement of `UserCopies` over to the approval of several statements.
  `RInv` adds that no row of the table has the name an
  open approval has inserted (`NameHeld`, which the lock on the name keeps),
  that the transaction `UserSync` knows of is that of the open approval
  (`OneTransaction`), and that the request of an open approval is not approved by somebody else
  (`NotApproved`, because approvals come one at a time). With `NameHeld` a
  COMMIT is an `Approve` of `UserSync`; BEGIN and ROLLBACK are its `Begin` and
  `Abandon`, every other statement is a stutter.
* `ChatHistory_proofs`: `HTypeCorrect`, `AnswersAreFound`, `SessionsAreOwn`,
  `FirstSessionsEnd`. An answer looks for its session long after the question
  was saved. `HInv` says why it finds the same one: as long as a turn is not
  disturbed, what it resolved is still the newest session of its user
  (`StaysNewest`, which needs that `newer` orders sessions, `Ordered`), and that
  session still holds the question (`HoldsQuestion`). `TurnsInStep` and
  `Written` tie turns and messages to the owners of their sessions.
  `ChatsAreConversations` is a step-by-step simulation: an INSERT of a message
  is a `Write`, a failed save or a broken turn a `Miss`, the DELETE of a clear a
  `Clear`. It needs that a turn which has not begun has no user (`NotBegun`),
  and that a step changes `Past` for its own turn only (`SpentStep`).
  `MessagesStandOnce` is then proved of `Conversations` and carried over
  (`Once`: a message in a log is spent, and stands there once).
* `Gateway_proofs`: `GTypeCorrect`, `LogoutEndsToken`,
  `ConnectionsStayAccounted`, and `GatewayUsesAccessTokens`, which says that the
  composition adds no step to the tokens. `AInv` adds that a blacklist entry
  outlives its token (`Outlives`: it is written for a full lifetime, although
  the token is older) and that a late request the blacklist has let through has
  lapsed (`RequestsInStep`). `GInv` adds that the ends of a bridge belong to a
  request that is through (`EndsInStep`).

Every invariant, action property and refinement a passing run checks is stated
by a theorem. Model-checked only: `EventsRetire`, `IndexedInTheEnd` and
`DeadBridgesReturn` (liveness under fairness, which these provers do not reach),
and the six violation runs. Finite sets of events are
handled with the library's theorems on finite sets; no recursive operator is
used.

## 5. Not modelled, and why

* In the modelled parts: the per-device key and the set of all families in
  Redis (written, never read), TTL lengths of refresh tokens (a key may expire
  at any time), the users table as `AuthSessions` sees it (credentials accepted
  or not, user active or not: nondeterministic), passwords, several instances of
  a service (the subscriptions are not queue groups, so the code is made for
  one), email apart from username, role and full name, the lock column of the
  outbox (set and cleared inside one transaction), two transactions that begin in
  the same microsecond, whose events have no order, and go-redis's own retry of
  a pipeline.
* In `Registrations`: the approver, the reason of a rejection, the role.
* In `ChatHistory`: embeddings, retrieval and what is given to the model, titles
  and contents, sessions with the same `updated_at`, the reads of the history
  API. A clear takes the messages of the user's newest session, as
  `ClearChatHistory` does (history.go:119); the comment of `ClearUserChat`
  (chat.go:151), "all chat history for a user", says more. A user has one
  clear under way at a time (`clearing`); a second one beside it would delete
  the same messages, or those of a session that has become the newest since.
* In `AccessTokens` and `Gateway`: fingerprints, differences between the clocks
  of services/auth and Redis, frames apart from whether one may come, failed
  dials (the request ends), what comes between the dial and the entry in the map
  and between the deletion from the map and the close of the chat connection
  (`Connect` and `Return` are one step each), `ChatWSConnector.Close`, which nothing calls.
* In `DocumentIndex`: titles, tags, participants and the other fields without a
  part in indexing, the objects of covers, `corpus.document.deleted` (published,
  but nobody subscribes, so points of deleted documents stay), contents without
  a chunk (white space is flagged indexed with nothing to find), `index.document`
  and `corpus.search`, and several instances of a service.
* Whole parts: the registration path of services/auth, which nothing in the
  repository calls; bookmarks, notes and catalogues, whose operations are one
  statement behind one read, served by one subscription each and backed by
  unique indexes and foreign keys; the rest of the HTTP API of the gateway,
  which translates; the shared DTO, telemetry and utility libraries and the
  deployment, which keep no state of their own. Most lines of the repository are
  of these kinds, the generated JSON encoders, SQL bindings and mocks above all,
  and no definition stands for them. The retrieval pipeline's embeddings and
  chunking are numeric and outside what TLC can say.

## 6. What could come next

The parts of the system with behaviour of their own are modelled. Worth adding
if the code changes there:

* several instances of a service, should the subscriptions become queue groups:
  `AuthSessions` and `Registrations` rest on one request at a time per subject;
* an outbox in services/documents, or a consumer of `corpus.document.deleted`:
  `DocumentIndex` then gets the deletion of points, and `spoiled` loses a case;
* read deadlines or a close on the first error in the WebSocket bridge:
  `EitherDirectionEnds` then moves from `gateway_leak` to `gateway`.
