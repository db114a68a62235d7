----------------------------- MODULE ChatHistory -----------------------------
(***************************************************************************)
(* The sessions and messages of services/chat, and the turns that write    *)
(* them: ProcessInput saves the question, streams the answer of the        *)
(* language model and saves it when the stream is done.                    *)
(*                                                                         *)
(* Every statement is a transaction of its own and one action.  Turns of   *)
(* HTTP requests, of WebSocket connections and of chat.request run side by *)
(* side, as do the requests that clear a chat or open a session.           *)
(*                                                                         *)
(* With a session id in the request, each save checks that the session is  *)
(* the user's.  Without one, each save takes the session of the user that  *)
(* is newest by updated_at at that moment, and inserts one if there is     *)
(* none: the question and the answer choose separately.                    *)
(*                                                                         *)
(* Left out: embeddings, retrieval and the history given to the model,     *)
(* which change nothing here (their errors are a Break before the question *)
(* is saved); contents and titles; the ties of updated_at.                 *)
(***************************************************************************)
EXTENDS Naturals, Sequences, FiniteSets

CONSTANTS Users, NoUser, Sessions, NoSession, Turns,
          MaxFaults   \* bound: failing statements and broken turns

ASSUME NoUserAssumption == NoUser \notin Users
ASSUME NoSessionAssumption == NoSession \notin Sessions
ASSUME MaxFaultsAssumption == MaxFaults \in Nat

Roles == {"user", "assistant"}
Messages == [turn : Turns, role : Roles]
Steps == {"new", "resolve", "create", "insert", "bump", "stream", "over"}
Saving == {"resolve", "create", "insert", "bump"}

VARIABLES
  owner,     \* chat_sessions.user_id, NoUser before the row is there
  newer,     \* pairs of sessions: the first has the later updated_at
  log,       \* chat_messages of a session by created_at
  at, role,  \* per turn: its step, and which of its messages it saves
  user, asked, \* whose turn it is, and the session id it came with
  into,      \* per turn: the session its save has resolved
  clearing,  \* per user: the session a clear has selected
  \* history and bounds
  implicit,  \* sessions that a save has inserted
  disturbed, \* turns whose question and answer may have come apart
  faults

tables == <<owner, newer, log>>
turns == <<at, role, user, asked, into>>
hvars == <<tables, turns, clearing, implicit, disturbed, faults>>

HInit ==
  /\ owner = [s \in Sessions |-> NoUser]
  /\ newer = {}
  /\ log = [s \in Sessions |-> <<>>]
  /\ at = [t \in Turns |-> "new"] /\ role = [t \in Turns |-> "user"]
  /\ user = [t \in Turns |-> NoUser] /\ asked = [t \in Turns |-> NoSession]
  /\ into = [t \in Turns |-> NoSession]
  /\ clearing = [u \in Users |-> NoSession]
  /\ implicit = {} /\ disturbed = {} /\ faults = 0

Exists(s) == owner[s] # NoUser
Owned(u) == {s \in Sessions : owner[s] = u}

\* GetLatestSession: ORDER BY updated_at DESC LIMIT 1.
Latest(u, s) == s \in Owned(u) /\ \A r \in Owned(u) \ {s} : <<s, r>> \in newer

\* updated_at = NOW().
Newest(s) == {p \in newer : p[2] # s} \cup {<<s, r>> : r \in {q \in Sessions \ {s} : Exists(q)}}

\* Turns without a session id that have saved in another session than the one
\* that is newest from now on.
Overtaken(s, u) ==
  {t \in Turns : /\ user[t] = u /\ asked[t] = NoSession
                 /\ into[t] \notin {NoSession, s} /\ at[t] # "over"}

\* A row of chat_sessions.
InsertSession(s, u) ==
  /\ ~Exists(s)
  /\ owner' = [owner EXCEPT ![s] = u]
  /\ newer' = Newest(s)
  /\ disturbed' = disturbed \cup Overtaken(s, u)
  /\ UNCHANGED log

GoTo(t, step) == at' = [at EXCEPT ![t] = step]

-----------------------------------------------------------------------------
\* ProcessInput

\* A request with the id of a session, or with none.
Start(t, u, s) ==
  /\ at[t] = "new"
  /\ user' = [user EXCEPT ![t] = u]
  /\ asked' = [asked EXCEPT ![t] = s]
  /\ GoTo(t, "resolve")
  /\ UNCHANGED <<tables, role, into, clearing, implicit, disturbed, faults>>

\* Every session for everybody who knows its id.
Allowed_Any(u) == {s \in Sessions : Exists(s)}
\* getOwnedSessionID.
Allowed(u) == Owned(u)

\* resolveSessionID of a session that is there.
ResolveSession(t, s) ==
  /\ at[t] = "resolve"
  /\ IF asked[t] # NoSession THEN s = asked[t] /\ s \in Allowed(user[t])
                             ELSE Latest(user[t], s)
  /\ into' = [into EXCEPT ![t] = s]
  /\ GoTo(t, "insert")
  /\ UNCHANGED <<tables, role, user, asked, clearing, implicit, disturbed, faults>>

\* The session that was asked for is not the user's: the turn ends with the
\* error, before anything is saved.
SessionNotFound(t) ==
  /\ at[t] = "resolve"
  /\ asked[t] # NoSession /\ asked[t] \notin Allowed(user[t])
  /\ GoTo(t, "over")
  /\ UNCHANGED <<tables, role, user, asked, into, clearing, implicit, disturbed, faults>>

\* A save that looks only for sessions with messages.
NoSessionYet_Empty(u) == \A s \in Owned(u) : log[s] = <<>>
NoSessionYet(u) == Owned(u) = {}

\* A save that finds no session and inserts none.
FindNone_NoCreate(t) ==
  /\ at[t] = "resolve"
  /\ asked[t] = NoSession /\ NoSessionYet(user[t])
  /\ GoTo(t, "insert")
  /\ UNCHANGED <<tables, role, user, asked, into, clearing, implicit, disturbed, faults>>
\* GetLatestSession finds no row; the INSERT is a later statement.
FindNone(t) ==
  /\ at[t] = "resolve"
  /\ asked[t] = NoSession /\ NoSessionYet(user[t])
  /\ GoTo(t, "create")
  /\ UNCHANGED <<tables, role, user, asked, into, clearing, implicit, disturbed, faults>>

CreateMissing(t, s) ==
  /\ at[t] = "create"
  /\ InsertSession(s, user[t])
  /\ into' = [into EXCEPT ![t] = s]
  /\ implicit' = implicit \cup {s}
  /\ GoTo(t, "insert")
  /\ UNCHANGED <<role, user, asked, clearing, faults>>

\* InsertMessage.
SaveMessage(t) ==
  /\ at[t] = "insert"
  /\ log' = [log EXCEPT ![into[t]] = Append(@, [turn |-> t, role |-> role[t]])]
  /\ GoTo(t, "bump")
  /\ UNCHANGED <<owner, newer, role, user, asked, into, clearing, implicit, disturbed, faults>>

\* After the question the answer is streamed, after the answer the turn ends.
AfterSave(t) == GoTo(t, IF role[t] = "user" THEN "stream" ELSE "over")

\* BumpSessionUpdatedAt.
BumpSession(t) ==
  /\ at[t] = "bump"
  /\ newer' = Newest(into[t])
  /\ disturbed' = disturbed \cup Overtaken(into[t], user[t])
  /\ AfterSave(t)
  /\ UNCHANGED <<owner, log, role, user, asked, into, clearing, implicit, faults>>

\* A save that begins again after an error.
SaveFails_Again(t) ==
  /\ faults < MaxFaults
  /\ faults' = faults + 1
  /\ at[t] \in Saving
  /\ GoTo(t, "resolve")
  /\ UNCHANGED <<tables, role, user, asked, into, clearing, implicit, disturbed>>

\* An error of a statement of SaveMessage is only logged.
SaveFails(t) ==
  /\ faults < MaxFaults
  /\ faults' = faults + 1
  /\ at[t] \in Saving
  /\ disturbed' = IF at[t] = "bump" THEN disturbed ELSE disturbed \cup {t}
  /\ AfterSave(t)
  /\ UNCHANGED <<tables, role, user, asked, into, clearing, implicit>>

\* A question that has not been saved before the model is asked.
StreamDone_Unsaved(t) ==
  /\ at[t] \in {"stream", "resolve"}
  /\ role' = [role EXCEPT ![t] = "assistant"]
  /\ GoTo(t, "resolve")
  /\ UNCHANGED <<tables, user, asked, into, clearing, implicit, disturbed, faults>>

\* The last chunk has arrived: the answer is saved before it is passed on.
StreamDone(t) ==
  /\ at[t] = "stream"
  /\ role' = [role EXCEPT ![t] = "assistant"]
  /\ GoTo(t, "resolve")
  /\ UNCHANGED <<tables, user, asked, into, clearing, implicit, disturbed, faults>>

\* The stream ends without its last chunk: the model or the writer failed.
Cut(t) ==
  /\ at[t] = "stream"
  /\ GoTo(t, "over")
  /\ UNCHANGED <<tables, role, user, asked, into, clearing, implicit, disturbed, faults>>

\* An error before the question is saved, or a crash.
Break(t) ==
  /\ faults < MaxFaults
  /\ faults' = faults + 1
  /\ at[t] \notin {"new", "over"}
  /\ GoTo(t, "over")
  /\ UNCHANGED <<tables, role, user, asked, into, clearing, implicit, disturbed>>

-----------------------------------------------------------------------------
\* ClearUserChat and CreateSession

ClearSelect(u, s) ==
  /\ clearing[u] = NoSession
  /\ Latest(u, s)
  /\ clearing' = [clearing EXCEPT ![u] = s]
  /\ UNCHANGED <<tables, turns, implicit, disturbed, faults>>

\* DeleteSessionMessages: the questions that were there lose their answers.
ClearDelete(u) ==
  /\ clearing[u] # NoSession
  /\ log' = [log EXCEPT ![clearing[u]] = <<>>]
  /\ disturbed' = disturbed \cup {log[clearing[u]][i].turn : i \in DOMAIN log[clearing[u]]}
  /\ clearing' = [clearing EXCEPT ![u] = NoSession]
  /\ UNCHANGED <<owner, newer, turns, implicit, faults>>

CreateSession(u, s) ==
  /\ InsertSession(s, u)
  /\ UNCHANGED <<turns, clearing, implicit, faults>>

-----------------------------------------------------------------------------
SaveStep(t) ==
  \/ \E s \in Sessions : ResolveSession(t, s) \/ CreateMissing(t, s)
  \/ SessionNotFound(t) \/ FindNone(t) \/ SaveMessage(t) \/ BumpSession(t) \/ SaveFails(t)

OtherRequest ==
  \E u \in Users : ClearDelete(u) \/ \E s \in Sessions : ClearSelect(u, s) \/ CreateSession(u, s)

HNext ==
  \/ \E t \in Turns : \/ \E u \in Users, s \in Sessions \cup {NoSession} : Start(t, u, s)
                      \/ SaveStep(t) \/ StreamDone(t) \/ Cut(t) \/ Break(t)
  \/ OtherRequest

HSpec == HInit /\ [][HNext]_hvars

-----------------------------------------------------------------------------
HTypeOK ==
  /\ owner \in [Sessions -> Users \cup {NoUser}]
  /\ newer \subseteq Sessions \X Sessions
  /\ log \in [Sessions -> Seq(Messages)]
  /\ at \in [Turns -> Steps] /\ role \in [Turns -> Roles]
  /\ user \in [Turns -> Users \cup {NoUser}]
  /\ \A t \in Turns : at[t] # "new" => user[t] \in Users
  /\ asked \in [Turns -> Sessions \cup {NoSession}]
  /\ into \in [Turns -> Sessions \cup {NoSession}]
  /\ \A t \in Turns : at[t] \in {"insert", "bump"} => into[t] \in Sessions
  /\ clearing \in [Users -> Sessions \cup {NoSession}]
  /\ implicit \subseteq Sessions /\ disturbed \subseteq Turns
  /\ faults \in 0..MaxFaults

\* An answer stands in the session of its question and after it, although
\* each save chooses its session anew, unless something came between the two:
\* a clear took the question, its save failed, or another session of the user
\* became the newest.
Asks(s, i, t) == log[s][i] = [turn |-> t, role |-> "user"]
AnswersFollowQuestions ==
  \A s \in Sessions : \A i \in DOMAIN log[s] :
    log[s][i].role = "assistant" /\ log[s][i].turn \notin disturbed =>
      \E j \in DOMAIN log[s] : j < i /\ Asks(s, j, log[s][i].turn)

\* Whatever session ids clients send and whichever session is the newest, a
\* message is in a session of the user who wrote it.
MessagesInOwnSessions ==
  \A s \in Sessions : \A i \in DOMAIN log[s] : user[log[s][i].turn] = owner[s]

\* Two first messages may each insert a session, having both found none.  Once
\* a user has a session and no save is between the two statements it stays so:
\* no save inserts another.
Settled(u) ==
  /\ Owned(u) # {}
  /\ \A t \in Turns : at[t] = "create" => user[t] # u
NoMoreFirstSessions ==
  [][\A u \in Users : Settled(u) =>
       Settled(u)' /\ implicit' \cap Owned(u)' = implicit \cap Owned(u)]_hvars

\* However saves of turns, clears and errors cross each other, the chats of
\* the users are conversations: a message has one chance, and an error of a
\* later statement does not make it two; it is written at the end of a session
\* of its author, which stays his; an answer comes when its question had its
\* chance; no message goes without the others of its session.
Past(m) ==
  LET t == m.turn IN
  \/ at[t] = "over"
  \/ role[t] = m.role /\ at[t] \in {"bump", "stream"}
  \/ role[t] = "assistant" /\ m.role = "user"
Talk == INSTANCE Conversations WITH
  writer <- user,
  spent <- {m \in Messages : Past(m)}
ImplementsConversations == Talk!Spec
=============================================================================
