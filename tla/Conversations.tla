---------------------------- MODULE Conversations ----------------------------
(***************************************************************************)
(* What services/chat promises of the conversations of its users.  A       *)
(* session belongs for good to the user it was opened for.  A turn has a   *)
(* question and an answer; each has one chance to be written, the answer   *)
(* after the question, at the end of a session of the turn's user; what    *)
(* missed its chance is never written.  Messages do not change and do not  *)
(* move, and they go only with all others of their session.                *)
(***************************************************************************)
EXTENDS Sequences

CONSTANTS Users, NoUser, Sessions, Turns

VARIABLES owner,   \* the user of a session
          log,     \* the messages of a session
          writer,  \* the user of a turn
          spent    \* messages that had their chance

vars == <<owner, log, writer, spent>>

Question(t) == [turn |-> t, role |-> "user"]
Answer(t) == [turn |-> t, role |-> "assistant"]

Init ==
  /\ owner = [s \in Sessions |-> NoUser]
  /\ log = [s \in Sessions |-> <<>>]
  /\ writer = [t \in Turns |-> NoUser]
  /\ spent = {}

Begin(t, u) ==
  /\ writer[t] = NoUser
  /\ writer' = [writer EXCEPT ![t] = u]
  /\ UNCHANGED <<owner, log, spent>>

Open(s, u) ==
  /\ owner[s] = NoUser
  /\ owner' = [owner EXCEPT ![s] = u]
  /\ UNCHANGED <<log, writer, spent>>

Write(s, t, m) ==
  /\ m \notin spent
  /\ m = Answer(t) => Question(t) \in spent
  /\ writer[t] # NoUser /\ owner[s] = writer[t]
  /\ log' = [log EXCEPT ![s] = Append(@, m)]
  /\ spent' = spent \cup {m}
  /\ UNCHANGED <<owner, writer>>

\* The turn goes on without its question, or it is over.
Miss(t) ==
  /\ \E M \in {{Question(t)}, {Question(t), Answer(t)}} : spent' = spent \cup M
  /\ UNCHANGED <<owner, log, writer>>

Clear(s) ==
  /\ log' = [log EXCEPT ![s] = <<>>]
  /\ UNCHANGED <<owner, writer, spent>>

Next ==
  \/ \E t \in Turns, u \in Users : Begin(t, u)
  \/ \E s \in Sessions, u \in Users : Open(s, u)
  \/ \E s \in Sessions, t \in Turns : Write(s, t, Question(t)) \/ Write(s, t, Answer(t))
  \/ \E t \in Turns : Miss(t)
  \/ \E s \in Sessions : Clear(s)

Spec == Init /\ [][Next]_vars

-----------------------------------------------------------------------------
\* So a message stands in one place: no session has it twice and no two
\* sessions have it, however its turn was broken off and others were cleared.
WrittenOnce ==
  \A s, r \in Sessions : \A i \in DOMAIN log[s], j \in DOMAIN log[r] :
    log[s][i] = log[r][j] => s = r /\ i = j
=============================================================================
