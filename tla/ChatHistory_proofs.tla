------------------------- MODULE ChatHistory_proofs -------------------------
(***************************************************************************)
(* Theorems of ChatHistory, for any number of users, sessions and turns.   *)
(* An answer finds the session of its question because, as long as nothing *)
(* came between them (t \notin disturbed), that session is still the       *)
(* newest of the user (StaysNewest), and it still holds the question       *)
(* (HoldsQuestion).                                                        *)
(***************************************************************************)
EXTENDS ChatHistory, SequenceTheorems, TLAPS

\* How far a turn is bounds what it can have resolved.
TurnsInStep ==
  \A t \in Turns :
    /\ at[t] = "new" => role[t] = "user" /\ into[t] = NoSession
    /\ at[t] = "stream" => role[t] = "user"
    /\ at[t] = "create" => asked[t] = NoSession
    /\ into[t] # NoSession =>
         /\ owner[into[t]] = user[t]
         /\ asked[t] \in {NoSession, into[t]}

\* The author of a message has begun, and is the owner of its session.
Written ==
  /\ \A s \in Sessions : \A i \in DOMAIN log[s] :
       at[log[s][i].turn] # "new" /\ user[log[s][i].turn] = owner[s]
  /\ \A s \in implicit : Exists(s)

\* No two sessions are each newer than the other.
Ordered == \A s, r \in Sessions : <<s, r>> \in newer => <<r, s>> \notin newer

\* What an undisturbed turn without a session id has resolved is still the
\* newest session of its user.
StaysNewest ==
  \A t \in Turns \ disturbed :
    asked[t] = NoSession /\ into[t] # NoSession /\ at[t] # "over"
      => Latest(user[t], into[t])

\* Turns whose question has been saved and whose answer is still to come.
HasQuestion(t) == \E j \in DOMAIN log[into[t]] : Asks(into[t], j, t)
Between(t) ==
  \/ role[t] = "user" /\ at[t] = "bump"
  \/ at[t] = "stream"
  \/ role[t] = "assistant" /\ at[t] \in Saving
HoldsQuestion ==
  \A t \in Turns \ disturbed : Between(t) => into[t] \in Sessions /\ HasQuestion(t)

HInv ==
  /\ HTypeOK /\ TurnsInStep /\ Written
  /\ Ordered /\ StaysNewest /\ HoldsQuestion
  /\ AnswersFollowQuestions

LEMMA HInitInv == HInit => HInv
BY NoUserAssumption, NoSessionAssumption, MaxFaultsAssumption
   DEF HInit, HInv, HTypeOK, TurnsInStep, Written, Ordered, StaysNewest, HoldsQuestion,
       Between, Saving, AnswersFollowQuestions, Steps, Roles

\* Messages name their turn.
LEMMA AuthorsAreTurns ==
  ASSUME HTypeOK, NEW s \in Sessions, NEW i \in DOMAIN log[s]
  PROVE  log[s][i].turn \in Turns
<1>1. log[s] \in Seq(Messages)
  BY DEF HTypeOK
<1>2. log[s][i] \in Messages
  BY <1>1, ElementOfSeq, LenProperties
<1> QED BY <1>2 DEF Messages

\* The type invariant.
LEMMA TypeStep ==
  ASSUME HTypeOK, HNext
  PROVE  HTypeOK'
<1> USE NoUserAssumption, NoSessionAssumption, MaxFaultsAssumption DEF HTypeOK,
     Steps, Roles, Messages, Newest, tables, turns
<1>1. ASSUME NEW t \in Turns, NEW u \in Users, NEW s \in Sessions \cup {NoSession},
     Start(t, u, s) PROVE HTypeOK'
  BY <1>1 DEF Start, GoTo
<1>2. ASSUME NEW t \in Turns, NEW s \in Sessions, ResolveSession(t, s)
     PROVE HTypeOK'
  BY <1>2 DEF ResolveSession, GoTo, Allowed
<1>3. ASSUME NEW t \in Turns, NEW s \in Sessions, CreateMissing(t, s) PROVE HTypeOK'
  <2>1. Newest(s) \subseteq Sessions \X Sessions
    BY DEF Newest
  <2>2. Overtaken(s, user[t]) \subseteq Turns
    BY DEF Overtaken
  <2> QED BY <1>3, <2>1, <2>2 DEF CreateMissing, GoTo, InsertSession
<1>4. ASSUME NEW t \in Turns, SessionNotFound(t) PROVE HTypeOK'
  BY <1>4 DEF SessionNotFound, GoTo
<1>5. ASSUME NEW t \in Turns, FindNone(t) PROVE HTypeOK'
  BY <1>5 DEF FindNone, GoTo
<1>6. ASSUME NEW t \in Turns, SaveMessage(t) PROVE HTypeOK'
  BY <1>6 DEF SaveMessage, GoTo
<1>7. ASSUME NEW t \in Turns, BumpSession(t) PROVE HTypeOK'
  <2>0. into[t] \in Sessions
    BY <1>7 DEF BumpSession
  <2>1. Newest(into[t]) \subseteq Sessions \X Sessions
    BY <2>0 DEF Newest
  <2>2. Overtaken(into[t], user[t]) \subseteq Turns
    BY DEF Overtaken
  <2> QED BY <1>7, <2>1, <2>2 DEF BumpSession, AfterSave, GoTo
<1>8. ASSUME NEW t \in Turns, SaveFails(t) PROVE HTypeOK'
  BY <1>8 DEF SaveFails, AfterSave, GoTo, Saving
<1>9. ASSUME NEW t \in Turns, StreamDone(t) PROVE HTypeOK'
  BY <1>9 DEF StreamDone, GoTo
<1>10. ASSUME NEW t \in Turns, Cut(t) PROVE HTypeOK'
  BY <1>10 DEF Cut, GoTo
<1>11. ASSUME NEW t \in Turns, Break(t) PROVE HTypeOK'
  BY <1>11 DEF Break, GoTo
<1>12. ASSUME NEW u \in Users, NEW s \in Sessions, ClearSelect(u, s) PROVE HTypeOK'
  BY <1>12 DEF ClearSelect, Latest, Owned
<1>13. ASSUME NEW u \in Users, ClearDelete(u) PROVE HTypeOK'
  <2>1. clearing[u] \in Sessions /\ log[clearing[u]] \in Seq(Messages)
    BY <1>13 DEF ClearDelete
  <2>2. {log[clearing[u]][i].turn : i \in DOMAIN log[clearing[u]]} \subseteq Turns
    <3>1. \A i \in DOMAIN log[clearing[u]] : log[clearing[u]][i].turn \in Turns
      <4> SUFFICES ASSUME NEW i \in DOMAIN log[clearing[u]]
                   PROVE  log[clearing[u]][i].turn \in Turns
        OBVIOUS
      <4>1. HTypeOK /\ clearing[u] \in Sessions
        BY <2>1 DEF HTypeOK
      <4> HIDE DEF HTypeOK
      <4> QED BY <4>1, AuthorsAreTurns
    <3> QED BY <3>1
  <2>3. log' \in [Sessions -> Seq(Messages)]
    <3>1. <<>> \in Seq(Messages)
      BY EmptySeq
    <3>2. log' = [log EXCEPT ![clearing[u]] = <<>>] /\ log \in [Sessions -> Seq(Messages)]
      BY <1>13 DEF ClearDelete
    <3> QED BY <2>1, <3>1, <3>2, Zenon
  <2> QED BY <1>13, <2>2, <2>3 DEF ClearDelete
<1>14. ASSUME NEW u \in Users, NEW s \in Sessions, CreateSession(u, s)
     PROVE HTypeOK'
  <2>1. Newest(s) \subseteq Sessions \X Sessions
    BY DEF Newest
  <2>2. Overtaken(s, u) \subseteq Turns
    BY DEF Overtaken
  <2> QED BY <1>14, <2>1, <2>2 DEF CreateSession, InsertSession
<1> QED BY <1>1, <1>2, <1>3, <1>4, <1>5, <1>6, <1>7, <1>8, <1>9, <1>10, <1>11,
     <1>12, <1>13, <1>14
     DEF HNext, SaveStep, OtherRequest

\* Turns keep in step.
LEMMA TurnsStep ==
  ASSUME HTypeOK, TurnsInStep, HNext
  PROVE  TurnsInStep'
<1> USE NoUserAssumption, NoSessionAssumption DEF HTypeOK, TurnsInStep, Exists,
     Owned, Latest, Steps, tables, turns
<1>1. ASSUME NEW t \in Turns, NEW u \in Users, NEW s \in Sessions \cup {NoSession},
     Start(t, u, s) PROVE TurnsInStep'
  BY <1>1 DEF Start, GoTo
<1>2. ASSUME NEW t \in Turns, NEW s \in Sessions, ResolveSession(t, s)
     PROVE TurnsInStep'
  BY <1>2 DEF ResolveSession, GoTo, Allowed
<1>3. ASSUME NEW t \in Turns, NEW s \in Sessions, CreateMissing(t, s)
     PROVE TurnsInStep'
  BY <1>3 DEF CreateMissing, GoTo, InsertSession
<1>4. ASSUME NEW t \in Turns, SessionNotFound(t) PROVE TurnsInStep'
  BY <1>4 DEF SessionNotFound, GoTo
<1>5. ASSUME NEW t \in Turns, FindNone(t) PROVE TurnsInStep'
  BY <1>5 DEF FindNone, GoTo
<1>6. ASSUME NEW t \in Turns, SaveMessage(t) PROVE TurnsInStep'
  BY <1>6 DEF SaveMessage, GoTo
<1>7. ASSUME NEW t \in Turns, BumpSession(t) PROVE TurnsInStep'
  BY <1>7 DEF BumpSession, AfterSave, GoTo
<1>8. ASSUME NEW t \in Turns, SaveFails(t) PROVE TurnsInStep'
  BY <1>8 DEF SaveFails, AfterSave, GoTo, Saving
<1>9. ASSUME NEW t \in Turns, StreamDone(t) PROVE TurnsInStep'
  BY <1>9 DEF StreamDone, GoTo
<1>10. ASSUME NEW t \in Turns, Cut(t) PROVE TurnsInStep'
  BY <1>10 DEF Cut, GoTo
<1>11. ASSUME NEW t \in Turns, Break(t) PROVE TurnsInStep'
  BY <1>11 DEF Break, GoTo
<1>12. ASSUME NEW u \in Users, NEW s \in Sessions, ClearSelect(u, s)
     PROVE TurnsInStep'
  BY <1>12 DEF ClearSelect, Latest, Owned
<1>13. ASSUME NEW u \in Users, ClearDelete(u) PROVE TurnsInStep'
  BY <1>13 DEF ClearDelete
<1>14. ASSUME NEW u \in Users, NEW s \in Sessions, CreateSession(u, s)
     PROVE TurnsInStep'
  BY <1>14 DEF CreateSession, InsertSession
<1> QED BY <1>1, <1>2, <1>3, <1>4, <1>5, <1>6, <1>7, <1>8, <1>9, <1>10, <1>11,
     <1>12, <1>13, <1>14
     DEF HNext, SaveStep, OtherRequest

\* Messages are written by the owners.
LEMMA WrittenStep ==
  ASSUME HTypeOK, TurnsInStep, Written, HNext
  PROVE  Written'
<1> USE NoUserAssumption, NoSessionAssumption DEF HTypeOK, TurnsInStep, Written,
     Exists, Messages, tables, turns
<1>1. ASSUME NEW t \in Turns, NEW u \in Users, NEW s \in Sessions \cup {NoSession},
     Start(t, u, s) PROVE Written'
  BY <1>1 DEF Start, GoTo
<1>2. ASSUME NEW t \in Turns, NEW s \in Sessions, ResolveSession(t, s)
     PROVE Written'
  BY <1>2 DEF ResolveSession, GoTo, Allowed
<1>3. ASSUME NEW t \in Turns, NEW s \in Sessions, CreateMissing(t, s) PROVE Written'
  <2>1. log' = log /\ user' = user /\ owner' = [owner EXCEPT ![s] = user[t]] /\ owner[s] = NoUser
    BY <1>3 DEF CreateMissing, GoTo, InsertSession
  <2>2. \A i \in DOMAIN log[s] : FALSE
    <3> SUFFICES ASSUME NEW i \in DOMAIN log[s] PROVE FALSE
      OBVIOUS
    <3>1. log[s][i].turn \in Turns
      BY AuthorsAreTurns
    <3> QED BY <2>1, <3>1
  <2>3. \A x \in Turns : at[x] # "new" => at'[x] # "new"
    BY <1>3 DEF CreateMissing, GoTo, InsertSession
  <2>4. \A r \in Sessions : \A i \in DOMAIN log[r] : log[r][i].turn \in Turns
    BY AuthorsAreTurns
  <2>5. \A r \in Sessions \ {s} : owner'[r] = owner[r]
    BY <2>1
  <2>6. \A r \in Sessions : \A i \in DOMAIN log[r] :
          at'[log[r][i].turn] # "new" /\ user[log[r][i].turn] = owner'[r]
    BY <2>2, <2>3, <2>4, <2>5
  <2>7. \A r \in implicit' : owner'[r] # NoUser
    BY <1>3, <2>1 DEF CreateMissing, GoTo, InsertSession
  <2> QED BY <2>1, <2>6, <2>7
<1>4. ASSUME NEW t \in Turns, SessionNotFound(t) PROVE Written'
  BY <1>4 DEF SessionNotFound, GoTo
<1>5. ASSUME NEW t \in Turns, FindNone(t) PROVE Written'
  BY <1>5 DEF FindNone, GoTo
<1>6. ASSUME NEW t \in Turns, SaveMessage(t) PROVE Written'
  BY <1>6 DEF SaveMessage, GoTo
<1>7. ASSUME NEW t \in Turns, BumpSession(t) PROVE Written'
  BY <1>7 DEF BumpSession, AfterSave, GoTo
<1>8. ASSUME NEW t \in Turns, SaveFails(t) PROVE Written'
  BY <1>8 DEF SaveFails, AfterSave, GoTo, Saving
<1>9. ASSUME NEW t \in Turns, StreamDone(t) PROVE Written'
  BY <1>9 DEF StreamDone, GoTo
<1>10. ASSUME NEW t \in Turns, Cut(t) PROVE Written'
  BY <1>10 DEF Cut, GoTo
<1>11. ASSUME NEW t \in Turns, Break(t) PROVE Written'
  BY <1>11 DEF Break, GoTo
<1>12. ASSUME NEW u \in Users, NEW s \in Sessions, ClearSelect(u, s) PROVE Written'
  BY <1>12 DEF ClearSelect, Latest, Owned
<1>13. ASSUME NEW u \in Users, ClearDelete(u) PROVE Written'
  BY <1>13 DEF ClearDelete
<1>14. ASSUME NEW u \in Users, NEW s \in Sessions, CreateSession(u, s)
     PROVE Written'
  <2>1. log' = log /\ user' = user /\ owner' = [owner EXCEPT ![s] = u] /\ owner[s] = NoUser
    BY <1>14 DEF CreateSession, InsertSession
  <2>2. \A i \in DOMAIN log[s] : FALSE
    <3> SUFFICES ASSUME NEW i \in DOMAIN log[s] PROVE FALSE
      OBVIOUS
    <3>1. log[s][i].turn \in Turns
      BY AuthorsAreTurns
    <3> QED BY <2>1, <3>1
  <2>3. \A x \in Turns : at[x] # "new" => at'[x] # "new"
    BY <1>14 DEF CreateSession, InsertSession
  <2>4. \A r \in Sessions : \A i \in DOMAIN log[r] : log[r][i].turn \in Turns
    BY AuthorsAreTurns
  <2>5. \A r \in Sessions \ {s} : owner'[r] = owner[r]
    BY <2>1
  <2>6. \A r \in Sessions : \A i \in DOMAIN log[r] :
          at'[log[r][i].turn] # "new" /\ user[log[r][i].turn] = owner'[r]
    BY <2>2, <2>3, <2>4, <2>5
  <2>7. \A r \in implicit' : owner'[r] # NoUser
    BY <1>14, <2>1 DEF CreateSession, InsertSession
  <2> QED BY <2>1, <2>6, <2>7
<1> QED BY <1>1, <1>2, <1>3, <1>4, <1>5, <1>6, <1>7, <1>8, <1>9, <1>10, <1>11,
     <1>12, <1>13, <1>14
     DEF HNext, SaveStep, OtherRequest

\* A session that becomes the newest keeps the order.
LEMMA OrderStep ==
  ASSUME HTypeOK, Ordered, HNext
  PROVE  Ordered'
<1> USE DEF HTypeOK, Ordered, Newest, tables, turns
<1>1. ASSUME NEW t \in Turns, NEW u \in Users, NEW s \in Sessions \cup {NoSession},
     Start(t, u, s) PROVE Ordered'
  BY <1>1 DEF Start, GoTo
<1>2. ASSUME NEW t \in Turns, NEW s \in Sessions, ResolveSession(t, s)
     PROVE Ordered'
  BY <1>2 DEF ResolveSession, GoTo, Allowed
<1>3. ASSUME NEW t \in Turns, NEW s \in Sessions, CreateMissing(t, s) PROVE Ordered'
  BY <1>3 DEF CreateMissing, GoTo, InsertSession
<1>4. ASSUME NEW t \in Turns, SessionNotFound(t) PROVE Ordered'
  BY <1>4 DEF SessionNotFound, GoTo
<1>5. ASSUME NEW t \in Turns, FindNone(t) PROVE Ordered'
  BY <1>5 DEF FindNone, GoTo
<1>6. ASSUME NEW t \in Turns, SaveMessage(t) PROVE Ordered'
  BY <1>6 DEF SaveMessage, GoTo
<1>7. ASSUME NEW t \in Turns, BumpSession(t) PROVE Ordered'
  BY <1>7 DEF BumpSession, AfterSave, GoTo
<1>8. ASSUME NEW t \in Turns, SaveFails(t) PROVE Ordered'
  BY <1>8 DEF SaveFails, AfterSave, GoTo, Saving
<1>9. ASSUME NEW t \in Turns, StreamDone(t) PROVE Ordered'
  BY <1>9 DEF StreamDone, GoTo
<1>10. ASSUME NEW t \in Turns, Cut(t) PROVE Ordered'
  BY <1>10 DEF Cut, GoTo
<1>11. ASSUME NEW t \in Turns, Break(t) PROVE Ordered'
  BY <1>11 DEF Break, GoTo
<1>12. ASSUME NEW u \in Users, NEW s \in Sessions, ClearSelect(u, s) PROVE Ordered'
  BY <1>12 DEF ClearSelect, Latest, Owned
<1>13. ASSUME NEW u \in Users, ClearDelete(u) PROVE Ordered'
  BY <1>13 DEF ClearDelete
<1>14. ASSUME NEW u \in Users, NEW s \in Sessions, CreateSession(u, s)
     PROVE Ordered'
  BY <1>14 DEF CreateSession, InsertSession
<1> QED BY <1>1, <1>2, <1>3, <1>4, <1>5, <1>6, <1>7, <1>8, <1>9, <1>10, <1>11,
     <1>12, <1>13, <1>14
     DEF HNext, SaveStep, OtherRequest

\* A session is overtaken only by a step that disturbs the turn.
LEMMA NewestStep ==
  ASSUME HTypeOK, TurnsInStep, StaysNewest, HNext
  PROVE  StaysNewest'
<1> USE NoUserAssumption, NoSessionAssumption DEF HTypeOK, TurnsInStep,
     StaysNewest, Latest, Owned, Exists, Newest, Overtaken, Steps, tables, turns
<1>1. ASSUME NEW t \in Turns, NEW u \in Users, NEW s \in Sessions \cup {NoSession},
     Start(t, u, s) PROVE StaysNewest'
  BY <1>1 DEF Start, GoTo
<1>2. ASSUME NEW t \in Turns, NEW s \in Sessions, ResolveSession(t, s)
     PROVE StaysNewest'
  BY <1>2 DEF ResolveSession, GoTo, Allowed
<1>3. ASSUME NEW t \in Turns, NEW s \in Sessions, CreateMissing(t, s)
     PROVE StaysNewest'
  BY <1>3 DEF CreateMissing, GoTo, InsertSession
<1>4. ASSUME NEW t \in Turns, SessionNotFound(t) PROVE StaysNewest'
  BY <1>4 DEF SessionNotFound, GoTo
<1>5. ASSUME NEW t \in Turns, FindNone(t) PROVE StaysNewest'
  BY <1>5 DEF FindNone, GoTo
<1>6. ASSUME NEW t \in Turns, SaveMessage(t) PROVE StaysNewest'
  BY <1>6 DEF SaveMessage, GoTo
<1>7. ASSUME NEW t \in Turns, BumpSession(t) PROVE StaysNewest'
  BY <1>7 DEF BumpSession, AfterSave, GoTo
<1>8. ASSUME NEW t \in Turns, SaveFails(t) PROVE StaysNewest'
  BY <1>8 DEF SaveFails, AfterSave, GoTo, Saving
<1>9. ASSUME NEW t \in Turns, StreamDone(t) PROVE StaysNewest'
  BY <1>9 DEF StreamDone, GoTo
<1>10. ASSUME NEW t \in Turns, Cut(t) PROVE StaysNewest'
  BY <1>10 DEF Cut, GoTo
<1>11. ASSUME NEW t \in Turns, Break(t) PROVE StaysNewest'
  BY <1>11 DEF Break, GoTo
<1>12. ASSUME NEW u \in Users, NEW s \in Sessions, ClearSelect(u, s)
     PROVE StaysNewest'
  BY <1>12 DEF ClearSelect, Latest, Owned
<1>13. ASSUME NEW u \in Users, ClearDelete(u) PROVE StaysNewest'
  BY <1>13 DEF ClearDelete
<1>14. ASSUME NEW u \in Users, NEW s \in Sessions, CreateSession(u, s)
     PROVE StaysNewest'
  BY <1>14 DEF CreateSession, InsertSession
<1> QED BY <1>1, <1>2, <1>3, <1>4, <1>5, <1>6, <1>7, <1>8, <1>9, <1>10, <1>11,
     <1>12, <1>13, <1>14
     DEF HNext, SaveStep, OtherRequest

\* The question stays until its answer.
LEMMA SameQuestion ==
  ASSUME HInv, NEW x \in Turns \ disturbed, Between(x),
         into' = into \/ into'[x] = into[x],
         log' = log \/ log'[into[x]] = log[into[x]]
  PROVE  into'[x] \in Sessions /\ \E j \in DOMAIN log'[into'[x]] :
           log'[into'[x]][j] = [turn |-> x, role |-> "user"]
BY DEF HInv, HoldsQuestion, HasQuestion, Asks

LEMMA QuestionStep ==
  ASSUME HInv, HNext
  PROVE  HoldsQuestion'
<1> SUFFICES ASSUME NEW x \in Turns, x \notin disturbed', Between(x)'
             PROVE  into'[x] \in Sessions /\ \E j \in DOMAIN log'[into'[x]] :
                      log'[into'[x]][j] = [turn |-> x, role |-> "user"]
  BY DEF HoldsQuestion, HasQuestion, Asks
<1> USE NoSessionAssumption DEF Between, Saving, tables, turns
<1>t. HTypeOK /\ TurnsInStep
  BY DEF HInv
<1>s. at \in [Turns -> Steps] /\ role \in [Turns -> Roles] /\ into \in [Turns -> Sessions \cup {NoSession}]
  BY <1>t DEF HTypeOK
<1>1. ASSUME NEW t \in Turns, NEW u \in Users, NEW s \in Sessions \cup {NoSession},
     Start(t, u, s)
      PROVE  into'[x] \in Sessions /\ \E j \in DOMAIN log'[into'[x]] :
               log'[into'[x]][j] = [turn |-> x, role |-> "user"]
  <2>1. x \notin disturbed /\ Between(x)
    BY <1>1, <1>s, <1>t DEF Start, GoTo, TurnsInStep
  <2> QED BY <1>1, <2>1, SameQuestion DEF Start, GoTo
<1>2. ASSUME NEW t \in Turns, NEW s \in Sessions, ResolveSession(t, s)
      PROVE  into'[x] \in Sessions /\ \E j \in DOMAIN log'[into'[x]] :
               log'[into'[x]][j] = [turn |-> x, role |-> "user"]
  <2>1. x \notin disturbed /\ Between(x)
    BY <1>2, <1>s DEF ResolveSession, GoTo
  <2>2. into'[x] = into[x]
    <3>1. CASE x # t
      BY <1>2, <1>s, <3>1 DEF ResolveSession
    <3>2. CASE x = t
      <4>1. into[t] \in Sessions /\ at[t] = "resolve"
        BY <1>2, <2>1, <3>2 DEF HInv, HoldsQuestion, ResolveSession
      <4>2. asked[t] # NoSession => s = into[t]
        BY <1>2, <1>t, <4>1 DEF TurnsInStep, ResolveSession
      <4>3. asked[t] = NoSession => s = into[t]
        <5>1. asked[t] = NoSession => Latest(user[t], into[t])
          BY <2>1, <3>2, <4>1 DEF HInv, StaysNewest
        <5>2. asked[t] = NoSession => Latest(user[t], s)
          BY <1>2 DEF ResolveSession
        <5> QED BY <4>1, <5>1, <5>2 DEF HInv, Ordered, Latest
      <4> QED BY <1>2, <1>s, <3>2, <4>2, <4>3 DEF ResolveSession
    <3> QED BY <3>1, <3>2
  <2> QED BY <1>2, <2>1, <2>2, SameQuestion DEF ResolveSession
<1>3. ASSUME NEW t \in Turns, NEW s \in Sessions, CreateMissing(t, s)
      PROVE  into'[x] \in Sessions /\ \E j \in DOMAIN log'[into'[x]] :
               log'[into'[x]][j] = [turn |-> x, role |-> "user"]
  <2>1. x \notin disturbed /\ Between(x)
    BY <1>3, <1>s DEF CreateMissing, InsertSession, GoTo
  <2>2. x # t
    <3> SUFFICES ASSUME x = t PROVE FALSE
      OBVIOUS
    <3>1. into[t] \in Sessions
      BY <2>1 DEF HInv, HoldsQuestion
    <3>2. asked[t] = NoSession /\ at[t] = "create" /\ owner[into[t]] = user[t] /\ user[t] \in Users
      BY <1>3, <1>t, <3>1 DEF TurnsInStep, HTypeOK, CreateMissing
    <3>3. into[t] # s
      BY <1>3, <3>2, NoUserAssumption DEF CreateMissing, InsertSession, Exists
    <3> QED BY <1>3, <3>1, <3>2, <3>3 DEF CreateMissing, InsertSession, Overtaken
  <2>3. into'[x] = into[x]
    BY <1>3, <1>s, <2>2 DEF CreateMissing
  <2> QED BY <1>3, <2>1, <2>3, SameQuestion DEF CreateMissing, InsertSession
<1>4. ASSUME NEW t \in Turns, SessionNotFound(t)
      PROVE  into'[x] \in Sessions /\ \E j \in DOMAIN log'[into'[x]] :
               log'[into'[x]][j] = [turn |-> x, role |-> "user"]
  <2>1. x \notin disturbed /\ Between(x)
    BY <1>4, <1>s DEF SessionNotFound, GoTo
  <2> QED BY <1>4, <2>1, SameQuestion DEF SessionNotFound, GoTo
<1>5. ASSUME NEW t \in Turns, FindNone(t)
      PROVE  into'[x] \in Sessions /\ \E j \in DOMAIN log'[into'[x]] :
               log'[into'[x]][j] = [turn |-> x, role |-> "user"]
  <2>1. x \notin disturbed /\ Between(x)
    BY <1>5, <1>s DEF FindNone, GoTo
  <2> QED BY <1>5, <2>1, SameQuestion DEF FindNone, GoTo
<1>6. ASSUME NEW t \in Turns, SaveMessage(t)
      PROVE  into'[x] \in Sessions /\ \E j \in DOMAIN log'[into'[x]] :
               log'[into'[x]][j] = [turn |-> x, role |-> "user"]
  <2>1. x \notin disturbed /\ into' = into /\ at[t] = "insert"
    BY <1>6 DEF SaveMessage
  <2>2. into[t] \in Sessions /\ log \in [Sessions -> Seq(Messages)]
    BY <1>t, <2>1 DEF HTypeOK
  <2>l. log' = [log EXCEPT ![into[t]] = Append(log[into[t]], [turn |-> t, role |-> role[t]])]
    BY <1>6 DEF SaveMessage
  <2>3. CASE x = t /\ role[t] = "user"
    <3>1. log'[into[t]] = Append(log[into[t]], [turn |-> t, role |-> "user"])
      BY <2>2, <2>3, <2>l
    <3>2. log[into[t]] \in Seq(Messages)
      BY <2>2
    <3>3. /\ Len(log[into[t]]) + 1 \in DOMAIN log'[into[t]]
          /\ log'[into[t]][Len(log[into[t]]) + 1] = [turn |-> t, role |-> "user"]
      BY <3>1, <3>2, AppendProperties DEF Messages, Roles
    <3> QED BY <2>1, <2>2, <2>3, <3>3
  <2>4. CASE ~(x = t /\ role[t] = "user")
    <3>1. Between(x)
      BY <1>6, <1>s, <2>4 DEF SaveMessage, GoTo, Roles
    <3>2. into[x] \in Sessions /\ \E j \in DOMAIN log[into[x]] :
            log[into[x]][j] = [turn |-> x, role |-> "user"]
      BY <2>1, <3>1 DEF HInv, HoldsQuestion, HasQuestion, Asks
    <3>3. PICK j \in DOMAIN log[into[x]] : log[into[x]][j] = [turn |-> x, role |-> "user"]
      BY <3>2
    <3>4. log[into[x]] \in Seq(Messages) /\ [turn |-> t, role |-> role[t]] \in Messages
      BY <1>s, <2>2, <3>2 DEF Messages
    <3>5. log'[into[x]] \in {log[into[x]], Append(log[into[x]], [turn |-> t, role |-> role[t]])}
      BY <2>2, <2>l, <3>2
    <3>6. j \in DOMAIN log'[into[x]] /\ log'[into[x]][j] = log[into[x]][j]
      BY <3>4, <3>5, AppendProperties
    <3> QED BY <2>1, <3>2, <3>3, <3>6
  <2> QED BY <2>3, <2>4
<1>7. ASSUME NEW t \in Turns, BumpSession(t)
      PROVE  into'[x] \in Sessions /\ \E j \in DOMAIN log'[into'[x]] :
               log'[into'[x]][j] = [turn |-> x, role |-> "user"]
  <2>1. x \notin disturbed /\ Between(x)
    BY <1>7, <1>s DEF BumpSession, AfterSave, GoTo
  <2> QED BY <1>7, <2>1, SameQuestion DEF BumpSession, AfterSave, GoTo
<1>8. ASSUME NEW t \in Turns, SaveFails(t)
      PROVE  into'[x] \in Sessions /\ \E j \in DOMAIN log'[into'[x]] :
               log'[into'[x]][j] = [turn |-> x, role |-> "user"]
  <2>1. x \notin disturbed /\ Between(x)
    BY <1>8, <1>s DEF SaveFails, AfterSave, GoTo
  <2> QED BY <1>8, <2>1, SameQuestion DEF SaveFails, AfterSave, GoTo
<1>9. ASSUME NEW t \in Turns, StreamDone(t)
      PROVE  into'[x] \in Sessions /\ \E j \in DOMAIN log'[into'[x]] :
               log'[into'[x]][j] = [turn |-> x, role |-> "user"]
  <2>1. x \notin disturbed /\ Between(x)
    BY <1>9, <1>s, <1>t DEF StreamDone, GoTo
  <2> QED BY <1>9, <2>1, SameQuestion DEF StreamDone, GoTo
<1>10. ASSUME NEW t \in Turns, Cut(t)
      PROVE  into'[x] \in Sessions /\ \E j \in DOMAIN log'[into'[x]] :
               log'[into'[x]][j] = [turn |-> x, role |-> "user"]
  <2>1. x \notin disturbed /\ Between(x)
    BY <1>10, <1>s DEF Cut, GoTo
  <2> QED BY <1>10, <2>1, SameQuestion DEF Cut, GoTo
<1>11. ASSUME NEW t \in Turns, Break(t)
      PROVE  into'[x] \in Sessions /\ \E j \in DOMAIN log'[into'[x]] :
               log'[into'[x]][j] = [turn |-> x, role |-> "user"]
  <2>1. x \notin disturbed /\ Between(x)
    BY <1>11, <1>s DEF Break, GoTo
  <2> QED BY <1>11, <2>1, SameQuestion DEF Break, GoTo
<1>12. ASSUME NEW u \in Users, NEW s \in Sessions, ClearSelect(u, s)
      PROVE  into'[x] \in Sessions /\ \E j \in DOMAIN log'[into'[x]] :
               log'[into'[x]][j] = [turn |-> x, role |-> "user"]
  <2>1. x \notin disturbed /\ Between(x)
    BY <1>12, <1>s DEF ClearSelect
  <2> QED BY <1>12, <2>1, SameQuestion DEF ClearSelect
<1>13. ASSUME NEW u \in Users, ClearDelete(u)
      PROVE  into'[x] \in Sessions /\ \E j \in DOMAIN log'[into'[x]] :
               log'[into'[x]][j] = [turn |-> x, role |-> "user"]
  <2>1. x \notin disturbed /\ Between(x) /\ into' = into
    BY <1>13 DEF ClearDelete
  <2>2. into[x] \in Sessions /\ \E j \in DOMAIN log[into[x]] :
          log[into[x]][j] = [turn |-> x, role |-> "user"]
    BY <2>1 DEF HInv, HoldsQuestion, HasQuestion, Asks
  <2>3. into[x] # clearing[u]
    BY <1>13, <2>2 DEF ClearDelete
  <2>4. log'[into[x]] = log[into[x]]
    BY <1>13, <1>t, <2>2, <2>3 DEF ClearDelete, HTypeOK
  <2> QED BY <2>1, <2>4, SameQuestion
<1>14. ASSUME NEW u \in Users, NEW s \in Sessions, CreateSession(u, s)
      PROVE  into'[x] \in Sessions /\ \E j \in DOMAIN log'[into'[x]] :
               log'[into'[x]][j] = [turn |-> x, role |-> "user"]
  <2>1. x \notin disturbed /\ Between(x)
    BY <1>14, <1>s DEF CreateSession, InsertSession
  <2> QED BY <1>14, <2>1, SameQuestion DEF CreateSession, InsertSession
<1> QED BY <1>1, <1>2, <1>3, <1>4, <1>5, <1>6, <1>7, <1>8, <1>9, <1>10, <1>11,
     <1>12, <1>13, <1>14
     DEF HNext, SaveStep, OtherRequest

\* An answer is written after its question.
LEMMA AnswersStep ==
  ASSUME HInv, HNext
  PROVE  AnswersFollowQuestions'
<1> USE DEF HInv, HTypeOK, HoldsQuestion, Between, HasQuestion,
     AnswersFollowQuestions, Asks, Saving, Roles, Messages, tables, turns
<1>1. ASSUME NEW t \in Turns, NEW u \in Users, NEW s \in Sessions \cup {NoSession},
     Start(t, u, s) PROVE AnswersFollowQuestions'
  BY <1>1 DEF Start, GoTo
<1>2. ASSUME NEW t \in Turns, NEW s \in Sessions, ResolveSession(t, s)
     PROVE AnswersFollowQuestions'
  BY <1>2 DEF ResolveSession, GoTo, Allowed
<1>3. ASSUME NEW t \in Turns, NEW s \in Sessions, CreateMissing(t, s)
     PROVE AnswersFollowQuestions'
  BY <1>3 DEF CreateMissing, GoTo, InsertSession
<1>4. ASSUME NEW t \in Turns, SessionNotFound(t) PROVE AnswersFollowQuestions'
  BY <1>4 DEF SessionNotFound, GoTo
<1>5. ASSUME NEW t \in Turns, FindNone(t) PROVE AnswersFollowQuestions'
  BY <1>5 DEF FindNone, GoTo
<1>6. ASSUME NEW t \in Turns, SaveMessage(t) PROVE AnswersFollowQuestions'
  <2>1. into[t] \in Sessions /\ log[into[t]] \in Seq(Messages) /\ at[t] = "insert"
    BY <1>6 DEF SaveMessage
  <2>2. /\ log' = [log EXCEPT ![into[t]] = Append(log[into[t]], [turn |-> t, role |-> role[t]])]
        /\ disturbed' = disturbed
        /\ [turn |-> t, role |-> role[t]] \in Messages
    BY <1>6 DEF SaveMessage
  <2> SUFFICES ASSUME NEW s \in Sessions, NEW i \in DOMAIN log'[s],
                      log'[s][i].role = "assistant", log'[s][i].turn \notin disturbed
               PROVE  \E j \in DOMAIN log'[s] :
                        j < i /\ log'[s][j] = [turn |-> log'[s][i].turn, role |-> "user"]
    BY <2>2
  <2>3. CASE s # into[t]
    <3>1. log'[s] = log[s]
      BY <2>2, <2>3
    <3> QED BY <3>1
  <2>4. CASE s = into[t]
    <3> DEFINE old == log[s]
               new == [turn |-> t, role |-> role[t]]
    <3>1. log'[s] = Append(old, new)
      BY <2>1, <2>2, <2>4
    <3>2. /\ old \in Seq(Messages)
          /\ DOMAIN old = 1..Len(old) /\ DOMAIN log'[s] = 1..(Len(old) + 1) /\ Len(old) \in Nat
          /\ log'[s][Len(old) + 1] = new
          /\ \A k \in 1..Len(old) : log'[s][k] = old[k]
      BY <2>1, <2>2, <2>4, <3>1, AppendProperties
    <3>3. CASE i = Len(old) + 1
      <4>1. role[t] = "assistant" /\ log'[s][i].turn = t /\ t \notin disturbed
        BY <3>2, <3>3
      <4>2. \E j \in DOMAIN old : old[j] = [turn |-> t, role |-> "user"]
        BY <2>1, <2>4, <4>1
      <4>3. PICK j \in DOMAIN old : old[j] = [turn |-> t, role |-> "user"]
        BY <4>2
      <4>4. j \in DOMAIN log'[s] /\ j < i /\ log'[s][j] = [turn |-> t, role |-> "user"]
        BY <3>2, <3>3, <4>3
      <4> QED BY <4>1, <4>4
    <3>4. CASE i \in 1..Len(old)
      <4>1. log'[s][i] = old[i]
        BY <3>2, <3>4
      <4>2. \E j \in DOMAIN old : j < i /\ old[j] = [turn |-> old[i].turn, role |-> "user"]
        BY <3>2, <3>4, <4>1
      <4> QED BY <3>2, <4>1, <4>2
    <3> QED BY <3>2, <3>3, <3>4
  <2> QED BY <2>3, <2>4
<1>7. ASSUME NEW t \in Turns, BumpSession(t) PROVE AnswersFollowQuestions'
  BY <1>7 DEF BumpSession, AfterSave, GoTo
<1>8. ASSUME NEW t \in Turns, SaveFails(t) PROVE AnswersFollowQuestions'
  BY <1>8 DEF SaveFails, AfterSave, GoTo, Saving
<1>9. ASSUME NEW t \in Turns, StreamDone(t) PROVE AnswersFollowQuestions'
  BY <1>9 DEF StreamDone, GoTo
<1>10. ASSUME NEW t \in Turns, Cut(t) PROVE AnswersFollowQuestions'
  BY <1>10 DEF Cut, GoTo
<1>11. ASSUME NEW t \in Turns, Break(t) PROVE AnswersFollowQuestions'
  BY <1>11 DEF Break, GoTo
<1>12. ASSUME NEW u \in Users, NEW s \in Sessions, ClearSelect(u, s)
     PROVE AnswersFollowQuestions'
  BY <1>12 DEF ClearSelect, Latest, Owned
<1>13. ASSUME NEW u \in Users, ClearDelete(u) PROVE AnswersFollowQuestions'
  BY <1>13 DEF ClearDelete
<1>14. ASSUME NEW u \in Users, NEW s \in Sessions, CreateSession(u, s)
     PROVE AnswersFollowQuestions'
  BY <1>14 DEF CreateSession, InsertSession
<1> QED BY <1>1, <1>2, <1>3, <1>4, <1>5, <1>6, <1>7, <1>8, <1>9, <1>10, <1>11,
     <1>12, <1>13, <1>14
     DEF HNext, SaveStep, OtherRequest

\* No save inserts a session for a settled user.
LEMMA FirstSessionStep ==
  ASSUME HInv, NEW w \in Users, Settled(w), HNext
  PROVE  (Settled(w)' /\ implicit' \cap Owned(w)' = implicit \cap Owned(w))
<1> USE NoUserAssumption, NoSessionAssumption DEF HInv, HTypeOK, Written, Settled,
     Owned, Exists, NoSessionYet, tables, turns
<1>1. ASSUME NEW t \in Turns, NEW u \in Users, NEW s \in Sessions \cup {NoSession},
     Start(t, u, s)
     PROVE (Settled(w)' /\ implicit' \cap Owned(w)' = implicit \cap Owned(w))
  BY <1>1 DEF Start, GoTo
<1>2. ASSUME NEW t \in Turns, NEW s \in Sessions, ResolveSession(t, s)
     PROVE (Settled(w)' /\ implicit' \cap Owned(w)' = implicit \cap Owned(w))
  BY <1>2 DEF ResolveSession, GoTo, Allowed
<1>3. ASSUME NEW t \in Turns, NEW s \in Sessions, CreateMissing(t, s)
     PROVE (Settled(w)' /\ implicit' \cap Owned(w)' = implicit \cap Owned(w))
  BY <1>3 DEF CreateMissing, GoTo, InsertSession
<1>4. ASSUME NEW t \in Turns, SessionNotFound(t)
     PROVE (Settled(w)' /\ implicit' \cap Owned(w)' = implicit \cap Owned(w))
  BY <1>4 DEF SessionNotFound, GoTo
<1>5. ASSUME NEW t \in Turns, FindNone(t)
     PROVE (Settled(w)' /\ implicit' \cap Owned(w)' = implicit \cap Owned(w))
  BY <1>5 DEF FindNone, GoTo
<1>6. ASSUME NEW t \in Turns, SaveMessage(t)
     PROVE (Settled(w)' /\ implicit' \cap Owned(w)' = implicit \cap Owned(w))
  BY <1>6 DEF SaveMessage, GoTo
<1>7. ASSUME NEW t \in Turns, BumpSession(t)
     PROVE (Settled(w)' /\ implicit' \cap Owned(w)' = implicit \cap Owned(w))
  BY <1>7 DEF BumpSession, AfterSave, GoTo
<1>8. ASSUME NEW t \in Turns, SaveFails(t)
     PROVE (Settled(w)' /\ implicit' \cap Owned(w)' = implicit \cap Owned(w))
  BY <1>8 DEF SaveFails, AfterSave, GoTo, Saving
<1>9. ASSUME NEW t \in Turns, StreamDone(t)
     PROVE (Settled(w)' /\ implicit' \cap Owned(w)' = implicit \cap Owned(w))
  BY <1>9 DEF StreamDone, GoTo
<1>10. ASSUME NEW t \in Turns, Cut(t)
     PROVE (Settled(w)' /\ implicit' \cap Owned(w)' = implicit \cap Owned(w))
  BY <1>10 DEF Cut, GoTo
<1>11. ASSUME NEW t \in Turns, Break(t)
     PROVE (Settled(w)' /\ implicit' \cap Owned(w)' = implicit \cap Owned(w))
  BY <1>11 DEF Break, GoTo
<1>12. ASSUME NEW u \in Users, NEW s \in Sessions, ClearSelect(u, s)
     PROVE (Settled(w)' /\ implicit' \cap Owned(w)' = implicit \cap Owned(w))
  BY <1>12 DEF ClearSelect, Latest, Owned
<1>13. ASSUME NEW u \in Users, ClearDelete(u)
     PROVE (Settled(w)' /\ implicit' \cap Owned(w)' = implicit \cap Owned(w))
  BY <1>13 DEF ClearDelete
<1>14. ASSUME NEW u \in Users, NEW s \in Sessions, CreateSession(u, s)
     PROVE (Settled(w)' /\ implicit' \cap Owned(w)' = implicit \cap Owned(w))
  BY <1>14 DEF CreateSession, InsertSession
<1> QED BY <1>1, <1>2, <1>3, <1>4, <1>5, <1>6, <1>7, <1>8, <1>9, <1>10, <1>11,
     <1>12, <1>13, <1>14
     DEF HNext, SaveStep, OtherRequest

LEMMA HInvInductive == HInv /\ [HNext]_hvars => HInv'
<1> SUFFICES ASSUME HInv, [HNext]_hvars PROVE HInv'
  OBVIOUS
<1>1. CASE HNext
  BY <1>1, TypeStep, TurnsStep, WrittenStep, OrderStep, NewestStep, QuestionStep,
       AnswersStep
     DEF HInv
<1>2. CASE UNCHANGED hvars
  BY <1>2 DEF HInv, hvars, tables, turns, HTypeOK, TurnsInStep, Written, Exists,
       Ordered,
     StaysNewest, Latest, Owned, HoldsQuestion, Between, HasQuestion, Asks,
     AnswersFollowQuestions
<1> QED BY <1>1, <1>2

\* The invariant holds in every state.
LEMMA HInvHolds == HSpec => []HInv
BY HInitInv, HInvInductive, PTL DEF HSpec

-----------------------------------------------------------------------------
\* Turns, sessions and messages keep their types; in particular a message is
\* only inserted after its session has been resolved.
THEOREM HTypeCorrect == HSpec => []HTypeOK
<1>1. HInv => HTypeOK
  BY DEF HInv
<1> QED BY <1>1, HInvHolds, PTL

\* An answer stands after its question in the same session, whatever other
\* turns do, unless something came between the two.
THEOREM AnswersAreFound == HSpec => []AnswersFollowQuestions
<1>1. HInv => AnswersFollowQuestions
  BY DEF HInv
<1> QED BY <1>1, HInvHolds, PTL

\* No message is ever in a session of another user.
THEOREM SessionsAreOwn == HSpec => []MessagesInOwnSessions
<1>1. HInv => MessagesInOwnSessions
  BY DEF HInv, Written, MessagesInOwnSessions
<1> QED BY <1>1, HInvHolds, PTL

\* Once a user has a session and no save is inserting one, no save ever does.
THEOREM FirstSessionsEnd == HSpec => NoMoreFirstSessions
<1>1. HInv /\ [HNext]_hvars
        => [\A u \in Users : Settled(u) =>
              Settled(u)' /\ implicit' \cap Owned(u)' = implicit \cap Owned(u)]_hvars
  BY FirstSessionStep
<1> QED BY <1>1, HInvHolds, PTL DEF HSpec, NoMoreFirstSessions

-----------------------------------------------------------------------------
\* The refinement of Conversations.

\* A turn that has not begun has no user, and no session it could have.
NotBegun == \A t \in Turns : at[t] = "new" => user[t] = NoUser

Question(t) == [turn |-> t, role |-> "user"]
Answer(t) == [turn |-> t, role |-> "assistant"]
Spent == {m \in Messages : Past(m)}

\* A step of turn t gives no message of another turn its chance.
LEMMA SpentStep ==
  ASSUME NEW t \in Turns,
         \A x \in Turns \ {t} : at'[x] = at[x] /\ role'[x] = role[x],
         NEW M \in SUBSET {Question(t), Answer(t)},
         \A m \in {Question(t), Answer(t)} : Past(m)' <=> Past(m) \/ m \in M
  PROVE  Spent' = Spent \cup M
<1>1. ASSUME NEW m \in Messages
      PROVE  Past(m)' <=> Past(m) \/ m \in M
  <2>1. m.turn \in Turns /\ m.role \in Roles /\ m = [turn |-> m.turn, role |-> m.role]
    BY DEF Messages
  <2>2. CASE m.turn = t
    BY <2>1, <2>2 DEF Roles, Question, Answer
  <2>3. CASE m.turn # t
    <3>1. m \notin M
      BY <2>3 DEF Question, Answer
    <3> QED BY <2>1, <2>3, <3>1 DEF Past
  <2> QED BY <2>2, <2>3
<1>2. M \subseteq Messages
  BY DEF Messages, Roles, Question, Answer
<1> QED BY <1>1, <1>2 DEF Spent

\* What one step of turn t does to its two messages.
LEMMA MovePast ==
  ASSUME HTypeOK, TurnsInStep, NEW t \in Turns, NEW step \in Steps, GoTo(t, step),
         NEW r \in Roles, role' = [role EXCEPT ![t] = r]
  PROVE  /\ \A x \in Turns \ {t} : at'[x] = at[x] /\ role'[x] = role[x]
         /\ Past(Question(t)) <=>
              at[t] \in {"bump", "stream", "over"} \/ role[t] = "assistant"
         /\ Past(Answer(t)) <=> at[t] = "over" \/ (role[t] = "assistant" /\ at[t] = "bump")
         /\ Past(Question(t))' <=> step \in {"bump", "stream", "over"} \/ r = "assistant"
         /\ Past(Answer(t))' <=>
              step = "over" \/ (r = "assistant" /\ step \in {"bump", "stream"})
<1>1. /\ at'[t] = step /\ role'[t] = r
      /\ \A x \in Turns \ {t} : at'[x] = at[x] /\ role'[x] = role[x]
  BY DEF HTypeOK, GoTo
<1>2. role[t] \in Roles /\ (at[t] = "stream" => role[t] = "user")
  BY DEF HTypeOK, TurnsInStep
<1> QED BY <1>1, <1>2 DEF Past, Question, Answer, Roles

LEMMA SameRole ==
  ASSUME HTypeOK, NEW t \in Turns, UNCHANGED role
  PROVE  role[t] \in Roles /\ role' = [role EXCEPT ![t] = role[t]]
BY DEF HTypeOK

LEMMA SameSpent ==
  ASSUME UNCHANGED <<at, role>>
  PROVE  Spent' = Spent
BY DEF Spent, Past

\* A turn that goes on before a message of it is written.
LEMMA SavingTalks ==
  ASSUME HTypeOK, TurnsInStep, NEW t \in Turns,
         \/ SessionNotFound(t) \/ FindNone(t) \/ BumpSession(t) \/ SaveFails(t)
         \/ StreamDone(t) \/ Cut(t) \/ Break(t)
         \/ \E s \in Sessions : ResolveSession(t, s)
  PROVE  [Talk!Next]_(Talk!vars)
<1>0. UNCHANGED <<owner, log, user>>
  BY DEF SessionNotFound, FindNone, BumpSession, SaveFails, StreamDone, Cut, Break,
         ResolveSession, tables
<1>1. PICK step \in Steps, r \in Roles :
        /\ GoTo(t, step) /\ role' = [role EXCEPT ![t] = r]
        /\ \/ r = role[t] /\ at[t] \in Saving \cup {"stream"} /\ step = "over"
           \/ r = role[t] /\ at[t] = "resolve" /\ step \in {"create", "insert"}
           \/ r = role[t] /\ r = "user" /\ at[t] \in Saving /\ step = "stream"
           \/ r = "assistant" /\ at[t] = "stream" /\ step = "resolve"
  <2>1. role[t] \in Roles /\ at[t] \in Steps
    BY DEF HTypeOK
  <2>2. CASE StreamDone(t)
    BY <2>2 DEF StreamDone, Steps, Roles
  <2>3. CASE ~StreamDone(t)
    <3>1. role' = [role EXCEPT ![t] = role[t]]
      BY <2>3, SameRole DEF SessionNotFound, FindNone, BumpSession, SaveFails, Cut, Break,
         ResolveSession
    <3>2. CASE SessionNotFound(t) \/ Cut(t) \/ Break(t)
      BY <2>1, <3>1, <3>2 DEF SessionNotFound, Cut, Break, Saving, Steps
    <3>3. CASE FindNone(t) \/ \E s \in Sessions : ResolveSession(t, s)
      BY <2>1, <3>1, <3>3 DEF FindNone, ResolveSession, Steps
    <3>4. CASE BumpSession(t) \/ SaveFails(t)
      BY <2>1, <3>1, <3>4 DEF BumpSession, SaveFails, AfterSave, Saving, Steps, Roles
    <3> QED BY <2>3, <3>2, <3>3, <3>4
  <2> QED BY <2>2, <2>3
<1>2. /\ \A x \in Turns \ {t} : at'[x] = at[x] /\ role'[x] = role[x]
      /\ Past(Question(t)) <=>
           at[t] \in {"bump", "stream", "over"} \/ role[t] = "assistant"
      /\ Past(Answer(t)) <=> at[t] = "over" \/ (role[t] = "assistant" /\ at[t] = "bump")
      /\ Past(Question(t))' <=> step \in {"bump", "stream", "over"} \/ r = "assistant"
      /\ Past(Answer(t))' <=>
           step = "over" \/ (r = "assistant" /\ step \in {"bump", "stream"})
  BY <1>1, MovePast
<1>3. \E M \in {{}, {Question(t)}, {Question(t), Answer(t)}} : Spent' = Spent \cup M
  <2>1. CASE step = "over"
    <3>1. \A m \in {Question(t), Answer(t)} : Past(m)'
      BY <1>2, <2>1
    <3>2. Spent' = Spent \cup {Question(t), Answer(t)}
      BY <1>2, <3>1, SpentStep
    <3> QED BY <3>2
  <2>2. CASE step = "stream"
    <3>1. Past(Question(t))' /\ ~Past(Answer(t))' /\ ~Past(Answer(t)) /\ Question(t) # Answer(t)
      BY <1>1, <1>2, <2>2 DEF Saving, Question, Answer
    <3>2. Spent' = Spent \cup {Question(t)}
      BY <1>2, <3>1, SpentStep
    <3> QED BY <3>2
  <2>3. CASE step \notin {"over", "stream"}
    <3>1. /\ Past(Question(t))' <=> Past(Question(t))
          /\ Past(Answer(t))' <=> Past(Answer(t))
      <4>1. CASE r = role[t] /\ at[t] = "resolve" /\ step \in {"create", "insert"}
        BY <1>2, <4>1
      <4>2. CASE r = "assistant" /\ at[t] = "stream" /\ step = "resolve"
        BY <1>2, <4>2
      <4> QED BY <1>1, <2>3, <4>1, <4>2
    <3>2. \A m \in {Question(t), Answer(t)} : Past(m)' <=> Past(m) \/ m \in {}
      BY <3>1
    <3>3. Spent' = Spent \cup {}
      BY <1>2, <3>2, SpentStep
    <3> QED BY <3>3
  <2> QED BY <2>1, <2>2, <2>3
<1>4. CASE Spent' = Spent
  BY <1>0, <1>4 DEF Talk!vars, Spent
<1>5. CASE \E M \in {{Question(t)}, {Question(t), Answer(t)}} : Spent' = Spent \cup M
  <2>1. Talk!Miss(t)
    BY <1>0, <1>5 DEF Talk!Miss, Talk!Question, Talk!Answer, Question, Answer, Spent
  <2> QED BY <2>1 DEF Talk!Next
<1> QED BY <1>3, <1>4, <1>5

\* The INSERT of a message is its one chance.
LEMMA SaveMessageTalks ==
  ASSUME HTypeOK, TurnsInStep, NEW t \in Turns, SaveMessage(t)
  PROVE  Talk!Next
<1> DEFINE s == into[t]
           m == [turn |-> t, role |-> role[t]]
<1>1. /\ s \in Sessions /\ owner[s] = user[t] /\ user[t] \in Users /\ user[t] # NoUser
      /\ role[t] \in Roles /\ at[t] = "insert"
  BY NoSessionAssumption, NoUserAssumption DEF SaveMessage, HTypeOK, TurnsInStep
<1>2. /\ \A x \in Turns \ {t} : at'[x] = at[x] /\ role'[x] = role[x]
      /\ Past(Question(t)) <=> role[t] = "assistant"
      /\ ~Past(Answer(t))
      /\ Past(Question(t))'
      /\ Past(Answer(t))' <=> role[t] = "assistant"
  BY <1>1, MovePast, SameRole DEF SaveMessage, Steps
<1>3. m \in {Question(t), Answer(t)} /\ (m = Answer(t) <=> role[t] = "assistant")
  BY <1>1 DEF Roles, Question, Answer
<1>4. Spent' = Spent \cup {m}
  BY <1>2, <1>3, SpentStep DEF Question, Answer
<1>5. m \notin Spent /\ (m = Answer(t) => Question(t) \in Spent)
  BY <1>1, <1>2, <1>3 DEF Spent, Messages, Roles, Question, Answer
<1>6. Talk!Write(s, t, m)
  BY <1>1, <1>4, <1>5 DEF SaveMessage, Talk!Write, Talk!Question, Talk!Answer, Spent,
                          Question, Answer
<1> QED BY <1>1, <1>3, <1>6 DEF Talk!Next, Talk!Question, Talk!Answer, Question, Answer

\* A new session, asked for or not.
LEMMA InsertTalks ==
  ASSUME NEW s \in Sessions, NEW u \in Users, InsertSession(s, u), UNCHANGED user,
         Spent' = Spent
  PROVE  Talk!Next
<1>1. Talk!Open(s, u)
  BY DEF InsertSession, Exists, Talk!Open, Spent
<1> QED BY <1>1 DEF Talk!Next

LEMMA NextTalks == HInv /\ NotBegun /\ [HNext]_hvars => [Talk!Next]_(Talk!vars)
<1> SUFFICES ASSUME HInv, NotBegun, [HNext]_hvars PROVE [Talk!Next]_(Talk!vars)
  OBVIOUS
<1>t. HTypeOK /\ TurnsInStep
  BY DEF HInv
<1>1. ASSUME NEW t \in Turns, NEW u \in Users, NEW s \in Sessions \cup {NoSession},
             Start(t, u, s)
      PROVE  Talk!Next
  <2>1. role[t] = "user" /\ at[t] = "new" /\ user[t] = NoUser
    BY <1>1, <1>t DEF Start, TurnsInStep, NotBegun
  <2>2. Spent' = Spent \cup {}
    <3>1. /\ \A x \in Turns \ {t} : at'[x] = at[x] /\ role'[x] = role[x]
          /\ ~Past(Question(t)) /\ ~Past(Answer(t))
          /\ ~Past(Question(t))' /\ ~Past(Answer(t))'
      BY <1>1, <1>t, <2>1, MovePast, SameRole DEF Start, Steps
    <3> QED BY <3>1, SpentStep
  <2>3. Talk!Begin(t, u)
    BY <1>1, <2>1, <2>2 DEF Start, tables, Talk!Begin, Spent
  <2> QED BY <2>3 DEF Talk!Next
<1>2. ASSUME NEW t \in Turns, NEW s \in Sessions, CreateMissing(t, s)
      PROVE  Talk!Next
  <2>1. at[t] = "create" /\ user[t] \in Users
    BY <1>2, <1>t DEF CreateMissing, HTypeOK
  <2>2. Spent' = Spent \cup {}
    <3>1. /\ \A x \in Turns \ {t} : at'[x] = at[x] /\ role'[x] = role[x]
          /\ Past(Question(t))' <=> Past(Question(t))
          /\ Past(Answer(t))' <=> Past(Answer(t))
      BY <1>2, <1>t, <2>1, MovePast, SameRole DEF CreateMissing, Steps
    <3> QED BY <3>1, SpentStep
  <2> QED BY <1>2, <2>1, <2>2, InsertTalks DEF CreateMissing
<1>3. ASSUME NEW u \in Users, NEW s \in Sessions, CreateSession(u, s)
      PROVE  Talk!Next
  BY <1>3, SameSpent, InsertTalks DEF CreateSession, turns
<1>4. ASSUME NEW u \in Users, ClearDelete(u)
      PROVE  Talk!Next
  <2>1. clearing[u] \in Sessions /\ Spent' = Spent
    BY <1>4, <1>t, SameSpent DEF ClearDelete, HTypeOK, turns
  <2>2. Talk!Clear(clearing[u])
    BY <1>4, <2>1 DEF ClearDelete, turns, Talk!Clear, Spent
  <2> QED BY <2>1, <2>2 DEF Talk!Next
<1>5. ASSUME UNCHANGED <<owner, log, at, role, user>>
      PROVE  UNCHANGED Talk!vars
  BY <1>5, SameSpent DEF Talk!vars, Spent
<1>6. ASSUME NEW u \in Users, NEW s \in Sessions, ClearSelect(u, s)
      PROVE  UNCHANGED Talk!vars
  BY <1>5, <1>6 DEF ClearSelect, tables, turns
<1>7. CASE UNCHANGED hvars
  BY <1>5, <1>7 DEF hvars, tables, turns
<1> QED BY <1>t, <1>1, <1>2, <1>3, <1>4, <1>6, <1>7, SavingTalks, SaveMessageTalks
        DEF HNext, SaveStep, OtherRequest

LEMMA NotBegunStep == HTypeOK /\ NotBegun /\ [HNext]_hvars => NotBegun'
<1> SUFFICES ASSUME HTypeOK, NotBegun, [HNext]_hvars PROVE NotBegun'
  OBVIOUS
<1> USE DEF NotBegun, HTypeOK, GoTo, AfterSave, Steps
<1>1. ASSUME NEW t \in Turns, NEW u \in Users, NEW s \in Sessions \cup {NoSession},
             Start(t, u, s)
      PROVE  NotBegun'
  BY <1>1 DEF Start
<1>2. ASSUME NEW t \in Turns, SaveStep(t) \/ StreamDone(t) \/ Cut(t) \/ Break(t)
      PROVE  NotBegun'
  BY <1>2 DEF SaveStep, ResolveSession, CreateMissing, SessionNotFound, FindNone, SaveMessage,
              BumpSession, SaveFails, StreamDone, Cut, Break
<1>3. CASE OtherRequest \/ UNCHANGED hvars
  BY <1>3 DEF OtherRequest, ClearDelete, ClearSelect, CreateSession, hvars, turns
<1> QED BY <1>1, <1>2, <1>3 DEF HNext

\* services/chat implements Conversations: what becomes of a message is the
\* position of its turn, which passes each of the two INSERTs once.
THEOREM ChatsAreConversations == HSpec => ImplementsConversations
<1>1. HInit => Talk!Init /\ NotBegun
  <2> SUFFICES ASSUME HInit PROVE Talk!Init /\ NotBegun
    OBVIOUS
  <2>1. \A m \in Messages : m.turn \in Turns
    BY DEF Messages
  <2>2. \A m \in Messages : ~Past(m)
    BY <2>1 DEF HInit, Past
  <2> QED BY <2>2 DEF HInit, Talk!Init, NotBegun
<1>2. HInv => HTypeOK
  BY DEF HInv
<1>3. HInv /\ NotBegun /\ [HNext]_hvars => NotBegun' /\ [Talk!Next]_(Talk!vars)
  BY <1>2, NotBegunStep, NextTalks
<1> QED BY <1>1, <1>3, HInvHolds, PTL DEF HSpec, ImplementsConversations, Talk!Spec

\* What stands in a session had its chance, and stands there once.
Once ==
  /\ \A s \in Sessions : \A i \in DOMAIN log[s] : log[s][i] \in Spent
  /\ Talk!WrittenOnce

LEMMA OnceStep ==
  ASSUME HTypeOK, Once, [Talk!Next]_(Talk!vars)
  PROVE  Once'
<1> USE DEF Once, Talk!WrittenOnce
<1>0. log \in [Sessions -> Seq(Messages)]
  BY DEF HTypeOK
<1>1. CASE log' = log /\ Spent \subseteq Spent'
  BY <1>1
<1>2. ASSUME NEW s \in Sessions, NEW t \in Turns, NEW m, m \in {Question(t), Answer(t)},
             Talk!Write(s, t, m)
      PROVE  Once'
  <2>1. /\ m \in Messages /\ m \notin Spent /\ Spent' = Spent \cup {m}
        /\ log' = [log EXCEPT ![s] = Append(log[s], m)]
    BY <1>2 DEF Talk!Write, Spent, Messages, Roles, Question, Answer
  <2>2. \A r \in Sessions \ {s} : log'[r] = log[r]
    BY <1>0, <2>1
  <2>3. /\ DOMAIN log'[s] = DOMAIN log[s] \cup {Len(log[s]) + 1}
        /\ Len(log[s]) + 1 \notin DOMAIN log[s]
        /\ log'[s][Len(log[s]) + 1] = m
        /\ \A i \in DOMAIN log[s] : log'[s][i] = log[s][i]
    <3>1. log'[s] = Append(log[s], m) /\ log[s] \in Seq(Messages)
      BY <1>0, <2>1
    <3> QED BY <2>1, <3>1, AppendProperties
  <2>4. ASSUME NEW r \in Sessions, NEW i \in DOMAIN log'[r]
        PROVE  \/ i \in DOMAIN log[r] /\ log'[r][i] = log[r][i] /\ log'[r][i] # m
               \/ r = s /\ i = Len(log[s]) + 1 /\ log'[r][i] = m
    BY <2>1, <2>2, <2>3
  <2>5. \A r \in Sessions : \A i \in DOMAIN log'[r] : log'[r][i] \in Spent'
    BY <2>1, <2>4
  <2>6. ASSUME NEW r \in Sessions, NEW q \in Sessions,
               NEW i \in DOMAIN log'[r], NEW j \in DOMAIN log'[q], log'[r][i] = log'[q][j]
        PROVE  r = q /\ i = j
    BY <2>4, <2>6
  <2> QED BY <2>5, <2>6
<1>3. ASSUME NEW s \in Sessions, Talk!Clear(s)
      PROVE  Once'
  <2>1. /\ Spent' = Spent
        /\ \A r \in Sessions : log'[r] = IF r = s THEN <<>> ELSE log[r]
    BY <1>0, <1>3 DEF Talk!Clear, Spent
  <2> QED BY <2>1
<1>4. CASE UNCHANGED Talk!vars
  BY <1>1, <1>4 DEF Talk!vars, Spent
<1>5. ASSUME \/ \E t \in Turns, u \in Users : Talk!Begin(t, u)
             \/ \E s \in Sessions, u \in Users : Talk!Open(s, u)
             \/ \E t \in Turns : Talk!Miss(t)
      PROVE  Once'
  BY <1>1, <1>5 DEF Talk!Begin, Talk!Open, Talk!Miss, Spent
<1> HIDE DEF Once, Talk!WrittenOnce
<1>6. ASSUME NEW s \in Sessions, NEW t \in Turns,
             Talk!Write(s, t, Talk!Question(t)) \/ Talk!Write(s, t, Talk!Answer(t))
      PROVE  Once'
  <2>1. Talk!Write(s, t, Question(t)) \/ Talk!Write(s, t, Answer(t))
    BY <1>6 DEF Talk!Question, Talk!Answer, Question, Answer
  <2> QED BY <1>2, <2>1
<1> QED BY <1>3, <1>4, <1>5, <1>6 DEF Talk!Next

\* And so no message of services/chat stands twice or in two sessions: a save
\* whose second statement fails is not begun again, and a turn that has no
\* session in its request saves no message in both of two that were newest.
THEOREM MessagesStandOnce == HSpec => []Talk!WrittenOnce
<1>1. HInit => NotBegun /\ Once
  BY DEF HInit, NotBegun, Once, Talk!WrittenOnce
<1>2. HInv => HTypeOK
  BY DEF HInv
<1>3. HInv /\ NotBegun /\ Once /\ [HNext]_hvars => (NotBegun /\ Once)'
  BY <1>2, NotBegunStep, NextTalks, OnceStep
<1>4. Once => Talk!WrittenOnce
  BY DEF Once
<1> QED BY <1>1, <1>3, <1>4, HInvHolds, PTL DEF HSpec

=============================================================================
