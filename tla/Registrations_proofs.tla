------------------------ MODULE Registrations_proofs ------------------------
(***************************************************************************)
(* Theorems of Registrations, for any number of users, names and requests. *)
(* A step of Registrations is a step of UserSync or leaves its variables   *)
(* alone, as long as what an open approval has written keeps its name      *)
(* (NameHeld); what UserSync_proofs says of UserSync then holds here too.  *)
(***************************************************************************)
EXTENDS Registrations, UserSync_proofs

\* The row an open approval has inserted is the only one with its name.
NameHeld ==
  Inserted =>
    /\ \E u \in Users : ~Exists(row, u)
    /\ \A u \in Users : row[u].name # wanted[on]

\* Approvals are one at a time: nobody else approves the request.
NotApproved == Open => status[on] # "approved"

\* The transaction that is open to UserSync is that of the open approval.
OneTransaction == Open <=> begun["registered"] # 0

RInv == RTypeOK /\ OneUserPerRequest /\ NameHeld /\ NotApproved /\ OneTransaction

\* The user an approval would create is not there yet.
LEMMA NewUserIsAbsent ==
  ASSUME \E u \in Users : ~Exists(row, u)
  PROVE  NewUser \in Users /\ row[NewUser] = Absent
BY DEF NewUser, Exists

\* A row of the table is never the one of an absent user.
LEMMA RowsExist ==
  ASSUME NEW r \in Rows
  PROVE  r # Absent /\ r.name # NoName
BY NoNameAssumption DEF Rows, Absent

\* What the rows and the open transactions are, and that nothing else
\* changes them.
RowsTyped == /\ row \in [Users -> Rows \cup {Absent}]
             /\ begun \in [Kinds -> Ids \cup {0}]

LEMMA ElsewhereKeepsRows ==
  ASSUME Elsewhere
  PROVE  row' = row /\ begun' = begun /\ [Next]_vars
<1>1. ProcessorStep \/ AuthStep \/ Fault
  BY DEF Elsewhere
<1>2. row' = row /\ begun' = begun
  BY <1>1 DEF ProcessorStep, AuthStep, Fault, FetchBatch, EventStep, GiveUp, Publish,
              PublishError, Commit, HandleRegistered, HandleUpdated, Rollback, Stop,
              Start, HandlerFails, usersDB
<1> QED BY <1>1, <1>2 DEF Next

-----------------------------------------------------------------------------
\* Steps of registrations that leave UserSync alone.
LEMMA RequestStepsKeep ==
  ASSUME RInv,
         \/ \E q \in Requests, n \in Names : CreateRequest(q, n)
         \/ \E q \in Requests : Reject(q)
         \/ UpdateRequest
  PROVE  RInv' /\ UNCHANGED vars
<1> USE NoRequestAssumption DEF RInv, RTypeOK, OneUserPerRequest, NameHeld, NotApproved,
        OneTransaction, Inserted, Open,
        Statuses, Steps, Exists, approval
<1>v. ASSUME UNCHANGED vars PROVE row' = row /\ begun' = begun
  BY <1>v DEF vars, usersDB
<1>1. ASSUME NEW q \in Requests, NEW n \in Names, CreateRequest(q, n)
      PROVE  RInv' /\ UNCHANGED vars
  <2>1. /\ row' = row /\ begun' = begun /\ UNCHANGED <<vars, at, on, made>>
        /\ status[q] = "absent"
        /\ status' = [status EXCEPT ![q] = "pending"]
        /\ wanted' = [wanted EXCEPT ![q] = n]
    BY <1>1, <1>v DEF CreateRequest
  <2>2. Inserted => on # q
    BY <2>1
  <2>3. RTypeOK'
    BY <2>1
  <2>4. OneUserPerRequest'
    BY <2>1
  <2>5. NameHeld'
    BY <2>1, <2>2
  <2>6. NotApproved' /\ OneTransaction'
    BY <2>1
  <2> QED BY <2>1, <2>3, <2>4, <2>5, <2>6
<1>2. ASSUME NEW q \in Requests, Reject(q)
      PROVE  RInv' /\ UNCHANGED vars
  <2>1. /\ row' = row /\ begun' = begun /\ UNCHANGED <<vars, wanted, at, on, made>>
        /\ status[q] = "pending"
        /\ status' = [status EXCEPT ![q] = "rejected"]
    BY <1>2, <1>v DEF Reject
  <2>2. RTypeOK'
    BY <2>1
  <2>3. OneUserPerRequest'
    BY <2>1
  <2>4. NameHeld'
    BY <2>1
  <2>5. NotApproved' /\ OneTransaction'
    BY <2>1
  <2> QED BY <2>1, <2>2, <2>3, <2>4, <2>5
<1>3. CASE UpdateRequest
  BY <1>3, <1>v DEF UpdateRequest
<1> QED BY <1>1, <1>2, <1>3

\* BEGIN and ROLLBACK of an approval are UserSync's.
LEMMA BoundariesKeep ==
  ASSUME RInv, RowsTyped,
         (\E q \in Requests : BeginApproval(q)) \/ AbortApproval
  PROVE  RInv' /\ [Next]_vars
<1> USE NoRequestAssumption DEF RInv, RTypeOK, OneUserPerRequest, NameHeld, NotApproved,
        OneTransaction, Inserted, Open, Statuses, Steps, Exists
<1>k. "registered" \in Kinds /\ begun \in [Kinds -> Ids \cup {0}] /\ 0 \notin Ids
  BY DEF Kinds, RowsTyped, Ids
<1>1. ASSUME NEW q \in Requests, BeginApproval(q)
      PROVE  RInv' /\ Begin("registered")
  <2>1. Begin("registered") /\ row' = row /\ UNCHANGED <<status, wanted, made>>
        /\ at' = "read" /\ on' = q /\ status[q] = "pending"
    BY <1>1 DEF BeginApproval, Begin
  <2>2. begun'["registered"] # 0
    <3>1. PICK e \in Ids : begun' = [begun EXCEPT !["registered"] = e]
      BY <2>1 DEF Begin
    <3> QED BY <3>1, <1>k
  <2> QED BY <2>1, <2>2
<1>2. CASE AbortApproval
  <2>1. Abandon("registered") /\ row' = row /\ UNCHANGED <<status, wanted, made>>
        /\ at' = "idle" /\ on' = NoRequest
    BY <1>2 DEF AbortApproval, Abandon
  <2>2. begun'["registered"] = 0
    BY <2>1, <1>k DEF Abandon
  <2>3. RInv'
    BY <2>1, <2>2
  <2> QED BY <2>1, <2>3, <1>k DEF Next, UsersStep
<1> QED BY <1>1, <1>2, <1>k DEF Next, UsersStep

\* INSERT takes a name nobody has.
LEMMA InsertUserKeeps ==
  ASSUME RInv, RowsTyped, InsertUser
  PROVE  RInv' /\ UNCHANGED vars
<1>1. /\ at = "read" /\ at' = "inserted"
      /\ UNCHANGED <<vars, row, begun, status, wanted, on, made>>
  BY DEF InsertUser, vars, usersDB
<1>2. \E u \in Users : ~Exists(row, u)
  BY DEF InsertUser
<1>3. \A u \in Users : row[u].name # wanted[on]
  <2>1. NewUser \in Users /\ row[NewUser].name = NoName
    BY <1>2, NewUserIsAbsent DEF Absent
  <2>2. wanted[on] # NoName
    BY <1>1, NoNameAssumption DEF RInv, RTypeOK, Open
  <2>3. ~Taken(row, NewUser, wanted[on])
    BY DEF InsertUser
  <2> QED BY <2>1, <2>2, <2>3 DEF Taken
<1>4. RTypeOK'
  BY <1>1 DEF RInv, RTypeOK, Open, Steps
<1>5. OneUserPerRequest'
  BY <1>1 DEF RInv, OneUserPerRequest, Exists
<1>6. NameHeld'
  BY <1>1, <1>2, <1>3 DEF NameHeld, Inserted, Exists
<1>7. NotApproved' /\ OneTransaction'
  BY <1>1 DEF RInv, NotApproved, OneTransaction, Open
<1> QED BY <1>1, <1>4, <1>5, <1>6, <1>7 DEF RInv

\* COMMIT is UserSync's Approve.
LEMMA CommitApprovalKeeps ==
  ASSUME RInv, RowsTyped, NEW u \in Users, CommitApproval(u)
  PROVE  RInv' /\ \E n \in Names : Approve(n)
<1>1. /\ at = "updated" /\ at' = "idle" /\ on' = NoRequest /\ u = NewUser
      /\ on \in Requests /\ wanted[on] \in Names
      /\ status' = [status EXCEPT ![on] = "approved"]
      /\ made' = [made EXCEPT ![on] = @ \cup {u}]
      /\ wanted' = wanted
  BY DEF CommitApproval, RInv, RTypeOK, Open
<1>2. \E v \in Users : ~Exists(row, v)
  BY <1>1 DEF RInv, NameHeld, Inserted
<1>3. ~Exists(row, u)
  BY <1>1, <1>2, NewUserIsAbsent DEF Exists
<1>4. Approve(wanted[on])
  <2>1. ~Taken(row, NewUser, wanted[on])
    BY <1>1 DEF RInv, NameHeld, Inserted, Taken
  <2> QED BY <1>1, <1>2, <2>1 DEF Approve, CommitApproval
<1>5. row' = [row EXCEPT ![u] = [name |-> wanted[on], active |-> TRUE]]
  BY DEF CommitApproval, Record, Write
<1>6. \A v \in Users : Exists(row, v)' <=> Exists(row, v) \/ v = u
  <2>1. [name |-> wanted[on], active |-> TRUE] # Absent
    BY <1>1, RowsExist DEF Rows
  <2> QED BY <1>5, <2>1 DEF Exists, RowsTyped
<1>7. made[on] = {} /\ \A q \in Requests : u \notin made[q]
  <2>1. \A q \in Requests : u \notin made[q]
    BY <1>3 DEF RInv, OneUserPerRequest
  <2>2. status[on] # "approved"
    BY <1>1 DEF RInv, NotApproved, Open
  <2> QED BY <2>1, <2>2, <1>1 DEF RInv, OneUserPerRequest
<1>8. RTypeOK'
  BY <1>1, NoRequestAssumption DEF RInv, RTypeOK, Open, Statuses, Steps
<1>9. OneUserPerRequest'
  BY <1>1, <1>6, <1>7 DEF RInv, OneUserPerRequest, RTypeOK
<1>10. NameHeld'
  BY <1>1 DEF NameHeld, Inserted
<1>11. NotApproved' /\ OneTransaction'
  <2>1. begun'["registered"] = 0
    BY DEF CommitApproval, Record, Write, RowsTyped, Kinds
  <2> QED BY <1>1, <2>1 DEF NotApproved, OneTransaction, Open
<1> QED BY <1>1, <1>4, <1>8, <1>9, <1>10, <1>11 DEF RInv

\* A user that is there gets a row with another name than the approval's.
LEMMA RowChangeKeeps ==
  ASSUME RInv, RowsTyped, NEW u \in Users, NEW r \in Rows,
         Exists(row, u), row' = [row EXCEPT ![u] = r],
         Inserted => r.name # wanted[on],
         begun'["registered"] = begun["registered"],
         UNCHANGED registrations
  PROVE  RInv'
<1>1. \A v \in Users : row'[v] = IF v = u THEN r ELSE row[v]
  BY DEF RowsTyped
<1>2. \A v \in Users : Exists(row, v)' <=> Exists(row, v)
  BY <1>1, RowsExist DEF Exists
<1>3. UNCHANGED <<status, wanted, at, on, made>>
  BY DEF registrations, approval
<1>4. RTypeOK' /\ NotApproved' /\ OneTransaction'
  BY <1>3 DEF RInv, RTypeOK, NotApproved, OneTransaction, Open
<1>5. OneUserPerRequest'
  BY <1>2, <1>3 DEF RInv, OneUserPerRequest
<1>6. NameHeld'
  BY <1>1, <1>2, <1>3 DEF RInv, NameHeld, Inserted
<1> QED BY <1>4, <1>5, <1>6 DEF RInv

\* An update of a user waits for the name, a deactivation keeps it.
LEMMA UserStepsKeep ==
  ASSUME RInv, RowsTyped, NEW u \in Users,
         RemoveUser(u) \/ \E r \in Rows : ChangeUser(u, r)
  PROVE  RInv' /\ [Next]_vars
<1>1. CASE RemoveUser(u)
  <2> DEFINE r == [row[u] EXCEPT !.active = FALSE]
  <2>1. DeleteUser(u) /\ Exists(row, u) /\ UNCHANGED registrations
    BY <1>1 DEF RemoveUser, DeleteUser
  <2>2. r \in Rows /\ r.name = row[u].name
    BY <2>1 DEF RowsTyped, Exists, Rows
  <2>3. row' = [row EXCEPT ![u] = r] /\ begun' = begun
    BY <2>1 DEF DeleteUser
  <2>4. Inserted => r.name # wanted[on]
    BY <2>2 DEF RInv, NameHeld
  <2> HIDE DEF r
  <2> QED BY <2>1, <2>2, <2>3, <2>4, RowChangeKeeps DEF Next, UsersStep
<1>2. ASSUME NEW r \in Rows, ChangeUser(u, r)
      PROVE  RInv' /\ [Next]_vars
  <2>1. /\ UpdateUser(u, r) /\ Exists(row, u) /\ UNCHANGED registrations
        /\ row' = [row EXCEPT ![u] = r]
        /\ Inserted => r.name # wanted[on]
        /\ begun'["registered"] = begun["registered"]
    BY <1>2 DEF ChangeUser, Reserved, UpdateUser, Record, Write, RowsTyped, Kinds
  <2> QED BY <2>1, RowChangeKeeps DEF Next, UsersStep
<1> QED BY <1>1, <1>2

\* What runs elsewhere touches neither the users nor the requests, nor the
\* transaction of an approval.
LEMMA SameRowsKeep ==
  ASSUME RInv, row' = row, begun'["registered"] = begun["registered"],
         UNCHANGED registrations
  PROVE  RInv'
<1>1. UNCHANGED <<row, status, wanted, at, on, made>>
  BY DEF registrations, approval
<1>2. RTypeOK' /\ NotApproved' /\ OneTransaction'
  BY <1>1 DEF RInv, RTypeOK, NotApproved, OneTransaction, Open
<1>3. OneUserPerRequest' /\ NameHeld'
  BY <1>1 DEF RInv, OneUserPerRequest, NameHeld, Inserted, Exists
<1> QED BY <1>2, <1>3 DEF RInv

-----------------------------------------------------------------------------
\* Every step keeps the invariant and is a step of UserSync or none.
LEMMA RNextStep ==
  ASSUME RInv, RowsTyped, [RNext]_rvars
  PROVE  RInv' /\ [Next]_vars
<1>1. CASE UNCHANGED rvars
  <2>1. row' = row /\ begun' = begun /\ UNCHANGED registrations /\ UNCHANGED vars
    BY <1>1 DEF rvars, vars, usersDB
  <2> QED BY <2>1, SameRowsKeep
<1>2. CASE Elsewhere
  BY <1>2, ElsewhereKeepsRows, SameRowsKeep DEF Elsewhere
<1>3. ASSUME NEW u \in Users, CommitApproval(u)
      PROVE  RInv' /\ [Next]_vars
  BY <1>3, CommitApprovalKeeps DEF Next, UsersStep
<1>4. CASE InsertUser
  BY <1>4, InsertUserKeeps
<1>5. CASE OpenOrDropUpdate
  <2>1. (Begin("updated") \/ Abandon("updated")) /\ UNCHANGED registrations
    BY <1>5 DEF OpenOrDropUpdate
  <2>2. row' = row /\ begun'["registered"] = begun["registered"]
    BY <2>1 DEF Begin, Abandon, RowsTyped, Kinds
  <2> QED BY <2>1, <2>2, SameRowsKeep DEF Next, UsersStep, Kinds
<1> QED BY <1>1, <1>2, <1>3, <1>4, <1>5, RequestStepsKeep, BoundariesKeep, UserStepsKeep
        DEF RNext

LEMMA InitRInv == RInit => RInv /\ Init
<1> SUFFICES ASSUME RInit PROVE RInv /\ Init
  OBVIOUS
<1> USE DEF RInit, Init
<1>1. RTypeOK /\ NotApproved /\ OneTransaction
  BY DEF RTypeOK, NotApproved, OneTransaction, Open, Statuses, Steps, Kinds
<1>2. OneUserPerRequest
  BY DEF OneUserPerRequest, Exists
<1>3. NameHeld
  BY DEF NameHeld, Inserted
<1> QED BY <1>1, <1>2, <1>3 DEF RInv

LEMMA SpecRInv == RSpec => [](RInv /\ IInv)
<1>1. RInit => RInv /\ IInv
  BY InitRInv, InitIInv
<1>2. IInv => RowsTyped
  BY DEF IInv, TypeOK, RowsTyped
<1>3. RInv /\ IInv /\ [RNext]_rvars => (RInv /\ IInv)'
  BY <1>2, RNextStep, NextIInv
<1> QED BY <1>1, <1>3, PTL DEF RSpec

\* Registrations keep their types.
THEOREM RTypeCorrect == RSpec => []RTypeOK
<1>1. RInv => RTypeOK
  BY DEF RInv
<1> QED BY <1>1, SpecRInv, PTL

\* A request has exactly one user when it is approved and none otherwise,
\* and every user comes from one request.
THEOREM ApprovedHaveOneUser == RSpec => []OneUserPerRequest
<1>1. RInv => OneUserPerRequest
  BY DEF RInv
<1> QED BY <1>1, SpecRInv, PTL

\* A rejection that no open approval had read past is never undone.
THEOREM RejectionsStand == RSpec => RejectionStands
<1> SUFFICES ASSUME NEW q \in Requests
             PROVE  RSpec => [](Rejected(q) => [](status[q] = "rejected"))
  BY DEF RejectionStands
<1>1. RInv /\ Rejected(q) /\ [RNext]_rvars => Rejected(q)'
  <2> SUFFICES ASSUME RInv, Rejected(q), [RNext]_rvars PROVE Rejected(q)'
    OBVIOUS
  <2> USE NoRequestAssumption DEF Rejected
  <2>1. ASSUME NEW p \in Requests, NEW n \in Names, CreateRequest(p, n)
        PROVE  Rejected(q)'
    BY <2>1 DEF CreateRequest, approval, RInv, RTypeOK
  <2>2. ASSUME NEW p \in Requests, BeginApproval(p) \/ Reject(p)
        PROVE  Rejected(q)'
    BY <2>2 DEF BeginApproval, Reject, approval, RInv, RTypeOK
  <2>3. CASE InsertUser \/ UpdateRequest \/ AbortApproval
    BY <2>3 DEF InsertUser, UpdateRequest, AbortApproval
  <2>4. ASSUME NEW u \in Users, CommitApproval(u)
        PROVE  Rejected(q)'
    BY <2>4 DEF CommitApproval, RInv, RTypeOK
  <2>5. CASE UNCHANGED registrations
    BY <2>5 DEF registrations, approval
  <2> QED BY <2>1, <2>2, <2>3, <2>4, <2>5
          DEF RNext, RemoveUser, ChangeUser, OpenOrDropUpdate, Elsewhere, rvars
<1>2. Rejected(q) => status[q] = "rejected"
  BY DEF Rejected
<1> QED BY <1>1, <1>2, SpecRInv, PTL DEF RSpec

\* The approval's statements, with everything that can come between them,
\* implement the BEGIN and the COMMIT UserSync takes an approval to be.
THEOREM RegistrationsImplementUserSync == RSpec => ImplementsUserSync
<1>1. RInit => Init
  BY InitRInv
<1>2. IInv => RowsTyped
  BY DEF IInv, TypeOK, RowsTyped
<1>3. RInv /\ IInv /\ [RNext]_rvars => [Next]_vars
  BY <1>2, RNextStep
<1> QED BY <1>1, <1>3, SpecRInv, PTL DEF RSpec, Spec, ImplementsUserSync

\* So what UserSync_proofs says of users holds of users made from requests.
THEOREM RegisteredUsersAgree == RSpec => []SettledAgree
BY RegistrationsImplementUserSync, SettledUsersAgree DEF ImplementsUserSync

\* And the copies services/auth has are those of users made from requests:
\* begun with the row an approval wrote, renewed by updates only.
THEOREM RegisteredUsersAreCopied == RSpec => ImplementsCopies
BY RegistrationsImplementUserSync, AuthImplementsCopies DEF ImplementsUserSync
=============================================================================
