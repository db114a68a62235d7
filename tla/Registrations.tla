---------------------------- MODULE Registrations ----------------------------
(***************************************************************************)
(* Registration requests of services/users and the transaction that turns  *)
(* one into a user.  This module is the source of UserSync's approvals:    *)
(* there an approval is its BEGIN and its COMMIT, here it is the statements *)
(* of ApproveRegistrationRequest under READ COMMITTED, between which a      *)
(* rejection, an update of a user or an error can come.                    *)
(*                                                                         *)
(* users.registration.create, .approve, .reject, users.update and           *)
(* users.delete are separate subscriptions: one request of each at a time,  *)
(* so that there is at most one open approval.  The other statements are   *)
(* transactions of their own and stay one action.  PostgreSQL's locks are  *)
(* guards: the uncommitted row of an approval keeps its name from an       *)
(* update, and its UPDATE of the request makes a rejection wait, which then *)
(* tests the status again.                                                 *)
(*                                                                         *)
(* The event of an approval is written between its UPDATE and its COMMIT,  *)
(* where nobody can see it, and is part of CommitApproval.  Left out: the  *)
(* approver, the reason and the role, which no other step reads.           *)
(***************************************************************************)
EXTENDS UserSync

CONSTANTS Requests, NoRequest

ASSUME NoRequestAssumption == NoRequest \notin Requests

Statuses == {"absent", "pending", "approved", "rejected"}
Steps == {"idle", "read", "inserted", "updated"}

VARIABLES
  status,  \* registration_requests.status
  wanted,  \* username and email of a request
  at,      \* statement the open approval has executed last
  on,      \* request the open approval is of
  made     \* history: the user a request became

approval == <<at, on>>
registrations == <<status, wanted, approval, made>>
rvars == <<vars, registrations>>

Open == at # "idle"
\* The row of the new user is written and not committed.
Inserted == at \in {"inserted", "updated"}
Reserved(n) == Inserted /\ wanted[on] = n
\* The row of the request is locked by the approval's UPDATE.
Locked(q) == at = "updated" /\ on = q

RInit ==
  /\ Init
  /\ status = [q \in Requests |-> "absent"]
  /\ wanted = [q \in Requests |-> NoName]
  /\ at = "idle" /\ on = NoRequest
  /\ made = [q \in Requests |-> {}]

\* CreateRegistrationRequest looks neither for users nor for requests that
\* have the name already.
CreateRequest(q, n) ==
  /\ status[q] = "absent"
  /\ status' = [status EXCEPT ![q] = "pending"]
  /\ wanted' = [wanted EXCEPT ![q] = n]
  /\ UNCHANGED <<vars, approval, made>>

-----------------------------------------------------------------------------
\* ApproveRegistrationRequest, a statement at a time

\* Without the test of the status.
BeginApproval_AnyStatus(q) ==
  /\ ~Open
  /\ status[q] # "absent"
  /\ Begin("registered")
  /\ at' = "read" /\ on' = q
  /\ UNCHANGED <<status, wanted, made>>

\* BEGIN and SELECT, without FOR UPDATE.
BeginApproval(q) ==
  /\ ~Open
  /\ status[q] = "pending"
  /\ Begin("registered")
  /\ at' = "read" /\ on' = q
  /\ UNCHANGED <<status, wanted, made>>

\* INSERT of the user; a name that is taken ends the transaction (Abort).
InsertUser ==
  /\ at = "read"
  /\ \E u \in Users : ~Exists(row, u)
  /\ ~Taken(row, NewUser, wanted[on])
  /\ at' = "inserted"
  /\ UNCHANGED <<vars, status, wanted, on, made>>

\* UPDATE of the request by its id, whatever its status is by now.
UpdateRequest ==
  /\ at = "inserted"
  /\ at' = "updated"
  /\ UNCHANGED <<vars, status, wanted, on, made>>

\* COMMIT: the user, its event and the request's status at once.
CommitApproval(u) ==
  /\ at = "updated"
  /\ u = NewUser
  /\ Record("registered", u, [name |-> wanted[on], active |-> TRUE])
  /\ status' = [status EXCEPT ![on] = "approved"]
  /\ made' = [made EXCEPT ![on] = @ \cup {u}]
  /\ at' = "idle" /\ on' = NoRequest
  /\ UNCHANGED <<processed, retries, mark, authSide, history, bounds, wanted>>

\* A rollback that does not close the transaction.
AbortApproval_KeepsRequest ==
  /\ Abandon("registered")
  /\ at' = "idle"
  /\ UNCHANGED <<status, wanted, on, made>>

\* ROLLBACK: a statement failed, the name is taken, or the process crashed.
AbortApproval ==
  /\ Abandon("registered")
  /\ at' = "idle" /\ on' = NoRequest
  /\ UNCHANGED <<status, wanted, made>>

-----------------------------------------------------------------------------
\* What runs beside an approval

\* RejectRegistrationRequest: one UPDATE that tests the status.
Reject(q) ==
  /\ status[q] = "pending" /\ ~Locked(q)
  /\ status' = [status EXCEPT ![q] = "rejected"]
  /\ UNCHANGED <<vars, wanted, approval, made>>

\* An update that does not wait for the new user's name.
ChangeUser_NoWait(u, r) ==
  /\ UpdateUser(u, r)
  /\ UNCHANGED registrations

\* UpdateUser waits for an approval that has written the name it wants.
ChangeUser(u, r) ==
  /\ ~Reserved(r.name)
  /\ UpdateUser(u, r)
  /\ UNCHANGED registrations

\* BEGIN and ROLLBACK of an update.
OpenOrDropUpdate ==
  /\ Begin("updated") \/ Abandon("updated")
  /\ UNCHANGED registrations

RemoveUser(u) == DeleteUser(u) /\ UNCHANGED registrations

\* The outbox, the queues and services/auth.
Elsewhere ==
  /\ ProcessorStep \/ AuthStep \/ Fault
  /\ UNCHANGED registrations

-----------------------------------------------------------------------------
RNext ==
  \/ \E q \in Requests, n \in Names : CreateRequest(q, n)
  \/ \E q \in Requests : BeginApproval(q) \/ Reject(q)
  \/ InsertUser \/ UpdateRequest \/ AbortApproval
  \/ \E u \in Users : CommitApproval(u) \/ RemoveUser(u)
  \/ \E u \in Users, r \in Rows : ChangeUser(u, r)
  \/ OpenOrDropUpdate \/ Elsewhere

RSpec == RInit /\ [][RNext]_rvars

-----------------------------------------------------------------------------
RTypeOK ==
  /\ status \in [Requests -> Statuses]
  /\ wanted \in [Requests -> Names \cup {NoName}]
  /\ \A q \in Requests : status[q] # "absent" => wanted[q] \in Names
  /\ at \in Steps
  /\ IF Open THEN on \in Requests /\ status[on] # "absent" ELSE on = NoRequest
  /\ made \in [Requests -> SUBSET Users]

\* However approvals, rejections, renamed users and aborted transactions
\* cross each other: a request has a user exactly when it is approved, never
\* two, no two requests have the same, and there is no user without one.
OneUserPerRequest ==
  /\ \A q \in Requests : IF status[q] = "approved" THEN \E u \in Users : made[q] = {u}
                                                   ELSE made[q] = {}
  /\ \A q, p \in Requests : made[q] \cap made[p] # {} => q = p
  /\ \A u \in Users : Exists(row, u) <=> \E q \in Requests : u \in made[q]

\* A rejection is undone only by an approval that was open when it came: the
\* SELECT of the approval had read "pending" before.  With no such approval
\* the rejection stands for good.
Rejected(q) == status[q] = "rejected" /\ on # q
RejectionStands ==
  \A q \in Requests : [](Rejected(q) => [](status[q] = "rejected"))

\* The transaction of several statements does what UserSync takes an approval
\* to do at its COMMIT: the name it was given is still free then.
ImplementsUserSync == Spec
=============================================================================
