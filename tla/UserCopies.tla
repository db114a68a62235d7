----------------------------- MODULE UserCopies -----------------------------
(***************************************************************************)
(* What the users table of services/auth promises about the one of         *)
(* services/users, without outbox, messages and restarts.  A user is       *)
(* registered once and updated any number of times.  The copy of a user    *)
(* begins with the row it was registered with and is never taken away;     *)
(* from then on it shows a row that an update wrote, any of them: which    *)
(* one, and whether a later one follows, is left open.                     *)
(***************************************************************************)
CONSTANTS Users, Rows, Absent   \* Absent: no row

VARIABLES born,     \* the row a user was registered with, as a set
          renewed,  \* the rows its updates wrote
          copy      \* the row of services/auth

vars == <<born, renewed, copy>>

Init ==
  /\ born = [u \in Users |-> {}]
  /\ renewed = [u \in Users |-> {}]
  /\ copy = [u \in Users |-> Absent]

Register(u, r) ==
  /\ born[u] = {}
  /\ born' = [born EXCEPT ![u] = {r}]
  /\ UNCHANGED <<renewed, copy>>

Update(u, r) ==
  /\ born[u] # {}
  /\ renewed' = [renewed EXCEPT ![u] = @ \cup {r}]
  /\ UNCHANGED <<born, copy>>

Insert(u, r) ==
  /\ copy[u] = Absent /\ r \in born[u]
  /\ copy' = [copy EXCEPT ![u] = r]
  /\ UNCHANGED <<born, renewed>>

Overwrite(u, r) ==
  /\ copy[u] # Absent /\ r \in renewed[u]
  /\ copy' = [copy EXCEPT ![u] = r]
  /\ UNCHANGED <<born, renewed>>

Next ==
  \E u \in Users, r \in Rows :
    Register(u, r) \/ Update(u, r) \/ Insert(u, r) \/ Overwrite(u, r)

Spec == Init /\ [][Next]_vars
=============================================================================
