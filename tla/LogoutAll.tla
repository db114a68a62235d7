------------------------------ MODULE LogoutAll ------------------------------
(***************************************************************************)
(* What a RevokeAllUserTokens that returns without an error has reached:   *)
(* AuthSessions with history variables and nothing else, so that the two   *)
(* have the same behaviours.                                               *)
(*                                                                         *)
(* SMEMBERS reads the user's index, and the DEL of the index comes later.  *)
(* A token whose SADD ran in between is taken off the index while it is    *)
(* usable: an orphan, which no later SMEMBERS names.                       *)
(***************************************************************************)
EXTENDS AuthSessions

VARIABLES
  before,    \* per purge that runs: what its user had been granted at its
             \* SMEMBERS, without the orphans of earlier purges
  orphaned   \* tokens that a DEL took off their user's index while usable

lvars == <<vars, before, orphaned>>

LInit ==
  /\ Init
  /\ before = [s \in Purgers |-> {}]
  /\ orphaned = {}

Due(s) == {t \in granted : owner[t] = who[s]} \ orphaned

\* An empty index ends the purge with success at once.
NothingToPurge(s) == userIdx[who[s]] = {}

LMembers(s) ==
  /\ Members(s)
  /\ before' = [before EXCEPT ![s] = IF NothingToPurge(s) THEN {} ELSE Due(s)]
  /\ UNCHANGED orphaned

LDelIndex(s) ==
  /\ DelIndex(s)
  /\ orphaned' = orphaned \cup {t \in userIdx[who[s]] : Live(t)}
  /\ before' = [before EXCEPT ![s] = {}]

LAbort(s) ==
  /\ Abort(s)
  /\ before' = [p \in Purgers |-> IF p = s THEN {} ELSE before[p]]
  /\ UNCHANGED orphaned

Elsewhere ==
  /\ \/ \E u \in Users : Login(u)
     \/ \E s \in Minters : StoreStep(s)
     \/ \E t \in Tokens : Refresh(t) \/ Logout(t)
     \/ RefreshStep
     \/ \E s \in Revokers : RevokeStep(s)
     \/ FamilyStep
     \/ \E s \in Purgers, u \in Users : Purge(s, u)
     \/ \E s \in Purgers : DelToken(s)
     \/ \E t \in Tokens : Expire(t)
  /\ UNCHANGED <<before, orphaned>>

LNext ==
  \/ \E s \in Purgers : LMembers(s) \/ LDelIndex(s)
  \/ \E s \in Handlers : LAbort(s)
  \/ Elsewhere

LSpec == LInit /\ [][LNext]_lvars

-----------------------------------------------------------------------------
LTypeOK ==
  /\ TypeOK
  /\ before \in [Purgers -> SUBSET granted]
  /\ orphaned \subseteq Stored

\* auth.logout_all and the revocation after a change of password: when a
\* purge returns without an error, nothing its user had been granted when it
\* read the index is usable (and by DeadStaysDead nothing of it ever will be),
\* whatever logins, rotations, logouts, revocations and purges ran beside it,
\* except tokens that another purge had taken off the index while usable.
LogoutAllReaches ==
  [][\A s \in Purgers :
       /\ LDelIndex(s) => \A t \in before[s] : ~Live(t)
       /\ LMembers(s) /\ NothingToPurge(s) => \A t \in Due(s) : ~Live(t)]_lvars
=============================================================================
