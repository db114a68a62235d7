---------------------------- MODULE AuthSessions ----------------------------
(***************************************************************************)
(* Refresh-token sessions of services/auth: the handlers of auth.login,    *)
(* auth.refresh, auth.logout, auth.logout_all and auth.change_password     *)
(* over the token store in Redis.                                          *)
(*                                                                         *)
(* Every NATS subscription delivers to one goroutine, so a handler serves  *)
(* one request at a time while the handlers of different subjects run      *)
(* concurrently.  Redis executes one command at a time and the store       *)
(* queues its multi-key updates on a Pipeline, not a transaction: one      *)
(* action below is one Redis command, and commands of different handlers   *)
(* interleave.                                                             *)
(*                                                                         *)
(* Left out: the per-device key and the global set of families, which no   *)
(* code path reads; the users table, whose answers (credentials accepted,  *)
(* user active) are nondeterministic here; the access-token blacklist, a   *)
(* key space of its own that auth.logout writes after the step modelled    *)
(* last here; the lengths of the TTLs, a token's key expiring at any time: *)
(* the TTL that RevokeRefreshToken reads decides only how long the revoked *)
(* metadata stays, and an index set is given the full TTL after each member *)
(* was stored, so that it outlives the keys of its members.  A fingerprint *)
(* is drawn at login and shared by a family.  One instance of the service: *)
(* its subscriptions are not a queue group.                                *)
(***************************************************************************)
EXTENDS Naturals, FiniteSets

CONSTANTS Users,     \* accounts
          Tokens,    \* token ids (uuid.New): drawn once, never again
          NoUser, NoToken,
          MaxBusy,   \* bound: requests served at the same time
          Faults     \* whether Redis calls may fail and the process crash

ASSUME NoUserAssumption == NoUser \notin Users
ASSUME NoTokenAssumption == NoToken \notin Tokens

Purgers == {"logout_all", "change_password"}
Minters == {"login", "refresh"}
Revokers == {"refresh", "logout"}
Handlers == Purgers \cup Minters \cup Revokers

ASSUME MaxBusyAssumption == MaxBusy \in Nat
ASSUME FaultsAssumption == Faults \in BOOLEAN

VARIABLES
  \* Redis
  tok,       \* auth:refresh:{id}: absent, or metadata with its IsRevoked flag
  owner,     \* UserID of the metadata stored under an id
  fam,       \* TokenFamily: the id minted by the login that began the family
  prev,      \* PreviousJTI: the id this one was rotated from
  userIdx,   \* auth:user:{id}: set of token ids
  famIdx,    \* auth:family:{id}: set of token ids
  \* the request each handler is serving
  pc,
  req,       \* token id of the request
  who,       \* user of the request
  cur,       \* token id the store's current call works on
  todo,      \* token ids an SMEMBERS returned, still to be processed
  theft,     \* auth.refresh: the family is being revoked
  clean,     \* auth.refresh: no Redis error so far in that revocation
  \* history
  granted,      \* ids whose StoreRefreshToken succeeded
  compromised   \* families revoked without a Redis error

redis   == <<tok, owner, fam, prev, userIdx, famIdx>>
request == <<pc, req, who, cur, todo, theft, clean>>
history == <<granted, compromised>>
vars    == <<redis, request, history>>

KeyStates == {"absent", "live", "revoked"}
Live(t) == tok[t] = "live"
IsRevoked(t) == tok[t] = "revoked"

Stored == {t \in Tokens : fam[t] # NoToken}   \* ids ever written
Steps == {"idle", "validate", "check_user", "rotate", "get", "revoke",
          "set", "sadd_user", "sadd_family", "smembers", "next", "del"}

Init ==
  /\ tok = [t \in Tokens |-> "absent"]
  /\ owner = [t \in Tokens |-> NoUser]
  /\ fam = [t \in Tokens |-> NoToken]
  /\ prev = [t \in Tokens |-> NoToken]
  /\ userIdx = [u \in Users |-> {}]
  /\ famIdx = [t \in Tokens |-> {}]
  /\ pc = [s \in Handlers |-> "idle"]
  /\ req = [s \in Handlers |-> NoToken]
  /\ who = [s \in Handlers |-> NoUser]
  /\ cur = [s \in Handlers |-> NoToken]
  /\ todo = [s \in Handlers |-> {}]
  /\ theft = FALSE /\ clean = TRUE
  /\ granted = {} /\ compromised = {}

-----------------------------------------------------------------------------
At(s, step) == pc[s] = step
Goto(s, step) == pc' = [pc EXCEPT ![s] = step]

\* The subscription of s delivers its next request.
Accepts(s) ==
  /\ At(s, "idle")
  /\ Cardinality({h \in Handlers : ~At(h, "idle")}) < MaxBusy

\* The handler answers (a result or an error) and waits for its next request.
Return(s) ==
  /\ Goto(s, "idle")
  /\ req' = [req EXCEPT ![s] = NoToken]
  /\ who' = [who EXCEPT ![s] = NoUser]
  /\ cur' = [cur EXCEPT ![s] = NoToken]
  /\ todo' = [todo EXCEPT ![s] = {}]
  /\ theft' = (IF s = "refresh" THEN FALSE ELSE theft)
  /\ clean' = (IF s = "refresh" THEN TRUE ELSE clean)

\* A Redis error ends the request with an error, a crash of the process ends
\* it without an answer; what its earlier commands did stays.
Abort(s) ==
  /\ Faults
  /\ ~At(s, "idle")
  /\ Return(s)
  /\ UNCHANGED <<redis, history>>

-----------------------------------------------------------------------------
\* StoreRefreshToken: the pipeline of login and of a rotation.

\* Login: the users table accepted the credentials of an active account.
Login(u) ==
  /\ Accepts("login")
  /\ Goto("login", "set")
  /\ who' = [who EXCEPT !["login"] = u]
  /\ UNCHANGED <<redis, history, req, cur, todo, theft, clean>>

\* A login begins a family, a rotation continues the one of the token it
\* replaces and notes that token.
NewFamily_PreviousJTI(s, n) == IF s = "login" THEN n ELSE prev[req[s]]
NewFamily(s, n) == IF s = "login" THEN n ELSE fam[req[s]]

Previous_Unset(s) == NoToken
Previous(s) == req[s]

\* GenerateRefreshToken, then SET of the new token's metadata.
StoreToken(s) ==
  /\ At(s, "set")
  /\ \E n \in Tokens \ Stored :
       /\ tok' = [tok EXCEPT ![n] = "live"]
       /\ owner' = [owner EXCEPT ![n] = who[s]]
       /\ fam' = [fam EXCEPT ![n] = NewFamily(s, n)]
       /\ prev' = [prev EXCEPT ![n] = Previous(s)]
       /\ cur' = [cur EXCEPT ![s] = n]
  /\ Goto(s, "sadd_user")
  /\ UNCHANGED <<userIdx, famIdx, req, who, todo, theft, clean, history>>

\* A rotation that leaves the user's index to the login.
IndexUser_Login(s) ==
  /\ At(s, "sadd_user")
  /\ userIdx' = IF s = "login" THEN [userIdx EXCEPT ![who[s]] = @ \cup {cur[s]}]
                               ELSE userIdx
  /\ Goto(s, "sadd_family")
  /\ UNCHANGED <<tok, owner, fam, prev, famIdx, history>>
  /\ UNCHANGED <<req, who, cur, todo, theft, clean>>

\* SADD and EXPIRE of the user's index.
IndexUser(s) ==
  /\ At(s, "sadd_user")
  /\ userIdx' = [userIdx EXCEPT ![who[s]] = @ \cup {cur[s]}]
  /\ Goto(s, "sadd_family")
  /\ UNCHANGED <<tok, owner, fam, prev, famIdx, history>>
  /\ UNCHANGED <<req, who, cur, todo, theft, clean>>

\* SADD and EXPIRE of the family's index, then the reply.  An error that
\* reaches the handler although the command ran leaves the token stored but
\* not granted.
IndexFamily(s) ==
  /\ At(s, "sadd_family")
  /\ famIdx' = [famIdx EXCEPT ![fam[cur[s]]] = @ \cup {cur[s]}]
  /\ \/ granted' = granted \cup {cur[s]}
     \/ Faults /\ granted' = granted
  /\ Return(s)
  /\ UNCHANGED <<tok, owner, fam, prev, userIdx, compromised>>

-----------------------------------------------------------------------------
\* auth.refresh: ValidateRefreshToken, the user check, RotateRefreshToken.

\* The request's token id is the client's: any id granted so far, those of
\* rotations included, although the reply of a refresh repeats the old id.
Refresh(t) ==
  /\ Accepts("refresh")
  /\ t \in granted
  /\ Goto("refresh", "validate")
  /\ req' = [req EXCEPT !["refresh"] = t]
  /\ UNCHANGED <<redis, history, who, cur, todo, theft, clean>>

\* ValidateRefreshToken finds no token, or a revoked one: an error, and
\* nothing else.
RejectDead ==
  /\ At("refresh", "validate")
  /\ ~Live(req["refresh"])
  /\ Return("refresh")
  /\ UNCHANGED <<redis, history>>

\* ValidateRefreshToken accepts, and the user is looked up.
AcceptLive ==
  /\ At("refresh", "validate")
  /\ Live(req["refresh"])
  /\ Goto("refresh", "check_user")
  /\ who' = [who EXCEPT !["refresh"] = owner[req["refresh"]]]
  /\ UNCHANGED <<redis, history, req, cur, todo, theft, clean>>

\* The fingerprint is not the family's: the whole family is revoked.
RejectFingerprint ==
  /\ At("refresh", "validate")
  /\ Live(req["refresh"])
  /\ Goto("refresh", "smembers")
  /\ theft' = TRUE
  /\ UNCHANGED <<redis, history, req, who, cur, todo, clean>>

\* The user is gone or not active: an error.  Otherwise the rotation begins.
CheckUser ==
  /\ At("refresh", "check_user")
  /\ \/ Return("refresh")
     \/ /\ Goto("refresh", "rotate")
        /\ UNCHANGED <<req, who, cur, todo, theft, clean>>
  /\ UNCHANGED <<redis, history>>

\* A rotation that does not revoke the token it replaces.
Rotate_NoRevoke ==
  /\ At("refresh", "rotate")
  /\ Live(req["refresh"])
  /\ Goto("refresh", "set")
  /\ UNCHANGED <<redis, history, req, who, cur, todo, theft, clean>>

\* RotateRefreshToken reads the token again; found revoked since, it is
\* taken for a reuse and the family is revoked.
Rotate ==
  /\ At("refresh", "rotate")
  /\ \/ /\ tok[req["refresh"]] = "absent"
        /\ Return("refresh")
     \/ /\ IsRevoked(req["refresh"])
        /\ Goto("refresh", "smembers")
        /\ theft' = TRUE
        /\ UNCHANGED <<req, who, cur, todo, clean>>
     \/ /\ Live(req["refresh"])
        /\ Goto("refresh", "get")
        /\ cur' = [cur EXCEPT !["refresh"] = req["refresh"]]
        /\ UNCHANGED <<req, who, todo, theft, clean>>
  /\ UNCHANGED <<redis, history>>

-----------------------------------------------------------------------------
\* RevokeRefreshToken, called by a rotation, by a family revocation (theft)
\* and by auth.logout.

InFamilyLoop(s) == s = "refresh" /\ theft

\* auth.logout with any id granted so far.
Logout(t) ==
  /\ Accepts("logout")
  /\ t \in granted
  /\ Goto("logout", "get")
  /\ req' = [req EXCEPT !["logout"] = t]
  /\ cur' = [cur EXCEPT !["logout"] = t]
  /\ UNCHANGED <<redis, history, who, todo, theft, clean>>

\* GetRefreshToken: no key is an error, which a family revocation skips.
RevokeGet(s) ==
  /\ At(s, "get")
  /\ \/ /\ tok[cur[s]] # "absent"
        /\ Goto(s, "revoke")
        /\ UNCHANGED <<req, who, cur, todo, theft, clean>>
     \/ /\ tok[cur[s]] = "absent" /\ ~InFamilyLoop(s)
        /\ Return(s)
     \/ /\ tok[cur[s]] = "absent" /\ InFamilyLoop(s)
        /\ Goto(s, "next")
        /\ cur' = [cur EXCEPT ![s] = NoToken]
        /\ UNCHANGED <<req, who, todo, theft, clean>>
  /\ UNCHANGED <<redis, history>>

\* The metadata GET read, with IsRevoked set.
RevokedMetadata_Unset == "live"
RevokedMetadata == "revoked"

\* SET of the revoked metadata, whether or not the key is still there; then
\* the caller goes on: the rotation mints, the family loop takes its next
\* member (even after an error), auth.logout is done with refresh tokens.
RevokeSet(s) ==
  /\ At(s, "revoke")
  /\ tok' = [tok EXCEPT ![cur[s]] = RevokedMetadata]
  /\ \/ /\ s = "logout"
        /\ Return(s)
     \/ /\ s = "refresh" /\ ~theft
        /\ Goto(s, "set")
        /\ cur' = [cur EXCEPT ![s] = NoToken]
        /\ UNCHANGED <<req, who, todo, theft, clean>>
     \/ /\ InFamilyLoop(s)
        /\ Goto(s, "next")
        /\ cur' = [cur EXCEPT ![s] = NoToken]
        /\ clean' = clean \/ (Faults /\ clean' = FALSE)
        /\ UNCHANGED <<req, who, todo, theft>>
  /\ UNCHANGED <<owner, fam, prev, userIdx, famIdx, history>>

-----------------------------------------------------------------------------
\* RevokeRefreshTokenFamily, called by auth.refresh.

\* The members other than the token the client presented.
FamilyMembers_Others ==
  /\ At("refresh", "smembers")
  /\ todo' = [todo EXCEPT !["refresh"] = famIdx[fam[req["refresh"]]] \ {req["refresh"]}]
  /\ Goto("refresh", "next")
  /\ UNCHANGED <<redis, history, req, who, cur, theft, clean>>

FamilyMembers ==
  /\ At("refresh", "smembers")
  /\ todo' = [todo EXCEPT !["refresh"] = famIdx[fam[req["refresh"]]]]
  /\ Goto("refresh", "next")
  /\ UNCHANGED <<redis, history, req, who, cur, theft, clean>>

FamilyNext ==
  /\ At("refresh", "next")
  /\ \E t \in todo["refresh"] :
       /\ todo' = [todo EXCEPT !["refresh"] = @ \ {t}]
       /\ cur' = [cur EXCEPT !["refresh"] = t]
  /\ Goto("refresh", "get")
  /\ UNCHANGED <<redis, history, req, who, theft, clean>>

\* A Redis error on one member is collected, and the loop goes on.
FamilySkip ==
  /\ Faults /\ theft
  /\ pc["refresh"] \in {"get", "revoke"}
  /\ clean' = FALSE
  /\ Goto("refresh", "next")
  /\ cur' = [cur EXCEPT !["refresh"] = NoToken]
  /\ UNCHANGED <<redis, history, req, who, todo, theft>>

FamilyDone ==
  /\ At("refresh", "next")
  /\ todo["refresh"] = {}
  /\ compromised' = IF clean THEN compromised \cup {fam[req["refresh"]]}
                             ELSE compromised
  /\ Return("refresh")
  /\ UNCHANGED <<redis, granted>>

-----------------------------------------------------------------------------
\* RevokeAllUserTokens: auth.logout_all, and auth.change_password once the
\* new password is in the users table.

Purge(s, u) ==
  /\ Accepts(s)
  /\ Goto(s, "smembers")
  /\ who' = [who EXCEPT ![s] = u]
  /\ UNCHANGED <<redis, history, req, cur, todo, theft, clean>>

Members(s) ==
  /\ At(s, "smembers")
  /\ \/ /\ userIdx[who[s]] = {}
        /\ Return(s)
     \/ /\ userIdx[who[s]] # {}
        /\ todo' = [todo EXCEPT ![s] = userIdx[who[s]]]
        /\ Goto(s, "del")
        /\ UNCHANGED <<req, who, cur, theft, clean>>
  /\ UNCHANGED <<redis, history>>

DelToken(s) ==
  /\ At(s, "del")
  /\ \E t \in todo[s] :
       /\ tok' = [tok EXCEPT ![t] = "absent"]
       /\ todo' = [todo EXCEPT ![s] = @ \ {t}]
  /\ UNCHANGED <<owner, fam, prev, userIdx, famIdx, history>>
  /\ UNCHANGED <<pc, req, who, cur, theft, clean>>

\* DEL of the whole index, members added since the SMEMBERS included.
DelIndex(s) ==
  /\ At(s, "del")
  /\ todo[s] = {}
  /\ userIdx' = [userIdx EXCEPT ![who[s]] = {}]
  /\ Return(s)
  /\ UNCHANGED <<tok, owner, fam, prev, famIdx, history>>

-----------------------------------------------------------------------------
\* Redis expires a token's key.
Expire(t) ==
  /\ tok[t] # "absent"
  /\ tok' = [tok EXCEPT ![t] = "absent"]
  /\ UNCHANGED <<owner, fam, prev, userIdx, famIdx, request, history>>

-----------------------------------------------------------------------------
StoreStep(s) == StoreToken(s) \/ IndexUser(s) \/ IndexFamily(s)
RevokeStep(s) == RevokeGet(s) \/ RevokeSet(s)
PurgeStep(s) == Members(s) \/ DelToken(s) \/ DelIndex(s)
FamilyStep == FamilyMembers \/ FamilyNext \/ FamilySkip \/ FamilyDone
RefreshStep == RejectDead \/ AcceptLive \/ RejectFingerprint \/ CheckUser \/ Rotate

Next ==
  \/ \E u \in Users : Login(u)
  \/ \E s \in Minters : StoreStep(s)
  \/ \E t \in Tokens : Refresh(t) \/ Logout(t)
  \/ RefreshStep
  \/ \E s \in Revokers : RevokeStep(s)
  \/ FamilyStep
  \/ \E s \in Purgers, u \in Users : Purge(s, u)
  \/ \E s \in Purgers : PurgeStep(s)
  \/ \E s \in Handlers : Abort(s)
  \/ \E t \in Tokens : Expire(t)

Spec == Init /\ [][Next]_vars
-----------------------------------------------------------------------------
TypeOK ==
  /\ tok \in [Tokens -> KeyStates]
  /\ owner \in [Tokens -> Users \cup {NoUser}]
  /\ fam \in [Tokens -> Tokens \cup {NoToken}]
  /\ prev \in [Tokens -> Tokens \cup {NoToken}]
  /\ userIdx \in [Users -> SUBSET Stored]
  /\ famIdx \in [Tokens -> SUBSET Stored]
  /\ pc \in [Handlers -> Steps]
  /\ req \in [Handlers -> Stored \cup {NoToken}]
  /\ who \in [Handlers -> Users \cup {NoUser}]
  /\ cur \in [Handlers -> Stored \cup {NoToken}]
  /\ todo \in [Handlers -> SUBSET Stored]
  /\ theft \in BOOLEAN /\ clean \in BOOLEAN
  /\ granted \subseteq Stored /\ compromised \subseteq Stored

\* A family never has two usable tokens: the token a rotation replaces is
\* dead before its successor exists, and nothing revives it meanwhile
\* (RotateRefreshToken under every interleaving with the other handlers).
OneLivePerFamily ==
  \A x, y \in Tokens : Live(x) /\ Live(y) /\ fam[x] = fam[y] => x = y

\* A token that was revoked, deleted or expired is never accepted again,
\* although RevokeRefreshToken writes back, without looking, metadata it
\* read several commands earlier.
DeadStaysDead ==
  [][\A t \in Stored : ~Live(t) => ~Live(t)']_vars

\* Once a theft response has gone through a family without a Redis error, no
\* token a client was granted from it is usable, nor ever will be: a
\* rotation in flight cannot mint past RevokeRefreshTokenFamily.
CompromisedDead ==
  \A f \in compromised : \A x \in granted : fam[x] = f => ~Live(x)

\* The store implements the chains of TokenFamilies: a usable token is one
\* whose key holds live metadata.
Chains == INSTANCE TokenFamilies WITH live <- {t \in Tokens : Live(t)}
ImplementsChains == Chains!Spec

-----------------------------------------------------------------------------
\* Statements of the repository that the code does not keep.

\* RevokeAllUserTokens "revokes all the tokens of the user": the index it
\* reads names every usable token the user was granted.
LogoutAllSeesEveryToken ==
  [][\A s \in Purgers : Members(s) =>
       \A t \in granted : owner[t] = who[s] /\ Live(t) => t \in userIdx[who[s]]]_vars

\* A second use of a refresh token fails and revokes its family: the handler
\* that has looked at a token rotated before turns to the family.
ReuseRevokesFamily ==
  [][/\ At("refresh", "validate") /\ pc'["refresh"] # "validate"
     /\ IsRevoked(req["refresh"])
     /\ \E y \in granted : prev[y] = req["refresh"]
     => theft']_vars
=============================================================================
