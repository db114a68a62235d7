----------------------------- MODULE AccessTokens -----------------------------
(***************************************************************************)
(* Access tokens of services/auth: what auth.login and auth.refresh sign,  *)
(* what auth.validate accepts and what auth.logout takes back, against a   *)
(* clock.  A token names its expiry and nothing is stored for it; a logout *)
(* stores its jti in a blacklist in Redis, for the full lifetime of an     *)
(* access token from then on, although the token is older.                 *)
(*                                                                         *)
(* A validation reads the clock, the blacklist and the users row one after *)
(* the other, and time may pass and other handlers run in between.  The    *)
(* subscription of auth.validate serves one request at a time.             *)
(*                                                                         *)
(* Left out: signatures and claims that nothing decides on; fingerprints   *)
(* (a mismatch is one more refusal, and WebSockets skip the test); the     *)
(* refresh token of the session, which a logout revokes first              *)
(* (AuthSessions): here that succeeds or fails.                            *)
(***************************************************************************)
EXTENDS Naturals

CONSTANTS Users, NoUser, Tokens, NoToken, Requests,
          Lifetime,   \* accessTokenTTL
          MaxTime     \* bound: the clock of the model

ASSUME LifetimeAssumption == Lifetime \in Nat \ {0}
ASSUME MaxTimeAssumption == MaxTime \in Nat
ASSUME NoTokenAssumption == NoToken \notin Tokens

Steps == {"idle", "parsed", "cleared", "accepted", "leaving", "over"}

VARIABLES
  now,
  holder, expiry,  \* user_id and exp of a token; 0: not signed
  listed,          \* when the blacklist entry of a token expires; 0: never written
  active,          \* users whose row is there with is_active
  step, token,     \* per request through the gateway: its step, its token
  \* history
  out,       \* tokens whose logout has been answered
  late,      \* requests that came after the logout of their token was answered
  lapsed,    \* requests whose token expired before the blacklist was read
  admitted   \* requests that were accepted

avars == <<now, holder, expiry, listed, active, step, token, out, late, lapsed, admitted>>
signed == <<holder, expiry>>

AInit ==
  /\ now = 0
  /\ holder = [t \in Tokens |-> NoUser] /\ expiry = [t \in Tokens |-> 0]
  /\ listed = [t \in Tokens |-> 0]
  /\ active = Users
  /\ step = [r \in Requests |-> "idle"] /\ token = [r \in Requests |-> NoToken]
  /\ out = {} /\ late = {} /\ lapsed = {} /\ admitted = {}

Expired(t) == now >= expiry[t]
Blacklisted(t) == now < listed[t]

GoOn(r, s) == step' = [step EXCEPT ![r] = s]

-----------------------------------------------------------------------------
Tick ==
  /\ now < MaxTime
  /\ now' = now + 1
  /\ UNCHANGED <<signed, listed, active, step, token, out, late, lapsed, admitted>>

\* GenerateAccessToken, for a user that a login or a refresh found active
\* (the row may have changed since).
Sign(t, u) ==
  /\ expiry[t] = 0
  /\ holder' = [holder EXCEPT ![t] = u]
  /\ expiry' = [expiry EXCEPT ![t] = now + Lifetime]
  /\ UNCHANGED <<now, listed, active, step, token, out, late, lapsed, admitted>>

\* user.updated, or the row is deleted or comes back.
ChangeUser(u) ==
  /\ active' = IF u \in active THEN active \ {u} ELSE active \cup {u}
  /\ UNCHANGED <<now, signed, listed, step, token, out, late, lapsed, admitted>>

-----------------------------------------------------------------------------
\* ValidateAccessToken

\* A request with a token that parses: signed, and not expired.  Any other is
\* refused and leaves no trace.
Parse(r, t) ==
  /\ step[r] = "idle"
  /\ \A q \in Requests : step[q] \notin {"parsed", "cleared"}
  /\ expiry[t] # 0 /\ ~Expired(t)
  /\ GoOn(r, "parsed")
  /\ token' = [token EXCEPT ![r] = t]
  /\ late' = IF t \in out THEN late \cup {r} ELSE late
  /\ UNCHANGED <<now, signed, listed, active, out, lapsed, admitted>>

\* IsAccessTokenBlacklisted.
CheckBlacklist(r) ==
  /\ step[r] = "parsed"
  /\ GoOn(r, IF Blacklisted(token[r]) THEN "over" ELSE "cleared")
  /\ lapsed' = IF Expired(token[r]) THEN lapsed \cup {r} ELSE lapsed
  /\ UNCHANGED <<now, signed, listed, active, token, out, late, admitted>>

\* GetUserByID: the row is read last.
CheckUser(r) ==
  /\ step[r] = "cleared"
  /\ IF holder[token[r]] \in active
       THEN GoOn(r, "accepted") /\ admitted' = admitted \cup {r}
       ELSE GoOn(r, "over") /\ UNCHANGED admitted
  /\ UNCHANGED <<now, signed, listed, active, token, out, late, lapsed>>

\* A statement fails, a fingerprint does not match, or the gateway's request
\* times out: a refusal.  An accepted request is served and ends.
Finish(r) ==
  /\ step[r] \in {"parsed", "cleared", "accepted"}
  /\ GoOn(r, "over")
  /\ UNCHANGED <<now, signed, listed, active, token, out, late, lapsed, admitted>>

-----------------------------------------------------------------------------
\* The logout handler of the gateway, whose own validation was accepted.

\* RevokeRefreshToken has revoked the refresh token.
RevokeRefresh(r) ==
  /\ step[r] = "accepted"
  /\ \A q \in Requests : step[q] # "leaving"
  /\ GoOn(r, "leaving")
  /\ UNCHANGED <<now, signed, listed, active, token, out, late, lapsed, admitted>>

\* A blacklist entry for half the lifetime.
RevokeAccess_Half(r) ==
  /\ step[r] = "leaving"
  /\ listed' = [listed EXCEPT ![token[r]] = now + (Lifetime \div 2)]
  /\ out' = out \cup {token[r]}
  /\ GoOn(r, "over")
  /\ UNCHANGED <<now, signed, active, token, late, lapsed, admitted>>

\* RevokeAccessToken, and the logout is answered.
RevokeAccess(r) ==
  /\ step[r] = "leaving"
  /\ listed' = [listed EXCEPT ![token[r]] = now + Lifetime]
  /\ out' = out \cup {token[r]}
  /\ GoOn(r, "over")
  /\ UNCHANGED <<now, signed, active, token, late, lapsed, admitted>>

\* The refresh token has gone or Redis fails, before or after the refresh
\* token was revoked: an error, and the access token stays good.
LogoutFails(r) ==
  /\ step[r] \in {"accepted", "leaving"}
  /\ GoOn(r, "over")
  /\ UNCHANGED <<now, signed, listed, active, token, out, late, lapsed, admitted>>

-----------------------------------------------------------------------------
ANext ==
  \/ Tick
  \/ \E t \in Tokens, u \in Users : Sign(t, u)
  \/ \E u \in Users : ChangeUser(u)
  \/ \E r \in Requests : \/ \E t \in Tokens : Parse(r, t)
                         \/ CheckBlacklist(r) \/ CheckUser(r) \/ Finish(r)
                         \/ RevokeRefresh(r) \/ RevokeAccess(r) \/ LogoutFails(r)

ASpec == AInit /\ [][ANext]_avars

-----------------------------------------------------------------------------
ATypeOK ==
  /\ now \in Nat
  /\ holder \in [Tokens -> Users \cup {NoUser}]
  /\ expiry \in [Tokens -> Nat]
  /\ \A t \in Tokens : expiry[t] <= now + Lifetime
  /\ listed \in [Tokens -> Nat]
  /\ active \subseteq Users
  /\ step \in [Requests -> Steps]
  /\ token \in [Requests -> Tokens \cup {NoToken}]
  /\ \A r \in Requests : step[r] # "idle" => token[r] \in Tokens
  /\ out \subseteq Tokens
  /\ late \subseteq Requests /\ lapsed \subseteq Requests /\ admitted \subseteq Requests

\* A request that comes after the logout of its token was answered is never
\* accepted, however old the token was at the logout and however slow the
\* validation is, except when the token runs out while it is being validated:
\* its blacklist entry may then run out as well before it is read.
LoggedOutRefused == admitted \cap late \subseteq lapsed
=============================================================================
