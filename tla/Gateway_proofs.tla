--------------------------- MODULE Gateway_proofs ---------------------------
(***************************************************************************)
(* Theorems of AccessTokens and Gateway, for any number of users, tokens   *)
(* and requests, any lifetime of a token and any clock.  A blacklist entry *)
(* is written for a full lifetime and so outlives its token (Outlives); a  *)
(* late request that the blacklist has let pass has found the token        *)
(* expired as well.                                                        *)
(***************************************************************************)
EXTENDS Gateway, TLAPS

\* What has been taken back is on the list at least until it expires.
Outlives == \A t \in out : expiry[t] # 0 /\ expiry[t] <= listed[t]

\* Requests in step with the tokens they carry.
RequestsInStep ==
  \A r \in Requests :
    /\ step[r] # "idle" => expiry[token[r]] # 0
    /\ r \in late => step[r] # "idle" /\ token[r] \in out
    /\ r \in late /\ step[r] = "cleared" => r \in lapsed
    /\ r \in admitted => step[r] \in {"accepted", "leaving", "over"}
    /\ step[r] \in {"accepted", "leaving"} => r \in admitted

AInv == ATypeOK /\ Outlives /\ RequestsInStep /\ LoggedOutRefused

\* Only requests that are through with AccessTokens have ends, and a path.
EndsInStep ==
  \A r \in bridged \cup chat \cup peer : step[r] = "over" /\ path[r] \in Users

GInv == AInv /\ GTypeOK /\ EndsInStep /\ ConnectionsAccounted

LEMMA GInitInv == GInit => GInv
BY NoTokenAssumption, LifetimeAssumption, NoRequestAssumption
   DEF GInit, AInit, GInv, AInv, ATypeOK, Outlives, RequestsInStep, LoggedOutRefused,
       GTypeOK, EndsInStep, ConnectionsAccounted, Steps

\* The types of AccessTokens.
LEMMA TokenTypesStep ==
  ASSUME AInv, ANext
  PROVE  ATypeOK'
<1> USE LifetimeAssumption, NoTokenAssumption DEF AInv, ATypeOK, Steps
<1>1. ASSUME Tick PROVE ATypeOK'
  BY <1>1 DEF Tick, signed
<1>2. ASSUME NEW t \in Tokens, NEW u \in Users, Sign(t, u) PROVE ATypeOK'
  BY <1>2 DEF Sign
<1>3. ASSUME NEW u \in Users, ChangeUser(u) PROVE ATypeOK'
  BY <1>3 DEF ChangeUser, signed
<1>4. ASSUME NEW r \in Requests, NEW t \in Tokens, Parse(r, t) PROVE ATypeOK'
  BY <1>4 DEF Parse, GoOn, signed, Expired
<1>5. ASSUME NEW r \in Requests, CheckBlacklist(r) PROVE ATypeOK'
  BY <1>5 DEF CheckBlacklist, GoOn, signed, Expired, Blacklisted
<1>6. ASSUME NEW r \in Requests, CheckUser(r) PROVE ATypeOK'
  BY <1>6 DEF CheckUser, GoOn, signed
<1>7. ASSUME NEW r \in Requests, Finish(r) PROVE ATypeOK'
  BY <1>7 DEF Finish, GoOn, signed
<1>8. ASSUME NEW r \in Requests, RevokeRefresh(r) PROVE ATypeOK'
  BY <1>8 DEF RevokeRefresh, GoOn, signed
<1>9. ASSUME NEW r \in Requests, RevokeAccess(r) PROVE ATypeOK'
  BY <1>9 DEF RevokeAccess, GoOn, signed
<1>10. ASSUME NEW r \in Requests, LogoutFails(r) PROVE ATypeOK'
  BY <1>10 DEF LogoutFails, GoOn, signed
<1> QED BY <1>1, <1>2, <1>3, <1>4, <1>5, <1>6, <1>7, <1>8, <1>9, <1>10
     DEF ANext

\* A blacklist entry outlives its token.
LEMMA OutlivesStep ==
  ASSUME AInv, ANext
  PROVE  Outlives'
<1> USE LifetimeAssumption, NoTokenAssumption DEF AInv, ATypeOK, Outlives,
     RequestsInStep
<1>1. ASSUME Tick PROVE Outlives'
  BY <1>1 DEF Tick, signed
<1>2. ASSUME NEW t \in Tokens, NEW u \in Users, Sign(t, u) PROVE Outlives'
  BY <1>2 DEF Sign
<1>3. ASSUME NEW u \in Users, ChangeUser(u) PROVE Outlives'
  BY <1>3 DEF ChangeUser, signed
<1>4. ASSUME NEW r \in Requests, NEW t \in Tokens, Parse(r, t) PROVE Outlives'
  BY <1>4 DEF Parse, GoOn, signed, Expired
<1>5. ASSUME NEW r \in Requests, CheckBlacklist(r) PROVE Outlives'
  BY <1>5 DEF CheckBlacklist, GoOn, signed, Expired, Blacklisted
<1>6. ASSUME NEW r \in Requests, CheckUser(r) PROVE Outlives'
  BY <1>6 DEF CheckUser, GoOn, signed
<1>7. ASSUME NEW r \in Requests, Finish(r) PROVE Outlives'
  BY <1>7 DEF Finish, GoOn, signed
<1>8. ASSUME NEW r \in Requests, RevokeRefresh(r) PROVE Outlives'
  BY <1>8 DEF RevokeRefresh, GoOn, signed
<1>9. ASSUME NEW r \in Requests, RevokeAccess(r) PROVE Outlives'
  BY <1>9 DEF RevokeAccess, GoOn, signed
<1>10. ASSUME NEW r \in Requests, LogoutFails(r) PROVE Outlives'
  BY <1>10 DEF LogoutFails, GoOn, signed
<1> QED BY <1>1, <1>2, <1>3, <1>4, <1>5, <1>6, <1>7, <1>8, <1>9, <1>10
     DEF ANext

\* Requests keep in step.
LEMMA RequestsStep ==
  ASSUME AInv, ANext
  PROVE  RequestsInStep'
<1> USE LifetimeAssumption, NoTokenAssumption DEF AInv, ATypeOK, Outlives,
     RequestsInStep, Steps
<1>1. ASSUME Tick PROVE RequestsInStep'
  BY <1>1 DEF Tick, signed
<1>2. ASSUME NEW t \in Tokens, NEW u \in Users, Sign(t, u) PROVE RequestsInStep'
  BY <1>2 DEF Sign
<1>3. ASSUME NEW u \in Users, ChangeUser(u) PROVE RequestsInStep'
  BY <1>3 DEF ChangeUser, signed
<1>4. ASSUME NEW r \in Requests, NEW t \in Tokens, Parse(r, t) PROVE RequestsInStep'
  BY <1>4 DEF Parse, GoOn, signed, Expired
<1>5. ASSUME NEW r \in Requests, CheckBlacklist(r) PROVE RequestsInStep'
  BY <1>5 DEF CheckBlacklist, GoOn, signed, Expired, Blacklisted
<1>6. ASSUME NEW r \in Requests, CheckUser(r) PROVE RequestsInStep'
  BY <1>6 DEF CheckUser, GoOn, signed
<1>7. ASSUME NEW r \in Requests, Finish(r) PROVE RequestsInStep'
  BY <1>7 DEF Finish, GoOn, signed
<1>8. ASSUME NEW r \in Requests, RevokeRefresh(r) PROVE RequestsInStep'
  BY <1>8 DEF RevokeRefresh, GoOn, signed
<1>9. ASSUME NEW r \in Requests, RevokeAccess(r) PROVE RequestsInStep'
  BY <1>9 DEF RevokeAccess, GoOn, signed
<1>10. ASSUME NEW r \in Requests, LogoutFails(r) PROVE RequestsInStep'
  BY <1>10 DEF LogoutFails, GoOn, signed
<1> QED BY <1>1, <1>2, <1>3, <1>4, <1>5, <1>6, <1>7, <1>8, <1>9, <1>10
     DEF ANext

\* A late request is refused or lapsed.
LEMMA RefusedStep ==
  ASSUME AInv, ANext
  PROVE  LoggedOutRefused'
<1> USE LifetimeAssumption, NoTokenAssumption DEF AInv, ATypeOK, RequestsInStep,
     LoggedOutRefused
<1>1. ASSUME Tick PROVE LoggedOutRefused'
  BY <1>1 DEF Tick, signed
<1>2. ASSUME NEW t \in Tokens, NEW u \in Users, Sign(t, u) PROVE LoggedOutRefused'
  BY <1>2 DEF Sign
<1>3. ASSUME NEW u \in Users, ChangeUser(u) PROVE LoggedOutRefused'
  BY <1>3 DEF ChangeUser, signed
<1>4. ASSUME NEW r \in Requests, NEW t \in Tokens, Parse(r, t)
     PROVE LoggedOutRefused'
  BY <1>4 DEF Parse, GoOn, signed, Expired
<1>5. ASSUME NEW r \in Requests, CheckBlacklist(r) PROVE LoggedOutRefused'
  BY <1>5 DEF CheckBlacklist, GoOn, signed, Expired, Blacklisted
<1>6. ASSUME NEW r \in Requests, CheckUser(r) PROVE LoggedOutRefused'
  BY <1>6 DEF CheckUser, GoOn, signed
<1>7. ASSUME NEW r \in Requests, Finish(r) PROVE LoggedOutRefused'
  BY <1>7 DEF Finish, GoOn, signed
<1>8. ASSUME NEW r \in Requests, RevokeRefresh(r) PROVE LoggedOutRefused'
  BY <1>8 DEF RevokeRefresh, GoOn, signed
<1>9. ASSUME NEW r \in Requests, RevokeAccess(r) PROVE LoggedOutRefused'
  BY <1>9 DEF RevokeAccess, GoOn, signed
<1>10. ASSUME NEW r \in Requests, LogoutFails(r) PROVE LoggedOutRefused'
  BY <1>10 DEF LogoutFails, GoOn, signed
<1> QED BY <1>1, <1>2, <1>3, <1>4, <1>5, <1>6, <1>7, <1>8, <1>9, <1>10
     DEF ANext

LEMMA TokensStep ==
  ASSUME AInv, ANext
  PROVE  AInv'
BY TokenTypesStep, OutlivesStep, RequestsStep, RefusedStep DEF AInv

\* AccessTokens does not notice what happens to a bridge.
LEMMA TokensStutter ==
  ASSUME AInv, UNCHANGED avars
  PROVE  AInv'
BY DEF AInv, avars, signed, ATypeOK, Outlives, RequestsInStep, LoggedOutRefused

\* The handlers of services/auth leave the bridges as they are.
LEMMA BridgesStutter ==
  ASSUME GInv, ANext, UNCHANGED bridge
  PROVE  GTypeOK' /\ EndsInStep' /\ ConnectionsAccounted'
<1> USE DEF GInv, AInv, GTypeOK, EndsInStep, ConnectionsAccounted, bridge
<1>1. ATypeOK'
  BY TokenTypesStep
<1>2. admitted \subseteq admitted' /\ \A q \in Requests : step[q] = "over" => step'[q] = "over"
  <2>1. step \in [Requests -> Steps]
    BY DEF ATypeOK
  <2>2. ASSUME Tick
        PROVE  admitted \subseteq admitted'
             /\ \A q \in Requests : step[q] = "over" => step'[q] = "over"
    BY <2>1, <2>2 DEF Tick, signed
  <2>3. ASSUME NEW t \in Tokens, NEW u \in Users, Sign(t, u)
        PROVE  admitted \subseteq admitted'
             /\ \A q \in Requests : step[q] = "over" => step'[q] = "over"
    BY <2>1, <2>3 DEF Sign
  <2>4. ASSUME NEW u \in Users, ChangeUser(u)
        PROVE  admitted \subseteq admitted'
             /\ \A q \in Requests : step[q] = "over" => step'[q] = "over"
    BY <2>1, <2>4 DEF ChangeUser, signed
  <2>5. ASSUME NEW r \in Requests, NEW t \in Tokens, Parse(r, t)
        PROVE  admitted \subseteq admitted'
             /\ \A q \in Requests : step[q] = "over" => step'[q] = "over"
    BY <2>1, <2>5 DEF Parse, GoOn, signed, Expired
  <2>6. ASSUME NEW r \in Requests, CheckBlacklist(r)
        PROVE  admitted \subseteq admitted'
             /\ \A q \in Requests : step[q] = "over" => step'[q] = "over"
    BY <2>1, <2>6 DEF CheckBlacklist, GoOn, signed, Expired, Blacklisted
  <2>7. ASSUME NEW r \in Requests, CheckUser(r)
        PROVE  admitted \subseteq admitted'
             /\ \A q \in Requests : step[q] = "over" => step'[q] = "over"
    BY <2>1, <2>7 DEF CheckUser, GoOn, signed
  <2>8. ASSUME NEW r \in Requests, Finish(r)
        PROVE  admitted \subseteq admitted'
             /\ \A q \in Requests : step[q] = "over" => step'[q] = "over"
    BY <2>1, <2>8 DEF Finish, GoOn, signed
  <2>9. ASSUME NEW r \in Requests, RevokeRefresh(r)
        PROVE  admitted \subseteq admitted'
             /\ \A q \in Requests : step[q] = "over" => step'[q] = "over"
    BY <2>1, <2>9 DEF RevokeRefresh, GoOn, signed
  <2>10. ASSUME NEW r \in Requests, RevokeAccess(r)
        PROVE  admitted \subseteq admitted'
             /\ \A q \in Requests : step[q] = "over" => step'[q] = "over"
    BY <2>1, <2>10 DEF RevokeAccess, GoOn, signed
  <2>11. ASSUME NEW r \in Requests, LogoutFails(r)
        PROVE  admitted \subseteq admitted'
             /\ \A q \in Requests : step[q] = "over" => step'[q] = "over"
    BY <2>1, <2>11 DEF LogoutFails, GoOn, signed
  <2> QED BY <2>2, <2>3, <2>4, <2>5, <2>6, <2>7, <2>8, <2>9, <2>10, <2>11 DEF ANext
<1>3. EndsInStep'
  <2>1. \A q \in bridged \cup chat \cup peer : q \in Requests
    BY DEF EndsInStep, ATypeOK
  <2> QED BY <1>2, <2>1
<1> QED BY <1>1, <1>2, <1>3

\* Connections stay accounted for when one opens or ends.
LEMMA BridgeStep ==
  ASSUME GInv, NEW r \in Requests,
         (\E u \in Users : Connect(r, u)) \/ EndStep(r) \/ ForwarderStep(r) \/ Return(r)
  PROVE  (AInv /\ GTypeOK /\ EndsInStep /\ ConnectionsAccounted)'
<1> USE LifetimeAssumption, NoTokenAssumption, NoRequestAssumption DEF GInv, AInv,
     ATypeOK, Outlives, RequestsInStep, LoggedOutRefused, GTypeOK, EndsInStep,
     ConnectionsAccounted, Steps
<1>1. ASSUME NEW u \in Users, Connect(r, u)
     PROVE (AInv /\ GTypeOK /\ EndsInStep /\ ConnectionsAccounted)'
  BY <1>1 DEF Connect, Open, GoOn, signed
<1>2. ASSUME ClientLeaves(r)
     PROVE (AInv /\ GTypeOK /\ EndsInStep /\ ConnectionsAccounted)'
  BY <1>2 DEF ClientLeaves, avars, signed
<1>3. ASSUME PeerLeaves(r)
     PROVE (AInv /\ GTypeOK /\ EndsInStep /\ ConnectionsAccounted)'
  BY <1>3 DEF PeerLeaves, avars, signed
<1>4. ASSUME UpEnds(r)
     PROVE (AInv /\ GTypeOK /\ EndsInStep /\ ConnectionsAccounted)'
  BY <1>4 DEF UpEnds, avars, signed
<1>5. ASSUME DownEnds(r)
     PROVE (AInv /\ GTypeOK /\ EndsInStep /\ ConnectionsAccounted)'
  BY <1>5 DEF DownEnds, avars, signed
<1>6. ASSUME Return(r)
     PROVE (AInv /\ GTypeOK /\ EndsInStep /\ ConnectionsAccounted)'
  BY <1>6 DEF Return, avars, signed
<1> QED BY <1>1, <1>2, <1>3, <1>4, <1>5, <1>6
     DEF EndStep, ForwarderStep, UpReadFails, UpWriteFails, DownReadFails, DownWriteFails

LEMMA GInvInductive == GInv /\ [GNext]_gvars => GInv'
<1> SUFFICES ASSUME GInv, [GNext]_gvars PROVE GInv'
  OBVIOUS
<1>1. CASE ANext /\ UNCHANGED bridge
  BY <1>1, TokensStep, BridgesStutter DEF GInv
<1>2. ASSUME NEW r \in Requests,
             (\E u \in Users : Connect(r, u)) \/ EndStep(r) \/ ForwarderStep(r) \/ Return(r)
      PROVE  GInv'
  BY <1>2, BridgeStep DEF GInv
<1>3. CASE UNCHANGED gvars
  BY <1>3, TokensStutter DEF GInv, gvars, avars, signed, bridge, GTypeOK, AInv,
       EndsInStep,
     ConnectionsAccounted
<1> QED BY <1>1, <1>2, <1>3 DEF GNext

LEMMA GInvHolds == GSpec => []GInv
BY GInitInv, GInvInductive, PTL DEF GSpec

-----------------------------------------------------------------------------
\* Tokens, requests and bridges keep their types; in particular only requests
\* that services/auth has accepted are bridged.
THEOREM GTypeCorrect == GSpec => []GTypeOK
<1>1. GInv => GTypeOK
  BY DEF GInv
<1> QED BY <1>1, GInvHolds, PTL

\* Whatever the lifetime and however slow the validation is, a logout that
\* has been answered ends the access token.
THEOREM LogoutEndsToken == GSpec => []LoggedOutRefused
<1>1. GInv => LoggedOutRefused
  BY DEF GInv, AInv
<1> QED BY <1>1, GInvHolds, PTL

\* Of any number of connections of a user, only those that were replaced can
\* leave their chat end open without being registered.
THEOREM ConnectionsStayAccounted == GSpec => []ConnectionsAccounted
<1>1. GInv => ConnectionsAccounted
  BY DEF GInv
<1> QED BY <1>1, GInvHolds, PTL

\* services/auth behaves under the gateway as AccessTokens says: a bridge
\* that opens is an accepted request that is served.
THEOREM GatewayUsesAccessTokens == GSpec => ASpec
<1>1. GInit => AInit
  BY DEF GInit
<1>2. GInv /\ [GNext]_gvars => [ANext]_avars
  <2> SUFFICES ASSUME GInv, [GNext]_gvars PROVE [ANext]_avars
    OBVIOUS
  <2>1. ASSUME NEW r \in Requests, NEW u \in Users, Connect(r, u) PROVE ANext
    <3>1. Finish(r)
      BY <2>1 DEF Connect, Open, Finish
    <3> QED BY <3>1 DEF ANext
  <2>2. ASSUME NEW r \in Requests, EndStep(r) \/ ForwarderStep(r) \/ Return(r)
       PROVE UNCHANGED avars
    BY <2>2 DEF EndStep, ForwarderStep, Return, ClientLeaves, PeerLeaves,
         UpReadFails,
       UpWriteFails, DownReadFails, DownWriteFails, UpEnds, DownEnds
  <2>3. CASE UNCHANGED gvars
    BY <2>3 DEF gvars
  <2> QED BY <2>1, <2>2, <2>3 DEF GNext
<1> QED BY <1>1, <1>2, GInvHolds, PTL DEF GSpec, ASpec
=============================================================================
