------------------------ MODULE AuthSessions_proofs ------------------------
(***************************************************************************)
(* Safety of the refresh-token sessions of AuthSessions, for every set of  *)
(* users and tokens and every number of requests served at once.           *)
(*                                                                         *)
(* IInv is inductive.  Its parts say where each handler stands (Position), *)
(* that a live token has no successor (LiveIsEnd), what a rotation between *)
(* two of its commands relies on (Rotating), that a granted token is in    *)
(* the index of its family (Indexed), that what is being stored is not     *)
(* granted yet (Fresh), and what a family revocation has still to do       *)
(* (Revoking).                                                             *)
(***************************************************************************)
EXTENDS LogoutAll, TLAPS

\* The data a handler carries at each of its steps.
Position ==
  /\ req["login"] = NoToken
  /\ pc["login"] \in {"idle", "set", "sadd_user", "sadd_family"}
  /\ pc["login"] # "idle" => who["login"] \in Users
  /\ pc["login"] \in {"sadd_user", "sadd_family"} => cur["login"] \in Stored
  /\ pc["refresh"] # "del"
  /\ pc["refresh"] # "idle" => req["refresh"] \in granted
  /\ pc["refresh"] \in {"smembers", "next"} => theft
  /\ theft => pc["refresh"] \in {"smembers", "next", "get", "revoke"}
  /\ pc["refresh"] \in {"get", "revoke", "sadd_user", "sadd_family"} => cur["refresh"] \in Stored
  /\ pc["refresh"] \in {"get", "revoke"} /\ ~theft => cur["refresh"] = req["refresh"]
  /\ pc["logout"] \in {"idle", "get", "revoke"}
  /\ pc["logout"] # "idle" => cur["logout"] \in Stored
  /\ \A s \in Purgers : pc[s] \in {"idle", "smembers", "del"} /\ (pc[s] # "idle" => who[s] \in Users)

\* Ids that were never stored have no key, no predecessor and no family.
Unstored ==
  \A t \in Tokens \ Stored : tok[t] = "absent" /\ prev[t] = NoToken

\* A predecessor is a stored id.
PrevStored == \A t \in Tokens : prev[t] \in Stored \cup {NoToken}

\* A live token has not been rotated.
LiveIsEnd == \A x, y \in Tokens : Live(x) => prev[y] # x

\* A rotation owns the end of its chain, and mints once that end is dead.
Rotating ==
  /\ pc["refresh"] \in {"check_user", "rotate", "get", "revoke", "set"} /\ ~theft =>
       /\ \A y \in Tokens : prev[y] # req["refresh"]
       /\ fam[req["refresh"]] \notin compromised
  /\ pc["refresh"] = "set" => ~Live(req["refresh"])
  /\ pc["refresh"] \in {"sadd_user", "sadd_family"} =>
       /\ fam[cur["refresh"]] = fam[req["refresh"]]
       /\ fam[cur["refresh"]] \notin compromised

\* A granted token is in the index of its family; the family's first token
\* is granted too.
Indexed ==
  /\ \A t \in granted : t \in famIdx[fam[t]] /\ fam[t] \in granted
  /\ compromised \subseteq granted

\* A token whose pipeline still runs is not granted; a login's begins its
\* own family.
Storing(s) == pc[s] \in {"sadd_user", "sadd_family"}
Fresh ==
  /\ \A s \in Minters : Storing(s) => cur[s] \notin granted
  /\ Storing("login") => fam[cur["login"]] = cur["login"]
  /\ Storing("login") /\ Storing("refresh") => cur["login"] # cur["refresh"]

\* A family revocation without errors so far has every live token of the
\* family still before it.
Revoking ==
  theft /\ clean /\ pc["refresh"] \in {"next", "get", "revoke"} =>
    \A x \in granted : fam[x] = fam[req["refresh"]] /\ Live(x) =>
      x \in todo["refresh"] \/ (pc["refresh"] # "next" /\ x = cur["refresh"])

IInv == /\ TypeOK /\ Position /\ Unstored /\ PrevStored /\ LiveIsEnd
        /\ Rotating /\ Indexed /\ Fresh /\ Revoking /\ CompromisedDead

-----------------------------------------------------------------------------
USE DEF Handlers, Purgers, Minters, Revokers, Stored, Live

LEMMA InitIInv == Init => IInv
<1> SUFFICES ASSUME Init PROVE IInv
  OBVIOUS
<1>1. TypeOK
  BY NoTokenAssumption DEF Init, TypeOK, KeyStates, Steps
<1>2. Position
  BY NoTokenAssumption DEF Init, Position
<1>3. Unstored
  BY NoTokenAssumption DEF Init, Unstored
<1>4. PrevStored
  BY NoTokenAssumption DEF Init, PrevStored
<1>5. LiveIsEnd
  BY NoTokenAssumption DEF Init, LiveIsEnd
<1>6. Rotating
  BY NoTokenAssumption DEF Init, Rotating, Storing
<1>7. Indexed
  BY NoTokenAssumption DEF Init, Indexed
<1>8. Fresh
  BY NoTokenAssumption DEF Init, Fresh, Storing
<1>9. Revoking
  BY NoTokenAssumption DEF Init, Revoking
<1>10. CompromisedDead
  BY NoTokenAssumption DEF Init, CompromisedDead
<1> QED
  BY <1>1, <1>2, <1>3, <1>4, <1>5, <1>6, <1>7, <1>8, <1>9, <1>10 DEF IInv

\* A handler that has returned carries no data.
LEMMA ReturnPosition ==
  ASSUME TypeOK, Position, NEW s \in Handlers, Return(s), UNCHANGED <<fam, granted>>
  PROVE  Position'
  BY NoTokenAssumption DEF TypeOK, Position, Return, Goto

-----------------------------------------------------------------------------
\* One lemma per action: IInv is preserved.  The parts whose variables an
\* action leaves alone come first, the parts it can disturb one by one.

LEMMA AbortIInv ==
  ASSUME IInv, NEW s \in Handlers, Abort(s)
  PROVE  IInv'
<1>1. Unstored' /\ PrevStored' /\ LiveIsEnd' /\ Indexed' /\ CompromisedDead'
  BY DEF IInv, Abort, redis, history, Unstored, PrevStored, LiveIsEnd,
     Indexed, CompromisedDead
<1>2. TypeOK'
  BY DEF IInv, TypeOK, Position, KeyStates, Steps, Abort, At, Return, Goto,
     redis, history
<1>3. Position'
  BY ReturnPosition DEF IInv, Abort, redis, history
<1>4. Rotating'
  BY DEF IInv, Rotating, TypeOK, Position, LiveIsEnd, CompromisedDead,
     Storing, Abort, At, Return, Goto, redis, history
<1>5. Fresh'
  BY DEF IInv, Fresh, TypeOK, Position, Indexed, Storing, Abort, At, Return,
     Goto, redis, history
<1>6. Revoking'
  BY DEF IInv, Revoking, TypeOK, Position, Indexed, Fresh, Storing, Abort,
     At, Return, Goto, redis, history
<1> QED
  BY <1>1, <1>2, <1>3, <1>4, <1>5, <1>6 DEF IInv

LEMMA LoginIInv ==
  ASSUME IInv, NEW u \in Users, Login(u)
  PROVE  IInv'
<1>1. Unstored' /\ PrevStored' /\ LiveIsEnd' /\ Indexed' /\ CompromisedDead'
  BY DEF IInv, Login, redis, history, Unstored, PrevStored, LiveIsEnd,
     Indexed, CompromisedDead
<1>2. TypeOK'
  BY DEF IInv, TypeOK, Position, KeyStates, Steps, Login, Accepts, At, Goto,
     redis, history
<1>3. Position'
  BY NoTokenAssumption DEF IInv, Position, TypeOK, Login, Accepts, At, Goto,
     redis, history
<1>4. Rotating'
  BY DEF IInv, Rotating, TypeOK, Position, LiveIsEnd, CompromisedDead,
     Storing, Login, Accepts, At, Goto, redis, history
<1>5. Fresh'
  BY DEF IInv, Fresh, TypeOK, Position, Indexed, Storing, Login, Accepts,
     At, Goto, redis, history
<1>6. Revoking'
  BY DEF IInv, Revoking, TypeOK, Position, Indexed, Fresh, Storing, Login,
     Accepts, At, Goto, redis, history
<1> QED
  BY <1>1, <1>2, <1>3, <1>4, <1>5, <1>6 DEF IInv

LEMMA StoreTokenIInv ==
  ASSUME IInv, NEW s \in Minters, StoreToken(s)
  PROVE  IInv'
<1>1. TypeOK'
  BY NoTokenAssumption DEF IInv, TypeOK, Position, KeyStates, Steps,
     StoreToken, NewFamily, Previous, At, Goto, history
<1>2. Position'
  BY NoTokenAssumption DEF IInv, Position, TypeOK, StoreToken, NewFamily,
     Previous, At, Goto, history
<1>3. Unstored'
  BY NoTokenAssumption DEF IInv, Unstored, TypeOK, Position, StoreToken,
     NewFamily, Previous, At, Goto, history
<1>4. PrevStored'
  BY NoTokenAssumption DEF IInv, PrevStored, TypeOK, Position, Unstored,
     StoreToken, NewFamily, Previous, At, Goto, history
<1>5. LiveIsEnd'
  BY NoTokenAssumption DEF IInv, LiveIsEnd, TypeOK, Position, Unstored,
     PrevStored, Rotating, StoreToken, NewFamily, Previous, At, Goto,
     history
<1>6. Rotating'
  BY NoTokenAssumption DEF IInv, Rotating, TypeOK, Position, LiveIsEnd,
     CompromisedDead, Storing, StoreToken, NewFamily, Previous, At, Goto,
     history
<1>7. Indexed'
  BY NoTokenAssumption DEF IInv, Indexed, TypeOK, Position, Fresh, Rotating,
     Storing, StoreToken, NewFamily, Previous, At, Goto, history
<1>8. Fresh'
  BY NoTokenAssumption DEF IInv, Fresh, TypeOK, Position, Indexed, Storing,
     StoreToken, NewFamily, Previous, At, Goto, history
<1>9. Revoking'
  BY NoTokenAssumption DEF IInv, Revoking, TypeOK, Position, Indexed, Fresh,
     Storing, StoreToken, NewFamily, Previous, At, Goto, history
<1>10. CompromisedDead'
  BY NoTokenAssumption DEF IInv, CompromisedDead, TypeOK, Position, Indexed,
     Fresh, Rotating, Revoking, Storing, StoreToken, NewFamily, Previous,
     At, Goto, history
<1> QED
  BY <1>1, <1>2, <1>3, <1>4, <1>5, <1>6, <1>7, <1>8, <1>9, <1>10 DEF IInv

LEMMA IndexUserIInv ==
  ASSUME IInv, NEW s \in Minters, IndexUser(s)
  PROVE  IInv'
<1>1. Unstored' /\ PrevStored' /\ LiveIsEnd' /\ Indexed' /\ CompromisedDead'
  BY DEF IInv, IndexUser, history, Unstored, PrevStored, LiveIsEnd, Indexed,
     CompromisedDead
<1>2. TypeOK'
  BY DEF IInv, TypeOK, Position, KeyStates, Steps, IndexUser, At, Goto,
     history
<1>3. Position'
  BY NoTokenAssumption DEF IInv, Position, TypeOK, IndexUser, At, Goto,
     history
<1>4. Rotating'
  BY DEF IInv, Rotating, TypeOK, Position, LiveIsEnd, CompromisedDead,
     Storing, IndexUser, At, Goto, history
<1>5. Fresh'
  BY DEF IInv, Fresh, TypeOK, Position, Indexed, Storing, IndexUser, At,
     Goto, history
<1>6. Revoking'
  BY DEF IInv, Revoking, TypeOK, Position, Indexed, Fresh, Storing,
     IndexUser, At, Goto, history
<1> QED
  BY <1>1, <1>2, <1>3, <1>4, <1>5, <1>6 DEF IInv

LEMMA IndexFamilyIInv ==
  ASSUME IInv, NEW s \in Minters, IndexFamily(s)
  PROVE  IInv'
<1>1. Unstored' /\ PrevStored' /\ LiveIsEnd'
  BY DEF IInv, IndexFamily, Unstored, PrevStored, LiveIsEnd
<1>2. TypeOK'
  BY DEF IInv, TypeOK, Position, KeyStates, Steps, IndexFamily, At, Return,
     Goto
<1>3. Position'
  BY NoTokenAssumption DEF IInv, Position, TypeOK, IndexFamily, At, Return,
     Goto
<1>4. Rotating'
  BY DEF IInv, Rotating, TypeOK, Position, LiveIsEnd, CompromisedDead,
     Storing, IndexFamily, At, Return, Goto
<1>5. Indexed'
  BY DEF IInv, Indexed, TypeOK, Position, Fresh, Rotating, Storing,
     IndexFamily, At, Return, Goto
<1>6. Fresh'
  BY DEF IInv, Fresh, TypeOK, Position, Indexed, Storing, IndexFamily, At,
     Return, Goto
<1>7. Revoking'
  <2>1. CASE s = "login"
    BY <2>1, NoTokenAssumption DEF IInv, TypeOK, Position, Indexed, Fresh,
       Storing, Revoking, IndexFamily, At, Goto, Return
  <2>2. CASE s = "refresh"
    BY <2>2, NoTokenAssumption DEF IInv, TypeOK, Position, Indexed, Fresh,
       Storing, Revoking, IndexFamily, At, Goto, Return
  <2> QED
    BY <2>1, <2>2 DEF Minters
<1>8. CompromisedDead'
  BY DEF IInv, CompromisedDead, TypeOK, Position, Indexed, Fresh, Rotating,
     Revoking, Storing, IndexFamily, At, Return, Goto
<1> QED
  BY <1>1, <1>2, <1>3, <1>4, <1>5, <1>6, <1>7, <1>8 DEF IInv

LEMMA RefreshIInv ==
  ASSUME IInv, NEW t \in Tokens, Refresh(t)
  PROVE  IInv'
<1>1. Unstored' /\ PrevStored' /\ LiveIsEnd' /\ Indexed' /\ CompromisedDead'
  BY DEF IInv, Refresh, redis, history, Unstored, PrevStored, LiveIsEnd,
     Indexed, CompromisedDead
<1>2. TypeOK'
  BY DEF IInv, TypeOK, Position, KeyStates, Steps, Refresh, Accepts, At,
     Goto, redis, history
<1>3. Position'
  BY NoTokenAssumption DEF IInv, Position, TypeOK, Refresh, Accepts, At,
     Goto, redis, history
<1>4. Rotating'
  BY DEF IInv, Rotating, TypeOK, Position, LiveIsEnd, CompromisedDead,
     Storing, Refresh, Accepts, At, Goto, redis, history
<1>5. Fresh'
  BY DEF IInv, Fresh, TypeOK, Position, Indexed, Storing, Refresh, Accepts,
     At, Goto, redis, history
<1>6. Revoking'
  BY DEF IInv, Revoking, TypeOK, Position, Indexed, Fresh, Storing, Refresh,
     Accepts, At, Goto, redis, history
<1> QED
  BY <1>1, <1>2, <1>3, <1>4, <1>5, <1>6 DEF IInv

LEMMA RejectDeadIInv ==
  ASSUME IInv, RejectDead
  PROVE  IInv'
<1>1. Unstored' /\ PrevStored' /\ LiveIsEnd' /\ Indexed' /\ CompromisedDead'
  BY DEF IInv, RejectDead, redis, history, Unstored, PrevStored, LiveIsEnd,
     Indexed, CompromisedDead
<1>2. TypeOK'
  BY DEF IInv, TypeOK, Position, KeyStates, Steps, RejectDead, At, Return,
     Goto, redis, history
<1>3. Position'
  BY ReturnPosition DEF IInv, RejectDead, redis, history
<1>4. Rotating'
  BY DEF IInv, Rotating, TypeOK, Position, LiveIsEnd, CompromisedDead,
     Storing, RejectDead, At, Return, Goto, redis, history
<1>5. Fresh'
  BY DEF IInv, Fresh, TypeOK, Position, Indexed, Storing, RejectDead, At,
     Return, Goto, redis, history
<1>6. Revoking'
  BY DEF IInv, Revoking, TypeOK, Position, Indexed, Fresh, Storing,
     RejectDead, At, Return, Goto, redis, history
<1> QED
  BY <1>1, <1>2, <1>3, <1>4, <1>5, <1>6 DEF IInv

LEMMA AcceptLiveIInv ==
  ASSUME IInv, AcceptLive
  PROVE  IInv'
<1>1. Unstored' /\ PrevStored' /\ LiveIsEnd' /\ Indexed' /\ CompromisedDead'
  BY DEF IInv, AcceptLive, redis, history, Unstored, PrevStored, LiveIsEnd,
     Indexed, CompromisedDead
<1>2. TypeOK'
  BY DEF IInv, TypeOK, Position, KeyStates, Steps, AcceptLive, At, Goto,
     redis, history
<1>3. Position'
  BY NoTokenAssumption DEF IInv, Position, TypeOK, AcceptLive, At, Goto,
     redis, history
<1>4. Rotating'
  BY DEF IInv, Rotating, TypeOK, Position, LiveIsEnd, CompromisedDead,
     Storing, AcceptLive, At, Goto, redis, history
<1>5. Fresh'
  BY DEF IInv, Fresh, TypeOK, Position, Indexed, Storing, AcceptLive, At,
     Goto, redis, history
<1>6. Revoking'
  BY DEF IInv, Revoking, TypeOK, Position, Indexed, Fresh, Storing,
     AcceptLive, At, Goto, redis, history
<1> QED
  BY <1>1, <1>2, <1>3, <1>4, <1>5, <1>6 DEF IInv

LEMMA RejectFingerprintIInv ==
  ASSUME IInv, RejectFingerprint
  PROVE  IInv'
<1>1. Unstored' /\ PrevStored' /\ LiveIsEnd' /\ Indexed' /\ CompromisedDead'
  BY DEF IInv, RejectFingerprint, redis, history, Unstored, PrevStored,
     LiveIsEnd, Indexed, CompromisedDead
<1>2. TypeOK'
  BY DEF IInv, TypeOK, Position, KeyStates, Steps, RejectFingerprint, At,
     Goto, redis, history
<1>3. Position'
  BY NoTokenAssumption DEF IInv, Position, TypeOK, RejectFingerprint, At,
     Goto, redis, history
<1>4. Rotating'
  BY DEF IInv, Rotating, TypeOK, Position, LiveIsEnd, CompromisedDead,
     Storing, RejectFingerprint, At, Goto, redis, history
<1>5. Fresh'
  BY DEF IInv, Fresh, TypeOK, Position, Indexed, Storing, RejectFingerprint,
     At, Goto, redis, history
<1>6. Revoking'
  BY DEF IInv, Revoking, TypeOK, Position, Indexed, Fresh, Storing,
     RejectFingerprint, At, Goto, redis, history
<1> QED
  BY <1>1, <1>2, <1>3, <1>4, <1>5, <1>6 DEF IInv

LEMMA CheckUserIInv ==
  ASSUME IInv, CheckUser
  PROVE  IInv'
<1>1. Unstored' /\ PrevStored' /\ LiveIsEnd' /\ Indexed' /\ CompromisedDead'
  BY DEF IInv, CheckUser, redis, history, Unstored, PrevStored, LiveIsEnd,
     Indexed, CompromisedDead
<1>2. TypeOK'
  BY DEF IInv, TypeOK, Position, KeyStates, Steps, CheckUser, At, Return,
     Goto, redis, history
<1>3. Position'
  <2>1. CASE Return("refresh")
    BY <2>1, NoTokenAssumption DEF IInv, Position, TypeOK, CheckUser, At,
       Goto, Return, redis, history
  <2>2. CASE Goto("refresh", "rotate") /\ UNCHANGED <<req, who, cur, todo, theft, clean>>
    BY <2>2, NoTokenAssumption DEF IInv, Position, TypeOK, CheckUser, At,
       Goto, Return, redis, history
  <2> QED
    BY <2>1, <2>2 DEF CheckUser
<1>4. Rotating'
  BY DEF IInv, Rotating, TypeOK, Position, LiveIsEnd, CompromisedDead,
     Storing, CheckUser, At, Return, Goto, redis, history
<1>5. Fresh'
  BY DEF IInv, Fresh, TypeOK, Position, Indexed, Storing, CheckUser, At,
     Return, Goto, redis, history
<1>6. Revoking'
  BY DEF IInv, Revoking, TypeOK, Position, Indexed, Fresh, Storing,
     CheckUser, At, Return, Goto, redis, history
<1> QED
  BY <1>1, <1>2, <1>3, <1>4, <1>5, <1>6 DEF IInv

LEMMA RotateIInv ==
  ASSUME IInv, Rotate
  PROVE  IInv'
<1>1. Unstored' /\ PrevStored' /\ LiveIsEnd' /\ Indexed' /\ CompromisedDead'
  BY DEF IInv, Rotate, redis, history, Unstored, PrevStored, LiveIsEnd,
     Indexed, CompromisedDead
<1>2. TypeOK'
  BY DEF IInv, TypeOK, Position, KeyStates, Steps, Rotate, At, Return, Goto,
     IsRevoked, redis, history
<1>3. Position'
  <2>1. CASE tok[req["refresh"]] = "absent"
    BY <2>1, NoTokenAssumption DEF IInv, Position, TypeOK, Rotate,
       IsRevoked, At, Goto, Return, redis, history
  <2>2. CASE IsRevoked(req["refresh"])
    BY <2>2, NoTokenAssumption DEF IInv, Position, TypeOK, Rotate,
       IsRevoked, At, Goto, Return, redis, history
  <2>3. CASE Live(req["refresh"])
    BY <2>3, NoTokenAssumption DEF IInv, Position, TypeOK, Rotate,
       IsRevoked, At, Goto, Return, redis, history
  <2> QED
    BY <2>1, <2>2, <2>3 DEF Rotate
<1>4. Rotating'
  BY DEF IInv, Rotating, TypeOK, Position, LiveIsEnd, CompromisedDead,
     Storing, Rotate, At, Return, Goto, IsRevoked, redis, history
<1>5. Fresh'
  BY DEF IInv, Fresh, TypeOK, Position, Indexed, Storing, Rotate, At,
     Return, Goto, IsRevoked, redis, history
<1>6. Revoking'
  BY DEF IInv, Revoking, TypeOK, Position, Indexed, Fresh, Storing, Rotate,
     At, Return, Goto, IsRevoked, redis, history
<1> QED
  BY <1>1, <1>2, <1>3, <1>4, <1>5, <1>6 DEF IInv

LEMMA LogoutIInv ==
  ASSUME IInv, NEW t \in Tokens, Logout(t)
  PROVE  IInv'
<1>1. Unstored' /\ PrevStored' /\ LiveIsEnd' /\ Indexed' /\ CompromisedDead'
  BY DEF IInv, Logout, redis, history, Unstored, PrevStored, LiveIsEnd,
     Indexed, CompromisedDead
<1>2. TypeOK'
  BY DEF IInv, TypeOK, Position, KeyStates, Steps, Logout, Accepts, At,
     Goto, redis, history
<1>3. Position'
  BY NoTokenAssumption DEF IInv, Position, TypeOK, Logout, Accepts, At,
     Goto, redis, history
<1>4. Rotating'
  BY DEF IInv, Rotating, TypeOK, Position, LiveIsEnd, CompromisedDead,
     Storing, Logout, Accepts, At, Goto, redis, history
<1>5. Fresh'
  BY DEF IInv, Fresh, TypeOK, Position, Indexed, Storing, Logout, Accepts,
     At, Goto, redis, history
<1>6. Revoking'
  BY DEF IInv, Revoking, TypeOK, Position, Indexed, Fresh, Storing, Logout,
     Accepts, At, Goto, redis, history
<1> QED
  BY <1>1, <1>2, <1>3, <1>4, <1>5, <1>6 DEF IInv

LEMMA RevokeGetIInv ==
  ASSUME IInv, NEW s \in Revokers, RevokeGet(s)
  PROVE  IInv'
<1>1. Unstored' /\ PrevStored' /\ LiveIsEnd' /\ Indexed' /\ CompromisedDead'
  BY DEF IInv, RevokeGet, redis, history, Unstored, PrevStored, LiveIsEnd,
     Indexed, CompromisedDead
<1>2. TypeOK'
  BY DEF IInv, TypeOK, Position, KeyStates, Steps, RevokeGet, At, Return,
     Goto, InFamilyLoop, redis, history
<1>3. Position'
  <2>1. CASE s = "logout"
    BY <2>1 DEF IInv, Position, TypeOK, RevokeGet, InFamilyLoop, At, Goto,
       Return, redis, history
  <2>2. CASE s = "refresh" /\ ~theft
    <3>1. UNCHANGED <<fam, granted>>
      BY DEF RevokeGet, redis, history
    <3>3. CASE Return("refresh")
      BY <3>1, <3>3, ReturnPosition DEF IInv
    <3>2. CASE Goto("refresh", "revoke") /\ UNCHANGED <<req, who, cur, theft>>
      BY <2>2, <3>2 DEF IInv, Position, TypeOK, Goto, At, RevokeGet, redis,
         history
    <3> QED
      BY <2>2, <3>2, <3>3 DEF RevokeGet, InFamilyLoop
  <2>3. CASE s = "refresh" /\ theft
    BY <2>3 DEF IInv, Position, TypeOK, RevokeGet, InFamilyLoop, At, Goto,
       redis, history
  <2> QED
    BY <2>1, <2>2, <2>3 DEF Revokers
<1>4. Rotating'
  BY DEF IInv, Rotating, TypeOK, Position, LiveIsEnd, CompromisedDead,
     Storing, RevokeGet, At, Return, Goto, InFamilyLoop, redis, history
<1>5. Fresh'
  BY DEF IInv, Fresh, TypeOK, Position, Indexed, Storing, RevokeGet, At,
     Return, Goto, InFamilyLoop, redis, history
<1>6. Revoking'
  <2>1. CASE s = "logout"
    <3>1. /\ UNCHANGED <<pc["refresh"], req["refresh"], cur["refresh"]>>
          /\ UNCHANGED <<todo["refresh"], theft, clean>>
      BY <2>1 DEF IInv, TypeOK, Position, RevokeGet, InFamilyLoop, At, Goto,
         Return
    <3> QED
      BY <3>1 DEF IInv, Revoking, RevokeGet, redis, history
  <2>2. CASE s = "refresh" /\ theft
    BY <2>2 DEF IInv, TypeOK, Position, Revoking, RevokeGet, InFamilyLoop,
       At, Goto, redis, history
  <2>3. CASE s = "refresh" /\ ~theft
    <3>1. ~theft'
      BY <2>3 DEF RevokeGet, InFamilyLoop, Return
    <3> QED
      BY <3>1 DEF Revoking
  <2> QED
    BY <2>1, <2>2, <2>3 DEF Revokers
<1> QED
  BY <1>1, <1>2, <1>3, <1>4, <1>5, <1>6 DEF IInv

LEMMA RevokeSetIInv ==
  ASSUME IInv, NEW s \in Revokers, RevokeSet(s)
  PROVE  IInv'
<1>1. PrevStored' /\ Indexed'
  BY DEF IInv, RevokeSet, history, PrevStored, Indexed
<1>2. TypeOK'
  BY DEF IInv, TypeOK, Position, KeyStates, Steps, RevokeSet,
     RevokedMetadata, At, Return, Goto, InFamilyLoop, history
<1>3. Position'
  <2>1. CASE s = "logout"
    BY <2>1 DEF IInv, Position, TypeOK, RevokeSet, RevokedMetadata,
       InFamilyLoop, At, Goto, Return, history
  <2>2. CASE s = "refresh" /\ theft
    BY <2>2 DEF IInv, Position, TypeOK, RevokeSet, RevokedMetadata,
       InFamilyLoop, At, Goto, history
  <2>3. CASE s = "refresh" /\ ~theft
    <3>1. /\ pc' = [pc EXCEPT !["refresh"] = "set"]
          /\ cur' = [cur EXCEPT !["refresh"] = NoToken]
          /\ UNCHANGED <<req, who, theft, granted, fam>>
      BY <2>3 DEF RevokeSet, RevokedMetadata, InFamilyLoop, Goto, history
    <3>2. pc["refresh"] = "revoke"
      BY <2>3 DEF RevokeSet, At
    <3> QED
      BY <2>3, <3>1, <3>2 DEF IInv, Position, TypeOK
  <2> QED
    BY <2>1, <2>2, <2>3 DEF Revokers
<1>4. Unstored'
  BY DEF IInv, Unstored, TypeOK, Position, RevokeSet, RevokedMetadata, At,
     Return, Goto, InFamilyLoop, history
<1>5. LiveIsEnd'
  BY DEF IInv, LiveIsEnd, TypeOK, Position, Unstored, PrevStored, Rotating,
     RevokeSet, RevokedMetadata, At, Return, Goto, InFamilyLoop, history
<1>6. Rotating'
  BY DEF IInv, Rotating, TypeOK, Position, LiveIsEnd, CompromisedDead,
     Storing, RevokeSet, RevokedMetadata, At, Return, Goto, InFamilyLoop,
     history
<1>7. Fresh'
  BY DEF IInv, Fresh, TypeOK, Position, Indexed, Storing, RevokeSet,
     RevokedMetadata, At, Return, Goto, InFamilyLoop, history
<1>8. Revoking'
  <2>1. CASE s = "logout"
    <3>1. /\ UNCHANGED <<pc["refresh"], req["refresh"], cur["refresh"]>>
          /\ UNCHANGED <<todo["refresh"], theft, clean>>
      BY <2>1 DEF IInv, TypeOK, Position, RevokeSet, RevokedMetadata,
         InFamilyLoop, At, Goto, Return
    <3>2. \A x \in Tokens : Live(x)' => Live(x)
      BY <2>1 DEF IInv, TypeOK, RevokeSet, RevokedMetadata
    <3> QED
      BY <3>1, <3>2 DEF IInv, TypeOK, Revoking, RevokeSet, RevokedMetadata,
         history
  <2>2. CASE s = "refresh" /\ theft
    <3>1. \A x \in Tokens : Live(x)' => Live(x) /\ x # cur["refresh"]
      BY <2>2 DEF IInv, TypeOK, RevokeSet, RevokedMetadata
    <3>2. pc["refresh"] = "revoke" /\ pc'["refresh"] = "next"
      BY <2>2 DEF IInv, TypeOK, RevokeSet, RevokedMetadata, InFamilyLoop,
         At, Goto
    <3>3. clean' = clean \/ clean' = FALSE
      BY <2>2 DEF RevokeSet, RevokedMetadata, InFamilyLoop
    <3>4. theft /\ UNCHANGED <<todo, req, granted, fam>>
      BY <2>2 DEF RevokeSet, RevokedMetadata, InFamilyLoop, history
    <3> QED
      BY <3>1, <3>2, <3>3, <3>4 DEF IInv, TypeOK, Revoking
  <2>3. CASE s = "refresh" /\ ~theft
    <3>1. ~theft'
      BY <2>3 DEF RevokeSet, RevokedMetadata, InFamilyLoop, Return
    <3> QED
      BY <3>1 DEF Revoking
  <2> QED
    BY <2>1, <2>2, <2>3 DEF Revokers
<1>9. CompromisedDead'
  BY DEF IInv, CompromisedDead, TypeOK, Position, Indexed, Fresh, Rotating,
     Revoking, Storing, RevokeSet, RevokedMetadata, At, Return, Goto,
     InFamilyLoop, history
<1> QED
  BY <1>1, <1>2, <1>3, <1>4, <1>5, <1>6, <1>7, <1>8, <1>9 DEF IInv

LEMMA FamilyMembersIInv ==
  ASSUME IInv, FamilyMembers
  PROVE  IInv'
<1>1. Unstored' /\ PrevStored' /\ LiveIsEnd' /\ Indexed' /\ CompromisedDead'
  BY DEF IInv, FamilyMembers, redis, history, Unstored, PrevStored,
     LiveIsEnd, Indexed, CompromisedDead
<1>2. TypeOK'
  BY DEF IInv, TypeOK, Position, KeyStates, Steps, FamilyMembers, At, Goto,
     redis, history
<1>3. Position'
  BY NoTokenAssumption DEF IInv, Position, TypeOK, FamilyMembers, At, Goto,
     redis, history
<1>4. Rotating'
  BY DEF IInv, Rotating, TypeOK, Position, LiveIsEnd, CompromisedDead,
     Storing, FamilyMembers, At, Goto, redis, history
<1>5. Fresh'
  BY DEF IInv, Fresh, TypeOK, Position, Indexed, Storing, FamilyMembers, At,
     Goto, redis, history
<1>6. Revoking'
  BY DEF IInv, Revoking, TypeOK, Position, Indexed, Fresh, Storing,
     FamilyMembers, At, Goto, redis, history
<1> QED
  BY <1>1, <1>2, <1>3, <1>4, <1>5, <1>6 DEF IInv

LEMMA FamilyNextIInv ==
  ASSUME IInv, FamilyNext
  PROVE  IInv'
<1>1. Unstored' /\ PrevStored' /\ LiveIsEnd' /\ Indexed' /\ CompromisedDead'
  BY DEF IInv, FamilyNext, redis, history, Unstored, PrevStored, LiveIsEnd,
     Indexed, CompromisedDead
<1>2. TypeOK'
  BY DEF IInv, TypeOK, Position, KeyStates, Steps, FamilyNext, At, Goto,
     redis, history
<1>3. Position'
  BY NoTokenAssumption DEF IInv, Position, TypeOK, FamilyNext, At, Goto,
     redis, history
<1>4. Rotating'
  BY DEF IInv, Rotating, TypeOK, Position, LiveIsEnd, CompromisedDead,
     Storing, FamilyNext, At, Goto, redis, history
<1>5. Fresh'
  BY DEF IInv, Fresh, TypeOK, Position, Indexed, Storing, FamilyNext, At,
     Goto, redis, history
<1>6. Revoking'
  BY DEF IInv, Revoking, TypeOK, Position, Indexed, Fresh, Storing,
     FamilyNext, At, Goto, redis, history
<1> QED
  BY <1>1, <1>2, <1>3, <1>4, <1>5, <1>6 DEF IInv

LEMMA FamilySkipIInv ==
  ASSUME IInv, FamilySkip
  PROVE  IInv'
<1>1. Unstored' /\ PrevStored' /\ LiveIsEnd' /\ Indexed' /\ CompromisedDead'
  BY DEF IInv, FamilySkip, redis, history, Unstored, PrevStored, LiveIsEnd,
     Indexed, CompromisedDead
<1>2. TypeOK'
  BY DEF IInv, TypeOK, Position, KeyStates, Steps, FamilySkip, Goto, redis,
     history
<1>3. Position'
  BY NoTokenAssumption DEF IInv, Position, TypeOK, FamilySkip, Goto, redis,
     history
<1>4. Rotating'
  BY DEF IInv, Rotating, TypeOK, Position, LiveIsEnd, CompromisedDead,
     Storing, FamilySkip, Goto, redis, history
<1>5. Fresh'
  BY DEF IInv, Fresh, TypeOK, Position, Indexed, Storing, FamilySkip, Goto,
     redis, history
<1>6. Revoking'
  BY DEF IInv, Revoking, TypeOK, Position, Indexed, Fresh, Storing,
     FamilySkip, Goto, redis, history
<1> QED
  BY <1>1, <1>2, <1>3, <1>4, <1>5, <1>6 DEF IInv

LEMMA FamilyDoneIInv ==
  ASSUME IInv, FamilyDone
  PROVE  IInv'
<1>1. Unstored' /\ PrevStored' /\ LiveIsEnd'
  BY DEF IInv, FamilyDone, redis, Unstored, PrevStored, LiveIsEnd
<1>2. TypeOK'
  BY DEF IInv, TypeOK, Position, Indexed, Steps, FamilyDone, At, Return,
     Goto, redis
<1>3. Position'
  BY NoTokenAssumption DEF IInv, Position, TypeOK, FamilyDone, At, Return,
     Goto, redis
<1>4. Rotating'
  BY DEF IInv, Rotating, TypeOK, Position, LiveIsEnd, CompromisedDead,
     Storing, FamilyDone, At, Return, Goto, redis
<1>5. Indexed'
  BY DEF IInv, Indexed, TypeOK, Position, Fresh, Rotating, Storing,
     FamilyDone, At, Return, Goto, redis
<1>6. Fresh'
  BY DEF IInv, Fresh, TypeOK, Position, Indexed, Storing, FamilyDone, At,
     Return, Goto, redis
<1>7. Revoking'
  BY DEF IInv, Revoking, TypeOK, Position, Indexed, Fresh, Storing,
     FamilyDone, At, Return, Goto, redis
<1>8. CompromisedDead'
  BY DEF IInv, CompromisedDead, TypeOK, Position, Indexed, Fresh, Rotating,
     Revoking, Storing, FamilyDone, At, Return, Goto, redis
<1> QED
  BY <1>1, <1>2, <1>3, <1>4, <1>5, <1>6, <1>7, <1>8 DEF IInv

LEMMA PurgeIInv ==
  ASSUME IInv, NEW s \in Purgers, NEW u \in Users, Purge(s, u)
  PROVE  IInv'
<1>1. Unstored' /\ PrevStored' /\ LiveIsEnd' /\ Indexed' /\ CompromisedDead'
  BY DEF IInv, Purge, redis, history, Unstored, PrevStored, LiveIsEnd,
     Indexed, CompromisedDead
<1>2. TypeOK'
  BY DEF IInv, TypeOK, Position, KeyStates, Steps, Purge, Accepts, At, Goto,
     redis, history
<1>3. Position'
  BY NoTokenAssumption DEF IInv, Position, TypeOK, Purge, Accepts, At, Goto,
     redis, history
<1>4. Rotating'
  BY DEF IInv, Rotating, TypeOK, Position, LiveIsEnd, CompromisedDead,
     Storing, Purge, Accepts, At, Goto, redis, history
<1>5. Fresh'
  BY DEF IInv, Fresh, TypeOK, Position, Indexed, Storing, Purge, Accepts,
     At, Goto, redis, history
<1>6. Revoking'
  BY DEF IInv, Revoking, TypeOK, Position, Indexed, Fresh, Storing, Purge,
     Accepts, At, Goto, redis, history
<1> QED
  BY <1>1, <1>2, <1>3, <1>4, <1>5, <1>6 DEF IInv

LEMMA MembersIInv ==
  ASSUME IInv, NEW s \in Purgers, Members(s)
  PROVE  IInv'
<1>1. Unstored' /\ PrevStored' /\ LiveIsEnd' /\ Indexed' /\ CompromisedDead'
  BY DEF IInv, Members, redis, history, Unstored, PrevStored, LiveIsEnd,
     Indexed, CompromisedDead
<1>2. TypeOK'
  BY DEF IInv, TypeOK, Position, KeyStates, Steps, Members, At, Return,
     Goto, redis, history
<1>3. Position'
  <2>1. CASE s = "logout_all"
    BY <2>1, NoTokenAssumption DEF IInv, Position, TypeOK, Members, At,
       Goto, Return, redis, history
  <2>2. CASE s = "change_password"
    BY <2>2, NoTokenAssumption DEF IInv, Position, TypeOK, Members, At,
       Goto, Return, redis, history
  <2> QED
    BY <2>1, <2>2 DEF Purgers
<1>4. Rotating'
  BY DEF IInv, Rotating, TypeOK, Position, LiveIsEnd, CompromisedDead,
     Storing, Members, At, Return, Goto, redis, history
<1>5. Fresh'
  BY DEF IInv, Fresh, TypeOK, Position, Indexed, Storing, Members, At,
     Return, Goto, redis, history
<1>6. Revoking'
  <2>1. /\ UNCHANGED <<pc["refresh"], req["refresh"], cur["refresh"]>>
        /\ UNCHANGED <<todo["refresh"], theft, clean>>
    BY DEF IInv, TypeOK, Members, At, Goto, Return
  <2> QED
    BY <2>1 DEF IInv, Revoking, Members, redis, history
<1> QED
  BY <1>1, <1>2, <1>3, <1>4, <1>5, <1>6 DEF IInv

LEMMA DelTokenIInv ==
  ASSUME IInv, NEW s \in Purgers, DelToken(s)
  PROVE  IInv'
<1>1. Position' /\ PrevStored' /\ Indexed' /\ Fresh'
  BY DEF IInv, DelToken, history, Position, PrevStored, Indexed, Fresh,
     Storing
<1>2. TypeOK'
  BY DEF IInv, TypeOK, Position, KeyStates, Steps, DelToken, At, history
<1>3. Unstored'
  BY DEF IInv, Unstored, TypeOK, Position, DelToken, At, history
<1>4. LiveIsEnd'
  BY DEF IInv, LiveIsEnd, TypeOK, Position, Unstored, PrevStored, Rotating,
     DelToken, At, history
<1>5. Rotating'
  BY DEF IInv, Rotating, TypeOK, Position, LiveIsEnd, CompromisedDead,
     Storing, DelToken, At, history
<1>6. Revoking'
  BY DEF IInv, Revoking, TypeOK, Position, Indexed, Fresh, Storing,
     DelToken, At, history
<1>7. CompromisedDead'
  BY DEF IInv, CompromisedDead, TypeOK, Position, Indexed, Fresh, Rotating,
     Revoking, Storing, DelToken, At, history
<1> QED
  BY <1>1, <1>2, <1>3, <1>4, <1>5, <1>6, <1>7 DEF IInv

LEMMA DelIndexIInv ==
  ASSUME IInv, NEW s \in Purgers, DelIndex(s)
  PROVE  IInv'
<1>1. Unstored' /\ PrevStored' /\ LiveIsEnd' /\ Indexed' /\ CompromisedDead'
  BY DEF IInv, DelIndex, history, Unstored, PrevStored, LiveIsEnd, Indexed,
     CompromisedDead
<1>2. TypeOK'
  BY DEF IInv, TypeOK, Position, KeyStates, Steps, DelIndex, At, Return,
     Goto, history
<1>3. Position'
  BY NoTokenAssumption DEF IInv, Position, TypeOK, DelIndex, At, Return,
     Goto, history
<1>4. Rotating'
  BY DEF IInv, Rotating, TypeOK, Position, LiveIsEnd, CompromisedDead,
     Storing, DelIndex, At, Return, Goto, history
<1>5. Fresh'
  BY DEF IInv, Fresh, TypeOK, Position, Indexed, Storing, DelIndex, At,
     Return, Goto, history
<1>6. Revoking'
  BY DEF IInv, Revoking, TypeOK, Position, Indexed, Fresh, Storing,
     DelIndex, At, Return, Goto, history
<1> QED
  BY <1>1, <1>2, <1>3, <1>4, <1>5, <1>6 DEF IInv

LEMMA ExpireIInv ==
  ASSUME IInv, NEW t \in Tokens, Expire(t)
  PROVE  IInv'
<1>1. Position' /\ PrevStored' /\ Indexed' /\ Fresh'
  BY DEF IInv, Expire, request, history, Position, PrevStored, Indexed,
     Fresh, Storing
<1>2. TypeOK'
  BY DEF IInv, TypeOK, Position, KeyStates, Steps, Expire, request, history
<1>3. Unstored'
  BY DEF IInv, Unstored, TypeOK, Position, Expire, request, history
<1>4. LiveIsEnd'
  BY DEF IInv, LiveIsEnd, TypeOK, Position, Unstored, PrevStored, Rotating,
     Expire, request, history
<1>5. Rotating'
  BY DEF IInv, Rotating, TypeOK, Position, LiveIsEnd, CompromisedDead,
     Storing, Expire, request, history
<1>6. Revoking'
  BY DEF IInv, Revoking, TypeOK, Position, Indexed, Fresh, Storing, Expire,
     request, history
<1>7. CompromisedDead'
  BY DEF IInv, CompromisedDead, TypeOK, Position, Indexed, Fresh, Rotating,
     Revoking, Storing, Expire, request, history
<1> QED
  BY <1>1, <1>2, <1>3, <1>4, <1>5, <1>6, <1>7 DEF IInv

LEMMA StutterIInv == IInv /\ UNCHANGED vars => IInv'
  BY DEF IInv, vars, redis, request, history, TypeOK, Position, Unstored,
     PrevStored, LiveIsEnd, Rotating, Indexed, Storing, Fresh, Revoking,
     CompromisedDead

LEMMA NextIInv == IInv /\ [Next]_vars => IInv'
  BY AbortIInv, LoginIInv, StoreTokenIInv, IndexUserIInv, IndexFamilyIInv,
     RefreshIInv, RejectDeadIInv, AcceptLiveIInv, RejectFingerprintIInv,
     CheckUserIInv, RotateIInv, LogoutIInv, RevokeGetIInv, RevokeSetIInv,
     FamilyMembersIInv, FamilyNextIInv, FamilySkipIInv, FamilyDoneIInv,
     PurgeIInv, MembersIInv, DelTokenIInv, DelIndexIInv, ExpireIInv,
     StutterIInv
  DEF Next, StoreStep, RefreshStep, RevokeStep, FamilyStep, PurgeStep

LEMMA Inductive == Spec => []IInv
  BY InitIInv, NextIInv, PTL DEF Spec

\* Redis, the handlers and the histories keep their types: a handler never
\* works on an id that was not stored.
THEOREM TypeCorrect == Spec => []TypeOK
<1>1. IInv => TypeOK
  BY DEF IInv
<1> QED
  BY Inductive, <1>1, PTL

\* After a family was revoked without a Redis error, no token granted from
\* it is usable.
THEOREM CompromisedFamiliesAreDead == Spec => []CompromisedDead
<1>1. IInv => CompromisedDead
  BY DEF IInv
<1> QED
  BY Inductive, <1>1, PTL

\* No command makes a stored token that is dead usable.
LEMMA NoRevival ==
  ASSUME IInv, [Next]_vars, NEW t \in Stored, ~Live(t)
  PROVE  ~Live(t)'
<1>1. ASSUME NEW s \in Minters, StoreToken(s) PROVE ~Live(t)'
  BY <1>1 DEF IInv, TypeOK, StoreToken
<1>2. ASSUME NEW s \in Revokers, RevokeSet(s) PROVE ~Live(t)'
  BY <1>2 DEF IInv, TypeOK, RevokeSet, RevokedMetadata
<1>3. ASSUME NEW s \in Purgers, DelToken(s) PROVE ~Live(t)'
  BY <1>3 DEF IInv, TypeOK, DelToken
<1>4. ASSUME NEW x \in Tokens, Expire(x) PROVE ~Live(t)'
  BY <1>4 DEF IInv, TypeOK, Expire
<1>5. CASE UNCHANGED tok
  BY <1>5
<1> QED
  BY <1>1, <1>2, <1>3, <1>4, <1>5
  DEF Next, StoreStep, RefreshStep, RevokeStep, FamilyStep, PurgeStep,
      Abort, Login, IndexUser, IndexFamily, Refresh, RejectDead, AcceptLive,
      RejectFingerprint, CheckUser, Rotate, Logout, RevokeGet, FamilyMembers,
      FamilyNext, FamilySkip, FamilyDone, Purge, Members, DelIndex, redis, vars

\* A dead token is never accepted again.
THEOREM DeadTokensStayDead == Spec => DeadStaysDead
<1>1. IInv /\ [Next]_vars => [\A t \in Stored : ~Live(t) => ~Live(t)']_vars
  BY NoRevival
<1> QED
  BY Inductive, <1>1, PTL DEF Spec, DeadStaysDead

-----------------------------------------------------------------------------
\* The refinement of TokenFamilies.

LiveTokens == {t \in Tokens : Live(t)}

LEMMA InitChains == Init => Chains!Init
  BY DEF Init, Chains!Init

\* A login's SET begins a family, a rotation's succeeds the token it revoked.
LEMMA StoreTokenChains ==
  ASSUME IInv, NEW s \in Minters, StoreToken(s)
  PROVE  Chains!Next
<1>1. PICK n \in Tokens \ Stored :
        /\ tok' = [tok EXCEPT ![n] = "live"]
        /\ fam' = [fam EXCEPT ![n] = IF s = "login" THEN n ELSE fam[req[s]]]
        /\ prev' = [prev EXCEPT ![n] = req[s]]
  BY DEF StoreToken, NewFamily, Previous
<1>2. LiveTokens' = LiveTokens \cup {n}
  BY <1>1 DEF IInv, TypeOK, LiveTokens
<1>3. n \notin Chains!Issued
  BY <1>1 DEF Chains!Issued
<1>4. CASE s = "login"
  <2>1. prev' = prev
    BY <1>1, <1>4 DEF IInv, TypeOK, Position, Unstored
  <2>2. Chains!Begin(n)
    BY <1>1, <1>2, <1>3, <1>4, <2>1 DEF Chains!Begin, LiveTokens
  <2> QED
    BY <1>1, <2>2 DEF Chains!Next
<1>5. CASE s = "refresh"
  <2> DEFINE p == req["refresh"]
  <2>1. p \in Stored /\ ~Live(p) /\ \A x \in Tokens : prev[x] # p
    BY <1>5 DEF IInv, TypeOK, Position, Rotating, StoreToken, At
  <2>2. Chains!Succeed(p, n)
    BY <1>1, <1>2, <1>3, <1>5, <2>1 DEF Chains!Succeed, Chains!Issued, LiveTokens
  <2> QED
    BY <1>1, <2>1, <2>2 DEF Chains!Next
<1> QED
  BY <1>4, <1>5

\* A command that writes or deletes the key of one stored token, and leaves
\* it dead, retires the token or is a stutter.
LEMMA RetireChains ==
  ASSUME TypeOK, NEW t \in Tokens, NEW k \in KeyStates \ {"live"},
         tok' = [tok EXCEPT ![t] = k], UNCHANGED <<fam, prev>>
  PROVE  [Chains!Next]_(Chains!vars)
<1>1. LiveTokens' = LiveTokens \ {t}
  BY DEF TypeOK, LiveTokens
<1>2. CASE Live(t)
  BY <1>1, <1>2 DEF Chains!Next, Chains!Retire, LiveTokens
<1>3. CASE ~Live(t)
  BY <1>1, <1>3 DEF Chains!vars, LiveTokens
<1> QED
  BY <1>2, <1>3

LEMMA NextChains == IInv /\ [Next]_vars => [Chains!Next]_(Chains!vars)
<1> SUFFICES ASSUME IInv, [Next]_vars PROVE [Chains!Next]_(Chains!vars)
  OBVIOUS
<1>1. CASE UNCHANGED <<tok, fam, prev>>
  BY <1>1 DEF Chains!vars
<1>2. ASSUME NEW s \in Revokers, RevokeSet(s) PROVE [Chains!Next]_(Chains!vars)
  <2>1. cur[s] \in Tokens
    BY <1>2, NoTokenAssumption DEF IInv, TypeOK, Position, RevokeSet, At
  <2> QED
    BY <1>2, <2>1, RetireChains DEF IInv, RevokeSet, RevokedMetadata, KeyStates
<1>3. ASSUME NEW s \in Purgers, DelToken(s) PROVE [Chains!Next]_(Chains!vars)
  <2>1. PICK t \in todo[s] : tok' = [tok EXCEPT ![t] = "absent"]
    BY <1>3 DEF DelToken
  <2>2. t \in Tokens
    BY <2>1 DEF IInv, TypeOK
  <2> QED
    BY <1>3, <2>1, <2>2, RetireChains DEF IInv, DelToken, KeyStates
<1>4. ASSUME NEW t \in Tokens, Expire(t) PROVE [Chains!Next]_(Chains!vars)
  BY <1>4, RetireChains DEF IInv, Expire, KeyStates
<1> QED
  BY StoreTokenChains, <1>1, <1>2, <1>3, <1>4
  DEF Next, StoreStep, RefreshStep, RevokeStep, FamilyStep, PurgeStep,
      Abort, Login, IndexUser, IndexFamily, Refresh, RejectDead, AcceptLive,
      RejectFingerprint, CheckUser, Rotate, Logout, RevokeGet, FamilyMembers,
      FamilyNext, FamilySkip, FamilyDone, Purge, Members, DelIndex, redis, vars

\* The session store implements the chains of TokenFamilies: a token is
\* issued once, succeeded at most once and only when dead, and dead for good.
THEOREM StoreImplementsChains == Spec => ImplementsChains
  BY InitChains, NextChains, Inductive, PTL DEF Spec, Chains!Spec, ImplementsChains

Families == INSTANCE TokenFamilies_proofs WITH live <- {t \in Tokens : Live(t)}

\* A family of refresh tokens has at most one usable token at any time.
THEOREM OneLiveTokenPerFamily == Spec => []OneLivePerFamily
<1>1. Chains!Init => Families!Init
  BY DEF Chains!Init, Families!Init
<1>2. [Chains!Next]_(Chains!vars) => [Families!Next]_(Families!vars)
  BY DEF Chains!Next, Chains!Begin, Chains!Retire, Chains!Succeed, Chains!Issued,
     Chains!vars, Families!Next, Families!Begin, Families!Retire,
     Families!Succeed, Families!Issued, Families!vars
<1>3. Spec => Families!Spec
  BY <1>1, <1>2, StoreImplementsChains, PTL
  DEF ImplementsChains, Chains!Spec, Families!Spec
<1>4. Families!OneLive => OneLivePerFamily
  BY DEF Families!OneLive, OneLivePerFamily
<1>5. Families!Spec => []Families!OneLive
  BY NoTokenAssumption, Families!FamilyHasOneLiveToken DEF Families!Sentinel
<1> QED
  BY <1>3, <1>4, <1>5, PTL

-----------------------------------------------------------------------------
\* The promise of RevokeAllUserTokens (LogoutAll).

\* A stored token is its user's, from the login or the rotation that mints it.
Owned ==
  /\ \A t \in Stored : owner[t] \in Users
  /\ pc["refresh"] \in {"check_user", "rotate", "get", "revoke", "set"} /\ ~theft =>
       who["refresh"] \in Users
  /\ \A s \in Minters : Storing(s) =>
       who[s] \in Users /\ owner[cur[s]] = who[s]

\* A granted token that is usable is in its user's index or an orphan, and so
\* is the one whose user index has just been written.
Named ==
  /\ \A t \in granted : Live(t) /\ t \notin orphaned => t \in userIdx[owner[t]]
  /\ \A s \in Minters : pc[s] = "sadd_family" /\ Live(cur[s]) /\ cur[s] \notin orphaned =>
       cur[s] \in userIdx[who[s]]

\* What a purge has still to delete.
Purging ==
  \A s \in Purgers : pc[s] = "del" =>
    \A t \in before[s] : Live(t) => t \in todo[s]

LInv == IInv /\ LTypeOK /\ Owned /\ Named /\ Purging

LEMMA InitLInv == LInit => LInv
<1> SUFFICES ASSUME LInit PROVE LInv
  OBVIOUS
<1>1. IInv
  BY InitIInv DEF LInit
<1>2. LTypeOK
  BY <1>1 DEF LInit, LTypeOK, IInv
<1>3. Owned /\ Named /\ Purging
  BY NoTokenAssumption DEF LInit, Init, Owned, Named, Purging, Storing
<1> QED
  BY <1>1, <1>2, <1>3 DEF LInv

\* The history variables add nothing: a step of LogoutAll is one of
\* AuthSessions.
LEMMA StepIsStep == [LNext]_lvars => [Next]_vars
<1>1. ASSUME NEW s \in Purgers, LMembers(s) \/ LDelIndex(s) PROVE Next
  BY <1>1 DEF LMembers, LDelIndex, Next, PurgeStep
<1>2. ASSUME NEW s \in Handlers, LAbort(s) PROVE Next
  BY <1>2 DEF LAbort, Next
<1>3. Elsewhere => Next
  BY DEF Elsewhere, Next, PurgeStep
<1> QED
  BY <1>1, <1>2, <1>3 DEF LNext, lvars

LEMMA LogoutAllIsAuthSessions == LSpec => Spec
  BY StepIsStep, PTL DEF LSpec, Spec, LInit

\* The steps that do not leave the owners and the handlers' tokens alone.
LEMMA OwnedStep ==
  ASSUME IInv, Owned, [Next]_vars
  PROVE  Owned'
<1>frame. ASSUME UNCHANGED <<owner, fam>>,
              \A h \in Minters : Storing(h)' =>
                Storing(h) /\ cur'[h] = cur[h] /\ who'[h] = who[h],
              pc'["refresh"] \in {"check_user", "rotate", "get", "revoke", "set"} /\ ~theft' =>
                who'["refresh"] \in Users
       PROVE  Owned'
  BY <1>frame DEF Owned
<1>return. ASSUME NEW s \in Handlers, Return(s), UNCHANGED <<owner, fam>> PROVE Owned'
  <2>1. \A h \in Minters : Storing(h)' =>
          Storing(h) /\ cur'[h] = cur[h] /\ who'[h] = who[h]
    BY <1>return DEF IInv, TypeOK, Storing, Return, Goto
  <2>2. CASE s = "refresh"
    BY <1>frame, <1>return, <2>1, <2>2 DEF IInv, TypeOK, Return, Goto
  <2>3. CASE s # "refresh"
    BY <1>frame, <1>return, <2>1, <2>3 DEF IInv, TypeOK, Owned, Return, Goto
  <2> QED
    BY <2>2, <2>3
<1>1. ASSUME NEW u \in Users, Login(u) PROVE Owned'
  BY <1>1 DEF IInv, TypeOK, Owned, Storing, Login, Accepts, At, Goto, redis, history
<1>2. ASSUME NEW s \in Minters, StoreToken(s) PROVE Owned'
  <2>1. PICK n \in Tokens \ Stored :
          /\ owner' = [owner EXCEPT ![n] = who[s]]
          /\ fam' = [fam EXCEPT ![n] = NewFamily(s, n)]
          /\ cur' = [cur EXCEPT ![s] = n]
    BY <1>2 DEF StoreToken
  <2>2. who[s] \in Users
    BY <1>2 DEF IInv, TypeOK, Position, Owned, StoreToken, At
  <2>3. Stored' = Stored \cup {n}
    BY <1>2, <2>1, NoTokenAssumption DEF IInv, TypeOK, Position, Indexed, NewFamily, StoreToken, At
  <2>4. \A t \in Stored' : owner'[t] \in Users
    BY <2>1, <2>2, <2>3 DEF IInv, TypeOK, Owned
  <2>5. \A h \in Minters : Storing(h)' => who'[h] \in Users /\ owner'[cur'[h]] = who'[h]
    BY <1>2, <2>1, <2>2 DEF IInv, TypeOK, Position, Owned, Storing, StoreToken, At, Goto
  <2> QED
    BY <1>2, <2>4, <2>5 DEF IInv, TypeOK, Owned, StoreToken, At, Goto
<1>3. ASSUME NEW s \in Minters, IndexUser(s) PROVE Owned'
  BY <1>3 DEF IInv, TypeOK, Owned, Storing, IndexUser, At, Goto, history
<1>4. ASSUME NEW s \in Minters, IndexFamily(s) PROVE Owned'
  BY <1>4 DEF IInv, TypeOK, Owned, Storing, IndexFamily, At, Goto, Return
<1>5. ASSUME NEW t \in Tokens, Refresh(t) \/ Logout(t) PROVE Owned'
  BY <1>5 DEF IInv, TypeOK, Owned, Storing, Refresh, Logout, Accepts, At, Goto, redis, history
<1>6. CASE RefreshStep
  <2>1. CASE AcceptLive
    BY <2>1 DEF IInv, TypeOK, Position, Owned, Storing, AcceptLive, At, Goto, redis, history
  <2>2. CASE RejectFingerprint \/ Rotate
    BY <1>frame, <1>return, <2>2 DEF IInv, TypeOK, Position, Owned, Storing,
       RejectFingerprint, Rotate, At, Goto, redis, history
  <2>3. CASE RejectDead \/ CheckUser
    BY <1>frame, <1>return, <2>3 DEF IInv, TypeOK, Position, Owned, Storing, RejectDead,
       CheckUser, At, Goto, redis, history
  <2> QED
    BY <1>6, <2>1, <2>2, <2>3 DEF RefreshStep
<1>7. ASSUME NEW s \in Revokers, RevokeGet(s) PROVE Owned'
  <2>1. CASE Return(s)
    BY <1>7, <1>return, <2>1 DEF RevokeGet, redis
  <2>2. ASSUME NEW step \in {"revoke", "next"}, Goto(s, step), UNCHANGED <<who, theft>>,
               step = "next" => theft /\ s = "refresh" /\ cur' = [cur EXCEPT ![s] = NoToken],
               step = "revoke" => UNCHANGED cur
        PROVE  Owned'
    <3>1. \A h \in Minters : Storing(h)' =>
            Storing(h) /\ cur'[h] = cur[h] /\ who'[h] = who[h]
      BY <1>7, <2>2 DEF IInv, TypeOK, Storing, Goto
    <3> QED
      BY <1>7, <1>frame, <2>2, <3>1 DEF IInv, TypeOK, Owned, RevokeGet, At, Goto, redis
  <2> QED
    BY <1>7, <2>1, <2>2 DEF RevokeGet, InFamilyLoop
<1>8. ASSUME NEW s \in Revokers, RevokeSet(s) PROVE Owned'
  <2>1. CASE Return(s)
    BY <1>8, <1>return, <2>1 DEF RevokeSet
  <2>2. ASSUME s = "refresh", NEW step \in {"set", "next"}, Goto(s, step), UNCHANGED <<who, theft>>,
               step = "next" => theft, cur' = [cur EXCEPT ![s] = NoToken]
        PROVE  Owned'
    <3>1. \A h \in Minters : Storing(h)' =>
            Storing(h) /\ cur'[h] = cur[h] /\ who'[h] = who[h]
      BY <1>8, <2>2 DEF IInv, TypeOK, Storing, Goto
    <3> QED
      BY <1>8, <1>frame, <2>2, <3>1 DEF IInv, TypeOK, Owned, RevokeSet, At, Goto
  <2> QED
    BY <1>8, <2>1, <2>2 DEF RevokeSet, InFamilyLoop
<1>9. CASE FamilyStep
  <2>1. CASE FamilyDone
    BY <1>return, <2>1 DEF FamilyDone, redis
  <2>2. ASSUME NEW step \in {"next", "get"}, Goto("refresh", step), UNCHANGED <<who, theft>>,
               theft, \A h \in Minters \ {"refresh"} : cur'[h] = cur[h], UNCHANGED <<owner, fam>>
        PROVE  Owned'
    <3>1. \A h \in Minters : Storing(h)' =>
            Storing(h) /\ cur'[h] = cur[h] /\ who'[h] = who[h]
      BY <2>2 DEF IInv, TypeOK, Storing, Goto
    <3> QED
      BY <1>frame, <2>2, <3>1
  <2>3. FamilyMembers \/ FamilyNext \/ FamilySkip => Owned'
    BY <2>2 DEF IInv, TypeOK, Position, FamilyMembers, FamilyNext, FamilySkip, At, redis
  <2> QED
    BY <1>9, <2>1, <2>3 DEF FamilyStep
<1>10. ASSUME NEW s \in Purgers, NEW u \in Users, Purge(s, u) PROVE Owned'
  BY <1>10 DEF IInv, TypeOK, Owned, Storing, Purge, Accepts, At, Goto, redis, history
<1>11. ASSUME NEW s \in Purgers, PurgeStep(s) PROVE Owned'
  <2>1. CASE Return(s)
    BY <1>11, <1>return, <2>1 DEF PurgeStep, Members, DelToken, DelIndex, redis
  <2>2. CASE DelToken(s)
    BY <1>frame, <2>2 DEF Owned, Storing, DelToken
  <2>3. CASE Goto(s, "del") /\ UNCHANGED <<owner, fam, who, cur, theft>>
    BY <1>frame, <2>3 DEF IInv, TypeOK, Owned, Storing, Goto
  <2> QED
    BY <1>11, <2>1, <2>2, <2>3 DEF PurgeStep, Members, DelIndex, redis
<1>12. ASSUME NEW s \in Handlers, Abort(s) PROVE Owned'
  BY <1>12 DEF IInv, TypeOK, Owned, Storing, Abort, At, Goto, Return, redis, history
<1>13. ASSUME NEW t \in Tokens, Expire(t) PROVE Owned'
  BY <1>13 DEF Owned, Storing, Expire, request
<1>14. CASE UNCHANGED vars
  BY <1>14 DEF Owned, Storing, vars, redis, request, history
<1> QED
  BY <1>1, <1>2, <1>3, <1>4, <1>5, <1>6, <1>7, <1>8, <1>9, <1>10, <1>11, <1>12,
     <1>13, <1>14 DEF Next, StoreStep, RevokeStep

\* A token is granted by the last command of its pipeline, the SADD of the
\* user's index is the one before: only a DEL of the index can come between.
LEMMA NamedStep ==
  ASSUME LInv, [LNext]_lvars
  PROVE  Named'
<1>1. IInv /\ [Next]_vars
  BY StepIsStep DEF LInv
<1>2. \A t \in Stored : Live(t)' => Live(t)
  BY <1>1, NoRevival
<1>3. granted \subseteq Stored /\ Stored \subseteq Tokens
  BY <1>1 DEF IInv, TypeOK
<1>4. ASSUME NEW s \in Purgers, LDelIndex(s) PROVE Named'
  <2>1. \A t \in granted : Live(t) /\ t \notin orphaned' => owner[t] # who[s] /\ t \in userIdx[owner[t]]
    BY <1>3, <1>4 DEF LInv, Named, LDelIndex
  <2>2. \A h \in Minters : pc[h] = "sadd_family" /\ Live(cur[h]) /\ cur[h] \notin orphaned' =>
          who[h] # who[s] /\ cur[h] \in userIdx[who[h]]
    BY <1>3, <1>4 DEF LInv, IInv, TypeOK, Position, Named, LDelIndex
  <2> QED
    BY <1>3, <1>4, <2>1, <2>2
    DEF LInv, IInv, TypeOK, Owned, Named, LDelIndex, DelIndex, At, Goto, Return, history
<1>5. ASSUME NEW s \in Minters, StoreToken(s), UNCHANGED orphaned PROVE Named'
  <2>1. PICK n \in Tokens \ Stored :
          /\ owner' = [owner EXCEPT ![n] = who[s]]
          /\ tok' = [tok EXCEPT ![n] = "live"]
          /\ cur' = [cur EXCEPT ![s] = n]
    BY <1>5 DEF StoreToken
  <2>2. \A h \in Minters : pc'[h] = "sadd_family" => h # s /\ pc[h] = "sadd_family" /\ cur[h] \in Stored
    BY <1>5 DEF LInv, IInv, TypeOK, Position, StoreToken, At, Goto
  <2> QED
    BY <1>2, <1>3, <1>5, <2>1, <2>2 DEF LInv, IInv, TypeOK, Named, StoreToken, history
<1>6. ASSUME NEW s \in Minters, IndexUser(s), UNCHANGED orphaned PROVE Named'
  <2>1. who[s] \in Users /\ owner[cur[s]] = who[s]
    BY <1>6 DEF LInv, Owned, Storing, IndexUser, At
  <2>2. \A t \in granted : owner[t] \in Users
    BY <1>3 DEF LInv, Owned
  <2> QED
    BY <1>3, <1>6, <2>1, <2>2 DEF LInv, IInv, TypeOK, Owned, Storing, Named, IndexUser, At, Goto, history
<1>7. ASSUME NEW s \in Minters, IndexFamily(s), UNCHANGED orphaned PROVE Named'
  <2>1. who[s] = owner[cur[s]] /\ pc[s] = "sadd_family"
    BY <1>7 DEF LInv, Owned, Storing, IndexFamily, At
  <2>2. granted' \subseteq granted \cup {cur[s]}
    BY <1>7 DEF IndexFamily
  <2>3. \A t \in granted' : Live(t) /\ t \notin orphaned => t \in userIdx[owner[t]]
    BY <2>1, <2>2 DEF LInv, Named
  <2>4. \A h \in Minters : pc'[h] = "sadd_family" =>
          pc[h] = "sadd_family" /\ cur'[h] = cur[h] /\ who'[h] = who[h]
    BY <1>7 DEF LInv, IInv, TypeOK, IndexFamily, Goto, Return
  <2> QED
    BY <1>7, <2>3, <2>4 DEF LInv, Named, IndexFamily
<1>8. ASSUME UNCHANGED <<owner, userIdx, granted, orphaned>>,
             \A h \in Minters : pc'[h] = "sadd_family" =>
               pc[h] = "sadd_family" /\ cur'[h] = cur[h] /\ who'[h] = who[h]
      PROVE  Named'
  <2>1. \A h \in Minters : pc[h] = "sadd_family" => cur[h] \in Stored
    BY DEF LInv, IInv, Position
  <2> QED
    BY <1>2, <1>3, <1>8, <2>1 DEF LInv, Named
<1>9. ASSUME NEW u \in Users, Login(u), UNCHANGED orphaned PROVE Named'
  BY <1>8, <1>9 DEF LInv, IInv, TypeOK, Login, Goto, redis, history
<1>10. ASSUME NEW t \in Tokens, Refresh(t) \/ Logout(t), UNCHANGED orphaned PROVE Named'
  BY <1>8, <1>10 DEF LInv, IInv, TypeOK, Refresh, Logout, Goto, redis, history
<1>11. ASSUME RefreshStep, UNCHANGED orphaned PROVE Named'
  BY <1>8, <1>11 DEF LInv, IInv, TypeOK, RefreshStep, RejectDead, AcceptLive,
     RejectFingerprint, CheckUser, Rotate, At, Goto, Return, redis, history
<1>12. ASSUME NEW s \in Revokers, RevokeStep(s), UNCHANGED orphaned PROVE Named'
  BY <1>8, <1>12 DEF LInv, IInv, TypeOK, RevokeStep, RevokeGet, RevokeSet, InFamilyLoop,
     At, Goto, Return, redis, history
<1>13. ASSUME FamilyStep, UNCHANGED orphaned PROVE Named'
  BY <1>8, <1>13 DEF LInv, IInv, TypeOK, FamilyStep, FamilyMembers, FamilyNext, FamilySkip,
     FamilyDone, At, Goto, Return, redis, history
<1>14. ASSUME NEW s \in Purgers, NEW u \in Users, Purge(s, u), UNCHANGED orphaned PROVE Named'
  BY <1>8, <1>14 DEF LInv, IInv, TypeOK, Purge, Goto, redis, history
<1>15. ASSUME NEW s \in Purgers, Members(s) \/ DelToken(s), UNCHANGED orphaned PROVE Named'
  BY <1>8, <1>15 DEF LInv, IInv, TypeOK, Members, DelToken, Goto, Return, redis, history
<1>16. ASSUME NEW s \in Handlers, LAbort(s) PROVE Named'
  BY <1>8, <1>16 DEF LInv, IInv, TypeOK, LAbort, Abort, Goto, Return, redis, history
<1>17. ASSUME NEW t \in Tokens, Expire(t), UNCHANGED orphaned PROVE Named'
  BY <1>8, <1>17 DEF Expire, request, history
<1>18. CASE UNCHANGED lvars
  BY <1>8, <1>18 DEF lvars, vars, redis, request, history
<1> QED
  BY <1>4, <1>5, <1>6, <1>7, <1>9, <1>10, <1>11, <1>12, <1>13, <1>14, <1>15, <1>16, <1>17,
     <1>18 DEF LNext, LMembers, Elsewhere, StoreStep

\* A purge works off what its SMEMBERS read, where its tokens were named.
LEMMA PurgingStep ==
  ASSUME LInv, [LNext]_lvars
  PROVE  Purging'
<1>1. IInv /\ [Next]_vars
  BY StepIsStep DEF LInv
<1>2. \A t \in Stored : Live(t)' => Live(t)
  BY <1>1, NoRevival
<1>3. \A p \in Purgers : before[p] \subseteq Stored
  BY DEF LInv, LTypeOK, TypeOK
<1>4. ASSUME UNCHANGED <<before>>,
             \A p \in Purgers : pc'[p] = "del" => pc[p] = "del" /\ todo'[p] = todo[p]
      PROVE  Purging'
  BY <1>2, <1>3, <1>4 DEF LInv, Purging
<1>5. ASSUME NEW s \in Purgers, LMembers(s) PROVE Purging'
  <2>1. \A t \in Due(s) : Live(t) => t \in userIdx[who[s]]
    BY DEF LInv, Named, Due
  <2>2. \A p \in Purgers \ {s} : pc'[p] = pc[p] /\ todo'[p] = todo[p] /\ before'[p] = before[p]
    BY <1>5 DEF LInv, IInv, LTypeOK, TypeOK, LMembers, Members, Goto, Return
  <2>3. pc'[s] = "del" => todo'[s] = userIdx[who[s]] /\ before'[s] = Due(s)
    BY <1>5 DEF LInv, IInv, LTypeOK, TypeOK, LMembers, Members, NothingToPurge, Goto, Return
  <2> QED
    BY <1>5, <2>1, <2>2, <2>3 DEF LInv, Purging, LMembers, Members, redis
<1>6. ASSUME NEW s \in Purgers, DelToken(s), UNCHANGED before PROVE Purging'
  <2>1. PICK t \in todo[s] : /\ tok' = [tok EXCEPT ![t] = "absent"]
                             /\ todo' = [todo EXCEPT ![s] = @ \ {t}]
    BY <1>6 DEF DelToken
  <2>2. ~Live(t)'
    BY <2>1 DEF LInv, IInv, TypeOK
  <2> QED
    BY <1>2, <1>3, <1>6, <2>1, <2>2 DEF LInv, IInv, TypeOK, Purging, DelToken
<1>7. ASSUME NEW s \in Purgers, LDelIndex(s) PROVE Purging'
  <2>1. \A p \in Purgers : pc'[p] = "del" =>
          pc[p] = "del" /\ todo'[p] = todo[p] /\ before'[p] = before[p]
    BY <1>7 DEF LInv, IInv, LTypeOK, TypeOK, LDelIndex, DelIndex, Goto, Return
  <2> QED
    BY <1>2, <1>3, <2>1 DEF LInv, Purging
<1>8. ASSUME NEW s \in Handlers, LAbort(s) PROVE Purging'
  <2>1. \A p \in Purgers : pc'[p] = "del" =>
          pc[p] = "del" /\ todo'[p] = todo[p] /\ before'[p] = before[p]
    BY <1>8 DEF LInv, IInv, LTypeOK, TypeOK, LAbort, Abort, Goto, Return
  <2> QED
    BY <1>2, <1>3, <2>1 DEF LInv, Purging
<1>9. ASSUME NEW u \in Users, Login(u), UNCHANGED before PROVE Purging'
  BY <1>4, <1>9 DEF LInv, IInv, TypeOK, Login, Goto
<1>10. ASSUME NEW s \in Minters, StoreStep(s), UNCHANGED before PROVE Purging'
  BY <1>4, <1>10 DEF LInv, IInv, TypeOK, StoreStep, StoreToken, IndexUser, IndexFamily, Goto, Return
<1>11. ASSUME NEW t \in Tokens, Refresh(t) \/ Logout(t), UNCHANGED before PROVE Purging'
  BY <1>4, <1>11 DEF LInv, IInv, TypeOK, Refresh, Logout, Goto
<1>12. ASSUME RefreshStep, UNCHANGED before PROVE Purging'
  BY <1>4, <1>12 DEF LInv, IInv, TypeOK, RefreshStep, RejectDead, AcceptLive,
     RejectFingerprint, CheckUser, Rotate, Goto, Return
<1>13. ASSUME NEW s \in Revokers, RevokeStep(s), UNCHANGED before PROVE Purging'
  BY <1>4, <1>13 DEF LInv, IInv, TypeOK, RevokeStep, RevokeGet, RevokeSet, InFamilyLoop, Goto, Return
<1>14. ASSUME FamilyStep, UNCHANGED before PROVE Purging'
  BY <1>4, <1>14 DEF LInv, IInv, TypeOK, FamilyStep, FamilyMembers, FamilyNext, FamilySkip,
     FamilyDone, Goto, Return
<1>15. ASSUME NEW s \in Purgers, NEW u \in Users, Purge(s, u), UNCHANGED before PROVE Purging'
  BY <1>4, <1>15 DEF LInv, IInv, TypeOK, Purge, Goto
<1>16. ASSUME NEW t \in Tokens, Expire(t), UNCHANGED before PROVE Purging'
  BY <1>4, <1>16 DEF Expire, request
<1>17. CASE UNCHANGED lvars
  BY <1>4, <1>17 DEF lvars, vars, request
<1> QED
  BY <1>5, <1>6, <1>7, <1>8, <1>9, <1>10, <1>11, <1>12, <1>13, <1>14, <1>15, <1>16,
     <1>17 DEF LNext, Elsewhere

LEMMA GrantedGrows ==
  ASSUME IInv, [Next]_vars
  PROVE  granted \subseteq granted' /\ Stored \subseteq Stored'
<1>1. ASSUME NEW s \in Minters, StoreToken(s) PROVE Stored \subseteq Stored'
  BY <1>1 DEF IInv, TypeOK, StoreToken
<1>2. fam' = fam => Stored \subseteq Stored'
  OBVIOUS
<1>3. granted \subseteq granted'
  BY DEF Next, StoreStep, RefreshStep, RevokeStep, FamilyStep, PurgeStep, StoreToken,
      Abort, Login, IndexUser, IndexFamily, Refresh, RejectDead, AcceptLive,
      RejectFingerprint, CheckUser, Rotate, Logout, RevokeGet, RevokeSet, FamilyMembers,
      FamilyNext, FamilySkip, FamilyDone, Purge, Members, DelToken, DelIndex, Expire,
      history, vars
<1> QED
  BY <1>1, <1>2, <1>3 DEF Next, StoreStep, RefreshStep, RevokeStep, FamilyStep, PurgeStep,
      Abort, Login, IndexUser, IndexFamily, Refresh, RejectDead, AcceptLive,
      RejectFingerprint, CheckUser, Rotate, Logout, RevokeGet, RevokeSet, FamilyMembers,
      FamilyNext, FamilySkip, FamilyDone, Purge, Members, DelToken, DelIndex, Expire,
      redis, vars

LEMMA LTypeStep ==
  ASSUME LInv, [LNext]_lvars
  PROVE  LTypeOK'
<1>1. TypeOK' /\ granted \subseteq granted' /\ Stored \subseteq Stored'
  BY StepIsStep, NextIInv, GrantedGrows DEF LInv, IInv
<1>2. before' \in [Purgers -> SUBSET granted']
  BY <1>1 DEF LInv, LTypeOK, LNext, LMembers, LDelIndex, LAbort, Elsewhere, Due, lvars
<1>3. orphaned' \subseteq Stored'
  BY <1>1 DEF LInv, IInv, LTypeOK, TypeOK, Position, LNext, LMembers, LDelIndex, LAbort,
     Elsewhere, DelIndex, At, lvars
<1> QED
  BY <1>1, <1>2, <1>3 DEF LTypeOK

LEMMA LInductive == LSpec => []LInv
<1>1. LInv /\ [LNext]_lvars => LInv'
  BY StepIsStep, NextIInv, LTypeStep, OwnedStep, NamedStep, PurgingStep DEF LInv
<1> QED
  BY InitLInv, <1>1, PTL DEF LSpec

\* The histories of LogoutAll name granted and stored tokens only.
THEOREM LogoutAllTypeCorrect == LSpec => []LTypeOK
<1>1. LInv => LTypeOK
  BY DEF LInv
<1> QED
  BY LInductive, <1>1, PTL

\* A purge that returns without an error leaves nothing usable of what its
\* user had been granted when it read the index, orphans apart.
THEOREM LogoutAllReachesGranted == LSpec => LogoutAllReaches
<1>1. ASSUME LInv, NEW s \in Purgers, LDelIndex(s)
      PROVE  \A t \in before[s] : ~Live(t)
  BY <1>1 DEF LInv, Purging, LDelIndex, DelIndex, At
<1>2. ASSUME LInv, NEW s \in Purgers, NothingToPurge(s)
      PROVE  \A t \in Due(s) : ~Live(t)
  BY <1>2 DEF LInv, Named, Due, NothingToPurge
<1>3. LInv =>
        [\A s \in Purgers :
           /\ LDelIndex(s) => \A t \in before[s] : ~Live(t)
           /\ LMembers(s) /\ NothingToPurge(s) => \A t \in Due(s) : ~Live(t)]_lvars
  BY <1>1, <1>2
<1> QED
  BY LInductive, <1>3, PTL DEF LogoutAllReaches, LSpec

\* What is proved of AuthSessions holds with the histories.
THEOREM LogoutAllKeepsSessions ==
  LSpec => /\ []OneLivePerFamily /\ []CompromisedDead
           /\ DeadStaysDead /\ ImplementsChains
  BY LogoutAllIsAuthSessions, OneLiveTokenPerFamily, CompromisedFamiliesAreDead,
     DeadTokensStayDead, StoreImplementsChains, PTL
=============================================================================
