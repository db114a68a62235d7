---------------------------- MODULE TokenFamilies ----------------------------
(***************************************************************************)
(* What the session store of services/auth promises about refresh tokens,  *)
(* without handlers, Redis keys or interleaving.  A family begins with the *)
(* token of a login.  A token is live until it is retired, for whatever    *)
(* reason (rotation, logout, revocation, expiry), and then dead for good.  *)
(* A retired token may be succeeded, once, by a new token of its family.   *)
(***************************************************************************)
EXTENDS Naturals

CONSTANTS Tokens, NoToken   \* NoToken is not in Tokens

VARIABLES live,  \* set of tokens a refresh accepts
          fam,   \* the token that began the family; NoToken: never issued
          prev   \* the token this one succeeds; NoToken: it began a family

vars == <<live, fam, prev>>

Issued == {t \in Tokens : fam[t] # NoToken}

Init ==
  /\ live = {}
  /\ fam = [t \in Tokens |-> NoToken]
  /\ prev = [t \in Tokens |-> NoToken]

Begin(t) ==
  /\ t \notin Issued
  /\ live' = live \cup {t}
  /\ fam' = [fam EXCEPT ![t] = t]
  /\ UNCHANGED prev

Retire(t) ==
  /\ t \in live
  /\ live' = live \ {t}
  /\ UNCHANGED <<fam, prev>>

Succeed(p, t) ==
  /\ p \in Issued \ live
  /\ \A x \in Tokens : prev[x] # p
  /\ t \notin Issued
  /\ live' = live \cup {t}
  /\ fam' = [fam EXCEPT ![t] = fam[p]]
  /\ prev' = [prev EXCEPT ![t] = p]

Next ==
  \/ \E t \in Tokens : Begin(t) \/ Retire(t)
  \/ \E p, t \in Tokens : Succeed(p, t)

Spec == Init /\ [][Next]_vars
-----------------------------------------------------------------------------
TypeInv ==
  /\ live \subseteq Issued
  /\ fam \in [Tokens -> Tokens \cup {NoToken}]
  /\ prev \in [Tokens -> Tokens \cup {NoToken}]

\* No token of a family is usable once another one of it has been issued in
\* its place: at any time a family has at most one live token.
OneLive ==
  \A x, y \in live : fam[x] = fam[y] => x = y

\* A family is a chain with one end, and only the end can be live.
End(x) == x \in Issued /\ \A y \in Tokens : prev[y] # x

OneEnd ==
  /\ \A x, y \in Tokens : End(x) /\ End(y) /\ fam[x] = fam[y] => x = y
  /\ \A x \in live : End(x)
  /\ \A x \in Issued : fam[x] \in Issued
  /\ \A x \in Tokens : prev[x] # NoToken => x \in Issued /\ prev[x] \in Issued

\* A dead token never comes back.
DeadForGood == [][\A t \in Issued : t \notin live => t \notin live']_vars
=============================================================================
