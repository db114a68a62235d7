------------------------ MODULE TokenFamilies_proofs ------------------------
(***************************************************************************)
(* A family of TokenFamilies is a chain whose only possibly live token is  *)
(* its end, for every set of tokens.                                       *)
(***************************************************************************)
EXTENDS TokenFamilies, TLAPS

\* NoToken stands for "no token".
Sentinel == NoToken \notin Tokens

Inv == Sentinel /\ TypeInv /\ OneEnd

LEMMA InvInit == Sentinel /\ Init => Inv
  BY DEF Init, Inv, TypeInv, OneEnd, End, Issued

LEMMA BeginInv ==
  ASSUME Inv, NEW t \in Tokens, Begin(t)
  PROVE  Inv'
<1>1. Issued' = Issued \cup {t}
  BY DEF Begin, Issued, Inv, Sentinel, TypeInv
<1>2. TypeInv'
  BY <1>1 DEF Begin, Inv, TypeInv
<1>3. \A x \in Tokens : prev'[x] = prev[x] /\ (x # t => fam'[x] = fam[x])
  BY DEF Begin, Inv, TypeInv
<1>4. fam'[t] = t
  BY DEF Begin, Inv, TypeInv
<1>5. \A x \in Tokens : End(x)' <=> End(x) \/ x = t
  BY <1>1, <1>3 DEF Sentinel, End, Inv, OneEnd, Begin
<1>6. \A x \in Tokens : End(x) => fam[x] # t
  BY DEF Begin, End, Inv, OneEnd, Issued
<1>7. \A x, y \in Tokens : End(x)' /\ End(y)' /\ fam'[x] = fam'[y] => x = y
  BY <1>3, <1>4, <1>5, <1>6 DEF Inv, OneEnd
<1>8. \A x \in live' : End(x)'
  BY <1>5 DEF Begin, Inv, OneEnd, TypeInv, Issued
<1>9. \A x \in Issued' : fam'[x] \in Issued'
  BY <1>1, <1>3, <1>4 DEF Inv, OneEnd, Issued
<1>10. \A x \in Tokens : prev'[x] # NoToken => x \in Issued' /\ prev'[x] \in Issued'
  BY <1>1, <1>3 DEF Inv, OneEnd
<1> QED
  BY <1>2, <1>7, <1>8, <1>9, <1>10 DEF Inv, OneEnd

LEMMA SucceedInv ==
  ASSUME Inv, NEW p \in Tokens, NEW t \in Tokens, Succeed(p, t)
  PROVE  Inv'
<1>1. fam[p] \in Issued /\ fam[p] \in Tokens /\ fam[p] # NoToken
  BY DEF Succeed, Inv, OneEnd, Issued
<1>2. Issued' = Issued \cup {t}
  BY <1>1 DEF Succeed, Issued, Inv, TypeInv
<1>3. TypeInv'
  BY <1>1, <1>2 DEF Succeed, Inv, TypeInv
<1>4. /\ \A x \in Tokens : x # t => prev'[x] = prev[x] /\ fam'[x] = fam[x]
      /\ fam'[t] = fam[p] /\ prev'[t] = p
  BY DEF Succeed, Inv, TypeInv
<1>5. End(p)
  BY DEF Succeed, End
<1>6. p # t
  BY DEF Succeed
<1>7. \A x \in Tokens : End(x)' => (End(x) /\ x # p) \/ x = t
  BY <1>2, <1>4 DEF Sentinel, End, Inv, OneEnd, Succeed
<1>8. \A x, y \in Tokens : End(x)' /\ End(y)' /\ fam'[x] = fam'[y] => x = y
  BY <1>4, <1>5, <1>6, <1>7 DEF Inv, OneEnd
<1>9. End(t)'
  <2>1. t \notin Issued /\ p \in Issued
    BY DEF Succeed
  <2>2. \A y \in Tokens : prev[y] # t
    BY <2>1 DEF Sentinel, Inv, OneEnd
  <2> QED
    BY <1>2, <1>4, <1>6, <2>2 DEF End
<1>10. \A x \in live : x # t /\ x # p /\ End(x)
  BY DEF Succeed, Inv, TypeInv, OneEnd
<1>11. \A x \in live : End(x)'
  BY <1>2, <1>4, <1>10 DEF End
<1>12. \A x \in live' : End(x)'
  BY <1>9, <1>11 DEF Succeed
<1>13. \A x \in Issued' : fam'[x] \in Issued'
  <2>1. \A x \in Issued : x \in Tokens /\ x # t
    BY DEF Succeed, Issued
  <2> QED
    BY <1>1, <1>2, <1>4, <2>1 DEF Inv, OneEnd
<1>14. \A x \in Tokens : prev'[x] # NoToken => x \in Issued' /\ prev'[x] \in Issued'
  BY <1>2, <1>4 DEF Inv, OneEnd, Succeed
<1> QED
  BY <1>3, <1>8, <1>12, <1>13, <1>14 DEF Inv, OneEnd

LEMMA InvNext == Inv /\ [Next]_vars => Inv'
<1> SUFFICES ASSUME Inv, [Next]_vars PROVE Inv'
  OBVIOUS
<1>1. ASSUME NEW t \in Tokens, Retire(t) PROVE Inv'
  BY <1>1 DEF Retire, Inv, TypeInv, OneEnd, End, Issued
<1>2. CASE UNCHANGED vars
  BY <1>2 DEF vars, Inv, TypeInv, OneEnd, End, Issued
<1> QED
  BY BeginInv, SucceedInv, <1>1, <1>2 DEF Next

\* At any time a family has at most one live token.
THEOREM FamilyHasOneLiveToken ==
  ASSUME Sentinel PROVE Spec => []OneLive
<1>1. Inv => OneLive
  BY DEF Inv, OneEnd, OneLive, TypeInv, Issued
<1> QED
  BY InvInit, InvNext, <1>1, PTL DEF Spec

\* A dead token never becomes live again.
THEOREM DeadTokensStayDead ==
  ASSUME Sentinel PROVE Spec => DeadForGood
<1>1. Inv /\ [Next]_vars => [\A t \in Issued : t \notin live => t \notin live']_vars
  BY DEF Next, Begin, Succeed, Retire, vars
<1> QED
  BY InvInit, InvNext, <1>1, PTL DEF Spec, DeadForGood
=============================================================================
