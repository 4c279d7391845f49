--------------------------- MODULE SessionsProofs ---------------------------
(***************************************************************************)
(* For any number of users, tokens and concurrent requests: what rotation, *)
(* logout and reuse detection achieve.                                     *)
(***************************************************************************)
EXTENDS Sessions, TLAPS

LEMMA InitInvariant == Init => IInv
  <1> SUFFICES ASSUME Init PROVE IInv
    OBVIOUS
  <1>1. TypeOK
    BY DEF Init, TypeOK
  <1>2. \A t \in Token : Children(t) = {} /\ Blame(t)
    BY NoneAssumption DEF Init, Children, Blame
  <1>3. \A p \in Request : Position(p) /\ Suspicion(p)
    BY DEF Init, Position, Suspicion
  <1>4. SweptForReuse /\ Issued
    BY NoneAssumption DEF Init, SweptForReuse, Issued
  <1> QED
    BY <1>1, <1>2, <1>3, <1>4 DEF IInv, ExchangedIsRevoked

LEMMA StepTypes ==
    ASSUME IInv, NEW p \in Request, Step(p)
    PROVE  TypeOK'
  <1>0. TypeOK /\ Position(p)
    BY DEF IInv
  <1> USE DEF TypeOK, Goto
  <1>1. ASSUME NEW u \in User, Login(p, u) PROVE TypeOK'
    BY <1>0, <1>1 DEF Login
  <1>2. ASSUME NEW t \in Token, Refresh(p, t) PROVE TypeOK'
    BY <1>0, <1>2, OwnerOfAssumption DEF Refresh
  <1>3. ASSUME NEW t \in Token, Logout(p, t) PROVE TypeOK'
    BY <1>0, <1>3 DEF Logout
  <1>4. CASE FindActiveByHash(p)
    BY <1>0, <1>4 DEF FindActiveByHash
  <1>5. CASE FindUser(p)
    BY <1>0, <1>5 DEF FindUser
  <1>6. ASSUME NEW answered \in BOOLEAN, RevokeByHash(p, answered) PROVE TypeOK'
    BY <1>0, <1>6 DEF RevokeByHash
  <1>7. ASSUME NEW n \in Token, NEW answered \in BOOLEAN, IssueTokens(p, n, answered)
        PROVE  TypeOK'
    BY <1>0, <1>7 DEF IssueTokens
  <1>8. CASE RevokeAllForUser(p)
    BY <1>0, <1>8 DEF RevokeAllForUser, Position
  <1>9. CASE Fails(p)
    BY <1>0, <1>9 DEF Fails
  <1> QED
    BY <1>1, <1>2, <1>3, <1>4, <1>5, <1>6, <1>7, <1>8, <1>9 DEF Step

\* What every step of p leaves as it is: other requests stay where they are, a
\* request keeps its token and its user once it has begun, rows are not
\* removed, a revoked row stays revoked, a token's issuer is final.
LEMMA StepFrame ==
    ASSUME IInv, NEW p \in Request, Step(p)
    PROVE  /\ \A q \in Request \ {p} :
                  pc'[q] = pc[q] /\ who'[q] = who[q] /\ tok'[q] = tok[q]
           /\ pc[p] # "idle" => tok'[p] = tok[p] /\ who'[p] = who[p]
           /\ pc'[p] # "idle" /\ pc[p] # "done"
           /\ held \subseteq held' /\ swept \subseteq swept' /\ deleted' = deleted
           /\ \A t \in Token : row[t] = "revoked" => row'[t] = "revoked"
           /\ \A t \in Token : row[t] # "none" => row'[t] # "none" /\ issuer'[t] = issuer[t]
  <1>0. TypeOK
    BY DEF IInv
  <1> USE DEF TypeOK, Goto
  <1>1. CASE \E u \in User : Login(p, u)
    BY <1>0, <1>1 DEF Login
  <1>2. CASE \E t \in Token : Refresh(p, t) \/ Logout(p, t)
    BY <1>0, <1>2 DEF Refresh, Logout
  <1>3. CASE FindActiveByHash(p) \/ FindUser(p) \/ Fails(p)
    BY <1>0, <1>3 DEF FindActiveByHash, FindUser, Fails
  <1>4. CASE \E answered \in BOOLEAN : RevokeByHash(p, answered)
    BY <1>0, <1>4 DEF RevokeByHash
  <1>5. CASE \E n \in Token, answered \in BOOLEAN : IssueTokens(p, n, answered)
    BY <1>0, <1>5 DEF IssueTokens
  <1>6. CASE RevokeAllForUser(p)
    BY <1>0, <1>6 DEF RevokeAllForUser
  <1> QED
    BY <1>1, <1>2, <1>3, <1>4, <1>5, <1>6 DEF Step

\* Only issuing gives a token a child.
LEMMA StepNoChildren ==
    ASSUME IInv, NEW p \in Request, Step(p), NEW t \in Token,
           ~\E n \in Token, answered \in BOOLEAN : IssueTokens(p, n, answered)
    PROVE  Children(t)' = Children(t)
  <1>1. issuer' = issuer
    BY DEF Step, Login, Refresh, Logout, FindActiveByHash, FindUser, RevokeByHash,
       RevokeAllForUser, Fails
  <1>2. \A x \in Token : issuer[x] \in Request => issuer[x] # p
    BY StepFrame DEF IInv, Issued
  <1>3. \A x \in Token : issuer[x] \in Request => tok'[issuer[x]] = tok[issuer[x]]
    BY <1>2, StepFrame
  <1> QED
    BY <1>1, <1>3 DEF Children

\* Issuing gives the presented token a child and is p's last step; no other
\* step adds one.
LEMMA StepChildren ==
    ASSUME IInv, NEW p \in Request, Step(p), NEW t \in Token
    PROVE  \/ Children(t)' = Children(t)
           \/ pc[p] = "create" /\ tok[p] = t
  <1>0. TypeOK /\ Issued
    BY DEF IInv
  <1>1. CASE \E n \in Token, answered \in BOOLEAN : IssueTokens(p, n, answered)
    <2>1. PICK n \in Token : row[n] = "none" /\ issuer' = [issuer EXCEPT ![n] = p]
                             /\ pc[p] = "create" /\ tok' = tok
      BY <1>1 DEF IssueTokens
    <2>2. issuer[n] \notin Request /\ n \notin Children(t)
      BY <1>0, <2>1 DEF Issued, Children
    <2>3. tok[p] # t => Children(t)' = Children(t)
      BY <1>0, <2>1, <2>2 DEF TypeOK, Children
    <2> QED
      BY <2>1, <2>3
  <1>2. CASE ~\E n \in Token, answered \in BOOLEAN : IssueTokens(p, n, answered)
    BY <1>2, StepNoChildren
  <1> QED
    BY <1>1, <1>2

LEMMA StepPositions ==
    ASSUME IInv, NEW p \in Request, Step(p), NEW q \in Request
    PROVE  Position(q)'
  <1>0. TypeOK /\ Position(q) /\ TypeOK'
    BY StepTypes DEF IInv
  <1>1. CASE q # p
    BY <1>0, <1>1, StepFrame, NoneAssumption DEF Position, TypeOK
  <1>2. CASE q = p
    <2> USE <1>0, <1>2 DEF TypeOK, Goto, Position
    <2>1. ASSUME NEW u \in User, Login(p, u) PROVE Position(p)'
      BY <2>1 DEF Login
    <2>2. ASSUME NEW t \in Token, Refresh(p, t) \/ Logout(p, t) PROVE Position(p)'
      BY <2>2, OwnerOfAssumption DEF Refresh, Logout
    <2>3. CASE FindActiveByHash(p) \/ FindUser(p) \/ Fails(p)
      BY <2>3 DEF FindActiveByHash, FindUser, Fails
    <2>4. ASSUME NEW answered \in BOOLEAN, RevokeByHash(p, answered) PROVE Position(p)'
      BY <2>4 DEF RevokeByHash
    <2>5. ASSUME pc'[p] = "done" PROVE Position(p)'
      BY <2>5
    <2>6. (\E n \in Token, answered \in BOOLEAN : IssueTokens(p, n, answered))
            \/ RevokeAllForUser(p) => pc'[p] = "done"
      BY DEF IssueTokens, RevokeAllForUser
    <2> QED
      BY <2>1, <2>2, <2>3, <2>4, <2>5, <2>6 DEF Step
  <1> QED
    BY <1>1, <1>2

\* A token is revoked by the request that presents it, or in a sweep.
LEMMA StepBlame ==
    ASSUME IInv, NEW p \in Request, Step(p), NEW t \in Token
    PROVE  Blame(t)'
  <1>0. TypeOK /\ Blame(t) /\ Position(p)
    BY DEF IInv
  <1>1. SUFFICES ASSUME row'[t] = "revoked"
                 PROVE  \/ OwnerOf[t] \in swept'
                        \/ \E q \in Request : tok'[q] = t /\ pc'[q] \in {"create", "done"}
    BY DEF Blame
  <1>2. CASE row[t] = "revoked"
    <2>1. CASE OwnerOf[t] \in swept
      BY <2>1, StepFrame
    <2>2. ASSUME NEW q \in Request, tok[q] = t, pc[q] \in {"create", "done"}
          PROVE  tok'[q] = t /\ pc'[q] \in {"create", "done"}
      <3>1. CASE q # p
        BY <2>2, <3>1, StepFrame
      <3>2. CASE q = p
        <4>1. pc[p] = "create" /\ tok'[p] = t
          BY <2>2, <3>2, StepFrame
        <4>2. pc'[p] = "done"
          BY <1>0, <4>1 DEF Step, Login, Refresh, Logout, FindActiveByHash, FindUser,
             RevokeByHash, IssueTokens, RevokeAllForUser, Fails, Goto, TypeOK
        <4> QED
          BY <3>2, <4>1, <4>2
      <3> QED
        BY <3>1, <3>2
    <2> QED
      BY <1>0, <1>2, <2>1, <2>2 DEF Blame
  <1>3. CASE row[t] # "revoked"
    <2>1. CASE \E answered \in BOOLEAN : RevokeByHash(p, answered)
      <3>1. tok'[p] = t /\ pc'[p] \in {"create", "done"}
        BY <1>0, <1>1, <1>3, <2>1 DEF RevokeByHash, Goto, TypeOK
      <3> QED
        BY <3>1
    <2>2. CASE RevokeAllForUser(p)
      BY <1>0, <1>1, <1>3, <2>2 DEF RevokeAllForUser, TypeOK
    <2>3. CASE \E n \in Token, answered \in BOOLEAN : IssueTokens(p, n, answered)
      BY <1>0, <1>1, <1>3, <2>3 DEF IssueTokens, TypeOK
    <2>4. CASE row' = row
      BY <1>1, <1>3, <2>4
    <2> QED
      BY <2>1, <2>2, <2>3, <2>4 DEF Step, Login, Refresh, Logout, FindActiveByHash,
         FindUser, Fails
  <1> QED
    BY <1>2, <1>3

\* Finding reuse points to another request with the same token, or to a sweep.
LEMMA StepSuspicion ==
    ASSUME IInv, NEW p \in Request, Step(p), NEW q \in Request
    PROVE  Suspicion(q)'
  <1>0. TypeOK /\ Suspicion(q) /\ Position(p)
    BY DEF IInv
  <1>1. SUFFICES ASSUME pc'[q] = "revokeAll"
                 PROVE  \/ who'[q] \in swept'
                        \/ \E x \in Request \ {q} : tok'[x] = tok'[q]
    BY DEF Suspicion
  <1>2. CASE q # p
    <2>1. pc[q] = "revokeAll" /\ who'[q] = who[q] /\ tok'[q] = tok[q]
      BY <1>1, <1>2, StepFrame
    <2>2. CASE who[q] \in swept
      BY <2>1, <2>2, StepFrame
    <2>3. ASSUME NEW x \in Request \ {q}, tok[x] = tok[q]
          PROVE  tok'[x] = tok[x]
      <3>1. tok[x] \in Token
        BY <2>1, <2>3 DEF IInv, Position, TypeOK
      <3>2. pc[x] # "idle"
        BY <3>1, NoneAssumption DEF IInv, Position
      <3> QED
        BY <3>2, StepFrame
    <2> QED
      BY <1>0, <2>1, <2>2, <2>3 DEF Suspicion
  <1>3. CASE q = p
    <2>1. FindActiveByHash(p)
      BY <1>0, <1>1, <1>3 DEF Step, Login, Refresh, Logout, FindUser, RevokeByHash,
         IssueTokens, RevokeAllForUser, Fails, Goto, TypeOK
    <2>2. /\ pc[p] = "find" /\ row[tok[p]] # "active" /\ tok[p] \in held
          /\ who[p] = OwnerOf[tok[p]]
          /\ tok' = tok /\ who' = who /\ swept' = swept
      BY <1>0, <1>1, <1>3, <2>1 DEF FindActiveByHash, Goto, TypeOK, Position
    <2>3. tok[p] \in Token /\ row[tok[p]] = "revoked"
      BY <1>0, <2>2 DEF TypeOK
    <2>4. \/ OwnerOf[tok[p]] \in swept
          \/ \E x \in Request : tok[x] = tok[p] /\ pc[x] \in {"create", "done"}
      BY <2>3 DEF IInv, Blame
    <2> QED
      BY <1>3, <2>2, <2>4
  <1> QED
    BY <1>2, <1>3

LEMMA StepInvariant ==
    ASSUME IInv, NEW p \in Request, Step(p)
    PROVE  IInv'
  <1>0. TypeOK /\ Position(p) /\ Suspicion(p)
    BY DEF IInv
  <1>1. ExchangedIsRevoked'
    <2> SUFFICES ASSUME NEW t \in Token, Children(t)' # {}
                 PROVE  row'[t] = "revoked"
      BY DEF ExchangedIsRevoked
    <2>1. CASE Children(t)' = Children(t)
      BY <2>1, StepFrame DEF IInv, ExchangedIsRevoked
    <2>2. CASE pc[p] = "create" /\ tok[p] = t
      <3>1. row[t] = "revoked"
        BY <1>0, <2>2, NoneAssumption DEF Position
      <3> QED
        BY <3>1, StepFrame
    <2> QED
      BY <2>1, <2>2, StepChildren
  <1>2. SweptForReuse'
    <2> SUFFICES ASSUME NEW u \in swept'
                 PROVE  \E x, y \in Request :
                          /\ x # y /\ tok'[x] = tok'[y] /\ tok'[x] \in Token
                          /\ OwnerOf[tok'[x]] = u
      BY DEF SweptForReuse
    <2>1. \A x \in Request : tok[x] \in Token => tok'[x] = tok[x]
      BY StepFrame, NoneAssumption DEF IInv, Position
    <2>2. CASE u \in swept
      BY <2>1, <2>2 DEF IInv, SweptForReuse
    <2>3. CASE u \notin swept
      <3>1. RevokeAllForUser(p) /\ u = who[p]
        BY <2>3 DEF Step, Login, Refresh, Logout, FindActiveByHash, FindUser,
           RevokeByHash, IssueTokens, RevokeAllForUser, Fails
      <3>2. tok[p] \in Token /\ OwnerOf[tok[p]] = u
        BY <1>0, <3>1 DEF RevokeAllForUser, Position, TypeOK
      <3>3. PICK q \in Request \ {p} : tok[q] = tok[p]
        BY <1>0, <2>3, <3>1 DEF RevokeAllForUser, Suspicion
      <3> QED
        BY <2>1, <3>2, <3>3
    <2> QED
      BY <2>2, <2>3
  <1>3. Issued'
    <2> SUFFICES ASSUME NEW t \in Token, issuer'[t] \in Request
                 PROVE  pc'[issuer'[t]] = "done" /\ row'[t] # "none"
      BY DEF Issued
    <2>1. CASE issuer'[t] = issuer[t]
      BY <2>1, StepFrame DEF IInv, Issued
    <2>2. CASE issuer'[t] # issuer[t]
      BY <1>0, <2>2 DEF Step, Login, Refresh, Logout, FindActiveByHash, FindUser,
         RevokeByHash, IssueTokens, RevokeAllForUser, Fails, Goto, TypeOK
    <2> QED
      BY <2>1, <2>2
  <1> QED
    BY <1>1, <1>2, <1>3, StepTypes, StepPositions, StepBlame, StepSuspicion DEF IInv

\* Time and administrators change nothing the invariant speaks of.
LEMMA NextInvariant == IInv /\ [Next]_vars => IInv'
  <1> SUFFICES ASSUME IInv, [Next]_vars PROVE IInv'
    OBVIOUS
  <1>1. CASE \E p \in Request : Step(p)
    BY <1>1, StepInvariant
  <1>2. CASE UNCHANGED vars \/ (\E t \in Token : Expire(t)) \/ (\E u \in User : RemoveUser(u))
    <2>1. UNCHANGED <<row, held, pc, who, tok, issuer, swept>>
          /\ expired' \in SUBSET Token /\ deleted' \in SUBSET User
      BY <1>2 DEF vars, Expire, RemoveUser, IInv, TypeOK
    <2>2. TypeOK'
      BY <2>1 DEF IInv, TypeOK
    <2>3. \A t \in Token : Children(t)' = Children(t) /\ Blame(t)'
      BY <2>1 DEF IInv, Children, Blame
    <2>4. \A p \in Request : Position(p)' /\ Suspicion(p)'
      BY <2>1 DEF IInv, Position, Suspicion
    <2> QED
      BY <2>1, <2>2, <2>3, <2>4 DEF IInv, ExchangedIsRevoked, SweptForReuse, Issued
  <1> QED
    BY <1>1, <1>2 DEF Next

-----------------------------------------------------------------------------
\* The inductive invariant: the position of each request, who revoked each
\* revoked token, and what a request that has found reuse can rely on.
THEOREM SessionsInvariant == Spec => []IInv
  <1> QED
    BY InitInvariant, NextInvariant, PTL DEF Spec

\* Of a chain of rotations only the last token can be active, whatever fails.
THEOREM RotationRevokes == Spec => []ExchangedIsRevoked
  <1>1. IInv => ExchangedIsRevoked
    BY DEF IInv
  <1> QED
    BY <1>1, SessionsInvariant, PTL

\* A user's tokens are revoked at once only after one was presented twice.
THEOREM SweepsNeedReuse == Spec => []SweptForReuse
  <1>1. IInv => SweptForReuse
    BY DEF IInv
  <1> QED
    BY <1>1, SessionsInvariant, PTL

\* Who is signed out stays so until the next login.
LEMMA SignedOutStays ==
    ASSUME IInv, [Next]_vars, NEW u \in User, SignedOut(u),
           ~\E p \in Request : Login(p, u)
    PROVE  SignedOut(u)'
  <1>0. TypeOK /\ \A p \in Request : Position(p)
    BY DEF IInv
  <1>1. ASSUME NEW p \in Request, Step(p) PROVE SignedOut(u)'
    <2> USE <1>0 DEF Goto, TypeOK
    <2>1. ASSUME NEW q \in Request, q # p, who'[q] = u
          PROVE  pc'[q] \notin {"user", "revoke", "create"}
      BY <1>1, <2>1, StepFrame DEF SignedOut
    <2>2. /\ who'[p] = u => pc'[p] \notin {"user", "revoke", "create"}
          /\ \A t \in Token : OwnerOf[t] = u => row'[t] # "active"
      <3>1. CASE \E x \in User : Login(p, x)
        <4>1. PICK x \in User : Login(p, x)
          BY <3>1
        <4>2. x # u
          BY <4>1
        <4> QED
          BY <4>1, <4>2 DEF Login, SignedOut
      <3>2. CASE \E t \in Token : Refresh(p, t) \/ Logout(p, t)
        BY <3>2 DEF Refresh, Logout, SignedOut
      <3>3. CASE FindActiveByHash(p)
        <4>1. who[p] = OwnerOf[tok[p]] /\ tok[p] \in Token
          BY <3>3 DEF FindActiveByHash, Position
        <4> QED
          BY <3>3, <4>1 DEF FindActiveByHash, SignedOut
      <3>4. CASE FindUser(p) \/ Fails(p)
        BY <3>4 DEF FindUser, Fails, SignedOut
      <3>5. CASE \E answered \in BOOLEAN : RevokeByHash(p, answered)
        BY <3>5 DEF RevokeByHash, SignedOut
      <3>6. CASE \E n \in Token, answered \in BOOLEAN : IssueTokens(p, n, answered)
        BY <3>6 DEF IssueTokens, SignedOut
      <3>7. CASE RevokeAllForUser(p)
        BY <3>7 DEF RevokeAllForUser, SignedOut
      <3> QED
        BY <1>1, <3>1, <3>2, <3>3, <3>4, <3>5, <3>6, <3>7 DEF Step
    <2> QED
      BY <2>1, <2>2 DEF SignedOut
  <1>2. CASE UNCHANGED vars \/ (\E t \in Token : Expire(t)) \/ (\E x \in User : RemoveUser(x))
    <2>1. UNCHANGED <<row, pc, who>>
      BY <1>2 DEF vars, Expire, RemoveUser
    <2> QED
      BY <2>1 DEF SignedOut
  <1> QED
    BY <1>1, <1>2 DEF Next

\* A revoked token that no refresh in flight has found stays useless for ever,
\* and a user whose tokens are all revoked stays signed out until the next login.
THEOREM RevocationLasts == Spec => RevokedForGood
  <1> DEFINE Spent(t) == row[t] = "revoked" /\ \A p \in Request : ~Exchanges(p, t)
             Stays(t) == /\ row'[t] = "revoked"
                         /\ \A p \in Request : ~Exchanges(p, t)'
                         /\ Children(t)' = Children(t)
  <1>1. ASSUME IInv, [Next]_vars, NEW t \in Token, Spent(t)
        PROVE  Stays(t)
    <2>1. ASSUME NEW p \in Request, Step(p) PROVE Stays(t)
      <3>1. ~(pc[p] \in {"user", "revoke", "create"} /\ tok[p] = t)
        BY <1>1 DEF Exchanges
      <3>2. Children(t)' = Children(t)
        BY <1>1, <2>1, <3>1, StepChildren
      <3>3. ASSUME NEW q \in Request, q # p PROVE ~Exchanges(q, t)'
        BY <1>1, <2>1, <3>3, StepFrame DEF Exchanges
      <3>4. ~Exchanges(p, t)'
        <4>1. CASE FindActiveByHash(p)
          BY <1>1, <4>1 DEF FindActiveByHash, Goto, Exchanges, IInv, TypeOK
        <4>2. CASE FindUser(p) \/ Fails(p)
          BY <1>1, <3>1, <4>2 DEF FindUser, Fails, Goto, Exchanges, IInv, TypeOK
        <4>3. CASE \E answered \in BOOLEAN : RevokeByHash(p, answered)
          BY <1>1, <3>1, <4>3 DEF RevokeByHash, Goto, Exchanges, IInv, TypeOK
        <4>4. CASE \E u \in User : Login(p, u)
          BY <1>1, <4>4, NoneAssumption DEF Login, Goto, Exchanges, IInv, TypeOK, Position
        <4>5. CASE \E x \in Token : Refresh(p, x) \/ Logout(p, x)
          BY <1>1, <4>5 DEF Refresh, Logout, Goto, Exchanges, IInv, TypeOK
        <4>6. CASE \E n \in Token, answered \in BOOLEAN : IssueTokens(p, n, answered)
          BY <1>1, <4>6 DEF IssueTokens, Goto, Exchanges, IInv, TypeOK
        <4>7. CASE RevokeAllForUser(p)
          BY <1>1, <4>7 DEF RevokeAllForUser, Goto, Exchanges, IInv, TypeOK
        <4> QED
          BY <2>1, <4>1, <4>2, <4>3, <4>4, <4>5, <4>6, <4>7 DEF Step
      <3> QED
        BY <1>1, <2>1, <3>2, <3>3, <3>4, StepFrame
    <2>2. CASE UNCHANGED vars \/ (\E x \in Token : Expire(x)) \/ (\E u \in User : RemoveUser(u))
      <3>1. UNCHANGED <<row, pc, tok, issuer>>
        BY <2>2 DEF vars, Expire, RemoveUser
      <3> QED
        BY <1>1, <3>1 DEF Exchanges, Children
    <2> QED
      BY <1>1, <2>1, <2>2 DEF Next
  <1> DEFINE OutLasts(u) ==
                 SignedOut(u) => SignedOut(u)' \/ \E p \in Request : Login(p, u)
             Lasts == /\ \A t \in Token : Spent(t) => Stays(t)
                      /\ \A u \in User : OutLasts(u)
  <1>2. IInv /\ [Next]_vars => [Lasts]_vars
    BY <1>1, SignedOutStays
  <1>3. RevokedForGood <=> [][Lasts]_vars
    BY DEF RevokedForGood
  <1> QED
    BY <1>2, <1>3, SessionsInvariant, PTL DEF Spec

\* A removed user gets tokens from requests only that had found the user before.
THEOREM RemovalLasts == Spec => RemovedForGood
  <1> DEFINE Barred(u) == \A p \in Request : who[p] = u => pc[p] \notin {"revoke", "create"}
             Stays(u) == /\ \A p \in Request :
                              who'[p] = u => pc'[p] \notin {"revoke", "create"}
                         /\ TokensOf(u)' = TokensOf(u)
  <1>1. ASSUME IInv, [Next]_vars, NEW u \in deleted, Barred(u)
        PROVE  Stays(u)
    <2>0. TypeOK /\ u \in User
      BY <1>1 DEF IInv, TypeOK
    <2>1. ASSUME NEW p \in Request, Step(p) PROVE Stays(u)
      <3> USE <2>0 DEF Goto, TypeOK
      <3>1. ASSUME NEW q \in Request, q # p, who'[q] = u
            PROVE  pc'[q] \notin {"revoke", "create"}
        BY <1>1, <2>1, <3>1, StepFrame
      <3>2. ASSUME who'[p] = u PROVE pc'[p] \notin {"revoke", "create"}
        <4>1. CASE \E x \in User : Login(p, x)
          BY <1>1, <3>2, <4>1 DEF Login
        <4>2. CASE \E t \in Token : Refresh(p, t) \/ Logout(p, t)
          BY <4>2 DEF Refresh, Logout
        <4>3. CASE FindActiveByHash(p)
          BY <4>3 DEF FindActiveByHash
        <4>4. CASE FindUser(p) \/ Fails(p)
          BY <1>1, <3>2, <4>4 DEF FindUser, Fails
        <4>5. CASE \E answered \in BOOLEAN : RevokeByHash(p, answered)
          BY <1>1, <3>2, <4>5 DEF RevokeByHash
        <4>6. CASE \E n \in Token, answered \in BOOLEAN : IssueTokens(p, n, answered)
          BY <4>6 DEF IssueTokens
        <4>7. CASE RevokeAllForUser(p)
          BY <4>7 DEF RevokeAllForUser
        <4> QED
          BY <2>1, <4>1, <4>2, <4>3, <4>4, <4>5, <4>6, <4>7 DEF Step
      <3>3. ASSUME NEW t \in Token, OwnerOf[t] = u
            PROVE  row'[t] # "none" <=> row[t] # "none"
        <4>1. CASE \E n \in Token, answered \in BOOLEAN : IssueTokens(p, n, answered)
          BY <1>1, <3>3, <4>1 DEF IssueTokens
        <4>2. CASE \E answered \in BOOLEAN : RevokeByHash(p, answered)
          <5>1. row[tok[p]] # "none"
            BY <1>1, <4>2 DEF IInv, Position, RevokeByHash
          <5> QED
            BY <4>2, <5>1 DEF RevokeByHash
        <4>3. CASE RevokeAllForUser(p)
          BY <4>3 DEF RevokeAllForUser
        <4>4. CASE row' = row
          BY <4>4
        <4> QED
          BY <2>1, <4>1, <4>2, <4>3, <4>4 DEF Step, Login, Refresh, Logout,
             FindActiveByHash, FindUser, Fails
      <3> QED
        BY <3>1, <3>2, <3>3 DEF TokensOf
    <2>2. CASE UNCHANGED vars \/ (\E t \in Token : Expire(t)) \/ (\E x \in User : RemoveUser(x))
      <3>1. UNCHANGED <<row, pc, who>>
        BY <2>2 DEF vars, Expire, RemoveUser
      <3> QED
        BY <1>1, <3>1 DEF TokensOf
    <2> QED
      BY <1>1, <2>1, <2>2 DEF Next
  <1>2. IInv /\ [Next]_vars => [\A u \in deleted : Barred(u) => Stays(u)]_vars
    BY <1>1
  <1>3. RemovedForGood <=> [][\A u \in deleted : Barred(u) => Stays(u)]_vars
    BY DEF RemovedForGood
  <1> QED
    BY <1>2, <1>3, SessionsInvariant, PTL DEF Spec

-----------------------------------------------------------------------------
\* The first refresh that finds a token active finds it without a child.
LEMMA StepRotation ==
    ASSUME IInv, Rotation, NoOverlap, NEW p \in Request, Step(p), NEW t \in Token
    PROVE  /\ \A m, n \in Children(t)' : m = n
           /\ \A q \in Request : Exchanges(q, t)' => Children(t)' = {}
  <1>0. TypeOK /\ Position(p)
    BY DEF IInv
  <1>1. CASE \E n \in Token, answered \in BOOLEAN : IssueTokens(p, n, answered)
    <2>1. PICK n \in Token : /\ row[n] = "none" /\ issuer' = [issuer EXCEPT ![n] = p]
                             /\ pc[p] = "create" /\ tok' = tok /\ pc'[p] = "done"
      BY <1>0, <1>1 DEF IssueTokens, Goto, TypeOK
    <2>2. CASE tok[p] = t
      <3>1. Exchanges(p, t) /\ Children(t) = {}
        BY <2>1, <2>2 DEF Exchanges, Rotation
      <3>2. Children(t)' \subseteq {n}
        BY <1>0, <2>1, <3>1 DEF Children, TypeOK
      <3>3. ASSUME NEW q \in Request PROVE ~Exchanges(q, t)'
        BY <2>1, <3>1, StepFrame DEF Exchanges, NoOverlap
      <3> QED
        BY <3>2, <3>3
    <2>3. CASE tok[p] # t
      <3>1. Children(t)' = Children(t)
        BY <2>3, StepChildren
      <3>2. ASSUME NEW q \in Request, Exchanges(q, t)' PROVE Exchanges(q, t)
        BY <2>1, <2>3, <3>2, StepFrame DEF Exchanges
      <3> QED
        BY <3>1, <3>2 DEF Rotation, ExchangedOnce
    <2> QED
      BY <2>2, <2>3
  <1>2. CASE ~\E n \in Token, answered \in BOOLEAN : IssueTokens(p, n, answered)
    <2>1. Children(t)' = Children(t)
      BY <1>2, StepNoChildren
    <2>2. ASSUME NEW q \in Request, Exchanges(q, t)', ~Exchanges(q, t)
          PROVE  row[t] = "active"
      <3>1. q = p
        BY <2>2, StepFrame DEF Exchanges
      <3>2. FindActiveByHash(p)
        BY <1>0, <2>2, <3>1, NoneAssumption DEF Step, Login, Refresh, Logout, FindUser,
           RevokeByHash, IssueTokens, RevokeAllForUser, Fails, Goto, Exchanges, TypeOK,
           Position
      <3> QED
        BY <1>0, <2>2, <3>1, <3>2 DEF FindActiveByHash, Goto, Exchanges, TypeOK
    <2>3. row[t] = "active" => Children(t) = {}
      BY DEF IInv, ExchangedIsRevoked
    <2> QED
      BY <2>1, <2>2, <2>3 DEF Rotation, ExchangedOnce
  <1> QED
    BY <1>1, <1>2

LEMMA NextRotation ==
    IInv /\ Rotation /\ NoOverlap /\ [Next]_vars => Rotation'
  <1> SUFFICES ASSUME IInv, Rotation, NoOverlap, [Next]_vars PROVE Rotation'
    OBVIOUS
  <1>1. ASSUME NEW p \in Request, Step(p) PROVE Rotation'
    BY <1>1, StepRotation DEF Rotation, ExchangedOnce
  <1>2. CASE UNCHANGED vars \/ (\E t \in Token : Expire(t)) \/ (\E u \in User : RemoveUser(u))
    <2>1. UNCHANGED <<pc, tok, issuer>>
      BY <1>2 DEF vars, Expire, RemoveUser
    <2> QED
      BY <2>1 DEF Rotation, ExchangedOnce, Children, Exchanges
  <1> QED
    BY <1>1, <1>2 DEF Next

\* As long as no two refreshes exchange the same token at the same time, every
\* token is exchanged for one new token at most, whatever fails, expires, is
\* presented again or is revoked by others: only overlapping refreshes, which
\* find the row active before either has revoked it, split a session in two.
THEOREM RotationIsSingle == Spec /\ []NoOverlap => []ExchangedOnce
  <1>1. Init => Rotation
    BY NoneAssumption DEF Init, Rotation, ExchangedOnce, Exchanges, Children
  <1>2. Rotation => ExchangedOnce
    BY DEF Rotation
  <1> QED
    BY <1>1, <1>2, NextRotation, SessionsInvariant, PTL DEF Spec
=============================================================================
