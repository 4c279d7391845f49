------------------------------ MODULE Sessions ------------------------------
(***************************************************************************)
(* AuthService's login, refresh and logout over the table refresh_tokens,  *)
(* statement by statement, for concurrent requests and clients that may    *)
(* present any token they hold, also twice.                                *)
(*                                                                         *)
(* A token stands for its hash, its row and its jti.  Which user it is     *)
(* signed for is in its name (OwnerOf): the claim sub and the column       *)
(* userId are both written from the same user.  Access tokens are not      *)
(* stored and are left out; registration belongs to the users table.       *)
(***************************************************************************)
EXTENDS Naturals, FiniteSets

CONSTANTS
    User, Token, Request,
    OwnerOf,     \* OwnerOf[t]: the user that token t is signed for
    NoUser, NoToken, NoRequest

ASSUME OwnerOfAssumption == OwnerOf \in [Token -> User]
ASSUME NoneAssumption ==
    NoUser \notin User /\ NoToken \notin Token /\ NoRequest \notin Request

VARIABLES
    deleted,     \* users that are soft-deleted
    row,         \* row[t]: t's row in refresh_tokens
    expired,     \* tokens whose exp has passed
    held,        \* tokens that clients have received
    pc,          \* pc[p]: the statement that request p runs next
    who,         \* who[p]: the user that p has logged in, or payload.sub
    tok,         \* tok[p]: the token p presents, if any
    issuer,      \* issuer[t]: the request that has issued t
    swept        \* users whose tokens have been revoked all at once

vars == <<deleted, row, expired, held, pc, who, tok, issuer, swept>>

Goto(p, label) == pc' = [pc EXCEPT ![p] = label]

\* Earlier logins have left some tokens; nothing has been revoked yet.
Init ==
    /\ deleted = {}
    /\ row \in [Token -> {"none", "active"}]
    /\ expired = {}
    /\ held = {t \in Token : row[t] = "active"}
    /\ pc = [p \in Request |-> "idle"]
    /\ who = [p \in Request |-> NoUser]
    /\ tok = [p \in Request |-> NoToken]
    /\ issuer = [t \in Token |-> NoRequest]
    /\ swept = {}

-----------------------------------------------------------------------------
(* Requests arrive *)

\* The user is found and the password matches.
Login(p, u) ==
    /\ pc[p] = "idle"
    /\ u \notin deleted
    /\ who' = [who EXCEPT ![p] = u]
    /\ Goto(p, "create")
    /\ UNCHANGED <<deleted, row, expired, held, tok, issuer, swept>>

\* verifyRefreshToken: an expired token is a 401 and has no effect.
Refresh(p, t) ==
    /\ pc[p] = "idle"
    /\ t \in held \ expired
    /\ tok' = [tok EXCEPT ![p] = t]
    /\ who' = [who EXCEPT ![p] = OwnerOf[t]]
    /\ Goto(p, "find")
    /\ UNCHANGED <<deleted, row, expired, held, issuer, swept>>

\* logout verifies nothing.
Logout(p, t) ==
    /\ pc[p] = "idle"
    /\ t \in held
    /\ tok' = [tok EXCEPT ![p] = t]
    /\ Goto(p, "logout")
    /\ UNCHANGED <<deleted, row, expired, held, who, issuer, swept>>

-----------------------------------------------------------------------------
(* refresh *)

\* [mutant] revokedAt: undefined instead of IsNull() drops the condition.
FindActiveByHashAny(p) ==
    LET t == tok[p]
    IN  /\ pc[p] = "find"
        /\ Goto(p, CASE row[t] = "none" -> "revokeAll"
                     [] row[t] # "none" /\ t \in expired -> "done"
                     [] OTHER -> "user")
        /\ UNCHANGED <<deleted, row, expired, held, who, tok, issuer, swept>>

\* No active row: reuse.  A row that has expired since verification: 401.
FindActiveByHash(p) ==
    LET t == tok[p]
    IN  /\ pc[p] = "find"
        /\ Goto(p, CASE row[t] # "active" -> "revokeAll"
                     [] row[t] = "active" /\ t \in expired -> "done"
                     [] OTHER -> "user")
        /\ UNCHANGED <<deleted, row, expired, held, who, tok, issuer, swept>>

\* [mutant] Soft-deleted users are found, too.
FindUserAny(p) ==
    /\ pc[p] = "user"
    /\ Goto(p, "revoke")
    /\ UNCHANGED <<deleted, row, expired, held, who, tok, issuer, swept>>

\* [mutant] New tokens are issued without revoking the presented one.
FindUserNoRotation(p) ==
    /\ pc[p] = "user"
    /\ Goto(p, IF who[p] \in deleted THEN "done" ELSE "create")
    /\ UNCHANGED <<deleted, row, expired, held, who, tok, issuer, swept>>

FindUser(p) ==
    /\ pc[p] = "user"
    /\ Goto(p, IF who[p] \in deleted THEN "done" ELSE "revoke")
    /\ UNCHANGED <<deleted, row, expired, held, who, tok, issuer, swept>>

\* [mutant] Revokes what the user has instead of the one token.
RevokeByUser(p, answered) ==
    /\ pc[p] \in {"revoke", "logout"}
    /\ row' = [t \in Token |->
                  IF row[t] # "none" /\ OwnerOf[t] = OwnerOf[tok[p]]
                  THEN "revoked" ELSE row[t]]
    /\ Goto(p, IF pc[p] = "revoke" /\ answered THEN "create" ELSE "done")
    /\ UNCHANGED <<deleted, expired, held, who, tok, issuer, swept>>

\* UPDATE ... WHERE tokenHash = ..., of refresh and of logout.  Its reply may be
\* lost, and then refresh goes no further.
RevokeByHash(p, answered) ==
    /\ pc[p] \in {"revoke", "logout"}
    /\ row' = [row EXCEPT ![tok[p]] = "revoked"]
    /\ Goto(p, IF pc[p] = "revoke" /\ answered THEN "create" ELSE "done")
    /\ UNCHANGED <<deleted, expired, held, who, tok, issuer, swept>>

\* issueTokens, the end of login and refresh: the INSERT of a token that is new.
\* Its reply, or the answer to the client, may be lost.
IssueTokens(p, n, answered) ==
    /\ pc[p] = "create"
    /\ row[n] = "none" /\ OwnerOf[n] = who[p]
    /\ row' = [row EXCEPT ![n] = "active"]
    /\ issuer' = [issuer EXCEPT ![n] = p]
    /\ held' = IF answered THEN held \cup {n} ELSE held
    /\ Goto(p, "done")
    /\ UNCHANGED <<deleted, expired, who, tok, swept>>

\* revokeAllForUser, then 401.
RevokeAllForUser(p) ==
    /\ pc[p] = "revokeAll"
    /\ row' = [t \in Token |->
                  IF row[t] = "active" /\ OwnerOf[t] = who[p]
                  THEN "revoked" ELSE row[t]]
    /\ swept' = swept \cup {who[p]}
    /\ Goto(p, "done")
    /\ UNCHANGED <<deleted, expired, held, who, tok, issuer>>

-----------------------------------------------------------------------------
(* Faults, time, administrators *)

\* A statement fails without effect, or the process ends under the request.
Fails(p) ==
    /\ pc[p] \notin {"idle", "done"}
    /\ Goto(p, "done")
    /\ UNCHANGED <<deleted, row, expired, held, who, tok, issuer, swept>>

Expire(t) ==
    /\ row[t] # "none" /\ t \notin expired
    /\ expired' = expired \cup {t}
    /\ UNCHANGED <<deleted, row, held, pc, who, tok, issuer, swept>>

\* UserService.remove.  The rows of the user's tokens stay.
RemoveUser(u) ==
    /\ u \notin deleted
    /\ deleted' = deleted \cup {u}
    /\ UNCHANGED <<row, expired, held, pc, who, tok, issuer, swept>>

-----------------------------------------------------------------------------
Step(p) ==
    \/ \E u \in User : Login(p, u)
    \/ \E t \in Token : Refresh(p, t) \/ Logout(p, t)
    \/ FindActiveByHash(p)
    \/ FindUser(p)
    \/ \E answered \in BOOLEAN : RevokeByHash(p, answered)
    \/ \E n \in Token, answered \in BOOLEAN : IssueTokens(p, n, answered)
    \/ RevokeAllForUser(p)
    \/ Fails(p)

Next ==
    \/ \E p \in Request : Step(p)
    \/ \E t \in Token : Expire(t)
    \/ \E u \in User : RemoveUser(u)

Spec == Init /\ [][Next]_vars

-----------------------------------------------------------------------------
(* Properties *)

\* p has found t active and goes on to exchange it.
Exchanges(p, t) == tok[p] = t /\ pc[p] \in {"user", "revoke", "create"}

\* The tokens that t has been exchanged for.
Children(t) == {n \in Token : issuer[n] \in Request /\ tok[issuer[n]] = t}

TokensOf(u) == {t \in Token : OwnerOf[t] = u /\ row[t] # "none"}

\* Every variable stays in its range, and clients hold stored tokens only.
TypeOK ==
    /\ deleted \in SUBSET User
    /\ row \in [Token -> {"none", "active", "revoked"}]
    /\ expired \in SUBSET Token
    /\ held \in SUBSET {t \in Token : row[t] # "none"}
    /\ pc \in [Request -> {"idle", "find", "user", "revoke", "create",
                           "revokeAll", "logout", "done"}]
    /\ who \in [Request -> User \cup {NoUser}]
    /\ tok \in [Request -> Token \cup {NoToken}]
    /\ issuer \in [Token -> Request \cup {NoRequest}]
    /\ swept \in SUBSET User

\* "every refresh revokes the presented token and issues a new pair"
\* (auth.service.ts:39): a token that has been exchanged is revoked, whatever
\* fails on the way, so that of a chain of rotations the last token at most works.
ExchangedIsRevoked ==
    \A t \in Token : Children(t) # {} => row[t] = "revoked"

\* Rotation (auth.service.ts:39): one new token for each old one.  The code
\* does not lock the row it has found, so it needs the assumption below.
ExchangedOnce == \A t \in Token : \A m, n \in Children(t) : m = n

\* No two refreshes have both found the same token active and are exchanging it.
NoOverlap ==
    \A t \in Token : \A p, q \in Request : Exchanges(p, t) /\ Exchanges(q, t) => p = q

\* No token of u works, and no login or refresh of u's is past its check.
SignedOut(u) ==
    /\ \A t \in Token : OwnerOf[t] = u => row[t] # "active"
    /\ \A p \in Request : who[p] = u => pc[p] \notin {"user", "revoke", "create"}

\* A revoked token that no refresh in flight has found before is of no use any
\* more: nothing makes it active again, and it is never exchanged, not even by
\* refreshes that presented it earlier.  Nor does the family of a user whose
\* tokens are all revoked come back before the next login, unless a request is
\* past its check by then.  It is the requests in flight that rotation, logout
\* and the sweep of reuse detection can miss, and nothing else.
RevokedForGood ==
    [][/\ \A t \in Token :
            row[t] = "revoked" /\ (\A p \in Request : ~Exchanges(p, t)) =>
              /\ row'[t] = "revoked"
              /\ \A p \in Request : ~Exchanges(p, t)'
              /\ Children(t)' = Children(t)
       /\ \A u \in User :
            SignedOut(u) => SignedOut(u)' \/ \E p \in Request : Login(p, u)]_vars

\* A user who is removed gets no new token, except from requests that had found
\* the user already.
RemovedForGood ==
    [][\A u \in deleted :
         (\A p \in Request : who[p] = u => pc[p] \notin {"revoke", "create"}) =>
           /\ \A p \in Request : who'[p] = u => pc'[p] \notin {"revoke", "create"}
           /\ TokensOf(u)' = TokensOf(u)]_vars

\* Reuse detection is provoked: all tokens of a user are revoked at once only if
\* one of them was presented by two requests.  A client that presents each
\* token once, whatever its requests' fate and whatever other clients of other
\* users do, never loses its other sessions.
SweptForReuse ==
    \A u \in swept :
        \E p, q \in Request :
            p # q /\ tok[p] = tok[q] /\ tok[p] \in Token /\ OwnerOf[tok[p]] = u

-----------------------------------------------------------------------------
(* The inductive invariant *)

\* What the position of p says about its user and its token.
Position(p) ==
    /\ pc[p] = "idle" => tok[p] = NoToken /\ who[p] = NoUser
    /\ pc[p] \in {"find", "user", "revoke", "revokeAll", "logout"} => tok[p] \in held
    /\ pc[p] \in {"find", "user", "revoke", "create", "revokeAll"} => who[p] \in User
    /\ pc[p] \in {"find", "user", "revoke", "revokeAll"} => who[p] = OwnerOf[tok[p]]
    /\ pc[p] = "create" /\ tok[p] # NoToken => row[tok[p]] = "revoked"

\* Only requests that have ended have issued tokens, and those are stored.
Issued ==
    \A t \in Token :
        issuer[t] \in Request => pc[issuer[t]] = "done" /\ row[t] # "none"

\* Who has revoked t.
Blame(t) ==
    row[t] = "revoked" =>
        \/ OwnerOf[t] \in swept
        \/ \E p \in Request : tok[p] = t /\ pc[p] \in {"create", "done"}

\* A request that has found reuse is not the only one to present its token, or
\* the token was swept away before.
Suspicion(p) ==
    pc[p] = "revokeAll" =>
        \/ who[p] \in swept
        \/ \E q \in Request \ {p} : tok[q] = tok[p]

IInv ==
    /\ TypeOK
    /\ ExchangedIsRevoked
    /\ SweptForReuse
    /\ \A p \in Request : Position(p) /\ Suspicion(p)
    /\ Issued
    /\ \A t \in Token : Blame(t)

\* While at most one refresh at a time exchanges a token, the token it is about
\* to exchange has no child yet.
Rotation ==
    /\ ExchangedOnce
    /\ \A t \in Token : \A p \in Request : Exchanges(p, t) => Children(t) = {}
=============================================================================
