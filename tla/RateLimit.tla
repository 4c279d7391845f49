----------------------------- MODULE RateLimit -----------------------------
(***************************************************************************)
(* The rateLimit middleware: per client, a sorted set in Redis holds one   *)
(* member for every request of the last Window, scored with the time the   *)
(* API process read from its own clock.                                    *)
(*                                                                         *)
(* The four commands of the MULTI are one step.  time is Redis's clock;    *)
(* Date.now() was read earlier, and possibly on a clock that differs, so   *)
(* the score is any value within Lag of it.  A member is named by its      *)
(* request (Math.random keeps the members of one millisecond apart).       *)
(***************************************************************************)
EXTENDS Integers, FiniteSets

CONSTANTS
    Request,
    Client,       \* values of req.ip
    ClientOf,     \* ClientOf[r]: the client that sends r
    Limit,        \* RATE_LIMIT_MAX
    Window,       \* RATE_LIMIT_WINDOW_SEC
    Lag,          \* bound on the error of a score against Redis's clock
    MaxTime       \* bound on time, for TLC

ASSUME RequestAssumption == IsFiniteSet(Request) /\ ClientOf \in [Request -> Client]
ASSUME LimitAssumption ==
    /\ Limit \in Nat \ {0} /\ Window \in Nat \ {0}
    /\ Lag \in Nat /\ MaxTime \in Nat

VARIABLES
    time,         \* Redis's clock
    window,       \* window[c]: the members of key rl:c
    score,        \* score[r]: their scores
    expires,      \* expires[c]: when Redis drops the key
    sentAt,       \* sentAt[r]: when r's MULTI ran, by Redis's clock
    verdict       \* verdict[r]: what came of it

limitVars == <<time, window, score, expires, sentAt, verdict>>

LimitInit ==
    /\ time = 0
    /\ window = [c \in Client |-> {}]
    /\ score = [r \in Request |-> 0]
    /\ expires = [c \in Client |-> 0]
    /\ sentAt = [r \in Request |-> 0]
    /\ verdict = [r \in Request |-> "none"]

\* [mutant] The window is emptied at its edge, as fixed buckets are.
InWindowBucket(q, now) == score[q] \div Window = now \div Window

\* [mutant] The old members are never trimmed, only dropped with the key.
InWindowAlways(q, now) == TRUE

\* ZREMRANGEBYSCORE 0 .. now - Window leaves q.
InWindow(q, now) == score[q] > now - Window

\* The set as ZCARD counts it: trimmed, and with r itself.
Counted(r, now) == {q \in window[ClientOf[r]] : InWindow(q, now)} \cup {r}

\* The test after the transaction.
Allowed(n) == n <= Limit

\* What Date.now() may have returned.
Clocks == (time - Lag)..(time + Lag)

\* EXEC takes effect.
Record(r, now) ==
    /\ window' = [window EXCEPT ![ClientOf[r]] = Counted(r, now)]
    /\ score' = [score EXCEPT ![r] = now]
    /\ expires' = [expires EXCEPT ![ClientOf[r]] = time + Window]
    /\ sentAt' = [sentAt EXCEPT ![r] = time]
    /\ UNCHANGED time

\* Its reply decides.  A request over the limit has been recorded all the same.
Hit(r, now) ==
    /\ verdict[r] = "none"
    /\ Record(r, now)
    /\ verdict' = [verdict EXCEPT ![r] =
                      IF Allowed(Cardinality(Counted(r, now)))
                      THEN "passed" ELSE "limited"]

\* Redis rejects the transaction, or its reply is lost.
HitFails(r, now) ==
    /\ verdict[r] = "none"
    /\ \/ Record(r, now)
       \/ UNCHANGED <<time, window, score, expires>>
          /\ sentAt' = [sentAt EXCEPT ![r] = time]
    /\ verdict' = [verdict EXCEPT ![r] = "error"]

\* Time passes, and Redis drops a key whose TTL is over.
Tick ==
    /\ time < MaxTime
    /\ time' = time + 1
    /\ window' = [c \in Client |->
                     IF expires[c] <= time + 1 THEN {} ELSE window[c]]
    /\ UNCHANGED <<score, expires, sentAt, verdict>>

LimitNext ==
    \/ \E r \in Request, now \in Clocks : Hit(r, now) \/ HitFails(r, now)
    \/ Tick

LimitSpec == LimitInit /\ [][LimitNext]_limitVars

-----------------------------------------------------------------------------
(* Properties *)

LimitTypeOK ==
    /\ time \in 0..MaxTime
    /\ window \in [Client -> SUBSET Request]
    /\ score \in [Request -> Int]
    /\ expires \in [Client -> Nat]
    /\ sentAt \in [Request -> 0..MaxTime]
    /\ verdict \in [Request -> {"none", "passed", "limited", "error"}]

\* The requests of c's that reached Redis after a and not after b.
SentBetween(c, a, b) ==
    {r \in Request : /\ ClientOf[r] = c
                     /\ verdict[r] # "none"
                     /\ a < sentAt[r] /\ sentAt[r] <= b}

Passed == {r \in Request : verdict[r] = "passed"}

\* However the window is placed, at most Limit requests of one client pass in
\* it: no burst around an edge, as the comment promises of "a true sliding
\* window" (rate-limit.middleware.ts:22-23).  Clocks that disagree shorten the
\* window by twice their error, no more.
AtMostLimitPerWindow ==
    \A c \in Client, b \in 0..MaxTime :
        Cardinality(Passed \cap SentBetween(c, b - (Window - 2 * Lag), b)) <= Limit

\* Nobody is refused who has not sent more than Limit requests in a window,
\* which the clocks' error may lengthen: waiting always helps, although the
\* refused requests are recorded too.
LimitedForCause ==
    \A r \in Request :
        verdict[r] = "limited" =>
            Cardinality(SentBetween(ClientOf[r], sentAt[r] - (Window + 2 * Lag),
                                    sentAt[r])) > Limit

-----------------------------------------------------------------------------
(* The inductive invariant *)

\* Members are requests of that client that were sent.
MembersSent ==
    \A c \in Client : \A r \in window[c] :
        ClientOf[r] = c /\ verdict[r] # "none"

\* What passed lately is still counted, and the key outlives it.
PassedCounted ==
    \A r \in Passed :
        /\ sentAt[r] <= expires[ClientOf[r]] - Window
        /\ sentAt[r] > time - (Window - 2 * Lag) => r \in window[ClientOf[r]]

\* Scores are what the clocks made of the times.
ScoresClose ==
    \A r \in Request :
        r \in window[ClientOf[r]] =>
            sentAt[r] - Lag <= score[r] /\ score[r] <= sentAt[r] + Lag

\* Nothing was sent after now.
SentBefore ==
    \A r \in Request : verdict[r] # "none" => sentAt[r] <= time

LimitInv ==
    /\ LimitTypeOK /\ MembersSent /\ PassedCounted /\ ScoresClose /\ SentBefore
    /\ AtMostLimitPerWindow /\ LimitedForCause
=============================================================================
