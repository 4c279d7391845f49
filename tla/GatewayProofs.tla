--------------------------- MODULE GatewayProofs ---------------------------
(***************************************************************************)
(* The sliding window holds for any number of requests and clients, any    *)
(* limit, window and clock error.  LimitInv is inductive: what passed      *)
(* lately is still in the sorted set (PassedCounted), so a request that is *)
(* counted with it cannot be one too many.                                 *)
(*                                                                         *)
(* Access, refusals and answers are explained for any bearers, orders and  *)
(* calls.  What a chain of guards throws is computed once per kind of      *)
(* route (Wrong), and compared with the endpoint table target by target.   *)
(* Two sentences of the documentation hold as they stand under a premise   *)
(* that the code does not establish (AccessTokensOnly, KeysArePersonal).   *)
(***************************************************************************)
EXTENDS Gateway, FiniteSetTheorems, TLAPS

-----------------------------------------------------------------------------
(* The limiter *)

\* Sets of requests are finite, and their sizes ordered by inclusion.
LEMMA RequestSets ==
    ASSUME NEW S \in SUBSET Request, NEW T \in SUBSET S
    PROVE  /\ Cardinality(S) \in Nat /\ Cardinality(T) \in Nat
           /\ Cardinality(T) <= Cardinality(S)
<1>1. IsFiniteSet(S)
  BY FS_Subset, RequestAssumption
<1>2. IsFiniteSet(T) /\ Cardinality(T) <= Cardinality(S)
  BY <1>1, FS_Subset
<1> QED
  BY <1>1, <1>2, FS_CardinalityType

\* A request that passed lately is counted with the next one.
LEMMA LatelyPassedIsCounted ==
    ASSUME LimitInv, NEW r \in Request, NEW now \in Clocks,
           NEW q \in Passed, ClientOf[q] = ClientOf[r],
           sentAt[q] > time - (Window - 2 * Lag)
    PROVE  q \in Counted(r, now)
<1>1. /\ q \in Request /\ q \in window[ClientOf[r]]
      /\ time \in Int /\ Window \in Int /\ Lag \in Int /\ now \in Int
      /\ sentAt[q] \in Int /\ score[q] \in Int
  BY LimitAssumption DEF LimitInv, LimitTypeOK, PassedCounted, Passed, Clocks
<1>2. now <= time + Lag /\ sentAt[q] - Lag <= score[q]
  BY <1>1 DEF LimitInv, LimitTypeOK, ScoresClose, Clocks
<1>3. score[q] > now - Window
  BY <1>1, <1>2
<1> QED
  BY <1>1, <1>3 DEF Counted, InWindow

\* What is counted was sent by the same client within the longer window.
LEMMA CountedWasSent ==
    ASSUME LimitInv, NEW r \in Request, NEW now \in Clocks,
           NEW q \in Counted(r, now), q # r
    PROVE  /\ q \in Request /\ ClientOf[q] = ClientOf[r] /\ verdict[q] # "none"
           /\ time - (Window + 2 * Lag) < sentAt[q] /\ sentAt[q] <= time
<1>1. ClientOf[r] \in Client /\ q \in window[ClientOf[r]] /\ score[q] > now - Window
  BY RequestAssumption DEF Counted, InWindow
<1>2. q \in Request /\ ClientOf[q] = ClientOf[r] /\ verdict[q] # "none"
  BY <1>1 DEF LimitInv, LimitTypeOK, MembersSent
<1>3. score[q] <= sentAt[q] + Lag /\ sentAt[q] <= time
  BY <1>1, <1>2 DEF LimitInv, ScoresClose, SentBefore
<1>4. /\ now \in Int /\ now >= time - Lag
      /\ time \in Int /\ Window \in Int /\ Lag \in Int
      /\ sentAt[q] \in Int /\ score[q] \in Int
  BY <1>2, LimitAssumption DEF LimitInv, LimitTypeOK, Clocks
<1>5. time - (Window + 2 * Lag) < sentAt[q]
  BY <1>1, <1>3, <1>4
<1> QED
  BY <1>2, <1>3, <1>5

LEMMA InitEstablishes == LimitInit => LimitInv
<1> SUFFICES ASSUME LimitInit PROVE LimitInv
  OBVIOUS
<1>1. LimitTypeOK
  BY LimitAssumption, RequestAssumption DEF LimitInit, LimitTypeOK
<1>2. Passed = {} /\ \A c \in Client : window[c] = {}
  BY DEF LimitInit, Passed
<1>3. MembersSent /\ PassedCounted /\ ScoresClose /\ SentBefore /\ LimitedForCause
  BY <1>2, RequestAssumption
  DEF LimitInit, MembersSent, PassedCounted, ScoresClose, SentBefore, LimitedForCause
<1>4. AtMostLimitPerWindow
  BY <1>2, FS_EmptySet, LimitAssumption DEF AtMostLimitPerWindow
<1> QED
  BY <1>1, <1>3, <1>4 DEF LimitInv

\* The steps of one request, told apart only by the verdict.
LEMMA RequestStep ==
    ASSUME LimitInv, NEW r \in Request, NEW now \in Clocks,
           Hit(r, now) \/ HitFails(r, now)
    PROVE  LimitInv'
<1> DEFINE c == ClientOf[r]
<1>1. /\ verdict[r] = "none" /\ time' = time
      /\ verdict'[r] \in {"passed", "limited", "error"}
      /\ \A q \in Request \ {r} : verdict'[q] = verdict[q] /\ sentAt'[q] = sentAt[q]
      /\ sentAt'[r] = time
  BY DEF Hit, HitFails, Record, LimitInv, LimitTypeOK
<1>2. c \in Client /\ Counted(r, now) \in SUBSET Request /\ now \in Int
  BY RequestAssumption DEF Counted, LimitInv, LimitTypeOK, Clocks
<1>3. \/ Record(r, now)
      \/ verdict'[r] = "error" /\ UNCHANGED <<window, score, expires>>
  BY DEF Hit, HitFails, LimitInv, LimitTypeOK
<1>4. LimitTypeOK'
  <2>1. verdict' \in [Request -> {"none", "passed", "limited", "error"}]
        /\ sentAt' \in [Request -> 0..MaxTime] /\ time' \in 0..MaxTime
    BY DEF Hit, HitFails, Record, LimitInv, LimitTypeOK
  <2>2. CASE Record(r, now)
    <3>1. time + Window \in Nat
      BY LimitAssumption DEF LimitInv, LimitTypeOK
    <3>2. window' \in [Client -> SUBSET Request] /\ score' \in [Request -> Int]
          /\ expires' \in [Client -> Nat]
      BY <1>2, <2>2, <3>1 DEF Record, LimitInv, LimitTypeOK
    <3> QED
      BY <2>1, <3>2 DEF LimitTypeOK
  <2>3. CASE UNCHANGED <<window, score, expires>>
    BY <2>1, <2>3 DEF LimitInv, LimitTypeOK
  <2> QED
    BY <1>3, <2>2, <2>3
<1>5. ASSUME Record(r, now) PROVE MembersSent' /\ PassedCounted' /\ ScoresClose'
  <2>1. /\ \A d \in Client \ {c} : window'[d] = window[d] /\ expires'[d] = expires[d]
        /\ window'[c] = Counted(r, now) /\ expires'[c] = time + Window
        /\ \A q \in Request \ {r} : score'[q] = score[q]
        /\ score'[r] = now
    BY <1>2, <1>5 DEF Record, LimitInv, LimitTypeOK
  <2>2. \A d \in Client : \A q \in window'[d] :
            q # r => q \in window[d] /\ q \in Request
    BY <2>1 DEF Counted, LimitInv, LimitTypeOK
  <2>3. MembersSent'
    <3> SUFFICES ASSUME NEW d \in Client, NEW q \in window'[d]
                 PROVE  ClientOf[q] = d /\ verdict'[q] # "none"
      BY DEF MembersSent
    <3>1. CASE q # r
      BY <1>1, <2>2, <3>1 DEF LimitInv, MembersSent
    <3>2. CASE q = r
      <4>1. r \notin window[d]
        BY <1>1 DEF LimitInv, MembersSent
      <4> QED
        BY <1>1, <2>1, <3>2, <4>1
    <3> QED
      BY <3>1, <3>2
  <2>4. PassedCounted'
    <3> SUFFICES ASSUME NEW q \in Passed'
                 PROVE  /\ sentAt'[q] <= expires'[ClientOf[q]] - Window
                        /\ sentAt'[q] > time - (Window - 2 * Lag) =>
                               q \in window'[ClientOf[q]]
      BY <1>1 DEF PassedCounted
    <3>1. q \in Request /\ ClientOf[q] \in Client
      BY RequestAssumption DEF Passed
    <3>2. /\ time \in Int /\ Window \in Int /\ sentAt[q] \in Int
      BY <3>1, LimitAssumption DEF LimitInv, LimitTypeOK
    <3>3. CASE q = r
      BY <1>1, <2>1, <3>2, <3>3 DEF Counted
    <3>4. CASE q # r
      <4>1. q \in Passed /\ sentAt'[q] = sentAt[q] /\ sentAt[q] <= time
        BY <1>1, <3>1, <3>4 DEF Passed, LimitInv, SentBefore
      <4>2. CASE ClientOf[q] = c
        <5>1. sentAt[q] <= (time + Window) - Window
          BY <3>2, <4>1
        <5> QED
          BY <2>1, <4>1, <4>2, <5>1, LatelyPassedIsCounted
      <4>3. CASE ClientOf[q] # c
        BY <2>1, <3>1, <4>1, <4>3 DEF LimitInv, PassedCounted
      <4> QED
        BY <4>2, <4>3
    <3> QED
      BY <3>3, <3>4
  <2>5. ScoresClose'
    <3> SUFFICES ASSUME NEW q \in Request, q \in window'[ClientOf[q]]
                 PROVE  sentAt'[q] - Lag <= score'[q] /\ score'[q] <= sentAt'[q] + Lag
      BY DEF ScoresClose
    <3>1. CASE q = r
      <4>1. time \in Int /\ Lag \in Int /\ time - Lag <= now /\ now <= time + Lag
        BY LimitAssumption DEF Clocks, LimitInv, LimitTypeOK
      <4> QED
        BY <1>1, <2>1, <3>1, <4>1
    <3>2. CASE q # r
      <4>1. q \in window[ClientOf[q]]
        BY <2>2, <3>2, RequestAssumption
      <4> QED
        BY <1>1, <2>1, <3>2, <4>1 DEF LimitInv, ScoresClose
    <3> QED
      BY <3>1, <3>2
  <2> QED
    BY <2>3, <2>4, <2>5
<1>6. ASSUME verdict'[r] = "error", UNCHANGED <<window, score, expires>>
      PROVE  MembersSent' /\ PassedCounted' /\ ScoresClose'
  <2>1. \A d \in Client : r \notin window[d]
    BY <1>1 DEF LimitInv, MembersSent
  <2>2. \A d \in Client : window[d] \subseteq Request
    BY DEF LimitInv, LimitTypeOK
  <2>3. MembersSent'
    BY <1>1, <1>6, <2>1, <2>2 DEF LimitInv, MembersSent
  <2>4. PassedCounted'
    <3>1. \A q \in Passed' : q \in Passed /\ q \in Request /\ q # r
      BY <1>1, <1>6 DEF Passed
    <3> QED
      BY <1>1, <1>6, <3>1 DEF LimitInv, PassedCounted
  <2>5. ScoresClose'
    BY <1>1, <1>6, <2>1, RequestAssumption DEF LimitInv, ScoresClose
  <2> QED
    BY <2>3, <2>4, <2>5
<1>7. SentBefore'
  <2>1. time \in Int
    BY DEF LimitInv, LimitTypeOK
  <2> QED
    BY <1>1, <2>1 DEF LimitInv, SentBefore
<1>8. AtMostLimitPerWindow'
  <2> SUFFICES ASSUME NEW d \in Client, NEW b \in 0..MaxTime
               PROVE  Cardinality(Passed' \cap
                          SentBetween(d, b - (Window - 2 * Lag), b)') <= Limit
    BY DEF AtMostLimitPerWindow
  <2> DEFINE S == Passed \cap SentBetween(d, b - (Window - 2 * Lag), b)
             T == Passed' \cap SentBetween(d, b - (Window - 2 * Lag), b)'
  <2>1. S \in SUBSET Request /\ T \in SUBSET Request /\ Limit \in Nat
        /\ Cardinality(S) <= Limit
    BY LimitAssumption DEF SentBetween, LimitInv, AtMostLimitPerWindow
  <2>2. T \subseteq S \cup {r}
    BY <1>1 DEF SentBetween, Passed
  <2>3. CASE r \notin T
    <3>1. T \in SUBSET S
      BY <2>2, <2>3
    <3> QED
      BY <2>1, <3>1, RequestSets
  <2>4. CASE r \in T
    <3>1. /\ d = c /\ verdict'[r] = "passed"
          /\ b - (Window - 2 * Lag) < time /\ time <= b
      BY <1>1, <2>4 DEF SentBetween, Passed
    <3>2. /\ b \in Int /\ time \in Int /\ Window \in Int /\ Lag \in Int
      BY LimitAssumption DEF LimitInv, LimitTypeOK
    <3>3. T \in SUBSET Counted(r, now)
      <4> SUFFICES ASSUME NEW q \in T PROVE q \in Counted(r, now)
        OBVIOUS
      <4>1. CASE q = r
        BY <4>1 DEF Counted
      <4>2. CASE q # r
        <5>1. q \in S
          BY <2>2, <4>2
        <5>2. /\ q \in Passed /\ ClientOf[q] = c /\ sentAt[q] \in Int
              /\ b - (Window - 2 * Lag) < sentAt[q]
          BY <3>1, <5>1 DEF SentBetween, LimitInv, LimitTypeOK
        <5>3. sentAt[q] > time - (Window - 2 * Lag)
          BY <3>1, <3>2, <5>2
        <5> QED
          BY <5>2, <5>3, LatelyPassedIsCounted
      <4> QED
        BY <4>1, <4>2
    <3>4. Cardinality(Counted(r, now)) <= Limit
      BY <3>1 DEF Hit, HitFails, Allowed, LimitInv, LimitTypeOK
    <3> QED
      BY <1>2, <2>1, <3>3, <3>4, RequestSets
  <2> QED
    BY <2>3, <2>4
<1>9. LimitedForCause'
  <2> SUFFICES ASSUME NEW q \in Request, verdict'[q] = "limited"
               PROVE  Cardinality(SentBetween(ClientOf[q],
                          sentAt[q] - (Window + 2 * Lag), sentAt[q])') > Limit
    BY DEF LimitedForCause
  <2> DEFINE T == SentBetween(ClientOf[q], sentAt[q] - (Window + 2 * Lag), sentAt[q])'
  <2>1. T \in SUBSET Request /\ Limit \in Nat
    BY LimitAssumption DEF SentBetween
  <2>2. CASE q # r
    <3> DEFINE S == SentBetween(ClientOf[q], sentAt[q] - (Window + 2 * Lag), sentAt[q])
    <3>1. Cardinality(S) > Limit
      BY <1>1, <2>2 DEF LimitInv, LimitedForCause
    <3>2. S \in SUBSET T
      BY <1>1, <2>2 DEF SentBetween
    <3> QED
      BY <2>1, <3>1, <3>2, RequestSets
  <2>3. CASE q = r
    <3>1. Record(r, now) /\ Cardinality(Counted(r, now)) > Limit
      <4>1. Hit(r, now) /\ ~Allowed(Cardinality(Counted(r, now)))
        BY <2>3 DEF Hit, HitFails, LimitInv, LimitTypeOK
      <4>2. Cardinality(Counted(r, now)) \in Nat
        BY <1>2, RequestSets
      <4> QED
        BY <2>1, <4>1, <4>2 DEF Hit, Allowed
    <3>2. Counted(r, now) \in SUBSET T
      <4> SUFFICES ASSUME NEW p \in Counted(r, now) PROVE p \in T
        OBVIOUS
      <4>1. CASE p = r
        <5>1. time - (Window + 2 * Lag) < time /\ time <= time
          BY LimitAssumption DEF LimitInv, LimitTypeOK
        <5> QED
          BY <1>1, <2>3, <4>1, <5>1 DEF SentBetween
      <4>2. CASE p # r
        <5>1. /\ p \in Request /\ ClientOf[p] = c /\ verdict[p] # "none"
              /\ time - (Window + 2 * Lag) < sentAt[p] /\ sentAt[p] <= time
          BY <4>2, CountedWasSent
        <5> QED
          BY <1>1, <2>3, <4>2, <5>1 DEF SentBetween
      <4> QED
        BY <4>1, <4>2
    <3> QED
      BY <1>2, <2>1, <3>1, <3>2, RequestSets
  <2> QED
    BY <2>2, <2>3
<1> QED
  BY <1>3, <1>4, <1>5, <1>6, <1>7, <1>8, <1>9 DEF LimitInv

LEMMA TickStep == LimitInv /\ Tick => LimitInv'
<1> SUFFICES ASSUME LimitInv, Tick PROVE LimitInv'
  OBVIOUS
<1>1. /\ time \in Int /\ time' = time + 1 /\ Window \in Int /\ Lag \in Nat
      /\ UNCHANGED <<score, expires, sentAt, verdict>>
  BY LimitAssumption DEF Tick, LimitInv, LimitTypeOK
<1>2. \A c \in Client : /\ window'[c] \subseteq window[c]
                        /\ expires[c] > time + 1 => window'[c] = window[c]
  <2>1. \A c \in Client : expires[c] \in Int
    BY DEF LimitInv, LimitTypeOK
  <2> QED
    BY <1>1, <2>1 DEF Tick
<1>3. LimitTypeOK'
  <2>1. window' \in [Client -> SUBSET Request]
    BY DEF Tick, LimitInv, LimitTypeOK
  <2>2. time' \in 0..MaxTime
    BY LimitAssumption DEF Tick, LimitInv, LimitTypeOK
  <2> QED
    BY <1>1, <2>1, <2>2 DEF LimitInv, LimitTypeOK
<1>4. MembersSent' /\ ScoresClose'
  BY <1>1, <1>2, RequestAssumption DEF LimitInv, MembersSent, ScoresClose
<1>5. PassedCounted'
  <2> SUFFICES ASSUME NEW q \in Passed
               PROVE  /\ sentAt[q] <= expires[ClientOf[q]] - Window
                      /\ sentAt[q] > time + 1 - (Window - 2 * Lag) =>
                             q \in window'[ClientOf[q]]
    BY <1>1 DEF PassedCounted, Passed
  <2>1. q \in Request /\ ClientOf[q] \in Client
        /\ sentAt[q] \in Int /\ expires[ClientOf[q]] \in Int
    BY RequestAssumption DEF Passed, LimitInv, LimitTypeOK
  <2>2. /\ sentAt[q] <= expires[ClientOf[q]] - Window
        /\ sentAt[q] > time - (Window - 2 * Lag) => q \in window[ClientOf[q]]
    BY DEF LimitInv, PassedCounted
  <2>3. ASSUME sentAt[q] > time + 1 - (Window - 2 * Lag)
        PROVE  q \in window'[ClientOf[q]]
    <3>1. expires[ClientOf[q]] > time + 1 /\ sentAt[q] > time - (Window - 2 * Lag)
      BY <1>1, <2>1, <2>2, <2>3
    <3> QED
      BY <1>2, <2>1, <2>2, <3>1
  <2> QED
    BY <2>2, <2>3
<1>6. SentBefore'
  <2>1. \A q \in Request : sentAt[q] \in Int
    BY DEF LimitInv, LimitTypeOK
  <2> QED
    BY <1>1, <2>1 DEF LimitInv, SentBefore
<1>7. AtMostLimitPerWindow' /\ LimitedForCause'
  BY <1>1 DEF LimitInv, AtMostLimitPerWindow, LimitedForCause, SentBetween, Passed
<1> QED
  BY <1>3, <1>4, <1>5, <1>6, <1>7 DEF LimitInv

LEMMA LimitKept == LimitInv /\ UNCHANGED limitVars => LimitInv'
  BY DEF limitVars, LimitInv, LimitTypeOK, MembersSent, PassedCounted, ScoresClose,
         SentBefore, AtMostLimitPerWindow, LimitedForCause, SentBetween, Passed

\* The inductive invariant holds in every state of the specification.
THEOREM LimitInvariant == LimitSpec => []LimitInv
<1>1. LimitInv /\ [LimitNext]_limitVars => LimitInv'
  <2> SUFFICES ASSUME LimitInv, [LimitNext]_limitVars PROVE LimitInv'
    OBVIOUS
  <2>1. CASE \E r \in Request, now \in Clocks : Hit(r, now) \/ HitFails(r, now)
    BY <2>1, RequestStep
  <2>2. CASE Tick
    BY <2>2, TickStep
  <2>3. CASE UNCHANGED limitVars
    BY <2>3, LimitKept
  <2> QED
    BY <2>1, <2>2, <2>3 DEF LimitNext
<1> QED
  BY <1>1, InitEstablishes, PTL DEF LimitSpec

\* No client gets more than Limit requests through in any window, edges
\* included (rateLimit): fixed buckets would let twice as many pass.
THEOREM SlidingWindow == LimitSpec => []AtMostLimitPerWindow
<1>1. LimitInv => AtMostLimitPerWindow
  BY DEF LimitInv
<1> QED
  BY <1>1, LimitInvariant, PTL

\* Whoever is answered 429 has sent more than Limit requests in the (longer)
\* window before, the refused ones among them (rateLimit).
THEOREM OnlyExcessIsLimited == LimitSpec => []LimitedForCause
<1>1. LimitInv => LimitedForCause
  BY DEF LimitInv
<1> QED
  BY <1>1, LimitInvariant, PTL

-----------------------------------------------------------------------------
(* The routes of the application, target by target *)

\* Named, so that the provers see what they are asked to match.
Over(f, A) == DOMAIN f = A
Apart(A, B) == A \cap B = {}

\* One behind the other, when they have nothing in common.
LEMMA ThenHas ==
    ASSUME NEW f, NEW g, NEW A, NEW B, Over(f, A), Over(g, B), Apart(A, B),
           NEW h, h = Then(f, g)
    PROVE  /\ Over(h, A \cup B)
           /\ \A x \in A : h[x] = f[x]
           /\ \A x \in B : h[x] = g[x]
  BY DEF Then, Apart, Over

Unrouted == {"docs", "health", "noRoute"}
AuthTargets == {"register", "login", "refresh", "logout"}
UsersTargets == {"listUsers", "getUser", "createUser", "updateUser", "removeUser",
                 "noUserRoute"}
CategoryTargets == {"listCategories", "getCategory", "createCategory",
                    "updateCategory", "removeCategory"}
ProductTargets == {"listProducts", "getProduct", "createProduct", "updateProduct",
                   "removeProduct"}
RouterTargets ==
    AuthTargets \cup (UsersTargets \cup (CategoryTargets \cup
                                           (ProductTargets \cup UserTargets)))

LEMMA RouterDomains ==
    /\ Over(AuthRouter, AuthTargets)
    /\ Over(UserRouter, UsersTargets)
    /\ Over(CategoryRouter, CategoryTargets)
    /\ Over(ProductRouter, ProductTargets)
    /\ Over(OrderRouter, UserTargets)
    /\ Over(BullBoard, {"queues"})
  BY DEF Over, AuthRouter, UserRouter, CategoryRouter, ProductRouter, OrderRouter, BullBoard,
         AuthTargets, UsersTargets, CategoryTargets, ProductTargets, UserTargets

LEMMA TargetsApart ==
    /\ Apart(ProductTargets, UserTargets)
    /\ Apart(CategoryTargets, ProductTargets \cup UserTargets)
    /\ Apart(UsersTargets, CategoryTargets \cup (ProductTargets \cup UserTargets))
    /\ Apart(AuthTargets, UsersTargets \cup (CategoryTargets \cup
                                           (ProductTargets \cup UserTargets)))
    /\ Apart({"queues"}, RouterTargets)
    /\ Apart(Unrouted, {"queues"} \cup RouterTargets)
  BY DEF Apart, AuthTargets, UsersTargets, CategoryTargets, ProductTargets, UserTargets,
         Unrouted, RouterTargets

\* Each router keeps its routes behind the others.
LEMMA RoutersHave ==
    /\ Over(Routers, RouterTargets)
    /\ \A t \in AuthTargets : Routers[t] = AuthRouter[t]
    /\ \A t \in UsersTargets : Routers[t] = UserRouter[t]
    /\ \A t \in CategoryTargets : Routers[t] = CategoryRouter[t]
    /\ \A t \in ProductTargets : Routers[t] = ProductRouter[t]
    /\ \A t \in UserTargets : Routers[t] = OrderRouter[t]
  <1> DEFINE PO == ProductTargets \cup UserTargets
             CPO == CategoryTargets \cup PO
             UCPO == UsersTargets \cup CPO
  <1>1. PICK p : p = Then(ProductRouter, OrderRouter)
    OBVIOUS
  <1>2. PICK c : c = Then(CategoryRouter, p)
    OBVIOUS
  <1>3. PICK u : u = Then(UserRouter, c)
    OBVIOUS
  <1>4. Routers = Then(AuthRouter, u)
    BY <1>1, <1>2, <1>3 DEF Routers
  <1>5. /\ Over(p, PO)
        /\ \A t \in ProductTargets : p[t] = ProductRouter[t]
        /\ \A t \in UserTargets : p[t] = OrderRouter[t]
    BY <1>1, TargetsApart, ThenHas, RouterDomains
  <1>6. /\ Over(c, CPO)
        /\ \A t \in CategoryTargets : c[t] = CategoryRouter[t]
        /\ \A t \in PO : c[t] = p[t]
    BY <1>2, <1>5, TargetsApart, ThenHas, RouterDomains
  <1>7. /\ Over(u, UCPO)
        /\ \A t \in UsersTargets : u[t] = UserRouter[t]
        /\ \A t \in CPO : u[t] = c[t]
    BY <1>3, <1>6, TargetsApart, ThenHas, RouterDomains
  <1>8. /\ Over(Routers, AuthTargets \cup UCPO)
        /\ \A t \in AuthTargets : Routers[t] = AuthRouter[t]
        /\ \A t \in UCPO : Routers[t] = u[t]
    BY <1>4, <1>7, TargetsApart, ThenHas, RouterDomains
  <1>9. Over(Routers, RouterTargets)
    BY <1>8 DEF RouterTargets
  <1> QED
    BY <1>5, <1>6, <1>7, <1>8, <1>9

LEMMA AppHas ==
    /\ Over(App, Unrouted \cup ({"queues"} \cup RouterTargets))
    /\ App["docs"] = Route(<<>>, {}) /\ App["health"] = Route(<<>>, {})
    /\ App["noRoute"] = Unmatched(<<>>) /\ App["queues"] = BullBoard["queues"]
    /\ \A t \in RouterTargets : App[t] = Routers[t]
  <1>1. PICK m : m = [docs |-> Route(<<>>, {}), health |-> Route(<<>>, {}),
                      noRoute |-> Unmatched(<<>>)]
    OBVIOUS
  <1>2. PICK b : b = Then(BullBoard, Routers)
    OBVIOUS
  <1>3. App = Then(m, b)
    BY <1>1, <1>2 DEF App
  <1>4. Over(m, Unrouted)
    BY <1>1 DEF Over, Unrouted
  <1>5. /\ Over(b, {"queues"} \cup RouterTargets)
        /\ \A t \in {"queues"} : b[t] = BullBoard[t]
        /\ \A t \in RouterTargets : b[t] = Routers[t]
    BY <1>2, TargetsApart, RouterDomains, RoutersHave, ThenHas
  <1>6. /\ Over(App, Unrouted \cup ({"queues"} \cup RouterTargets))
        /\ \A t \in Unrouted : App[t] = m[t]
        /\ \A t \in {"queues"} \cup RouterTargets : App[t] = b[t]
    BY <1>3, <1>4, <1>5, TargetsApart, ThenHas
  <1>7. App["docs"] = m["docs"] /\ App["health"] = m["health"] /\ App["noRoute"] = m["noRoute"]
    BY <1>6 DEF Unrouted
  <1>8. App["queues"] = BullBoard["queues"]
    BY <1>5, <1>6
  <1>9. \A t \in RouterTargets : App[t] = Routers[t]
    BY <1>5, <1>6
  <1>10. m["docs"] = Route(<<>>, {}) /\ m["health"] = Route(<<>>, {})
         /\ m["noRoute"] = Unmatched(<<>>)
    BY <1>1
  <1> QED
    BY <1>6, <1>7, <1>8, <1>9, <1>10

PublicTargets == AuthTargets \cup {"listCategories", "getCategory", "listProducts", "getProduct"}

\* The steps of every route.
LEMMA StepsOf ==
    ASSUME NEW t \in RouterTargets
    PROVE  App[t].steps =
             IF t \in PublicTargets THEN Public
             ELSE IF t \in UserTargets \ {"noOrderRoute"} THEN SignedIn
             ELSE IF t = "noOrderRoute" THEN Unmatched(<<"authGuard">>).steps
             ELSE IF t = "noUserRoute" THEN Unmatched(<<"authGuard", "roleGuard">>).steps
             ELSE AdminOnly
  <1>1. App[t] = Routers[t]
    BY AppHas
  <1>2. ASSUME t \in AuthTargets
        PROVE  t \in PublicTargets /\ App[t].steps = Public
    <2>1. App[t] = AuthRouter[t]
      BY <1>1, <1>2, RoutersHave
    <2> QED
      BY <1>2, <2>1 DEF AuthRouter, Route, AuthTargets, PublicTargets
  <1>3. CASE t \in UsersTargets
    <2>1. App[t] = UserRouter[t]
      BY <1>1, <1>3, RoutersHave
    <2> QED
      BY <1>3, <2>1 DEF UserRouter, Route, UsersTargets, PublicTargets, AuthTargets, UserTargets
  <1>4. CASE t \in CategoryTargets
    <2>1. App[t] = CategoryRouter[t]
      BY <1>1, <1>4, RoutersHave
    <2> QED
      BY <1>4, <2>1
         DEF CategoryRouter, Route, CategoryTargets, PublicTargets, AuthTargets, UserTargets
  <1>5. CASE t \in ProductTargets
    <2>1. App[t] = ProductRouter[t]
      BY <1>1, <1>5, RoutersHave
    <2> QED
      BY <1>5, <2>1
         DEF ProductRouter, Route, ProductTargets, PublicTargets, AuthTargets, UserTargets
  <1>6. CASE t \in UserTargets
    <2>1. App[t] = OrderRouter[t]
      BY <1>1, <1>6, RoutersHave
    <2> QED
      BY <1>6, <2>1 DEF OrderRouter, Route, PublicTargets, AuthTargets, UserTargets
  <1> QED
    BY <1>2, <1>3, <1>4, <1>5, <1>6 DEF RouterTargets

-----------------------------------------------------------------------------
(* What comes of a chain *)

\* Chain, with the steps as a parameter.
Outcome(steps, c) ==
    LET bad == {i \in DOMAIN steps : StepThrows(steps, i, c) # "none"}
    IN  IF bad = {} THEN "none"
        ELSE StepThrows(steps, CHOOSE i \in bad : \A j \in bad : i <= j, c)

LEMMA ChainIsOutcome ==
    ASSUME NEW c \in Call
    PROVE  Chain[c] = Outcome(App[c.target].steps, c)
  BY DEF Chain, Outcome

LEMMA NothingThrown ==
    ASSUME NEW steps, NEW c, \A i \in DOMAIN steps : StepThrows(steps, i, c) = "none"
    PROVE  Outcome(steps, c) = "none"
  BY DEF Outcome

StopsAt(steps, c, n, i) ==
    /\ i \in 1..n /\ Over(steps, 1..n) /\ StepThrows(steps, i, c) # "none"
    /\ \A j \in 1..n : j < i => StepThrows(steps, j, c) = "none"

LEMMA FirstThrown ==
    ASSUME NEW steps, NEW c, NEW n \in Nat, NEW i, StopsAt(steps, c, n, i)
    PROVE  Outcome(steps, c) = StepThrows(steps, i, c)
  <1> DEFINE bad == {j \in DOMAIN steps : StepThrows(steps, j, c) # "none"}
  <1>1. i \in bad /\ bad \subseteq 1..n /\ \A j \in bad : i <= j
    BY DEF Over, StopsAt
  <1>2. (CHOOSE k \in bad : \A j \in bad : k <= j) = i
    <2>1. \A k \in bad : (\A j \in bad : k <= j) => k = i
      BY <1>1
    <2> HIDE DEF bad
    <2> QED
      BY <1>1, <2>1
  <1> QED
    BY <1>1, <1>2 DEF Outcome

\* The guards, as the steps of a route.
LEMMA GuardThrows ==
    ASSUME NEW steps, NEW c, NEW i
    PROVE  /\ steps[i] = "authGuard" => StepThrows(steps, i, c) = authGuard(c.bearer)
           /\ steps[i] = "validate" => StepThrows(steps, i, c) = validate(c.valid)
           /\ steps[i] = "basicAuth" => StepThrows(steps, i, c) = basicAuth(c.valid)
           /\ steps[i] = "notFoundHandler" => StepThrows(steps, i, c) = "NotFoundError"
  BY DEF StepThrows

LEMMA RoleGuardBehindAuthGuard ==
    ASSUME NEW steps, NEW c, steps[1] = "authGuard", steps[2] = "roleGuard"
    PROVE  StepThrows(steps, 2, c) = roleGuard(c.bearer)
  <1>1. \E j \in 1..(2 - 1) : steps[j] = "authGuard"
    OBVIOUS
  <1> QED
    BY <1>1 DEF StepThrows

LEMMA OutcomeOfOne ==
    ASSUME NEW steps, NEW c, Over(steps, 1..1)
    PROVE  Outcome(steps, c) = StepThrows(steps, 1, c)
  <1>1. CASE StepThrows(steps, 1, c) = "none"
    <2>1. \A i \in DOMAIN steps : i = 1
      BY DEF Over
    <2> QED
      BY <1>1, <2>1, NothingThrown
  <1>2. CASE StepThrows(steps, 1, c) # "none"
    <2>1. StopsAt(steps, c, 1, 1)
      BY <1>2 DEF StopsAt
    <2> QED
      BY <2>1, FirstThrown
  <1> QED
    BY <1>1, <1>2

LEMMA OutcomeOfTwo ==
    ASSUME NEW steps, NEW c, Over(steps, 1..2)
    PROVE  Outcome(steps, c) = IF StepThrows(steps, 1, c) # "none"
                               THEN StepThrows(steps, 1, c) ELSE StepThrows(steps, 2, c)
  <1>0. /\ \A i \in DOMAIN steps : i = 1 \/ i = 2
        /\ \A j \in 1..2 : j < 2 => j = 1
    BY DEF Over
  <1>1. CASE StepThrows(steps, 1, c) # "none"
    <2>1. StopsAt(steps, c, 2, 1)
      BY <1>1 DEF StopsAt
    <2> QED
      BY <1>1, <2>1, FirstThrown
  <1>2. CASE StepThrows(steps, 1, c) = "none" /\ StepThrows(steps, 2, c) # "none"
    <2>1. StopsAt(steps, c, 2, 2)
      BY <1>0, <1>2 DEF StopsAt
    <2> QED
      BY <1>2, <2>1, FirstThrown
  <1>3. CASE StepThrows(steps, 1, c) = "none" /\ StepThrows(steps, 2, c) = "none"
    BY <1>0, <1>3, NothingThrown
  <1> QED
    BY <1>1, <1>2, <1>3

LEMMA OutcomeOfThree ==
    ASSUME NEW steps, NEW c, Over(steps, 1..3)
    PROVE  Outcome(steps, c) =
               IF StepThrows(steps, 1, c) # "none" THEN StepThrows(steps, 1, c)
               ELSE IF StepThrows(steps, 2, c) # "none" THEN StepThrows(steps, 2, c)
               ELSE StepThrows(steps, 3, c)
  <1>0. /\ \A i \in DOMAIN steps : i = 1 \/ i = 2 \/ i = 3
        /\ \A j \in 1..3 : j < 2 => j = 1
        /\ \A j \in 1..3 : j < 3 => (j = 1 \/ j = 2)
    BY DEF Over
  <1>1. CASE StepThrows(steps, 1, c) # "none"
    <2>1. StopsAt(steps, c, 3, 1)
      BY <1>1 DEF StopsAt
    <2> QED
      BY <1>1, <2>1, FirstThrown
  <1>2. CASE StepThrows(steps, 1, c) = "none" /\ StepThrows(steps, 2, c) # "none"
    <2>1. StopsAt(steps, c, 3, 2)
      BY <1>0, <1>2 DEF StopsAt
    <2> QED
      BY <1>2, <2>1, FirstThrown
  <1>3. CASE /\ StepThrows(steps, 1, c) = "none" /\ StepThrows(steps, 2, c) = "none"
             /\ StepThrows(steps, 3, c) # "none"
    <2>1. StopsAt(steps, c, 3, 3)
      BY <1>0, <1>3 DEF StopsAt
    <2> QED
      BY <1>3, <2>1, FirstThrown
  <1>4. CASE /\ StepThrows(steps, 1, c) = "none" /\ StepThrows(steps, 2, c) = "none"
             /\ StepThrows(steps, 3, c) = "none"
    BY <1>0, <1>4, NothingThrown
  <1> QED
    BY <1>1, <1>2, <1>3, <1>4

\* Every chain of the application, in the terms of the documentation: what is
\* wrong with the call c first.
Wrong(c) ==
    LET auth == authGuard(c.bearer)
        role == roleGuard(c.bearer)
    IN  IF c.target \in {"docs", "health"} THEN "none"
        ELSE IF c.target = "queues" /\ BullBoardOn THEN basicAuth(c.valid)
        ELSE IF c.target \notin RouterTargets THEN "NotFoundError"
        ELSE IF c.target \notin PublicTargets /\ auth # "none" THEN auth
        ELSE IF c.target \in AdminTargets /\ role # "none" THEN role
        ELSE IF c.target \in {"noUserRoute", "noOrderRoute"} THEN "NotFoundError"
        ELSE validate(c.valid)

LEMMA ShapesOfSteps ==
    /\ Over(<<>>, 1..0)
    /\ Over(Public, 1..1) /\ Public[1] = "validate"
    /\ Over(SignedIn, 1..2) /\ SignedIn[1] = "authGuard" /\ SignedIn[2] = "validate"
    /\ Over(AdminOnly, 1..3) /\ AdminOnly[1] = "authGuard" /\ AdminOnly[2] = "roleGuard"
       /\ AdminOnly[3] = "validate"
  BY DEF Over, Public, SignedIn, AdminOnly

LEMMA ShapesOfUnmatched ==
    ASSUME NEW none, none = Unmatched(<<>>).steps,
           NEW auth, auth = Unmatched(<<"authGuard">>).steps,
           NEW role, role = Unmatched(<<"authGuard", "roleGuard">>).steps
    PROVE  /\ Over(none, 1..1) /\ none[1] = "notFoundHandler"
           /\ Over(auth, 1..2) /\ auth[1] = "authGuard" /\ auth[2] = "notFoundHandler"
           /\ Over(role, 1..3) /\ role[1] = "authGuard" /\ role[2] = "roleGuard"
              /\ role[3] = "notFoundHandler"
  <1>1. /\ none = <<>> \o <<"notFoundHandler">>
        /\ auth = <<"authGuard">> \o <<"notFoundHandler">>
        /\ role = <<"authGuard", "roleGuard">> \o <<"notFoundHandler">>
    BY DEF Unmatched, Route
  <1>2. Over(none, 1..1) /\ none[1] = "notFoundHandler"
    BY <1>1 DEF Over
  <1>3. Over(auth, 1..2) /\ auth[1] = "authGuard" /\ auth[2] = "notFoundHandler"
    BY <1>1 DEF Over
  <1>4. /\ Over(role, 1..3) /\ role[1] = "authGuard" /\ role[2] = "roleGuard"
        /\ role[3] = "notFoundHandler"
    BY <1>1 DEF Over
  <1> QED
    BY <1>2, <1>3, <1>4

LEMMA ChainIsWrong ==
    ASSUME NEW c \in Call
    PROVE  Chain[c] = Wrong(c)
  <1> DEFINE steps == App[c.target].steps
  <1>0. Chain[c] = Outcome(steps, c) /\ c.target \in Unrouted \cup ({"queues"} \cup RouterTargets)
    BY ChainIsOutcome, AppHas DEF Call, Target, Over
  <1>1. CASE c.target \in {"docs", "health"}
    <2>1. steps = <<>>
      BY <1>1, AppHas DEF Route
    <2> QED
      BY <1>0, <1>1, <2>1, NothingThrown, ShapesOfSteps DEF Wrong, Over
  <1>2. CASE c.target = "noRoute"
    <2>1. steps = Unmatched(<<>>).steps
      BY <1>2, AppHas
    <2>2. Over(steps, 1..1) /\ steps[1] = "notFoundHandler"
      BY <2>1, ShapesOfUnmatched
    <2>3. Outcome(steps, c) = "NotFoundError"
      BY <2>2, OutcomeOfOne, GuardThrows
    <2> QED
      BY <1>0, <1>2, <2>3, TargetsApart DEF Wrong, Apart, Unrouted
  <1>3. CASE c.target = "queues"
    <2>1. /\ Over(steps, 1..1)
          /\ steps[1] = IF BullBoardOn THEN "basicAuth" ELSE "notFoundHandler"
      BY <1>3, AppHas DEF BullBoard, Route, Over
    <2>2. Outcome(steps, c) = IF BullBoardOn THEN basicAuth(c.valid) ELSE "NotFoundError"
      BY <2>1, OutcomeOfOne, GuardThrows
    <2> QED
      BY <1>0, <1>3, <2>2, TargetsApart DEF Wrong, Apart
  <1>4. CASE c.target \in RouterTargets
    <2>0. c.target \notin Unrouted \cup {"queues"}
      BY <1>4, TargetsApart DEF Apart
    <2>1. CASE c.target \in PublicTargets
      <3>1. Outcome(steps, c) = validate(c.valid)
        BY <1>4, <2>1, StepsOf, ShapesOfSteps, OutcomeOfOne, GuardThrows
      <3>2. c.target \notin AdminTargets /\ c.target \notin {"noUserRoute", "noOrderRoute"}
        BY <2>1 DEF PublicTargets, AuthTargets, AdminTargets
      <3> QED
        BY <1>0, <1>4, <2>0, <2>1, <3>1, <3>2 DEF Wrong, Unrouted
    <2>2. CASE c.target \in UserTargets \ {"noOrderRoute"}
      <3>0. c.target \notin PublicTargets \cup AdminTargets /\ c.target # "noUserRoute"
        BY <2>2 DEF PublicTargets, AuthTargets, AdminTargets, UserTargets
      <3>1. steps = SignedIn
        BY <1>4, <2>2, <3>0, StepsOf
      <3>2. Outcome(steps, c) = IF authGuard(c.bearer) # "none" THEN authGuard(c.bearer)
                                ELSE validate(c.valid)
        BY <3>1, ShapesOfSteps, OutcomeOfTwo, GuardThrows
      <3> QED
        BY <1>0, <1>4, <2>0, <2>2, <3>0, <3>2 DEF Wrong, Unrouted
    <2>3. CASE c.target = "noOrderRoute"
      <3>0. c.target \notin PublicTargets \cup AdminTargets
        BY <2>3 DEF PublicTargets, AuthTargets, AdminTargets
      <3>1. steps = Unmatched(<<"authGuard">>).steps
        BY <1>4, <2>3, <3>0, StepsOf
      <3>2. Over(steps, 1..2) /\ steps[1] = "authGuard" /\ steps[2] = "notFoundHandler"
        BY <3>1, ShapesOfUnmatched
      <3>3. Outcome(steps, c) = IF authGuard(c.bearer) # "none" THEN authGuard(c.bearer)
                                ELSE "NotFoundError"
        BY <3>2, OutcomeOfTwo, GuardThrows
      <3> QED
        BY <1>0, <1>4, <2>0, <2>3, <3>0, <3>3 DEF Wrong, Unrouted
    <2>4. CASE c.target = "noUserRoute"
      <3>0. c.target \notin PublicTargets \cup UserTargets /\ c.target \in AdminTargets
        BY <2>4 DEF PublicTargets, AuthTargets, AdminTargets, UserTargets
      <3>1. steps = Unmatched(<<"authGuard", "roleGuard">>).steps
        BY <1>4, <2>4, <3>0, StepsOf
      <3>2. /\ Over(steps, 1..3) /\ steps[1] = "authGuard" /\ steps[2] = "roleGuard"
            /\ steps[3] = "notFoundHandler"
        BY <3>1, ShapesOfUnmatched
      <3>3. Outcome(steps, c) = IF authGuard(c.bearer) # "none" THEN authGuard(c.bearer)
                                ELSE IF roleGuard(c.bearer) # "none" THEN roleGuard(c.bearer)
                                ELSE "NotFoundError"
        BY <3>2, OutcomeOfThree, GuardThrows, RoleGuardBehindAuthGuard
      <3> QED
        BY <1>0, <1>4, <2>0, <2>4, <3>0, <3>3 DEF Wrong, Unrouted
    <2>5. CASE c.target \notin PublicTargets \cup UserTargets \cup {"noUserRoute"}
      <3>0. c.target \in AdminTargets /\ c.target # "noOrderRoute"
        BY <1>4, <2>5 DEF RouterTargets, PublicTargets, AuthTargets, UsersTargets, CategoryTargets,
                          ProductTargets, AdminTargets, UserTargets
      <3>1. steps = AdminOnly
        BY <1>4, <2>5, <3>0, StepsOf
      <3>3. Outcome(steps, c) = IF authGuard(c.bearer) # "none" THEN authGuard(c.bearer)
                                ELSE IF roleGuard(c.bearer) # "none" THEN roleGuard(c.bearer)
                                ELSE validate(c.valid)
        BY <3>1, ShapesOfSteps, OutcomeOfThree, GuardThrows, RoleGuardBehindAuthGuard
      <3> QED
        BY <1>0, <1>4, <2>0, <2>5, <3>0, <3>3 DEF Wrong, Unrouted
    <2> QED
      BY <2>1, <2>2, <2>3, <2>4, <2>5
  <1> QED
    BY <1>0, <1>1, <1>2, <1>3, <1>4 DEF Unrouted

-----------------------------------------------------------------------------
(* Errors and handlers *)

LEMMA ErrorStatus ==
    /\ errorHandler("UnauthorizedError") = 401
    /\ errorHandler("ForbiddenError") = 403
    /\ errorHandler("ValidationError") = 422
    /\ errorHandler("NotFoundError") = 404
    /\ errorHandler("ConflictError") = 409
    /\ errorHandler("UniqueViolation") = 409
    /\ errorHandler("QueryFailedError") = 500
    /\ \A e : errorHandler(e) \in Nat
  BY DEF errorHandler, ApiErrors

\* The guards pass the documented callers, and refuse the others with the
\* documented status.
LEMMA GuardStatus ==
    ASSUME NEW c \in Call
    PROVE  /\ authGuard(c.bearer) = "none" <=> c.bearer # Nobody
           /\ authGuard(c.bearer) # "none" => authGuard(c.bearer) = "UnauthorizedError"
           /\ c.bearer # Nobody => (roleGuard(c.bearer) = "none" <=> c.bearer.role = "ADMIN")
           /\ (c.bearer # Nobody /\ roleGuard(c.bearer) # "none")
                  => roleGuard(c.bearer) = "ForbiddenError"
           /\ validate(c.valid) = "none" <=> c.valid
           /\ validate(c.valid) # "none" => validate(c.valid) = "ValidationError"
           /\ basicAuth(c.valid) = "none" <=> c.valid
           /\ basicAuth(c.valid) # "none" => basicAuth(c.valid) = "UnauthorizedError"
  BY DEF authGuard, roleGuard, validate, basicAuth, Call

LEMMA TargetKinds ==
    /\ \A t \in PublicTargets : t \notin AdminTargets \cup UserTargets
    /\ \A t \in RouterTargets : t \notin PublicTargets => t \in AdminTargets \cup UserTargets
    /\ \A t \in AdminTargets \cup UserTargets : t \in RouterTargets
    /\ \A t \in UserTargets : t \notin AdminTargets
    /\ "noUserRoute" \in AdminTargets /\ "noOrderRoute" \in UserTargets
    /\ "queues" \notin RouterTargets /\ "docs" \notin RouterTargets /\ "health" \notin RouterTargets
    /\ "noRoute" \notin RouterTargets
  BY DEF PublicTargets, AuthTargets, AdminTargets, UserTargets, RouterTargets, UsersTargets,
         CategoryTargets, ProductTargets

\* A chain that throws nothing has let a documented caller through, or one
\* without a role to the orders.
LEMMA PassedIsEntitled ==
    ASSUME NEW c \in Call, Chain[c] = "none"
    PROVE  /\ Entitled(c) \/ (Roleless(c) /\ c.target \in UserTargets)
           /\ c.target \in DOMAIN Routers => c.valid
           /\ c.target \in UserTargets => c.bearer # Nobody
           /\ c.target \notin {"noRoute", "noUserRoute", "noOrderRoute"}
  <1>1. Wrong(c) = "none"
    BY ChainIsWrong
  <1>2. DOMAIN Routers = RouterTargets
    BY RoutersHave DEF Over
  <1>3. CASE c.target \in RouterTargets
    <2>1. /\ c.target \notin PublicTargets => authGuard(c.bearer) = "none"
          /\ c.target \in AdminTargets => roleGuard(c.bearer) = "none"
          /\ c.target \notin {"noUserRoute", "noOrderRoute"}
          /\ validate(c.valid) = "none"
      BY <1>1, <1>3, TargetKinds DEF Wrong
    <2>2. /\ c.target # "queues" /\ c.valid
          /\ c.target \in AdminTargets \cup UserTargets => c.bearer # Nobody
          /\ c.target \in AdminTargets => c.bearer.role = "ADMIN"
      BY <1>3, <2>1, GuardStatus, TargetKinds
    <2>3. Entitled(c) \/ (Roleless(c) /\ c.target \in UserTargets)
      BY <2>2 DEF Entitled, SignsIn, Roleless, AccessToken
    <2> QED
      BY <1>3, <2>1, <2>2, <2>3, TargetKinds
  <1>4. CASE c.target \notin RouterTargets
    <2>1. c.target # "noRoute" /\ (c.target = "queues" /\ BullBoardOn => c.valid)
      BY <1>1, <1>4, GuardStatus DEF Wrong
    <2> QED
      BY <1>2, <1>4, <2>1, TargetKinds DEF Entitled, SignsIn
  <1> QED
    BY <1>3, <1>4

\* What the chain throws at a call names the first thing that is wrong with it.
LEMMA ThrownIsDocumented ==
    ASSUME NEW c \in Call, Chain[c] # "none", NEW status, status = errorHandler(Chain[c])
    PROVE  RefusedFor(c, status)
  <1>1. Wrong(c) # "none" /\ status = errorHandler(Wrong(c))
    BY ChainIsWrong
  <1>2. CASE c.target = "queues" /\ BullBoardOn
    <2>1. Wrong(c) = basicAuth(c.valid)
      BY <1>2 DEF Wrong
    <2>2. status = 401 /\ ~c.valid
      BY <1>1, <2>1, GuardStatus, ErrorStatus
    <2>3. ~Roleless(c) /\ ~SignsIn(c)
      BY <1>2, <2>2, TargetKinds DEF SignsIn, Roleless
    <2> QED
      BY <2>2, <2>3 DEF RefusedFor, Entitled
  <1>3. CASE c.target \notin RouterTargets /\ ~(c.target = "queues" /\ BullBoardOn)
    <2>1. status = 404
      BY <1>1, <1>3, ErrorStatus DEF Wrong
    <2>2. SignsIn(c) /\ Entitled(c) /\ ~Roleless(c)
      BY <1>3, TargetKinds DEF SignsIn, Entitled, Roleless
    <2> QED
      BY <2>1, <2>2 DEF RefusedFor
  <1>4. CASE c.target \in RouterTargets
    <2>0. c.target \notin {"queues", "docs", "health"}
      BY <1>4, TargetKinds
    <2>1. SignsIn(c) <=> (c.target \in AdminTargets \cup UserTargets => AccessToken(c.bearer))
      BY <2>0 DEF SignsIn
    <2>2. CASE c.target \notin PublicTargets /\ c.bearer = Nobody
      <3>1. Wrong(c) = "UnauthorizedError"
        BY <1>4, <2>0, <2>2, GuardStatus DEF Wrong
      <3>2. ~SignsIn(c) /\ ~Roleless(c)
        BY <1>4, <2>1, <2>2, TargetKinds DEF AccessToken, Roleless
      <3> QED
        BY <1>1, <3>1, <3>2, ErrorStatus DEF Entitled, RefusedFor
    <2>3. CASE c.target \in AdminTargets /\ c.bearer # Nobody /\ c.bearer.role # "ADMIN"
      <3>1. Wrong(c) = "ForbiddenError"
        BY <1>4, <2>0, <2>3, GuardStatus DEF Wrong
      <3>2. Roleless(c) \/ (SignsIn(c) /\ ~Entitled(c))
        BY <2>1, <2>3 DEF Entitled, Roleless
      <3>3. status = 403
        BY <1>1, <3>1, ErrorStatus
      <3> QED
        BY <2>3, <3>2, <3>3 DEF RefusedFor, Roleless
    <2>4. CASE /\ c.target \in PublicTargets \/ c.bearer # Nobody
               /\ c.target \in AdminTargets => c.bearer.role = "ADMIN"
      <3>1. \/ SignsIn(c) /\ Entitled(c) /\ ~Roleless(c)
            \/ Roleless(c) /\ c.target \notin AdminTargets
        BY <2>1, <2>4, TargetKinds DEF Entitled, Roleless, AccessToken
      <3>2. Wrong(c) \in {"NotFoundError", validate(c.valid)}
        BY <1>4, <2>0, <2>4, GuardStatus, TargetKinds DEF Wrong
      <3>3. status = 404 \/ (status = 422 /\ ~c.valid)
        BY <1>1, <3>2, GuardStatus, ErrorStatus
      <3> QED
        BY <3>1, <3>3 DEF RefusedFor
    <2> QED
      BY <1>4, <2>2, <2>3, <2>4, TargetKinds
  <1> QED
    BY <1>2, <1>3, <1>4

\* The targets whose chain ends in a handler.
HandledUsers == UsersTargets \ {"noUserRoute"}
HandledOrders == UserTargets \ {"noOrderRoute"}
Unguarded == {"docs", "health", "queues"}
HandledTargets ==
    Unguarded \cup (AuthTargets \cup (HandledUsers \cup (CategoryTargets
        \cup (ProductTargets \cup HandledOrders))))

LEMMA ControllerDomains ==
    /\ Over(Others, Unguarded)
    /\ Over(AuthController, AuthTargets)
    /\ Over(UserController, HandledUsers)
    /\ Over(CategoryController, CategoryTargets)
    /\ Over(ProductController, ProductTargets)
    /\ Over(OrderController, HandledOrders)
  BY DEF Over, Others, AuthController, UserController, CategoryController, ProductController,
         OrderController, Unguarded, AuthTargets, HandledUsers, CategoryTargets,
         ProductTargets, HandledOrders, UsersTargets, UserTargets

LEMMA HandledApart ==
    /\ Apart(ProductTargets, HandledOrders)
    /\ Apart(CategoryTargets, ProductTargets \cup HandledOrders)
    /\ Apart(HandledUsers, CategoryTargets \cup (ProductTargets \cup HandledOrders))
    /\ Apart(AuthTargets, HandledUsers \cup (CategoryTargets \cup
                                           (ProductTargets \cup HandledOrders)))
    /\ Apart(Unguarded, AuthTargets \cup (HandledUsers \cup (CategoryTargets
                            \cup (ProductTargets \cup HandledOrders))))
  BY DEF Apart, Unguarded, AuthTargets, HandledUsers, CategoryTargets,
         ProductTargets, HandledOrders, UsersTargets, UserTargets

LEMMA HandlersHave ==
    /\ \A t \in Unguarded : Handlers[t] = Others[t]
    /\ \A t \in AuthTargets : Handlers[t] = AuthController[t]
    /\ \A t \in HandledUsers : Handlers[t] = UserController[t]
    /\ \A t \in CategoryTargets : Handlers[t] = CategoryController[t]
    /\ \A t \in ProductTargets : Handlers[t] = ProductController[t]
    /\ \A t \in HandledOrders : Handlers[t] = OrderController[t]
  <1> DEFINE PO == ProductTargets \cup HandledOrders
             CPO == CategoryTargets \cup PO
             UCPO == HandledUsers \cup CPO
             AUCPO == AuthTargets \cup UCPO
  <1>1. PICK p : p = Then(ProductController, OrderController)
    OBVIOUS
  <1>2. PICK c : c = Then(CategoryController, p)
    OBVIOUS
  <1>3. PICK u : u = Then(UserController, c)
    OBVIOUS
  <1>4. PICK a : a = Then(AuthController, u)
    OBVIOUS
  <1>5. Handlers = Then(Others, a)
    BY <1>1, <1>2, <1>3, <1>4 DEF Handlers
  <1>6. /\ Over(p, PO)
        /\ \A t \in ProductTargets : p[t] = ProductController[t]
        /\ \A t \in HandledOrders : p[t] = OrderController[t]
    BY <1>1, HandledApart, ThenHas, ControllerDomains
  <1>7. /\ Over(c, CPO)
        /\ \A t \in CategoryTargets : c[t] = CategoryController[t]
        /\ \A t \in PO : c[t] = p[t]
    BY <1>2, <1>6, HandledApart, ThenHas, ControllerDomains
  <1>8. /\ Over(u, UCPO)
        /\ \A t \in HandledUsers : u[t] = UserController[t]
        /\ \A t \in CPO : u[t] = c[t]
    BY <1>3, <1>7, HandledApart, ThenHas, ControllerDomains
  <1>9. /\ Over(a, AUCPO)
        /\ \A t \in AuthTargets : a[t] = AuthController[t]
        /\ \A t \in UCPO : a[t] = u[t]
    BY <1>4, <1>8, HandledApart, ThenHas, ControllerDomains
  <1>10. /\ Over(Handlers, Unguarded \cup AUCPO)
         /\ \A t \in Unguarded : Handlers[t] = Others[t]
         /\ \A t \in AUCPO : Handlers[t] = a[t]
    BY <1>5, <1>9, HandledApart, ThenHas, ControllerDomains
  <1>11. \A t \in UCPO : Handlers[t] = u[t]
    BY <1>9, <1>10
  <1>12. \A t \in CPO : Handlers[t] = c[t]
    BY <1>8, <1>11
  <1>13. \A t \in PO : Handlers[t] = p[t]
    BY <1>7, <1>12
  <1>14. \A t \in AuthTargets : Handlers[t] = AuthController[t]
    BY <1>9, <1>10
  <1>15. \A t \in HandledUsers : Handlers[t] = UserController[t]
    BY <1>8, <1>11
  <1>16. \A t \in CategoryTargets : Handlers[t] = CategoryController[t]
    BY <1>7, <1>12
  <1>17. /\ \A t \in ProductTargets : Handlers[t] = ProductController[t]
         /\ \A t \in HandledOrders : Handlers[t] = OrderController[t]
    BY <1>6, <1>13
  <1> QED
    BY <1>10, <1>14, <1>15, <1>16, <1>17

\* Every handler answers with a status its route documents, or with an error
\* that is thrown on purpose.
LEMMA HandlerAnswers ==
    ASSUME NEW t \in HandledTargets
    PROVE  /\ Handlers[t].success \in Nat
           /\ \/ Handlers[t].success \in App[t].documented
              \/ Handlers[t].success = 200 /\ t \notin RouterTargets
           /\ \A e \in Handlers[t].throws :
                  /\ errorHandler(e) \in {404, 409} \cup App[t].documented
                  /\ e \in Causes
  <1> DEFINE documented == App[t].documented
             success == Handlers[t].success
             throws == Handlers[t].throws
             Intended == /\ success \in documented /\ success \in {200, 201}
                         /\ \A e \in throws :
                                \/ e \in {"NotFoundError", "ConflictError", "UniqueViolation"}
                                \/ e = "UnauthorizedError" /\ 401 \in documented
  <1>0. Intended => /\ success \in Nat /\ success \in documented
                    /\ \A e \in throws : /\ errorHandler(e) \in {404, 409} \cup documented
                                           /\ e \in Causes
    <2> SUFFICES ASSUME Intended, NEW e \in throws
                 PROVE  errorHandler(e) \in {404, 409} \cup documented /\ e \in Causes
      OBVIOUS
    <2>1. \/ e = "NotFoundError" \/ e = "ConflictError" \/ e = "UniqueViolation"
          \/ e = "UnauthorizedError" /\ 401 \in documented
      OBVIOUS
    <2> HIDE DEF documented, throws
    <2>2. errorHandler(e) \in {404, 409} \cup documented
      BY <2>1, ErrorStatus
    <2> QED
      BY <2>1, <2>2 DEF Causes, ApiErrors
  <1>1. CASE t \in Unguarded
    <2>1. t \notin RouterTargets
      BY <1>1, TargetKinds DEF Unguarded
    <2>2. Handlers[t].success = 200 /\ Handlers[t].throws = {}
      BY <1>1, HandlersHave DEF Others, Handler, Unguarded
    <2> QED
      BY <2>1, <2>2
  <1>2. ASSUME t \in AuthTargets
        PROVE  Intended
    <2>1. App[t] = AuthRouter[t] /\ Handlers[t] = AuthController[t]
      BY <1>2, AppHas, RoutersHave, HandlersHave DEF RouterTargets
    <2> QED
      BY <1>2, <2>1 DEF AuthRouter, AuthController, Route, Handler, AuthTargets
  <1>3. ASSUME t \in HandledUsers
        PROVE  Intended
    <2>1. App[t] = UserRouter[t] /\ Handlers[t] = UserController[t]
      BY <1>3, AppHas, RoutersHave, HandlersHave DEF RouterTargets, HandledUsers
    <2> QED
      BY <1>3, <2>1
         DEF UserRouter, UserController, Route, Handler, HandledUsers, UsersTargets
  <1>4. ASSUME t \in CategoryTargets
        PROVE  Intended
    <2>1. App[t] = CategoryRouter[t] /\ Handlers[t] = CategoryController[t]
      BY <1>4, AppHas, RoutersHave, HandlersHave DEF RouterTargets
    <2> QED
      BY <1>4, <2>1
         DEF CategoryRouter, CategoryController, Route, Handler, CategoryTargets
  <1>5. ASSUME t \in ProductTargets
        PROVE  Intended
    <2>1. App[t] = ProductRouter[t] /\ Handlers[t] = ProductController[t]
      BY <1>5, AppHas, RoutersHave, HandlersHave DEF RouterTargets
    <2> QED
      BY <1>5, <2>1
         DEF ProductRouter, ProductController, Route, Handler, ProductTargets
  <1>6. ASSUME t \in HandledOrders
        PROVE  Intended
    <2>1. App[t] = OrderRouter[t] /\ Handlers[t] = OrderController[t]
      BY <1>6, AppHas, RoutersHave, HandlersHave DEF RouterTargets, HandledOrders
    <2> QED
      BY <1>6, <2>1
         DEF OrderRouter, OrderController, Route, Handler, HandledOrders, UserTargets
  <1> QED
    BY <1>0, <1>1, <1>2, <1>3, <1>4, <1>5, <1>6 DEF HandledTargets

LEMMA PassedIsHandled ==
    ASSUME NEW c \in Call, Chain[c] = "none"
    PROVE  c.target \in HandledTargets
  <1>1. c.target \in Unrouted \cup ({"queues"} \cup RouterTargets)
    BY AppHas DEF Call, Target, Over
  <1>2. c.target \notin {"noRoute", "noUserRoute", "noOrderRoute"}
    BY PassedIsEntitled
  <1> QED
    BY <1>1, <1>2
       DEF HandledTargets, Unrouted, RouterTargets, Unguarded, HandledUsers, HandledOrders

LEMMA ChainThrows ==
    ASSUME NEW c \in Call
    PROVE  Chain[c] \in Causes
  <1>1. {"none", "NotFoundError", "UnauthorizedError", "ForbiddenError", "ValidationError"}
            \subseteq Causes
    BY DEF Causes, ApiErrors
  <1>2. Wrong(c) \in {"none", "NotFoundError", "UnauthorizedError", "ForbiddenError",
                      "ValidationError"}
    BY DEF Wrong, authGuard, roleGuard, validate, basicAuth
  <1> QED
    BY <1>1, <1>2, ChainIsWrong

-----------------------------------------------------------------------------
(* The inductive invariant of the application *)

LEMMA InitGatewayInv == GatewayInit => GatewayInv
  <1>1. ASSUME GatewayInit
        PROVE  GatewayTypeOK /\ Served
    BY <1>1 DEF GatewayInit, GatewayTypeOK, Served, NoAnswer, Causes
  <1> QED
    BY <1>1, InitEstablishes DEF GatewayInit, GatewayInv

\* An answer to r, of a legal status and cause.
LEMMA AnswerKeeps ==
    ASSUME GatewayInv, NEW r \in Request, NEW status \in Nat, NEW shown \in SUBSET Order,
           NEW cause \in Causes, Answer(r, status, shown, cause),
           \A q \in Request \ {r} : verdict'[q] = verdict[q], down' = down
    PROVE  /\ GatewayTypeOK' /\ Served'
           /\ pc' = [pc EXCEPT ![r] = "done"]
           /\ answer'[r] = [status |-> status, shown |-> shown, cause |-> cause]
           /\ \A q \in Request \ {r} : answer'[q] = answer[q]
  <1>1. GatewayTypeOK'
    BY DEF Answer, GatewayInv, GatewayTypeOK
  <1>2. pc'[r] = "done" /\ \A q \in Request \ {r} : pc'[q] = pc[q] /\ call'[q] = call[q]
    BY DEF Answer, GatewayInv, GatewayTypeOK
  <1>3. Served'
    BY <1>2 DEF GatewayInv, Served
  <1> QED
    BY <1>1, <1>3 DEF Answer, GatewayInv, GatewayTypeOK

LEMMA RaiseKeeps ==
    ASSUME GatewayInv, NEW r \in Request, NEW e \in Causes, Raise(r, e),
           \A q \in Request \ {r} : verdict'[q] = verdict[q], down' = down
    PROVE  /\ GatewayTypeOK' /\ Served'
           /\ pc' = [pc EXCEPT ![r] = "done"]
           /\ answer'[r] = [status |-> errorHandler(e), shown |-> {}, cause |-> e]
           /\ \A q \in Request \ {r} : answer'[q] = answer[q]
  BY AnswerKeeps, ErrorStatus DEF Raise

\* The three action properties, request by request.
RefusedRight(r) ==
    pc[r] = "route" /\ pc'[r] = "done" => RefusedFor(call[r], answer'[r].status)

MayShow(r, shown) ==
    \A o \in shown : MaySee(call[r], o) \/ Replays(call[r], o)

\* Only handlers show orders.
ShownRight(r) ==
    answer'[r] # answer[r] =>
        /\ answer'[r].shown # {} => pc[r] = "handle"
        /\ MayShow(r, answer'[r].shown)

AnsweredRight(r) ==
    answer'[r] # answer[r] /\ pc[r] = "handle" =>
        LET status == answer'[r].status
            route == App[call[r].target]
        IN  \/ status \in {404, 409}
            \/ status \in route.documented
            \/ status = 200 /\ call[r].target \notin DOMAIN Routers
            \/ status = 500 /\ answer'[r].cause = "QueryFailedError"

Right(r) == RefusedRight(r) /\ ShownRight(r) /\ AnsweredRight(r)

LEMMA QuietIsRight ==
    ASSUME NEW r, pc'[r] = pc[r] \/ pc'[r] # "done", answer'[r] = answer[r]
    PROVE  Right(r)
  BY DEF Right, RefusedRight, ShownRight, AnsweredRight

LEMMA RaisedIsRight ==
    ASSUME GatewayInv, NEW r \in Request, NEW e \in Causes, Raise(r, e),
           \A q \in Request \ {r} : verdict'[q] = verdict[q], down' = down,
           pc[r] = "route" => call[r] \in Call /\ Chain[call[r]] # "none" /\ e = Chain[call[r]],
           pc[r] = "handle" => \/ e = "QueryFailedError"
                               \/ errorHandler(e) \in {404, 409} \cup App[call[r].target].documented
    PROVE  GatewayTypeOK' /\ Served' /\ \A q \in Request : Right(q)
  <1>1. /\ GatewayTypeOK' /\ Served' /\ pc' = [pc EXCEPT ![r] = "done"]
        /\ answer'[r] = [status |-> errorHandler(e), shown |-> {}, cause |-> e]
        /\ \A q \in Request \ {r} : answer'[q] = answer[q]
    BY RaiseKeeps
  <1>2. \A q \in Request \ {r} : Right(q)
    BY <1>1, QuietIsRight DEF GatewayInv, GatewayTypeOK
  <1>3. answer'[r].status = errorHandler(e) /\ answer'[r].shown = {} /\ answer'[r].cause = e
    BY <1>1
  <1>4. RefusedRight(r)
    BY <1>3, ThrownIsDocumented DEF RefusedRight
  <1>5. ShownRight(r)
    BY <1>3 DEF ShownRight, MayShow
  <1>6. AnsweredRight(r)
    BY <1>3, ErrorStatus DEF AnsweredRight
  <1> QED
    BY <1>1, <1>2, <1>4, <1>5, <1>6 DEF Right

\* What a handler answers, or throws, is right.
MayThrow(r, e) ==
    e \in {"QueryFailedError", "NotFoundError"} \/ e \in Handlers[call[r].target].throws

OnlyServes(r) == down' = down /\ \A q \in Request \ {r} : verdict'[q] = verdict[q]

AllRight == GatewayTypeOK' /\ Served' /\ \A q \in Request : Right(q)

LEMMA AnsweredIsRight ==
    ASSUME GatewayInv, NEW r \in Request, pc[r] = "handle", OnlyServes(r),
           NEW shown \in SUBSET Order, MayShow(r, shown),
           Answer(r, Handlers[call[r].target].success, shown, "none")
    PROVE  AllRight
  <1>0. "none" \in Causes /\ call[r] \in Call /\ Chain[call[r]] = "none"
    BY CallsAssumption DEF Causes, GatewayInv, Served
  <1>1. PICK t : t = call[r].target
    OBVIOUS
  <1>2. t \in HandledTargets
    BY <1>0, <1>1, PassedIsHandled
  <1>3. PICK status : status = Handlers[t].success
    OBVIOUS
  <1>4. /\ status \in Nat
        /\ \/ status \in App[t].documented
           \/ status = 200 /\ t \notin DOMAIN Routers
    BY <1>2, <1>3, HandlerAnswers, RoutersHave DEF Over
  <1>5. Answer(r, status, shown, "none")
    BY <1>1, <1>3
  <1>6. /\ GatewayTypeOK' /\ Served' /\ pc' = [pc EXCEPT ![r] = "done"]
        /\ answer'[r] = [status |-> status, shown |-> shown, cause |-> "none"]
        /\ \A q \in Request \ {r} : answer'[q] = answer[q]
    BY <1>0, <1>4, <1>5, AnswerKeeps DEF OnlyServes
  <1>7. \A q \in Request \ {r} : Right(q)
    BY <1>6, QuietIsRight DEF GatewayInv, GatewayTypeOK
  <1>8. answer'[r].status = status /\ answer'[r].shown = shown
    BY <1>6
  <1> QED
    BY <1>1, <1>4, <1>6, <1>7, <1>8
       DEF AllRight, Right, RefusedRight, ShownRight, AnsweredRight

LEMMA RejectedIsRight ==
    ASSUME GatewayInv, NEW r \in Request, pc[r] = "handle", OnlyServes(r),
           NEW e, MayThrow(r, e), Raise(r, e)
    PROVE  AllRight
  <1>1. PICK t : t = call[r].target
    OBVIOUS
  <1>2. t \in HandledTargets
    BY <1>1, PassedIsHandled, CallsAssumption DEF GatewayInv, Served
  <1>3. \A x \in Handlers[t].throws :
            errorHandler(x) \in {404, 409} \cup App[t].documented /\ x \in Causes
    BY <1>2, HandlerAnswers
  <1>4. e \in Causes
    BY <1>1, <1>3 DEF MayThrow, Causes, ApiErrors
  <1>5. \/ e = "QueryFailedError"
        \/ errorHandler(e) \in {404, 409} \cup App[call[r].target].documented
    BY <1>1, <1>3, ErrorStatus DEF MayThrow
  <1> QED
    BY <1>4, <1>5, RaisedIsRight DEF AllRight, OnlyServes

LEMMA LimitVerdict ==
    ASSUME LimitInv, NEW r \in Request, NEW now \in Clocks, Hit(r, now) \/ HitFails(r, now)
    PROVE  \A q \in Request \ {r} : verdict'[q] = verdict[q]
  BY DEF Hit, HitFails, LimitInv, LimitTypeOK

\* A step of request r preserves the invariant, and what it answers is right.
LEMMA RequestIsRight ==
    ASSUME GatewayInv, NEW r \in Request, Receive(r) \/ Serve(r)
    PROVE  GatewayInv' /\ \A q \in Request : Right(q)
  <1>0. LimitInv /\ GatewayTypeOK /\ Served
    BY DEF GatewayInv
  <1>1. LimitInv'
    <2>1. CASE UNCHANGED limitVars
      BY <1>0, <2>1, LimitKept
    <2>2. CASE Admit(r)
      BY <1>0, <2>2, RequestStep DEF Admit
    <2> QED
      BY <2>1, <2>2
         DEF Receive, Serve, Dispatch, Handle, HandlerFails, CreateOrder, ListOrders, GetOrder
  <1>2. CASE Receive(r)
    <2>1. UNCHANGED limitVars /\ down' = down /\ pc[r] = "idle"
          /\ \A q \in Request \ {r} : verdict'[q] = verdict[q]
      BY <1>2 DEF Receive, limitVars
    <2>2. CASE pc' = [pc EXCEPT ![r] = "limit"] /\ UNCHANGED <<call, answer>>
      <3>1. GatewayTypeOK' /\ Served'
        BY <1>0, <2>1, <2>2 DEF GatewayTypeOK, Served, limitVars
      <3>2. \A q \in Request : Right(q)
        BY <1>0, <2>2, QuietIsRight DEF GatewayTypeOK
      <3> QED
        BY <1>1, <3>1, <3>2 DEF GatewayInv
    <2>3. CASE Raise(r, "SyntaxError")
      BY <1>1, <2>1, <2>3, RaisedIsRight DEF Causes, GatewayInv
    <2> QED
      BY <1>2, <2>2, <2>3 DEF Receive
  <1>3. CASE Admit(r)
    <2>1. PICK now \in Clocks : \/ /\ Hit(r, now)
                                   /\ \/ Passes(r)
                                      \/ Raise(r, "TooManyRequestsError")
                                \/ HitFails(r, now) /\ Raise(r, "RedisError")
      BY <1>3 DEF Admit
    <2>2. /\ down' = down /\ pc[r] = "limit"
          /\ \A q \in Request \ {r} : verdict'[q] = verdict[q]
      BY <1>0, <1>3, <2>1, LimitVerdict DEF Admit
    <2>3. CASE Passes(r)
      <3>1. PICK c \in CallsOf[r] : call' = [call EXCEPT ![r] = c] /\ c \in Call
        BY <2>3, CallsAssumption DEF Passes
      <3>2. /\ pc' = [pc EXCEPT ![r] = "route"] /\ answer' = answer /\ verdict'[r] = "passed"
        BY <2>3 DEF Passes
      <3>3. GatewayTypeOK' /\ Served'
        BY <1>0, <2>2, <3>1, <3>2 DEF GatewayTypeOK, Served
      <3>4. \A q \in Request : Right(q)
        BY <1>0, <3>2, QuietIsRight DEF GatewayTypeOK
      <3> QED
        BY <1>1, <3>3, <3>4 DEF GatewayInv
    <2>4. CASE Raise(r, "TooManyRequestsError")
      BY <1>1, <2>2, <2>4, RaisedIsRight DEF Causes, ApiErrors, GatewayInv
    <2>5. CASE Raise(r, "RedisError")
      BY <1>1, <2>2, <2>5, RaisedIsRight DEF Causes, GatewayInv
    <2> QED
      BY <2>1, <2>3, <2>4, <2>5
  <1>4. CASE Dispatch(r)
    <2>1. UNCHANGED limitVars /\ down' = down /\ pc[r] = "route" /\ call[r] \in Call
          /\ \A q \in Request \ {r} : verdict'[q] = verdict[q]
      BY <1>0, <1>4, CallsAssumption DEF Dispatch, limitVars, Served
    <2>2. CASE /\ Chain[call[r]] = "none" /\ pc' = [pc EXCEPT ![r] = "handle"]
               /\ UNCHANGED <<call, answer>>
      <3>1. GatewayTypeOK' /\ Served'
        BY <1>0, <2>1, <2>2 DEF GatewayTypeOK, Served, limitVars
      <3>2. \A q \in Request : Right(q)
        BY <1>0, <2>2, QuietIsRight DEF GatewayTypeOK
      <3> QED
        BY <1>1, <3>1, <3>2 DEF GatewayInv
    <2>3. CASE Chain[call[r]] # "none" /\ Raise(r, Chain[call[r]])
      <3>1. Chain[call[r]] \in Causes
        BY <2>1, ChainThrows
      <3> QED
        BY <1>1, <2>1, <2>3, <3>1, RaisedIsRight DEF GatewayInv
    <2> QED
      BY <1>4, <2>2, <2>3 DEF Dispatch
  <1>5. CASE pc[r] = "handle"
    <2> SUFFICES AllRight
      BY <1>1 DEF GatewayInv, AllRight
    <2>1. UNCHANGED limitVars /\ down' = down
      BY <1>5 DEF Receive, Serve, Admit, Dispatch, Handle, HandlerFails, CreateOrder,
                  ListOrders, GetOrder
    <2>2. OnlyServes(r)
      BY <2>1 DEF OnlyServes, limitVars
    <2>3. ASSUME NEW shown \in SUBSET Order, MayShow(r, shown),
                 Answer(r, Handlers[call[r].target].success, shown, "none")
          PROVE  AllRight
      BY <1>5, <2>2, <2>3, AnsweredIsRight
    <2>4. ASSUME NEW e, MayThrow(r, e), Raise(r, e)
          PROVE  AllRight
      BY <1>5, <2>2, <2>4, RejectedIsRight
    <2>5. CASE Handle(r)
      <3>1. CASE Answer(r, Handlers[call[r].target].success, {}, "none")
        BY <2>3, <3>1 DEF MayShow
      <3>2. CASE \E e \in Handlers[call[r].target].throws : Raise(r, e)
        BY <2>4, <3>2 DEF MayThrow
      <3> QED
        BY <2>5, <3>1, <3>2 DEF Handle
    <2>6. CASE HandlerFails(r)
      BY <2>4, <2>6 DEF HandlerFails, MayThrow
    <2>7. ASSUME NEW shown \in SUBSET VisibleOrders(call[r].bearer)
          PROVE  shown \in SUBSET Order /\ MayShow(r, shown)
      BY DEF VisibleOrders, Mine, MayShow, MaySee
    <2>8. CASE ListOrders(r)
      <3>1. PICK page \in SUBSET VisibleOrders(call[r].bearer) :
                Answer(r, Handlers[call[r].target].success, page, "none")
        BY <2>8 DEF ListOrders
      <3> QED
        BY <2>3, <2>7, <3>1
    <2>9. CASE GetOrder(r)
      <3>1. CASE Raise(r, "NotFoundError")
        BY <2>4, <3>1 DEF MayThrow
      <3>2. ASSUME NEW o \in VisibleOrders(call[r].bearer),
                   Answer(r, Handlers["getOrder"].success, {o}, "none")
            PROVE  AllRight
        <4>1. PICK page \in SUBSET VisibleOrders(call[r].bearer) : page = {o}
          OBVIOUS
        <4>2. Answer(r, Handlers[call[r].target].success, page, "none")
          BY <2>9, <3>2, <4>1 DEF GetOrder
        <4> QED
          BY <2>3, <2>7, <4>1, <4>2
      <3> QED
        BY <2>9, <3>1, <3>2 DEF GetOrder
    <2>10. CASE CreateOrder(r)
      <3>1. CASE \E e \in Handlers["createOrder"].throws : Raise(r, e)
        BY <2>4, <2>10, <3>1 DEF MayThrow, CreateOrder
      <3>2. ASSUME NEW o \in CreatedOrders(call[r]),
                   Answer(r, Handlers["createOrder"].success, {o}, "none")
            PROVE  AllRight
        <4>1. call[r].target = "createOrder"
          BY <2>10 DEF CreateOrder
        <4>2. \/ o \in Order /\ OrderOwner[o] = call[r].bearer.user
              \/ \E k \in Key : call[r].key = k /\ o = StoredUnder[k]
          BY <3>2 DEF CreatedOrders, Mine
        <4>3. o \in Order
          BY <4>2, KeyAssumption
        <4>4. PICK shown \in SUBSET Order : shown = {o}
          BY <4>3
        <4>5. MayShow(r, shown)
          BY <4>1, <4>2, <4>4 DEF MayShow, MaySee, Replays
        <4>6. Answer(r, Handlers[call[r].target].success, shown, "none")
          BY <3>2, <4>1, <4>4
        <4> QED
          BY <2>3, <4>5, <4>6
      <3> QED
        BY <2>10, <3>1, <3>2 DEF CreateOrder
    <2> QED
      BY <1>5, <2>5, <2>6, <2>8, <2>9, <2>10 DEF Receive, Serve, Admit, Dispatch
  <1> QED
    BY <1>2, <1>3, <1>4, <1>5 DEF Serve, Handle, HandlerFails, CreateOrder, ListOrders, GetOrder

LEMMA NextIsRight ==
    ASSUME GatewayInv, [GatewayNext]_gatewayVars
    PROVE  GatewayInv' /\ \A q \in Request : Right(q)
  <1>0. LimitInv /\ GatewayTypeOK /\ Served
    BY DEF GatewayInv
  <1>1. CASE \E r \in Request : Receive(r) \/ Serve(r)
    BY <1>1, RequestIsRight
  <1>2. CASE Tick /\ UNCHANGED <<callVars, down>>
    <2>1. LimitInv'
      BY <1>0, <1>2, TickStep
    <2>2. UNCHANGED <<pc, call, answer, down, verdict>>
      BY <1>2 DEF Tick, callVars
    <2>3. GatewayTypeOK' /\ Served'
      BY <1>0, <2>2 DEF GatewayTypeOK, Served
    <2> QED
      BY <2>1, <2>2, <2>3, QuietIsRight DEF GatewayInv
  <1>3. CASE Shutdown \/ UNCHANGED gatewayVars
    <2>1. UNCHANGED limitVars /\ UNCHANGED <<pc, call, answer>> /\ down' \in BOOLEAN
      BY <1>0, <1>3 DEF Shutdown, gatewayVars, callVars, GatewayTypeOK
    <2>2. LimitInv'
      BY <1>0, <2>1, LimitKept
    <2>3. GatewayTypeOK' /\ Served'
      BY <1>0, <2>1 DEF GatewayTypeOK, Served, limitVars
    <2> QED
      BY <2>1, <2>2, <2>3, QuietIsRight DEF GatewayInv
  <1>4. CASE Exit
    <2>1. UNCHANGED limitVars /\ UNCHANGED <<answer, down>>
      BY <1>4 DEF Exit
    <2>2. LimitInv'
      BY <1>0, <2>1, LimitKept
    <2>3. ASSUME NEW q \in Request
          PROVE  /\ pc'[q] \in {"idle", "done", "dropped"}
                 /\ pc'[q] = "dropped" \/ pc'[q] = pc[q]
      BY <1>0, <1>4 DEF Exit, GatewayTypeOK
    <2>4. GatewayTypeOK' /\ Served'
      BY <1>0, <1>4, <2>1, <2>3 DEF Exit, GatewayTypeOK, Served
    <2> QED
      BY <2>1, <2>2, <2>3, <2>4, QuietIsRight DEF GatewayInv
  <1> QED
    BY <1>1, <1>2, <1>3, <1>4 DEF GatewayNext

\* The inductive invariant of the application holds in every state: the
\* limiter's counts are right, and only calls that it passed, and that nothing
\* in their chain threw at, are with their handlers (createApp).
THEOREM GatewayInvariant == GatewaySpec => []GatewayInv
  <1>1. GatewayInv /\ [GatewayNext]_gatewayVars => GatewayInv'
    BY NextIsRight
  <1> QED
    BY <1>1, InitGatewayInv, PTL DEF GatewaySpec

\* Every handler runs only for who the endpoint table names, or, on the order
\* routes, for a verified bearer without a role; on input that was validated,
\* and within the limit, over every route of the five routers.
THEOREM AccessIsExplained == GatewaySpec => []AccessExplained
  <1>1. GatewayInv => AccessExplained
    BY PassedIsEntitled, CallsAssumption DEF GatewayInv, Served, AccessExplained
  <1> QED
    BY <1>1, GatewayInvariant, PTL

\* The premise of the documentation: whoever verifies presents an access token.
AccessTokensOnly == \A b \in Bearer \ {Nobody} : AccessToken(b)

\* The endpoint table holds as it stands (src/README.md:296-319), PROVIDED every
\* bearer that verifies is an access token, which authGuard does not look at.
THEOREM AccessIsAsDocumented == AccessTokensOnly /\ GatewaySpec => []AccessAsDocumented
  <1>1. AccessTokensOnly /\ GatewayInv => AccessAsDocumented
    <2> SUFFICES ASSUME AccessTokensOnly, GatewayInv, NEW r \in Request, pc[r] = "handle"
                 PROVE  Entitled(call[r])
      BY DEF AccessAsDocumented
    <2>1. call[r] \in Call /\ Chain[call[r]] = "none"
      BY CallsAssumption DEF GatewayInv, Served
    <2>2. ~Roleless(call[r])
      BY <2>1 DEF AccessTokensOnly, Roleless, Call
    <2> QED
      BY <2>1, <2>2, PassedIsEntitled
  <1>2. SUFFICES ASSUME AccessTokensOnly
                 PROVE  GatewaySpec => []AccessAsDocumented
    OBVIOUS
  <1>3. GatewayInv => AccessAsDocumented
    BY <1>1, <1>2
  <1> QED
    BY <1>3, GatewayInvariant, PTL

\* Nobody is refused what the endpoint table grants, and the answer names the
\* first thing that is wrong: 401 before 403 before 422; a bearer without a
\* role is refused by the ADMIN routes alone (authGuard, roleGuard, validate,
\* errorHandler).
THEOREM RefusalsAreExplained == GatewaySpec => RefusalsExplained
  <1>1. GatewayInv /\ [GatewayNext]_gatewayVars =>
            [\A r \in Request : RefusedRight(r)]_gatewayVars
    BY NextIsRight DEF Right
  <1>2. GatewaySpec => [][\A r \in Request : RefusedRight(r)]_gatewayVars
    BY <1>1, GatewayInvariant, PTL DEF GatewaySpec
  <1> QED
    BY <1>2 DEF RefusalsExplained, RefusedRight

\* No answer shows an order that its caller, as the handler was entered, may
\* not see, unless it is the one stored under the Idempotency-Key it presents
\* (OrderController.create, list, getById; IdempotencyService.run).
THEOREM OrdersAreShownForCause == GatewaySpec => OrdersShownForCause
  <1>1. GatewayInv /\ [GatewayNext]_gatewayVars =>
            [\A r \in Request :
                 answer'[r] # answer[r] =>
                     \A o \in answer'[r].shown :
                         MaySee(call[r], o) \/ Replays(call[r], o)]_gatewayVars
    BY NextIsRight DEF Right, ShownRight, MayShow
  <1> QED
    BY <1>1, GatewayInvariant, PTL DEF GatewaySpec, OrdersShownForCause

\* The premise of the sentence: whoever is signed in and presents a key may see
\* the order that is stored under it.
KeysArePersonal ==
    \A r \in Request : \A c \in CallsOf[r] : \A o \in Order :
        c.bearer # Nobody /\ Replays(c, o) => MaySee(c, o)

\* A USER sees only orders of their own (order.controller.ts:10-11), PROVIDED
\* nobody presents a key of somebody else's: records are found by the key alone.
THEOREM OnlyOwnOrdersShown == KeysArePersonal /\ GatewaySpec => OwnOrdersOnly
  <1>1. ASSUME KeysArePersonal, GatewayInv, [GatewayNext]_gatewayVars,
               NEW r \in Request, answer'[r] # answer[r], NEW o \in answer'[r].shown
        PROVE  MaySee(call[r], o)
    <2>1. /\ pc[r] = "handle" /\ o \in Order
          /\ MaySee(call[r], o) \/ Replays(call[r], o)
      BY <1>1, NextIsRight DEF Right, ShownRight, MayShow, GatewayInv, GatewayTypeOK
    <2>2. call[r] \in CallsOf[r] /\ call[r] \in Call /\ Chain[call[r]] = "none"
      BY <1>1, <2>1, CallsAssumption DEF GatewayInv, Served
    <2>3. Replays(call[r], o) => call[r].bearer # Nobody
      BY <2>2, PassedIsEntitled DEF Replays, UserTargets
    <2> QED
      BY <1>1, <2>1, <2>2, <2>3 DEF KeysArePersonal
  <1>2. SUFFICES ASSUME KeysArePersonal
                 PROVE  GatewaySpec => OwnOrdersOnly
    OBVIOUS
  <1>3. GatewayInv /\ [GatewayNext]_gatewayVars =>
            [\A r \in Request :
                 answer'[r] # answer[r] =>
                     \A o \in answer'[r].shown : MaySee(call[r], o)]_gatewayVars
    BY <1>1, <1>2
  <1> QED
    BY <1>3, GatewayInvariant, PTL DEF GatewaySpec, OwnOrdersOnly

\* What a service throws on purpose is answered as an intentional error, and a
\* success with a status its route documents (the controllers, errorHandler).
THEOREM AnswersAreIntended == GatewaySpec => AnswersAsIntended
  <1>1. GatewayInv /\ [GatewayNext]_gatewayVars =>
            [\A r \in Request : AnsweredRight(r)]_gatewayVars
    BY NextIsRight DEF Right
  <1>2. GatewaySpec => [][\A r \in Request : AnsweredRight(r)]_gatewayVars
    BY <1>1, GatewayInvariant, PTL DEF GatewaySpec
  <1> QED
    BY <1>2 DEF AnswersAsIntended, AnsweredRight

\* The limiter keeps its promises inside the application too, where requests
\* reach it through Receive and the process may end under it (createApp).
THEOREM LimiterBehindApp == GatewaySpec => [](AtMostLimitPerWindow /\ LimitedForCause)
  <1>1. GatewayInv => AtMostLimitPerWindow /\ LimitedForCause
    BY DEF GatewayInv, LimitInv
  <1> QED
    BY <1>1, GatewayInvariant, PTL
=============================================================================
