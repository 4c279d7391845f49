------------------------------ MODULE Gateway ------------------------------
(***************************************************************************)
(* The HTTP application: createApp's chain of middlewares, the routers     *)
(* with their guards, the controllers' branches on the caller, and the     *)
(* error handler that turns whatever was thrown into an answer.            *)
(*                                                                         *)
(* What a request asks for is first looked at behind the rate limiter, so  *)
(* it is chosen there.  The services are modelled by what they may throw;  *)
(* their effects are in other modules.                                     *)
(***************************************************************************)
EXTENDS RateLimit, Sequences

CONSTANTS
    Bearer,       \* what the Authorization header may hold
    Nobody,       \* a bearer that verifies as nobody: none, malformed, expired
    Order, OrderOwner,  \* orders in the table, and whose they are
    Key, NoKey,   \* values of the Idempotency-Key header; none is given
    StoredUnder,  \* StoredUnder[k]: the order whose DTO is completed under idem:k
    NoCall,
    BullBoardOn,  \* BULL_BOARD_ENABLED
    CallsOf       \* bound, for TLC: CallsOf[r], the calls that r may turn out to be

\* A bearer is Nobody, or a token signed for [user, role].
ASSUME BearerAssumption ==
    /\ Nobody \in Bearer
    /\ \A b \in Bearer \ {Nobody} : DOMAIN b = {"user", "role"}
ASSUME OrderAssumption == OrderOwner \in [Order -> {b.user : b \in Bearer \ {Nobody}}]
\* A record does not say who sent the key: the order may be anybody's.
ASSUME KeyAssumption == NoKey \notin Key /\ StoredUnder \in [Key -> Order]

VARIABLES
    pc,           \* pc[r]: what request r waits for
    call,         \* call[r]: the call that its handler serves
    answer,       \* answer[r]: its answer
    down          \* the process has been told to end

callVars == <<pc, call, answer>>
gatewayVars == <<limitVars, callVars, down>>

-----------------------------------------------------------------------------
(* The routers: what a route runs through, and the statuses its @swagger   *)
(* block documents                                                         *)

Route(steps, documented) == [steps |-> steps, documented |-> documented]

Public == <<"validate">>
SignedIn == <<"authGuard", "validate">>
AdminOnly == <<"authGuard", "roleGuard", "validate">>
\* The guards of router.use also cover the paths that no route of it matches.
Unmatched(guards) == Route(guards \o <<"notFoundHandler">>, {404})

AuthRouter ==
    [register |-> Route(Public, {201, 409, 422}),
     login    |-> Route(Public, {200, 401}),
     refresh  |-> Route(Public, {200, 401}),
     logout   |-> Route(Public, {200})]

\* [mutant] router.use comes after the reading routes.
UserRouterLate ==
    [listUsers   |-> Route(Public, {200, 401, 403}),
     getUser     |-> Route(Public, {200, 404}),
     createUser  |-> Route(AdminOnly, {201, 409}),
     updateUser  |-> Route(AdminOnly, {200, 404}),
     removeUser  |-> Route(AdminOnly, {200, 404}),
     noUserRoute |-> Unmatched(<<"authGuard", "roleGuard">>)]

UserRouter ==
    [listUsers   |-> Route(AdminOnly, {200, 401, 403}),
     getUser     |-> Route(AdminOnly, {200, 404}),
     createUser  |-> Route(AdminOnly, {201, 409}),
     updateUser  |-> Route(AdminOnly, {200, 404}),
     removeUser  |-> Route(AdminOnly, {200, 404}),
     noUserRoute |-> Unmatched(<<"authGuard", "roleGuard">>)]

CategoryRouter ==
    [listCategories |-> Route(Public, {200}),
     getCategory    |-> Route(Public, {200, 404}),
     createCategory |-> Route(AdminOnly, {201, 403}),
     updateCategory |-> Route(AdminOnly, {200, 404}),
     removeCategory |-> Route(AdminOnly, {200, 404})]

\* [mutant] adminOnly lists the guards the other way round.
ProductRouterSwapped ==
    LET Swapped == <<"roleGuard", "authGuard", "validate">>
    IN  [listProducts  |-> Route(Public, {200}),
         getProduct    |-> Route(Public, {200, 404}),
         createProduct |-> Route(Swapped, {201, 403}),
         updateProduct |-> Route(Swapped, {200, 404}),
         removeProduct |-> Route(Swapped, {200, 404})]

ProductRouter ==
    [listProducts  |-> Route(Public, {200}),
     getProduct    |-> Route(Public, {200, 404}),
     createProduct |-> Route(AdminOnly, {201, 403}),
     updateProduct |-> Route(AdminOnly, {200, 404}),
     removeProduct |-> Route(AdminOnly, {200, 404})]

OrderRouter ==
    [createOrder  |-> Route(SignedIn, {201, 409, 401}),
     listOrders   |-> Route(SignedIn, {200}),
     getOrder     |-> Route(SignedIn, {200, 404}),
     noOrderRoute |-> Unmatched(<<"authGuard">>)]

\* The queue dashboard, if it is mounted.
BullBoard == [queues |-> Route(IF BullBoardOn THEN <<"basicAuth">>
                               ELSE <<"notFoundHandler">>, {})]

\* f, and behind it what else g has: Express takes the first that matches.
Then(f, g) == [x \in DOMAIN f \cup DOMAIN g |-> IF x \in DOMAIN f THEN f[x] ELSE g[x]]

Routers ==
    Then(AuthRouter, Then(UserRouter, Then(CategoryRouter, Then(ProductRouter, OrderRouter))))

\* What createApp mounts, behind the rate limiter.
App == Then([docs |-> Route(<<>>, {}), health |-> Route(<<>>, {}),
             noRoute |-> Unmatched(<<>>)], Then(BullBoard, Routers))

Target == DOMAIN App

-----------------------------------------------------------------------------
(* The controllers: the status of success, and what the services throw on   *)
(* purpose.  "UniqueViolation" is a QueryFailedError with code 23505.       *)

Handler(success, throws) == [success |-> success, throws |-> throws]

AuthController ==
    [register |-> Handler(201, {"ConflictError", "UniqueViolation"}),
     login    |-> Handler(200, {"UnauthorizedError"}),
     refresh  |-> Handler(200, {"UnauthorizedError"}),
     logout   |-> Handler(200, {})]

UserController ==
    [listUsers  |-> Handler(200, {}),
     getUser    |-> Handler(200, {"NotFoundError"}),
     createUser |-> Handler(201, {"ConflictError", "UniqueViolation"}),
     updateUser |-> Handler(200, {"NotFoundError"}),
     removeUser |-> Handler(200, {"NotFoundError"})]

CategoryController ==
    [listCategories |-> Handler(200, {}),
     getCategory    |-> Handler(200, {"NotFoundError"}),
     createCategory |-> Handler(201, {"ConflictError", "UniqueViolation"}),
     updateCategory |-> Handler(200, {"NotFoundError", "ConflictError",
                                      "UniqueViolation"}),
     removeCategory |-> Handler(200, {"NotFoundError"})]

ProductController ==
    [listProducts  |-> Handler(200, {}),
     getProduct    |-> Handler(200, {"NotFoundError"}),
     createProduct |-> Handler(201, {"NotFoundError"}),
     updateProduct |-> Handler(200, {"NotFoundError"}),
     removeProduct |-> Handler(200, {"NotFoundError"})]

OrderController ==
    [createOrder |-> Handler(201, {"NotFoundError", "ConflictError"}),
     listOrders  |-> Handler(200, {}),
     getOrder    |-> Handler(200, {"NotFoundError"})]

\* Handlers that are not in a router: they answer 200 or hand over to a library.
Others == [docs |-> Handler(200, {}), health |-> Handler(200, {}),
           queues |-> Handler(200, {})]

Handlers ==
    Then(Others, Then(AuthController, Then(UserController,
        Then(CategoryController, Then(ProductController, OrderController)))))

-----------------------------------------------------------------------------
(* Errors *)

ApiErrors ==
    [BadRequestError |-> 400, ValidationError |-> 422, UnauthorizedError |-> 401,
     ForbiddenError |-> 403, NotFoundError |-> 404, ConflictError |-> 409,
     TooManyRequestsError |-> 429]

\* [mutant] A 23505 is a database error like any other.
errorHandlerNo23505(e) ==
    IF e \in DOMAIN ApiErrors THEN ApiErrors[e]
    ELSE CASE e = "ZodError" -> 422
           [] e \in {"TokenExpiredError", "JsonWebTokenError"} -> 401
           [] OTHER -> 500

\* The status that errorHandler answers a thrown e with.
errorHandler(e) ==
    IF e \in DOMAIN ApiErrors THEN ApiErrors[e]
    ELSE CASE e = "ZodError" -> 422
           [] e \in {"TokenExpiredError", "JsonWebTokenError"} -> 401
           [] e = "UniqueViolation" -> 409
           [] OTHER -> 500

NoAnswer == [status |-> 0, shown |-> {}, cause |-> "none"]

\* r is answered; shown are the orders in the answer, cause (seen by nobody)
\* what was thrown.
Answer(r, status, shown, cause) ==
    /\ pc' = [pc EXCEPT ![r] = "done"]
    /\ call' = [call EXCEPT ![r] = NoCall]
    /\ answer' = [answer EXCEPT ![r] =
                     [status |-> status, shown |-> shown, cause |-> cause]]

\* [mutant] Without express-async-errors nobody sees what is thrown behind an
\* await: only the synchronous part of the chain is inside Express's try.
RaiseUnseen(r, e) ==
    IF pc[r] \in {"limit", "handle"}
    THEN pc' = [pc EXCEPT ![r] = "hung"] /\ UNCHANGED <<call, answer>>
    ELSE Answer(r, errorHandler(e), {}, e)

\* Whatever is thrown, before or behind an await, reaches errorHandler.
Raise(r, e) == Answer(r, errorHandler(e), {}, e)

-----------------------------------------------------------------------------
(* The guards: what they throw, or "none" *)

authGuard(bearer) == IF bearer = Nobody THEN "UnauthorizedError" ELSE "none"

\* user: req.user, which only authGuard sets.
roleGuard(user) ==
    CASE user = Nobody -> "UnauthorizedError"
      [] user # Nobody /\ user.role # "ADMIN" -> "ForbiddenError"
      [] OTHER -> "none"

validate(valid) == IF valid THEN "none" ELSE "ValidationError"

basicAuth(valid) == IF valid THEN "none" ELSE "UnauthorizedError"

\* A request's target, bearer and Idempotency-Key, and whether the schemas (or,
\* for the dashboard, the credentials) are satisfied.
Call == [target : Target, bearer : Bearer, valid : BOOLEAN, key : Key \cup {NoKey}]
ASSUME CallsAssumption == CallsOf \in [Request -> SUBSET Call]

\* What the ith step of a route throws at c.
StepThrows(steps, i, c) ==
    LET reqUser == IF \E j \in 1..(i - 1) : steps[j] = "authGuard"
                   THEN c.bearer ELSE Nobody
    IN  CASE steps[i] = "authGuard" -> authGuard(c.bearer)
          [] steps[i] = "roleGuard" -> roleGuard(reqUser)
          [] steps[i] = "validate"  -> validate(c.valid)
          [] steps[i] = "basicAuth" -> basicAuth(c.valid)
          [] OTHER -> "NotFoundError"

\* What comes of the chain: it stops at the first step that throws.
Chain ==
    [c \in Call |->
        LET steps == App[c.target].steps
            bad == {i \in DOMAIN steps : StepThrows(steps, i, c) # "none"}
        IN  IF bad = {} THEN "none"
            ELSE StepThrows(steps, CHOOSE i \in bad : \A j \in bad : i <= j, c)]

-----------------------------------------------------------------------------
(* A request *)

GatewayInit ==
    /\ LimitInit
    /\ pc = [r \in Request |-> "idle"]
    /\ call = [r \in Request |-> NoCall]
    /\ answer = [r \in Request |-> NoAnswer]
    /\ down = FALSE

\* helmet, cors, express.json: a body that does not parse is an error of no
\* known class, and goes past the limiter.
Receive(r) ==
    /\ pc[r] = "idle" /\ ~down
    /\ \/ pc' = [pc EXCEPT ![r] = "limit"] /\ UNCHANGED <<call, answer>>
       \/ Raise(r, "SyntaxError")
    /\ UNCHANGED <<limitVars, down>>

\* A request that the limiter passes turns out to be some call.
Passes(r) ==
    /\ verdict'[r] = "passed"
    /\ pc' = [pc EXCEPT ![r] = "route"]
    /\ \E c \in CallsOf[r] : call' = [call EXCEPT ![r] = c]
    /\ UNCHANGED answer

\* The limiter's verdict.
Admit(r) ==
    /\ pc[r] = "limit"
    /\ \E now \in Clocks :
           \/ /\ Hit(r, now)
              /\ \/ Passes(r)
                 \/ verdict'[r] = "limited" /\ Raise(r, "TooManyRequestsError")
           \/ HitFails(r, now) /\ Raise(r, "RedisError")
    /\ UNCHANGED down

\* Routing and guards, up to the first await of the handler.
Dispatch(r) ==
    /\ pc[r] = "route"
    /\ \/ /\ Chain[call[r]] = "none"
          /\ pc' = [pc EXCEPT ![r] = "handle"]
          /\ UNCHANGED <<call, answer>>
       \/ Chain[call[r]] # "none" /\ Raise(r, Chain[call[r]])
    /\ UNCHANGED <<limitVars, down>>

\* The handler's promise is fulfilled, or rejected on purpose ...
Handle(r) ==
    /\ pc[r] = "handle"
    /\ call[r].target \notin {"createOrder", "listOrders", "getOrder"}
    /\ LET h == Handlers[call[r].target]
       IN  Answer(r, h.success, {}, "none") \/ \E e \in h.throws : Raise(r, e)
    /\ UNCHANGED <<limitVars, down>>

\* ... or PostgreSQL or Redis fails it.
HandlerFails(r) ==
    /\ pc[r] = "handle" /\ call[r].target \notin {"docs", "health"}
    /\ Raise(r, "QueryFailedError")
    /\ UNCHANGED <<limitVars, down>>

Mine(bearer) == {o \in Order : OrderOwner[o] = bearer.user}

\* [mutant] The role alone decides, and the other way round.
VisibleOrdersAll(bearer) == Order

\* An ADMIN's queries range over all orders, a USER's over their own.
VisibleOrders(bearer) == IF bearer.role = "ADMIN" THEN Order ELSE Mine(bearer)

\* Any page of the orders the caller may see.
ListOrders(r) ==
    /\ pc[r] = "handle" /\ call[r].target = "listOrders"
    /\ \E page \in SUBSET VisibleOrders(call[r].bearer) :
           Answer(r, Handlers["listOrders"].success, page, "none")
    /\ UNCHANGED <<limitVars, down>>

\* The id names an order, or nothing at all.
GetOrder(r) ==
    /\ pc[r] = "handle" /\ call[r].target = "getOrder"
    /\ \/ \E o \in VisibleOrders(call[r].bearer) :
              Answer(r, Handlers["getOrder"].success, {o}, "none")
       \/ Raise(r, "NotFoundError")
    /\ UNCHANGED <<limitVars, down>>

\* What the create handler may return: an order it has just placed, or, if the
\* key's record is completed and not expired, the one stored there.
CreatedOrders(c) ==
    Mine(c.bearer) \cup {StoredUnder[k] : k \in Key \cap {c.key}}

CreateOrder(r) ==
    /\ pc[r] = "handle" /\ call[r].target = "createOrder"
    /\ LET h == Handlers["createOrder"]
       IN  \/ \E o \in CreatedOrders(call[r]) : Answer(r, h.success, {o}, "none")
           \/ \E e \in h.throws : Raise(r, e)
    /\ UNCHANGED <<limitVars, down>>

\* SIGTERM: server.close() refuses new connections ...
Shutdown ==
    /\ ~down
    /\ down' = TRUE
    /\ UNCHANGED <<limitVars, callVars>>

\* ... and process.exit() drops the requests in flight.
Exit ==
    /\ down
    /\ \E r \in Request : pc[r] \in {"limit", "route", "handle"}
    /\ pc' = [r \in Request |->
                 IF pc[r] \in {"limit", "route", "handle"} THEN "dropped" ELSE pc[r]]
    /\ call' = [r \in Request |-> NoCall]
    /\ UNCHANGED <<limitVars, answer, down>>

Serve(r) ==
    \/ Admit(r) \/ Dispatch(r) \/ Handle(r) \/ HandlerFails(r)
    \/ CreateOrder(r) \/ ListOrders(r) \/ GetOrder(r)

GatewayNext ==
    \/ \E r \in Request : Receive(r) \/ Serve(r)
    \/ Tick /\ UNCHANGED <<callVars, down>>
    \/ Shutdown
    \/ Exit

GatewaySpec == GatewayInit /\ [][GatewayNext]_gatewayVars

\* Redis and PostgreSQL answer, or fail, and the event loop runs.
GatewayFairSpec ==
    GatewaySpec /\ \A r \in Request : WF_gatewayVars(Serve(r))

-----------------------------------------------------------------------------
(* Properties *)

\* The endpoint table of src/README.md:296-319, and the tags of the routers.
\* The guards of /users and /orders come before the 404 of an unknown path.
AdminTargets ==
    {"listUsers", "getUser", "createUser", "updateUser", "removeUser", "noUserRoute",
     "createCategory", "updateCategory", "removeCategory",
     "createProduct", "updateProduct", "removeProduct"}
UserTargets == {"createOrder", "listOrders", "getOrder", "noOrderRoute"}

\* "Access tokens (short-lived JWT) carry sub and role" (src/README.md:330).
AccessToken(b) == b # Nobody /\ b.role \in {"USER", "ADMIN"}

\* The documentation: an access token where the table names a role
\* (auth.middleware.ts:14), the credentials of the dashboard, and that role.
SignsIn(c) ==
    IF c.target = "queues" /\ BullBoardOn THEN c.valid
    ELSE c.target \in AdminTargets \cup UserTargets => AccessToken(c.bearer)

Entitled(c) ==
    SignsIn(c) /\ (c.target \in AdminTargets => c.bearer.role = "ADMIN")

\* What it does not speak of: authGuard only verifies the signature, and so
\* also takes a refresh token, signed with the same secret (auth.service.ts:129-139),
\* which has no role.
Roleless(c) ==
    /\ c.target \in AdminTargets \cup UserTargets
    /\ c.bearer # Nobody /\ ~AccessToken(c.bearer)

\* The endpoint table, as it stands: a handler runs for nobody else.  It holds
\* where every bearer that verifies is an access token (theorem AccessIsAsDocumented).
AccessAsDocumented ==
    \A r \in Request : pc[r] = "handle" => Entitled(call[r])

\* A handler runs for nobody else than the documentation says, or, on the order
\* routes alone, for a verified bearer without a role; on validated input, and
\* within the limit: over all routes, no guard is missing, attached too late,
\* or run before the one it builds on.
AccessExplained ==
    \A r \in Request :
        pc[r] = "handle" =>
            /\ \/ Entitled(call[r])
               \/ Roleless(call[r]) /\ call[r].target \in UserTargets
            /\ verdict[r] = "passed"
            /\ call[r].target \in DOMAIN Routers => call[r].valid

\* What a guard may answer c with.  A bearer without a role is signed in, and
\* only the ADMIN routes refuse it; for all others the documentation decides.
RefusedFor(c, status) ==
    IF Roleless(c)
    THEN /\ status # 401
         /\ (status = 403) = (c.target \in AdminTargets)
         /\ status = 422 => ~c.valid
    ELSE /\ (status = 401) = ~SignsIn(c)
         /\ (status = 403) = (SignsIn(c) /\ ~Entitled(c))
         /\ status = 422 => Entitled(c) /\ ~c.valid

\* Conversely nobody is refused what the documentation grants, and the answer
\* names the first thing that is wrong: 401 before 403 before 422.
RefusalsExplained ==
    [][\A r \in Request :
           pc[r] = "route" /\ pc'[r] = "done" =>
               RefusedFor(call[r], answer'[r].status)]_gatewayVars

\* c's caller may see o: an ADMIN, or its owner.
MaySee(c, o) == c.bearer.role = "ADMIN" \/ OrderOwner[o] = c.bearer.user

\* c presents the Idempotency-Key that o is stored under.
Replays(c, o) ==
    c.target = "createOrder" /\ \E k \in Key : c.key = k /\ StoredUnder[k] = o

\* "A USER only ever sees their own orders, while an ADMIN sees everything"
\* (order.controller.ts:10-11), as it stands.  It holds where nobody presents
\* a key that another's order is stored under (theorem OnlyOwnOrdersShown).
OwnOrdersOnly ==
    [][\A r \in Request :
           answer'[r] # answer[r] =>
               \A o \in answer'[r].shown : MaySee(call[r], o)]_gatewayVars

\* No answer shows an order that its caller, as the handler was entered, may
\* not see, whatever else is in flight, except that POST /orders answers with
\* what is stored under the key it is given, whoever ordered that: the record
\* is found by the key alone (idempotency.service.ts:33-38).
OrdersShownForCause ==
    [][\A r \in Request :
           answer'[r] # answer[r] =>
               \A o \in answer'[r].shown :
                   MaySee(call[r], o) \/ Replays(call[r], o)]_gatewayVars

\* Whatever is thrown on purpose is answered as an intentional error, and a
\* success with the status its route documents; 500 is left to failures of
\* PostgreSQL, of Redis and of the body parser.
AnswersAsIntended ==
    [][\A r \in Request :
           answer'[r] # answer[r] /\ pc[r] = "handle" =>
               LET status == answer'[r].status
                   route == App[call[r].target]
               IN  \/ status \in {404, 409}
                   \/ status \in route.documented
                   \/ status = 200 /\ call[r].target \notin DOMAIN Routers
                   \/ status = 500 /\ answer'[r].cause = "QueryFailedError"]_gatewayVars

\* Every request the server has taken is answered, except that the end of the
\* process drops it: an error behind an await never leaves it hanging.
EveryCallAnswered ==
    \A r \in Request : pc[r] = "limit" ~> pc[r] \in {"done", "dropped"}

-----------------------------------------------------------------------------
(* The inductive invariant *)

Causes == DOMAIN ApiErrors \cup
          {"none", "SyntaxError", "RedisError", "QueryFailedError", "UniqueViolation"}

GatewayTypeOK ==
    /\ pc \in [Request -> {"idle", "limit", "route", "handle", "done", "dropped"}]
    /\ call \in [Request -> Call \cup {NoCall}]
    /\ answer \in [Request -> [status : Nat, shown : SUBSET Order, cause : Causes]]
    /\ down \in BOOLEAN

\* Only calls of its own that the limiter has passed are routed, and only those
\* that nothing in their chain has thrown at are handled.
Served ==
    \A r \in Request :
        /\ pc[r] \in {"route", "handle"} => call[r] \in CallsOf[r] /\ verdict[r] = "passed"
        /\ pc[r] = "handle" => Chain[call[r]] = "none"

GatewayInv == LimitInv /\ GatewayTypeOK /\ Served
=============================================================================
