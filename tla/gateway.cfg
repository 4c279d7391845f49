\* Two callers over every route and bearer; or three requests of one client over
\* a window and a half, clocks one tick off.
SPECIFICATION MCSpec
CONSTANTS
    c1 = c1
    q1 = q1
    q2 = q2
    q3 = q3
    q4 = q4
    q5 = q5
    Request = {q1, q2, q3, q4, q5}
    Client = {c1}
    ClientOf <- OneClient
    Limit = 2
    Window = 4
    Lag = 1
    MaxTime = 6
    admin = admin
    user = user
    nobody = nobody
    o1 = o1
    o2 = o2
    Bearer <- Bearers
    Nobody = nobody
    Order = {o1, o2}
    OrderOwner <- Owners
    k1 = k1
    Key = {k1}
    NoKey = NoKey
    StoredUnder <- Stored
    NoCall = NoCall
    BullBoardOn = TRUE
    CallsOf <- FewCalls
INVARIANTS
    AtMostLimitPerWindow
    LimitedForCause
    AccessExplained
PROPERTIES
    RefusalsExplained
    OrdersShownForCause
    AnswersAsIntended
    EveryCallAnswered
\* Requests are finitely many, and the process may end.
CHECK_DEADLOCK FALSE
