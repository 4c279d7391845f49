\* Two requests over two products, one of them under two spellings, and one
\* operation of an administrator.
SPECIFICATION MCFairSpec
CONSTANTS
    Txn = {t1, t2}
    NoTxn = NoTxn
    r1 = r1
    r2 = r2
    Row = {r1, r2}
    a = a
    b = b
    B = B
    Id <- Ids
    RowOf <- Rows
    Rank <- Ranks
    Carts <- SomeCarts
    Prices = {1, 2}
    MaxInt = 2
    MaxMoney = 3
    MaxAdminOps = 1
INVARIANTS
    TypeOK
    StockConserved
    OrdersMatchCarts
    TruthfulAnswer
PROPERTIES
    RefusedForCause
    PlacesOrdersAtomically
    PublishesAfterCommit
    EveryRequestAnswered
\* Requests and administrators' operations are finitely many: the system
\* stops when all have been served.
CHECK_DEADLOCK FALSE
