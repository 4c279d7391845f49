\* Two requests that lock two rows in opposite orders.
SPECIFICATION MCSpec
CONSTANTS
    Txn = {t1, t2}
    NoTxn = NoTxn
    r1 = r1
    r2 = r2
    Row = {r1, r2}
    a = a
    b = b
    B = B
    Id <- Ids
    RowOf <- Rows
    Rank <- Ranks
    Carts <- UnitCarts
    Prices = {1}
    MaxInt = 1
    MaxMoney = 4
    MaxAdminOps = 0
INVARIANTS
    NoDeadlock
\* Requests and administrators' operations are finitely many: the system
\* stops when all have been served.
CHECK_DEADLOCK FALSE
