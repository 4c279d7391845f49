\* A failure after COMMIT frees the key: the retry places a second order.
SPECIFICATION MCSpec
CONSTANTS
    Txn = {t1, t2}
    NoTxn = NoTxn
    r1 = r1
    Row = {r1}
    a = a
    Id = {a}
    RowOf <- RowOfA
    Rank <- RankA
    Carts <- CartsA
    Prices = {1}
    MaxInt = 2
    MaxMoney = 4
    MaxAdminOps = 1
    k1 = k1
    Key = {k1}
    NoKey = NoKey
    KeyOf <- AllDuplicates
INVARIANTS
    OneOrderPerKey
\* Requests and administrators' operations are finitely many: the system
\* stops when all have been served.
CHECK_DEADLOCK FALSE
