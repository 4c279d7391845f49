\* Three requests of any kind over up to three tokens of one user and one of
\* another; any statement fails, any token expires, users are removed.
SPECIFICATION Spec
CONSTANTS
    u1 = u1
    u2 = u2
    t1 = t1
    t2 = t2
    t3 = t3
    t4 = t4
    User = {u1, u2}
    Token = {t1, t2, t3, t4}
    Request = {p1, p2, p3}
    OwnerOf <- OwnerOfToken
    NoUser = NoUser
    NoToken = NoToken
    NoRequest = NoRequest
SYMMETRY Alike
CHECK_DEADLOCK FALSE
INVARIANTS
    IInv
    SweptForReuse
    ExchangedIsRevoked
PROPERTIES
    RevokedForGood
    RemovedForGood
