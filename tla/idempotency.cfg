\* Three submissions with one key and one without: all interleavings, any
\* failure of Redis or the operation, expiry.
SPECIFICATION FairSpec
CONSTANTS
    a1 = a1
    a2 = a2
    a3 = a3
    a4 = a4
    k1 = k1
    Attempt = {a1, a2, a3, a4}
    Key = {k1}
    NoKey = NoKey
    NoAttempt = NoAttempt
    KeyOf <- KeyOfAttempt
INVARIANTS
    IInv
    OneAtATime
    SuccessIsRemembered
    TwiceOnlyAfterFailure
PROPERTIES
    ReservationsEnd
\* Submissions are finitely many: the system
\* stops when all have been served.
CHECK_DEADLOCK FALSE
