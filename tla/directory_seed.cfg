\* A first start, one call, and a second start; nothing fails, nothing overlaps.
SPECIFICATION FirstStart
CONSTANTS
    n1 = n1
    n2 = n2
    Id = {i1, i2, i3}
    Name = {n1, n2}
    Value = {0, 1}
    Request = {r1}
    Seed = {s1, s2}
    Patches <- AFewPatches
    Ensured <- UserThenCategory
    NoRow = NoRow
    NoCall = NoCall
    Before = Before
    SeedsOverlap = FALSE
    Failures = FALSE
SYMMETRY Symmetry
INVARIANT
    SafeToRunRepeatedly
CHECK_DEADLOCK FALSE
