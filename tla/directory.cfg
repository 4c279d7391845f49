\* Two calls of any kind beside one seed, on tables with any past.
SPECIFICATION MCSpec
CONSTANTS
    n1 = n1
    n2 = n2
    Id = {i1, i2, i3}
    Name = {n1, n2}
    Value = {0, 1}
    Request = {r1, r2}
    Seed = {s1}
    Patches <- AFewPatches
    Ensured <- UserThenCategory
    NoRow = NoRow
    NoCall = NoCall
    Before = Before
    SeedsOverlap = FALSE
    Failures = TRUE
SYMMETRY Symmetry
INVARIANTS
    OneHolder
    AnswersHold
    NoLostUpdate
PROPERTIES
    RefusedForCause
    DeletedForGood
    SeedStopsForCause
\* Calls are finitely many, and so are uuids.
CHECK_DEADLOCK FALSE
