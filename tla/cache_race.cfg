\* Nothing fails and there is one spelling: a read overlaps a write.
SPECIFICATION FaultFreeSpec
CONSTANTS
    r1 = r1
    Row = {r1}
    Id = {a}
    RowOf <- RowOfId
    Query = {q1}
    Reader = {x1}
    Writer = {w1}
    NoKey = NoKey
    MaxEdits = 1
    MaxSilent = 0
INVARIANTS
    NeverStale
