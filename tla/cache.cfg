\* One reader and two administrators over one product, two spellings of its id
\* and one list query; any command fails, any entry expires.
SPECIFICATION FairSpec
CONSTANTS
    r1 = r1
    Row = {r1}
    Id = {a, A}
    RowOf <- RowOfId
    Query = {q1}
    Reader = {x1}
    Writer = {w1, w2}
    NoKey = NoKey
    MaxEdits = 1
    MaxSilent = 1
INVARIANTS
    IInv
    StaleEntriesExplained
PROPERTIES
    EventuallyFresh
