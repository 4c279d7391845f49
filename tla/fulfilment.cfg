\* One order, its two jobs, three workers that stop up to twice.
SPECIFICATION FairSpec
CONSTANTS
    Order = {o1}
    JobKinds = {"email", "analytics"}
    w1 = w1
    w2 = w2
    w3 = w3
    Worker = {w1, w2, w3}
    KindOf <- Kinds
    NoWorker = NoWorker
    NoJob = NoJob
    MaxAttempts = 2
    MaxStalled = 1
    MaxStops = 2
INVARIANTS
    MissedForCause
    EffectsPaidFor
PROPERTIES
    JobsSettle
\* The system rests when all jobs have settled.
CHECK_DEADLOCK FALSE
