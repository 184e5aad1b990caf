\* Two calls for two ids on Postgres, interleaved query by query and called
\* again after errors and lost answers.
SPECIFICATION Spec
CONSTANTS
    Call = {c1, c2}
    Id = {i1, i2}
    Doc = {d1, d2}
    Status = {"pending", "accepted"}
    NoDoc = NoDoc
    SortsById = TRUE
    MaxClock = 2
INVARIANTS AckedIsStored HeadLagsByOverlap
PROPERTY AtomicRecord
CHECK_DEADLOCK FALSE
