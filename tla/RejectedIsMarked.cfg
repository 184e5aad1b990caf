SPECIFICATION FairSpec
CONSTANTS
    Request = {r1, r2}
    Key = {k1}
    NoKey = NoKey
    TTL = 2
    MaxWork = 1
    MaxTime = 3
INVARIANT RejectedIsMarked
CHECK_DEADLOCK FALSE
