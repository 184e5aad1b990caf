\* Three requests, with one key or none, whose work is shorter than the window.
SPECIFICATION Spec
CONSTANTS
    Request = {r1, r2, r3}
    Key = {k1}
    NoKey = NoKey
    TTL = 2
    MaxWork = 1
    MaxTime = 3
SYMMETRY RouteSymmetry
INVARIANTS ExclusiveExecution DuplicateExplained
CHECK_DEADLOCK FALSE
