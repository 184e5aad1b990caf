\* One tenant, three overlapping calls of two chained kinds and a Phase 1
\* kind, one host-supplied id, status updates, one month rollover.
SPECIFICATION Spec
CONSTANTS
    Scope = {s1}
    Phase2Kind = {"simplified-tax-invoice", "standard-credit-note"}
    Phase1Kind = {"phase1-invoice"}
    Call = {c1, c2, c3}
    SuppliedId = {order7}
    Status = {"pending", "accepted"}
    BaseHash = BaseHash
    MaxMonth = 1
SYMMETRY CallSymmetry
INVARIANTS TypeOK SerialsUnique LinkIsSnapshot ForkNeedsOverlap DoneIsRecorded
PROPERTY RecordsImmutable
CHECK_DEADLOCK FALSE
