SPECIFICATION Spec
CONSTANTS
    Month = {1, 2}
    Requests <- MCRequests
    Certificate = {"cert1"}
    HostOffset = 3
    MaxLength = 3
INVARIANT IcvRises
CHECK_DEADLOCK FALSE
