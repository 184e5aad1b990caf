\* Two documents, signed with either of two certificates, on a host that is not
\* on UTC.
SPECIFICATION Spec
CONSTANTS
    Month = {1, 2}
    Requests <- MCRequests
    Certificate = {"cert1", "cert2"}
    HostOffset = 3
    MaxLength = 3
INVARIANTS SlotsFilled SignedVerifies ChainVerifies QrMatches TimesAgree
    PartsOnce TotalsCohere
CHECK_DEADLOCK FALSE
