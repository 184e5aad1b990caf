\* Two runs of one tenant, with the same OTP or not; two scenarios; one of the
\* runs retries once.
SPECIFICATION Spec
CONSTANTS
    R1 = R1
    R2 = R2
    Caller = {R1, R2}
    Generator = {R1, R2}
    NoCsr = NoCsr
    Retries <- MCRetries
    Otp = {o1, o2}
    Scenarios <- MCScenarios
    NoError = NoError
INVARIANTS BundleCoherent CsidAfterPass ReissueNeedsLoss ProgressFaithful
CHECK_DEADLOCK FALSE
