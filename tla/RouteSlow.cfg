\* Requests that may outlast their window, so that slots change hands under
\* them; every slot settles.
SPECIFICATION FairSpec
CONSTANTS
    Request = {r1, r2}
    Key = {k1}
    NoKey = NoKey
    TTL = 1
    MaxWork = 2
    MaxTime = 3
INVARIANTS InFlightOwned ReplayFaithful
PROPERTY SlotSettles
CHECK_DEADLOCK FALSE
