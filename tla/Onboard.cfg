\* Two runs that may outlast their locks and an unlock, with and without
\* transactions; an admin keeps trying.
SPECIFICATION FairSpec
CONSTANTS
    Run = {r1, r2}
    Admin = {a1}
    LockTTL = 2
    Backends = {TRUE, FALSE}
INVARIANTS LockExclusive CredentialsMatch
PROPERTIES DeletedFrozen NotWedged
CHECK_DEADLOCK FALSE
