\* Three attempts with one key or none, one of which may die; the TTL index.
SPECIFICATION FairSpec
CONSTANTS
    Attempts = {a1, a2, a3}
    Keys = {k1}
    NoKey = NoKey
    NoAttempt = NoAttempt
    MaxRows = 2
    MaxFailures = 1
INVARIANT KeySafety
PROPERTIES KeepsPromise KeyIsReleased
CHECK_DEADLOCK FALSE
