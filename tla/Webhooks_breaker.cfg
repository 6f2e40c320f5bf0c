\* Two workers, the owner and a fault on one hook.
SPECIFICATION FairSpec
CONSTANTS
    Hooks = {h1}
    Jobs = {j1, j2}
    Workers = {w1, w2}
    Emitters = {e1}
    NoHook = NoHook
    NoJob = NoJob
    Max = 3
    Tries = 2
    MaxUpdates = 2
    MaxFailures = 1
INVARIANTS BreakerSafety NeverOvercounts
PROPERTY BreakerTrips
CHECK_DEADLOCK FALSE
