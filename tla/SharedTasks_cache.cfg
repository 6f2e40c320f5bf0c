\* Two requests at a time on a task, its shares and the owner's statistics.
SPECIFICATION FairSpec
CONSTANTS
    Requests = {r1, r2}
    Members = {m1}
    Owner = Owner
    MaxChanges = 3
    MaxFailures = 1
INVARIANTS AccessIsCurrent TrailAccounts AcknowledgedWritesShow
PROPERTY CacheConverges
CHECK_DEADLOCK FALSE
