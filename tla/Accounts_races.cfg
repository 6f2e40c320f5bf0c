\* An administrator and another account, two requests at a time.
SPECIFICATION Spec
CONSTANTS
    Users = {u1, u2}
    Admins = {u1}
    Emails = {e1, e2, e3}
    NoUser = NoUser
    NoEmail = NoEmail
    Requests = {r1, r2}
    MaxChanges = 4
    MaxFailures = 1
SYMMETRY Symmetry
INVARIANTS TypeOK VerifiedWasMailed AdminRemains FeedUrlSafety
CHECK_DEADLOCK FALSE
