SPECIFICATION Spec
CONSTANTS
    Requests = {r1, r2, r3, r4}
    NoRequest = NoRequest
    Codes = {c1, c2}
    Totp = Totp
SYMMETRY Symmetry
INVARIANTS EnrolmentSafety RaceSafety
PROPERTY SpentStaysSpent
CHECK_DEADLOCK FALSE
