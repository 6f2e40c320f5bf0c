\* Two handlers, one of which may die half-way, and two password changes.
SPECIFICATION Spec
CONSTANTS
    Users = {u1}
    Tokens = {t1, t2, t3}
    Requests = {r1, r2}
    NoUser = NoUser
    NoToken = NoToken
    MaxPwd = 2
    MaxFailures = 1
SYMMETRY Symmetry
INVARIANTS RotationSafety SweptSessionsAreCurrent
PROPERTIES RevokedForGood RotatesOrRefuses
CHECK_DEADLOCK FALSE
