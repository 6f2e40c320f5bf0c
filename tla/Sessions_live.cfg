\* Two accounts, no failures: what a handler owes is done, to its own account.
SPECIFICATION FairSpec
CONSTANTS
    Users = {u1, u2}
    Tokens = {t1, t2}
    Requests = {r1, r2}
    NoUser = NoUser
    NoToken = NoToken
    MaxPwd = 1
    MaxFailures = 0
PROPERTIES RevocationsHappen SessionsEndPerUser
CHECK_DEADLOCK FALSE
