SPECIFICATION FairSpec
CONSTANTS
    Tabs = {t1, t2}
    Users = {u1, u2}
    NoUser = NoUser
    NoToken = NoToken
    MaxSends = 2
    MaxEvents = 2
    First = u1
    MaxFaults = 1
INVARIANTS TypeOK NoFalseAlarm StoreSafety TabSafety
PROPERTY TabsFollow
CHECK_DEADLOCK FALSE
