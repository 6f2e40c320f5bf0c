SPECIFICATION FairBoard
CONSTANTS
    Items = {1, 2, 3}
    Existing = {1, 2}
    Mutations = {1, 2}
    Limit = 1
    MaxPage = 3
    NoPage = NoPage
    MaxMoves = 2
INVARIANTS BoardTypeOK ScreenIsTrue
PROPERTY PageArrives
CHECK_DEADLOCK FALSE
