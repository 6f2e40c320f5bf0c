\* Two PUTs, one of which may die, beside the trash and the bulk operations.
SPECIFICATION Spec
CONSTANTS
    Tasks = {t1, t2, t3}
    Requests = {r1, r2}
    NoTask = NoTask
    Bodies <- MCBodies
    MaxCreates = 1
    MaxUpdates = 4
    MaxFailures = 1
SYMMETRY Symmetry
INVARIANT SpawnSafety
PROPERTY TrashIsFrozen
CHECK_DEADLOCK FALSE
