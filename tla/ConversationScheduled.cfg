\* A scheduled message overlaps with a turn of the same conversation.
CONSTANTS
    Free = Free
    Task = {t1, t2}
    Key = {user, default}
    DefaultKey = default
    MessageOnly = {default}
    LockFreeOps = {"send"}
    Threshold = 1
    Keep = 1
    MaxTurns = 3
SPECIFICATION Spec
INVARIANT NoTurnLost
SYMMETRY TaskSymmetry
