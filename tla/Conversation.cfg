\* Two coroutines, one conversation for messages alone and one open to every
\* operation; liveness is checked too, so no symmetry.
CONSTANTS
    Free = Free
    Task = {t1, t2}
    Key = {user, default}
    DefaultKey = default
    MessageOnly = {default}
    LockFreeOps = {"send", "prompt", "compact", "reset"}
    Threshold = 1
    Keep = 1
    MaxTurns = 2
SPECIFICATION FairSpec
INVARIANTS TypeOK LockDiscipline SerialHistory SavedCopiesAgree Isolation
PROPERTIES ImplementsLog EveryMessageReturns
