\* Four tasks, so that a batch of shared waiters can have two followers while
\* a fourth task waits behind them; callers may break the relock rule.
SPECIFICATION Spec
CONSTANTS
    Tasks = {t1, t2, t3, t4}
    NoTask = NoTask
    MaxNest = 2
    Disciplined = FALSE
SYMMETRY TaskSymmetry
INVARIANTS
    TypeOK
    MutualExclusion
    LockAccounting
    SleepersAreQueued
    GrantIsReal
    DeadHoldNothing
    SemaphoreInv
PROPERTIES
    NoOvertaking
    CountsSurviveHandover
    ImplementsRWLock
