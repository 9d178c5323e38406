\* A task, its thread and the thread's thread, with one request that changes hands.
SPECIFICATION FairSpec
CONSTANTS
    a = a
    b = b
    c = c
    q = q
    Tasks = {a, b, c}
    Reqs = {q}
    NoTask = NoTask
    NoReq = NoReq
    Root = a
    Parent <- MCParent
    Creator <- MCCreator
    MayKill <- ByParent
    Orderly = TRUE
    Careful = TRUE
\* Once its threads are gone the root task may have nothing left to do.
CHECK_DEADLOCK FALSE
INVARIANTS
    TypeOK
    NothingOutlivesItsOwner
    SleepersHaveAWaker
PROPERTIES
    TheDoomedDie
