SPECIFICATION FairSpec
CONSTANTS
    Tasks = {t1, t2, t3}
    NoTask = NoTask
    MaxNest = 2
    Disciplined = TRUE
INVARIANTS
    HoldersDoNotWait
PROPERTIES
    WaitersAreServed
