SPECIFICATION Spec
CONSTANTS
    Tasks = {op, t1, t2}
    NoTask = NoTask
    Mortal = {t1, t2}
    Priorities = {1, 2}
    KillPri = 3
    Quantum = 2
    MaxForbid = 2
    PriChanges = TRUE
SYMMETRY TaskSymmetry
INVARIANTS
    TypeOK
    ReadyQueueExact
    ReadyQueueSorted
    HighestPriorityRuns
    EqualsAreTimed
    NoIdleWithWork
    SchedulerInv
