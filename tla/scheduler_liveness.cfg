SPECIFICATION FairSpec
CONSTANTS
    Tasks = {t1, t2, t3}
    NoTask = NoTask
    Mortal = {}
    Priorities = {1}
    KillPri = 2
    Quantum = 2
    MaxForbid = 2
    PriChanges = FALSE
PROPERTIES
    ReadyTasksRun
