\* Item indices are as small as slot numbers: a task has a large table.
SPECIFICATION Spec
CONSTANTS
    Tasks = {t1, t2}
    NoTask = NoTask
    Blocks <- AmongSlots
    BootBlocks = 1
    Gens = 2
    Grow = 2
    MaxSlots = 3
    Nil = Nil
    MaxCalls = 1
    OpensTwice = FALSE
    WrapInCalls = FALSE
SYMMETRY TaskSymmetry
\* The last task may exit.
CHECK_DEADLOCK FALSE
INVARIANTS
    ChainsHoldTheFreeSlots
