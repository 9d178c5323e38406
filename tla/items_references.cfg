\* Two tasks, two item entries and three generations, so that numbers come round; item
\* indices are larger than slot numbers, nobody keeps two numbers of an index open, and
\* no last generation ends during an open or close of its item.
SPECIFICATION Spec
CONSTANTS
    Tasks = {t1, t2}
    NoTask = NoTask
    Blocks <- AboveSlots
    BootBlocks = 1
    Gens = 3
    Grow = 1
    MaxSlots = 2
    Nil = Nil
    MaxCalls = 2
    OpensTwice = FALSE
    WrapInCalls = FALSE
SYMMETRY TaskSymmetry
\* The last task may exit.
CHECK_DEADLOCK FALSE
INVARIANTS
    TypeOK
    ReferencesAreSound
