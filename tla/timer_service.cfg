\* Two requests and a periodic timer of another driver.  The decrementer is two
\* bits wide, so that 3 needs its top bit and 4 has to be loaded in parts.
SPECIFICATION FairSpec
CONSTANTS
    r1 = r1
    r2 = r2
    utimer = utimer
    hostTimer = hostTimer
    NoTimer = NoTimer
    Timers = {utimer, hostTimer}
    Periodic = {hostTimer}
    Period = 2
    DecMax = 1
    Delays = {1, 4}
    ClockSets = {4}
    MaxTime = 4
    Requests = {r1, r2}
    Uses <- TwoClients
    Targets = {3}
    VblRange = 3
    VblCounts = {2}
    Recycled = FALSE
    SetsLate = FALSE
CHECK_DEADLOCK FALSE
PROPERTIES
    DelaysEnd
INVARIANTS
    TypeOK
    NothingOverdue
    MetronomeKeepsCount
    WaitsInOneQueue
