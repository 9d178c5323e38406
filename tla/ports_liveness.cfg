\* One request, one I/O request, messages of equal priority, well-behaved sleepers.
SPECIFICATION FairSpec
CONSTANTS
    c = c
    s = s
    thread = thread
    cPort = cPort
    sPort = sPort
    m1 = m1
    ioMsg = ioMsg
    ioReq = ioReq
    Tasks = {c, s}
    Ports = {cPort, sPort}
    Msgs = {m1, ioMsg}
    IOReqs = {ioReq}
    NoItem = NoItem
    Unborn = Unborn
    Gone = Gone
    Idle = Idle
    Done = Done
    Aborted = Aborted
    IOMsg <- MCIOMsg
    Pri <- EqualPri
    Creator <- MCCreator
    Family <- Strangers
    Privileged = {}
    IOPorts = {sPort}
    Transfers = {}
    Polite = TRUE
CHECK_DEADLOCK FALSE
PROPERTIES
    FIFO
    RequestsAnswered
