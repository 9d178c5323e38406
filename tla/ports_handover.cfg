\* The reply port of a pending I/O request is given away.
SPECIFICATION Spec
CONSTANTS
    c = c
    s = s
    thread = thread
    cPort = cPort
    sPort = sPort
    m1 = m1
    ioMsg = ioMsg
    ioReq = ioReq
    Tasks = {c, s}
    Ports = {cPort, sPort}
    Msgs = {m1, ioMsg}
    IOReqs = {ioReq}
    NoItem = NoItem
    Unborn = Unborn
    Gone = Gone
    Idle = Idle
    Done = Done
    Aborted = Aborted
    IOMsg <- MCIOMsg
    Pri <- MCPri
    Creator <- MCCreator
    Family <- Strangers
    Privileged = {}
    IOPorts = {sPort}
    Transfers = {sPort}
    Polite = FALSE
CHECK_DEADLOCK FALSE
INVARIANTS
    EmptyWhenGiven
