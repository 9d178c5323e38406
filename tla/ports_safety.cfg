\* A client, its thread and a server; interrupts that reply the server's I/O message at
\* any time; a port and a message that change their owner.
SPECIFICATION Spec
CONSTANTS
    c = c
    s = s
    thread = thread
    cPort = cPort
    sPort = sPort
    m1 = m1
    ioMsg = ioMsg
    ioReq = ioReq
    Tasks = {c, s, thread}
    Ports = {cPort, sPort}
    Msgs = {m1, ioMsg}
    IOReqs = {ioReq}
    NoItem = NoItem
    Unborn = Unborn
    Gone = Gone
    Idle = Idle
    Done = Done
    Aborted = Aborted
    IOMsg <- MCIOMsg
    Pri <- MCPri
    Creator <- MCCreator
    Family <- Threads
    Privileged = {}
    IOPorts = {sPort}
    Transfers = {cPort, m1}
    Polite = FALSE
CHECK_DEADLOCK FALSE
INVARIANTS
    TypeOK
    MessageInOnePlace
    QueueInOrder
    NoSleepBesideMail
    WaitResultIsHeld
    SleepersWaitForLiveItem
    DeadRepliedAll
