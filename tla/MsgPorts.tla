------------------------------- MODULE MsgPorts -------------------------------
(***************************************************************************)
(* Messages and message ports (kernel/ports.c), with the message-based     *)
(* I/O requests (io.c) whose completion replies messages from interrupt    *)
(* code, and the death of tasks (task.c).                                  *)
(*                                                                         *)
(* A system call runs without other tasks in between until it sleeps, but  *)
(* interrupts come in wherever they are not disabled.  A call that changes *)
(* messages in more than one disabled section is split into steps, and     *)
(* `call' says where it is; only CompleteIO comes between the steps.       *)
(***************************************************************************)
EXTENDS Lists

CONSTANTS
    Tasks, Ports, Msgs, IOReqs,
    NoItem,          \* item number 0
    Unborn, Gone,    \* owners of items not yet created and of deleted ones
    Idle, Done, Aborted, \* t_WaitItem: -1, an io_Error, ABORTED
    IOMsg,           \* io_MsgItem: the message of a request
    Pri,             \* the priority a message is created with
    Creator,         \* the task that creates a port, message or request
    Family,          \* t_PagePool: threads share their parent's
    Privileged,      \* tasks for which IsPriv holds
    IOPorts,         \* ports that I/O requests are created with
    Transfers,       \* ports and messages that change owner
    Polite           \* callers sleep only as a well-behaved program does

Items   == Ports \cup Msgs \cup IOReqs
IOMsgs  == {IOMsg[r] : r \in IOReqs}
Results == {Idle, Done, Aborted}

ASSUME MsgPortsAssumption ==
    /\ Tasks \cap Items = {}
    /\ Ports \cap Msgs = {} /\ Ports \cap IOReqs = {} /\ Msgs \cap IOReqs = {}
    /\ {NoItem, Unborn, Gone} \cap (Tasks \cup Items \cup Results) = {}
    /\ Results \cap (Tasks \cup Items) = {}
    /\ Unborn # Gone /\ Unborn # NoItem /\ Gone # NoItem
    /\ Idle # Done /\ Idle # Aborted /\ Done # Aborted
    /\ IOMsg \in [IOReqs -> Msgs]
    /\ \A r, s \in IOReqs : IOMsg[r] = IOMsg[s] => r = s
    /\ Pri \in [Msgs -> Nat]
    /\ Creator \in [Items -> Tasks]
    /\ \A r \in IOReqs : Creator[IOMsg[r]] = Creator[r]
    /\ Family \in [Tasks -> Tasks]
    /\ Privileged \subseteq Tasks
    /\ IOPorts \subseteq Ports
    /\ Transfers \subseteq Ports \cup Msgs /\ Polite \in BOOLEAN

VARIABLES
    portOwner,   \* mp.n_Owner
    queue,       \* mp_Msgs
    msgOwner,    \* msg.n_Owner
    replyPort,   \* msg_ReplyPort
    holder,      \* msg_Holder
    flag,        \* n_Flags of a message: which of SENT, REPLIED is set
    held,        \* t_MessagesHeld
    waitItem,    \* t_WaitItem
    waitPort,    \* the `port' argument of a WaitPort that sleeps
    asleep,      \* the task sleeps (TASK_WAITING)
    life,        \* "running", "killed", "dying" (in internalKill) or "dead"
    reqOwner,    \* io.n_Owner
    busy,        \* the request is with the device (IO_DONE is clear)
    call         \* the system call that is between two of its steps

msgVars  == <<msgOwner, replyPort, holder, flag>>
listVars == <<queue, held>>
waitVars == <<waitItem, waitPort, asleep>>
ioVars   == <<reqOwner, busy>>
vars     == <<portOwner, msgVars, listVars, waitVars, ioVars, life, call>>

NoCall == [op |-> "none", by |-> NoItem, port |-> NoItem, msg |-> NoItem]

TypeOK ==
    /\ portOwner \in [Ports -> Tasks \cup {Unborn, Gone}]
    /\ queue \in [Ports -> Seq(Msgs)]
    /\ msgOwner \in [Msgs -> Tasks \cup {Unborn, Gone}]
    /\ replyPort \in [Msgs -> Ports \cup {NoItem}]
    /\ holder \in [Msgs -> Tasks \cup Ports \cup {NoItem}]
    /\ flag \in [Msgs -> {"none", "sent", "replied"}]
    /\ held \in [Tasks -> SUBSET Msgs]
    /\ waitItem \in [Tasks -> Items \cup Results]
    /\ waitPort \in [Tasks -> Ports \cup {NoItem}]
    /\ asleep \in [Tasks -> BOOLEAN]
    /\ life \in [Tasks -> {"running", "killed", "dying", "dead"}]
    /\ reqOwner \in [IOReqs -> Tasks \cup {Unborn, Gone}]
    /\ busy \in [IOReqs -> BOOLEAN]
    /\ call \in [op : {"none", "get", "bounce", "drain", "delete", "give"},
                 by : Tasks \cup {NoItem}, port : Ports \cup {NoItem},
                 msg : Msgs \cup Tasks \cup {NoItem}]

Init ==
    /\ portOwner = [p \in Ports |-> Unborn]
    /\ queue = [p \in Ports |-> << >>]
    /\ msgOwner = [m \in Msgs |-> Unborn]
    /\ replyPort = [m \in Msgs |-> NoItem]
    /\ holder = [m \in Msgs |-> NoItem]
    /\ flag = [m \in Msgs |-> "none"]
    /\ held = [t \in Tasks |-> {}]
    /\ waitItem = [t \in Tasks |-> Idle]
    /\ waitPort = [t \in Tasks |-> NoItem]
    /\ asleep = [t \in Tasks |-> FALSE]
    /\ life = [t \in Tasks |-> "running"]
    /\ reqOwner = [r \in IOReqs |-> Unborn]
    /\ busy = [r \in IOReqs |-> FALSE]
    /\ call = NoCall

-----------------------------------------------------------------------------
(* Who may do what.                                                        *)

\* Task t can enter a system call: it runs user code and nobody is inside one.
User(t) ==
    /\ life[t] = "running" /\ waitItem[t] = Idle
    /\ call = NoCall
    /\ \A u \in Tasks : life[u] # "dying"

\* Task t is at the top of a loop in internalKill.
Dying(t) == life[t] = "dying" /\ call = NoCall

EnoughPriv(t, owner) == t = owner \/ t \in Privileged

IsSameTaskFamily(t, u) == Family[t] = Family[u]

\* The test of SendMsg and ReplyMsg: t, or a task of its family, holds m.
MayPass(t, m) ==
    /\ holder[m] \in Tasks /\ life[holder[m]] # "dead"
    /\ IsSameTaskFamily(t, holder[m])

\* ITEMNODE_DELETED is set while internalDeleteMsgPort runs.
Closing(p) == call.op \in {"get", "bounce", "drain"} /\ call.port = p

\* What internalReplyMsg and internalDeliverMsg need to deliver a reply.
CanReply(m) ==
    /\ replyPort[m] \in Ports
    /\ portOwner[replyPort[m]] \in Tasks
    /\ ~Closing(replyPort[m])
    /\ flag[m] = "none"

\* The messages of I/O requests belong to the I/O system: programs do not send,
\* reply, delete or give them away themselves.
ByHand(m) == m \notin IOMsgs

-----------------------------------------------------------------------------
(* Delivery.                                                               *)

\* The queues and the lists of held messages without m (REMOVENODE).
Unqueued(m) == [p \in Ports |-> WithoutNode(queue[p], m)]
Unheld(m)   == [t \in Tasks |-> held[t] \ {m}]

\* Mutant of HandOver: WaitPort is given the receiver's item as its result.
HandOver_WrongItem(t, m) ==
    /\ queue' = Unqueued(m)
    /\ held' = [Unheld(m) EXCEPT ![t] = @ \cup {m}]
    /\ holder' = [holder EXCEPT ![m] = t]
    /\ waitItem' = [waitItem EXCEPT ![t] = t]
    /\ asleep' = [asleep EXCEPT ![t] = FALSE]
    /\ UNCHANGED flag

\* The owner t of the port waits for this message: it gets it and wakes up.
HandOver(t, m) ==
    /\ queue' = Unqueued(m)
    /\ held' = [Unheld(m) EXCEPT ![t] = @ \cup {m}]
    /\ holder' = [holder EXCEPT ![m] = t]
    /\ waitItem' = [waitItem EXCEPT ![t] = m]
    /\ asleep' = [asleep EXCEPT ![t] = FALSE]
    /\ UNCHANGED flag

\* Mutant of Enqueue: the message is put at the tail (ADDTAIL).
Enqueue_AtTail(p, m, how) ==
    /\ queue' = [Unqueued(m) EXCEPT ![p] = Append(@, m)]
    /\ held' = Unheld(m)
    /\ holder' = [holder EXCEPT ![m] = p]
    /\ flag' = [flag EXCEPT ![m] = how]
    /\ UNCHANGED <<waitItem, asleep>>

\* Mutant of Enqueue: InsertNodeFromHead in place of InsertNodeFromTail.
Enqueue_FromHead(p, m, how) ==
    /\ \E k \in 0 .. Len(Unqueued(m)[p]) :
          /\ FromHead(Pri, Unqueued(m)[p], m, k)
          /\ queue' = [Unqueued(m) EXCEPT ![p] = InsertAfter(@, k, m)]
    /\ held' = Unheld(m)
    /\ holder' = [holder EXCEPT ![m] = p]
    /\ flag' = [flag EXCEPT ![m] = how]
    /\ UNCHANGED <<waitItem, asleep>>

\* The message joins the port's queue; the signal to the owner is left out.
Enqueue(p, m, how) ==
    /\ \E k \in 0 .. Len(Unqueued(m)[p]) :
          /\ FromTail(Pri, Unqueued(m)[p], m, k)
          /\ queue' = [Unqueued(m) EXCEPT ![p] = InsertAfter(@, k, m)]
    /\ held' = Unheld(m)
    /\ holder' = [holder EXCEPT ![m] = p]
    /\ flag' = [flag EXCEPT ![m] = how]
    /\ UNCHANGED <<waitItem, asleep>>

\* Mutant of Deliver: only a wait for any message counts.
Deliver_PortOnly(p, m, how) ==
    IF waitItem[portOwner[p]] = p THEN HandOver(portOwner[p], m)
                                  ELSE Enqueue(p, m, how)

\* The disabled section of internalDeliverMsg.
Deliver(p, m, how) ==
    IF waitItem[portOwner[p]] \in {p, m} THEN HandOver(portOwner[p], m)
                                         ELSE Enqueue(p, m, how)

\* Without a reply port the message changes hands for good (internalSetMsgOwner).
SendMsg(t, p, m) ==
    /\ User(t) /\ ByHand(m)
    /\ portOwner[p] \in Tasks /\ msgOwner[m] \in Tasks
    /\ MayPass(t, m)
    /\ flag[m] = "none"
    /\ \/ replyPort[m] # NoItem /\ UNCHANGED msgOwner
       \/ /\ replyPort[m] = NoItem
          /\ EnoughPriv(t, msgOwner[m]) /\ holder[m] = t
          /\ msgOwner' = [msgOwner EXCEPT ![m] = portOwner[p]]
    /\ Deliver(p, m, "sent")
    /\ UNCHANGED <<portOwner, replyPort, waitPort, ioVars, life, call>>

ReplyMsg(t, m) ==
    /\ User(t) /\ ByHand(m)
    /\ msgOwner[m] \in Tasks
    /\ MayPass(t, m) /\ CanReply(m)
    /\ Deliver(replyPort[m], m, "replied")
    /\ UNCHANGED <<portOwner, msgOwner, replyPort, waitPort, ioVars, life, call>>

-----------------------------------------------------------------------------
(* Getting messages.                                                       *)

\* The disabled section of internalGetMsg and internalGetThisMsg; the holder is
\* written after it.  `port' is the port internalDeleteMsgPort empties, if any.
Take(t, m, port) ==
    /\ queue' = Unqueued(m)
    /\ held' = [Unheld(m) EXCEPT ![t] = @ \cup {m}]
    /\ flag' = [flag EXCEPT ![m] = "none"]
    /\ call' = [op |-> "get", by |-> t, port |-> port, msg |-> m]
    /\ UNCHANGED <<portOwner, msgOwner, replyPort, holder, waitVars, ioVars, life>>

\* Also the end of a WaitPort for any message that finds one.
GetMsg(t, p) ==
    /\ User(t) /\ portOwner[p] = t
    /\ queue[p] # << >>
    /\ Take(t, Head(queue[p]), NoItem)

\* Also the end of a WaitPort for a message that is on the port.
GetThisMsg(t, m) ==
    /\ User(t) /\ msgOwner[m] \in Tasks
    /\ holder[m] \in Ports /\ portOwner[holder[m]] \in Tasks
    /\ \/ IsSameTaskFamily(t, msgOwner[m])
       \/ IsSameTaskFamily(t, portOwner[holder[m]])
    /\ Take(t, m, NoItem)

GetDone ==
    /\ call.op = "get"
    /\ holder' = [holder EXCEPT ![call.msg] = call.by]
    /\ call' = IF call.port = NoItem THEN NoCall ELSE [call EXCEPT !.op = "bounce"]
    /\ UNCHANGED <<portOwner, msgOwner, replyPort, flag, listVars, waitVars, ioVars,
                   life>>

-----------------------------------------------------------------------------
(* Waiting.                                                                *)

\* A well-behaved program does not sleep with another task's request in hand.
Unburdened(t) == \A m \in held[t] : msgOwner[m] = t

Sleep(t, item, port) ==
    /\ Polite => Unburdened(t)
    /\ waitItem' = [waitItem EXCEPT ![t] = item]
    /\ waitPort' = [waitPort EXCEPT ![t] = port]
    /\ asleep' = [asleep EXCEPT ![t] = TRUE]
    /\ UNCHANGED <<portOwner, msgVars, listVars, ioVars, life, call>>

\* Mutant of WaitPortForMsg: the message may be on the port already.
WaitPortForMsg_NoTest(t, p, m) ==
    /\ User(t) /\ portOwner[p] = t /\ msgOwner[m] \in Tasks
    /\ Polite => msgOwner[m] = t /\ replyPort[m] = p /\ holder[m] # t
    /\ Sleep(t, m, p)

\* internalWaitPort for a message that is not on the port.  A well-behaved
\* program waits for a request it has sent, on the port for its reply.
WaitPortForMsg(t, p, m) ==
    /\ User(t) /\ portOwner[p] = t /\ msgOwner[m] \in Tasks
    /\ holder[m] # p
    /\ Polite => msgOwner[m] = t /\ replyPort[m] = p /\ holder[m] # t
    /\ Sleep(t, m, p)

\* internalWaitPort for any message, on an empty port.
WaitPortForAny(t, p) ==
    /\ User(t) /\ portOwner[p] = t
    /\ queue[p] = << >>
    /\ Sleep(t, p, p)

\* internalWaitIO for a request in progress.
WaitIO(t, r) ==
    /\ User(t) /\ reqOwner[r] = t
    /\ busy[r]
    /\ Sleep(t, r, NoItem)

\* WaitPort and WaitIO return after the sleep.  (A killed task dies instead.)
WaitReturn(t) ==
    /\ life[t] = "running" /\ waitItem[t] # Idle /\ ~asleep[t]
    /\ call = NoCall /\ \A u \in Tasks : life[u] # "dying"
    /\ waitItem' = [waitItem EXCEPT ![t] = Idle]
    /\ waitPort' = [waitPort EXCEPT ![t] = NoItem]
    /\ UNCHANGED <<portOwner, msgVars, listVars, asleep, ioVars, life, call>>

-----------------------------------------------------------------------------
(* Creating and deleting.                                                  *)

CreateMsgPort(t, p) ==
    /\ User(t) /\ portOwner[p] = Unborn /\ Creator[p] = t
    /\ portOwner' = [portOwner EXCEPT ![p] = t]
    /\ UNCHANGED <<msgVars, listVars, waitVars, ioVars, life, call>>

\* The creator holds the message; the reply port may be any live port, or none.
NewMsg(t, m, port) ==
    /\ msgOwner[m] = Unborn /\ Creator[m] = t
    /\ port \in Ports => portOwner[port] \in Tasks
    /\ msgOwner' = [msgOwner EXCEPT ![m] = t]
    /\ replyPort' = [replyPort EXCEPT ![m] = port]
    /\ holder' = [holder EXCEPT ![m] = t]
    /\ held' = [held EXCEPT ![t] = @ \cup {m}]

CreateMsg(t, m, port) ==
    /\ User(t) /\ m \notin IOMsgs
    /\ NewMsg(t, m, port)
    /\ UNCHANGED <<portOwner, flag, queue, waitVars, ioVars, life, call>>

\* A request created with CREATEIOREQ_TAG_REPLYPORT brings its message along.  The
\* port is the creator's own, which the code asks for and does not test.
CreateIOReq(t, r, port) ==
    /\ User(t) /\ reqOwner[r] = Unborn
    /\ port \in IOPorts /\ portOwner[port] = t
    /\ NewMsg(t, IOMsg[r], port)
    /\ reqOwner' = [reqOwner EXCEPT ![r] = t]
    /\ UNCHANGED <<portOwner, flag, queue, waitVars, busy, life, call>>

\* internalDeleteMsg takes the message off its list and marks it; then, with
\* interrupts enabled, it looks for tasks that wait for it.
DeleteMsg(t, m) ==
    /\ EnoughPriv(t, msgOwner[m]) /\ msgOwner[m] \in Tasks
    /\ queue' = Unqueued(m) /\ held' = Unheld(m)
    /\ flag' = [flag EXCEPT ![m] = "sent"]
    /\ call' = [op |-> "delete", by |-> t, port |-> NoItem, msg |-> m]
    /\ UNCHANGED <<portOwner, msgOwner, replyPort, holder, waitVars, busy, life>>

\* Mutant of DeleteMsgDone: the tasks that wait for the message sleep on.
DeleteMsgDone_NoWake ==
    /\ call.op = "delete"
    /\ msgOwner' = [msgOwner EXCEPT ![call.msg] = Gone]
    /\ call' = NoCall
    /\ UNCHANGED <<portOwner, replyPort, holder, flag, listVars, waitVars, ioVars,
                   life>>

\* Mutant of DeleteMsgDone: only tasks that still sleep are looked at.
DeleteMsgDone_SleepersOnly ==
    /\ call.op = "delete"
    /\ waitItem' = [t \in Tasks |-> IF asleep[t] /\ waitItem[t] = call.msg THEN Aborted
                                    ELSE waitItem[t]]
    /\ asleep' = [t \in Tasks |-> asleep[t] /\ waitItem[t] # call.msg]
    /\ msgOwner' = [msgOwner EXCEPT ![call.msg] = Gone]
    /\ call' = NoCall
    /\ UNCHANGED <<portOwner, replyPort, holder, flag, listVars, waitPort, ioVars,
                   life>>

\* The waiters are told, and realDeleteItem frees the item.
DeleteMsgDone ==
    /\ call.op = "delete"
    /\ waitItem' = [t \in Tasks |-> IF waitItem[t] = call.msg THEN Aborted
                                    ELSE waitItem[t]]
    /\ asleep' = [t \in Tasks |-> asleep[t] /\ waitItem[t] # call.msg]
    /\ msgOwner' = [msgOwner EXCEPT ![call.msg] = Gone]
    /\ call' = NoCall
    /\ UNCHANGED <<portOwner, replyPort, holder, flag, listVars, waitPort, ioVars,
                   life>>

\* internalDeleteIOReq, once the request is back from the device.
DeleteIOReq(t, r) ==
    /\ reqOwner[r] = t /\ ~busy[r]
    /\ reqOwner' = [reqOwner EXCEPT ![r] = Gone]
    /\ DeleteMsg(t, IOMsg[r])

\* realDeleteItem sets ITEMNODE_DELETED and calls internalDeleteMsgPort.
DeleteMsgPort(t, p) ==
    /\ portOwner[p] \in Tasks /\ EnoughPriv(t, portOwner[p])
    /\ call' = [op |-> "drain", by |-> t, port |-> p, msg |-> NoItem]
    /\ UNCHANGED <<portOwner, msgVars, listVars, waitVars, ioVars, life>>

\* One turn of its loop: internalGetMsg ...
Drain ==
    /\ call.op = "drain"
    /\ queue[call.port] # << >>
    /\ Take(call.by, Head(queue[call.port]), call.port)

\* ... and, for the messages of other tasks, internalReplyMsg.
ReturnToSender(m, p) == msgOwner[m] # portOwner[p] /\ CanReply(m)

Bounce ==
    /\ call.op = "bounce"
    /\ call' = [call EXCEPT !.op = "drain", !.msg = NoItem]
    /\ IF ReturnToSender(call.msg, call.port)
       THEN Deliver(replyPort[call.msg], call.msg, "replied")
       ELSE UNCHANGED <<holder, flag, listVars, waitItem, asleep>>
    /\ UNCHANGED <<portOwner, msgOwner, replyPort, waitPort, ioVars, life>>

DeleteMsgPortDone ==
    /\ call.op = "drain"
    /\ queue[call.port] = << >>
    /\ portOwner' = [portOwner EXCEPT ![call.port] = Gone]
    /\ call' = NoCall
    /\ UNCHANGED <<msgVars, listVars, waitVars, ioVars, life>>

-----------------------------------------------------------------------------
(* Changing the owner (internalSetItemOwner).                              *)

\* internalSetMsgPortOwner accepts the new owner u of an empty port; n_Owner is
\* written after it has returned.
SetMsgPortOwner(t, p, u) ==
    /\ p \in Transfers
    /\ User(t) /\ portOwner[p] \in Tasks /\ EnoughPriv(t, portOwner[p])
    /\ life[u] # "dead"
    /\ queue[p] = << >>
    /\ call' = [op |-> "give", by |-> t, port |-> p, msg |-> u]
    /\ UNCHANGED <<portOwner, msgVars, listVars, waitVars, ioVars, life>>

SetMsgPortOwnerDone ==
    /\ call.op = "give"
    /\ portOwner' = [portOwner EXCEPT ![call.port] = call.msg]
    /\ call' = NoCall
    /\ UNCHANGED <<msgVars, listVars, waitVars, ioVars, life>>

\* internalSetMsgOwner: who owns the message from now on holds it too.
SetMsgOwner(t, m, u) ==
    /\ m \in Transfers
    /\ User(t) /\ ByHand(m)
    /\ msgOwner[m] \in Tasks /\ EnoughPriv(t, msgOwner[m])
    /\ life[u] # "dead"
    /\ holder[m] = t
    /\ msgOwner' = [msgOwner EXCEPT ![m] = u]
    /\ holder' = [holder EXCEPT ![m] = u]
    /\ held' = [Unheld(m) EXCEPT ![u] = @ \cup {m}]
    /\ UNCHANGED <<portOwner, replyPort, flag, queue, waitVars, ioVars, life, call>>

-----------------------------------------------------------------------------
(* Message-based I/O.                                                      *)

\* Mutant of SendIO: the message may still wait on the reply port.
SendIO_NoTest(t, r) ==
    /\ User(t) /\ reqOwner[r] = t
    /\ msgOwner[IOMsg[r]] \in Tasks
    /\ ~busy[r]
    /\ busy' = [busy EXCEPT ![r] = TRUE]
    /\ UNCHANGED <<portOwner, msgVars, listVars, waitVars, reqOwner, life, call>>

\* StartIO refuses a request whose message was not gotten since its last reply.
SendIO(t, r) ==
    /\ User(t) /\ reqOwner[r] = t
    /\ msgOwner[IOMsg[r]] \in Tasks
    /\ flag[IOMsg[r]] # "replied"
    /\ ~busy[r]
    /\ busy' = [busy EXCEPT ![r] = TRUE]
    /\ UNCHANGED <<portOwner, msgVars, listVars, waitVars, reqOwner, life, call>>

\* The owner is inside WaitIO: it wakes up and holds the message.
CompleteForWaiter(r) ==
    LET t == reqOwner[r] IN
    /\ waitItem[t] = r
    /\ waitItem' = [waitItem EXCEPT ![t] = Done]
    /\ asleep' = [asleep EXCEPT ![t] = FALSE]
    /\ holder' = [holder EXCEPT ![IOMsg[r]] = t]
    /\ queue' = Unqueued(IOMsg[r])
    /\ held' = [Unheld(IOMsg[r]) EXCEPT ![t] = @ \cup {IOMsg[r]}]
    /\ UNCHANGED flag

\* internalCompleteIO, from interrupt code, at any time.
CompleteIO(r) ==
    /\ busy[r]
    /\ busy' = [busy EXCEPT ![r] = FALSE]
    /\ \/ CompleteForWaiter(r)
       \/ /\ waitItem[reqOwner[r]] # r
          /\ CanReply(IOMsg[r])
          /\ Deliver(replyPort[IOMsg[r]], IOMsg[r], "replied")
       \/ /\ waitItem[reqOwner[r]] # r
          /\ ~CanReply(IOMsg[r])
          /\ UNCHANGED <<holder, flag, listVars, waitItem, asleep>>
    /\ UNCHANGED <<portOwner, msgOwner, replyPort, waitPort, reqOwner, life, call>>

-----------------------------------------------------------------------------
(* The death of a task.                                                    *)

\* Some killer's Murder: the victim wakes up, to die as soon as it runs.
Murder(t) ==
    /\ life[t] = "running"
    /\ call = NoCall /\ \A u \in Tasks : life[u] # "dying"
    /\ life' = [life EXCEPT ![t] = "killed"]
    /\ waitItem' = [waitItem EXCEPT ![t] = Aborted]
    /\ asleep' = [asleep EXCEPT ![t] = FALSE]
    /\ UNCHANGED <<portOwner, msgVars, listVars, waitPort, ioVars, call>>

\* A killed task, or one that exits, enters internalKill and waits for its
\* requests to come back.
Exit(t) ==
    /\ \/ life[t] = "killed" /\ call = NoCall /\ \A u \in Tasks : life[u] # "dying"
       \/ User(t)
    /\ \A r \in IOReqs : reqOwner[r] = t => ~busy[r]
    /\ life' = [life EXCEPT ![t] = "dying"]
    /\ UNCHANGED <<portOwner, msgVars, listVars, waitVars, ioVars, call>>

OwnReqs(t)  == {r \in IOReqs : reqOwner[r] = t}
OwnPorts(t) == {p \in Ports : portOwner[p] = t}
OwnMsgs(t)  == {m \in Msgs : msgOwner[m] = t}

\* FreeResources: the requests first, then the rest, one item at a time.
FreeResources(t) ==
    /\ Dying(t)
    /\ \/ \E r \in OwnReqs(t) : DeleteIOReq(t, r)
       \/ OwnReqs(t) = {} /\ \E p \in OwnPorts(t) : DeleteMsgPort(t, p)
       \/ OwnReqs(t) = {} /\ UNCHANGED reqOwner /\ \E m \in OwnMsgs(t) : DeleteMsg(t, m)

\* Mutant of Answerable: only messages whose owner waits at the reply port count.
Answerable_ToOwner(t) ==
    {m \in held[t] : CanReply(m) /\ portOwner[replyPort[m]] = msgOwner[m]}

\* The messages for which internalReplyMsg will succeed.
Answerable(t) == {m \in held[t] : CanReply(m)}

OwnsNothing(t) == OwnReqs(t) = {} /\ OwnPorts(t) = {} /\ OwnMsgs(t) = {}

\* A turn of the loop in ReplyHeldMessages.
ReplyHeldMessage(t) ==
    /\ Dying(t) /\ OwnsNothing(t)
    /\ \E m \in Answerable(t) : Deliver(replyPort[m], m, "replied")
    /\ UNCHANGED <<portOwner, msgOwner, replyPort, waitPort, ioVars, life, call>>

\* The end of internalKill.
Die(t) ==
    /\ Dying(t) /\ OwnsNothing(t)
    /\ Answerable(t) = {}
    /\ life' = [life EXCEPT ![t] = "dead"]
    /\ waitItem' = [waitItem EXCEPT ![t] = Idle]
    /\ waitPort' = [waitPort EXCEPT ![t] = NoItem]
    /\ UNCHANGED <<portOwner, msgVars, listVars, asleep, ioVars, call>>

-----------------------------------------------------------------------------
UserDeletes(t) ==
    /\ User(t)
    /\ \/ \E p \in Ports : DeleteMsgPort(t, p)
       \/ \E m \in Msgs \ IOMsgs : DeleteMsg(t, m) /\ UNCHANGED reqOwner
       \/ \E r \in IOReqs : DeleteIOReq(t, r)

\* The steps that a system call owes once it has begun.
CallStep == \/ GetDone \/ Drain \/ Bounce \/ DeleteMsgPortDone
            \/ DeleteMsgDone \/ SetMsgPortOwnerDone

DeathStep(t) == FreeResources(t) \/ ReplyHeldMessage(t) \/ Die(t)

TaskStep(t) ==
    \/ \E p \in Ports : \/ CreateMsgPort(t, p)
                        \/ GetMsg(t, p)
                        \/ WaitPortForAny(t, p)
                        \/ \E u \in Tasks : SetMsgPortOwner(t, p, u)
    \/ \E m \in Msgs : \/ \E p \in Ports \cup {NoItem} : CreateMsg(t, m, p)
                       \/ \E p \in Ports : SendMsg(t, p, m)
                       \/ \E p \in Ports : WaitPortForMsg(t, p, m)
                       \/ ReplyMsg(t, m)
                       \/ GetThisMsg(t, m)
                       \/ \E u \in Tasks : SetMsgOwner(t, m, u)
    \/ \E r \in IOReqs : \/ \E p \in Ports : CreateIOReq(t, r, p)
                         \/ SendIO(t, r)
                         \/ WaitIO(t, r)
    \/ UserDeletes(t)
    \/ WaitReturn(t) \/ Murder(t) \/ Exit(t)
    \/ DeathStep(t)

Next == \/ \E t \in Tasks : TaskStep(t)
        \/ \E r \in IOReqs : CompleteIO(r)
        \/ CallStep

Spec == Init /\ [][Next]_vars

-----------------------------------------------------------------------------
(* Safety.                                                                 *)

\* The message a call is getting or deleting; its fields are between two states.
InTransit(m) == call.op \in {"get", "delete"} /\ call.msg = m

Linked(m) == {t \in Tasks : m \in held[t]} \cup {p \in Ports : m \in Nodes(queue[p])}

\* A message is in exactly one place, and its lists, its holder and its flags say
\* the same: a message held by a task is linked there and bears no flag, a
\* message on a port is linked there and bears SENT or REPLIED; a deleted message
\* is linked nowhere.  Every test in ports.c trusts one of the three.  While a
\* request is with the device its message is held and no GetMsg is half way through
\* it, so that the completion interrupt can reply it.
MessageInOnePlace ==
    \A m \in Msgs :
        /\ msgOwner[m] \notin Tasks => Linked(m) = {}
        /\ msgOwner[m] \in Tasks /\ ~InTransit(m) =>
              /\ Linked(m) = {holder[m]}
              /\ holder[m] \in Ports <=> flag[m] # "none"
              /\ holder[m] \in Ports => portOwner[holder[m]] \in Tasks
        /\ \A r \in IOReqs : busy[r] /\ IOMsg[r] = m =>
              msgOwner[m] \in Tasks /\ flag[m] = "none" /\ ~InTransit(m)

\* A port's queue is in falling order of priority and has no message twice.
QueueInOrder == \A p \in Ports : Distinct(queue[p]) /\ Sorted(Pri, queue[p])

\* WaitPort is not left asleep beside its mail: while a task sleeps for any
\* message its port is empty, while it sleeps for a message that message is not
\* on the port.  Delivery from interrupts comes at any time.
NoSleepBesideMail ==
    \A t \in Tasks :
        asleep[t] /\ waitPort[t] \in Ports /\ portOwner[waitPort[t]] = t =>
            IF waitItem[t] = waitPort[t] THEN queue[waitPort[t]] = << >>
                                         ELSE waitItem[t] \notin Nodes(queue[waitPort[t]])

\* A task without threads that WaitPort wakes with a message holds it when the
\* call returns, whatever other tasks did to the message, its owner or the port
\* between the delivery and the return.  (Not so for the message of an I/O
\* request, which its owner can start again and wait for in the meantime.)
WaitResultIsHeld ==
    \A t \in Tasks : ~asleep[t] /\ waitItem[t] \in Msgs \ IOMsgs =>
        \/ \E u \in Tasks \ {t} : IsSameTaskFamily(t, u)
        \/ InTransit(waitItem[t])
        \/ holder[waitItem[t]] = t /\ waitItem[t] \in held[t]

\* What a sleeper waits for can still come: its port is its own, its message or
\* its request exists.  (A privileged task can take the port away.)
SleepersWaitForLiveItem ==
    \A t \in Tasks : asleep[t] /\ life[t] = "running" =>
        \/ waitItem[t] \in Ports /\ portOwner[waitItem[t]] = t
        \/ waitItem[t] \in Msgs /\ msgOwner[waitItem[t]] \in Tasks
        \/ waitItem[t] \in IOReqs /\ busy[waitItem[t]]

\* A task dies with no message left that somebody still expects a reply to.
DeadRepliedAll ==
    \A t \in Tasks : life[t] = "dead" =>
        \A m \in held[t] : replyPort[m] = NoItem \/ portOwner[replyPort[m]] = Gone

\* Message m comes before n on the list.
Before(s, m, n) ==
    \E i, j \in 1 .. Len(s) : i < j /\ s[i] = m /\ s[j] = n

\* Messages that stay on a port keep their order, and a message that arrives goes
\* behind those of its own or a higher priority (SendMsg: "messages that have the
\* same priority are queued in FIFO order").
FIFOStep ==
    \A p \in Ports : \A m, n \in Nodes(queue'[p]) :
        m \in Nodes(queue[p]) =>
            /\ Before(queue[p], m, n) => Before(queue'[p], m, n)
            /\ n \notin Nodes(queue[p]) /\ Pri[m] >= Pri[n] => Before(queue'[p], m, n)

FIFO == [][FIFOStep]_vars

-----------------------------------------------------------------------------
(* What a comment says and the code does not guarantee.                    *)

\* ports.c on internalSetMsgPortOwner: a port changes its owner only when there
\* are no messages on it.
EmptyWhenGiven == call.op = "give" => queue[call.port] = << >>

-----------------------------------------------------------------------------
(* Liveness.                                                               *)

\* A woken task returns from its wait, a killed one starts to die.
Runs(t) == WaitReturn(t) \/ (life[t] = "killed" /\ Exit(t))

\* System calls and deaths go on, interrupts come, tasks that are awake run; the
\* owner of a port gets its messages and replies the requests it holds.
Fairness ==
    /\ WF_vars(CallStep \/ \E t \in Tasks : DeathStep(t))
    /\ WF_vars(\E r \in IOReqs : CompleteIO(r))
    /\ \A t \in Tasks :
          /\ SF_vars(Runs(t))
          /\ SF_vars(\E p \in Ports : GetMsg(t, p))
          /\ SF_vars(\E m \in Msgs : ReplyMsg(t, m))

FairSpec == Spec /\ Fairness

\* A client that sleeps for its own request, which it has sent away, wakes up:
\* with the reply, or because the server deleted its port, exited or was killed,
\* or because the message was deleted.
RequestsAnswered ==
    \A t \in Tasks : \A m \in Msgs \ IOMsgs :
        (asleep[t] /\ waitItem[t] = m) ~> ~(asleep[t] /\ waitItem[t] = m)

=============================================================================
