--------------------------- MODULE MsgPortsProofs ---------------------------
(***************************************************************************)
(* Proofs about MsgPorts for all sets of tasks, ports, messages and I/O    *)
(* requests, all priorities, families and transfers.                       *)
(***************************************************************************)
EXTENDS MsgPorts, ListProofs

-----------------------------------------------------------------------------
(* The parts of the inductive invariant.                                   *)

\* What kinds of things the call that is between two steps is about.
CallShape ==
    /\ call.op = "none" => call = NoCall
    /\ call.op # "none" => call.by \in Tasks
    /\ call.op \in {"drain", "bounce", "give"} => call.port \in Ports
    /\ call.op = "give" => call.msg \in Tasks /\ call.port \in Transfers
    /\ call.op \in {"get", "bounce", "delete"} => call.msg \in Msgs
    /\ call.op = "delete" => call.port = NoItem

\* A request with the device has an owner.
BusyIsOwned == \A r \in IOReqs : busy[r] => reqOwner[r] \in Tasks

\* What needs no condition on families and ports.
ShapeInv == TypeOK /\ CallShape /\ BusyIsOwned /\ QueueInOrder

-----------------------------------------------------------------------------
(* Moving a message.                                                       *)

\* Message m is linked at x afterwards, or nowhere if x is neither a task nor a
\* port; all other messages are where they were, and the queues are in order.
Relinked(m, x) ==
    /\ queue' \in [Ports -> Seq(Msgs)] /\ held' \in [Tasks -> SUBSET Msgs]
    /\ \A p \in Ports : Distinct(queue'[p]) /\ Sorted(Pri, queue'[p])
    /\ \A p \in Ports :
          Nodes(queue'[p]) = (Nodes(queue[p]) \ {m}) \cup IF x = p THEN {m} ELSE {}
    /\ \A t \in Tasks : held'[t] = (held[t] \ {m}) \cup IF x = t THEN {m} ELSE {}

(* Facts about the constants, one by one. *)
LEMMA Apart ==
    /\ \A t \in Tasks : t \notin Ports /\ t \notin Msgs /\ t \notin IOReqs
    /\ \A p \in Ports : p \notin Msgs /\ p \notin IOReqs
    /\ \A m \in Msgs : m \notin IOReqs
    /\ \A x \in {NoItem, Unborn, Gone} :
          x \notin Tasks /\ x \notin Ports /\ x \notin Msgs /\ x \notin IOReqs
    /\ \A x \in {Idle, Done, Aborted} :
          x \notin Tasks /\ x \notin Ports /\ x \notin Msgs /\ x \notin IOReqs
    /\ Unborn # Gone /\ Unborn # NoItem /\ Gone # NoItem
    /\ Idle # Done /\ Idle # Aborted /\ Done # Aborted
    /\ \A r \in IOReqs : IOMsg[r] \in Msgs /\ IOMsg[r] \in IOMsgs
BY MsgPortsAssumption DEF Items, Results, IOMsgs

(* Where the messages are linked after m has moved. *)
LEMMA RelinkedPlaces ==
    ASSUME NEW m \in Msgs, NEW x, Relinked(m, x)
    PROVE  /\ Linked(m)' = {x} \cap (Tasks \cup Ports)
           /\ \A n \in Msgs \ {m} : Linked(n)' = Linked(n)
           /\ QueueInOrder'
BY DEF Relinked, Linked, QueueInOrder

(* A message goes to a task. *)
LEMMA ToTask ==
    ASSUME TypeOK, QueueInOrder, NEW m \in Msgs, NEW t \in Tasks,
           queue' = Unqueued(m), held' = [Unheld(m) EXCEPT ![t] = @ \cup {m}]
    PROVE  Relinked(m, t)
<1>1. \A p \in Ports : /\ queue'[p] \in Seq(Msgs) /\ Distinct(queue'[p])
                       /\ Sorted(Pri, queue'[p]) /\ Nodes(queue'[p]) = Nodes(queue[p]) \ {m}
  BY WithoutNodeList DEF TypeOK, QueueInOrder, Unqueued
<1>2. queue' \in [Ports -> Seq(Msgs)]
  BY <1>1 DEF Unqueued
<1>3. held' \in [Tasks -> SUBSET Msgs]
  BY DEF Unheld, TypeOK
<1>4. \A u \in Tasks : held'[u] = (held[u] \ {m}) \cup IF t = u THEN {m} ELSE {}
  BY DEF Unheld
<1> QED BY <1>1, <1>2, <1>3, <1>4, Apart DEF Relinked

(* A message leaves all lists. *)
LEMMA ToNowhere ==
    ASSUME TypeOK, QueueInOrder, NEW m \in Msgs, queue' = Unqueued(m), held' = Unheld(m)
    PROVE  Relinked(m, NoItem)
<1>1. \A p \in Ports : /\ queue'[p] \in Seq(Msgs) /\ Distinct(queue'[p])
                       /\ Sorted(Pri, queue'[p]) /\ Nodes(queue'[p]) = Nodes(queue[p]) \ {m}
  BY WithoutNodeList DEF TypeOK, QueueInOrder, Unqueued
<1>2. queue' \in [Ports -> Seq(Msgs)]
  BY <1>1 DEF Unqueued
<1>3. held' \in [Tasks -> SUBSET Msgs] /\ \A u \in Tasks : held'[u] = held[u] \ {m}
  BY DEF Unheld, TypeOK
<1> QED BY <1>1, <1>2, <1>3, Apart DEF Relinked

(* A message goes to a port, behind those of its own or a higher priority. *)
LEMMA ToPort ==
    ASSUME TypeOK, QueueInOrder, NEW m \in Msgs, NEW p \in Ports, NEW how,
           Enqueue(p, m, how)
    PROVE  Relinked(m, p)
<1> DEFINE q == Unqueued(m)
<1>1. \A x \in Ports : /\ q[x] \in Seq(Msgs) /\ Distinct(q[x])
                       /\ Sorted(Pri, q[x]) /\ Nodes(q[x]) = Nodes(queue[x]) \ {m}
  BY WithoutNodeList DEF TypeOK, QueueInOrder, Unqueued
<1>2. q \in [Ports -> Seq(Msgs)]
  BY <1>1 DEF Unqueued
<1>3. PICK k \in 0 .. Len(q[p]) :
         /\ FromTail(Pri, q[p], m, k)
         /\ queue' = [q EXCEPT ![p] = InsertAfter(@, k, m)]
  BY DEF Enqueue
<1> HIDE DEF q
<1> DEFINE w == InsertAfter(q[p], k, m)
<1>4. m \notin Nodes(q[p])
  BY <1>1
<1>5. w \in Seq(Msgs) /\ Distinct(w) /\ Nodes(w) = Nodes(q[p]) \cup {m}
  BY <1>1, <1>4, InsertSeq, InsertNodes
<1>6. Sorted(Pri, w)
  BY <1>1, <1>3, InsertSorted, MsgPortsAssumption
<1>7. \A x \in Ports : queue'[x] = IF x = p THEN w ELSE q[x]
  BY <1>2, <1>3
<1> HIDE DEF w
<1>8. queue' \in [Ports -> Seq(Msgs)]
  BY <1>2, <1>3, <1>5 DEF w
<1>9. held' \in [Tasks -> SUBSET Msgs] /\ \A u \in Tasks : held'[u] = held[u] \ {m}
  BY DEF Enqueue, Unheld, TypeOK
<1>10. \A x \in Ports : Distinct(queue'[x]) /\ Sorted(Pri, queue'[x])
  BY <1>1, <1>5, <1>6, <1>7
<1>11. \A x \in Ports :
          Nodes(queue'[x]) = (Nodes(queue[x]) \ {m}) \cup IF p = x THEN {m} ELSE {}
  <2> TAKE x \in Ports
  <2>1. CASE x = p
    BY <1>1, <1>5, <1>7, <2>1
  <2>2. CASE x # p
    BY <1>1, <1>7, <2>2
  <2> QED BY <2>1, <2>2
<1>12. \A u \in Tasks : held'[u] = (held[u] \ {m}) \cup IF p = u THEN {m} ELSE {}
  BY <1>9, Apart
<1> QED BY <1>8, <1>9, <1>10, <1>11, <1>12 DEF Relinked

\* The two outcomes of a delivery: the owner t of port p, which waits for m, has
\* it; or it is on the queue of p.
Given(t, p, m) ==
    /\ waitItem[t] \in {p, m}
    /\ Relinked(m, t)
    /\ holder' = [holder EXCEPT ![m] = t]
    /\ waitItem' = [waitItem EXCEPT ![t] = m]
    /\ asleep' = [asleep EXCEPT ![t] = FALSE]
    /\ UNCHANGED flag

Queued(p, m, how) ==
    /\ waitItem[portOwner[p]] \notin {p, m}
    /\ Relinked(m, p)
    /\ holder' = [holder EXCEPT ![m] = p]
    /\ flag' = [flag EXCEPT ![m] = how]
    /\ UNCHANGED <<waitItem, asleep>>

(* internalDeliverMsg has one of these outcomes. *)
LEMMA DeliverCases ==
    ASSUME TypeOK, QueueInOrder, NEW m \in Msgs, NEW p \in Ports,
           portOwner[p] \in Tasks, NEW how, Deliver(p, m, how)
    PROVE  Given(portOwner[p], p, m) \/ Queued(p, m, how)
<1>1. CASE waitItem[portOwner[p]] \in {p, m}
  <2>1. HandOver(portOwner[p], m)
    BY <1>1 DEF Deliver
  <2>2. Relinked(m, portOwner[p])
    BY <2>1, ToTask DEF HandOver
  <2> QED BY <1>1, <2>1, <2>2 DEF HandOver, Given
<1>2. CASE waitItem[portOwner[p]] \notin {p, m}
  <2>1. Enqueue(p, m, how)
    BY <1>2 DEF Deliver
  <2>2. Relinked(m, p)
    BY <2>1, ToPort
  <2> QED BY <1>2, <2>1, <2>2 DEF Enqueue, Queued
<1> QED BY <1>1, <1>2

-----------------------------------------------------------------------------
(* Types and the order of queues.                                          *)

(* A delivery keeps what it changes in its type. *)
LEMMA DeliverShape ==
    ASSUME ShapeInv, NEW m \in Msgs, NEW p \in Ports, portOwner[p] \in Tasks,
           NEW how \in {"sent", "replied"}, Deliver(p, m, how)
    PROVE  /\ queue' \in [Ports -> Seq(Msgs)] /\ held' \in [Tasks -> SUBSET Msgs]
           /\ holder' \in [Msgs -> Tasks \cup Ports \cup {NoItem}]
           /\ flag' \in [Msgs -> {"none", "sent", "replied"}]
           /\ waitItem' \in [Tasks -> Items \cup Results]
           /\ asleep' \in [Tasks -> BOOLEAN]
           /\ QueueInOrder'
<1> USE DEF ShapeInv, TypeOK
<1>1. CASE Given(portOwner[p], p, m)
  <2>1. QueueInOrder'
    BY <1>1, RelinkedPlaces DEF Given
  <2>2. queue' \in [Ports -> Seq(Msgs)] /\ held' \in [Tasks -> SUBSET Msgs]
    BY <1>1 DEF Given, Relinked
  <2>3. holder' \in [Msgs -> Tasks \cup Ports \cup {NoItem}] /\ flag' = flag
    BY <1>1 DEF Given
  <2>4. waitItem' \in [Tasks -> Items \cup Results] /\ asleep' \in [Tasks -> BOOLEAN]
    BY <1>1 DEF Given, Items
  <2> QED BY <2>1, <2>2, <2>3, <2>4
<1>2. CASE Queued(p, m, how)
  <2>1. QueueInOrder'
    BY <1>2, RelinkedPlaces DEF Queued
  <2>2. queue' \in [Ports -> Seq(Msgs)] /\ held' \in [Tasks -> SUBSET Msgs]
    BY <1>2 DEF Queued, Relinked
  <2> QED BY <1>2, <2>1, <2>2 DEF Queued
<1> QED BY <1>1, <1>2, DeliverCases

(* So does the disabled section of GetMsg. *)
LEMMA TakeShape ==
    ASSUME ShapeInv, NEW m \in Msgs, NEW t \in Tasks, NEW port \in Ports \cup {NoItem},
           Take(t, m, port)
    PROVE  ShapeInv'
<1>1. Relinked(m, t)
  BY ToTask DEF ShapeInv, Take
<1>2. TypeOK'
  BY <1>1 DEF ShapeInv, TypeOK, Take, Relinked, waitVars, ioVars
<1>3. CallShape'
  BY DEF CallShape, Take
<1> QED BY <1>1, <1>2, <1>3, RelinkedPlaces DEF ShapeInv, BusyIsOwned, Take, ioVars

(* The head of a queue is a message. *)
LEMMA HeadIsMsg ==
    ASSUME TypeOK, NEW p \in Ports, queue[p] # << >>
    PROVE  Head(queue[p]) \in Msgs /\ Head(queue[p]) \in Nodes(queue[p])
<1>1. queue[p] \in Seq(Msgs)
  BY DEF TypeOK
<1>2. Head(queue[p]) \in Msgs /\ Head(queue[p]) = queue[p][1] /\ 1 \in 1 .. Len(queue[p])
  BY <1>1
<1> QED BY <1>2 DEF Nodes

(* So does a deletion. *)
LEMMA DeleteShape ==
    ASSUME ShapeInv, NEW m \in Msgs, NEW t \in Tasks, DeleteMsg(t, m),
           reqOwner' \in [IOReqs -> Tasks \cup {Unborn, Gone}],
           \A r \in IOReqs : busy[r] => reqOwner'[r] = reqOwner[r]
    PROVE  ShapeInv'
<1>1. Relinked(m, NoItem)
  BY ToNowhere DEF ShapeInv, DeleteMsg
<1>2. TypeOK'
  BY <1>1 DEF ShapeInv, TypeOK, DeleteMsg, Relinked, waitVars
<1>3. CallShape'
  BY DEF CallShape, DeleteMsg
<1> QED BY <1>1, <1>2, <1>3, RelinkedPlaces DEF ShapeInv, BusyIsOwned, DeleteMsg

(* Every step keeps types and order. *)
LEMMA ShapeStep ==
    ASSUME ShapeInv, [Next]_vars
    PROVE  ShapeInv'
<1> USE Apart
<1>1. CASE UNCHANGED vars
  BY <1>1 DEF vars, msgVars, listVars, waitVars, ioVars, ShapeInv, TypeOK, CallShape, BusyIsOwned,
              QueueInOrder
<1>2. ASSUME NEW t \in Tasks, TaskStep(t) PROVE ShapeInv'
  <2>1. ASSUME NEW p \in Ports, CreateMsgPort(t, p) PROVE ShapeInv'
    BY <2>1 DEF CreateMsgPort, msgVars, listVars, waitVars, ioVars, ShapeInv, TypeOK,
                CallShape, BusyIsOwned, QueueInOrder
  <2>2. ASSUME NEW p \in Ports, GetMsg(t, p) PROVE ShapeInv'
    BY <2>2, HeadIsMsg, TakeShape DEF GetMsg, ShapeInv
  <2>3. ASSUME NEW item \in Items, NEW port \in Ports \cup {NoItem}, Sleep(t, item, port)
        PROVE  ShapeInv'
    BY <2>3 DEF Sleep, msgVars, listVars, waitVars, ioVars, ShapeInv, TypeOK, CallShape,
                BusyIsOwned, QueueInOrder
  <2>4. ASSUME NEW p \in Ports, NEW u \in Tasks, SetMsgPortOwner(t, p, u) PROVE ShapeInv'
    BY <2>4 DEF SetMsgPortOwner, msgVars, listVars, waitVars, ioVars, ShapeInv, TypeOK,
                CallShape, BusyIsOwned, QueueInOrder
  <2>5. ASSUME NEW m \in Msgs, NEW p \in Ports \cup {NoItem}, CreateMsg(t, m, p)
        PROVE  ShapeInv'
    BY <2>5 DEF CreateMsg, NewMsg, waitVars, ioVars, ShapeInv, TypeOK, CallShape,
                BusyIsOwned, QueueInOrder
  <2>6. ASSUME NEW m \in Msgs, NEW p \in Ports, SendMsg(t, p, m) PROVE ShapeInv'
    <3>1. TypeOK' /\ QueueInOrder'
      BY <2>6, DeliverShape DEF SendMsg, ioVars, ShapeInv, TypeOK
    <3> QED BY <2>6, <3>1 DEF SendMsg, ioVars, ShapeInv, CallShape, BusyIsOwned
  <2>7. ASSUME NEW m \in Msgs, ReplyMsg(t, m) PROVE ShapeInv'
    <3>1. TypeOK' /\ QueueInOrder'
      BY <2>7, DeliverShape DEF ReplyMsg, CanReply, ioVars, ShapeInv, TypeOK
    <3> QED BY <2>7, <3>1 DEF ReplyMsg, ioVars, ShapeInv, CallShape, BusyIsOwned
  <2>8. ASSUME NEW m \in Msgs, GetThisMsg(t, m) PROVE ShapeInv'
    BY <2>8, TakeShape DEF GetThisMsg
  <2>9. ASSUME NEW m \in Msgs, NEW u \in Tasks, SetMsgOwner(t, m, u) PROVE ShapeInv'
    BY <2>9 DEF SetMsgOwner, Unheld, waitVars, ioVars, ShapeInv, TypeOK, CallShape,
                BusyIsOwned, QueueInOrder
  <2>10. ASSUME NEW r \in IOReqs, NEW p \in Ports, CreateIOReq(t, r, p) PROVE ShapeInv'
    BY <2>10 DEF CreateIOReq, NewMsg, waitVars, ShapeInv, TypeOK, CallShape, BusyIsOwned, QueueInOrder
  <2>11. ASSUME NEW r \in IOReqs, SendIO(t, r) PROVE ShapeInv'
    BY <2>11 DEF SendIO, msgVars, listVars, waitVars, ShapeInv, TypeOK, CallShape,
                 BusyIsOwned, QueueInOrder
  <2>12. ASSUME NEW p \in Ports, DeleteMsgPort(t, p) PROVE ShapeInv'
    BY <2>12 DEF DeleteMsgPort, msgVars, listVars, waitVars, ioVars, ShapeInv, TypeOK,
                 CallShape, BusyIsOwned, QueueInOrder
  <2>13. ASSUME NEW m \in Msgs, DeleteMsg(t, m), UNCHANGED reqOwner PROVE ShapeInv'
    BY <2>13, DeleteShape DEF ShapeInv, TypeOK
  <2>14. ASSUME NEW r \in IOReqs, DeleteIOReq(t, r) PROVE ShapeInv'
    BY <2>14, DeleteShape DEF DeleteIOReq, ShapeInv, TypeOK
  <2>15. CASE WaitReturn(t)
    BY <2>15 DEF WaitReturn, msgVars, listVars, ioVars, ShapeInv, TypeOK, CallShape,
                 BusyIsOwned, QueueInOrder, Results
  <2>16. CASE Murder(t)
    BY <2>16 DEF Murder, msgVars, listVars, ioVars, ShapeInv, TypeOK, CallShape,
                 BusyIsOwned, QueueInOrder, Results
  <2>17. CASE Exit(t)
    BY <2>17 DEF Exit, msgVars, listVars, waitVars, ioVars, ShapeInv, TypeOK, CallShape,
                 BusyIsOwned, QueueInOrder
  <2>18. CASE ReplyHeldMessage(t)
    <3> PICK m \in Answerable(t) : Deliver(replyPort[m], m, "replied")
      BY <2>18 DEF ReplyHeldMessage
    <3>1. m \in Msgs /\ replyPort[m] \in Ports /\ portOwner[replyPort[m]] \in Tasks
      BY DEF Answerable, CanReply, ShapeInv, TypeOK
    <3>2. TypeOK' /\ QueueInOrder'
      BY <2>18, <3>1, DeliverShape DEF ReplyHeldMessage, ioVars, ShapeInv, TypeOK
    <3> QED BY <2>18, <3>2 DEF ReplyHeldMessage, ioVars, ShapeInv, CallShape, BusyIsOwned
  <2>19. CASE Die(t)
    BY <2>19 DEF Die, msgVars, listVars, ioVars, ShapeInv, TypeOK, CallShape,
                 BusyIsOwned, QueueInOrder, Results
  <2>20. CASE UserDeletes(t) \/ FreeResources(t)
    BY <2>12, <2>13, <2>14, <2>20
       DEF UserDeletes, FreeResources, OwnReqs, OwnPorts, OwnMsgs
  <2>21. ASSUME NEW p \in Ports, WaitPortForAny(t, p) PROVE ShapeInv'
    BY <2>3, <2>21 DEF WaitPortForAny, Items
  <2>22. ASSUME NEW m \in Msgs, NEW p \in Ports, WaitPortForMsg(t, p, m) PROVE ShapeInv'
    BY <2>3, <2>22 DEF WaitPortForMsg, Items
  <2>23. ASSUME NEW r \in IOReqs, WaitIO(t, r) PROVE ShapeInv'
    BY <2>3, <2>23 DEF WaitIO, Items
  <2> QED BY <1>2, <2>1, <2>2, <2>4, <2>5, <2>6, <2>7, <2>8, <2>9, <2>10, <2>11, <2>15,
             <2>16, <2>17, <2>18, <2>19, <2>20, <2>21, <2>22, <2>23
          DEF TaskStep, DeathStep
<1>3. ASSUME NEW r \in IOReqs, CompleteIO(r) PROVE ShapeInv'
  <2>1. busy' \in [IOReqs -> BOOLEAN]
    BY <1>3 DEF CompleteIO, ShapeInv, TypeOK
  <2>2. CASE CompleteForWaiter(r)
    <3>0. reqOwner[r] \in Tasks
      BY <1>3 DEF CompleteIO, ShapeInv, BusyIsOwned
    <3>1. Relinked(IOMsg[r], reqOwner[r])
      BY <2>2, <3>0, ToTask DEF CompleteForWaiter, ShapeInv
    <3>2. QueueInOrder' /\ queue' \in [Ports -> Seq(Msgs)] /\ held' \in [Tasks -> SUBSET Msgs]
      BY <3>1, RelinkedPlaces DEF Relinked
    <3>3. /\ holder' \in [Msgs -> Tasks \cup Ports \cup {NoItem}] /\ flag' = flag
          /\ asleep' \in [Tasks -> BOOLEAN]
      BY <2>2, <3>0 DEF CompleteForWaiter, ShapeInv, TypeOK
    <3>4. waitItem' \in [Tasks -> Items \cup Results]
      BY <2>2, <3>0 DEF CompleteForWaiter, ShapeInv, TypeOK, Results
    <3>5. TypeOK'
      BY <1>3, <2>1, <3>2, <3>3, <3>4 DEF CompleteIO, ShapeInv, TypeOK
    <3> QED BY <1>3, <3>2, <3>5 DEF CompleteIO, ShapeInv, TypeOK, CallShape, BusyIsOwned
  <2>3. CASE CanReply(IOMsg[r]) /\ Deliver(replyPort[IOMsg[r]], IOMsg[r], "replied")
    <3>1. TypeOK' /\ QueueInOrder'
      BY <1>3, <2>1, <2>3, DeliverShape DEF CompleteIO, CanReply, ShapeInv, TypeOK
    <3> QED BY <1>3, <3>1 DEF CompleteIO, ShapeInv, TypeOK, CallShape, BusyIsOwned
  <2>4. CASE UNCHANGED <<holder, flag, listVars, waitItem, asleep>>
    BY <1>3, <2>1, <2>4 DEF CompleteIO, listVars, ShapeInv, TypeOK, CallShape, BusyIsOwned, QueueInOrder
  <2> QED BY <1>3, <2>2, <2>3, <2>4 DEF CompleteIO
<1>4. CASE CallStep
  <2>1. CASE GetDone
    BY <2>1 DEF GetDone, listVars, waitVars, ioVars, ShapeInv, TypeOK, CallShape,
                BusyIsOwned, QueueInOrder, NoCall
  <2>2. CASE Drain
    BY <2>2, HeadIsMsg, TakeShape DEF Drain, ShapeInv, CallShape
  <2>3. CASE Bounce
    <3>1. CallShape'
      BY <2>3 DEF Bounce, CallShape, ShapeInv, TypeOK
    <3>2. CASE ReturnToSender(call.msg, call.port)
      <4> DEFINE m == call.msg
      <4>1. /\ m \in Msgs /\ replyPort[m] \in Ports /\ portOwner[replyPort[m]] \in Tasks
            /\ Deliver(replyPort[m], m, "replied")
        BY <2>3, <3>2 DEF Bounce, ReturnToSender, CanReply, ShapeInv, CallShape
      <4> HIDE DEF m
      <4>2. call' \in [op : {"none", "get", "bounce", "drain", "delete", "give"},
                       by : Tasks \cup {NoItem}, port : Ports \cup {NoItem},
                       msg : Msgs \cup Tasks \cup {NoItem}]
        BY <2>3 DEF Bounce, ShapeInv, TypeOK
      <4>3. TypeOK' /\ QueueInOrder'
        BY <2>3, <4>1, <4>2, DeliverShape DEF Bounce, ioVars, ShapeInv, TypeOK
      <4> QED BY <2>3, <3>1, <4>3 DEF Bounce, ioVars, ShapeInv, BusyIsOwned
    <3>3. CASE ~ReturnToSender(call.msg, call.port)
      BY <2>3, <3>1, <3>3
         DEF Bounce, listVars, ioVars, ShapeInv, TypeOK, BusyIsOwned, QueueInOrder
    <3> QED BY <3>2, <3>3
  <2>4. CASE DeleteMsgPortDone
    BY <2>4 DEF DeleteMsgPortDone, msgVars, listVars, waitVars, ioVars, ShapeInv, TypeOK,
                CallShape, BusyIsOwned, QueueInOrder, NoCall
  <2>5. CASE DeleteMsgDone
    BY <2>5 DEF DeleteMsgDone, listVars, ioVars, ShapeInv, TypeOK, CallShape, BusyIsOwned, QueueInOrder,
                NoCall, Results
  <2>6. CASE SetMsgPortOwnerDone
    BY <2>6 DEF SetMsgPortOwnerDone, msgVars, listVars, waitVars, ioVars, ShapeInv, TypeOK,
                CallShape, BusyIsOwned, QueueInOrder, NoCall
  <2> QED BY <1>4, <2>1, <2>2, <2>3, <2>4, <2>5, <2>6 DEF CallStep
<1> QED BY <1>1, <1>2, <1>3, <1>4 DEF Next

(* Initially nothing exists. *)
LEMMA ShapeInit == Init => ShapeInv
<1> SUFFICES ASSUME Init PROVE ShapeInv
  OBVIOUS
<1>1. TypeOK
  BY DEF Init, TypeOK, NoCall, Results
<1>2. CallShape
  BY DEF Init, CallShape, NoCall
<1>3. BusyIsOwned
  BY DEF Init, BusyIsOwned
<1>4. QueueInOrder
  BY DEF Init, QueueInOrder, Distinct, Sorted
<1> QED BY <1>1, <1>2, <1>3, <1>4 DEF ShapeInv

(* Types, the shape of the pending call and the order of the queues always hold. *)
LEMMA ShapeHolds == Spec => []ShapeInv
<1> QED BY ShapeInit, ShapeStep, PTL DEF Spec

(* Every variable of ports.c and io.c stays in its type, whatever tasks and       *)
(* interrupts do and in whatever order.                                           *)
THEOREM TypeCorrect == Spec => []TypeOK
<1>1. ShapeInv => TypeOK
  BY DEF ShapeInv
<1> QED BY <1>1, ShapeHolds, PTL

(* The queue of every port is in falling order of priority and holds no message   *)
(* twice: what internalDeliverMsg's InsertNodeFromTail and the removals of GetMsg *)
(* and DeleteMsg keep, interrupts in between included.                            *)
THEOREM QueuesInOrder == Spec => []QueueInOrder
<1>1. ShapeInv => QueueInOrder
  BY DEF ShapeInv
<1> QED BY <1>1, ShapeHolds, PTL

-----------------------------------------------------------------------------
(* Who is awake.                                                           *)

\* The task inside a system call is not dead and does not wait; the port it works
\* on exists.
CallerAwake ==
    call.op # "none" =>
        /\ life[call.by] # "dead" /\ waitItem[call.by] \in {Idle, Aborted}
        /\ call.port \in Ports => portOwner[call.port] \in Tasks

\* Killed, dying and dead tasks wait for nothing, and who sleeps waits for an item.
WaitStates ==
    \A t \in Tasks :
        /\ life[t] # "running" => waitItem[t] \in {Idle, Aborted}
        /\ asleep[t] => waitItem[t] \in Items

\* A message is created with a reply port that exists.
ReplyPortsExist ==
    \A m \in Msgs : replyPort[m] \in Ports => portOwner[replyPort[m]] # Unborn

AwakeInv == ShapeInv /\ CallerAwake /\ WaitStates /\ ReplyPortsExist

(* A delivery wakes nobody but a task that waited. *)
LEMMA DeliverAwake ==
    ASSUME AwakeInv, NEW m \in Msgs, NEW p \in Ports, portOwner[p] \in Tasks,
           NEW how \in {"sent", "replied"}, Deliver(p, m, how), life' = life
    PROVE  /\ WaitStates'
           /\ \A t \in Tasks : waitItem[t] \in {Idle, Aborted} => waitItem'[t] = waitItem[t]
<1> USE DEF AwakeInv, ShapeInv, TypeOK
<1>1. CASE Given(portOwner[p], p, m)
  BY <1>1, Apart DEF Given, WaitStates, Items
<1>2. CASE Queued(p, m, how)
  BY <1>2 DEF Queued, WaitStates
<1> QED BY <1>1, <1>2, DeliverCases

(* Every step keeps sleepers, callers and reply ports so. *)
LEMMA AwakeStep ==
    ASSUME AwakeInv, [Next]_vars
    PROVE  AwakeInv'
<1> USE Apart
<1>0. ShapeInv'
  BY ShapeStep DEF AwakeInv
<1>1. CASE UNCHANGED vars
  BY <1>0, <1>1 DEF vars, msgVars, listVars, waitVars, ioVars, AwakeInv, CallerAwake, WaitStates,
              ReplyPortsExist
<1>2. ASSUME NEW t \in Tasks, TaskStep(t) PROVE AwakeInv'
  <2> USE DEF AwakeInv, ShapeInv, TypeOK, CallerAwake, WaitStates, ReplyPortsExist, User
  <2>a. ASSUME NEW m \in Msgs, NEW port \in Ports \cup {NoItem}, User(t), Take(t, m, port),
               port = NoItem
        PROVE  AwakeInv'
    BY <1>0, <2>a DEF Take, waitVars, ioVars
  <2>b. ASSUME NEW m \in Msgs, NEW p \in Ports, portOwner[p] \in Tasks,
               NEW how \in {"sent", "replied"}, Deliver(p, m, how),
               UNCHANGED <<portOwner, replyPort, life, call>>
        PROVE  AwakeInv'
    <3>1. WaitStates' /\ \A u \in Tasks : waitItem[u] \in {Idle, Aborted} => waitItem'[u] = waitItem[u]
      BY <2>b, DeliverAwake
    <3> QED BY <1>0, <2>b, <3>1 DEF CallShape
  <2>1. ASSUME NEW p \in Ports, CreateMsgPort(t, p) PROVE AwakeInv'
    BY <1>0, <2>1 DEF CreateMsgPort, msgVars, waitVars, NoCall
  <2>2. ASSUME NEW p \in Ports, GetMsg(t, p) PROVE AwakeInv'
    BY <2>2, <2>a, HeadIsMsg DEF GetMsg
  <2>3. ASSUME NEW item \in Items, NEW port \in Ports \cup {NoItem}, User(t),
               Sleep(t, item, port)
        PROVE  AwakeInv'
    BY <1>0, <2>3 DEF Sleep, msgVars, NoCall
  <2>4. ASSUME NEW p \in Ports, NEW u \in Tasks, SetMsgPortOwner(t, p, u) PROVE AwakeInv'
    BY <1>0, <2>4 DEF SetMsgPortOwner, msgVars, waitVars
  <2>5. ASSUME NEW m \in Msgs, NEW p \in Ports \cup {NoItem}, CreateMsg(t, m, p)
        PROVE  AwakeInv'
    BY <1>0, <2>5 DEF CreateMsg, NewMsg, waitVars
  <2>6. ASSUME NEW m \in Msgs, NEW p \in Ports, SendMsg(t, p, m) PROVE AwakeInv'
    BY <2>6, <2>b DEF SendMsg
  <2>7. ASSUME NEW m \in Msgs, ReplyMsg(t, m) PROVE AwakeInv'
    BY <2>7, <2>b DEF ReplyMsg, CanReply
  <2>8. ASSUME NEW m \in Msgs, GetThisMsg(t, m) PROVE AwakeInv'
    BY <2>8, <2>a DEF GetThisMsg
  <2>9. ASSUME NEW m \in Msgs, NEW u \in Tasks, SetMsgOwner(t, m, u) PROVE AwakeInv'
    BY <1>0, <2>9 DEF SetMsgOwner, waitVars
  <2>10. ASSUME NEW r \in IOReqs, NEW p \in Ports, CreateIOReq(t, r, p) PROVE AwakeInv'
    BY <1>0, <2>10 DEF CreateIOReq, NewMsg, waitVars
  <2>11. ASSUME NEW r \in IOReqs, SendIO(t, r) PROVE AwakeInv'
    BY <1>0, <2>11 DEF SendIO, msgVars, waitVars
  <2>12. ASSUME NEW p \in Ports, User(t) \/ Dying(t), DeleteMsgPort(t, p) PROVE AwakeInv'
    BY <1>0, <2>12 DEF Dying, DeleteMsgPort, msgVars, waitVars
  <2>13. ASSUME NEW m \in Msgs, User(t) \/ Dying(t), DeleteMsg(t, m) PROVE AwakeInv'
    BY <1>0, <2>13 DEF Dying, DeleteMsg, waitVars
  <2>14. ASSUME NEW r \in IOReqs, User(t) \/ Dying(t), DeleteIOReq(t, r) PROVE AwakeInv'
    BY <2>14, <2>13 DEF DeleteIOReq
  <2>15. CASE WaitReturn(t)
    BY <1>0, <2>15 DEF WaitReturn, msgVars, NoCall
  <2>16. CASE Murder(t)
    BY <1>0, <2>16 DEF Murder, msgVars, NoCall
  <2>17. CASE Exit(t)
    BY <1>0, <2>17 DEF Exit, msgVars, waitVars, NoCall
  <2>18. CASE ReplyHeldMessage(t)
    <3> PICK m \in Answerable(t) : Deliver(replyPort[m], m, "replied")
      BY <2>18 DEF ReplyHeldMessage
    <3>1. m \in Msgs /\ replyPort[m] \in Ports /\ portOwner[replyPort[m]] \in Tasks
      BY DEF Answerable, CanReply
    <3> QED BY <2>18, <2>b, <3>1 DEF ReplyHeldMessage
  <2>19. CASE Die(t)
    BY <1>0, <2>19 DEF Die, Dying, msgVars, NoCall, Items
  <2>20. CASE UserDeletes(t) \/ FreeResources(t)
    BY <2>12, <2>13, <2>14, <2>20
       DEF UserDeletes, FreeResources, OwnReqs, OwnPorts, OwnMsgs
  <2>21. ASSUME NEW p \in Ports, WaitPortForAny(t, p) PROVE AwakeInv'
    BY <2>3, <2>21 DEF WaitPortForAny, Items
  <2>22. ASSUME NEW m \in Msgs, NEW p \in Ports, WaitPortForMsg(t, p, m) PROVE AwakeInv'
    BY <2>3, <2>22 DEF WaitPortForMsg, Items
  <2>23. ASSUME NEW r \in IOReqs, WaitIO(t, r) PROVE AwakeInv'
    BY <2>3, <2>23 DEF WaitIO, Items
  <2> HIDE DEF AwakeInv, ShapeInv, TypeOK, CallerAwake, WaitStates, ReplyPortsExist, User
  <2> QED BY <1>2, <2>1, <2>2, <2>4, <2>5, <2>6, <2>7, <2>8, <2>9, <2>10, <2>11, <2>15,
             <2>16, <2>17, <2>18, <2>19, <2>20, <2>21, <2>22, <2>23
          DEF TaskStep, DeathStep
<1>3. ASSUME NEW r \in IOReqs, CompleteIO(r) PROVE AwakeInv'
  <2> USE DEF AwakeInv, ShapeInv, TypeOK
  <2>1. WaitStates' /\ \A u \in Tasks : waitItem[u] \in {Idle, Aborted} => waitItem'[u] = waitItem[u]
    <3>1. CASE CompleteForWaiter(r)
      BY <1>3, <3>1 DEF CompleteIO, CompleteForWaiter, WaitStates, BusyIsOwned, Items
    <3>2. CASE CanReply(IOMsg[r]) /\ Deliver(replyPort[IOMsg[r]], IOMsg[r], "replied")
      BY <1>3, <3>2, DeliverAwake DEF CompleteIO, CanReply
    <3>3. CASE UNCHANGED <<holder, flag, listVars, waitItem, asleep>>
      BY <1>3, <3>3 DEF CompleteIO, WaitStates
    <3> QED BY <1>3, <3>1, <3>2, <3>3 DEF CompleteIO
  <2> QED BY <1>0, <1>3, <2>1 DEF CompleteIO, CallerAwake, CallShape, ReplyPortsExist
<1>4. CASE CallStep
  <2> USE DEF AwakeInv, ShapeInv, TypeOK
  <2>1. CASE GetDone
    BY <1>0, <2>1 DEF GetDone, waitVars, CallerAwake, WaitStates, ReplyPortsExist, NoCall
  <2>2. CASE Drain
    BY <1>0, <2>2 DEF Drain, Take, waitVars, CallerAwake, WaitStates, ReplyPortsExist
  <2>3. CASE Bounce
    <3>1. WaitStates' /\ \A u \in Tasks : waitItem[u] \in {Idle, Aborted} => waitItem'[u] = waitItem[u]
      <4>1. CASE ReturnToSender(call.msg, call.port)
        BY <2>3, <4>1, DeliverAwake DEF Bounce, ReturnToSender, CanReply, CallShape
      <4>2. CASE ~ReturnToSender(call.msg, call.port)
        BY <2>3, <4>2 DEF Bounce, WaitStates
      <4> QED BY <4>1, <4>2
    <3> QED BY <1>0, <2>3, <3>1 DEF Bounce, CallerAwake, CallShape, ReplyPortsExist
  <2>4. CASE DeleteMsgPortDone
    BY <1>0, <2>4 DEF DeleteMsgPortDone, msgVars, waitVars, CallerAwake, WaitStates,
                ReplyPortsExist, NoCall
  <2>5. CASE DeleteMsgDone
    BY <1>0, <2>5 DEF DeleteMsgDone, CallerAwake, WaitStates, ReplyPortsExist, NoCall
  <2>6. CASE SetMsgPortOwnerDone
    BY <1>0, <2>6 DEF SetMsgPortOwnerDone, msgVars, waitVars, CallerAwake, WaitStates,
                ReplyPortsExist, CallShape, NoCall
  <2> QED BY <1>4, <2>1, <2>2, <2>3, <2>4, <2>5, <2>6 DEF CallStep
<1> QED BY <1>1, <1>2, <1>3, <1>4 DEF Next

-----------------------------------------------------------------------------
(* One place for every message.                                            *)

\* What I/O requests need: nobody else of the creator's family can get at the
\* request's message, and no port that a request is created with is given away.
PrivateRequests ==
    /\ \A r \in IOReqs : \A t \in Tasks : IsSameTaskFamily(t, Creator[r]) => t = Creator[r]
    /\ IOPorts \cap Transfers = {}

\* Where the message of the pending call is.
CallState ==
    /\ call.op = "get" =>
          /\ msgOwner[call.msg] \in Tasks
          /\ Linked(call.msg) = {call.by} /\ flag[call.msg] = "none"
          /\ \A r \in IOReqs : IOMsg[r] = call.msg =>
                call.by = Creator[r] \/ call.port = replyPort[call.msg]
    /\ call.op = "bounce" =>
          /\ msgOwner[call.msg] \in Tasks
          /\ holder[call.msg] = call.by
          /\ \A r \in IOReqs : IOMsg[r] = call.msg => ~busy[r]
    /\ call.op = "delete" =>
          /\ msgOwner[call.msg] \in Tasks
          /\ Linked(call.msg) = {}
          /\ \A r \in IOReqs : IOMsg[r] = call.msg => reqOwner[r] \notin Tasks

\* A request and its message have the same owner, and the message is never sent.
RequestMessages ==
    /\ \A r \in IOReqs :
          /\ reqOwner[r] \in Tasks => msgOwner[IOMsg[r]] = reqOwner[r]
          /\ msgOwner[IOMsg[r]] \in Tasks /\ flag[IOMsg[r]] = "sent" => InTransit(IOMsg[r])
    /\ \A m \in Msgs : msgOwner[m] = Unborn => flag[m] = "none"

\* The message of a request is with its creator or on its reply port; it is with
\* another task only when that port is being deleted or is gone.
RequestsAtHome ==
    \A r \in IOReqs : msgOwner[IOMsg[r]] \in Tasks =>
        /\ msgOwner[IOMsg[r]] = Creator[r]
        /\ replyPort[IOMsg[r]] \in IOPorts
        /\ portOwner[replyPort[IOMsg[r]]] \in {Creator[r], Gone}
        /\ holder[IOMsg[r]] \in Ports => holder[IOMsg[r]] = replyPort[IOMsg[r]]
        /\ holder[IOMsg[r]] \in Tasks \ {Creator[r]} =>
              portOwner[replyPort[IOMsg[r]]] = Gone \/ Closing(replyPort[IOMsg[r]])

PlaceInv == /\ AwakeInv /\ MessageInOnePlace
            /\ CallState /\ RequestMessages /\ RequestsAtHome

\* What MessageInOnePlace says of one message.
InPlace(n) ==
    /\ msgOwner[n] \notin Tasks => Linked(n) = {}
    /\ msgOwner[n] \in Tasks /\ ~InTransit(n) =>
          /\ Linked(n) = {holder[n]}
          /\ holder[n] \in Ports <=> flag[n] # "none"
          /\ holder[n] \in Ports => portOwner[holder[n]] \in Tasks
    /\ \A r \in IOReqs : busy[r] /\ IOMsg[r] = n =>
          msgOwner[n] \in Tasks /\ flag[n] = "none" /\ ~InTransit(n)

\* What RequestsAtHome says of one request.
AtHome(r) ==
    /\ msgOwner[IOMsg[r]] = Creator[r]
    /\ replyPort[IOMsg[r]] \in IOPorts
    /\ portOwner[replyPort[IOMsg[r]]] \in {Creator[r], Gone}
    /\ holder[IOMsg[r]] \in Ports => holder[IOMsg[r]] = replyPort[IOMsg[r]]
    /\ holder[IOMsg[r]] \in Tasks \ {Creator[r]} =>
          portOwner[replyPort[IOMsg[r]]] = Gone \/ Closing(replyPort[IOMsg[r]])

\* The parts of PlaceInv that say where messages are.
Places == MessageInOnePlace /\ CallState /\ RequestMessages /\ RequestsAtHome

\* A call is not about message m afterwards, and is about what it was else.
CallLeaves(m) ==
    /\ ~InTransit(m)
    /\ \/ call' = call /\ (call.op = "bounce" => call.msg # m)
       \/ call.op = "bounce" /\ call' = [call EXCEPT !.op = "drain", !.msg = NoItem]

(* Then no other message comes into transit, and no port opens or closes. *)
LEMMA CallLeft ==
    ASSUME AwakeInv, NEW m \in Msgs, CallLeaves(m)
    PROVE  /\ \A n \in Msgs : InTransit(n)' <=> InTransit(n)
           /\ \A p \in Ports : Closing(p)' <=> Closing(p)
           /\ call'.op = call.op => call' = call /\ (call.op = "bounce" => call.msg # m)
           /\ call'.op # call.op => call.op = "bounce" /\ call'.op = "drain"
BY DEF AwakeInv, ShapeInv, TypeOK, CallLeaves, InTransit, Closing

(* A message that has no other place goes to task or port x. *)
LEMMA MovedPlaces ==
    ASSUME PlaceInv, NEW m \in Msgs, NEW x \in Tasks \cup Ports, Relinked(m, x), CallLeaves(m),
           holder' = [holder EXCEPT ![m] = x],
           \A n \in Msgs \ {m} : flag'[n] = flag[n] /\ msgOwner'[n] = msgOwner[n],
           flag'[m] \in {"none", "sent", "replied"}, msgOwner'[m] \in Tasks,
           x \in Tasks <=> flag'[m] = "none",
           x \in Ports => portOwner[x] \in Tasks,
           \A r \in IOReqs : IOMsg[r] = m =>
              /\ msgOwner'[m] = msgOwner[m] /\ flag'[m] # "sent" /\ ~busy'[r]
              /\ x = Creator[r] \/ x = replyPort[m],
           \A r \in IOReqs : busy'[r] => busy[r],
           UNCHANGED <<portOwner, replyPort, reqOwner>>
    PROVE  Places'
<1> USE DEF PlaceInv, AwakeInv, ShapeInv, TypeOK
<1>1. /\ Linked(m)' = {x}
      /\ \A n \in Msgs \ {m} : Linked(n)' = Linked(n) /\ holder'[n] = holder[n]
      /\ holder'[m] = x
  BY RelinkedPlaces
<1>2. /\ \A n \in Msgs : InTransit(n)' <=> InTransit(n)
      /\ \A p \in Ports : Closing(p)' <=> Closing(p)
      /\ ~InTransit(m)
      /\ call'.op = call.op => call' = call /\ (call.op = "bounce" => call.msg # m)
      /\ call'.op # call.op => call.op = "bounce" /\ call'.op = "drain"
  BY CallLeft DEF CallLeaves
<1>3. MessageInOnePlace'
  <2> SUFFICES ASSUME NEW n \in Msgs PROVE InPlace(n)'
    BY DEF MessageInOnePlace, InPlace
  <2>1. CASE n = m
    BY <1>1, <1>2, <2>1, Apart DEF InPlace
  <2>2. CASE n # m
    BY <1>1, <1>2, <2>2 DEF MessageInOnePlace, InPlace
  <2> QED BY <2>1, <2>2
<1>4. CallState'
  <2>1. CASE call' = call
    <3>1. call.op \in {"get", "delete"} => call.msg # m
      BY <1>2 DEF InTransit
    <3> QED BY <1>1, <1>2, <2>1, <3>1, Apart DEF CallState, CallShape
  <2>2. CASE call' # call
    BY <1>2, <2>2 DEF CallState
  <2> QED BY <2>1, <2>2
<1>5. RequestMessages'
  <2>1. ASSUME NEW r \in IOReqs
        PROVE  (/\ reqOwner[r] \in Tasks => msgOwner[IOMsg[r]] = reqOwner[r]
                /\ msgOwner[IOMsg[r]] \in Tasks /\ flag[IOMsg[r]] = "sent" =>
                      InTransit(IOMsg[r]))'
    <3>1. CASE IOMsg[r] = m
      BY <3>1 DEF RequestMessages
    <3>2. CASE IOMsg[r] # m
      BY <1>2, <3>2, Apart DEF RequestMessages
    <3> QED BY <3>1, <3>2
  <2>2. (\A n \in Msgs : msgOwner[n] = Unborn => flag[n] = "none")'
    BY Apart DEF RequestMessages
  <2> QED BY <2>1, <2>2 DEF RequestMessages
<1>6. RequestsAtHome'
  <2> SUFFICES ASSUME NEW r \in IOReqs, (msgOwner[IOMsg[r]] \in Tasks)' PROVE AtHome(r)'
    BY DEF RequestsAtHome, AtHome
  <2>0. IOMsg[r] \in Msgs /\ replyPort[IOMsg[r]] \in Ports \cup {NoItem} /\ IOPorts \subseteq Ports
        /\ Creator[r] \in Tasks
    BY Apart, MsgPortsAssumption DEF Items
  <2>1. CASE IOMsg[r] = m
    BY <1>1, <1>2, <2>0, <2>1, Apart DEF RequestsAtHome, AtHome
  <2>2. CASE IOMsg[r] # m
    BY <1>1, <1>2, <2>0, <2>2 DEF RequestsAtHome, AtHome
  <2> QED BY <2>1, <2>2
<1> QED BY <1>3, <1>4, <1>5, <1>6 DEF Places

(* A message that a task holds is delivered to port p. *)
LEMMA DeliverPlaces ==
    ASSUME PlaceInv, NEW m \in Msgs, NEW p \in Ports, portOwner[p] \in Tasks,
           NEW how \in {"sent", "replied"}, Deliver(p, m, how), CallLeaves(m),
           msgOwner[m] \in Tasks, flag[m] = "none", msgOwner'[m] \in Tasks,
           \A n \in Msgs \ {m} : msgOwner'[n] = msgOwner[n],
           \A r \in IOReqs : IOMsg[r] = m =>
              msgOwner' = msgOwner /\ how = "replied" /\ p = replyPort[m] /\ ~busy'[r],
           \A r \in IOReqs : busy'[r] => busy[r],
           UNCHANGED <<portOwner, replyPort, reqOwner>>
    PROVE  Places'
<1> USE DEF PlaceInv, AwakeInv, ShapeInv, TypeOK
<1>1. \A r \in IOReqs : IOMsg[r] = m => portOwner[p] = Creator[r]
  BY Apart DEF RequestsAtHome
<1>2. CASE Given(portOwner[p], p, m)
  <2> DEFINE x == portOwner[p]
  <2>1. Relinked(m, x) /\ holder' = [holder EXCEPT ![m] = x] /\ flag' = flag
    BY <1>2 DEF Given
  <2>2. x \in Tasks \cup Ports /\ x \notin Ports /\ x \in Tasks
    BY Apart
  <2>3. \A r \in IOReqs : IOMsg[r] = m => x = Creator[r]
    BY <1>1
  <2> HIDE DEF x, PlaceInv, AwakeInv, ShapeInv, TypeOK
  <2> QED BY <2>1, <2>2, <2>3, MovedPlaces
<1>3. CASE Queued(p, m, how)
  <2>1. Relinked(m, p) /\ holder' = [holder EXCEPT ![m] = p] /\ p \notin Tasks
    BY <1>3, Apart DEF Queued
  <2>2. \A n \in Msgs : flag'[n] = IF n = m THEN how ELSE flag[n]
    BY <1>3 DEF Queued
  <2> HIDE DEF PlaceInv, AwakeInv, ShapeInv, TypeOK
  <2> QED BY <2>1, <2>2, MovedPlaces
<1> QED BY <1>2, <1>3, DeliverCases

(* Steps that touch no message, list or request leave all in its place. *)
LEMMA SamePlaces ==
    ASSUME PlaceInv, UNCHANGED <<portOwner, msgVars, listVars, ioVars, call>>
    PROVE  Places'
BY DEF PlaceInv, Places, MessageInOnePlace, CallState, RequestMessages, RequestsAtHome,
       Linked, InTransit, Closing, msgVars, listVars, ioVars

(* The disabled section of GetMsg, for a message on a queue. *)
LEMMA TakePlaces ==
    ASSUME PlaceInv, NEW t \in Tasks, NEW m \in Msgs, NEW port \in Ports \cup {NoItem},
           Take(t, m, port), call.op \notin {"get", "delete"},
           msgOwner[m] \in Tasks, holder[m] \in Ports,
           port # NoItem => holder[m] = port,
           call.op \in {"drain", "bounce"} => call.port = port,
           \A r \in IOReqs : IOMsg[r] = m => t = Creator[r] \/ port # NoItem
    PROVE  Places'
<1> USE DEF PlaceInv, AwakeInv, ShapeInv, TypeOK
<1>1. Relinked(m, t)
  BY ToTask DEF Take
<1>2. Linked(m)' = {t} /\ \A n \in Msgs \ {m} : Linked(n)' = Linked(n)
  BY <1>1, RelinkedPlaces
<1>3. /\ \A n \in Msgs : ~InTransit(n) /\ (InTransit(n)' <=> n = m)
      /\ \A p \in Ports : Closing(p) => Closing(p)'
  BY DEF Take, InTransit, Closing
<1>4. flag[m] # "none" /\ \A r \in IOReqs : IOMsg[r] = m => ~busy[r]
  BY <1>3 DEF MessageInOnePlace
<1>5. /\ flag'[m] = "none" /\ \A n \in Msgs \ {m} : flag'[n] = flag[n]
      /\ UNCHANGED <<portOwner, msgOwner, replyPort, holder, reqOwner, busy>>
      /\ call' = [op |-> "get", by |-> t, port |-> port, msg |-> m]
  BY DEF Take, ioVars
<1>6. MessageInOnePlace'
  <2> SUFFICES ASSUME NEW n \in Msgs PROVE InPlace(n)'
    BY DEF MessageInOnePlace, InPlace
  <2>1. CASE n = m
    BY <1>3, <1>4, <1>5, <2>1 DEF InPlace
  <2>2. CASE n # m
    BY <1>2, <1>3, <1>5, <2>2 DEF MessageInOnePlace, InPlace
  <2> QED BY <2>1, <2>2
<1>7. CallState'
  <2>1. \A r \in IOReqs : IOMsg[r] = m => t = Creator[r] \/ port = replyPort[m]
    BY DEF RequestsAtHome
  <2> QED BY <1>2, <1>5, <2>1 DEF CallState
<1>8. RequestMessages'
  BY <1>3, <1>5, Apart DEF RequestMessages
<1>9. RequestsAtHome'
  <2>1. \A r \in IOReqs : msgOwner[IOMsg[r]] \in Tasks => replyPort[IOMsg[r]] \in Ports
    BY MsgPortsAssumption DEF RequestsAtHome
  <2> QED BY <1>3, <1>5, <2>1 DEF RequestsAtHome
<1> QED BY <1>6, <1>7, <1>8, <1>9 DEF Places

(* A new message is with its creator. *)
LEMMA NewMsgPlaces ==
    ASSUME PlaceInv, NEW t \in Tasks, User(t), NEW m \in Msgs,
           NEW port \in Ports \cup {NoItem}, NewMsg(t, m, port),
           \A r \in IOReqs : IOMsg[r] = m =>
              t = Creator[r] /\ port \in IOPorts /\ portOwner[port] = t,
           \A r \in IOReqs : reqOwner'[r] \in Tasks =>
              (reqOwner'[r] = t /\ IOMsg[r] = m) \/ reqOwner'[r] = reqOwner[r],
           \A r \in IOReqs : IOMsg[r] = m /\ reqOwner'[r] \in Tasks => reqOwner'[r] = t,
           UNCHANGED <<portOwner, flag, queue, busy, call>>
    PROVE  Places'
<1> USE DEF PlaceInv, AwakeInv, ShapeInv, TypeOK
<1>1. call = NoCall /\ call.op = "none" /\ msgOwner[m] = Unborn /\ flag[m] = "none"
  BY DEF User, NewMsg, RequestMessages, NoCall
<1>2. /\ msgOwner'[m] = t /\ replyPort'[m] = port /\ holder'[m] = t
      /\ \A n \in Msgs \ {m} : /\ msgOwner'[n] = msgOwner[n] /\ replyPort'[n] = replyPort[n]
                               /\ holder'[n] = holder[n]
  BY DEF NewMsg
<1>3. Linked(m) = {}
  BY <1>1, Apart DEF MessageInOnePlace
<1>4. Linked(m)' = {t} /\ \A n \in Msgs \ {m} : Linked(n)' = Linked(n)
  BY <1>3 DEF NewMsg, Linked
<1>5. \A n \in Msgs : ~InTransit(n) /\ ~InTransit(n)'
  BY <1>1 DEF InTransit
<1>6. MessageInOnePlace'
  <2> SUFFICES ASSUME NEW n \in Msgs PROVE InPlace(n)'
    BY DEF MessageInOnePlace, InPlace
  <2>1. CASE n = m
    BY <1>1, <1>2, <1>4, <1>5, <2>1, Apart DEF InPlace
  <2>2. CASE n # m
    BY <1>2, <1>4, <1>5, <2>2 DEF MessageInOnePlace, InPlace
  <2> QED BY <2>1, <2>2
<1>7. CallState'
  BY <1>1 DEF CallState
<1>8. RequestMessages'
  <2>1. ASSUME NEW r \in IOReqs, reqOwner'[r] \in Tasks PROVE msgOwner'[IOMsg[r]] = reqOwner'[r]
    <3>1. CASE IOMsg[r] = m
      BY <1>2, <2>1, <3>1
    <3>2. CASE IOMsg[r] # m
      BY <1>2, <2>1, <3>2, Apart DEF RequestMessages
    <3> QED BY <3>1, <3>2
  <2>2. ASSUME NEW r \in IOReqs, msgOwner'[IOMsg[r]] \in Tasks PROVE flag[IOMsg[r]] # "sent"
    BY <1>1, <1>2, <1>5, <2>2, Apart DEF RequestMessages
  <2>3. \A n \in Msgs : msgOwner'[n] = Unborn => flag[n] = "none"
    BY <1>1, <1>2 DEF RequestMessages
  <2> QED BY <2>1, <2>2, <2>3 DEF RequestMessages
<1>9. RequestsAtHome'
  <2> SUFFICES ASSUME NEW r \in IOReqs, (msgOwner[IOMsg[r]] \in Tasks)' PROVE AtHome(r)'
    BY DEF RequestsAtHome, AtHome
  <2>1. CASE IOMsg[r] = m
    BY <1>2, <2>1, Apart DEF AtHome
  <2>2. CASE IOMsg[r] # m
    BY <1>1, <1>2, <2>2, Apart DEF RequestsAtHome, AtHome, Closing
  <2> QED BY <2>1, <2>2
<1> QED BY <1>6, <1>7, <1>8, <1>9 DEF Places

(* A message that is deleted is linked nowhere, and no request of a task needs it. *)
LEMMA DeletePlaces ==
    ASSUME PlaceInv, NEW t \in Tasks, NEW m \in Msgs, call = NoCall, DeleteMsg(t, m),
           \A r \in IOReqs : IOMsg[r] = m => ~busy[r] /\ reqOwner'[r] \notin Tasks,
           \A r \in IOReqs : reqOwner'[r] \in Tasks => reqOwner'[r] = reqOwner[r]
    PROVE  Places'
<1> USE DEF PlaceInv, AwakeInv, ShapeInv, TypeOK
<1>1. Linked(m)' = {} /\ \A n \in Msgs \ {m} : Linked(n)' = Linked(n)
  BY ToNowhere, RelinkedPlaces, Apart DEF DeleteMsg
<1>2. /\ flag'[m] = "sent" /\ \A n \in Msgs \ {m} : flag'[n] = flag[n]
      /\ UNCHANGED <<portOwner, msgOwner, replyPort, holder, busy>>
      /\ call' = [op |-> "delete", by |-> t, port |-> NoItem, msg |-> m]
      /\ msgOwner[m] \in Tasks
  BY DEF DeleteMsg
<1>3. /\ \A n \in Msgs : ~InTransit(n) /\ (InTransit(n)' <=> n = m)
      /\ \A p \in Ports : ~Closing(p) /\ ~Closing(p)'
  BY <1>2 DEF InTransit, Closing, NoCall
<1>4. MessageInOnePlace'
  <2> SUFFICES ASSUME NEW n \in Msgs PROVE InPlace(n)'
    BY DEF MessageInOnePlace, InPlace
  <2>1. CASE n = m
    BY <1>1, <1>2, <1>3, <2>1, Apart DEF InPlace
  <2>2. CASE n # m
    BY <1>1, <1>2, <1>3, <2>2 DEF MessageInOnePlace, InPlace
  <2> QED BY <2>1, <2>2
<1>5. CallState'
  BY <1>1, <1>2 DEF CallState
<1>6. RequestMessages'
  BY <1>2, <1>3, Apart DEF RequestMessages
<1>7. RequestsAtHome'
  <2>1. \A r \in IOReqs : msgOwner[IOMsg[r]] \in Tasks => replyPort[IOMsg[r]] \in Ports
    BY MsgPortsAssumption DEF RequestsAtHome
  <2> QED BY <1>2, <1>3, <2>1 DEF RequestsAtHome
<1> QED BY <1>4, <1>5, <1>6, <1>7 DEF Places

(* The second steps of the calls. *)
LEMMA CallStepPlaces ==
    ASSUME PrivateRequests, PlaceInv, CallStep
    PROVE  Places'
<1> USE DEF PlaceInv, AwakeInv, ShapeInv, TypeOK
<1>0. \A r \in IOReqs : msgOwner[IOMsg[r]] \in Tasks => replyPort[IOMsg[r]] \in Ports
  BY MsgPortsAssumption DEF RequestsAtHome
<1>1. CASE GetDone
  <2> DEFINE m == call.msg
  <2>1. /\ m \in Msgs /\ call.by \in Tasks /\ InTransit(m) /\ call.op = "get"
        /\ holder'[m] = call.by /\ \A n \in Msgs \ {m} : holder'[n] = holder[n]
        /\ UNCHANGED <<portOwner, msgOwner, replyPort, flag, queue, held, reqOwner, busy>>
    BY <1>1 DEF GetDone, CallShape, InTransit, listVars, ioVars
  <2>2. \/ call.port = NoItem /\ call'.op = "none"
        \/ /\ call.port \in Ports /\ call'.op = "bounce"
           /\ call'.by = call.by /\ call'.port = call.port /\ call'.msg = m
    BY <1>1 DEF GetDone, NoCall
  <2>3. \A n \in Msgs : ~InTransit(n)' /\ (n # m => ~InTransit(n)) /\ Linked(n)' = Linked(n)
    BY <2>1, <2>2 DEF InTransit, Linked
  <2>4. \A p \in Ports : Closing(p) <=> Closing(p)'
    BY <2>1, <2>2, Apart DEF Closing
  <2>5. /\ msgOwner[m] \in Tasks /\ Linked(m) = {call.by} /\ flag[m] = "none"
        /\ \A r \in IOReqs : IOMsg[r] = m =>
             ~busy[r] /\ (call.by = Creator[r] \/ call.port = replyPort[m])
    BY <2>1 DEF CallState, MessageInOnePlace
  <2> HIDE DEF m
  <2>6. MessageInOnePlace'
    <3> SUFFICES ASSUME NEW n \in Msgs PROVE InPlace(n)'
      BY DEF MessageInOnePlace, InPlace
    <3>1. CASE n = m
      BY <2>1, <2>3, <2>5, <3>1, Apart DEF InPlace
    <3>2. CASE n # m
      BY <2>1, <2>3, <3>2 DEF MessageInOnePlace, InPlace
    <3> QED BY <3>1, <3>2
  <2>7. CallState'
    BY <2>1, <2>2, <2>5 DEF CallState
  <2>8. RequestMessages'
    BY <2>1, <2>3, <2>5, Apart DEF RequestMessages
  <2>9. RequestsAtHome'
    <3> SUFFICES ASSUME NEW r \in IOReqs, (msgOwner[IOMsg[r]] \in Tasks)' PROVE AtHome(r)'
      BY DEF RequestsAtHome, AtHome
    <3>1. CASE IOMsg[r] = m
      <4>1. call.by = Creator[r] \/ Closing(replyPort[m])
        BY <1>0, <2>1, <2>5, <3>1, Apart DEF Closing
      <4> QED BY <1>0, <2>1, <2>4, <3>1, <4>1, Apart DEF RequestsAtHome, AtHome
    <3>2. CASE IOMsg[r] # m
      BY <1>0, <2>1, <2>4, <3>2, Apart DEF RequestsAtHome, AtHome
    <3> QED BY <3>1, <3>2
  <2> QED BY <2>6, <2>7, <2>8, <2>9 DEF Places
<1>2. CASE Drain
  <2> DEFINE m == Head(queue[call.port])
  <2>1. /\ call.op = "drain" /\ call.port \in Ports /\ call.by \in Tasks
        /\ m \in Msgs /\ m \in Nodes(queue[call.port]) /\ Take(call.by, m, call.port)
    BY <1>2, HeadIsMsg DEF Drain, CallShape
  <2> HIDE DEF m
  <2>2. call.port \in Linked(m) /\ ~InTransit(m)
    BY <2>1 DEF Linked, InTransit
  <2>3. msgOwner[m] \in Tasks /\ holder[m] = call.port
    BY <2>1, <2>2 DEF MessageInOnePlace
  <2>4. call.port \in Ports \cup {NoItem} /\ call.port # NoItem
    BY <2>1, Apart
  <2> HIDE DEF PlaceInv, AwakeInv, ShapeInv, TypeOK
  <2> QED BY <2>1, <2>3, <2>4, TakePlaces
<1>3. CASE Bounce
  <2> DEFINE m == call.msg
  <2>1. /\ m \in Msgs /\ call.by \in Tasks /\ ~InTransit(m) /\ call.op = "bounce"
        /\ msgOwner[m] \in Tasks /\ holder[m] = call.by
        /\ \A r \in IOReqs : IOMsg[r] = m => ~busy[r]
    BY <1>3 DEF Bounce, CallShape, CallState, InTransit
  <2>2. flag[m] = "none"
    BY <2>1, Apart DEF MessageInOnePlace
  <2>3. CallLeaves(m) /\ UNCHANGED <<portOwner, msgOwner, replyPort, reqOwner, busy>>
    BY <1>3, <2>1 DEF Bounce, CallLeaves, ioVars
  <2>4. CASE ReturnToSender(m, call.port)
    <3>1. /\ replyPort[m] \in Ports /\ portOwner[replyPort[m]] \in Tasks
          /\ Deliver(replyPort[m], m, "replied")
      BY <1>3, <2>4 DEF Bounce, ReturnToSender, CanReply
    <3> HIDE DEF m, PlaceInv, AwakeInv, ShapeInv, TypeOK
    <3> QED BY <2>1, <2>2, <2>3, <3>1, DeliverPlaces
  <2>5. CASE ~ReturnToSender(m, call.port)
    <3>1. UNCHANGED <<holder, flag, queue, held>>
      BY <1>3, <2>5 DEF Bounce, listVars
    <3>2. \A n \in Msgs : Linked(n)' = Linked(n)
      BY <3>1 DEF Linked
    <3>3. /\ \A n \in Msgs : ~InTransit(n)' /\ ~InTransit(n)
          /\ \A p \in Ports : Closing(p)' <=> Closing(p)
      BY <1>3 DEF Bounce, InTransit, Closing
    <3>4. MessageInOnePlace'
      BY <2>3, <3>1, <3>2, <3>3 DEF MessageInOnePlace
    <3>5. CallState'
      BY <1>3 DEF Bounce, CallState
    <3>6. RequestMessages'
      BY <2>3, <3>1, <3>3, Apart DEF RequestMessages
    <3>7. RequestsAtHome'
      BY <1>0, <2>3, <3>1, <3>3 DEF RequestsAtHome
    <3> QED BY <3>4, <3>5, <3>6, <3>7 DEF Places
  <2> QED BY <2>4, <2>5
<1>4. CASE DeleteMsgPortDone
  <2> DEFINE p == call.port
  <2>1. /\ p \in Ports /\ call.op = "drain" /\ call'.op = "none" /\ queue[p] = << >>
        /\ portOwner'[p] = Gone /\ \A x \in Ports \ {p} : portOwner'[x] = portOwner[x]
        /\ UNCHANGED <<msgOwner, replyPort, holder, flag, queue, held, reqOwner, busy>>
    BY <1>4 DEF DeleteMsgPortDone, CallShape, NoCall, msgVars, listVars, ioVars
  <2>2. \A n \in Msgs : ~InTransit(n) /\ ~InTransit(n)' /\ Linked(n)' = Linked(n)
    BY <2>1 DEF InTransit, Linked
  <2>3. \A n \in Msgs : p \notin Linked(n)
    BY <2>1, Apart DEF Linked, Nodes
  <2>4. \A n \in Msgs : msgOwner[n] \in Tasks => holder[n] # p
    BY <2>2, <2>3 DEF MessageInOnePlace
  <2>5. \A x \in Ports : Closing(x) <=> x = p
    BY <2>1 DEF Closing
  <2> HIDE DEF p
  <2>6. MessageInOnePlace'
    BY <2>1, <2>2, <2>4 DEF MessageInOnePlace
  <2>7. CallState'
    BY <2>1 DEF CallState
  <2>8. RequestMessages'
    BY <2>1, <2>2, Apart DEF RequestMessages
  <2>9. RequestsAtHome'
    <3> SUFFICES ASSUME NEW r \in IOReqs, (msgOwner[IOMsg[r]] \in Tasks)' PROVE AtHome(r)'
      BY DEF RequestsAtHome, AtHome
    <3>1. CASE replyPort[IOMsg[r]] = p
      BY <2>1, <3>1 DEF RequestsAtHome, AtHome
    <3>2. CASE replyPort[IOMsg[r]] # p
      BY <1>0, <2>1, <2>5, <3>2 DEF RequestsAtHome, AtHome
    <3> QED BY <3>1, <3>2
  <2> QED BY <2>6, <2>7, <2>8, <2>9 DEF Places
<1>5. CASE DeleteMsgDone
  <2> DEFINE m == call.msg
  <2>1. /\ m \in Msgs /\ call.op = "delete" /\ call'.op = "none"
        /\ msgOwner'[m] = Gone /\ \A n \in Msgs \ {m} : msgOwner'[n] = msgOwner[n]
        /\ UNCHANGED <<portOwner, replyPort, holder, flag, queue, held, reqOwner, busy>>
    BY <1>5 DEF DeleteMsgDone, CallShape, NoCall, listVars, ioVars
  <2>2. \A n \in Msgs : ~InTransit(n)' /\ Linked(n)' = Linked(n) /\ (n # m => ~InTransit(n))
    BY <2>1 DEF InTransit, Linked
  <2>3. Linked(m) = {} /\ \A r \in IOReqs : IOMsg[r] = m => reqOwner[r] \notin Tasks /\ ~busy[r]
    BY <2>1 DEF CallState, BusyIsOwned
  <2>4. \A x \in Ports : ~Closing(x)
    BY <2>1 DEF Closing
  <2> HIDE DEF m
  <2>5. MessageInOnePlace'
    <3> SUFFICES ASSUME NEW n \in Msgs PROVE InPlace(n)'
      BY DEF MessageInOnePlace, InPlace
    <3>1. CASE n = m
      BY <2>1, <2>2, <2>3, <3>1, Apart DEF InPlace
    <3>2. CASE n # m
      BY <2>1, <2>2, <3>2 DEF MessageInOnePlace, InPlace
    <3> QED BY <3>1, <3>2
  <2>6. CallState'
    BY <2>1 DEF CallState
  <2>7. RequestMessages'
    <3>1. \A r \in IOReqs : reqOwner[r] \in Tasks => msgOwner'[IOMsg[r]] = reqOwner[r]
      BY <2>1, <2>3, Apart DEF RequestMessages
    <3>2. \A r \in IOReqs : msgOwner'[IOMsg[r]] \in Tasks => flag[IOMsg[r]] # "sent"
      BY <2>1, <2>2, Apart DEF RequestMessages
    <3>3. \A n \in Msgs : msgOwner'[n] = Unborn => flag[n] = "none"
      BY <2>1, Apart DEF RequestMessages
    <3> QED BY <2>1, <3>1, <3>2, <3>3 DEF RequestMessages
  <2>8. RequestsAtHome'
    BY <1>0, <2>1, <2>4, Apart DEF RequestsAtHome
  <2> QED BY <2>5, <2>6, <2>7, <2>8 DEF Places
<1>6. CASE SetMsgPortOwnerDone
  <2> DEFINE p == call.port
  <2>1. /\ p \in Ports /\ p \notin IOPorts /\ call.op = "give" /\ call'.op = "none"
        /\ portOwner'[p] \in Tasks /\ \A x \in Ports \ {p} : portOwner'[x] = portOwner[x]
        /\ UNCHANGED <<msgOwner, replyPort, holder, flag, queue, held, reqOwner, busy>>
    BY <1>6 DEF SetMsgPortOwnerDone, CallShape, NoCall, msgVars, listVars, ioVars,
                PrivateRequests
  <2>2. \A n \in Msgs : ~InTransit(n) /\ ~InTransit(n)' /\ Linked(n)' = Linked(n)
    BY <2>1 DEF InTransit, Linked
  <2>3. \A x \in Ports : ~Closing(x)
    BY <2>1 DEF Closing
  <2> HIDE DEF p
  <2>4. MessageInOnePlace'
    BY <2>1, <2>2 DEF MessageInOnePlace
  <2>5. CallState'
    BY <2>1 DEF CallState
  <2>6. RequestMessages'
    BY <2>1, <2>2, Apart DEF RequestMessages
  <2>7. RequestsAtHome'
    BY <1>0, <2>1, <2>3 DEF RequestsAtHome
  <2> QED BY <2>4, <2>5, <2>6, <2>7 DEF Places
<1> QED BY <1>1, <1>2, <1>3, <1>4, <1>5, <1>6 DEF CallStep

(* A step that only begins a call on a port moves no message. *)
LEMMA PortCallPlaces ==
    ASSUME PlaceInv, call = NoCall, call'.op \in {"drain", "give"},
           UNCHANGED <<portOwner, msgVars, listVars, ioVars>>
    PROVE  Places'
<1> USE DEF PlaceInv, AwakeInv, ShapeInv, TypeOK
<1>1. /\ UNCHANGED <<portOwner, msgOwner, replyPort, holder, flag, queue, held, reqOwner, busy>>
      /\ \A n \in Msgs : ~InTransit(n) /\ ~InTransit(n)' /\ Linked(n)' = Linked(n)
      /\ \A p \in Ports : ~Closing(p)
  BY DEF InTransit, Linked, Closing, NoCall, msgVars, listVars, ioVars
<1>2. MessageInOnePlace'
  BY <1>1 DEF MessageInOnePlace
<1>3. CallState'
  BY DEF CallState
<1>4. RequestMessages'
  BY <1>1, Apart DEF RequestMessages
<1>5. RequestsAtHome'
  <2>1. \A r \in IOReqs : msgOwner[IOMsg[r]] \in Tasks => replyPort[IOMsg[r]] \in Ports
    BY MsgPortsAssumption DEF RequestsAtHome
  <2> QED BY <1>1, <2>1 DEF RequestsAtHome
<1> QED BY <1>2, <1>3, <1>4, <1>5 DEF Places

(* The steps of tasks. *)
LEMMA TaskStepPlaces ==
    ASSUME PrivateRequests, PlaceInv, NEW t \in Tasks, TaskStep(t)
    PROVE  Places'
<1>0. /\ AwakeInv /\ ShapeInv /\ TypeOK
      /\ \A n \in Msgs : call = NoCall => ~InTransit(n)
  BY DEF PlaceInv, AwakeInv, ShapeInv, InTransit, NoCall
\* A message linked at x belongs to a task and is held at x.
<1>a. ASSUME NEW n \in Msgs, NEW x \in Linked(n), call = NoCall
      PROVE  msgOwner[n] \in Tasks /\ holder[n] = x
  BY <1>0, <1>a DEF PlaceInv, MessageInOnePlace
\* A message that a task holds bears no flag.
<1>b. ASSUME NEW n \in Msgs, msgOwner[n] \in Tasks, holder[n] \in Tasks, call = NoCall
      PROVE  flag[n] = "none" /\ Linked(n) = {holder[n]}
  BY <1>0, <1>b, Apart DEF PlaceInv, MessageInOnePlace
<1>1. ASSUME NEW p \in Ports, CreateMsgPort(t, p) PROVE Places'
  <2> USE DEF PlaceInv, TypeOK
  <2>1. /\ portOwner[p] = Unborn /\ portOwner'[p] = t /\ call.op = "none"
        /\ \A x \in Ports \ {p} : portOwner'[x] = portOwner[x]
        /\ UNCHANGED <<msgOwner, replyPort, holder, flag, queue, held, reqOwner, busy, call>>
    BY <1>0, <1>1 DEF CreateMsgPort, User, NoCall, msgVars, listVars, ioVars
  <2>2. \A n \in Msgs : Linked(n)' = Linked(n) /\ (InTransit(n)' <=> InTransit(n))
    BY <2>1 DEF Linked, InTransit
  <2>3. \A r \in IOReqs : msgOwner[IOMsg[r]] \in Tasks =>
           replyPort[IOMsg[r]] \in Ports /\ replyPort[IOMsg[r]] # p
    BY <2>1, MsgPortsAssumption DEF RequestsAtHome, Items
  <2>4. MessageInOnePlace'
    BY <2>1, <2>2 DEF MessageInOnePlace
  <2>5. CallState' /\ RequestMessages'
    BY <2>1, <2>2, Apart DEF CallState, RequestMessages
  <2>6. RequestsAtHome'
    BY <2>1, <2>3 DEF RequestsAtHome, Closing
  <2> QED BY <2>4, <2>5, <2>6 DEF Places
<1>2. ASSUME NEW p \in Ports, GetMsg(t, p) PROVE Places'
  <2> DEFINE m == Head(queue[p])
  <2>1. /\ m \in Msgs /\ m \in Nodes(queue[p]) /\ Take(t, m, NoItem)
        /\ call = NoCall /\ call.op = "none" /\ portOwner[p] = t
    BY <1>0, <1>2, HeadIsMsg DEF GetMsg, User, NoCall
  <2> HIDE DEF m
  <2>2. msgOwner[m] \in Tasks /\ holder[m] = p
    BY <1>a, <2>1 DEF Linked
  <2>3. \A r \in IOReqs : IOMsg[r] = m => t = Creator[r]
    BY <2>1, <2>2, Apart DEF PlaceInv, RequestsAtHome
  <2> QED BY <2>1, <2>2, <2>3, TakePlaces
<1>3. ASSUME NEW item, NEW port, Sleep(t, item, port) PROVE Places'
  BY <1>3, SamePlaces DEF Sleep
<1>4. ASSUME NEW p \in Ports, NEW u \in Tasks, SetMsgPortOwner(t, p, u) PROVE Places'
  BY <1>4, PortCallPlaces DEF SetMsgPortOwner, User
<1>5. ASSUME NEW m \in Msgs, NEW p \in Ports \cup {NoItem}, CreateMsg(t, m, p)
      PROVE  Places'
  <2>1. \A r \in IOReqs : IOMsg[r] # m
    BY <1>5, Apart DEF CreateMsg
  <2> QED BY <1>5, <2>1, NewMsgPlaces DEF CreateMsg, ioVars
<1>6. ASSUME NEW m \in Msgs, NEW p \in Ports, SendMsg(t, p, m) PROVE Places'
  <2>1. \A r \in IOReqs : IOMsg[r] # m
    BY <1>6, Apart DEF SendMsg, ByHand
  <2>2. msgOwner'[m] \in Tasks /\ \A n \in Msgs \ {m} : msgOwner'[n] = msgOwner[n]
    BY <1>0, <1>6 DEF SendMsg, TypeOK
  <2>3. CallLeaves(m)
    BY <1>0, <1>6 DEF SendMsg, User, CallLeaves, NoCall
  <2> QED BY <1>6, <2>1, <2>2, <2>3, DeliverPlaces DEF SendMsg, ioVars
<1>7. ASSUME NEW m \in Msgs, ReplyMsg(t, m) PROVE Places'
  <2>1. \A r \in IOReqs : IOMsg[r] # m
    BY <1>7, Apart DEF ReplyMsg, ByHand
  <2>2. CallLeaves(m)
    BY <1>0, <1>7 DEF ReplyMsg, User, CallLeaves, NoCall
  <2> QED BY <1>7, <2>1, <2>2, DeliverPlaces DEF ReplyMsg, CanReply, ioVars
<1>8. ASSUME NEW m \in Msgs, GetThisMsg(t, m) PROVE Places'
  <2>1. /\ Take(t, m, NoItem) /\ call = NoCall /\ call.op = "none"
        /\ msgOwner[m] \in Tasks /\ holder[m] \in Ports /\ portOwner[holder[m]] \in Tasks
        /\ \/ IsSameTaskFamily(t, msgOwner[m])
           \/ IsSameTaskFamily(t, portOwner[holder[m]])
    BY <1>8 DEF GetThisMsg, User, NoCall
  <2>2. \A r \in IOReqs : IOMsg[r] = m => t = Creator[r]
    BY <2>1, Apart DEF PlaceInv, RequestsAtHome, PrivateRequests
  <2> QED BY <2>1, <2>2, TakePlaces
<1>9. ASSUME NEW m \in Msgs, NEW u \in Tasks, SetMsgOwner(t, m, u) PROVE Places'
  <2>1. \A r \in IOReqs : IOMsg[r] # m
    BY <1>9, Apart DEF SetMsgOwner, ByHand
  <2>2. flag[m] = "none" /\ Linked(m) = {t}
    BY <1>9, <1>b DEF SetMsgOwner, User
  <2>3. Relinked(m, u)
    <3>1. \A p \in Ports : m \notin Nodes(queue[p])
      BY <2>2, Apart DEF Linked
    <3> QED BY <1>0, <1>9, <3>1, Apart
            DEF SetMsgOwner, Unheld, Relinked, TypeOK, ShapeInv, QueueInOrder
  <2>4. CallLeaves(m)
    BY <1>0, <1>9 DEF SetMsgOwner, User, CallLeaves, NoCall
  <2>5. /\ holder' = [holder EXCEPT ![m] = u] /\ flag' = flag
        /\ msgOwner'[m] \in Tasks /\ \A n \in Msgs \ {m} : msgOwner'[n] = msgOwner[n]
        /\ UNCHANGED <<portOwner, replyPort, reqOwner, busy>>
    BY <1>0, <1>9 DEF SetMsgOwner, ioVars, TypeOK
  <2> QED BY <2>1, <2>2, <2>3, <2>4, <2>5, Apart, MovedPlaces
<1>10. ASSUME NEW r \in IOReqs, NEW p \in Ports, CreateIOReq(t, r, p) PROVE Places'
  <2>1. Creator[r] = t /\ \A s \in IOReqs : IOMsg[s] = IOMsg[r] => s = r
    BY <1>10, MsgPortsAssumption DEF CreateIOReq, NewMsg
  <2>2. reqOwner'[r] = t /\ \A s \in IOReqs \ {r} : reqOwner'[s] = reqOwner[s]
    BY <1>0, <1>10 DEF CreateIOReq, TypeOK
  <2> QED BY <1>10, <2>1, <2>2, Apart, NewMsgPlaces DEF CreateIOReq
<1>11. ASSUME NEW r \in IOReqs, SendIO(t, r) PROVE Places'
  <2> DEFINE m == IOMsg[r]
  <2>1. /\ m \in Msgs /\ \A s \in IOReqs : IOMsg[s] = m => s = r
        /\ call.op = "none" /\ ~InTransit(m)
        /\ msgOwner[m] \in Tasks /\ flag[m] # "replied"
        /\ busy'[r] /\ \A s \in IOReqs \ {r} : busy'[s] = busy[s]
        /\ UNCHANGED <<portOwner, msgOwner, replyPort, holder, flag, queue, held, reqOwner, call>>
    BY <1>0, <1>11, Apart, MsgPortsAssumption
       DEF SendIO, User, NoCall, msgVars, listVars, TypeOK
  <2>2. flag[m] = "none"
    BY <1>0, <2>1 DEF TypeOK, PlaceInv, RequestMessages
  <2>3. \A n \in Msgs : Linked(n)' = Linked(n) /\ (InTransit(n)' <=> InTransit(n))
    BY <2>1 DEF Linked, InTransit
  <2> HIDE DEF m
  <2>4. MessageInOnePlace'
    <3> SUFFICES ASSUME NEW n \in Msgs PROVE InPlace(n)'
      BY DEF MessageInOnePlace, InPlace
    <3>1. InPlace(n)
      BY DEF PlaceInv, MessageInOnePlace, InPlace
    <3>2. CASE n = m
      BY <2>1, <2>2, <2>3, <3>1, <3>2 DEF InPlace
    <3>3. CASE n # m
      BY <2>1, <2>3, <3>1, <3>3 DEF InPlace, m
    <3> QED BY <3>2, <3>3
  <2>5. CallState' /\ RequestMessages' /\ RequestsAtHome'
    BY <2>1, <2>3, Apart DEF PlaceInv, CallState, RequestMessages, RequestsAtHome, Closing
  <2> QED BY <2>4, <2>5 DEF Places
<1>12. ASSUME NEW p \in Ports, call = NoCall, DeleteMsgPort(t, p) PROVE Places'
  BY <1>12, PortCallPlaces DEF DeleteMsgPort
<1>13. ASSUME NEW m \in Msgs, call = NoCall, DeleteMsg(t, m), UNCHANGED reqOwner,
              \A r \in IOReqs : IOMsg[r] = m => reqOwner[r] \notin Tasks
       PROVE  Places'
  <2>1. \A r \in IOReqs : IOMsg[r] = m => ~busy[r]
    BY <1>0, <1>13 DEF ShapeInv, BusyIsOwned
  <2> QED BY <1>13, <2>1, DeletePlaces
<1>14. ASSUME NEW r \in IOReqs, call = NoCall, DeleteIOReq(t, r) PROVE Places'
  <2>1. \A s \in IOReqs : IOMsg[s] = IOMsg[r] => s = r
    BY MsgPortsAssumption
  <2>2. reqOwner'[r] \notin Tasks /\ \A s \in IOReqs \ {r} : reqOwner'[s] = reqOwner[s]
    BY <1>0, <1>14, Apart DEF DeleteIOReq, TypeOK
  <2> QED BY <1>14, <2>1, <2>2, Apart, DeletePlaces DEF DeleteIOReq
<1>15. CASE WaitReturn(t) \/ Murder(t) \/ Exit(t) \/ Die(t)
  BY <1>15, SamePlaces DEF WaitReturn, Murder, Exit, Die
<1>16. CASE ReplyHeldMessage(t)
  <2> PICK m \in Answerable(t) : Deliver(replyPort[m], m, "replied")
    BY <1>16 DEF ReplyHeldMessage
  <2>1. /\ m \in Msgs /\ m \in held[t] /\ call = NoCall /\ CanReply(m)
        /\ replyPort[m] \in Ports /\ portOwner[replyPort[m]] \in Tasks /\ flag[m] = "none"
        /\ UNCHANGED <<portOwner, msgOwner, replyPort, reqOwner, busy, call>>
    BY <1>0, <1>16 DEF ReplyHeldMessage, Dying, Answerable, CanReply, TypeOK, ioVars
  <2>2. msgOwner[m] \in Tasks /\ holder[m] = t /\ msgOwner[m] # t
    BY <1>16, <1>a, <2>1 DEF Linked, ReplyHeldMessage, OwnsNothing, OwnMsgs
  <2>3. \A r \in IOReqs : IOMsg[r] # m
    BY <2>1, <2>2, Apart DEF PlaceInv, RequestsAtHome, Closing, NoCall
  <2>4. CallLeaves(m)
    BY <1>0, <2>1 DEF CallLeaves, NoCall
  <2> QED BY <2>1, <2>2, <2>3, <2>4, DeliverPlaces
<1>17. CASE UserDeletes(t)
  <2>1. call = NoCall
    BY <1>17 DEF UserDeletes, User
  <2>2. ASSUME NEW m \in Msgs \ IOMsgs, DeleteMsg(t, m), UNCHANGED reqOwner PROVE Places'
    BY <1>13, <2>1, <2>2, Apart
  <2> QED BY <1>12, <1>14, <1>17, <2>1, <2>2 DEF UserDeletes
<1>18. CASE FreeResources(t)
  <2>1. call = NoCall
    BY <1>18 DEF FreeResources, Dying
  <2>2. ASSUME OwnReqs(t) = {}, NEW m \in OwnMsgs(t), DeleteMsg(t, m), UNCHANGED reqOwner
        PROVE  Places'
    <3>1. \A r \in IOReqs : IOMsg[r] = m => reqOwner[r] \notin Tasks
      BY <2>2 DEF OwnReqs, OwnMsgs, PlaceInv, RequestMessages
    <3> QED BY <1>13, <2>1, <2>2, <3>1 DEF OwnMsgs
  <2>3. ASSUME NEW p \in OwnPorts(t), DeleteMsgPort(t, p) PROVE Places'
    BY <1>12, <2>1, <2>3 DEF OwnPorts
  <2>4. ASSUME NEW r \in OwnReqs(t), DeleteIOReq(t, r) PROVE Places'
    BY <1>14, <2>1, <2>4 DEF OwnReqs
  <2> QED BY <1>18, <2>2, <2>3, <2>4 DEF FreeResources
<1>19. ASSUME NEW p \in Ports, WaitPortForAny(t, p) PROVE Places'
  BY <1>3, <1>19 DEF WaitPortForAny
<1>20. ASSUME NEW m \in Msgs, NEW p \in Ports, WaitPortForMsg(t, p, m) PROVE Places'
  BY <1>3, <1>20 DEF WaitPortForMsg
<1>21. ASSUME NEW r \in IOReqs, WaitIO(t, r) PROVE Places'
  BY <1>3, <1>21 DEF WaitIO
<1> QED BY <1>1, <1>2, <1>4, <1>5, <1>6, <1>7, <1>8, <1>9, <1>10, <1>11, <1>15,
           <1>16, <1>17, <1>18, <1>19, <1>20, <1>21
        DEF TaskStep, DeathStep

(* The completion interrupt. *)
LEMMA CompleteIOPlaces ==
    ASSUME PlaceInv, NEW r \in IOReqs, CompleteIO(r)
    PROVE  Places'
<1> DEFINE m == IOMsg[r]
<1> USE DEF PlaceInv, AwakeInv, ShapeInv, TypeOK
<1>1. /\ m \in Msgs /\ \A s \in IOReqs : IOMsg[s] = m => s = r
      /\ busy[r] /\ ~busy'[r] /\ \A s \in IOReqs \ {r} : busy'[s] = busy[s]
      /\ UNCHANGED <<portOwner, msgOwner, replyPort, reqOwner, call>>
  BY Apart, MsgPortsAssumption DEF CompleteIO
<1>2. /\ msgOwner[m] \in Tasks /\ flag[m] = "none" /\ ~InTransit(m)
      /\ reqOwner[r] \in Tasks /\ msgOwner[m] = reqOwner[r] /\ reqOwner[r] = Creator[r]
  BY <1>1 DEF MessageInOnePlace, BusyIsOwned, RequestMessages, RequestsAtHome
<1>3. CallLeaves(m)
  BY <1>1, <1>2 DEF CallLeaves, CallState
<1>4. \A s \in IOReqs : busy'[s] => busy[s]
  BY <1>1
<1>5. CASE CompleteForWaiter(r)
  <2> DEFINE x == reqOwner[r]
  <2>1. Relinked(m, x) /\ holder' = [holder EXCEPT ![m] = x] /\ flag' = flag
    BY <1>1, <1>2, <1>5, ToTask DEF CompleteForWaiter
  <2>2. x \in Tasks \cup Ports /\ x \notin Ports /\ x \in Tasks /\ x = Creator[r]
    BY <1>2, Apart
  <2>3. flag'[m] = "none" /\ msgOwner'[m] = msgOwner[m] /\ msgOwner'[m] \in Tasks
    BY <1>1, <1>2, <2>1
  <2>4. \A s \in IOReqs : IOMsg[s] = m => ~busy'[s] /\ x = Creator[s]
    BY <1>1, <2>2
  <2> HIDE DEF m, x, PlaceInv, AwakeInv, ShapeInv, TypeOK
  <2> QED BY <1>1, <1>3, <1>4, <2>1, <2>2, <2>3, <2>4, MovedPlaces
<1>6. CASE CanReply(m) /\ Deliver(replyPort[m], m, "replied")
  <2>1. replyPort[m] \in Ports /\ portOwner[replyPort[m]] \in Tasks
    BY <1>6 DEF CanReply
  <2> HIDE DEF m, PlaceInv, AwakeInv, ShapeInv, TypeOK
  <2> QED BY <1>1, <1>2, <1>3, <1>4, <1>6, <2>1, DeliverPlaces
<1>7. CASE UNCHANGED <<holder, flag, listVars, waitItem, asleep>>
  <2>1. UNCHANGED <<holder, flag, queue, held>>
    BY <1>7 DEF listVars
  <2>2. \A n \in Msgs : Linked(n)' = Linked(n) /\ (InTransit(n)' <=> InTransit(n))
    BY <1>1, <2>1 DEF Linked, InTransit
  <2> HIDE DEF m
  <2>3. MessageInOnePlace'
    BY <1>1, <1>4, <2>1, <2>2 DEF MessageInOnePlace
  <2>4. CallState'
    <3>1. call.op \in {"get", "delete"} => Linked(call.msg)' = Linked(call.msg)
      BY <1>1, <2>2 DEF CallShape
    <3> QED BY <1>1, <1>4, <2>1, <3>1 DEF CallState
  <2>5. RequestMessages' /\ RequestsAtHome'
    BY <1>1, <2>1, <2>2, Apart DEF RequestMessages, RequestsAtHome, Closing
  <2> QED BY <2>3, <2>4, <2>5 DEF Places
<1> QED BY <1>5, <1>6, <1>7 DEF CompleteIO

(* Every step keeps each message in its place. *)
LEMMA PlaceStep ==
    ASSUME PrivateRequests, PlaceInv, [Next]_vars
    PROVE  PlaceInv'
<1>1. AwakeInv'
  BY AwakeStep DEF PlaceInv
<1>2. ASSUME UNCHANGED vars PROVE Places'
  BY <1>2, SamePlaces DEF vars
<1>3. Places'
  BY <1>2, TaskStepPlaces, CompleteIOPlaces, CallStepPlaces DEF Next
<1> QED BY <1>1, <1>3 DEF PlaceInv, Places

(* Initially nothing exists. *)
LEMMA PlaceInit == Init => PlaceInv
<1> SUFFICES ASSUME Init PROVE PlaceInv
  OBVIOUS
<1>1. ShapeInv
  BY ShapeInit
<1>2. CallerAwake /\ WaitStates /\ ReplyPortsExist
  BY Apart DEF Init, CallerAwake, WaitStates, ReplyPortsExist, NoCall
<1>3. \A m \in Msgs : Linked(m) = {}
  BY DEF Init, Linked, Nodes
<1>4. MessageInOnePlace
  BY <1>3, Apart DEF Init, MessageInOnePlace
<1>5. CallState /\ RequestMessages /\ RequestsAtHome
  BY Apart DEF Init, CallState, RequestMessages, RequestsAtHome, NoCall
<1> QED BY <1>1, <1>2, <1>4, <1>5 DEF PlaceInv, AwakeInv

(* When requests are private, a message is in exactly one place: its list node, its *)
(* holder and its flags agree between any two steps, completion interrupts included, *)
(* and the message of a request that the device has is held by a task.             *)
THEOREM EachMessageInOnePlace ==
    ASSUME PrivateRequests
    PROVE  Spec => []MessageInOnePlace
<1>1. PlaceInv /\ [Next]_vars => PlaceInv'
  BY PlaceStep
<1>2. PlaceInv => MessageInOnePlace
  BY DEF PlaceInv
<1> QED BY <1>1, <1>2, PlaceInit, PTL DEF Spec

-----------------------------------------------------------------------------
(* What a woken task and a dead one hold.                                  *)

\* A task that wakes up with a message holds it, unless it is being deleted.
ResultIsHeld ==
    \A t \in Tasks : ~asleep[t] /\ waitItem[t] \in Msgs \ IOMsgs =>
        \/ \E u \in Tasks \ {t} : IsSameTaskFamily(t, u)
        \/ call.op = "delete" /\ call.msg = waitItem[t]
        \/ holder[waitItem[t]] = t /\ waitItem[t] \in held[t]

(* The outcome of a delivery for those who were woken before, when the message is *)
(* not the result of a wait that has not returned.                                *)
LEMMA DeliverHeld ==
    ASSUME PlaceInv, ResultIsHeld, NEW m \in Msgs, NEW p \in Ports, portOwner[p] \in Tasks,
           NEW how \in {"sent", "replied"}, Deliver(p, m, how),
           holder[m] \in Tasks,
           m \notin IOMsgs => \/ waitItem[holder[m]] # m
                             \/ \E u \in Tasks \ {holder[m]} : IsSameTaskFamily(holder[m], u),
           call' = call \/ call.op = "bounce"
    PROVE  ResultIsHeld'
<1> USE DEF PlaceInv, AwakeInv, ShapeInv, TypeOK
<1>1. CASE Given(portOwner[p], p, m)
  <2> SUFFICES ASSUME NEW t \in Tasks, ~asleep'[t], waitItem'[t] \in Msgs \ IOMsgs,
                      \A u \in Tasks \ {t} : ~IsSameTaskFamily(t, u),
                      ~(call'.op = "delete" /\ call'.msg = waitItem'[t])
               PROVE  holder'[waitItem'[t]] = t /\ waitItem'[t] \in held'[t]
    BY DEF ResultIsHeld
  <2>1. CASE t = portOwner[p]
    BY <1>1, <2>1 DEF Given, Relinked
  <2>2. CASE t # portOwner[p]
    <3>1. waitItem'[t] = waitItem[t] /\ ~asleep[t]
      BY <1>1, <2>2 DEF Given
    <3>2. holder[waitItem[t]] = t /\ waitItem[t] \in held[t]
      BY <3>1 DEF ResultIsHeld
    <3>3. waitItem[t] # m
      BY <3>1, <3>2
    <3> QED BY <1>1, <2>2, <3>1, <3>2, <3>3 DEF Given, Relinked
  <2> QED BY <2>1, <2>2
<1>2. CASE Queued(p, m, how)
  <2> SUFFICES ASSUME NEW t \in Tasks, ~asleep'[t], waitItem'[t] \in Msgs \ IOMsgs,
                      \A u \in Tasks \ {t} : ~IsSameTaskFamily(t, u),
                      ~(call'.op = "delete" /\ call'.msg = waitItem'[t])
               PROVE  holder'[waitItem'[t]] = t /\ waitItem'[t] \in held'[t]
    BY DEF ResultIsHeld
  <2>1. waitItem'[t] = waitItem[t] /\ ~asleep[t]
    BY <1>2 DEF Queued
  <2>2. holder[waitItem[t]] = t /\ waitItem[t] \in held[t]
    BY <2>1 DEF ResultIsHeld
  <2>3. waitItem[t] # m
    BY <2>1, <2>2
  <2> QED BY <1>2, <2>1, <2>2, <2>3, Apart DEF Queued, Relinked
<1> QED BY <1>1, <1>2, DeliverCases

(* A message that moves to a task that is not dead, or to a port, leaves no dead *)
(* task with a request.                                                         *)
LEMMA DeadKept ==
    ASSUME PlaceInv, DeadRepliedAll, NEW m \in Msgs, NEW x, Relinked(m, x),
           x \in Tasks => life[x] # "dead", UNCHANGED <<life, replyPort, portOwner>>
    PROVE  DeadRepliedAll'
BY DEF DeadRepliedAll, Relinked

(* A delivery is to a port or to a task that waits. *)
LEMMA DeliverDead ==
    ASSUME PlaceInv, DeadRepliedAll, NEW m \in Msgs, NEW p \in Ports, portOwner[p] \in Tasks,
           NEW how \in {"sent", "replied"}, Deliver(p, m, how),
           UNCHANGED <<life, replyPort, portOwner>>
    PROVE  DeadRepliedAll'
<1> USE DEF PlaceInv, AwakeInv, ShapeInv
<1>1. CASE Given(portOwner[p], p, m)
  <2>1. life[portOwner[p]] # "dead" /\ Relinked(m, portOwner[p])
    BY <1>1, Apart DEF Given, WaitStates
  <2> QED BY <2>1, DeadKept
<1>2. CASE Queued(p, m, how)
  BY <1>2, DeadKept, Apart DEF Queued
<1> QED BY <1>1, <1>2, DeliverCases

HeldInv == ResultIsHeld /\ DeadRepliedAll

\* Task t has been woken with a message, in the next state, and has no threads.
WokenNext(t) ==
    /\ ~asleep'[t] /\ waitItem'[t] \in Msgs \ IOMsgs
    /\ \A u \in Tasks \ {t} : ~IsSameTaskFamily(t, u)
    /\ ~(call'.op = "delete" /\ call'.msg = waitItem'[t])

(* To show ResultIsHeld' means to look at such a task. *)
LEMMA HeldNext ==
    ASSUME \A t \in Tasks : WokenNext(t) =>
              holder'[waitItem'[t]] = t /\ waitItem'[t] \in held'[t]
    PROVE  ResultIsHeld'
BY DEF ResultIsHeld, WokenNext

(* It had its message before, if its wait and the call have not changed. *)
LEMMA HeldBefore ==
    ASSUME ResultIsHeld, NEW t \in Tasks, WokenNext(t),
           waitItem'[t] = waitItem[t], asleep'[t] = asleep[t],
           call.op = "delete" => call' = call \/ call.msg # waitItem[t]
    PROVE  holder[waitItem[t]] = t /\ waitItem[t] \in held[t] /\ waitItem'[t] = waitItem[t]
BY DEF ResultIsHeld, WokenNext

(* A step that moves message m keeps the results of others. *)
LEMMA HeldKept ==
    ASSUME PlaceInv, ResultIsHeld, NEW m \in Msgs, NEW x, Relinked(m, x),
           \A n \in Msgs \ {m} : holder'[n] = holder[n],
           UNCHANGED <<waitItem, asleep>>,
           call.op # "delete" \/ call' = call,
           \A t \in Tasks : WokenNext(t) => waitItem[t] # m
    PROVE  ResultIsHeld'
<1> SUFFICES ASSUME NEW t \in Tasks, WokenNext(t)
             PROVE  holder'[waitItem'[t]] = t /\ waitItem'[t] \in held'[t]
  BY HeldNext
<1>1. holder[waitItem[t]] = t /\ waitItem[t] \in held[t] /\ waitItem'[t] = waitItem[t]
  BY HeldBefore
<1> QED BY <1>1 DEF Relinked, WokenNext

(* The second steps of the calls. *)
LEMMA CallStepHeld ==
    ASSUME PlaceInv, HeldInv, CallStep
    PROVE  HeldInv'
<1> USE DEF HeldInv
<1>0. AwakeInv /\ ShapeInv /\ TypeOK /\ CallShape
  BY DEF PlaceInv, AwakeInv, ShapeInv
<1>1. CASE GetDone
  <2>1. /\ call.op = "get" /\ call.msg \in Msgs /\ Linked(call.msg) = {call.by}
        /\ holder'[call.msg] = call.by /\ \A n \in Msgs \ {call.msg} : holder'[n] = holder[n]
        /\ UNCHANGED <<waitItem, asleep, held, life, replyPort, portOwner>>
    BY <1>0, <1>1 DEF GetDone, CallShape, PlaceInv, CallState, TypeOK, waitVars, listVars
  <2>2. ResultIsHeld'
    <3> SUFFICES ASSUME NEW t \in Tasks, WokenNext(t)
                 PROVE  holder'[waitItem'[t]] = t /\ waitItem'[t] \in held'[t]
      BY HeldNext
    <3>1. holder[waitItem[t]] = t /\ waitItem[t] \in held[t] /\ waitItem'[t] = waitItem[t]
      BY <2>1, HeldBefore
    <3>2. waitItem[t] = call.msg => call.by = t
      BY <2>1, <3>1 DEF Linked
    <3> QED BY <2>1, <3>1, <3>2 DEF WokenNext
  <2>3. DeadRepliedAll'
    BY <2>1 DEF DeadRepliedAll
  <2> QED BY <2>2, <2>3
<1>2. CASE Drain
  <2> DEFINE m == Head(queue[call.port])
  <2>1. /\ call.op = "drain" /\ call.port \in Ports /\ call.by \in Tasks
        /\ m \in Msgs /\ m \in Nodes(queue[call.port]) /\ Take(call.by, m, call.port)
    BY <1>0, <1>2, HeadIsMsg DEF Drain, CallShape
  <2> HIDE DEF m
  <2>2. call.port \in Linked(m) /\ ~InTransit(m) /\ life[call.by] # "dead"
    BY <1>0, <2>1 DEF Linked, InTransit, AwakeInv, CallerAwake
  <2>3. holder[m] = call.port
    BY <2>1, <2>2 DEF PlaceInv, MessageInOnePlace
  <2>4. /\ Relinked(m, call.by)
        /\ UNCHANGED <<waitItem, asleep, holder, life, replyPort, portOwner>>
    BY <1>0, <2>1, ToTask DEF Take, ShapeInv, waitVars
  <2>5. \A t \in Tasks : WokenNext(t) => waitItem[t] # m
    BY <2>1, <2>3, <2>4, HeldBefore, Apart
  <2>6. ResultIsHeld'
    BY <2>1, <2>4, <2>5, HeldKept
  <2>7. DeadRepliedAll'
    BY <2>1, <2>2, <2>4, DeadKept
  <2> QED BY <2>6, <2>7
<1>3. CASE Bounce
  <2> DEFINE m == call.msg
  <2>1. /\ m \in Msgs /\ call.by \in Tasks /\ call.op = "bounce" /\ holder[m] = call.by
        /\ waitItem[call.by] \in {Idle, Aborted} /\ call'.op # "delete"
        /\ UNCHANGED <<life, replyPort, portOwner>>
    BY <1>0, <1>3 DEF Bounce, CallShape, PlaceInv, CallState, AwakeInv, CallerAwake, TypeOK
  <2>2. CASE ReturnToSender(m, call.port)
    <3>1. /\ replyPort[m] \in Ports /\ portOwner[replyPort[m]] \in Tasks
          /\ Deliver(replyPort[m], m, "replied")
      BY <1>3, <2>2 DEF Bounce, ReturnToSender, CanReply
    <3>2. waitItem[holder[m]] # m
      BY <2>1, Apart
    <3> HIDE DEF m
    <3> QED BY <2>1, <3>1, <3>2, DeliverHeld, DeliverDead
  <2>3. CASE ~ReturnToSender(m, call.port)
    <3>1. UNCHANGED <<holder, queue, held, waitItem, asleep>>
      BY <1>3, <2>3 DEF Bounce, listVars
    <3> QED BY <2>1, <3>1 DEF ResultIsHeld, DeadRepliedAll
  <2> QED BY <2>2, <2>3
<1>4. CASE DeleteMsgPortDone
  BY <1>0, <1>4 DEF DeleteMsgPortDone, CallShape, TypeOK, ResultIsHeld, DeadRepliedAll, msgVars,
              listVars, waitVars, NoCall
<1>5. CASE DeleteMsgDone
  <2>1. DeadRepliedAll'
    BY <1>5 DEF DeleteMsgDone, DeadRepliedAll, listVars
  <2>2. ResultIsHeld'
    <3> SUFFICES ASSUME NEW t \in Tasks, WokenNext(t)
                 PROVE  holder'[waitItem'[t]] = t /\ waitItem'[t] \in held'[t]
      BY HeldNext
    <3>1. waitItem[t] # call.msg
      BY <1>5, Apart DEF DeleteMsgDone, WokenNext
    <3>2. waitItem'[t] = waitItem[t] /\ asleep'[t] = asleep[t]
      BY <1>0, <1>5, <3>1 DEF DeleteMsgDone, TypeOK
    <3>3. holder[waitItem[t]] = t /\ waitItem[t] \in held[t]
      BY <3>1, <3>2, HeldBefore
    <3> QED BY <1>5, <3>2, <3>3 DEF DeleteMsgDone, listVars
  <2> QED BY <2>1, <2>2
<1>6. CASE SetMsgPortOwnerDone
  <2>1. /\ call.port \in Ports /\ portOwner[call.port] \in Tasks /\ call.op = "give"
        /\ \A p \in Ports \ {call.port} : portOwner'[p] = portOwner[p]
        /\ UNCHANGED <<holder, held, replyPort, waitItem, asleep, life>>
    BY <1>0, <1>6 DEF SetMsgPortOwnerDone, CallShape, AwakeInv, CallerAwake, TypeOK, msgVars,
                listVars, waitVars
  <2>2. DeadRepliedAll'
    BY <1>0, <2>1, Apart DEF DeadRepliedAll, TypeOK
  <2>3. ResultIsHeld'
    BY <2>1 DEF ResultIsHeld
  <2> QED BY <2>2, <2>3
<1> QED BY <1>1, <1>2, <1>3, <1>4, <1>5, <1>6 DEF CallStep

(* The steps of tasks. *)
LEMMA TaskStepHeld ==
    ASSUME PlaceInv, HeldInv, NEW t \in Tasks, TaskStep(t)
    PROVE  HeldInv'
<1> USE DEF HeldInv
<1>0. /\ AwakeInv /\ ShapeInv /\ TypeOK /\ QueueInOrder /\ WaitStates
      /\ \A n \in Msgs : call = NoCall => ~InTransit(n)
  BY DEF PlaceInv, AwakeInv, ShapeInv, InTransit, NoCall
<1>a. ASSUME NEW n \in Msgs, NEW x \in Linked(n), call = NoCall
      PROVE  msgOwner[n] \in Tasks /\ holder[n] = x
  BY <1>0, <1>a DEF PlaceInv, MessageInOnePlace
\* A task that has threads or waits for nothing loses no result.
<1>b. ASSUME NEW n \in Msgs, User(t), MayPass(t, n)
      PROVE  /\ holder[n] \in Tasks
             /\ \/ waitItem[holder[n]] # n
                \/ \E u \in Tasks \ {holder[n]} : IsSameTaskFamily(holder[n], u)
  BY <1>b, Apart DEF User, MayPass, IsSameTaskFamily
\* Getting a message that is on a port.
<1>c. ASSUME NEW n \in Msgs, holder[n] \in Ports, User(t), Take(t, n, NoItem) PROVE HeldInv'
  <2>1. /\ Relinked(n, t)
        /\ UNCHANGED <<waitItem, asleep, holder, life, replyPort, portOwner>>
        /\ call.op = "none" /\ life[t] # "dead"
    BY <1>0, <1>c, ToTask DEF Take, waitVars, User, NoCall
  <2>2. \A u \in Tasks : WokenNext(u) => waitItem[u] # n
    BY <1>c, <2>1, HeldBefore, Apart
  <2>3. ResultIsHeld'
    BY <2>1, <2>2, HeldKept
  <2>4. DeadRepliedAll'
    BY <2>1, DeadKept
  <2> QED BY <2>3, <2>4
\* Nothing moves, and nobody but t waits for something else.
<1>d. ASSUME UNCHANGED <<portOwner, holder, held, replyPort>>, call.op # "delete",
             \A u \in Tasks : life'[u] = "dead" => life[u] = "dead",
             \A u \in Tasks : \/ waitItem'[u] = waitItem[u] /\ asleep'[u] = asleep[u]
                              \/ asleep'[u] \/ waitItem'[u] \in Results
      PROVE  HeldInv'
  BY <1>d, Apart DEF ResultIsHeld, DeadRepliedAll, Results
<1>1. ASSUME NEW p \in Ports, CreateMsgPort(t, p) PROVE HeldInv'
  <2>1. ResultIsHeld'
    BY <1>1 DEF CreateMsgPort, msgVars, listVars, waitVars, ResultIsHeld
  <2>2. DeadRepliedAll'
    BY <1>0, <1>1, Apart DEF CreateMsgPort, msgVars, listVars, DeadRepliedAll, TypeOK
  <2> QED BY <2>1, <2>2
<1>2. ASSUME NEW p \in Ports, GetMsg(t, p) PROVE HeldInv'
  <2> DEFINE m == Head(queue[p])
  <2>1. m \in Msgs /\ m \in Nodes(queue[p]) /\ Take(t, m, NoItem) /\ User(t) /\ call = NoCall
    BY <1>0, <1>2, HeadIsMsg DEF GetMsg, User
  <2> HIDE DEF m
  <2>2. holder[m] \in Ports
    BY <1>a, <2>1 DEF Linked
  <2> QED BY <1>c, <2>1, <2>2
<1>3. ASSUME NEW item, NEW port, User(t), Sleep(t, item, port) PROVE HeldInv'
  <2>1. \A u \in Tasks : (waitItem'[u] = waitItem[u] /\ asleep'[u] = asleep[u]) \/ asleep'[u]
    BY <1>0, <1>3 DEF Sleep, TypeOK
  <2> QED BY <1>3, <1>d, <2>1 DEF Sleep, User, NoCall, msgVars, listVars
<1>4. ASSUME NEW p \in Ports, NEW u \in Tasks, SetMsgPortOwner(t, p, u) PROVE HeldInv'
  BY <1>4, <1>d DEF SetMsgPortOwner, User, NoCall, msgVars, listVars, waitVars
<1>5. ASSUME NEW m \in Msgs, NEW p \in Ports \cup {NoItem}, User(t), NewMsg(t, m, p),
             UNCHANGED <<portOwner, waitItem, asleep, life, call>>
      PROVE  HeldInv'
  <2>1. Linked(m) = {}
    BY <1>5, Apart DEF NewMsg, PlaceInv, MessageInOnePlace
  <2>2. ResultIsHeld'
    <3> SUFFICES ASSUME NEW u \in Tasks, WokenNext(u)
                 PROVE  holder'[waitItem'[u]] = u /\ waitItem'[u] \in held'[u]
      BY HeldNext
    <3>1. holder[waitItem[u]] = u /\ waitItem[u] \in held[u] /\ waitItem'[u] = waitItem[u]
      BY <1>5, HeldBefore DEF User, NoCall
    <3>2. waitItem[u] # m
      BY <2>1, <3>1 DEF Linked
    <3> QED BY <1>0, <1>5, <3>1, <3>2 DEF NewMsg, TypeOK, WokenNext
  <2>3. DeadRepliedAll'
    <3> SUFFICES ASSUME NEW u \in Tasks, life[u] = "dead", NEW n \in held'[u]
                 PROVE  replyPort'[n] = NoItem \/ portOwner[replyPort'[n]] = Gone
      BY <1>5 DEF DeadRepliedAll
    <3>1. u # t
      BY <1>5 DEF User
    <3>2. n \in held[u] /\ n \in Msgs
      BY <1>0, <1>5, <3>1 DEF NewMsg, TypeOK
    <3>3. n # m
      BY <2>1, <3>2 DEF Linked
    <3> QED BY <1>0, <1>5, <3>2, <3>3 DEF NewMsg, TypeOK, DeadRepliedAll
  <2> QED BY <2>2, <2>3
<1>6. ASSUME NEW m \in Msgs, NEW p \in Ports, SendMsg(t, p, m) PROVE HeldInv'
  BY <1>6, <1>b, DeliverHeld, DeliverDead DEF SendMsg
<1>7. ASSUME NEW m \in Msgs, ReplyMsg(t, m) PROVE HeldInv'
  BY <1>7, <1>b, DeliverHeld, DeliverDead DEF ReplyMsg, CanReply
<1>8. ASSUME NEW m \in Msgs, GetThisMsg(t, m) PROVE HeldInv'
  BY <1>8, <1>c DEF GetThisMsg
<1>9. ASSUME NEW m \in Msgs, NEW u \in Tasks, SetMsgOwner(t, m, u) PROVE HeldInv'
  <2>1. /\ holder[m] = t /\ waitItem[t] = Idle /\ life[u] # "dead" /\ call.op # "delete"
        /\ \A n \in Msgs \ {m} : holder'[n] = holder[n]
        /\ UNCHANGED <<waitItem, asleep, life, replyPort, portOwner>>
    BY <1>0, <1>9 DEF SetMsgOwner, User, NoCall, waitVars, TypeOK
  <2>2. Linked(m) = {t}
    BY <1>0, <1>9, <2>1, Apart DEF SetMsgOwner, User, PlaceInv, MessageInOnePlace
  <2>3. Relinked(m, u)
    <3>1. \A p \in Ports : m \notin Nodes(queue[p])
      BY <2>2, Apart DEF Linked
    <3> QED BY <1>0, <1>9, <3>1, Apart
            DEF SetMsgOwner, Unheld, Relinked, TypeOK, ShapeInv, QueueInOrder
  <2>4. \A v \in Tasks : WokenNext(v) => waitItem[v] # m
    BY <2>1, HeldBefore, Apart
  <2> QED BY <2>1, <2>3, <2>4, HeldKept, DeadKept
<1>10. ASSUME NEW r \in IOReqs, SendIO(t, r) PROVE HeldInv'
  BY <1>10, <1>d DEF SendIO, User, NoCall, msgVars, listVars, waitVars
<1>11. ASSUME NEW p \in Ports, call = NoCall, DeleteMsgPort(t, p) PROVE HeldInv'
  BY <1>11, <1>d DEF DeleteMsgPort, NoCall, msgVars, listVars, waitVars
<1>12. ASSUME NEW m \in Msgs, call = NoCall, DeleteMsg(t, m) PROVE HeldInv'
  <2>1. /\ Relinked(m, NoItem) /\ call'.op = "delete" /\ call'.msg = m /\ call.op # "delete"
        /\ UNCHANGED <<holder, waitItem, asleep, life, replyPort, portOwner>>
    BY <1>0, <1>12, ToNowhere DEF DeleteMsg, waitVars, NoCall
  <2>2. \A u \in Tasks : WokenNext(u) => waitItem[u] # m
    BY <2>1 DEF WokenNext
  <2> QED BY <2>1, <2>2, HeldKept, DeadKept, Apart
<1>13. CASE WaitReturn(t)
  <2>1. \A u \in Tasks : waitItem'[u] = waitItem[u] \/ waitItem'[u] \in Results
    BY <1>0, <1>13 DEF WaitReturn, TypeOK, Results
  <2> QED BY <1>13, <1>d, <2>1 DEF WaitReturn, NoCall, msgVars, listVars
<1>14. CASE Murder(t)
  <2>1. \A u \in Tasks : \/ waitItem'[u] = waitItem[u] /\ asleep'[u] = asleep[u]
                         \/ waitItem'[u] \in Results
    BY <1>0, <1>14 DEF Murder, TypeOK, Results
  <2>2. \A u \in Tasks : life'[u] = "dead" => life[u] = "dead"
    BY <1>0, <1>14 DEF Murder, TypeOK
  <2> QED BY <1>14, <1>d, <2>1, <2>2 DEF Murder, NoCall, msgVars, listVars
<1>15. CASE Exit(t)
  <2>1. \A u \in Tasks : life'[u] = "dead" => life[u] = "dead"
    BY <1>0, <1>15 DEF Exit, TypeOK
  <2> QED BY <1>15, <1>d, <2>1 DEF Exit, User, NoCall, msgVars, listVars, waitVars
<1>16. CASE ReplyHeldMessage(t)
  <2> PICK m \in Answerable(t) : Deliver(replyPort[m], m, "replied")
    BY <1>16 DEF ReplyHeldMessage
  <2>1. /\ m \in Msgs /\ m \in held[t] /\ call = NoCall /\ life[t] = "dying"
        /\ replyPort[m] \in Ports /\ portOwner[replyPort[m]] \in Tasks
        /\ UNCHANGED <<portOwner, replyPort, life, call>>
    BY <1>0, <1>16 DEF ReplyHeldMessage, Dying, Answerable, CanReply, TypeOK
  <2>2. holder[m] = t /\ waitItem[t] # m
    BY <1>0, <1>a, <2>1, Apart DEF Linked, WaitStates
  <2> QED BY <2>1, <2>2, DeliverHeld, DeliverDead
<1>17. CASE Die(t)
  <2>1. /\ \A u \in Tasks : waitItem'[u] = waitItem[u] \/ waitItem'[u] \in Results
        /\ \A u \in Tasks \ {t} : life'[u] = life[u]
        /\ UNCHANGED <<portOwner, holder, held, replyPort, asleep, call>>
        /\ call.op = "none" /\ call = NoCall
    BY <1>0, <1>17 DEF Die, Dying, TypeOK, Results, msgVars, listVars, NoCall
  <2>2. ResultIsHeld'
    BY <2>1, Apart DEF ResultIsHeld, Results
  <2>3. ASSUME NEW m \in held[t] PROVE replyPort[m] = NoItem \/ portOwner[replyPort[m]] = Gone
    <3>1. m \in Msgs /\ t \in Linked(m)
      BY <1>0 DEF TypeOK, Linked
    <3>2. flag[m] = "none"
      BY <1>0, <1>a, <2>1, <3>1, Apart DEF PlaceInv, MessageInOnePlace
    <3>3. ~CanReply(m)
      BY <1>17 DEF Die, Answerable
    <3>4. ~Closing(replyPort[m])
      BY <2>1 DEF Closing
    <3> QED BY <1>0, <3>1, <3>2, <3>3, <3>4 DEF CanReply, TypeOK, AwakeInv, ReplyPortsExist
  <2>4. DeadRepliedAll'
    BY <2>1, <2>3 DEF DeadRepliedAll
  <2> QED BY <2>2, <2>4
<1>18. CASE UserDeletes(t) \/ FreeResources(t)
  <2>1. call = NoCall
    BY <1>18 DEF UserDeletes, FreeResources, User, Dying
  <2>2. ASSUME NEW r \in IOReqs, DeleteIOReq(t, r) PROVE HeldInv'
    BY <1>12, <2>1, <2>2, Apart DEF DeleteIOReq
  <2> QED BY <1>11, <1>12, <1>18, <2>1, <2>2
          DEF UserDeletes, FreeResources, OwnReqs, OwnPorts, OwnMsgs
<1>19. ASSUME NEW p \in Ports, WaitPortForAny(t, p) PROVE HeldInv'
  BY <1>3, <1>19 DEF WaitPortForAny
<1>20. ASSUME NEW m \in Msgs, NEW p \in Ports, WaitPortForMsg(t, p, m) PROVE HeldInv'
  BY <1>3, <1>20 DEF WaitPortForMsg
<1>21. ASSUME NEW r \in IOReqs, WaitIO(t, r) PROVE HeldInv'
  BY <1>3, <1>21 DEF WaitIO
<1>22. ASSUME NEW m \in Msgs, NEW p \in Ports \cup {NoItem}, CreateMsg(t, m, p)
       PROVE  HeldInv'
  BY <1>5, <1>22 DEF CreateMsg, waitVars
<1>23. ASSUME NEW r \in IOReqs, NEW p \in Ports, CreateIOReq(t, r, p) PROVE HeldInv'
  BY <1>5, <1>23, Apart DEF CreateIOReq, waitVars
<1> QED BY <1>1, <1>2, <1>4, <1>6, <1>7, <1>8, <1>9, <1>10, <1>13, <1>14, <1>15, <1>16,
           <1>17, <1>18, <1>19, <1>20, <1>21, <1>22, <1>23
        DEF TaskStep, DeathStep

(* The completion interrupt. *)
LEMMA CompleteIOHeld ==
    ASSUME PlaceInv, HeldInv, NEW r \in IOReqs, CompleteIO(r)
    PROVE  HeldInv'
<1> DEFINE m == IOMsg[r]
<1> USE DEF HeldInv
<1>1. /\ m \in Msgs /\ m \in IOMsgs /\ busy[r] /\ reqOwner[r] \in Tasks
      /\ UNCHANGED <<portOwner, replyPort, life, call>>
      /\ ShapeInv /\ TypeOK /\ QueueInOrder /\ WaitStates
  BY Apart DEF CompleteIO, PlaceInv, AwakeInv, ShapeInv, BusyIsOwned
<1>2. CASE CompleteForWaiter(r)
  <2> DEFINE x == reqOwner[r]
  <2>1. /\ Relinked(m, x) /\ waitItem[x] = r /\ waitItem'[x] = Done
        /\ \A n \in Msgs \ {m} : holder'[n] = holder[n]
        /\ \A u \in Tasks \ {x} : waitItem'[u] = waitItem[u] /\ asleep'[u] = asleep[u]
    BY <1>1, <1>2, ToTask DEF CompleteForWaiter, TypeOK
  <2>2. life[x] # "dead"
    BY <1>1, <2>1, Apart DEF WaitStates
  <2> HIDE DEF m, x
  <2>3. ResultIsHeld'
    <3> SUFFICES ASSUME NEW t \in Tasks, WokenNext(t)
                 PROVE  holder'[waitItem'[t]] = t /\ waitItem'[t] \in held'[t]
      BY HeldNext
    <3>1. t # x
      BY <2>1, Apart DEF WokenNext
    <3>2. holder[waitItem[t]] = t /\ waitItem[t] \in held[t] /\ waitItem'[t] = waitItem[t]
      BY <1>1, <2>1, <3>1, HeldBefore
    <3> QED BY <1>1, <2>1, <3>1, <3>2 DEF Relinked, WokenNext
  <2>4. DeadRepliedAll'
    BY <1>1, <2>1, <2>2, DeadKept
  <2> QED BY <2>3, <2>4
<1>3. CASE CanReply(m) /\ Deliver(replyPort[m], m, "replied")
  <2>1. replyPort[m] \in Ports /\ portOwner[replyPort[m]] \in Tasks
    BY <1>3 DEF CanReply
  <2>2. holder[m] \in Tasks
    BY <1>1, Apart DEF PlaceInv, MessageInOnePlace, Linked, TypeOK
  <2> HIDE DEF m
  <2> QED BY <1>1, <1>3, <2>1, <2>2, DeliverHeld, DeliverDead
<1>4. CASE UNCHANGED <<holder, flag, listVars, waitItem, asleep>>
  BY <1>1, <1>4 DEF ResultIsHeld, DeadRepliedAll, listVars
<1> QED BY <1>2, <1>3, <1>4 DEF CompleteIO

(* Every step keeps what woken and dead tasks hold. *)
LEMMA HeldStep ==
    ASSUME PlaceInv, HeldInv, [Next]_vars
    PROVE  HeldInv'
<1>1. CASE UNCHANGED vars
  BY <1>1 DEF vars, msgVars, listVars, waitVars, HeldInv, ResultIsHeld, DeadRepliedAll
<1> QED BY <1>1, TaskStepHeld, CompleteIOHeld, CallStepHeld DEF Next

(* Nothing is held at the start. *)
LEMMA HeldInit == Init => HeldInv
BY Apart DEF Init, HeldInv, ResultIsHeld, DeadRepliedAll

(* A task without threads that WaitPort wakes with a message still holds it when the *)
(* call returns: neither an owner's transfer, a deletion of the port nor an interrupt *)
(* between internalDeliverMsg and the return takes it away.                         *)
THEOREM WaitResultsAreHeld ==
    ASSUME PrivateRequests
    PROVE  Spec => []WaitResultIsHeld
<1>1. PlaceInv /\ HeldInv /\ [Next]_vars => PlaceInv' /\ HeldInv'
  BY PlaceStep, HeldStep
<1>2. PlaceInv /\ HeldInv => WaitResultIsHeld
  BY DEF HeldInv, ResultIsHeld, WaitResultIsHeld, InTransit
<1> QED BY <1>1, <1>2, PlaceInit, HeldInit, PTL DEF Spec

(* A task dies with no message left that somebody still expects a reply to: what    *)
(* ReplyHeldMessages is for.                                                        *)
THEOREM TheDeadHaveReplied ==
    ASSUME PrivateRequests
    PROVE  Spec => []DeadRepliedAll
<1>1. PlaceInv /\ HeldInv /\ [Next]_vars => PlaceInv' /\ HeldInv'
  BY PlaceStep, HeldStep
<1>2. HeldInv => DeadRepliedAll
  BY DEF HeldInv
<1> QED BY <1>1, <1>2, PlaceInit, HeldInit, PTL DEF Spec

-----------------------------------------------------------------------------
(* The order of messages of equal priority.                                *)

(* Taking a message off a queue keeps the order of the others. *)
LEMMA WithoutNodeBefore ==
    ASSUME NEW s \in Seq(Msgs), Distinct(s), NEW m, NEW a, NEW b,
           a # m, b # m, Before(s, a, b)
    PROVE  Before(WithoutNode(s, m), a, b)
<1>1. CASE m \notin Nodes(s)
  BY <1>1 DEF WithoutNode
<1>2. CASE m \in Nodes(s)
  <2> DEFINE i == CHOOSE i \in 1 .. Len(s) : s[i] = m
  <2>1. i \in 1 .. Len(s) /\ s[i] = m
    BY <1>2 DEF Nodes
  <2> PICK w : w = WithoutNode(s, m)
    OBVIOUS
  <2>2. w = WithoutAt(s, i)
    BY <1>2 DEF WithoutNode
  <2> HIDE DEF i
  <2>3. /\ Len(s) \in Nat /\ Len(w) = Len(s) - 1
        /\ \A j \in 1 .. Len(s) - 1 : w[j] = IF j < i THEN s[j] ELSE s[j + 1]
    BY <2>1, <2>2, WithoutAtSeq
  <2> PICK x \in 1 .. Len(s), y \in 1 .. Len(s) : x < y /\ s[x] = a /\ s[y] = b
    BY DEF Before
  <2>4. x # i /\ y # i
    BY <2>1
  <2> DEFINE u == IF x < i THEN x ELSE x - 1
             v == IF y < i THEN y ELSE y - 1
  <2>5. u \in 1 .. Len(w) /\ v \in 1 .. Len(w) /\ u < v
    BY <2>1, <2>3, <2>4
  <2>6. w[u] = a /\ w[v] = b
    BY <2>1, <2>3, <2>4
  <2> QED BY <2>5, <2>6 DEF Before
<1> QED BY <1>1, <1>2

(* InsertNodeFromTail keeps the order and puts the message behind its equals. *)
LEMMA InsertBefore ==
    ASSUME NEW s \in Seq(Msgs), NEW m \in Msgs, NEW k, FromTail(Pri, s, m, k)
    PROVE  /\ \A a, b : Before(s, a, b) => Before(InsertAfter(s, k, m), a, b)
           /\ \A a \in Nodes(s) : Pri[a] >= Pri[m] => Before(InsertAfter(s, k, m), a, m)
<1> PICK w : w = InsertAfter(s, k, m)
  OBVIOUS
<1>1. k \in 0 .. Len(s) /\ Len(s) \in Nat
  BY DEF FromTail
<1>2. /\ Len(w) = Len(s) + 1
      /\ \A j \in 1 .. Len(s) + 1 :
            w[j] = IF j <= k THEN s[j] ELSE IF j = k + 1 THEN m ELSE s[j - 1]
  BY <1>1 DEF InsertAfter
<1>3. ASSUME NEW a, NEW b, Before(s, a, b) PROVE Before(w, a, b)
  <2> PICK x \in 1 .. Len(s), y \in 1 .. Len(s) : x < y /\ s[x] = a /\ s[y] = b
    BY <1>3 DEF Before
  <2> DEFINE u == IF x <= k THEN x ELSE x + 1
             v == IF y <= k THEN y ELSE y + 1
  <2>1. u \in 1 .. Len(w) /\ v \in 1 .. Len(w) /\ u < v
    BY <1>1, <1>2
  <2>2. w[u] = a /\ w[v] = b
    BY <1>1, <1>2
  <2> QED BY <2>1, <2>2 DEF Before
<1>4. ASSUME NEW a \in Nodes(s), Pri[a] >= Pri[m] PROVE Before(w, a, m)
  <2> PICK x \in 1 .. Len(s) : s[x] = a
    BY DEF Nodes
  <2>1. a \in Msgs /\ Pri[a] \in Nat /\ Pri[m] \in Nat
    BY MsgPortsAssumption
  <2>2. x <= k
    BY <1>1, <1>4, <2>1 DEF FromTail
  <2>3. w[x] = a /\ w[k + 1] = m /\ x \in 1 .. Len(w) /\ k + 1 \in 1 .. Len(w) /\ x < k + 1
    BY <1>1, <1>2, <2>2
  <2> QED BY <2>3 DEF Before
<1> QED BY <1>3, <1>4

\* The ways in which the queues change in a step: not at all, by a removal, or by
\* the arrival of a message that was on none.
Removes(m) == queue' = Unqueued(m)

Arrives(p, m) ==
    /\ \A x \in Ports : m \notin Nodes(queue[x])
    /\ \E k \in 0 .. Len(queue[p]) :
          FromTail(Pri, queue[p], m, k) /\ queue' = [queue EXCEPT ![p] = InsertAfter(@, k, m)]

QueueChange == \/ UNCHANGED queue
               \/ \E m \in Msgs : Removes(m)
               \/ \E p \in Ports, m \in Msgs : Arrives(p, m)

(* A delivered message comes from a task. *)
LEMMA DeliverQueue ==
    ASSUME TypeOK, NEW m \in Msgs, NEW p \in Ports, NEW how, Deliver(p, m, how),
           \A x \in Ports : m \notin Nodes(queue[x])
    PROVE  QueueChange
<1>1. Unqueued(m) = queue
  BY DEF Unqueued, WithoutNode, TypeOK
<1>2. CASE waitItem[portOwner[p]] \in {p, m}
  BY <1>2 DEF Deliver, HandOver, QueueChange, Removes
<1>3. CASE waitItem[portOwner[p]] \notin {p, m}
  <2>1. Enqueue(p, m, how)
    BY <1>3 DEF Deliver
  <2>2. Arrives(p, m)
    BY <1>1, <2>1 DEF Enqueue, Arrives
  <2> QED BY <2>2 DEF QueueChange
<1> QED BY <1>2, <1>3

(* In these ways the queues do change. *)
LEMMA QueueSteps ==
    ASSUME PlaceInv, [Next]_vars
    PROVE  QueueChange
<1>0. TypeOK /\ CallShape
  BY DEF PlaceInv, AwakeInv, ShapeInv
<1>a. ASSUME NEW n \in Msgs, msgOwner[n] \in Tasks, ~InTransit(n), holder[n] \in Tasks \/ flag[n] = "none"
      PROVE  \A x \in Ports : n \notin Nodes(queue[x])
  BY <1>a, Apart DEF PlaceInv, MessageInOnePlace, Linked
<1>b. ASSUME call.op \notin {"get", "delete"}, NEW n \in Msgs PROVE ~InTransit(n)
  BY <1>b DEF InTransit
<1>1. CASE UNCHANGED vars
  BY <1>1 DEF vars, listVars, QueueChange
<1>2. ASSUME NEW t \in Tasks, TaskStep(t) PROVE QueueChange
  <2>1. CASE UNCHANGED queue
    BY <2>1 DEF QueueChange
  <2>2. ASSUME NEW m \in Msgs, NEW port, Take(t, m, port) PROVE QueueChange
    BY <2>2 DEF Take, QueueChange, Removes
  <2>3. ASSUME NEW m \in Msgs, DeleteMsg(t, m) PROVE QueueChange
    BY <2>3 DEF DeleteMsg, QueueChange, Removes
  <2>4. ASSUME NEW m \in Msgs, NEW p \in Ports, SendMsg(t, p, m) PROVE QueueChange
    BY <1>0, <1>a, <1>b, <2>4, DeliverQueue DEF SendMsg, User, NoCall
  <2>5. ASSUME NEW m \in Msgs, ReplyMsg(t, m) PROVE QueueChange
    BY <1>0, <1>a, <1>b, <2>5, DeliverQueue DEF ReplyMsg, CanReply, User, NoCall
  <2>6. CASE ReplyHeldMessage(t)
    <3> PICK m \in Answerable(t) : Deliver(replyPort[m], m, "replied")
      BY <2>6 DEF ReplyHeldMessage
    <3>1. /\ m \in Msgs /\ m \in held[t] /\ call.op = "none" /\ replyPort[m] \in Ports
          /\ flag[m] = "none"
      BY <1>0, <2>6 DEF ReplyHeldMessage, Dying, Answerable, CanReply, TypeOK, NoCall
    <3>2. msgOwner[m] \in Tasks
      BY <3>1 DEF PlaceInv, MessageInOnePlace, Linked
    <3> QED BY <1>0, <1>a, <1>b, <3>1, <3>2, DeliverQueue
  <2>7. ASSUME NEW p \in Ports, GetMsg(t, p) PROVE QueueChange
    BY <1>0, <2>2, <2>7, HeadIsMsg DEF GetMsg
  <2>8. ASSUME NEW m \in Msgs, GetThisMsg(t, m) PROVE QueueChange
    BY <2>2, <2>8 DEF GetThisMsg
  <2>9. CASE UserDeletes(t) \/ FreeResources(t)
    <3>1. ASSUME NEW p, DeleteMsgPort(t, p) PROVE QueueChange
      BY <2>1, <3>1 DEF DeleteMsgPort, listVars
    <3>2. ASSUME NEW r \in IOReqs, DeleteIOReq(t, r) PROVE QueueChange
      BY <2>3, <3>2, Apart DEF DeleteIOReq
    <3> QED BY <2>3, <2>9, <3>1, <3>2
            DEF UserDeletes, FreeResources, OwnReqs, OwnMsgs
  <2>10. CASE WaitReturn(t) \/ Murder(t) \/ Exit(t) \/ Die(t)
    BY <2>1, <2>10 DEF WaitReturn, Murder, Exit, Die, listVars
  <2>11. ASSUME NEW p \in Ports,
                \/ CreateMsgPort(t, p) \/ WaitPortForAny(t, p)
                \/ \E u \in Tasks : SetMsgPortOwner(t, p, u)
         PROVE  QueueChange
    BY <2>1, <2>11 DEF CreateMsgPort, WaitPortForAny, Sleep, SetMsgPortOwner, listVars
  <2>12. ASSUME NEW m \in Msgs,
                \/ \E p \in Ports \cup {NoItem} : CreateMsg(t, m, p)
                \/ \E p \in Ports : WaitPortForMsg(t, p, m)
                \/ \E u \in Tasks : SetMsgOwner(t, m, u)
         PROVE  QueueChange
    BY <2>1, <2>12 DEF CreateMsg, WaitPortForMsg, Sleep, SetMsgOwner, listVars
  <2>13. ASSUME NEW r \in IOReqs,
                (\E p \in Ports : CreateIOReq(t, r, p)) \/ SendIO(t, r) \/ WaitIO(t, r)
         PROVE  QueueChange
    BY <2>1, <2>13 DEF CreateIOReq, SendIO, WaitIO, Sleep, listVars
  <2> QED BY <1>2, <2>4, <2>5, <2>6, <2>7, <2>8, <2>9, <2>10, <2>11, <2>12, <2>13
          DEF TaskStep, DeathStep
<1>3. ASSUME NEW r \in IOReqs, CompleteIO(r) PROVE QueueChange
  <2>1. /\ msgOwner[IOMsg[r]] \in Tasks /\ flag[IOMsg[r]] = "none" /\ ~InTransit(IOMsg[r])
        /\ IOMsg[r] \in Msgs
    BY <1>3, Apart DEF CompleteIO, PlaceInv, MessageInOnePlace
  <2>2. CASE CompleteForWaiter(r)
    BY <2>1, <2>2 DEF CompleteForWaiter, QueueChange, Removes
  <2>3. CASE CanReply(IOMsg[r]) /\ Deliver(replyPort[IOMsg[r]], IOMsg[r], "replied")
    BY <1>0, <1>a, <2>1, <2>3, DeliverQueue DEF CanReply
  <2>4. CASE UNCHANGED <<holder, flag, listVars, waitItem, asleep>>
    BY <2>4 DEF listVars, QueueChange
  <2> QED BY <1>3, <2>2, <2>3, <2>4 DEF CompleteIO
<1>4. CASE CallStep
  <2>1. CASE Drain
    BY <1>0, <2>1, HeadIsMsg DEF Drain, CallShape, Take, QueueChange, Removes
  <2>2. CASE Bounce
    <3>1. CASE ReturnToSender(call.msg, call.port)
      <4> DEFINE m == call.msg
      <4>1. /\ m \in Msgs /\ msgOwner[m] \in Tasks /\ call.op = "bounce" /\ flag[m] = "none"
            /\ replyPort[m] \in Ports /\ Deliver(replyPort[m], m, "replied")
        BY <1>0, <2>2, <3>1 DEF Bounce, ReturnToSender, CanReply, CallShape, PlaceInv, CallState
      <4> HIDE DEF m
      <4> QED BY <1>0, <1>a, <1>b, <4>1, DeliverQueue
    <3>2. CASE ~ReturnToSender(call.msg, call.port)
      BY <2>2, <3>2 DEF Bounce, listVars, QueueChange
    <3> QED BY <3>1, <3>2
  <2>3. CASE GetDone \/ DeleteMsgPortDone \/ DeleteMsgDone \/ SetMsgPortOwnerDone
    BY <2>3 DEF GetDone, DeleteMsgPortDone, DeleteMsgDone, SetMsgPortOwnerDone, listVars,
                QueueChange
  <2> QED BY <1>4, <2>1, <2>2, <2>3 DEF CallStep
<1> QED BY <1>1, <1>2, <1>3, <1>4 DEF Next

(* Each of them keeps the order of the messages that stay. *)
LEMMA QueueChangeFIFO ==
    ASSUME TypeOK, QueueInOrder, QueueChange
    PROVE  FIFOStep
<1> SUFFICES ASSUME NEW p \in Ports, NEW a \in Nodes(queue'[p]), NEW b \in Nodes(queue'[p]),
                    a \in Nodes(queue[p])
             PROVE  /\ Before(queue[p], a, b) => Before(queue'[p], a, b)
                    /\ b \notin Nodes(queue[p]) /\ Pri[a] >= Pri[b] => Before(queue'[p], a, b)
  BY DEF FIFOStep
<1>0. queue[p] \in Seq(Msgs) /\ Distinct(queue[p])
  BY DEF TypeOK, QueueInOrder
<1>1. CASE UNCHANGED queue
  BY <1>1
<1>2. ASSUME NEW m \in Msgs, Removes(m)
      PROVE  /\ Before(queue[p], a, b) => Before(queue'[p], a, b)
             /\ b \notin Nodes(queue[p]) /\ Pri[a] >= Pri[b] => Before(queue'[p], a, b)
  <2>1. queue'[p] = WithoutNode(queue[p], m)
    BY <1>2 DEF Removes, Unqueued
  <2>2. a # m /\ b # m /\ b \in Nodes(queue[p])
    BY <1>0, <2>1, WithoutNodeList
  <2> QED BY <1>0, <2>1, <2>2, WithoutNodeBefore
<1>3. ASSUME NEW x \in Ports, NEW m \in Msgs, Arrives(x, m)
      PROVE  /\ Before(queue[p], a, b) => Before(queue'[p], a, b)
             /\ b \notin Nodes(queue[p]) /\ Pri[a] >= Pri[b] => Before(queue'[p], a, b)
  <2>0. PICK k \in 0 .. Len(queue[x]) :
           /\ FromTail(Pri, queue[x], m, k)
           /\ queue' = [queue EXCEPT ![x] = InsertAfter(@, k, m)]
    BY <1>3 DEF Arrives
  <2>1. CASE x # p
    BY <2>0, <2>1 DEF TypeOK
  <2>2. CASE x = p
    <3>1. queue'[p] = InsertAfter(queue[p], k, m)
      BY <2>0, <2>2 DEF TypeOK
    <3>2. m \notin Nodes(queue[p])
      BY <1>3 DEF Arrives
    <3>3. b \in Nodes(queue[p]) \/ b = m
      BY <1>0, <2>2, <3>1, <3>2, InsertNodes
    <3> QED BY <1>0, <2>0, <2>2, <3>1, <3>3, InsertBefore
  <2> QED BY <2>1, <2>2
<1> QED BY <1>1, <1>2, <1>3 DEF QueueChange

(* Messages that stay on a port keep their order, and one that arrives goes behind *)
(* those of its own or a higher priority: SendMsg's promise of FIFO order.         *)
THEOREM PortsAreFIFO ==
    ASSUME PrivateRequests
    PROVE  Spec => FIFO
<1>1. PlaceInv /\ [Next]_vars => PlaceInv'
  BY PlaceStep
<1>2. PlaceInv /\ [Next]_vars => FIFOStep
  <2>1. PlaceInv => TypeOK /\ QueueInOrder
    BY DEF PlaceInv, AwakeInv, ShapeInv
  <2> QED BY <2>1, QueueSteps, QueueChangeFIFO
<1> QED BY <1>1, <1>2, PlaceInit, PTL DEF Spec, FIFO

-----------------------------------------------------------------------------
(* Tasks that sleep.                                                       *)

\* A port changes its owner only by its owner's own call, or not at all.
PortsKept == Privileged = {} \/ Transfers \cap Ports = {}

\* The port of a sleeper is its own, unless it is gone, and is not being given away.
SleeperPorts ==
    \A t \in Tasks : asleep[t] =>
        /\ waitPort[t] \in Ports => portOwner[waitPort[t]] \in {t, Gone}
        /\ waitItem[t] \in Ports => waitPort[t] = waitItem[t]
        /\ call.op = "give" => call.port # waitPort[t]

\* What NoSleepBesideMail says of one task and the queues q.
NoMailFor(t, q) ==
    IF waitItem[t] = waitPort[t] THEN q[waitPort[t]] = << >>
                                 ELSE waitItem[t] \notin Nodes(q[waitPort[t]])

MailInv == SleeperPorts /\ NoSleepBesideMail

\* In this step nobody goes to sleep.
NobodySleeps ==
    \A t \in Tasks : asleep'[t] => /\ asleep[t] /\ waitItem'[t] = waitItem[t]
                                   /\ waitPort'[t] = waitPort[t]

(* The empty list has no nodes. *)
LEMMA EmptyNodes ==
    ASSUME NEW s \in Seq(Msgs)
    PROVE  s = << >> <=> Nodes(s) = {}
<1>1. CASE s = << >>
  BY <1>1 DEF Nodes
<1>2. CASE s # << >>
  <2>1. 1 \in 1 .. Len(s)
    BY <1>2
  <2> QED BY <1>2, <2>1 DEF Nodes
<1> QED BY <1>1, <1>2

(* A step in which nobody goes to sleep and no sleeper gets mail. *)
LEMMA MailKept ==
    ASSUME AwakeInv, MailInv, NobodySleeps, UNCHANGED portOwner,
           call'.op = "give" => call' = call,
           \A t \in Tasks : asleep'[t] /\ waitPort[t] \in Ports /\ portOwner[waitPort[t]] = t =>
              NoMailFor(t, queue')
    PROVE  MailInv'
<1>1. SleeperPorts'
  BY DEF MailInv, SleeperPorts, NobodySleeps
<1>2. NoSleepBesideMail'
  BY DEF NoSleepBesideMail, NobodySleeps, NoMailFor
<1> QED BY <1>1, <1>2 DEF MailInv

(* It is so when the queues stay or lose messages. *)
LEMMA MailShrinks ==
    ASSUME AwakeInv, MailInv, NobodySleeps, UNCHANGED portOwner,
           call'.op = "give" => call' = call,
           queue' \in [Ports -> Seq(Msgs)],
           \A p \in Ports : Nodes(queue'[p]) \subseteq Nodes(queue[p])
    PROVE  MailInv'
<1>1. \A p \in Ports : queue[p] = << >> => queue'[p] = << >>
  BY EmptyNodes DEF AwakeInv, ShapeInv, TypeOK
<1>2. \A t \in Tasks : asleep'[t] /\ waitPort[t] \in Ports /\ portOwner[waitPort[t]] = t =>
         NoMailFor(t, queue')
  BY <1>1 DEF MailInv, NoSleepBesideMail, NoMailFor, NobodySleeps
<1> QED BY <1>2, MailKept

(* It is so when a message is delivered. *)
LEMMA DeliverMail ==
    ASSUME AwakeInv, MailInv, NEW m \in Msgs, NEW p \in Ports, portOwner[p] \in Tasks,
           NEW how \in {"sent", "replied"}, Deliver(p, m, how),
           UNCHANGED <<portOwner, waitPort>>, call'.op = "give" => call' = call
    PROVE  MailInv'
<1> USE DEF AwakeInv, ShapeInv, TypeOK
<1>1. CASE Given(portOwner[p], p, m)
  <2>1. NobodySleeps
    BY <1>1 DEF Given, NobodySleeps
  <2>2. queue' \in [Ports -> Seq(Msgs)] /\ \A x \in Ports : Nodes(queue'[x]) \subseteq Nodes(queue[x])
    BY <1>1, Apart DEF Given, Relinked
  <2> HIDE DEF AwakeInv, ShapeInv, TypeOK
  <2> QED BY <2>1, <2>2, MailShrinks
<1>2. CASE Queued(p, m, how)
  <2>1. NobodySleeps
    BY <1>2 DEF Queued, NobodySleeps
  <2>2. ASSUME NEW t \in Tasks, asleep'[t], waitPort[t] \in Ports, portOwner[waitPort[t]] = t
        PROVE  NoMailFor(t, queue')
    <3>1. NoMailFor(t, queue) /\ asleep[t]
      BY <2>1, <2>2 DEF MailInv, NoSleepBesideMail, NoMailFor, NobodySleeps
    <3>2. CASE waitPort[t] = p
      <4>1. waitItem[t] \notin {p, m} /\ Nodes(queue'[p]) \subseteq Nodes(queue[p]) \cup {m}
        BY <1>2, <2>2, <3>2 DEF Queued, Relinked
      <4> QED BY <3>1, <3>2, <4>1 DEF NoMailFor
    <3>3. CASE waitPort[t] # p
      <4> DEFINE x == waitPort[t]
      <4>1. /\ Nodes(queue'[x]) \subseteq Nodes(queue[x])
            /\ queue[x] \in Seq(Msgs) /\ queue'[x] \in Seq(Msgs)
        BY <1>2, <2>2, <3>3 DEF Queued, Relinked
      <4>2. queue[x] = << >> => queue'[x] = << >>
        BY <4>1, EmptyNodes
      <4> QED BY <3>1, <4>1, <4>2 DEF NoMailFor
    <3> QED BY <3>2, <3>3
  <2> HIDE DEF AwakeInv, ShapeInv, TypeOK
  <2> QED BY <2>1, <2>2, MailKept
<1> QED BY <1>1, <1>2, DeliverCases

(* A task that is awake goes to sleep where there is no mail for it. *)
LEMMA SleepMail ==
    ASSUME AwakeInv, MailInv, NEW t \in Tasks, User(t), NEW item, NEW port, Sleep(t, item, port),
           port \in Ports => portOwner[port] = t,
           item \in Ports => port = item,
           port \in Ports /\ item = port => queue[port] = << >>,
           port \in Ports /\ item # port => item \notin Nodes(queue[port])
    PROVE  MailInv'
<1> USE DEF AwakeInv, ShapeInv, TypeOK
<1>1. /\ waitItem'[t] = item /\ waitPort'[t] = port
      /\ \A u \in Tasks \ {t} : /\ waitItem'[u] = waitItem[u] /\ waitPort'[u] = waitPort[u]
                                /\ asleep'[u] = asleep[u]
      /\ UNCHANGED <<portOwner, queue, call>> /\ call.op = "none"
  BY DEF Sleep, listVars, User, NoCall
<1> HIDE DEF AwakeInv, ShapeInv, TypeOK
<1>2. SleeperPorts'
  <2> SUFFICES ASSUME NEW u \in Tasks, asleep'[u]
               PROVE  /\ waitPort'[u] \in Ports => portOwner[waitPort'[u]] \in {u, Gone}
                      /\ waitItem'[u] \in Ports => waitPort'[u] = waitItem'[u]
    BY <1>1 DEF SleeperPorts
  <2>1. CASE u = t
    BY <1>1, <2>1
  <2>2. CASE u # t
    BY <1>1, <2>2 DEF MailInv, SleeperPorts
  <2> QED BY <2>1, <2>2
<1>3. NoSleepBesideMail'
  <2> SUFFICES ASSUME NEW u \in Tasks, asleep'[u], waitPort'[u] \in Ports,
                      portOwner[waitPort'[u]] = u
               PROVE  NoMailFor(u, queue)'
    BY <1>1 DEF NoSleepBesideMail, NoMailFor
  <2>1. CASE u = t
    BY <1>1, <2>1 DEF NoMailFor
  <2>2. CASE u # t
    BY <1>1, <2>2 DEF MailInv, NoSleepBesideMail, NoMailFor
  <2> QED BY <2>1, <2>2
<1> QED BY <1>2, <1>3 DEF MailInv

(* Every step keeps sleepers without mail. *)
LEMMA MailStep ==
    ASSUME PortsKept, PlaceInv, MailInv, [Next]_vars
    PROVE  MailInv'
<1>0. /\ AwakeInv /\ ShapeInv /\ TypeOK /\ QueueInOrder /\ CallShape /\ WaitStates
      /\ queue \in [Ports -> Seq(Msgs)]
  BY DEF PlaceInv, AwakeInv, ShapeInv, TypeOK
\* Steps that touch neither queues nor ports.
<1>a. ASSUME UNCHANGED <<portOwner, queue>>, NobodySleeps, call'.op = "give" => call' = call
      PROVE  MailInv'
  BY <1>0, <1>a, MailShrinks
\* Steps that take a message from where it is.
<1>b. ASSUME NEW m \in Msgs, NEW x, x \notin Ports, Relinked(m, x), UNCHANGED <<portOwner, waitVars>>,
             call'.op # "give"
      PROVE  MailInv'
  <2>1. NobodySleeps
    BY <1>b DEF NobodySleeps, waitVars
  <2>2. queue' \in [Ports -> Seq(Msgs)] /\ \A p \in Ports : Nodes(queue'[p]) \subseteq Nodes(queue[p])
    BY <1>b DEF Relinked
  <2> QED BY <1>0, <1>b, <2>1, <2>2, MailShrinks
<1>c. ASSUME NEW t \in Tasks, NEW m \in Msgs, NEW port, Take(t, m, port) PROVE MailInv'
  <2>1. Relinked(m, t) /\ t \notin Ports
    BY <1>0, <1>c, ToTask, Apart DEF Take
  <2> QED BY <1>b, <1>c, <2>1 DEF Take
<1>1. CASE UNCHANGED vars
  BY <1>1, <1>a DEF vars, listVars, waitVars, NobodySleeps
<1>2. ASSUME NEW t \in Tasks, TaskStep(t) PROVE MailInv'
  <2>1. ASSUME NEW p \in Ports, CreateMsgPort(t, p) PROVE MailInv'
    <3>1. /\ portOwner[p] = Unborn /\ \A x \in Ports \ {p} : portOwner'[x] = portOwner[x]
          /\ UNCHANGED <<queue, waitItem, waitPort, asleep, call>>
      BY <1>0, <2>1 DEF CreateMsgPort, listVars, waitVars, TypeOK
    <3>2. \A u \in Tasks : asleep[u] => waitPort[u] # p
      BY <3>1, Apart DEF MailInv, SleeperPorts
    <3>3. SleeperPorts'
      BY <3>1, <3>2 DEF MailInv, SleeperPorts
    <3>4. NoSleepBesideMail'
      BY <3>1, <3>2 DEF MailInv, NoSleepBesideMail
    <3> QED BY <3>3, <3>4 DEF MailInv
  <2>2. ASSUME NEW p \in Ports, GetMsg(t, p) PROVE MailInv'
    BY <1>0, <1>c, <2>2, HeadIsMsg DEF GetMsg
  <2>3. ASSUME NEW p \in Ports, WaitPortForAny(t, p) PROVE MailInv'
    BY <1>0, <2>3, SleepMail DEF WaitPortForAny
  <2>4. ASSUME NEW m \in Msgs, NEW p \in Ports, WaitPortForMsg(t, p, m) PROVE MailInv'
    <3>1. m \notin Nodes(queue[p])
      BY <2>4 DEF WaitPortForMsg, User, NoCall, PlaceInv, MessageInOnePlace, InTransit, Linked
    <3> QED BY <1>0, <2>4, <3>1, SleepMail, Apart DEF WaitPortForMsg
  <2>5. ASSUME NEW r \in IOReqs, WaitIO(t, r) PROVE MailInv'
    BY <1>0, <2>5, SleepMail, Apart DEF WaitIO
  <2>6. ASSUME NEW p \in Ports, NEW u \in Tasks, SetMsgPortOwner(t, p, u) PROVE MailInv'
    <3>1. /\ portOwner[p] = t /\ waitItem[t] = Idle /\ call'.port = p
          /\ UNCHANGED <<portOwner, queue, waitItem, waitPort, asleep>>
      BY <2>6 DEF SetMsgPortOwner, EnoughPriv, PortsKept, User, listVars, waitVars
    <3>2. ~asleep[t]
      BY <1>0, <3>1, Apart DEF WaitStates, Items
    <3>3. SleeperPorts'
      BY <3>1, <3>2, Apart DEF MailInv, SleeperPorts
    <3>4. NoSleepBesideMail'
      BY <3>1 DEF MailInv, NoSleepBesideMail
    <3> QED BY <3>3, <3>4 DEF MailInv
  <2>7. ASSUME NEW m \in Msgs, NEW p \in Ports, SendMsg(t, p, m) PROVE MailInv'
    BY <1>0, <2>7, DeliverMail DEF SendMsg
  <2>8. ASSUME NEW m \in Msgs, ReplyMsg(t, m) PROVE MailInv'
    BY <1>0, <2>8, DeliverMail DEF ReplyMsg, CanReply
  <2>9. ASSUME NEW m \in Msgs, GetThisMsg(t, m) PROVE MailInv'
    BY <1>c, <2>9 DEF GetThisMsg
  <2>10. ASSUME NEW m \in Msgs,
                \/ \E p \in Ports \cup {NoItem} : CreateMsg(t, m, p)
                \/ \E u \in Tasks : SetMsgOwner(t, m, u)
         PROVE  MailInv'
    BY <1>a, <2>10 DEF CreateMsg, SetMsgOwner, waitVars, NobodySleeps
  <2>11. ASSUME NEW r \in IOReqs, (\E p \in Ports : CreateIOReq(t, r, p)) \/ SendIO(t, r)
         PROVE  MailInv'
    BY <1>a, <2>11 DEF CreateIOReq, SendIO, waitVars, listVars, NobodySleeps
  <2>12. ASSUME NEW p \in Ports, DeleteMsgPort(t, p) PROVE MailInv'
    BY <1>a, <2>12 DEF DeleteMsgPort, waitVars, listVars, NobodySleeps
  <2>13. ASSUME NEW m \in Msgs, DeleteMsg(t, m) PROVE MailInv'
    <3>1. Relinked(m, NoItem) /\ NoItem \notin Ports
      BY <1>0, <2>13, ToNowhere, Apart DEF DeleteMsg
    <3> QED BY <1>b, <2>13, <3>1 DEF DeleteMsg
  <2>14. ASSUME NEW r \in IOReqs, DeleteIOReq(t, r) PROVE MailInv'
    BY <2>13, <2>14, Apart DEF DeleteIOReq
  <2>15. CASE UserDeletes(t) \/ FreeResources(t)
    BY <2>12, <2>13, <2>14, <2>15 DEF UserDeletes, FreeResources, OwnReqs, OwnPorts, OwnMsgs
  <2>16. CASE WaitReturn(t)
    <3>1. NobodySleeps
      BY <1>0, <2>16 DEF WaitReturn, NobodySleeps, TypeOK
    <3> QED BY <1>a, <2>16, <3>1 DEF WaitReturn, listVars
  <2>17. CASE Murder(t)
    <3>1. NobodySleeps
      BY <1>0, <2>17 DEF Murder, NobodySleeps, TypeOK
    <3> QED BY <1>a, <2>17, <3>1 DEF Murder, listVars
  <2>18. CASE Exit(t)
    BY <1>a, <2>18 DEF Exit, listVars, waitVars, NobodySleeps
  <2>19. CASE ReplyHeldMessage(t)
    <3> PICK m \in Answerable(t) : Deliver(replyPort[m], m, "replied")
      BY <2>19 DEF ReplyHeldMessage
    <3>1. m \in Msgs /\ replyPort[m] \in Ports /\ portOwner[replyPort[m]] \in Tasks
      BY <1>0 DEF Answerable, CanReply, TypeOK
    <3> QED BY <1>0, <2>19, <3>1, DeliverMail DEF ReplyHeldMessage
  <2>20. CASE Die(t)
    <3>1. ~asleep[t]
      BY <1>0, <2>20, Apart DEF Die, Dying, WaitStates, Items
    <3>2. NobodySleeps
      BY <1>0, <2>20, <3>1 DEF Die, NobodySleeps, TypeOK
    <3> QED BY <1>a, <2>20, <3>2 DEF Die, listVars
  <2> QED BY <1>2, <2>1, <2>2, <2>3, <2>4, <2>5, <2>6, <2>7, <2>8, <2>9, <2>10, <2>11,
             <2>15, <2>16, <2>17, <2>18, <2>19, <2>20
          DEF TaskStep, DeathStep
<1>3. ASSUME NEW r \in IOReqs, CompleteIO(r) PROVE MailInv'
  <2>0. reqOwner[r] \in Tasks /\ IOMsg[r] \in Msgs
    BY <1>0, <1>3, Apart DEF CompleteIO, ShapeInv, BusyIsOwned
  <2>1. CASE CompleteForWaiter(r)
    <3>1. Relinked(IOMsg[r], reqOwner[r])
      BY <1>0, <2>0, <2>1, ToTask DEF CompleteForWaiter
    <3>2. queue' \in [Ports -> Seq(Msgs)] /\ \A p \in Ports : Nodes(queue'[p]) \subseteq Nodes(queue[p])
      BY <2>0, <3>1, Apart DEF Relinked
    <3>3. NobodySleeps
      BY <1>0, <1>3, <2>0, <2>1 DEF CompleteIO, CompleteForWaiter, NobodySleeps, TypeOK
    <3> QED BY <1>0, <1>3, <3>2, <3>3, MailShrinks DEF CompleteIO
  <2>2. CASE CanReply(IOMsg[r]) /\ Deliver(replyPort[IOMsg[r]], IOMsg[r], "replied")
    BY <1>0, <1>3, <2>0, <2>2, DeliverMail DEF CompleteIO, CanReply
  <2>3. CASE UNCHANGED <<holder, flag, listVars, waitItem, asleep>>
    BY <1>3, <1>a, <2>3 DEF CompleteIO, listVars, NobodySleeps
  <2> QED BY <1>3, <2>1, <2>2, <2>3 DEF CompleteIO
<1>4. CASE CallStep
  <2>1. CASE GetDone
    BY <1>a, <2>1 DEF GetDone, listVars, waitVars, NobodySleeps, NoCall
  <2>2. CASE Drain
    BY <1>0, <1>c, <2>2, HeadIsMsg DEF Drain, CallShape
  <2>3. CASE Bounce
    <3>0. call.msg \in Msgs /\ call'.op # "give"
      BY <1>0, <2>3 DEF Bounce, CallShape, TypeOK
    <3>1. CASE ReturnToSender(call.msg, call.port)
      <4> DEFINE m == call.msg
      <4>1. /\ m \in Msgs /\ replyPort[m] \in Ports /\ portOwner[replyPort[m]] \in Tasks
            /\ Deliver(replyPort[m], m, "replied") /\ UNCHANGED <<portOwner, waitPort>>
        BY <2>3, <3>0, <3>1 DEF Bounce, ReturnToSender, CanReply
      <4> HIDE DEF m
      <4> QED BY <1>0, <3>0, <4>1, DeliverMail
    <3>2. CASE ~ReturnToSender(call.msg, call.port)
      BY <1>a, <2>3, <3>0, <3>2 DEF Bounce, listVars, NobodySleeps
    <3> QED BY <3>1, <3>2
  <2>4. CASE DeleteMsgPortDone
    <3>1. /\ portOwner'[call.port] = Gone /\ call'.op = "none"
          /\ \A x \in Ports \ {call.port} : portOwner'[x] = portOwner[x]
          /\ UNCHANGED <<queue, waitItem, waitPort, asleep>>
      BY <1>0, <2>4 DEF DeleteMsgPortDone, CallShape, TypeOK, listVars, waitVars, NoCall
    <3>2. SleeperPorts'
      BY <3>1 DEF MailInv, SleeperPorts
    <3>3. NoSleepBesideMail'
      BY <3>1, Apart DEF MailInv, NoSleepBesideMail
    <3> QED BY <3>2, <3>3 DEF MailInv
  <2>5. CASE DeleteMsgDone
    <3>1. NobodySleeps
      BY <1>0, <2>5 DEF DeleteMsgDone, NobodySleeps, TypeOK
    <3> QED BY <1>a, <2>5, <3>1 DEF DeleteMsgDone, listVars, NoCall
  <2>6. CASE SetMsgPortOwnerDone
    <3>1. /\ call.op = "give" /\ call'.op = "none"
          /\ \A x \in Ports \ {call.port} : portOwner'[x] = portOwner[x]
          /\ UNCHANGED <<queue, waitItem, waitPort, asleep>>
      BY <1>0, <2>6 DEF SetMsgPortOwnerDone, CallShape, TypeOK, listVars, waitVars, NoCall
    <3>2. \A t \in Tasks : asleep[t] => waitPort[t] # call.port
      BY <3>1 DEF MailInv, SleeperPorts
    <3>3. SleeperPorts'
      BY <3>1, <3>2 DEF MailInv, SleeperPorts
    <3>4. NoSleepBesideMail'
      BY <3>1, <3>2 DEF MailInv, NoSleepBesideMail
    <3> QED BY <3>3, <3>4 DEF MailInv
  <2> QED BY <1>4, <2>1, <2>2, <2>3, <2>4, <2>5, <2>6 DEF CallStep
<1> QED BY <1>1, <1>2, <1>3, <1>4 DEF Next

(* WaitPort does not leave its caller asleep beside its mail: the test of the queue *)
(* and the sleep are one disabled section, and a delivery from task or interrupt    *)
(* looks at the owner's t_WaitItem.  Ports must not change hands behind a sleeper.  *)
THEOREM NobodySleepsBesideMail ==
    ASSUME PrivateRequests, PortsKept
    PROVE  Spec => []NoSleepBesideMail
<1>1. PlaceInv /\ MailInv /\ [Next]_vars => PlaceInv' /\ MailInv'
  BY PlaceStep, MailStep
<1>2. MailInv => NoSleepBesideMail
  BY DEF MailInv
<1>3. Init => MailInv
  BY DEF Init, MailInv, SleeperPorts, NoSleepBesideMail
<1> QED BY <1>1, <1>2, <1>3, PlaceInit, PTL DEF Spec

\* Without privileged tasks, who deletes or gives away a port is its owner.
OwnPortCalls ==
    call.op # "none" /\ call.port \in Ports => portOwner[call.port] = call.by

\* What a sleeper waits for exists and is its own.
SleeperItems ==
    \A t \in Tasks : asleep[t] =>
        /\ waitItem[t] \in Ports => portOwner[waitItem[t]] = t
        /\ waitItem[t] \in Msgs => msgOwner[waitItem[t]] \in Tasks
        /\ waitItem[t] \in IOReqs => busy[waitItem[t]] /\ reqOwner[waitItem[t]] = t

LiveInv == OwnPortCalls /\ SleeperItems

\* In this step no sleeper loses what it waits for.
ItemsKept ==
    \A t \in Tasks : asleep'[t] =>
        /\ asleep[t] /\ waitItem'[t] = waitItem[t]
        /\ waitItem[t] \in Ports => portOwner'[waitItem[t]] = portOwner[waitItem[t]]
        /\ waitItem[t] \in Msgs /\ msgOwner[waitItem[t]] \in Tasks =>
              msgOwner'[waitItem[t]] \in Tasks
        /\ waitItem[t] \in IOReqs => /\ reqOwner'[waitItem[t]] = reqOwner[waitItem[t]]
                                     /\ busy[waitItem[t]] => busy'[waitItem[t]]

(* Then every sleeper still waits for something that exists. *)
LEMMA ItemsStay ==
    ASSUME SleeperItems, ItemsKept
    PROVE  SleeperItems'
BY DEF SleeperItems, ItemsKept

(* Deliveries wake, and take nothing away. *)
LEMMA DeliverItems ==
    ASSUME AwakeInv, LiveInv, NEW m \in Msgs, NEW p \in Ports, portOwner[p] \in Tasks,
           NEW how \in {"sent", "replied"}, Deliver(p, m, how),
           UNCHANGED <<portOwner, ioVars>>,
           \A n \in Msgs : msgOwner[n] \in Tasks => msgOwner'[n] \in Tasks
    PROVE  SleeperItems'
<1> USE DEF AwakeInv, ShapeInv, TypeOK
<1>1. \A t \in Tasks : asleep'[t] => asleep[t] /\ waitItem'[t] = waitItem[t]
  BY DeliverCases DEF Given, Queued
<1> HIDE DEF AwakeInv, ShapeInv, TypeOK
<1>2. ItemsKept
  BY <1>1 DEF ItemsKept, ioVars
<1> QED BY <1>2, ItemsStay DEF LiveInv

(* A task that is awake goes to sleep for an item of its own. *)
LEMMA SleepItems ==
    ASSUME AwakeInv, LiveInv, NEW t \in Tasks, User(t), NEW item, NEW port,
           Sleep(t, item, port),
           item \in Ports => portOwner[item] = t,
           item \in Msgs => msgOwner[item] \in Tasks,
           item \in IOReqs => busy[item] /\ reqOwner[item] = t
    PROVE  LiveInv'
<1>1. /\ waitItem'[t] = item
      /\ \A u \in Tasks \ {t} : waitItem'[u] = waitItem[u] /\ asleep'[u] = asleep[u]
      /\ UNCHANGED <<portOwner, msgOwner, busy, reqOwner, call>>
  BY DEF Sleep, msgVars, ioVars, AwakeInv, ShapeInv, TypeOK
<1>2. SleeperItems'
  <2> SUFFICES ASSUME NEW u \in Tasks, asleep'[u]
               PROVE  /\ waitItem'[u] \in Ports => portOwner[waitItem'[u]] = u
                      /\ waitItem'[u] \in Msgs => msgOwner[waitItem'[u]] \in Tasks
                      /\ waitItem'[u] \in IOReqs => busy[waitItem'[u]] /\ reqOwner[waitItem'[u]] = u
    BY <1>1 DEF SleeperItems
  <2>1. CASE u = t
    BY <1>1, <2>1
  <2>2. CASE u # t
    BY <1>1, <2>2 DEF LiveInv, SleeperItems
  <2> QED BY <2>1, <2>2
<1> QED BY <1>1, <1>2 DEF LiveInv, OwnPortCalls

(* Every step keeps what sleepers wait for. *)
LEMMA LiveStep ==
    ASSUME Privileged = {}, AwakeInv, LiveInv, [Next]_vars
    PROVE  LiveInv'
<1>0. /\ ShapeInv /\ TypeOK /\ CallShape /\ WaitStates /\ BusyIsOwned
      /\ OwnPortCalls /\ SleeperItems
  BY DEF AwakeInv, ShapeInv, LiveInv
\* Who is awake for a call is not asleep.
<1>a. ASSUME NEW t \in Tasks, waitItem[t] \in {Idle, Aborted} PROVE ~asleep[t]
  BY <1>0, <1>a, Apart DEF WaitStates, Items
<1>b. ASSUME UNCHANGED <<portOwner, reqOwner, busy>>,
             \A n \in Msgs : msgOwner[n] \in Tasks => msgOwner'[n] \in Tasks,
             \A u \in Tasks : asleep'[u] => asleep[u] /\ waitItem'[u] = waitItem[u]
      PROVE  SleeperItems'
  BY <1>0, <1>b, ItemsStay DEF ItemsKept
<1>1. CASE UNCHANGED vars
  BY <1>1 DEF vars, msgVars, waitVars, ioVars, LiveInv, OwnPortCalls, SleeperItems
<1>2. ASSUME NEW t \in Tasks, TaskStep(t) PROVE LiveInv'
  <2>1. ASSUME NEW p \in Ports, CreateMsgPort(t, p) PROVE LiveInv'
    <3>1. /\ portOwner[p] = Unborn /\ \A x \in Ports \ {p} : portOwner'[x] = portOwner[x]
          /\ UNCHANGED <<msgOwner, waitItem, asleep, reqOwner, busy, call>> /\ call.op = "none"
      BY <1>0, <2>1 DEF CreateMsgPort, User, NoCall, msgVars, waitVars, ioVars, TypeOK
    <3>2. \A u \in Tasks : asleep[u] => waitItem[u] # p
      BY <1>0, <3>1, Apart DEF SleeperItems
    <3> QED BY <1>0, <3>1, <3>2 DEF LiveInv, OwnPortCalls, SleeperItems
  <2>2. ASSUME NEW m, Take(t, m, NoItem) PROVE LiveInv'
    BY <1>0, <2>2, Apart DEF Take, waitVars, ioVars, LiveInv, OwnPortCalls, SleeperItems
  <2>3. ASSUME NEW p \in Ports, WaitPortForAny(t, p) PROVE LiveInv'
    BY <2>3, SleepItems, Apart DEF WaitPortForAny
  <2>4. ASSUME NEW m \in Msgs, NEW p \in Ports, WaitPortForMsg(t, p, m) PROVE LiveInv'
    BY <2>4, SleepItems, Apart DEF WaitPortForMsg
  <2>5. ASSUME NEW r \in IOReqs, WaitIO(t, r) PROVE LiveInv'
    BY <2>5, SleepItems, Apart DEF WaitIO
  <2>6. ASSUME NEW p \in Ports, NEW u \in Tasks, SetMsgPortOwner(t, p, u) PROVE LiveInv'
    BY <1>0, <2>6 DEF SetMsgPortOwner, EnoughPriv, msgVars, waitVars, ioVars, LiveInv,
                OwnPortCalls, SleeperItems
  <2>7. ASSUME NEW m \in Msgs, NEW p \in Ports, SendMsg(t, p, m) PROVE LiveInv'
    <3>1. \A n \in Msgs : msgOwner[n] \in Tasks => msgOwner'[n] \in Tasks
      BY <1>0, <2>7 DEF SendMsg, TypeOK
    <3>2. SleeperItems'
      BY <2>7, <3>1, DeliverItems DEF SendMsg
    <3> QED BY <1>0, <2>7, <3>2 DEF SendMsg, LiveInv, OwnPortCalls
  <2>8. ASSUME NEW m \in Msgs, ReplyMsg(t, m) PROVE LiveInv'
    <3>1. SleeperItems'
      BY <2>8, DeliverItems DEF ReplyMsg, CanReply
    <3> QED BY <1>0, <2>8, <3>1 DEF ReplyMsg, LiveInv, OwnPortCalls
  <2>9. ASSUME NEW m \in Msgs, NEW p, NewMsg(t, m, p),
               UNCHANGED <<portOwner, waitItem, asleep, busy, call>>,
               \A r \in IOReqs : reqOwner[r] \in Tasks => reqOwner'[r] = reqOwner[r]
        PROVE  LiveInv'
    <3>1. \A n \in Msgs : msgOwner[n] \in Tasks => msgOwner'[n] \in Tasks
      BY <1>0, <2>9 DEF NewMsg, TypeOK
    <3>2. ItemsKept
      BY <1>0, <2>9, <3>1 DEF ItemsKept, SleeperItems
    <3> QED BY <1>0, <2>9, <3>2, ItemsStay DEF LiveInv, OwnPortCalls
  <2>10. ASSUME NEW m \in Msgs, NEW u \in Tasks, SetMsgOwner(t, m, u) PROVE LiveInv'
    <3>1. \A n \in Msgs : msgOwner[n] \in Tasks => msgOwner'[n] \in Tasks
      BY <1>0, <2>10 DEF SetMsgOwner, TypeOK
    <3> QED BY <1>0, <1>b, <2>10, <3>1 DEF SetMsgOwner, waitVars, ioVars, LiveInv, OwnPortCalls
  <2>11. ASSUME NEW r \in IOReqs, NEW p \in Ports, CreateIOReq(t, r, p) PROVE LiveInv'
    <3>1. \A s \in IOReqs : reqOwner[s] \in Tasks => reqOwner'[s] = reqOwner[s]
      BY <1>0, <2>11, Apart DEF CreateIOReq, TypeOK
    <3> QED BY <2>9, <2>11, <3>1, Apart DEF CreateIOReq, waitVars
  <2>12. ASSUME NEW r \in IOReqs, SendIO(t, r) PROVE LiveInv'
    <3>1. ItemsKept
      BY <1>0, <2>12 DEF SendIO, msgVars, waitVars, ItemsKept, TypeOK
    <3> QED BY <1>0, <2>12, <3>1, ItemsStay DEF SendIO, LiveInv, OwnPortCalls
  <2>13. ASSUME NEW p \in Ports, DeleteMsgPort(t, p) PROVE LiveInv'
    BY <1>0, <2>13 DEF DeleteMsgPort, EnoughPriv, msgVars, waitVars, ioVars, LiveInv,
                OwnPortCalls, SleeperItems
  <2>14. ASSUME NEW m, DeleteMsg(t, m),
                \A r \in IOReqs : busy[r] => reqOwner'[r] = reqOwner[r]
         PROVE  LiveInv'
    <3>1. ItemsKept
      BY <1>0, <2>14 DEF DeleteMsg, waitVars, ItemsKept, SleeperItems
    <3> QED BY <1>0, <2>14, <3>1, ItemsStay, Apart DEF DeleteMsg, LiveInv, OwnPortCalls
  <2>15. ASSUME NEW r \in IOReqs, DeleteIOReq(t, r) PROVE LiveInv'
    <3>1. \A s \in IOReqs : busy[s] => reqOwner'[s] = reqOwner[s]
      BY <1>0, <2>15 DEF DeleteIOReq, TypeOK
    <3> QED BY <2>14, <2>15, <3>1 DEF DeleteIOReq
  <2>16. CASE UserDeletes(t) \/ FreeResources(t)
    BY <2>13, <2>14, <2>15, <2>16 DEF UserDeletes, FreeResources, OwnReqs, OwnPorts, OwnMsgs
  <2>17. CASE WaitReturn(t)
    <3>1. \A u \in Tasks : asleep'[u] => asleep[u] /\ waitItem'[u] = waitItem[u]
      BY <1>0, <2>17 DEF WaitReturn, TypeOK
    <3> QED BY <1>0, <1>b, <2>17, <3>1 DEF WaitReturn, msgVars, ioVars, LiveInv, OwnPortCalls
  <2>18. CASE Murder(t)
    <3>1. \A u \in Tasks : asleep'[u] => asleep[u] /\ waitItem'[u] = waitItem[u]
      BY <1>0, <2>18 DEF Murder, TypeOK
    <3> QED BY <1>0, <1>b, <2>18, <3>1 DEF Murder, msgVars, ioVars, LiveInv, OwnPortCalls
  <2>19. CASE Exit(t)
    BY <1>0, <1>b, <2>19 DEF Exit, waitVars, msgVars, ioVars, LiveInv, OwnPortCalls
  <2>20. CASE ReplyHeldMessage(t)
    <3> PICK m \in Answerable(t) : Deliver(replyPort[m], m, "replied")
      BY <2>20 DEF ReplyHeldMessage
    <3>1. m \in Msgs /\ replyPort[m] \in Ports /\ portOwner[replyPort[m]] \in Tasks
      BY <1>0 DEF Answerable, CanReply, TypeOK
    <3>2. SleeperItems'
      BY <2>20, <3>1, DeliverItems DEF ReplyHeldMessage
    <3> QED BY <1>0, <2>20, <3>2 DEF ReplyHeldMessage, LiveInv, OwnPortCalls
  <2>21. CASE Die(t)
    <3>1. ~asleep[t]
      BY <1>0, <1>a, <2>21 DEF Die, Dying, WaitStates
    <3>2. \A u \in Tasks : asleep'[u] => asleep[u] /\ waitItem'[u] = waitItem[u]
      BY <1>0, <2>21, <3>1 DEF Die, TypeOK
    <3> QED BY <1>0, <1>b, <2>21, <3>2 DEF Die, msgVars, ioVars, LiveInv, OwnPortCalls
  <2>22. ASSUME NEW p \in Ports, GetMsg(t, p) PROVE LiveInv'
    BY <2>2, <2>22 DEF GetMsg
  <2>23. ASSUME NEW m \in Msgs, GetThisMsg(t, m) PROVE LiveInv'
    BY <2>2, <2>23 DEF GetThisMsg
  <2>24. ASSUME NEW m \in Msgs, NEW p, CreateMsg(t, m, p) PROVE LiveInv'
    BY <2>9, <2>24 DEF CreateMsg, waitVars, ioVars
  <2> QED BY <1>2, <2>1, <2>3, <2>4, <2>5, <2>6, <2>7, <2>8, <2>10, <2>11, <2>12, <2>16,
             <2>17, <2>18, <2>19, <2>20, <2>21, <2>22, <2>23, <2>24
          DEF TaskStep, DeathStep
<1>3. ASSUME NEW r \in IOReqs, CompleteIO(r) PROVE LiveInv'
  <2>0. /\ reqOwner[r] \in Tasks /\ busy[r]
        /\ \A s \in IOReqs \ {r} : busy'[s] = busy[s]
        /\ UNCHANGED <<portOwner, msgOwner, reqOwner, call>>
    BY <1>0, <1>3 DEF CompleteIO, BusyIsOwned, TypeOK
  \* A task that sleeps for the request is its owner, and is woken.
  <2>1. \A t \in Tasks : asleep'[t] => asleep[t] /\ waitItem'[t] = waitItem[t] /\ waitItem[t] # r
    <3>1. CASE CompleteForWaiter(r)
      BY <1>0, <2>0, <3>1 DEF CompleteForWaiter, TypeOK, SleeperItems
    <3>2. CASE /\ waitItem[reqOwner[r]] # r
               /\ CanReply(IOMsg[r]) /\ Deliver(replyPort[IOMsg[r]], IOMsg[r], "replied")
      <4>1. \/ Given(portOwner[replyPort[IOMsg[r]]], replyPort[IOMsg[r]], IOMsg[r])
            \/ Queued(replyPort[IOMsg[r]], IOMsg[r], "replied")
        BY <1>0, <3>2, Apart, DeliverCases DEF CanReply, ShapeInv
      <4>2. \A t \in Tasks : asleep'[t] => asleep[t] /\ waitItem'[t] = waitItem[t]
        BY <1>0, <3>2, <4>1 DEF Given, Queued, CanReply, TypeOK
      <4>3. \A t \in Tasks : asleep[t] => waitItem[t] # r
        BY <1>0, <3>2 DEF SleeperItems
      <4> QED BY <4>2, <4>3
    <3>3. CASE waitItem[reqOwner[r]] # r /\ UNCHANGED <<holder, flag, listVars, waitItem, asleep>>
      BY <1>0, <3>3 DEF SleeperItems
    <3> QED BY <1>3, <3>1, <3>2, <3>3 DEF CompleteIO
  <2>2. ItemsKept
    BY <2>0, <2>1 DEF ItemsKept
  <2> QED BY <1>0, <2>0, <2>2, ItemsStay DEF LiveInv, OwnPortCalls
<1>4. CASE CallStep
  <2>1. CASE GetDone
    BY <1>0, <2>1 DEF GetDone, waitVars, ioVars, LiveInv, OwnPortCalls, SleeperItems, NoCall, TypeOK
  <2>2. CASE Drain
    BY <1>0, <2>2 DEF Drain, Take, waitVars, ioVars, LiveInv, OwnPortCalls, SleeperItems
  <2>3. CASE Bounce
    <3>0. call.msg \in Msgs /\ call'.port = call.port /\ call'.by = call.by /\ call.op # "none"
      BY <1>0, <2>3 DEF Bounce, CallShape, TypeOK
    <3>1. CASE ReturnToSender(call.msg, call.port)
      <4> DEFINE m == call.msg
      <4>1. /\ m \in Msgs /\ replyPort[m] \in Ports /\ portOwner[replyPort[m]] \in Tasks
            /\ Deliver(replyPort[m], m, "replied") /\ UNCHANGED <<portOwner, msgOwner, ioVars>>
        BY <2>3, <3>0, <3>1 DEF Bounce, ReturnToSender, CanReply
      <4> HIDE DEF m
      <4>2. SleeperItems'
        BY <4>1, DeliverItems
      <4> QED BY <1>0, <3>0, <4>1, <4>2 DEF LiveInv, OwnPortCalls
    <3>2. CASE ~ReturnToSender(call.msg, call.port)
      BY <1>0, <2>3, <3>0, <3>2 DEF Bounce, ioVars, LiveInv, OwnPortCalls, SleeperItems
    <3> QED BY <3>1, <3>2
  <2>4. CASE DeleteMsgPortDone
    <3>1. /\ call.port \in Ports /\ call.by \in Tasks /\ call'.op = "none"
          /\ \A x \in Ports \ {call.port} : portOwner'[x] = portOwner[x]
          /\ UNCHANGED <<msgOwner, waitItem, asleep, reqOwner, busy>>
          /\ portOwner[call.port] = call.by /\ waitItem[call.by] \in {Idle, Aborted}
      BY <1>0, <2>4 DEF DeleteMsgPortDone, CallShape, TypeOK, NoCall, OwnPortCalls, AwakeInv,
                  CallerAwake, msgVars, waitVars, ioVars
    <3>2. \A t \in Tasks : asleep[t] => waitItem[t] # call.port
      BY <1>0, <1>a, <3>1 DEF SleeperItems
    <3> QED BY <1>0, <3>1, <3>2 DEF LiveInv, OwnPortCalls, SleeperItems
  <2>5. CASE DeleteMsgDone
    <3>1. ItemsKept
      BY <1>0, <2>5 DEF DeleteMsgDone, ItemsKept, CallShape, TypeOK, ioVars
    <3> QED BY <1>0, <2>5, <3>1, ItemsStay DEF DeleteMsgDone, LiveInv, OwnPortCalls, NoCall
  <2>6. CASE SetMsgPortOwnerDone
    <3>1. /\ call.port \in Ports /\ call.by \in Tasks /\ call'.op = "none"
          /\ \A x \in Ports \ {call.port} : portOwner'[x] = portOwner[x]
          /\ UNCHANGED <<msgOwner, waitItem, asleep, reqOwner, busy>>
          /\ portOwner[call.port] = call.by /\ waitItem[call.by] \in {Idle, Aborted}
      BY <1>0, <2>6 DEF SetMsgPortOwnerDone, CallShape, TypeOK, NoCall, OwnPortCalls, AwakeInv,
                  CallerAwake, msgVars, waitVars, ioVars
    <3>2. \A t \in Tasks : asleep[t] => waitItem[t] # call.port
      BY <1>0, <1>a, <3>1 DEF SleeperItems
    <3> QED BY <1>0, <3>1, <3>2 DEF LiveInv, OwnPortCalls, SleeperItems
  <2> QED BY <1>4, <2>1, <2>2, <2>3, <2>4, <2>5, <2>6 DEF CallStep
<1> QED BY <1>1, <1>2, <1>3, <1>4 DEF Next

(* Without privileged tasks, what a sleeper waits for can still come: its port is   *)
(* its own, its message exists (internalDeleteMsg wakes who waits for it), its      *)
(* request is with the device.  Threads and transfers do not matter here.           *)
THEOREM SleepersCanBeWoken ==
    ASSUME Privileged = {}
    PROVE  Spec => []SleepersWaitForLiveItem
<1>1. AwakeInv /\ LiveInv /\ [Next]_vars => AwakeInv' /\ LiveInv'
  BY AwakeStep, LiveStep
<1>2. AwakeInv /\ LiveInv => SleepersWaitForLiveItem
  BY DEF AwakeInv, WaitStates, LiveInv, SleeperItems, SleepersWaitForLiveItem, Items
<1>3. Init => AwakeInv
  BY PlaceInit DEF PlaceInv
<1>4. Init => LiveInv
  BY DEF Init, LiveInv, OwnPortCalls, SleeperItems, NoCall
<1> QED BY <1>1, <1>2, <1>3, <1>4, PTL DEF Spec

=============================================================================
