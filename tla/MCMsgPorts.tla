---------------------------- MODULE MCMsgPorts ----------------------------
(***************************************************************************)
(* Small instances of MsgPorts for TLC: a client c with a port and a       *)
(* request, a server s with a port and a message-based I/O request.        *)
(***************************************************************************)
EXTENDS MsgPorts, TLC

CONSTANTS c, s, thread, cPort, sPort, m1, ioMsg, ioReq

MCIOMsg   == [r \in IOReqs |-> ioMsg]
MCCreator == [x \in Items |-> IF x \in {cPort, m1} THEN c ELSE s]
MCPri     == [m \in Msgs |-> IF m = ioMsg THEN 2 ELSE 1]
EqualPri  == [m \in Msgs |-> 1]

\* Every task on its own, or a third task that is a thread of the client.
Strangers == [t \in Tasks |-> t]
Threads   == [t \in Tasks |-> IF t = thread THEN c ELSE t]

=============================================================================
