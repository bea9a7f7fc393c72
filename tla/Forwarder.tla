------------------------------- MODULE Forwarder -------------------------------
(****************************************************************************)
(* The socket forwarder (src/socket-forwarder/socket-forwarder.cpp): browsers   *)
(* connect to a TCPServerHandler (src/src/server.hpp), and what they write goes   *)
(* to the robot over one ENet link.  The main thread runs the WebSocket server    *)
(* and, in its message handler, calls ENet; another thread services the same      *)
(* ENet host.                                                                *)
(*                                                                          *)
(* WebSocketConnection implements the sessions assumed here, EnetChannel the      *)
(* channel.                                                                  *)
(****************************************************************************)
EXTENDS WebSocketEvents, SequencesExt, Integers

CONSTANTS
    Length,     \* how many messages each client would write
    MaxReplies  \* bound: packets the robot sends

ASSUME ForwarderAssumption == Length \in Nat

VARIABLES
    program,        \* "running", "crashed" or "exited"
    connectionHdls, \* TCPServerHandler's list of connections
    replies,        \* per connection, what sendString sent
    handling,       \* the main thread: the message onIncomingPacket has, and where it is
    client,         \* the pointer to the ENet host: "null", "live", "freed"
    service,        \* the other thread, runENet
    peer,           \* the state of client->peers[0]
    channel,        \* packets ENet has taken and not delivered
    robot,          \* ghost: the packets delivered
    received,       \* packets received from the robot
    raced           \* ghost: both threads have been inside the ENet host at once

serverVars == <<session, unread, connectionHdls, replies>>
hostVars == <<client, peer, channel, robot>>
forwarderVars == <<program, serverVars, handling, hostVars, service, received, raced>>

Channel == INSTANCE OrderedChannel WITH delivered <- robot

Packet(c, n) == [client |-> c, n |-> n, reliable |-> TRUE]
Idle == [at |-> "run", packet |-> Packet("none", 0)]

\* The handlers TCPServerHandler registers: onConnection is not one of them.
Registered == {"message", "interrupt", "fail", "close"}

ForwarderInit ==
    /\ program = "running"
    /\ Init
    /\ unread = [c \in Connections |-> [n \in 1..Length |-> Packet(c, n)]]
    /\ connectionHdls = <<>> /\ replies = [c \in Connections |-> <<>>]
    /\ handling = Idle
    /\ client = "null" /\ service = "starting" /\ peer = "DISCONNECTED"
    /\ channel = <<>> /\ robot = <<>> /\ received = 0
    /\ raced = FALSE

----
(* The main thread.                                                          *)
Session(c) ==
    /\ handling.at = "run"
    /\ \/ (Accept(c) \/ StartClosing(c)) /\ UNCHANGED connectionHdls
       \/ /\ Open(c)
          /\ connectionHdls' = IF "open" \in Registered THEN Append(connectionHdls, c)
                               ELSE connectionHdls
       \/ (Fail(c) \/ Close(c)) /\ UNCHANGED connectionHdls   \* onDisconnect: no callback is set
    /\ UNCHANGED <<program, replies, handling, hostVars, service, received>>

\* onMessage calls onIncomingPacket.
HandleMessage(c) ==
    /\ handling.at = "run"
    /\ Message(c)
    /\ handling' = [at |-> "called", packet |-> Head(unread[c])]
    /\ UNCHANGED <<program, connectionHdls, replies, hostVars, service, received>>

\* The host is reached through a pointer that is null until it is created, and is
\* left as it was when it has been destroyed.
CallHost ==
    /\ handling.at = "called"
    /\ IF client = "live" THEN handling' = [handling EXCEPT !.at = "sending"] /\ UNCHANGED program
       ELSE \/ program' = "crashed" /\ UNCHANGED handling
            \/ client = "freed" /\ handling' = Idle /\ UNCHANGED program
    /\ UNCHANGED <<serverVars, hostVars, service, received>>

\* A packet for a peer that is not connected is not taken.
TakenWhileConnecting == peer = "CONNECTING"   \* a mistake
Taken == peer = "CONNECTED"

enet_peer_send ==
    /\ handling.at = "sending"
    /\ handling' = [handling EXCEPT !.at = "flushing"]
    /\ IF Taken THEN Channel!Put(handling.packet) ELSE UNCHANGED <<channel, robot>>
    /\ UNCHANGED <<program, serverVars, client, peer, service, received>>

\* A mistake: the packet is sent once more.
enet_host_flushAgain ==
    /\ handling.at = "flushing"
    /\ handling' = [handling EXCEPT !.at = "sending"]
    /\ UNCHANGED <<program, serverVars, hostVars, service, received>>
enet_host_flush ==
    /\ handling.at = "flushing"
    /\ handling' = Idle
    /\ UNCHANGED <<program, serverVars, hostVars, service, received>>

----
(* The thread of runENet.                                                    *)
CreateHost ==
    /\ service = "starting"
    /\ \/ client' = "live" /\ service' = "asking" /\ UNCHANGED program
       \/ program' = "exited" /\ UNCHANGED <<client, service>>
    /\ UNCHANGED <<serverVars, handling, peer, channel, robot, received>>

\* Somebody has typed in host and port.
enet_host_connect ==
    /\ service = "asking"
    /\ peer' = "CONNECTING"
    /\ service' = "working"
    /\ UNCHANGED <<program, serverVars, handling, client, channel, robot, received>>

\* enet_host_service waits for the socket, and then works.
Wake ==
    /\ service = "waiting"
    /\ service' = "working"
    /\ UNCHANGED <<program, serverVars, handling, hostVars, received>>

Nothing ==
    /\ service = "working" /\ service' = "waiting"
    /\ UNCHANGED <<program, serverVars, handling, hostVars, received>>

Connected ==
    /\ service = "working" /\ peer = "CONNECTING"
    /\ peer' = "CONNECTED" /\ service' = "waiting"
    /\ UNCHANGED <<program, serverVars, handling, client, channel, robot, received>>

\* The link is refused, closed or timed out: runENet does not try again.
Disconnected ==
    /\ service = "working" /\ peer # "DISCONNECTED"
    /\ peer' = "DISCONNECTED" /\ channel' = <<>> /\ service' = "waiting"
    /\ UNCHANGED <<program, serverVars, handling, client, robot, received>>

Receive ==
    /\ service = "working" /\ peer = "CONNECTED" /\ received < MaxReplies
    /\ received' = received + 1 /\ service' = "sendString"
    /\ UNCHANGED <<program, serverVars, handling, hostVars>>

sendString ==
    /\ service = "sendString"
    /\ replies' = [c \in Connections |->
                     IF c \in ToSet(connectionHdls) /\ session[c] = "open"
                     THEN Append(replies[c], received) ELSE replies[c]]
    /\ service' = "working"
    /\ UNCHANGED <<program, session, unread, connectionHdls, handling, hostVars, received>>

\* The service fails: the host is destroyed, and the pointer to it kept.
DestroyHost ==
    /\ service = "working"
    /\ client' = "freed" /\ service' = "ended"
    /\ peer' = "DISCONNECTED" /\ channel' = <<>>
    /\ UNCHANGED <<program, serverVars, handling, robot, received>>

----
(* The channel delivers; and what two threads do to the host at once may ruin it.   *)
Deliver ==
    /\ Channel!DeliverFirst
    /\ UNCHANGED <<program, serverVars, handling, client, peer, service, received>>

Ruin ==
    /\ raced
    /\ \/ program' = "crashed" /\ UNCHANGED channel
       \/ channel' = <<>> /\ UNCHANGED program
    /\ UNCHANGED <<serverVars, handling, client, peer, robot, service, received>>

InHost(at, doing) == at \in {"sending", "flushing"} /\ doing = "working"

Main == \/ \E c \in Connections : HandleMessage(c)
        \/ CallHost \/ enet_peer_send \/ enet_host_flush
Serve == Wake \/ Nothing \/ Connected \/ Disconnected \/ Receive \/ sendString

ForwarderNext ==
    /\ program = "running"
    /\ \/ Main \/ Serve \/ Deliver \/ Ruin
       \/ \E c \in Connections : Session(c)
       \/ CreateHost \/ enet_host_connect \/ DestroyHost
    /\ raced' = (raced \/ InHost(handling'.at, service'))

ForwarderSpec == ForwarderInit /\ [][ForwarderNext]_forwarderVars

(* Both threads go on; the channel delivers what it has taken (EnetChannel's        *)
(* ReliableArrives).  Nobody need connect, write or type anything in.            *)
Running(A) == program = "running" /\ A /\ raced' = (raced \/ InHost(handling'.at, service'))
ForwarderFairness ==
    /\ WF_forwarderVars(Running(CallHost \/ enet_peer_send \/ enet_host_flush))
    /\ WF_forwarderVars(Running(Serve))
    /\ WF_forwarderVars(Running(Deliver))
FairForwarderSpec == ForwarderSpec /\ ForwarderFairness

----
Packets == [client : Connections, n : 1..Length, reliable : {TRUE}]

(* Every variable has values of its kind; a thread that is inside the host has one.   *)
ForwarderTypeOK ==
    /\ SessionTypeOK
    /\ program \in {"running", "crashed", "exited"}
    /\ unread \in [Connections -> Seq(Packets)]
    /\ ToSet(connectionHdls) \subseteq Connections
    /\ handling.at \in {"run", "called", "sending", "flushing"}
    /\ handling.packet \in Packets \/ handling = Idle
    /\ client \in {"null", "live", "freed"}
    /\ service \in {"starting", "asking", "waiting", "working", "sendString", "ended"}
    /\ peer \in {"DISCONNECTED", "CONNECTING", "CONNECTED"}
    /\ channel \in Seq(Packets) /\ robot \in Seq(Packets)
    /\ service \in {"waiting", "working", "sendString"} => client = "live"
    /\ peer # "DISCONNECTED" => client = "live"

InOrder(packets) ==
    \A i, j \in DOMAIN packets :
        i < j /\ packets[i].client = packets[j].client => packets[i].n < packets[j].n
Before(packets, p) ==
    \A i \in DOMAIN packets : packets[i].client = p.client => packets[i].n < p.n

(* As long as the two threads have not been in the host at once, the robot is given     *)
(* what each browser wrote in the order it was written, nothing twice, whatever links   *)
(* and browsers come and go (onMessage, onIncomingPacket, enet_peer_send).           *)
ForwardsInOrder ==
    ~ raced => /\ InOrder(robot \o channel)
               /\ \A c \in Connections : \A i \in DOMAIN unread[c] :
                     Before(robot \o channel, unread[c][i])

(* Both threads are well formed, and forward in order.                              *)
ForwarderInv == ForwarderTypeOK /\ ForwardsInOrder

(* What a browser's message handler is given while the link is up reaches the robot,   *)
(* unless the link is lost, or both threads have been in the host at once, or it has    *)
(* been destroyed (onIncomingPacket).                                         *)
MessagesReachTheRobot ==
    \A c \in Connections, n \in 1..Length :
        (handling = [at |-> "called", packet |-> Packet(c, n)] /\ peer = "CONNECTED")
            ~> (Packet(c, n) \in ToSet(robot) \/ peer # "CONNECTED" \/ raced)

(* enet-1.3.18/docs/FAQ.dox: "as long as the application guards access to this         *)
(* structure, then ENet should operate fine in a multi-threaded environment".          *)
HostIsGuarded == ~ raced
================================================================================
