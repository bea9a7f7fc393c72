-------------------------------- MODULE EnetHost --------------------------------
(****************************************************************************)
(* The ENet host of the robot (src/enet-1.3.18/protocol.c and peer.c) as      *)
(* enet_host_service runs it: one thread goes through the phases of a call,   *)
(* dispatch, send, receive, send, dispatch, wait, until it has an event.      *)
(* Between any two of its steps the other ends act and the network delivers.  *)
(*                                                                          *)
(* Only the robot's side is modelled command by command.  The network between *)
(* is ENet's reliable channel 0: lost, duplicated and overtaking datagrams are *)
(* masked by its sequence numbers and retransmissions, so a peer's commands    *)
(* arrive in order, late, or from some point on not at all.                   *)
(****************************************************************************)
EXTENDS Integers, Sequences, FiniteSets

CONSTANTS
    PeerCount,      \* host->peerCount, 32 in the robot
    Payloads,       \* the packets the other ends send
    MaxInFlight,    \* bound: commands of one peer on the network
    MaxWaiting,     \* host->maximumWaitingData, counted in packets
    MaxDatagrams    \* datagrams read in one receive phase, 256 in the code

Peers == 1..PeerCount

\* The commands of the other end.  A DISCONNECT asks to be acknowledged
\* (enet_peer_disconnect) or does not (enet_peer_disconnect_now).
Goodbyes == {"disconnect", "disconnect_now"}
Commands == [type : {"acknowledge"} \cup Goodbyes]
               \cup [type : {"send_reliable"}, packet : Payloads]

PeerStates == {"DISCONNECTED", "ACKNOWLEDGING_CONNECT", "CONNECTED",
               "ACKNOWLEDGING_DISCONNECT", "ZOMBIE"}

ASSUME HostAssumption ==
    /\ PeerCount \in Nat /\ MaxDatagrams \in Nat \ {0}
    /\ MaxInFlight \in Nat \ {0} /\ MaxWaiting \in Nat \ {0}

VARIABLES
    peerState,          \* peer->state
    dispatchedCommands, \* peer->dispatchedCommands: packets ready for the program
    dispatchQueue,      \* host->dispatchQueue
    needsDispatch,      \* the peers with ENET_PEER_FLAG_NEEDS_DISPATCH
    connectedPeers,     \* host->connectedPeers
    livePackets,        \* per peer, its packets allocated and not destroyed
    event,              \* the caller's ENetEvent
    phase,              \* where enet_host_service is
    position,           \* the peer of a send phase, the datagrams of a receive phase
    sender, left,       \* the peer whose datagram is being read, commands left in it
    status,             \* what the last call returned, 0 while one runs
    remote,             \* the other end of a slot
    wire                \* its commands on the way to the host

hostVars == <<peerState, dispatchedCommands, dispatchQueue, needsDispatch,
              connectedPeers, livePackets>>
callVars == <<event, phase, position, sender, left, status>>
netVars  == <<remote, wire>>
enetVars == <<hostVars, callVars, netVars>>

NoEvent == [type |-> "NONE"]

HostInit ==
    /\ peerState = [p \in Peers |-> "DISCONNECTED"]
    /\ dispatchedCommands = [p \in Peers |-> <<>>]
    /\ dispatchQueue = <<>>
    /\ needsDispatch = {}
    /\ connectedPeers = 0
    /\ livePackets = [p \in Peers |-> 0]
    /\ event = NoEvent
    /\ phase = "returned"
    /\ position = 0
    /\ sender = 0 /\ left = 0
    /\ status = 0
    /\ remote = [p \in Peers |-> "absent"]
    /\ wire = [p \in Peers |-> <<>>]
--------------------------------------------------------------------------------
(* What several handlers do.                                                 *)

(* enet_peer_reset_queues takes a flagged peer out of the queue.              *)
Place(p) == CHOOSE i \in 1..Len(dispatchQueue) : dispatchQueue[i] = p
Unqueued(p) ==
    IF p \in needsDispatch
    THEN SubSeq(dispatchQueue, 1, Place(p) - 1)
           \o SubSeq(dispatchQueue, Place(p) + 1, Len(dispatchQueue))
    ELSE dispatchQueue

(* What becomes of connectedPeers when p's state becomes CONNECTED, or another.  *)
enet_peer_on_connect(p) ==
    IF peerState[p] # "CONNECTED" THEN connectedPeers + 1 ELSE connectedPeers
enet_peer_on_disconnect(p) ==
    IF peerState[p] = "CONNECTED" THEN connectedPeers - 1 ELSE connectedPeers

change_state(p, state) ==
    /\ peerState' = [peerState EXCEPT ![p] = state]
    /\ connectedPeers' = IF state = "CONNECTED" THEN enet_peer_on_connect(p)
                         ELSE enet_peer_on_disconnect(p)

(* A peer with something to report is queued, once.                           *)
QueueForDispatch(p) ==
    IF p \in needsDispatch
    THEN UNCHANGED <<dispatchQueue, needsDispatch>>
    ELSE /\ dispatchQueue' = Append(dispatchQueue, p)
         /\ needsDispatch' = needsDispatch \cup {p}

(* The packets that enet_peer_reset_queues destroys.                          *)
DestroyDispatched(p) ==
    /\ dispatchedCommands' = [dispatchedCommands EXCEPT ![p] = <<>>]
    /\ livePackets' = [livePackets EXCEPT ![p] = @ - Len(dispatchedCommands[p])]

(* enet_peer_reset.  It clears the flags before it calls enet_peer_reset_queues,   *)
(* which therefore finds nothing to take out of the dispatch queue: a peer that    *)
(* was queued stays there.  From here on the host ignores what the other end       *)
(* sends: the slot is free, and the session number of its next user differs.   *)
enet_peer_reset(p) ==
    /\ change_state(p, "DISCONNECTED")
    /\ DestroyDispatched(p)
    /\ needsDispatch' = needsDispatch \ {p}
    /\ remote' = [remote EXCEPT ![p] = "absent"]
    /\ wire' = [wire EXCEPT ![p] = <<>>]

Return(code) == phase' = "returned" /\ status' = code
--------------------------------------------------------------------------------
(* UDPServerHandler::run goes round: it destroys the packet of a RECEIVE event *)
(* and calls enet_host_service again, unless the last call failed.            *)
Service ==
    /\ phase = "returned" /\ status >= 0
    /\ livePackets' = IF event.type = "RECEIVE"
                      THEN [livePackets EXCEPT ![event.peer] = @ - 1] ELSE livePackets
    /\ event' = NoEvent
    /\ phase' = "enter" /\ status' = 0
    /\ UNCHANGED <<peerState, dispatchedCommands, dispatchQueue, needsDispatch,
                   connectedPeers, position, sender, left, netVars>>

(* enet_protocol_dispatch_incoming_commands, one peer of the queue at a time.   *)
Dispatching == phase \in {"enter", "dispatch"}

\* A mistake: the peer is not queued again for the packets it still has.
DispatchReceiveOnce(p) ==
    /\ Dispatching /\ dispatchQueue # <<>> /\ p = Head(dispatchQueue)
    /\ peerState[p] = "CONNECTED" /\ dispatchedCommands[p] # <<>>
    /\ event' = [type |-> "RECEIVE", peer |-> p, packet |-> Head(dispatchedCommands[p])]
    /\ dispatchedCommands' = [dispatchedCommands EXCEPT ![p] = Tail(@)]
    /\ dispatchQueue' = Tail(dispatchQueue)
    /\ needsDispatch' = needsDispatch \ {p}
    /\ Return(1)
    /\ UNCHANGED <<peerState, connectedPeers, livePackets, position, sender, left, netVars>>

\* A mistake: the peer keeps its turn while it has packets.
DispatchReceiveGreedy(p) ==
    /\ Dispatching /\ dispatchQueue # <<>> /\ p = Head(dispatchQueue)
    /\ peerState[p] = "CONNECTED" /\ dispatchedCommands[p] # <<>>
    /\ event' = [type |-> "RECEIVE", peer |-> p, packet |-> Head(dispatchedCommands[p])]
    /\ dispatchedCommands' = [dispatchedCommands EXCEPT ![p] = Tail(@)]
    /\ IF Len(dispatchedCommands[p]) > 1
       THEN UNCHANGED <<dispatchQueue, needsDispatch>>
       ELSE /\ dispatchQueue' = Tail(dispatchQueue)
            /\ needsDispatch' = needsDispatch \ {p}
    /\ Return(1)
    /\ UNCHANGED <<peerState, connectedPeers, livePackets, position, sender, left, netVars>>

DispatchReceive(p) ==
    /\ Dispatching /\ dispatchQueue # <<>> /\ p = Head(dispatchQueue)
    /\ peerState[p] = "CONNECTED" /\ dispatchedCommands[p] # <<>>
    /\ event' = [type |-> "RECEIVE", peer |-> p, packet |-> Head(dispatchedCommands[p])]
    /\ dispatchedCommands' = [dispatchedCommands EXCEPT ![p] = Tail(@)]
    /\ IF Len(dispatchedCommands[p]) > 1
       THEN /\ dispatchQueue' = Append(Tail(dispatchQueue), p)
            /\ UNCHANGED needsDispatch
       ELSE /\ dispatchQueue' = Tail(dispatchQueue)
            /\ needsDispatch' = needsDispatch \ {p}
    /\ Return(1)
    /\ UNCHANGED <<peerState, connectedPeers, livePackets, position, sender, left, netVars>>

DispatchZombie(p) ==
    /\ Dispatching /\ dispatchQueue # <<>> /\ p = Head(dispatchQueue)
    /\ peerState[p] = "ZOMBIE"
    /\ event' = [type |-> "DISCONNECT", peer |-> p]
    /\ dispatchQueue' = Tail(dispatchQueue)
    /\ enet_peer_reset(p)
    /\ Return(1)
    /\ UNCHANGED <<position, sender, left>>

(* A peer that has nothing to report any more.                                *)
DispatchSkip(p) ==
    /\ Dispatching /\ dispatchQueue # <<>> /\ p = Head(dispatchQueue)
    /\ peerState[p] # "ZOMBIE"
    /\ peerState[p] = "CONNECTED" => dispatchedCommands[p] = <<>>
    /\ dispatchQueue' = Tail(dispatchQueue)
    /\ needsDispatch' = needsDispatch \ {p}
    /\ UNCHANGED <<peerState, dispatchedCommands, connectedPeers, livePackets, callVars,
                   netVars>>

DispatchDone ==
    /\ Dispatching /\ dispatchQueue = <<>>
    /\ \/ phase = "enter" /\ phase' = "send1" /\ position' = 1
       \/ phase = "dispatch" /\ phase' = "wait" /\ UNCHANGED position
    /\ UNCHANGED <<hostVars, event, sender, left, status, netVars>>

(* enet_protocol_send_outgoing_commands, one peer at a time, in index order.    *)
Sending(p) == phase \in {"send1", "send2"} /\ position = p

(* enet_protocol_send_acknowledgements: once its DISCONNECT is acknowledged, a   *)
(* peer is a zombie and queued for its event.                                *)
SendAcknowledgement(p) ==
    /\ Sending(p) /\ peerState[p] = "ACKNOWLEDGING_DISCONNECT"
    /\ change_state(p, "ZOMBIE")
    /\ QueueForDispatch(p)
    /\ position' = position + 1
    /\ UNCHANGED <<dispatchedCommands, livePackets, event, phase, sender, left, status,
                   netVars>>

SendVerifyConnect(p) ==
    /\ Sending(p) /\ remote[p] = "connecting"
    /\ remote' = [remote EXCEPT ![p] = "verified"]
    /\ position' = position + 1
    /\ UNCHANGED <<hostVars, event, phase, sender, left, status, wire>>

\* A mistake: a peer that vanished is freed without telling the program.
TimeOutSilently(p) ==
    /\ Sending(p)
    /\ peerState[p] \in {"ACKNOWLEDGING_CONNECT", "CONNECTED"}
    /\ enet_peer_reset(p)
    /\ position' = position + 1
    /\ UNCHANGED <<dispatchQueue, event, phase, sender, left, status>>

\* A mistake: only connections being set up are watched.
TimeOutConnecting(p) ==
    /\ Sending(p)
    /\ peerState[p] = "ACKNOWLEDGING_CONNECT"
    /\ enet_peer_reset(p)
    /\ position' = position + 1
    /\ UNCHANGED <<dispatchQueue, event, phase, sender, left, status>>

(* enet_protocol_check_timeouts gives up on a peer that left a command (the      *)
(* VERIFY_CONNECT, a ping) unanswered for too long, and notify_disconnect: a     *)
(* peer that was never connected is dropped silently.                        *)
TimeOut(p) ==
    /\ Sending(p)
    /\ enet_peer_reset(p)
    /\ \/ /\ peerState[p] = "ACKNOWLEDGING_CONNECT"
          /\ position' = position + 1
          /\ UNCHANGED <<event, phase, status>>
       \/ /\ peerState[p] = "CONNECTED"
          /\ event' = [type |-> "DISCONNECT", peer |-> p]
          /\ Return(1) /\ position' = 0
    /\ UNCHANGED <<dispatchQueue, sender, left>>

SendNothing(p) ==
    /\ Sending(p) /\ peerState[p] # "ACKNOWLEDGING_DISCONNECT"
    /\ position' = position + 1
    /\ UNCHANGED <<hostVars, event, phase, sender, left, status, netVars>>

SendDone ==
    /\ Sending(PeerCount + 1)
    /\ phase' = IF phase = "send1" THEN "receive" ELSE "dispatch"
    /\ position' = 0
    /\ UNCHANGED <<hostVars, event, sender, left, status, netVars>>
--------------------------------------------------------------------------------
(* enet_protocol_receive_incoming_commands: at most MaxDatagrams datagrams, and  *)
(* for each the loop of enet_protocol_handle_incoming_commands.  An event set    *)
(* by a command does not end its datagram.                                   *)
NextDatagram == phase = "receive" /\ sender = 0 /\ position < MaxDatagrams

(* enet_protocol_handle_connect takes the first free slot.  With none free it    *)
(* drops the command, which is why this action is then disabled.             *)
ReceiveConnect(p) ==
    /\ NextDatagram
    /\ peerState[p] = "DISCONNECTED"
    /\ \A q \in 1..(p - 1) : peerState[q] # "DISCONNECTED"
    /\ peerState' = [peerState EXCEPT ![p] = "ACKNOWLEDGING_CONNECT"]
    /\ remote' = [remote EXCEPT ![p] = "connecting"]
    /\ position' = position + 1
    /\ UNCHANGED <<dispatchedCommands, dispatchQueue, needsDispatch, connectedPeers,
                   livePackets, event, phase, sender, left, status, wire>>

ReceiveDatagram(p) ==
    /\ NextDatagram
    /\ \E n \in 1..Len(wire[p]) : left' = n
    /\ sender' = p
    /\ position' = position + 1
    /\ UNCHANGED <<hostVars, event, phase, status, netVars>>

Reading(p, types) ==
    /\ phase = "receive" /\ sender = p /\ left > 0
    /\ Head(wire[p]).type \in types

Consume(p) ==
    /\ wire' = [wire EXCEPT ![p] = Tail(@)]
    /\ left' = left - 1
    /\ UNCHANGED <<phase, position, sender, status>>

(* enet_protocol_handle_acknowledge of the VERIFY_CONNECT.                     *)
HandleAcknowledge(p) ==
    /\ Reading(p, {"acknowledge"}) /\ peerState[p] = "ACKNOWLEDGING_CONNECT"
    /\ change_state(p, "CONNECTED")
    /\ event' = [type |-> "CONNECT", peer |-> p]
    /\ Consume(p)
    /\ UNCHANGED <<dispatchedCommands, dispatchQueue, needsDispatch, livePackets, remote>>

(* enet_peer_queue_incoming_command, with the packet it creates.               *)
QueueIncoming(p, packet) ==
    /\ livePackets' = [livePackets EXCEPT ![p] = @ + 1]
    /\ dispatchedCommands' = [dispatchedCommands EXCEPT ![p] = Append(@, packet)]
    /\ QueueForDispatch(p)

(* enet_protocol_handle_send_reliable.                                        *)
HandleSendReliable(p) ==
    /\ Reading(p, {"send_reliable"}) /\ peerState[p] = "CONNECTED"
    /\ Len(dispatchedCommands[p]) < MaxWaiting
    /\ QueueIncoming(p, Head(wire[p]).packet)
    /\ Consume(p)
    /\ UNCHANGED <<peerState, connectedPeers, event, remote>>

(* With too much data waiting the command fails, which ends the datagram; not     *)
(* acknowledged, it will be sent again.                                      *)
RefuseData(p) ==
    /\ Reading(p, {"send_reliable"}) /\ peerState[p] = "CONNECTED"
    /\ Len(dispatchedCommands[p]) >= MaxWaiting
    /\ left' = 0
    /\ UNCHANGED <<hostVars, event, phase, position, sender, status, netVars>>

\* A mistake: the queue is left as it was, flag and packets included.
HandleDisconnectKeepingQueue(p) ==
    /\ Reading(p, Goodbyes)
    /\ \/ /\ peerState[p] = "ACKNOWLEDGING_CONNECT"
          /\ enet_peer_reset(p)
          /\ left' = 0
          /\ UNCHANGED <<dispatchQueue, phase, position, sender, status>>
       \/ /\ peerState[p] = "CONNECTED"
          /\ change_state(p, IF Head(wire[p]).type = "disconnect"
                             THEN "ACKNOWLEDGING_DISCONNECT" ELSE "ZOMBIE")
          /\ Consume(p)
          /\ UNCHANGED <<dispatchQueue, needsDispatch, dispatchedCommands, livePackets, remote>>
    /\ UNCHANGED event

(* enet_protocol_handle_disconnect: packets the program has not yet been given    *)
(* are destroyed, although they were acknowledged.                           *)
HandleDisconnect(p) ==
    /\ Reading(p, Goodbyes)
    /\ \/ /\ peerState[p] = "ACKNOWLEDGING_CONNECT"
          /\ enet_peer_reset(p)
          /\ left' = 0
          /\ UNCHANGED <<dispatchQueue, phase, position, sender, status>>
       \/ /\ peerState[p] = "CONNECTED"
          /\ DestroyDispatched(p)
          /\ IF Head(wire[p]).type = "disconnect"
             THEN /\ change_state(p, "ACKNOWLEDGING_DISCONNECT")
                  /\ dispatchQueue' = Unqueued(p)
                  /\ needsDispatch' = needsDispatch \ {p}
             ELSE /\ change_state(p, "ZOMBIE")
                  /\ dispatchQueue' = Append(Unqueued(p), p)
                  /\ needsDispatch' = needsDispatch \cup {p}
          /\ Consume(p)
          /\ UNCHANGED remote
    /\ UNCHANGED event

EndDatagram ==
    /\ phase = "receive" /\ sender # 0 /\ left = 0
    /\ sender' = 0
    /\ IF event # NoEvent THEN Return(1) /\ position' = 0
       ELSE UNCHANGED <<phase, position, status>>
    /\ UNCHANGED <<hostVars, event, left, netVars>>

(* Nothing more to read, or MaxDatagrams were.                                *)
ReceiveDone ==
    /\ phase = "receive" /\ sender = 0
    /\ phase' = "send2" /\ position' = 1
    /\ UNCHANGED <<hostVars, event, sender, left, status, netVars>>

(* enet_socket_wait: a datagram is there and the call goes round again, or the    *)
(* time is up and it reports no event.                                       *)
Wait ==
    /\ phase = "wait"
    /\ \/ phase' = "send1" /\ position' = 1 /\ UNCHANGED status
       \/ Return(0) /\ UNCHANGED position
    /\ UNCHANGED <<hostVars, event, sender, left, netVars>>

(* A socket operation fails: run leaves its loop.                             *)
Fail ==
    /\ \/ phase \in {"send1", "send2"} /\ position \in Peers
       \/ NextDatagram
       \/ phase = "wait"
    /\ Return(-1) /\ position' = 0
    /\ UNCHANGED <<hostVars, event, sender, left, netVars>>
--------------------------------------------------------------------------------
(* The other ends.                                                          *)
RemoteAcknowledge(p) ==
    /\ remote[p] = "verified"
    /\ remote' = [remote EXCEPT ![p] = "up"]
    /\ wire' = [wire EXCEPT ![p] = Append(@, [type |-> "acknowledge"])]
    /\ UNCHANGED <<hostVars, callVars>>

RemoteSend(p, m) ==
    /\ remote[p] = "up" /\ Len(wire[p]) < MaxInFlight
    /\ wire' = [wire EXCEPT ![p] = Append(@, [type |-> "send_reliable", packet |-> m])]
    /\ UNCHANGED <<hostVars, callVars, remote>>

(* The other end disconnects, dies or is cut off.  What it still had to send       *)
(* again is lost, except for what is already part of a datagram being read.   *)
RemoteLeave(p) ==
    /\ remote[p] \in {"connecting", "verified", "up"}
    /\ remote' = [remote EXCEPT ![p] = "gone"]
    /\ \E k \in (IF sender = p THEN left ELSE 0)..Len(wire[p]),
          last \in {<<>>} \cup (IF remote[p] = "connecting" THEN {}
                                ELSE {<<[type |-> goodbye]>> : goodbye \in Goodbyes}) :
         wire' = [wire EXCEPT ![p] = SubSeq(@, 1, k) \o last]
    /\ UNCHANGED <<hostVars, callVars>>

(* The robot's program dies and is started again.                             *)
HostRestart ==
    /\ peerState' = [p \in Peers |-> "DISCONNECTED"]
    /\ dispatchedCommands' = [p \in Peers |-> <<>>]
    /\ dispatchQueue' = <<>>
    /\ needsDispatch' = {}
    /\ connectedPeers' = 0
    /\ livePackets' = [p \in Peers |-> 0]
    /\ event' = NoEvent
    /\ phase' = "returned"
    /\ position' = 0
    /\ sender' = 0 /\ left' = 0
    /\ status' = 0
    /\ remote' = [p \in Peers |-> "absent"]
    /\ wire' = [p \in Peers |-> <<>>]

Dispatch ==
    \/ DispatchDone
    \/ \E p \in Peers : DispatchReceive(p) \/ DispatchZombie(p) \/ DispatchSkip(p)

SendOutgoing ==
    \/ SendDone
    \/ \E p \in Peers : SendAcknowledgement(p) \/ SendVerifyConnect(p) \/ TimeOut(p)
                            \/ SendNothing(p)

ReceiveIncoming ==
    \/ EndDatagram \/ ReceiveDone
    \/ \E p \in Peers :
         \/ ReceiveConnect(p) \/ ReceiveDatagram(p)
         \/ HandleAcknowledge(p) \/ HandleSendReliable(p) \/ RefuseData(p)
         \/ HandleDisconnect(p)

(* A step of enet_host_service, once called.                                  *)
HostStep == Dispatch \/ SendOutgoing \/ ReceiveIncoming \/ Wait

RemoteStep ==
    \E p \in Peers : \/ RemoteAcknowledge(p) \/ RemoteLeave(p)
                     \/ \E m \in Payloads : RemoteSend(p, m)

HostNext == Service \/ HostStep \/ Fail \/ RemoteStep \/ HostRestart

HostSpec == HostInit /\ [][HostNext]_enetVars

(* The thread runs; a peer that is gone answers nothing, so that its unanswered   *)
(* commands time out.                                                       *)
HostFairness ==
    /\ WF_enetVars(Service \/ HostStep)
    /\ \A p \in Peers : SF_enetVars(TimeOut(p) /\ remote[p] = "gone")

FairHostSpec == HostSpec /\ HostFairness
--------------------------------------------------------------------------------
Packet(e) == e.type = "RECEIVE"
Events == {NoEvent} \cup [type : {"CONNECT", "DISCONNECT"}, peer : Peers]
             \cup [type : {"RECEIVE"}, peer : Peers, packet : Payloads]

(* Type invariant of the host.                                               *)
HostTypeOK ==
    /\ peerState \in [Peers -> PeerStates]
    /\ dispatchedCommands \in [Peers -> Seq(Payloads)]
    /\ dispatchQueue \in Seq(Peers)
    /\ needsDispatch \subseteq Peers
    /\ connectedPeers \in 0..PeerCount
    /\ livePackets \in [Peers -> Nat]
    /\ event \in Events
    /\ phase \in {"returned", "enter", "send1", "receive", "send2", "dispatch", "wait"}
    /\ position \in Nat
    /\ sender \in {0} \cup Peers /\ left \in Nat
    /\ status \in -1..1
    /\ remote \in [Peers -> {"absent", "connecting", "verified", "up", "gone"}]
    /\ wire \in [Peers -> Seq(Commands)]

(* The dispatch queue is an intrusive list: a peer that is in it once more is linked  *)
(* in twice, and the list is broken.  A flagged peer is in it once; a peer that was  *)
(* reset while it waited is in it too, but only until the next call has skipped it, *)
(* hence never when a datagram can give its slot to a new connection.            *)
Linked(queue) == \A i, j \in 1..Len(queue) : queue[i] = queue[j] => i = j
Members(queue) == {queue[i] : i \in 1..Len(queue)}
QueuedOnce ==
    /\ Linked(dispatchQueue)
    /\ needsDispatch \subseteq Members(dispatchQueue)
    /\ \A p \in Members(dispatchQueue) \ needsDispatch :
          peerState[p] = "DISCONNECTED" /\ phase \in {"returned", "enter"}

(* The flagged peers are those with something to report: none is stranded in        *)
(* a state that only the queue leads out of.                                    *)
NothingStranded ==
    needsDispatch = {p \in Peers : \/ peerState[p] = "ZOMBIE"
                                   \/ dispatchedCommands[p] # <<>>}

(* Only a connected peer has packets for the program.                         *)
ConnectedHold == \A p \in Peers : dispatchedCommands[p] # <<>> => peerState[p] = "CONNECTED"

ConnectedCounted == connectedPeers = Cardinality({p \in Peers : peerState[p] = "CONNECTED"})

(* Each allocated packet has one owner, the peer's queue or the caller, and the   *)
(* host neither leaks one nor destroys one twice.                            *)
PacketsOwned ==
    \A p \in Peers : livePackets[p] = Len(dispatchedCommands[p])
                        + (IF Packet(event) /\ event.peer = p THEN 1 ELSE 0)

(* An event is set only while its datagram is being finished, or on return.     *)
EventsAreReturned ==
    /\ event # NoEvent => phase = "returned" \/ (phase = "receive" /\ sender # 0)
    /\ phase = "receive" /\ event # NoEvent =>
          /\ event.type = "CONNECT" /\ event.peer = sender
          /\ peerState[sender] # "ACKNOWLEDGING_CONNECT"

(* A datagram is read to its end before anything else is done, and what is still    *)
(* to be read of it is on the wire.                                             *)
DatagramOnWire == sender # 0 => phase = "receive" /\ left <= Len(wire[sender])

(* The two ends of a slot agree as far as the program relies on it.             *)
RemoteMatches ==
    \A p \in Peers :
        /\ peerState[p] = "DISCONNECTED" <=> remote[p] = "absent"
        /\ remote[p] \in {"connecting", "verified"} =>
              peerState[p] = "ACKNOWLEDGING_CONNECT"
        /\ remote[p] \in {"absent", "connecting", "verified"} => wire[p] = <<>>

(* An acknowledgement comes first, a goodbye last.                           *)
WireInOrder ==
    \A p \in Peers : \A i \in 1..Len(wire[p]) :
        /\ wire[p][i].type = "acknowledge" =>
              i = 1 /\ peerState[p] = "ACKNOWLEDGING_CONNECT"
        /\ wire[p][i].type \in Goodbyes => i = Len(wire[p]) /\ remote[p] = "gone"

(* The second send phase leaves no DISCONNECT unanswered.                      *)
GoodbyesAnswered ==
    \A p \in Peers :
        phase \in {"dispatch", "wait"} \/ (phase = "send2" /\ p < position)
            => peerState[p] # "ACKNOWLEDGING_DISCONNECT"

(* The host is well formed at every step of every call.                          *)
HostInv ==
    /\ HostTypeOK
    /\ QueuedOnce
    /\ NothingStranded
    /\ ConnectedHold
    /\ ConnectedCounted
    /\ PacketsOwned
    /\ EventsAreReturned
    /\ DatagramOnWire
    /\ RemoteMatches
    /\ WireInOrder
    /\ GoodbyesAnswered

(* The thread never goes to sleep on work it could do: when it waits for the      *)
(* socket, every accepted packet and every DISCONNECT has been reported and       *)
(* every goodbye answered.                                                  *)
NeverSleepsOnWork ==
    phase = "wait" =>
        \A p \in Peers : /\ dispatchedCommands[p] = <<>>
                         /\ peerState[p] \notin {"ZOMBIE", "ACKNOWLEDGING_DISCONNECT"}

(* The queue is served in turn: a connected peer with packets waiting never       *)
(* falls back, and moves up whenever another peer's packet is delivered.      *)
ServedInTurn(p) ==
    (p \in needsDispatch /\ peerState[p] = "CONNECTED" /\ peerState'[p] = "CONNECTED")
        => \/ Packet(event') /\ event'.peer = p
           \/ /\ p \in needsDispatch'
              /\ Place(p)' <= (IF Packet(event') /\ event # event'
                               THEN Place(p) - 1 ELSE Place(p))

QueueIsFair == [][\A p \in Peers : ServedInTurn(p)]_enetVars

(* The packets on the wire, between an acknowledgement and a goodbye.              *)
Front(commands) ==
    IF commands # <<>> /\ commands[1].type = "acknowledge" THEN 1 ELSE 0
Rear(commands) ==
    IF commands # <<>> /\ commands[Len(commands)].type \in Goodbyes
    THEN Len(commands) - 1 ELSE Len(commands)
Sent(commands) == [i \in 1..(Rear(commands) - Front(commands)) |->
                     commands[i + Front(commands)].packet]

(* The host keeps the promise of LinkEvents: whatever the other ends and the       *)
(* network do, the program sees links that open, deliver in order, and close.   *)
LinkOf == [p \in Peers |-> CASE peerState[p] = "DISCONNECTED" -> "closed"
                             [] peerState[p] = "ACKNOWLEDGING_CONNECT" -> "opening"
                             [] OTHER -> "open"]
SendingOf == {p \in Peers : remote[p] = "up"}
ChannelOf == [p \in Peers |-> dispatchedCommands[p] \o Sent(wire[p])]

Links == INSTANCE LinkEvents WITH
    link <- LinkOf, sending <- SendingOf, channel <- ChannelOf

ImplementsLinkEvents == Links!Spec

(* A peer whose other end is gone is found out, by its goodbye or by a time-out,   *)
(* and its slot is freed, unless the host itself fails first.                 *)
DeadLinksReported ==
    \A p \in Peers : (peerState[p] = "CONNECTED" /\ remote[p] = "gone")
                        ~> (peerState[p] = "DISCONNECTED" \/ status < 0)

(* An accepted packet does not wait for ever behind those of other peers: the      *)
(* program is given it, unless its link closes or the host fails.             *)
AcceptedIsDelivered ==
    \A p \in Peers : (dispatchedCommands[p] # <<>>)
        ~> (dispatchedCommands[p] = <<>> \/ (Packet(event) /\ event.peer = p) \/ status < 0)
================================================================================
