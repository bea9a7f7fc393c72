---------------------------- MODULE ForwarderProofs ----------------------------
(****************************************************************************)
(* Proofs about the socket forwarder: however many browsers and messages there  *)
(* are, both threads are well formed and nothing is forwarded twice or out of    *)
(* order.                                                                   *)
(****************************************************************************)
EXTENDS Forwarder, SequenceTheorems, TLAPS

(* What is on its way to the robot or has reached it.                           *)
Forwarded == robot \o channel

(* A browser's packets wait in the order it wrote them.                        *)
UnreadInOrder ==
    \A c \in Connections :
        /\ \A i \in DOMAIN unread[c] : unread[c][i].client = c
        /\ \A i, j \in DOMAIN unread[c] : i < j => unread[c][i].n < unread[c][j].n

(* The packet in the main thread's hands, until enet_peer_send has had it, comes    *)
(* after what was forwarded for its browser and before what that one still writes.  *)
HandlesTheNext ==
    handling.at \in {"called", "sending"} =>
        /\ handling.packet \in Packets
        /\ Before(Forwarded, handling.packet)
        /\ \A i \in DOMAIN unread[handling.packet.client] :
              handling.packet.n < unread[handling.packet.client][i].n

(* The packets forwarded are in order and before those unread.                  *)
ForwardedInOrder ==
    /\ InOrder(Forwarded)
    /\ \A c \in Connections : \A i \in DOMAIN unread[c] : Before(Forwarded, unread[c][i])

Typed ==
    /\ program \in {"running", "crashed", "exited"}
    /\ SessionTypeOK
    /\ unread \in [Connections -> Seq(Packets)]
    /\ connectionHdls = <<>>
    /\ handling \in [at : {"run", "called", "sending", "flushing"}, packet : Packets] \cup {Idle}
    /\ client \in {"null", "live", "freed"}
    /\ service \in {"starting", "asking", "waiting", "working", "sendString", "ended"}
    /\ peer \in {"DISCONNECTED", "CONNECTING", "CONNECTED"}
    /\ channel \in Seq(Packets) /\ robot \in Seq(Packets)
    /\ service \in {"asking", "waiting", "working", "sendString"} => client = "live"
    /\ peer # "DISCONNECTED" => client = "live"
    /\ peer # "DISCONNECTED" => service \in {"waiting", "working", "sendString"}

IInv == Typed /\ UnreadInOrder /\ ForwardedInOrder /\ HandlesTheNext

--------------------------------------------------------------------------------
(* What was forwarded changes in three ways: not at all, by a packet at its end,     *)
(* or by the loss of what was on its way.                                      *)
LEMMA ForwardedChanges ==
    ASSUME Typed
    PROVE  /\ Forwarded \in Seq(Packets)
           /\ Len(Forwarded) = Len(robot) + Len(channel)
           /\ \A i \in DOMAIN robot : Forwarded[i] = robot[i]
           /\ \A p \in Packets :
                 /\ robot \o Append(channel, p) \in Seq(Packets)
                 /\ robot \o Append(channel, p) = Append(Forwarded, p)
           /\ channel # <<>> => Append(robot, Head(channel)) \o Tail(channel) = Forwarded
           /\ robot \o <<>> = robot
  <1> USE DEF Typed, Forwarded
  <1>1. Forwarded \in Seq(Packets) /\ Len(Forwarded) = Len(robot) + Len(channel)
    OBVIOUS
  <1>2. \A i \in DOMAIN robot : Forwarded[i] = robot[i]
    OBVIOUS
  <1>3. ASSUME NEW p \in Packets
        PROVE  /\ robot \o Append(channel, p) \in Seq(Packets)
               /\ robot \o Append(channel, p) = Append(Forwarded, p)
    OBVIOUS
  <1>4. ASSUME channel # <<>>
        PROVE  Append(robot, Head(channel)) \o Tail(channel) = Forwarded
    BY <1>4, EmptySeq, HeadTailProperties
  <1>5. robot \o <<>> = robot
    OBVIOUS
  <1>. QED
    BY <1>1, <1>2, <1>3, <1>4, <1>5

(* A step that leaves the packets and the main thread's where they are.           *)
LEMMA QuietSteps ==
    ASSUME IInv, Typed', unread' = unread, Forwarded' = Forwarded,
           handling'.at \in {"called", "sending"} =>
              /\ handling.at \in {"called", "sending"}
              /\ handling'.packet = handling.packet
    PROVE  IInv'
  <1>1. UnreadInOrder' /\ ForwardedInOrder'
    BY DEF IInv, UnreadInOrder, ForwardedInOrder
  <1>2. HandlesTheNext'
    BY DEF IInv, HandlesTheNext
  <1>. QED
    BY <1>1, <1>2 DEF IInv

(* What is on its way is lost.                                                *)
LEMMA LosingSteps ==
    ASSUME IInv, Typed', unread' = unread, robot' = robot, channel' = <<>>, handling' = handling
    PROVE  IInv'
  <1>1. Forwarded' = robot
    BY ForwardedChanges DEF IInv, Forwarded
  <1>2. \A i \in DOMAIN robot : i \in DOMAIN Forwarded /\ Forwarded[i] = robot[i]
    <2>1. /\ Forwarded \in Seq(Packets) /\ Len(Forwarded) = Len(robot) + Len(channel)
          /\ \A i \in DOMAIN robot : Forwarded[i] = robot[i]
      BY ForwardedChanges DEF IInv
    <2>2. robot \in Seq(Packets) /\ Len(robot) \in Nat /\ Len(channel) \in Nat
      BY DEF IInv, Typed
    <2>3. DOMAIN robot = 1..Len(robot) /\ DOMAIN Forwarded = 1..Len(Forwarded)
      BY <2>1, <2>2
    <2>. QED
      BY <2>1, <2>2, <2>3
  <1>3. UnreadInOrder' /\ ForwardedInOrder'
    BY <1>1, <1>2 DEF IInv, UnreadInOrder, ForwardedInOrder, InOrder, Before
  <1>4. HandlesTheNext'
    BY <1>1, <1>2 DEF IInv, HandlesTheNext, Before
  <1>. QED
    BY <1>3, <1>4 DEF IInv

(* enet_peer_send takes the packet.                                          *)
LEMMA TakingSteps ==
    ASSUME IInv, Typed', handling.at = "sending", handling'.at = "flushing", unread' = unread,
           robot' = robot, channel' = Append(channel, handling.packet)
    PROVE  IInv'
  <1> DEFINE p == handling.packet
  <1>1. /\ p \in Packets /\ Before(Forwarded, p)
        /\ \A i \in DOMAIN unread[p.client] : p.n < unread[p.client][i].n
    BY DEF IInv, HandlesTheNext
  <1> HIDE DEF p
  <1>2. Forwarded' = Append(Forwarded, p) /\ Forwarded \in Seq(Packets)
    BY <1>1, ForwardedChanges DEF IInv, Forwarded, p
  <1>3. /\ DOMAIN Forwarded' = 1..(Len(Forwarded) + 1)
        /\ DOMAIN Forwarded = 1..Len(Forwarded) /\ Len(Forwarded) \in Nat
        /\ \A i \in DOMAIN Forwarded : Forwarded'[i] = Forwarded[i]
        /\ Forwarded'[Len(Forwarded) + 1] = p
    BY <1>2, <1>1
  <1>4. InOrder(Forwarded')
    <2> SUFFICES ASSUME NEW i \in DOMAIN Forwarded', NEW j \in DOMAIN Forwarded', i < j,
                        Forwarded'[i].client = Forwarded'[j].client
                 PROVE  Forwarded'[i].n < Forwarded'[j].n
      BY DEF InOrder
    <2>1. i \in DOMAIN Forwarded
      BY <1>3
    <2>2. CASE j \in DOMAIN Forwarded
      BY <1>3, <2>1, <2>2 DEF IInv, ForwardedInOrder, InOrder
    <2>3. CASE j = Len(Forwarded) + 1
      BY <1>1, <1>3, <2>1, <2>3 DEF Before
    <2>. QED
      BY <1>3, <2>2, <2>3
  <1>5. ASSUME NEW c \in Connections, NEW k \in DOMAIN unread[c]
        PROVE  Before(Forwarded', unread[c][k])
    <2> SUFFICES ASSUME NEW i \in DOMAIN Forwarded', Forwarded'[i].client = unread[c][k].client
                 PROVE  Forwarded'[i].n < unread[c][k].n
      BY DEF Before
    <2>1. CASE i \in DOMAIN Forwarded
      BY <1>3, <2>1 DEF IInv, ForwardedInOrder, Before
    <2>2. CASE i = Len(Forwarded) + 1
      <3>1. p.client = c
        BY <1>3, <2>2 DEF IInv, UnreadInOrder
      <3>. QED
        BY <1>1, <1>3, <2>2, <3>1
    <2>. QED
      BY <1>3, <2>1, <2>2
  <1>6. UnreadInOrder' /\ ForwardedInOrder'
    BY <1>4, <1>5 DEF IInv, UnreadInOrder, ForwardedInOrder
  <1>7. HandlesTheNext'
    BY DEF HandlesTheNext
  <1>. QED
    BY <1>6, <1>7 DEF IInv

(* The message handler is given the next packet of a browser.                    *)
LEMMA MessageSteps ==
    ASSUME IInv, NEW c \in Connections, HandleMessage(c)
    PROVE  IInv'
  <1> DEFINE p == Head(unread[c])
             rest == Tail(unread[c])
  <1>1. /\ unread[c] # <<>> /\ unread' = [unread EXCEPT ![c] = rest]
        /\ handling' = [at |-> "called", packet |-> p]
        /\ UNCHANGED <<program, session, connectionHdls, hostVars, service>>
    BY DEF HandleMessage, Message
  <1>2. /\ unread[c] \in Seq(Packets) /\ unread \in [Connections -> Seq(Packets)]
    BY DEF IInv, Typed
  <1>3. /\ p = unread[c][1] /\ 1 \in DOMAIN unread[c] /\ p \in Packets
        /\ rest \in Seq(Packets)
        /\ \A i \in DOMAIN rest : /\ i \in Nat \ {0}
                                  /\ i + 1 \in DOMAIN unread[c] /\ rest[i] = unread[c][i + 1]
    BY <1>1, <1>2, EmptySeq, HeadTailProperties
  <1>4. p.client = c
    BY <1>3 DEF IInv, UnreadInOrder
  <1> HIDE DEF p, rest
  <1>5. unread'[c] = rest /\ \A d \in Connections : d # c => unread'[d] = unread[d]
    BY <1>1, <1>2
  <1>6. Forwarded' = Forwarded
    BY <1>1 DEF Forwarded, hostVars
  <1>7. Typed'
    BY <1>1, <1>2, <1>3 DEF IInv, Typed, SessionTypeOK, hostVars
  <1>8. UnreadInOrder'
    <2>1. ASSUME NEW d \in Connections
          PROVE  /\ \A i \in DOMAIN unread'[d] : unread'[d][i].client = d
                 /\ \A i, j \in DOMAIN unread'[d] : i < j => unread'[d][i].n < unread'[d][j].n
      <3>1. CASE d # c
        BY <1>5, <3>1 DEF IInv, UnreadInOrder
      <3>2. CASE d = c
        <4>1. \A i, j \in DOMAIN rest : i < j => i + 1 < j + 1
          BY <1>3
        <4>. QED
          BY <1>3, <1>5, <3>2, <4>1 DEF IInv, UnreadInOrder
      <3>. QED
        BY <3>1, <3>2
    <2>. QED
      BY <2>1 DEF UnreadInOrder
  <1>9. ForwardedInOrder'
    <2>1. ASSUME NEW d \in Connections, NEW i \in DOMAIN unread'[d]
          PROVE  Before(Forwarded, unread'[d][i])
      <3>1. CASE d # c
        BY <1>5, <2>1, <3>1 DEF IInv, ForwardedInOrder
      <3>2. CASE d = c
        BY <1>3, <1>5, <2>1, <3>2 DEF IInv, ForwardedInOrder
      <3>. QED
        BY <3>1, <3>2
    <2>. QED
      BY <1>6, <2>1 DEF IInv, ForwardedInOrder
  <1>10. HandlesTheNext'
    <2>1. handling'.packet = p
      BY <1>1
    <2>2. Before(Forwarded, p)
      BY <1>3 DEF IInv, ForwardedInOrder
    <2>3. \A i \in DOMAIN rest : p.n < rest[i].n
      <3> SUFFICES ASSUME NEW i \in DOMAIN rest PROVE p.n < rest[i].n
        OBVIOUS
      <3>1. 1 < i + 1
        BY <1>3
      <3>. QED
        BY <1>3, <3>1 DEF IInv, UnreadInOrder
    <2>. QED
      BY <1>3, <1>4, <1>5, <1>6, <2>1, <2>2, <2>3 DEF HandlesTheNext
  <1>. QED
    BY <1>7, <1>8, <1>9, <1>10 DEF IInv


--------------------------------------------------------------------------------
LEMMA ForwarderStarts == ForwarderInit => IInv
  <1> SUFFICES ASSUME ForwarderInit PROVE IInv
    OBVIOUS
  <1>1. \A c \in Connections, n \in 1..Length : Packet(c, n) \in Packets
    BY DEF Packet, Packets
  <1>2. ASSUME NEW c \in Connections
        PROVE  /\ unread[c] \in Seq(Packets)
               /\ DOMAIN unread[c] = 1..Length
               /\ \A n \in 1..Length : unread[c][n].client = c /\ unread[c][n].n = n
    BY <1>1, ForwarderAssumption DEF ForwarderInit, Packet
  <1>3. unread \in [Connections -> Seq(Packets)]
    <2>1. unread = [c \in Connections |-> unread[c]]
      BY DEF ForwarderInit
    <2>. QED
      BY <1>2, <2>1
  <1>4. Typed
    BY <1>3 DEF ForwarderInit, Init, Typed, SessionTypeOK
  <1>5. UnreadInOrder
    <2> SUFFICES ASSUME NEW c \in Connections
                 PROVE  /\ \A i \in DOMAIN unread[c] : unread[c][i].client = c
                        /\ \A i, j \in DOMAIN unread[c] :
                              i < j => unread[c][i].n < unread[c][j].n
      BY DEF UnreadInOrder
    <2>1. /\ DOMAIN unread[c] = 1..Length
          /\ \A n \in DOMAIN unread[c] : unread[c][n].client = c /\ unread[c][n].n = n
      BY <1>2
    <2>. QED
      BY <2>1
  <1>6. Forwarded = <<>> /\ DOMAIN Forwarded = {}
    BY DEF ForwarderInit, Forwarded
  <1>7. ForwardedInOrder /\ HandlesTheNext
    BY <1>6 DEF ForwarderInit, Idle, ForwardedInOrder, HandlesTheNext, InOrder, Before
  <1>. QED
    BY <1>4, <1>5, <1>7 DEF IInv

(* The sessions come and go without a packet.                                 *)
LEMMA SessionSteps == ASSUME IInv, NEW c \in Connections, Session(c) PROVE IInv'
  <1>1. /\ UNCHANGED <<program, handling, hostVars, service, unread, connectionHdls>>
    BY DEF Session, Accept, Open, StartClosing, Fail, Close, Becomes, Registered
  <1>2. SessionTypeOK'
    BY DEF Session, Accept, Open, StartClosing, Fail, Close, Becomes, IInv, Typed, SessionTypeOK
  <1>3. Typed' /\ Forwarded' = Forwarded
    BY <1>1, <1>2 DEF IInv, Typed, hostVars, Forwarded
  <1>. QED
    BY <1>1, <1>3, QuietSteps

LEMMA MainSteps ==
    ASSUME IInv, CallHost \/ enet_peer_send \/ enet_host_flush
    PROVE  IInv'
  <1>1. CASE CallHost
    <2>1. /\ UNCHANGED <<session, unread, connectionHdls, hostVars, service>>
          /\ program' \in {program, "crashed"}
          /\ \/ handling' = handling
             \/ handling' = [handling EXCEPT !.at = "sending"]
             \/ handling' = Idle
          /\ handling.at = "called"
      BY <1>1 DEF CallHost, serverVars
    <2>2. handling' \in [at : {"run", "called", "sending", "flushing"}, packet : Packets]
                          \cup {Idle}
      BY <2>1 DEF IInv, Typed, Idle
    <2>3. Typed' /\ Forwarded' = Forwarded
      BY <2>1, <2>2 DEF IInv, Typed, SessionTypeOK, hostVars, Forwarded
    <2>4. handling'.at \in {"called", "sending"} => handling'.packet = handling.packet
      BY <2>1 DEF IInv, Typed, Idle
    <2>. QED
      BY <2>1, <2>3, <2>4, QuietSteps
  <1>2. CASE enet_peer_send
    <2>1. /\ UNCHANGED <<program, session, unread, connectionHdls, client, peer, service>>
          /\ handling.at = "sending" /\ handling' = [handling EXCEPT !.at = "flushing"]
          /\ robot' = robot
          /\ channel' = channel \/ channel' = Append(channel, handling.packet)
      BY <1>2 DEF enet_peer_send, serverVars, Channel!Put
    <2>2. handling'.at = "flushing" /\ handling.packet \in Packets
      BY <2>1 DEF IInv, Typed, Idle
    <2>3. handling' \in [at : {"run", "called", "sending", "flushing"}, packet : Packets]
                          \cup {Idle}
      BY <2>1 DEF IInv, Typed, Idle
    <2>4. channel' \in Seq(Packets)
      BY <2>1, <2>2 DEF IInv, Typed
    <2>5. Typed'
      BY <2>1, <2>3, <2>4 DEF IInv, Typed, SessionTypeOK
    <2>6. CASE channel' = channel
      BY <2>1, <2>2, <2>5, <2>6, QuietSteps DEF Forwarded
    <2>7. CASE channel' = Append(channel, handling.packet)
      BY <2>1, <2>2, <2>5, <2>7, TakingSteps
    <2>. QED
      BY <2>1, <2>6, <2>7
  <1>3. CASE enet_host_flush
    <2>1. /\ UNCHANGED <<program, session, unread, connectionHdls, hostVars, service>>
          /\ handling' = Idle
      BY <1>3 DEF enet_host_flush, serverVars
    <2>2. Typed' /\ Forwarded' = Forwarded
      BY <2>1 DEF IInv, Typed, SessionTypeOK, hostVars, Forwarded
    <2>3. handling'.at \notin {"called", "sending"}
      BY <2>1 DEF Idle
    <2>. QED
      BY <2>1, <2>2, <2>3, QuietSteps
  <1>. QED
    BY <1>1, <1>2, <1>3

(* The other thread, its host's creation and destruction, the network, and what a      *)
(* race leaves behind.                                                       *)
LEMMA ServiceSteps ==
    ASSUME IInv, Serve \/ CreateHost \/ enet_host_connect \/ DestroyHost \/ Deliver
                    \/ (Ruin /\ raced)
    PROVE  IInv'
  <1>1. UNCHANGED <<session, unread, connectionHdls, handling>>
    BY DEF Serve, Wake, Nothing, Connected, Disconnected, Receive, sendString, CreateHost,
           enet_host_connect, DestroyHost, Deliver, Ruin, serverVars
  <1>2. CASE Wake \/ Nothing \/ Connected \/ Receive \/ sendString \/ CreateHost
                \/ enet_host_connect
    <2>1. channel' = channel /\ robot' = robot
      BY <1>2 DEF Wake, Nothing, Connected, Receive, sendString, CreateHost, enet_host_connect,
                  hostVars
    <2>2. Typed'
      <3>1. /\ program' \in {"running", "crashed", "exited"}
            /\ client' \in {"null", "live", "freed"}
            /\ service' \in {"starting", "asking", "waiting", "working", "sendString", "ended"}
            /\ peer' \in {"DISCONNECTED", "CONNECTING", "CONNECTED"}
            /\ service' \in {"asking", "waiting", "working", "sendString"} => client' = "live"
            /\ peer' # "DISCONNECTED" => client' = "live"
            /\ peer' # "DISCONNECTED" => service' \in {"waiting", "working", "sendString"}
        BY <1>2 DEF Wake, Nothing, Connected, Receive, sendString, CreateHost,
                    enet_host_connect, hostVars, serverVars, IInv, Typed
      <3>. QED
        BY <1>1, <2>1, <3>1 DEF IInv, Typed, SessionTypeOK
    <2>. QED
      BY <1>1, <2>1, <2>2, QuietSteps DEF Forwarded
  <1>3. CASE Deliver
    <2>1. /\ channel # <<>> /\ channel' = Tail(channel) /\ robot' = Append(robot, Head(channel))
          /\ UNCHANGED <<program, client, peer, service>>
      BY <1>3 DEF Deliver, Channel!DeliverFirst
    <2>2. channel' \in Seq(Packets) /\ robot' \in Seq(Packets)
      BY <2>1, EmptySeq, HeadTailProperties DEF IInv, Typed
    <2>3. Forwarded' = Forwarded
      BY <2>1, ForwardedChanges DEF IInv, Forwarded
    <2>4. Typed'
      BY <1>1, <2>1, <2>2 DEF IInv, Typed, SessionTypeOK
    <2>. QED
      BY <1>1, <2>3, <2>4, QuietSteps
  <1>4. CASE Disconnected \/ DestroyHost
    <2>1. /\ channel' = <<>> /\ robot' = robot /\ program' = program /\ peer' = "DISCONNECTED"
          /\ \/ service' = "ended" /\ client' = "freed"
             \/ service' = "waiting" /\ client' = client /\ service = "working"
      BY <1>4 DEF Disconnected, DestroyHost
    <2>2. Typed'
      BY <1>1, <2>1 DEF IInv, Typed, SessionTypeOK
    <2>. QED
      BY <1>1, <2>1, <2>2, LosingSteps
  <1>5. CASE Ruin
    <2>1. /\ UNCHANGED <<client, peer, robot, service>>
          /\ \/ program' = "crashed" /\ channel' = channel
             \/ program' = program /\ channel' = <<>>
      BY <1>5 DEF Ruin
    <2>2. channel' \in Seq(Packets) /\ program' \in {"running", "crashed", "exited"}
      <3>1. channel \in Seq(Packets) /\ program \in {"running", "crashed", "exited"}
        BY DEF IInv, Typed
      <3>2. <<>> \in Seq(Packets)
        OBVIOUS
      <3>. QED
        BY <2>1, <3>1, <3>2
    <2>3. Typed'
      BY <1>1, <2>1, <2>2 DEF IInv, Typed, SessionTypeOK
    <2>. QED
      BY <1>1, <2>1, <2>3, QuietSteps, LosingSteps DEF Forwarded
  <1>. QED
    BY <1>2, <1>3, <1>4, <1>5 DEF Serve

LEMMA ForwarderSteps == ASSUME IInv, [ForwarderNext]_forwarderVars PROVE IInv'
  <1>1. CASE UNCHANGED forwarderVars
    <2>1. UNCHANGED <<program, session, unread, connectionHdls, handling, client, peer, channel,
                      robot, service>>
      BY <1>1 DEF forwarderVars, serverVars, hostVars
    <2>2. Typed' /\ Forwarded' = Forwarded
      BY <2>1 DEF IInv, Typed, SessionTypeOK, Forwarded
    <2>. QED
      BY <2>1, <2>2, QuietSteps
  <1>2. CASE Main
    BY <1>2, MessageSteps, MainSteps DEF Main
  <1>3. CASE Serve \/ Deliver \/ Ruin \/ CreateHost \/ enet_host_connect \/ DestroyHost
    BY <1>3, ServiceSteps DEF Ruin
  <1>4. ASSUME NEW c \in Connections, Session(c) PROVE IInv'
    BY <1>4, SessionSteps
  <1>. QED
    BY <1>1, <1>2, <1>3, <1>4 DEF ForwarderNext

(* However many browsers write however much, while links and browsers come and go:     *)
(* the threads stay well formed, and the robot is given what each browser wrote in      *)
(* its order, nothing twice.                                                  *)
THEOREM ForwarderInvariant == ForwarderSpec => []ForwarderInv
  <1>1. ForwarderInit => IInv
    BY ForwarderStarts
  <1>2. IInv /\ [ForwarderNext]_forwarderVars => IInv'
    BY ForwarderSteps
  <1>3. IInv => ForwarderInv
    <2> SUFFICES ASSUME IInv PROVE ForwarderInv
      OBVIOUS
    <2>1. ToSet(connectionHdls) \subseteq Connections
      BY DEF IInv, Typed, ToSet
    <2>2. ForwarderTypeOK
      BY <2>1 DEF IInv, Typed, ForwarderTypeOK, Idle
    <2>3. ForwardsInOrder
      BY DEF IInv, ForwardedInOrder, ForwardsInOrder, Forwarded
    <2>. QED
      BY <2>2, <2>3 DEF ForwarderInv
  <1>. QED
    BY <1>1, <1>2, <1>3, PTL DEF ForwarderSpec
================================================================================
