------------------------------- MODULE EnetChannel -------------------------------
(****************************************************************************)
(* One channel of an ENet connection (src/enet-1.3.18/peer.c, protocol.c): the *)
(* sending peer's sequence numbers, windows and retransmissions, datagrams that *)
(* are lost, repeated and reordered, and the receiving peer's reassembly.       *)
(* EnetHost relies on such a channel; here it is built.                       *)
(*                                                                          *)
(* Every command travels in a datagram of its own, which includes the cases    *)
(* where several share one.  Between a call and the socket nothing happens that  *)
(* the network's delays do not allow too, so acknowledgements and unreliable   *)
(* commands, which are not kept for a retransmission, go to the wire at once.  *)
(****************************************************************************)
EXTENDS Integers, Sequences, FiniteSets, FiniteSetsExt

CONSTANTS
    WindowSize,         \* ENET_PEER_RELIABLE_WINDOW_SIZE, 0x1000
    Windows,            \* ENET_PEER_RELIABLE_WINDOWS, 16
    FreeWindows,        \* ENET_PEER_FREE_RELIABLE_WINDOWS, 8
    LastUnreliable,     \* the last unreliable sequence number, 0xFFFF
    MaxInTransit,       \* what the throttled window holds, counted in commands
    Plans,              \* the packets the program sends, by reliable and fragments
    Starts,             \* how many commands the channel carried before, mod 2^16
    Lifetime,           \* bound: how many commands later a datagram may still come
    MaxQueued,          \* bound: commands that wait to be sent for the first time
    MaxOnWire           \* bound: datagrams under way at once

Numbers == WindowSize * Windows
Sequence == 0..(Numbers - 1)

ASSUME ChannelAssumption ==
    /\ WindowSize \in Nat \ {0} /\ FreeWindows \in Nat /\ FreeWindows >= 3
    /\ Windows \in (2 * FreeWindows - 1)..(2 * FreeWindows + 1)
    /\ MaxInTransit \in Nat \ {0} /\ LastUnreliable \in Nat
    /\ Plans \subseteq Seq([reliable : BOOLEAN, fragments : 1..WindowSize])
    /\ Starts \subseteq Sequence
    /\ Lifetime \in ((Windows - FreeWindows - 1) * WindowSize)..((Windows - FreeWindows) * WindowSize)
    /\ MaxQueued \in WindowSize..(FreeWindows * WindowSize)

MaxPackets == Max({Len(plan) : plan \in Plans})

VARIABLES
    plan,           \* what the program has still to send
    packets,        \* the packets given to enet_peer_send, as they were sent, each with
                    \*     the number it came after, had the numbers not wrapped, and the
                    \*     unreliable number of its commands
    outgoingReliableSequenceNumber, outgoingUnreliableSequenceNumber,
    resend,         \* outgoingSendReliableCommands: those that timed out, in front
    outgoing,       \*     of those that were never sent
    sentReliableCommands,
    reliableWindows,        \* per window, commands sent and not acknowledged
    reliableDataInTransit,
    wire,           \* the datagrams on the network
    incomingReliableSequenceNumber, incomingUnreliableSequenceNumber,
    incomingReliableCommands, incomingUnreliableCommands,
    delivered       \* dispatchedCommands, and what left it for the program

sender == <<plan, packets, outgoingReliableSequenceNumber, outgoingUnreliableSequenceNumber,
            resend, outgoing, sentReliableCommands, reliableWindows, reliableDataInTransit>>
receiver == <<incomingReliableSequenceNumber, incomingUnreliableSequenceNumber,
              incomingReliableCommands, incomingUnreliableCommands, delivered>>
channelVars == <<sender, wire, receiver>>

(* The receiver has everything sent before, and nothing is under way: so it is     *)
(* when a connection is new, and whenever it has been idle.                   *)
ChannelInit ==
    /\ plan \in Plans
    /\ packets = <<>>
    /\ \E s \in Starts : outgoingReliableSequenceNumber = s /\ incomingReliableSequenceNumber = s
    /\ outgoingUnreliableSequenceNumber = 0 /\ incomingUnreliableSequenceNumber = 0
    /\ resend = <<>> /\ outgoing = <<>> /\ sentReliableCommands = <<>>
    /\ reliableWindows = [w \in 0..(Windows - 1) |-> 0]
    /\ reliableDataInTransit = 0
    /\ wire = {}
    /\ incomingReliableCommands = <<>> /\ incomingUnreliableCommands = <<>>
    /\ delivered = <<>>
--------------------------------------------------------------------------------
(* The sending peer.                                                         *)

Window(seq) == seq \div WindowSize

Send(c) == [type |-> "send", command |-> c]
Acknowledge(c) == [type |-> "acknowledge", command |-> c]

(* The last reliable number given out, of a queued command and of one sent to the wire,   *)
(* had they not wrapped.                                                       *)
Width(packet) == IF packet.reliable THEN packet.fragments ELSE 0
Numbered == IF packets = <<>> THEN outgoingReliableSequenceNumber
            ELSE packets[Len(packets)].after + Width(packets[Len(packets)])
Absolute(c) == packets[c.packet].after + (IF c.reliable THEN c.part + 1 ELSE 0)
LastSent == Numbered - Len(outgoing)

\* The unreliable packets that follow one reliable command are numbered too.
UnreliableNumber(kind) == IF kind.reliable THEN 0 ELSE outgoingUnreliableSequenceNumber + 1

(* The commands of a packet, one per fragment.  Each fragment of a reliable packet   *)
(* has a sequence number of its own; those of an unreliable one share theirs.     *)
CommandsOf(kind, id) ==
    [i \in 1..kind.fragments |->
        [packet |-> id, part |-> i - 1, fragments |-> kind.fragments,
         reliable |-> kind.reliable,
         seq |-> (outgoingReliableSequenceNumber + (IF kind.reliable THEN i ELSE 0)) % Numbers,
         unreliable |-> UnreliableNumber(kind)]]

(* enet_peer_setup_outgoing_command with ENET_PROTOCOL_COMMAND_FLAG_ACKNOWLEDGE.    *)
SetupReliable(kind) ==
    LET commands == CommandsOf(kind, Len(packets) + 1)
    IN  /\ outgoingReliableSequenceNumber' = commands[kind.fragments].seq
        /\ outgoingUnreliableSequenceNumber' = 0
        /\ outgoing' = outgoing \o commands
        /\ UNCHANGED wire

(* Without it.  The throttle may drop such commands before they are sent.         *)
SetupUnreliable(kind) ==
    LET commands == CommandsOf(kind, Len(packets) + 1)
    IN  /\ outgoingUnreliableSequenceNumber' = outgoingUnreliableSequenceNumber + 1
        /\ \E kept \in SUBSET (1..kind.fragments) :
             wire' = wire \cup {Send(commands[i]) : i \in kept}
        /\ UNCHANGED <<outgoingReliableSequenceNumber, outgoing>>

(* enet_peer_send.  When the unreliable numbers are used up, the packet is sent       *)
(* reliably, which starts them again.                                          *)
enet_peer_send ==
    /\ plan # <<>> /\ plan' = Tail(plan)
    /\ LET kind == [Head(plan) EXCEPT !.reliable =
                       @ \/ outgoingUnreliableSequenceNumber >= LastUnreliable]
       IN  /\ packets' = Append(packets, [reliable |-> kind.reliable,
                               fragments |-> kind.fragments, after |-> Numbered,
                               number |-> UnreliableNumber(kind)])
           /\ IF kind.reliable THEN SetupReliable(kind) ELSE SetupUnreliable(kind)
    /\ UNCHANGED <<resend, sentReliableCommands, reliableWindows, reliableDataInTransit, receiver>>

(* A command may not open a window while all of the last one is unacknowledged, nor     *)
(* while anything is in one of the windows that the receiver would take for it.   *)
WindowWraps(seq) ==
    /\ seq % WindowSize = 0
    /\ \/ reliableWindows[(Window(seq) + Windows - 1) % Windows] >= WindowSize
       \/ \E i \in 0..(FreeWindows + 1) : reliableWindows[(Window(seq) + i) % Windows] > 0

Transmit(c) ==
    /\ reliableDataInTransit + 1 <= MaxInTransit
    /\ sentReliableCommands' = Append(sentReliableCommands, c)
    /\ reliableDataInTransit' = reliableDataInTransit + 1
    /\ wire' = wire \cup {Send(c)}

(* enet_protocol_check_outgoing_commands, a command at a time: one that timed out ...   *)
SendAgain ==
    /\ resend # <<>>
    /\ Transmit(Head(resend))
    /\ resend' = Tail(resend)
    /\ UNCHANGED <<plan, packets, outgoingReliableSequenceNumber, outgoingUnreliableSequenceNumber,
                   outgoing, reliableWindows, receiver>>

(* ... or one that is sent for the first time, and counted in its window.         *)
SendFirst ==
    /\ resend = <<>> /\ outgoing # <<>>
    /\ ~ WindowWraps(Head(outgoing).seq)
    /\ Transmit(Head(outgoing))
    /\ outgoing' = Tail(outgoing)
    /\ reliableWindows' = [reliableWindows EXCEPT ![Window(Head(outgoing).seq)] = @ + 1]
    /\ UNCHANGED <<plan, packets, outgoingReliableSequenceNumber, outgoingUnreliableSequenceNumber,
                   resend, receiver>>

Pick(s, I) == LET at[i \in 0..Len(s)] == IF i = 0 THEN <<>>
                                         ELSE IF i \in I THEN Append(at[i - 1], s[i]) ELSE at[i - 1]
              IN  at[Len(s)]

(* enet_protocol_check_timeouts, when some commands have waited too long.  (That it      *)
(* gives the peer up in the end is EnetHost's TimeOut.)                        *)
TimeOutCommands(I) ==
    /\ I # {}
    /\ resend' = Pick(sentReliableCommands, I) \o resend
    /\ sentReliableCommands' = Pick(sentReliableCommands, DOMAIN sentReliableCommands \ I)
    /\ reliableDataInTransit' = reliableDataInTransit - Cardinality(I)
    /\ UNCHANGED <<plan, packets, outgoingReliableSequenceNumber, outgoingUnreliableSequenceNumber,
                   outgoing, reliableWindows, wire, receiver>>

WithNumber(s, seq) == {i \in DOMAIN s : s[i].seq = seq}

\* A mistake: what waits to be sent again still counts as in transit.
RemoveSentCountingTwice(seq) ==
    LET sent == WithNumber(sentReliableCommands, seq)
        timedOut == IF sent = {} THEN WithNumber(resend, seq) ELSE {}
    IN  /\ sentReliableCommands' = Pick(sentReliableCommands, DOMAIN sentReliableCommands \ sent)
        /\ resend' = Pick(resend, DOMAIN resend \ timedOut)
        /\ reliableDataInTransit' = reliableDataInTransit - Cardinality(sent \cup timedOut)
        /\ reliableWindows' = [reliableWindows EXCEPT ![Window(seq)] =
                                 IF sent \cup timedOut # {} /\ @ > 0 THEN @ - 1 ELSE @]

(* enet_protocol_remove_sent_reliable_command: an acknowledgement finds its command       *)
(* among the sent ones or, if it is late, among those to be sent again.         *)
RemoveSent(seq) ==
    LET sent == WithNumber(sentReliableCommands, seq)
        timedOut == IF sent = {} THEN WithNumber(resend, seq) ELSE {}
    IN  /\ sentReliableCommands' = Pick(sentReliableCommands, DOMAIN sentReliableCommands \ sent)
        /\ resend' = Pick(resend, DOMAIN resend \ timedOut)
        /\ reliableDataInTransit' = reliableDataInTransit - Cardinality(sent)
        /\ reliableWindows' = [reliableWindows EXCEPT ![Window(seq)] =
                                 IF sent \cup timedOut # {} /\ @ > 0 THEN @ - 1 ELSE @]

(* A datagram is read; another copy of it may still be under way.                  *)
Arrives(datagram) ==
    /\ datagram \in wire
    /\ wire' \in {wire, wire \ {datagram}}

(* enet_protocol_handle_acknowledge.                                             *)
HandleAcknowledge(c) ==
    /\ Arrives(Acknowledge(c))
    /\ RemoveSent(c.seq)
    /\ UNCHANGED <<plan, packets, outgoingReliableSequenceNumber, outgoingUnreliableSequenceNumber,
                   outgoing, receiver>>
--------------------------------------------------------------------------------
(* The receiving peer.                                                        *)

\* A mistake: a number below the current one is behind, even past the wrap.
AheadUnwrapped(seq, current) == Window(seq) - Window(current)

(* How many windows seq is ahead of the receiver, which is at number current; one       *)
(* that is behind counts as a turn of all windows ahead.                        *)
Ahead(seq, current) ==
    Window(seq) + (IF seq < current THEN Windows ELSE 0) - Window(current)

InWindow(seq, current) == Ahead(seq, current) \in 0..(FreeWindows - 2)

\* A mistake: what was out of reach is acknowledged all the same.
AcknowledgedAlways(seq, current) == TRUE

(* enet_peer_queue_acknowledgement: what was too far ahead to be taken, and hence         *)
(* discarded, is not acknowledged; what is behind was taken before.              *)
Acknowledged(seq, current) == Ahead(seq, current) \notin {FreeWindows - 1, FreeWindows}

(* The answer to a reliable command, after it was handled.                          *)
Answer(c) ==
    wire' \in LET rest == {wire, wire \ {Send(c)}}
              IN  IF Acknowledged(c.seq, incomingReliableSequenceNumber')
                  THEN {w \cup {Acknowledge(c)} : w \in rest} ELSE rest

Number(c) == IF c.reliable THEN (c.seq + Numbers - c.part) % Numbers ELSE c.seq

\* An incoming command: the packet that c is a part of, and what came of it.
Entry(c) == [seq |-> Number(c), unreliable |-> c.unreliable, fragments |-> c.fragments,
             fragmentsRemaining |-> c.fragments, parts |-> {}]
Part(c) == <<c.part, c.packet>>
Complete(e) == e.fragmentsRemaining = 0

Copy(e, c) == [e EXCEPT !.parts = @ \cup {Part(c)},
                        !.fragmentsRemaining = @ - 1]

Distance(seq) == (seq + Numbers - incomingReliableSequenceNumber) % Numbers

Same(list, c) == {i \in DOMAIN list : /\ list[i].seq = Number(c)
                                      /\ list[i].unreliable = c.unreliable}

(* Behind the last of those that come before it.                                   *)
Before(x, e) == \/ Distance(x.seq) < Distance(e.seq)
                \/ x.seq = e.seq /\ x.unreliable < e.unreliable
Insert(list, e) ==
    LET place == Max({0} \cup {i \in DOMAIN list : Before(list[i], e)})
    IN  SubSeq(list, 1, place) \o <<e>> \o SubSeq(list, place + 1, Len(list))

\* A mistake: a part that came before is counted again.
WithPartAgain(list, c) ==
    IF Same(list, c) = {} THEN Insert(list, Copy(Entry(c), c))
    ELSE [i \in DOMAIN list |->
            IF i \in Same(list, c) /\ ~ Complete(list[i])
            THEN Copy(list[i], c) ELSE list[i]]

(* The queue with this command in it: as a part of a packet whose other parts came, or       *)
(* as the first.                                                                *)
WithPart(list, c) ==
    IF Same(list, c) = {} THEN Insert(list, Copy(Entry(c), c))
    ELSE [i \in DOMAIN list |->
            IF i \in Same(list, c) /\ \A part \in list[i].parts : part[1] # c.part
            THEN Copy(list[i], c) ELSE list[i]]

(* What the program is given: the packet whose parts were put together, 0 if they are     *)
(* not all there, or not all of one.                                               *)
Assembled(e) ==
    LET from == {part[2] : part \in e.parts}
        whole(p) == e.parts = {<<i, p>> : i \in 0..(e.fragments - 1)}
    IN  IF \E p \in from : whole(p) THEN CHOOSE p \in from : whole(p) ELSE 0
Packets(list) == [i \in DOMAIN list |-> Assembled(list[i])]

(* enet_peer_dispatch_incoming_unreliable_commands: the complete packets of the current      *)
(* reliable number go out.  With them go the incomplete ones that they overtake,   *)
(* and all that an older reliable number left behind.  Of the incomplete ones that   *)
(* are still to come only the last two stay, and the one just queued.          *)
UnreliableQueue(list, current, queued) ==
    LET ready == {i \in DOMAIN list : list[i].seq = current /\ Complete(list[i])}
        passed == Max(ready \cup {0})
        waiting == {i \in DOMAIN list : i > passed /\ list[i].seq = current}
        dropped == {i \in waiting \ queued : Cardinality({j \in waiting : j > i}) > 1}
        rest == {i \in DOMAIN list \ dropped : i > passed /\ InWindow(list[i].seq, current)}
    IN  [ready |-> Pick(list, ready), rest |-> Pick(list, rest)]

DispatchUnreliable(list, current, last, before, queued) ==
    LET queue == UnreliableQueue(list, current, queued)
        count == Len(queue.ready)
    IN  /\ incomingUnreliableCommands' = queue.rest
        /\ incomingUnreliableSequenceNumber' =
             IF count = 0 THEN last ELSE queue.ready[count].unreliable
        /\ delivered' = delivered \o before \o Packets(queue.ready)

(* The last number of a packet, and the number of complete packets in line.              *)
LastNumber(e) == (e.seq + e.fragments - 1) % Numbers
InLine(list) ==
    LET next(i) == (1 + IF i = 1 THEN incomingReliableSequenceNumber
                        ELSE LastNumber(list[i - 1])) % Numbers
    IN  Max({k \in 0..Len(list) :
               \A i \in 1..k : Complete(list[i]) /\ list[i].seq = next(i)})

(* enet_peer_dispatch_incoming_reliable_commands.                                     *)
DispatchReliable(list) ==
    LET k == InLine(list)
    IN  /\ incomingReliableCommands' = SubSeq(list, k + 1, Len(list))
        /\ IF k = 0
           THEN UNCHANGED <<incomingReliableSequenceNumber, incomingUnreliableSequenceNumber,
                            incomingUnreliableCommands, delivered>>
           ELSE /\ incomingReliableSequenceNumber' = LastNumber(list[k])
                /\ DispatchUnreliable(incomingUnreliableCommands, LastNumber(list[k]), 0,
                                      Packets(SubSeq(list, 1, k)), {})

(* enet_protocol_handle_send_reliable and _send_fragment, with                           *)
(* enet_peer_queue_incoming_command: a packet that is out of the window, or was         *)
(* dispatched or is complete already, changes nothing.                              *)
HandleReliable(c) ==
    /\ c.reliable /\ Send(c) \in wire
    /\ IF InWindow(Number(c), incomingReliableSequenceNumber)
          /\ Number(c) # incomingReliableSequenceNumber
       THEN DispatchReliable(WithPart(incomingReliableCommands, c))
       ELSE UNCHANGED receiver
    /\ Answer(c)
    /\ UNCHANGED sender

(* A command that is queued is dispatched with those before it, and so is a packet whose      *)
(* last part came; another part waits with the others.                          *)
QueueUnreliable(list, c) ==
    LET first == Same(incomingUnreliableCommands, c) = {}
        filled == /\ list # incomingUnreliableCommands
                  /\ \E i \in Same(list, c) : Complete(list[i])
    IN  IF first \/ filled
        THEN DispatchUnreliable(list, incomingReliableSequenceNumber,
                                incomingUnreliableSequenceNumber, <<>>,
                                IF first THEN Same(list, c) ELSE {})
        ELSE /\ incomingUnreliableCommands' = list
             /\ UNCHANGED <<incomingUnreliableSequenceNumber, delivered>>

(* enet_protocol_handle_send_unreliable and _send_unreliable_fragment.                     *)
HandleUnreliable(c) ==
    /\ ~ c.reliable /\ Arrives(Send(c))
    /\ IF /\ InWindow(c.seq, incomingReliableSequenceNumber)
          /\ \/ c.seq # incomingReliableSequenceNumber
             \/ c.unreliable > incomingUnreliableSequenceNumber
       THEN /\ QueueUnreliable(WithPart(incomingUnreliableCommands, c), c)
            /\ UNCHANGED <<incomingReliableSequenceNumber, incomingReliableCommands>>
       ELSE UNCHANGED receiver
    /\ UNCHANGED sender

Lose(datagram) == wire' = wire \ {datagram} /\ UNCHANGED <<sender, receiver>>
--------------------------------------------------------------------------------
(* The network keeps no datagram while the numbers turn half way round, and no more    *)
(* commands wait to be sent: unreliable commands, which carry the last number given out,  *)
(* overtake them.                                                              *)
Fresh ==
    /\ \A d \in wire : LastSent - Absolute(d.command) <= Lifetime
    /\ Len(outgoing) <= MaxQueued

CheckOutgoing == SendAgain \/ SendFirst

ChannelNext ==
    /\ \/ enet_peer_send
       \/ CheckOutgoing
       \/ \E I \in SUBSET DOMAIN sentReliableCommands : TimeOutCommands(I)
       \/ \E d \in wire :
            \/ Lose(d)
            \/ d.type = "acknowledge" /\ HandleAcknowledge(d.command)
            \/ d.type = "send" /\ (HandleReliable(d.command) \/ HandleUnreliable(d.command))
    /\ Cardinality(wire') <= MaxOnWire
    /\ Fresh'

ChannelSpec == ChannelInit /\ [][ChannelNext]_channelVars

Unacknowledged == sentReliableCommands \o resend

(* The datagrams that matter: a command that is new to the receiver and the acknowledgement of one      *)
(* that the sender keeps; and a command that is not new, but whose acknowledgement was lost.  *)
IsNew(c) ==
    /\ c.reliable /\ InWindow(Number(c), incomingReliableSequenceNumber)
    /\ Number(c) # incomingReliableSequenceNumber
    /\ \A i \in Same(incomingReliableCommands, c) : Part(c) \notin incomingReliableCommands[i].parts

Matters(d) == \/ d.type = "acknowledge" /\ WithNumber(Unacknowledged, d.command.seq) # {}
              \/ d.type = "send" /\ IsNew(d.command)

AsksAgain(d) == /\ d.type = "send" /\ d.command.reliable /\ ~ IsNew(d.command)
                /\ WithNumber(Unacknowledged, d.command.seq) # {}
                /\ Acknowledge(d.command) \notin wire

(* What their arrival does.                                                                              *)
Gets == \/ Len(Unacknowledged') < Len(Unacknowledged)
        \/ incomingReliableCommands' # incomingReliableCommands
        \/ incomingReliableSequenceNumber' # incomingReliableSequenceNumber
Answers == \E d \in wire : AsksAgain(d) /\ Acknowledge(d.command) \in wire'

(* The throttle may narrow the window to one command, so one is sure to be sent only when none           *)
(* is in transit.                                                                 *)
CanSend == /\ reliableDataInTransit = 0 /\ Cardinality(wire) < MaxOnWire
           /\ \/ resend # <<>>
              \/ outgoing # <<>> /\ ~ WindowWraps(Head(outgoing).seq)
Sends == Len(sentReliableCommands') > Len(sentReliableCommands)

(* The thread runs and unanswered commands time out.  The network keeps no datagram for ever, and of a      *)
(* command that is sent again and again it does not lose every copy, nor every answer.      *)
(* (Strong fairness of the actions; what enables them is written out, as that is quick to       *)
(* evaluate.)                                                                     *)
ChannelFairness ==
    /\ WF_channelVars(TimeOutCommands(DOMAIN sentReliableCommands))
    /\ WF_channelVars(\E d \in wire : Lose(d))
    /\ []<>CanSend => []<><<Sends>>_channelVars
    /\ []<>(\E d \in wire : Matters(d)) => []<><<Gets>>_channelVars
    /\ []<>(\E d \in wire : AsksAgain(d)) => []<><<Answers>>_channelVars

FairChannelSpec == ChannelSpec /\ ChannelFairness
--------------------------------------------------------------------------------
InOrder(list) == \A i \in 1..(Len(list) - 1) :
    \/ Distance(list[i].seq) < Distance(list[i + 1].seq)
    \/ list[i].seq = list[i + 1].seq /\ list[i].unreliable < list[i + 1].unreliable

(* Type invariant, and the order the receiver's searches through its queues rely on.            *)
ChannelTypeOK ==
    /\ plan \in Seq([reliable : BOOLEAN, fragments : 1..WindowSize])
    /\ packets \in Seq([reliable : BOOLEAN, fragments : 1..WindowSize, after : Nat,
                       number : 0..LastUnreliable])
    /\ {outgoingReliableSequenceNumber, incomingReliableSequenceNumber} \subseteq Sequence
    /\ {outgoingUnreliableSequenceNumber, incomingUnreliableSequenceNumber}
          \subseteq 0..LastUnreliable
    /\ reliableDataInTransit \in 0..MaxInTransit
    /\ reliableWindows \in [0..(Windows - 1) -> 0..WindowSize]
    /\ InOrder(incomingReliableCommands) /\ InOrder(incomingUnreliableCommands)
    /\ \A i \in DOMAIN incomingReliableCommands :
          InWindow(incomingReliableCommands[i].seq, incomingReliableSequenceNumber)

(* The counters that hold the sender back are exact: what is in transit, and how many             *)
(* commands of each window were sent and not acknowledged.  If one leaked, the sender    *)
(* would stop for ever once it reached its limit.                                  *)
CountersMatch ==
    /\ reliableDataInTransit = Len(sentReliableCommands)
    /\ \A w \in 0..(Windows - 1) :
          reliableWindows[w] = Cardinality({i \in DOMAIN Unacknowledged :
                                               Window(Unacknowledged[i].seq) = w})

(* Both ends keep their types, their order and their counters.                                      *)
ChannelInv == ChannelTypeOK /\ CountersMatch

Received(p, k) ==
    \/ \E i \in DOMAIN delivered : delivered[i] = p
    \/ \E i \in DOMAIN incomingReliableCommands : <<k, p>> \in incomingReliableCommands[i].parts

(* The sender forgets a command when it is acknowledged; by then the receiver has it.              *)
(* So no fragment of a reliable packet is ever missing on both sides.               *)
NothingAcknowledgedIsLost ==
    \A p \in DOMAIN packets : packets[p].reliable =>
        \A k \in 0..(packets[p].fragments - 1) :
            \/ Received(p, k)
            \/ \E s \in {Unacknowledged, outgoing} : \E i \in DOMAIN s :
                  s[i].packet = p /\ s[i].part = k

IsOldest(c) == \A i \in DOMAIN Unacknowledged :
    \/ c.packet < Unacknowledged[i].packet
    \/ c.packet = Unacknowledged[i].packet /\ c.part <= Unacknowledged[i].part

(* The windows of the two ends agree: the oldest command the sender keeps is always one that the            *)
(* receiver will take, or has taken and will acknowledge again.  Otherwise the sender would   *)
(* repeat it for ever.                                                            *)
OldestIsAnswered ==
    \A i \in DOMAIN Unacknowledged :
        LET c == Unacknowledged[i]
        IN  IsOldest(c) => IF Received(c.packet, c.part)
                           THEN Acknowledged(c.seq, incomingReliableSequenceNumber)
                           ELSE IsNew(c)

(* The channel keeps the promise of OrderedChannel.                                                *)
LastDelivered == IF delivered = <<>> THEN 0 ELSE delivered[Len(delivered)]
Numbering(first, last) == [i \in 1..(last - first + 1) |->
    [id |-> first + i - 1, reliable |-> packets[first + i - 1].reliable]]
Ordered == INSTANCE OrderedChannel WITH
    channel <- Numbering(LastDelivered + 1, Len(packets)),
    delivered <- [i \in DOMAIN delivered |->
                    IF delivered[i] \in DOMAIN packets
                    THEN Numbering(delivered[i], delivered[i])[1] ELSE [id |-> 0]]

ImplementsOrderedChannel == Ordered!Spec

(* Whatever the network loses, a reliable packet arrives.                                          *)
ReliableArrives ==
    \A p \in 1..MaxPackets :
        (Len(packets) >= p /\ packets[p].reliable) ~> (\E i \in DOMAIN delivered : delivered[i] = p)
================================================================================
