---------------------------- MODULE EnetHostProofs ----------------------------
(****************************************************************************)
(* What TLAPS proves of EnetHost, for any number of peers, any packets and    *)
(* any bounds: its invariant, that it never sleeps on work, that its queue is    *)
(* fair, and that it implements LinkEvents.                                  *)
(****************************************************************************)
EXTENDS EnetHost, FiniteSetTheorems, SequenceTheorems, TLAPS

--------------------------------------------------------------------------------
(* The dispatch queue as a list without repetition.                          *)

LEMMA FirstAndRest ==
    ASSUME NEW S, NEW list \in Seq(S), list # <<>>
    PROVE  /\ Head(list) = list[1] /\ Head(list) \in S /\ Tail(list) \in Seq(S)
           /\ Len(list) \in Nat \ {0} /\ Len(Tail(list)) = Len(list) - 1
           /\ \A i \in 1..(Len(list) - 1) : Tail(list)[i] = list[i + 1]
           /\ Len(list) > 1 <=> Tail(list) # <<>>
  <1>1. /\ Head(list) = list[1] /\ Tail(list) \in Seq(S)
        /\ Len(list) \in Nat \ {0} /\ Len(Tail(list)) = Len(list) - 1
        /\ \A i \in 1..(Len(list) - 1) : Tail(list)[i] = list[i + 1]
    OBVIOUS
  <1>2. list[1] \in S
    OBVIOUS
  <1>3. Tail(list) = <<>> <=> Len(Tail(list)) = 0
    BY <1>1
  <1>. QED
    BY <1>1, <1>2, <1>3

LEMMA TailQueue ==
    ASSUME NEW queue \in Seq(Peers), queue # <<>>, Linked(queue)
    PROVE  /\ Head(queue) \in Peers /\ Head(queue) \in Members(queue)
           /\ Tail(queue) \in Seq(Peers) /\ Linked(Tail(queue))
           /\ Members(Tail(queue)) = Members(queue) \ {Head(queue)}
  <1>1. /\ Len(queue) \in Nat \ {0} /\ Len(Tail(queue)) = Len(queue) - 1
        /\ Head(queue) = queue[1] /\ queue[1] \in Peers
        /\ \A i \in 1..(Len(queue) - 1) : Tail(queue)[i] = queue[i + 1]
        /\ Tail(queue) \in Seq(Peers)
    OBVIOUS
  <1>2. Linked(Tail(queue))
    BY <1>1 DEF Linked
  <1>3. Members(Tail(queue)) = Members(queue) \ {Head(queue)}
    <2>1. ASSUME NEW i \in 1..Len(Tail(queue))
          PROVE  Tail(queue)[i] \in Members(queue) \ {Head(queue)}
      <3>1. i + 1 \in 1..Len(queue) /\ 1 \in 1..Len(queue) /\ i + 1 # 1
        BY <1>1
      <3>. QED
        BY <1>1, <3>1 DEF Linked, Members
    <2>2. ASSUME NEW i \in 1..Len(queue), queue[i] # Head(queue)
          PROVE  queue[i] \in Members(Tail(queue))
      <3>1. i - 1 \in 1..Len(Tail(queue)) /\ (i - 1) + 1 = i
        BY <1>1, <2>2
      <3>. QED
        BY <1>1, <3>1 DEF Members
    <2>. QED
      BY <2>1, <2>2 DEF Members
  <1>4. Head(queue) \in Members(queue)
    <2>1. 1 \in 1..Len(queue)
      BY <1>1
    <2>. QED
      BY <1>1, <2>1 DEF Members
  <1>. QED
    BY <1>1, <1>2, <1>3, <1>4

LEMMA AppendQueue ==
    ASSUME NEW queue \in Seq(Peers), NEW p \in Peers, Linked(queue), p \notin Members(queue)
    PROVE  /\ Append(queue, p) \in Seq(Peers) /\ Linked(Append(queue, p))
           /\ Members(Append(queue, p)) = Members(queue) \cup {p}
  <1>1. /\ Len(queue) \in Nat /\ Len(Append(queue, p)) = Len(queue) + 1
        /\ Append(queue, p)[Len(queue) + 1] = p
        /\ \A i \in 1..Len(queue) : Append(queue, p)[i] = queue[i]
        /\ Append(queue, p) \in Seq(Peers)
    OBVIOUS
  <1>2. Linked(Append(queue, p))
    BY <1>1 DEF Linked, Members
  <1>3. Members(Append(queue, p)) = Members(queue) \cup {p}
    BY <1>1 DEF Members
  <1>. QED
    BY <1>1, <1>2, <1>3

(* Taking an element out keeps the others, in their order.                    *)
Without(queue, k) == SubSeq(queue, 1, k - 1) \o SubSeq(queue, k + 1, Len(queue))

LEMMA WithoutIs ==
    ASSUME NEW queue \in Seq(Peers), NEW k \in 1..Len(queue)
    PROVE  /\ Without(queue, k) \in Seq(Peers)
           /\ Len(Without(queue, k)) = Len(queue) - 1
           /\ \A i \in 1..(Len(queue) - 1) :
                 Without(queue, k)[i] = IF i < k THEN queue[i] ELSE queue[i + 1]
  <1>. DEFINE front == SubSeq(queue, 1, k - 1)
              back == SubSeq(queue, k + 1, Len(queue))
  <1>1. /\ front \in Seq(Peers) /\ Len(front) = k - 1
        /\ \A i \in 1..(k - 1) : front[i] = queue[i]
    OBVIOUS
  <1>2. /\ back \in Seq(Peers) /\ Len(back) = Len(queue) - k
        /\ \A i \in 1..(Len(queue) - k) : back[i] = queue[i + k]
    OBVIOUS
  <1>. HIDE DEF front, back
  <1>3. /\ front \o back \in Seq(Peers)
        /\ Len(front \o back) = Len(queue) - 1
        /\ \A i \in 1..(Len(queue) - 1) :
              (front \o back)[i] = IF i < k THEN front[i] ELSE back[i - (k - 1)]
    <2>1. /\ front \o back \in Seq(Peers)
          /\ Len(front \o back) = Len(front) + Len(back)
          /\ \A i \in 1..(Len(front) + Len(back)) :
                (front \o back)[i] = IF i <= Len(front) THEN front[i]
                                     ELSE back[i - Len(front)]
      BY <1>1, <1>2, ConcatProperties
    <2>2. Len(front) + Len(back) = Len(queue) - 1
      BY <1>1, <1>2
    <2>3. \A i \in 1..(Len(queue) - 1) : i <= Len(front) <=> i < k
      BY <1>1
    <2>. QED
      BY <1>1, <2>1, <2>2, <2>3
  <1>4. ASSUME NEW i \in 1..(Len(queue) - 1), ~(i < k)
        PROVE  back[i - (k - 1)] = queue[i + 1]
    <2>1. i - (k - 1) \in 1..(Len(queue) - k) /\ (i - (k - 1)) + k = i + 1
      BY <1>4
    <2>. QED
      BY <1>2, <2>1
  <1>5. Without(queue, k) = front \o back
    BY DEF Without, front, back
  <1>. QED
    BY <1>1, <1>3, <1>4, <1>5

LEMMA RemoveQueue ==
    ASSUME NEW queue \in Seq(Peers), NEW k \in 1..Len(queue), Linked(queue)
    PROVE  /\ Without(queue, k) \in Seq(Peers) /\ Linked(Without(queue, k))
           /\ Members(Without(queue, k)) = Members(queue) \ {queue[k]}
  <1>. DEFINE rest == Without(queue, k)
  <1>1. /\ rest \in Seq(Peers) /\ Len(rest) = Len(queue) - 1 /\ Len(queue) \in Nat
        /\ \A i \in 1..(Len(queue) - 1) : rest[i] = IF i < k THEN queue[i] ELSE queue[i + 1]
    BY WithoutIs
  <1>. HIDE DEF rest
  <1>2. Linked(rest)
    BY <1>1 DEF Linked
  <1>3. ASSUME NEW i \in 1..Len(rest) PROVE rest[i] \in Members(queue) \ {queue[k]}
    <2>1. PICK j \in 1..Len(queue) : j # k /\ rest[i] = queue[j]
      <3>1. CASE i < k
        BY <1>1, <3>1
      <3>2. CASE ~(i < k)
        BY <1>1, <3>2
      <3>. QED
        BY <3>1, <3>2
    <2>. QED
      BY <2>1 DEF Linked, Members
  <1>4. ASSUME NEW i \in 1..Len(queue), queue[i] # queue[k] PROVE queue[i] \in Members(rest)
    <2>1. CASE i < k
      <3>1. i \in 1..Len(rest) /\ rest[i] = queue[i]
        BY <1>1, <2>1
      <3>. QED
        BY <3>1 DEF Members
    <2>2. CASE ~(i < k)
      <3>1. i - 1 \in 1..Len(rest) /\ ~(i - 1 < k) /\ (i - 1) + 1 = i
        BY <1>1, <1>4, <2>2
      <3>2. rest[i - 1] = queue[i]
        BY <1>1, <3>1
      <3>. QED
        BY <3>1, <3>2 DEF Members
    <2>. QED
      BY <2>1, <2>2
  <1>5. Members(rest) = Members(queue) \ {queue[k]}
    BY <1>3, <1>4 DEF Members
  <1>. QED
    BY <1>1, <1>2, <1>5 DEF rest

LEMMA UnqueuedIs ==
    ASSUME HostTypeOK, QueuedOnce, NEW p \in Peers, peerState[p] # "DISCONNECTED"
    PROVE  /\ Unqueued(p) \in Seq(Peers) /\ Linked(Unqueued(p))
           /\ Members(Unqueued(p)) = Members(dispatchQueue) \ {p}
  <1>1. dispatchQueue \in Seq(Peers) /\ Linked(dispatchQueue)
    BY DEF HostTypeOK, QueuedOnce
  <1>2. CASE p \in needsDispatch
    <2>1. Place(p) \in 1..Len(dispatchQueue) /\ dispatchQueue[Place(p)] = p
      BY <1>2 DEF QueuedOnce, Members, Place
    <2>2. Unqueued(p) = Without(dispatchQueue, Place(p))
      BY <1>2 DEF Unqueued, Without
    <2>. QED
      BY <1>1, <2>1, <2>2, RemoveQueue
  <1>3. CASE p \notin needsDispatch
    BY <1>1, <1>3 DEF QueuedOnce, Unqueued
  <1>. QED
    BY <1>2, <1>3

--------------------------------------------------------------------------------
(* The number of connected peers.                                            *)
ConnectedIn(state) == {p \in Peers : state[p] = "CONNECTED"}

LEMMA CountChange ==
    ASSUME HostTypeOK, ConnectedCounted, NEW p \in Peers, NEW state \in PeerStates,
           change_state(p, state)
    PROVE  ConnectedCounted' /\ connectedPeers' \in 0..PeerCount
  <1>. DEFINE C == ConnectedIn(peerState)
              D == ConnectedIn(peerState')
  <1>1. IsFiniteSet(Peers) /\ Cardinality(Peers) = PeerCount
    BY HostAssumption, FS_Interval DEF Peers
  <1>2. C \subseteq Peers /\ D \subseteq Peers
    BY DEF ConnectedIn
  <1>3. IsFiniteSet(C) /\ IsFiniteSet(D)
    BY <1>1, <1>2, FS_Subset
  <1>4. /\ peerState' = [peerState EXCEPT ![p] = state]
        /\ peerState \in [Peers -> PeerStates]
    BY DEF change_state, HostTypeOK
  <1>5. connectedPeers = Cardinality(C) /\ Cardinality(C) \in Nat
    BY <1>3, FS_CardinalityType DEF ConnectedCounted, ConnectedIn
  <1>6. connectedPeers' = Cardinality(D)
    <2>1. CASE state = "CONNECTED" /\ p \notin C
      <3>1. D = C \cup {p}
        BY <1>4, <2>1 DEF ConnectedIn
      <3>2. connectedPeers' = connectedPeers + 1
        BY <2>1 DEF change_state, enet_peer_on_connect, ConnectedIn
      <3>. QED
        BY <1>3, <1>5, <2>1, <3>1, <3>2, FS_AddElement
    <2>2. CASE state # "CONNECTED" /\ p \in C
      <3>1. D = C \ {p}
        BY <1>4, <2>2 DEF ConnectedIn
      <3>2. connectedPeers' = connectedPeers - 1
        BY <2>2 DEF change_state, enet_peer_on_disconnect, ConnectedIn
      <3>. QED
        BY <1>3, <1>5, <2>2, <3>1, <3>2, FS_RemoveElement
    <2>3. CASE (state = "CONNECTED") <=> (p \in C)
      <3>1. D = C
        BY <1>4, <2>3 DEF ConnectedIn
      <3>2. connectedPeers' = connectedPeers
        BY <2>3 DEF change_state, enet_peer_on_connect, enet_peer_on_disconnect, ConnectedIn
      <3>. QED
        BY <1>5, <3>1, <3>2
    <2>. QED
      BY <2>1, <2>2, <2>3
  <1>7. Cardinality(D) \in 0..PeerCount
    BY <1>1, <1>2, <1>3, FS_Subset, FS_CardinalityType, HostAssumption
  <1>. QED
    BY <1>6, <1>7 DEF ConnectedCounted, ConnectedIn

--------------------------------------------------------------------------------
(* Steps of the call that change no peer.                                    *)
LEMMA CallMoves ==
    ASSUME HostInv, UNCHANGED hostVars, UNCHANGED netVars, event' = event,
           phase' \in {"returned", "enter", "send1", "receive", "send2", "dispatch", "wait"},
           position' \in Nat, sender' \in {0} \cup Peers, left' \in Nat, status' \in -1..1,
           phase \in {"returned", "enter"}
              => phase' \in {"returned", "enter"} \/ dispatchQueue = <<>>,
           event # NoEvent
              => phase' = "returned" \/ (phase' = "receive" /\ phase = "receive" /\ sender' = sender),
           sender' # 0 => phase' = "receive" /\ left' <= Len(wire[sender']),
           GoodbyesAnswered'
    PROVE  HostInv'
  <1>1. HostTypeOK'
    BY DEF HostInv, HostTypeOK, hostVars, netVars
  <1>2. QueuedOnce'
    BY DEF HostInv, QueuedOnce, Members, hostVars
  <1>3. NothingStranded' /\ ConnectedHold' /\ ConnectedCounted' /\ PacketsOwned'
    BY DEF HostInv, NothingStranded, ConnectedHold, ConnectedCounted, PacketsOwned, hostVars
  <1>4. EventsAreReturned'
    BY DEF HostInv, EventsAreReturned, hostVars
  <1>5. DatagramOnWire'
    BY DEF HostInv, DatagramOnWire, netVars
  <1>6. RemoteMatches' /\ WireInOrder'
    BY DEF HostInv, RemoteMatches, WireInOrder, hostVars, netVars
  <1>. QED
    BY <1>1, <1>2, <1>3, <1>4, <1>5, <1>6 DEF HostInv

LEMMA CallSteps ==
    ASSUME HostInv, NEW p,
           \/ DispatchDone \/ SendDone \/ EndDatagram \/ ReceiveDone \/ Wait \/ Fail
           \/ p \in Peers /\ (SendNothing(p) \/ ReceiveDatagram(p) \/ RefuseData(p))
    PROVE  HostInv'
  <1>1. /\ sender # 0 => phase = "receive" /\ left <= Len(wire[sender])
        /\ event # NoEvent => phase = "returned" \/ (phase = "receive" /\ sender # 0)
        /\ phase \in {"returned", "enter", "send1", "receive", "send2", "dispatch", "wait"}
        /\ position \in Nat /\ sender \in {0} \cup Peers /\ left \in Nat /\ status \in -1..1
        /\ (p \in Peers => Len(wire[p]) \in Nat) /\ PeerCount \in Nat
        /\ GoodbyesAnswered
    BY HostAssumption DEF HostInv, HostTypeOK, DatagramOnWire, EventsAreReturned
  <1>2. CASE DispatchDone
    <2>1. GoodbyesAnswered'
      <3>1. CASE phase = "enter"
        BY <1>1, <1>2, <3>1 DEF DispatchDone, GoodbyesAnswered, hostVars
      <3>2. CASE phase = "dispatch"
        BY <1>1, <1>2, <3>2 DEF DispatchDone, GoodbyesAnswered, hostVars
      <3>. QED
        BY <1>2, <3>1, <3>2 DEF DispatchDone, Dispatching
    <2>. QED
      BY <1>1, <1>2, <2>1, CallMoves DEF DispatchDone, Dispatching
  <1>3. CASE p \in Peers /\ SendNothing(p)
    <2>1. GoodbyesAnswered'
      BY <1>1, <1>3 DEF SendNothing, Sending, GoodbyesAnswered, hostVars, Peers
    <2>. QED
      BY <1>1, <1>3, <2>1, CallMoves DEF SendNothing, Sending
  <1>4. CASE SendDone
    <2>1. GoodbyesAnswered'
      BY <1>1, <1>4 DEF SendDone, Sending, GoodbyesAnswered, hostVars, Peers
    <2>. QED
      BY <1>1, <1>4, <2>1, CallMoves DEF SendDone, Sending
  <1>5. CASE p \in Peers /\ ReceiveDatagram(p)
    <2>1. GoodbyesAnswered'
      BY <1>1, <1>5 DEF ReceiveDatagram, NextDatagram, GoodbyesAnswered, hostVars
    <2>2. PICK n \in 1..Len(wire[p]) : left' = n
      BY <1>5 DEF ReceiveDatagram
    <2>4. left' \in Nat /\ left' <= Len(wire'[p])
      BY <1>5, <1>1, <2>2 DEF ReceiveDatagram, netVars
    <2>. QED
      BY <1>1, <1>5, <2>1, <2>4, CallMoves DEF ReceiveDatagram, NextDatagram, netVars
  <1>6. CASE p \in Peers /\ RefuseData(p)
    <2>1. GoodbyesAnswered'
      BY <1>1, <1>6 DEF RefuseData, Reading, GoodbyesAnswered, hostVars
    <2>. QED
      BY <1>1, <1>6, <2>1, CallMoves DEF RefuseData, Reading, netVars
  <1>7. CASE EndDatagram
    <2>1. GoodbyesAnswered'
      BY <1>1, <1>7 DEF EndDatagram, GoodbyesAnswered, Return, hostVars
    <2>. QED
      BY <1>1, <1>7, <2>1, CallMoves DEF EndDatagram, Return
  <1>8. CASE ReceiveDone
    <2>1. GoodbyesAnswered'
      BY <1>1, <1>8 DEF ReceiveDone, GoodbyesAnswered, hostVars, Peers
    <2>. QED
      BY <1>1, <1>8, <2>1, CallMoves DEF ReceiveDone
  <1>9. CASE Wait
    <2>1. GoodbyesAnswered'
      BY <1>1, <1>9 DEF Wait, GoodbyesAnswered, Return, hostVars
    <2>. QED
      BY <1>1, <1>9, <2>1, CallMoves DEF Wait, Return
  <1>10. CASE Fail
    <2>1. GoodbyesAnswered'
      BY <1>1, <1>10 DEF Fail, GoodbyesAnswered, Return, hostVars
    <2>. QED
      BY <1>1, <1>10, <2>1, CallMoves DEF Fail, Return, NextDatagram
  <1>. QED
    BY <1>2, <1>3, <1>4, <1>5, <1>6, <1>7, <1>8, <1>9, <1>10

--------------------------------------------------------------------------------
(* Steps of the other ends.                                                  *)
LEMMA NetMoves ==
    ASSUME HostInv, UNCHANGED hostVars, UNCHANGED callVars,
           remote' \in [Peers -> {"absent", "connecting", "verified", "up", "gone"}],
           wire' \in [Peers -> Seq(Commands)],
           DatagramOnWire', RemoteMatches', WireInOrder'
    PROVE  HostInv'
  <1>1. HostTypeOK'
    BY DEF HostInv, HostTypeOK, hostVars, callVars
  <1>2. QueuedOnce'
    BY DEF HostInv, QueuedOnce, Members, Linked, hostVars, callVars
  <1>4. NothingStranded' /\ ConnectedHold' /\ ConnectedCounted'
    BY DEF HostInv, NothingStranded, ConnectedHold, ConnectedCounted, hostVars
  <1>5. PacketsOwned'
    BY DEF HostInv, PacketsOwned, hostVars, callVars
  <1>3. EventsAreReturned' /\ GoodbyesAnswered'
    BY DEF HostInv, EventsAreReturned, GoodbyesAnswered, hostVars, callVars
  <1>. QED
    BY <1>1, <1>2, <1>3, <1>4, <1>5 DEF HostInv

LEMMA RemoteAcknowledges ==
    ASSUME HostInv, NEW p \in Peers, RemoteAcknowledge(p)
    PROVE  HostInv'
  <1>. DEFINE ack == [type |-> "acknowledge"]
  <1>1. /\ wire \in [Peers -> Seq(Commands)]
        /\ remote \in [Peers -> {"absent", "connecting", "verified", "up", "gone"}]
        /\ wire[p] = <<>> /\ peerState[p] = "ACKNOWLEDGING_CONNECT"
    BY DEF HostInv, HostTypeOK, RemoteMatches, RemoteAcknowledge
  <1>2. ack \in Commands /\ ack.type = "acknowledge"
    BY DEF Commands
  <1>. HIDE DEF ack
  <1>3. /\ remote' = [remote EXCEPT ![p] = "up"]
        /\ wire' = [wire EXCEPT ![p] = <<ack>>]
        /\ UNCHANGED hostVars /\ UNCHANGED callVars
    BY <1>1 DEF RemoteAcknowledge, ack
  <1>4. wire' \in [Peers -> Seq(Commands)] /\ Len(wire'[p]) = 1 /\ wire'[p][1] = ack
    BY <1>1, <1>2, <1>3
  <1>5. DatagramOnWire'
    BY <1>1, <1>3, <1>4 DEF HostInv, HostTypeOK, DatagramOnWire, callVars
  <1>6. RemoteMatches'
    BY <1>1, <1>3 DEF HostInv, RemoteMatches, hostVars
  <1>7. WireInOrder'
    BY <1>1, <1>2, <1>3, <1>4 DEF HostInv, WireInOrder, hostVars, Goodbyes
  <1>. QED
    BY <1>1, <1>3, <1>4, <1>5, <1>6, <1>7, NetMoves

LEMMA RemoteSends ==
    ASSUME HostInv, NEW p \in Peers, NEW m \in Payloads, RemoteSend(p, m)
    PROVE  HostInv'
  <1>. DEFINE sent == [type |-> "send_reliable", packet |-> m]
  <1>1. /\ wire \in [Peers -> Seq(Commands)] /\ wire[p] \in Seq(Commands)
        /\ remote \in [Peers -> {"absent", "connecting", "verified", "up", "gone"}]
        /\ remote[p] = "up"
    BY DEF HostInv, HostTypeOK, RemoteSend
  <1>2. sent \in Commands /\ sent.type = "send_reliable"
    BY DEF Commands
  <1>. HIDE DEF sent
  <1>3. /\ wire' = [wire EXCEPT ![p] = Append(wire[p], sent)]
        /\ UNCHANGED hostVars /\ UNCHANGED callVars /\ remote' = remote
    BY DEF RemoteSend, sent
  <1>4. /\ wire' \in [Peers -> Seq(Commands)] /\ Len(wire'[p]) = Len(wire[p]) + 1
        /\ wire'[p][Len(wire[p]) + 1] = sent
        /\ \A i \in 1..Len(wire[p]) : wire'[p][i] = wire[p][i]
        /\ Len(wire[p]) \in Nat
    BY <1>1, <1>2, <1>3
  <1>5. DatagramOnWire'
    BY <1>1, <1>3, <1>4 DEF HostInv, HostTypeOK, DatagramOnWire, callVars
  <1>6. RemoteMatches'
    BY <1>1, <1>3 DEF HostInv, RemoteMatches, hostVars
  <1>7. WireInOrder'
    <2>1. ASSUME NEW i \in 1..Len(wire'[p])
          PROVE  /\ wire'[p][i].type = "acknowledge" =>
                       i = 1 /\ peerState[p] = "ACKNOWLEDGING_CONNECT"
                 /\ wire'[p][i].type \notin Goodbyes
      <3>1. CASE i \in 1..Len(wire[p])
        BY <1>1, <1>4, <3>1 DEF HostInv, WireInOrder
      <3>2. CASE i = Len(wire[p]) + 1
        BY <1>2, <1>4, <3>2 DEF Goodbyes
      <3>. QED
        BY <1>4, <3>1, <3>2
    <2>. QED
      BY <1>1, <1>3, <2>1 DEF HostInv, WireInOrder, hostVars
  <1>. QED
    BY <1>1, <1>3, <1>4, <1>5, <1>6, <1>7, NetMoves

LEMMA RemoteLeaves ==
    ASSUME HostInv, NEW p \in Peers, RemoteLeave(p)
    PROVE  HostInv'
  <1>1. /\ wire \in [Peers -> Seq(Commands)] /\ wire[p] \in Seq(Commands)
        /\ remote \in [Peers -> {"absent", "connecting", "verified", "up", "gone"}]
        /\ remote[p] \in {"connecting", "verified", "up"} /\ left \in Nat
        /\ Len(wire[p]) \in Nat
    BY DEF HostInv, HostTypeOK, RemoteLeave
  <1>2. /\ remote' = [remote EXCEPT ![p] = "gone"]
        /\ UNCHANGED hostVars /\ UNCHANGED callVars
    BY DEF RemoteLeave
  <1>3. PICK k \in (IF sender = p THEN left ELSE 0)..Len(wire[p]),
             last \in {<<>>} \cup {<<[type |-> goodbye]>> : goodbye \in Goodbyes} :
                wire' = [wire EXCEPT ![p] = SubSeq(wire[p], 1, k) \o last]
    BY DEF RemoteLeave
  <1>. DEFINE kept == SubSeq(wire[p], 1, k)
  <1>4. /\ kept \in Seq(Commands) /\ Len(kept) = k /\ k \in Nat
        /\ \A i \in 1..k : kept[i] = wire[p][i]
    BY <1>1, <1>3
  <1>5. /\ last \in Seq(Commands) /\ Len(last) \in 0..1
        /\ \A i \in 1..Len(last) : i = 1 /\ last[i].type \in Goodbyes
    <2>1. CASE last = <<>>
      BY <2>1
    <2>2. CASE last # <<>>
      <3>1. PICK goodbye \in Goodbyes : last = <<[type |-> goodbye]>>
        BY <1>3, <2>2
      <3>2. [type |-> goodbye] \in Commands /\ [type |-> goodbye].type = goodbye
        BY DEF Commands
      <3>. QED
        BY <3>1, <3>2
    <2>. QED
      BY <2>1, <2>2
  <1>. HIDE DEF kept
  <1>6. /\ wire'[p] \in Seq(Commands)
        /\ Len(wire'[p]) = k + Len(last)
        /\ \A i \in 1..Len(wire'[p]) :
              wire'[p][i] = IF i <= k THEN wire[p][i] ELSE last[i - k]
    <2>1. /\ kept \o last \in Seq(Commands)
          /\ Len(kept \o last) = k + Len(last)
          /\ \A i \in 1..(k + Len(last)) :
                (kept \o last)[i] = IF i <= k THEN kept[i] ELSE last[i - k]
      BY <1>4, <1>5, ConcatProperties
    <2>2. wire'[p] = kept \o last
      BY <1>1, <1>3 DEF kept
    <2>. QED
      BY <1>4, <2>1, <2>2
  <1>7. wire' \in [Peers -> Seq(Commands)] /\ \A q \in Peers : q # p => wire'[q] = wire[q]
    BY <1>1, <1>3, <1>6
  <1>8. DatagramOnWire'
    <2>1. CASE sender = p
      BY <1>1, <1>2, <1>3, <1>4, <1>5, <1>6, <2>1
         DEF HostInv, DatagramOnWire, callVars
    <2>2. CASE sender # p
      BY <1>2, <1>7, <2>2 DEF HostInv, HostTypeOK, DatagramOnWire, callVars
    <2>. QED
      BY <2>1, <2>2
  <1>9. RemoteMatches'
    BY <1>1, <1>2, <1>7 DEF HostInv, RemoteMatches, hostVars
  <1>10. WireInOrder'
    <2>1. ASSUME NEW i \in 1..Len(wire'[p])
          PROVE  /\ wire'[p][i].type = "acknowledge" =>
                       i = 1 /\ peerState[p] = "ACKNOWLEDGING_CONNECT"
                 /\ wire'[p][i].type \in Goodbyes => i = Len(wire'[p])
      <3>1. CASE i <= k
        <4>1. i \in 1..Len(wire[p]) /\ wire'[p][i] = wire[p][i]
          BY <1>1, <1>3, <1>4, <1>6, <3>1
        <4>2. wire[p][i].type \notin Goodbyes
          BY <1>1, <4>1 DEF HostInv, WireInOrder
        <4>. QED
          BY <4>1, <4>2 DEF HostInv, WireInOrder
      <3>2. CASE ~(i <= k)
        <4>1. i - k \in 1..Len(last) /\ wire'[p][i] = last[i - k]
          BY <1>4, <1>5, <1>6, <3>2
        <4>2. i - k = 1 /\ Len(last) = 1 /\ wire'[p][i].type \in Goodbyes
          BY <1>5, <4>1
        <4>3. i = Len(wire'[p])
          BY <1>4, <1>6, <4>2
        <4>4. "acknowledge" \notin Goodbyes
          BY DEF Goodbyes
        <4>. QED
          BY <4>2, <4>3, <4>4
      <3>. QED
        BY <3>1, <3>2
    <2>2. remote'[p] = "gone"
      BY <1>1, <1>2
    <2>3. ASSUME NEW q \in Peers, q # p PROVE wire'[q] = wire[q] /\ remote'[q] = remote[q]
      BY <1>1, <1>2, <1>7, <2>3
    <2>. QED
      BY <1>2, <2>1, <2>2, <2>3 DEF HostInv, WireInOrder, hostVars
  <1>11. remote' \in [Peers -> {"absent", "connecting", "verified", "up", "gone"}]
    BY <1>1, <1>2
  <1>. QED
    BY <1>2, <1>7, <1>8, <1>9, <1>10, <1>11, NetMoves

LEMMA VerifySteps ==
    ASSUME HostInv, NEW p \in Peers, SendVerifyConnect(p)
    PROVE  HostInv'
  <1>1. /\ remote' = [remote EXCEPT ![p] = "verified"] /\ remote[p] = "connecting"
        /\ remote \in [Peers -> {"absent", "connecting", "verified", "up", "gone"}]
        /\ position' = position + 1 /\ position \in Nat /\ position = p
        /\ UNCHANGED <<hostVars, event, phase, sender, left, status, wire>>
        /\ phase \in {"send1", "send2"}
    BY DEF HostInv, HostTypeOK, SendVerifyConnect, Sending
  <1>2. peerState[p] = "ACKNOWLEDGING_CONNECT"
    BY <1>1 DEF HostInv, RemoteMatches
  <1>3. HostTypeOK'
    BY <1>1 DEF HostInv, HostTypeOK, hostVars
  <1>4. QueuedOnce'
    BY <1>1 DEF HostInv, QueuedOnce, Members, Linked, hostVars
  <1>5. NothingStranded' /\ ConnectedHold' /\ ConnectedCounted'
    BY <1>1 DEF HostInv, NothingStranded, ConnectedHold, ConnectedCounted, hostVars
  <1>6. PacketsOwned' /\ EventsAreReturned' /\ DatagramOnWire'
    BY <1>1 DEF HostInv, PacketsOwned, EventsAreReturned, DatagramOnWire, hostVars
  <1>7. RemoteMatches' /\ WireInOrder'
    BY <1>1 DEF HostInv, RemoteMatches, WireInOrder, hostVars
  <1>8. GoodbyesAnswered'
    BY <1>1, <1>2 DEF HostInv, GoodbyesAnswered, hostVars, Peers
  <1>. QED
    BY <1>3, <1>4, <1>5, <1>6, <1>7, <1>8 DEF HostInv

LEMMA ConnectSteps ==
    ASSUME HostInv, NEW p \in Peers, ReceiveConnect(p)
    PROVE  HostInv'
  <1>1. /\ peerState' = [peerState EXCEPT ![p] = "ACKNOWLEDGING_CONNECT"]
        /\ peerState[p] = "DISCONNECTED" /\ peerState \in [Peers -> PeerStates]
        /\ remote' = [remote EXCEPT ![p] = "connecting"]
        /\ remote \in [Peers -> {"absent", "connecting", "verified", "up", "gone"}]
        /\ position' = position + 1 /\ position \in Nat
        /\ UNCHANGED <<dispatchedCommands, dispatchQueue, needsDispatch, connectedPeers,
                       livePackets, event, phase, sender, left, status, wire>>
        /\ phase = "receive" /\ sender = 0
    BY DEF HostInv, HostTypeOK, ReceiveConnect, NextDatagram
  <1>2. event = NoEvent
    BY <1>1 DEF HostInv, EventsAreReturned
  <1>3. HostTypeOK'
    BY <1>1 DEF HostInv, HostTypeOK, PeerStates
  <1>4. QueuedOnce'
    BY <1>1 DEF HostInv, QueuedOnce, Members, Linked
  <1>5. NothingStranded' /\ ConnectedHold'
    BY <1>1 DEF HostInv, NothingStranded, ConnectedHold
  <1>6. ConnectedCounted'
    <2>1. {q \in Peers : peerState'[q] = "CONNECTED"} = {q \in Peers : peerState[q] = "CONNECTED"}
      BY <1>1
    <2>. QED
      BY <1>1, <2>1 DEF HostInv, ConnectedCounted
  <1>7. PacketsOwned' /\ EventsAreReturned' /\ DatagramOnWire'
    BY <1>1, <1>2 DEF HostInv, PacketsOwned, EventsAreReturned, DatagramOnWire, NoEvent
  <1>8. RemoteMatches' /\ WireInOrder'
    <2>1. wire[p] = <<>>
      BY <1>1 DEF HostInv, RemoteMatches
    <2>. QED
      BY <1>1, <2>1 DEF HostInv, RemoteMatches, WireInOrder
  <1>9. GoodbyesAnswered'
    BY <1>1 DEF HostInv, GoodbyesAnswered
  <1>. QED
    BY <1>3, <1>4, <1>5, <1>6, <1>7, <1>8, <1>9 DEF HostInv

--------------------------------------------------------------------------------
(* Steps of the dispatch queue.                                              *)
LEMMA ServiceSteps ==
    ASSUME HostInv, Service
    PROVE  HostInv'
  <1>1. /\ phase = "returned" /\ event' = NoEvent /\ phase' = "enter" /\ status' = 0
        /\ UNCHANGED <<peerState, dispatchedCommands, dispatchQueue, needsDispatch,
                       connectedPeers, position, sender, left, netVars>>
        /\ event \in Events /\ livePackets \in [Peers -> Nat]
        /\ dispatchedCommands \in [Peers -> Seq(Payloads)]
    BY DEF HostInv, HostTypeOK, Service
  <1>2. /\ livePackets' \in [Peers -> Nat]
        /\ \A p \in Peers : livePackets'[p] = Len(dispatchedCommands[p])
    <2>1. CASE Packet(event)
      <3>1. event.peer \in Peers
        BY <1>1, <2>1 DEF Events, Packet, NoEvent
      <3>2. livePackets' = [livePackets EXCEPT ![event.peer] = @ - 1]
        BY <2>1 DEF Service, Packet
      <3>3. \A p \in Peers : livePackets[p] = Len(dispatchedCommands[p])
                                + (IF event.peer = p THEN 1 ELSE 0)
        BY <2>1 DEF HostInv, PacketsOwned
      <3>4. \A p \in Peers : Len(dispatchedCommands[p]) \in Nat
        BY <1>1
      <3>. QED
        BY <1>1, <3>1, <3>2, <3>3, <3>4
    <2>2. CASE ~Packet(event)
      BY <1>1, <2>2 DEF HostInv, PacketsOwned, Service, Packet
    <2>. QED
      BY <2>1, <2>2
  <1>3. HostTypeOK'
    BY <1>1, <1>2 DEF HostInv, HostTypeOK, Events, netVars
  <1>4. QueuedOnce'
    BY <1>1 DEF HostInv, QueuedOnce, Members, Linked
  <1>5. NothingStranded' /\ ConnectedHold' /\ ConnectedCounted'
    BY <1>1 DEF HostInv, NothingStranded, ConnectedHold, ConnectedCounted
  <1>6. PacketsOwned' /\ EventsAreReturned' /\ DatagramOnWire'
    BY <1>1, <1>2 DEF HostInv, PacketsOwned, EventsAreReturned, DatagramOnWire, Packet, NoEvent,
                      netVars
  <1>7. RemoteMatches' /\ WireInOrder'
    BY <1>1 DEF HostInv, RemoteMatches, WireInOrder, netVars
  <1>8. GoodbyesAnswered'
    BY <1>1 DEF HostInv, GoodbyesAnswered
  <1>. QED
    BY <1>3, <1>4, <1>5, <1>6, <1>7, <1>8 DEF HostInv

(* While the queue is looked at there is no event and no datagram.            *)
LEMMA WhileDispatching ==
    ASSUME HostInv, Dispatching, dispatchQueue # <<>>
    PROVE  /\ event = NoEvent /\ sender = 0
           /\ phase \in {"enter", "dispatch"}
           /\ Head(dispatchQueue) \in Peers /\ Head(dispatchQueue) \in Members(dispatchQueue)
           /\ Tail(dispatchQueue) \in Seq(Peers) /\ Linked(Tail(dispatchQueue))
           /\ Members(Tail(dispatchQueue)) = Members(dispatchQueue) \ {Head(dispatchQueue)}
  <1>1. event = NoEvent /\ sender = 0
    BY DEF HostInv, EventsAreReturned, DatagramOnWire, Dispatching
  <1>2. dispatchQueue \in Seq(Peers) /\ Linked(dispatchQueue)
    BY DEF HostInv, HostTypeOK, QueuedOnce
  <1>. QED
    BY <1>1, <1>2, TailQueue DEF Dispatching

LEMMA ReceiveSteps ==
    ASSUME HostInv, NEW p \in Peers, DispatchReceive(p)
    PROVE  HostInv'
  <1>1. /\ event = NoEvent /\ sender = 0 /\ phase \in {"enter", "dispatch"}
        /\ p \in Members(dispatchQueue)
        /\ Tail(dispatchQueue) \in Seq(Peers) /\ Linked(Tail(dispatchQueue))
        /\ Members(Tail(dispatchQueue)) = Members(dispatchQueue) \ {p}
    BY WhileDispatching DEF DispatchReceive
  <1>2. /\ peerState[p] = "CONNECTED" /\ dispatchedCommands[p] # <<>>
        /\ event' = [type |-> "RECEIVE", peer |-> p, packet |-> Head(dispatchedCommands[p])]
        /\ dispatchedCommands' = [dispatchedCommands EXCEPT ![p] = Tail(dispatchedCommands[p])]
        /\ phase' = "returned" /\ status' = 1
        /\ UNCHANGED <<peerState, connectedPeers, livePackets, position, sender, left, netVars>>
    BY DEF DispatchReceive, Return
  <1>3. /\ dispatchedCommands \in [Peers -> Seq(Payloads)]
        /\ dispatchedCommands[p] \in Seq(Payloads)
        /\ Head(dispatchedCommands[p]) \in Payloads
        /\ Tail(dispatchedCommands[p]) \in Seq(Payloads)
        /\ Len(dispatchedCommands[p]) \in Nat \ {0}
        /\ Len(Tail(dispatchedCommands[p])) = Len(dispatchedCommands[p]) - 1
        /\ Len(dispatchedCommands[p]) > 1 <=> Tail(dispatchedCommands[p]) # <<>>
    <2>1. dispatchedCommands \in [Peers -> Seq(Payloads)] /\ dispatchedCommands[p] \in Seq(Payloads)
      BY DEF HostInv, HostTypeOK
    <2>. QED
      BY <1>2, <2>1, FirstAndRest
  <1>4. /\ dispatchQueue' \in Seq(Peers) /\ Linked(dispatchQueue')
        /\ \/ /\ Len(dispatchedCommands[p]) > 1
              /\ Members(dispatchQueue') = Members(dispatchQueue) /\ needsDispatch' = needsDispatch
           \/ /\ ~(Len(dispatchedCommands[p]) > 1)
              /\ Members(dispatchQueue') = Members(dispatchQueue) \ {p}
              /\ needsDispatch' = needsDispatch \ {p}
    <2>1. CASE Len(dispatchedCommands[p]) > 1
      <3>1. dispatchQueue' = Append(Tail(dispatchQueue), p) /\ needsDispatch' = needsDispatch
        BY <2>1 DEF DispatchReceive
      <3>2. /\ Append(Tail(dispatchQueue), p) \in Seq(Peers)
            /\ Linked(Append(Tail(dispatchQueue), p))
            /\ Members(Append(Tail(dispatchQueue), p)) = Members(Tail(dispatchQueue)) \cup {p}
        BY <1>1, AppendQueue
      <3>. QED
        BY <1>1, <2>1, <3>1, <3>2
    <2>2. CASE ~(Len(dispatchedCommands[p]) > 1)
      BY <1>1, <2>2 DEF DispatchReceive
    <2>. QED
      BY <2>1, <2>2
  <1>5. needsDispatch \subseteq Peers
    BY DEF HostInv, HostTypeOK
  <1>6. HostTypeOK'
    <2>1. event' \in Events
      BY <1>2, <1>3 DEF Events
    <2>2. needsDispatch' \subseteq Peers
      BY <1>4, <1>5
    <2>3. dispatchedCommands' \in [Peers -> Seq(Payloads)]
      BY <1>2, <1>3
    <2>. QED
      BY <1>2, <1>4, <2>1, <2>2, <2>3 DEF HostInv, HostTypeOK, netVars
  <1>7. QueuedOnce'
    BY <1>2, <1>4 DEF HostInv, QueuedOnce
  <1>8. NothingStranded'
    BY <1>2, <1>3, <1>4 DEF HostInv, NothingStranded
  <1>9. ConnectedHold' /\ ConnectedCounted'
    BY <1>2, <1>3 DEF HostInv, ConnectedHold, ConnectedCounted
  <1>10. PacketsOwned'
    <2>1. ASSUME NEW q \in Peers
          PROVE  livePackets'[q] = Len(dispatchedCommands'[q])
                                     + (IF Packet(event') /\ event'.peer = q THEN 1 ELSE 0)
      <3>1. livePackets[q] = Len(dispatchedCommands[q]) /\ Len(dispatchedCommands[q]) \in Nat
        BY <1>1, <1>3 DEF HostInv, PacketsOwned, Packet, NoEvent
      <3>2. CASE q = p
        BY <1>2, <1>3, <3>1, <3>2 DEF Packet
      <3>3. CASE q # p
        BY <1>2, <1>3, <3>1, <3>3 DEF Packet
      <3>. QED
        BY <3>2, <3>3
    <2>. QED
      BY <2>1 DEF PacketsOwned, Packet
  <1>11. EventsAreReturned' /\ DatagramOnWire'
    BY <1>1, <1>2 DEF EventsAreReturned, DatagramOnWire
  <1>12. RemoteMatches' /\ WireInOrder'
    BY <1>2 DEF HostInv, RemoteMatches, WireInOrder, netVars
  <1>13. GoodbyesAnswered'
    BY <1>2 DEF HostInv, GoodbyesAnswered
  <1>. QED
    BY <1>6, <1>7, <1>8, <1>9, <1>10, <1>11, <1>12, <1>13 DEF HostInv

LEMMA SkipSteps ==
    ASSUME HostInv, NEW p \in Peers, DispatchSkip(p)
    PROVE  HostInv'
  <1>1. /\ event = NoEvent /\ sender = 0 /\ phase \in {"enter", "dispatch"}
        /\ Tail(dispatchQueue) \in Seq(Peers) /\ Linked(Tail(dispatchQueue))
        /\ Members(Tail(dispatchQueue)) = Members(dispatchQueue) \ {p}
    BY WhileDispatching DEF DispatchSkip
  <1>2. /\ dispatchQueue' = Tail(dispatchQueue) /\ needsDispatch' = needsDispatch \ {p}
        /\ UNCHANGED <<peerState, dispatchedCommands, connectedPeers, livePackets, callVars,
                       netVars>>
        /\ peerState[p] # "ZOMBIE" /\ (peerState[p] = "CONNECTED" => dispatchedCommands[p] = <<>>)
    BY DEF DispatchSkip
  <1>3. HostTypeOK'
    BY <1>1, <1>2 DEF HostInv, HostTypeOK, callVars, netVars
  <1>4. QueuedOnce'
    BY <1>1, <1>2 DEF HostInv, QueuedOnce, callVars
  <1>5. NothingStranded' /\ ConnectedHold' /\ ConnectedCounted'
    BY <1>2 DEF HostInv, NothingStranded, ConnectedHold, ConnectedCounted
  <1>6. PacketsOwned' /\ EventsAreReturned' /\ DatagramOnWire'
    BY <1>2 DEF HostInv, PacketsOwned, EventsAreReturned, DatagramOnWire, callVars, netVars
  <1>7. RemoteMatches' /\ WireInOrder' /\ GoodbyesAnswered'
    BY <1>2 DEF HostInv, RemoteMatches, WireInOrder, GoodbyesAnswered, callVars, netVars
  <1>. QED
    BY <1>3, <1>4, <1>5, <1>6, <1>7 DEF HostInv

--------------------------------------------------------------------------------
(* Freeing a slot.                                                            *)
LEMMA Resets ==
    ASSUME HostInv, NEW p \in Peers, enet_peer_reset(p), peerState[p] # "DISCONNECTED",
           ~Packet(event)
    PROVE  /\ peerState'[p] = "DISCONNECTED"
           /\ \A q \in Peers : q # p => peerState'[q] = peerState[q]
           /\ peerState' \in [Peers -> PeerStates]
           /\ dispatchedCommands' \in [Peers -> Seq(Payloads)]
           /\ livePackets' \in [Peers -> Nat]
           /\ \A q \in Peers : livePackets'[q] = Len(dispatchedCommands'[q])
           /\ needsDispatch' = needsDispatch \ {p} /\ needsDispatch' \subseteq Peers
           /\ remote' \in [Peers -> {"absent", "connecting", "verified", "up", "gone"}]
           /\ wire' \in [Peers -> Seq(Commands)]
           /\ ConnectedCounted' /\ connectedPeers' \in 0..PeerCount
           /\ NothingStranded' /\ ConnectedHold' /\ RemoteMatches' /\ WireInOrder'
           /\ wire'[p] = <<>> /\ \A q \in Peers : q # p => wire'[q] = wire[q]
  <1>1. /\ peerState \in [Peers -> PeerStates]
        /\ dispatchedCommands \in [Peers -> Seq(Payloads)]
        /\ livePackets \in [Peers -> Nat] /\ needsDispatch \subseteq Peers
        /\ remote \in [Peers -> {"absent", "connecting", "verified", "up", "gone"}]
        /\ wire \in [Peers -> Seq(Commands)]
        /\ \A q \in Peers : livePackets[q] = Len(dispatchedCommands[q])
    BY DEF HostInv, HostTypeOK, PacketsOwned, Packet
  <1>2. /\ change_state(p, "DISCONNECTED")
        /\ peerState' = [peerState EXCEPT ![p] = "DISCONNECTED"]
        /\ dispatchedCommands' = [dispatchedCommands EXCEPT ![p] = <<>>]
        /\ livePackets' = [livePackets EXCEPT ![p] = @ - Len(dispatchedCommands[p])]
        /\ needsDispatch' = needsDispatch \ {p}
        /\ remote' = [remote EXCEPT ![p] = "absent"]
        /\ wire' = [wire EXCEPT ![p] = <<>>]
    BY DEF enet_peer_reset, change_state, DestroyDispatched
  <1>3. ConnectedCounted' /\ connectedPeers' \in 0..PeerCount
    BY <1>2, CountChange DEF HostInv, PeerStates
  <1>4. <<>> \in Seq(Payloads) /\ <<>> \in Seq(Commands) /\ Len(<<>>) = 0
    OBVIOUS
  <1>5. /\ dispatchedCommands' \in [Peers -> Seq(Payloads)]
        /\ wire' \in [Peers -> Seq(Commands)]
        /\ remote' \in [Peers -> {"absent", "connecting", "verified", "up", "gone"}]
        /\ peerState' \in [Peers -> PeerStates]
    BY <1>1, <1>2, <1>4 DEF PeerStates
  <1>6. /\ livePackets' \in [Peers -> Nat]
        /\ \A q \in Peers : livePackets'[q] = Len(dispatchedCommands'[q])
    <2>1. Len(dispatchedCommands[p]) \in Nat /\ livePackets[p] - Len(dispatchedCommands[p]) = 0
      BY <1>1
    <2>. QED
      BY <1>1, <1>2, <1>4, <2>1
  <1>7. NothingStranded'
    BY <1>1, <1>2 DEF HostInv, NothingStranded
  <1>8. ConnectedHold'
    BY <1>1, <1>2 DEF HostInv, ConnectedHold
  <1>9. RemoteMatches'
    BY <1>1, <1>2 DEF HostInv, RemoteMatches
  <1>10. WireInOrder'
    BY <1>1, <1>2, <1>4 DEF HostInv, WireInOrder
  <1>11. peerState'[p] = "DISCONNECTED" /\ \A q \in Peers : q # p => peerState'[q] = peerState[q]
    BY <1>1, <1>2
  <1>12. wire'[p] = <<>> /\ \A q \in Peers : q # p => wire'[q] = wire[q]
    BY <1>1, <1>2
  <1>. QED
    BY <1>1, <1>2, <1>3, <1>5, <1>6, <1>7, <1>8, <1>9, <1>10, <1>11, <1>12

LEMMA ZombieSteps ==
    ASSUME HostInv, NEW p \in Peers, DispatchZombie(p)
    PROVE  HostInv'
  <1>1. /\ event = NoEvent /\ sender = 0
        /\ Tail(dispatchQueue) \in Seq(Peers) /\ Linked(Tail(dispatchQueue))
        /\ Members(Tail(dispatchQueue)) = Members(dispatchQueue) \ {p}
    BY WhileDispatching DEF DispatchZombie
  <1>2. /\ peerState[p] = "ZOMBIE" /\ event' = [type |-> "DISCONNECT", peer |-> p]
        /\ dispatchQueue' = Tail(dispatchQueue) /\ enet_peer_reset(p)
        /\ phase' = "returned" /\ status' = 1 /\ UNCHANGED <<position, sender, left>>
    BY DEF DispatchZombie, Return
  <1>3. /\ peerState'[p] = "DISCONNECTED"
        /\ \A q \in Peers : q # p => peerState'[q] = peerState[q]
        /\ peerState' \in [Peers -> PeerStates]
        /\ dispatchedCommands' \in [Peers -> Seq(Payloads)]
        /\ livePackets' \in [Peers -> Nat]
        /\ \A q \in Peers : livePackets'[q] = Len(dispatchedCommands'[q])
        /\ needsDispatch' = needsDispatch \ {p} /\ needsDispatch' \subseteq Peers
        /\ remote' \in [Peers -> {"absent", "connecting", "verified", "up", "gone"}]
        /\ wire' \in [Peers -> Seq(Commands)]
        /\ ConnectedCounted' /\ connectedPeers' \in 0..PeerCount
        /\ NothingStranded' /\ ConnectedHold' /\ RemoteMatches' /\ WireInOrder'
    BY <1>1, <1>2, Resets DEF Packet, NoEvent
  <1>4. HostTypeOK'
    <2>1. event' \in Events
      BY <1>2 DEF Events
    <2>2. position' \in Nat /\ sender' \in {0} \cup Peers /\ left' \in Nat
      BY <1>2 DEF HostInv, HostTypeOK
    <2>3. dispatchQueue' \in Seq(Peers) /\ phase' = "returned" /\ status' = 1
      BY <1>1, <1>2
    <2>. QED
      BY <1>3, <2>1, <2>2, <2>3 DEF HostTypeOK
  <1>5. QueuedOnce'
    <2>1. /\ Linked(dispatchQueue') /\ needsDispatch' \subseteq Members(dispatchQueue')
          /\ Members(dispatchQueue') \ needsDispatch' \subseteq Members(dispatchQueue) \ needsDispatch
      BY <1>1, <1>2, <1>3 DEF HostInv, QueuedOnce
    <2>2. \A q \in Members(dispatchQueue') : q \in Peers /\ q # p
      <3>1. \A q \in Members(Tail(dispatchQueue)) : q \in Peers
        BY <1>1 DEF Members
      <3>. QED
        BY <1>1, <1>2, <3>1
    <2>. QED
      BY <1>2, <1>3, <2>1, <2>2 DEF HostInv, QueuedOnce
  <1>6. PacketsOwned'
    <2>1. \A q \in Peers : Len(dispatchedCommands'[q]) \in Nat
      BY <1>3
    <2>. QED
      BY <1>2, <1>3, <2>1 DEF PacketsOwned, Packet
  <1>7. EventsAreReturned' /\ DatagramOnWire' /\ GoodbyesAnswered'
    BY <1>1, <1>2 DEF EventsAreReturned, DatagramOnWire, GoodbyesAnswered
  <1>. QED
    BY <1>3, <1>4, <1>5, <1>6, <1>7 DEF HostInv

LEMMA TimeOutSteps ==
    ASSUME HostInv, NEW p \in Peers, TimeOut(p)
    PROVE  HostInv'
  <1>1. /\ phase \in {"send1", "send2"} /\ position = p /\ enet_peer_reset(p)
        /\ UNCHANGED <<dispatchQueue, sender, left>>
        /\ peerState[p] # "DISCONNECTED"
        /\ \/ /\ peerState[p] = "ACKNOWLEDGING_CONNECT" /\ position' = position + 1
              /\ UNCHANGED <<event, phase, status>>
           \/ /\ peerState[p] = "CONNECTED" /\ phase' = "returned" /\ status' = 1
              /\ event' = [type |-> "DISCONNECT", peer |-> p] /\ position' = 0
    BY DEF TimeOut, Sending, Return
  <1>2. event = NoEvent /\ sender = 0 /\ position \in Nat
    BY <1>1 DEF HostInv, HostTypeOK, EventsAreReturned, DatagramOnWire
  <1>3. /\ peerState'[p] = "DISCONNECTED"
        /\ \A q \in Peers : q # p => peerState'[q] = peerState[q]
        /\ peerState' \in [Peers -> PeerStates]
        /\ dispatchedCommands' \in [Peers -> Seq(Payloads)]
        /\ livePackets' \in [Peers -> Nat]
        /\ \A q \in Peers : livePackets'[q] = Len(dispatchedCommands'[q])
        /\ needsDispatch' = needsDispatch \ {p} /\ needsDispatch' \subseteq Peers
        /\ remote' \in [Peers -> {"absent", "connecting", "verified", "up", "gone"}]
        /\ wire' \in [Peers -> Seq(Commands)]
        /\ ConnectedCounted' /\ connectedPeers' \in 0..PeerCount
        /\ NothingStranded' /\ ConnectedHold' /\ RemoteMatches' /\ WireInOrder'
    BY <1>1, <1>2, Resets DEF Packet, NoEvent
  <1>4. HostTypeOK'
    <2>1. event' \in Events
      BY <1>1, <1>2 DEF Events
    <2>2. /\ sender' \in {0} \cup Peers /\ left' \in Nat /\ dispatchQueue' \in Seq(Peers)
          /\ status \in -1..1
      BY <1>1 DEF HostInv, HostTypeOK
    <2>3. /\ phase' \in {"returned", "send1", "send2"} /\ position' \in Nat /\ status' \in -1..1
      BY <1>1, <1>2, <2>2
    <2>. QED
      BY <1>3, <2>1, <2>2, <2>3 DEF HostTypeOK
  <1>5. QueuedOnce'
    <2>1. p \in Members(dispatchQueue) => p \in needsDispatch
      BY <1>1 DEF HostInv, QueuedOnce
    <2>2. \A q \in Members(dispatchQueue) : q \in needsDispatch
      BY <1>1 DEF HostInv, QueuedOnce
    <2>3. CASE peerState[p] = "ACKNOWLEDGING_CONNECT"
      <3>1. p \notin needsDispatch
        BY <2>3 DEF HostInv, NothingStranded, ConnectedHold
      <3>. QED
        BY <1>1, <1>3, <2>1, <2>2, <2>3, <3>1 DEF HostInv, QueuedOnce
    <2>4. CASE peerState[p] = "CONNECTED"
      <3>1. phase' = "returned"
        BY <1>1, <2>4
      <3>2. \A q \in Members(dispatchQueue) : q \in needsDispatch' \/ q = p
        BY <1>3, <2>2
      <3>3. peerState'[p] = "DISCONNECTED"
        BY <1>3
      <3>. QED
        BY <1>1, <1>3, <3>1, <3>2, <3>3 DEF HostInv, QueuedOnce
    <2>. QED
      BY <1>1, <2>3, <2>4
  <1>6. PacketsOwned'
    <2>1. ~Packet(event')
      BY <1>1, <1>2 DEF Packet, NoEvent
    <2>2. \A q \in Peers : Len(dispatchedCommands'[q]) \in Nat
      BY <1>3
    <2>. QED
      BY <1>3, <2>1, <2>2 DEF PacketsOwned, Packet
  <1>7. EventsAreReturned' /\ DatagramOnWire'
    BY <1>1, <1>2 DEF EventsAreReturned, DatagramOnWire
  <1>8. GoodbyesAnswered'
    <2>1. peerState'[p] = "DISCONNECTED" /\ \A q \in Peers : q # p => peerState'[q] = peerState[q]
      BY <1>3
    <2>2. \A q \in Peers : q < position + 1 => q = p \/ q < position
      BY <1>1 DEF Peers
    <2>. QED
      BY <1>1, <2>1, <2>2 DEF HostInv, GoodbyesAnswered
  <1>. QED
    BY <1>3, <1>4, <1>5, <1>6, <1>7, <1>8 DEF HostInv

--------------------------------------------------------------------------------
(* Flagging a peer.                                                           *)
LEMMA Flagging ==
    ASSUME HostTypeOK, QueuedOnce, NEW p \in Peers, peerState[p] # "DISCONNECTED",
           QueueForDispatch(p)
    PROVE  /\ dispatchQueue' \in Seq(Peers) /\ Linked(dispatchQueue')
           /\ Members(dispatchQueue') = Members(dispatchQueue) \cup {p}
           /\ needsDispatch' = needsDispatch \cup {p} /\ needsDispatch' \subseteq Peers
  <1>1. dispatchQueue \in Seq(Peers) /\ Linked(dispatchQueue) /\ needsDispatch \subseteq Peers
    BY DEF HostTypeOK, QueuedOnce
  <1>2. CASE p \in needsDispatch
    <2>1. dispatchQueue' = dispatchQueue /\ needsDispatch' = needsDispatch
      BY <1>2 DEF QueueForDispatch
    <2>2. p \in Members(dispatchQueue)
      BY <1>2 DEF QueuedOnce
    <2>. QED
      BY <1>1, <1>2, <2>1, <2>2
  <1>3. CASE p \notin needsDispatch
    <2>1. dispatchQueue' = Append(dispatchQueue, p) /\ needsDispatch' = needsDispatch \cup {p}
      BY <1>3 DEF QueueForDispatch
    <2>2. p \notin Members(dispatchQueue)
      BY <1>3 DEF QueuedOnce
    <2>. QED
      BY <1>1, <2>1, <2>2, AppendQueue
  <1>. QED
    BY <1>2, <1>3

LEMMA AcknowledgementSteps ==
    ASSUME HostInv, NEW p \in Peers, SendAcknowledgement(p)
    PROVE  HostInv'
  <1>1. /\ phase \in {"send1", "send2"} /\ position = p /\ position' = position + 1
        /\ peerState[p] = "ACKNOWLEDGING_DISCONNECT"
        /\ change_state(p, "ZOMBIE") /\ QueueForDispatch(p)
        /\ peerState' = [peerState EXCEPT ![p] = "ZOMBIE"]
        /\ UNCHANGED <<dispatchedCommands, livePackets, event, phase, sender, left, status,
                       netVars>>
    BY DEF SendAcknowledgement, Sending, change_state
  <1>2. /\ peerState \in [Peers -> PeerStates] /\ position \in Nat
        /\ sender = 0 /\ event = NoEvent
    BY <1>1 DEF HostInv, HostTypeOK, EventsAreReturned, DatagramOnWire
  <1>3. /\ dispatchQueue' \in Seq(Peers) /\ Linked(dispatchQueue')
        /\ Members(dispatchQueue') = Members(dispatchQueue) \cup {p}
        /\ needsDispatch' = needsDispatch \cup {p} /\ needsDispatch' \subseteq Peers
    BY <1>1, Flagging DEF HostInv
  <1>4. /\ peerState'[p] = "ZOMBIE" /\ \A q \in Peers : q # p => peerState'[q] = peerState[q]
        /\ peerState' \in [Peers -> PeerStates]
    BY <1>1, <1>2 DEF PeerStates
  <1>5. ConnectedCounted' /\ connectedPeers' \in 0..PeerCount
    BY <1>1, CountChange DEF HostInv, PeerStates
  <1>6. HostTypeOK'
    BY <1>1, <1>2, <1>3, <1>4, <1>5 DEF HostInv, HostTypeOK, netVars
  <1>7. QueuedOnce'
    <2>1. \A q \in Members(dispatchQueue) : q \in needsDispatch
      BY <1>1 DEF HostInv, QueuedOnce
    <2>2. needsDispatch \subseteq Members(dispatchQueue)
      BY DEF HostInv, QueuedOnce
    <2>. QED
      BY <1>3, <2>1, <2>2 DEF QueuedOnce
  <1>8. NothingStranded'
    BY <1>1, <1>3, <1>4 DEF HostInv, NothingStranded
  <1>9. ConnectedHold'
    BY <1>1, <1>4 DEF HostInv, ConnectedHold
  <1>10. PacketsOwned' /\ EventsAreReturned' /\ DatagramOnWire'
    BY <1>1, <1>2 DEF HostInv, PacketsOwned, EventsAreReturned, DatagramOnWire, netVars, NoEvent
  <1>11. RemoteMatches'
    BY <1>1, <1>4 DEF HostInv, RemoteMatches, netVars
  <1>12. WireInOrder'
    BY <1>1, <1>4 DEF HostInv, WireInOrder, netVars
  <1>13. GoodbyesAnswered'
    <2>1. \A q \in Peers : q < position + 1 => q = p \/ q < position
      BY <1>1, <1>2 DEF Peers
    <2>. QED
      BY <1>1, <1>4, <2>1 DEF HostInv, GoodbyesAnswered
  <1>. QED
    BY <1>5, <1>6, <1>7, <1>8, <1>9, <1>10, <1>11, <1>12, <1>13 DEF HostInv

--------------------------------------------------------------------------------
(* The commands of a datagram.                                               *)

(* Taking the first command off the wire.                                     *)
LEMMA Consumes ==
    ASSUME HostInv, NEW p \in Peers, NEW types, Reading(p, types), Consume(p)
    PROVE  /\ phase = "receive" /\ sender = p /\ left > 0 /\ left' = left - 1
           /\ UNCHANGED <<phase, position, sender, status>>
           /\ left' \in Nat /\ wire' \in [Peers -> Seq(Commands)]
           /\ Head(wire[p]) = wire[p][1] /\ Head(wire[p]) \in Commands
           /\ Len(wire[p]) \in Nat \ {0} /\ Len(wire'[p]) = Len(wire[p]) - 1
           /\ \A i \in 1..(Len(wire[p]) - 1) : wire'[p][i] = wire[p][i + 1]
           /\ \A q \in Peers : q # p => wire'[q] = wire[q]
           /\ DatagramOnWire'
           /\ \A i \in 1..Len(wire'[p]) : wire'[p][i].type # "acknowledge"
           /\ \A i \in 1..Len(wire'[p]) :
                 wire'[p][i].type \in Goodbyes => i = Len(wire'[p]) /\ remote[p] = "gone"
  <1>1. /\ phase = "receive" /\ sender = p /\ left > 0 /\ left' = left - 1
        /\ UNCHANGED <<phase, position, sender, status>>
        /\ wire' = [wire EXCEPT ![p] = Tail(wire[p])]
    BY DEF Reading, Consume
  <1>2. left \in Nat /\ wire \in [Peers -> Seq(Commands)] /\ wire[p] \in Seq(Commands)
        /\ left <= Len(wire[p]) /\ Len(wire[p]) \in Nat /\ p # 0
    BY <1>1 DEF HostInv, HostTypeOK, DatagramOnWire, Peers
  <1>3. wire[p] # <<>>
    BY <1>1, <1>2
  <1>4. /\ Head(wire[p]) = wire[p][1] /\ Head(wire[p]) \in Commands
        /\ Tail(wire[p]) \in Seq(Commands)
        /\ Len(wire[p]) \in Nat \ {0} /\ Len(Tail(wire[p])) = Len(wire[p]) - 1
        /\ \A i \in 1..(Len(wire[p]) - 1) : Tail(wire[p])[i] = wire[p][i + 1]
    BY <1>2, <1>3, FirstAndRest
  <1>5. /\ wire' \in [Peers -> Seq(Commands)] /\ wire'[p] = Tail(wire[p])
        /\ \A q \in Peers : q # p => wire'[q] = wire[q]
    BY <1>1, <1>2, <1>4
  <1>6. left' \in Nat /\ left' <= Len(wire'[p])
    BY <1>1, <1>2, <1>4, <1>5
  <1>7. DatagramOnWire'
    BY <1>1, <1>6 DEF DatagramOnWire
  <1>8. ASSUME NEW i \in 1..Len(wire'[p])
        PROVE  /\ wire'[p][i].type # "acknowledge"
               /\ wire'[p][i].type \in Goodbyes => i = Len(wire'[p]) /\ remote[p] = "gone"
    <2>1. i + 1 \in 1..Len(wire[p]) /\ i + 1 # 1 /\ wire'[p][i] = wire[p][i + 1]
      BY <1>4, <1>5
    <2>2. /\ wire[p][i + 1].type = "acknowledge" => i + 1 = 1
          /\ wire[p][i + 1].type \in Goodbyes => i + 1 = Len(wire[p]) /\ remote[p] = "gone"
      BY <2>1 DEF HostInv, WireInOrder
    <2>. QED
      BY <1>4, <1>5, <2>1, <2>2
  <1>. QED
    BY <1>1, <1>4, <1>5, <1>6, <1>7, <1>8

LEMMA HandshakeSteps ==
    ASSUME HostInv, NEW p \in Peers, HandleAcknowledge(p)
    PROVE  HostInv'
  <1>1. /\ phase = "receive" /\ sender = p /\ left' \in Nat
        /\ UNCHANGED <<phase, position, sender, status>>
        /\ wire' \in [Peers -> Seq(Commands)] /\ DatagramOnWire'
        /\ \A q \in Peers : q # p => wire'[q] = wire[q]
        /\ \A i \in 1..Len(wire'[p]) : wire'[p][i].type # "acknowledge"
        /\ \A i \in 1..Len(wire'[p]) :
              wire'[p][i].type \in Goodbyes => i = Len(wire'[p]) /\ remote[p] = "gone"
        /\ Len(wire[p]) \in Nat \ {0}
    BY Consumes DEF HandleAcknowledge
  <1>2. /\ peerState[p] = "ACKNOWLEDGING_CONNECT" /\ peerState \in [Peers -> PeerStates]
        /\ change_state(p, "CONNECTED") /\ peerState' = [peerState EXCEPT ![p] = "CONNECTED"]
        /\ event' = [type |-> "CONNECT", peer |-> p]
        /\ UNCHANGED <<dispatchedCommands, dispatchQueue, needsDispatch, livePackets, remote>>
    BY DEF HostInv, HostTypeOK, HandleAcknowledge, change_state
  <1>3. /\ peerState'[p] = "CONNECTED" /\ \A q \in Peers : q # p => peerState'[q] = peerState[q]
        /\ peerState' \in [Peers -> PeerStates]
    BY <1>2 DEF PeerStates
  <1>4. ConnectedCounted' /\ connectedPeers' \in 0..PeerCount
    BY <1>2, CountChange DEF HostInv, PeerStates
  <1>5. HostTypeOK'
    <2>1. event' \in Events
      BY <1>2 DEF Events
    <2>. QED
      BY <1>1, <1>2, <1>3, <1>4, <2>1 DEF HostInv, HostTypeOK
  <1>6. p \notin needsDispatch /\ dispatchedCommands[p] = <<>>
    BY <1>2 DEF HostInv, NothingStranded, ConnectedHold
  <1>7. QueuedOnce'
    BY <1>1, <1>2 DEF HostInv, QueuedOnce
  <1>8. NothingStranded' /\ ConnectedHold'
    BY <1>2, <1>3, <1>6 DEF HostInv, NothingStranded, ConnectedHold
  <1>9. PacketsOwned'
    <2>1. ~Packet(event)
      BY <1>1 DEF HostInv, EventsAreReturned, Packet, NoEvent
    <2>. QED
      BY <1>2, <2>1 DEF HostInv, PacketsOwned, Packet
  <1>10. EventsAreReturned'
    BY <1>1, <1>2, <1>3 DEF EventsAreReturned, Peers
  <1>11. RemoteMatches'
    <2>1. wire[p] # <<>>
      BY <1>1
    <2>2. remote[p] \in {"up", "gone"}
      BY <1>2, <2>1 DEF HostInv, HostTypeOK, RemoteMatches
    <2>. QED
      BY <1>1, <1>2, <1>3, <2>2 DEF HostInv, RemoteMatches
  <1>12. WireInOrder'
    BY <1>1, <1>2, <1>3 DEF HostInv, WireInOrder
  <1>13. GoodbyesAnswered'
    BY <1>1 DEF GoodbyesAnswered
  <1>. QED
    BY <1>1, <1>4, <1>5, <1>7, <1>8, <1>9, <1>10, <1>11, <1>12, <1>13 DEF HostInv

LEMMA DataSteps ==
    ASSUME HostInv, NEW p \in Peers, HandleSendReliable(p)
    PROVE  HostInv'
  <1>1. /\ phase = "receive" /\ sender = p /\ left' \in Nat
        /\ UNCHANGED <<phase, position, sender, status>>
        /\ wire' \in [Peers -> Seq(Commands)] /\ DatagramOnWire'
        /\ Head(wire[p]) \in Commands
        /\ \A q \in Peers : q # p => wire'[q] = wire[q]
        /\ \A i \in 1..Len(wire'[p]) : wire'[p][i].type # "acknowledge"
        /\ \A i \in 1..Len(wire'[p]) :
              wire'[p][i].type \in Goodbyes => i = Len(wire'[p]) /\ remote[p] = "gone"
    BY Consumes DEF HandleSendReliable
  <1>. DEFINE packet == Head(wire[p]).packet
  <1>2. packet \in Payloads
    BY <1>1 DEF HandleSendReliable, Reading, Commands, Goodbyes
  <1>3. /\ peerState[p] = "CONNECTED"
        /\ livePackets' = [livePackets EXCEPT ![p] = @ + 1]
        /\ dispatchedCommands' = [dispatchedCommands EXCEPT ![p] = Append(@, packet)]
        /\ QueueForDispatch(p)
        /\ UNCHANGED <<peerState, connectedPeers, event, remote>>
        /\ dispatchedCommands \in [Peers -> Seq(Payloads)]
        /\ dispatchedCommands[p] \in Seq(Payloads) /\ livePackets \in [Peers -> Nat]
    BY DEF HostInv, HostTypeOK, HandleSendReliable, QueueIncoming
  <1>. HIDE DEF packet
  <1>4. /\ dispatchQueue' \in Seq(Peers) /\ Linked(dispatchQueue')
        /\ Members(dispatchQueue') = Members(dispatchQueue) \cup {p}
        /\ needsDispatch' = needsDispatch \cup {p} /\ needsDispatch' \subseteq Peers
    BY <1>3, Flagging DEF HostInv
  <1>5. /\ dispatchedCommands' \in [Peers -> Seq(Payloads)]
        /\ Len(dispatchedCommands'[p]) = Len(dispatchedCommands[p]) + 1
        /\ Len(dispatchedCommands[p]) \in Nat /\ dispatchedCommands'[p] # <<>>
        /\ \A q \in Peers : q # p => dispatchedCommands'[q] = dispatchedCommands[q]
    <2>1. /\ Append(dispatchedCommands[p], packet) \in Seq(Payloads)
          /\ Len(Append(dispatchedCommands[p], packet)) = Len(dispatchedCommands[p]) + 1
          /\ Len(dispatchedCommands[p]) \in Nat
      BY <1>2, <1>3
    <2>2. Append(dispatchedCommands[p], packet) # <<>>
      BY <1>2, <1>3
    <2>. QED
      BY <1>3, <2>1, <2>2
  <1>6. /\ livePackets' \in [Peers -> Nat] /\ livePackets'[p] = livePackets[p] + 1
        /\ \A q \in Peers : q # p => livePackets'[q] = livePackets[q]
    BY <1>3
  <1>7. HostTypeOK'
    BY <1>1, <1>3, <1>4, <1>5, <1>6 DEF HostInv, HostTypeOK
  <1>8. QueuedOnce'
    <2>1. \A q \in Members(dispatchQueue) : q \in needsDispatch
      BY <1>1 DEF HostInv, QueuedOnce
    <2>2. needsDispatch \subseteq Members(dispatchQueue)
      BY DEF HostInv, QueuedOnce
    <2>. QED
      BY <1>4, <2>1, <2>2 DEF QueuedOnce
  <1>9. NothingStranded' /\ ConnectedHold'
    BY <1>3, <1>4, <1>5 DEF HostInv, NothingStranded, ConnectedHold
  <1>10. ConnectedCounted'
    BY <1>3 DEF HostInv, ConnectedCounted
  <1>11. PacketsOwned'
    <2>1. ~Packet(event)
      BY <1>1 DEF HostInv, EventsAreReturned, Packet, NoEvent
    <2>. QED
      BY <1>3, <1>5, <1>6, <2>1 DEF HostInv, PacketsOwned, Packet
  <1>12. EventsAreReturned'
    BY <1>1, <1>3 DEF HostInv, EventsAreReturned
  <1>13. RemoteMatches'
    BY <1>1, <1>3 DEF HostInv, RemoteMatches
  <1>14. WireInOrder'
    <2>1. WireInOrder /\ remote' = remote /\ peerState' = peerState
      BY <1>3 DEF HostInv
    <2>2. ASSUME NEW q \in Peers, NEW i \in 1..Len(wire'[q])
          PROVE  /\ wire'[q][i].type = "acknowledge" =>
                       i = 1 /\ peerState'[q] = "ACKNOWLEDGING_CONNECT"
                 /\ wire'[q][i].type \in Goodbyes => i = Len(wire'[q]) /\ remote'[q] = "gone"
      <3>1. CASE q = p
        BY <1>1, <2>1, <2>2, <3>1
      <3>2. CASE q # p
        <4>1. i \in 1..Len(wire[q]) /\ wire'[q] = wire[q]
          BY <1>1, <2>2, <3>2
        <4>. QED
          BY <2>1, <3>2, <4>1 DEF WireInOrder
      <3>. QED
        BY <3>1, <3>2
    <2>. QED
      BY <2>2 DEF WireInOrder
  <1>15. GoodbyesAnswered'
    BY <1>1 DEF GoodbyesAnswered
  <1>. QED
    BY <1>1, <1>7, <1>8, <1>9, <1>10, <1>11, <1>12, <1>13, <1>14, <1>15 DEF HostInv

LEMMA GoodbyeSteps ==
    ASSUME HostInv, NEW p \in Peers, HandleDisconnect(p)
    PROVE  HostInv'
  <1>1. /\ phase = "receive" /\ sender = p /\ left > 0 /\ event' = event
        /\ Head(wire[p]).type \in Goodbyes /\ p # 0
    BY DEF HandleDisconnect, Reading, Peers
  <1>2. /\ ~Packet(event) /\ peerState \in [Peers -> PeerStates]
        /\ wire \in [Peers -> Seq(Commands)]
    BY <1>1 DEF HostInv, HostTypeOK, EventsAreReturned, Packet, NoEvent
  <1>3. CASE peerState[p] = "ACKNOWLEDGING_CONNECT"
    <2>1. /\ enet_peer_reset(p) /\ left' = 0
          /\ UNCHANGED <<dispatchQueue, phase, position, sender, status>>
      BY <1>3 DEF HandleDisconnect
    <2>2. /\ peerState'[p] = "DISCONNECTED"
          /\ \A q \in Peers : q # p => peerState'[q] = peerState[q]
          /\ peerState' \in [Peers -> PeerStates]
          /\ dispatchedCommands' \in [Peers -> Seq(Payloads)]
          /\ livePackets' \in [Peers -> Nat]
          /\ \A q \in Peers : livePackets'[q] = Len(dispatchedCommands'[q])
          /\ needsDispatch' = needsDispatch \ {p} /\ needsDispatch' \subseteq Peers
          /\ remote' \in [Peers -> {"absent", "connecting", "verified", "up", "gone"}]
          /\ wire' \in [Peers -> Seq(Commands)] /\ wire'[p] = <<>>
          /\ ConnectedCounted' /\ connectedPeers' \in 0..PeerCount
          /\ NothingStranded' /\ ConnectedHold' /\ RemoteMatches' /\ WireInOrder'
      BY <1>2, <1>3, <2>1, Resets
    <2>3. HostTypeOK'
      <3>1. /\ event \in Events /\ dispatchQueue \in Seq(Peers) /\ position \in Nat
            /\ sender \in {0} \cup Peers /\ status \in -1..1
        BY DEF HostInv, HostTypeOK
      <3>. QED
        BY <1>1, <2>1, <2>2, <3>1 DEF HostTypeOK
    <2>4. QueuedOnce'
      <3>1. p \notin needsDispatch
        BY <1>3 DEF HostInv, NothingStranded, ConnectedHold
      <3>2. needsDispatch' = needsDispatch
        BY <2>2, <3>1
      <3>3. \A q \in Members(dispatchQueue) : q \in needsDispatch
        BY <1>1 DEF HostInv, QueuedOnce
      <3>. QED
        BY <2>1, <3>2, <3>3 DEF HostInv, QueuedOnce
    <2>5. PacketsOwned'
      <3>1. \A q \in Peers : Len(dispatchedCommands'[q]) \in Nat
        BY <2>2
      <3>. QED
        BY <1>1, <1>2, <2>2, <3>1 DEF PacketsOwned, Packet
    <2>6. EventsAreReturned'
      BY <1>1, <1>3 DEF HostInv, EventsAreReturned, NoEvent
    <2>7. DatagramOnWire'
      BY <1>1, <2>1, <2>2 DEF DatagramOnWire
    <2>8. GoodbyesAnswered'
      BY <1>1, <2>1 DEF GoodbyesAnswered
    <2>. QED
      BY <2>2, <2>3, <2>4, <2>5, <2>6, <2>7, <2>8 DEF HostInv
  <1>4. CASE peerState[p] = "CONNECTED"
    <2>. DEFINE state == IF Head(wire[p]).type = "disconnect"
                         THEN "ACKNOWLEDGING_DISCONNECT" ELSE "ZOMBIE"
    <2>1. /\ DestroyDispatched(p) /\ Consume(p) /\ remote' = remote
          /\ change_state(p, state) /\ Reading(p, Goodbyes)
      BY <1>4 DEF HandleDisconnect
    <2>2. state \in {"ACKNOWLEDGING_DISCONNECT", "ZOMBIE"} /\ state \in PeerStates
      BY DEF PeerStates
    <2>3. /\ Unqueued(p) \in Seq(Peers) /\ Linked(Unqueued(p))
          /\ Members(Unqueued(p)) = Members(dispatchQueue) \ {p}
      BY <1>4, UnqueuedIs DEF HostInv
    <2>4. /\ dispatchQueue' \in Seq(Peers) /\ Linked(dispatchQueue')
          /\ \/ /\ state = "ACKNOWLEDGING_DISCONNECT"
                /\ Members(dispatchQueue') = Members(dispatchQueue) \ {p}
                /\ needsDispatch' = needsDispatch \ {p}
             \/ /\ state = "ZOMBIE"
                /\ Members(dispatchQueue') = Members(dispatchQueue) \cup {p}
                /\ needsDispatch' = needsDispatch \cup {p}
      <3>1. CASE Head(wire[p]).type = "disconnect"
        BY <1>4, <2>3, <3>1 DEF HandleDisconnect
      <3>2. CASE Head(wire[p]).type # "disconnect"
        <4>1. /\ dispatchQueue' = Append(Unqueued(p), p)
              /\ needsDispatch' = needsDispatch \cup {p}
          BY <1>4, <3>2 DEF HandleDisconnect
        <4>2. /\ Append(Unqueued(p), p) \in Seq(Peers) /\ Linked(Append(Unqueued(p), p))
              /\ Members(Append(Unqueued(p), p)) = Members(Unqueued(p)) \cup {p}
          BY <2>3, AppendQueue
        <4>. QED
          BY <2>3, <3>2, <4>1, <4>2
      <3>. QED
        BY <3>1, <3>2
    <2>. HIDE DEF state
    <2>5. /\ phase = "receive" /\ sender = p /\ left' \in Nat
          /\ UNCHANGED <<phase, position, sender, status>>
          /\ wire' \in [Peers -> Seq(Commands)] /\ DatagramOnWire'
          /\ \A q \in Peers : q # p => wire'[q] = wire[q]
          /\ Len(wire[p]) \in Nat \ {0} /\ Head(wire[p]) = wire[p][1]
          /\ \A i \in 1..Len(wire'[p]) : wire'[p][i].type # "acknowledge"
          /\ \A i \in 1..Len(wire'[p]) :
                wire'[p][i].type \in Goodbyes => i = Len(wire'[p]) /\ remote[p] = "gone"
      BY <2>1, Consumes
    <2>6. remote[p] = "gone"
      BY <1>1, <2>5 DEF HostInv, WireInOrder
    <2>7. /\ peerState'[p] = state /\ \A q \in Peers : q # p => peerState'[q] = peerState[q]
          /\ peerState' \in [Peers -> PeerStates]
      BY <1>2, <2>1, <2>2 DEF change_state
    <2>8. ConnectedCounted' /\ connectedPeers' \in 0..PeerCount
      BY <2>1, <2>2, CountChange DEF HostInv
    <2>9. /\ dispatchedCommands' \in [Peers -> Seq(Payloads)] /\ dispatchedCommands'[p] = <<>>
          /\ \A q \in Peers : q # p => dispatchedCommands'[q] = dispatchedCommands[q]
          /\ livePackets' \in [Peers -> Nat]
          /\ \A q \in Peers : livePackets'[q] = Len(dispatchedCommands'[q])
      <3>1. /\ dispatchedCommands' = [dispatchedCommands EXCEPT ![p] = <<>>]
            /\ livePackets' = [livePackets EXCEPT ![p] = @ - Len(dispatchedCommands[p])]
        BY <2>1 DEF DestroyDispatched
      <3>2. /\ dispatchedCommands \in [Peers -> Seq(Payloads)] /\ livePackets \in [Peers -> Nat]
            /\ \A q \in Peers : livePackets[q] = Len(dispatchedCommands[q])
        BY <1>2 DEF HostInv, HostTypeOK, PacketsOwned
      <3>3. <<>> \in Seq(Payloads) /\ Len(<<>>) = 0
        OBVIOUS
      <3>4. Len(dispatchedCommands[p]) \in Nat /\ livePackets[p] - Len(dispatchedCommands[p]) = 0
        BY <3>2
      <3>. QED
        BY <3>1, <3>2, <3>3, <3>4
    <2>10. HostTypeOK'
      <3>1. /\ event \in Events /\ position \in Nat /\ sender \in {0} \cup Peers
            /\ status \in -1..1 /\ needsDispatch \subseteq Peers
            /\ remote \in [Peers -> {"absent", "connecting", "verified", "up", "gone"}]
        BY DEF HostInv, HostTypeOK
      <3>2. needsDispatch' \subseteq Peers
        BY <2>4, <3>1
      <3>. QED
        BY <1>1, <2>1, <2>4, <2>5, <2>7, <2>8, <2>9, <3>1, <3>2 DEF HostTypeOK
    <2>11. QueuedOnce'
      <3>1. /\ \A q \in Members(dispatchQueue) : q \in needsDispatch
            /\ needsDispatch \subseteq Members(dispatchQueue)
        BY <1>1 DEF HostInv, QueuedOnce
      <3>. QED
        BY <2>4, <3>1 DEF QueuedOnce
    <2>12. NothingStranded' /\ ConnectedHold'
      BY <1>4, <2>4, <2>7, <2>9 DEF HostInv, NothingStranded, ConnectedHold
    <2>13. PacketsOwned'
      <3>1. \A q \in Peers : Len(dispatchedCommands'[q]) \in Nat
        BY <2>9
      <3>. QED
        BY <1>1, <1>2, <2>9, <3>1 DEF PacketsOwned, Packet
    <2>14. EventsAreReturned'
      BY <1>1, <2>2, <2>5, <2>7 DEF HostInv, EventsAreReturned
    <2>15. RemoteMatches'
      BY <1>4, <2>1, <2>2, <2>5, <2>6, <2>7 DEF HostInv, RemoteMatches
    <2>16. WireInOrder'
      <3>1. ASSUME NEW q \in Peers, q # p
            PROVE  wire'[q] = wire[q] /\ peerState'[q] = peerState[q] /\ remote'[q] = remote[q]
        BY <2>1, <2>5, <2>7, <3>1
      <3>2. WireInOrder /\ remote'[p] = remote[p]
        BY <2>1 DEF HostInv
      <3>3. ASSUME NEW q \in Peers, NEW i \in 1..Len(wire'[q])
            PROVE  /\ wire'[q][i].type = "acknowledge" =>
                         i = 1 /\ peerState'[q] = "ACKNOWLEDGING_CONNECT"
                   /\ wire'[q][i].type \in Goodbyes => i = Len(wire'[q]) /\ remote'[q] = "gone"
        <4>1. CASE q = p
          BY <2>5, <3>2, <3>3, <4>1
        <4>2. CASE q # p
          <5>1. i \in 1..Len(wire[q]) /\ wire'[q] = wire[q]
            BY <3>1, <3>3, <4>2
          <5>. QED
            BY <3>1, <3>2, <4>2, <5>1 DEF WireInOrder
        <4>. QED
          BY <4>1, <4>2
      <3>. QED
        BY <3>3 DEF WireInOrder
    <2>17. GoodbyesAnswered'
      BY <1>1, <2>5 DEF GoodbyesAnswered
    <2>. QED
      BY <2>5, <2>8, <2>10, <2>11, <2>12, <2>13, <2>14, <2>15, <2>16, <2>17 DEF HostInv
  <1>. QED
    BY <1>3, <1>4 DEF HandleDisconnect

--------------------------------------------------------------------------------
(* A host that has just been started.                                        *)
LEMMA Started ==
    ASSUME HostInit
    PROVE  HostInv
  <1>1. Cardinality({p \in Peers : peerState[p] = "CONNECTED"}) = 0
    <2>1. {p \in Peers : peerState[p] = "CONNECTED"} = {}
      BY DEF HostInit
    <2>. QED
      BY <2>1, FS_EmptySet
  <1>2. <<>> \in Seq(Payloads) /\ <<>> \in Seq(Peers) /\ <<>> \in Seq(Commands) /\ Len(<<>>) = 0
    OBVIOUS
  <1>3. HostTypeOK
    <2>1. 0 \in 0..PeerCount
      BY HostAssumption
    <2>. QED
      BY <1>2, <2>1 DEF HostInit, HostTypeOK, PeerStates, Events
  <1>4. QueuedOnce
    BY <1>2 DEF HostInit, QueuedOnce, Linked, Members
  <1>5. NothingStranded /\ ConnectedHold
    BY DEF HostInit, NothingStranded, ConnectedHold
  <1>6. ConnectedCounted
    BY <1>1 DEF HostInit, ConnectedCounted
  <1>7. PacketsOwned /\ EventsAreReturned /\ DatagramOnWire
    BY <1>2 DEF HostInit, PacketsOwned, EventsAreReturned, DatagramOnWire, Packet, NoEvent
  <1>8. RemoteMatches /\ WireInOrder /\ GoodbyesAnswered
    BY <1>2 DEF HostInit, RemoteMatches, WireInOrder, GoodbyesAnswered
  <1>. QED
    BY <1>3, <1>4, <1>5, <1>6, <1>7, <1>8 DEF HostInv

LEMMA Restarts ==
    ASSUME HostRestart
    PROVE  HostInv'
  <1>1. Cardinality({p \in Peers : peerState'[p] = "CONNECTED"}) = 0
    <2>1. {p \in Peers : peerState'[p] = "CONNECTED"} = {}
      BY DEF HostRestart
    <2>. QED
      BY <2>1, FS_EmptySet
  <1>2. <<>> \in Seq(Payloads) /\ <<>> \in Seq(Peers) /\ <<>> \in Seq(Commands) /\ Len(<<>>) = 0
    OBVIOUS
  <1>3. HostTypeOK'
    <2>1. 0 \in 0..PeerCount
      BY HostAssumption
    <2>. QED
      BY <1>2, <2>1 DEF HostRestart, HostTypeOK, PeerStates, Events
  <1>4. QueuedOnce'
    BY <1>2 DEF HostRestart, QueuedOnce, Linked, Members
  <1>5. NothingStranded' /\ ConnectedHold'
    BY DEF HostRestart, NothingStranded, ConnectedHold
  <1>6. ConnectedCounted'
    BY <1>1 DEF HostRestart, ConnectedCounted
  <1>7. PacketsOwned' /\ EventsAreReturned' /\ DatagramOnWire'
    BY <1>2 DEF HostRestart, PacketsOwned, EventsAreReturned, DatagramOnWire, Packet, NoEvent
  <1>8. RemoteMatches' /\ WireInOrder' /\ GoodbyesAnswered'
    BY <1>2 DEF HostRestart, RemoteMatches, WireInOrder, GoodbyesAnswered
  <1>. QED
    BY <1>3, <1>4, <1>5, <1>6, <1>7, <1>8 DEF HostInv

--------------------------------------------------------------------------------
LEMMA HostSteps ==
    ASSUME HostInv, [HostNext]_enetVars
    PROVE  HostInv'
  <1>1. CASE UNCHANGED enetVars
    <2>1. /\ UNCHANGED hostVars /\ UNCHANGED callVars /\ UNCHANGED netVars
          /\ GoodbyesAnswered'
      BY <1>1 DEF enetVars, hostVars, callVars, netVars, HostInv, GoodbyesAnswered
    <2>2. /\ DatagramOnWire' /\ RemoteMatches' /\ WireInOrder'
          /\ remote' \in [Peers -> {"absent", "connecting", "verified", "up", "gone"}]
          /\ wire' \in [Peers -> Seq(Commands)]
      BY <2>1 DEF HostInv, HostTypeOK, DatagramOnWire, RemoteMatches, WireInOrder, hostVars,
                  callVars, netVars
    <2>. QED
      BY <2>1, <2>2, NetMoves
  <1>2. CASE Service
    BY <1>2, ServiceSteps
  <1>3. CASE DispatchDone \/ SendDone \/ EndDatagram \/ ReceiveDone \/ Wait \/ Fail
    BY <1>3, CallSteps
  <1>4. ASSUME NEW p \in Peers,
               DispatchReceive(p) \/ DispatchZombie(p) \/ DispatchSkip(p)
        PROVE  HostInv'
    BY <1>4, ReceiveSteps, ZombieSteps, SkipSteps
  <1>5. ASSUME NEW p \in Peers,
               SendAcknowledgement(p) \/ SendVerifyConnect(p) \/ TimeOut(p) \/ SendNothing(p)
        PROVE  HostInv'
    BY <1>5, AcknowledgementSteps, VerifySteps, TimeOutSteps, CallSteps
  <1>6. ASSUME NEW p \in Peers,
               \/ ReceiveConnect(p) \/ ReceiveDatagram(p)
               \/ HandleAcknowledge(p) \/ HandleSendReliable(p) \/ RefuseData(p)
               \/ HandleDisconnect(p)
        PROVE  HostInv'
    BY <1>6, ConnectSteps, CallSteps, HandshakeSteps, DataSteps, GoodbyeSteps
  <1>7. ASSUME NEW p \in Peers, RemoteAcknowledge(p) \/ RemoteLeave(p)
        PROVE  HostInv'
    BY <1>7, RemoteAcknowledges, RemoteLeaves
  <1>8. ASSUME NEW p \in Peers, NEW m \in Payloads, RemoteSend(p, m)
        PROVE  HostInv'
    BY <1>8, RemoteSends
  <1>9. CASE HostRestart
    BY <1>9, Restarts
  <1>. QED
    BY <1>1, <1>2, <1>3, <1>4, <1>5, <1>6, <1>7, <1>8, <1>9
       DEF HostNext, HostStep, Dispatch, SendOutgoing, ReceiveIncoming, RemoteStep

(* The host is well formed at every step of every call, however many peers      *)
(* there are, whatever they send and whenever they leave.                    *)
THEOREM HostInvariant == HostSpec => []HostInv
  <1>1. HostInit => HostInv
    BY Started
  <1>2. HostInv /\ [HostNext]_enetVars => HostInv'
    BY HostSteps
  <1>. QED
    BY <1>1, <1>2, PTL DEF HostSpec

--------------------------------------------------------------------------------
(* Between the last look at the queue and the wait nothing is queued: the phase    *)
(* is reached with an empty queue, and no other step of the host is taken in it.   *)
LEMMA AsleepSteps ==
    ASSUME HostInv, NeverSleepsOnWork, [HostNext]_enetVars
    PROVE  NeverSleepsOnWork'
  <1>1. CASE phase = "wait" /\ UNCHANGED hostVars
    BY <1>1 DEF NeverSleepsOnWork, hostVars
  <1>2. CASE DispatchDone
    <2>1. SUFFICES ASSUME NEW p \in Peers
                   PROVE  dispatchedCommands[p] = <<>> /\ peerState[p] # "ZOMBIE"
                          /\ (phase = "dispatch" => peerState[p] # "ACKNOWLEDGING_DISCONNECT")
      BY <1>2 DEF DispatchDone, Dispatching, NeverSleepsOnWork, hostVars
    <2>2. needsDispatch = {}
      <3>1. dispatchQueue = <<>> /\ Len(<<>>) = 0
        BY <1>2 DEF DispatchDone
      <3>. QED
        BY <3>1 DEF HostInv, QueuedOnce, Members
    <2>. QED
      BY <2>2 DEF HostInv, NothingStranded, GoodbyesAnswered
  <1>3. CASE phase' # "wait"
    BY <1>3 DEF NeverSleepsOnWork
  <1>4. CASE UNCHANGED enetVars
    BY <1>4 DEF NeverSleepsOnWork, enetVars, hostVars, callVars
  <1>5. ASSUME HostNext, ~DispatchDone, phase' = "wait"
        PROVE  phase = "wait" /\ UNCHANGED hostVars
    <2>1. ~Service /\ ~SendDone /\ ~EndDatagram /\ ~ReceiveDone /\ ~Wait /\ ~Fail /\ ~HostRestart
      BY <1>5 DEF Service, SendDone, EndDatagram, ReceiveDone, Wait, Fail, HostRestart, Return
    <2>2. ASSUME NEW p \in Peers
          PROVE  ~DispatchReceive(p) /\ ~DispatchZombie(p) /\ ~DispatchSkip(p)
      BY <1>5 DEF DispatchReceive, DispatchZombie, DispatchSkip, Dispatching, Return, callVars
    <2>3. ASSUME NEW p \in Peers
          PROVE  /\ ~SendAcknowledgement(p) /\ ~SendVerifyConnect(p) /\ ~TimeOut(p)
                 /\ ~SendNothing(p)
      BY <1>5 DEF SendAcknowledgement, SendVerifyConnect, TimeOut, SendNothing, Sending, Return
    <2>4. ASSUME NEW p \in Peers
          PROVE  /\ ~ReceiveConnect(p) /\ ~ReceiveDatagram(p) /\ ~HandleAcknowledge(p)
                 /\ ~HandleSendReliable(p) /\ ~RefuseData(p) /\ ~HandleDisconnect(p)
      BY <1>5 DEF ReceiveConnect, ReceiveDatagram, NextDatagram, HandleAcknowledge,
                  HandleSendReliable, RefuseData, HandleDisconnect, Reading, Consume
    <2>5. RemoteStep
      BY <1>5, <2>1, <2>2, <2>3, <2>4 DEF HostNext, HostStep, Dispatch, SendOutgoing, ReceiveIncoming
    <2>. QED
      BY <1>5, <2>5 DEF RemoteStep, RemoteAcknowledge, RemoteLeave, RemoteSend, callVars
  <1>. QED
    BY <1>1, <1>2, <1>3, <1>4, <1>5

(* The thread does not wait for the socket while it has something to report or      *)
(* to answer.                                                               *)
THEOREM NeverSleeps == HostSpec => []NeverSleepsOnWork
  <1>1. HostInit => NeverSleepsOnWork
    BY DEF HostInit, NeverSleepsOnWork
  <1>2. HostInv /\ NeverSleepsOnWork /\ [HostNext]_enetVars => NeverSleepsOnWork'
    BY AsleepSteps
  <1>. QED
    BY <1>1, <1>2, HostInvariant, PTL DEF HostSpec


--------------------------------------------------------------------------------
(* The queue is served in turn.                                              *)

(* A flagged peer's place is the only index that holds it.                    *)
LEMMA PlaceIs ==
    ASSUME HostTypeOK, QueuedOnce, NEW p \in Peers, p \in needsDispatch
    PROVE  /\ Place(p) \in 1..Len(dispatchQueue) /\ dispatchQueue[Place(p)] = p
           /\ \A i \in 1..Len(dispatchQueue) : dispatchQueue[i] = p => i = Place(p)
  <1>1. \E i \in 1..Len(dispatchQueue) : dispatchQueue[i] = p
    BY DEF QueuedOnce, Members
  <1>2. Place(p) \in 1..Len(dispatchQueue) /\ dispatchQueue[Place(p)] = p
    BY <1>1 DEF Place
  <1>. QED
    BY <1>2 DEF QueuedOnce, Linked

(* What p may find in the step: its turn, or a place no worse.                 *)
KeepsItsTurn(p) ==
    /\ p \in needsDispatch'
    /\ Place(p)' <= (IF Packet(event') /\ event # event' THEN Place(p) - 1 ELSE Place(p))

LEMMA TurnKept ==
    ASSUME HostInv, HostInv', NEW p \in Peers, p \in needsDispatch, p \in needsDispatch',
           NEW i \in 1..Len(dispatchQueue'), dispatchQueue'[i] = p,
           i <= Place(p), Packet(event') /\ event # event' => i <= Place(p) - 1
    PROVE  KeepsItsTurn(p)
  <1>1. \A j \in 1..Len(dispatchQueue') : dispatchQueue'[j] = p => j = i
    BY DEF HostInv, QueuedOnce, Linked
  <1>2. Place(p)' = i
    BY <1>1 DEF Place
  <1>. QED
    BY <1>2 DEF KeepsItsTurn


(* Steps that leave the queue alone.                                         *)
LEMMA QueueUntouched ==
    ASSUME HostInv, HostInv', NEW p \in Peers, p \in needsDispatch,
           UNCHANGED <<dispatchQueue, needsDispatch>>,
           Packet(event') => event' = event
    PROVE  KeepsItsTurn(p)
  <1>1. Place(p) \in 1..Len(dispatchQueue) /\ dispatchQueue[Place(p)] = p
    BY PlaceIs DEF HostInv
  <1>2. Place(p) \in Int
    BY <1>1
  <1>. QED
    BY <1>1, <1>2, TurnKept

(* Steps that add a peer at the end.                                         *)
LEMMA QueueLonger ==
    ASSUME HostInv, HostInv', NEW p \in Peers, p \in needsDispatch, p \in needsDispatch',
           NEW q, dispatchQueue' = Append(dispatchQueue, q),
           Packet(event') => event' = event
    PROVE  KeepsItsTurn(p)
  <1>1. Place(p) \in 1..Len(dispatchQueue) /\ dispatchQueue[Place(p)] = p
    BY PlaceIs DEF HostInv
  <1>2. dispatchQueue \in Seq(Peers)
    BY DEF HostInv, HostTypeOK
  <1>3. Place(p) \in 1..Len(dispatchQueue') /\ dispatchQueue'[Place(p)] = p
    BY <1>1, <1>2
  <1>. QED
    BY <1>1, <1>3, TurnKept

(* Steps that take the first peer: the others move up by one.                  *)
LEMMA QueueServed ==
    ASSUME HostInv, HostInv', NEW p \in Peers, p \in needsDispatch, p \in needsDispatch',
           dispatchQueue # <<>>, p # Head(dispatchQueue),
           NEW q, dispatchQueue' \in {Tail(dispatchQueue), Append(Tail(dispatchQueue), q)}
    PROVE  KeepsItsTurn(p)
  <1>1. Place(p) \in 1..Len(dispatchQueue) /\ dispatchQueue[Place(p)] = p
    BY PlaceIs DEF HostInv
  <1>2. dispatchQueue \in Seq(Peers)
    BY DEF HostInv, HostTypeOK
  <1>3. /\ Head(dispatchQueue) = dispatchQueue[1] /\ Tail(dispatchQueue) \in Seq(Peers)
        /\ Len(Tail(dispatchQueue)) = Len(dispatchQueue) - 1
        /\ \A i \in 1..(Len(dispatchQueue) - 1) : Tail(dispatchQueue)[i] = dispatchQueue[i + 1]
    BY <1>2, FirstAndRest
  <1>4. Place(p) # 1 /\ Place(p) - 1 \in 1..(Len(dispatchQueue) - 1)
    BY <1>1, <1>2, <1>3
  <1>5. Tail(dispatchQueue)[Place(p) - 1] = p
    <2>1. (Place(p) - 1) + 1 = Place(p)
      BY <1>1
    <2>. QED
      BY <1>1, <1>3, <1>4, <2>1
  <1>6. /\ Place(p) - 1 \in 1..Len(dispatchQueue') /\ dispatchQueue'[Place(p) - 1] = p
    <2>1. CASE dispatchQueue' = Tail(dispatchQueue)
      BY <1>3, <1>4, <1>5, <2>1
    <2>2. CASE dispatchQueue' = Append(Tail(dispatchQueue), q)
      BY <1>3, <1>4, <1>5, <2>2
    <2>. QED
      BY <2>1, <2>2
  <1>7. Place(p) - 1 <= Place(p)
    BY <1>1
  <1>. QED
    BY <1>1, <1>6, <1>7, TurnKept

(* Steps that take out another peer, wherever it is, and may queue it again.      *)
LEMMA QueueShorter ==
    ASSUME HostInv, HostInv', NEW p \in Peers, p \in needsDispatch, p \in needsDispatch',
           NEW q \in Peers, q # p, peerState[q] # "DISCONNECTED",
           dispatchQueue' \in {Unqueued(q), Append(Unqueued(q), q)},
           event' = event
    PROVE  KeepsItsTurn(p)
  <1>1. Place(p) \in 1..Len(dispatchQueue) /\ dispatchQueue[Place(p)] = p
    BY PlaceIs DEF HostInv
  <1>2. PICK i \in 1..Len(Unqueued(q)) : Unqueued(q)[i] = p /\ i <= Place(p)
    <2>1. CASE q \notin needsDispatch
      BY <1>1, <2>1 DEF Unqueued
    <2>2. CASE q \in needsDispatch
      <3>1. /\ Place(q) \in 1..Len(dispatchQueue) /\ dispatchQueue[Place(q)] = q
            /\ dispatchQueue \in Seq(Peers) /\ Len(dispatchQueue) \in Nat
        BY <2>2, PlaceIs DEF HostInv, HostTypeOK
      <3>2. Unqueued(q) = Without(dispatchQueue, Place(q))
        BY <2>2 DEF Unqueued, Without
      <3>3. /\ Len(Unqueued(q)) = Len(dispatchQueue) - 1
            /\ \A i \in 1..(Len(dispatchQueue) - 1) :
                 Unqueued(q)[i] = IF i < Place(q) THEN dispatchQueue[i]
                                  ELSE dispatchQueue[i + 1]
        BY <3>1, <3>2, WithoutIs
      <3>4. Place(p) # Place(q)
        BY <1>1, <3>1
      <3>5. CASE Place(p) < Place(q)
        <4>1. Place(p) \in 1..(Len(dispatchQueue) - 1) /\ Place(p) <= Place(p)
          BY <1>1, <3>1, <3>5
        <4>. QED
          BY <1>1, <3>3, <3>5, <4>1
      <3>6. CASE Place(p) > Place(q)
        <4>1. /\ Place(p) - 1 \in 1..(Len(dispatchQueue) - 1) /\ (Place(p) - 1) + 1 = Place(p)
              /\ ~(Place(p) - 1 < Place(q)) /\ Place(p) - 1 <= Place(p)
          BY <1>1, <3>1, <3>6
        <4>. QED
          BY <1>1, <3>3, <4>1
      <3>. QED
        BY <1>1, <3>1, <3>4, <3>5, <3>6
    <2>. QED
      BY <2>1, <2>2
  <1>3. i \in 1..Len(dispatchQueue') /\ dispatchQueue'[i] = p
    <2>1. Unqueued(q) \in Seq(Peers)
      BY UnqueuedIs DEF HostInv
    <2>. QED
      BY <1>2, <2>1
  <1>. QED
    BY <1>2, <1>3, TurnKept


LEMMA DispatchTurns ==
    ASSUME HostInv, HostInv', NEW p \in Peers, p \in needsDispatch,
           peerState[p] = "CONNECTED", peerState'[p] = "CONNECTED", NEW q \in Peers,
           DispatchReceive(q) \/ DispatchZombie(q) \/ DispatchSkip(q)
    PROVE  (Packet(event') /\ event'.peer = p) \/ KeepsItsTurn(p)
  <1>1. dispatchQueue # <<>> /\ q = Head(dispatchQueue)
    BY DEF DispatchReceive, DispatchZombie, DispatchSkip
  <1>2. CASE q = p
    <2>1. dispatchedCommands[p] # <<>>
      BY DEF HostInv, NothingStranded
    <2>2. DispatchReceive(p)
      BY <1>2, <2>1 DEF DispatchZombie, DispatchSkip
    <2>. QED
      BY <2>2 DEF DispatchReceive, Packet
  <1>3. CASE q # p
    <2>1. p \in needsDispatch'
      <3>1. needsDispatch' \in {needsDispatch, needsDispatch \ {q}}
        BY DEF DispatchReceive, DispatchZombie, DispatchSkip, enet_peer_reset
      <3>. QED
        BY <1>3, <3>1
    <2>2. dispatchQueue' \in {Tail(dispatchQueue), Append(Tail(dispatchQueue), q)}
      BY DEF DispatchReceive, DispatchZombie, DispatchSkip
    <2>3. dispatchQueue # <<>> /\ p # Head(dispatchQueue)
      BY <1>1, <1>3
    <2>4. KeepsItsTurn(p)
      BY <2>1, <2>2, <2>3, QueueServed
    <2>. QED
      BY <2>4
  <1>. QED
    BY <1>2, <1>3

LEMMA SendTurns ==
    ASSUME HostInv, HostInv', NEW p \in Peers, p \in needsDispatch,
           peerState[p] = "CONNECTED", peerState'[p] = "CONNECTED", NEW q \in Peers,
           SendAcknowledgement(q) \/ SendVerifyConnect(q) \/ TimeOut(q) \/ SendNothing(q)
    PROVE  KeepsItsTurn(p)
  <1>1. Packet(event') => event' = event
    BY DEF SendAcknowledgement, SendVerifyConnect, TimeOut, SendNothing, Packet
  <1>2. CASE SendAcknowledgement(q)
    <2>1. q \notin needsDispatch \/ UNCHANGED <<dispatchQueue, needsDispatch>>
      BY <1>2 DEF SendAcknowledgement, QueueForDispatch
    <2>2. CASE UNCHANGED <<dispatchQueue, needsDispatch>>
      BY <1>1, <2>2, QueueUntouched
    <2>3. CASE q \notin needsDispatch
      BY <1>1, <1>2, <2>3, QueueLonger DEF SendAcknowledgement, QueueForDispatch
    <2>. QED
      BY <2>1, <2>2, <2>3
  <1>3. CASE SendVerifyConnect(q) \/ SendNothing(q)
    BY <1>1, <1>3, QueueUntouched DEF SendVerifyConnect, SendNothing, hostVars
  <1>4. CASE TimeOut(q)
    <2>1. q # p
      BY <1>4 DEF TimeOut, enet_peer_reset, change_state, HostInv, HostTypeOK
    <2>2. p \in needsDispatch' /\ dispatchQueue' = dispatchQueue
      BY <1>4, <2>1 DEF TimeOut, enet_peer_reset
    <2>3. Place(p) \in 1..Len(dispatchQueue) /\ dispatchQueue[Place(p)] = p
      BY PlaceIs DEF HostInv
    <2>4. event' = event \/ ~Packet(event')
      BY <1>1
    <2>5. Place(p) <= Place(p)
      BY <2>3
    <2>. QED
      BY <2>2, <2>3, <2>4, <2>5, TurnKept
  <1>. QED
    BY <1>2, <1>3, <1>4

LEMMA ReceiveTurns ==
    ASSUME HostInv, HostInv', NEW p \in Peers, p \in needsDispatch,
           peerState[p] = "CONNECTED", peerState'[p] = "CONNECTED", NEW q \in Peers,
           \/ ReceiveConnect(q) \/ ReceiveDatagram(q)
           \/ HandleAcknowledge(q) \/ HandleSendReliable(q) \/ RefuseData(q)
           \/ HandleDisconnect(q)
    PROVE  KeepsItsTurn(p)
  <1>1. Packet(event') => event' = event
    BY DEF ReceiveConnect, ReceiveDatagram, HandleAcknowledge, HandleSendReliable, RefuseData,
           HandleDisconnect, Packet
  <1>2. CASE ReceiveConnect(q) \/ ReceiveDatagram(q) \/ HandleAcknowledge(q) \/ RefuseData(q)
    BY <1>1, <1>2, QueueUntouched
       DEF ReceiveConnect, ReceiveDatagram, HandleAcknowledge, RefuseData, hostVars
  <1>3. CASE HandleSendReliable(q)
    <2>1. CASE q \in needsDispatch
      BY <1>1, <1>3, <2>1, QueueUntouched DEF HandleSendReliable, QueueIncoming, QueueForDispatch
    <2>2. CASE q \notin needsDispatch
      BY <1>1, <1>3, <2>2, QueueLonger DEF HandleSendReliable, QueueIncoming, QueueForDispatch
    <2>. QED
      BY <2>1, <2>2
  <1>4. CASE HandleDisconnect(q)
    <2>1. q # p
      BY <1>4 DEF HandleDisconnect, enet_peer_reset, change_state, HostInv, HostTypeOK
    <2>2. p \in needsDispatch' /\ event' = event
      BY <1>4, <2>1 DEF HandleDisconnect, enet_peer_reset
    <2>3. CASE peerState[q] = "CONNECTED"
      <3>1. dispatchQueue' \in {Unqueued(q), Append(Unqueued(q), q)}
        BY <1>4, <2>3 DEF HandleDisconnect
      <3>. QED
        BY <2>1, <2>2, <2>3, <3>1, QueueShorter
    <2>4. CASE peerState[q] # "CONNECTED"
      <3>1. dispatchQueue' = dispatchQueue
        BY <1>4, <2>4 DEF HandleDisconnect
      <3>2. Place(p) \in 1..Len(dispatchQueue) /\ dispatchQueue[Place(p)] = p
        BY PlaceIs DEF HostInv
      <3>3. Place(p) <= Place(p)
        BY <3>2
      <3>. QED
        BY <2>2, <3>1, <3>2, <3>3, TurnKept
    <2>. QED
      BY <2>3, <2>4
  <1>. QED
    BY <1>2, <1>3, <1>4

LEMMA TurnSteps ==
    ASSUME HostInv, HostInv', [HostNext]_enetVars, NEW p \in Peers
    PROVE  ServedInTurn(p)
  <1>. SUFFICES ASSUME p \in needsDispatch, peerState[p] = "CONNECTED",
                       peerState'[p] = "CONNECTED"
                PROVE  (Packet(event') /\ event'.peer = p) \/ KeepsItsTurn(p)
    BY DEF ServedInTurn, KeepsItsTurn
  <1>1. CASE UNCHANGED enetVars
    BY <1>1, QueueUntouched DEF enetVars, hostVars, callVars
  <1>2. CASE Service
    BY <1>2, QueueUntouched DEF Service, NoEvent, Packet
  <1>3. CASE DispatchDone \/ SendDone \/ EndDatagram \/ ReceiveDone \/ Wait \/ Fail
    BY <1>3, QueueUntouched
       DEF DispatchDone, SendDone, EndDatagram, ReceiveDone, Wait, Fail, hostVars
  <1>4. ASSUME NEW q \in Peers, NEW m \in Payloads,
               RemoteAcknowledge(q) \/ RemoteLeave(q) \/ RemoteSend(q, m)
        PROVE  KeepsItsTurn(p)
    BY <1>4, QueueUntouched DEF RemoteAcknowledge, RemoteLeave, RemoteSend, hostVars, callVars
  <1>5. CASE HostRestart
    BY <1>5 DEF HostRestart
  <1>6. ASSUME NEW q \in Peers, RemoteAcknowledge(q) \/ RemoteLeave(q)
        PROVE  KeepsItsTurn(p)
    BY <1>6, QueueUntouched DEF RemoteAcknowledge, RemoteLeave, hostVars, callVars
  <1>. QED
    BY <1>1, <1>2, <1>3, <1>4, <1>5, <1>6, DispatchTurns, SendTurns, ReceiveTurns
       DEF HostNext, HostStep, Dispatch, SendOutgoing, ReceiveIncoming, RemoteStep

(* A connected peer with packets waiting is never overtaken: it is served, keeps its *)
(* place, or moves up when another is served.                                 *)
THEOREM QueueServedInTurn == HostSpec => QueueIsFair
  <1>1. HostInv /\ HostInv' /\ [HostNext]_enetVars => [\A p \in Peers : ServedInTurn(p)]_enetVars
    BY TurnSteps
  <1>. QED
    BY <1>1, HostInvariant, PTL DEF HostSpec, QueueIsFair
--------------------------------------------------------------------------------
(* EnetHost implements LinkEvents.                                           *)

(* What a slot is to the program.                                            *)
LEMMA LinkIs ==
    ASSUME NEW p \in Peers
    PROVE  /\ LinkOf[p] = "closed" <=> peerState[p] = "DISCONNECTED"
           /\ LinkOf[p] = "opening" <=> peerState[p] = "ACKNOWLEDGING_CONNECT"
           /\ LinkOf[p] = "open" <=>
                 peerState[p] \notin {"DISCONNECTED", "ACKNOWLEDGING_CONNECT"}
  BY DEF LinkOf

--------------------------------------------------------------------------------
(* The packets among the commands.                                           *)
InOrder(commands) ==
    \A i \in 1..Len(commands) :
        /\ commands[i].type = "acknowledge" => i = 1
        /\ commands[i].type \in Goodbyes => i = Len(commands)

LEMMA Kinds ==
    ASSUME NEW command \in Commands
    PROVE  /\ command.type \in {"acknowledge", "send_reliable"} \cup Goodbyes
           /\ command.type = "send_reliable" => command.packet \in Payloads
           /\ "acknowledge" \notin Goodbyes /\ "send_reliable" \notin Goodbyes
  BY DEF Commands, Goodbyes

LEMMA Between ==
    ASSUME NEW commands \in Seq(Commands), InOrder(commands)
    PROVE  /\ Len(commands) \in Nat
           /\ Front(commands) \in 0..1 /\ Rear(commands) \in Nat
           /\ Front(commands) <= Rear(commands) /\ Rear(commands) <= Len(commands)
  <1>1. CASE commands = <<>>
    <2>1. Len(commands) = 0 /\ Front(commands) = 0 /\ Rear(commands) = Len(commands)
      BY <1>1 DEF Front, Rear
    <2>. QED
      BY <2>1
  <1>2. CASE commands # <<>>
    <2>1. Len(commands) \in Nat \ {0} /\ Len(commands) \in 1..Len(commands)
          /\ commands[Len(commands)] \in Commands
      BY <1>2
    <2>2. CASE Len(commands) = 1
      <3>1. commands[1] \in Commands
        BY <2>1, <2>2
      <3>2. ~(commands[1].type = "acknowledge" /\ commands[1].type \in Goodbyes)
        BY <3>1, Kinds
      <3>3. /\ Front(commands) = IF commands[1].type = "acknowledge" THEN 1 ELSE 0
            /\ Rear(commands) = IF commands[1].type \in Goodbyes THEN 0 ELSE 1
        BY <1>2, <2>2 DEF Front, Rear
      <3>4. \/ Front(commands) = 1 /\ Rear(commands) = 1
            \/ Front(commands) = 0 /\ Rear(commands) \in {0, 1}
        BY <3>2, <3>3
      <3>. QED
        BY <2>2, <3>4
    <2>3. CASE Len(commands) # 1
      <3>. DEFINE n == Len(commands)
      <3>1. /\ Front(commands) = 0 \/ Front(commands) = 1
            /\ Rear(commands) = n - 1 \/ Rear(commands) = n
        BY <1>2 DEF Front, Rear
      <3>2. n \in Nat /\ n >= 2
        <4>1. n \in Nat \ {0} /\ n # 1
          BY <2>1, <2>3
        <4>. HIDE DEF n
        <4>. QED
          BY <4>1
      <3>. HIDE DEF n
      <3>3. /\ n \in Nat /\ Front(commands) \in 0..1 /\ Rear(commands) \in Nat
            /\ Front(commands) <= Rear(commands) /\ Rear(commands) <= n
        BY <3>1, <3>2
      <3>. QED
        BY <3>3 DEF n
    <2>. QED
      BY <2>2, <2>3
  <1>. QED
    BY <1>1, <1>2

LEMMA SentIs ==
    ASSUME NEW commands \in Seq(Commands), InOrder(commands)
    PROVE  /\ Sent(commands) \in Seq(Payloads)
           /\ Len(Sent(commands)) = Rear(commands) - Front(commands)
           /\ \A i \in 1..(Rear(commands) - Front(commands)) :
                 Sent(commands)[i] = commands[i + Front(commands)].packet
  <1>. DEFINE n == Rear(commands) - Front(commands)
  <1>1. /\ Len(commands) \in Nat
        /\ Front(commands) \in 0..1 /\ Rear(commands) \in Nat
        /\ n \in Nat /\ Rear(commands) <= Len(commands)
    BY Between
  <1>2. ASSUME NEW i \in 1..n PROVE commands[i + Front(commands)].packet \in Payloads
    <2>. DEFINE j == i + Front(commands)
    <2>1. j \in 1..Rear(commands) /\ j \in 1..Len(commands) /\ commands # <<>>
      BY <1>1
    <2>2. commands[j] \in Commands
      BY <2>1
    <2>3. commands[j].type # "acknowledge"
      <3>1. CASE Front(commands) = 1
        BY <1>1, <2>1, <3>1 DEF InOrder
      <3>2. CASE Front(commands) = 0
        <4>1. commands[1].type # "acknowledge"
          BY <2>1, <3>2 DEF Front
        <4>. QED
          BY <2>1, <4>1 DEF InOrder
      <3>. QED
        BY <1>1, <3>1, <3>2
    <2>4. commands[j].type \notin Goodbyes
      <3>1. CASE commands[j].type \in Goodbyes
        <4>1. j = Len(commands)
          BY <2>1, <3>1 DEF InOrder
        <4>2. Rear(commands) = Len(commands) - 1
          BY <2>1, <3>1, <4>1 DEF Rear
        <4>. QED
          BY <1>1, <2>1, <4>1, <4>2
      <3>. QED
        BY <3>1
    <2>. QED
      BY <2>2, <2>3, <2>4, Kinds
  <1>3. Sent(commands) = [i \in 1..n |-> commands[i + Front(commands)].packet]
    BY DEF Sent
  <1>. HIDE DEF n
  <1>4. Sent(commands) \in Seq(Payloads) /\ Len(Sent(commands)) = n
    BY <1>1, <1>2, <1>3
  <1>. QED
    BY <1>3, <1>4 DEF n

LEMMA NoneSent == Sent(<<>>) = <<>>
  <1>1. <<>> \in Seq(Commands) /\ InOrder(<<>>)
    BY DEF InOrder
  <1>2. Len(Sent(<<>>)) = 0 /\ Sent(<<>>) \in Seq(Payloads)
    <2>1. Front(<<>>) = 0 /\ Rear(<<>>) = 0
      BY DEF Front, Rear
    <2>2. /\ Sent(<<>>) \in Seq(Payloads)
          /\ Len(Sent(<<>>)) = Rear(<<>>) - Front(<<>>)
      BY <1>1, SentIs
    <2>. QED
      BY <2>1, <2>2
  <1>. QED
    BY <1>2

(* Two sequences with the same elements.                                     *)
LEMMA SameChannel ==
    ASSUME NEW S, NEW s \in Seq(S), NEW t \in Seq(S), Len(s) = Len(t),
           \A i \in 1..Len(s) : s[i] = t[i]
    PROVE  s = t
  BY SeqEqual

(* The first command is taken off.                                           *)
LEMMA FirstTaken ==
    ASSUME NEW commands \in Seq(Commands), InOrder(commands), commands # <<>>
    PROVE  /\ Tail(commands) \in Seq(Commands) /\ InOrder(Tail(commands))
           /\ Front(Tail(commands)) = 0
           /\ commands[1].type \notin Goodbyes => Rear(Tail(commands)) = Rear(commands) - 1
           /\ commands[1].type \in Goodbyes => Tail(commands) = <<>>
           /\ \A i \in 1..(Len(commands) - 1) : Tail(commands)[i] = commands[i + 1]
           /\ Len(commands) \in Nat \ {0} /\ Len(Tail(commands)) = Len(commands) - 1
           /\ commands[1] \in Commands /\ commands[1] = Head(commands)
  <1>. DEFINE rest == Tail(commands)
  <1>1. /\ Head(commands) = commands[1] /\ commands[1] \in Commands /\ rest \in Seq(Commands)
        /\ Len(commands) \in Nat \ {0} /\ Len(rest) = Len(commands) - 1
        /\ \A i \in 1..(Len(commands) - 1) : rest[i] = commands[i + 1]
        /\ Len(commands) > 1 <=> rest # <<>>
    BY FirstAndRest
  <1>. HIDE DEF rest
  <1>2. \A i \in 1..Len(rest) : i + 1 \in 1..Len(commands) /\ i + 1 # 1
    BY <1>1
  <1>3. /\ InOrder(rest) /\ \A i \in 1..Len(rest) : rest[i].type # "acknowledge"
    <2>1. ASSUME NEW i \in 1..Len(rest)
          PROVE  /\ rest[i].type # "acknowledge"
                 /\ rest[i].type \in Goodbyes => i = Len(rest)
      <3>1. rest[i] = commands[i + 1]
        BY <1>1
      <3>2. /\ commands[i + 1].type = "acknowledge" => i + 1 = 1
            /\ commands[i + 1].type \in Goodbyes => i + 1 = Len(commands)
        BY <1>2 DEF InOrder
      <3>. QED
        BY <1>1, <1>2, <3>1, <3>2
    <2>. QED
      BY <2>1 DEF InOrder
  <1>4. Front(rest) = 0
    <2>1. rest # <<>> => 1 \in 1..Len(rest)
      BY <1>1
    <2>. QED
      BY <1>3, <2>1 DEF Front
  <1>5. commands[1].type \notin Goodbyes => Rear(rest) = Rear(commands) - 1
    <2>1. CASE rest = <<>>
      <3>1. Len(commands) = 1 /\ Len(rest) = 0
        BY <1>1, <2>1
      <3>. QED
        BY <2>1, <3>1 DEF Rear
    <2>2. CASE rest # <<>>
      <3>1. rest[Len(rest)] = commands[Len(commands)]
        BY <1>1, <2>2
      <3>. QED
        BY <1>1, <2>2, <3>1 DEF Rear
    <2>. QED
      BY <2>1, <2>2
  <1>6. commands[1].type \in Goodbyes => rest = <<>>
    <2>1. 1 \in 1..Len(commands)
      BY <1>1
    <2>. QED
      BY <1>1, <2>1 DEF InOrder
  <1>. QED
    BY <1>1, <1>3, <1>4, <1>5, <1>6 DEF rest

LEMMA AcknowledgementTaken ==
    ASSUME NEW commands \in Seq(Commands), InOrder(commands), commands # <<>>,
           Head(commands).type = "acknowledge"
    PROVE  Sent(Tail(commands)) = Sent(commands)
  <1>. DEFINE rest == Tail(commands)
              n == Rear(commands) - 1
  <1>1. commands[1].type = "acknowledge" /\ commands[1].type \notin Goodbyes
    BY FirstTaken, Kinds
  <1>2. /\ rest \in Seq(Commands) /\ InOrder(rest) /\ Front(rest) = 0 /\ Rear(rest) = n
        /\ \A i \in 1..(Len(commands) - 1) : rest[i] = commands[i + 1]
    BY <1>1, FirstTaken
  <1>3. /\ Front(commands) = 1 /\ n \in Nat /\ n <= Len(commands) - 1 /\ Len(commands) \in Nat
    BY <1>1, Between DEF Front
  <1>. HIDE DEF rest, n
  <1>4. /\ Sent(commands) \in Seq(Payloads) /\ Len(Sent(commands)) = n
        /\ \A i \in 1..n : Sent(commands)[i] = commands[i + 1].packet
    BY <1>3, SentIs DEF n
  <1>5. /\ Sent(rest) \in Seq(Payloads) /\ Len(Sent(rest)) = n
        /\ \A i \in 1..n : Sent(rest)[i] = rest[i].packet
    <2>1. n - 0 = n /\ \A i \in 1..n : i + 0 = i
      BY <1>3
    <2>. QED
      BY <1>2, <2>1, SentIs
  <1>6. \A i \in 1..n : rest[i] = commands[i + 1]
    BY <1>2, <1>3
  <1>7. \A i \in 1..Len(Sent(rest)) : Sent(rest)[i] = Sent(commands)[i]
    BY <1>4, <1>5, <1>6
  <1>8. Sent(rest) = Sent(commands)
    BY <1>4, <1>5, <1>7, SameChannel
  <1>. QED
    BY <1>8 DEF rest

LEMMA PacketTaken ==
    ASSUME NEW commands \in Seq(Commands), InOrder(commands), commands # <<>>,
           Head(commands).type = "send_reliable", NEW waiting \in Seq(Payloads)
    PROVE  Append(waiting, Head(commands).packet) \o Sent(Tail(commands))
             = waiting \o Sent(commands)
  <1>. DEFINE rest == Tail(commands)
              n == Rear(commands)
              packet == Head(commands).packet
  <1>1. /\ commands[1].type = "send_reliable" /\ commands[1].type \notin Goodbyes
        /\ packet = commands[1].packet /\ packet \in Payloads /\ Len(commands) \in Nat \ {0}
    BY FirstTaken, Kinds
  <1>2. /\ rest \in Seq(Commands) /\ InOrder(rest) /\ Front(rest) = 0 /\ Rear(rest) = n - 1
        /\ \A i \in 1..(Len(commands) - 1) : rest[i] = commands[i + 1]
    BY <1>1, FirstTaken
  <1>3. /\ Front(commands) = 0 /\ n \in Nat \ {0} /\ n <= Len(commands)
    <2>1. Front(commands) = 0
      BY <1>1 DEF Front
    <2>2. n \in Nat /\ n <= Len(commands)
      BY Between
    <2>3. n - 1 \in Nat
      BY <1>2, Between
    <2>. QED
      BY <2>1, <2>2, <2>3
  <1>. HIDE DEF rest, n, packet
  <1>4. /\ Sent(commands) \in Seq(Payloads) /\ Len(Sent(commands)) = n
        /\ \A i \in 1..n : Sent(commands)[i] = commands[i].packet
    <2>1. n - 0 = n /\ \A i \in 1..n : i + 0 = i
      BY <1>3
    <2>. QED
      BY <1>3, <2>1, SentIs DEF n
  <1>5. /\ Sent(rest) \in Seq(Payloads) /\ Len(Sent(rest)) = n - 1
        /\ \A i \in 1..(n - 1) : Sent(rest)[i] = rest[i].packet
    <2>1. (n - 1) - 0 = n - 1 /\ \A i \in 1..(n - 1) : i + 0 = i
      BY <1>3
    <2>. QED
      BY <1>2, <2>1, SentIs
  <1>6. /\ Append(waiting, packet) \in Seq(Payloads)
        /\ Len(Append(waiting, packet)) = Len(waiting) + 1 /\ Len(waiting) \in Nat
        /\ \A i \in 1..(Len(waiting) + 1) :
              Append(waiting, packet)[i] = IF i <= Len(waiting) THEN waiting[i] ELSE packet
    BY <1>1
  <1>. DEFINE after == Append(waiting, packet) \o Sent(rest)
              before == waiting \o Sent(commands)
  <1>7. /\ after \in Seq(Payloads) /\ Len(after) = Len(waiting) + 1 + (n - 1)
        /\ \A i \in 1..(Len(waiting) + 1 + (n - 1)) :
              after[i] = IF i <= Len(waiting) + 1 THEN Append(waiting, packet)[i]
                         ELSE Sent(rest)[i - (Len(waiting) + 1)]
    <2>1. /\ after \in Seq(Payloads)
          /\ Len(after) = Len(Append(waiting, packet)) + Len(Sent(rest))
          /\ \A i \in 1..(Len(Append(waiting, packet)) + Len(Sent(rest))) :
                after[i] = IF i <= Len(Append(waiting, packet)) THEN Append(waiting, packet)[i]
                           ELSE Sent(rest)[i - Len(Append(waiting, packet))]
      BY <1>5, <1>6, ConcatProperties
    <2>2. Len(Append(waiting, packet)) = Len(waiting) + 1 /\ Len(Sent(rest)) = n - 1
      BY <1>5, <1>6
    <2>. HIDE DEF after
    <2>. QED
      BY <2>1, <2>2, Zenon
  <1>8. /\ before \in Seq(Payloads) /\ Len(before) = Len(waiting) + n
        /\ \A i \in 1..(Len(waiting) + n) :
              before[i] = IF i <= Len(waiting) THEN waiting[i]
                          ELSE Sent(commands)[i - Len(waiting)]
    BY <1>4, ConcatProperties
  <1>. HIDE DEF after, before
  <1>9. Len(after) = Len(waiting) + n
    BY <1>3, <1>6, <1>7
  <1>10. ASSUME NEW i \in 1..(Len(waiting) + n)
         PROVE  after[i] = before[i]
    <2>1. i \in 1..(Len(waiting) + 1 + (n - 1))
      BY <1>3, <1>6
    <2>2. CASE i <= Len(waiting)
      BY <1>6, <1>7, <1>8, <2>1, <2>2
    <2>3. CASE i = Len(waiting) + 1
      <3>1. after[i] = packet
        BY <1>6, <1>7, <2>1, <2>3
      <3>2. before[i] = Sent(commands)[1]
        BY <1>6, <1>8, <2>3
      <3>3. Sent(commands)[1] = packet
        BY <1>1, <1>3, <1>4
      <3>. QED
        BY <3>1, <3>2, <3>3
    <2>4. CASE i > Len(waiting) + 1
      <3>. DEFINE j == i - (Len(waiting) + 1)
      <3>1. j \in 1..(n - 1) /\ j + 1 = i - Len(waiting) /\ j + 1 \in 1..n
        BY <1>3, <1>6, <2>4
      <3>2. after[i] = rest[j].packet
        BY <1>5, <1>6, <1>7, <2>1, <2>4, <3>1
      <3>3. before[i] = commands[j + 1].packet
        BY <1>4, <1>6, <1>8, <2>4, <3>1
      <3>4. rest[j] = commands[j + 1]
        BY <1>1, <1>2, <1>3, <3>1
      <3>. QED
        BY <3>2, <3>3, <3>4
    <2>. QED
      BY <1>6, <2>2, <2>3, <2>4
  <1>11. after = before
    BY <1>7, <1>8, <1>9, <1>10, SameChannel
  <1>. QED
    BY <1>11 DEF after, before, rest, packet

(* A packet is sent.                                                         *)
LEMMA PacketSent ==
    ASSUME NEW commands \in Seq(Commands), InOrder(commands),
           \A i \in 1..Len(commands) : commands[i].type \notin Goodbyes,
           NEW m \in Payloads, NEW waiting \in Seq(Payloads)
    PROVE  waiting \o Sent(Append(commands, [type |-> "send_reliable", packet |-> m]))
             = Append(waiting \o Sent(commands), m)
  <1>. DEFINE sent == [type |-> "send_reliable", packet |-> m]
              more == Append(commands, sent)
              n == Len(commands)
              f == Front(commands)
  <1>1. sent \in Commands /\ sent.type = "send_reliable" /\ sent.packet = m
    BY DEF Commands
  <1>. HIDE DEF sent
  <1>2. /\ more \in Seq(Commands) /\ Len(more) = n + 1 /\ n \in Nat /\ more # <<>>
        /\ more[n + 1] = sent /\ \A i \in 1..n : more[i] = commands[i]
    <2>1. /\ Append(commands, sent) \in Seq(Commands)
          /\ Len(Append(commands, sent)) = Len(commands) + 1 /\ Len(commands) \in Nat
          /\ Append(commands, sent)[Len(commands) + 1] = sent
          /\ \A i \in 1..Len(commands) : Append(commands, sent)[i] = commands[i]
      BY <1>1
    <2>2. Append(commands, sent) # <<>>
      BY <1>1
    <2>. QED
      BY <2>1, <2>2
  <1>3. commands # <<>> => n \in 1..n /\ 1 \in 1..n
    OBVIOUS
  <1>. HIDE DEF more
  <1>4. InOrder(more)
    <2>1. ASSUME NEW i \in 1..Len(more)
          PROVE  /\ more[i].type = "acknowledge" => i = 1
                 /\ more[i].type \notin Goodbyes
      <3>1. CASE i = n + 1
        BY <1>1, <1>2, <3>1 DEF Goodbyes
      <3>2. CASE i # n + 1
        <4>1. i \in 1..n /\ more[i] = commands[i]
          BY <1>2, <2>1, <3>2
        <4>. QED
          BY <4>1 DEF InOrder
      <3>. QED
        BY <3>1, <3>2
    <2>. QED
      BY <2>1 DEF InOrder
  <1>5. /\ Rear(commands) = n /\ Rear(more) = n + 1 /\ Front(more) = f /\ f \in 0..1 /\ f <= n
    <2>1. Rear(commands) = n
      BY <1>3 DEF Rear
    <2>2. Rear(more) = n + 1
      <3>1. more[Len(more)].type \notin Goodbyes
        BY <1>1, <1>2 DEF Goodbyes
      <3>. QED
        BY <1>2, <3>1 DEF Rear
    <2>3. Front(more) = f
      <3>1. CASE commands = <<>>
        <4>1. n = 0 /\ more[1] = sent
          BY <1>2, <3>1
        <4>. QED
          BY <1>1, <3>1, <4>1 DEF Front
      <3>2. CASE commands # <<>>
        BY <1>2, <1>3, <3>2 DEF Front
      <3>. QED
        BY <3>1, <3>2
    <2>4. f \in 0..1 /\ f <= Rear(commands)
      BY Between
    <2>. QED
      BY <2>1, <2>2, <2>3, <2>4
  <1>. HIDE DEF n, f
  <1>. DEFINE k == n - f
  <1>6. k \in Nat /\ n = k + f /\ (n + 1) - f = k + 1
    BY <1>2, <1>5
  <1>7. /\ Sent(commands) \in Seq(Payloads) /\ Len(Sent(commands)) = k
        /\ \A i \in 1..k : Sent(commands)[i] = commands[i + f].packet
    BY <1>5, SentIs DEF f
  <1>8. /\ Sent(more) \in Seq(Payloads) /\ Len(Sent(more)) = k + 1
        /\ \A i \in 1..(k + 1) : Sent(more)[i] = more[i + f].packet
    <2>1. /\ Sent(more) \in Seq(Payloads)
          /\ Len(Sent(more)) = Rear(more) - Front(more)
          /\ \A i \in 1..(Rear(more) - Front(more)) :
                Sent(more)[i] = more[i + Front(more)].packet
      BY <1>2, <1>4, SentIs
    <2>2. Rear(more) - Front(more) = k + 1
      BY <1>5, <1>6
    <2>. QED
      BY <1>5, <2>1, <2>2
  <1>. HIDE DEF k
  <1>9. /\ \A i \in 1..k : Sent(more)[i] = Sent(commands)[i]
        /\ Sent(more)[k + 1] = m
    <2>1. ASSUME NEW i \in 1..k PROVE Sent(more)[i] = Sent(commands)[i]
      <3>1. i + f \in 1..n /\ i \in 1..(k + 1)
        BY <1>5, <1>6
      <3>. QED
        BY <1>2, <1>7, <1>8, <3>1
    <2>2. Sent(more)[k + 1] = more[n + 1].packet
      <3>1. k + 1 \in 1..(k + 1) /\ (k + 1) + f = n + 1
        BY <1>5, <1>6
      <3>. QED
        BY <1>8, <3>1
    <2>. QED
      BY <1>1, <1>2, <2>1, <2>2
  <1>. DEFINE before == waiting \o Sent(commands)
              after == waiting \o Sent(more)
              w == Len(waiting)
  <1>10. w \in Nat
    OBVIOUS
  <1>11. /\ before \in Seq(Payloads) /\ Len(before) = w + k
         /\ \A i \in 1..(w + k) :
               before[i] = IF i <= w THEN waiting[i] ELSE Sent(commands)[i - w]
    BY <1>7, ConcatProperties
  <1>12. /\ after \in Seq(Payloads) /\ Len(after) = w + (k + 1)
         /\ \A i \in 1..(w + (k + 1)) :
               after[i] = IF i <= w THEN waiting[i] ELSE Sent(more)[i - w]
    BY <1>8, ConcatProperties
  <1>. HIDE DEF before, after, w
  <1>13. /\ Append(before, m) \in Seq(Payloads) /\ Len(Append(before, m)) = w + k + 1
         /\ \A i \in 1..(w + k) : Append(before, m)[i] = before[i]
         /\ Append(before, m)[w + k + 1] = m
    BY <1>11
  <1>14. ASSUME NEW i \in 1..(w + (k + 1)) PROVE after[i] = Append(before, m)[i]
    <2>1. CASE i <= w
      <3>1. i \in 1..(w + k)
        BY <1>6, <1>10, <2>1
      <3>. QED
        BY <1>11, <1>12, <1>13, <2>1, <3>1
    <2>2. CASE ~(i <= w) /\ i <= w + k
      <3>1. i \in 1..(w + k) /\ i - w \in 1..k
        BY <1>6, <1>10, <2>2
      <3>2. after[i] = Sent(more)[i - w] /\ before[i] = Sent(commands)[i - w]
        BY <1>11, <1>12, <2>2, <3>1
      <3>. QED
        BY <1>9, <1>13, <3>1, <3>2
    <2>3. CASE i = w + k + 1
      <3>1. ~(i <= w) /\ i - w = k + 1
        BY <1>6, <1>10, <2>3
      <3>2. after[i] = Sent(more)[k + 1]
        BY <1>12, <3>1
      <3>. QED
        BY <1>9, <1>13, <2>3, <3>2
    <2>4. i <= w \/ (~(i <= w) /\ i <= w + k) \/ i = w + k + 1
      BY <1>6, <1>10
    <2>. QED
      BY <2>1, <2>2, <2>3, <2>4
  <1>15. Len(after) = Len(Append(before, m))
    BY <1>6, <1>10, <1>12, <1>13
  <1>16. after = Append(before, m)
    BY <1>12, <1>13, <1>14, <1>15, SameChannel
  <1>. QED
    BY <1>16 DEF after, before, more, sent

(* The other end is cut off: of its packets a prefix is left.                 *)
LEMMA PacketsLost ==
    ASSUME NEW commands \in Seq(Commands), InOrder(commands),
           \A i \in 1..Len(commands) : commands[i].type \notin Goodbyes,
           NEW k \in 0..Len(commands),
           NEW last \in {<<>>} \cup {<<[type |-> goodbye]>> : goodbye \in Goodbyes},
           NEW waiting \in Seq(Payloads)
    PROVE  \E n \in 0..Len(waiting \o Sent(commands)) :
              waiting \o Sent(SubSeq(commands, 1, k) \o last)
                = SubSeq(waiting \o Sent(commands), 1, n)
  <1>. DEFINE kept == SubSeq(commands, 1, k)
              cut == kept \o last
  <1>1. /\ kept \in Seq(Commands) /\ Len(kept) = k /\ k \in Nat
        /\ \A i \in 1..k : kept[i] = commands[i] /\ i \in 1..Len(commands)
    OBVIOUS
  <1>2. /\ last \in Seq(Commands) /\ Len(last) \in {0, 1}
        /\ Len(last) = 1 => last[1].type \in Goodbyes
    <2>1. CASE last = <<>>
      BY <2>1
    <2>2. CASE last # <<>>
      <3>1. PICK goodbye \in Goodbyes : last = <<[type |-> goodbye]>>
        BY <2>2
      <3>2. [type |-> goodbye] \in Commands /\ [type |-> goodbye].type = goodbye
        BY DEF Commands
      <3>. QED
        BY <3>1, <3>2
    <2>. QED
      BY <2>1, <2>2
  <1>. HIDE DEF kept
  <1>3. /\ cut \in Seq(Commands) /\ Len(cut) = k + Len(last)
        /\ \A i \in 1..(k + Len(last)) : cut[i] = IF i <= k THEN kept[i] ELSE last[i - k]
    <2>1. /\ cut \in Seq(Commands) /\ Len(cut) = Len(kept) + Len(last)
          /\ \A i \in 1..(Len(kept) + Len(last)) :
                cut[i] = IF i <= Len(kept) THEN kept[i] ELSE last[i - Len(kept)]
      <3>1. kept \in Seq(Commands) /\ last \in Seq(Commands)
        BY <1>1, <1>2
      <3>. QED
        BY <3>1, ConcatProperties, Zenon
    <2>2. Len(kept) = k
      BY <1>1
    <2>. HIDE DEF cut
    <2>. QED
      BY <2>1, <2>2, Zenon
  <1>. HIDE DEF cut
  <1>4. /\ \A i \in 1..k : cut[i] = commands[i] /\ cut[i].type \notin Goodbyes
        /\ Len(last) = 1 => cut[k + 1].type \in Goodbyes
        /\ Len(cut) = k \/ (Len(last) = 1 /\ Len(cut) = k + 1)
    <2>1. ASSUME NEW i \in 1..k PROVE cut[i] = commands[i] /\ cut[i].type \notin Goodbyes
      <3>1. i \in 1..(k + Len(last)) /\ i <= k
        BY <1>1, <1>2
      <3>. QED
        BY <1>1, <1>3, <3>1
    <2>2. Len(last) = 1 => cut[k + 1].type \in Goodbyes
      <3>1. CASE Len(last) = 1
        <4>1. k + 1 \in 1..(k + Len(last)) /\ ~(k + 1 <= k) /\ (k + 1) - k = 1
          BY <1>1, <3>1
        <4>2. cut[k + 1] = last[1]
          BY <1>3, <4>1
        <4>. QED
          BY <1>2, <3>1, <4>2
      <3>. QED
        BY <3>1
    <2>3. Len(last) = 0 \/ Len(last) = 1
      BY <1>2
    <2>. QED
      BY <1>1, <1>3, <2>1, <2>2, <2>3
  <1>5. /\ InOrder(cut) /\ Rear(cut) = k
        /\ Front(cut) = IF k = 0 THEN 0 ELSE Front(commands)
    <2>1. ASSUME NEW i \in 1..Len(cut)
          PROVE  /\ cut[i].type = "acknowledge" => i = 1
                 /\ cut[i].type \in Goodbyes => i = Len(cut)
      <3>1. CASE i \in 1..k
        BY <1>1, <1>4, <3>1 DEF InOrder
      <3>2. CASE i \notin 1..k
        BY <1>1, <1>4, <3>2 DEF Goodbyes
      <3>. QED
        BY <3>1, <3>2
    <2>2. Rear(cut) = k
      <3>1. CASE Len(cut) = k
        <4>1. cut # <<>> => k \in 1..k
          BY <1>1, <1>3, <3>1
        <4>. QED
          BY <1>4, <3>1, <4>1 DEF Rear
      <3>2. CASE Len(cut) = k + 1 /\ Len(last) = 1
        <4>1. cut # <<>> /\ (k + 1) - 1 = k
          BY <1>1, <1>3, <3>2
        <4>. QED
          BY <1>4, <3>2, <4>1 DEF Rear
      <3>. QED
        BY <1>4, <3>1, <3>2
    <2>3. Front(cut) = IF k = 0 THEN 0 ELSE Front(commands)
      <3>1. CASE k = 0
        <4>1. cut = <<>> \/ cut[1].type # "acknowledge"
          BY <1>3, <1>4, <3>1 DEF Goodbyes
        <4>. QED
          BY <3>1, <4>1 DEF Front
      <3>2. CASE k # 0
        <4>1. 1 \in 1..k /\ cut # <<>> /\ commands # <<>>
          BY <1>1, <1>3, <1>4, <3>2
        <4>. QED
          BY <1>4, <3>2, <4>1 DEF Front
      <3>. QED
        BY <3>1, <3>2
    <2>. QED
      BY <2>1, <2>2, <2>3 DEF InOrder
  <1>. DEFINE f == Front(cut)
              j == k - f
              all == Rear(commands) - Front(commands)
  <1>6. /\ j \in Nat /\ j <= all /\ all \in Nat /\ f \in Nat
        /\ \A i \in 1..j : i + f \in 1..k /\ f = Front(commands)
    <2>1. /\ Front(commands) \in 0..1 /\ Rear(commands) \in Nat
          /\ Front(commands) <= Rear(commands) /\ Len(commands) \in Nat
      BY Between
    <2>2. Rear(commands) = Len(commands)
      <3>1. commands # <<>> => Len(commands) \in 1..Len(commands)
        OBVIOUS
      <3>. QED
        BY <3>1 DEF Rear
    <2>. QED
      BY <1>1, <1>5, <2>1, <2>2
  <1>7. /\ Sent(cut) \in Seq(Payloads) /\ Len(Sent(cut)) = j
        /\ \A i \in 1..j : Sent(cut)[i] = cut[i + f].packet
    BY <1>3, <1>5, SentIs
  <1>8. /\ Sent(commands) \in Seq(Payloads) /\ Len(Sent(commands)) = all
        /\ \A i \in 1..all : Sent(commands)[i] = commands[i + Front(commands)].packet
    BY SentIs
  <1>. HIDE DEF f, j, all
  <1>9. \A i \in 1..j : Sent(cut)[i] = Sent(commands)[i]
    <2>1. ASSUME NEW i \in 1..j PROVE Sent(cut)[i] = Sent(commands)[i]
      <3>1. i + f \in 1..k /\ f = Front(commands) /\ i \in 1..all
        BY <1>6
      <3>. QED
        BY <1>4, <1>7, <1>8, <3>1
    <2>. QED
      BY <2>1
  <1>. DEFINE before == waiting \o Sent(commands)
              after == waiting \o Sent(cut)
              w == Len(waiting)
  <1>10. w \in Nat
    OBVIOUS
  <1>11. /\ before \in Seq(Payloads) /\ Len(before) = w + all
         /\ \A i \in 1..(w + all) :
               before[i] = IF i <= w THEN waiting[i] ELSE Sent(commands)[i - w]
    BY <1>8, ConcatProperties
  <1>12. /\ after \in Seq(Payloads) /\ Len(after) = w + j
         /\ \A i \in 1..(w + j) :
               after[i] = IF i <= w THEN waiting[i] ELSE Sent(cut)[i - w]
    BY <1>7, ConcatProperties
  <1>. HIDE DEF before, after, w
  <1>13. w + j \in 0..Len(before) /\ \A i \in 1..(w + j) : i \in 1..(w + all)
    BY <1>6, <1>10, <1>11
  <1>14. /\ SubSeq(before, 1, w + j) \in Seq(Payloads)
         /\ Len(SubSeq(before, 1, w + j)) = w + j
         /\ \A i \in 1..(w + j) : SubSeq(before, 1, w + j)[i] = before[i]
    BY <1>11, <1>13
  <1>15. ASSUME NEW i \in 1..(w + j) PROVE after[i] = before[i]
    <2>1. CASE i <= w
      BY <1>11, <1>12, <1>13, <2>1
    <2>2. CASE ~(i <= w)
      <3>1. i - w \in 1..j
        BY <1>6, <1>10, <2>2
      <3>2. after[i] = Sent(cut)[i - w] /\ before[i] = Sent(commands)[i - w]
        BY <1>11, <1>12, <1>13, <2>2
      <3>. QED
        BY <1>9, <3>1, <3>2
    <2>. QED
      BY <2>1, <2>2
  <1>16. after = SubSeq(before, 1, w + j)
    BY <1>12, <1>14, <1>15, SameChannel
  <1>. QED
    BY <1>13, <1>16 DEF after, before, cut, kept

--------------------------------------------------------------------------------
(* The channel of a slot.                                                     *)
LEMMA Slot ==
    ASSUME HostInv, NEW p \in Peers
    PROVE  /\ wire[p] \in Seq(Commands) /\ InOrder(wire[p]) /\ Sent(wire[p]) \in Seq(Payloads)
           /\ dispatchedCommands[p] \in Seq(Payloads)
           /\ ChannelOf[p] = dispatchedCommands[p] \o Sent(wire[p])
           /\ remote[p] # "gone" => \A i \in 1..Len(wire[p]) : wire[p][i].type \notin Goodbyes
  <1>1. wire[p] \in Seq(Commands) /\ dispatchedCommands[p] \in Seq(Payloads)
    BY DEF HostInv, HostTypeOK
  <1>2. InOrder(wire[p])
    BY DEF HostInv, WireInOrder, InOrder
  <1>3. remote[p] # "gone" => \A i \in 1..Len(wire[p]) : wire[p][i].type \notin Goodbyes
    BY DEF HostInv, WireInOrder
  <1>. QED
    BY <1>1, <1>2, <1>3, SentIs DEF ChannelOf

(* A step of one slot changes its link and its channel only.                  *)
LEMMA LinkChange ==
    ASSUME NEW p \in Peers, \A q \in Peers : q # p => peerState'[q] = peerState[q]
    PROVE  LinkOf' = [LinkOf EXCEPT ![p] = LinkOf'[p]]
  BY DEF LinkOf

LEMMA ChannelChange ==
    ASSUME NEW p \in Peers,
           \A q \in Peers : q # p =>
              dispatchedCommands'[q] = dispatchedCommands[q] /\ wire'[q] = wire[q]
    PROVE  /\ ChannelOf' = [ChannelOf EXCEPT ![p] = ChannelOf'[p]]
           /\ ChannelOf'[p] = dispatchedCommands'[p] \o Sent(wire'[p])
  BY DEF ChannelOf

LEMMA SameLinks ==
    ASSUME UNCHANGED <<peerState, dispatchedCommands, remote, wire, event>>
    PROVE  UNCHANGED Links!vars
  BY DEF Links!vars, LinkOf, SendingOf, ChannelOf

--------------------------------------------------------------------------------
(* The step of LinkEvents that each step of the host takes.                    *)
LEMMA Asks ==
    ASSUME HostInv, Service
    PROVE  Links!Ask
  BY DEF Service, Links!Ask, Links!NoEvent, NoEvent, LinkOf, SendingOf, ChannelOf, netVars

LEMMA Stutters ==
    ASSUME HostInv, NEW p,
           \/ DispatchDone \/ SendDone \/ EndDatagram \/ ReceiveDone \/ Wait \/ Fail
           \/ DispatchSkip(p) \/ SendNothing(p) \/ ReceiveDatagram(p) \/ RefuseData(p)
           \/ UNCHANGED enetVars
    PROVE  UNCHANGED Links!vars
  BY SameLinks DEF DispatchDone, SendDone, EndDatagram, ReceiveDone, Wait, Fail, DispatchSkip,
                   SendNothing, ReceiveDatagram, RefuseData, enetVars, hostVars, netVars, callVars

LEMMA Arrives ==
    ASSUME HostInv, NEW p \in Peers, ReceiveConnect(p)
    PROVE  Links!Arrive(p)
  <1>1. /\ peerState[p] = "DISCONNECTED" /\ peerState \in [Peers -> PeerStates]
        /\ peerState' = [peerState EXCEPT ![p] = "ACKNOWLEDGING_CONNECT"]
        /\ remote' = [remote EXCEPT ![p] = "connecting"]
        /\ remote \in [Peers -> {"absent", "connecting", "verified", "up", "gone"}]
        /\ remote[p] = "absent"
        /\ UNCHANGED <<dispatchedCommands, event, wire>>
    BY DEF HostInv, HostTypeOK, RemoteMatches, ReceiveConnect
  <1>2. LinkOf[p] = "closed" /\ LinkOf' = [LinkOf EXCEPT ![p] = "opening"]
    BY <1>1 DEF LinkOf
  <1>3. SendingOf' = SendingOf
    BY <1>1 DEF SendingOf
  <1>4. ChannelOf' = ChannelOf
    BY <1>1 DEF ChannelOf
  <1>. QED
    BY <1>1, <1>2, <1>3, <1>4 DEF Links!Arrive

LEMMA Verifies ==
    ASSUME HostInv, NEW p \in Peers, SendVerifyConnect(p)
    PROVE  UNCHANGED Links!vars
  <1>1. /\ remote[p] = "connecting" /\ remote' = [remote EXCEPT ![p] = "verified"]
        /\ remote \in [Peers -> {"absent", "connecting", "verified", "up", "gone"}]
        /\ UNCHANGED <<peerState, dispatchedCommands, event, wire>>
    BY DEF HostInv, HostTypeOK, SendVerifyConnect, hostVars
  <1>2. SendingOf' = SendingOf
    BY <1>1 DEF SendingOf
  <1>3. LinkOf' = LinkOf /\ ChannelOf' = ChannelOf
    BY <1>1 DEF LinkOf, ChannelOf
  <1>. QED
    BY <1>1, <1>2, <1>3 DEF Links!vars

LEMMA Accepts ==
    ASSUME HostInv, NEW p \in Peers, RemoteAcknowledge(p)
    PROVE  Links!Accept(p)
  <1>. DEFINE ack == [type |-> "acknowledge"]
  <1>1. /\ remote[p] = "verified" /\ remote' = [remote EXCEPT ![p] = "up"]
        /\ remote \in [Peers -> {"absent", "connecting", "verified", "up", "gone"}]
        /\ peerState[p] = "ACKNOWLEDGING_CONNECT" /\ wire[p] = <<>>
        /\ wire \in [Peers -> Seq(Commands)]
        /\ wire' = [wire EXCEPT ![p] = <<ack>>]
        /\ UNCHANGED <<peerState, dispatchedCommands, event>>
    <2>1. /\ remote[p] = "verified" /\ remote' = [remote EXCEPT ![p] = "up"]
          /\ wire' = [wire EXCEPT ![p] = Append(wire[p], ack)]
          /\ UNCHANGED <<peerState, dispatchedCommands, event>>
      BY DEF RemoteAcknowledge, hostVars, callVars
    <2>2. /\ remote \in [Peers -> {"absent", "connecting", "verified", "up", "gone"}]
          /\ peerState[p] = "ACKNOWLEDGING_CONNECT" /\ wire[p] = <<>>
          /\ wire \in [Peers -> Seq(Commands)]
      BY <2>1 DEF HostInv, HostTypeOK, RemoteMatches
    <2>. HIDE DEF ack
    <2>3. Append(<<>>, ack) = <<ack>>
      OBVIOUS
    <2>. QED
      BY <2>1, <2>2, <2>3
  <1>2. Sent(<<ack>>) = Sent(<<>>)
    <2>1. ack \in Commands /\ ack.type = "acknowledge"
      BY DEF Commands
    <2>. HIDE DEF ack
    <2>2. /\ <<ack>> \in Seq(Commands) /\ <<ack>> # <<>> /\ Head(<<ack>>) = ack
          /\ Len(<<ack>>) = 1 /\ <<ack>>[1] = ack /\ Tail(<<ack>>) = <<>>
      BY <2>1
    <2>3. InOrder(<<ack>>)
      BY <2>1, <2>2 DEF InOrder
    <2>. QED
      BY <2>1, <2>2, <2>3, AcknowledgementTaken
  <1>. HIDE DEF ack
  <1>3. ChannelOf' = ChannelOf
    <2>1. ASSUME NEW q \in Peers PROVE Sent(wire'[q]) = Sent(wire[q])
      BY <1>1, <1>2
    <2>. QED
      BY <1>1, <2>1 DEF ChannelOf
  <1>4. LinkOf[p] = "opening" /\ LinkOf' = LinkOf
    BY <1>1 DEF LinkOf
  <1>5. SendingOf' = SendingOf \cup {p}
    BY <1>1 DEF SendingOf
  <1>. QED
    BY <1>1, <1>3, <1>4, <1>5 DEF Links!Accept

LEMMA Sends ==
    ASSUME HostInv, NEW p \in Peers, NEW m \in Payloads, RemoteSend(p, m)
    PROVE  Links!Send(p, m)
  <1>. DEFINE sent == [type |-> "send_reliable", packet |-> m]
  <1>1. /\ remote[p] = "up" /\ wire \in [Peers -> Seq(Commands)]
        /\ wire' = [wire EXCEPT ![p] = Append(wire[p], sent)]
        /\ UNCHANGED <<peerState, dispatchedCommands, event, remote>>
    BY DEF HostInv, HostTypeOK, RemoteSend, hostVars, callVars
  <1>2. /\ wire[p] \in Seq(Commands) /\ InOrder(wire[p])
        /\ \A i \in 1..Len(wire[p]) : wire[p][i].type \notin Goodbyes
        /\ dispatchedCommands[p] \in Seq(Payloads)
        /\ ChannelOf[p] = dispatchedCommands[p] \o Sent(wire[p])
    BY <1>1, Slot
  <1>3. dispatchedCommands[p] \o Sent(Append(wire[p], sent)) = Append(ChannelOf[p], m)
    BY <1>2, PacketSent
  <1>. HIDE DEF sent
  <1>4. /\ wire'[p] = Append(wire[p], sent) /\ \A q \in Peers : q # p => wire'[q] = wire[q]
        /\ dispatchedCommands' = dispatchedCommands
    BY <1>1
  <1>5. ChannelOf' = [ChannelOf EXCEPT ![p] = Append(ChannelOf[p], m)]
    BY <1>3, <1>4, ChannelChange
  <1>6. LinkOf' = LinkOf /\ SendingOf' = SendingOf /\ p \in SendingOf
    BY <1>1 DEF LinkOf, SendingOf
  <1>. QED
    BY <1>1, <1>5, <1>6 DEF Links!Send

LEMMA Breaks ==
    ASSUME HostInv, NEW p \in Peers, RemoteLeave(p)
    PROVE  Links!Break(p)
  <1>1. /\ remote[p] \in {"connecting", "verified", "up"}
        /\ remote' = [remote EXCEPT ![p] = "gone"]
        /\ remote \in [Peers -> {"absent", "connecting", "verified", "up", "gone"}]
        /\ peerState[p] # "DISCONNECTED"
        /\ UNCHANGED <<peerState, dispatchedCommands, event>>
        /\ wire \in [Peers -> Seq(Commands)]
    BY DEF HostInv, HostTypeOK, RemoteMatches, RemoteLeave, hostVars, callVars
  <1>2. /\ wire[p] \in Seq(Commands) /\ InOrder(wire[p])
        /\ \A i \in 1..Len(wire[p]) : wire[p][i].type \notin Goodbyes
        /\ dispatchedCommands[p] \in Seq(Payloads)
        /\ ChannelOf[p] = dispatchedCommands[p] \o Sent(wire[p])
    BY <1>1, Slot
  <1>3. PICK k \in 0..Len(wire[p]),
             last \in {<<>>} \cup {<<[type |-> goodbye]>> : goodbye \in Goodbyes} :
                wire' = [wire EXCEPT ![p] = SubSeq(wire[p], 1, k) \o last]
    <2>1. PICK k \in (IF sender = p THEN left ELSE 0)..Len(wire[p]),
               last \in {<<>>} \cup {<<[type |-> goodbye]>> : goodbye \in Goodbyes} :
                  wire' = [wire EXCEPT ![p] = SubSeq(wire[p], 1, k) \o last]
      BY DEF RemoteLeave
    <2>2. left \in Nat /\ Len(wire[p]) \in Nat
      BY <1>2 DEF HostInv, HostTypeOK
    <2>3. k \in 0..Len(wire[p])
      BY <2>1, <2>2
    <2>. QED
      BY <2>1, <2>3
  <1>4. PICK n \in 0..Len(ChannelOf[p]) :
           dispatchedCommands[p] \o Sent(SubSeq(wire[p], 1, k) \o last)
              = SubSeq(ChannelOf[p], 1, n)
    <2>1. \E n \in 0..Len(dispatchedCommands[p] \o Sent(wire[p])) :
             dispatchedCommands[p] \o Sent(SubSeq(wire[p], 1, k) \o last)
                = SubSeq(dispatchedCommands[p] \o Sent(wire[p]), 1, n)
      BY <1>2, <1>3, PacketsLost
    <2>. QED
      BY <1>2, <2>1, Zenon
  <1>5. /\ wire'[p] = SubSeq(wire[p], 1, k) \o last
        /\ \A q \in Peers : q # p => wire'[q] = wire[q]
        /\ dispatchedCommands' = dispatchedCommands
    BY <1>1, <1>3
  <1>6. ChannelOf' = [ChannelOf EXCEPT ![p] = SubSeq(ChannelOf[p], 1, n)]
    BY <1>4, <1>5, ChannelChange
  <1>7. LinkOf' = LinkOf /\ LinkOf[p] # "closed"
    BY <1>1 DEF LinkOf
  <1>8. SendingOf' = SendingOf \ {p}
    BY <1>1 DEF SendingOf
  <1>. QED
    BY <1>1, <1>6, <1>7, <1>8 DEF Links!Break

LEMMA Opens ==
    ASSUME HostInv, NEW p \in Peers, HandleAcknowledge(p)
    PROVE  Links!Open(p)
  <1>1. /\ peerState[p] = "ACKNOWLEDGING_CONNECT" /\ peerState \in [Peers -> PeerStates]
        /\ peerState' = [peerState EXCEPT ![p] = "CONNECTED"]
        /\ event' = [type |-> "CONNECT", peer |-> p] /\ Consume(p)
        /\ UNCHANGED <<dispatchedCommands, remote>>
        /\ Head(wire[p]).type = "acknowledge" /\ phase = "receive" /\ sender = p
        /\ Reading(p, {"acknowledge"})
    BY DEF HostInv, HostTypeOK, HandleAcknowledge, change_state, Reading
  <1>2. event = NoEvent
    BY <1>1 DEF HostInv, EventsAreReturned
  <1>3. /\ wire \in [Peers -> Seq(Commands)] /\ wire' = [wire EXCEPT ![p] = Tail(wire[p])]
    BY <1>1 DEF HostInv, HostTypeOK, Consume
  <1>4. wire[p] # <<>>
    <2>1. Len(wire[p]) \in Nat \ {0}
      BY <1>1, Consumes
    <2>. QED
      BY <2>1
  <1>5. Sent(Tail(wire[p])) = Sent(wire[p])
    BY <1>1, <1>4, Slot, AcknowledgementTaken
  <1>6. ChannelOf' = ChannelOf
    <2>1. ASSUME NEW q \in Peers PROVE Sent(wire'[q]) = Sent(wire[q])
      BY <1>3, <1>5
    <2>. QED
      BY <1>1, <2>1 DEF ChannelOf
  <1>7. LinkOf[p] = "opening" /\ LinkOf' = [LinkOf EXCEPT ![p] = "open"]
    BY <1>1 DEF LinkOf
  <1>8. SendingOf' = SendingOf
    BY <1>1 DEF SendingOf
  <1>. QED
    BY <1>1, <1>2, <1>6, <1>7, <1>8 DEF Links!Open, Links!Connect, Links!NoEvent, NoEvent

LEMMA Queues ==
    ASSUME HostInv, NEW p \in Peers, HandleSendReliable(p)
    PROVE  UNCHANGED Links!vars
  <1>. DEFINE packet == Head(wire[p]).packet
  <1>1. /\ Reading(p, {"send_reliable"}) /\ Consume(p)
        /\ dispatchedCommands' = [dispatchedCommands EXCEPT ![p] = Append(@, packet)]
        /\ UNCHANGED <<peerState, event, remote>>
        /\ Head(wire[p]).type = "send_reliable"
        /\ dispatchedCommands \in [Peers -> Seq(Payloads)]
    BY DEF HostInv, HostTypeOK, HandleSendReliable, QueueIncoming, Reading
  <1>2. /\ wire \in [Peers -> Seq(Commands)] /\ wire' = [wire EXCEPT ![p] = Tail(wire[p])]
    BY <1>1 DEF HostInv, HostTypeOK, Consume
  <1>3. wire[p] # <<>>
    <2>1. Len(wire[p]) \in Nat \ {0}
      BY <1>1, Consumes
    <2>. QED
      BY <2>1
  <1>4. Append(dispatchedCommands[p], packet) \o Sent(Tail(wire[p]))
          = dispatchedCommands[p] \o Sent(wire[p])
    BY <1>1, <1>3, Slot, PacketTaken
  <1>. HIDE DEF packet
  <1>5. ChannelOf' = ChannelOf
    <2>1. ASSUME NEW q \in Peers
          PROVE  dispatchedCommands'[q] \o Sent(wire'[q])
                   = dispatchedCommands[q] \o Sent(wire[q])
      BY <1>1, <1>2, <1>4
    <2>. QED
      BY <2>1 DEF ChannelOf
  <1>. QED
    BY <1>1, <1>5 DEF Links!vars, LinkOf, SendingOf

(* The first element of a concatenation.                                     *)
LEMMA HeadTailOfConcat ==
    ASSUME NEW S, NEW s \in Seq(S), NEW t \in Seq(S), s # <<>>
    PROVE  /\ s \o t # <<>> /\ Head(s \o t) = Head(s)
           /\ Tail(s \o t) = Tail(s) \o t
  <1>. DEFINE st == s \o t
              n == Len(s)
              k == Len(t)
  <1>1. /\ Head(s) = s[1] /\ Tail(s) \in Seq(S) /\ n \in Nat \ {0} /\ Len(Tail(s)) = n - 1
        /\ \A i \in 1..(n - 1) : Tail(s)[i] = s[i + 1]
    BY FirstAndRest
  <1>2. k \in Nat
    OBVIOUS
  <1>3. /\ st \in Seq(S) /\ Len(st) = n + k
        /\ \A i \in 1..(n + k) : st[i] = IF i <= n THEN s[i] ELSE t[i - n]
    BY ConcatProperties
  <1>4. /\ Tail(s) \o t \in Seq(S) /\ Len(Tail(s) \o t) = (n - 1) + k
        /\ \A i \in 1..((n - 1) + k) :
              (Tail(s) \o t)[i] = IF i <= n - 1 THEN Tail(s)[i] ELSE t[i - (n - 1)]
    <2>1. /\ Tail(s) \o t \in Seq(S) /\ Len(Tail(s) \o t) = Len(Tail(s)) + k
          /\ \A i \in 1..(Len(Tail(s)) + k) :
                (Tail(s) \o t)[i] = IF i <= Len(Tail(s)) THEN Tail(s)[i]
                                    ELSE t[i - Len(Tail(s))]
      BY <1>1, ConcatProperties
    <2>. QED
      BY <1>1, <2>1
  <1>. HIDE DEF st, n, k
  <1>5. st # <<>>
    BY <1>1, <1>2, <1>3
  <1>6. /\ Head(st) = st[1] /\ Tail(st) \in Seq(S) /\ Len(Tail(st)) = (n + k) - 1
        /\ \A i \in 1..((n + k) - 1) : Tail(st)[i] = st[i + 1]
    BY <1>3, <1>5, FirstAndRest
  <1>7. st[1] = s[1]
    BY <1>1, <1>2, <1>3
  <1>8. (n + k) - 1 = (n - 1) + k
    BY <1>1, <1>2
  <1>9. ASSUME NEW i \in 1..((n - 1) + k) PROVE Tail(st)[i] = (Tail(s) \o t)[i]
    <2>1. i + 1 \in 1..(n + k) /\ Tail(st)[i] = st[i + 1]
      BY <1>1, <1>2, <1>6, <1>8
    <2>2. CASE i <= n - 1
      <3>1. i \in 1..(n - 1) /\ i + 1 <= n
        BY <1>1, <1>2, <2>2
      <3>. QED
        BY <1>1, <1>3, <1>4, <2>1, <2>2, <3>1
    <2>3. CASE ~(i <= n - 1)
      <3>1. ~(i + 1 <= n) /\ (i + 1) - n = i - (n - 1)
        BY <1>1, <1>2, <2>3
      <3>. QED
        BY <1>3, <1>4, <2>1, <2>3, <3>1
    <2>. QED
      BY <2>2, <2>3
  <1>10. Tail(st) = Tail(s) \o t
    BY <1>4, <1>6, <1>8, <1>9, SameChannel
  <1>. QED
    BY <1>1, <1>5, <1>6, <1>7, <1>10 DEF st

LEMMA Delivers ==
    ASSUME HostInv, NEW p \in Peers, DispatchReceive(p)
    PROVE  Links!Deliver(p)
  <1>. DEFINE waiting == dispatchedCommands[p]
              sent == Sent(wire[p])
  <1>1. /\ peerState[p] = "CONNECTED" /\ waiting # <<>> /\ Dispatching /\ dispatchQueue # <<>>
        /\ event' = [type |-> "RECEIVE", peer |-> p, packet |-> Head(waiting)]
        /\ dispatchedCommands' = [dispatchedCommands EXCEPT ![p] = Tail(waiting)]
        /\ dispatchedCommands \in [Peers -> Seq(Payloads)]
        /\ UNCHANGED <<peerState, remote, wire>>
    BY DEF HostInv, HostTypeOK, DispatchReceive, netVars
  <1>2. event = NoEvent
    BY <1>1, WhileDispatching
  <1>3. /\ waiting \in Seq(Payloads) /\ sent \in Seq(Payloads) /\ ChannelOf[p] = waiting \o sent
    BY Slot
  <1>4. /\ dispatchedCommands'[p] = Tail(waiting)
        /\ \A q \in Peers : q # p => dispatchedCommands'[q] = dispatchedCommands[q]
    BY <1>1
  <1>5. waiting # <<>>
    BY <1>1
  <1>. HIDE DEF waiting, sent
  <1>6. /\ waiting \o sent # <<>> /\ Head(waiting \o sent) = Head(waiting)
        /\ Tail(waiting \o sent) = Tail(waiting) \o sent
    BY <1>3, <1>5, HeadTailOfConcat
  <1>7. ChannelOf' = [ChannelOf EXCEPT ![p] = Tail(ChannelOf[p])]
    <2>1. ChannelOf'[p] = Tail(waiting) \o sent /\ ChannelOf' = [ChannelOf EXCEPT ![p] = ChannelOf'[p]]
      BY <1>1, <1>4, ChannelChange DEF sent
    <2>. QED
      BY <1>3, <1>6, <2>1
  <1>8. LinkOf' = LinkOf /\ LinkOf[p] = "open" /\ SendingOf' = SendingOf
    BY <1>1 DEF LinkOf, SendingOf
  <1>9. event' = Links!Receive(p, Head(ChannelOf[p]))
    BY <1>1, <1>3, <1>6 DEF Links!Receive, waiting
  <1>. QED
    BY <1>2, <1>3, <1>6, <1>7, <1>8, <1>9 DEF Links!Deliver, Links!NoEvent, NoEvent

(* A slot that is freed.                                                      *)
LEMMA Frees ==
    ASSUME HostInv, NEW p \in Peers, enet_peer_reset(p)
    PROVE  Links!Shut(p)
  <1>1. /\ peerState \in [Peers -> PeerStates]
        /\ dispatchedCommands \in [Peers -> Seq(Payloads)]
        /\ remote \in [Peers -> {"absent", "connecting", "verified", "up", "gone"}]
        /\ wire \in [Peers -> Seq(Commands)]
    BY DEF HostInv, HostTypeOK
  <1>2. /\ peerState' = [peerState EXCEPT ![p] = "DISCONNECTED"]
        /\ dispatchedCommands' = [dispatchedCommands EXCEPT ![p] = <<>>]
        /\ remote' = [remote EXCEPT ![p] = "absent"]
        /\ wire' = [wire EXCEPT ![p] = <<>>]
    BY DEF enet_peer_reset, change_state, DestroyDispatched
  <1>3. LinkOf' = [LinkOf EXCEPT ![p] = "closed"]
    BY <1>1, <1>2 DEF LinkOf
  <1>4. SendingOf' = SendingOf \ {p}
    BY <1>1, <1>2 DEF SendingOf
  <1>5. ChannelOf' = [ChannelOf EXCEPT ![p] = <<>>]
    <2>1. /\ dispatchedCommands'[p] = <<>> /\ wire'[p] = <<>>
          /\ \A q \in Peers : q # p =>
                dispatchedCommands'[q] = dispatchedCommands[q] /\ wire'[q] = wire[q]
      BY <1>1, <1>2
    <2>2. <<>> \o Sent(<<>>) = <<>>
      <3>1. <<>> \o <<>> = <<>>
        OBVIOUS
      <3>. QED
        BY <3>1, NoneSent
    <2>. QED
      BY <2>1, <2>2, ChannelChange
  <1>. QED
    BY <1>3, <1>4, <1>5 DEF Links!Shut

LEMMA Closes ==
    ASSUME HostInv, NEW p \in Peers, DispatchZombie(p)
    PROVE  Links!Close(p)
  <1>1. /\ peerState[p] = "ZOMBIE" /\ enet_peer_reset(p) /\ Dispatching /\ dispatchQueue # <<>>
        /\ event' = [type |-> "DISCONNECT", peer |-> p]
    BY DEF DispatchZombie
  <1>2. event = NoEvent
    BY <1>1, WhileDispatching
  <1>3. LinkOf[p] = "open"
    BY <1>1, LinkIs
  <1>. QED
    BY <1>1, <1>2, <1>3, Frees DEF Links!Close, Links!Disconnect, Links!NoEvent, NoEvent

LEMMA TimesOut ==
    ASSUME HostInv, NEW p \in Peers, TimeOut(p)
    PROVE  Links!Close(p) \/ Links!Abandon(p)
  <1>1. Links!Shut(p)
    BY Frees DEF TimeOut
  <1>2. CASE peerState[p] = "ACKNOWLEDGING_CONNECT"
    <2>1. LinkOf[p] = "opening" /\ event' = event
      BY <1>2, LinkIs DEF TimeOut
    <2>. QED
      BY <1>1, <2>1 DEF Links!Abandon
  <1>3. CASE peerState[p] = "CONNECTED"
    <2>1. /\ event' = [type |-> "DISCONNECT", peer |-> p] /\ phase \in {"send1", "send2"}
      BY <1>3 DEF TimeOut, Sending
    <2>2. event = NoEvent
      BY <2>1 DEF HostInv, EventsAreReturned
    <2>3. LinkOf[p] = "open"
      BY <1>3, LinkIs
    <2>. QED
      BY <1>1, <2>1, <2>2, <2>3 DEF Links!Close, Links!Disconnect, Links!NoEvent, NoEvent
  <1>. QED
    BY <1>2, <1>3 DEF TimeOut

LEMMA Leaves ==
    ASSUME HostInv, NEW p \in Peers, HandleDisconnect(p)
    PROVE  Links!Break(p) \/ Links!Abandon(p)
  <1>1. Reading(p, Goodbyes) /\ event' = event
    BY DEF HandleDisconnect
  <1>2. CASE peerState[p] = "ACKNOWLEDGING_CONNECT"
    <2>1. Links!Shut(p)
      BY <1>2, Frees DEF HandleDisconnect
    <2>2. LinkOf[p] = "opening"
      BY <1>2, LinkIs
    <2>. QED
      BY <1>1, <2>1, <2>2 DEF Links!Abandon
  <1>3. CASE peerState[p] = "CONNECTED"
    <2>. DEFINE state == IF Head(wire[p]).type = "disconnect"
                         THEN "ACKNOWLEDGING_DISCONNECT" ELSE "ZOMBIE"
    <2>1. /\ DestroyDispatched(p) /\ Consume(p) /\ remote' = remote /\ change_state(p, state)
      BY <1>3 DEF HandleDisconnect
    <2>2. /\ peerState \in [Peers -> PeerStates] /\ peerState' = [peerState EXCEPT ![p] = state]
          /\ state \in {"ACKNOWLEDGING_DISCONNECT", "ZOMBIE"}
      BY <2>1 DEF HostInv, HostTypeOK, change_state
    <2>3. /\ dispatchedCommands \in [Peers -> Seq(Payloads)]
          /\ dispatchedCommands' = [dispatchedCommands EXCEPT ![p] = <<>>]
          /\ wire \in [Peers -> Seq(Commands)] /\ wire' = [wire EXCEPT ![p] = Tail(wire[p])]
      BY <2>1 DEF HostInv, HostTypeOK, DestroyDispatched, Consume
    <2>. HIDE DEF state
    <2>4. wire[p] # <<>> /\ Head(wire[p]) = wire[p][1] /\ Len(wire[p]) \in Nat \ {0}
      <3>1. Len(wire[p]) \in Nat \ {0} /\ Head(wire[p]) = wire[p][1]
        BY <1>1, <2>1, Consumes
      <3>. QED
        BY <3>1
    <2>5. Tail(wire[p]) = <<>>
      BY <1>1, <2>4, Slot, FirstTaken DEF Reading
    <2>6. remote[p] = "gone"
      BY <1>1, <2>4 DEF HostInv, WireInOrder, Reading
    <2>7. LinkOf' = LinkOf /\ LinkOf[p] # "closed"
      BY <1>3, <2>2 DEF LinkOf
    <2>8. SendingOf' = SendingOf \ {p}
      BY <2>1, <2>6 DEF SendingOf
    <2>9. ChannelOf' = [ChannelOf EXCEPT ![p] = SubSeq(ChannelOf[p], 1, 0)]
      <3>1. /\ dispatchedCommands'[p] = <<>> /\ wire'[p] = <<>>
            /\ \A q \in Peers : q # p =>
                  dispatchedCommands'[q] = dispatchedCommands[q] /\ wire'[q] = wire[q]
        BY <2>3, <2>5
      <3>2. <<>> \o Sent(<<>>) = <<>>
        <4>1. <<>> \o <<>> = <<>>
          OBVIOUS
        <4>. QED
          BY <4>1, NoneSent
      <3>3. ChannelOf[p] \in Seq(Payloads)
        <4>1. /\ dispatchedCommands[p] \in Seq(Payloads) /\ Sent(wire[p]) \in Seq(Payloads)
              /\ ChannelOf[p] = dispatchedCommands[p] \o Sent(wire[p])
          BY Slot
        <4>. QED
          BY <4>1, ConcatProperties
      <3>4. SubSeq(ChannelOf[p], 1, 0) = <<>> /\ 0 \in 0..Len(ChannelOf[p])
        BY <3>3
      <3>. QED
        BY <3>1, <3>2, <3>4, ChannelChange
    <2>10. 0 \in 0..Len(ChannelOf[p])
      <3>1. /\ dispatchedCommands[p] \in Seq(Payloads) /\ Sent(wire[p]) \in Seq(Payloads)
            /\ ChannelOf[p] = dispatchedCommands[p] \o Sent(wire[p])
        BY Slot
      <3>2. ChannelOf[p] \in Seq(Payloads)
        BY <3>1, ConcatProperties
      <3>. QED
        BY <3>2
    <2>. QED
      BY <1>1, <2>7, <2>8, <2>9, <2>10 DEF Links!Break
  <1>. QED
    BY <1>2, <1>3 DEF HandleDisconnect

LEMMA Zombifies ==
    ASSUME HostInv, NEW p \in Peers, SendAcknowledgement(p)
    PROVE  UNCHANGED Links!vars
  <1>1. /\ peerState[p] = "ACKNOWLEDGING_DISCONNECT" /\ peerState \in [Peers -> PeerStates]
        /\ peerState' = [peerState EXCEPT ![p] = "ZOMBIE"]
        /\ UNCHANGED <<dispatchedCommands, remote, wire, event>>
    BY DEF HostInv, HostTypeOK, SendAcknowledgement, change_state, netVars
  <1>2. LinkOf' = LinkOf
    BY <1>1 DEF LinkOf
  <1>. QED
    BY <1>1, <1>2 DEF Links!vars, SendingOf, ChannelOf

LEMMA Crashes ==
    ASSUME HostRestart
    PROVE  Links!Crash
  <1>1. /\ peerState' = [p \in Peers |-> "DISCONNECTED"]
        /\ dispatchedCommands' = [p \in Peers |-> <<>>] /\ event' = NoEvent
        /\ remote' = [p \in Peers |-> "absent"] /\ wire' = [p \in Peers |-> <<>>]
    BY DEF HostRestart
  <1>2. <<>> \o Sent(<<>>) = <<>>
    <2>1. <<>> \o <<>> = <<>>
      OBVIOUS
    <2>. QED
      BY <2>1, NoneSent
  <1>3. LinkOf' = [p \in Peers |-> "closed"] /\ SendingOf' = {}
    BY <1>1 DEF LinkOf, SendingOf
  <1>4. ChannelOf' = [p \in Peers |-> <<>>]
    BY <1>1, <1>2 DEF ChannelOf
  <1>. QED
    BY <1>1, <1>3, <1>4 DEF Links!Crash, Links!NoEvent, NoEvent

LEMMA Begins ==
    ASSUME HostInit
    PROVE  Links!Init
  <1>1. <<>> \o Sent(<<>>) = <<>>
    <2>1. <<>> \o <<>> = <<>>
      OBVIOUS
    <2>. QED
      BY <2>1, NoneSent
  <1>2. LinkOf = [p \in Peers |-> "closed"] /\ SendingOf = {}
    BY DEF HostInit, LinkOf, SendingOf
  <1>3. ChannelOf = [p \in Peers |-> <<>>]
    BY <1>1 DEF HostInit, ChannelOf
  <1>. QED
    BY <1>2, <1>3 DEF HostInit, Links!Init, Links!NoEvent, NoEvent

LEMMA StepsAreLinkSteps ==
    ASSUME HostInv, [HostNext]_enetVars
    PROVE  [Links!Next]_(Links!vars)
  <1>1. CASE \/ UNCHANGED enetVars
             \/ DispatchDone \/ SendDone \/ EndDatagram \/ ReceiveDone \/ Wait \/ Fail
    BY <1>1, Stutters
  <1>2. CASE Service
    BY <1>2, Asks DEF Links!Next
  <1>3. ASSUME NEW p \in Peers,
               DispatchReceive(p) \/ DispatchZombie(p) \/ DispatchSkip(p)
        PROVE  [Links!Next]_(Links!vars)
    BY <1>3, Delivers, Closes, Stutters DEF Links!Next
  <1>4. ASSUME NEW p \in Peers,
               SendAcknowledgement(p) \/ SendVerifyConnect(p) \/ TimeOut(p) \/ SendNothing(p)
        PROVE  [Links!Next]_(Links!vars)
    BY <1>4, Zombifies, Verifies, TimesOut, Stutters DEF Links!Next
  <1>5. ASSUME NEW p \in Peers,
               \/ ReceiveConnect(p) \/ ReceiveDatagram(p)
               \/ HandleAcknowledge(p) \/ HandleSendReliable(p) \/ RefuseData(p)
               \/ HandleDisconnect(p)
        PROVE  [Links!Next]_(Links!vars)
    BY <1>5, Arrives, Opens, Queues, Leaves, Stutters DEF Links!Next
  <1>6. ASSUME NEW p \in Peers, RemoteAcknowledge(p) \/ RemoteLeave(p)
        PROVE  [Links!Next]_(Links!vars)
    BY <1>6, Accepts, Breaks DEF Links!Next
  <1>7. ASSUME NEW p \in Peers, NEW m \in Payloads, RemoteSend(p, m)
        PROVE  [Links!Next]_(Links!vars)
    BY <1>7, Sends DEF Links!Next
  <1>8. CASE HostRestart
    BY <1>8, Crashes DEF Links!Next
  <1>. QED
    BY <1>1, <1>2, <1>3, <1>4, <1>5, <1>6, <1>7, <1>8
       DEF HostNext, HostStep, Dispatch, SendOutgoing, ReceiveIncoming, RemoteStep

(* Whatever the other ends and the network do, the program sees links that open,    *)
(* deliver in order what was sent, each packet once, and close.                *)
THEOREM HostImplementsLinks == HostSpec => ImplementsLinkEvents
  <1>1. HostInit => Links!Init
    BY Begins
  <1>2. HostInv /\ [HostNext]_enetVars => [Links!Next]_(Links!vars)
    BY StepsAreLinkSteps
  <1>. QED
    BY <1>1, <1>2, HostInvariant, PTL DEF HostSpec, ImplementsLinkEvents, Links!Spec
================================================================================
