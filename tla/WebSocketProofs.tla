---------------------------- MODULE WebSocketProofs ----------------------------
(****************************************************************************)
(* What TLAPS proves of WebSocketConnection, for all requests, all frames,      *)
(* however they are cut, and any number of sends and closes: its write queue is  *)
(* always looked after, its writes do not overlap and stop where they must, the   *)
(* program is told of the end once; every message the client wrote is delivered,   *)
(* only malformed frames are refused, and the handlers see what WebSocketEvents   *)
(* promises.                                                                *)
(*                                                                          *)
(* IInv is about the queue and the end, and is inductive by itself.  ConnectionInv *)
(* adds what is read: the processor stands where its bytes end (ReadsAt), among   *)
(* frames that may follow each other (ReadWell).                              *)
(****************************************************************************)
EXTENDS WebSocketConnection, SequenceTheorems, WellFoundedInduction, TLAPS

(* Nothing has been sent: so it is until the response to the handshake is written.     *)
Frames == [op : {"DATA", "PONG", "CLOSE"}, terminal : BOOLEAN]

Silent ==
    /\ m_send_queue = <<>> /\ m_current_msgs = <<>> /\ wire = <<>>
    /\ dispatched = 0 /\ sender = "idle" /\ ~ m_write_flag

QueueTyped ==
    /\ m_state \in {"connecting", "open", "closing", "closed"}
    /\ m_write_flag \in BOOLEAN
    /\ dispatched \in Nat
    /\ m_send_queue \in Seq(Frames) /\ m_current_msgs \in Seq(Frames) /\ wire \in Seq(Frames)
    /\ writes \in {<<>>, <<"http">>, <<"frames">>}
    /\ sender \in {"idle", "checked", "pushed"}
    /\ reading \in {"none", "handshake", "frame", "buffer"}

(* The stages of the opening handshake follow each other, and the sending of frames      *)
(* follows them.                                                              *)
Opening ==
    /\ m_internal_state = "USER_INIT" /\ m_state = "connecting" => writes = <<>>
    /\ reading = "handshake" => m_state \in {"connecting", "closed"} /\ Silent /\ writes = <<>>
    /\ reading \in {"frame", "buffer"} => m_state # "connecting"
    /\ m_state = "connecting" => Silent
    /\ writes = <<"http">> => /\ m_state \in {"connecting", "closed"} /\ Silent
                              /\ reading = "none"

(* m_write_flag is held while frames are written, and for ever after the last of them.   *)
FlagHeld ==
    /\ writes = <<"frames">> => m_write_flag /\ m_current_msgs # <<>>
    /\ m_write_flag /\ m_state \in {"open", "closing"} => writes = <<"frames">>

NoneTerminal(frames) == \A i \in 1..Len(frames) : ~ frames[i].terminal
LastTerminal(frames) == \A i \in 1..(Len(frames) - 1) : ~ frames[i].terminal

StopsAtLast ==
    /\ LastTerminal(m_current_msgs) /\ LastTerminal(wire)
    /\ ~ m_write_flag \/ writes = <<"frames">> => NoneTerminal(wire)

(* The program is told when the connection closes, and not before.                  *)
ToldOfTheEnd ==
    /\ m_state # "closed" => called = <<>>
    /\ m_state = "closed" => called \in {<<"fail">>, <<"close">>}

IInv ==
    /\ QueueTyped /\ Opening /\ FlagHeld /\ StopsAtLast /\ QueueIsAttended /\ ToldOfTheEnd

--------------------------------------------------------------------------------
(* A set of numbers has a least one.                                           *)
LEMMA Least == ASSUME NEW T \in SUBSET Nat, T # {} PROVE \E i \in T : \A j \in T : i <= j
  <1>1. PICK x \in T : \A y \in T : ~ (<<y, x>> \in OpToRel(<, Nat))
    BY NatLessThanWellFounded, WFMin
  <1>2. \A y \in T : ~ (y < x)
    BY <1>1 DEF OpToRel
  <1>. QED
    BY <1>2

(* What write_frame takes from the queue ends with the first terminal frame.          *)
LEMMA ReadyIs ==
    ASSUME NEW queue \in Seq(Frames), queue # <<>>
    PROVE  /\ Ready(queue) \in Seq(Frames) /\ Ready(queue) # <<>>
           /\ LastTerminal(Ready(queue))
           /\ SubSeq(queue, Len(Ready(queue)) + 1, Len(queue)) \in Seq(Frames)
  <1> DEFINE ends == {i \in DOMAIN queue : queue[i].terminal}
  <1>1. CASE ends = {}
    <2>1. Ready(queue) = queue
      BY <1>1 DEF Ready
    <2>2. LastTerminal(queue)
      BY <1>1 DEF LastTerminal
    <2>3. SubSeq(queue, Len(queue) + 1, Len(queue)) = <<>>
      BY SubSeqEmpty
    <2>. QED
      BY <2>1, <2>2, <2>3
  <1>2. CASE ends # {}
    <2> DEFINE first == CHOOSE i \in ends : \A j \in ends : i <= j
    <2>1. \E i \in ends : \A j \in ends : i <= j
      <3>1. ends \in SUBSET Nat
        OBVIOUS
      <3>. QED
        BY <1>2, <3>1, Least
    <2>2. first \in ends /\ \A j \in ends : first <= j
      BY <2>1
    <2>3. Ready(queue) = SubSeq(queue, 1, first)
      BY <1>2 DEF Ready
    <2> HIDE DEF first
    <2>4. first \in 1..Len(queue)
      BY <2>2
    <2>5. /\ Ready(queue) \in Seq(Frames) /\ Len(Ready(queue)) = first
          /\ \A i \in 1..first : Ready(queue)[i] = queue[i]
      BY <2>3, <2>4, SubSeqProperties
    <2>6. LastTerminal(Ready(queue))
      BY <2>2, <2>4, <2>5 DEF LastTerminal
    <2>7. SubSeq(queue, first + 1, Len(queue)) \in Seq(Frames)
      BY <2>4, SubSeqProperties
    <2>. QED
      BY <2>4, <2>5, <2>6, <2>7
  <1>. QED
    BY <1>1, <1>2

LEMMA Appended ==
    ASSUME NEW queue \in Seq(Frames), NEW frame \in Frames
    PROVE  Append(queue, frame) \in Seq(Frames) /\ Append(queue, frame) # <<>>
  BY AppendProperties

LEMMA WireGrows ==
    ASSUME NEW written \in Seq(Frames), NEW frames \in Seq(Frames), NoneTerminal(written),
           LastTerminal(frames), frames # <<>>
    PROVE  /\ written \o frames \in Seq(Frames) /\ LastTerminal(written \o frames)
           /\ ~ Last(frames).terminal => NoneTerminal(written \o frames)
  <1>1. /\ written \o frames \in Seq(Frames) /\ Len(written \o frames) = Len(written) + Len(frames)
        /\ \A i \in 1..(Len(written) + Len(frames)) :
              (written \o frames)[i] = IF i <= Len(written) THEN written[i]
                                       ELSE frames[i - Len(written)]
    BY ConcatProperties
  <1>2. Last(frames) = frames[Len(frames)] /\ Len(frames) \in Nat \ {0} /\ Len(written) \in Nat
    BY DEF Last
  <1>. QED
    BY <1>1, <1>2 DEF NoneTerminal, LastTerminal

--------------------------------------------------------------------------------
(* What a step may do to the state and the queue.                                *)

(* A frame is pushed on an open or closing connection.                            *)
Pushes(frame) ==
    /\ m_state \in {"open", "closing"} /\ frame \in Frames
    /\ write_push(frame)
    /\ UNCHANGED senderVars

Remains == m_state' = m_state /\ called' = called

SendsClose == m_state' = "closing" /\ called' = called /\ \E frame \in Frames : Pushes(frame)
SendsPong == Remains /\ \E frame \in Frames : Pushes(frame)
Closes == m_state' = "closed" /\ called' = called \o Told(m_state) /\ UNCHANGED <<queueVars, senderVars>>
Stays == Remains /\ UNCHANGED <<queueVars, senderVars>>

ReadsOn ==
    \/ reading' = reading \/ reading' = "none"
    \/ {reading, reading'} \subseteq {"frame", "buffer"}

LEMMA Pushing ==
    ASSUME IInv, NEW frame \in Frames, Pushes(frame), m_state' \in {m_state, "closing"}, called' = called,
           ReadsOn
    PROVE  IInv'
  <1>1. /\ m_state \in {"open", "closing"} /\ m_state' \in {"open", "closing"}
        /\ m_send_queue' = Append(m_send_queue, frame)
        /\ dispatched' = IF NeedsWriting(m_send_queue') THEN dispatched + 1 ELSE dispatched
        /\ UNCHANGED <<m_current_msgs, m_write_flag, writes, wire, sender>>
    BY DEF Pushes, write_push, senderVars
  <1>2. m_send_queue' \in Seq(Frames) /\ m_send_queue' # <<>>
    BY <1>1, Appended DEF IInv, QueueTyped
  <1>3. QueueTyped'
    BY <1>1, <1>2 DEF IInv, QueueTyped, ReadsOn
  <1>4. Opening'
    BY <1>1 DEF IInv, Opening, ReadsOn
  <1>5. FlagHeld' /\ StopsAtLast' /\ ToldOfTheEnd'
    BY <1>1 DEF IInv, FlagHeld, StopsAtLast, LastTerminal, NoneTerminal, ToldOfTheEnd
  <1>6. QueueIsAttended'
    <2>1. CASE m_write_flag
      <3>1. writes' = <<"frames">>
        BY <1>1, <2>1 DEF IInv, FlagHeld
      <3>2. "frames" \in ToSet(writes')
        BY <3>1 DEF ToSet
      <3>. QED
        BY <3>2 DEF QueueIsAttended
    <2>2. CASE ~ m_write_flag
      <3>1. dispatched' = dispatched + 1 /\ dispatched \in Nat
        BY <1>1, <1>2, <2>2 DEF NeedsWriting, IInv, QueueTyped
      <3>. QED
        BY <3>1 DEF QueueIsAttended
    <2>. QED
      BY <2>1, <2>2
  <1>. QED
    BY <1>3, <1>4, <1>5, <1>6 DEF IInv

(* Whoever closes the connection tells the program, if nobody did before.              *)
LEMMA ToldIs ==
    ASSUME QueueTyped, ToldOfTheEnd
    PROVE  called \o Told(m_state) \in {<<"fail">>, <<"close">>}
  <1>1. <<"fail">> \in Seq({"fail", "close"}) /\ <<"close">> \in Seq({"fail", "close"})
    OBVIOUS
  <1>2. \A told \in Seq({"fail", "close"}) : <<>> \o told = told /\ told \o <<>> = told
    BY ConcatEmptySeq
  <1>3. CASE m_state = "closed"
    <2>1. Told(m_state) = <<>> /\ called \in {<<"fail">>, <<"close">>}
      BY <1>3 DEF Told, ToldOfTheEnd
    <2>. QED
      BY <1>1, <1>2, <2>1
  <1>4. CASE m_state # "closed"
    <2>1. Told(m_state) \in {<<"fail">>, <<"close">>} /\ called = <<>>
      BY <1>4 DEF Told, ToldOfTheEnd, QueueTyped
    <2>. QED
      BY <1>1, <1>2, <2>1
  <1>. QED
    BY <1>3, <1>4

LEMMA Closing == ASSUME IInv, Closes, ReadsOn PROVE IInv'
  <1> USE DEF Closes, queueVars, senderVars
  <1>1. QueueTyped' /\ Opening'
    BY DEF IInv, QueueTyped, Opening, Silent, ReadsOn
  <1>2. FlagHeld' /\ StopsAtLast' /\ QueueIsAttended'
    BY DEF IInv, FlagHeld, StopsAtLast, LastTerminal, NoneTerminal, QueueIsAttended
  <1>3. called' \in {<<"fail">>, <<"close">>}
    BY ToldIs DEF IInv
  <1>. QED
    BY <1>1, <1>2, <1>3 DEF IInv, ToldOfTheEnd

LEMMA Staying ==
    ASSUME IInv, Stays, ReadsOn,
           m_internal_state' = m_internal_state \/ m_internal_state' # "USER_INIT"
    PROVE  IInv'
  <1> USE DEF Stays, Remains, queueVars, senderVars
  <1>1. QueueTyped' /\ Opening'
    BY DEF IInv, QueueTyped, Opening, Silent, ReadsOn
  <1>2. FlagHeld' /\ StopsAtLast' /\ QueueIsAttended' /\ ToldOfTheEnd'
    BY DEF IInv, FlagHeld, StopsAtLast, LastTerminal, NoneTerminal, QueueIsAttended, ToldOfTheEnd
  <1>. QED
    BY <1>1, <1>2 DEF IInv


--------------------------------------------------------------------------------
(* The steps.                                                               *)
LEMMA TerminateIs ==
    ASSUME Terminate
    PROVE  m_state' = "closed" /\ called' = called \o Told(m_state)
  BY DEF Terminate, EndConnection

LEMMA Initially == WebSocketInit => IInv
  <1> SUFFICES ASSUME WebSocketInit PROVE IInv
    OBVIOUS
  <1> USE DEF WebSocketInit
  <1>1. QueueTyped
    <2>1. <<>> \in Seq(Frames)
      OBVIOUS
    <2>2. /\ m_state = "connecting" /\ ~ m_write_flag /\ m_write_flag \in BOOLEAN
          /\ dispatched = 0 /\ writes = <<>> /\ sender = "idle" /\ reading = "none"
          /\ m_send_queue = <<>> /\ m_current_msgs = <<>> /\ wire = <<>>
      OBVIOUS
    <2>. QED
      BY <2>1, <2>2 DEF QueueTyped
  <1>2. Opening
    BY DEF Opening, Silent
  <1>3. FlagHeld
    BY DEF FlagHeld
  <1>4. StopsAtLast /\ QueueIsAttended /\ ToldOfTheEnd
    BY DEF StopsAtLast, LastTerminal, NoneTerminal, QueueIsAttended, ToldOfTheEnd
  <1>. QED
    BY <1>1, <1>2, <1>3, <1>4 DEF IInv

LEMMA WriteFrameStep == ASSUME IInv, write_frame PROVE IInv'
  <1>1. /\ reading # "buffer" /\ dispatched > 0 /\ dispatched' = dispatched - 1
        /\ UNCHANGED <<m_state, called, m_internal_state, reading, sender, wire>>
    BY DEF write_frame, Free, stateVars, readVars, senderVars
  <1>2. m_state # "connecting" /\ reading # "handshake" /\ writes # <<"http">>
    BY <1>1 DEF IInv, Opening, Silent
  <1>3. CASE MayWrite
    <2>1. /\ ~ m_write_flag /\ m_send_queue # <<>>
          /\ m_current_msgs' = Ready(m_send_queue)
          /\ m_send_queue' = SubSeq(m_send_queue, Len(Ready(m_send_queue)) + 1, Len(m_send_queue))
          /\ m_write_flag' = TRUE
          /\ writes' = Append(writes, "frames")
      BY <1>3 DEF write_frame, MayWrite
    <2>2. writes = <<>>
      BY <1>2, <2>1 DEF IInv, QueueTyped, FlagHeld
    <2>3. writes' = <<"frames">>
      BY <2>1, <2>2
    <2>4. /\ m_current_msgs' \in Seq(Frames) /\ m_current_msgs' # <<>>
          /\ LastTerminal(m_current_msgs)'
          /\ m_send_queue' \in Seq(Frames)
      BY <2>1, ReadyIs DEF IInv, QueueTyped, LastTerminal
    <2>5. QueueTyped'
      <3>1. dispatched' \in Nat
        BY <1>1 DEF IInv, QueueTyped
      <3>. QED
        BY <1>1, <2>1, <2>3, <2>4, <3>1 DEF IInv, QueueTyped
    <2>6. Opening' /\ FlagHeld' /\ ToldOfTheEnd'
      <3>1. writes' # <<"http">> /\ writes' = <<"frames">>
        BY <2>3
      <3>2. Opening'
        BY <1>1, <1>2, <3>1 DEF IInv, Opening
      <3>3. FlagHeld' /\ ToldOfTheEnd'
        BY <1>1, <2>1, <2>4, <3>1 DEF IInv, FlagHeld, ToldOfTheEnd
      <3>. QED
        BY <3>2, <3>3
    <2>7. StopsAtLast'
      BY <1>1, <2>1, <2>4 DEF IInv, StopsAtLast, LastTerminal, NoneTerminal
    <2>8. QueueIsAttended'
      BY <2>3 DEF QueueIsAttended, ToSet
    <2>. QED
      BY <2>5, <2>6, <2>7, <2>8 DEF IInv
  <1>4. CASE ~ MayWrite
    <2>1. UNCHANGED <<m_send_queue, m_current_msgs, m_write_flag, writes>>
      BY <1>4 DEF write_frame
    <2>2. QueueTyped' /\ Opening' /\ FlagHeld' /\ ToldOfTheEnd'
      BY <1>1, <1>2, <2>1 DEF IInv, QueueTyped, Opening, FlagHeld, ToldOfTheEnd
    <2>3. StopsAtLast'
      BY <1>1, <2>1 DEF IInv, StopsAtLast, LastTerminal, NoneTerminal
    <2>4. QueueIsAttended'
      <3> SUFFICES ASSUME m_state \in {"open", "closing"}, m_send_queue # <<>>
                   PROVE  "frames" \in ToSet(writes')
        BY <1>1, <2>1 DEF QueueIsAttended
      <3>1. m_write_flag
        BY <1>4 DEF MayWrite, IInv, QueueTyped
      <3>2. writes' = <<"frames">>
        BY <2>1, <3>1 DEF IInv, FlagHeld
      <3>. QED
        BY <3>2 DEF ToSet
    <2>. QED
      BY <2>2, <2>3, <2>4 DEF IInv
  <1>. QED
    BY <1>3, <1>4

LEMMA HandleWriteFrameStep == ASSUME IInv, NEW failed \in BOOLEAN, handle_write_frame(failed) PROVE IInv'
  <1>1. /\ writes = <<"frames">> /\ writes' = <<>> /\ m_current_msgs' = <<>>
        /\ wire' = IF failed THEN wire ELSE wire \o m_current_msgs
        /\ UNCHANGED <<reading, m_send_queue, sender>>
    <2>1. /\ writes # <<>> /\ Head(writes) = "frames" /\ writes' = Tail(writes)
          /\ m_current_msgs' = <<>>
          /\ wire' = IF failed THEN wire ELSE wire \o m_current_msgs
          /\ UNCHANGED <<reading, m_send_queue, sender>>
      BY DEF handle_write_frame, readVars, senderVars
    <2>2. writes = <<"frames">>
      BY <2>1 DEF IInv, QueueTyped
    <2>. QED
      BY <2>1, <2>2
  <1>2. m_write_flag /\ m_current_msgs # <<>> /\ m_state # "connecting" /\ reading # "handshake"
    BY <1>1 DEF IInv, FlagHeld, Opening, Silent
  <1>3. /\ wire' \in Seq(Frames) /\ LastTerminal(wire')
        /\ ~ failed /\ ~ Last(m_current_msgs).terminal => NoneTerminal(wire')
    <2>1. CASE failed
      BY <1>1, <2>1 DEF IInv, QueueTyped, StopsAtLast
    <2>2. CASE ~ failed
      <3>1. NoneTerminal(wire) /\ LastTerminal(m_current_msgs)
        BY <1>1 DEF IInv, StopsAtLast
      <3>. QED
        BY <1>1, <1>2, <2>2, <3>1, WireGrows DEF IInv, QueueTyped
    <2>. QED
      BY <2>1, <2>2
  <1>4. CASE failed \/ Last(m_current_msgs).terminal
    <2>1. /\ m_state' = "closed" /\ called' = called \o Told(m_state)
          /\ UNCHANGED <<m_write_flag, dispatched>>
      BY <1>4, TerminateIs DEF handle_write_frame
    <2>2. QueueTyped' /\ Opening' /\ FlagHeld'
      BY <1>1, <1>2, <1>3, <2>1 DEF IInv, QueueTyped, Opening, FlagHeld
    <2>3. StopsAtLast'
      BY <1>1, <1>2, <1>3, <2>1 DEF StopsAtLast, LastTerminal, NoneTerminal
    <2>4. QueueIsAttended' /\ ToldOfTheEnd'
      BY <2>1, ToldIs DEF IInv, QueueIsAttended, ToldOfTheEnd
    <2>. QED
      BY <2>2, <2>3, <2>4 DEF IInv
  <1>5. CASE ~ (failed \/ Last(m_current_msgs).terminal)
    <2>1. /\ UNCHANGED <<m_state, called, m_internal_state>> /\ m_write_flag' = FALSE
          /\ dispatched' = IF m_send_queue # <<>> THEN dispatched + 1 ELSE dispatched
      BY <1>5 DEF handle_write_frame, WriteMore, stateVars
    <2>2. QueueTyped'
      <3>1. dispatched' \in Nat
        BY <2>1 DEF IInv, QueueTyped
      <3>2. <<>> \in Seq(Frames)
        OBVIOUS
      <3>3. m_write_flag' \in BOOLEAN
        BY <2>1, Zenon
      <3>4. /\ m_send_queue' \in Seq(Frames) /\ m_current_msgs' \in Seq(Frames)
            /\ wire' \in Seq(Frames)
        BY <1>1, <1>3, <3>2 DEF IInv, QueueTyped
      <3>. QED
        BY <1>1, <2>1, <3>1, <3>3, <3>4 DEF IInv, QueueTyped
    <2>3. Opening' /\ FlagHeld' /\ ToldOfTheEnd'
      BY <1>1, <1>2, <2>1 DEF IInv, Opening, FlagHeld, ToldOfTheEnd
    <2>4. StopsAtLast'
      BY <1>1, <1>3, <1>5 DEF StopsAtLast, LastTerminal, NoneTerminal
    <2>5. QueueIsAttended'
      BY <1>1, <2>1 DEF IInv, QueueTyped, QueueIsAttended
    <2>. QED
      BY <2>2, <2>3, <2>4, <2>5 DEF IInv
  <1>. QED
    BY <1>4, <1>5

LEMMA SenderSteps == ASSUME IInv, SendChecks \/ SendPushes \/ SendDispatches PROVE IInv'
  <1>1. CASE SendChecks
    <2>1. m_state = "open" /\ sender = "idle" /\ sender' = "checked"
          /\ UNCHANGED <<m_state, called, m_internal_state, reading, queueVars>>
      BY <1>1 DEF SendChecks, stateVars, readVars
    <2> USE <2>1 DEF queueVars
    <2>2. QueueTyped' /\ Opening' /\ FlagHeld' /\ ToldOfTheEnd'
      BY DEF IInv, QueueTyped, Opening, FlagHeld, ToldOfTheEnd
    <2>3. StopsAtLast' /\ QueueIsAttended'
      BY DEF IInv, StopsAtLast, LastTerminal, NoneTerminal, QueueIsAttended
    <2>. QED
      BY <2>2, <2>3 DEF IInv
  <1>2. CASE SendPushes
    <2>1. /\ sender = "checked" /\ m_send_queue' = Append(m_send_queue, prepare_data_frame)
          /\ sender' = IF NeedsWriting(m_send_queue') THEN "pushed" ELSE "idle"
          /\ UNCHANGED <<m_state, called, m_internal_state, reading, m_current_msgs, m_write_flag,
                         writes, dispatched, wire>>
      BY <1>2 DEF SendPushes, stateVars, readVars
    <2>2. m_state # "connecting" /\ reading # "handshake" /\ writes # <<"http">>
      BY <2>1 DEF IInv, Opening, Silent
    <2>3. m_send_queue' \in Seq(Frames) /\ m_send_queue' # <<>>
      <3>1. prepare_data_frame \in Frames
        BY DEF prepare_data_frame, Frames
      <3>. QED
        BY <2>1, <3>1, Appended DEF IInv, QueueTyped
    <2>4. QueueTyped' /\ Opening' /\ FlagHeld' /\ ToldOfTheEnd'
      BY <2>1, <2>2, <2>3 DEF IInv, QueueTyped, Opening, FlagHeld, ToldOfTheEnd
    <2>5. StopsAtLast'
      BY <2>1 DEF IInv, StopsAtLast, LastTerminal, NoneTerminal
    <2>6. QueueIsAttended'
      <3> SUFFICES ASSUME m_state \in {"open", "closing"}, sender' # "pushed"
                   PROVE  "frames" \in ToSet(writes')
        BY <2>1 DEF QueueIsAttended
      <3>1. writes' = <<"frames">>
        BY <2>1, <2>3 DEF NeedsWriting, IInv, FlagHeld, QueueTyped
      <3>. QED
        BY <3>1 DEF ToSet
    <2>. QED
      BY <2>4, <2>5, <2>6 DEF IInv
  <1>3. CASE SendDispatches
    <2>1. /\ sender = "pushed" /\ sender' = "idle" /\ dispatched' = dispatched + 1
          /\ UNCHANGED <<m_state, called, m_internal_state, reading, m_send_queue, m_current_msgs,
                         m_write_flag, writes, wire>>
      BY <1>3 DEF SendDispatches, stateVars, readVars
    <2>2. QueueTyped' /\ Opening' /\ FlagHeld' /\ ToldOfTheEnd'
      BY <2>1 DEF IInv, QueueTyped, Opening, Silent, FlagHeld, ToldOfTheEnd
    <2>3. StopsAtLast'
      BY <2>1 DEF IInv, StopsAtLast, LastTerminal, NoneTerminal
    <2>4. QueueIsAttended'
      BY <2>1 DEF IInv, QueueTyped, QueueIsAttended
    <2>. QED
      BY <2>2, <2>3, <2>4 DEF IInv
  <1>. QED
    BY <1>1, <1>2, <1>3


(* The opening handshake.                                                    *)
LEMMA AcceptStep == ASSUME IInv, handle_accept PROVE IInv'
  <1>1. m_state = "connecting" /\ writes = <<>> /\ Silent /\ UNCHANGED <<queueVars, senderVars>>
    BY DEF handle_accept, IInv, Opening
  <1>2. CASE reading' = "handshake" /\ UNCHANGED <<m_state, called>>
    <2> USE <1>1, <1>2 DEF queueVars, senderVars
    <2>1. QueueTyped' /\ Opening' /\ FlagHeld' /\ ToldOfTheEnd'
      BY DEF IInv, QueueTyped, Opening, Silent, FlagHeld, ToldOfTheEnd
    <2>2. StopsAtLast' /\ QueueIsAttended'
      BY DEF IInv, StopsAtLast, LastTerminal, NoneTerminal, QueueIsAttended
    <2>. QED
      BY <2>1, <2>2 DEF IInv
  <1>3. CASE Terminate /\ reading' = reading
    <2>1. Closes
      BY <1>1, <1>3, TerminateIs DEF Closes
    <2>2. ReadsOn
      BY <1>3 DEF ReadsOn
    <2>. QED
      BY <2>1, <2>2, Closing
  <1>. QED
    BY <1>2, <1>3 DEF handle_accept

LEMMA ReadHandshakeStep ==
    ASSUME IInv, NEW n \in 1..(StreamLength - arrived), handle_read_handshake(n)
    PROVE  IInv'
  <1>1. /\ reading = "handshake" /\ Silent /\ writes = <<>> /\ m_state \in {"connecting", "closed"}
        /\ UNCHANGED <<m_state, called, m_send_queue, m_current_msgs, m_write_flag, dispatched, wire,
                       senderVars>>
    BY DEF handle_read_handshake, IInv, Opening
  <1>2. \/ reading' \in {"handshake", "none"} /\ UNCHANGED <<writes, m_internal_state>>
        \/ /\ reading' = "none" /\ writes' = Append(writes, "http")
           /\ m_internal_state' = "PROCESS_HTTP_REQUEST"
    BY <1>1 DEF handle_read_handshake, write_http_response
  <1>3. writes' \in {<<>>, <<"http">>}
    BY <1>1, <1>2
  <1> USE <1>1, <1>2, <1>3 DEF senderVars
  <1>4. QueueTyped'
    BY DEF IInv, QueueTyped
  <1>5. Opening'
    <2>1. Silent'
      BY DEF Silent
    <2>2. writes' = <<"http">> => reading' = "none" /\ m_internal_state' = "PROCESS_HTTP_REQUEST"
      BY DEF IInv
    <2>. QED
      BY <2>1, <2>2 DEF IInv, Opening
  <1>6. FlagHeld' /\ ToldOfTheEnd'
    BY DEF IInv, FlagHeld, ToldOfTheEnd, Silent
  <1>7. StopsAtLast' /\ QueueIsAttended'
    BY DEF IInv, StopsAtLast, LastTerminal, NoneTerminal, QueueIsAttended, Silent
  <1>. QED
    BY <1>4, <1>5, <1>6, <1>7 DEF IInv

LEMMA WriteResponseStep ==
    ASSUME IInv, NEW failed \in BOOLEAN, handle_write_http_response(failed)
    PROVE  IInv'
  <1>1. /\ writes = <<"http">> /\ writes' = <<>> /\ Silent
        /\ m_state \in {"connecting", "closed"} /\ reading = "none"
        /\ UNCHANGED <<m_send_queue, m_current_msgs, m_write_flag, dispatched, wire, senderVars>>
    <2>1. /\ writes # <<>> /\ Head(writes) = "http" /\ writes' = Tail(writes)
          /\ UNCHANGED <<m_send_queue, m_current_msgs, m_write_flag, dispatched, wire, senderVars>>
      BY DEF handle_write_http_response
    <2>2. writes = <<"http">>
      BY <2>1 DEF IInv, QueueTyped
    <2>. QED
      BY <2>1, <2>2 DEF IInv, Opening
  <1>2. \/ m_state' = "closed" /\ called' = called \o Told(m_state) /\ reading' = reading
        \/ m_state = "closed" /\ UNCHANGED <<m_state, called, reading>>
        \/ m_state = "connecting" /\ m_state' = "open" /\ called' = called /\ reading' = "buffer"
    BY <1>1, TerminateIs DEF handle_write_http_response, stateVars
  <1> USE <1>1, <1>2 DEF senderVars
  <1>3. QueueTyped'
    BY DEF IInv, QueueTyped
  <1>4. Silent'
    BY DEF Silent
  <1>5. Opening' /\ FlagHeld'
    BY <1>4 DEF IInv, Opening, FlagHeld, Silent
  <1>6. ToldOfTheEnd'
    BY ToldIs DEF IInv, ToldOfTheEnd
  <1>7. StopsAtLast' /\ QueueIsAttended'
    BY <1>4 DEF Silent, StopsAtLast, LastTerminal, NoneTerminal, QueueIsAttended
  <1>. QED
    BY <1>3, <1>5, <1>6, <1>7 DEF IInv

(* Frames, the end of the stream, timers.                                         *)
LEMMA SendCloseFrameIs ==
    ASSUME NEW ack \in BOOLEAN, NEW terminal \in BOOLEAN, SendCloseFrame(ack, terminal),
           m_state \in {"open", "closing"}, UNCHANGED senderVars
    PROVE  /\ m_state' = "closing" /\ called' = called
           /\ \E frame \in Frames : Pushes(frame)
  <1>1. prepare_close(terminal) \in Frames
    BY DEF prepare_close, prepare_control, Frames
  <1>. QED
    BY <1>1 DEF SendCloseFrame, Pushes

LEMMA ProcessBytesIs ==
    ASSUME IInv, ProcessBytes
    PROVE  /\ ReadsOn
           /\ SendsClose \/ SendsPong \/ Closes \/ (Stays /\ UNCHANGED m_internal_state)
  <1>1. m_state \in {"open", "closing", "closed"} /\ UNCHANGED senderVars /\ reading = "buffer"
    BY DEF ProcessBytes, IInv, Opening, QueueTyped
  <1>2. ReadsOn
    BY DEF ProcessBytes, ReadsOn
  <1>3. ASSUME NEW op, NEW text, IsControl(op), process_control_frame(op, text)
        PROVE  SendsClose \/ SendsPong \/ Closes \/ (Stays /\ UNCHANGED m_internal_state)
    <2>1. CASE Same
      BY <1>1, <2>1 DEF Same, stateVars, Stays, Remains
    <2>2. CASE op = "PING" /\ pong /\ m_state = "open"
      <3>1. prepare_pong \in Frames
        BY DEF prepare_pong, prepare_control, Frames
      <3>. QED
        BY <1>1, <2>2, <3>1 DEF pong, SendsPong, Pushes, Remains, stateVars
    <2>3. CASE m_state # "closed" /\ SendCloseFrame(TRUE, TRUE)
      BY <1>1, <2>3, SendCloseFrameIs DEF SendsClose
    <2>4. CASE EndConnection /\ UNCHANGED queueVars
      BY <1>1, <2>4 DEF EndConnection, Closes
    <2>. QED
      BY <1>3, <2>1, <2>2, <2>3, <2>4 DEF process_control_frame, IsControl
  <1>4. CASE m_state = "open" /\ SendCloseFrame(FALSE, TRUE)
    BY <1>1, <1>2, <1>4, SendCloseFrameIs DEF SendsClose, SendCloseFrame
  <1>5. CASE Terminate /\ UNCHANGED queueVars
    BY <1>1, <1>2, <1>5, TerminateIs DEF Closes
  <1>6. CASE Same
    BY <1>1, <1>2, <1>6 DEF Same, stateVars, Stays, Remains
  <1>7. \/ m_state = "open" /\ SendCloseFrame(FALSE, TRUE)
        \/ Terminate /\ UNCHANGED queueVars
        \/ Same
        \/ \E op, text : IsControl(op) /\ process_control_frame(op, text)
    BY DEF ProcessBytes
  <1>. QED
    BY <1>1, <1>2, <1>3, <1>4, <1>5, <1>6, <1>7


LEMMA OtherSteps ==
    ASSUME IInv,
           \/ close \/ ReadFails \/ read_frame
           \/ \E n \in 1..(StreamLength - arrived) : handle_read_frame(n)
           \/ \E i \in DOMAIN timers : Expire(i) \/ handle_timer(i)
    PROVE  IInv'
  <1>1. CASE close
    <2>1. m_state = "open" /\ SendCloseFrame(FALSE, FALSE) /\ UNCHANGED <<reading, senderVars>>
      BY <1>1 DEF close, readVars
    <2>2. ReadsOn
      BY <2>1 DEF ReadsOn
    <2>. QED
      BY <2>1, <2>2, SendCloseFrameIs, Pushing
  <1>2. CASE ReadFails \/ \E i \in DOMAIN timers : handle_timer(i)
    <2>1. Closes
      BY <1>2, TerminateIs DEF ReadFails, handle_timer, EndConnection, Closes
    <2>2. ReadsOn
      BY <1>2 DEF ReadFails, handle_timer, readVars, ReadsOn
    <2>. QED
      BY <2>1, <2>2, Closing
  <1>3. CASE read_frame \/ (\E n \in 1..(StreamLength - arrived) : handle_read_frame(n))
             \/ \E i \in DOMAIN timers : Expire(i)
    <2>1. Stays /\ UNCHANGED m_internal_state
      BY <1>3 DEF read_frame, handle_read_frame, Expire, Stays, Remains, stateVars
    <2>2. ReadsOn
      BY <1>3 DEF read_frame, handle_read_frame, Expire, readVars, ReadsOn
    <2>. QED
      BY <2>1, <2>2, Staying
  <1>. QED
    BY <1>1, <1>2, <1>3

LEMMA StepHolds == ASSUME IInv, [WebSocketNext]_webSocketVars PROVE IInv'
  <1>1. CASE UNCHANGED webSocketVars
    <2>1. Stays /\ ReadsOn /\ UNCHANGED m_internal_state
      BY <1>1 DEF webSocketVars, stateVars, readVars, Stays, Remains, ReadsOn
    <2>. QED
      BY <2>1, Staying
  <1>2. CASE ProcessBytes
    <2>1. /\ ReadsOn
          /\ SendsClose \/ SendsPong \/ Closes \/ (Stays /\ UNCHANGED m_internal_state)
      BY <1>2, ProcessBytesIs
    <2>2. CASE SendsClose \/ SendsPong
      BY <2>1, <2>2, Pushing DEF SendsClose, SendsPong, Remains
    <2>. QED
      BY <2>1, <2>2, Closing, Staying
  <1>. QED
    BY <1>1, <1>2, WriteFrameStep, HandleWriteFrameStep, SenderSteps, AcceptStep, ReadHandshakeStep,
       WriteResponseStep, OtherSteps DEF WebSocketNext, Loop, Outside

LEMMA Invariant == WebSocketSpec => []IInv
  <1>1. IInv /\ [WebSocketNext]_webSocketVars => IInv'
    BY StepHolds
  <1>. QED
    BY Initially, <1>1, PTL DEF WebSocketSpec

--------------------------------------------------------------------------------
(* A frame that waits in m_send_queue is never forgotten, however the sending thread's   *)
(* locks and the io_service's handlers interleave (write_push, write_frame,          *)
(* handle_write_frame).                                                      *)
THEOREM QueueIsAlwaysAttended == WebSocketSpec => []QueueIsAttended
  <1>1. IInv => QueueIsAttended
    BY DEF IInv
  <1>. QED
    BY <1>1, Invariant, PTL

(* No frame is ever written after one that is marked terminal.                     *)
THEOREM TheLastIsLast == WebSocketSpec => []NothingFollowsTheLast
  <1>1. IInv => NothingFollowsTheLast
    BY DEF IInv, StopsAtLast, LastTerminal, NothingFollowsTheLast, QueueTyped
  <1>. QED
    BY <1>1, Invariant, PTL

(* There is never a second asio write, of the response or of frames: async_write's       *)
(* buffers are never cleared under it.                                        *)
THEOREM WritesDoNotOverlap == WebSocketSpec => []OneWriteAtATime
  <1>1. IInv => OneWriteAtATime
    <2>1. Len(<<>>) <= 1 /\ Len(<<"http">>) <= 1 /\ Len(<<"frames">>) <= 1
      OBVIOUS
    <2>. QED
      BY <2>1 DEF IInv, QueueTyped, OneWriteAtATime
  <1>. QED
    BY <1>1, Invariant, PTL

(* The fail handler or the close handler is called once, when the connection ends,      *)
(* although read errors, write errors, timers and CLOSE frames race for it (terminate).  *)
THEOREM TheEndIsToldOnce == WebSocketSpec => []ToldOfTheEnd
  <1>1. IInv => ToldOfTheEnd
    BY DEF IInv
  <1>. QED
    BY <1>1, Invariant, PTL

--------------------------------------------------------------------------------
(* Sequences put end to end.                                                  *)
Flattening(f, s, n) == f = [i \in 1..n |-> IF i = 1 THEN s[i] ELSE f[i - 1] \o s[i]]

LEMMA FlatteningExists == ASSUME NEW s, NEW n \in Nat PROVE \E f : Flattening(f, s, n)
  <1>. DEFINE Missing == {m \in Nat : ~ (\E f : Flattening(f, s, m))}
  <1>. SUFFICES ASSUME n \in Missing PROVE FALSE
    OBVIOUS
  <1>1. PICK m \in Missing : \A k \in Missing : m <= k
    BY Least
  <1>2. m # 0
    <2>1. Flattening([i \in 1..0 |-> 0], s, 0)
      BY DEF Flattening
    <2>. QED
      BY <2>1
  <1>3. m - 1 \in Nat /\ m - 1 \notin Missing
    BY <1>1, <1>2
  <1>4. PICK f : Flattening(f, s, m - 1)
    BY <1>3
  <1>. DEFINE g == [i \in 1..m |-> IF i < m THEN f[i] ELSE IF i = 1 THEN s[i] ELSE f[i - 1] \o s[i]]
  <1>5. \A i \in 1..m : g[i] = IF i = 1 THEN s[i] ELSE g[i - 1] \o s[i]
    <2>. TAKE i \in 1..m
    <2>1. CASE i < m
      <3>1. i \in 1..(m - 1) /\ i - 1 < m /\ (i # 1 => i - 1 \in 1..m)
        BY <1>1, <2>1
      <3>2. f[i] = IF i = 1 THEN s[i] ELSE f[i - 1] \o s[i]
        BY <1>4, <3>1 DEF Flattening
      <3>. QED
        BY <2>1, <3>1, <3>2
    <2>2. CASE i = m
      <3>1. i # 1 => i - 1 \in 1..m /\ i - 1 < m
        BY <2>2
      <3>. QED
        BY <2>2, <3>1
    <2>. QED
      BY <1>1, <2>1, <2>2
  <1>6. Flattening(g, s, m)
    BY <1>5 DEF Flattening
  <1>. QED
    BY <1>6

LEMMA FlattenIs ==
    ASSUME NEW s, Len(s) \in Nat \ {0}
    PROVE  \E f : Flattening(f, s, Len(s)) /\ FlattenSeq(s) = f[Len(s)]
  <1>1. \E f : Flattening(f, s, Len(s))
    BY FlatteningExists
  <1>. DEFINE f == CHOOSE f : Flattening(f, s, Len(s))
  <1>2. Flattening(f, s, Len(s))
    BY <1>1
  <1>3. FlattenSeq(s) = f[Len(s)]
    BY DEF FlattenSeq, Flattening
  <1>. QED
    BY <1>2, <1>3

LEMMA FlatteningUnique ==
    ASSUME NEW S, NEW s, NEW t, NEW m \in Nat, NEW n \in Nat, m <= n,
           \A i \in 1..m : s[i] = t[i] /\ s[i] \in Seq(S),
           NEW f, NEW g, Flattening(f, s, m), Flattening(g, t, n)
    PROVE  \A i \in 1..m : f[i] = g[i] /\ f[i] \in Seq(S)
  <1>. DEFINE Bad == {i \in 1..m : ~ (f[i] = g[i] /\ f[i] \in Seq(S))}
  <1>. SUFFICES ASSUME Bad # {} PROVE FALSE
    OBVIOUS
  <1>1. PICK i \in Bad : \A k \in Bad : i <= k
    <2>1. Bad \in SUBSET Nat
      OBVIOUS
    <2>. QED
      BY <2>1, Least
  <1>2. i \in 1..m /\ i \in 1..n
    OBVIOUS
  <1>3. /\ f[i] = IF i = 1 THEN s[i] ELSE f[i - 1] \o s[i]
        /\ g[i] = IF i = 1 THEN t[i] ELSE g[i - 1] \o t[i]
    BY <1>2 DEF Flattening
  <1>4. CASE i = 1
    BY <1>2, <1>3, <1>4
  <1>5. CASE i # 1
    <2>1. i - 1 \in 1..m /\ i - 1 \notin Bad
      BY <1>1, <1>2, <1>5
    <2>2. f[i - 1] = g[i - 1] /\ f[i - 1] \in Seq(S)
      BY <2>1
    <2>3. f[i - 1] \o s[i] \in Seq(S)
      BY <1>2, <2>2
    <2>. QED
      BY <1>2, <1>3, <1>5, <2>2, <2>3
  <1>. QED
    BY <1>4, <1>5

(* The first n of a sequence of sequences, put end to end.                          *)
Upto(s, n) == FlattenSeq([i \in 1..n |-> s[i]])

LEMMA FlattenNext ==
    ASSUME NEW S, NEW s, NEW n \in Nat, \A i \in 1..(n + 1) : s[i] \in Seq(S)
    PROVE  /\ Upto(s, 0) = <<>> /\ Upto(s, n) \in Seq(S)
           /\ Upto(s, n + 1) = Upto(s, n) \o s[n + 1]
  <1>. DEFINE a == [i \in 1..n |-> s[i]]
              b == [i \in 1..(n + 1) |-> s[i]]
  <1>0. Upto(s, 0) = <<>>
    <2>1. [i \in 1..0 |-> s[i]] = <<>> /\ Len(<<>>) = 0
      OBVIOUS
    <2>. QED
      BY <2>1 DEF Upto, FlattenSeq
  <1>1. Len(a) = n /\ Len(b) = n + 1
    OBVIOUS
  <1>2. \A i \in 1..n : a[i] = s[i]
    OBVIOUS
  <1>3. \A i \in 1..(n + 1) : b[i] = s[i]
    OBVIOUS
  <1>. HIDE DEF a, b
  <1>4. PICK g : Flattening(g, b, n + 1) /\ FlattenSeq(b) = g[n + 1]
    BY <1>1, FlattenIs
  <1>5. g[n + 1] = IF n = 0 THEN s[n + 1] ELSE g[n] \o s[n + 1]
    <2>1. n + 1 \in 1..(n + 1) /\ (n + 1) - 1 = n /\ (n + 1 = 1 <=> n = 0)
      OBVIOUS
    <2>. QED
      BY <1>3, <1>4, <2>1 DEF Flattening
  <1>6. CASE n = 0
    <2>1. s[n + 1] \in Seq(S) /\ <<>> \in Seq(S)
      BY <1>6
    <2>2. <<>> \o s[n + 1] = s[n + 1]
      BY <2>1, ConcatEmptySeq
    <2>. QED
      BY <1>0, <1>4, <1>5, <1>6, <2>1, <2>2 DEF Upto, b
  <1>7. CASE n # 0
    <2>1. PICK f : Flattening(f, a, n) /\ FlattenSeq(a) = f[n]
      BY <1>1, <1>7, FlattenIs
    <2>2. \A i \in 1..n : f[i] = g[i] /\ f[i] \in Seq(S)
      <3>1. \A i \in 1..n : a[i] = b[i] /\ a[i] \in Seq(S)
        BY <1>2, <1>3
      <3>2. n <= n + 1 /\ n + 1 \in Nat
        OBVIOUS
      <3>. QED
        BY <1>4, <2>1, <3>1, <3>2, FlatteningUnique
    <2>3. f[n] = g[n] /\ f[n] \in Seq(S)
      BY <1>7, <2>2
    <2>. QED
      BY <1>0, <1>4, <1>5, <1>7, <2>1, <2>3 DEF Upto, a, b
  <1>. QED
    BY <1>6, <1>7

(* More sequences only come behind.                                               *)
Begun(S, a, b) ==
    /\ a \in Seq(S) /\ b \in Seq(S) /\ Len(a) <= Len(b)
    /\ \A i \in 1..Len(a) : b[i] = a[i]

LEMMA FlattenMonotone ==
    ASSUME NEW S, NEW s, NEW n \in Nat, \A i \in 1..n : s[i] \in Seq(S), NEW m \in 0..n
    PROVE  Begun(S, Upto(s, m), Upto(s, n))
  <1>. DEFINE Grows(k) == /\ Len(Upto(s, m)) <= Len(Upto(s, k))
                          /\ \A i \in 1..Len(Upto(s, m)) : Upto(s, k)[i] = Upto(s, m)[i]
              Bad == {k \in m..n : ~ Grows(k)}
  <1>1. \A k \in 0..n : Upto(s, k) \in Seq(S)
    <2>. TAKE k \in 0..n
    <2>1. CASE k = 0
      <3>1. [i \in 1..0 |-> s[i]] = <<>> /\ Len(<<>>) = 0
        OBVIOUS
      <3>. QED
        BY <2>1, <3>1 DEF Upto, FlattenSeq
    <2>2. CASE k # 0
      <3>1. k - 1 \in Nat /\ (k - 1) + 1 = k /\ \A i \in 1..k : s[i] \in Seq(S)
        BY <2>2
      <3>2. Upto(s, k - 1) \in Seq(S) /\ Upto(s, (k - 1) + 1) = Upto(s, k - 1) \o s[(k - 1) + 1]
        <4>1. \A j \in Nat : (\A i \in 1..(j + 1) : s[i] \in Seq(S)) =>
                 Upto(s, j) \in Seq(S) /\ Upto(s, j + 1) = Upto(s, j) \o s[j + 1]
          BY FlattenNext
        <4>. QED
          BY <3>1, <4>1
      <3>. QED
        <4>1. Upto(s, k) = Upto(s, k - 1) \o s[k]
          BY <3>1, <3>2
        <4>2. k \in 1..n
          BY <2>2
        <4>3. s[k] \in Seq(S)
          BY <4>2
        <4>. QED
          BY <3>2, <4>1, <4>3, ConcatProperties
    <2>. QED
      BY <2>1, <2>2
  <1>2. Bad = {}
    <2>. SUFFICES ASSUME Bad # {} PROVE FALSE
      OBVIOUS
    <2>1. PICK k \in Bad : \A j \in Bad : k <= j
      <3>1. Bad \in SUBSET Nat
        OBVIOUS
      <3>. QED
        BY <3>1, Least
    <2>2. k # m
      <3>1. Grows(m)
        BY <1>1
      <3>. QED
        BY <3>1
    <2>3. k - 1 \in m..n /\ k - 1 \notin Bad /\ k - 1 \in Nat /\ (k - 1) + 1 = k
      BY <2>1, <2>2
    <2>4. Grows(k - 1)
      BY <2>3
    <2>5. Upto(s, k) = Upto(s, k - 1) \o s[k] /\ s[k] \in Seq(S) /\ Upto(s, k - 1) \in Seq(S)
      <3>1. \A i \in 1..((k - 1) + 1) : s[i] \in Seq(S)
        OBVIOUS
      <3>2. \A j \in Nat : (\A i \in 1..(j + 1) : s[i] \in Seq(S)) =>
               Upto(s, j) \in Seq(S) /\ Upto(s, j + 1) = Upto(s, j) \o s[j + 1]
        BY FlattenNext
      <3>3. k \in 1..n
        BY <2>2
      <3>. QED
        BY <2>3, <3>1, <3>2, <3>3
    <2>6. /\ Len(Upto(s, k)) = Len(Upto(s, k - 1)) + Len(s[k])
          /\ \A i \in 1..Len(Upto(s, k - 1)) : Upto(s, k)[i] = Upto(s, k - 1)[i]
      BY <2>5, ConcatProperties
    <2>7. Len(s[k]) \in Nat /\ Len(Upto(s, k - 1)) \in Nat /\ Len(Upto(s, m)) \in Nat
      BY <1>1, <2>5
    <2>8. Grows(k)
      <3>. HIDE DEF Bad
      <3>1. \A i \in 1..Len(Upto(s, m)) : i \in 1..Len(Upto(s, k - 1))
        BY <2>4, <2>7
      <3>2. Len(Upto(s, m)) <= Len(Upto(s, k))
        <4>1. \A x, y, z \in Nat : x <= y => x <= y + z
          OBVIOUS
        <4>2. Len(Upto(s, m)) <= Len(Upto(s, k - 1))
          BY <2>4
        <4>. QED
          BY <2>6, <2>7, <4>1, <4>2
      <3>. QED
        BY <2>4, <2>6, <3>1, <3>2
    <2>. QED
      BY <2>8
  <1>3. n \notin Bad /\ n \in m..n
    BY <1>2
  <1>. QED
    BY <1>1, <1>3 DEF Begun

(* Joining and cutting sequences.                                                  *)
Joins(S, a, b, c) ==
    /\ c \in Seq(S) /\ Len(c) = Len(a) + Len(b) /\ Len(a) \in Nat /\ Len(b) \in Nat
    /\ \A i \in 1..Len(a) : c[i] = a[i]
    /\ \A i \in 1..Len(b) : c[Len(a) + i] = b[i]

LEMMA Joined ==
    ASSUME NEW S, NEW a \in Seq(S), NEW b \in Seq(S)
    PROVE  Joins(S, a, b, a \o b)
  <1>1. /\ a \o b \in Seq(S) /\ Len(a \o b) = Len(a) + Len(b)
        /\ \A i \in 1..(Len(a) + Len(b)) :
              (a \o b)[i] = IF i <= Len(a) THEN a[i] ELSE b[i - Len(a)]
    BY ConcatProperties
  <1>2. ASSUME NEW i \in 1..Len(a) PROVE (a \o b)[i] = a[i]
    <2>1. i \in 1..(Len(a) + Len(b)) /\ i <= Len(a)
      OBVIOUS
    <2>. QED
      BY <1>1, <2>1
  <1>3. ASSUME NEW i \in 1..Len(b) PROVE (a \o b)[Len(a) + i] = b[i]
    <2>1. /\ Len(a) + i \in 1..(Len(a) + Len(b)) /\ ~ (Len(a) + i <= Len(a))
          /\ (Len(a) + i) - Len(a) = i
      OBVIOUS
    <2>. QED
      BY <1>1, <2>1
  <1>. QED
    BY <1>1, <1>2, <1>3 DEF Joins

LEMMA CutOut ==
    ASSUME NEW S, NEW a \in Seq(S), NEW m \in Nat, NEW n \in Nat, m <= n, n <= Len(a)
    PROVE  /\ SubSeq(a, m + 1, n) \in Seq(S) /\ Len(SubSeq(a, m + 1, n)) = n - m
           /\ \A i \in 1..(n - m) : SubSeq(a, m + 1, n)[i] = a[m + i]
  <1>1. m + 1 \in Int /\ n \in Int /\ \A i \in (m + 1)..n : a[i] \in S
    OBVIOUS
  <1>2. /\ SubSeq(a, m + 1, n) \in Seq(S)
        /\ Len(SubSeq(a, m + 1, n)) = IF m + 1 <= n THEN n - (m + 1) + 1 ELSE 0
        /\ \A i \in 1..(n - (m + 1) + 1) : SubSeq(a, m + 1, n)[i] = a[m + 1 + i - 1]
    BY <1>1, SubSeqProperties
  <1>3. n - (m + 1) + 1 = n - m /\ (~ (m + 1 <= n) => n - m = 0)
    OBVIOUS
  <1>4. \A i \in 1..(n - m) : m + 1 + i - 1 = m + i
    OBVIOUS
  <1>. QED
    BY <1>2, <1>3, <1>4

LEMMA Listed ==
    ASSUME NEW n \in Nat, NEW f, f = [i \in 1..n |-> f[i]]
    PROVE  f \in Seq({f[i] : i \in 1..n}) /\ Len(f) = n
  <1>1. f \in [1..n -> {f[i] : i \in 1..n}]
    OBVIOUS
  <1>. QED
    BY <1>1

LEMMA ListIs ==
    ASSUME NEW S, NEW n \in Nat, NEW f \in Seq(S), Len(f) = n
    PROVE  f = [i \in 1..n |-> f[i]]
  OBVIOUS

--------------------------------------------------------------------------------
(* The reference, a frame at a time.                                             *)
Byte == STRING \X Nat

LEMMA PayloadIs ==
    ASSUME NEW frame \in Frame
    PROVE  /\ Payload(frame) \in Seq(Byte)
           /\ ~ IsData(frame) => Payload(frame) = <<>>
           /\ IsData(frame) => /\ Len(Payload(frame)) = frame.size
                               /\ \A i \in 1..frame.size : Payload(frame)[i] = <<frame.name, i>>
  <1>1. frame.size \in Nat /\ frame.name \in STRING
    BY DEF Frame
  <1>2. CASE IsData(frame)
    <2>1. Payload(frame) = [i \in 1..frame.size |-> <<frame.name, i>>]
      BY <1>2 DEF Payload
    <2>2. \A i \in 1..frame.size : <<frame.name, i>> \in Byte
      BY <1>1 DEF Byte
    <2>. QED
      BY <1>1, <1>2, <2>1, <2>2
  <1>3. CASE ~ IsData(frame)
    BY <1>3 DEF Payload
  <1>. QED
    BY <1>2, <1>3

(* The message of a frame begins with the last frame before it that continues none.    *)
Begins(frames, n, i) ==
    i \in 1..n /\ ~ Continues(frames[i]) /\ \A j \in (i + 1)..n : Continues(frames[j])
HasBeginning(frames, n) == \E i \in 1..n : Begins(frames, n, i)

LEMMA BeginningIs ==
    ASSUME NEW frames, NEW n \in Nat, NEW i, Begins(frames, n, i)
    PROVE  Beginning(frames, n) = i
  <1>1. Beginning(frames, n) = CHOOSE k \in 1..n : /\ ~ Continues(frames[k])
                                                  /\ \A j \in (k + 1)..n : Continues(frames[j])
    BY DEF Beginning
  <1>2. \A k \in 1..n : ~ Continues(frames[k]) /\ (\A j \in (k + 1)..n : Continues(frames[j])) => k = i
    <2>. TAKE k \in 1..n
    <2>. HAVE ~ Continues(frames[k]) /\ \A j \in (k + 1)..n : Continues(frames[j])
    <2>1. i \in 1..n /\ ~ Continues(frames[i]) /\ \A j \in (i + 1)..n : Continues(frames[j])
      BY DEF Begins
    <2>2. ~ (k < i)
      <3>. SUFFICES ASSUME k < i PROVE FALSE
        OBVIOUS
      <3>1. i \in (k + 1)..n
        BY <2>1
      <3>. QED
        BY <2>1, <3>1
    <2>3. ~ (i < k)
      <3>. SUFFICES ASSUME i < k PROVE FALSE
        OBVIOUS
      <3>1. k \in (i + 1)..n
        BY <2>1
      <3>. QED
        BY <2>1, <3>1
    <2>. QED
      BY <2>1, <2>2, <2>3
  <1>3. i \in 1..n /\ ~ Continues(frames[i]) /\ \A j \in (i + 1)..n : Continues(frames[j])
    BY DEF Begins
  <1>. QED
    BY <1>1, <1>2, <1>3

From(frames, first, n) == [i \in 1..(n - first + 1) |-> Payload(frames[first + i - 1])]

LEMMA FromNext ==
    ASSUME NEW frames \in Seq(Frame), NEW n \in Nat, n < Len(frames), NEW first \in 1..(n + 1)
    PROVE  /\ first <= n => FlattenSeq(From(frames, first, n)) \in Seq(Byte)
           /\ first <= n => FlattenSeq(From(frames, first, n + 1)) =
                                FlattenSeq(From(frames, first, n)) \o Payload(frames[n + 1])
           /\ FlattenSeq(From(frames, n + 1, n + 1)) = Payload(frames[n + 1])
  <1>. DEFINE s(f) == [i \in 1..(n + 2 - f) |-> Payload(frames[f + i - 1])]
  <1>1. \A f \in 1..(n + 1) : \A i \in 1..(n + 2 - f) : s(f)[i] \in Seq(Byte)
    <2>. TAKE f \in 1..(n + 1)
    <2>. TAKE i \in 1..(n + 2 - f)
    <2>1. f + i - 1 \in 1..Len(frames)
      OBVIOUS
    <2>2. frames[f + i - 1] \in Frame
      BY <2>1
    <2>. QED
      BY <2>2, PayloadIs
  <1>2. \A f \in 1..(n + 1) :
           /\ From(frames, f, n) = [i \in 1..(n + 1 - f) |-> s(f)[i]]
           /\ From(frames, f, n + 1) = [i \in 1..(n + 2 - f) |-> s(f)[i]]
           /\ s(f)[n + 2 - f] = Payload(frames[n + 1])
    <2>. TAKE f \in 1..(n + 1)
    <2>1. n - f + 1 = n + 1 - f /\ (n + 1) - f + 1 = n + 2 - f /\ f + (n + 2 - f) - 1 = n + 1
      OBVIOUS
    <2>2. n + 2 - f \in 1..(n + 2 - f)
      OBVIOUS
    <2>. QED
      BY <2>1, <2>2 DEF From
  <1>3. \A f \in 1..(n + 1) :
           /\ FlattenSeq(From(frames, f, n)) \in Seq(Byte)
           /\ FlattenSeq(From(frames, f, n + 1)) =
                  FlattenSeq(From(frames, f, n)) \o Payload(frames[n + 1])
    <2>. TAKE f \in 1..(n + 1)
    <2>. HIDE DEF s
    <2>1. PICK m \in Nat : m = n + 1 - f
      OBVIOUS
    <2>2. n + 2 - f = m + 1
      BY <2>1
    <2>3. \A i \in 1..(m + 1) : s(f)[i] \in Seq(Byte)
      BY <1>1, <2>2
    <2>4. Upto(s(f), m) \in Seq(Byte) /\ Upto(s(f), m + 1) = Upto(s(f), m) \o s(f)[m + 1]
      BY <2>3, FlattenNext
    <2>5. /\ FlattenSeq(From(frames, f, n)) = Upto(s(f), m)
          /\ FlattenSeq(From(frames, f, n + 1)) = Upto(s(f), m + 1)
          /\ s(f)[m + 1] = Payload(frames[n + 1])
      BY <1>2, <2>1, <2>2 DEF Upto
    <2>. QED
      BY <2>4, <2>5
  <1>4. FlattenSeq(From(frames, n + 1, n)) = <<>>
    <2>1. From(frames, n + 1, n) = <<>> /\ Len(<<>>) = 0
      <3>1. n - (n + 1) + 1 = 0 /\ 1..0 = {}
        OBVIOUS
      <3>. QED
        BY <3>1 DEF From
    <2>. QED
      BY <2>1 DEF FlattenSeq
  <1>5. FlattenSeq(From(frames, n + 1, n + 1)) = Payload(frames[n + 1])
    <2>1. n + 1 \in 1..(n + 1) /\ n + 1 \in 1..Len(frames)
      OBVIOUS
    <2>2. FlattenSeq(From(frames, n + 1, n + 1)) = <<>> \o Payload(frames[n + 1])
      BY <1>3, <1>4, <2>1
    <2>3. Payload(frames[n + 1]) \in Seq(Byte)
      BY <2>1, PayloadIs
    <2>. QED
      BY <2>2, <2>3, ConcatEmptySeq
  <1>6. n \in Nat => (first <= n => first \in 1..(n + 1))
    OBVIOUS
  <1>. QED
    BY <1>3, <1>5, <1>6

LEMMA MessageIs ==
    ASSUME NEW frames, NEW n \in Nat, NEW i, Begins(frames, n, i)
    PROVE  MessageUpTo(frames, n) = [op |-> frames[i].op,
                                     parts |-> FlattenSeq(From(frames, i, n))]
  BY BeginningIs DEF MessageUpTo, From

LEMMA MessageNext ==
    ASSUME NEW frames \in Seq(Frame), NEW n \in Nat, n < Len(frames)
    PROVE  /\ ~ Continues(frames[n + 1]) =>
                 /\ HasBeginning(frames, n + 1)
                 /\ MessageUpTo(frames, n + 1).op = frames[n + 1].op
                 /\ MessageUpTo(frames, n + 1).parts = Payload(frames[n + 1])
           /\ Continues(frames[n + 1]) /\ HasBeginning(frames, n) =>
                 /\ HasBeginning(frames, n + 1)
                 /\ MessageUpTo(frames, n + 1).op = MessageUpTo(frames, n).op
                 /\ MessageUpTo(frames, n + 1).parts =
                        MessageUpTo(frames, n).parts \o Payload(frames[n + 1])
  <1>1. ASSUME ~ Continues(frames[n + 1])
        PROVE  /\ HasBeginning(frames, n + 1)
               /\ MessageUpTo(frames, n + 1).op = frames[n + 1].op
               /\ MessageUpTo(frames, n + 1).parts = Payload(frames[n + 1])
    <2>1. Begins(frames, n + 1, n + 1)
      <3>1. n + 1 \in 1..(n + 1) /\ ((n + 1) + 1)..(n + 1) = {}
        OBVIOUS
      <3>. QED
        BY <1>1, <3>1 DEF Begins
    <2>2. n + 1 \in 1..(n + 1) /\ n + 1 \in Nat
      OBVIOUS
    <2>3. FlattenSeq(From(frames, n + 1, n + 1)) = Payload(frames[n + 1])
      BY <2>2, FromNext
    <2>4. MessageUpTo(frames, n + 1) = [op |-> frames[n + 1].op,
                                        parts |-> FlattenSeq(From(frames, n + 1, n + 1))]
      BY <2>1, <2>2, MessageIs
    <2>. QED
      BY <2>1, <2>2, <2>3, <2>4 DEF HasBeginning
  <1>2. ASSUME Continues(frames[n + 1]), HasBeginning(frames, n)
        PROVE  /\ HasBeginning(frames, n + 1)
               /\ MessageUpTo(frames, n + 1).op = MessageUpTo(frames, n).op
               /\ MessageUpTo(frames, n + 1).parts =
                      MessageUpTo(frames, n).parts \o Payload(frames[n + 1])
    <2>1. PICK i \in 1..n : Begins(frames, n, i)
      BY <1>2 DEF HasBeginning
    <2>2. i \in 1..(n + 1) /\ n + 1 \in Nat /\ i <= n
      OBVIOUS
    <2>3. Begins(frames, n + 1, i)
      <3>1. \A j \in (i + 1)..(n + 1) : j = n + 1 \/ j \in (i + 1)..n
        OBVIOUS
      <3>. QED
        BY <1>2, <2>1, <2>2, <3>1 DEF Begins
    <2>4. MessageUpTo(frames, n) = [op |-> frames[i].op, parts |-> FlattenSeq(From(frames, i, n))]
      BY <2>1, MessageIs
    <2>5. MessageUpTo(frames, n + 1) = [op |-> frames[i].op,
                                        parts |-> FlattenSeq(From(frames, i, n + 1))]
      BY <2>2, <2>3, MessageIs
    <2>6. FlattenSeq(From(frames, i, n + 1)) =
              FlattenSeq(From(frames, i, n)) \o Payload(frames[n + 1])
      BY <2>2, FromNext
    <2>. QED
      <3>1. HasBeginning(frames, n + 1)
        BY <2>2, <2>3 DEF HasBeginning
      <3>2. /\ MessageUpTo(frames, n).op = frames[i].op
            /\ MessageUpTo(frames, n).parts = FlattenSeq(From(frames, i, n))
        BY <2>4
      <3>3. /\ MessageUpTo(frames, n + 1).op = frames[i].op
            /\ MessageUpTo(frames, n + 1).parts = FlattenSeq(From(frames, i, n + 1))
        BY <2>5
      <3>. QED
        BY <2>6, <3>1, <3>2, <3>3
  <1>. QED
    BY <1>1, <1>2

Ops == {"TEXT", "BINARY", "CONTINUATION", "CLOSE", "PING", "PONG", "RESERVED"}

LEMMA MessageTyped ==
    ASSUME NEW frames \in Seq(Frame), NEW n \in 0..Len(frames), HasBeginning(frames, n)
    PROVE  /\ MessageUpTo(frames, n) = [op |-> MessageUpTo(frames, n).op,
                                         parts |-> MessageUpTo(frames, n).parts]
           /\ MessageUpTo(frames, n).op \in Ops /\ ~ IsControl(MessageUpTo(frames, n).op)
           /\ MessageUpTo(frames, n).parts \in Seq(Byte)
  <1>1. PICK i \in 1..n : Begins(frames, n, i)
    BY DEF HasBeginning
  <1>2. MessageUpTo(frames, n) = [op |-> frames[i].op, parts |-> FlattenSeq(From(frames, i, n))]
    BY <1>1, MessageIs
  <1>3. frames[i] \in Frame
    OBVIOUS
  <1>4. frames[i].op \in Ops /\ ~ IsControl(frames[i].op)
    BY <1>1, <1>3 DEF Frame, Ops, Begins, Continues
  <1>5. FlattenSeq(From(frames, i, n)) \in Seq(Byte)
    <2>1. CASE i = n
      <3>1. n - 1 \in Nat /\ n - 1 < Len(frames) /\ (n - 1) + 1 = n
        BY <2>1
      <3>2. \A k \in Nat : k < Len(frames) =>
               FlattenSeq(From(frames, k + 1, k + 1)) = Payload(frames[k + 1])
        <4>. TAKE k \in Nat
        <4>. HAVE k < Len(frames)
        <4>1. k + 1 \in 1..(k + 1)
          OBVIOUS
        <4>. QED
          BY <4>1, FromNext
      <3>3. FlattenSeq(From(frames, i, n)) = Payload(frames[i])
        BY <2>1, <3>1, <3>2
      <3>. QED
        BY <1>3, <3>3, PayloadIs
    <2>2. CASE i # n
      <3>1. n - 1 \in Nat /\ n - 1 < Len(frames) /\ (n - 1) + 1 = n /\ i <= n - 1
        BY <2>2
      <3>2. \A k \in Nat : k < Len(frames) /\ i <= k =>
               /\ FlattenSeq(From(frames, i, k)) \in Seq(Byte)
               /\ FlattenSeq(From(frames, i, k + 1)) =
                    FlattenSeq(From(frames, i, k)) \o Payload(frames[k + 1])
        <4>. TAKE k \in Nat
        <4>. HAVE k < Len(frames) /\ i <= k
        <4>1. i \in 1..(k + 1)
          OBVIOUS
        <4>. QED
          BY <4>1, FromNext
      <3>3. /\ FlattenSeq(From(frames, i, n - 1)) \in Seq(Byte)
            /\ FlattenSeq(From(frames, i, n)) =
                 FlattenSeq(From(frames, i, n - 1)) \o Payload(frames[n])
        BY <3>1, <3>2
      <3>4. n \in 1..Len(frames)
        OBVIOUS
      <3>5. Payload(frames[n]) \in Seq(Byte)
        BY <3>4, PayloadIs
      <3>. QED
        BY <3>3, <3>5, ConcatProperties
    <2>. QED
      BY <2>1, <2>2
  <1>. QED
    BY <1>2, <1>4, <1>5

LEMMA OpenNext ==
    ASSUME NEW frames \in Seq(Frame), NEW n \in Nat, n < Len(frames)
    PROVE  /\ Open(frames, n) \in BOOLEAN
           /\ IsData(frames[n + 1]) => (Open(frames, n + 1) <=> ~ frames[n + 1].fin)
           /\ ~ IsData(frames[n + 1]) => (Open(frames, n + 1) <=> Open(frames, n))
  <1>1. ASSUME IsData(frames[n + 1]) PROVE Open(frames, n + 1) <=> ~ frames[n + 1].fin
    <2>1. n + 1 \in 1..(n + 1) /\ ((n + 1) + 1)..(n + 1) = {}
      OBVIOUS
    <2>2. ASSUME Open(frames, n + 1) PROVE ~ frames[n + 1].fin
      <3>1. PICK i \in 1..(n + 1) : /\ IsData(frames[i]) /\ ~ frames[i].fin
                                    /\ \A j \in (i + 1)..(n + 1) : IsControl(frames[j].op)
        BY <2>2 DEF Open
      <3>2. i = n + 1
        <4>. SUFFICES ASSUME i # n + 1 PROVE FALSE
          OBVIOUS
        <4>1. n + 1 \in (i + 1)..(n + 1)
          OBVIOUS
        <4>. QED
          BY <1>1, <3>1, <4>1 DEF IsData
      <3>. QED
        BY <3>1, <3>2
    <2>3. ASSUME ~ frames[n + 1].fin PROVE Open(frames, n + 1)
      BY <1>1, <2>1, <2>3 DEF Open
    <2>. QED
      BY <2>2, <2>3
  <1>2. ASSUME ~ IsData(frames[n + 1]) PROVE Open(frames, n + 1) <=> Open(frames, n)
    <2>1. ASSUME Open(frames, n + 1) PROVE Open(frames, n)
      <3>1. PICK i \in 1..(n + 1) : /\ IsData(frames[i]) /\ ~ frames[i].fin
                                    /\ \A j \in (i + 1)..(n + 1) : IsControl(frames[j].op)
        BY <2>1 DEF Open
      <3>2. i \in 1..n
        BY <1>2, <3>1
      <3>3. \A j \in (i + 1)..n : j \in (i + 1)..(n + 1)
        OBVIOUS
      <3>. QED
        BY <3>1, <3>2, <3>3 DEF Open
    <2>2. ASSUME Open(frames, n) PROVE Open(frames, n + 1)
      <3>1. PICK i \in 1..n : /\ IsData(frames[i]) /\ ~ frames[i].fin
                              /\ \A j \in (i + 1)..n : IsControl(frames[j].op)
        BY <2>2 DEF Open
      <3>2. i \in 1..(n + 1) /\ \A j \in (i + 1)..(n + 1) : j = n + 1 \/ j \in (i + 1)..n
        OBVIOUS
      <3>. QED
        BY <1>2, <3>1, <3>2 DEF Open, IsData
    <2>. QED
      BY <2>1, <2>2
  <1>3. Open(frames, n) \in BOOLEAN
    BY DEF Open
  <1>. QED
    BY <1>1, <1>2, <1>3

(* How many of the frames are read as messages.                                     *)
LEMMA ReadableIs ==
    ASSUME NEW frames \in Seq(Frame)
    PROVE  /\ Readable(frames) \in 0..Len(frames)
           /\ \A n \in 1..Len(frames) :
                 /\ Stops(frames, n) => Readable(frames) < n
                 /\ (\A i \in 1..n : ~ Stops(frames, i)) => n <= Readable(frames)
  <1>. DEFINE stops == {n \in DOMAIN frames : Stops(frames, n)}
  <1>1. CASE stops = {}
    <2>1. Readable(frames) = Len(frames)
      BY <1>1 DEF Readable
    <2>2. \A n \in 1..Len(frames) : ~ Stops(frames, n)
      BY <1>1
    <2>. QED
      BY <2>1, <2>2
  <1>2. CASE stops # {}
    <2>. DEFINE first == CHOOSE n \in stops : \A m \in stops : n <= m
    <2>1. \E n \in stops : \A m \in stops : n <= m
      <3>1. stops \in SUBSET Nat
        OBVIOUS
      <3>. QED
        BY <1>2, <3>1, Least
    <2>2. first \in stops /\ \A m \in stops : first <= m
      BY <2>1
    <2>3. Readable(frames) = first - 1
      BY <1>2 DEF Readable
    <2>. HIDE DEF first
    <2>4. first \in 1..Len(frames) /\ Stops(frames, first)
      BY <2>2
    <2>5. ASSUME NEW n \in 1..Len(frames), Stops(frames, n) PROVE first <= n
      BY <2>2, <2>5
    <2>6. ASSUME NEW n \in 1..Len(frames), \A i \in 1..n : ~ Stops(frames, i) PROVE n < first
      <3>. SUFFICES ASSUME first <= n PROVE FALSE
        BY <2>4
      <3>1. first \in 1..n
        BY <2>4
      <3>. QED
        BY <2>4, <2>6, <3>1
    <2>. QED
      BY <2>3, <2>4, <2>5, <2>6
  <1>. QED
    BY <1>1, <1>2

(* The messages, put end to end.                                                  *)
MessagesOfFrames(frames) == {MessageUpTo(frames, i) : i \in DOMAIN frames}

LEMMA MessagesNext ==
    ASSUME NEW frames \in Seq(Frame)
    PROVE  /\ MessagesIn(frames, 0) = <<>>
           /\ \A n \in 0..Len(frames) : MessagesIn(frames, n) \in Seq(MessagesOfFrames(frames))
           /\ \A n \in Nat : n < Len(frames) =>
                 MessagesIn(frames, n + 1) = MessagesIn(frames, n) \o MessagesAt(frames, n + 1)
           /\ \A n \in 0..Len(frames) : \A m \in 0..n :
                 IsPrefix(MessagesIn(frames, m), MessagesIn(frames, n))
  <1>. DEFINE S == MessagesOfFrames(frames)
              s == [i \in 1..Len(frames) |-> MessagesAt(frames, i)]
  <1>1. \A i \in 1..Len(frames) : s[i] \in Seq(S)
    <2>. TAKE i \in 1..Len(frames)
    <2>1. MessageUpTo(frames, i) \in S
      BY DEF MessagesOfFrames
    <2>2. <<MessageUpTo(frames, i)>> \in Seq(S) /\ <<>> \in Seq(S)
      BY <2>1
    <2>. QED
      BY <2>2 DEF MessagesAt
  <1>2. \A n \in 0..Len(frames) : MessagesIn(frames, n) = Upto(s, n)
    <2>. TAKE n \in 0..Len(frames)
    <2>1. [i \in 1..n |-> MessagesAt(frames, i)] = [i \in 1..n |-> s[i]]
      OBVIOUS
    <2>. QED
      BY <2>1 DEF MessagesIn, Upto
  <1>3. \A n \in Nat : n < Len(frames) => s[n + 1] = MessagesAt(frames, n + 1)
    OBVIOUS
  <1>. HIDE DEF s, S
  <1>4. MessagesIn(frames, 0) = <<>>
    <2>1. [i \in 1..0 |-> s[i]] = <<>> /\ Len(<<>>) = 0 /\ 0 \in 0..Len(frames)
      OBVIOUS
    <2>2. Upto(s, 0) = <<>>
      BY <2>1 DEF Upto, FlattenSeq
    <2>. QED
      BY <1>2, <2>1, <2>2
  <1>5. ASSUME NEW n \in Nat, n < Len(frames)
        PROVE  MessagesIn(frames, n + 1) = MessagesIn(frames, n) \o MessagesAt(frames, n + 1)
    <2>1. \A i \in 1..(n + 1) : s[i] \in Seq(S)
      BY <1>1, <1>5
    <2>2. Upto(s, n + 1) = Upto(s, n) \o s[n + 1]
      BY <2>1, FlattenNext
    <2>3. n \in 0..Len(frames) /\ n + 1 \in 0..Len(frames)
      BY <1>5
    <2>. QED
      BY <1>2, <1>3, <1>5, <2>2, <2>3
  <1>6. ASSUME NEW n \in 0..Len(frames), NEW m \in 0..n
        PROVE  /\ MessagesIn(frames, n) \in Seq(S)
               /\ IsPrefix(MessagesIn(frames, m), MessagesIn(frames, n))
    <2>1. n \in Nat /\ \A i \in 1..n : s[i] \in Seq(S)
      BY <1>1
    <2>2. Begun(S, Upto(s, m), Upto(s, n))
      BY <2>1, FlattenMonotone
    <2>3. MessagesIn(frames, m) = Upto(s, m) /\ MessagesIn(frames, n) = Upto(s, n)
      BY <1>2
    <2>4. ASSUME NEW a, NEW b, Begun(S, a, b)
          PROVE  b \in Seq(S) /\ IsPrefix(a, b)
      <3>1. SubSeq(a, 1, Len(a)) = SubSeq(b, 1, Len(a))
        BY <2>4 DEF Begun
      <3>. QED
        BY <2>4, <3>1 DEF IsPrefix, Begun
    <2>. QED
      BY <2>2, <2>3, <2>4
  <1>. QED
    BY <1>4, <1>5, <1>6 DEF S

--------------------------------------------------------------------------------
(* The bytes of the frames.                                                       *)
Byted(frame, i) == [frame |-> frame, byte |-> <<frame.name, i>>,
                    key |-> get_masking_key(frame)[((i - 1) % 4) + 1]]
Piece == {[frame |-> frame] : frame \in Frame} \cup {Byted(frame, i) : frame \in Frame, i \in Nat}

LEMMA PiecesAre ==
    ASSUME NEW frame \in Frame
    PROVE  /\ get_header_len(frame) \in 2..4 /\ frame.size \in Nat
           /\ Pieces(frame) \in Seq(Piece)
           /\ Len(Pieces(frame)) = get_header_len(frame) + frame.size
           /\ \A k \in 1..get_header_len(frame) : Pieces(frame)[k].frame = frame
           /\ \A k \in 1..frame.size :
                 Pieces(frame)[get_header_len(frame) + k] = Byted(frame, k)
  <1>1. get_header_len(frame) \in 2..4 /\ frame.size \in Nat
    BY DEF Frame, get_header_len, get_masking_key_offset, BASIC_HEADER_LENGTH
  <1>. DEFINE header == [i \in 1..get_header_len(frame) |-> [frame |-> frame]]
              bytes == [i \in 1..frame.size |-> Byted(frame, i)]
  <1>2. Pieces(frame) = header \o bytes
    BY DEF Pieces, Byted
  <1>3. /\ header \in Seq(Piece) /\ Len(header) = get_header_len(frame)
        /\ \A k \in 1..get_header_len(frame) : header[k].frame = frame
    <2>1. [frame |-> frame] \in Piece /\ [frame |-> frame].frame = frame
      BY DEF Piece
    <2>. QED
      BY <1>1, <2>1
  <1>4. /\ bytes \in Seq(Piece) /\ Len(bytes) = frame.size
        /\ \A k \in 1..frame.size : bytes[k] = Byted(frame, k)
    <2>1. \A k \in 1..frame.size : Byted(frame, k) \in Piece
      BY DEF Piece
    <2>. QED
      BY <1>1, <2>1
  <1>. HIDE DEF header, bytes
  <1>5. /\ header \o bytes \in Seq(Piece)
        /\ Len(header \o bytes) = get_header_len(frame) + frame.size
        /\ \A k \in 1..get_header_len(frame) : (header \o bytes)[k] = header[k]
        /\ \A k \in 1..frame.size : (header \o bytes)[get_header_len(frame) + k] = bytes[k]
    <2>1. Joins(Piece, header, bytes, header \o bytes)
      BY <1>3, <1>4, Joined
    <2>. QED
      BY <1>3, <1>4, <2>1 DEF Joins
  <1>6. \A k \in 1..get_header_len(frame) : (header \o bytes)[k].frame = frame
    BY <1>3, <1>5
  <1>7. \A k \in 1..frame.size : (header \o bytes)[get_header_len(frame) + k] = Byted(frame, k)
    BY <1>4, <1>5
  <1>. QED
    BY <1>1, <1>2, <1>5, <1>6, <1>7

Wire(frames) == FlattenSeq([i \in DOMAIN frames |-> Pieces(frames[i])])
BytesBefore(frames, n) == Len(FlattenSeq([i \in 1..n |-> Pieces(frames[i])]))

LEMMA WireIs ==
    ASSUME NEW frames \in Seq(Frame)
    PROVE  /\ Wire(frames) \in Seq(Piece)
           /\ BytesBefore(frames, 0) = 0
           /\ BytesBefore(frames, Len(frames)) = Len(Wire(frames))
           /\ \A n \in Nat : n < Len(frames) =>
                 /\ BytesBefore(frames, n) \in Nat
                 /\ BytesBefore(frames, n + 1) =
                        BytesBefore(frames, n) + Len(Pieces(frames[n + 1]))
                 /\ BytesBefore(frames, n + 1) <= Len(Wire(frames))
                 /\ \A k \in 1..Len(Pieces(frames[n + 1])) :
                       Wire(frames)[BytesBefore(frames, n) + k] = Pieces(frames[n + 1])[k]
  <1>. DEFINE s == [i \in 1..Len(frames) |-> Pieces(frames[i])]
  <1>1. \A i \in 1..Len(frames) : s[i] \in Seq(Piece)
    BY PiecesAre
  <1>2. \A n \in 0..Len(frames) : BytesBefore(frames, n) = Len(Upto(s, n))
    <2>. TAKE n \in 0..Len(frames)
    <2>1. [i \in 1..n |-> Pieces(frames[i])] = [i \in 1..n |-> s[i]]
      OBVIOUS
    <2>. QED
      BY <2>1 DEF BytesBefore, Upto
  <1>3. Wire(frames) = Upto(s, Len(frames))
    <2>1. DOMAIN frames = 1..Len(frames)
      OBVIOUS
    <2>2. [i \in DOMAIN frames |-> Pieces(frames[i])] = [i \in 1..Len(frames) |-> s[i]]
      BY <2>1
    <2>. QED
      BY <2>2 DEF Wire, Upto
  <1>4. \A n \in Nat : n < Len(frames) => s[n + 1] = Pieces(frames[n + 1])
    OBVIOUS
  <1>. HIDE DEF s
  <1>5. Upto(s, 0) = <<>>
    <2>1. [i \in 1..0 |-> s[i]] = <<>> /\ Len(<<>>) = 0
      OBVIOUS
    <2>. QED
      BY <2>1 DEF Upto, FlattenSeq
  <1>6. \A m \in 0..Len(frames) : Begun(Piece, Upto(s, m), Upto(s, Len(frames)))
    BY <1>1, FlattenMonotone
  <1>7. Wire(frames) \in Seq(Piece)
    <2>1. 0 \in 0..Len(frames)
      OBVIOUS
    <2>. QED
      BY <1>3, <1>6, <2>1 DEF Begun
  <1>8. BytesBefore(frames, 0) = 0 /\ BytesBefore(frames, Len(frames)) = Len(Wire(frames))
    BY <1>2, <1>3, <1>5
  <1>9. ASSUME NEW n \in Nat, n < Len(frames)
        PROVE  /\ BytesBefore(frames, n) \in Nat
               /\ BytesBefore(frames, n + 1) = BytesBefore(frames, n) + Len(Pieces(frames[n + 1]))
               /\ BytesBefore(frames, n + 1) <= Len(Wire(frames))
               /\ \A k \in 1..Len(Pieces(frames[n + 1])) :
                     Wire(frames)[BytesBefore(frames, n) + k] = Pieces(frames[n + 1])[k]
    <2>1. n \in 0..Len(frames) /\ n + 1 \in 0..Len(frames) /\ n + 1 \in 1..Len(frames)
      BY <1>9
    <2>2. \A i \in 1..(n + 1) : s[i] \in Seq(Piece)
      BY <1>1, <1>9
    <2>3. Upto(s, n) \in Seq(Piece) /\ Upto(s, n + 1) = Upto(s, n) \o s[n + 1]
      BY <2>2, FlattenNext
    <2>4. s[n + 1] = Pieces(frames[n + 1]) /\ Pieces(frames[n + 1]) \in Seq(Piece)
      BY <1>1, <1>4, <1>9, <2>1
    <2>. DEFINE a == Upto(s, n)
                b == Pieces(frames[n + 1])
    <2>5. /\ Len(a \o b) = Len(a) + Len(b)
          /\ \A k \in 1..Len(b) : (a \o b)[Len(a) + k] = b[k]
      <3>1. Joins(Piece, a, b, a \o b)
        BY <2>3, <2>4, Joined
      <3>. QED
        BY <3>1 DEF Joins
    <2>6. Begun(Piece, a \o b, Wire(frames))
      BY <1>3, <1>6, <2>1, <2>3, <2>4
    <2>7. BytesBefore(frames, n) = Len(a) /\ BytesBefore(frames, n + 1) = Len(a \o b)
      BY <1>2, <2>1, <2>3, <2>4
    <2>8. Len(a) \in Nat /\ Len(b) \in Nat
      BY <2>3, <2>4
    <2>. HIDE DEF a, b
    <2>9. \A k \in 1..Len(b) : Wire(frames)[Len(a) + k] = b[k]
      <3>. TAKE k \in 1..Len(b)
      <3>1. Len(a) + k \in 1..Len(a \o b)
        BY <2>5, <2>8
      <3>. QED
        BY <2>5, <2>6, <3>1 DEF Begun
    <2>10. BytesBefore(frames, n + 1) <= Len(Wire(frames))
      BY <2>6, <2>7 DEF Begun
    <2>. QED
      BY <2>5, <2>7, <2>8, <2>9, <2>10 DEF b
  <1>. QED
    BY <1>7, <1>8, <1>9

(* The masking key, turned by as many bytes as it was used for.                       *)
TurnedKey(frame, n) == [i \in 1..8 |-> get_masking_key(frame)[((n + i - 1) % 4) + 1]]

LEMMA PreparedKey ==
    ASSUME NEW frame
    PROVE  prepare_masking_key(get_masking_key(frame)) = TurnedKey(frame, 0)
  <1>. DEFINE key == get_masking_key(frame)
              K == {key[i] : i \in 1..4}
  <1>1. key = [i \in 1..4 |-> key[i]]
    BY DEF get_masking_key
  <1>. HIDE DEF key
  <1>2. key \in Seq(K) /\ Len(key) = 4 /\ 4 \in Nat /\ 8 \in Nat
    BY <1>1, Listed
  <1>. HIDE DEF K
  <1>3. /\ key \o key \in Seq(K) /\ Len(key \o key) = 4 + 4
        /\ \A i \in 1..4 : (key \o key)[i] = key[i]
        /\ \A i \in 1..4 : (key \o key)[4 + i] = key[i]
        /\ Len(key \o key) = 8
    <2>1. Joins(K, key, key, key \o key)
      BY <1>2, Joined
    <2>. QED
      BY <1>2, <2>1 DEF Joins
  <1>4. \A i \in 1..8 : (key \o key)[i] = key[((0 + i - 1) % 4) + 1]
    <2>. TAKE i \in 1..8
    <2>1. CASE i <= 4
      <3>1. i \in 1..4 /\ ((0 + i - 1) % 4) + 1 = i
        BY <2>1
      <3>. QED
        BY <1>3, <3>1
    <2>2. CASE ~ (i <= 4)
      <3>1. i - 4 \in 1..4 /\ ((0 + i - 1) % 4) + 1 = i - 4 /\ 4 + (i - 4) = i
        BY <2>2
      <3>. QED
        BY <1>3, <3>1
    <2>. QED
      BY <2>1, <2>2
  <1>5. key \o key = [i \in 1..8 |-> (key \o key)[i]]
    BY <1>2, <1>3, ListIs
  <1>. QED
    BY <1>4, <1>5 DEF prepare_masking_key, TurnedKey, key

LEMMA Unmasking ==
    ASSUME NEW frame, NEW n \in Nat, NEW input \in Seq(Piece),
           \A i \in 1..Len(input) : input[i] = Byted(frame, n + i)
    PROVE  /\ byte_mask_circ(input, TurnedKey(frame, n)).output =
                  [i \in 1..Len(input) |-> <<frame.name, n + i>>]
           /\ byte_mask_circ(input, TurnedKey(frame, n)).key = TurnedKey(frame, n + Len(input))
  <1>. DEFINE key == get_masking_key(frame)
              T == TurnedKey(frame, n)
              m == Len(input)
  <1>1. T = [i \in 1..8 |-> key[((n + i - 1) % 4) + 1]] /\ m \in Nat
    BY DEF TurnedKey
  <1>2. \A i \in 1..m : /\ input[i].byte = <<frame.name, n + i>>
                        /\ input[i].key = key[((n + i - 1) % 4) + 1]
    <2>. TAKE i \in 1..m
    <2>1. input[i] = [frame |-> frame, byte |-> <<frame.name, n + i>>,
                      key |-> get_masking_key(frame)[((n + i - 1) % 4) + 1]]
      BY DEF Byted
    <2>. QED
      BY <2>1
  <1>. HIDE DEF key, T
  <1>3. byte_mask_circ(input, T).output =
            [i \in DOMAIN input |-> Xor(input[i], T[((i - 1) % 4) + 1])]
    BY DEF byte_mask_circ
  <1>4. \A i \in 1..m : Xor(input[i], T[((i - 1) % 4) + 1]) = <<frame.name, n + i>>
    <2>. TAKE i \in 1..m
    <2>1. ((i - 1) % 4) + 1 \in 1..8 /\ ((n + (((i - 1) % 4) + 1) - 1) % 4) + 1 = ((n + i - 1) % 4) + 1
      BY <1>1
    <2>2. T[((i - 1) % 4) + 1] = key[((n + i - 1) % 4) + 1]
      BY <1>1, <2>1
    <2>. QED
      BY <1>2, <2>2 DEF Xor
  <1>5. [i \in DOMAIN input |-> Xor(input[i], T[((i - 1) % 4) + 1])] =
            [i \in 1..m |-> <<frame.name, n + i>>]
    BY <1>4
  <1>. DEFINE off == m % 4
  <1>6. byte_mask_circ(input, T).key = SubSeq(T, off + 1, 8) \o SubSeq(T, 1, off)
    BY DEF byte_mask_circ, circshift_prepared_key
  <1>7. SubSeq(T, off + 1, 8) \o SubSeq(T, 1, off) = TurnedKey(frame, n + m)
    <2>. DEFINE K == {T[i] : i \in 1..8}
                a == SubSeq(T, off + 1, 8)
                b == SubSeq(T, 1, off)
    <2>1. T \in Seq(K) /\ Len(T) = 8
      <3>1. T = [i \in 1..8 |-> T[i]]
        BY <1>1
      <3>. HIDE DEF K
      <3>. QED
        BY <3>1, Listed DEF K
    <2>2. off \in 0..3 /\ off \in Nat
      BY <1>1
    <2>. HIDE DEF K, off
    <2>3. a \in Seq(K) /\ Len(a) = 8 - off /\ \A i \in 1..(8 - off) : a[i] = T[off + i]
      <3>1. PICK n8 \in Nat : n8 = 8 /\ off <= n8 /\ n8 <= Len(T)
        BY <2>1, <2>2
      <3>2. /\ SubSeq(T, off + 1, n8) \in Seq(K) /\ Len(SubSeq(T, off + 1, n8)) = n8 - off
            /\ \A i \in 1..(n8 - off) : SubSeq(T, off + 1, n8)[i] = T[off + i]
        BY <2>1, <2>2, <3>1, CutOut
      <3>. QED
        BY <3>1, <3>2
    <2>4. b \in Seq(K) /\ Len(b) = off /\ \A i \in 1..off : b[i] = T[i]
      <3>1. PICK n0 \in Nat : n0 = 0 /\ n0 <= off /\ off <= Len(T)
        BY <2>1, <2>2
      <3>2. /\ SubSeq(T, n0 + 1, off) \in Seq(K) /\ Len(SubSeq(T, n0 + 1, off)) = off - n0
            /\ \A i \in 1..(off - n0) : SubSeq(T, n0 + 1, off)[i] = T[n0 + i]
        <4>1. T \in Seq(K) /\ off \in Nat /\ n0 <= off /\ off <= Len(T)
          BY <2>1, <2>2, <3>1
        <4>. QED
          BY <4>1, CutOut
      <3>3. n0 + 1 = 1 /\ off - n0 = off /\ \A i \in 1..off : n0 + i = i
        BY <2>2, <3>1
      <3>. QED
        BY <3>2, <3>3
    <2>. HIDE DEF a, b
    <2>5. /\ a \o b \in Seq(K) /\ Len(a \o b) = 8
          /\ \A i \in 1..(8 - off) : (a \o b)[i] = a[i]
          /\ \A i \in 1..off : (a \o b)[(8 - off) + i] = b[i]
      <3>1. Joins(K, a, b, a \o b)
        BY <2>3, <2>4, Joined
      <3>2. (8 - off) + off = 8
        BY <2>2
      <3>. QED
        BY <2>3, <2>4, <3>1, <3>2 DEF Joins
    <2>6. \A i \in 1..8 : (a \o b)[i] = key[((n + m + i - 1) % 4) + 1]
      <3>. TAKE i \in 1..8
      <3>1. CASE i <= 8 - off
        <4>1. off + i \in 1..8 /\ i \in 1..(8 - off)
          BY <2>2, <3>1
        <4>2. ((n + (off + i) - 1) % 4) + 1 = ((n + m + i - 1) % 4) + 1
          BY <1>1 DEF off
        <4>3. (a \o b)[i] = T[off + i]
          BY <2>3, <2>5, <4>1
        <4>. QED
          BY <1>1, <4>1, <4>2, <4>3
      <3>2. CASE ~ (i <= 8 - off)
        <4>1. i - (8 - off) \in 1..8 /\ i - (8 - off) \in 1..off /\ (8 - off) + (i - (8 - off)) = i
          BY <2>2, <3>2
        <4>2. ((n + (i - (8 - off)) - 1) % 4) + 1 = ((n + m + i - 1) % 4) + 1
          BY <1>1 DEF off
        <4>3. (a \o b)[i] = T[i - (8 - off)]
          BY <2>4, <2>5, <4>1
        <4>. QED
          BY <1>1, <4>1, <4>2, <4>3
      <3>. QED
        BY <3>1, <3>2
    <2>7. a \o b = [i \in 1..8 |-> (a \o b)[i]]
      BY <2>5, ListIs
    <2>. QED
      BY <2>6, <2>7 DEF a, b, TurnedKey, key
  <1>. QED
    BY <1>3, <1>5, <1>6, <1>7 DEF T

--------------------------------------------------------------------------------
(* The processor, by its fields.                                                  *)
Text(op, parts, text, key) ==
    [op |-> op, parts |-> parts, text |-> text, prepared_key |-> key]
IsText(message) ==
    message = Text(message.op, message.parts, message.text, message.prepared_key)
Processor(state, needed, data, control) ==
    [m_state |-> state, m_bytes_needed |-> needed, data |-> data, control |-> control]
IsProcessor(p) ==
    /\ p = Processor(p.m_state, p.m_bytes_needed, p.data, p.control)
    /\ IsText(p.data) /\ IsText(p.control)

IsFunction(r) == r = [x \in DOMAIN r |-> r[x]]

LEMMA ProcessorByFields ==
    ASSUME NEW r, IsFunction(r),
           DOMAIN r = {"m_state", "m_bytes_needed", "data", "control"},
           NEW state, NEW needed, NEW data, NEW control, r.m_state = state,
           r.m_bytes_needed = needed, r.data = data, r.control = control
    PROVE  r = Processor(state, needed, data, control)
  BY DEF Processor, IsFunction

LEMMA TextByFields ==
    ASSUME NEW r, IsFunction(r),
           DOMAIN r = {"op", "parts", "text", "prepared_key"},
           NEW op, NEW parts, NEW text, NEW key, r.op = op, r.parts = parts, r.text = text,
           r.prepared_key = key
    PROVE  r = Text(op, parts, text, key)
  BY DEF Text, IsFunction

(* consume has gone through a whole frame.                                         *)
Ended(p, next) == next = reset_headers(next) /\ p # reset_headers(p)

LEMMA EndedIs ==
    ASSUME NEW state, NEW needed, NEW data, NEW control, NEW state2, NEW needed2, NEW data2,
           NEW control2
    PROVE  /\ reset_headers(Processor(state, needed, data, control)) =
                  Processor("HEADER_BASIC", 2, data, control)
           /\ Ended(Processor(state, needed, data, control),
                    Processor(state2, needed2, data2, control2)) <=>
                 /\ state2 = "HEADER_BASIC" /\ needed2 = 2
                 /\ ~ (state = "HEADER_BASIC" /\ needed = 2)
  <1>1. ASSUME NEW a, NEW b, NEW c, NEW d
        PROVE  reset_headers(Processor(a, b, c, d)) = Processor("HEADER_BASIC", 2, c, d)
    <2>. DEFINE r == [Processor(a, b, c, d) EXCEPT !.m_state = "HEADER_BASIC", !.m_bytes_needed = 2]
    <2>1. /\ r.m_state = "HEADER_BASIC" /\ r.m_bytes_needed = 2 /\ r.data = c /\ r.control = d
          /\ DOMAIN r = {"m_state", "m_bytes_needed", "data", "control"}
      BY DEF Processor
    <2>2. IsFunction(r)
      BY DEF IsFunction
    <2>3. reset_headers(Processor(a, b, c, d)) = r
      BY DEF reset_headers, BASIC_HEADER_LENGTH
    <2>. HIDE DEF r
    <2>. QED
      BY <2>1, <2>2, <2>3, ProcessorByFields
  <1>2. ASSUME NEW a, NEW b, NEW c, NEW d
        PROVE  Processor(a, b, c, d) = Processor("HEADER_BASIC", 2, c, d) <=>
                   a = "HEADER_BASIC" /\ b = 2
    <2>1. Processor(a, b, c, d).m_state = a /\ Processor(a, b, c, d).m_bytes_needed = b
      BY DEF Processor
    <2>2. /\ Processor("HEADER_BASIC", 2, c, d).m_state = "HEADER_BASIC"
          /\ Processor("HEADER_BASIC", 2, c, d).m_bytes_needed = 2
      BY DEF Processor
    <2>. QED
      BY <2>1, <2>2
  <1>. QED
    BY <1>1, <1>2 DEF Ended

LEMMA EmptyIs == IsText(NoMessage) /\ NoMessage.op = "NONE" /\ NoMessage.parts = <<>>
  BY DEF IsText, Text, NoMessage

LEMMA BeginIs ==
    ASSUME NEW state, NEW needed, NEW data, NEW control, NEW frame, IsText(data)
    PROVE  LET key == prepare_masking_key(get_masking_key(frame))
               next == Begin(Processor(state, needed, data, control), frame)
           IN  /\ IsControl(frame.op) =>
                     next = Processor(state, needed, data, Text(frame.op, <<>>, "ok", key))
               /\ ~ IsControl(frame.op) /\ data = NoMessage =>
                     next = Processor(state, needed, Text(frame.op, <<>>, "ok", key), control)
               /\ ~ IsControl(frame.op) /\ data # NoMessage =>
                     next = Processor(state, needed, Text(data.op, data.parts, data.text, key),
                                      control)
  <1>1. Processor(state, needed, data, control).data = data
    BY DEF Processor
  <1>2. CASE IsControl(frame.op)
    BY <1>2 DEF Begin, Processor, Text, Message
  <1>3. CASE ~ IsControl(frame.op) /\ data = NoMessage
    BY <1>1, <1>3 DEF Begin, Processor, Text, Message
  <1>4. CASE ~ IsControl(frame.op) /\ data # NoMessage
    <2>. DEFINE key == prepare_masking_key(get_masking_key(frame))
    <2>1. Begin(Processor(state, needed, data, control), frame) =
              [Processor(state, needed, data, control) EXCEPT !.data.prepared_key = key]
      BY <1>1, <1>4 DEF Begin
    <2>2. [data EXCEPT !.prepared_key = key] = Text(data.op, data.parts, data.text, key)
      BY DEF IsText, Text
    <2>. HIDE DEF key
    <2>3. [Processor(state, needed, data, control) EXCEPT !.data.prepared_key = key] =
              Processor(state, needed, [data EXCEPT !.prepared_key = key], control)
      BY DEF Processor
    <2>. QED
      BY <1>4, <2>1, <2>2, <2>3 DEF key
  <1>. QED
    BY <1>2, <1>3, <1>4

LEMMA FilledIs ==
    ASSUME NEW state, NEW needed, NEW data, NEW control, NEW frame, NEW bytes, IsText(data),
           IsText(control)
    PROVE  LET left == needed - Len(bytes)
               filled(message) ==
                   Text(message.op,
                        message.parts \o byte_mask_circ(bytes, message.prepared_key).output,
                        IF left = 0 THEN frame.text ELSE "ok",
                        byte_mask_circ(bytes, message.prepared_key).key)
               next == process_payload_bytes(Processor(state, needed, data, control), frame, bytes)
           IN  /\ IsControl(frame.op) => next = Processor(state, left, data, filled(control))
               /\ ~ IsControl(frame.op) => next = Processor(state, left, filled(data), control)
  <1>. DEFINE p == Processor(state, needed, data, control)
              left == needed - Len(bytes)
              filled(message) ==
                   Text(message.op,
                        message.parts \o byte_mask_circ(bytes, message.prepared_key).output,
                        IF left = 0 THEN frame.text ELSE "ok",
                        byte_mask_circ(bytes, message.prepared_key).key)
              poured(message) ==
                   [message EXCEPT
                       !.parts = @ \o byte_mask_circ(bytes, message.prepared_key).output,
                       !.prepared_key = byte_mask_circ(bytes, message.prepared_key).key,
                       !.text = IF left = 0 THEN frame.text ELSE "ok"]
              r == process_payload_bytes(p, frame, bytes)
  <1>1. p.m_bytes_needed = needed /\ p["data"] = data /\ p["control"] = control
    BY DEF Processor
  <1>2. ASSUME NEW message, IsText(message) PROVE poured(message) = filled(message)
    <2>. DEFINE c == poured(message)
                bytes2 == byte_mask_circ(bytes, message.prepared_key).output
                key2 == byte_mask_circ(bytes, message.prepared_key).key
                text2 == IF left = 0 THEN frame.text ELSE "ok"
    <2>1. message = Text(message.op, message.parts, message.text, message.prepared_key)
      BY <1>2 DEF IsText
    <2>. HIDE DEF bytes2, key2, text2
    <2>2. /\ c.op = message.op /\ c.parts = message.parts \o bytes2
          /\ c.text = text2 /\ c.prepared_key = key2
          /\ DOMAIN c = {"op", "parts", "text", "prepared_key"}
      BY <2>1 DEF Text, bytes2, key2, text2
    <2>3. IsFunction(c)
      BY DEF IsFunction
    <2>. HIDE DEF c
    <2>4. c = Text(c.op, c.parts, c.text, c.prepared_key)
      <3>1. ASSUME NEW z, IsFunction(z), DOMAIN z = {"op", "parts", "text", "prepared_key"}
            PROVE  z = Text(z.op, z.parts, z.text, z.prepared_key)
        BY <3>1, TextByFields
      <3>2. IsFunction(c)
        BY <2>3
      <3>3. DOMAIN c = {"op", "parts", "text", "prepared_key"}
        BY <2>2
      <3>. QED
        BY <3>1, <3>2, <3>3
    <2>5. c = Text(message.op, message.parts \o bytes2, text2, key2)
      BY <2>2, <2>4
    <2>. QED
      BY <2>5 DEF c, bytes2, key2, text2
  <1>3. IsFunction(r) /\ DOMAIN r = {"m_state", "m_bytes_needed", "data", "control"}
    BY DEF process_payload_bytes, Processor, IsFunction
  <1>4. CASE IsControl(frame.op)
    <2>1. Current(frame) = "control"
      BY <1>4 DEF Current
    <2>2. r = [p EXCEPT !.m_bytes_needed = left, !["control"] = poured(control)]
      BY <1>1, <2>1 DEF process_payload_bytes
    <2>. HIDE DEF poured, r
    <2>3. r.m_state = state /\ r.m_bytes_needed = left /\ r.data = data /\ r.control = poured(control)
      BY <2>2 DEF Processor
    <2>. QED
      <3>. HIDE DEF filled, left
      <3>1. r.control = filled(control)
        BY <1>2, <2>3
      <3>2. r = Processor(state, left, data, filled(control))
        BY <1>3, <2>3, <3>1, ProcessorByFields
      <3>. QED
        BY <1>4, <3>2 DEF filled, left, r
  <1>5. CASE ~ IsControl(frame.op)
    <2>1. Current(frame) = "data"
      BY <1>5 DEF Current
    <2>2. r = [p EXCEPT !.m_bytes_needed = left, !["data"] = poured(data)]
      BY <1>1, <2>1 DEF process_payload_bytes
    <2>. HIDE DEF poured, r
    <2>3. r.m_state = state /\ r.m_bytes_needed = left /\ r.control = control /\ r.data = poured(data)
      BY <2>2 DEF Processor
    <2>. QED
      <3>. HIDE DEF filled, left
      <3>1. r.data = filled(data)
        BY <1>2, <2>3
      <3>2. r = Processor(state, left, filled(data), control)
        BY <1>3, <2>3, <3>1, ProcessorByFields
      <3>. QED
        BY <1>5, <3>2 DEF filled, left, r
  <1>. QED
    BY <1>4, <1>5

LEMMA ResultIs ==
    ASSUME NEW p, NEW used
    PROVE  /\ Goes(p, used).processor = p /\ Goes(p, used).used = used
           /\ ~ Goes(p, used).error /\ Goes(p, used).message = NoMessage
           /\ Fails(p, used).processor = p /\ Fails(p, used).used = used
           /\ Fails(p, used).error /\ Fails(p, used).message = NoMessage
  BY DEF Goes, Fails

LEMMA EndFrameIs ==
    ASSUME NEW state, NEW needed, NEW data, NEW control, NEW frame \in Frame, NEW used
    PROVE  LET p == Processor(state, needed, data, control)
               result == EndFrame(p, frame, used)
           IN  /\ result.used = used
               /\ result.error <=> ~ Complete(p, frame)
               /\ result.error => result.processor = p /\ result.message = NoMessage
               /\ ~ result.error /\ ~ frame.fin =>
                     /\ result.processor = Processor("HEADER_BASIC", 2, data, control)
                     /\ result.message = NoMessage
               /\ ~ result.error /\ frame.fin /\ IsControl(frame.op) =>
                     /\ result.processor = Processor("HEADER_BASIC", 2, data, NoMessage)
                     /\ result.message = control
               /\ ~ result.error /\ frame.fin /\ ~ IsControl(frame.op) =>
                     /\ result.processor = Processor("HEADER_BASIC", 2, NoMessage, control)
                     /\ result.message = data
  <1>. DEFINE p == Processor(state, needed, data, control)
              result == EndFrame(p, frame, used)
  <1>1. reset_headers(p) = Processor("HEADER_BASIC", 2, data, control)
    BY EndedIs
  <1>2. p["data"] = data /\ p["control"] = control
    BY DEF Processor
  <1>3. CASE ~ Complete(p, frame)
    <2>1. result = Fails(p, used)
      BY <1>3 DEF EndFrame
    <2>. QED
      BY <1>3, <2>1, ResultIs
  <1>4. CASE Complete(p, frame) /\ ~ frame.fin
    <2>1. result = Goes(Processor("HEADER_BASIC", 2, data, control), used)
      BY <1>1, <1>4 DEF EndFrame
    <2>. QED
      BY <1>4, <2>1, ResultIs
  <1>5. CASE Complete(p, frame) /\ frame.fin
    <2>. DEFINE q == get_message(Processor("HEADER_BASIC", 2, data, control), frame)
    <2>1. result = [Goes(q, used) EXCEPT !.message = p[Current(frame)]]
      BY <1>1, <1>5 DEF EndFrame
    <2>2. /\ result.processor = q /\ result.used = used /\ ~ result.error
          /\ result.message = p[Current(frame)]
      <3>. HIDE DEF q, p, result
      <3>. QED
        BY <2>1 DEF Goes
    <2>3. CASE IsControl(frame.op)
      <3>1. Current(frame) = "control"
        BY <2>3 DEF Current
      <3>2. q = Processor("HEADER_BASIC", 2, data, NoMessage)
        BY <3>1 DEF get_message, Processor
      <3>. QED
        BY <1>2, <1>5, <2>2, <2>3, <3>1, <3>2
    <2>4. CASE ~ IsControl(frame.op)
      <3>1. Current(frame) = "data"
        BY <2>4 DEF Current
      <3>2. q = Processor("HEADER_BASIC", 2, NoMessage, control)
        BY <3>1 DEF get_message, Processor
      <3>. QED
        BY <1>2, <1>5, <2>2, <2>4, <3>1, <3>2
    <2>. QED
      BY <2>3, <2>4
  <1>6. Complete(p, frame) \in BOOLEAN /\ frame.fin \in BOOLEAN
    BY DEF Complete, Frame
  <1>. QED
    BY <1>3, <1>4, <1>5, <1>6

--------------------------------------------------------------------------------
(* What the processor holds, n frames of the script read and `at' bytes of it.             *)
Carries(p, s, n) ==
    IF Open(s, n)
    THEN p.data.op = MessageUpTo(s, n).op /\ p.data.parts = MessageUpTo(s, n).parts
    ELSE p.data = NoMessage

\* All of the message but the last bytes of the frame under way, and the key turned so far.
Fills(p, s, n) ==
    LET message == MessageUpTo(s, n + 1)
        frame == s[n + 1]
    IN  /\ p.data.op = message.op
        /\ p.data.parts = SubSeq(message.parts, 1, Len(message.parts) - p.m_bytes_needed)
        /\ p.data.prepared_key = TurnedKey(frame, frame.size - p.m_bytes_needed)
        /\ Len(message.parts) <= max_message_size

HeaderRead(s, n) == n < Len(s) /\ ValidBasicHeader(s[n + 1], ~ Open(s, n))

ReadsAt(p, s, n, at) ==
    /\ IsProcessor(p)
    /\ \/ /\ p.m_state = "HEADER_BASIC" /\ p.m_bytes_needed \in 1..BASIC_HEADER_LENGTH
          /\ p.m_bytes_needed < BASIC_HEADER_LENGTH => n < Len(s)
          /\ at = BytesBefore(s, n) + BASIC_HEADER_LENGTH - p.m_bytes_needed
          /\ Carries(p, s, n)
       \/ /\ p.m_state = "HEADER_EXTENDED" /\ HeaderRead(s, n)
          /\ p.m_bytes_needed \in 1..(get_header_len(s[n + 1]) - BASIC_HEADER_LENGTH)
          /\ at = BytesBefore(s, n) + get_header_len(s[n + 1]) - p.m_bytes_needed
          /\ Carries(p, s, n)
       \/ /\ p.m_state = "APPLICATION" /\ HeaderRead(s, n) /\ ValidExtendedHeader(s[n + 1])
          /\ p.m_bytes_needed \in 1..s[n + 1].size
          /\ at = BytesBefore(s, n) + get_header_len(s[n + 1]) + s[n + 1].size - p.m_bytes_needed
          /\ IF IsData(s[n + 1]) THEN Fills(p, s, n)
             ELSE Carries(p, s, n) /\ p.control.op = s[n + 1].op

(* The frames read so far were all accepted.                                         *)
ReadWell(s, n) ==
    /\ s \in Seq(Frame) /\ n \in 0..Len(s)
    /\ \A i \in 1..n : Accepted(s, i)
    /\ Open(s, n) => HasBeginning(s, n)

LEMMA MessageOfNext ==
    ASSUME NEW s, NEW n, ReadWell(s, n), HeaderRead(s, n), IsData(s[n + 1])
    PROVE  /\ HasBeginning(s, n + 1)
           /\ MessageUpTo(s, n + 1).op =
                  IF Open(s, n) THEN MessageUpTo(s, n).op ELSE s[n + 1].op
           /\ MessageUpTo(s, n + 1).parts =
                  (IF Open(s, n) THEN MessageUpTo(s, n).parts ELSE <<>>) \o Payload(s[n + 1])
           /\ Open(s, n) => MessageUpTo(s, n).parts \in Seq(Byte)
  <1>1. s \in Seq(Frame) /\ n \in Nat /\ n < Len(s) /\ n \in 0..Len(s)
    BY DEF ReadWell, HeaderRead
  <1>2. s[n + 1] \in Frame
    BY <1>1
  <1>3. Continues(s[n + 1]) <=> Open(s, n)
    BY <1>1, OpenNext DEF HeaderRead, ValidBasicHeader, Continues, IsData
  <1>4. Payload(s[n + 1]) \in Seq(Byte)
    BY <1>2, PayloadIs
  <1>5. CASE Open(s, n)
    <2>1. HasBeginning(s, n)
      BY <1>5 DEF ReadWell
    <2>2. MessageUpTo(s, n).parts \in Seq(Byte)
      BY <1>1, <2>1, MessageTyped
    <2>3. /\ HasBeginning(s, n + 1)
          /\ MessageUpTo(s, n + 1).op = MessageUpTo(s, n).op
          /\ MessageUpTo(s, n + 1).parts = MessageUpTo(s, n).parts \o Payload(s[n + 1])
      BY <1>1, <1>3, <1>5, <2>1, MessageNext
    <2>. QED
      BY <1>5, <2>2, <2>3
  <1>6. CASE ~ Open(s, n)
    <2>1. /\ HasBeginning(s, n + 1)
          /\ MessageUpTo(s, n + 1).op = s[n + 1].op
          /\ MessageUpTo(s, n + 1).parts = Payload(s[n + 1])
      BY <1>1, <1>3, <1>6, MessageNext
    <2>2. <<>> \o Payload(s[n + 1]) = Payload(s[n + 1])
      BY <1>4, ConcatEmptySeq
    <2>. QED
      BY <1>6, <2>1, <2>2
  <1>. QED
    BY <1>5, <1>6

(* The length field that a size takes.                                              *)
LEMMA CodeIs ==
    ASSUME NEW size \in Nat, NEW code \in {"basic", "16bit", "64bit"},
           code = "basic" => size <= payload_size_basic,
           code = "16bit" => size <= payload_size_extended
    PROVE  code = (CASE size <= payload_size_basic -> "basic"
                     [] size \in (payload_size_basic + 1)..payload_size_extended -> "16bit"
                     [] OTHER -> "64bit") <=>
               /\ code = "16bit" => size > payload_size_basic
               /\ code = "64bit" => size > payload_size_extended
  <1>. DEFINE named == CASE size <= payload_size_basic -> "basic"
                         [] size \in (payload_size_basic + 1)..payload_size_extended -> "16bit"
                         [] OTHER -> "64bit"
  <1>1. payload_size_basic = 125 /\ payload_size_extended = 65535
    BY DEF payload_size_basic, payload_size_extended
  <1>2. CASE size <= 125
    <2>1. size <= payload_size_basic
          /\ ~ (size \in (payload_size_basic + 1)..payload_size_extended)
      <3>1. size <= payload_size_basic
        BY <1>1, <1>2
      <3>2. \A k \in (payload_size_basic + 1)..payload_size_extended : ~ (k <= payload_size_basic)
        BY <1>1
      <3>3. ~ (size \in (payload_size_basic + 1)..payload_size_extended)
        BY ONLY <3>1, <3>2
      <3>. QED
        BY ONLY <3>1, <3>3
    <2>2. named = "basic"
      BY <2>1
    <2>. HIDE DEF named
    <2>3. code = named <=> code # "16bit" /\ code # "64bit"
      BY <2>2
    <2>4. ~ (size > payload_size_basic) /\ ~ (size > payload_size_extended)
      BY <1>1, <1>2
    <2>. QED
      BY <2>3, <2>4 DEF named
  <1>3. CASE size > 125 /\ size <= 65535
    <2>1. ~ (size <= payload_size_basic)
          /\ size \in (payload_size_basic + 1)..payload_size_extended
      BY <1>1, <1>3
    <2>2. named = "16bit"
      BY <2>1
    <2>. HIDE DEF named
    <2>4. /\ size > payload_size_basic /\ ~ (size > payload_size_extended)
          /\ ~ (size <= payload_size_basic)
      BY <1>1, <1>3
    <2>. QED
      BY <2>2, <2>4 DEF named
  <1>4. CASE size > 65535
    <2>1. ~ (size <= payload_size_basic)
          /\ ~ (size \in (payload_size_basic + 1)..payload_size_extended)
      BY <1>1, <1>4
    <2>2. named = "64bit"
      BY <2>1
    <2>. HIDE DEF named
    <2>4. /\ size > payload_size_extended /\ ~ (size <= payload_size_basic)
          /\ ~ (size <= payload_size_extended)
      BY <1>1, <1>4
    <2>. QED
      BY <2>2, <2>4 DEF named
  <1>. QED
    BY <1>2, <1>3, <1>4

(* The processor accepts a frame that may follow those before it, but for a text of one   *)
(* frame that ends inside a character: its opcode is TEXT.                          *)
LEMMA TextFrameCut ==
    ASSUME NEW s, NEW n, ReadWell(s, n), n < Len(s), Follows(s, n + 1)
    PROVE  Accepted(s, n + 1) <=>
               (s[n + 1].op = "TEXT" /\ s[n + 1].fin => s[n + 1].text # "cut")
  <1>. DEFINE frame == s[n + 1]
              ends == EndsInsideCharacter(s, n + 1)
  <1>1. s \in Seq(Frame) /\ n \in Nat /\ (n + 1) - 1 = n /\ frame \in Frame
    BY DEF ReadWell
  <1>2. Accepted(s, n + 1) <=> (ends => frame.op = "CONTINUATION")
    BY DEF Accepted, WellFormed, CutInContinuation
  <1>3. CASE frame.op = "CONTINUATION"
    BY <1>2, <1>3
  <1>4. CASE IsControl(frame.op)
    <2>1. ~ ends /\ frame.op # "TEXT"
      BY <1>4 DEF EndsInsideCharacter, IsData, IsControl
    <2>. QED
      BY <1>2, <2>1
  <1>5. CASE ~ IsControl(frame.op) /\ frame.op # "CONTINUATION"
    <2>1. Begins(s, n + 1, n + 1) /\ n + 1 \in 1..(n + 1)
      BY <1>1, <1>5 DEF Begins, Continues
    <2>2. Beginning(s, n + 1) = n + 1
      BY <1>1, <2>1, BeginningIs
    <2>3. MessageUpTo(s, n + 1).op = frame.op
      BY <2>2 DEF MessageUpTo
    <2>4. (n + 1)..(n + 1) = {n + 1} /\ ((n + 1) + 1)..(n + 1) = {}
      BY <1>1
    <2>5. ends <=> frame.fin /\ frame.op = "TEXT" /\ frame.size > 0 /\ frame.text = "cut"
      BY <1>5, <2>2, <2>3, <2>4 DEF EndsInsideCharacter, IsData
    <2>6. frame.size \in Nat /\ (frame.size = 0 => frame.text = "ok")
      <3>. HIDE DEF frame
      <3>. QED
        BY <1>1 DEF Frame
    <2>7. frame.text = "cut" => frame.size > 0
      BY <2>6
    <2>. QED
      BY <1>2, <1>5, <2>5, <2>7
  <1>. QED
    BY <1>3, <1>4, <1>5

(* What the processor checks of a frame's header, payload and end is what the frame      *)
(* must be to follow those before it.                                              *)
LEMMA AcceptedIs ==
    ASSUME NEW s, NEW n, ReadWell(s, n), n < Len(s)
    PROVE  Accepted(s, n + 1) <=>
               /\ ValidBasicHeader(s[n + 1], ~ Open(s, n)) /\ ValidExtendedHeader(s[n + 1])
               /\ IsData(s[n + 1]) =>
                     /\ Len(MessageUpTo(s, n + 1).parts) <= max_message_size
                     /\ MessageUpTo(s, n + 1).op = "TEXT" => s[n + 1].text # "bad"
                     /\ s[n + 1].op = "TEXT" /\ s[n + 1].fin => s[n + 1].text # "cut"
  <1>. DEFINE frame == s[n + 1]
              message == MessageUpTo(s, n + 1)
  <1>1. s \in Seq(Frame) /\ n \in Nat /\ (n + 1) - 1 = n
    BY DEF ReadWell
  <1>2. /\ frame.size \in Nat /\ frame.code \in {"basic", "16bit", "64bit"}
        /\ frame.masked \in BOOLEAN /\ frame.rsv \in BOOLEAN /\ frame.fin \in BOOLEAN
        /\ frame.code = "basic" => frame.size <= payload_size_basic
        /\ frame.code = "16bit" => frame.size <= payload_size_extended
    <2>1. frame \in Frame
      BY <1>1
    <2>. HIDE DEF frame
    <2>. QED
      BY <2>1 DEF Frame
  <1>3. Accepted(s, n + 1) <=>
            /\ frame.masked /\ ~ frame.rsv /\ frame.op # "RESERVED"
            /\ frame.code = CASE frame.size <= payload_size_basic -> "basic"
                              [] frame.size \in (payload_size_basic + 1)..payload_size_extended
                                    -> "16bit"
                              [] OTHER -> "64bit"
            /\ IF IsControl(frame.op)
               THEN frame.fin /\ frame.code = "basic"
               ELSE /\ Open(s, n) <=> frame.op = "CONTINUATION"
                    /\ Len(message.parts) <= max_message_size
                    /\ message.op = "TEXT" => frame.text # "bad"
                    /\ frame.op = "TEXT" /\ frame.fin => frame.text # "cut"
    <2>1. Accepted(s, n + 1) => Follows(s, n + 1)
      BY DEF Accepted, WellFormed, CutInContinuation
    <2>2. Accepted(s, n + 1) <=>
              Follows(s, n + 1) /\ (frame.op = "TEXT" /\ frame.fin => frame.text # "cut")
      BY <2>1, TextFrameCut
    <2>3. Follows(s, n + 1) <=>
            /\ frame.masked /\ ~ frame.rsv /\ frame.op # "RESERVED"
            /\ frame.code = CASE frame.size <= payload_size_basic -> "basic"
                              [] frame.size \in (payload_size_basic + 1)..payload_size_extended
                                    -> "16bit"
                              [] OTHER -> "64bit"
            /\ IF IsControl(frame.op)
               THEN frame.fin /\ frame.code = "basic"
               ELSE /\ Open(s, n) <=> frame.op = "CONTINUATION"
                    /\ Len(message.parts) <= max_message_size
                    /\ message.op = "TEXT" => frame.text # "bad"
      BY <1>1 DEF Follows
    <2>4. IsControl(frame.op) => frame.op # "TEXT"
      BY DEF IsControl
    <2>. HIDE DEF frame, message
    <2>. QED
      BY <2>2, <2>3, <2>4
  <1>4. frame.code = (CASE frame.size <= payload_size_basic -> "basic"
                        [] frame.size \in (payload_size_basic + 1)..payload_size_extended
                              -> "16bit"
                        [] OTHER -> "64bit") <=> ValidExtendedHeader(frame)
    <2>1. PICK size \in Nat : size = frame.size
      BY <1>2
    <2>2. PICK code \in {"basic", "16bit", "64bit"} : code = frame.code
      BY <1>2
    <2>3. /\ code = "basic" => size <= payload_size_basic
          /\ code = "16bit" => size <= payload_size_extended
      BY <1>2, <2>1, <2>2
    <2>. HIDE DEF frame
    <2>4. code = (CASE size <= payload_size_basic -> "basic"
                    [] size \in (payload_size_basic + 1)..payload_size_extended -> "16bit"
                    [] OTHER -> "64bit") <=>
              /\ code = "16bit" => size > payload_size_basic
              /\ code = "64bit" => size > payload_size_extended
      BY <2>1, <2>2, <2>3, CodeIs
    <2>. QED
      BY <2>1, <2>2, <2>4 DEF ValidExtendedHeader
  <1>5. Open(s, n) \in BOOLEAN
    BY DEF Open
  <1>. HIDE DEF frame, message
  <1>. QED
    BY <1>2, <1>3, <1>4, <1>5 DEF ValidBasicHeader, IsData, frame, message

(* Does a message go on? By what the processor holds.                                  *)
LEMMA CarriesIs ==
    ASSUME NEW p, NEW s, NEW n, ReadWell(s, n), IsProcessor(p), Carries(p, s, n)
    PROVE  (p.data = NoMessage) <=> ~ Open(s, n)
  <1>1. CASE Open(s, n)
    <2>1. s \in Seq(Frame) /\ n \in 0..Len(s) /\ HasBeginning(s, n)
      BY <1>1 DEF ReadWell
    <2>2. MessageUpTo(s, n).op \in Ops
      BY <2>1, MessageTyped
    <2>3. p.data.op \in Ops
      BY <1>1, <2>2 DEF Carries
    <2>. QED
      BY <1>1, <2>3, EmptyIs DEF Ops
  <1>2. CASE ~ Open(s, n)
    BY <1>2 DEF Carries
  <1>. QED
    BY <1>1, <1>2

(* The bytes in the buffer are those of the script from there on.                        *)
Buffered(pieces, s, at) ==
    /\ pieces \in Seq(Piece) /\ Len(pieces) \in Nat \ {0}
    /\ at \in Nat /\ at + Len(pieces) <= Len(Wire(s))
    /\ \A i \in 1..Len(pieces) : pieces[i] = Wire(s)[at + i]

\* How many of them a turn of the loop uses.
Used(p, pieces) == IF p.m_bytes_needed < Len(pieces) THEN p.m_bytes_needed ELSE Len(pieces)

LEMMA CurrentFrame ==
    ASSUME NEW p, NEW s, NEW n, NEW at, NEW pieces, ReadWell(s, n), ReadsAt(p, s, n, at),
           Buffered(pieces, s, at)
    PROVE  /\ n < Len(s) /\ s[n + 1] \in Frame
           /\ pieces[1].frame = s[n + 1]
           /\ p.m_bytes_needed \in Nat \ {0} /\ Used(p, pieces) \in 1..p.m_bytes_needed
           /\ Used(p, pieces) <= Len(pieces)
           /\ p.m_state = "APPLICATION" =>
                 \A i \in 1..Used(p, pieces) :
                    pieces[i] = Byted(s[n + 1], s[n + 1].size - p.m_bytes_needed + i)
  <1>1. s \in Seq(Frame) /\ n \in Nat /\ n <= Len(s)
    BY DEF ReadWell
  <1>2. p.m_bytes_needed \in Nat \ {0} /\ Len(pieces) \in Nat \ {0}
    <2>1. n < Len(s) => s[n + 1] \in Frame
      BY <1>1
    <2>2. n < Len(s) => get_header_len(s[n + 1]) \in 2..4 /\ s[n + 1].size \in Nat
      BY <2>1, PiecesAre
    <2>. QED
      BY <2>2 DEF ReadsAt, HeaderRead, Buffered, BASIC_HEADER_LENGTH
  <1>3. Used(p, pieces) \in 1..p.m_bytes_needed /\ Used(p, pieces) <= Len(pieces)
    BY <1>2 DEF Used
  <1>4. n < Len(s)
    <2>. SUFFICES ASSUME n = Len(s) PROVE FALSE
      BY <1>1
    <2>1. BytesBefore(s, n) = Len(Wire(s))
      BY <1>1, WireIs
    <2>2. at = BytesBefore(s, n)
      <3>1. BytesBefore(s, n) \in Nat /\ ~ (n < Len(s))
        BY <1>1, <2>1, WireIs
      <3>2. p.m_bytes_needed \in 1..2 /\ (p.m_bytes_needed < 2 => n < Len(s))
            /\ at = BytesBefore(s, n) + 2 - p.m_bytes_needed
        BY <3>1 DEF ReadsAt, HeaderRead, BASIC_HEADER_LENGTH
      <3>. QED
        BY <3>1, <3>2
    <2>. QED
      BY <1>2, <2>1, <2>2 DEF Buffered
  <1>. DEFINE frame == s[n + 1]
              header == get_header_len(frame)
              before == BytesBefore(s, n)
  <1>5. frame \in Frame
    BY <1>1, <1>4
  <1>6. /\ header \in 2..4 /\ frame.size \in Nat
        /\ Len(Pieces(frame)) = header + frame.size
        /\ \A k \in 1..header : Pieces(frame)[k].frame = frame
        /\ \A k \in 1..frame.size : Pieces(frame)[header + k] = Byted(frame, k)
    BY <1>5, PiecesAre
  <1>7. before \in Nat /\ \A k \in 1..Len(Pieces(frame)) : Wire(s)[before + k] = Pieces(frame)[k]
    BY <1>1, <1>4, WireIs
  <1>8. ReadsAt(p, s, n, at)
    OBVIOUS
  <1>. HIDE DEF frame, header, before
  <1>9. /\ at \in Nat
        /\ \A i \in 1..Used(p, pieces) : pieces[i] = Wire(s)[at + i]
    BY <1>2, <1>3 DEF Buffered
  <1>10. 1 \in 1..Used(p, pieces)
    BY <1>3
  <1>11. CASE p.m_state = "HEADER_BASIC" \/ p.m_state = "HEADER_EXTENDED"
    <2>1. \E k \in 1..header : at + 1 = before + k
      <3>1. CASE p.m_state = "HEADER_BASIC"
        <4>1. p.m_bytes_needed \in 1..2 /\ at = before + 2 - p.m_bytes_needed
          BY <1>8, <3>1 DEF ReadsAt, BASIC_HEADER_LENGTH, before
        <4>2. 3 - p.m_bytes_needed \in 1..header /\ at + 1 = before + (3 - p.m_bytes_needed)
          <5>1. PICK k \in 1..2 : k = p.m_bytes_needed
            BY <4>1
          <5>2. 3 - k \in 1..header
            BY <1>6
          <5>3. at + 1 = before + (3 - k)
            BY <1>7, <4>1, <5>1
          <5>. QED
            BY <5>1, <5>2, <5>3
        <4>. QED
          BY <4>2
      <3>2. CASE p.m_state = "HEADER_EXTENDED"
        <4>1. p.m_bytes_needed \in 1..(header - 2) /\ at = before + header - p.m_bytes_needed
          BY <1>8, <3>2 DEF ReadsAt, BASIC_HEADER_LENGTH, before, header, frame
        <4>2. /\ header + 1 - p.m_bytes_needed \in 1..header
              /\ at + 1 = before + (header + 1 - p.m_bytes_needed)
          BY <1>6, <1>7, <4>1
        <4>. QED
          BY <4>2
      <3>. QED
        BY <1>11, <3>1, <3>2
    <2>2. PICK k \in 1..header : at + 1 = before + k
      BY <2>1
    <2>3. k \in 1..Len(Pieces(frame))
      BY <1>6
    <2>4. pieces[1] = Pieces(frame)[k]
      BY <1>7, <1>9, <1>10, <2>2, <2>3
    <2>5. pieces[1].frame = frame
      BY <1>6, <2>4
    <2>. QED
      BY <1>2, <1>3, <1>4, <1>5, <1>11, <2>5 DEF frame
  <1>12. CASE p.m_state = "APPLICATION"
    <2>. DEFINE got == frame.size - p.m_bytes_needed
    <2>1. /\ p.m_bytes_needed \in 1..frame.size
          /\ at = before + header + frame.size - p.m_bytes_needed
      BY <1>8, <1>12 DEF ReadsAt, frame, header, before
    <2>2. ASSUME NEW i \in 1..Used(p, pieces) PROVE pieces[i] = Byted(frame, got + i)
      <3>1. /\ got + i \in 1..frame.size /\ at + i = before + (header + (got + i))
            /\ header + (got + i) \in 1..Len(Pieces(frame))
        <4>1. PICK k \in Nat : k = p.m_bytes_needed
          BY <1>2
        <4>2. i \in 1..k /\ k \in 1..frame.size /\ at = before + header + frame.size - k
              /\ got = frame.size - k
          BY <1>3, <2>1, <4>1
        <4>. HIDE DEF got
        <4>3. got + i \in 1..frame.size
          BY <1>6, <4>2
        <4>4. header + (got + i) \in 1..Len(Pieces(frame))
          BY <1>6, <4>3
        <4>5. at + i = before + (header + (got + i))
          BY <1>6, <1>7, <4>2
        <4>. QED
          BY <4>3, <4>4, <4>5
      <3>2. pieces[i] = Pieces(frame)[header + (got + i)]
        BY <1>7, <1>9, <3>1
      <3>. QED
        BY <1>6, <3>1, <3>2
    <2>3. pieces[1].frame = frame
      <3>1. pieces[1] = Byted(frame, got + 1)
        BY <1>10, <2>2
      <3>2. Byted(frame, got + 1).frame = frame
        BY DEF Byted
      <3>. QED
        BY <3>1, <3>2
    <2>. QED
      BY <1>2, <1>3, <1>4, <1>5, <2>2, <2>3 DEF frame
  <1>. QED
    BY <1>8, <1>11, <1>12 DEF ReadsAt

--------------------------------------------------------------------------------
(* A turn of consume's loop.                                                        *)
Fresh(p) == p.m_state = "HEADER_BASIC" /\ p.m_bytes_needed = 2

LEMMA EndedByFields ==
    ASSUME NEW p, NEW q, IsProcessor(p), IsProcessor(q)
    PROVE  Ended(p, q) <=> Fresh(q) /\ ~ Fresh(p)
  <1>1. /\ p = Processor(p.m_state, p.m_bytes_needed, p.data, p.control)
        /\ q = Processor(q.m_state, q.m_bytes_needed, q.data, q.control)
    BY DEF IsProcessor
  <1>2. ASSUME NEW a, NEW b, NEW c, NEW d, NEW e, NEW f, NEW g, NEW h
        PROVE  Ended(Processor(a, b, c, d), Processor(e, f, g, h)) <=>
                   /\ e = "HEADER_BASIC" /\ f = 2 /\ ~ (a = "HEADER_BASIC" /\ b = 2)
    BY EndedIs
  <1>3. Ended(Processor(p.m_state, p.m_bytes_needed, p.data, p.control),
              Processor(q.m_state, q.m_bytes_needed, q.data, q.control)) <=>
            /\ q.m_state = "HEADER_BASIC" /\ q.m_bytes_needed = 2
            /\ ~ (p.m_state = "HEADER_BASIC" /\ p.m_bytes_needed = 2)
    BY <1>2
  <1>4. Ended(p, q) <=> /\ q.m_state = "HEADER_BASIC" /\ q.m_bytes_needed = 2
                        /\ ~ (p.m_state = "HEADER_BASIC" /\ p.m_bytes_needed = 2)
    BY <1>1, <1>3
  <1>. QED
    BY <1>4 DEF Fresh

LEMMA FieldsAre ==
    ASSUME NEW state, NEW needed, NEW data, NEW control
    PROVE  /\ Processor(state, needed, data, control).m_state = state
           /\ Processor(state, needed, data, control).m_bytes_needed = needed
           /\ Processor(state, needed, data, control).data = data
           /\ Processor(state, needed, data, control).control = control
           /\ IsText(data) /\ IsText(control) =>
                 IsProcessor(Processor(state, needed, data, control))
  <1>1. /\ Processor(state, needed, data, control).m_state = state
        /\ Processor(state, needed, data, control).m_bytes_needed = needed
        /\ Processor(state, needed, data, control).data = data
        /\ Processor(state, needed, data, control).control = control
    BY DEF Processor
  <1>. QED
    BY <1>1 DEF IsProcessor

LEMMA TextFieldsAre ==
    ASSUME NEW op, NEW parts, NEW text, NEW key
    PROVE  /\ Text(op, parts, text, key).op = op /\ Text(op, parts, text, key).parts = parts
           /\ Text(op, parts, text, key).text = text
           /\ Text(op, parts, text, key).prepared_key = key
           /\ IsText(Text(op, parts, text, key))
  <1>1. /\ Text(op, parts, text, key).op = op /\ Text(op, parts, text, key).parts = parts
        /\ Text(op, parts, text, key).text = text
        /\ Text(op, parts, text, key).prepared_key = key
    BY DEF Text
  <1>. QED
    BY <1>1 DEF IsText

States == {"HEADER_BASIC", "HEADER_EXTENDED", "APPLICATION"}

\* What a turn may lead to, at the (n+1)-th frame, after `to' bytes of the script.
Outcome(r, p, s, n, to, used) ==
    /\ r.used = used
    /\ r.error => /\ ~ Accepted(s, n + 1) /\ r.message = NoMessage
                  /\ ~ Ended(p, r.processor) /\ r.processor.m_state \in States
    /\ ~ r.error /\ ~ Ended(p, r.processor) =>
          ReadsAt(r.processor, s, n, to) /\ r.message = NoMessage
    /\ ~ r.error /\ Ended(p, r.processor) =>
          /\ Accepted(s, n + 1) /\ ReadsAt(r.processor, s, n + 1, to)
          /\ ~ s[n + 1].fin => r.message = NoMessage
          /\ s[n + 1].fin /\ IsData(s[n + 1]) =>
                /\ r.message.op = MessageUpTo(s, n + 1).op
                /\ r.message.parts = MessageUpTo(s, n + 1).parts
          /\ s[n + 1].fin /\ ~ IsData(s[n + 1]) => r.message.op = s[n + 1].op

\* All of the frame is there, and may be ended.
AtEnd(q, s, n) ==
    LET frame == s[n + 1]
        message == MessageUpTo(s, n + 1)
    IN  /\ IsProcessor(q) /\ q.m_state = "APPLICATION"
        /\ HeaderRead(s, n) /\ ValidExtendedHeader(frame)
        /\ IF IsData(frame)
           THEN /\ q.data.op = message.op /\ q.data.parts = message.parts
                /\ Len(message.parts) <= max_message_size
                /\ message.op = "TEXT" => frame.text # "bad"
                /\ frame.op = "TEXT" => q.data.text = frame.text
           ELSE Carries(q, s, n) /\ q.control.op = frame.op

LEMMA CarriesOn ==
    ASSUME NEW s, NEW n, ReadWell(s, n), HeaderRead(s, n), NEW p, NEW q
    PROVE  /\ IsData(s[n + 1]) /\ s[n + 1].fin /\ q.data = NoMessage => Carries(q, s, n + 1)
           /\ IsData(s[n + 1]) /\ ~ s[n + 1].fin /\ q.data.op = MessageUpTo(s, n + 1).op
                 /\ q.data.parts = MessageUpTo(s, n + 1).parts => Carries(q, s, n + 1)
           /\ ~ IsData(s[n + 1]) /\ Carries(p, s, n) /\ q.data = p.data => Carries(q, s, n + 1)
  <1>1. s \in Seq(Frame) /\ n \in Nat /\ n < Len(s) /\ n \in 0..Len(s)
    BY DEF ReadWell, HeaderRead
  <1>2. s[n + 1] \in Frame
    BY <1>1
  <1>3. /\ IsData(s[n + 1]) => (Open(s, n + 1) <=> ~ s[n + 1].fin)
        /\ ~ IsData(s[n + 1]) => (Open(s, n + 1) <=> Open(s, n))
    BY <1>1, OpenNext
  <1>4. ASSUME ~ IsData(s[n + 1]), Open(s, n)
        PROVE  /\ MessageUpTo(s, n + 1).op = MessageUpTo(s, n).op
               /\ MessageUpTo(s, n + 1).parts = MessageUpTo(s, n).parts
    <2>1. HasBeginning(s, n) /\ Continues(s[n + 1])
      BY <1>4 DEF ReadWell, IsData, Continues
    <2>2. /\ MessageUpTo(s, n + 1).op = MessageUpTo(s, n).op
          /\ MessageUpTo(s, n + 1).parts = MessageUpTo(s, n).parts \o Payload(s[n + 1])
      BY <1>1, <2>1, MessageNext
    <2>3. Payload(s[n + 1]) = <<>>
      BY <1>2, <1>4, PayloadIs
    <2>4. MessageUpTo(s, n).parts \in Seq(Byte)
      BY <1>1, <2>1, MessageTyped
    <2>. QED
      BY <2>2, <2>3, <2>4, ConcatEmptySeq
  <1>. QED
    BY <1>3, <1>4 DEF Carries

LEMMA EndOutcome ==
    ASSUME NEW p, NEW q, NEW s, NEW n, NEW to, NEW used, ReadWell(s, n), IsProcessor(p),
           ~ Fresh(p), AtEnd(q, s, n), to = BytesBefore(s, n + 1), to \in Nat
    PROVE  Outcome(EndFrame(q, s[n + 1], used), p, s, n, to, used)
  <1>. DEFINE frame == s[n + 1]
              r == EndFrame(q, frame, used)
  <1>1. n \in Nat /\ n < Len(s) /\ s \in Seq(Frame)
    BY DEF ReadWell, AtEnd, HeaderRead
  <1>2. frame \in Frame
    BY <1>1
  <1>3. /\ IsProcessor(q) /\ q.m_state = "APPLICATION" /\ IsText(q.data) /\ IsText(q.control)
        /\ q = Processor(q.m_state, q.m_bytes_needed, q.data, q.control)
    BY DEF AtEnd, IsProcessor
  <1>4. HeaderRead(s, n) /\ ValidBasicHeader(frame, ~ Open(s, n)) /\ ValidExtendedHeader(frame)
    BY DEF AtEnd, HeaderRead
  <1>5. Complete(q, frame) <=> Accepted(s, n + 1)
    <2>1. CASE IsData(frame)
      <3>1. /\ Len(MessageUpTo(s, n + 1).parts) <= max_message_size
            /\ MessageUpTo(s, n + 1).op = "TEXT" => frame.text # "bad"
            /\ frame.op = "TEXT" => q.data.text = frame.text
        BY <2>1 DEF AtEnd
      <3>2. Accepted(s, n + 1) <=> (frame.op = "TEXT" /\ frame.fin => frame.text # "cut")
        BY <1>1, <1>4, <2>1, <3>1, AcceptedIs
      <3>. HIDE DEF frame
      <3>. QED
        BY <3>1, <3>2 DEF Complete
    <2>2. CASE ~ IsData(frame)
      <3>1. frame.op # "TEXT"
        BY <2>2 DEF IsData, IsControl
      <3>2. Accepted(s, n + 1)
        BY <1>1, <1>4, <2>2, AcceptedIs
      <3>. QED
        BY <3>1, <3>2 DEF Complete
    <2>. QED
      BY <2>1, <2>2
  <1>6. /\ r.used = used
        /\ r.error <=> ~ Complete(q, frame)
        /\ r.error => r.processor = q /\ r.message = NoMessage
        /\ ~ r.error /\ ~ frame.fin =>
              /\ r.processor = Processor("HEADER_BASIC", 2, q.data, q.control)
              /\ r.message = NoMessage
        /\ ~ r.error /\ frame.fin /\ IsControl(frame.op) =>
              /\ r.processor = Processor("HEADER_BASIC", 2, q.data, NoMessage)
              /\ r.message = q.control
        /\ ~ r.error /\ frame.fin /\ ~ IsControl(frame.op) =>
              /\ r.processor = Processor("HEADER_BASIC", 2, NoMessage, q.control)
              /\ r.message = q.data
    <2>. DEFINE Ends(z) == LET e == EndFrame(z, frame, used) IN
              /\ e.used = used
              /\ e.error <=> ~ Complete(z, frame)
              /\ e.error => e.processor = z /\ e.message = NoMessage
              /\ ~ e.error /\ ~ frame.fin =>
                    /\ e.processor = Processor("HEADER_BASIC", 2, q.data, q.control)
                    /\ e.message = NoMessage
              /\ ~ e.error /\ frame.fin /\ IsControl(frame.op) =>
                    /\ e.processor = Processor("HEADER_BASIC", 2, q.data, NoMessage)
                    /\ e.message = q.control
              /\ ~ e.error /\ frame.fin /\ ~ IsControl(frame.op) =>
                    /\ e.processor = Processor("HEADER_BASIC", 2, NoMessage, q.control)
                    /\ e.message = q.data
    <2>1. ASSUME NEW a, NEW b PROVE Ends(Processor(a, b, q.data, q.control))
      BY <1>2, EndFrameIs
    <2>. HIDE DEF Ends
    <2>2. Ends(Processor(q.m_state, q.m_bytes_needed, q.data, q.control))
      BY <2>1
    <2>3. Ends(q)
      BY <1>3, <2>2
    <2>. QED
      BY <2>3 DEF Ends
  <1>. HIDE DEF r
  <1>7. CASE r.error
    <2>1. ~ Ended(p, r.processor)
      BY <1>3, <1>6, <1>7, EndedByFields DEF Fresh
    <2>. QED
      BY <1>3, <1>5, <1>6, <1>7, <2>1 DEF Outcome, r, States
  <1>8. CASE ~ r.error
    <2>. DEFINE data == IF frame.fin /\ IsData(frame) THEN NoMessage ELSE q.data
                control == IF frame.fin /\ ~ IsData(frame) THEN NoMessage ELSE q.control
                t == r.processor
    <2>1. t = Processor("HEADER_BASIC", 2, data, control)
      <3>1. CASE ~ frame.fin
        BY <1>6, <1>8, <3>1
      <3>2. CASE frame.fin /\ IsData(frame)
        BY <1>6, <1>8, <3>2 DEF IsData
      <3>3. CASE frame.fin /\ ~ IsData(frame)
        BY <1>6, <1>8, <3>3 DEF IsData
      <3>. QED
        BY <3>1, <3>2, <3>3
    <2>2. IsText(data) /\ IsText(control)
      BY <1>3, EmptyIs
    <2>. HIDE DEF data, control, t
    <2>3. /\ t.m_state = "HEADER_BASIC" /\ t.m_bytes_needed = 2 /\ t.data = data
          /\ IsProcessor(t)
      <3>1. ASSUME NEW a, NEW b
            PROVE  /\ Processor(a, b, data, control).m_state = a
                   /\ Processor(a, b, data, control).m_bytes_needed = b
                   /\ Processor(a, b, data, control).data = data
                   /\ IsProcessor(Processor(a, b, data, control))
        BY <2>2, FieldsAre
      <3>. QED
        BY <2>1, <3>1
    <2>4. Ended(p, t)
      BY <2>3, EndedByFields DEF Fresh
    <2>5. Carries(t, s, n + 1)
      <3>1. CASE IsData(frame) /\ frame.fin
        BY <1>4, <2>3, <3>1, CarriesOn DEF data
      <3>2. CASE IsData(frame) /\ ~ frame.fin
        <4>1. q.data.op = MessageUpTo(s, n + 1).op /\ q.data.parts = MessageUpTo(s, n + 1).parts
          BY <3>2 DEF AtEnd
        <4>2. t.data = q.data
          BY <2>3, <3>2 DEF data
        <4>. QED
          BY <1>4, <3>2, <4>1, <4>2, CarriesOn
      <3>3. CASE ~ IsData(frame)
        <4>1. Carries(q, s, n)
          BY <3>3 DEF AtEnd
        <4>2. t.data = q.data
          BY <2>3, <3>3 DEF data
        <4>. QED
          BY <1>4, <3>3, <4>1, <4>2, CarriesOn
      <3>. QED
        BY <3>1, <3>2, <3>3
    <2>6. ReadsAt(t, s, n + 1, to)
      <3>1. 2 \in 1..BASIC_HEADER_LENGTH /\ ~ (2 < BASIC_HEADER_LENGTH)
            /\ to = BytesBefore(s, n + 1) + BASIC_HEADER_LENGTH - 2
        BY DEF BASIC_HEADER_LENGTH
      <3>. QED
        BY <2>3, <2>5, <3>1 DEF ReadsAt
    <2>7. /\ ~ frame.fin => r.message = NoMessage
          /\ frame.fin /\ IsData(frame) =>
                /\ r.message.op = MessageUpTo(s, n + 1).op
                /\ r.message.parts = MessageUpTo(s, n + 1).parts
          /\ frame.fin /\ ~ IsData(frame) => r.message.op = frame.op
      <3>1. /\ ~ frame.fin => r.message = NoMessage
            /\ frame.fin /\ IsData(frame) => r.message = q.data
            /\ frame.fin /\ ~ IsData(frame) => r.message = q.control
        BY <1>6, <1>8 DEF IsData
      <3>2. /\ IsData(frame) => /\ q.data.op = MessageUpTo(s, n + 1).op
                                /\ q.data.parts = MessageUpTo(s, n + 1).parts
            /\ ~ IsData(frame) => q.control.op = frame.op
        BY DEF AtEnd
      <3>. HIDE DEF frame
      <3>. QED
        BY <3>1, <3>2
    <2>8. Accepted(s, n + 1)
      BY <1>5, <1>6, <1>8
    <2>9. r.used = used
      BY <1>6
    <2>. QED
      BY <1>8, <2>4, <2>6, <2>7, <2>8, <2>9 DEF Outcome, r, t
  <1>. QED
    BY <1>7, <1>8

--------------------------------------------------------------------------------
(* The message of the (n+1)-th frame: what there was of it, and the frame's payload.     *)
Before(s, n) == IF Open(s, n) THEN MessageUpTo(s, n).parts ELSE <<>>

LEMMA PartsAre ==
    ASSUME NEW s, NEW n, ReadWell(s, n), HeaderRead(s, n), IsData(s[n + 1])
    PROVE  /\ Before(s, n) \in Seq(Byte) /\ MessageUpTo(s, n + 1).parts \in Seq(Byte)
           /\ Len(MessageUpTo(s, n + 1).parts) = Len(Before(s, n)) + s[n + 1].size
           /\ \A i \in 1..Len(Before(s, n)) :
                 MessageUpTo(s, n + 1).parts[i] = Before(s, n)[i]
           /\ \A i \in 1..s[n + 1].size :
                 MessageUpTo(s, n + 1).parts[Len(Before(s, n)) + i] = <<s[n + 1].name, i>>
           /\ s[n + 1].size = 0 => MessageUpTo(s, n + 1).parts = Before(s, n)
  <1>1. s \in Seq(Frame) /\ n \in Nat /\ n < Len(s)
    BY DEF ReadWell, HeaderRead
  <1>. DEFINE frame == s[n + 1]
  <1>2. frame \in Frame /\ frame.size \in Nat
    <2>1. frame \in Frame
      BY <1>1
    <2>. QED
      BY <2>1 DEF Frame
  <1>3. /\ Payload(frame) \in Seq(Byte) /\ Len(Payload(frame)) = frame.size
        /\ \A i \in 1..frame.size : Payload(frame)[i] = <<frame.name, i>>
    BY <1>2, PayloadIs
  <1>4. /\ MessageUpTo(s, n + 1).parts = Before(s, n) \o Payload(frame)
        /\ Open(s, n) => MessageUpTo(s, n).parts \in Seq(Byte)
    BY MessageOfNext DEF Before
  <1>5. Before(s, n) \in Seq(Byte)
    BY <1>4 DEF Before
  <1>6. Joins(Byte, Before(s, n), Payload(frame), Before(s, n) \o Payload(frame))
    BY <1>3, <1>5, Joined
  <1>7. frame.size = 0 => Payload(frame) = <<>>
    BY <1>3
  <1>8. frame.size = 0 => Before(s, n) \o Payload(frame) = Before(s, n)
    BY <1>5, <1>7, ConcatEmptySeq
  <1>. HIDE DEF frame
  <1>. QED
    BY <1>2, <1>3, <1>4, <1>5, <1>6, <1>8 DEF Joins, frame

\* Every field of the processor but two stays.
LEMMA ChangedIs ==
    ASSUME NEW p, IsProcessor(p), NEW state, NEW needed
    PROVE  /\ [p EXCEPT !.m_bytes_needed = needed] =
                  Processor(p.m_state, needed, p.data, p.control)
           /\ [p EXCEPT !.m_state = state, !.m_bytes_needed = needed] =
                  Processor(state, needed, p.data, p.control)
  <1>1. DOMAIN p = {"m_state", "m_bytes_needed", "data", "control"} /\ IsFunction(p)
    <2>1. ASSUME NEW a, NEW b, NEW c, NEW d
          PROVE  /\ DOMAIN Processor(a, b, c, d) = {"m_state", "m_bytes_needed", "data", "control"}
                 /\ IsFunction(Processor(a, b, c, d))
      BY DEF Processor, IsFunction
    <2>2. p = Processor(p.m_state, p.m_bytes_needed, p.data, p.control)
      BY DEF IsProcessor
    <2>. QED
      BY <2>1, <2>2
  <1>2. [p EXCEPT !.m_bytes_needed = needed] = Processor(p.m_state, needed, p.data, p.control)
    <2>. DEFINE r == [p EXCEPT !.m_bytes_needed = needed]
    <2>1. /\ r.m_state = p.m_state /\ r.m_bytes_needed = needed /\ r.data = p.data
          /\ r.control = p.control /\ DOMAIN r = {"m_state", "m_bytes_needed", "data", "control"}
      BY <1>1
    <2>2. IsFunction(r)
      BY DEF IsFunction
    <2>. HIDE DEF r
    <2>3. r = Processor(p.m_state, needed, p.data, p.control)
      BY <2>1, <2>2, ProcessorByFields
    <2>. QED
      BY <2>3 DEF r
  <1>3. [p EXCEPT !.m_state = state, !.m_bytes_needed = needed] =
            Processor(state, needed, p.data, p.control)
    <2>. DEFINE r == [p EXCEPT !.m_state = state, !.m_bytes_needed = needed]
    <2>1. /\ r.m_state = state /\ r.m_bytes_needed = needed /\ r.data = p.data
          /\ r.control = p.control /\ DOMAIN r = {"m_state", "m_bytes_needed", "data", "control"}
      BY <1>1
    <2>2. IsFunction(r)
      BY DEF IsFunction
    <2>. HIDE DEF r
    <2>3. r = Processor(state, needed, p.data, p.control)
      BY <2>1, <2>2, ProcessorByFields
    <2>. QED
      BY <2>3 DEF r
  <1>. QED
    BY <1>2, <1>3

\* The same processor, but for the two.
Keeps(r, p, state, needed) ==
    /\ IsProcessor(r) /\ r.m_state = state /\ r.m_bytes_needed = needed
    /\ r.data = p.data /\ r.control = p.control

LEMMA ChangedKeeps ==
    ASSUME NEW p, IsProcessor(p), NEW state, NEW needed
    PROVE  /\ Keeps([p EXCEPT !.m_bytes_needed = needed], p, p.m_state, needed)
           /\ Keeps([p EXCEPT !.m_state = state, !.m_bytes_needed = needed], p, state, needed)
  <1>1. IsText(p.data) /\ IsText(p.control)
    BY DEF IsProcessor
  <1>2. ASSUME NEW a, NEW b PROVE Keeps(Processor(a, b, p.data, p.control), p, a, b)
    BY <1>1, FieldsAre DEF Keeps
  <1>3. Keeps([p EXCEPT !.m_bytes_needed = needed], p, p.m_state, needed)
    <2>1. [p EXCEPT !.m_bytes_needed = needed] =
              Processor(p.m_state, needed, p.data, p.control)
      BY ChangedIs
    <2>2. Keeps(Processor(p.m_state, needed, p.data, p.control), p, p.m_state, needed)
      BY <1>2
    <2>. QED
      BY <2>1, <2>2
  <1>4. Keeps([p EXCEPT !.m_state = state, !.m_bytes_needed = needed], p, state, needed)
    <2>1. [p EXCEPT !.m_state = state, !.m_bytes_needed = needed] =
              Processor(state, needed, p.data, p.control)
      BY ChangedIs
    <2>2. Keeps(Processor(state, needed, p.data, p.control), p, state, needed)
      BY <1>2
    <2>. QED
      BY <2>1, <2>2
  <1>. QED
    BY <1>3, <1>4

(* The processor once a header was read.                                            *)
HeaderDone(p, frame) ==
    [Begin(p, frame) EXCEPT !.m_state = "APPLICATION",
                            !.m_bytes_needed = get_payload_size(frame)]

LEMMA BegunIs ==
    ASSUME NEW p, NEW s, NEW n, NEW q, ReadWell(s, n), HeaderRead(s, n), IsProcessor(p),
           Carries(p, s, n),
           q = HeaderDone(p, s[n + 1])
    PROVE  /\ IsProcessor(q) /\ q.m_state = "APPLICATION" /\ q.m_bytes_needed = s[n + 1].size
           /\ IsData(s[n + 1]) =>
                 /\ q.data.op = MessageUpTo(s, n + 1).op /\ q.data.parts = Before(s, n)
                 /\ q.data.prepared_key = TurnedKey(s[n + 1], 0)
                 /\ s[n + 1].op = "TEXT" => q.data.text = "ok"
           /\ ~ IsData(s[n + 1]) => Carries(q, s, n) /\ q.control.op = s[n + 1].op
  <1>. DEFINE frame == s[n + 1]
              key == prepare_masking_key(get_masking_key(frame))
              b == Begin(p, frame)
  <1>1. /\ p = Processor(p.m_state, p.m_bytes_needed, p.data, p.control)
        /\ IsText(p.data) /\ IsText(p.control)
    BY DEF IsProcessor
  <1>2. (p.data = NoMessage) <=> ~ Open(s, n)
    BY CarriesIs
  <1>3. key = TurnedKey(frame, 0)
    BY PreparedKey
  <1>. HIDE DEF key
  <1>4. /\ IsControl(frame.op) =>
              b = Processor(p.m_state, p.m_bytes_needed, p.data, Text(frame.op, <<>>, "ok", key))
        /\ ~ IsControl(frame.op) /\ p.data = NoMessage =>
              b = Processor(p.m_state, p.m_bytes_needed, Text(frame.op, <<>>, "ok", key), p.control)
        /\ ~ IsControl(frame.op) /\ p.data # NoMessage =>
              b = Processor(p.m_state, p.m_bytes_needed,
                            Text(p.data.op, p.data.parts, p.data.text, key), p.control)
    <2>. DEFINE Starts(z, state, needed, data, control) ==
              /\ IsControl(frame.op) =>
                    Begin(z, frame) = Processor(state, needed, data, Text(frame.op, <<>>, "ok", key))
              /\ ~ IsControl(frame.op) /\ data = NoMessage =>
                    Begin(z, frame) =
                        Processor(state, needed, Text(frame.op, <<>>, "ok", key), control)
              /\ ~ IsControl(frame.op) /\ data # NoMessage =>
                    Begin(z, frame) =
                        Processor(state, needed, Text(data.op, data.parts, data.text, key), control)
    <2>1. ASSUME NEW state, NEW needed, NEW data, NEW control, IsText(data)
          PROVE  Starts(Processor(state, needed, data, control), state, needed, data, control)
      BY <2>1, BeginIs DEF key
    <2>. HIDE DEF Starts
    <2>2. Starts(Processor(p.m_state, p.m_bytes_needed, p.data, p.control),
                 p.m_state, p.m_bytes_needed, p.data, p.control)
      BY <1>1, <2>1
    <2>3. Starts(p, p.m_state, p.m_bytes_needed, p.data, p.control)
      BY <1>1, <2>2
    <2>. QED
      BY <2>3 DEF Starts
  <1>. HIDE DEF b
  <1>5. /\ IsProcessor(b)
        /\ IsControl(frame.op) => b.data = p.data /\ b.control = Text(frame.op, <<>>, "ok", key)
        /\ ~ IsControl(frame.op) /\ p.data = NoMessage =>
              b.data = Text(frame.op, <<>>, "ok", key)
        /\ ~ IsControl(frame.op) /\ p.data # NoMessage =>
              b.data = Text(p.data.op, p.data.parts, p.data.text, key)
    <2>1. ASSUME NEW x, NEW y, NEW data, NEW control, IsText(data), IsText(control)
          PROVE  /\ IsProcessor(Processor(x, y, data, control))
                 /\ Processor(x, y, data, control).data = data
                 /\ Processor(x, y, data, control).control = control
      BY <2>1, FieldsAre
    <2>2. ASSUME NEW op, NEW parts, NEW text PROVE IsText(Text(op, parts, text, key))
      BY TextFieldsAre
    <2>3. CASE IsControl(frame.op)
      <3>1. b = Processor(p.m_state, p.m_bytes_needed, p.data, Text(frame.op, <<>>, "ok", key))
        BY <1>4, <2>3
      <3>. QED
        BY <1>1, <2>1, <2>2, <2>3, <3>1
    <2>4. CASE ~ IsControl(frame.op) /\ p.data = NoMessage
      <3>1. b = Processor(p.m_state, p.m_bytes_needed, Text(frame.op, <<>>, "ok", key), p.control)
        BY <1>4, <2>4
      <3>. QED
        BY <1>1, <2>1, <2>2, <2>4, <3>1
    <2>5. CASE ~ IsControl(frame.op) /\ p.data # NoMessage
      <3>1. b = Processor(p.m_state, p.m_bytes_needed,
                          Text(p.data.op, p.data.parts, p.data.text, key), p.control)
        BY <1>4, <2>5
      <3>. QED
        BY <1>1, <2>1, <2>2, <2>5, <3>1
    <2>. QED
      BY <2>3, <2>4, <2>5
  <1>6. Keeps(q, b, "APPLICATION", frame.size)
    <2>1. q = [b EXCEPT !.m_state = "APPLICATION", !.m_bytes_needed = frame.size]
      BY DEF HeaderDone, get_payload_size, b
    <2>2. ASSUME NEW needed
          PROVE  Keeps([b EXCEPT !.m_state = "APPLICATION", !.m_bytes_needed = needed], b,
                       "APPLICATION", needed)
      BY <1>5, ChangedKeeps
    <2>. QED
      BY <2>1, <2>2
  <1>7. ASSUME IsData(frame)
        PROVE  /\ q.data.op = MessageUpTo(s, n + 1).op /\ q.data.parts = Before(s, n)
               /\ q.data.prepared_key = TurnedKey(frame, 0)
               /\ frame.op = "TEXT" => q.data.text = "ok"
    <2>1. MessageUpTo(s, n + 1).op = IF Open(s, n) THEN MessageUpTo(s, n).op ELSE frame.op
      BY <1>7, MessageOfNext
    <2>2. ~ IsControl(frame.op) /\ q.data = b.data
      BY <1>6, <1>7 DEF IsData, Keeps
    <2>3. ASSUME NEW op, NEW parts, NEW text
          PROVE  /\ Text(op, parts, text, key).op = op /\ Text(op, parts, text, key).parts = parts
                 /\ Text(op, parts, text, key).text = text
                 /\ Text(op, parts, text, key).prepared_key = key
      BY TextFieldsAre
    <2>4. CASE Open(s, n)
      <3>1. q.data = Text(p.data.op, p.data.parts, p.data.text, key)
        BY <1>2, <1>5, <2>2, <2>4
      <3>2. /\ q.data.op = p.data.op /\ q.data.parts = p.data.parts
            /\ q.data.prepared_key = key
        BY <2>3, <3>1
      <3>3. p.data.op = MessageUpTo(s, n).op /\ p.data.parts = MessageUpTo(s, n).parts
        BY <2>4 DEF Carries
      <3>4. frame.op # "TEXT"
        BY <2>4, <1>7 DEF HeaderRead, ValidBasicHeader, IsData
      <3>. QED
        BY <1>3, <2>1, <2>4, <3>2, <3>3, <3>4 DEF Before
    <2>5. CASE ~ Open(s, n)
      <3>1. q.data = Text(frame.op, <<>>, "ok", key)
        BY <1>2, <1>5, <2>2, <2>5
      <3>2. /\ q.data.op = frame.op /\ q.data.parts = <<>> /\ q.data.text = "ok"
            /\ q.data.prepared_key = key
        BY <2>3, <3>1
      <3>. QED
        BY <1>3, <2>1, <2>5, <3>2 DEF Before
    <2>. QED
      BY <2>4, <2>5
  <1>8. ASSUME ~ IsData(frame) PROVE Carries(q, s, n) /\ q.control.op = frame.op
    <2>1. IsControl(frame.op) /\ q.data = b.data /\ q.control = b.control
      BY <1>6, <1>8 DEF IsData, Keeps
    <2>2. q.data = p.data /\ q.control = Text(frame.op, <<>>, "ok", key)
      BY <1>5, <2>1
    <2>3. q.control.op = frame.op
      BY <2>2, TextFieldsAre
    <2>. QED
      BY <2>2, <2>3 DEF Carries
  <1>. QED
    BY <1>6, <1>7, <1>8 DEF Keeps

--------------------------------------------------------------------------------
(* Cutting from the first element on, and going on with those that follow.               *)
LEMMA FirstsAre ==
    ASSUME NEW S, NEW a \in Seq(S), NEW n \in Nat, n <= Len(a)
    PROVE  /\ SubSeq(a, 1, n) \in Seq(S) /\ Len(SubSeq(a, 1, n)) = n
           /\ \A i \in 1..n : SubSeq(a, 1, n)[i] = a[i]
  <1>1. PICK z \in Nat : z = 0
    OBVIOUS
  <1>2. /\ SubSeq(a, z + 1, n) \in Seq(S) /\ Len(SubSeq(a, z + 1, n)) = n - z
        /\ \A i \in 1..(n - z) : SubSeq(a, z + 1, n)[i] = a[z + i]
    <2>1. z <= n
      BY <1>1
    <2>. QED
      BY <2>1, CutOut
  <1>3. z + 1 = 1 /\ n - z = n /\ \A i \in 1..n : z + i = i
    BY <1>1
  <1>. QED
    BY <1>2, <1>3

LEMMA FirstsGrow ==
    ASSUME NEW S, NEW a \in Seq(S), NEW m \in Nat, NEW u \in Nat, m + u <= Len(a),
           NEW more \in Seq(S), Len(more) = u, \A i \in 1..u : more[i] = a[m + i]
    PROVE  SubSeq(a, 1, m) \o more = SubSeq(a, 1, m + u)
  <1>. DEFINE b == SubSeq(a, 1, m)
              c == b \o more
              d == SubSeq(a, 1, m + u)
  <1>1. b \in Seq(S) /\ Len(b) = m /\ \A i \in 1..m : b[i] = a[i]
    BY FirstsAre
  <1>2. d \in Seq(S) /\ Len(d) = m + u /\ \A i \in 1..(m + u) : d[i] = a[i]
    <2>1. m + u \in Nat
      OBVIOUS
    <2>. QED
      BY <2>1, FirstsAre
  <1>. HIDE DEF b, d
  <1>3. Joins(S, b, more, c)
    BY <1>1, Joined
  <1>. HIDE DEF c
  <1>4. /\ c \in Seq(S) /\ Len(c) = m + u /\ \A i \in 1..m : c[i] = b[i]
        /\ \A i \in 1..u : c[m + i] = more[i]
    BY <1>1, <1>3 DEF Joins
  <1>5. \A i \in 1..(m + u) : c[i] = d[i]
    <2>. TAKE i \in 1..(m + u)
    <2>1. CASE i <= m
      <3>1. i \in 1..m
        BY <2>1
      <3>. QED
        BY <1>1, <1>2, <1>4, <3>1
    <2>2. CASE ~ (i <= m)
      <3>1. i - m \in 1..u /\ m + (i - m) = i
        BY <2>2
      <3>. QED
        BY <1>2, <1>4, <3>1
    <2>. QED
      BY <2>1, <2>2
  <1>6. c = [i \in 1..(m + u) |-> c[i]] /\ d = [i \in 1..(m + u) |-> d[i]]
    <2>1. m + u \in Nat
      OBVIOUS
    <2>. QED
      BY <1>2, <1>4, <2>1, ListIs
  <1>7. c = d
    BY <1>5, <1>6
  <1>. QED
    BY <1>7 DEF b, c, d

(* The processor once the bytes at hand were unmasked.                                  *)
LEMMA PouredIs ==
    ASSUME NEW p, NEW s, NEW n, NEW at, NEW pieces, NEW q, ReadWell(s, n), ReadsAt(p, s, n, at),
           Buffered(pieces, s, at), p.m_state = "APPLICATION",
           q = process_payload_bytes(p, s[n + 1], SubSeq(pieces, 1, Used(p, pieces)))
    PROVE  LET left == p.m_bytes_needed - Used(p, pieces)
           IN  /\ IsProcessor(q) /\ q.m_state = "APPLICATION" /\ q.m_bytes_needed = left
               /\ IsData(s[n + 1]) =>
                     /\ q.data.op = MessageUpTo(s, n + 1).op
                     /\ q.data.parts = SubSeq(MessageUpTo(s, n + 1).parts, 1,
                                              Len(MessageUpTo(s, n + 1).parts) - left)
                     /\ q.data.prepared_key = TurnedKey(s[n + 1], s[n + 1].size - left)
                     /\ q.data.text = IF left = 0 THEN s[n + 1].text ELSE "ok"
               /\ ~ IsData(s[n + 1]) => Carries(q, s, n) /\ q.control.op = s[n + 1].op
  <1>. DEFINE frame == s[n + 1]
              message == MessageUpTo(s, n + 1)
              needed == p.m_bytes_needed
              u == Used(p, pieces)
              left == needed - u
              bytes == SubSeq(pieces, 1, u)
              got == frame.size - needed
              masked(text) == byte_mask_circ(bytes, text.prepared_key)
              poured(text) == Text(text.op, text.parts \o masked(text).output,
                                   IF left = 0 THEN frame.text ELSE "ok", masked(text).key)
  <1>1. /\ frame \in Frame /\ n < Len(s) /\ needed \in Nat \ {0} /\ u \in 1..needed
        /\ u <= Len(pieces)
        /\ \A i \in 1..u : pieces[i] = Byted(frame, got + i)
    BY CurrentFrame
  <1>2. /\ HeaderRead(s, n) /\ needed \in 1..frame.size
        /\ IF IsData(frame) THEN Fills(p, s, n)
           ELSE Carries(p, s, n) /\ p.control.op = frame.op
        /\ p = Processor("APPLICATION", needed, p.data, p.control)
        /\ IsText(p.data) /\ IsText(p.control)
    BY DEF ReadsAt, IsProcessor
  <1>3. pieces \in Seq(Piece)
    BY DEF Buffered
  <1>4. frame.size \in Nat
    BY <1>1 DEF Frame
  <1>. HIDE DEF frame, u, needed
  <1>5. u \in Nat /\ left \in Nat /\ got \in Nat /\ got + u = frame.size - left /\ left < needed
    BY <1>1, <1>2, <1>4
  <1>6. bytes \in Seq(Piece) /\ Len(bytes) = u /\ \A i \in 1..u : bytes[i] = pieces[i]
    BY <1>1, <1>3, <1>5, FirstsAre
  <1>. HIDE DEF bytes, got
  <1>7. \A i \in 1..Len(bytes) : bytes[i] = Byted(frame, got + i)
    BY <1>1, <1>6
  <1>8. /\ IsControl(frame.op) => q = Processor("APPLICATION", left, p.data, poured(p.control))
        /\ ~ IsControl(frame.op) => q = Processor("APPLICATION", left, poured(p.data), p.control)
    <2>1. q = process_payload_bytes(p, frame, bytes)
      BY DEF frame, bytes, u
    <2>. DEFINE Pours(z, data, control) ==
              LET r == process_payload_bytes(z, frame, bytes)
              IN  /\ IsControl(frame.op) =>
                        r = Processor("APPLICATION", left, data, poured(control))
                  /\ ~ IsControl(frame.op) =>
                        r = Processor("APPLICATION", left, poured(data), control)
    <2>2. ASSUME NEW data, NEW control, IsText(data), IsText(control)
          PROVE  Pours(Processor("APPLICATION", needed, data, control), data, control)
      BY <1>6, <2>2, FilledIs
    <2>. HIDE DEF Pours
    <2>3. Pours(p, p.data, p.control)
      BY <1>2, <2>2
    <2>. QED
      BY <2>1, <2>3 DEF Pours
  <1>9. ASSUME NEW text
        PROVE  /\ IsText(poured(text)) /\ poured(text).op = text.op
               /\ poured(text).parts = text.parts \o masked(text).output
               /\ poured(text).text = IF left = 0 THEN frame.text ELSE "ok"
               /\ poured(text).prepared_key = masked(text).key
    <2>1. ASSUME NEW op, NEW parts, NEW state, NEW key
          PROVE  LET z == Text(op, parts, state, key)
                 IN  /\ IsText(z) /\ z.op = op /\ z.parts = parts
                     /\ z.text = state /\ z.prepared_key = key
      BY TextFieldsAre
    <2>. DEFINE output == text.parts \o masked(text).output
                state == IF left = 0 THEN frame.text ELSE "ok"
                key == masked(text).key
    <2>2. poured(text) = Text(text.op, output, state, key)
      OBVIOUS
    <2>. HIDE DEF output, state, key, poured
    <2>3. LET z == poured(text)
          IN  /\ IsText(z) /\ z.op = text.op /\ z.parts = output
              /\ z.text = state /\ z.prepared_key = key
      BY <2>1, <2>2
    <2>. QED
      BY <2>3 DEF output, state, key
  <1>. HIDE DEF poured, left
  <1>10. /\ IsProcessor(q) /\ q.m_state = "APPLICATION" /\ q.m_bytes_needed = left
         /\ IsControl(frame.op) => q.data = p.data /\ q.control = poured(p.control)
         /\ ~ IsControl(frame.op) => q.data = poured(p.data)
    <2>1. ASSUME NEW data, NEW control, IsText(data), IsText(control)
          PROVE  LET r == Processor("APPLICATION", left, data, control)
                 IN  /\ IsProcessor(r) /\ r.m_state = "APPLICATION" /\ r.m_bytes_needed = left
                     /\ r.data = data /\ r.control = control
      BY <2>1, FieldsAre
    <2>2. IsText(poured(p.control)) /\ IsText(poured(p.data))
      BY <1>9
    <2>. QED
      BY <1>2, <1>8, <2>1, <2>2
  <1>11. CASE ~ IsData(frame)
    <2>1. IsControl(frame.op)
      BY <1>11 DEF IsData
    <2>2. q.data = p.data /\ q.control = poured(p.control)
      BY <1>10, <2>1
    <2>3. Carries(p, s, n) /\ p.control.op = frame.op
      BY <1>2, <1>11
    <2>4. Carries(q, s, n) /\ q.control.op = frame.op
      BY <1>9, <2>2, <2>3 DEF Carries
    <2>. QED
      BY <1>10, <1>11, <2>4 DEF frame, left, needed, u
  <1>12. CASE IsData(frame)
    <2>1. ~ IsControl(frame.op)
      BY <1>12 DEF IsData
    <2>2. q.data = poured(p.data)
      BY <1>10, <2>1
    <2>3. Fills(p, s, n)
      BY <1>2, <1>12
    <2>4. /\ p.data.op = message.op
          /\ p.data.parts = SubSeq(message.parts, 1, Len(message.parts) - needed)
          /\ p.data.prepared_key = TurnedKey(frame, got)
      BY <2>3 DEF Fills, frame, needed, got
    <2>5. /\ message.parts \in Seq(Byte)
          /\ Before(s, n) \in Seq(Byte)
          /\ Len(message.parts) = Len(Before(s, n)) + frame.size
          /\ \A i \in 1..frame.size :
                message.parts[Len(Before(s, n)) + i] = <<frame.name, i>>
      BY <1>2, <1>12, PartsAre DEF frame
    <2>. HIDE DEF message
    <2>6. /\ masked(p.data).output = [i \in 1..u |-> <<frame.name, got + i>>]
          /\ masked(p.data).key = TurnedKey(frame, got + u)
      <3>1. /\ byte_mask_circ(bytes, TurnedKey(frame, got)).output =
                  [i \in 1..Len(bytes) |-> <<frame.name, got + i>>]
            /\ byte_mask_circ(bytes, TurnedKey(frame, got)).key =
                  TurnedKey(frame, got + Len(bytes))
        <4>. DEFINE Clear(input, k) ==
                  /\ byte_mask_circ(input, TurnedKey(frame, k)).output =
                        [i \in 1..Len(input) |-> <<frame.name, k + i>>]
                  /\ byte_mask_circ(input, TurnedKey(frame, k)).key =
                        TurnedKey(frame, k + Len(input))
        <4>1. ASSUME NEW input \in Seq(Piece), NEW k \in Nat,
                     \A i \in 1..Len(input) : input[i] = Byted(frame, k + i)
              PROVE  Clear(input, k)
          BY <4>1, Unmasking
        <4>. HIDE DEF Clear
        <4>2. Clear(bytes, got)
          BY <1>5, <1>6, <1>7, <4>1
        <4>. QED
          BY <4>2 DEF Clear
      <3>2. masked(p.data) = byte_mask_circ(bytes, TurnedKey(frame, got))
        BY <2>4
      <3>. HIDE DEF masked
      <3>. QED
        BY <1>6, <3>1, <3>2
    <2>. DEFINE more == [i \in 1..u |-> <<frame.name, got + i>>]
                m == Len(message.parts) - needed
    <2>7. /\ more \in Seq(Byte) /\ Len(more) = u
          /\ \A i \in 1..u : more[i] = <<frame.name, got + i>>
      <3>1. frame.name \in STRING
        BY <1>1 DEF Frame
      <3>2. \A i \in 1..u : <<frame.name, got + i>> \in Byte
        BY <1>5, <3>1 DEF Byte
      <3>. QED
        BY <1>5, <3>2
    <2>8. /\ m \in Nat /\ m + u = Len(message.parts) - left /\ m + u <= Len(message.parts)
          /\ m = Len(Before(s, n)) + got
      <3>1. Len(Before(s, n)) \in Nat
        BY <2>5
      <3>2. PICK k \in Nat : k = Len(Before(s, n))
        BY <3>1
      <3>3. Len(message.parts) = k + frame.size
        BY <2>5, <3>2
      <3>4. m = k + got /\ m \in Nat
        <4>1. got = frame.size - needed /\ m = (k + frame.size) - needed
          BY <3>3 DEF got
        <4>2. PICK a \in Nat : a = frame.size
          BY <1>4
        <4>3. PICK b \in Nat : b = needed
          BY <1>1
        <4>. HIDE DEF m
        <4>4. got = a - b /\ m = (k + a) - b /\ got \in Nat
          BY ONLY <1>5, <4>1, <4>2, <4>3
        <4>. QED
          BY ONLY <4>4, a \in Nat, b \in Nat, k \in Nat
      <3>5. left = needed - u
        BY DEF left
      <3>. HIDE DEF m
      <3>6. k + got + u = k + frame.size - left /\ k + got + u <= k + frame.size
            /\ k + got + u = (k + frame.size) - left
        BY <1>4, <1>5
      <3>7. m = Len(Before(s, n)) + got /\ m \in Nat
        BY ONLY <3>2, <3>4
      <3>8. m + u = Len(message.parts) - left /\ m + u <= Len(message.parts)
        <4>. HIDE DEF m
        <4>1. m + u = k + got + u
          BY <3>4
        <4>2. m + u = Len(message.parts) - left
          BY <3>3, <3>6, <4>1
        <4>3. m + u <= Len(message.parts)
          BY <3>3, <3>6, <4>1
        <4>. QED
          BY <4>2, <4>3
      <3>. QED
        BY ONLY <3>7, <3>8
    <2>9. \A i \in 1..u : more[i] = message.parts[m + i]
      <3>. TAKE i \in 1..u
      <3>1. Len(Before(s, n)) \in Nat
        BY <2>5
      <3>2. got + i \in 1..frame.size /\ m + i = Len(Before(s, n)) + (got + i)
        <4>1. got + i \in 1..frame.size
          BY <1>1, <1>2, <1>4, <1>5 DEF got, left
        <4>2. m + i = Len(Before(s, n)) + (got + i)
          BY <1>5, <2>8, <3>1
        <4>. QED
          BY <4>1, <4>2
      <3>. QED
        BY <2>5, <2>7, <3>2
    <2>. HIDE DEF more, m
    <2>10. SubSeq(message.parts, 1, m) \o more = SubSeq(message.parts, 1, m + u)
      <3>1. PICK a \in Seq(Byte) : a = message.parts
        BY <2>5
      <3>2. m + u <= Len(a) /\ \A i \in 1..u : more[i] = a[m + i]
        BY <2>8, <2>9, <3>1
      <3>3. m \in Nat /\ u \in Nat /\ more \in Seq(Byte) /\ Len(more) = u
        BY <1>5, <2>7, <2>8
      <3>4. SubSeq(a, 1, m) \o more = SubSeq(a, 1, m + u)
        BY <3>2, <3>3, FirstsGrow
      <3>. QED
        BY <3>1, <3>4
    <2>11. q.data.parts = SubSeq(message.parts, 1, Len(message.parts) - left)
      <3>1. q.data.parts = p.data.parts \o masked(p.data).output
        BY <1>9, <2>2
      <3>2. p.data.parts = SubSeq(message.parts, 1, m) /\ masked(p.data).output = more
        BY <2>4, <2>6 DEF m, more
      <3>. QED
        BY <2>8, <2>10, <3>1, <3>2
    <2>12. /\ q.data.op = message.op
           /\ q.data.prepared_key = TurnedKey(frame, frame.size - left)
           /\ q.data.text = IF left = 0 THEN frame.text ELSE "ok"
      <3>1. /\ q.data.op = p.data.op /\ q.data.prepared_key = masked(p.data).key
            /\ q.data.text = IF left = 0 THEN frame.text ELSE "ok"
        BY <1>9, <2>2
      <3>. HIDE DEF masked
      <3>. QED
        BY <1>5, <2>4, <2>6, <3>1
    <2>. QED
      BY <1>10, <1>12, <2>11, <2>12 DEF frame, left, needed, u, message
  <1>. QED
    BY <1>11, <1>12 DEF frame

--------------------------------------------------------------------------------
(* The three states of the processor.                                                *)
Short(p, u) == [p EXCEPT !.m_bytes_needed = p.m_bytes_needed - u]

LEMMA ConsumeIs ==
    ASSUME NEW p, NEW pieces, NEW frame, pieces[1].frame = frame
    PROVE  LET u == Used(p, pieces)
               short == Short(p, u)
               begun == [Begin(p, frame) EXCEPT !.m_state = "APPLICATION",
                                                !.m_bytes_needed = get_payload_size(frame)]
               filled == process_payload_bytes(p, frame, SubSeq(pieces, 1, u))
               r == consume(p, pieces)
           IN  /\ p.m_state = "HEADER_BASIC" =>
                     r = IF short.m_bytes_needed > 0 THEN Goes(short, u)
                         ELSE IF ~ ValidBasicHeader(frame, p.data = NoMessage)
                         THEN Fails(short, u)
                         ELSE Goes([short EXCEPT
                                      !.m_state = "HEADER_EXTENDED",
                                      !.m_bytes_needed = get_header_len(frame)
                                                           - BASIC_HEADER_LENGTH], u)
               /\ p.m_state = "HEADER_EXTENDED" =>
                     r = IF short.m_bytes_needed > 0 THEN Goes(short, u)
                         ELSE IF ~ (ValidExtendedHeader(frame) /\ Fits(p, frame))
                         THEN Fails(short, u)
                         ELSE IF frame.size = 0 THEN EndFrame(begun, frame, u)
                         ELSE Goes(begun, u)
               /\ p.m_state = "APPLICATION" =>
                     r = IF ~ ValidText(filled, frame) THEN Fails(filled, u)
                         ELSE IF filled.m_bytes_needed > 0 THEN Goes(filled, u)
                         ELSE EndFrame(filled, frame, u)
  <1>. DEFINE u == Used(p, pieces)
              short == Short(p, u)
              begun == [Begin(p, frame) EXCEPT !.m_state = "APPLICATION",
                                               !.m_bytes_needed = get_payload_size(frame)]
              filled == process_payload_bytes(p, frame, SubSeq(pieces, 1, u))
              first == IF short.m_bytes_needed > 0 THEN Goes(short, u)
                       ELSE IF ~ ValidBasicHeader(frame, p.data = NoMessage)
                       THEN Fails(short, u)
                       ELSE Goes([short EXCEPT
                                    !.m_state = "HEADER_EXTENDED",
                                    !.m_bytes_needed = get_header_len(frame)
                                                         - BASIC_HEADER_LENGTH], u)
              second == IF short.m_bytes_needed > 0 THEN Goes(short, u)
                        ELSE IF ~ (ValidExtendedHeader(frame) /\ Fits(p, frame))
                        THEN Fails(short, u)
                        ELSE IF frame.size = 0 THEN EndFrame(begun, frame, u)
                        ELSE Goes(begun, u)
              third == IF ~ ValidText(filled, frame) THEN Fails(filled, u)
                       ELSE IF filled.m_bytes_needed > 0 THEN Goes(filled, u)
                       ELSE EndFrame(filled, frame, u)
  <1>1. consume(p, pieces) = CASE p.m_state = "HEADER_BASIC" -> first
                               [] p.m_state = "HEADER_EXTENDED" -> second
                               [] p.m_state = "APPLICATION" -> third
    BY DEF consume, Used, Short
  <1>. HIDE DEF first, second, third
  <1>2. /\ p.m_state = "HEADER_BASIC" => consume(p, pieces) = first
        /\ p.m_state = "HEADER_EXTENDED" => consume(p, pieces) = second
        /\ p.m_state = "APPLICATION" => consume(p, pieces) = third
    BY <1>1
  <1>. QED
    BY <1>2 DEF first, second, third

\* Of a header there is more to come.
LEMMA ShortOutcome ==
    ASSUME NEW p, NEW s, NEW n, NEW at, NEW pieces, ReadWell(s, n), ReadsAt(p, s, n, at),
           Buffered(pieces, s, at), p.m_state \in {"HEADER_BASIC", "HEADER_EXTENDED"},
           Used(p, pieces) < p.m_bytes_needed
    PROVE  LET u == Used(p, pieces)
           IN  Outcome(Goes(Short(p, u), u), p, s, n, at + u, u)
  <1>. DEFINE u == Used(p, pieces)
              left == p.m_bytes_needed - u
              q == Short(p, u)
              r == Goes(q, u)
  <1>1. n < Len(s) /\ p.m_bytes_needed \in Nat \ {0} /\ u \in 1..p.m_bytes_needed /\ s[n + 1] \in Frame
    BY CurrentFrame
  <1>2. IsProcessor(p) /\ at \in Nat /\ n \in Nat /\ s \in Seq(Frame)
    BY DEF ReadsAt, Buffered, ReadWell
  <1>3. Keeps(q, p, p.m_state, left)
    BY <1>2, ChangedKeeps DEF Short
  <1>4. BytesBefore(s, n) \in Nat
    BY <1>1, <1>2, WireIs
  <1>. HIDE DEF u, q
  <1>5. u < p.m_bytes_needed
    BY DEF u
  <1>6. left \in 1..p.m_bytes_needed /\ left < p.m_bytes_needed /\ u = p.m_bytes_needed - left
    BY <1>1, <1>5
  <1>. HIDE DEF left
  <1>7. Carries(p, s, n) => Carries(q, s, n)
    BY <1>3 DEF Carries, Keeps
  <1>8. ReadsAt(q, s, n, at + u)
    <2>1. CASE p.m_state = "HEADER_BASIC"
      <3>1. p.m_bytes_needed \in 1..2 /\ at = BytesBefore(s, n) + 2 - p.m_bytes_needed
            /\ Carries(p, s, n)
        BY <2>1 DEF ReadsAt, BASIC_HEADER_LENGTH
      <3>2. left \in 1..2 /\ at + u = BytesBefore(s, n) + 2 - left
        BY <1>1, <1>2, <1>4, <1>6, <3>1
      <3>. QED
        BY <1>1, <1>3, <1>7, <2>1, <3>1, <3>2 DEF ReadsAt, BASIC_HEADER_LENGTH, Keeps
    <2>2. CASE p.m_state = "HEADER_EXTENDED"
      <3>. DEFINE header == get_header_len(s[n + 1])
      <3>1. p.m_bytes_needed \in 1..(header - 2)
            /\ at = BytesBefore(s, n) + header - p.m_bytes_needed
            /\ HeaderRead(s, n) /\ Carries(p, s, n)
        BY <2>2 DEF ReadsAt, BASIC_HEADER_LENGTH
      <3>2. header \in 2..4
        BY <1>1, PiecesAre
      <3>. HIDE DEF header
      <3>3. left \in 1..(header - 2) /\ at + u = BytesBefore(s, n) + header - left
        BY <1>1, <1>2, <1>4, <1>6, <3>1, <3>2
      <3>. QED
        BY <1>3, <1>7, <2>2, <3>1, <3>3 DEF ReadsAt, BASIC_HEADER_LENGTH, Keeps, header
    <2>. QED
      BY <2>1, <2>2
  <1>9. ~ Ended(p, q)
    <2>1. IsProcessor(q) /\ q.m_state = p.m_state /\ q.m_bytes_needed = left
      BY <1>3 DEF Keeps
    <2>2. CASE p.m_state = "HEADER_BASIC"
      <3>1. p.m_bytes_needed \in 1..2
        BY <2>2 DEF ReadsAt, BASIC_HEADER_LENGTH
      <3>2. left # 2
        BY <1>6, <3>1
      <3>. QED
        BY <1>2, <2>1, <3>2, EndedByFields DEF Fresh
    <2>3. CASE p.m_state = "HEADER_EXTENDED"
      BY <1>2, <2>1, <2>3, EndedByFields DEF Fresh
    <2>. QED
      BY <2>2, <2>3
  <1>10. r.used = u /\ ~ r.error /\ r.processor = q /\ r.message = NoMessage
    BY ResultIs
  <1>. HIDE DEF r
  <1>11. Outcome(r, p, s, n, at + u, u)
    BY <1>8, <1>9, <1>10 DEF Outcome
  <1>. QED
    BY <1>11 DEF r, q, u

\* What a turn refuses.
LEMMA FailsOutcome ==
    ASSUME NEW p, NEW q, NEW s, NEW n, NEW to, NEW u, ~ Accepted(s, n + 1), IsProcessor(p),
           IsProcessor(q), ~ Fresh(q), q.m_state \in States
    PROVE  Outcome(Fails(q, u), p, s, n, to, u)
  <1>. DEFINE r == Fails(q, u)
  <1>1. r.used = u /\ r.error /\ r.processor = q /\ r.message = NoMessage
    BY ResultIs
  <1>2. ~ Ended(p, q)
    BY EndedByFields
  <1>. HIDE DEF r
  <1>3. Outcome(r, p, s, n, to, u)
    BY <1>1, <1>2 DEF Outcome
  <1>. QED
    BY <1>3 DEF r

\* A turn that goes on with the frame.
LEMMA GoesOutcome ==
    ASSUME NEW p, NEW q, NEW s, NEW n, NEW to, NEW u, IsProcessor(p), IsProcessor(q), ~ Fresh(q),
           ReadsAt(q, s, n, to)
    PROVE  Outcome(Goes(q, u), p, s, n, to, u)
  <1>. DEFINE r == Goes(q, u)
  <1>1. r.used = u /\ ~ r.error /\ r.processor = q /\ r.message = NoMessage
    BY ResultIs
  <1>2. ~ Ended(p, q)
    BY EndedByFields
  <1>. HIDE DEF r
  <1>3. Outcome(r, p, s, n, to, u)
    BY <1>1, <1>2 DEF Outcome
  <1>. QED
    BY <1>3 DEF r

LEMMA BasicOutcome ==
    ASSUME NEW p, NEW s, NEW n, NEW at, NEW pieces, ReadWell(s, n), ReadsAt(p, s, n, at),
           Buffered(pieces, s, at), p.m_state = "HEADER_BASIC"
    PROVE  Outcome(consume(p, pieces), p, s, n, at + Used(p, pieces), Used(p, pieces))
  <1>. DEFINE frame == s[n + 1]
              u == Used(p, pieces)
              short == Short(p, u)
              header == get_header_len(frame)
              left == header - BASIC_HEADER_LENGTH
              next == [short EXCEPT !.m_state = "HEADER_EXTENDED", !.m_bytes_needed = left]
  <1>1. n < Len(s) /\ p.m_bytes_needed \in Nat \ {0} /\ u \in 1..p.m_bytes_needed
        /\ frame \in Frame /\ pieces[1].frame = frame
    BY CurrentFrame
  <1>2. IsProcessor(p) /\ at \in Nat /\ n \in Nat /\ s \in Seq(Frame) /\ Carries(p, s, n)
        /\ p.m_bytes_needed \in 1..2 /\ at = BytesBefore(s, n) + 2 - p.m_bytes_needed
    BY DEF ReadsAt, Buffered, ReadWell, BASIC_HEADER_LENGTH
  <1>3. Keeps(short, p, "HEADER_BASIC", p.m_bytes_needed - u)
    <2>1. Keeps([p EXCEPT !.m_bytes_needed = p.m_bytes_needed - u], p, p.m_state,
                p.m_bytes_needed - u)
      BY <1>2, ChangedKeeps
    <2>. QED
      BY <2>1 DEF Short
  <1>4. consume(p, pieces) =
            IF short.m_bytes_needed > 0 THEN Goes(short, u)
            ELSE IF ~ ValidBasicHeader(frame, p.data = NoMessage) THEN Fails(short, u)
            ELSE Goes(next, u)
    BY <1>1, ConsumeIs
  <1>5. (p.data = NoMessage) <=> ~ Open(s, n)
    BY <1>2, CarriesIs
  <1>6. ValidBasicHeader(frame, p.data = NoMessage) <=> ValidBasicHeader(frame, ~ Open(s, n))
    BY <1>5 DEF ValidBasicHeader
  <1>7. BytesBefore(s, n) \in Nat
    BY <1>1, <1>2, WireIs
  <1>8. CASE u < p.m_bytes_needed
    <2>1. short.m_bytes_needed > 0
      BY <1>1, <1>3, <1>8 DEF Keeps
    <2>2. consume(p, pieces) = Goes(short, u)
      BY <1>4, <2>1
    <2>3. Outcome(Goes(Short(p, u), u), p, s, n, at + u, u)
      BY <1>8, ShortOutcome
    <2>. QED
      BY <2>2, <2>3
  <1>9. CASE ~ (u < p.m_bytes_needed)
    <2>1. u = p.m_bytes_needed
      BY <1>1, <1>9
    <2>2. p.m_bytes_needed - u = 0 /\ at + u = BytesBefore(s, n) + 2
      BY <1>1, <1>2, <1>7, <2>1
    <2>. HIDE DEF u, short
    <2>3. short.m_bytes_needed = 0 /\ IsProcessor(short) /\ ~ Fresh(short)
          /\ short.m_state \in States
      BY <1>3, <2>2 DEF Keeps, Fresh, States
    <2>4. CASE ~ ValidBasicHeader(frame, ~ Open(s, n))
      <3>1. consume(p, pieces) = Fails(short, u)
        BY <1>4, <1>6, <2>3, <2>4
      <3>2. ~ Accepted(s, n + 1)
        BY <1>1, <2>4, AcceptedIs
      <3>3. Outcome(Fails(short, u), p, s, n, at + u, u)
        BY <1>2, <2>3, <3>2, FailsOutcome
      <3>. QED
        BY <3>1, <3>3 DEF u
    <2>5. CASE ValidBasicHeader(frame, ~ Open(s, n))
      <3>1. consume(p, pieces) = Goes(next, u)
        BY <1>4, <1>6, <2>3, <2>5
      <3>2. HeaderRead(s, n)
        BY <1>1, <2>5 DEF HeaderRead
      <3>3. header \in 3..4
        BY <1>1, <2>5 DEF ValidBasicHeader, get_header_len, get_masking_key_offset,
                          BASIC_HEADER_LENGTH, Frame
      <3>4. Keeps(next, short, "HEADER_EXTENDED", left)
        <4>1. ASSUME NEW needed
              PROVE  Keeps([short EXCEPT !.m_state = "HEADER_EXTENDED", !.m_bytes_needed = needed],
                           short, "HEADER_EXTENDED", needed)
          BY <2>3, ChangedKeeps
        <4>. QED
          BY <4>1
      <3>. HIDE DEF next, header
      <3>5. left \in 1..(header - BASIC_HEADER_LENGTH) /\ at + u = BytesBefore(s, n) + header - left
        BY <1>7, <2>2, <3>3 DEF BASIC_HEADER_LENGTH
      <3>. HIDE DEF left
      <3>6. Carries(next, s, n)
        BY <1>2, <1>3, <3>4 DEF Carries, Keeps
      <3>7. ReadsAt(next, s, n, at + u)
        BY <3>2, <3>4, <3>5, <3>6 DEF ReadsAt, Keeps, header
      <3>8. IsProcessor(next) /\ ~ Fresh(next)
        BY <3>4 DEF Keeps, Fresh
      <3>9. Outcome(Goes(next, u), p, s, n, at + u, u)
        BY <1>2, <3>7, <3>8, GoesOutcome
      <3>. QED
        BY <3>1, <3>9 DEF u
    <2>. QED
      BY <2>4, <2>5
  <1>. QED
    BY <1>8, <1>9

--------------------------------------------------------------------------------
LEMMA FitsIs ==
    ASSUME NEW p, NEW s, NEW n, ReadWell(s, n), HeaderRead(s, n), Carries(p, s, n),
           IsData(s[n + 1]), IsProcessor(p)
    PROVE  Fits(p, s[n + 1]) <=> Len(MessageUpTo(s, n + 1).parts) <= max_message_size
  <1>1. /\ Len(MessageUpTo(s, n + 1).parts) = Len(Before(s, n)) + s[n + 1].size
        /\ Before(s, n) \in Seq(Byte)
    BY PartsAre
  <1>2. p.data.parts = Before(s, n)
    BY EmptyIs DEF Carries, Before
  <1>. QED
    BY <1>1, <1>2 DEF Fits, IsData

LEMMA ExtendedOutcome ==
    ASSUME NEW p, NEW s, NEW n, NEW at, NEW pieces, ReadWell(s, n), ReadsAt(p, s, n, at),
           Buffered(pieces, s, at), p.m_state = "HEADER_EXTENDED"
    PROVE  Outcome(consume(p, pieces), p, s, n, at + Used(p, pieces), Used(p, pieces))
  <1>. DEFINE frame == s[n + 1]
              message == MessageUpTo(s, n + 1)
              u == Used(p, pieces)
              short == Short(p, u)
              header == get_header_len(frame)
              begun == [Begin(p, frame) EXCEPT !.m_state = "APPLICATION",
                                               !.m_bytes_needed = get_payload_size(frame)]
  <1>1. n < Len(s) /\ p.m_bytes_needed \in Nat \ {0} /\ u \in 1..p.m_bytes_needed
        /\ frame \in Frame /\ pieces[1].frame = frame
    BY CurrentFrame
  <1>2. IsProcessor(p) /\ at \in Nat /\ n \in Nat /\ s \in Seq(Frame) /\ Carries(p, s, n)
        /\ HeaderRead(s, n) /\ at = BytesBefore(s, n) + header - p.m_bytes_needed
    BY DEF ReadsAt, Buffered, ReadWell
  <1>3. Keeps(short, p, "HEADER_EXTENDED", p.m_bytes_needed - u)
    <2>1. Keeps([p EXCEPT !.m_bytes_needed = p.m_bytes_needed - u], p, p.m_state,
                p.m_bytes_needed - u)
      BY <1>2, ChangedKeeps
    <2>. QED
      BY <2>1 DEF Short
  <1>4. consume(p, pieces) =
            IF short.m_bytes_needed > 0 THEN Goes(short, u)
            ELSE IF ~ (ValidExtendedHeader(frame) /\ Fits(p, frame)) THEN Fails(short, u)
            ELSE IF frame.size = 0 THEN EndFrame(begun, frame, u)
            ELSE Goes(begun, u)
    BY <1>1, ConsumeIs
  <1>5. /\ BytesBefore(s, n) \in Nat
        /\ BytesBefore(s, n + 1) = BytesBefore(s, n) + (header + frame.size)
        /\ header \in 2..4 /\ frame.size \in Nat
    BY <1>1, <1>2, WireIs, PiecesAre
  <1>6. CASE u < p.m_bytes_needed
    <2>1. short.m_bytes_needed > 0
      BY <1>1, <1>3, <1>6 DEF Keeps
    <2>2. consume(p, pieces) = Goes(short, u)
      BY <1>4, <2>1
    <2>3. Outcome(Goes(Short(p, u), u), p, s, n, at + u, u)
      BY <1>6, ShortOutcome
    <2>. QED
      BY <2>2, <2>3
  <1>7. CASE ~ (u < p.m_bytes_needed)
    <2>1. u = p.m_bytes_needed
      BY <1>1, <1>7
    <2>. HIDE DEF u, short
    <2>2. p.m_bytes_needed - u = 0 /\ at + u = BytesBefore(s, n) + header
      <3>. HIDE DEF header
      <3>. QED
        BY <1>1, <1>2, <1>5, <2>1
    <2>3. short.m_bytes_needed = 0 /\ IsProcessor(short) /\ ~ Fresh(short)
          /\ short.m_state \in States
      BY <1>3, <2>2 DEF Keeps, Fresh, States
    <2>4. IsData(frame) => (Fits(p, frame) <=> Len(message.parts) <= max_message_size)
      BY <1>2, FitsIs
    <2>5. ~ IsData(frame) => Fits(p, frame)
      BY DEF Fits, IsData
    <2>6. CASE ~ (ValidExtendedHeader(frame) /\ Fits(p, frame))
      <3>1. consume(p, pieces) = Fails(short, u)
        BY <1>4, <2>3, <2>6
      <3>2. ~ Accepted(s, n + 1)
        BY <1>1, <2>4, <2>5, <2>6, AcceptedIs
      <3>3. Outcome(Fails(short, u), p, s, n, at + u, u)
        BY <1>2, <2>3, <3>2, FailsOutcome
      <3>. QED
        BY <3>1, <3>3 DEF u
    <2>7. CASE ValidExtendedHeader(frame) /\ Fits(p, frame)
      <3>1. /\ IsProcessor(begun) /\ begun.m_state = "APPLICATION"
            /\ begun.m_bytes_needed = frame.size
            /\ IsData(frame) =>
                  /\ begun.data.op = message.op /\ begun.data.parts = Before(s, n)
                  /\ begun.data.prepared_key = TurnedKey(frame, 0)
                  /\ frame.op = "TEXT" => begun.data.text = "ok"
            /\ ~ IsData(frame) => Carries(begun, s, n) /\ begun.control.op = frame.op
        <4>. DEFINE Starts(q) ==
                  /\ IsProcessor(q) /\ q.m_state = "APPLICATION"
                  /\ q.m_bytes_needed = s[n + 1].size
                  /\ IsData(s[n + 1]) =>
                        /\ q.data.op = MessageUpTo(s, n + 1).op /\ q.data.parts = Before(s, n)
                        /\ q.data.prepared_key = TurnedKey(s[n + 1], 0)
                        /\ s[n + 1].op = "TEXT" => q.data.text = "ok"
                  /\ ~ IsData(s[n + 1]) => Carries(q, s, n) /\ q.control.op = s[n + 1].op
        <4>1. ASSUME NEW q, q = HeaderDone(p, s[n + 1]) PROVE Starts(q)
          BY <1>2, <4>1, BegunIs
        <4>. HIDE DEF Starts
        <4>2. Starts(begun)
          BY <4>1 DEF HeaderDone
        <4>. QED
          BY <4>2 DEF Starts
      <3>2. IsData(frame) =>
               /\ message.parts \in Seq(Byte) /\ Before(s, n) \in Seq(Byte)
               /\ Len(message.parts) = Len(Before(s, n)) + frame.size
               /\ Len(message.parts) <= max_message_size
               /\ \A i \in 1..Len(Before(s, n)) : message.parts[i] = Before(s, n)[i]
               /\ frame.size = 0 => message.parts = Before(s, n)
        BY <1>2, <2>4, <2>7, PartsAre
      <3>. HIDE DEF begun
      <3>3. CASE frame.size = 0
        <4>1. consume(p, pieces) = EndFrame(begun, frame, u)
          BY <1>4, <2>3, <2>7, <3>3
        <4>2. frame.text = "ok"
          BY <1>1, <3>3 DEF Frame
        <4>3. AtEnd(begun, s, n)
          <5>1. CASE IsData(frame)
            <6>1. /\ begun.data.op = message.op /\ begun.data.parts = message.parts
                  /\ Len(message.parts) <= max_message_size
                  /\ message.op = "TEXT" => frame.text # "bad"
                  /\ frame.op = "TEXT" => begun.data.text = frame.text
              BY <3>1, <3>2, <3>3, <4>2, <5>1
            <6>. QED
              BY <1>2, <2>7, <3>1, <5>1, <6>1 DEF AtEnd
          <5>2. CASE ~ IsData(frame)
            BY <1>2, <2>7, <3>1, <5>2 DEF AtEnd
          <5>. QED
            BY <5>1, <5>2
        <4>4. at + u = BytesBefore(s, n + 1) /\ at + u \in Nat
          <5>. HIDE DEF header
          <5>. QED
            BY <1>5, <2>2, <3>3
        <4>5. ~ Fresh(p)
          BY DEF Fresh
        <4>6. Outcome(EndFrame(begun, frame, u), p, s, n, at + u, u)
          BY <1>2, <4>3, <4>4, <4>5, EndOutcome
        <4>. QED
          BY <4>1, <4>6 DEF u
      <3>4. CASE frame.size # 0
        <4>1. consume(p, pieces) = Goes(begun, u)
          BY <1>4, <2>3, <2>7, <3>4
        <4>2. ASSUME IsData(frame) PROVE Fills(begun, s, n)
          <5>1. SubSeq(message.parts, 1, Len(Before(s, n))) = Before(s, n)
            <6>1. PICK a \in Seq(Byte) : a = message.parts
              BY <3>2, <4>2
            <6>2. PICK b \in Seq(Byte) : b = Before(s, n)
              BY <3>2, <4>2
            <6>3. Len(b) \in Nat /\ Len(b) <= Len(a) /\ \A i \in 1..Len(b) : a[i] = b[i]
              BY <1>5, <3>2, <4>2, <6>1, <6>2
            <6>4. /\ SubSeq(a, 1, Len(b)) \in Seq(Byte) /\ Len(SubSeq(a, 1, Len(b))) = Len(b)
                  /\ \A i \in 1..Len(b) : SubSeq(a, 1, Len(b))[i] = a[i]
              BY <6>3, FirstsAre
            <6>. DEFINE c == SubSeq(a, 1, Len(b))
            <6>. HIDE DEF c
            <6>5. c = [i \in 1..Len(b) |-> c[i]] /\ b = [i \in 1..Len(b) |-> b[i]]
              <7>1. c \in Seq(Byte) /\ Len(c) = Len(b)
                BY <6>4 DEF c
              <7>. QED
                BY <6>3, <7>1, ListIs
            <6>6. \A i \in 1..Len(b) : c[i] = b[i]
              BY <6>3, <6>4 DEF c
            <6>7. c = b
              BY <6>5, <6>6
            <6>. QED
              BY <6>1, <6>2, <6>7 DEF c
          <5>2. Len(message.parts) - begun.m_bytes_needed = Len(Before(s, n))
            <6>1. Len(Before(s, n)) \in Nat
              BY <3>2, <4>2
            <6>. QED
              BY <1>5, <3>1, <3>2, <4>2, <6>1
          <5>3. frame.size - begun.m_bytes_needed = 0
            BY <1>5, <3>1
          <5>. QED
            BY <3>1, <3>2, <4>2, <5>1, <5>2, <5>3 DEF Fills
        <4>3. ReadsAt(begun, s, n, at + u)
          <5>1. begun.m_bytes_needed \in 1..frame.size
            BY <1>5, <3>1, <3>4
          <5>2. at + u = BytesBefore(s, n) + header + frame.size - begun.m_bytes_needed
            <6>. HIDE DEF header
            <6>. QED
              BY <1>5, <2>2, <3>1
          <5>. QED
            BY <1>2, <2>7, <3>1, <4>2, <5>1, <5>2 DEF ReadsAt
        <4>4. ~ Fresh(begun)
          BY <3>1 DEF Fresh
        <4>5. Outcome(Goes(begun, u), p, s, n, at + u, u)
          BY <1>2, <3>1, <4>3, <4>4, GoesOutcome
        <4>. QED
          BY <4>1, <4>5 DEF u
      <3>. QED
        BY <3>3, <3>4
    <2>. QED
      BY <2>6, <2>7
  <1>. QED
    BY <1>6, <1>7

LEMMA ApplicationOutcome ==
    ASSUME NEW p, NEW s, NEW n, NEW at, NEW pieces, ReadWell(s, n), ReadsAt(p, s, n, at),
           Buffered(pieces, s, at), p.m_state = "APPLICATION"
    PROVE  Outcome(consume(p, pieces), p, s, n, at + Used(p, pieces), Used(p, pieces))
  <1>. DEFINE frame == s[n + 1]
              message == MessageUpTo(s, n + 1)
              u == Used(p, pieces)
              left == p.m_bytes_needed - u
              header == get_header_len(frame)
              filled == process_payload_bytes(p, frame, SubSeq(pieces, 1, u))
  <1>1. n < Len(s) /\ p.m_bytes_needed \in Nat \ {0} /\ u \in 1..p.m_bytes_needed
        /\ frame \in Frame /\ pieces[1].frame = frame
    BY CurrentFrame
  <1>2. /\ IsProcessor(p) /\ at \in Nat /\ n \in Nat /\ s \in Seq(Frame)
        /\ HeaderRead(s, n) /\ ValidExtendedHeader(frame) /\ p.m_bytes_needed \in 1..frame.size
        /\ at = BytesBefore(s, n) + header + frame.size - p.m_bytes_needed
        /\ IsData(frame) => Fills(p, s, n)
    BY DEF ReadsAt, Buffered, ReadWell
  <1>3. /\ IsProcessor(filled) /\ filled.m_state = "APPLICATION" /\ filled.m_bytes_needed = left
        /\ IsData(frame) =>
              /\ filled.data.op = message.op
              /\ filled.data.parts = SubSeq(message.parts, 1, Len(message.parts) - left)
              /\ filled.data.prepared_key = TurnedKey(frame, frame.size - left)
              /\ filled.data.text = IF left = 0 THEN frame.text ELSE "ok"
        /\ ~ IsData(frame) => Carries(filled, s, n) /\ filled.control.op = frame.op
    BY PouredIs
  <1>4. consume(p, pieces) =
            IF ~ ValidText(filled, frame) THEN Fails(filled, u)
            ELSE IF filled.m_bytes_needed > 0 THEN Goes(filled, u)
            ELSE EndFrame(filled, frame, u)
    BY <1>1, ConsumeIs
  <1>5. /\ BytesBefore(s, n) \in Nat
        /\ BytesBefore(s, n + 1) = BytesBefore(s, n) + (header + frame.size)
        /\ header \in 2..4 /\ frame.size \in Nat
    BY <1>1, <1>2, WireIs, PiecesAre
  <1>. HIDE DEF u, filled, header
  <1>6. left \in 0..p.m_bytes_needed /\ left < p.m_bytes_needed
    BY <1>1
  <1>7. at + u = BytesBefore(s, n) + header + frame.size - left /\ at + u \in Nat
    <2>1. PICK k \in Nat : k = p.m_bytes_needed
      BY <1>1
    <2>2. PICK size \in Nat : size = frame.size
      BY <1>5
    <2>3. PICK before \in Nat : before = BytesBefore(s, n)
      BY <1>5
    <2>4. /\ at = before + header + size - k /\ k \in 1..size /\ u \in 1..k
      BY <1>1, <1>2, <2>1, <2>2, <2>3
    <2>5. left = k - u
      BY <2>1
    <2>. HIDE DEF left
    <2>6. at + u = before + header + size - left /\ at + u \in Nat
      <3>1. PICK a \in Nat : a = at
        BY <1>2
      <3>2. PICK b \in Nat : b = header
        BY <1>5
      <3>3. a = before + b + size - k /\ left = k - u
        BY <2>4, <2>5, <3>1, <3>2
      <3>4. a + u = before + b + size - left /\ a + u \in Nat
        BY <2>4, <3>3
      <3>. QED
        BY <3>1, <3>2, <3>4
    <2>. QED
      BY <2>2, <2>3, <2>6
  <1>. HIDE DEF left
  <1>8. IsData(frame) => /\ message.parts \in Seq(Byte)
                         /\ Len(message.parts) <= max_message_size
    <2>1. IsData(frame) => message.parts \in Seq(Byte)
      BY <1>2, PartsAre
    <2>. QED
      BY <1>2, <2>1 DEF Fills
  <1>9. ~ Fresh(p) /\ ~ Fresh(filled) /\ filled.m_state \in States
    BY <1>3 DEF Fresh, States
  <1>10. ValidText(filled, frame) <=>
             (IsData(frame) /\ left = 0 /\ message.op = "TEXT" => frame.text # "bad")
    <2>1. CASE IsData(frame)
      <3>1. Current(frame) = "data"
        BY <2>1 DEF IsData, Current
      <3>2. ValidText(filled, frame) <=> (filled.data.op = "TEXT" => filled.data.text # "bad")
        BY <3>1 DEF ValidText
      <3>. QED
        BY <1>3, <2>1, <3>2
    <2>2. CASE ~ IsData(frame)
      <3>1. Current(frame) = "control" /\ frame.op # "TEXT"
        BY <2>2 DEF IsData, Current, IsControl
      <3>2. ValidText(filled, frame) <=>
                (filled.control.op = "TEXT" => filled.control.text # "bad")
        BY <3>1 DEF ValidText
      <3>. QED
        BY <1>3, <2>2, <3>1, <3>2
    <2>. QED
      BY <2>1, <2>2
  <1>11. CASE ~ ValidText(filled, frame)
    <2>1. consume(p, pieces) = Fails(filled, u)
      BY <1>4, <1>11
    <2>2. ~ Accepted(s, n + 1)
      BY <1>1, <1>10, <1>11, AcceptedIs
    <2>3. Outcome(Fails(filled, u), p, s, n, at + u, u)
      BY <1>2, <1>3, <1>9, <2>2, FailsOutcome
    <2>. QED
      BY <2>1, <2>3 DEF u
  <1>12. CASE ValidText(filled, frame) /\ left # 0
    <2>1. consume(p, pieces) = Goes(filled, u)
      <3>1. filled.m_bytes_needed > 0
        BY <1>1, <1>3, <1>6, <1>12
      <3>. QED
        BY <1>4, <1>12, <3>1
    <2>2. IsData(frame) => Fills(filled, s, n)
      BY <1>3, <1>8 DEF Fills
    <2>3. ReadsAt(filled, s, n, at + u)
      <3>1. left \in 1..frame.size
        BY <1>1, <1>2, <1>5, <1>6, <1>12
      <3>. QED
        BY <1>2, <1>3, <1>7, <2>2, <3>1 DEF ReadsAt, header
    <2>4. Outcome(Goes(filled, u), p, s, n, at + u, u)
      BY <1>2, <1>3, <1>9, <2>3, GoesOutcome
    <2>. QED
      BY <2>1, <2>4 DEF u
  <1>13. CASE ValidText(filled, frame) /\ left = 0
    <2>1. consume(p, pieces) = EndFrame(filled, frame, u)
      BY <1>3, <1>4, <1>13
    <2>2. at + u = BytesBefore(s, n + 1)
      BY <1>5, <1>7, <1>13
    <2>3. AtEnd(filled, s, n)
      <3>1. CASE IsData(frame)
        <4>1. SubSeq(message.parts, 1, Len(message.parts) - 0) = message.parts
          <5>1. PICK a \in Seq(Byte) : a = message.parts
            BY <1>8, <3>1
          <5>2. Len(a) - 0 = Len(a) /\ SubSeq(a, 1, Len(a)) = a
            OBVIOUS
          <5>. QED
            BY <5>1, <5>2
        <4>2. /\ filled.data.op = message.op /\ filled.data.parts = message.parts
              /\ Len(message.parts) <= max_message_size
              /\ message.op = "TEXT" => frame.text # "bad"
              /\ frame.op = "TEXT" => filled.data.text = frame.text
          BY <1>3, <1>8, <1>10, <1>13, <3>1, <4>1
        <4>. QED
          BY <1>2, <1>3, <3>1, <4>2 DEF AtEnd
      <3>2. CASE ~ IsData(frame)
        BY <1>2, <1>3, <3>2 DEF AtEnd
      <3>. QED
        BY <3>1, <3>2
    <2>4. Outcome(EndFrame(filled, frame, u), p, s, n, at + u, u)
      BY <1>2, <1>7, <1>9, <2>2, <2>3, EndOutcome
    <2>. QED
      BY <2>1, <2>4 DEF u
  <1>. QED
    BY <1>11, <1>12, <1>13

(* However the bytes come, a turn does to the frame under way what the reference      *)
(* says of it.                                                               *)
LEMMA ConsumeOutcome ==
    ASSUME NEW p, NEW s, NEW n, NEW at, NEW pieces, ReadWell(s, n), ReadsAt(p, s, n, at),
           Buffered(pieces, s, at)
    PROVE  Outcome(consume(p, pieces), p, s, n, at + Used(p, pieces), Used(p, pieces))
  <1>1. p.m_state \in {"HEADER_BASIC", "HEADER_EXTENDED", "APPLICATION"}
    BY DEF ReadsAt
  <1>. QED
    BY <1>1, BasicOutcome, ExtendedOutcome, ApplicationOutcome

(* The frames read stay well formed.                                              *)
LEMMA ReadWellNext ==
    ASSUME NEW s, NEW n, ReadWell(s, n), n < Len(s), Accepted(s, n + 1)
    PROVE  ReadWell(s, n + 1)
  <1>1. s \in Seq(Frame) /\ n \in Nat /\ n + 1 \in 0..Len(s)
    BY DEF ReadWell
  <1>2. \A i \in 1..(n + 1) : Accepted(s, i)
    <2>1. \A i \in 1..(n + 1) : i \in 1..n \/ i = n + 1
      BY <1>1
    <2>. QED
      BY <2>1 DEF ReadWell
  <1>3. HeaderRead(s, n)
    BY AcceptedIs DEF HeaderRead
  <1>4. Open(s, n + 1) => HasBeginning(s, n + 1)
    <2>1. CASE IsData(s[n + 1])
      BY <1>3, <2>1, MessageOfNext
    <2>2. CASE ~ IsData(s[n + 1])
      <3>1. Open(s, n + 1) => Open(s, n)
        BY <1>1, <2>2, OpenNext
      <3>2. Continues(s[n + 1])
        BY <2>2 DEF IsData, Continues
      <3>3. HasBeginning(s, n) => HasBeginning(s, n + 1)
        BY <1>1, <3>2, MessageNext
      <3>. QED
        BY <3>1, <3>3 DEF ReadWell
    <2>. QED
      BY <2>1, <2>2
  <1>. QED
    BY <1>1, <1>2, <1>4 DEF ReadWell

--------------------------------------------------------------------------------
(* What the connection reads.  The invariant, in three parts.                          *)

(* The processor stands where the bytes it was given end, and the message handler was    *)
(* given the messages of the frames before that.                                     *)
Position == arrived - RequestPieces - m_buf

ReaderInv ==
    /\ request \in Requests /\ script \in Scripts
    /\ ReadWell(script, read)
    /\ m_state = "open" => \A i \in 1..read : script[i].op # "CLOSE"
    /\ Begun(MessagesOfFrames(script), delivered, MessagesIn(script, read))
    /\ m_state = "open" => delivered = MessagesIn(script, read)
    /\ m_state = "connecting" => processor = NewProcessor /\ read = 0 /\ delivered = <<>>
    /\ processor.m_state \in States
    /\ reading \in {"frame", "buffer"} => ReadsAt(processor, script, read, Position)

(* The buffer is empty while a read is under way; after the handshake it holds all that   *)
(* came behind the request.                                                       *)
BufferInv ==
    /\ arrived \in 0..StreamLength /\ m_buf \in 0..Len(Stream)
    /\ reading \in {"handshake", "frame"} => m_buf = 0
    /\ m_internal_state = "USER_INIT" => m_buf = 0 /\ reading = "none"
    /\ writes = <<"http">> /\ m_response = 101 => arrived = RequestPieces + m_buf
    /\ reading \in {"frame", "buffer"} => RequestPieces + m_buf <= arrived

(* What else the connection remembers.                                             *)
StatusInv ==
    /\ m_response \in {0, 101, 400, 426} /\ m_was_clean \in BOOLEAN
    /\ m_internal_state \in {"USER_INIT", "READ_HTTP_REQUEST", "PROCESS_HTTP_REQUEST",
                             "PROCESS_CONNECTION"}
    /\ m_current_msgs # <<>> => m_write_flag
    /\ sends \in 0..MaxSends /\ closes \in 0..MaxCloses

(* Two timers are set by the opening handshake, one by each close, by each frame that is   *)
(* answered by a close, and by what ends the reading.                                 *)
TimersAllowed == 2 + closes + read + (IF reading = "none" THEN 1 ELSE 0)

TimersInv ==
    /\ timers \in Seq({"running", "expired", "off"})
    /\ m_handshake_timer \in 0..Len(timers)
    /\ Len(timers) <= TimersAllowed
    /\ m_internal_state = "USER_INIT" => timers = <<>> /\ m_state \in {"connecting", "closed"}
    /\ m_state = "connecting" => Len(timers) <= 2

ConnectionInv == IInv /\ ReaderInv /\ BufferInv /\ StatusInv /\ TimersInv

LEMMA StreamIs ==
    ASSUME ReaderInv
    PROVE  /\ Stream = Wire(script) /\ Stream \in Seq(Piece) /\ Len(Stream) \in Nat
           /\ RequestPieces \in Nat /\ StreamLength = RequestPieces + Len(Stream)
           /\ script \in Seq(Frame) /\ Len(script) \in Nat /\ read \in 0..Len(script)
           /\ read \in Nat
  <1>1. script \in Scripts /\ request \in Requests /\ script \in Seq(Frame) /\ read \in 0..Len(script)
    BY DEF ReaderInv, ReadWell
  <1>2. Stream = Wire(script)
    BY <1>1 DEF Stream, StreamOf, Wire
  <1>3. RequestPieces \in Nat
    BY <1>1, RequestsAssumption DEF RequestPieces, Handshake!Pieces, Handshake!HeadPieces
  <1>4. Wire(script) \in Seq(Piece)
    BY <1>1, WireIs
  <1>. QED
    BY <1>1, <1>2, <1>3, <1>4 DEF StreamLength

\* The bytes that are left in the buffer.
Pending == SubSeq(Stream, (arrived - RequestPieces) - m_buf + 1, arrived - RequestPieces)

LEMMA PendingIs ==
    ASSUME ReaderInv, BufferInv, reading = "buffer", m_buf > 0
    PROVE  /\ Buffered(Pending, script, Position) /\ Len(Pending) = m_buf
           /\ Position \in Nat /\ m_buf \in Nat /\ arrived \in Nat
  <1>1. /\ Stream = Wire(script) /\ Stream \in Seq(Piece) /\ Len(Stream) \in Nat
        /\ RequestPieces \in Nat /\ StreamLength = RequestPieces + Len(Stream)
    BY StreamIs
  <1>2. PICK all \in Nat : all = Len(Stream)
    BY <1>1
  <1>3. PICK head \in Nat : head = RequestPieces
    BY <1>1
  <1>4. /\ arrived \in 0..(head + all) /\ m_buf \in 0..all /\ head + m_buf <= arrived
        /\ m_buf > 0
    BY <1>1, <1>2, <1>3 DEF BufferInv
  <1>5. PICK last \in Nat : last = arrived - head
    BY <1>4
  <1>6. PICK m \in Nat : m = last - m_buf
    BY <1>4, <1>5
  <1>7. m <= last /\ last <= all /\ last - m = m_buf /\ m + m_buf <= all /\ m_buf \in Nat \ {0}
        /\ arrived \in Nat
    BY <1>4, <1>5, <1>6
  <1>8. Pending = SubSeq(Stream, m + 1, last) /\ Position = m
    BY <1>3, <1>5, <1>6 DEF Pending, Position
  <1>9. /\ SubSeq(Stream, m + 1, last) \in Seq(Piece)
        /\ Len(SubSeq(Stream, m + 1, last)) = last - m
        /\ \A i \in 1..(last - m) : SubSeq(Stream, m + 1, last)[i] = Stream[m + i]
    <2>1. last <= Len(Stream)
      BY <1>2, <1>7
    <2>. QED
      BY <1>1, <1>7, <2>1, CutOut
  <1>10. /\ Pending \in Seq(Piece) /\ Len(Pending) = m_buf
         /\ \A i \in 1..m_buf : Pending[i] = Wire(script)[m + i]
    BY <1>1, <1>7, <1>8, <1>9
  <1>11. Len(Wire(script)) = all
    BY <1>1, <1>2
  <1>. QED
    BY <1>7, <1>8, <1>10, <1>11 DEF Buffered

(* What ProcessBytes does.                                                       *)
Refuses ==
    /\ ~ Accepted(script, read + 1)
    /\ reading' = "none" /\ m_buf' = 0 /\ UNCHANGED <<read, delivered>>
    /\ processor'.m_state \in States
    /\ \/ m_state = "open" /\ SendCloseFrame(FALSE, TRUE)
       \/ m_state # "open" /\ Terminate /\ UNCHANGED queueVars

Takes ==
    /\ reading' = "buffer" /\ m_buf' \in 0..m_buf
    /\ ReadsAt(processor', script, read', (arrived - RequestPieces) - m_buf')
    /\ \/ UNCHANGED <<read, delivered>> /\ Same
       \/ /\ read' = read + 1 /\ Accepted(script, read + 1)
          /\ IF script[read + 1].fin /\ IsData(script[read + 1]) /\ m_state = "open"
             THEN delivered' = Append(delivered, MessageUpTo(script, read + 1))
             ELSE delivered' = delivered
          /\ \/ IsData(script[read + 1]) /\ Same
             \/ /\ ~ IsData(script[read + 1])
                /\ \E text : process_control_frame(script[read + 1].op, text)

LEMMA Processing ==
    ASSUME ConnectionInv, ProcessBytes
    PROVE  /\ reading = "buffer" /\ read < Len(script)
           /\ UNCHANGED <<clientVars, arrived, senderVars, closes>>
           /\ Refuses \/ Takes
  <1>1. /\ reading = "buffer" /\ m_buf > 0 /\ UNCHANGED <<clientVars, arrived, senderVars, closes>>
    BY DEF ProcessBytes
  <1>2. /\ Buffered(Pending, script, Position) /\ Len(Pending) = m_buf
        /\ Position \in Nat /\ m_buf \in Nat
    BY <1>1, PendingIs DEF ConnectionInv
  <1>3. ReadWell(script, read) /\ ReadsAt(processor, script, read, Position)
    BY <1>1 DEF ConnectionInv, ReaderInv
  <1>4. /\ read < Len(script) /\ script[read + 1] \in Frame
        /\ Used(processor, Pending) \in Nat /\ Used(processor, Pending) <= m_buf
    BY <1>2, <1>3, CurrentFrame
  <1>. DEFINE r == consume(processor, Pending)
              u == Used(processor, Pending)
              frame == script[read + 1]
              message == r.message
              ended == Ended(processor, r.processor)
  <1>5. Outcome(r, processor, script, read, Position + u, u)
    BY <1>2, <1>3, ConsumeOutcome
  <1>6. /\ processor' = r.processor
        /\ read' = IF ended THEN read + 1 ELSE read
        /\ reading' = IF r.error THEN "none" ELSE reading
        /\ m_buf' = IF r.error THEN 0 ELSE m_buf - r.used
        /\ delivered' = IF message # NoMessage /\ ~ IsControl(message.op) /\ m_state = "open"
                        THEN Append(delivered, [op |-> message.op, parts |-> message.parts])
                        ELSE delivered
        /\ IF r.error
           THEN IF m_state = "open" THEN SendCloseFrame(FALSE, TRUE)
                ELSE Terminate /\ UNCHANGED queueVars
           ELSE IF IsControl(message.op) THEN process_control_frame(message.op, message.text)
           ELSE Same
    BY DEF ProcessBytes, Pending, Ended
  <1>. HIDE DEF r
  <1>7. ~ IsControl(NoMessage.op)
    BY EmptyIs DEF IsControl
  <1>8. CASE r.error
    <2>1. /\ ~ Accepted(script, read + 1) /\ message = NoMessage /\ ~ ended
          /\ r.processor.m_state \in States
      BY <1>5, <1>8 DEF Outcome
    <2>2. Refuses
      BY <1>6, <1>8, <2>1 DEF Refuses
    <2>. QED
      BY <1>1, <1>4, <2>2
  <1>9. CASE ~ r.error
    <2>1. r.used = u
      BY <1>5 DEF Outcome
    <2>2. m_buf' \in 0..m_buf /\ (arrived - RequestPieces) - m_buf' = Position + u
      <3>1. m_buf' = m_buf - u /\ Position = (arrived - RequestPieces) - m_buf
        BY <1>6, <1>9, <2>1 DEF Position
      <3>2. PICK last \in Nat : last = arrived - RequestPieces /\ m_buf <= last
        <4>1. arrived \in Nat /\ RequestPieces \in Nat
          BY <1>1, PendingIs, StreamIs DEF ConnectionInv
        <4>. QED
          BY <1>2, <3>1, <4>1
      <3>. HIDE DEF u
      <3>3. u \in Nat /\ u <= m_buf
        BY <1>4 DEF u
      <3>. QED
        BY <1>2, <3>1, <3>2, <3>3
    <2>3. CASE ~ ended
      <3>1. ReadsAt(r.processor, script, read, Position + u) /\ message = NoMessage
        BY <1>5, <1>9, <2>3 DEF Outcome
      <3>2. read' = read /\ delivered' = delivered /\ Same
        BY <1>6, <1>7, <1>9, <2>3, <3>1
      <3>3. Takes
        BY <1>1, <1>6, <1>9, <2>2, <3>1, <3>2 DEF Takes
      <3>. QED
        BY <1>1, <1>4, <3>3
    <2>4. CASE ended
      <3>1. /\ Accepted(script, read + 1)
            /\ ReadsAt(r.processor, script, read + 1, Position + u)
            /\ ~ frame.fin => message = NoMessage
            /\ frame.fin /\ IsData(frame) =>
                  /\ message.op = MessageUpTo(script, read + 1).op
                  /\ message.parts = MessageUpTo(script, read + 1).parts
            /\ frame.fin /\ ~ IsData(frame) => message.op = frame.op
        BY <1>5, <1>9, <2>4 DEF Outcome
      <3>2. read' = read + 1
        BY <1>6, <2>4
      <3>3. ~ IsData(frame) => frame.fin
        <4>1. ValidBasicHeader(frame, ~ Open(script, read))
          BY <1>3, <1>4, <3>1, AcceptedIs
        <4>. QED
          BY <4>1 DEF ValidBasicHeader, IsData
      <3>4. /\ IF frame.fin /\ IsData(frame) /\ m_state = "open"
               THEN delivered' = Append(delivered, MessageUpTo(script, read + 1))
               ELSE delivered' = delivered
            /\ \/ IsData(frame) /\ Same
               \/ ~ IsData(frame) /\ \E text : process_control_frame(frame.op, text)
        <4>1. CASE ~ frame.fin
          BY <1>6, <1>7, <1>9, <3>1, <3>3, <4>1
        <4>2. CASE frame.fin /\ IsData(frame)
          <5>1. HeaderRead(script, read)
            BY <1>3, <1>4, <3>1, AcceptedIs DEF HeaderRead
          <5>2. HasBeginning(script, read + 1)
            BY <1>3, <4>2, <5>1, MessageOfNext
          <5>3. script \in Seq(Frame) /\ read + 1 \in 0..Len(script)
            BY <1>3, <1>4 DEF ReadWell
          <5>4. /\ MessageUpTo(script, read + 1) =
                       [op |-> MessageUpTo(script, read + 1).op,
                        parts |-> MessageUpTo(script, read + 1).parts]
                /\ MessageUpTo(script, read + 1).op \in Ops
                /\ ~ IsControl(MessageUpTo(script, read + 1).op)
            BY <5>2, <5>3, MessageTyped
          <5>5. message # NoMessage /\ ~ IsControl(message.op)
            BY <3>1, <4>2, <5>4, EmptyIs DEF Ops
          <5>. QED
            BY <1>6, <1>9, <3>1, <4>2, <5>4, <5>5
        <4>3. CASE frame.fin /\ ~ IsData(frame)
          <5>1. IsControl(message.op) /\ message.op = frame.op
            BY <3>1, <4>3 DEF IsData
          <5>. QED
            BY <1>6, <1>9, <4>3, <5>1
        <4>. QED
          BY <4>1, <4>2, <4>3
      <3>5. Takes
        <4>1. ReadsAt(processor', script, read', (arrived - RequestPieces) - m_buf')
          BY <1>6, <2>2, <3>1, <3>2
        <4>2. reading' = "buffer"
          BY <1>1, <1>6, <1>9
        <4>. HIDE DEF frame
        <4>. QED
          BY <2>2, <3>1, <3>2, <3>4, <4>1, <4>2 DEF Takes, frame
      <3>. QED
        BY <1>1, <1>4, <3>5
    <2>. QED
      BY <2>3, <2>4
  <1>. QED
    BY <1>8, <1>9

--------------------------------------------------------------------------------
(* What a step does to what the connection reads.                                      *)

\* Nothing is read by the processor.
Quiet ==
    /\ UNCHANGED <<request, script, processor, read, delivered>>
    /\ m_state' \in {m_state, "closing", "closed"}
    /\ reading' \in {"frame", "buffer"} =>
          reading \in {"frame", "buffer"} /\ Position' = Position

LEMMA ReaderQuiet == ASSUME ReaderInv, Quiet PROVE ReaderInv'
  <1>1. /\ request' = request /\ script' = script /\ processor' = processor /\ read' = read
        /\ delivered' = delivered
        /\ m_state' = "open" => m_state = "open"
        /\ m_state' = "connecting" => m_state = "connecting"
    BY DEF Quiet
  <1>2. reading' \in {"frame", "buffer"} => ReadsAt(processor, script, read, Position')
    BY DEF Quiet, ReaderInv
  <1>. QED
    BY <1>1, <1>2 DEF ReaderInv

\* Whoever ends the connection, it is closed, and nothing else.
Ends == m_state' = "closed" /\ UNCHANGED <<m_internal_state, m_response>>

LEMMA TerminateEnds == ASSUME Terminate PROVE Ends
  BY DEF Terminate, EndConnection, Ends

\* The response is written, and nothing comes of it but the end, or frames are read.
LEMMA ResponseIs ==
    ASSUME IInv, NEW failed \in BOOLEAN, handle_write_http_response(failed)
    PROVE  /\ writes = <<"http">> /\ writes' = <<>> /\ reading = "none"
           /\ UNCHANGED <<clientVars, arrived, m_buf, processor, read, delivered, m_current_msgs,
                          m_write_flag, senderVars, closes>>
           /\ \/ Terminate /\ reading' = reading
              \/ m_state = "closed" /\ UNCHANGED <<timerVars, stateVars, reading>>
              \/ /\ m_state = "connecting" /\ m_response = 101 /\ CancelTimer
                 /\ m_internal_state' = "PROCESS_CONNECTION" /\ m_state' = "open"
                 /\ reading' = "buffer" /\ UNCHANGED <<m_response, m_was_clean, called>>
  <1>1. /\ writes # <<>> /\ Head(writes) = "http" /\ writes' = Tail(writes)
        /\ UNCHANGED <<clientVars, arrived, m_buf, processor, read, delivered, m_current_msgs,
                       m_write_flag, senderVars, closes>>
    BY DEF handle_write_http_response
  <1>2. writes = <<"http">> /\ writes' = <<>>
    <2>1. writes = <<"http">>
      BY <1>1 DEF IInv, QueueTyped
    <2>. QED
      BY <1>1, <2>1
  <1>3. m_state \in {"connecting", "closed"} /\ reading = "none"
    BY <1>2 DEF IInv, Opening
  <1>4. \/ Terminate /\ reading' = reading
        \/ m_state = "closed" /\ UNCHANGED <<timerVars, stateVars, reading>>
        \/ /\ m_state = "connecting" /\ m_response = 101 /\ CancelTimer
           /\ m_internal_state' = "PROCESS_CONNECTION" /\ m_state' = "open"
           /\ reading' = "buffer" /\ UNCHANGED <<m_response, m_was_clean, called>>
    BY <1>3 DEF handle_write_http_response
  <1>. QED
    BY <1>1, <1>2, <1>3, <1>4

LEMMA QuietSteps ==
    ASSUME ConnectionInv, [WebSocketNext]_webSocketVars, ~ ProcessBytes,
           ~ (m_state = "connecting" /\ m_state' = "open")
    PROVE  Quiet
  <1>. USE DEF clientVars, readVars, stateVars
  <1>1. CASE UNCHANGED webSocketVars
    BY <1>1 DEF webSocketVars, Quiet, Position, RequestPieces
  <1>2. CASE write_frame \/ SendChecks \/ SendPushes \/ SendDispatches
             \/ \E i \in DOMAIN timers : Expire(i)
    BY <1>2 DEF write_frame, SendChecks, SendPushes, SendDispatches, Expire, Quiet, Position,
                RequestPieces
  <1>3. CASE \E failed \in BOOLEAN : handle_write_frame(failed)
    BY <1>3, TerminateEnds DEF handle_write_frame, Quiet, Position, RequestPieces, Ends
  <1>4. CASE \E i \in DOMAIN timers : handle_timer(i)
    BY <1>4 DEF handle_timer, EndConnection, Quiet, Position, RequestPieces
  <1>5. CASE close
    BY <1>5 DEF close, SendCloseFrame, Quiet, Position, RequestPieces
  <1>6. CASE handle_accept
    BY <1>6, TerminateEnds DEF handle_accept, Quiet, Position, RequestPieces, Ends
  <1>7. CASE ReadFails
    BY <1>7, TerminateEnds DEF ReadFails, Quiet, Ends
  <1>8. CASE \E n \in 1..(StreamLength - arrived) : handle_read_handshake(n)
    <2>1. PICK n \in 1..(StreamLength - arrived) : handle_read_handshake(n)
      BY <1>8
    <2>2. /\ reading = "handshake" /\ reading' \in {reading, "none"}
          /\ UNCHANGED <<clientVars, processor, read, delivered, m_state>>
      BY <2>1 DEF handle_read_handshake
    <2>. QED
      BY <2>2 DEF Quiet
  <1>9. CASE \E n \in 1..(StreamLength - arrived) : handle_read_frame(n)
    <2>1. PICK n \in 1..(StreamLength - arrived) : handle_read_frame(n)
      BY <1>9
    <2>2. /\ reading = "frame" /\ arrived' = arrived + n /\ m_buf' = n
          /\ UNCHANGED <<clientVars, processor, read, delivered, stateVars>>
      BY <2>1 DEF handle_read_frame, Arrives
    <2>3. Position' = Position
      <3>1. m_buf = 0 /\ arrived \in Nat /\ RequestPieces \in Nat /\ StreamLength \in Nat
        <4>1. RequestPieces \in Nat /\ StreamLength \in Nat
          BY StreamIs DEF ConnectionInv
        <4>. QED
          BY <2>2, <4>1 DEF ConnectionInv, BufferInv
      <3>2. RequestPieces' = RequestPieces
        BY <2>2 DEF RequestPieces
      <3>3. Position' = ((arrived + n) - RequestPieces) - n /\ Position = (arrived - RequestPieces) - 0
        BY <2>2, <3>1, <3>2 DEF Position
      <3>4. n \in Int
        BY <3>1
      <3>5. ((arrived + n) - RequestPieces) - n = (arrived - RequestPieces) - 0
        BY <3>1, <3>4
      <3>. QED
        BY <3>3, <3>5
    <2>. QED
      BY <2>2, <2>3 DEF Quiet
  <1>10. CASE read_frame
    BY <1>10 DEF read_frame, Quiet, Position, RequestPieces
  <1>11. CASE \E failed \in BOOLEAN : handle_write_http_response(failed)
    <2>1. PICK failed \in BOOLEAN : handle_write_http_response(failed)
      BY <1>11
    <2>2. /\ reading = "none" /\ UNCHANGED <<clientVars, processor, read, delivered>>
          /\ \/ Terminate /\ reading' = reading
             \/ m_state' = m_state /\ reading' = reading
             \/ m_state = "connecting" /\ m_state' = "open"
      BY <2>1, ResponseIs DEF ConnectionInv
    <2>. QED
      BY <2>2, TerminateEnds DEF Quiet, Ends
  <1>. QED
    BY <1>1, <1>2, <1>3, <1>4, <1>5, <1>6, <1>7, <1>8, <1>9, <1>10, <1>11
    DEF WebSocketNext, Loop, Outside

\* Only the response to the handshake opens a connection.
LEMMA OpensIs ==
    ASSUME ConnectionInv, [WebSocketNext]_webSocketVars, m_state = "connecting", m_state' = "open"
    PROVE  \E failed \in BOOLEAN : handle_write_http_response(failed)
  <1>. USE DEF stateVars
  <1>1. ~ UNCHANGED webSocketVars
    BY DEF webSocketVars
  <1>2. ~ (write_frame \/ SendChecks \/ SendPushes \/ SendDispatches \/ read_frame
             \/ (\E i \in DOMAIN timers : Expire(i))
             \/ \E n \in 1..(StreamLength - arrived) : handle_read_frame(n))
    BY DEF write_frame, SendChecks, SendPushes, SendDispatches, Expire, read_frame,
           handle_read_frame
  <1>3. ~ (\E failed \in BOOLEAN : handle_write_frame(failed))
    BY TerminateEnds DEF handle_write_frame, Ends
  <1>4. ~ ((\E i \in DOMAIN timers : handle_timer(i)) \/ close \/ handle_accept \/ ReadFails)
    BY TerminateEnds DEF handle_timer, EndConnection, close, handle_accept, ReadFails, Ends
  <1>5. ~ (\E n \in 1..(StreamLength - arrived) : handle_read_handshake(n))
    BY DEF handle_read_handshake
  <1>6. ~ ProcessBytes
    <2>1. ProcessBytes => reading = "buffer"
      BY DEF ProcessBytes
    <2>. QED
      BY <2>1 DEF ConnectionInv, IInv, Opening
  <1>. QED
    BY <1>1, <1>2, <1>3, <1>4, <1>5, <1>6 DEF WebSocketNext, Loop, Outside

LEMMA ReaderOpens ==
    ASSUME ConnectionInv, NEW failed \in BOOLEAN, handle_write_http_response(failed),
           m_state = "connecting", m_state' = "open"
    PROVE  ReaderInv'
  <1>1. /\ writes = <<"http">> /\ m_response = 101 /\ reading' = "buffer"
        /\ UNCHANGED <<request, script, arrived, m_buf, processor, read, delivered>>
    BY ResponseIs, TerminateEnds DEF ConnectionInv, clientVars, stateVars, Ends
  <1>2. processor = NewProcessor /\ read = 0 /\ delivered = <<>> /\ ReadWell(script, read)
        /\ script \in Seq(Frame)
    BY DEF ConnectionInv, ReaderInv, ReadWell
  <1>3. Position' = 0
    <2>1. PICK head \in Nat : head = RequestPieces
      BY StreamIs DEF ConnectionInv
    <2>2. m_buf \in Nat /\ arrived = head + m_buf
      BY <1>1, <2>1, StreamIs DEF ConnectionInv, BufferInv
    <2>3. (arrived - head) - m_buf = 0
      BY <2>2
    <2>. QED
      BY <1>1, <2>1, <2>3 DEF Position, RequestPieces
  <1>4. ReadsAt(NewProcessor, script, 0, 0)
    <2>1. NewProcessor = Processor("HEADER_BASIC", 2, NoMessage, NoMessage)
      BY DEF NewProcessor, Processor, BASIC_HEADER_LENGTH
    <2>2. /\ IsProcessor(NewProcessor) /\ NewProcessor.m_state = "HEADER_BASIC"
          /\ NewProcessor.m_bytes_needed = 2 /\ NewProcessor.data = NoMessage
      BY <2>1, EmptyIs, FieldsAre
    <2>3. BytesBefore(script, 0) = 0
      BY <1>2, WireIs
    <2>4. Carries(NewProcessor, script, 0)
      BY <2>2 DEF Carries, Open
    <2>. QED
      BY <2>2, <2>3, <2>4 DEF ReadsAt, BASIC_HEADER_LENGTH
  <1>5. MessagesIn(script, 0) = <<>> /\ Begun(MessagesOfFrames(script), <<>>, <<>>)
    <2>1. MessagesIn(script, 0) = <<>>
      BY <1>2, MessagesNext
    <2>. QED
      BY <2>1 DEF Begun
  <1>6. NewProcessor.m_state \in States
    BY DEF NewProcessor, States
  <1>7. request \in Requests /\ script \in Scripts
    BY DEF ConnectionInv, ReaderInv
  <1>8. \A i \in 1..0 : script[i].op # "CLOSE"
    OBVIOUS
  <1>. HIDE DEF NewProcessor
  <1>. QED
    BY <1>1, <1>2, <1>3, <1>4, <1>5, <1>6, <1>7, <1>8 DEF ReaderInv

(* The messages, as one more frame is read.                                          *)
LEMMA BegunIs2 ==
    ASSUME NEW S, NEW a, NEW b \in Seq(S), NEW c \in Seq(S), Begun(S, a, b)
    PROVE  Begun(S, a, b \o c)
  <1>1. Joins(S, b, c, b \o c)
    BY Joined
  <1>2. Len(a) \in Nat /\ Len(b) \in Nat /\ Len(c) \in Nat
    BY DEF Begun
  <1>. HIDE DEF Joins
  <1>3. \A i \in 1..Len(a) : i \in 1..Len(b)
    BY <1>2 DEF Begun
  <1>. QED
    BY <1>1, <1>2, <1>3 DEF Begun, Joins

LEMMA DeliveredNext ==
    ASSUME ReaderInv, read < Len(script), Accepted(script, read + 1), m_state # "connecting",
           IF script[read + 1].fin /\ IsData(script[read + 1]) /\ m_state = "open"
           THEN delivered' = Append(delivered, MessageUpTo(script, read + 1))
           ELSE delivered' = delivered
    PROVE  /\ Begun(MessagesOfFrames(script), delivered', MessagesIn(script, read + 1))
           /\ m_state = "open" /\ script[read + 1].op # "CLOSE" =>
                 /\ delivered' = MessagesIn(script, read + 1)
                 /\ \A i \in 1..(read + 1) : script[i].op # "CLOSE"
  <1>. DEFINE S == MessagesOfFrames(script)
              before == MessagesIn(script, read)
              more == MessagesAt(script, read + 1)
              message == MessageUpTo(script, read + 1)
              frame == script[read + 1]
  <1>1. script \in Seq(Frame) /\ read \in Nat /\ read + 1 \in 1..Len(script)
        /\ read + 1 \in 0..Len(script)
    BY StreamIs
  <1>2. /\ Begun(S, delivered, before) /\ (m_state = "open" => delivered = before)
        /\ m_state = "open" => \A i \in 1..read : script[i].op # "CLOSE"
        /\ \A i \in 1..read : Accepted(script, i)
    BY DEF ReaderInv, ReadWell
  <1>3. before \in Seq(S) /\ MessagesIn(script, read + 1) = before \o more
    BY <1>1, MessagesNext
  <1>4. more \in Seq(S) /\ <<message>> \in Seq(S) /\ message \in S
    <2>1. message \in S
      BY <1>1 DEF MessagesOfFrames
    <2>. QED
      BY <2>1 DEF MessagesAt
  <1>5. CASE m_state # "open"
    <2>1. Begun(S, delivered, before \o more)
      BY <1>2, <1>3, <1>4, BegunIs2
    <2>. QED
      BY <1>3, <1>5, <2>1
  <1>6. CASE m_state = "open" /\ frame.op = "CLOSE"
    <2>1. ~ IsData(frame)
      BY <1>6 DEF IsData, IsControl
    <2>2. delivered' = delivered
      BY <2>1
    <2>3. Begun(S, delivered, before \o more)
      BY <1>2, <1>3, <1>4, BegunIs2
    <2>. QED
      BY <1>3, <1>6, <2>2, <2>3
  <1>7. CASE m_state = "open" /\ frame.op # "CLOSE"
    <2>1. \A i \in 1..(read + 1) : i \in 1..read \/ i = read + 1
      BY <1>1
    <2>2. \A i \in 1..(read + 1) : script[i].op # "CLOSE" /\ Accepted(script, i)
      BY <1>2, <1>7, <2>1
    <2>3. read + 1 <= Readable(script)
      BY <1>1, <2>2, ReadableIs DEF Stops
    <2>4. delivered' = before \o more
      <3>1. CASE IsData(frame) /\ frame.fin
        <4>1. more = <<message>>
          BY <2>3, <3>1 DEF MessagesAt
        <4>2. delivered' = Append(before, message)
          BY <1>2, <1>7, <3>1
        <4>. HIDE DEF before, more, message, S
        <4>3. Append(before, message) = before \o <<message>>
          BY <1>3, <1>4, AppendIsConcat
        <4>. QED
          BY <4>1, <4>2, <4>3
      <3>2. CASE ~ (IsData(frame) /\ frame.fin)
        <4>1. more = <<>> /\ delivered' = before
          BY <1>2, <1>7, <3>2 DEF MessagesAt
        <4>. HIDE DEF before, more
        <4>. QED
          BY <1>3, <4>1, ConcatEmptySeq
      <3>. QED
        BY <3>1, <3>2
    <2>5. Begun(S, before \o more, before \o more)
      <3>1. before \o more \in Seq(S)
        BY <1>3, <1>4, ConcatProperties
      <3>. HIDE DEF before, more, S
      <3>. QED
        BY <3>1 DEF Begun
    <2>. QED
      BY <1>3, <2>2, <2>4, <2>5
  <1>. QED
    BY <1>5, <1>6, <1>7

LEMMA ControlIs ==
    ASSUME NEW op, NEW text, IsControl(op), process_control_frame(op, text),
           m_state \in {"open", "closing", "closed"}
    PROVE  /\ m_state' \in {m_state, "closing", "closed"}
           /\ op = "CLOSE" => m_state' # "open"
           /\ m_state = "closed" => m_state' = "closed"
  <1>. USE DEF stateVars
  <1>1. CASE m_state = "closed" \/ (op # "CLOSE" /\ m_state # "open")
    BY <1>1 DEF process_control_frame, Same
  <1>2. CASE m_state # "closed" /\ op = "CLOSE"
    <2>1. \/ SendCloseFrame(TRUE, TRUE)
          \/ m_state # "open" /\ Same
          \/ EndConnection
      BY <1>2 DEF process_control_frame
    <2>. QED
      BY <1>2, <2>1 DEF SendCloseFrame, Same, EndConnection
  <1>3. CASE m_state = "open" /\ op # "CLOSE"
    <2>1. pong \/ Same
      BY <1>3 DEF process_control_frame, IsControl
    <2>. QED
      BY <1>3, <2>1 DEF pong, Same
  <1>. QED
    BY <1>1, <1>2, <1>3

LEMMA ReaderBytes == ASSUME ConnectionInv, ProcessBytes PROVE ReaderInv'
  <1>1. /\ reading = "buffer" /\ read < Len(script) /\ UNCHANGED <<request, script, arrived>>
        /\ Refuses \/ Takes
    BY Processing DEF clientVars
  <1>2. m_state \in {"open", "closing", "closed"}
    BY <1>1 DEF ConnectionInv, IInv, QueueTyped, Opening
  <1>3. ReaderInv /\ request \in Requests /\ script \in Scripts /\ ReadWell(script, read)
        /\ script \in Seq(Frame)
    BY DEF ConnectionInv, ReaderInv, ReadWell
  <1>4. CASE Refuses
    <2>1. /\ UNCHANGED <<read, delivered>> /\ reading' = "none" /\ processor'.m_state \in States
          /\ m_state' \in {"closing", "closed"}
      BY <1>4, TerminateIs DEF Refuses, SendCloseFrame
    <2>. QED
      BY <1>1, <1>3, <2>1 DEF ReaderInv
  <1>5. CASE Takes
    <2>1. /\ reading' = "buffer" /\ ReadsAt(processor', script, read', Position')
          /\ \/ UNCHANGED <<read, delivered>> /\ Same
             \/ /\ read' = read + 1 /\ Accepted(script, read + 1)
                /\ IF script[read + 1].fin /\ IsData(script[read + 1]) /\ m_state = "open"
                   THEN delivered' = Append(delivered, MessageUpTo(script, read + 1))
                   ELSE delivered' = delivered
                /\ \/ IsData(script[read + 1]) /\ Same
                   \/ /\ ~ IsData(script[read + 1])
                      /\ \E text : process_control_frame(script[read + 1].op, text)
      BY <1>1, <1>5 DEF Takes, Position, RequestPieces
    <2>2. processor'.m_state \in States
      BY <2>1 DEF ReadsAt, States
    <2>3. CASE UNCHANGED <<read, delivered>> /\ Same
      BY <1>1, <1>2, <1>3, <2>1, <2>2, <2>3 DEF ReaderInv, Same, stateVars
    <2>4. CASE /\ read' = read + 1 /\ Accepted(script, read + 1)
               /\ IF script[read + 1].fin /\ IsData(script[read + 1]) /\ m_state = "open"
                  THEN delivered' = Append(delivered, MessageUpTo(script, read + 1))
                  ELSE delivered' = delivered
               /\ \/ IsData(script[read + 1]) /\ Same
                  \/ /\ ~ IsData(script[read + 1])
                     /\ \E text : process_control_frame(script[read + 1].op, text)
      <3>1. /\ m_state' \in {m_state, "closing", "closed"}
            /\ m_state' = "open" => m_state = "open" /\ script[read + 1].op # "CLOSE"
        <4>1. CASE IsData(script[read + 1]) /\ Same
          BY <1>2, <4>1 DEF Same, stateVars, IsData, IsControl
        <4>2. CASE /\ ~ IsData(script[read + 1])
                   /\ \E text : process_control_frame(script[read + 1].op, text)
          <5>1. IsControl(script[read + 1].op)
            BY <4>2 DEF IsData
          <5>. QED
            BY <1>2, <4>2, <5>1, ControlIs
        <4>. QED
          BY <2>4, <4>1, <4>2
      <3>2. ReadWell(script, read + 1)
        <4>1. read \in Nat
          BY <1>3, StreamIs
        <4>. QED
          BY <1>1, <1>3, <2>4, <4>1, ReadWellNext
      <3>3. /\ Begun(MessagesOfFrames(script), delivered', MessagesIn(script, read + 1))
            /\ m_state = "open" /\ script[read + 1].op # "CLOSE" =>
                  /\ delivered' = MessagesIn(script, read + 1)
                  /\ \A i \in 1..(read + 1) : script[i].op # "CLOSE"
        BY <1>1, <1>2, <1>3, <2>4, DeliveredNext
      <3>. QED
        BY <1>1, <1>2, <1>3, <2>1, <2>2, <2>4, <3>1, <3>2, <3>3 DEF ReaderInv
    <2>. QED
      BY <2>1, <2>3, <2>4
  <1>. QED
    BY <1>1, <1>4, <1>5

LEMMA ReaderStep == ASSUME ConnectionInv, [WebSocketNext]_webSocketVars PROVE ReaderInv'
  <1>1. CASE ProcessBytes
    BY <1>1, ReaderBytes
  <1>2. CASE m_state = "connecting" /\ m_state' = "open"
    BY <1>2, OpensIs, ReaderOpens
  <1>3. CASE ~ ProcessBytes /\ ~ (m_state = "connecting" /\ m_state' = "open")
    BY <1>3, QuietSteps, ReaderQuiet DEF ConnectionInv
  <1>. QED
    BY <1>1, <1>2, <1>3

--------------------------------------------------------------------------------
(* What a step does to the buffer.                                               *)
LEMMA BufferKept ==
    ASSUME ConnectionInv, UNCHANGED <<clientVars, arrived, m_buf>>,
           \/ reading' \in {reading, "none"}
           \/ reading = "buffer" /\ reading' = "frame" /\ m_buf = 0
           \/ /\ m_response = 101 /\ writes = <<"http">> /\ reading' = "buffer"
              /\ m_internal_state' # "USER_INIT",
           m_internal_state' = "USER_INIT" => m_internal_state = "USER_INIT",
           writes' = <<"http">> => writes = <<"http">> /\ m_response' = m_response
    PROVE  BufferInv'
  <1>1. /\ BufferInv /\ RequestPieces' = RequestPieces /\ Stream' = Stream
        /\ StreamLength' = StreamLength /\ arrived' = arrived /\ m_buf' = m_buf
    BY DEF ConnectionInv, clientVars, RequestPieces, Stream, StreamLength
  <1>2. m_response = 101 /\ writes = <<"http">> => RequestPieces + m_buf <= arrived
    <2>1. RequestPieces \in Nat /\ m_buf \in Nat
      BY <1>1, StreamIs DEF ConnectionInv, BufferInv
    <2>. QED
      BY <1>1, <2>1 DEF BufferInv
  <1>. QED
    BY <1>1, <1>2 DEF BufferInv

LEMMA HandshakeBuffer ==
    ASSUME ConnectionInv, NEW n \in 1..(StreamLength - arrived), handle_read_handshake(n)
    PROVE  BufferInv'
  <1>1. PICK head \in Nat : head = RequestPieces
    BY StreamIs DEF ConnectionInv
  <1>2. PICK all \in Nat : all = Len(Stream)
    BY StreamIs DEF ConnectionInv
  <1>3. PICK came \in Nat : came = arrived
    BY <1>1, <1>2 DEF ConnectionInv, BufferInv, StreamLength
  <1>4. /\ reading = "handshake" /\ m_buf = 0 /\ writes = <<>>
        /\ arrived' = came + n /\ n \in Nat /\ came + n <= head + all
        /\ RequestPieces' = head /\ Len(Stream)' = all /\ StreamLength' = head + all
    <2>1. reading = "handshake" /\ arrived' = arrived + n /\ UNCHANGED <<request, script>>
          /\ arrived + n <= StreamLength
      BY DEF handle_read_handshake, Arrives, clientVars
    <2>2. m_buf = 0 /\ writes = <<>>
      BY <2>1 DEF ConnectionInv, BufferInv, IInv, Opening
    <2>3. StreamLength = head + all
      BY <1>1, <1>2 DEF StreamLength
    <2>4. RequestPieces' = RequestPieces /\ Len(Stream)' = Len(Stream)
      BY <2>1 DEF RequestPieces, Stream
    <2>5. n \in Nat
      BY <1>3, <2>3
    <2>. QED
      BY <1>1, <1>2, <1>3, <2>1, <2>2, <2>3, <2>4, <2>5 DEF StreamLength
  <1>5. arrived' \in 0..(head + all)
    BY <1>4
  <1>6. CASE reading' \in {"handshake", "none"} /\ UNCHANGED <<m_buf, writes, m_internal_state>>
    <2>1. m_buf' = 0 /\ writes' # <<"http">> /\ m_internal_state' # "USER_INIT"
      BY <1>4, <1>6 DEF ConnectionInv, BufferInv
    <2>. QED
      BY <1>4, <1>5, <1>6, <2>1 DEF BufferInv
  <1>7. CASE /\ reading' = "none"
             /\ m_buf' = IF Handshake!consume(request, arrived') = "ready"
                         THEN arrived' - RequestPieces ELSE 0
             /\ m_response' = Handshake!Response(request, arrived')
             /\ Handshake!consume(request, arrived') # "more"
             /\ m_internal_state' = "PROCESS_HTTP_REQUEST"
    <2>1. CASE Handshake!consume(request, arrived') = "ready"
      <3>1. head <= came + n
        BY <1>1, <1>4, <2>1 DEF Handshake!consume, RequestPieces
      <3>2. m_buf' = (came + n) - head
        BY <1>1, <1>4, <1>7, <2>1
      <3>3. m_buf' \in 0..all /\ arrived' = head + m_buf'
        BY <1>4, <3>1, <3>2
      <3>. QED
        BY <1>4, <1>5, <1>7, <3>3 DEF BufferInv
    <2>2. CASE Handshake!consume(request, arrived') # "ready"
      <3>1. m_buf' = 0 /\ m_response' # 101
        <4>1. Handshake!consume(request, arrived') = "error"
          BY <1>7, <2>2 DEF Handshake!consume
        <4>. QED
          BY <1>7, <2>2, <4>1 DEF Handshake!Response
      <3>. QED
        BY <1>4, <1>5, <1>7, <3>1 DEF BufferInv
    <2>. QED
      BY <2>1, <2>2
  <1>. QED
    BY <1>4, <1>6, <1>7 DEF handle_read_handshake, write_http_response

LEMMA LessIsKept ==
    ASSUME NEW head \in Nat, NEW all \in Nat, NEW a \in Nat, NEW b \in 0..all, head + b <= a,
           NEW c \in 0..b
    PROVE  c \in 0..all /\ head + c <= a
  OBVIOUS

LEMMA BufferStepHolds == ASSUME ConnectionInv, [WebSocketNext]_webSocketVars PROVE BufferInv'
  <1>. USE DEF readVars, stateVars, queueVars
  <1>1. CASE ProcessBytes
    <2>1. /\ reading = "buffer" /\ UNCHANGED <<request, script, arrived>>
          /\ Refuses \/ Takes
      BY <1>1, Processing DEF clientVars
    <2>2. writes' # <<"http">>
      <3>1. writes # <<"http">>
        BY <2>1 DEF ConnectionInv, IInv, Opening
      <3>. QED
        BY <1>1, <3>1, ProcessBytesIs DEF ConnectionInv, SendsClose, SendsPong, Closes, Stays, Pushes,
                                          write_push
    <2>3. m_buf' \in 0..m_buf
      <3>1. m_buf \in Nat
        BY StreamIs DEF ConnectionInv, BufferInv
      <3>2. Refuses \/ Takes => m_buf' = 0 \/ m_buf' \in 0..m_buf
        BY DEF Refuses, Takes
      <3>. QED
        BY <2>1, <3>1, <3>2
    <2>4. /\ RequestPieces' = RequestPieces /\ Stream' = Stream /\ StreamLength' = StreamLength
          /\ reading' \in {"none", "buffer"}
      BY <2>1 DEF RequestPieces, Stream, StreamLength, Refuses, Takes
    <2>5. m_buf' \in 0..Len(Stream) /\ RequestPieces + m_buf' <= arrived
      <3>1. /\ m_buf \in 0..Len(Stream) /\ RequestPieces + m_buf <= arrived
            /\ arrived \in 0..StreamLength
        BY <2>1 DEF ConnectionInv, BufferInv
      <3>2. PICK head \in Nat, all \in Nat : /\ head = RequestPieces /\ all = Len(Stream)
                                            /\ StreamLength = head + all
        BY StreamIs DEF ConnectionInv
      <3>3. arrived \in Nat /\ m_buf \in 0..all /\ head + m_buf <= arrived
        BY <3>1, <3>2
      <3>4. m_buf' \in 0..all /\ head + m_buf' <= arrived
        BY <2>3, <3>3, LessIsKept
      <3>. QED
        BY <3>2, <3>4
    <2>6. m_internal_state' # "USER_INIT"
      <3>1. m_internal_state # "USER_INIT"
        BY <2>1 DEF ConnectionInv, BufferInv
      <3>2. \A op, text : IsControl(op) /\ process_control_frame(op, text) =>
                              m_internal_state' = m_internal_state
        BY DEF IsControl, process_control_frame, pong, Same, SendCloseFrame, EndConnection
      <3>3. m_internal_state' = m_internal_state
        <4>1. CASE Refuses
          BY <4>1, TerminateEnds DEF Refuses, SendCloseFrame, Ends
        <4>2. CASE Takes
          BY <3>2, <4>2 DEF Takes, Same, IsData
        <4>. QED
          BY <2>1, <4>1, <4>2
      <3>. QED
        BY <3>1, <3>3
    <2>. QED
      BY <2>1, <2>2, <2>4, <2>5, <2>6 DEF ConnectionInv, BufferInv
  <1>2. CASE \E n \in 1..(StreamLength - arrived) : handle_read_handshake(n)
    BY <1>2, HandshakeBuffer
  <1>3. CASE \E n \in 1..(StreamLength - arrived) : handle_read_frame(n)
    <2>1. PICK n \in 1..(StreamLength - arrived) : handle_read_frame(n)
      BY <1>3
    <2>2. /\ reading = "frame" /\ reading' = "buffer" /\ arrived' = arrived + n /\ m_buf' = n
          /\ UNCHANGED <<request, script, writes, m_internal_state>> /\ arrived + n <= StreamLength
      BY <2>1 DEF handle_read_frame, Arrives, clientVars
    <2>3. /\ RequestPieces' = RequestPieces /\ Stream' = Stream /\ StreamLength' = StreamLength
      BY <2>2 DEF RequestPieces, Stream, StreamLength
    <2>4. /\ m_buf = 0 /\ RequestPieces + m_buf <= arrived /\ writes # <<"http">>
          /\ arrived \in 0..StreamLength
      BY <2>2 DEF ConnectionInv, BufferInv, IInv, Opening
    <2>5. PICK head \in Nat, all \in Nat : /\ head = RequestPieces /\ all = Len(Stream)
                                          /\ StreamLength = head + all
      BY StreamIs DEF ConnectionInv
    <2>6. n \in Nat
      BY <2>4, <2>5
    <2>7. /\ arrived + n \in 0..(head + all) /\ n \in 0..all /\ head + n <= arrived + n
      BY <2>2, <2>4, <2>5, <2>6
    <2>8. m_internal_state' # "USER_INIT"
      BY <2>2 DEF ConnectionInv, BufferInv
    <2>. QED
      BY <2>2, <2>3, <2>4, <2>5, <2>7, <2>8 DEF BufferInv
  <1>4. CASE \E failed \in BOOLEAN : handle_write_http_response(failed)
    <2>1. /\ writes = <<"http">> /\ writes' = <<>> /\ reading = "none"
          /\ UNCHANGED <<clientVars, arrived, m_buf>>
          /\ \/ reading' = reading /\ m_internal_state' = m_internal_state
             \/ /\ m_response = 101 /\ reading' = "buffer"
                /\ m_internal_state' = "PROCESS_CONNECTION"
      BY <1>4, ResponseIs, TerminateEnds DEF ConnectionInv, Ends
    <2>2. writes' # <<"http">>
      BY <2>1
    <2>. QED
      BY <2>1, <2>2, BufferKept
  <1>5. CASE UNCHANGED webSocketVars
    BY <1>5, BufferKept DEF webSocketVars
  <1>6. CASE read_frame
    <2>1. /\ reading = "buffer" /\ reading' = "frame" /\ m_buf = 0
          /\ UNCHANGED <<clientVars, arrived, m_buf, writes, m_response, m_internal_state>>
      BY <1>6 DEF read_frame
    <2>. QED
      BY <2>1, BufferKept
  <1>7. CASE write_frame
    <2>1. /\ UNCHANGED <<clientVars, arrived, m_buf, reading, m_response, m_internal_state>>
          /\ writes' = Append(writes, "frames") \/ writes' = writes
      BY <1>7 DEF write_frame
    <2>2. writes' = <<"http">> => writes = <<"http">>
      BY <2>1 DEF ConnectionInv, IInv, QueueTyped
    <2>. QED
      BY <2>1, <2>2, BufferKept
  <1>8. CASE \E failed \in BOOLEAN : handle_write_frame(failed)
    <2>1. /\ UNCHANGED <<clientVars, arrived, m_buf, reading, m_internal_state>>
          /\ writes # <<>> /\ writes' = Tail(writes)
      BY <1>8, TerminateEnds DEF handle_write_frame, Ends
    <2>2. writes' = <<>>
      <3>1. writes \in {<<"http">>, <<"frames">>}
        BY <2>1 DEF ConnectionInv, IInv, QueueTyped
      <3>. QED
        BY <2>1, <3>1
    <2>3. writes' # <<"http">>
      BY <2>2
    <2>. QED
      BY <2>1, <2>3, BufferKept
  <1>9. CASE SendChecks \/ SendPushes \/ SendDispatches \/ \E i \in DOMAIN timers : Expire(i)
    <2>1. UNCHANGED <<clientVars, arrived, m_buf, reading, writes, m_response, m_internal_state>>
      BY <1>9 DEF SendChecks, SendPushes, SendDispatches, Expire
    <2>. QED
      BY <2>1, BufferKept
  <1>10. CASE (\E i \in DOMAIN timers : handle_timer(i)) \/ close
    <2>1. UNCHANGED <<clientVars, arrived, m_buf, reading, writes, m_response, m_internal_state>>
      BY <1>10 DEF handle_timer, EndConnection, close, SendCloseFrame, write_push
    <2>. QED
      BY <2>1, BufferKept
  <1>11. CASE ReadFails
    <2>1. /\ UNCHANGED <<clientVars, arrived, m_buf, writes, m_response, m_internal_state>>
          /\ reading' = "none"
      BY <1>11, TerminateEnds DEF ReadFails, Ends
    <2>. QED
      BY <2>1, BufferKept
  <1>12. CASE handle_accept
    <2>1. /\ UNCHANGED <<clientVars, arrived, m_buf, writes, m_response>>
          /\ \/ reading' = reading /\ m_internal_state' = m_internal_state
             \/ reading' = "handshake" /\ m_internal_state' = "READ_HTTP_REQUEST"
          /\ m_internal_state = "USER_INIT" /\ m_state = "connecting"
      BY <1>12, TerminateEnds DEF handle_accept, Ends
    <2>2. CASE reading' = reading /\ m_internal_state' = m_internal_state
      BY <2>1, <2>2, BufferKept
    <2>3. CASE reading' = "handshake" /\ m_internal_state' = "READ_HTTP_REQUEST"
      <3>1. /\ RequestPieces' = RequestPieces /\ Stream' = Stream /\ StreamLength' = StreamLength
        BY <2>1 DEF clientVars, RequestPieces, Stream, StreamLength
      <3>2. writes' = writes /\ writes # <<"http">>
        BY <2>1 DEF ConnectionInv, IInv, Opening
      <3>. QED
        BY <2>1, <2>3, <3>1, <3>2 DEF ConnectionInv, BufferInv
    <2>. QED
      BY <2>1, <2>2, <2>3
  <1>. QED
    BY <1>1, <1>2, <1>3, <1>4, <1>5, <1>6, <1>7, <1>8, <1>9, <1>10, <1>11, <1>12
    DEF WebSocketNext, Loop, Outside

--------------------------------------------------------------------------------
(* What a step does to what else is remembered.                                     *)
LEMMA ControlStatus ==
    ASSUME NEW op, NEW text, IsControl(op), process_control_frame(op, text),
           m_was_clean \in BOOLEAN
    PROVE  /\ UNCHANGED <<m_response, m_internal_state, m_current_msgs, m_write_flag>>
           /\ m_was_clean' \in BOOLEAN
  <1>. USE DEF stateVars, queueVars
  <1>1. CASE Same
    BY <1>1 DEF Same
  <1>2. CASE pong
    BY <1>2 DEF pong, write_push
  <1>3. CASE SendCloseFrame(TRUE, TRUE)
    <2>1. UNCHANGED <<m_response, m_internal_state, m_current_msgs, m_write_flag>>
      BY <1>3 DEF SendCloseFrame, write_push
    <2>2. m_was_clean' = (m_was_clean \/ TRUE)
      BY <1>3 DEF SendCloseFrame
    <2>3. m_was_clean' \in BOOLEAN
      BY <2>2, Zenon
    <2>. QED
      BY <2>1, <2>3
  <1>4. CASE EndConnection /\ m_was_clean' = TRUE /\ UNCHANGED queueVars
    BY <1>4 DEF EndConnection
  <1>. QED
    BY <1>1, <1>2, <1>3, <1>4 DEF process_control_frame, IsControl

LEMMA SendCloseStatus ==
    ASSUME SendCloseFrame(FALSE, TRUE) \/ SendCloseFrame(FALSE, FALSE), m_was_clean \in BOOLEAN
    PROVE  /\ UNCHANGED <<m_response, m_internal_state, m_current_msgs, m_write_flag>>
           /\ m_was_clean' \in BOOLEAN
  <1>1. m_was_clean' = (m_was_clean \/ FALSE)
    BY DEF SendCloseFrame
  <1>2. m_was_clean' \in BOOLEAN
    BY <1>1, Zenon
  <1>. QED
    BY <1>2 DEF SendCloseFrame, write_push

LEMMA TerminateStatus ==
    ASSUME Terminate PROVE UNCHANGED <<m_response, m_internal_state, m_was_clean>>
  BY DEF Terminate, EndConnection

LEMMA ResponseCodes == \A r, n : Handshake!Response(r, n) \in {101, 400, 426}
  BY DEF Handshake!Response, Handshake!initialize_processor, Handshake!process_handshake_request,
         Handshake!process_handshake

LEMMA StatusKept ==
    ASSUME StatusInv, UNCHANGED <<m_response, m_internal_state, sends, closes>>,
           m_was_clean' \in BOOLEAN, m_current_msgs' # <<>> => m_write_flag'
    PROVE  StatusInv'
  BY DEF StatusInv

LEMMA StatusStep == ASSUME ConnectionInv, [WebSocketNext]_webSocketVars PROVE StatusInv'
  <1>. USE DEF stateVars, queueVars, senderVars
  <1>1. StatusInv /\ m_was_clean \in BOOLEAN /\ (m_current_msgs # <<>> => m_write_flag)
    BY DEF ConnectionInv, StatusInv
  <1>2. CASE ProcessBytes
    <2>1. UNCHANGED <<senderVars, closes>> /\ (Refuses \/ Takes)
      BY <1>2, Processing
    <2>2. /\ UNCHANGED <<m_response, m_internal_state, m_current_msgs, m_write_flag>>
          /\ m_was_clean' \in BOOLEAN
      <3>1. CASE Refuses
        BY <1>1, <3>1, TerminateStatus, SendCloseStatus DEF Refuses
      <3>2. CASE Takes
        BY <1>1, <3>2, ControlStatus DEF Takes, Same, IsData
      <3>. QED
        BY <2>1, <3>1, <3>2
    <2>. QED
      BY <1>1, <2>1, <2>2, StatusKept
  <1>3. CASE \E n \in 1..(StreamLength - arrived) : handle_read_handshake(n)
    <2>1. PICK n \in 1..(StreamLength - arrived) : handle_read_handshake(n)
      BY <1>3
    <2>2. /\ UNCHANGED <<m_was_clean, m_current_msgs, m_write_flag, sends, closes>>
          /\ \/ UNCHANGED <<m_response, m_internal_state>>
             \/ /\ m_internal_state' = "PROCESS_HTTP_REQUEST"
                /\ m_response' = Handshake!Response(request, arrived')
      BY <2>1 DEF handle_read_handshake, write_http_response
    <2>3. m_response' \in {m_response, 101, 400, 426}
      BY <2>2, ResponseCodes
    <2>. QED
      BY <1>1, <2>2, <2>3 DEF StatusInv
  <1>4. CASE \E failed \in BOOLEAN : handle_write_http_response(failed)
    <2>1. /\ UNCHANGED <<m_response, m_was_clean, m_current_msgs, m_write_flag, sends, closes>>
          /\ m_internal_state' \in {m_internal_state, "PROCESS_CONNECTION"}
      BY <1>4, ResponseIs, TerminateStatus DEF ConnectionInv
    <2>. QED
      BY <1>1, <2>1 DEF StatusInv
  <1>5. CASE handle_accept
    <2>1. /\ UNCHANGED <<m_response, m_was_clean, m_current_msgs, m_write_flag, sends, closes>>
          /\ m_internal_state' \in {m_internal_state, "READ_HTTP_REQUEST"}
      BY <1>5, TerminateStatus DEF handle_accept
    <2>. QED
      BY <1>1, <2>1 DEF StatusInv
  <1>6. CASE close
    <2>1. /\ SendCloseFrame(FALSE, FALSE) /\ closes' = closes + 1 /\ closes < MaxCloses
          /\ UNCHANGED sends
      BY <1>6 DEF close
    <2>2. /\ UNCHANGED <<m_response, m_internal_state, m_current_msgs, m_write_flag>>
          /\ m_was_clean' \in BOOLEAN
      BY <1>1, <2>1, SendCloseStatus
    <2>3. closes' \in 0..MaxCloses
      BY <1>1, <2>1, ScriptsAssumption DEF StatusInv
    <2>. QED
      BY <1>1, <2>1, <2>2, <2>3 DEF StatusInv
  <1>7. CASE SendChecks
    <2>1. /\ UNCHANGED <<m_response, m_internal_state, m_current_msgs, m_write_flag, m_was_clean, closes>>
          /\ sends' = sends + 1 /\ sends < MaxSends
      BY <1>7 DEF SendChecks
    <2>2. sends' \in 0..MaxSends
      BY <1>1, <2>1, ScriptsAssumption DEF StatusInv
    <2>. QED
      BY <1>1, <2>1, <2>2 DEF StatusInv
  <1>8. CASE write_frame
    <2>1. /\ UNCHANGED <<m_response, m_internal_state, m_was_clean, sends, closes>>
          /\ m_write_flag' = TRUE \/ UNCHANGED <<m_current_msgs, m_write_flag>>
      BY <1>8 DEF write_frame
    <2>. QED
      BY <1>1, <2>1, StatusKept
  <1>9. CASE \E failed \in BOOLEAN : handle_write_frame(failed)
    <2>1. /\ UNCHANGED <<m_response, m_internal_state, m_was_clean, sends, closes>>
          /\ m_current_msgs' = <<>>
      BY <1>9, TerminateStatus DEF handle_write_frame
    <2>. QED
      BY <1>1, <2>1, StatusKept
  <1>10. CASE \/ SendPushes \/ SendDispatches \/ ReadFails \/ read_frame
              \/ \E i \in DOMAIN timers : Expire(i) \/ handle_timer(i)
    <2>1. UNCHANGED <<m_response, m_internal_state, m_was_clean, m_current_msgs, m_write_flag, sends,
                      closes>>
      BY <1>10, TerminateStatus
      DEF SendPushes, SendDispatches, ReadFails, read_frame, Expire, handle_timer, EndConnection
    <2>. QED
      BY <1>1, <2>1, StatusKept
  <1>11. CASE (\E n \in 1..(StreamLength - arrived) : handle_read_frame(n)) \/ UNCHANGED webSocketVars
    <2>1. UNCHANGED <<m_response, m_internal_state, m_was_clean, m_current_msgs, m_write_flag, sends,
                      closes>>
      BY <1>11 DEF handle_read_frame, webSocketVars
    <2>. QED
      BY <1>1, <2>1, StatusKept
  <1>. QED
    BY <1>2, <1>3, <1>4, <1>5, <1>6, <1>7, <1>8, <1>9, <1>10, <1>11
    DEF WebSocketNext, Loop, Outside

--------------------------------------------------------------------------------
(* What a step does to the timers.                                              *)
TimerStates == {"running", "expired", "off"}

LEMMA CancelledIs ==
    ASSUME NEW of \in Seq(TimerStates)
    PROVE  Cancelled(of) \in Seq(TimerStates) /\ Len(Cancelled(of)) = Len(of)
  <1>1. DOMAIN of = 1..Len(of) /\ Len(of) \in Nat /\ \A i \in 1..Len(of) : of[i] \in TimerStates
    OBVIOUS
  <1>. DEFINE new(i) == IF i = m_handshake_timer /\ of[i] = "running" THEN "off" ELSE of[i]
  <1>2. \A i \in 1..Len(of) : new(i) \in TimerStates
    BY <1>1 DEF TimerStates
  <1>3. Cancelled(of) = [i \in 1..Len(of) |-> new(i)]
    BY <1>1 DEF Cancelled
  <1>. HIDE DEF new
  <1>. QED
    BY <1>1, <1>2, <1>3

\* A timer is set, or none.
Sets(k) ==
    /\ timers' \in Seq(TimerStates) /\ Len(timers') = Len(timers) + k
    /\ m_handshake_timer' \in 0..Len(timers')

LEMMA TerminateTimers == ASSUME TimersInv, Terminate PROVE Sets(0)
  <1>1. timers \in Seq(TimerStates) /\ timers' = Cancelled(timers) /\ m_handshake_timer' = 0
    BY DEF TimersInv, TimerStates, Terminate, EndConnection
  <1>2. timers' \in Seq(TimerStates) /\ Len(timers') = Len(timers) /\ Len(timers) \in Nat
    BY <1>1, CancelledIs
  <1>. QED
    BY <1>1, <1>2 DEF Sets

LEMMA SendCloseTimers ==
    ASSUME TimersInv, NEW ack, NEW terminal, SendCloseFrame(ack, terminal) PROVE Sets(1)
  <1>1. /\ timers \in Seq(TimerStates) /\ timers' = Append(timers, "running")
        /\ m_handshake_timer' = Len(timers) + 1 /\ "running" \in TimerStates
    BY DEF TimersInv, TimerStates, SendCloseFrame, SetTimer
  <1>2. timers' \in Seq(TimerStates) /\ Len(timers') = Len(timers) + 1 /\ Len(timers) \in Nat
    BY <1>1, AppendProperties
  <1>. QED
    BY <1>1, <1>2 DEF Sets

LEMMA NoneSet == ASSUME TimersInv, UNCHANGED timerVars PROVE Sets(0)
  <1>1. timers' = timers /\ m_handshake_timer' = m_handshake_timer /\ timers \in Seq(TimerStates)
        /\ m_handshake_timer \in 0..Len(timers)
    BY DEF timerVars, TimersInv, TimerStates
  <1>2. Len(timers) \in Nat
    BY <1>1
  <1>. QED
    BY <1>1, <1>2 DEF Sets

LEMMA ControlTimers ==
    ASSUME TimersInv, NEW op, NEW text, IsControl(op), process_control_frame(op, text)
    PROVE  Sets(0) \/ (m_state # "closed" /\ Sets(1))
  <1>1. CASE UNCHANGED timerVars
    BY <1>1, NoneSet
  <1>2. CASE m_state # "closed" /\ SendCloseFrame(TRUE, TRUE)
    BY <1>2, SendCloseTimers
  <1>3. CASE timers' = Cancelled(timers) /\ m_handshake_timer' = 0
    <2>1. timers \in Seq(TimerStates)
      BY DEF TimersInv, TimerStates
    <2>2. timers' \in Seq(TimerStates) /\ Len(timers') = Len(timers) /\ Len(timers) \in Nat
      BY <1>3, <2>1, CancelledIs
    <2>. QED
      BY <1>3, <2>2 DEF Sets
  <1>. QED
    BY <1>1, <1>2, <1>3 DEF process_control_frame, IsControl, Same, pong, EndConnection

\* How the timers and their allowance move together.
LEMMA TimersMove ==
    ASSUME TimersInv, NEW k \in 0..1, Sets(k), TimersAllowed \in Nat,
           TimersAllowed + k <= TimersAllowed',
           m_state' \in {m_state, "closing", "closed", "open"},
           m_state' = "connecting" => k = 0 /\ m_state = "connecting",
           m_internal_state' = "USER_INIT" =>
               k = 0 /\ m_internal_state = "USER_INIT" /\ m_state' \in {m_state, "closed"},
           TimersAllowed' \in Nat
    PROVE  TimersInv'
  <1>1. PICK n \in Nat : n = Len(timers)
    BY DEF TimersInv
  <1>2. PICK m \in Nat : m = TimersAllowed
    OBVIOUS
  <1>3. PICK l \in Nat : l = TimersAllowed'
    OBVIOUS
  <1>4. n <= m /\ m + k <= l /\ Len(timers') = n + k
    BY <1>1, <1>2, <1>3 DEF TimersInv, Sets
  <1>5. k \in Nat /\ n + k <= l
    BY <1>4
  <1>6. /\ timers' \in Seq({"running", "expired", "off"}) /\ m_handshake_timer' \in 0..Len(timers')
        /\ Len(timers') <= TimersAllowed'
    BY <1>3, <1>4, <1>5 DEF Sets, TimerStates
  <1>7. m_internal_state' = "USER_INIT" => timers' = <<>> /\ m_state' \in {"connecting", "closed"}
    <2>. SUFFICES ASSUME m_internal_state' = "USER_INIT" PROVE timers' = <<>> /\ m_state' \in {"connecting", "closed"}
      OBVIOUS
    <2>1. timers = <<>> /\ m_state \in {"connecting", "closed"} /\ k = 0
      BY DEF TimersInv
    <2>2. n = 0
      BY <1>1, <2>1
    <2>3. Len(timers') = 0
      BY <1>4, <2>1, <2>2
    <2>. QED
      BY <1>6, <2>1, <2>3
  <1>8. m_state' = "connecting" => Len(timers') <= 2
    <2>. SUFFICES ASSUME m_state' = "connecting" PROVE Len(timers') <= 2
      OBVIOUS
    <2>1. k = 0 /\ n <= 2
      BY <1>1 DEF TimersInv
    <2>. QED
      BY <1>4, <2>1
  <1>. QED
    BY <1>6, <1>7, <1>8 DEF TimersInv

LEMMA AllowedIs ==
    ASSUME ConnectionInv
    PROVE  /\ closes \in Nat /\ read \in Nat
           /\ TimersAllowed = 2 + closes + read + (IF reading = "none" THEN 1 ELSE 0)
           /\ TimersAllowed \in Nat
  <1>1. closes \in Nat
    BY ScriptsAssumption DEF ConnectionInv, StatusInv
  <1>2. read \in Nat
    BY StreamIs DEF ConnectionInv
  <1>. QED
    BY <1>1, <1>2 DEF TimersAllowed

LEMMA Allowance ==
    ASSUME ConnectionInv, NEW k \in 0..1, NEW c \in Nat, NEW r \in Nat, closes' = closes + c, read' = read + r,
           reading' = "none" \/ reading # "none",
           k <= c + r \/ (reading # "none" /\ reading' = "none")
    PROVE  /\ TimersAllowed \in Nat /\ TimersAllowed' \in Nat
           /\ TimersAllowed + k <= TimersAllowed'
  <1>1. PICK x \in Nat : x = closes
    BY AllowedIs
  <1>2. PICK y \in Nat : y = read
    BY AllowedIs
  <1>. DEFINE before == IF reading = "none" THEN 1 ELSE 0
              after == IF reading' = "none" THEN 1 ELSE 0
  <1>3. TimersAllowed = 2 + x + y + before /\ TimersAllowed' = 2 + (x + c) + (y + r) + after
    BY <1>1, <1>2 DEF TimersAllowed
  <1>4. /\ before \in Nat /\ after \in Nat /\ before <= after
        /\ k <= c + r \/ (before = 0 /\ after = 1)
    OBVIOUS
  <1>. HIDE DEF before, after
  <1>. QED
    BY <1>3, <1>4

\* The connection is ended, or goes on, and no timer is set.
LEMMA NoTimer ==
    ASSUME ConnectionInv, Sets(0), UNCHANGED <<closes, read, m_internal_state>>,
           m_state' \in {m_state, "closed"}, reading' = "none" \/ reading # "none"
    PROVE  TimersInv'
  <1>1. PICK k \in 0..1 : k = 0
    OBVIOUS
  <1>2. PICK c \in Nat : c = 0
    OBVIOUS
  <1>3. closes' = closes + c /\ read' = read + c /\ k <= c + c
    BY <1>1, <1>2, AllowedIs
  <1>4. TimersAllowed \in Nat /\ TimersAllowed' \in Nat /\ TimersAllowed + k <= TimersAllowed'
    BY <1>3, Allowance
  <1>5. m_state' \in {m_state, "closing", "closed", "open"} /\ TimersInv /\ Sets(k)
    BY <1>1 DEF ConnectionInv
  <1>. QED
    BY <1>1, <1>4, <1>5, TimersMove

LEMMA AcceptTimers == ASSUME ConnectionInv, handle_accept PROVE TimersInv'
  <1>1. m_internal_state = "USER_INIT" /\ m_state = "connecting" /\ UNCHANGED <<closes, read>>
    BY DEF handle_accept
  <1>2. reading = "none" /\ timers = <<>>
    BY <1>1 DEF ConnectionInv, BufferInv, TimersInv
  <1>3. CASE Terminate /\ UNCHANGED reading
    <2>1. Sets(0) /\ m_state' = "closed" /\ m_internal_state' = m_internal_state
      BY <1>3, TerminateTimers, TerminateEnds DEF ConnectionInv, Ends
    <2>. QED
      BY <1>1, <1>2, <1>3, <2>1, NoTimer
  <1>4. CASE /\ m_internal_state' = "READ_HTTP_REQUEST" /\ SetTimer(post_init)
             /\ reading' = "handshake" /\ UNCHANGED m_state
    <2>1. post_init = <<"off">>
      BY <1>2 DEF post_init
    <2>2. /\ timers' = Append(post_init, "running") /\ m_handshake_timer' = Len(post_init) + 1
      BY <1>4 DEF SetTimer
    <2>3. Len(timers') = 2 /\ timers' \in Seq({"running", "expired", "off"})
          /\ m_handshake_timer' = 2
      <3>1. post_init \in Seq(TimerStates) /\ Len(post_init) = 1 /\ "running" \in TimerStates
        BY <2>1 DEF TimerStates
      <3>. HIDE DEF post_init
      <3>2. timers' \in Seq(TimerStates) /\ Len(timers') = Len(post_init) + 1
        BY <2>2, <3>1, AppendProperties
      <3>. QED
        BY <2>2, <3>1, <3>2 DEF TimerStates
    <2>4. 2 <= TimersAllowed'
      <3>1. closes \in Nat /\ read \in Nat
        BY AllowedIs
      <3>2. TimersAllowed' = 2 + closes + read + 0
        BY <1>1, <1>4 DEF TimersAllowed
      <3>. QED
        BY <3>1, <3>2
    <2>. QED
      BY <1>1, <1>4, <2>2, <2>3, <2>4 DEF TimersInv
  <1>. QED
    BY <1>3, <1>4 DEF handle_accept

LEMMA ResponseTimers ==
    ASSUME ConnectionInv, NEW failed \in BOOLEAN, handle_write_http_response(failed)
    PROVE  TimersInv'
  <1>1. /\ UNCHANGED <<closes, read>> /\ reading = "none"
        /\ \/ Terminate /\ reading' = reading
           \/ m_state = "closed" /\ UNCHANGED <<timerVars, stateVars, reading>>
           \/ /\ m_state = "connecting" /\ CancelTimer
              /\ m_internal_state' = "PROCESS_CONNECTION" /\ m_state' = "open"
              /\ reading' = "buffer"
    BY ResponseIs DEF ConnectionInv
  <1>2. CASE Terminate /\ reading' = reading
    <2>1. Sets(0) /\ m_state' = "closed" /\ m_internal_state' = m_internal_state
      BY <1>2, TerminateTimers, TerminateEnds DEF ConnectionInv, Ends
    <2>. QED
      BY <1>1, <1>2, <2>1, NoTimer
  <1>3. CASE m_state = "closed" /\ UNCHANGED <<timerVars, stateVars, reading>>
    <2>1. Sets(0) /\ m_state' = m_state /\ m_internal_state' = m_internal_state
      BY <1>3, NoneSet DEF ConnectionInv, stateVars
    <2>. QED
      BY <1>1, <1>3, <2>1, NoTimer
  <1>4. CASE /\ m_state = "connecting" /\ CancelTimer
             /\ m_internal_state' = "PROCESS_CONNECTION" /\ m_state' = "open"
             /\ reading' = "buffer"
    <2>1. timers \in Seq(TimerStates) /\ Len(timers) <= 2
      BY <1>4 DEF ConnectionInv, TimersInv, TimerStates
    <2>2. /\ timers' \in Seq(TimerStates) /\ Len(timers') = Len(timers) /\ m_handshake_timer' = 0
          /\ Len(timers) \in Nat
      BY <1>4, <2>1, CancelledIs DEF CancelTimer
    <2>3. PICK n \in Nat : n = Len(timers) /\ n <= 2 /\ Len(timers') = n
      BY <2>1, <2>2
    <2>4. n <= TimersAllowed'
      <3>1. closes \in Nat /\ read \in Nat
        BY AllowedIs
      <3>2. TimersAllowed' = 2 + closes + read + 0
        BY <1>1, <1>4 DEF TimersAllowed
      <3>. QED
        BY <2>3, <3>1, <3>2
    <2>. QED
      BY <1>4, <2>2, <2>3, <2>4 DEF TimersInv, TimerStates
  <1>. QED
    BY <1>1, <1>2, <1>3, <1>4

LEMMA BytesTimers == ASSUME ConnectionInv, ProcessBytes PROVE TimersInv'
  <1>1. /\ reading = "buffer" /\ read < Len(script) /\ closes' = closes
        /\ Refuses \/ Takes
    BY Processing
  <1>2. /\ m_state \in {"open", "closing", "closed"} /\ m_internal_state # "USER_INIT"
        /\ TimersInv /\ closes \in Nat /\ read \in Nat
    BY <1>1, AllowedIs DEF ConnectionInv, IInv, QueueTyped, Opening, BufferInv
  <1>3. /\ m_state' \in {"open", "closing", "closed"} /\ m_internal_state' # "USER_INIT"
    <2>1. CASE Refuses
      BY <1>2, <2>1, TerminateEnds DEF Refuses, SendCloseFrame, Ends
    <2>2. CASE Takes
      <3>1. CASE Same
        BY <1>2, <3>1 DEF Same, stateVars
      <3>2. ASSUME NEW op, NEW text, IsControl(op), process_control_frame(op, text)
            PROVE  /\ m_state' \in {"open", "closing", "closed"} /\ m_internal_state' # "USER_INIT"
        <4>1. m_state' \in {m_state, "closing", "closed"}
          BY <1>2, <3>2, ControlIs
        <4>2. m_internal_state' = m_internal_state
          BY <3>2, ControlStatus DEF ConnectionInv, StatusInv
        <4>. QED
          BY <1>2, <4>1, <4>2
      <3>. QED
        BY <2>2, <3>1, <3>2 DEF Takes, IsData
    <2>. QED
      BY <1>1, <2>1, <2>2
  <1>4. \E k \in 0..1, r \in Nat : /\ Sets(k) /\ read' = read + r
                                   /\ k <= r \/ reading' = "none"
    <2>1. CASE Refuses
      <3>1. Sets(0) \/ Sets(1)
        BY <1>2, <2>1, TerminateTimers, SendCloseTimers DEF Refuses
      <3>2. reading' = "none" /\ read' = read + 0
        BY <1>2, <2>1 DEF Refuses
      <3>. QED
        BY <3>1, <3>2
    <2>2. CASE Takes
      <3>1. CASE UNCHANGED read /\ Same
        <4>1. Sets(0)
          BY <1>2, <3>1, NoneSet DEF Same
        <4>2. read' = read + 0 /\ 0 <= 0
          BY <1>2, <3>1
        <4>. QED
          BY <4>1, <4>2
      <3>2. CASE read' = read + 1
        <4>1. Sets(0) \/ Sets(1)
          BY <1>2, <2>2, <3>2, NoneSet, ControlTimers DEF Takes, Same, IsData
        <4>2. 0 <= 1 /\ 1 <= 1
          OBVIOUS
        <4>. QED
          BY <3>2, <4>1, <4>2
      <3>. QED
        BY <2>2, <3>1, <3>2 DEF Takes
    <2>. QED
      BY <1>1, <2>1, <2>2
  <1>5. PICK k \in 0..1, r \in Nat : Sets(k) /\ read' = read + r /\ (k <= r \/ reading' = "none")
    BY <1>4
  <1>6. PICK c \in Nat : c = 0
    OBVIOUS
  <1>7. closes' = closes + c /\ (k <= c + r \/ (reading # "none" /\ reading' = "none"))
    BY <1>1, <1>2, <1>5, <1>6
  <1>8. TimersAllowed \in Nat /\ TimersAllowed' \in Nat /\ TimersAllowed + k <= TimersAllowed'
    BY <1>1, <1>5, <1>7, Allowance
  <1>. QED
    BY <1>2, <1>3, <1>5, <1>8, TimersMove

LEMMA CloseTimers == ASSUME ConnectionInv, close PROVE TimersInv'
  <1>1. /\ m_state = "open" /\ m_state' = "closing" /\ closes' = closes + 1 /\ read' = read
        /\ reading' = reading /\ reading # "buffer" /\ UNCHANGED m_internal_state
        /\ SendCloseFrame(FALSE, FALSE)
    BY DEF close, Free, readVars, SendCloseFrame
  <1>2. TimersInv /\ m_internal_state # "USER_INIT" /\ read \in Nat
    BY <1>1, AllowedIs DEF ConnectionInv, TimersInv
  <1>3. PICK k \in 0..1 : k = 1
    OBVIOUS
  <1>4. PICK c \in Nat, r \in Nat : c = 1 /\ r = 0
    OBVIOUS
  <1>5. Sets(k)
    BY <1>1, <1>2, <1>3, SendCloseTimers
  <1>6. closes' = closes + c /\ read' = read + r /\ k <= c + r
    BY <1>1, <1>2, <1>3, <1>4
  <1>7. TimersAllowed + k <= TimersAllowed' /\ TimersAllowed \in Nat /\ TimersAllowed' \in Nat
    BY <1>1, <1>6, Allowance
  <1>. QED
    BY <1>1, <1>2, <1>5, <1>7, TimersMove

LEMMA TimersStep == ASSUME ConnectionInv, [WebSocketNext]_webSocketVars PROVE TimersInv'
  <1>. USE DEF stateVars, readVars
  <1>1. TimersInv /\ timers \in Seq(TimerStates)
    BY DEF ConnectionInv, TimersInv, TimerStates
  <1>2. CASE \/ UNCHANGED webSocketVars
             \/ write_frame \/ read_frame \/ SendChecks \/ SendPushes \/ SendDispatches
             \/ \E n \in 1..(StreamLength - arrived) : handle_read_handshake(n)
                                                       /\ m_internal_state' = m_internal_state
             \/ \E n \in 1..(StreamLength - arrived) : handle_read_frame(n)
    <2>1. /\ UNCHANGED <<timerVars, closes, read, m_internal_state, m_state>>
          /\ reading' = reading \/ reading # "none"
      BY <1>2 DEF webSocketVars, write_frame, read_frame, SendChecks, SendPushes, SendDispatches,
                  handle_read_handshake, handle_read_frame
    <2>. QED
      BY <1>1, <2>1, NoneSet, NoTimer
  <1>3. CASE \E n \in 1..(StreamLength - arrived) : handle_read_handshake(n)
                                                    /\ m_internal_state' # m_internal_state
    <2>1. /\ UNCHANGED <<timerVars, closes, read, m_state>> /\ reading = "handshake"
          /\ reading' = "none" /\ m_internal_state' = "PROCESS_HTTP_REQUEST"
      BY <1>3 DEF handle_read_handshake, write_http_response
    <2>2. Sets(0) /\ m_internal_state # "USER_INIT"
      BY <1>1, <2>1, NoneSet DEF ConnectionInv, BufferInv
    <2>. QED
      <3>1. PICK k \in 0..1 : k = 0
        OBVIOUS
      <3>2. PICK c \in Nat : c = 0
        OBVIOUS
      <3>3. closes' = closes + c /\ read' = read + c /\ k <= c + c
        BY <2>1, <3>1, <3>2, AllowedIs
      <3>4. TimersAllowed \in Nat /\ TimersAllowed' \in Nat /\ TimersAllowed + k <= TimersAllowed'
        BY <2>1, <3>3, Allowance
      <3>5. m_state' \in {m_state, "closing", "closed", "open"} /\ Sets(k)
        BY <2>1, <2>2, <3>1
      <3>. QED
        BY <1>1, <2>1, <3>1, <3>4, <3>5, TimersMove
  <1>4. CASE ReadFails \/ \E failed \in BOOLEAN : handle_write_frame(failed)
    <2>1. /\ UNCHANGED <<closes, read>> /\ reading' \in {reading, "none"}
          /\ Terminate \/ UNCHANGED <<timerVars, m_state, m_internal_state>>
      BY <1>4 DEF ReadFails, handle_write_frame
    <2>2. Sets(0) /\ m_state' \in {m_state, "closed"} /\ UNCHANGED m_internal_state
      BY <1>1, <2>1, NoneSet, TerminateTimers, TerminateEnds DEF Ends
    <2>. QED
      BY <2>1, <2>2, NoTimer
  <1>5. CASE \E i \in DOMAIN timers : Expire(i) \/ handle_timer(i)
    <2>1. PICK i \in DOMAIN timers : Expire(i) \/ handle_timer(i)
      BY <1>5
    <2>. DEFINE off == [timers EXCEPT ![i] = "off"]
                expired == [timers EXCEPT ![i] = "expired"]
    <2>2. /\ off \in Seq(TimerStates) /\ Len(off) = Len(timers) /\ Len(timers) \in Nat
          /\ expired \in Seq(TimerStates) /\ Len(expired) = Len(timers)
      <3>1. "off" \in TimerStates /\ "expired" \in TimerStates /\ i \in 1..Len(timers)
        BY <1>1 DEF TimerStates
      <3>. QED
        BY <1>1, <3>1, ExceptSeq
    <2>3. Cancelled(off) \in Seq(TimerStates) /\ Len(Cancelled(off)) = Len(timers)
      <3>. HIDE DEF off
      <3>. QED
        BY <2>2, CancelledIs
    <2>4. /\ UNCHANGED <<closes, read, reading, m_internal_state>>
          /\ m_state' \in {m_state, "closed"}
          /\ \/ timers' = expired /\ m_handshake_timer' = m_handshake_timer
             \/ timers' = Cancelled(off) /\ m_handshake_timer' = 0
      BY <2>1 DEF Expire, handle_timer, EndConnection
    <2>. HIDE DEF off, expired
    <2>5. Sets(0)
      BY <1>1, <2>2, <2>3, <2>4 DEF Sets, TimersInv
    <2>. QED
      BY <2>4, <2>5, NoTimer
  <1>. QED
    BY <1>2, <1>3, <1>4, <1>5, AcceptTimers, ResponseTimers, BytesTimers, CloseTimers
    DEF WebSocketNext, Loop, Outside

--------------------------------------------------------------------------------
(* The invariant holds.                                                         *)
LEMMA ConnectionInitially == WebSocketInit => ConnectionInv
  <1>. SUFFICES ASSUME WebSocketInit PROVE ConnectionInv
    OBVIOUS
  <1>. USE DEF WebSocketInit
  <1>1. script \in Seq(Frame) /\ request \in Requests /\ script \in Scripts
    BY ScriptsAssumption
  <1>2. ReaderInv
    <2>1. ReadWell(script, 0)
      <3>1. ~ Open(script, 0) /\ 0 \in 0..Len(script)
        BY <1>1 DEF Open
      <3>. QED
        BY <1>1, <3>1 DEF ReadWell
    <2>2. MessagesIn(script, 0) = <<>>
      BY <1>1, MessagesNext
    <2>3. Begun(MessagesOfFrames(script), <<>>, <<>>)
      BY DEF Begun
    <2>4. NewProcessor.m_state \in States
      BY DEF NewProcessor, States
    <2>. HIDE DEF NewProcessor
    <2>. QED
      BY <1>1, <2>1, <2>2, <2>3, <2>4 DEF ReaderInv
  <1>3. BufferInv
    <2>1. Len(Stream) \in Nat /\ StreamLength \in Nat
      BY <1>2, StreamIs
    <2>2. writes # <<"http">>
      OBVIOUS
    <2>. QED
      BY <2>1, <2>2 DEF BufferInv
  <1>4. StatusInv
    <2>1. m_was_clean \in BOOLEAN
      BY Zenon
    <2>2. ~ (m_current_msgs # <<>>)
      OBVIOUS
    <2>3. m_response = 0 /\ m_internal_state = "USER_INIT" /\ sends = 0 /\ closes = 0
      OBVIOUS
    <2>. QED
      BY <2>1, <2>2, <2>3, ScriptsAssumption DEF StatusInv
  <1>5. TimersInv
    <2>1. Len(<<>>) = 0 /\ <<>> \in Seq({"running", "expired", "off"}) /\ TimersAllowed = 3
      BY DEF TimersAllowed
    <2>. QED
      BY <2>1 DEF TimersInv
  <1>6. IInv
    BY Initially
  <1>. QED
    BY <1>2, <1>3, <1>4, <1>5, <1>6 DEF ConnectionInv

LEMMA ConnectionStep == ASSUME ConnectionInv, [WebSocketNext]_webSocketVars PROVE ConnectionInv'
  <1>1. IInv'
    BY StepHolds DEF ConnectionInv
  <1>. QED
    BY <1>1, ReaderStep, BufferStepHolds, StatusStep, TimersStep DEF ConnectionInv

LEMMA ConnectionInvariant == WebSocketSpec => []ConnectionInv
  <1>1. ConnectionInv /\ [WebSocketNext]_webSocketVars => ConnectionInv'
    BY ConnectionStep
  <1>. QED
    BY ConnectionInitially, <1>1, PTL DEF WebSocketSpec

--------------------------------------------------------------------------------
(* The connection is well formed in every part, its timers are never more than the       *)
(* handshakes set, and it writes one thing at a time, however reads, writes, timers and   *)
(* the senders' threads interleave (impl/connection_impl.hpp).                       *)
THEOREM ConnectionIsWellFormed == WebSocketSpec => []WebSocketInv
  <1>1. ConnectionInv => WebSocketInv
    <2>. SUFFICES ASSUME ConnectionInv PROVE WebSocketInv
      OBVIOUS
    <2>1. OneWriteAtATime
      <3>1. Len(<<>>) <= 1 /\ Len(<<"http">>) <= 1 /\ Len(<<"frames">>) <= 1
        OBVIOUS
      <3>. QED
        BY <3>1 DEF ConnectionInv, IInv, QueueTyped, OneWriteAtATime
    <2>2. /\ m_state \in {"connecting", "open", "closing", "closed"}
          /\ m_internal_state \in {"USER_INIT", "READ_HTTP_REQUEST", "PROCESS_HTTP_REQUEST",
                                   "PROCESS_CONNECTION"}
          /\ m_response \in {0, 101, 400, 426}
          /\ arrived \in 0..StreamLength /\ m_buf \in 0..Len(Stream)
          /\ reading \in {"none", "handshake", "frame", "buffer"}
          /\ processor.m_state \in {"HEADER_BASIC", "HEADER_EXTENDED", "APPLICATION"}
          /\ m_was_clean \in BOOLEAN /\ m_write_flag \in BOOLEAN
          /\ dispatched \in Nat /\ sender \in {"idle", "checked", "pushed"}
          /\ sends \in 0..MaxSends /\ closes \in 0..MaxCloses
      BY DEF ConnectionInv, IInv, QueueTyped, BufferInv, StatusInv, ReaderInv, States
    <2>3. read \in 0..Len(script)
      BY StreamIs DEF ConnectionInv
    <2>4. timers \in Seq({"running", "expired", "off"}) /\ m_handshake_timer \in 0..Len(timers)
          /\ Len(timers) <= TimersSet
      <3>1. PICK n \in Nat : n = Len(timers)
        BY DEF ConnectionInv, TimersInv
      <3>2. PICK frames \in Nat : frames = Len(script)
        BY StreamIs DEF ConnectionInv
      <3>. DEFINE slack == IF reading = "none" THEN 1 ELSE 0
      <3>3. slack \in 0..1 /\ n <= 2 + closes + read + slack
        BY <3>1 DEF ConnectionInv, TimersInv, TimersAllowed
      <3>. HIDE DEF slack
      <3>4. n <= 3 + MaxCloses + frames
        <4>1. closes \in Nat /\ closes <= MaxCloses /\ MaxCloses \in Nat
          BY <2>2, ScriptsAssumption
        <4>2. read \in Nat /\ read <= frames
          BY <2>3, <3>2
        <4>. QED
          BY <3>3, <4>1, <4>2
      <3>. QED
        BY <3>1, <3>2, <3>4 DEF TimersSet, ConnectionInv, TimersInv
    <2>5. \A queue \in {m_send_queue, m_current_msgs, wire} :
             queue \in Seq([op : {"DATA", "PONG", "CLOSE"}, terminal : BOOLEAN])
      BY DEF ConnectionInv, IInv, QueueTyped, Frames
    <2>6. writes \in Seq({"http", "frames"})
      <3>1. /\ <<>> \in Seq({"http", "frames"}) /\ <<"http">> \in Seq({"http", "frames"})
            /\ <<"frames">> \in Seq({"http", "frames"})
        OBVIOUS
      <3>. QED
        BY <3>1 DEF ConnectionInv, IInv, QueueTyped
    <2>7. m_state \in {"open", "closing"} => (m_write_flag <=> m_current_msgs # <<>>)
      <3>1. m_state \in {"open", "closing"} /\ m_write_flag => m_current_msgs # <<>>
        BY DEF ConnectionInv, IInv, FlagHeld
      <3>2. m_current_msgs # <<>> => m_write_flag
        BY DEF ConnectionInv, StatusInv
      <3>. QED
        BY <3>1, <3>2
    <2>. QED
      BY <2>1, <2>2, <2>3, <2>4, <2>5, <2>6, <2>7 DEF WebSocketInv, WebSocketTypeOK
  <1>. QED
    BY <1>1, ConnectionInvariant, PTL

LEMMA ReadableAre ==
    ASSUME ReaderInv
    PROVE  /\ MessagesOf[script][read] = MessagesIn(script, read)
           /\ AllMessages = MessagesIn(script, Len(script))
           /\ ReadableOf[script] = Readable(script)
  <1>1. script \in Scripts /\ read \in 0..Len(script) /\ Len(script) \in 0..Len(script)
    BY StreamIs DEF ReaderInv
  <1>2. MessagesOf[script] = [n \in 0..Len(script) |-> MessagesIn(script, n)]
    BY <1>1 DEF MessagesOf
  <1>. QED
    BY <1>1, <1>2 DEF AllMessages, ReadableOf

LEMMA BegunIsPrefix == ASSUME NEW S, NEW a, NEW b, Begun(S, a, b) PROVE IsPrefix(a, b)
  <1>1. SubSeq(a, 1, Len(a)) = SubSeq(b, 1, Len(a))
    BY DEF Begun
  <1>. QED
    BY <1>1 DEF IsPrefix, Begun

(* Every message of the frames read so far is delivered, whole and in order, however the   *)
(* bytes were cut into reads and whatever control frames stand between its frames; and      *)
(* nothing else is (handle_read_frame with hybi13::consume).  The messages are those of     *)
(* Accepted frames, so that a text which a continuation leaves inside a character is        *)
(* among them: hybi13 lets it pass, and TextsAreWhole says that it should not.              *)
THEOREM EveryMessageIsDelivered == WebSocketSpec => []DeliversEveryMessage
  <1>1. ConnectionInv => DeliversEveryMessage
    <2>. SUFFICES ASSUME ConnectionInv PROVE DeliversEveryMessage
      OBVIOUS
    <2>1. /\ Begun(MessagesOfFrames(script), delivered, MessagesIn(script, read))
          /\ m_state = "open" => delivered = MessagesIn(script, read)
          /\ ReadWell(script, read)
          /\ m_state = "open" => \A i \in 1..read : script[i].op # "CLOSE"
      BY DEF ConnectionInv, ReaderInv
    <2>2. MessagesOf[script][read] = MessagesIn(script, read) /\ ReadableOf[script] = Readable(script)
      BY ReadableAre DEF ConnectionInv
    <2>3. IsPrefix(delivered, MessagesIn(script, read))
      BY <2>1, BegunIsPrefix
    <2>4. ASSUME m_state = "open" PROVE read <= Readable(script)
      <3>1. script \in Seq(Frame) /\ read \in 0..Len(script) /\ Readable(script) \in 0..Len(script)
        BY <2>1, ReadableIs DEF ReadWell
      <3>2. CASE read = 0
        BY <3>1, <3>2
      <3>3. CASE read # 0
        <4>1. read \in 1..Len(script)
          BY <3>1, <3>3
        <4>2. \A i \in 1..read : ~ Stops(script, i)
          BY <2>1, <2>4 DEF ReadWell, Stops
        <4>. QED
          BY <3>1, <4>1, <4>2, ReadableIs
      <3>. QED
        BY <3>2, <3>3
    <2>. QED
      BY <2>1, <2>2, <2>3, <2>4 DEF DeliversEveryMessage
  <1>. QED
    BY <1>1, ConnectionInvariant, PTL

LEMMA OnlyBytesStop ==
    ASSUME ConnectionInv, [WebSocketNext]_webSocketVars, reading = "buffer", reading' = "none"
    PROVE  ProcessBytes
  <1>. USE DEF readVars
  <1>1. ~ UNCHANGED webSocketVars
    BY DEF webSocketVars
  <1>2. ~ (write_frame \/ SendChecks \/ SendPushes \/ SendDispatches \/ read_frame \/ close
             \/ ReadFails
             \/ (\E i \in DOMAIN timers : Expire(i) \/ handle_timer(i))
             \/ (\E n \in 1..(StreamLength - arrived) : handle_read_handshake(n) \/ handle_read_frame(n)))
    BY DEF write_frame, Free, SendChecks, SendPushes, SendDispatches, read_frame, close, ReadFails,
           Expire, handle_timer, handle_read_handshake, handle_read_frame
  <1>3. ~ (\E failed \in BOOLEAN : handle_write_frame(failed) \/ handle_write_http_response(failed))
    BY DEF handle_write_frame, handle_write_http_response, Free
  <1>4. ~ handle_accept
    BY DEF handle_accept
  <1>. QED
    BY <1>1, <1>2, <1>3, <1>4 DEF WebSocketNext, Loop, Outside

(* Reading never stops at a frame that may follow those before it, however they were cut     *)
(* (validate_incoming_basic_header and the other checks of consume).                      *)
THEOREM OnlyTheMalformedIsRefused == WebSocketSpec => RefusesOnlyTheMalformed
  <1>1. ConnectionInv /\ [WebSocketNext]_webSocketVars =>
            [reading = "buffer" /\ reading' = "none" => read >= ReadableOf[script]]_webSocketVars
    <2>. SUFFICES ASSUME ConnectionInv, [WebSocketNext]_webSocketVars, reading = "buffer",
                         reading' = "none"
                  PROVE  read >= ReadableOf[script]
      OBVIOUS
    <2>1. ProcessBytes
      BY OnlyBytesStop
    <2>2. read < Len(script) /\ (Refuses \/ Takes)
      BY <2>1, Processing
    <2>3. ~ Accepted(script, read + 1)
      BY <2>2 DEF Refuses, Takes
    <2>4. script \in Seq(Frame) /\ read \in Nat /\ read + 1 \in 1..Len(script)
      BY <2>2, StreamIs DEF ConnectionInv
    <2>5. Stops(script, read + 1)
      BY <2>3 DEF Stops
    <2>6. Readable(script) \in 0..Len(script) /\ Readable(script) < read + 1
      BY <2>4, <2>5, ReadableIs
    <2>7. ReadableOf[script] = Readable(script)
      BY ReadableAre DEF ConnectionInv
    <2>. QED
      BY <2>4, <2>6, <2>7
  <1>. QED
    BY <1>1, ConnectionInvariant, PTL DEF WebSocketSpec, RefusesOnlyTheMalformed

--------------------------------------------------------------------------------
(* What the handlers of the program can tell, as WebSocketEvents promises.                *)
SessionShown ==
    /\ m_state = "connecting" =>
           Session = IF m_internal_state = "USER_INIT" THEN "idle" ELSE "opening"
    /\ m_state \in {"open", "closing"} => Session = m_state
    /\ m_state = "closed" /\ called = <<"fail">> => Session = "failed"
    /\ m_state = "closed" /\ called = <<"close">> => Session = "closed"

LEMMA SessionIs == IInv /\ TimersInv => SessionShown
  <1>. SUFFICES ASSUME IInv, TimersInv PROVE SessionShown
    OBVIOUS
  <1>1. <<"fail">> # <<"close">> /\ <<>> # <<"fail">> /\ <<>> # <<"close">>
    <2>1. <<"fail">>[1] = "fail" /\ <<"close">>[1] = "close"
      OBVIOUS
    <2>2. Len(<<>>) = 0 /\ Len(<<"fail">>) = 1 /\ Len(<<"close">>) = 1
      OBVIOUS
    <2>3. <<>> # <<"fail">> /\ <<>> # <<"close">>
      BY <2>2
    <2>4. "fail" # "close"
      OBVIOUS
    <2>. QED
      BY <2>1, <2>3, <2>4
  <1>2. CASE m_state \in {"connecting", "open", "closing"}
    <2>1. called = <<>> /\ (m_state # "connecting" => m_internal_state # "USER_INIT")
      BY <1>2 DEF IInv, ToldOfTheEnd, TimersInv
    <2>. QED
      BY <1>1, <1>2, <2>1 DEF Session, SessionShown
  <1>3. CASE m_state = "closed"
    BY <1>1, <1>3 DEF Session, SessionShown
  <1>. QED
    BY <1>2, <1>3 DEF IInv, QueueTyped

\* The state of a connection, and what the program has been told of it.
Advances ==
    \/ UNCHANGED <<m_state, called>> /\ m_internal_state' \in {m_internal_state, "READ_HTTP_REQUEST",
                                                                "PROCESS_HTTP_REQUEST"}
    \/ /\ m_state = "connecting" /\ m_state' = "open" /\ UNCHANGED called
       /\ m_internal_state # "USER_INIT" /\ m_internal_state' # "USER_INIT"
    \/ m_state = "open" /\ m_state' = "closing" /\ UNCHANGED <<called, m_internal_state>>
    \/ m_state' = "closed" /\ called' = called \o Told(m_state) /\ UNCHANGED m_internal_state

Tells ==
    \/ Advances /\ UNCHANGED <<script, delivered>>
    \/ /\ m_state = "open" /\ UNCHANGED <<m_state, called, m_internal_state, script>>
       /\ delivered' = Append(delivered, MessageUpTo(script, read + 1))

LEMMA ControlAdvances ==
    ASSUME NEW op, NEW text, IsControl(op), process_control_frame(op, text),
           m_state \in {"open", "closing", "closed"}
    PROVE  Advances
  <1>. USE DEF stateVars
  <1>1. CASE Same \/ pong
    BY <1>1 DEF Same, pong, Advances
  <1>2. CASE m_state # "closed" /\ SendCloseFrame(TRUE, TRUE)
    BY <1>2 DEF SendCloseFrame, Advances
  <1>3. CASE EndConnection
    BY <1>3 DEF EndConnection, Advances
  <1>. QED
    BY <1>1, <1>2, <1>3 DEF process_control_frame, IsControl

LEMMA TerminateAdvances == ASSUME Terminate PROVE Advances
  BY DEF Terminate, EndConnection, Advances

LEMMA TellsIs == ASSUME ConnectionInv, [WebSocketNext]_webSocketVars PROVE Tells
  <1>. USE DEF stateVars, readVars, clientVars
  <1>1. CASE ProcessBytes
    <2>1. reading = "buffer" /\ UNCHANGED script /\ (Refuses \/ Takes)
      BY <1>1, Processing
    <2>2. m_state \in {"open", "closing", "closed"}
      BY <2>1 DEF ConnectionInv, IInv, QueueTyped, Opening
    <2>3. CASE Refuses
      <3>1. UNCHANGED delivered /\ Advances
        BY <2>3, TerminateAdvances DEF Refuses, SendCloseFrame, Advances
      <3>. QED
        BY <2>1, <3>1 DEF Tells
    <2>4. CASE Takes /\ Same
      <3>1. UNCHANGED <<m_state, called, m_internal_state>>
        BY <2>4 DEF Same
      <3>2. \/ UNCHANGED delivered
            \/ m_state = "open" /\ delivered' = Append(delivered, MessageUpTo(script, read + 1))
        BY <2>4 DEF Takes
      <3>. QED
        BY <2>1, <3>1, <3>2 DEF Tells, Advances
    <2>5. CASE Takes /\ ~ Same
      <3>1. /\ UNCHANGED delivered /\ ~ IsData(script[read + 1])
            /\ \E text : process_control_frame(script[read + 1].op, text)
        BY <2>5 DEF Takes
      <3>2. Advances
        BY <2>2, <3>1, ControlAdvances DEF IsData
      <3>. QED
        BY <2>1, <3>1, <3>2 DEF Tells
    <2>. QED
      BY <2>1, <2>3, <2>4, <2>5
  <1>2. CASE \E failed \in BOOLEAN : handle_write_http_response(failed)
    <2>1. /\ writes = <<"http">> /\ UNCHANGED <<script, delivered>>
          /\ \/ Terminate
             \/ UNCHANGED stateVars
             \/ /\ m_state = "connecting" /\ m_state' = "open" /\ UNCHANGED called
                /\ m_internal_state' = "PROCESS_CONNECTION"
      BY <1>2, ResponseIs DEF ConnectionInv
    <2>2. m_state = "connecting" => m_internal_state # "USER_INIT"
      <3>1. writes # <<>>
        BY <2>1
      <3>. QED
        BY <3>1 DEF ConnectionInv, IInv, Opening
    <2>3. Advances
      BY <2>1, <2>2, TerminateAdvances DEF Advances
    <2>. QED
      BY <2>1, <2>3 DEF Tells
  <1>3. CASE handle_accept
    <2>1. UNCHANGED <<script, delivered>> /\ Advances
      BY <1>3, TerminateAdvances DEF handle_accept, Advances
    <2>. QED
      BY <2>1 DEF Tells
  <1>4. CASE \E n \in 1..(StreamLength - arrived) : handle_read_handshake(n) \/ handle_read_frame(n)
    <2>1. /\ UNCHANGED <<script, delivered, m_state, called>>
          /\ m_internal_state' \in {m_internal_state, "PROCESS_HTTP_REQUEST"}
      BY <1>4 DEF handle_read_handshake, write_http_response, handle_read_frame
    <2>. QED
      BY <2>1 DEF Tells, Advances
  <1>5. CASE close
    <2>1. UNCHANGED <<script, delivered>> /\ Advances
      BY <1>5 DEF close, SendCloseFrame, Advances
    <2>. QED
      BY <2>1 DEF Tells
  <1>6. CASE ReadFails \/ (\E failed \in BOOLEAN : handle_write_frame(failed))
             \/ \E i \in DOMAIN timers : handle_timer(i)
    <2>1. UNCHANGED <<script, delivered>>
      BY <1>6 DEF ReadFails, handle_write_frame, handle_timer
    <2>2. Advances
      <3>1. CASE ReadFails
        BY <3>1, TerminateAdvances DEF ReadFails
      <3>2. CASE \E failed \in BOOLEAN : handle_write_frame(failed)
        BY <3>2, TerminateAdvances DEF handle_write_frame, Advances
      <3>3. CASE \E i \in DOMAIN timers : handle_timer(i)
        BY <3>3 DEF handle_timer, EndConnection, Advances
      <3>. QED
        BY <1>6, <3>1, <3>2, <3>3
    <2>. QED
      BY <2>1, <2>2 DEF Tells
  <1>7. CASE \/ UNCHANGED webSocketVars \/ write_frame \/ read_frame
             \/ SendChecks \/ SendPushes \/ SendDispatches
             \/ \E i \in DOMAIN timers : Expire(i)
    <2>1. UNCHANGED <<script, delivered, m_state, called, m_internal_state>>
      BY <1>7 DEF webSocketVars, write_frame, read_frame, SendChecks, SendPushes, SendDispatches,
                  Expire
    <2>. QED
      BY <2>1 DEF Tells, Advances
  <1>. QED
    BY <1>1, <1>2, <1>3, <1>4, <1>5, <1>6, <1>7 DEF WebSocketNext, Loop, Outside

Moves(from, to) == Session \in from /\ Session' = to

SessionStep ==
    \/ Session' = Session
    \/ Moves({"idle"}, "opening") \/ Moves({"opening"}, "open") \/ Moves({"open"}, "closing")
    \/ Moves({"idle", "opening"}, "failed") \/ Moves({"open", "closing"}, "closed")

LEMMA AdvancesSession ==
    ASSUME IInv, TimersInv, IInv', TimersInv', Advances
    PROVE  SessionStep
  <1>. USE DEF SessionStep, Moves
  <1>1. m_state \in {"connecting", "open", "closing", "closed"} /\ ToldOfTheEnd
    BY DEF IInv, QueueTyped
  <1>2. SessionShown
    BY SessionIs
  <1>3. SessionShown'
    BY SessionIs, PTL
  <1>. USE DEF SessionShown
  <1>4. CASE UNCHANGED <<m_state, called>> /\ m_internal_state' \in {m_internal_state,
                                                "READ_HTTP_REQUEST", "PROCESS_HTTP_REQUEST"}
    <2>1. CASE m_state = "connecting"
      BY <1>2, <1>3, <1>4, <2>1
    <2>2. CASE m_state \in {"open", "closing"}
      BY <1>2, <1>3, <1>4, <2>2
    <2>3. CASE m_state = "closed"
      BY <1>1, <1>2, <1>3, <1>4, <2>3 DEF ToldOfTheEnd
    <2>. QED
      BY <1>1, <2>1, <2>2, <2>3
  <1>5. CASE /\ m_state = "connecting" /\ m_state' = "open" /\ UNCHANGED called
             /\ m_internal_state # "USER_INIT" /\ m_internal_state' # "USER_INIT"
    BY <1>2, <1>3, <1>5
  <1>6. CASE m_state = "open" /\ m_state' = "closing" /\ UNCHANGED <<called, m_internal_state>>
    BY <1>2, <1>3, <1>6
  <1>7. CASE m_state' = "closed" /\ called' = called \o Told(m_state) /\ UNCHANGED m_internal_state
    <2>1. \A told \in Seq({"fail", "close"}) : <<>> \o told = told /\ told \o <<>> = told
      BY ConcatEmptySeq
    <2>2. <<"fail">> \in Seq({"fail", "close"}) /\ <<"close">> \in Seq({"fail", "close"})
      OBVIOUS
    <2>3. CASE m_state = "connecting"
      <3>1. called = <<>> /\ Told(m_state) = <<"fail">>
        BY <1>1, <2>3 DEF ToldOfTheEnd, Told
      <3>2. called' = <<"fail">>
        BY <1>7, <2>1, <2>2, <3>1
      <3>. QED
        BY <1>2, <1>3, <1>7, <2>3, <3>2
    <2>4. CASE m_state \in {"open", "closing"}
      <3>1. called = <<>> /\ Told(m_state) = <<"close">>
        BY <1>1, <2>4 DEF ToldOfTheEnd, Told
      <3>2. called' = <<"close">>
        BY <1>7, <2>1, <2>2, <3>1
      <3>. QED
        BY <1>2, <1>3, <1>7, <2>4, <3>2
    <2>5. CASE m_state = "closed"
      <3>1. called \in {<<"fail">>, <<"close">>} /\ Told(m_state) = <<>>
        BY <1>1, <2>5 DEF ToldOfTheEnd, Told
      <3>2. called' = called
        BY <1>7, <2>1, <2>2, <3>1
      <3>. QED
        BY <1>2, <1>3, <1>7, <2>5, <3>1, <3>2
    <2>. QED
      BY <1>1, <2>3, <2>4, <2>5
  <1>. QED
    BY <1>4, <1>5, <1>6, <1>7 DEF Advances

DeliveredOfAll == Begun(MessagesOfFrames(script), delivered, AllMessages)

LEMMA UnreadIs == ReaderInv => DeliveredOfAll
  <1>. SUFFICES ASSUME ReaderInv PROVE DeliveredOfAll
    OBVIOUS
  <1>1. script \in Seq(Frame) /\ read \in 0..Len(script) /\ Len(script) \in 0..Len(script)
    BY StreamIs
  <1>. DEFINE S == MessagesOfFrames(script)
              now == MessagesIn(script, read)
  <1>2. AllMessages \in Seq(S) /\ now \in Seq(S) /\ IsPrefix(now, AllMessages)
    BY <1>1, MessagesNext, ReadableAre
  <1>3. Begun(S, delivered, now)
    BY DEF ReaderInv
  <1>. HIDE DEF S, now
  <1>4. PICK n \in Nat : n = Len(now) /\ n <= Len(AllMessages)
    BY <1>2 DEF IsPrefix
  <1>5. PICK k \in Nat : k = Len(delivered) /\ k <= n
    BY <1>3, <1>4 DEF Begun
  <1>6. SubSeq(now, 1, n) = SubSeq(AllMessages, 1, n)
    BY <1>2, <1>4 DEF IsPrefix
  <1>7. /\ \A i \in 1..n : SubSeq(now, 1, n)[i] = now[i]
        /\ \A i \in 1..n : SubSeq(AllMessages, 1, n)[i] = AllMessages[i]
    BY <1>2, <1>4, SubSeqProperties
  <1>8. \A i \in 1..k : AllMessages[i] = delivered[i]
    <2>. TAKE i \in 1..k
    <2>1. i \in 1..n /\ now[i] = delivered[i]
      BY <1>3, <1>5 DEF Begun
    <2>. QED
      BY <1>6, <1>7, <2>1
  <1>9. Len(delivered) <= Len(AllMessages)
    BY <1>2, <1>4, <1>5
  <1>10. Begun(S, delivered, AllMessages)
    BY <1>2, <1>3, <1>5, <1>8, <1>9 DEF Begun
  <1>. QED
    BY <1>10 DEF S, DeliveredOfAll

LEMMA UnreadNext ==
    ASSUME ReaderInv, ReaderInv', UNCHANGED script, NEW message, delivered' = Append(delivered, message)
    PROVE  Unread # <<>> /\ Unread' = Tail(Unread)
  <1>1. Begun(MessagesOfFrames(script), delivered, AllMessages)
    BY UnreadIs DEF DeliveredOfAll
  <1>2. Begun(MessagesOfFrames(script'), delivered', AllMessages')
    <2>1. DeliveredOfAll'
      BY UnreadIs, PTL
    <2>. QED
      BY <2>1 DEF DeliveredOfAll
  <1>3. AllMessages' = AllMessages
    BY DEF AllMessages
  <1>. DEFINE S == MessagesOfFrames(script)
              all == AllMessages
  <1>4. all \in Seq(S) /\ Len(delivered) \in Nat /\ Len(delivered') \in Nat /\ Len(delivered') <= Len(all)
    BY <1>1, <1>2, <1>3 DEF Begun
  <1>5. PICK n \in Nat : n = Len(delivered)
    BY <1>4
  <1>6. Len(delivered') = n + 1
    <2>1. delivered \in Seq(S)
      BY <1>1 DEF Begun
    <2>. QED
      BY <1>5, <2>1
  <1>. HIDE DEF S, all
  <1>7. n + 1 <= Len(all) /\ Len(all) \in Nat
    BY <1>4, <1>6
  <1>8. PICK l \in Nat : l = Len(all)
    BY <1>7
  <1>9. /\ SubSeq(all, n + 1, l) \in Seq(S) /\ Len(SubSeq(all, n + 1, l)) = l - n
        /\ \A i \in 1..(l - n) : SubSeq(all, n + 1, l)[i] = all[n + i]
    BY <1>4, <1>7, <1>8, CutOut
  <1>10. /\ SubSeq(all, (n + 1) + 1, l) \in Seq(S) /\ Len(SubSeq(all, (n + 1) + 1, l)) = l - (n + 1)
         /\ \A i \in 1..(l - (n + 1)) : SubSeq(all, (n + 1) + 1, l)[i] = all[(n + 1) + i]
    <2>1. n + 1 \in Nat /\ n + 1 <= l /\ l <= Len(all)
      BY <1>7, <1>8
    <2>. QED
      BY <1>4, <1>8, <2>1, CutOut
  <1>11. SubSeq(all, n + 1, l) # <<>>
    BY <1>7, <1>8, <1>9
  <1>12. Tail(SubSeq(all, n + 1, l)) = SubSeq(all, (n + 1) + 1, l)
    <2>. DEFINE one == SubSeq(all, n + 1, l)
                two == SubSeq(all, (n + 1) + 1, l)
    <2>1. PICK m \in Nat : m = l - (n + 1) /\ l - n = m + 1 /\ \A i \in 1..m : n + (i + 1) = (n + 1) + i
      BY <1>7, <1>8
    <2>2. /\ one \in Seq(S) /\ Len(one) = m + 1 /\ two \in Seq(S) /\ Len(two) = m
          /\ \A i \in 1..(m + 1) : one[i] = all[n + i]
          /\ \A i \in 1..m : two[i] = all[(n + 1) + i]
      BY <1>9, <1>10, <2>1
    <2>. HIDE DEF one, two
    <2>3. Tail(one) \in Seq(S) /\ Len(Tail(one)) = m /\ \A i \in 1..m : Tail(one)[i] = one[i + 1]
      BY <2>2
    <2>4. \A i \in 1..m : Tail(one)[i] = two[i]
      <3>. TAKE i \in 1..m
      <3>1. i + 1 \in 1..(m + 1) /\ n + (i + 1) = (n + 1) + i
        BY <2>1
      <3>. QED
        BY <2>2, <2>3, <3>1
    <2>5. Tail(one) = two
      BY <2>2, <2>3, <2>4, SeqEqual
    <2>. QED
      BY <2>5 DEF one, two
  <1>13. Unread = SubSeq(all, n + 1, l)
    BY <1>5, <1>8 DEF Unread, all
  <1>14. Unread' = SubSeq(all, (n + 1) + 1, l)
    BY <1>3, <1>6, <1>8 DEF Unread, all
  <1>. QED
    BY <1>11, <1>12, <1>13, <1>14

(* The program's handlers are told what WebSocketEvents promises of a connection, however     *)
(* its reads, writes, timers and threads interleave: the fail handler once, or the messages    *)
(* in order and then the close handler once (set_message_handler, set_fail_handler,          *)
(* set_close_handler, terminate).  That the handshakes end needs fairness, and is not here.   *)
THEOREM HandlersAreToldInOrder == WebSocketSpec => Events!Safe
  <1>1. WebSocketInit => Events!Init
    <2>. SUFFICES ASSUME WebSocketInit PROVE Events!Init
      OBVIOUS
    <2>1. SessionShown
      BY ConnectionInitially, SessionIs DEF ConnectionInv
    <2>2. Session = "idle"
      BY <2>1 DEF SessionShown, WebSocketInit
    <2>. QED
      BY <2>2 DEF Events!Init
  <1>2. ConnectionInv /\ ConnectionInv' /\ [WebSocketNext]_webSocketVars => [Events!Next]_Events!eventVars
    <2>. SUFFICES ASSUME ConnectionInv, ConnectionInv', [WebSocketNext]_webSocketVars
                  PROVE  [Events!Next]_Events!eventVars
      OBVIOUS
    <2>. USE DEF Events!Next, Events!Becomes, Events!eventVars
    <2>1. Tells
      BY TellsIs
    <2>2. CASE Advances /\ UNCHANGED <<script, delivered>>
      <3>1. SessionStep
        BY <2>2, AdvancesSession DEF ConnectionInv
      <3>2. Unread' = Unread
        BY <2>2 DEF Unread, AllMessages
      <3>3. CASE Session' = Session
        BY <3>2, <3>3
      <3>4. CASE Moves({"idle"}, "opening")
        <4>1. Events!Accept(0)
          BY <3>2, <3>4 DEF Moves, Events!Accept
        <4>. QED
          BY <4>1
      <3>5. CASE Moves({"opening"}, "open")
        <4>1. Events!Open(0)
          BY <3>2, <3>5 DEF Moves, Events!Open
        <4>. QED
          BY <4>1
      <3>6. CASE Moves({"open"}, "closing")
        <4>1. Events!StartClosing(0)
          BY <3>2, <3>6 DEF Moves, Events!StartClosing
        <4>. QED
          BY <4>1
      <3>7. CASE Moves({"idle", "opening"}, "failed")
        <4>1. Events!Fail(0)
          BY <3>2, <3>7 DEF Moves, Events!Fail
        <4>. QED
          BY <4>1
      <3>8. CASE Moves({"open", "closing"}, "closed")
        <4>1. Events!Close(0)
          BY <3>2, <3>8 DEF Moves, Events!Close
        <4>. QED
          BY <4>1
      <3>. QED
        BY <3>1, <3>3, <3>4, <3>5, <3>6, <3>7, <3>8 DEF SessionStep
    <2>3. CASE /\ m_state = "open" /\ UNCHANGED <<m_state, called, m_internal_state, script>>
               /\ delivered' = Append(delivered, MessageUpTo(script, read + 1))
      <3>1. SessionShown
        BY SessionIs DEF ConnectionInv
      <3>2. Session = "open"
        BY <2>3, <3>1 DEF SessionShown
      <3>3. Session' = Session
        BY <2>3 DEF Session
      <3>4. Unread # <<>> /\ Unread' = Tail(Unread)
        BY <2>3, UnreadNext DEF ConnectionInv
      <3>5. Events!Message(0)
        BY <3>2, <3>3, <3>4 DEF Events!Message
      <3>. QED
        BY <3>5
    <2>. QED
      BY <2>1, <2>2, <2>3 DEF Tells
  <1>. QED
    BY <1>1, <1>2, ConnectionInvariant, PTL DEF WebSocketSpec, Events!Safe
================================================================================
