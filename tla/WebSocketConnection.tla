-------------------------- MODULE WebSocketConnection --------------------------
(****************************************************************************)
(* One connection of websocketpp's server, over asio without TLS               *)
(* (src/websocketpp/websocketpp: impl/connection_impl.hpp and                *)
(* transport/asio/connection.hpp): the opening handshake, the frames read and   *)
(* written, the closing handshake, their timers, and the one end.              *)
(*                                                                          *)
(* The io_service runs on one thread: a handler at a time, reads, writes and    *)
(* timers completing in any order.  Other threads send.  There is no http       *)
(* handler, and nobody pauses reading or interrupts.                          *)
(****************************************************************************)
EXTENDS WebSocketFrames, FiniteSets

CONSTANTS
    Requests,   \* what the client may ask for
    Scripts,    \* the sequences of frames it may go on with
    MaxSends,   \* bound: messages other threads send
    MaxCloses   \* bound: calls of close by the program

VARIABLES
    request, script,            \* the client's part
    m_state, m_internal_state,
    m_response,                 \* its status, 0 before there is one
    m_handshake_timer,          \* the timer the connection remembers, 0 for none
    timers,                     \* every timer it set: "running", "expired", "off"
    arrived,    \* pieces of request and script that were read
    m_buf,      \* how many of those are in the buffer, not yet looked at
    reading,    \* "none", "handshake" or "frame": the read under way, or "buffer"
    processor,
    m_was_clean,
    m_send_queue, m_current_msgs, m_write_flag,
    writes,     \* asio writes under way: "http" or "frames"
    dispatched, \* write_frame handlers that wait for the io_service
    sender,     \* the sending thread: "idle", "checked", "pushed"
    sends, closes,
    read,       \* ghost: whole frames the processor went through
    delivered,  \* ghost: what the message handler was given
    called,     \* ghost: the calls of the fail and the close handler
    wire        \* ghost: the frames written

clientVars == <<request, script>>
timerVars == <<m_handshake_timer, timers>>
readVars == <<arrived, m_buf, reading, processor, read, delivered>>
queueVars == <<m_send_queue, m_current_msgs, m_write_flag, writes, dispatched, wire>>
senderVars == <<sender, sends>>
stateVars == <<m_state, m_internal_state, m_response, m_was_clean, called>>
webSocketVars == <<clientVars, timerVars, readVars, queueVars, senderVars, stateVars, closes>>

Handshake == INSTANCE WebSocketHandshake

ASSUME RequestsAssumption ==    \* hybi00 is not modelled
    \A r \in Requests : r.body \in Nat /\ (Handshake!is_websocket_handshake(r) => r.version # 0)

ASSUME ScriptsAssumption ==
    Scripts \subseteq Seq(Frame) /\ MaxSends \in Nat /\ MaxCloses \in Nat

\* The bytes the client writes, in the pieces they may be read in.
RequestPieces == Handshake!Pieces(request)
StreamOf == [s \in Scripts |-> FlattenSeq([i \in DOMAIN s |-> Pieces(s[i])])]
Stream == StreamOf[script]
StreamLength == RequestPieces + Len(Stream)

WebSocketInit ==
    /\ request \in Requests /\ script \in Scripts
    /\ m_state = "connecting" /\ m_internal_state = "USER_INIT" /\ m_response = 0
    /\ m_handshake_timer = 0 /\ timers = <<>>
    /\ arrived = 0 /\ m_buf = 0 /\ reading = "none"
    /\ processor = NewProcessor
    /\ m_was_clean = FALSE
    /\ m_send_queue = <<>> /\ m_current_msgs = <<>> /\ m_write_flag = FALSE
    /\ writes = <<>> /\ dispatched = 0
    /\ sender = "idle" /\ sends = 0 /\ closes = 0
    /\ read = 0 /\ delivered = <<>> /\ called = <<>> /\ wire = <<>>

\* No handler is running.
Free == reading # "buffer"

----
(* Timers.  An expired timer's handler waits for the io_service, and can no      *)
(* longer be cancelled.                                                     *)
SetTimer(of) ==
    /\ timers' = Append(of, "running")
    /\ m_handshake_timer' = Len(of) + 1

Cancelled(of) == [i \in DOMAIN of |->
    IF i = m_handshake_timer /\ of[i] = "running" THEN "off" ELSE of[i]]

CancelTimer == timers' = Cancelled(timers) /\ m_handshake_timer' = 0

\* The handler that is told of the end: none if it was told before.
ToldAgain(state) == IF state = "connecting" THEN <<"fail">> ELSE <<"close">>   \* a mistake
Told(state) == CASE state = "connecting" -> <<"fail">>
                 [] state \in {"open", "closing"} -> <<"close">>
                 [] state = "closed" -> <<>>

(* terminate, with the transport's shutdown and handle_terminate, which run      *)
(* before it returns when there is no TLS.                                    *)
EndConnection ==
    /\ m_handshake_timer' = 0
    /\ m_state' = "closed"
    /\ called' = called \o Told(m_state)
    /\ UNCHANGED <<m_internal_state, m_response>>

Terminate == timers' = Cancelled(timers) /\ EndConnection /\ UNCHANGED m_was_clean

----
(* Writing.  A frame to be written: its op, and whether it is the last.           *)
prepare_data_frame == [op |-> "DATA", terminal |-> FALSE]
prepare_control(op, terminal) == [op |-> op, terminal |-> terminal]
prepare_pong == prepare_control("PONG", FALSE)
prepare_close(terminal) == prepare_control("CLOSE", terminal)

NeedsWriting(queue) == ~ m_write_flag /\ queue # <<>>

write_push(frame) ==
    /\ m_send_queue' = Append(m_send_queue, frame)
    /\ dispatched' = IF NeedsWriting(m_send_queue') THEN dispatched + 1 ELSE dispatched
    /\ UNCHANGED <<m_current_msgs, m_write_flag, writes, wire>>

\* Everything that waits, up to a frame marked terminal.
ReadyAll(queue) == queue   \* a mistake
Ready(queue) ==
    LET ends == {i \in DOMAIN queue : queue[i].terminal}
    IN  IF ends = {} THEN queue
        ELSE SubSeq(queue, 1, CHOOSE i \in ends : \A j \in ends : i <= j)

\* May a write be started?  The flag is held until the last one is over.
MayWriteUnflagged == m_send_queue # <<>>   \* a mistake
MayWrite == ~ m_write_flag /\ m_send_queue # <<>>

write_frame ==
    /\ Free /\ dispatched > 0
    /\ dispatched' = dispatched - 1
    /\ IF MayWrite
       THEN LET ready == Ready(m_send_queue)
            IN  /\ m_current_msgs' = ready
                /\ m_send_queue' = SubSeq(m_send_queue, Len(ready) + 1, Len(m_send_queue))
                /\ m_write_flag' = TRUE
                /\ writes' = Append(writes, "frames")
       ELSE UNCHANGED <<m_send_queue, m_current_msgs, m_write_flag, writes>>
    /\ UNCHANGED <<clientVars, timerVars, readVars, senderVars, stateVars, closes, wire>>

\* What was pushed while the write was under way is written next.
WriteNoMore == UNCHANGED dispatched   \* a mistake
WriteMore == dispatched' = IF m_send_queue # <<>> THEN dispatched + 1 ELSE dispatched

handle_write_frame(failed) ==
    /\ Free /\ writes # <<>> /\ Head(writes) = "frames"
    /\ writes' = Tail(writes)
    /\ m_current_msgs' = <<>>
    /\ wire' = IF failed THEN wire ELSE wire \o m_current_msgs
    /\ IF failed \/ Last(m_current_msgs).terminal
       THEN Terminate /\ UNCHANGED <<m_write_flag, dispatched>>
       ELSE m_write_flag' = FALSE /\ WriteMore /\ UNCHANGED <<timerVars, stateVars>>
    /\ UNCHANGED <<clientVars, readVars, m_send_queue, senderVars, closes>>

(* send, ping and pong, called on another thread: the state is looked at, and     *)
(* the frame pushed, under two locks in turn; write_frame is asked for after.      *)
SendChecks ==
    /\ sender = "idle" /\ sends < MaxSends
    /\ m_state = "open"
    /\ sender' = "checked" /\ sends' = sends + 1
    /\ UNCHANGED <<clientVars, timerVars, readVars, queueVars, stateVars, closes>>

SendPushes ==
    /\ sender = "checked"
    /\ m_send_queue' = Append(m_send_queue, prepare_data_frame)
    /\ sender' = IF NeedsWriting(m_send_queue') THEN "pushed" ELSE "idle"
    /\ UNCHANGED <<clientVars, timerVars, readVars, m_current_msgs, m_write_flag, writes,
                   dispatched, wire, sends, stateVars, closes>>

SendDispatches ==
    /\ sender = "pushed"
    /\ sender' = "idle"
    /\ dispatched' = dispatched + 1
    /\ UNCHANGED <<clientVars, timerVars, readVars, m_send_queue, m_current_msgs, m_write_flag,
                   writes, wire, sends, stateVars, closes>>

(* send_close_frame.                                                         *)
SendCloseFrame(ack, terminal) ==
    /\ m_state' = "closing"
    /\ m_was_clean' = (m_was_clean \/ ack)
    /\ SetTimer(timers)
    /\ write_push(prepare_close(terminal))
    /\ UNCHANGED <<m_internal_state, m_response, called>>

(* close, from a handler of the program's: only this end's wish to close.         *)
close ==
    /\ Free /\ m_state = "open" /\ closes < MaxCloses
    /\ closes' = closes + 1
    /\ SendCloseFrame(FALSE, FALSE)
    /\ UNCHANGED <<clientVars, readVars, senderVars>>

----
(* The timer of post_init, which has nothing to wait for on a plain socket: it is    *)
(* cancelled before it can expire.                                            *)
post_init == Append(timers, "off")

(* The opening handshake.  A connection that could not be accepted ends here.     *)
handle_accept ==
    /\ m_internal_state = "USER_INIT" /\ m_state = "connecting"
    /\ \/ /\ m_internal_state' = "READ_HTTP_REQUEST"
          /\ SetTimer(post_init)
          /\ reading' = "handshake"
          /\ UNCHANGED <<m_state, m_response, m_was_clean, called>>
       \/ Terminate /\ UNCHANGED reading
    /\ UNCHANGED <<clientVars, arrived, m_buf, processor, read, delivered, queueVars,
                   senderVars, closes>>

write_http_response(status) ==
    /\ m_internal_state' = "PROCESS_HTTP_REQUEST"
    /\ m_response' = status
    /\ writes' = Append(writes, "http")

\* A read brings some of the pieces that are on the way.
Arrives(n) ==
    /\ arrived + n <= StreamLength
    /\ arrived' = arrived + n

handle_read_handshake(n) ==
    /\ Free /\ reading = "handshake"
    /\ Arrives(n)
    /\ IF m_state = "closed"
       THEN reading' = "none" /\ UNCHANGED <<m_buf, m_internal_state, m_response, writes>>
       ELSE IF Handshake!consume(request, arrived') = "more"
       THEN UNCHANGED <<reading, m_buf, m_internal_state, m_response, writes>>
       ELSE /\ reading' = "none"
            /\ m_buf' = IF Handshake!consume(request, arrived') = "ready"
                        THEN arrived' - RequestPieces ELSE 0
            /\ write_http_response(Handshake!Response(request, arrived'))
    /\ UNCHANGED <<clientVars, timerVars, processor, read, delivered, m_send_queue,
                   m_current_msgs, m_write_flag, dispatched, wire, senderVars, m_state,
                   m_was_clean, called, closes>>

handle_write_http_response(failed) ==
    /\ Free /\ writes # <<>> /\ Head(writes) = "http"
    /\ writes' = Tail(writes)
    /\ IF failed \/ (m_state = "connecting" /\ m_response # 101)
       THEN Terminate /\ UNCHANGED reading
       ELSE IF m_state = "closed" THEN UNCHANGED <<timerVars, stateVars, reading>>
       ELSE /\ CancelTimer
            /\ m_internal_state' = "PROCESS_CONNECTION"
            /\ m_state' = "open"
            /\ reading' = "buffer"
            /\ UNCHANGED <<m_response, m_was_clean, called>>
    /\ UNCHANGED <<clientVars, arrived, m_buf, processor, read, delivered, m_send_queue,
                   m_current_msgs, m_write_flag, dispatched, wire, senderVars, closes>>

----
(* Reading frames.  Whatever ends a read ends the connection, except that the     *)
(* end of the stream is expected of a closed one.                               *)
ReadFails ==
    /\ reading \in {"handshake", "frame"}
    /\ reading' = "none"
    /\ Terminate
    /\ UNCHANGED <<clientVars, arrived, m_buf, processor, read, delivered, queueVars,
                   senderVars, closes>>

handle_read_frame(n) ==
    /\ Free /\ reading = "frame"
    /\ Arrives(n)
    /\ m_buf' = n
    /\ reading' = "buffer"
    /\ UNCHANGED <<clientVars, timerVars, processor, read, delivered, queueVars, senderVars,
                   stateVars, closes>>

\* The buffer has been gone through.
read_frame ==
    /\ reading = "buffer" /\ m_buf = 0
    /\ reading' = "frame"
    /\ UNCHANGED <<clientVars, timerVars, arrived, m_buf, processor, read, delivered, queueVars,
                   senderVars, stateVars, closes>>

Same == UNCHANGED <<timerVars, queueVars, stateVars>>

\* A ping is answered by a pong, which like send needs an open connection.
pong ==
    /\ IF m_state = "open" THEN write_push(prepare_pong) ELSE UNCHANGED queueVars
    /\ UNCHANGED <<timerVars, stateVars>>

process_control_frame(op, text) ==
    IF m_state = "closed" \/ (op # "CLOSE" /\ m_state # "open") THEN Same
    ELSE CASE op = "PING" -> pong
           [] op = "PONG" -> Same
           [] op = "CLOSE" ->
                IF text = "bad" \/ m_state = "open" THEN SendCloseFrame(TRUE, TRUE)
                ELSE IF m_was_clean THEN Same
                ELSE /\ timers' = Cancelled(timers)
                     /\ EndConnection
                     /\ m_was_clean' = TRUE
                     /\ UNCHANGED queueVars

(* One turn of consume's loop, with what is left in the buffer.  After an error     *)
(* the rest is not looked at, and nothing is read any more.                      *)
ProcessBytes ==
    /\ reading = "buffer" /\ m_buf > 0
    /\ LET last == arrived - RequestPieces
           result == consume(processor, SubSeq(Stream, last - m_buf + 1, last))
           message == result.message
           ended == result.processor = reset_headers(result.processor)
                      /\ processor # reset_headers(processor)
       IN  /\ processor' = result.processor
           /\ read' = IF ended THEN read + 1 ELSE read
           /\ reading' = IF result.error THEN "none" ELSE reading
           /\ m_buf' = IF result.error THEN 0 ELSE m_buf - result.used
           /\ delivered' = IF message # NoMessage /\ ~ IsControl(message.op) /\ m_state = "open"
                           THEN Append(delivered, [op |-> message.op, parts |-> message.parts])
                           ELSE delivered
           /\ IF result.error
              THEN IF m_state = "open" THEN SendCloseFrame(FALSE, TRUE)
                   ELSE Terminate /\ UNCHANGED queueVars
              ELSE IF IsControl(message.op) THEN process_control_frame(message.op, message.text)
              ELSE Same
    /\ UNCHANGED <<clientVars, arrived, senderVars, closes>>

----
Expire(i) ==
    /\ timers[i] = "running"
    /\ timers' = [timers EXCEPT ![i] = "expired"]
    /\ UNCHANGED <<clientVars, m_handshake_timer, readVars, queueVars, senderVars, stateVars,
                   closes>>

\* handle_open_handshake_timeout and handle_close_handshake_timeout.
handle_timer(i) ==
    /\ Free
    /\ timers[i] = "expired"
    /\ timers' = Cancelled([timers EXCEPT ![i] = "off"])
    /\ EndConnection
    /\ UNCHANGED <<clientVars, readVars, queueVars, senderVars, m_was_clean, closes>>

----
Loop == \/ write_frame \/ read_frame \/ ProcessBytes
        \/ \E i \in DOMAIN timers : Expire(i) \/ handle_timer(i)

Outside ==
    \/ handle_accept \/ ReadFails \/ close
    \/ SendChecks \/ SendPushes \/ SendDispatches
    \/ \E n \in 1..(StreamLength - arrived) : handle_read_handshake(n) \/ handle_read_frame(n)
    \/ \E failed \in BOOLEAN : handle_write_http_response(failed) \/ handle_write_frame(failed)

WebSocketNext == Loop \/ Outside
WebSocketSpec == WebSocketInit /\ [][WebSocketNext]_webSocketVars

\* read_frame and ProcessBytes, by what they do to the buffer.
BufferStep ==
    /\ reading = "buffer"
    /\ m_buf' \in 0..m_buf /\ reading' \in {"none", "buffer", "frame"}

(* The io_service runs the handlers that are ready, and timers expire.  A client   *)
(* need not write, nor read what is written to it.                             *)
WebSocketFairness ==
    /\ WF_<<m_buf, reading>>(BufferStep)
    /\ WF_webSocketVars(write_frame)
    /\ WF_webSocketVars(\E i \in DOMAIN timers : Expire(i))
    /\ WF_webSocketVars(\E i \in DOMAIN timers : handle_timer(i))
FairWebSocketSpec == WebSocketSpec /\ WebSocketFairness

----
\* The messages of the first n frames of each script.
MessagesOf == [s \in Scripts |-> [n \in 0..Len(s) |-> MessagesIn(s, n)]]
ReadableOf == [s \in Scripts |-> Readable(s)]
AllMessages == MessagesOf[script][Len(script)]

TimersSet == 3 + MaxCloses + Len(script)

(* Every variable has values of its kind, and the connection remembers a timer it   *)
(* set.                                                                     *)
WebSocketTypeOK ==
    /\ m_state \in {"connecting", "open", "closing", "closed"}
    /\ m_internal_state \in {"USER_INIT", "READ_HTTP_REQUEST", "PROCESS_HTTP_REQUEST",
                             "PROCESS_CONNECTION"}
    /\ m_response \in {0, 101, 400, 426}
    /\ timers \in Seq({"running", "expired", "off"}) /\ Len(timers) <= TimersSet
    /\ m_handshake_timer \in 0..Len(timers)
    /\ arrived \in 0..StreamLength /\ m_buf \in 0..Len(Stream)
    /\ reading \in {"none", "handshake", "frame", "buffer"}
    /\ processor.m_state \in {"HEADER_BASIC", "HEADER_EXTENDED", "APPLICATION"}
    /\ m_was_clean \in BOOLEAN /\ m_write_flag \in BOOLEAN
    /\ \A queue \in {m_send_queue, m_current_msgs, wire} :
           queue \in Seq([op : {"DATA", "PONG", "CLOSE"}, terminal : BOOLEAN])
    /\ writes \in Seq({"http", "frames"}) /\ dispatched \in Nat
    /\ sender \in {"idle", "checked", "pushed"}
    /\ sends \in 0..MaxSends /\ closes \in 0..MaxCloses /\ read \in 0..Len(script)
    /\ m_state \in {"open", "closing"} => (m_write_flag <=> m_current_msgs # <<>>)

(* However the bytes are cut into reads, and whatever control frames stand between  *)
(* the frames of a message, the message handler is given the messages of the frames  *)
(* read so far, and once the connection is closing, no more of them                *)
(* (handle_read_frame with hybi13::consume).  They are texts of whole characters,    *)
(* but for what CutInContinuation names and TextsAreWhole shows.                   *)
DeliversEveryMessage ==
    /\ IsPrefix(delivered, MessagesOf[script][read])
    /\ m_state = "open" => delivered = MessagesOf[script][read] /\ read <= ReadableOf[script]

(* hybi13.hpp:536, of finalize_message: "ensure that text messages end on a valid UTF8  *)
(* code point".  A text message that ends inside a character is not given to the   *)
(* message handler, in however many frames it came.                             *)
TextsAreWhole ==
    \A n \in 1..read :
        EndsInsideCharacter(script, n) => Len(delivered) < Len(MessagesIn(script, n))

(* Reading stops at a frame only if the frames before it do not allow it, however   *)
(* they were cut (validate_incoming_basic_header and the other checks of consume).   *)
RefusesOnlyTheMalformed ==
    [][reading = "buffer" /\ reading' = "none" => read >= ReadableOf[script]]_webSocketVars

(* A frame that waits is never forgotten: a write is under way, after which the     *)
(* queue is looked at, or write_frame is on its way (send, ping, pong,            *)
(* send_close_frame and handle_write_frame, of two threads).                     *)
QueueIsAttended ==
    m_state \in {"open", "closing"} /\ m_send_queue # <<>> =>
        "frames" \in ToSet(writes) \/ dispatched > 0 \/ sender = "pushed"

(* The transport keeps one list of buffers for the write under way and clears it    *)
(* when a write completes: there is never a second one (async_write's m_bufs,       *)
(* m_write_flag).                                                           *)
OneWriteAtATime == Len(writes) <= 1

(* The connection is well formed, and writes one thing at a time.                   *)
WebSocketInv == WebSocketTypeOK /\ OneWriteAtATime

(* Nothing is written after the frame that answers a close, though a thread may      *)
(* push one after it (write_frame's "stop if we get a message marked terminal").     *)
(* Of this end's own CLOSE, which is not marked, it says nothing: a frame pushed    *)
(* behind it is written.                                                     *)
NothingFollowsTheLast ==
    \A i \in 1..(Len(wire) - 1) : ~ wire[i].terminal

\* What the handlers of the program can tell.
Session ==
    CASE called = <<"fail">> -> "failed"
      [] called = <<"close">> -> "closed"
      [] called = <<>> /\ m_internal_state = "USER_INIT" -> "idle"
      [] called = <<>> /\ m_internal_state # "USER_INIT" /\ m_state # "closed" ->
             IF m_state = "connecting" THEN "opening" ELSE m_state
      [] OTHER -> "told twice"
Unread == SubSeq(AllMessages, Len(delivered) + 1, Len(AllMessages))

Events == INSTANCE WebSocketEvents WITH
    Connections <- {0}, session <- [c \in {0} |-> Session], unread <- [c \in {0} |-> Unread]

(* The fail handler once, or messages and then the close handler once; and neither   *)
(* handshake lasts for ever, whatever the client does (terminate,                 *)
(* handle_open_handshake_timeout, handle_close_handshake_timeout).                *)
ImplementsWebSocketEvents == Events!Spec
================================================================================
