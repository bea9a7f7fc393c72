---------------------------- MODULE WebSocketFrames ----------------------------
(****************************************************************************)
(* How websocketpp's processor hybi13 reads frames, whatever pieces the bytes  *)
(* arrive in (src/websocketpp/websocketpp/processors/hybi13.hpp), and, apart  *)
(* from it, which messages a sequence of frames stands for.                   *)
(*                                                                          *)
(* A frame is a record: op; fin; rsv, a reserved bit is set; masked; code, the  *)
(* length field that gives its size; text, whether its payload is UTF-8 ("ok"),  *)
(* ends inside a character ("cut") or is not UTF-8 ("bad"; of a CLOSE, no valid  *)
(* code and reason); and name, which stands for the payload and for the masking  *)
(* key: no two frames have the same of either.                                 *)
(****************************************************************************)
EXTENDS Integers, Sequences, SequencesExt

CONSTANT max_message_size

ASSUME SizeAssumption == max_message_size \in Nat

IsControl(op) == op \in {"CLOSE", "PING", "PONG"}

----
(* The header, and masking.  Lengths of a header are counted in the pieces it may be  *)
(* read in: the two bytes of the basic header, the longer size, the key.            *)
BASIC_HEADER_LENGTH == 2
payload_size_basic == 125
payload_size_extended == 65535

\* What a client can write: no field holds more than it has bits for, and no text is
\* wrong in an empty payload.
Frame ==
    {frame \in [op : {"TEXT", "BINARY", "CONTINUATION", "CLOSE", "PING", "PONG", "RESERVED"},
                fin : BOOLEAN, rsv : BOOLEAN, masked : BOOLEAN, size : Nat,
                code : {"basic", "16bit", "64bit"}, text : {"ok", "cut", "bad"}, name : STRING] :
        /\ frame.code = "basic" => frame.size <= payload_size_basic
        /\ frame.code = "16bit" => frame.size <= payload_size_extended
        /\ frame.size = 0 => frame.text = "ok"}

get_masking_key_offset(frame) == IF frame.code \in {"16bit", "64bit"} THEN 1 ELSE 0

get_header_len(frame) ==
    BASIC_HEADER_LENGTH + get_masking_key_offset(frame) + (IF frame.masked THEN 1 ELSE 0)

\* From the field that code names.
get_payload_size(frame) == frame.size

get_masking_key(frame) ==
    [i \in 1..4 |-> IF frame.masked THEN <<frame.name, i>> ELSE <<"no key">>]

\* A machine word holds the key twice.
prepare_masking_key(key) == key \o key
circshift_prepared_key(prepared_key, offset) ==
    SubSeq(prepared_key, offset + 1, 8) \o SubSeq(prepared_key, 1, offset)

\* A byte under a byte of the key: with the same byte again it comes out.
Xor(masked, key) == IF masked.key = key THEN masked.byte ELSE <<"garbled">>

byte_mask_circ(input, prepared_key) ==
    [output |-> [i \in DOMAIN input |-> Xor(input[i], prepared_key[((i - 1) % 4) + 1])],
     key |-> circshift_prepared_key(prepared_key, Len(input) % 4)]

\* What a frame is on the wire: its header, and the bytes of its payload under the key.
Pieces(frame) ==
    [i \in 1..get_header_len(frame) |-> [frame |-> frame]]
      \o [i \in 1..frame.size |-> [frame |-> frame, byte |-> <<frame.name, i>>,
                                   key |-> get_masking_key(frame)[((i - 1) % 4) + 1]]]

----
(* The processor.                                                            *)
Message(op, key) ==
    [op |-> op, parts |-> <<>>, text |-> "ok", prepared_key |-> prepare_masking_key(key)]
NoMessage == [op |-> "NONE", parts |-> <<>>, text |-> "ok", prepared_key |-> <<>>]

NewProcessor == [m_state |-> "HEADER_BASIC", m_bytes_needed |-> BASIC_HEADER_LENGTH,
                 data |-> NoMessage, control |-> NoMessage]

reset_headers(processor) ==
    [processor EXCEPT !.m_state = "HEADER_BASIC", !.m_bytes_needed = BASIC_HEADER_LENGTH]

ValidBasicHeader(frame, new_msg) ==
    /\ IsControl(frame.op) => frame.code = "basic" /\ frame.fin
    /\ ~ frame.rsv
    /\ frame.op # "RESERVED"
    /\ ~ IsControl(frame.op) => (new_msg <=> frame.op # "CONTINUATION")
    /\ frame.masked

ValidExtendedHeader(frame) ==
    /\ frame.code = "16bit" => frame.size > payload_size_basic
    /\ frame.code = "64bit" => frame.size > payload_size_extended

Fits(processor, frame) ==
    IsControl(frame.op) \/ Len(processor.data.parts) + frame.size <= max_message_size

\* A mistake: a frame that continues a message goes on with the message's key.
BeginWithOldKey(processor, frame) ==
    IF IsControl(frame.op)
    THEN [processor EXCEPT !.control = Message(frame.op, get_masking_key(frame))]
    ELSE IF processor.data = NoMessage
    THEN [processor EXCEPT !.data = Message(frame.op, get_masking_key(frame))]
    ELSE processor
\* The message a frame belongs to, from when its header has been read.  Each frame has
\* a key of its own.
Begin(processor, frame) ==
    LET key == get_masking_key(frame)
    IN  IF IsControl(frame.op)
        THEN [processor EXCEPT !.control = Message(frame.op, key)]
        ELSE IF processor.data = NoMessage
        THEN [processor EXCEPT !.data = Message(frame.op, key)]
        ELSE [processor EXCEPT !.data.prepared_key = prepare_masking_key(key)]

Current(frame) == IF IsControl(frame.op) THEN "control" ELSE "data"

\* The validator follows the bytes; what it finds, it finds at the frame's last.
process_payload_bytes(processor, frame, bytes) ==
    LET message == processor[Current(frame)]
        unmasked == byte_mask_circ(bytes, message.prepared_key)
        left == processor.m_bytes_needed - Len(bytes)
    IN  [processor EXCEPT !.m_bytes_needed = left,
                          ![Current(frame)] =
             [message EXCEPT !.parts = @ \o unmasked.output, !.prepared_key = unmasked.key,
                             !.text = IF left = 0 THEN frame.text ELSE "ok"]]
ValidText(processor, frame) ==
    processor[Current(frame)].op = "TEXT" => processor[Current(frame)].text # "bad"

\* finalize_message: the opcode asked for is that of the frame, not of the message.
Complete(processor, frame) ==
    frame.fin /\ frame.op = "TEXT" => processor.data.text # "cut"

\* A mistake: a control frame ends the message it arrives in the middle of.
get_messageOfBoth(processor, frame) ==
    [processor EXCEPT !.data = NoMessage, !.control = NoMessage]
get_message(processor, frame) == [processor EXCEPT ![Current(frame)] = NoMessage]

\* What reading leads to: an error, a message, or neither; and how much was read.
Goes(processor, used) ==
    [processor |-> processor, used |-> used, error |-> FALSE, message |-> NoMessage]
Fails(processor, used) == [Goes(processor, used) EXCEPT !.error = TRUE]

EndFrame(processor, frame, used) ==
    LET next == reset_headers(processor)
    IN  IF ~ Complete(processor, frame) THEN Fails(processor, used)
        ELSE IF frame.fin
        THEN [Goes(get_message(next, frame), used) EXCEPT
                !.message = processor[Current(frame)]]
        ELSE Goes(next, used)

\* One turn of consume's loop, with the pieces that are left in the buffer.
consume(processor, pieces) ==
    LET frame == pieces[1].frame
        used == IF processor.m_bytes_needed < Len(pieces)
                THEN processor.m_bytes_needed ELSE Len(pieces)
        short == [processor EXCEPT !.m_bytes_needed = @ - used]
        begun == [Begin(processor, frame) EXCEPT
                    !.m_state = "APPLICATION", !.m_bytes_needed = get_payload_size(frame)]
        filled == process_payload_bytes(processor, frame, SubSeq(pieces, 1, used))
    IN  CASE processor.m_state = "HEADER_BASIC" ->
                IF short.m_bytes_needed > 0 THEN Goes(short, used)
                ELSE IF ~ ValidBasicHeader(frame, processor.data = NoMessage)
                THEN Fails(short, used)
                ELSE Goes([short EXCEPT
                             !.m_state = "HEADER_EXTENDED",
                             !.m_bytes_needed = get_header_len(frame) - BASIC_HEADER_LENGTH],
                          used)
          [] processor.m_state = "HEADER_EXTENDED" ->
                IF short.m_bytes_needed > 0 THEN Goes(short, used)
                ELSE IF ~ (ValidExtendedHeader(frame) /\ Fits(processor, frame))
                THEN Fails(short, used)
                ELSE IF frame.size = 0 THEN EndFrame(begun, frame, used)
                ELSE Goes(begun, used)
          [] processor.m_state = "APPLICATION" ->
                IF ~ ValidText(filled, frame) THEN Fails(filled, used)
                ELSE IF filled.m_bytes_needed > 0 THEN Goes(filled, used)
                ELSE EndFrame(filled, frame, used)

----
(* The reference: the messages of a sequence of frames, without a processor.    *)
IsData(frame) == ~ IsControl(frame.op)
Continues(frame) == IsControl(frame.op) \/ frame.op = "CONTINUATION"
Payload(frame) == IF IsData(frame) THEN [i \in 1..frame.size |-> <<frame.name, i>>] ELSE <<>>

\* Is a message under way after the first n frames?
Open(frames, n) ==
    \E i \in 1..n : /\ IsData(frames[i]) /\ ~ frames[i].fin
                    /\ \A j \in (i + 1)..n : IsControl(frames[j].op)

\* The message that the n-th frame is part of, as far as that frame.
Beginning(frames, n) ==
    CHOOSE i \in 1..n : /\ ~ Continues(frames[i])
                        /\ \A j \in (i + 1)..n : Continues(frames[j])
MessageUpTo(frames, n) ==
    LET first == Beginning(frames, n)
    IN  [op |-> frames[first].op,
         parts |-> FlattenSeq([i \in 1..(n - first + 1) |-> Payload(frames[first + i - 1])])]

\* A text message that is over at the n-th frame, and inside a character: the last
\* of its frames that is not empty leaves one unfinished.
EndsInsideCharacter(frames, n) ==
    /\ IsData(frames[n]) /\ frames[n].fin /\ MessageUpTo(frames, n).op = "TEXT"
    /\ \E i \in Beginning(frames, n)..n :
          /\ IsData(frames[i]) /\ frames[i].size > 0 /\ frames[i].text = "cut"
          /\ \A j \in (i + 1)..n : IsData(frames[j]) => frames[j].size = 0

\* May the n-th frame follow those before it?
Follows(frames, n) ==
    LET frame == frames[n]
        message == MessageUpTo(frames, n)
    IN  /\ frame.masked /\ ~ frame.rsv /\ frame.op # "RESERVED"
        /\ frame.code = CASE frame.size <= payload_size_basic -> "basic"
                          [] frame.size \in (payload_size_basic + 1)..payload_size_extended
                                -> "16bit"
                          [] OTHER -> "64bit"
        /\ IF IsControl(frame.op)
           THEN frame.fin /\ frame.code = "basic"
           ELSE /\ Open(frames, n - 1) <=> frame.op = "CONTINUATION"
                /\ Len(message.parts) <= max_message_size
                /\ message.op = "TEXT" => frame.text # "bad"
WellFormed(frames, n) == Follows(frames, n) /\ ~ EndsInsideCharacter(frames, n)

\* What the processor lets pass although it promises not to (hybi13.hpp:512-514, 536):
\* a text whose last frame, a continuation, leaves a character unfinished.
CutInContinuation(frames, n) ==
    /\ Follows(frames, n) /\ EndsInsideCharacter(frames, n)
    /\ frames[n].op = "CONTINUATION"
Accepted(frames, n) == WellFormed(frames, n) \/ CutInContinuation(frames, n)

\* How many of the frames are read as messages: up to the first one that is not
\* accepted, or the CLOSE, after which nothing counts.
Stops(frames, n) == ~ Accepted(frames, n) \/ frames[n].op = "CLOSE"
Readable(frames) ==
    LET stops == {n \in DOMAIN frames : Stops(frames, n)}
    IN  IF stops = {} THEN Len(frames)
        ELSE (CHOOSE n \in stops : \A m \in stops : n <= m) - 1

\* The messages of the first n frames: each is whole at its last frame.
MessagesAt(frames, n) ==
    IF n <= Readable(frames) /\ IsData(frames[n]) /\ frames[n].fin
    THEN <<MessageUpTo(frames, n)>> ELSE <<>>
MessagesIn(frames, n) == FlattenSeq([i \in 1..n |-> MessagesAt(frames, i)])
================================================================================
