---------------------------- MODULE SerialPort ----------------------------
(***************************************************************************)
(* The serial port object of src/serial.cpp, shared by several threads.    *)
(* Readers take its read lock, writers its write lock, setPort and flush   *)
(* both; open and close take none.  SerialImpl is declared only            *)
(* (include/serial/impl/unix.h) and is modelled as the wrapper uses it:    *)
(* the port's name, and beside it a descriptor that is closed or stays on  *)
(* the device it was opened on.  A device sends a given stream of bytes,   *)
(* one at a time, with time-outs anywhere between them.                    *)
(***************************************************************************)
EXTENDS Integers, Sequences, FiniteSets, SequencesExt

CONSTANTS
    Ports,      \* the devices setPort can name
    NoDevice,   \* what a closed descriptor is on
    Device,     \* the bytes each device sends
    Eol,        \* the end-of-line string of readline and readlines
    Requests,   \* the calls the threads may make: [op, arg]
    MaxCalls    \* the bound on the calls of a behaviour

\* A thread remembers nothing of the object between two calls: two calls of
\* one thread are those of two threads, the second started after the first
\* has ended.  So every thread makes one call, and they start in order.
Threads == 1..MaxCalls

Operations == {"read", "readline", "readlines", "write", "setPort", "flush",
               "flushInput", "flushOutput", "open", "close"}

ASSUME SerialAssumption ==
    /\ NoDevice \notin Ports
    /\ Device \in [Ports -> Seq(STRING)]
    /\ Eol \in Seq(STRING) \ {<<>>}
    /\ Requests \subseteq [op : Operations, arg : Nat \cup Ports]
    /\ \A r \in Requests : IF r.op = "setPort" THEN r.arg \in Ports ELSE r.arg \in Nat
    /\ MaxCalls \in Nat

VARIABLES
    fd,      \* SerialImpl: the device the descriptor is open on
    port,    \* SerialImpl: the port's name
    taken,   \* how many bytes of each device have been read
    put,     \* how many bytes have been written to each device
    call,    \* each thread's call
    made     \* how many calls have been started
vars == <<fd, port, taken, put, call, made>>

(***************************************************************************)
(* A call: what is asked (op, arg), how many of its locks it holds, the    *)
(* step setPort has reached, the bytes moved so far as places on a device, *)
(* where the current line starts, the lines given to the caller, and how   *)
(* it ended.                                                               *)
(***************************************************************************)
NoCall == [op |-> "none", arg |-> 0, held |-> 0, step |-> "start",
           got |-> <<>>, start |-> 0, lines |-> <<>>, how |-> "returned"]
Started(r) == [NoCall EXCEPT !.op = r.op, !.arg = r.arg, !.how = "running"]

Running(t) == call[t].how = "running"
Ruined == \E t \in Threads : call[t].how = "overran"

SerialInit ==
    /\ port \in Ports
    /\ fd = port
    /\ taken = [p \in Ports |-> 0]
    /\ put = [p \in Ports |-> 0]
    /\ call = [t \in Threads |-> NoCall]
    /\ made = 0

Call(t, r) ==
    /\ t = made + 1 /\ ~Ruined
    /\ made' = t
    /\ call' = [call EXCEPT ![t] = Started(r)]
    /\ UNCHANGED <<fd, port, taken, put>>

-----------------------------------------------------------------------------
(* The scoped locks, in the order the constructors take them.              *)

LocksOf(op) ==
    CASE op \in {"read", "readline", "readlines", "flushInput"} -> <<"r">>
      [] op \in {"write", "flushOutput"} -> <<"w">>
      [] op \in {"setPort", "flush"} -> <<"r", "w">>
      [] OTHER -> <<>>

\* slips: flush takes its locks the other way round; readline, or setPort,
\* forgets the read lock
LocksCrossed(t) ==
    IF call[t].op = "flush" THEN <<"w", "r">> ELSE LocksOf(call[t].op)
LocksOfReaders(t) ==
    IF call[t].op = "readline" THEN <<>> ELSE LocksOf(call[t].op)
LocksOfWriters(t) ==
    IF call[t].op = "setPort" THEN <<"w">> ELSE LocksOf(call[t].op)

Locks(t) == LocksOf(call[t].op)
Holds(t, lock) ==
    Running(t) /\ \E i \in 1..call[t].held : Locks(t)[i] = lock
InCall(t) == Running(t) /\ ~Ruined /\ call[t].held = Len(Locks(t))

Lock(t) ==
    /\ Running(t) /\ ~Ruined
    /\ call[t].held < Len(Locks(t))
    /\ \A u \in Threads : ~Holds(u, Locks(t)[call[t].held + 1])
    /\ call' = [call EXCEPT ![t].held = @ + 1]
    /\ UNCHANGED <<fd, port, taken, put, made>>

\* returning and throwing both run the destructors of the scoped locks
Ends(t, how) == call' = [call EXCEPT ![t].how = how, ![t].held = 0]

-----------------------------------------------------------------------------
(* Reading.  read fills the caller's buffer; readline and readlines read   *)
(* byte by byte into a buffer of arg bytes on the stack.                   *)

Bytes(places) == [i \in 1..Len(places) |-> Device[places[i][1]][places[i][2]]]
Given(c, lines) == [c EXCEPT !.lines = lines, !.how = "returned", !.held = 0]
Overran(c) == Len(c.got) > c.arg

Line(c) == Bytes(SubSeq(c.got, c.start + 1, Len(c.got)))
WithRest(c) == IF c.start = Len(c.got) THEN c.lines
               ELSE Append(c.lines, Line(c))
AtEol(c) == Len(c.got) >= Len(Eol) /\ IsSuffix(Eol, Bytes(c.got))

\* slip: the length is compared before the byte is counted, so a full buffer
\* takes one more
ReadlineLate(c) ==
    IF Overran(c) THEN [c EXCEPT !.how = "overran"]
    ELSE IF AtEol(c) \/ Len(c.got) = c.arg + 1
    THEN Given(c, <<Bytes(c.got)>>)
    ELSE c
Readline(c) ==
    IF Overran(c) THEN [c EXCEPT !.how = "overran"]
    ELSE IF Len(c.got) >= Len(Eol) /\ (AtEol(c) \/ Len(c.got) = c.arg)
    THEN Given(c, <<Bytes(c.got)>>)
    ELSE c

\* slip: a new line does not end the one before
ReadlinesUncut(c) ==
    IF AtEol(c)
    THEN [c EXCEPT !.lines = Append(@, Line(c))]
    ELSE c
ReadlinesCut(c) ==
    IF AtEol(c)
    THEN [c EXCEPT !.lines = Append(@, Line(c)), !.start = Len(c.got)]
    ELSE c
Readlines(c) ==
    LET cut == ReadlinesCut(c)
    IN  IF Len(c.got) < c.arg THEN cut
        ELSE Given(cut, IF Len(c.got) < Len(Eol) THEN cut.lines
                        ELSE WithRest(cut))

AfterByte(c) ==
    CASE c.op = "read" ->
           IF Len(c.got) = c.arg THEN Given(c, <<Bytes(c.got)>>) ELSE c
      [] c.op = "readline" -> Readline(c)
      [] c.op = "readlines" -> Readlines(c)

Readers == {"read", "readline", "readlines"}
Moves == Readers \cup {"write"}

WithByte(c, moved) == [c EXCEPT !.got = Append(@, <<fd, moved[fd] + 1>>)]

\* A call for no bytes moves none; but readline reads before it looks.
Asks(c) == c.op = "readline" \/ c.arg > 0

\* The descriptor is read, whatever the port is called by now.
Receive(t) ==
    /\ InCall(t) /\ call[t].op \in Readers /\ Asks(call[t])
    /\ fd # NoDevice /\ taken[fd] < Len(Device[fd])
    /\ taken' = [taken EXCEPT ![fd] = @ + 1]
    /\ call' = [call EXCEPT ![t] = AfterByte(WithByte(@, taken))]
    /\ UNCHANGED <<fd, port, put, made>>

ReadTimesOut(t) ==
    LET c == call[t]
    IN  /\ InCall(t) /\ c.op \in Readers /\ Asks(c) /\ fd # NoDevice
        /\ call' = [call EXCEPT ![t] =
                       Given(c, IF c.op = "readlines" THEN WithRest(c)
                                ELSE <<Bytes(c.got)>>)]
        /\ UNCHANGED <<fd, port, taken, put, made>>

-----------------------------------------------------------------------------
(* Writing, flushing, opening and closing.                                 *)

Transmit(t) ==
    LET c == call[t]
        sent == WithByte(c, put)
    IN  /\ InCall(t) /\ c.op = "write" /\ Asks(c) /\ fd # NoDevice
        /\ put' = [put EXCEPT ![fd] = @ + 1]
        /\ call' = [call EXCEPT ![t] =
                       IF Len(sent.got) = c.arg THEN Given(sent, <<>>) ELSE sent]
        /\ UNCHANGED <<fd, port, taken, made>>

WriteTimesOut(t) ==
    /\ InCall(t) /\ call[t].op = "write" /\ Asks(call[t]) /\ fd # NoDevice
    /\ Ends(t, "returned")
    /\ UNCHANGED <<fd, port, taken, put, made>>

\* readlines of no bytes does not even look at the descriptor
NothingAsked(t) ==
    /\ InCall(t) /\ call[t].op \in Moves /\ ~Asks(call[t])
    /\ fd # NoDevice \/ call[t].op = "readlines"
    /\ Ends(t, "returned")
    /\ UNCHANGED <<fd, port, taken, put, made>>

Flush(t) ==
    /\ InCall(t) /\ call[t].op \in {"flush", "flushInput", "flushOutput"}
    /\ fd # NoDevice
    /\ IF call[t].op = "flushInput"
       THEN \E n \in taken[fd]..Len(Device[fd]) :
                taken' = [taken EXCEPT ![fd] = n]
       ELSE taken' = taken
    /\ Ends(t, "returned")
    /\ UNCHANGED <<fd, port, put, made>>

\* every operation that needs the descriptor throws when it is closed
Refused(t) ==
    /\ InCall(t) /\ call[t].op \notin {"setPort", "open", "close"} /\ fd = NoDevice
    /\ call[t].op = "readlines" => Asks(call[t])
    /\ Ends(t, "threw")
    /\ UNCHANGED <<fd, port, taken, put, made>>

Close(t) ==
    /\ InCall(t) /\ call[t].op = "close"
    /\ fd' = NoDevice
    /\ Ends(t, "returned")
    /\ UNCHANGED <<port, taken, put, made>>

\* open goes by the port's name, and throws when the descriptor is open
\* already or the port cannot be opened
Open(t) ==
    /\ InCall(t)
    /\ \/ call[t].op = "open"
       \/ call[t].op = "setPort" /\ call[t].step = "opening"
    /\ \/ fd = NoDevice /\ fd' = port /\ Ends(t, "returned")
       \/ fd' = fd /\ Ends(t, "threw")
    /\ UNCHANGED <<port, taken, put, made>>

-----------------------------------------------------------------------------
(* setPort: isOpen, close, the new name, open; a call without lock of      *)
(* another thread may come between any two of them.  An open() that does    *)
(* leaves the old device's descriptor under the new name.                  *)

SetPortClose(t) ==
    /\ InCall(t) /\ call[t].op = "setPort"
    /\ \/ /\ call[t].step = "start"
          /\ call' = [call EXCEPT ![t].step = IF fd = NoDevice THEN "naming" ELSE "closing"]
          /\ fd' = fd
       \/ /\ call[t].step = "closing"
          /\ call' = [call EXCEPT ![t].step = "renaming"]
          /\ fd' = NoDevice
    /\ UNCHANGED <<port, taken, put, made>>

SetPortName(t) ==
    /\ InCall(t) /\ call[t].op = "setPort"
    /\ call[t].step \in {"naming", "renaming"}
    /\ port' = call[t].arg
    /\ IF call[t].step = "renaming"
       THEN call' = [call EXCEPT ![t].step = "opening"]
       ELSE Ends(t, "returned")
    /\ UNCHANGED <<fd, taken, put, made>>

-----------------------------------------------------------------------------
CallStep(t) ==
    \/ Lock(t) \/ Receive(t) \/ ReadTimesOut(t) \/ Transmit(t)
    \/ WriteTimesOut(t) \/ NothingAsked(t) \/ Flush(t) \/ Refused(t)
    \/ Close(t) \/ Open(t) \/ SetPortClose(t) \/ SetPortName(t)

SerialNext == \E t \in Threads : CallStep(t) \/ \E r \in Requests : Call(t, r)

SerialSpec == SerialInit /\ [][SerialNext]_vars

\* the scheduler runs every thread, and a device is read until a time-out
FairSerialSpec == SerialSpec /\ \A t \in Threads : WF_vars(CallStep(t))

-----------------------------------------------------------------------------
Places == Ports \X Nat

\* Type correctness: the fields of the object and of every call keep their
\* types, and a call never holds more locks than it has scoped objects.
SerialTypeOK ==
    /\ fd \in Ports \cup {NoDevice} /\ port \in Ports /\ made \in 0..MaxCalls
    /\ taken \in [Ports -> Nat] /\ put \in [Ports -> Nat]
    /\ \A p \in Ports : taken[p] <= Len(Device[p])
    /\ \A t \in Threads :
          /\ call[t].op \in Operations \cup {"none"}
          /\ call[t].held \in 0..Len(Locks(t))
          /\ call[t].got \in Seq(Places)
          /\ call[t].start \in 0..Len(call[t].got)
          /\ call[t].how \in {"running", "returned", "threw", "overran"}

\* A device follows another among the bytes of a call.
Changes(got) == {i \in 2..Len(got) : got[i][1] # got[i - 1][1]}

\* The calls of open that have found the descriptor closed.
Opened(t) == call[t].op = "open" /\ call[t].how = "returned"
SlippedIn == \E t \in Threads : Opened(t)
SlippedInTwice == \E t, u \in Threads : t # u /\ Opened(t) /\ Opened(u)

\* The bytes one read or write moves are neighbours on the device they come
\* from or go to: no other thread's call comes between them (the scoped locks
\* of serial.cpp:35-62).  They are one device's, but for one case: open() took
\* no lock within a setPort and left the old device under the new name, and
\* close() and open() took none within this call and went over to the new one.
\* So it takes two calls of open, and a call changes its device only once.
BytesStayTogether ==
    \A t \in Threads :
        LET got == call[t].got
        IN  /\ \A i \in (2..Len(got)) \ Changes(got) : got[i][2] = got[i - 1][2] + 1
            /\ \A i, j \in Changes(got) : i = j
            /\ Changes(got) # {} => SlippedInTwice

\* No beginning of the end of line is also its end, as in "\n" and "\r\n":
\* two of them never share a byte.
EolApart ==
    \A d \in 1..(Len(Eol) - 1) : \E k \in 1..(Len(Eol) - d) : Eol[k + d] # Eol[k]

\* readline and readlines give every byte they took to the caller, in lines
\* that hold an end of line at their end or nowhere, and only the last of
\* them may lack one (serial.cpp:172-257).  A call that throws gives nothing,
\* and loses what it had read; so does readlines of a size shorter than the end
\* of line, which leaves its loop before it looks at the bytes.  The loop looks
\* for the end of line in the last bytes of the buffer, not of the line: of two
\* that share a byte, the second is cut off without the bytes they share.
EolsIn(line) == {i \in 1..Len(line) : IsSuffix(Eol, SubSeq(line, 1, i))}
LinesAreCut ==
    \A t \in Threads :
        LET c == call[t]
        IN  /\ c.op \in Readers /\ c.how = "returned"
            /\ c.op = "readlines" => c.arg >= Len(Eol)
            =>
                /\ FlattenSeq(c.lines) = Bytes(c.got)
                /\ c.op # "read" /\ EolApart =>
                     \A i \in 1..Len(c.lines) :
                        /\ EolsIn(c.lines[i]) \subseteq {Len(c.lines[i])}
                        /\ i < Len(c.lines) => EolsIn(c.lines[i]) # {}

\* serial.h:313 of readline's size: "A maximum length of a line, defaults to
\* 65536 (2^16)".  No line a caller gets, or the buffer it is read into, is
\* longer.
LinesFit ==
    \A t \in Threads :
        call[t].op \in {"readline", "readlines"} => Len(call[t].got) <= call[t].arg

\* It is kept for every size but those shorter than the end of line: of these
\* readline takes one byte more than its buffer holds, because it tests for a
\* full buffer only behind "read_so_far < eol_len" (serial.cpp:184-191).
OverrunsOnlyBelowEol ==
    \A t \in Threads :
        LET c == call[t]
        IN  c.op \in {"readline", "readlines"} =>
               IF c.how = "overran"
               THEN c.op = "readline" /\ c.arg < Len(Eol) /\ Len(c.got) = c.arg + 1
               ELSE Len(c.got) <= c.arg

\* A call that has not been made yet has not begun.
NotBegun == \A t \in Threads : t > made => call[t] = NoCall

\* A lock has one holder.
Exclusive ==
    \A t, u \in Threads : t # u =>
        \A lock \in {"r", "w"} : ~(Holds(t, lock) /\ Holds(u, lock))

\* The descriptor is on another device than the port's only if an open has
\* slipped into a setPort.
OnPort == fd \in {NoDevice, port} \/ SlippedIn

\* While setPort changes the name, the descriptor is closed, or an open has
\* slipped in.
Renames ==
    \A t \in Threads :
        call[t].op = "setPort" /\ Running(t) /\ call[t].step # "start" =>
            /\ call[t].held = 2
            /\ call[t].step \in {"naming", "renaming"} => fd = NoDevice \/ SlippedIn

\* While a call moves bytes, the last one it moved is the last one its device
\* has sent, or been sent.  The descriptor is on that device still, or closed;
\* or it was the wrong one and has been opened again, the last time this happens.
AtLast(t, moved) ==
    LET got == call[t].got
        device == got[Len(got)][1]
    IN  Running(t) /\ got # <<>> =>
            /\ call[t].held = 1
            /\ got[Len(got)] = <<device, moved[device]>>
            /\ fd \in {NoDevice, device, port}
            /\ device # port => SlippedIn /\ Changes(got) = {}
            /\ device # port /\ fd = port => SlippedInTwice

ReadsOn == \A t \in Threads : call[t].op \in Readers => AtLast(t, taken)
WritesOn == \A t \in Threads : call[t].op = "write" => AtLast(t, put)
OthersMoveNothing == \A t \in Threads : call[t].op \notin Moves => call[t].got = <<>>

LockInv ==
    /\ NotBegun /\ Exclusive /\ OnPort /\ Renames
    /\ ReadsOn /\ WritesOn /\ OthersMoveNothing

\* The object and its calls are well formed, the locks keep what they are for
\* (serial.cpp:35-62), the descriptor is the port's unless an open slipped in,
\* and a buffer ends where its size says, unless that is shorter than the end
\* of line.
SerialInv == SerialTypeOK /\ LockInv /\ OverrunsOnlyBelowEol

\* A port changes its name under a thread that holds both locks alone: nobody
\* else is inside a read or a write (setPort, serial.cpp:282-291).
PortChangesAlone ==
    [][port' # port =>
         \E t \in Threads :
            \A u \in Threads \ {t} : ~Holds(u, "r") /\ ~Holds(u, "w")]_vars

\* Every call ends: the locks are always taken in the same order, and no
\* thread keeps one while it waits for the other forever.
CallsReturn == \A t \in Threads : Running(t) ~> (~Running(t) \/ Ruined)
=============================================================================
