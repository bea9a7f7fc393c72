------------------------- MODULE SerialPortProofs -------------------------
(***************************************************************************)
(* What TLAPS proves of SerialPort, for all devices, all bytes they send   *)
(* and every number of threads.                                            *)
(***************************************************************************)
EXTENDS SerialPort, SequenceTheorems, WellFoundedInduction, TLAPS

-----------------------------------------------------------------------------
(* The inductive invariant.                                                *)

Fields == {"op", "arg", "held", "step", "got", "start", "lines", "how"}
IsCall(c) == c = [x \in Fields |-> c[x]]

CallTyped(c) ==
    /\ IsCall(c)
    /\ c.op \in Operations \cup {"none"}
    /\ c.held \in 0..Len(LocksOf(c.op))
    /\ c.got \in Seq(Ports \X Nat)
    /\ c.op = "setPort" => c.arg \in Ports

\* The fields have their types.
Typed ==
    /\ port \in Ports /\ fd \in Ports \cup {NoDevice}
    /\ taken \in [Ports -> Nat] /\ put \in [Ports -> Nat]
    /\ made \in Nat
    /\ call = [t \in Threads |-> call[t]]
    /\ \A t \in Threads : CallTyped(call[t])

\* BytesStayTogether, but for what it takes to change the device.
Together(got) ==
    /\ \A i \in (2..Len(got)) \ Changes(got) : got[i][2] = got[i - 1][2] + 1
    /\ \A i, j \in Changes(got) : i = j

\* AtLast of a call that goes on, with what it depends on as parameters: the
\* descriptor, the port's name, and whether one open, or two, have slipped in.
LastOf(got, moved, on, name, once, twice) ==
    LET device == got[Len(got)][1]
    IN  /\ got[Len(got)] = <<device, moved[device]>>
        /\ on \in {NoDevice, device, name}
        /\ device # name => once /\ Changes(got) = {}
        /\ device # name /\ on = name => twice

IInv == Typed /\ LockInv /\ BytesStayTogether

-----------------------------------------------------------------------------
(* Facts about locks and single calls.                                     *)

LEMMA LocksAre ==
    ASSUME NEW op \in Operations \cup {"none"}
    PROVE  /\ op \in Readers => LocksOf(op) = <<"r">>
           /\ op = "write" => LocksOf(op) = <<"w">>
           /\ op = "flushInput" => LocksOf(op) = <<"r">>
           /\ op = "flushOutput" => LocksOf(op) = <<"w">>
           /\ op \in {"setPort", "flush"} => LocksOf(op) = <<"r", "w">>
           /\ op \in {"open", "close", "none"} => LocksOf(op) = <<>>
           /\ Len(LocksOf(op)) \in 0..2
           /\ \A i \in 1..Len(LocksOf(op)) : LocksOf(op)[i] \in {"r", "w"}
  BY DEF LocksOf, Readers, Operations

(* A running call that has all its locks holds each of them.               *)
LEMMA InCallHolds ==
    ASSUME Typed, NEW t \in Threads, InCall(t)
    PROVE  /\ call[t].op \in Readers \cup {"flushInput"} => Holds(t, "r")
           /\ call[t].op = "write" => Holds(t, "w")
           /\ call[t].op \in {"setPort", "flush"} => Holds(t, "r") /\ Holds(t, "w")
  <1>1. CallTyped(call[t])
    BY DEF Typed
  <1>2. call[t].op \in Operations \cup {"none"}
    BY <1>1 DEF CallTyped
  <1>3. Running(t) /\ call[t].held = Len(LocksOf(call[t].op))
    BY DEF InCall, Locks
  <1>4. \A lock : (\E i \in 1..Len(LocksOf(call[t].op)) : LocksOf(call[t].op)[i] = lock)
                  => Holds(t, lock)
    BY <1>3 DEF Holds, Locks
  <1>5. CASE call[t].op \in Readers \cup {"flushInput"}
    <2>1. LocksOf(call[t].op) = <<"r">>
      BY <1>2, <1>5, LocksAre
    <2>2. Holds(t, "r")
      BY <1>4, <2>1
    <2>. QED
      BY <1>5, <2>2 DEF Readers
  <1>6. CASE call[t].op = "write"
    <2>1. LocksOf(call[t].op) = <<"w">>
      BY <1>2, <1>6, LocksAre
    <2>2. Holds(t, "w")
      BY <1>4, <2>1
    <2>. QED
      BY <1>6, <2>2 DEF Readers
  <1>7. CASE call[t].op \in {"setPort", "flush"}
    <2>1. LocksOf(call[t].op) = <<"r", "w">>
      BY <1>2, <1>7, LocksAre
    <2>2. Holds(t, "r") /\ Holds(t, "w")
      BY <1>4, <2>1
    <2>. QED
      BY <1>7, <2>2 DEF Readers
  <1>. QED
    BY <1>5, <1>6, <1>7

(* An AtLast that holds is kept when the descriptor is closed, and when it is *)
(* opened again by the port's name.                                        *)
LEMMA AtLastIs ==
    ASSUME NEW t \in Threads, NEW moved
    PROVE  AtLast(t, moved) <=>
             (Running(t) /\ call[t].got # <<>> =>
                /\ call[t].held = 1
                /\ LastOf(call[t].got, moved, fd, port, SlippedIn, SlippedInTwice))
  BY DEF AtLast, LastOf

LEMMA LastStays ==
    ASSUME NEW got, NEW moved, NEW on, NEW name \in Ports, NEW once, NEW twice,
           NEW on2, NEW once2, NEW twice2,
           LastOf(got, moved, on, name, once, twice),
           once => once2, twice => twice2,
           on2 \in {on, NoDevice} \/ (on2 = name /\ (once => twice2))
    PROVE  LastOf(got, moved, on2, name, once2, twice2)
  <1>1. NoDevice # name
    BY SerialAssumption
  <1>. QED
    BY <1>1 DEF LastOf

LEMMA GivenIs ==
    ASSUME NEW c, IsCall(c), NEW lines
    PROVE  LET d == Given(c, lines)
           IN  /\ IsCall(d) /\ d.op = c.op /\ d.arg = c.arg /\ d.got = c.got
               /\ d.held = 0 /\ d.how = "returned"
  BY DEF IsCall, Fields, Given

(* What reading a byte makes of a call, whatever the byte.                 *)
LEMMA AfterByteKeeps ==
    ASSUME NEW c, IsCall(c), c.op \in Readers
    PROVE  /\ IsCall(AfterByte(c))
           /\ AfterByte(c).op = c.op /\ AfterByte(c).arg = c.arg
           /\ AfterByte(c).got = c.got
           /\ \/ AfterByte(c).held = c.held /\ AfterByte(c).how = c.how
              \/ AfterByte(c).held \in {0, c.held} /\ AfterByte(c).how # "running"
  <1>1. \A lines : LET d == Given(c, lines)
                   IN  /\ IsCall(d) /\ d.op = c.op /\ d.arg = c.arg /\ d.got = c.got
                       /\ d.held = 0 /\ d.how = "returned"
    BY GivenIs
  <1>2. CASE c.op = "read"
    BY <1>1, <1>2 DEF AfterByte
  <1>3. CASE c.op = "readline"
    <2>1. LET d == [c EXCEPT !.how = "overran"]
          IN  /\ IsCall(d) /\ d.op = c.op /\ d.arg = c.arg /\ d.got = c.got
              /\ d.held = c.held /\ d.how = "overran"
      BY DEF IsCall, Fields
    <2>. QED
      BY <1>1, <1>3, <2>1 DEF AfterByte, Readline
  <1>4. CASE c.op = "readlines"
    <2>. DEFINE d == ReadlinesCut(c)
    <2>1. /\ IsCall(d) /\ d.op = c.op /\ d.arg = c.arg /\ d.got = c.got
          /\ d.held = c.held /\ d.how = c.how
      BY DEF ReadlinesCut, IsCall, Fields
    <2>2. \A lines : LET e == Given(d, lines)
                     IN  /\ IsCall(e) /\ e.op = c.op /\ e.arg = c.arg /\ e.got = c.got
                         /\ e.held = 0 /\ e.how = "returned"
      BY <2>1, GivenIs
    <2>3. AfterByte(c) = Readlines(c)
      BY <1>4 DEF AfterByte
    <2>4. Readlines(c) = d \/ \E lines : Readlines(c) = Given(d, lines)
      BY DEF Readlines
    <2>. HIDE DEF d
    <2>. QED
      BY <2>1, <2>2, <2>3, <2>4
  <1>. QED
    BY <1>2, <1>3, <1>4 DEF Readers

-----------------------------------------------------------------------------
(* Steps of a call.                                                        *)

(* What every step of thread t, but the taking of a lock, makes of its     *)
(* call: the request stays, and a call that gives up its locks has ended.  *)
Becomes(t, c) ==
    /\ call' = [call EXCEPT ![t] = c]
    /\ IsCall(c) /\ c.op = call[t].op /\ c.arg = call[t].arg
    /\ \/ c.held = call[t].held /\ c.how = call[t].how
       \/ c.held \in {0, call[t].held} /\ c.how # "running"

LEMMA StepKeepsLocks ==
    ASSUME IInv, NEW t \in Threads, NEW c, Running(t), Becomes(t, c), made' = made
    PROVE  /\ call' = [u \in Threads |-> call'[u]]
           /\ call'[t] = c
           /\ \A u \in Threads : u # t => call'[u] = call[u]
           /\ \A u \in Threads : call'[u].op = call[u].op
           /\ \A u \in Threads : \A lock : Holds(u, lock)' => Holds(u, lock)
           /\ NotBegun' /\ Exclusive'
           /\ SlippedIn => SlippedIn'
           /\ SlippedInTwice => SlippedInTwice'
           /\ c.op = "open" /\ c.how = "returned" /\ SlippedIn => SlippedInTwice'
  <1>1. /\ call' = [u \in Threads |-> call'[u]]
        /\ call'[t] = c
        /\ \A u \in Threads : u # t => call'[u] = call[u]
    BY DEF IInv, Typed, Becomes
  <1>2. \A u \in Threads : call'[u].op = call[u].op
    BY <1>1 DEF Becomes
  <1>3. ASSUME NEW u \in Threads, NEW lock, Holds(u, lock)' PROVE Holds(u, lock)
    <2>1. CASE u # t
      <3>1. call'[u] = call[u]
        BY <1>1, <2>1
      <3>. QED
        BY <1>3, <3>1 DEF Holds, Running, Locks
    <2>2. CASE u = t
      <3>1. /\ c.how = "running"
            /\ \E i \in 1..c.held : LocksOf(c.op)[i] = lock
        BY <1>1, <1>3, <2>2 DEF Holds, Running, Locks
      <3>2. c.held = call[t].held /\ c.op = call[t].op
        BY <3>1 DEF Becomes
      <3>. QED
        BY <2>2, <3>1, <3>2 DEF Holds, Running, Locks
    <2>. QED
      BY <2>1, <2>2
  <1>4. NotBegun'
    <2>1. ~(t > made)
      BY DEF IInv, LockInv, NotBegun, Running, NoCall
    <2>. QED
      BY <1>1, <2>1 DEF IInv, LockInv, NotBegun
  <1>5. Exclusive'
    BY <1>3 DEF IInv, LockInv, Exclusive
  <1>6. \A u \in Threads : Opened(u) => u # t /\ Opened(u)'
    BY <1>1 DEF Opened, Running
  <1>7. /\ SlippedIn => SlippedIn'
        /\ SlippedInTwice => SlippedInTwice'
        /\ c.op = "open" /\ c.how = "returned" /\ SlippedIn => SlippedInTwice'
    BY <1>1, <1>6 DEF SlippedIn, SlippedInTwice, Opened
  <1>. QED
    BY <1>1, <1>2, <1>3, <1>4, <1>5, <1>7

(* The thread holds both locks: nobody reads, writes or renames the port.  *)
Alone(t) == Holds(t, "r") /\ Holds(t, "w") /\ call[t].op \notin Moves

(* A call that moves bytes holds its lock.                                 *)
LEMMA MoversHold ==
    ASSUME IInv, NEW t \in Threads, Running(t), call[t].held = 1
    PROVE  /\ call[t].op \in Readers => Holds(t, "r")
           /\ call[t].op = "write" => Holds(t, "w")
  <1>1. call[t].op \in Operations \cup {"none"}
    BY DEF IInv, Typed, CallTyped
  <1>2. /\ call[t].op \in Readers => LocksOf(call[t].op) = <<"r">>
        /\ call[t].op = "write" => LocksOf(call[t].op) = <<"w">>
    BY <1>1, LocksAre
  <1>. QED
    BY <1>2 DEF Holds, Locks

(* A step that moves no byte of its own keeps the invariant, if it holds   *)
(* the locks of what it changes.                                           *)
LEMMA QuietStep ==
    ASSUME IInv, NEW t \in Threads, NEW c, Running(t), Becomes(t, c), made' = made,
           c.got = call[t].got,
           port' \in Ports, fd' \in Ports \cup {NoDevice}, taken' \in [Ports -> Nat], put' = put,
           \/ port' = port /\ fd' \in {fd, NoDevice}
           \/ /\ port' = port /\ fd = NoDevice /\ fd' = port
              /\ (c.op = "open" /\ c.how = "returned") \/ Alone(t)
           \/ Alone(t) /\ fd' = fd /\ (fd = NoDevice \/ SlippedIn),
           c.op = "setPort" /\ c.how = "running" /\ c.step # "start" =>
              /\ c.held = 2
              /\ c.step \in {"naming", "renaming"} => fd' = NoDevice \/ SlippedIn,
           \/ taken' = taken
           \/ Holds(t, "r") /\ call[t].op \notin Readers
    PROVE  IInv'
  <1>1. /\ call' = [u \in Threads |-> call'[u]]
        /\ call'[t] = c
        /\ \A u \in Threads : u # t => call'[u] = call[u]
        /\ \A u \in Threads : call'[u].op = call[u].op
        /\ NotBegun' /\ Exclusive'
        /\ SlippedIn => SlippedIn'
        /\ SlippedInTwice => SlippedInTwice'
        /\ c.op = "open" /\ c.how = "returned" /\ SlippedIn => SlippedInTwice'
    BY StepKeepsLocks
  <1>2. \A u \in Threads : call'[u].got = call[u].got
    BY <1>1
  <1>3. \A u \in Threads : Running(u)' => Running(u) /\ call'[u].held = call[u].held
    BY <1>1 DEF Becomes, Running
  <1>4. \A u \in Threads : CallTyped(call[u])
    BY DEF IInv, Typed
  <1>5. Typed'
    <2>1. ASSUME NEW u \in Threads PROVE CallTyped(call'[u])
      <3>1. CASE u # t
        BY <1>1, <1>4, <3>1
      <3>2. CASE u = t
        <4>1. Len(LocksOf(c.op)) \in 0..2
          BY <1>4, LocksAre DEF CallTyped, Becomes
        <4>2. CallTyped(c)
          BY <1>4, <4>1 DEF CallTyped, Becomes
        <4>. QED
          BY <1>1, <3>2, <4>2
      <3>. QED
        BY <3>1, <3>2
    <2>. QED
      BY <1>1, <2>1 DEF IInv, Typed
  <1>6. ASSUME NEW u \in Threads, NEW moved, AtLast(u, moved), call[u].op \in Moves,
               Running(u)', call[u].got # <<>>
        PROVE  /\ call'[u].held = 1
               /\ call[u].op \in Readers => taken' = taken
               /\ LastOf(call'[u].got, moved, fd', port', SlippedIn', SlippedInTwice')
    <2>1. /\ call[u].held = 1 /\ Running(u)
          /\ LastOf(call[u].got, moved, fd, port, SlippedIn, SlippedInTwice)
      BY <1>3, <1>6, AtLastIs
    <2>2. /\ call[u].op \in Readers => Holds(u, "r")
          /\ call[u].op = "write" => Holds(u, "w")
      BY <2>1, MoversHold
    <2>3. ~ Alone(t)
      BY <1>6, <2>2 DEF Alone, IInv, LockInv, Exclusive, Moves
    <2>4. call[u].op \in Readers => taken' = taken
      BY <1>6, <2>2 DEF IInv, LockInv, Exclusive
    <2>5. /\ port' = port /\ port \in Ports
          /\ fd' \in {fd, NoDevice} \/ (fd' = port /\ (SlippedIn => SlippedInTwice'))
      BY <1>1, <2>3 DEF IInv, Typed
    <2>6. LastOf(call[u].got, moved, fd', port, SlippedIn', SlippedInTwice')
      BY <1>1, <2>1, <2>5, LastStays
    <2>. QED
      BY <1>2, <1>3, <1>6, <2>1, <2>4, <2>5, <2>6
  <1>7. ReadsOn'
    <2>1. ASSUME NEW u \in Threads, call'[u].op \in Readers, Running(u)', call'[u].got # <<>>
          PROVE  /\ call'[u].held = 1
                 /\ LastOf(call'[u].got, taken', fd', port', SlippedIn', SlippedInTwice')
      <3>1. call[u].op \in Readers /\ AtLast(u, taken) /\ call[u].got # <<>>
        BY <1>1, <1>2, <2>1 DEF IInv, LockInv, ReadsOn
      <3>2. call[u].op \in Moves
        BY <3>1 DEF Moves
      <3>. QED
        BY <1>6, <2>1, <3>1, <3>2
    <2>. QED
      BY <2>1 DEF ReadsOn, AtLast, LastOf, Running
  <1>8. WritesOn'
    <2>1. ASSUME NEW u \in Threads, call'[u].op = "write", Running(u)', call'[u].got # <<>>
          PROVE  /\ call'[u].held = 1
                 /\ LastOf(call'[u].got, put', fd', port', SlippedIn', SlippedInTwice')
      <3>1. call[u].op = "write" /\ AtLast(u, put) /\ call[u].got # <<>>
        BY <1>1, <1>2, <2>1 DEF IInv, LockInv, WritesOn
      <3>2. call[u].op \in Moves
        BY <3>1 DEF Moves
      <3>. QED
        BY <1>6, <2>1, <3>1, <3>2
    <2>. QED
      BY <2>1 DEF WritesOn, AtLast, LastOf, Running
  <1>9. OthersMoveNothing'
    BY <1>1, <1>2 DEF IInv, LockInv, OthersMoveNothing
  <1>10. OnPort'
    <2>1. fd \in {NoDevice, port} \/ SlippedIn
      BY DEF IInv, LockInv, OnPort
    <2>2. fd' \in {NoDevice, port'} \/ SlippedIn
      BY <2>1
    <2>. QED
      BY <1>1, <2>2 DEF OnPort
  <1>11. Renames'
    <2>1. ASSUME NEW u \in Threads, call'[u].op = "setPort", Running(u)', call'[u].step # "start"
          PROVE  /\ call'[u].held = 2
                 /\ call'[u].step \in {"naming", "renaming"} => fd' = NoDevice \/ SlippedIn'
      <3>1. CASE u = t
        BY <1>1, <2>1, <3>1 DEF Running
      <3>2. CASE u # t
        <4>1. call'[u] = call[u] /\ Running(u)
          BY <1>1, <1>3, <2>1, <3>2
        <4>2. /\ call[u].held = 2
              /\ call[u].step \in {"naming", "renaming"} => fd = NoDevice \/ SlippedIn
          BY <2>1, <4>1 DEF IInv, LockInv, Renames
        <4>3. LocksOf(call[u].op) = <<"r", "w">>
          BY <1>4, <2>1, <4>1, LocksAre DEF CallTyped
        <4>4. Holds(u, "r")
          BY <4>1, <4>2, <4>3 DEF Holds, Locks
        <4>5. ~ Alone(t)
          BY <3>2, <4>4 DEF Alone, IInv, LockInv, Exclusive
        <4>6. c.op = "open" /\ c.how = "returned" => SlippedIn'
          BY <1>1 DEF SlippedIn, Opened
        <4>. QED
          BY <1>1, <4>1, <4>2, <4>5, <4>6
      <3>. QED
        BY <3>1, <3>2
    <2>. QED
      BY <2>1 DEF Renames
  <1>12. BytesStayTogether'
    <2>1. \A u \in Threads : /\ Together(call[u].got)
                             /\ Changes(call[u].got) # {} => SlippedInTwice
      BY DEF IInv, BytesStayTogether, Together
    <2>2. \A u \in Threads : /\ Together(call'[u].got)
                             /\ Changes(call'[u].got) # {} => SlippedInTwice'
      BY <1>1, <1>2, <2>1
    <2>. QED
      BY <2>2 DEF BytesStayTogether, Together
  <1>. QED
    BY <1>1, <1>5, <1>7, <1>8, <1>9, <1>10, <1>11, <1>12 DEF IInv, LockInv

\* What a call's bytes are with one more, the device's n-th.
Grown(got, device, n, more) ==
    /\ more \in Seq(Ports \X Nat) /\ more # <<>>
    /\ more[Len(more)] = <<device, n>>
    /\ got = <<>> => Changes(more) = {} /\ Together(more)
    /\ got # <<>> /\ got[Len(got)] = <<device, n - 1>> =>
         Changes(more) = Changes(got) /\ Together(more)
    /\ got # <<>> /\ got[Len(got)][1] # device /\ Changes(got) = {} => Together(more)

(* The devices of a call's bytes, and one byte more.                       *)
LEMMA OneByteMore ==
    ASSUME NEW got \in Seq(Ports \X Nat), NEW device \in Ports, NEW n \in Nat, NEW more,
           more = Append(got, <<device, n>>), Together(got)
    PROVE  Grown(got, device, n, more)
  <1>1. /\ <<device, n>> \in Ports \X Nat
        /\ <<device, n>>[1] = device /\ <<device, n>>[2] = n
    OBVIOUS
  <1>2. /\ more \in Seq(Ports \X Nat) /\ more # <<>>
        /\ Len(got) \in Nat /\ Len(more) = Len(got) + 1
        /\ more[Len(more)] = <<device, n>>
        /\ \A i \in 1..Len(got) : more[i] = got[i]
    BY <1>1
  <1>3. \A i \in 2..Len(got) : more[i] = got[i] /\ more[i - 1] = got[i - 1]
    BY <1>2
  <1>4. got # <<>> => Len(got) >= 1
    BY <1>2
  <1>5. CASE got = <<>>
    <2>1. Len(more) = 1
      BY <1>2, <1>5
    <2>2. 2..Len(more) = {}
      BY <2>1
    <2>3. Changes(more) = {}
      BY <2>2 DEF Changes
    <2>. QED
      BY <1>2, <1>5, <2>2, <2>3 DEF Together, Grown
  <1>6. CASE got # <<>>
    <2>. DEFINE k == Len(got) + 1
    <2>1. 2..Len(more) = (2..Len(got)) \cup {k} /\ k \notin 2..Len(got) /\ k - 1 = Len(got)
      BY <1>2, <1>4, <1>6
    <2>2. more[k] = <<device, n>> /\ more[k - 1] = got[Len(got)]
      BY <1>2, <1>4, <1>6
    <2>. HIDE DEF k
    <2>3. Changes(more) = Changes(got) \cup {i \in {k} : got[Len(got)][1] # device}
      BY <1>1, <1>3, <2>1, <2>2 DEF Changes
    <2>4. \A i \in (2..Len(got)) \ Changes(more) : more[i][2] = more[i - 1][2] + 1
      BY <1>3, <2>3 DEF Together
    <2>5. CASE got[Len(got)] = <<device, n - 1>>
      <3>1. got[Len(got)][1] = device /\ got[Len(got)][2] = n - 1
        BY <2>5
      <3>2. Changes(more) = Changes(got)
        BY <2>3, <3>1
      <3>3. more[k][2] = more[k - 1][2] + 1
        <4>1. more[k][2] = n /\ more[k - 1][2] = n - 1
          BY <1>1, <2>2, <3>1, Zenon
        <4>2. n = (n - 1) + 1
          OBVIOUS
        <4>. QED
          BY <4>1, <4>2, Zenon
      <3>4. Together(more)
        BY <2>1, <2>4, <3>2, <3>3 DEF Together
      <3>. QED
        BY <1>2, <1>6, <3>1, <3>2, <3>4 DEF Grown
    <2>6. CASE got[Len(got)][1] # device /\ Changes(got) = {}
      <3>1. Changes(more) = {k}
        BY <2>3, <2>6
      <3>2. Together(more)
        BY <2>1, <2>4, <3>1 DEF Together
      <3>3. got[Len(got)] # <<device, n - 1>>
        BY <2>6
      <3>. QED
        BY <1>2, <1>6, <3>2, <3>3 DEF Grown
    <2>. QED
      BY <1>2, <1>6, <2>5, <2>6 DEF Grown
  <1>. QED
    BY <1>5, <1>6

(* A step that moves one byte keeps the invariant: nobody else moves bytes  *)
(* of that kind, so the byte is the neighbour of the one before, or the     *)
(* first of the port's own device.                                         *)
LEMMA ByteStep ==
    ASSUME IInv, NEW t \in Threads, NEW c, Running(t), Becomes(t, c), fd \in Ports,
           NEW moved \in [Ports -> Nat], NEW now \in [Ports -> Nat],
           now[fd] = moved[fd] + 1,
           c.got = Append(call[t].got, <<fd, now[fd]>>),
           AtLast(t, moved),
           call[t].held = 1
    PROVE  /\ CallTyped(c) /\ Together(c.got)
           /\ c.how = "running" => c.held = 1
           /\ Changes(c.got) # {} => SlippedInTwice
           /\ LastOf(c.got, now, fd, port, SlippedIn, SlippedInTwice)
           /\ c.got # <<>>
  <1>. DEFINE got == call[t].got
  <1>1. CallTyped(call[t]) /\ got \in Seq(Ports \X Nat) /\ now[fd] \in Nat /\ port \in Ports
    BY DEF IInv, Typed, CallTyped
  <1>2. Together(got) /\ (Changes(got) # {} => SlippedInTwice)
    BY DEF IInv, BytesStayTogether, Together
  <1>3. /\ c.got \in Seq(Ports \X Nat) /\ c.got # <<>>
        /\ c.got[Len(c.got)] = <<fd, now[fd]>>
        /\ got = <<>> => Changes(c.got) = {} /\ Together(c.got)
        /\ got # <<>> /\ got[Len(got)] = <<fd, now[fd] - 1>> =>
             Changes(c.got) = Changes(got) /\ Together(c.got)
        /\ got # <<>> /\ got[Len(got)][1] # fd /\ Changes(got) = {} => Together(c.got)
    <2>1. c.got = Append(got, <<fd, now[fd]>>)
      OBVIOUS
    <2>2. Grown(got, fd, now[fd], c.got)
      <3>. HIDE DEF got
      <3>. QED
        BY <1>1, <1>2, <2>1, OneByteMore
    <2>. QED
      BY <2>2 DEF Grown
  <1>4. CallTyped(c)
    <2>1. Len(LocksOf(c.op)) \in 0..2
      BY <1>1, LocksAre DEF CallTyped, Becomes
    <2>. QED
      BY <1>1, <1>3, <2>1 DEF CallTyped, Becomes
  <1>5. c.got[Len(c.got)][1] = fd /\ fd # NoDevice
    BY <1>3, SerialAssumption
  <1>6. c.how = "running" => c.held = 1
    BY DEF Becomes
  <1>7. CASE got = <<>>
    <2>1. fd # port => SlippedIn
      BY <1>5 DEF IInv, LockInv, OnPort
    <2>. QED
      BY <1>3, <1>4, <1>5, <1>6, <1>7, <2>1 DEF LastOf
  <1>8. CASE got # <<>>
    <2>. DEFINE device == got[Len(got)][1]
    <2>1. LastOf(got, moved, fd, port, SlippedIn, SlippedInTwice)
      BY <1>8, AtLastIs
    <2>2. /\ got[Len(got)] = <<device, moved[device]>>
          /\ fd \in {device, port}
          /\ device # port => SlippedIn /\ Changes(got) = {}
          /\ device # port /\ fd = port => SlippedInTwice
      BY <1>5, <2>1 DEF LastOf
    <2>. HIDE DEF device
    <2>3. CASE fd = device
      <3>1. now[fd] - 1 = moved[fd]
        OBVIOUS
      <3>2. Changes(c.got) = Changes(got) /\ Together(c.got)
        BY <1>3, <1>8, <2>2, <2>3, <3>1
      <3>. QED
        BY <1>2, <1>3, <1>4, <1>5, <1>6, <2>2, <2>3, <3>2 DEF LastOf
    <2>4. CASE fd # device
      <3>1. fd = port /\ Changes(got) = {} /\ SlippedInTwice
        BY <2>2, <2>4
      <3>2. Together(c.got)
        BY <1>3, <1>8, <2>4, <3>1 DEF device
      <3>. QED
        BY <1>3, <1>4, <1>5, <1>6, <3>1, <3>2 DEF LastOf
    <2>. QED
      BY <2>3, <2>4
  <1>. QED
    BY <1>7, <1>8

-----------------------------------------------------------------------------
(* The actions.                                                            *)

LEMMA Locking ==
    ASSUME IInv, NEW t \in Threads, Lock(t)
    PROVE  IInv'
  <1>. DEFINE lock == Locks(t)[call[t].held + 1]
              c == [call[t] EXCEPT !.held = @ + 1]
  <1>1. /\ CallTyped(call[t]) /\ Running(t)
        /\ call[t].held < Len(LocksOf(call[t].op))
        /\ \A u \in Threads : ~Holds(u, lock)
    BY DEF IInv, Typed, Lock, Locks
  <1>2. /\ IsCall(c) /\ c.op = call[t].op /\ c.arg = call[t].arg /\ c.how = call[t].how
        /\ c.got = call[t].got /\ c.held = call[t].held + 1
    BY <1>1 DEF CallTyped, IsCall, Fields
  <1>3. /\ call' = [u \in Threads |-> call'[u]]
        /\ call'[t] = c
        /\ \A u \in Threads : u # t => call'[u] = call[u]
        /\ UNCHANGED <<fd, port, taken, put, made>>
    BY DEF IInv, Typed, Lock
  <1>. HIDE DEF c
  <1>4. call[t].got = <<>>
    <2>1. CASE call[t].op \in Readers
      <3>1. LocksOf(call[t].op) = <<"r">>
        BY <1>1, <2>1, LocksAre DEF CallTyped
      <3>2. call[t].held # 1
        BY <1>1, <3>1 DEF CallTyped
      <3>. QED
        BY <1>1, <2>1, <3>2 DEF IInv, LockInv, ReadsOn, AtLast
    <2>2. CASE call[t].op = "write"
      <3>1. LocksOf(call[t].op) = <<"w">>
        BY <1>1, <2>2, LocksAre DEF CallTyped
      <3>2. call[t].held # 1
        BY <1>1, <3>1 DEF CallTyped
      <3>. QED
        BY <1>1, <2>2, <3>2 DEF IInv, LockInv, WritesOn, AtLast
    <2>. QED
      BY <2>1, <2>2 DEF IInv, LockInv, OthersMoveNothing, Moves
  <1>5. \A u \in Threads : call'[u].op = call[u].op /\ call'[u].got = call[u].got
    BY <1>2, <1>3
  <1>6. Typed'
    <2>1. Len(LocksOf(c.op)) \in 0..2
      BY <1>1, <1>2, LocksAre DEF CallTyped
    <2>2. CallTyped(c)
      BY <1>1, <1>2, <2>1 DEF CallTyped
    <2>3. \A u \in Threads : CallTyped(call'[u])
      BY <1>3, <2>2 DEF IInv, Typed
    <2>. QED
      BY <1>3, <2>3 DEF IInv, Typed
  <1>7. NotBegun'
    <2>1. ~(t > made)
      BY <1>1 DEF IInv, LockInv, NotBegun, Running, NoCall
    <2>. QED
      BY <1>3, <2>1 DEF IInv, LockInv, NotBegun
  <1>8. Exclusive'
    <2>1. ASSUME NEW u \in Threads, NEW l, u # t, Holds(u, l)' PROVE Holds(u, l)
      BY <1>3, <2>1 DEF Holds, Running, Locks
    <2>2. ASSUME NEW l, Holds(t, l)', l # lock PROVE Holds(t, l)
      <3>1. PICK i \in 1..c.held : LocksOf(call[t].op)[i] = l
        BY <1>2, <1>3, <2>2 DEF Holds, Locks
      <3>2. i # call[t].held + 1
        BY <2>2, <3>1 DEF Locks
      <3>3. i \in 1..call[t].held
        BY <1>1, <1>2, <3>1, <3>2 DEF CallTyped
      <3>. QED
        BY <1>1, <3>1, <3>3 DEF Holds, Locks
    <2>. QED
      BY <1>1, <2>1, <2>2 DEF IInv, LockInv, Exclusive
  <1>9. /\ SlippedIn' = SlippedIn /\ SlippedInTwice' = SlippedInTwice
        /\ \A u \in Threads : Opened(u)' <=> Opened(u)
    <2>1. \A u \in Threads : Opened(u)' <=> Opened(u)
      BY <1>2, <1>3 DEF Opened
    <2>. QED
      BY <2>1 DEF SlippedIn, SlippedInTwice
  <1>10. ReadsOn' /\ WritesOn'
    <2>1. ASSUME NEW u \in Threads, NEW moved, AtLast(u, moved), Running(u)', call'[u].got # <<>>
          PROVE  /\ call'[u].held = 1
                 /\ LastOf(call'[u].got, moved, fd, port, SlippedIn, SlippedInTwice)
      <3>1. u # t /\ call'[u] = call[u] /\ Running(u)
        BY <1>2, <1>3, <1>4, <2>1 DEF Running
      <3>. QED
        BY <2>1, <3>1, AtLastIs
    <2>2. ReadsOn'
      BY <1>3, <1>5, <1>9, <2>1 DEF IInv, LockInv, ReadsOn, AtLast, LastOf, Running
    <2>3. WritesOn'
      BY <1>3, <1>5, <1>9, <2>1 DEF IInv, LockInv, WritesOn, AtLast, LastOf, Running
    <2>. QED
      BY <2>2, <2>3
  <1>11. OthersMoveNothing'
    BY <1>5 DEF IInv, LockInv, OthersMoveNothing
  <1>12. BytesStayTogether'
    BY <1>5, <1>9 DEF IInv, BytesStayTogether
  <1>13. OnPort'
    BY <1>3, <1>9 DEF IInv, LockInv, OnPort
  <1>14. Renames'
    <2>1. ASSUME call[t].op = "setPort" PROVE call[t].step = "start"
      <3>1. LocksOf(call[t].op) = <<"r", "w">>
        BY <1>1, <2>1, LocksAre DEF CallTyped
      <3>2. call[t].held # 2
        BY <1>1, <3>1
      <3>. QED
        BY <1>1, <2>1, <3>2 DEF IInv, LockInv, Renames
    <2>2. c.step = call[t].step
      BY <1>1 DEF c, CallTyped, IsCall, Fields
    <2>. QED
      BY <1>2, <1>3, <1>9, <2>1, <2>2 DEF IInv, LockInv, Renames, Running
  <1>. QED
    BY <1>6, <1>7, <1>8, <1>10, <1>11, <1>12, <1>13, <1>14 DEF IInv, LockInv

LEMMA Receiving ==
    ASSUME IInv, NEW t \in Threads, Receive(t)
    PROVE  IInv'
  <1>. DEFINE b == WithByte(call[t], taken)
              c == AfterByte(b)
  <1>1. /\ CallTyped(call[t]) /\ InCall(t) /\ Running(t) /\ call[t].op \in Readers
        /\ fd \in Ports /\ taken \in [Ports -> Nat]
    BY DEF IInv, Typed, Receive, InCall
  <1>2. /\ IsCall(b) /\ b.op = call[t].op /\ b.arg = call[t].arg /\ b.how = call[t].how
        /\ b.held = call[t].held
        /\ b.got = Append(call[t].got, <<fd, taken[fd] + 1>>)
    BY <1>1 DEF CallTyped, IsCall, Fields, WithByte
  <1>3. /\ call' = [call EXCEPT ![t] = c]
        /\ taken' = [taken EXCEPT ![fd] = @ + 1]
        /\ UNCHANGED <<fd, port, put, made>>
    BY DEF Receive
  <1>. HIDE DEF b
  <1>4. Becomes(t, c) /\ c.got = Append(call[t].got, <<fd, taken[fd] + 1>>)
    <2>1. /\ IsCall(c) /\ c.op = b.op /\ c.arg = b.arg /\ c.got = b.got
          /\ \/ c.held = b.held /\ c.how = b.how
             \/ c.held \in {0, b.held} /\ c.how # "running"
      BY <1>1, <1>2, AfterByteKeeps
    <2>. HIDE DEF c
    <2>. QED
      BY <1>2, <1>3, <2>1 DEF Becomes
  <1>. HIDE DEF c
  <1>5. Holds(t, "r") /\ call[t].held = 1
    <2>1. LocksOf(call[t].op) = <<"r">>
      BY <1>1, LocksAre DEF CallTyped
    <2>2. Holds(t, "r")
      BY <1>1, InCallHolds DEF IInv
    <2>. QED
      BY <1>1, <2>1, <2>2 DEF InCall, Locks
  <1>6. taken' \in [Ports -> Nat] /\ taken'[fd] = taken[fd] + 1
    BY <1>1, <1>3
  <1>7. AtLast(t, taken)
    BY <1>1 DEF IInv, LockInv, ReadsOn
  <1>8. /\ CallTyped(c) /\ Together(c.got)
        /\ c.how = "running" => c.held = 1
        /\ Changes(c.got) # {} => SlippedInTwice
        /\ LastOf(c.got, taken', fd, port, SlippedIn, SlippedInTwice)
        /\ c.got # <<>>
    BY <1>1, <1>4, <1>5, <1>6, <1>7, ByteStep
  <1>9. /\ call' = [u \in Threads |-> call'[u]]
        /\ call'[t] = c
        /\ \A u \in Threads : u # t => call'[u] = call[u]
        /\ NotBegun' /\ Exclusive'
        /\ SlippedIn => SlippedIn'
        /\ SlippedInTwice => SlippedInTwice'
    BY <1>1, <1>3, <1>4, StepKeepsLocks
  <1>10. Typed'
    <2>1. \A u \in Threads : CallTyped(call'[u])
      BY <1>8, <1>9 DEF IInv, Typed
    <2>. QED
      BY <1>3, <1>6, <1>9, <2>1 DEF IInv, Typed
  <1>11. port \in Ports /\ fd' \in {fd, NoDevice} /\ port' = port
    BY <1>3 DEF IInv, Typed
  <1>12. ASSUME NEW u \in Threads, NEW moved,
                LastOf(call'[u].got, moved, fd, port, SlippedIn, SlippedInTwice)
         PROVE  LastOf(call'[u].got, moved, fd', port', SlippedIn', SlippedInTwice')
    <2>1. LastOf(call'[u].got, moved, fd', port, SlippedIn', SlippedInTwice')
      BY <1>9, <1>11, <1>12, LastStays
    <2>. QED
      BY <1>11, <2>1
  <1>13. ReadsOn'
    <2>1. ASSUME NEW u \in Threads, call'[u].op \in Readers, Running(u)', call'[u].got # <<>>
          PROVE  call'[u].held = 1
                 /\ LastOf(call'[u].got, taken', fd', port', SlippedIn', SlippedInTwice')
      <3>1. CASE u = t
        BY <1>8, <1>9, <1>12, <2>1, <3>1 DEF Running
      <3>2. CASE u # t
        <4>1. call'[u] = call[u]
          BY <1>9, <3>2
        <4>2. call[u].held = 1 /\ Running(u)
          BY <2>1, <4>1 DEF IInv, LockInv, ReadsOn, AtLast, Running
        <4>3. Holds(u, "r")
          BY <2>1, <4>1, <4>2, MoversHold
        <4>. QED
          BY <1>5, <3>2, <4>3 DEF IInv, LockInv, Exclusive
      <3>. QED
        BY <3>1, <3>2
    <2>. QED
      BY <2>1 DEF ReadsOn, AtLast, LastOf, Running
  <1>14. c.op # "write" /\ c.op \in Moves /\ c.op # "setPort"
    BY <1>1, <1>4 DEF Becomes, Readers, Moves
  <1>15. WritesOn'
    <2>1. ASSUME NEW u \in Threads, call'[u].op = "write", Running(u)', call'[u].got # <<>>
          PROVE  call'[u].held = 1
                 /\ LastOf(call'[u].got, put', fd', port', SlippedIn', SlippedInTwice')
      <3>1. u # t /\ call'[u] = call[u]
        BY <1>9, <1>14, <2>1
      <3>2. AtLast(u, put) /\ Running(u) /\ put' = put
        BY <1>3, <2>1, <3>1 DEF IInv, LockInv, WritesOn, Running
      <3>3. call[u].held = 1
            /\ LastOf(call[u].got, put, fd, port, SlippedIn, SlippedInTwice)
        BY <2>1, <3>1, <3>2, AtLastIs
      <3>. QED
        BY <1>12, <3>1, <3>2, <3>3
    <2>. QED
      BY <2>1 DEF WritesOn, AtLast, LastOf, Running
  <1>16. OthersMoveNothing'
    BY <1>9, <1>14 DEF IInv, LockInv, OthersMoveNothing
  <1>17. BytesStayTogether'
    <2>1. ASSUME NEW u \in Threads
          PROVE  Together(call'[u].got) /\ (Changes(call'[u].got) # {} => SlippedInTwice')
      <3>1. Together(call[u].got) /\ (Changes(call[u].got) # {} => SlippedInTwice)
        BY DEF IInv, BytesStayTogether, Together
      <3>. QED
        BY <1>8, <1>9, <3>1
    <2>. QED
      BY <2>1 DEF BytesStayTogether, Together
  <1>18. OnPort'
    BY <1>3, <1>9 DEF IInv, LockInv, OnPort
  <1>19. Renames'
    BY <1>3, <1>9, <1>14 DEF IInv, LockInv, Renames, Running
  <1>. QED
    BY <1>9, <1>10, <1>13, <1>15, <1>16, <1>17, <1>18, <1>19 DEF IInv, LockInv

LEMMA Transmitting ==
    ASSUME IInv, NEW t \in Threads, Transmit(t)
    PROVE  IInv'
  <1>. DEFINE b == WithByte(call[t], put)
              c == IF Len(b.got) = call[t].arg THEN Given(b, <<>>) ELSE b
  <1>1. /\ CallTyped(call[t]) /\ InCall(t) /\ Running(t) /\ call[t].op = "write"
        /\ fd \in Ports /\ put \in [Ports -> Nat]
    BY DEF IInv, Typed, Transmit, InCall
  <1>2. /\ IsCall(b) /\ b.op = call[t].op /\ b.arg = call[t].arg /\ b.how = call[t].how
        /\ b.held = call[t].held
        /\ b.got = Append(call[t].got, <<fd, put[fd] + 1>>)
    BY <1>1 DEF CallTyped, IsCall, Fields, WithByte
  <1>3. /\ call' = [call EXCEPT ![t] = c]
        /\ put' = [put EXCEPT ![fd] = @ + 1]
        /\ UNCHANGED <<fd, port, taken, made>>
    BY DEF Transmit
  <1>. HIDE DEF b
  <1>4. Becomes(t, c) /\ c.got = Append(call[t].got, <<fd, put[fd] + 1>>)
    <2>1. /\ IsCall(c) /\ c.op = b.op /\ c.arg = b.arg /\ c.got = b.got
          /\ \/ c.held = b.held /\ c.how = b.how
             \/ c.held \in {0, b.held} /\ c.how # "running"
      BY <1>2, GivenIs
    <2>. HIDE DEF c
    <2>. QED
      BY <1>2, <1>3, <2>1 DEF Becomes
  <1>. HIDE DEF c
  <1>5. Holds(t, "w") /\ call[t].held = 1
    <2>1. LocksOf(call[t].op) = <<"w">>
      BY <1>1, LocksAre DEF CallTyped
    <2>2. Holds(t, "w")
      BY <1>1, InCallHolds DEF IInv
    <2>. QED
      BY <1>1, <2>1, <2>2 DEF InCall, Locks
  <1>6. put' \in [Ports -> Nat] /\ put'[fd] = put[fd] + 1
    BY <1>1, <1>3
  <1>7. AtLast(t, put)
    BY <1>1 DEF IInv, LockInv, WritesOn
  <1>8. /\ CallTyped(c) /\ Together(c.got)
        /\ c.how = "running" => c.held = 1
        /\ Changes(c.got) # {} => SlippedInTwice
        /\ LastOf(c.got, put', fd, port, SlippedIn, SlippedInTwice)
        /\ c.got # <<>>
    BY <1>1, <1>4, <1>5, <1>6, <1>7, ByteStep
  <1>9. /\ call' = [u \in Threads |-> call'[u]]
        /\ call'[t] = c
        /\ \A u \in Threads : u # t => call'[u] = call[u]
        /\ NotBegun' /\ Exclusive'
        /\ SlippedIn => SlippedIn'
        /\ SlippedInTwice => SlippedInTwice'
    BY <1>1, <1>3, <1>4, StepKeepsLocks
  <1>10. Typed'
    <2>1. \A u \in Threads : CallTyped(call'[u])
      BY <1>8, <1>9 DEF IInv, Typed
    <2>. QED
      BY <1>3, <1>6, <1>9, <2>1 DEF IInv, Typed
  <1>11. port \in Ports /\ fd' \in {fd, NoDevice} /\ port' = port
    BY <1>3 DEF IInv, Typed
  <1>12. ASSUME NEW u \in Threads, NEW moved,
                LastOf(call'[u].got, moved, fd, port, SlippedIn, SlippedInTwice)
         PROVE  LastOf(call'[u].got, moved, fd', port', SlippedIn', SlippedInTwice')
    <2>1. LastOf(call'[u].got, moved, fd', port, SlippedIn', SlippedInTwice')
      BY <1>9, <1>11, <1>12, LastStays
    <2>. QED
      BY <1>11, <2>1
  <1>13. WritesOn'
    <2>1. ASSUME NEW u \in Threads, call'[u].op = "write", Running(u)', call'[u].got # <<>>
          PROVE  call'[u].held = 1
                 /\ LastOf(call'[u].got, put', fd', port', SlippedIn', SlippedInTwice')
      <3>1. CASE u = t
        BY <1>8, <1>9, <1>12, <2>1, <3>1 DEF Running
      <3>2. CASE u # t
        <4>1. call'[u] = call[u]
          BY <1>9, <3>2
        <4>2. call[u].held = 1 /\ Running(u)
          BY <2>1, <4>1 DEF IInv, LockInv, WritesOn, AtLast, Running
        <4>3. Holds(u, "w")
          BY <2>1, <4>1, <4>2, MoversHold
        <4>. QED
          BY <1>5, <3>2, <4>3 DEF IInv, LockInv, Exclusive
      <3>. QED
        BY <3>1, <3>2
    <2>. QED
      BY <2>1 DEF WritesOn, AtLast, LastOf, Running
  <1>14. c.op \notin Readers /\ c.op \in Moves /\ c.op # "setPort"
    BY <1>1, <1>4 DEF Becomes, Readers, Moves
  <1>15. ReadsOn'
    <2>1. ASSUME NEW u \in Threads, call'[u].op \in Readers, Running(u)', call'[u].got # <<>>
          PROVE  call'[u].held = 1
                 /\ LastOf(call'[u].got, taken', fd', port', SlippedIn', SlippedInTwice')
      <3>1. u # t /\ call'[u] = call[u]
        BY <1>9, <1>14, <2>1
      <3>2. AtLast(u, taken) /\ Running(u) /\ taken' = taken
        BY <1>3, <2>1, <3>1 DEF IInv, LockInv, ReadsOn, Running
      <3>3. call[u].held = 1
            /\ LastOf(call[u].got, taken, fd, port, SlippedIn, SlippedInTwice)
        BY <2>1, <3>1, <3>2, AtLastIs
      <3>. QED
        BY <1>12, <3>1, <3>2, <3>3
    <2>. QED
      BY <2>1 DEF ReadsOn, AtLast, LastOf, Running
  <1>16. OthersMoveNothing'
    BY <1>9, <1>14 DEF IInv, LockInv, OthersMoveNothing
  <1>17. BytesStayTogether'
    <2>1. ASSUME NEW u \in Threads
          PROVE  Together(call'[u].got) /\ (Changes(call'[u].got) # {} => SlippedInTwice')
      <3>1. Together(call[u].got) /\ (Changes(call[u].got) # {} => SlippedInTwice)
        BY DEF IInv, BytesStayTogether, Together
      <3>. QED
        BY <1>8, <1>9, <3>1
    <2>. QED
      BY <2>1 DEF BytesStayTogether, Together
  <1>18. OnPort'
    BY <1>3, <1>9 DEF IInv, LockInv, OnPort
  <1>19. Renames'
    BY <1>3, <1>9, <1>14 DEF IInv, LockInv, Renames, Running
  <1>. QED
    BY <1>9, <1>10, <1>13, <1>15, <1>16, <1>17, <1>18, <1>19 DEF IInv, LockInv

(* Ending a call moves nothing.                                            *)
LEMMA EndsIs ==
    ASSUME IInv, NEW t \in Threads, NEW how, how # "running", Ends(t, how)
    PROVE  \E c : Becomes(t, c) /\ c.got = call[t].got /\ c.how = how
  <1>. DEFINE c == [call[t] EXCEPT !.how = how, !.held = 0]
  <1>1. IsCall(call[t])
    BY DEF IInv, Typed, CallTyped
  <1>2. /\ IsCall(c) /\ c.op = call[t].op /\ c.arg = call[t].arg
        /\ c.got = call[t].got /\ c.held = 0 /\ c.how = how
    BY <1>1 DEF IsCall, Fields
  <1>3. call' = [call EXCEPT ![t] = c]
    BY DEF Ends
  <1>. HIDE DEF c
  <1>. QED
    BY <1>2, <1>3 DEF Becomes

Steps(t, step) == call' = [call EXCEPT ![t].step = step]

(* So does the next step of setPort, whose locks it keeps.                 *)
LEMMA NextStepIs ==
    ASSUME IInv, NEW t \in Threads, InCall(t), call[t].op = "setPort", NEW step,
           Steps(t, step)
    PROVE  \E c : /\ Becomes(t, c) /\ c.got = call[t].got /\ c.step = step
                  /\ c.held = 2 /\ c.how = "running"
  <1>. DEFINE c == [call[t] EXCEPT !.step = step]
  <1>1. CallTyped(call[t])
    BY DEF IInv, Typed
  <1>2. /\ IsCall(c) /\ c.op = call[t].op /\ c.arg = call[t].arg
        /\ c.got = call[t].got /\ c.held = call[t].held /\ c.how = call[t].how
        /\ c.step = step
    BY <1>1 DEF CallTyped, IsCall, Fields
  <1>3. call' = [call EXCEPT ![t] = c]
    BY DEF Steps
  <1>4. call[t].held = 2 /\ call[t].how = "running"
    <2>1. LocksOf(call[t].op) = <<"r", "w">>
      BY <1>1, LocksAre DEF CallTyped
    <2>. QED
      BY <2>1 DEF InCall, Running, Locks
  <1>. HIDE DEF c
  <1>. QED
    BY <1>2, <1>3, <1>4 DEF Becomes

LEMMA SetPortAlone ==
    ASSUME IInv, NEW t \in Threads, InCall(t), call[t].op = "setPort"
    PROVE  Alone(t)
  BY InCallHolds DEF IInv, Alone, Moves, Readers

(* The steps of a call that has its locks and leaves the object alone.     *)
Quiet(t) == ReadTimesOut(t) \/ WriteTimesOut(t) \/ NothingAsked(t) \/ Refused(t)

LEMMA QuietSteps ==
    ASSUME IInv, NEW t \in Threads, Quiet(t)
    PROVE  IInv'
  <1>1. Running(t) /\ UNCHANGED <<fd, port, taken, put, made>>
    BY DEF Quiet, ReadTimesOut, WriteTimesOut, NothingAsked, Refused, InCall
  <1>2. CallTyped(call[t])
    BY DEF IInv, Typed
  <1>3. \E c : Becomes(t, c) /\ c.got = call[t].got /\ c.how # "running"
    <2>1. CASE ReadTimesOut(t)
      <3>1. PICK lines : call' = [call EXCEPT ![t] = Given(call[t], lines)]
        BY <2>1 DEF ReadTimesOut
      <3>. QED
        BY <1>2, <3>1, GivenIs DEF Becomes, CallTyped
    <2>2. CASE \E how : how # "running" /\ Ends(t, how)
      BY <2>2, EndsIs
    <2>3. WriteTimesOut(t) \/ NothingAsked(t) \/ Refused(t)
             => \E how : how # "running" /\ Ends(t, how)
      BY DEF WriteTimesOut, NothingAsked, Refused
    <2>. QED
      BY <2>1, <2>2, <2>3 DEF Quiet
  <1>4. PICK c : Becomes(t, c) /\ c.got = call[t].got /\ c.how # "running"
    BY <1>3
  <1>5. port' \in Ports /\ fd' \in Ports \cup {NoDevice} /\ taken' \in [Ports -> Nat]
    BY <1>1 DEF IInv, Typed
  <1>. QED
    BY <1>1, <1>4, <1>5, QuietStep

LEMMA Flushing ==
    ASSUME IInv, NEW t \in Threads, Flush(t)
    PROVE  IInv'
  <1>1. /\ Running(t) /\ InCall(t) /\ UNCHANGED <<fd, port, put, made>>
        /\ call[t].op \in {"flush", "flushInput", "flushOutput"}
        /\ Ends(t, "returned") /\ fd # NoDevice
    BY DEF Flush, InCall
  <1>2. PICK c : Becomes(t, c) /\ c.got = call[t].got /\ c.how = "returned"
    BY <1>1, EndsIs
  <1>3. port \in Ports /\ fd \in Ports /\ taken \in [Ports -> Nat]
    BY <1>1 DEF IInv, Typed
  <1>4. /\ taken' \in [Ports -> Nat]
        /\ taken' = taken \/ call[t].op = "flushInput"
    <2>1. CASE call[t].op = "flushInput"
      <3>1. PICK n \in taken[fd]..Len(Device[fd]) : taken' = [taken EXCEPT ![fd] = n]
        BY <2>1 DEF Flush
      <3>2. n \in Nat
        BY <1>3
      <3>. QED
        BY <1>3, <2>1, <3>1, <3>2
    <2>2. CASE call[t].op # "flushInput"
      BY <1>3, <2>2 DEF Flush
    <2>. QED
      BY <2>1, <2>2
  <1>5. taken' = taken \/ (Holds(t, "r") /\ call[t].op \notin Readers)
    BY <1>1, <1>4, InCallHolds DEF IInv, Readers
  <1>. QED
    BY <1>1, <1>2, <1>3, <1>4, <1>5, QuietStep

LEMMA Closing ==
    ASSUME IInv, NEW t \in Threads, Close(t)
    PROVE  IInv'
  <1>1. /\ Running(t) /\ UNCHANGED <<port, taken, put, made>> /\ fd' = NoDevice
        /\ Ends(t, "returned")
    BY DEF Close, InCall
  <1>2. PICK c : Becomes(t, c) /\ c.got = call[t].got /\ c.how = "returned"
    BY <1>1, EndsIs
  <1>3. port' \in Ports /\ taken' \in [Ports -> Nat]
    BY <1>1 DEF IInv, Typed
  <1>. QED
    BY <1>1, <1>2, <1>3, QuietStep

LEMMA Opening ==
    ASSUME IInv, NEW t \in Threads, Open(t)
    PROVE  IInv'
  <1>1. /\ Running(t) /\ InCall(t) /\ UNCHANGED <<port, taken, put, made>>
        /\ call[t].op \in {"open", "setPort"}
    BY DEF Open, InCall
  <1>2. port' \in Ports /\ fd \in Ports \cup {NoDevice} /\ taken' \in [Ports -> Nat]
    BY <1>1 DEF IInv, Typed
  <1>3. CASE fd = NoDevice /\ fd' = port /\ Ends(t, "returned")
    <2>1. PICK c : Becomes(t, c) /\ c.got = call[t].got /\ c.how = "returned"
      BY <1>3, EndsIs
    <2>2. c.op = "open" \/ Alone(t)
      BY <1>1, <2>1, SetPortAlone DEF Becomes
    <2>. QED
      BY <1>1, <1>2, <1>3, <2>1, <2>2, QuietStep
  <1>4. CASE fd' = fd /\ Ends(t, "threw")
    <2>1. PICK c : Becomes(t, c) /\ c.got = call[t].got /\ c.how = "threw"
      BY <1>4, EndsIs
    <2>. QED
      BY <1>1, <1>2, <1>4, <2>1, QuietStep
  <1>. QED
    BY <1>3, <1>4 DEF Open

LEMMA Preparing ==
    ASSUME IInv, NEW t \in Threads, SetPortClose(t)
    PROVE  IInv'
  <1>1. /\ Running(t) /\ InCall(t) /\ UNCHANGED <<port, taken, put, made>>
        /\ call[t].op = "setPort"
    BY DEF SetPortClose, InCall
  <1>2. port' \in Ports /\ fd \in Ports \cup {NoDevice} /\ taken' \in [Ports -> Nat]
    BY <1>1 DEF IInv, Typed
  <1>3. PICK step : /\ Steps(t, step)
                    /\ fd' \in {fd, NoDevice}
                    /\ step \in {"naming", "renaming"} => fd' = NoDevice
    BY DEF SetPortClose, Steps
  <1>4. PICK c : /\ Becomes(t, c) /\ c.got = call[t].got /\ c.step = step
                 /\ c.held = 2 /\ c.how = "running"
    BY <1>1, <1>3, NextStepIs
  <1>. QED
    BY <1>1, <1>2, <1>3, <1>4, QuietStep

LEMMA Naming ==
    ASSUME IInv, NEW t \in Threads, SetPortName(t)
    PROVE  IInv' /\ Alone(t)
  <1>1. /\ Running(t) /\ InCall(t) /\ UNCHANGED <<fd, taken, put, made>>
        /\ call[t].op = "setPort" /\ port' = call[t].arg
        /\ call[t].step \in {"naming", "renaming"}
    BY DEF SetPortName, InCall
  <1>2. Alone(t)
    BY <1>1, SetPortAlone
  <1>3. fd = NoDevice \/ SlippedIn
    BY <1>1 DEF IInv, LockInv, Renames
  <1>4. port' \in Ports /\ fd' \in Ports \cup {NoDevice} /\ taken' \in [Ports -> Nat]
    BY <1>1 DEF IInv, Typed, CallTyped
  <1>5. CASE Ends(t, "returned")
    <2>1. PICK c : Becomes(t, c) /\ c.got = call[t].got /\ c.how = "returned"
      BY <1>5, EndsIs
    <2>. QED
      BY <1>1, <1>2, <1>3, <1>4, <2>1, QuietStep
  <1>6. CASE Steps(t, "opening")
    <2>1. PICK c : /\ Becomes(t, c) /\ c.got = call[t].got /\ c.step = "opening"
                   /\ c.held = 2 /\ c.how = "running"
      BY <1>1, <1>6, NextStepIs
    <2>. QED
      BY <1>1, <1>2, <1>3, <1>4, <2>1, QuietStep
  <1>. QED
    BY <1>5, <1>6 DEF SetPortName, Steps

LEMMA Calling ==
    ASSUME IInv, NEW t \in Threads, NEW r \in Requests, Call(t, r)
    PROVE  IInv'
  <1>. DEFINE c == Started(r)
  <1>1. /\ t = made + 1 /\ made' = t /\ made \in Nat
        /\ UNCHANGED <<fd, port, taken, put>>
    BY DEF IInv, Typed, Call
  <1>2. call[t] = NoCall
    BY <1>1 DEF IInv, LockInv, NotBegun
  <1>3. /\ call' = [u \in Threads |-> call'[u]]
        /\ call'[t] = c
        /\ \A u \in Threads : u # t => call'[u] = call[u]
    BY DEF IInv, Typed, Call
  <1>4. /\ IsCall(c) /\ c.op = r.op /\ c.arg = r.arg /\ c.held = 0 /\ c.got = <<>>
        /\ c.step = "start" /\ c.how = "running"
    BY DEF Started, NoCall, IsCall, Fields
  <1>5. r.op \in Operations /\ (r.op = "setPort" => r.arg \in Ports)
    BY SerialAssumption
  <1>6. CallTyped(c)
    <2>1. Len(LocksOf(r.op)) \in 0..2
      BY <1>5, LocksAre
    <2>. QED
      BY <1>4, <1>5, <2>1 DEF CallTyped
  <1>. HIDE DEF c
  <1>7. Typed'
    <2>1. \A u \in Threads : CallTyped(call'[u])
      BY <1>3, <1>6 DEF IInv, Typed
    <2>. QED
      BY <1>1, <1>3, <2>1 DEF IInv, Typed
  <1>8. NotBegun'
    BY <1>1, <1>3 DEF IInv, LockInv, NotBegun, Threads
  <1>9. Exclusive'
    <2>1. \A u \in Threads : \A lock : Holds(u, lock)' => u # t /\ Holds(u, lock)
      BY <1>3, <1>4 DEF Holds, Running, Locks
    <2>. QED
      BY <2>1 DEF IInv, LockInv, Exclusive
  <1>10. \A u \in Threads : Opened(u)' <=> Opened(u)
    <2>1. ~ Opened(t) /\ ~ Opened(t)'
      BY <1>2, <1>3, <1>4 DEF Opened, NoCall
    <2>. QED
      BY <1>3, <2>1 DEF Opened
  <1>11. SlippedIn' = SlippedIn /\ SlippedInTwice' = SlippedInTwice
    BY <1>10 DEF SlippedIn, SlippedInTwice
  <1>12. ReadsOn' /\ WritesOn'
    <2>1. \A u \in Threads : call'[u].got # <<>> => u # t /\ call'[u] = call[u]
      BY <1>3, <1>4
    <2>. QED
      BY <1>1, <1>11, <2>1 DEF IInv, LockInv, ReadsOn, WritesOn, AtLast, Running
  <1>13. OthersMoveNothing'
    BY <1>3, <1>4 DEF IInv, LockInv, OthersMoveNothing
  <1>14. BytesStayTogether'
    <2>1. ASSUME NEW u \in Threads
          PROVE  Together(call'[u].got) /\ (Changes(call'[u].got) # {} => SlippedInTwice')
      <3>1. Together(call[u].got) /\ (Changes(call[u].got) # {} => SlippedInTwice)
        BY DEF IInv, BytesStayTogether, Together
      <3>2. Changes(<<>>) = {} /\ Together(<<>>)
        BY DEF Changes, Together
      <3>. QED
        BY <1>3, <1>4, <1>11, <3>1, <3>2
    <2>. QED
      BY <2>1 DEF BytesStayTogether, Together
  <1>15. OnPort' /\ Renames'
    BY <1>1, <1>3, <1>4, <1>11 DEF IInv, LockInv, OnPort, Renames, Running
  <1>. QED
    BY <1>7, <1>8, <1>9, <1>12, <1>13, <1>14, <1>15 DEF IInv, LockInv

-----------------------------------------------------------------------------
(* The theorems.                                                           *)

LEMMA InitHolds == SerialInit => IInv
  <1>. SUFFICES ASSUME SerialInit PROVE IInv
    OBVIOUS
  <1>1. /\ IsCall(NoCall) /\ NoCall.op = "none" /\ NoCall.held = 0 /\ NoCall.got = <<>>
        /\ NoCall.how = "returned"
    BY DEF NoCall, IsCall, Fields
  <1>2. call = [t \in Threads |-> NoCall] /\ \A t \in Threads : call[t] = NoCall
    BY DEF SerialInit
  <1>3. CallTyped(NoCall)
    BY <1>1, LocksAre DEF CallTyped, Operations
  <1>4. Typed
    BY <1>2, <1>3 DEF SerialInit, Typed
  <1>5. LockInv
    BY <1>1, <1>2 DEF SerialInit, LockInv, NotBegun, Exclusive, Holds, Running, ReadsOn,
                      WritesOn, AtLast, OthersMoveNothing, OnPort, Renames
  <1>6. BytesStayTogether
    BY <1>1, <1>2 DEF BytesStayTogether, Changes
  <1>. QED
    BY <1>4, <1>5, <1>6 DEF IInv

LEMMA StepHolds == IInv /\ [SerialNext]_vars => IInv'
  <1>. SUFFICES ASSUME IInv, [SerialNext]_vars PROVE IInv'
    OBVIOUS
  <1>1. CASE UNCHANGED vars
    <2>1. Typed'
      BY <1>1 DEF vars, IInv, Typed
    <2>2. /\ SlippedIn' = SlippedIn /\ SlippedInTwice' = SlippedInTwice
          /\ \A u \in Threads : Running(u)' = Running(u)
          /\ \A u \in Threads : \A lock : Holds(u, lock)' = Holds(u, lock)
      BY <1>1 DEF vars, SlippedIn, SlippedInTwice, Opened, Running, Holds, Locks
    <2>3. (NotBegun /\ Exclusive /\ OnPort /\ Renames /\ OthersMoveNothing)'
      BY <1>1, <2>2 DEF vars, IInv, LockInv, NotBegun, Exclusive, OnPort, Renames,
                        OthersMoveNothing
    <2>4. ReadsOn' /\ WritesOn'
      BY <1>1, <2>2 DEF vars, IInv, LockInv, ReadsOn, WritesOn, AtLast
    <2>5. BytesStayTogether'
      <3>1. \A u \in Threads : /\ Together(call[u].got)
                               /\ Changes(call[u].got) # {} => SlippedInTwice
        BY DEF IInv, BytesStayTogether, Together
      <3>2. \A u \in Threads : /\ Together(call'[u].got)
                               /\ Changes(call'[u].got) # {} => SlippedInTwice'
        BY <1>1, <2>2, <3>1 DEF vars
      <3>. QED
        BY <3>2 DEF BytesStayTogether, Together
    <2>. QED
      BY <2>1, <2>3, <2>4, <2>5 DEF IInv, LockInv
  <1>2. ASSUME NEW t \in Threads, CallStep(t) PROVE IInv'
    BY <1>2, Locking, Receiving, Transmitting, Flushing, QuietSteps, Closing, Opening,
       Preparing, Naming
       DEF CallStep, Quiet
  <1>3. ASSUME NEW t \in Threads, NEW r \in Requests, Call(t, r) PROVE IInv'
    BY <1>3, Calling
  <1>. QED
    BY <1>1, <1>2, <1>3 DEF SerialNext

(* The locks do what they are for: each has one holder, and a call that    *)
(* moves bytes holds the one that keeps the others away (serial.cpp:35-62).*)
THEOREM LocksHold == SerialSpec => []LockInv
  <1>1. SerialSpec => []IInv
    BY InitHolds, StepHolds, PTL DEF SerialSpec
  <1>2. IInv => LockInv
    BY DEF IInv
  <1>. QED
    BY <1>1, <1>2, PTL

(* The bytes that one call reads or writes are neighbours on the device     *)
(* they come from or go to, whatever the other threads do; and unless two   *)
(* calls of open slip in where no lock keeps them out, that is one device   *)
(* (serial.cpp:35-62, 80-90, 282-291).                                     *)
THEOREM CallsAreWhole == SerialSpec => []BytesStayTogether
  <1>1. SerialSpec => []IInv
    BY InitHolds, StepHolds, PTL DEF SerialSpec
  <1>2. IInv => BytesStayTogether
    BY DEF IInv
  <1>. QED
    BY <1>1, <1>2, PTL

(* The port is renamed under a thread that holds both locks alone.         *)
THEOREM RenamedAlone == SerialSpec => PortChangesAlone
  <1>. DEFINE OneAlone == \E t \in Threads :
                          \A u \in Threads \ {t} : ~Holds(u, "r") /\ ~Holds(u, "w")
  <1>1. SerialSpec => []IInv
    BY InitHolds, StepHolds, PTL DEF SerialSpec
  <1>2. IInv /\ [SerialNext]_vars => [port' # port => OneAlone]_vars
    <2>. SUFFICES ASSUME IInv, SerialNext, port' # port PROVE OneAlone
      OBVIOUS
    <2>1. PICK t \in Threads : SetPortName(t)
      BY DEF SerialNext, CallStep, Call, Lock, Receive, ReadTimesOut, Transmit,
             WriteTimesOut, NothingAsked, Flush, Refused, Close, Open, SetPortClose
    <2>2. Holds(t, "r") /\ Holds(t, "w")
      BY <2>1, Naming DEF Alone
    <2>. QED
      BY <2>2 DEF IInv, LockInv, Exclusive
  <1>. QED
    BY <1>1, <1>2, PTL DEF SerialSpec, PortChangesAlone

-----------------------------------------------------------------------------
(* The object's own invariant: what the fields hold besides their types.   *)

\* A line starts inside the bytes read; and the next byte of a readline or a
\* readlines fits into its buffer, unless the buffer is too short for an end of
\* line.
Sane(c) ==
    /\ c.start \in 0..Len(c.got)
    /\ c.how \in {"running", "returned", "threw", "overran"}
    /\ c.op \in Readers => c.arg \in Nat
    /\ c.op \in {"readline", "readlines"} =>
         /\ IF c.how = "overran"
            THEN c.op = "readline" /\ c.arg < Len(Eol) /\ Len(c.got) = c.arg + 1
            ELSE Len(c.got) <= c.arg
         /\ /\ c.how = "running"
            /\ IF c.op = "readline" THEN c.arg >= Len(Eol) ELSE c.arg > 0
            => Len(c.got) < c.arg

ObjectSane ==
    /\ made \in 0..MaxCalls
    /\ \A p \in Ports : taken[p] <= Len(Device[p])

FullInv == IInv /\ ObjectSane /\ \A t \in Threads : Sane(call[t])

(* A call that ends without having moved another byte.                     *)
LEMMA SaneEnd ==
    ASSUME NEW c, IsCall(c), Sane(c), c.how = "running",
           NEW how \in {"returned", "threw"}, NEW held, NEW lines
    PROVE  /\ Sane([c EXCEPT !.how = how, !.held = held])
           /\ Sane(Given(c, lines))
  BY DEF Sane, IsCall, Fields, Given

(* A byte keeps a call sane, whatever the byte.                            *)
LEMMA SaneByte ==
    ASSUME NEW c, IsCall(c), Sane(c), c.how = "running", c.op \in Moves, Asks(c),
           c.got \in Seq(Ports \X Nat), NEW place \in Ports \X Nat, NEW d,
           d = [c EXCEPT !.got = Append(@, place)]
    PROVE  /\ c.op \in Readers => Sane(AfterByte(d))
           /\ c.op = "write" => Sane(d) /\ \A lines : Sane(Given(d, lines))
  <1>1. /\ IsCall(d) /\ d.op = c.op /\ d.arg = c.arg /\ d.how = "running"
        /\ d.start = c.start /\ d.got = Append(c.got, place)
    BY DEF IsCall, Fields
  <1>2. /\ Len(c.got) \in Nat /\ Len(d.got) = Len(c.got) + 1
        /\ d.start \in 0..Len(d.got)
    <2>1. Len(d.got) = Len(c.got) + 1 /\ Len(c.got) \in Nat
      BY <1>1
    <2>. QED
      BY <1>1, <2>1 DEF Sane
  <1>3. Len(Eol) \in Nat /\ Len(Eol) >= 1
    BY SerialAssumption
  <1>4. ASSUME d.op \in {"readline", "readlines"} => Len(d.got) <= d.arg, NEW lines
        PROVE  Sane(Given(d, lines))
    <2>1. /\ Given(d, lines).start = d.start /\ Given(d, lines).how = "returned"
          /\ Given(d, lines).op = d.op /\ Given(d, lines).arg = d.arg
          /\ Given(d, lines).got = d.got
      BY <1>1 DEF IsCall, Fields, Given
    <2>2. d.op \in Readers => d.arg \in Nat
      BY <1>1 DEF Sane
    <2>. QED
      BY <1>2, <1>4, <2>1, <2>2 DEF Sane
  <1>5. CASE c.op \in {"write", "read"}
    <2>1. Sane(d)
      BY <1>1, <1>2, <1>5 DEF Sane
    <2>2. \A lines : Sane(Given(d, lines))
      BY <1>1, <1>4, <1>5
    <2>. QED
      BY <1>1, <1>5, <2>1, <2>2 DEF AfterByte, Readers
  <1>6. CASE c.op = "readline"
    <2>1. AfterByte(d) = Readline(d)
      BY <1>1, <1>6 DEF AfterByte
    <2>2. /\ c.arg \in Nat /\ Len(c.got) <= c.arg
          /\ c.arg >= Len(Eol) => Len(c.got) < c.arg
      BY <1>6 DEF Sane, Readers
    <2>3. CASE Overran(d)
      <3>1. c.arg < Len(Eol) /\ Len(d.got) = c.arg + 1
        BY <1>1, <1>2, <1>3, <2>2, <2>3 DEF Overran
      <3>. DEFINE e == [d EXCEPT !.how = "overran"]
      <3>2. /\ e.start = d.start /\ e.how = "overran" /\ e.op = d.op
            /\ e.arg = d.arg /\ e.got = d.got
        BY <1>1 DEF IsCall, Fields
      <3>3. Readline(d) = e
        BY <2>3 DEF Readline
      <3>. HIDE DEF e
      <3>. QED
        BY <1>1, <1>2, <1>6, <2>1, <2>2, <3>1, <3>2, <3>3 DEF Sane, Readers
    <2>4. CASE ~Overran(d) /\ Len(d.got) >= Len(Eol) /\ (AtEol(d) \/ Len(d.got) = d.arg)
      <3>1. Len(d.got) <= d.arg
        BY <1>1, <1>2, <2>2, <2>4 DEF Overran
      <3>. QED
        BY <1>4, <1>6, <2>1, <2>4, <3>1 DEF Readline, Readers
    <2>5. CASE ~Overran(d) /\ ~(Len(d.got) >= Len(Eol) /\ (AtEol(d) \/ Len(d.got) = d.arg))
      <3>1. Readline(d) = d
        BY <2>5 DEF Readline
      <3>2. Len(d.got) <= d.arg /\ (d.arg >= Len(Eol) => Len(d.got) < d.arg)
        <4>1. ~(Len(d.got) > d.arg) /\ ~(Len(d.got) >= Len(Eol) /\ Len(d.got) = d.arg)
          BY <2>5, Zenon DEF Overran
        <4>2. Len(d.got) \in Nat /\ d.arg \in Nat
          BY <1>1, <1>2, <2>2
        <4>3. Len(d.got) <= d.arg
          BY <4>1, <4>2
        <4>4. ASSUME d.arg >= Len(Eol) PROVE Len(d.got) < d.arg
          <5>1. Len(d.got) # d.arg
            BY <1>3, <4>1, <4>2, <4>4
          <5>. QED
            BY <4>2, <4>3, <5>1
        <4>. QED
          BY <4>3, <4>4
      <3>. QED
        BY <1>1, <1>2, <1>6, <2>1, <2>2, <3>1, <3>2 DEF Sane, Readers
    <2>. QED
      BY <2>3, <2>4, <2>5
  <1>7. CASE c.op = "readlines"
    <2>1. /\ c.arg \in Nat /\ Len(d.got) <= d.arg
      BY <1>1, <1>2, <1>7 DEF Sane, Readers, Asks
    <2>. DEFINE e == ReadlinesCut(d)
    <2>2. /\ IsCall(e) /\ e.op = d.op /\ e.arg = d.arg /\ e.how = d.how /\ e.got = d.got
          /\ e.start \in {d.start, Len(d.got)}
      BY <1>1 DEF ReadlinesCut, IsCall, Fields
    <2>3. Len(d.got) < d.arg => Sane(e)
      BY <1>1, <1>2, <1>7, <2>1, <2>2 DEF Sane
    <2>4. AfterByte(d) = IF Len(d.got) < d.arg THEN e
                         ELSE Given(e, IF Len(d.got) < Len(Eol) THEN e.lines ELSE WithRest(e))
      BY <1>1, <1>7 DEF AfterByte, Readlines
    <2>. HIDE DEF e
    <2>5. ASSUME NEW lines PROVE Sane(Given(e, lines))
      <3>1. /\ Given(e, lines).start = e.start /\ Given(e, lines).how = "returned"
            /\ Given(e, lines).op = e.op /\ Given(e, lines).arg = e.arg
            /\ Given(e, lines).got = e.got
        BY <2>2 DEF IsCall, Fields, Given
      <3>. QED
        BY <1>1, <1>2, <2>1, <2>2, <3>1 DEF Sane
    <2>6. Sane(AfterByte(d))
      <3>1. CASE Len(d.got) < d.arg
        BY <2>3, <2>4, <3>1
      <3>2. CASE ~(Len(d.got) < d.arg)
        <4>1. PICK lines : AfterByte(d) = Given(e, lines)
          BY <2>4, <3>2
        <4>. QED
          BY <2>5, <4>1
      <3>. QED
        BY <3>1, <3>2
    <2>. QED
      BY <1>7, <2>6
  <1>. QED
    BY <1>5, <1>6, <1>7 DEF Moves, Readers

LEMMA CallSane ==
    ASSUME FullInv, NEW t \in Threads, CallStep(t)
    PROVE  \E c : call' = [call EXCEPT ![t] = c] /\ Sane(c)
  <1>1. /\ IsCall(call[t]) /\ Sane(call[t]) /\ CallTyped(call[t])
        /\ call[t].got \in Seq(Ports \X Nat) /\ call[t].how = "running"
        /\ fd \in Ports \cup {NoDevice}
        /\ taken \in [Ports -> Nat] /\ put \in [Ports -> Nat]
    <2>1. Running(t)
      BY DEF CallStep, Lock, Receive, ReadTimesOut, Transmit, WriteTimesOut, NothingAsked,
             Flush, Refused, Close, Open, SetPortClose, SetPortName, InCall
    <2>. QED
      BY <2>1 DEF FullInv, IInv, Typed, CallTyped, Running
  <1>2. CASE Lock(t)
    <2>. DEFINE c == [call[t] EXCEPT !.held = @ + 1]
    <2>1. call' = [call EXCEPT ![t] = c]
      BY <1>2 DEF Lock
    <2>2. Sane(c)
      BY <1>1 DEF Sane, IsCall, Fields
    <2>. QED
      BY <2>1, <2>2
  <1>3. CASE Receive(t)
    <2>. DEFINE d == WithByte(call[t], taken)
    <2>1. call' = [call EXCEPT ![t] = AfterByte(d)]
      BY <1>3 DEF Receive
    <2>2. call[t].op \in Readers /\ Asks(call[t]) /\ fd \in Ports
      BY <1>1, <1>3 DEF Receive
    <2>3. <<fd, taken[fd] + 1>> \in Ports \X Nat
          /\ d = [call[t] EXCEPT !.got = Append(@, <<fd, taken[fd] + 1>>)]
      BY <1>1, <2>2 DEF WithByte
    <2>. HIDE DEF d
    <2>4. Sane(AfterByte(d))
      BY <1>1, <2>2, <2>3, SaneByte DEF Moves
    <2>. QED
      BY <2>1, <2>4
  <1>4. CASE Transmit(t)
    <2>. DEFINE d == WithByte(call[t], put)
    <2>1. \E c \in {d, Given(d, <<>>)} : call' = [call EXCEPT ![t] = c]
      BY <1>4 DEF Transmit
    <2>2. call[t].op = "write" /\ Asks(call[t]) /\ fd \in Ports
      BY <1>1, <1>4 DEF Transmit
    <2>3. <<fd, put[fd] + 1>> \in Ports \X Nat
          /\ d = [call[t] EXCEPT !.got = Append(@, <<fd, put[fd] + 1>>)]
      BY <1>1, <2>2 DEF WithByte
    <2>. HIDE DEF d
    <2>4. Sane(d) /\ Sane(Given(d, <<>>))
      BY <1>1, <2>2, <2>3, SaneByte DEF Moves
    <2>. QED
      BY <2>1, <2>4
  <1>5. CASE ReadTimesOut(t)
    <2>1. PICK lines : call' = [call EXCEPT ![t] = Given(call[t], lines)]
      BY <1>5 DEF ReadTimesOut
    <2>. QED
      BY <1>1, <2>1, SaneEnd
  <1>6. CASE \E how \in {"returned", "threw"} : Ends(t, how)
    <2>1. PICK how \in {"returned", "threw"} : Ends(t, how)
      BY <1>6
    <2>. DEFINE c == [call[t] EXCEPT !.how = how, !.held = 0]
    <2>2. call' = [call EXCEPT ![t] = c]
      BY <2>1 DEF Ends
    <2>3. Sane(c)
      BY <1>1, SaneEnd
    <2>. QED
      BY <2>2, <2>3
  <1>7. CASE \E step : call' = [call EXCEPT ![t].step = step]
    <2>1. PICK step : call' = [call EXCEPT ![t].step = step]
      BY <1>7
    <2>. DEFINE c == [call[t] EXCEPT !.step = step]
    <2>2. call' = [call EXCEPT ![t] = c]
      BY <2>1
    <2>3. Sane(c)
      BY <1>1 DEF Sane, IsCall, Fields
    <2>. QED
      BY <2>2, <2>3
  <1>8. \/ Lock(t) \/ Receive(t) \/ Transmit(t) \/ ReadTimesOut(t)
        \/ \E how \in {"returned", "threw"} : Ends(t, how)
        \/ \E step : call' = [call EXCEPT ![t].step = step]
    BY DEF CallStep, WriteTimesOut, NothingAsked, Flush, Refused, Close, Open,
           SetPortClose, SetPortName
  <1>. QED
    BY <1>2, <1>3, <1>4, <1>5, <1>6, <1>7, <1>8

LEMMA ObjectStays ==
    ASSUME FullInv, NEW t \in Threads, CallStep(t)
    PROVE  ObjectSane'
  <1>1. /\ made \in 0..MaxCalls
        /\ fd \in Ports \cup {NoDevice} /\ taken \in [Ports -> Nat]
        /\ \A p \in Ports : taken[p] <= Len(Device[p])
        /\ \A p \in Ports : Len(Device[p]) \in Nat
    BY SerialAssumption DEF FullInv, IInv, Typed, ObjectSane
  <1>2. made' = made
    BY DEF CallStep, Lock, Receive, ReadTimesOut, Transmit, WriteTimesOut, NothingAsked,
           Flush, Refused, Close, Open, SetPortClose, SetPortName
  <1>3. \/ taken' = taken
        \/ /\ fd \in Ports
           /\ \E n \in taken[fd]..Len(Device[fd]) : taken' = [taken EXCEPT ![fd] = n]
    <2>1. CASE Receive(t)
      <3>1. fd \in Ports /\ taken[fd] + 1 \in taken[fd]..Len(Device[fd])
        BY <1>1, <2>1 DEF Receive
      <3>. QED
        BY <2>1, <3>1 DEF Receive
    <2>2. CASE Flush(t)
      BY <1>1, <2>2 DEF Flush
    <2>. QED
      BY <2>1, <2>2 DEF CallStep, Lock, ReadTimesOut, Transmit, WriteTimesOut,
                NothingAsked, Refused, Close, Open, SetPortClose, SetPortName
  <1>4. \A p \in Ports : taken'[p] <= Len(Device[p])
    BY <1>1, <1>3
  <1>. QED
    BY <1>1, <1>2, <1>4 DEF ObjectSane

(* The fields of the object and of its calls are well formed, and no line  *)
(* or buffer is longer than the size given, but for one byte: that by which *)
(* readline overruns a size shorter than the end of line                   *)
(* (serial.cpp:172-257).                                                   *)
THEOREM BuffersEnd == SerialSpec => []SerialInv
  <1>1. SerialInit => FullInv
    <2>. SUFFICES ASSUME SerialInit PROVE FullInv
      OBVIOUS
    <2>1. IInv
      BY InitHolds
    <2>2. Sane(NoCall)
      BY DEF Sane, NoCall, Readers
    <2>3. ObjectSane
      <3>1. \A p \in Ports : Len(Device[p]) \in Nat /\ taken[p] = 0
        BY SerialAssumption DEF SerialInit
      <3>2. MaxCalls \in Nat
        BY SerialAssumption
      <3>. QED
        BY <3>1, <3>2 DEF SerialInit, ObjectSane
    <2>. QED
      BY <2>1, <2>2, <2>3 DEF FullInv, SerialInit
  <1>2. FullInv /\ [SerialNext]_vars => FullInv'
    <2>. SUFFICES ASSUME FullInv, [SerialNext]_vars PROVE FullInv'
      OBVIOUS
    <2>1. IInv'
      BY StepHolds DEF FullInv
    <2>2. call = [u \in Threads |-> call[u]]
      BY DEF FullInv, IInv, Typed
    <2>3. CASE UNCHANGED vars
      BY <2>1, <2>3 DEF FullInv, ObjectSane, vars
    <2>4. ASSUME NEW t \in Threads, CallStep(t) PROVE FullInv'
      <3>1. PICK c : call' = [call EXCEPT ![t] = c] /\ Sane(c)
        BY <2>4, CallSane
      <3>2. \A u \in Threads : Sane(call'[u])
        BY <2>2, <3>1 DEF FullInv
      <3>. QED
        BY <2>1, <2>4, <3>2, ObjectStays DEF FullInv
    <2>5. ASSUME NEW t \in Threads, NEW r \in Requests, Call(t, r) PROVE FullInv'
      <3>1. Sane(Started(r))
        <4>1. r.op \in Readers => r.arg \in Nat
          BY SerialAssumption DEF Readers
        <4>2. LET c == Started(r)
              IN  /\ c.op = r.op /\ c.arg = r.arg /\ c.how = "running"
                  /\ c.got = <<>> /\ c.start = 0
          BY DEF Started, NoCall
        <4>3. Len(Eol) \in Nat /\ Len(Eol) >= 1
          BY SerialAssumption
        <4>. QED
          BY <4>1, <4>2, <4>3 DEF Sane, Readers
      <3>2. \A u \in Threads : Sane(call'[u])
        BY <2>2, <2>5, <3>1 DEF FullInv, Call
      <3>3. ObjectSane'
        BY <2>5, SerialAssumption DEF FullInv, ObjectSane, Call, Threads
      <3>. QED
        BY <2>1, <3>2, <3>3 DEF FullInv
    <2>. QED
      BY <2>3, <2>4, <2>5 DEF SerialNext
  <1>3. FullInv => SerialInv
    <2>. SUFFICES ASSUME FullInv PROVE SerialInv
      OBVIOUS
    <2>1. \A t \in Threads : CallTyped(call[t]) /\ Sane(call[t])
      BY DEF FullInv, IInv, Typed
    <2>2. SerialTypeOK
      BY <2>1 DEF SerialTypeOK, FullInv, IInv, Typed, ObjectSane, CallTyped, Sane,
                  Places, Locks
    <2>3. OverrunsOnlyBelowEol
      BY <2>1 DEF OverrunsOnlyBelowEol, Sane
    <2>. QED
      BY <2>2, <2>3 DEF SerialInv, FullInv, IInv
  <1>. QED
    BY <1>1, <1>2, <1>3, PTL DEF SerialSpec

-----------------------------------------------------------------------------
(* Concatenation of lines.                                                 *)

(* A set of numbers has a least one.                                       *)
LEMMA LeastNumber ==
    ASSUME NEW N \in SUBSET Nat, N # {}
    PROVE  \E m \in N : \A k \in N : m <= k
  <1>1. PICK m \in N : \A k \in N : ~ (<<k, m>> \in OpToRel(<, Nat))
    BY NatLessThanWellFounded, WFMin
  <1>2. \A k \in N : ~ (k < m)
    BY <1>1 DEF OpToRel
  <1>. QED
    BY <1>2

Flattening(f, s, n) == f = [i \in 1..n |-> IF i = 1 THEN s[i] ELSE f[i - 1] \o s[i]]

LEMMA FlatteningExists ==
    ASSUME NEW s, NEW n \in Nat
    PROVE  \E f : Flattening(f, s, n)
  <1>. DEFINE Missing == {m \in Nat : ~(\E f : Flattening(f, s, m))}
  <1>. SUFFICES ASSUME n \in Missing PROVE FALSE
    OBVIOUS
  <1>1. PICK m \in Missing : \A k \in Missing : m <= k
    BY LeastNumber
  <1>2. m # 0
    <2>1. Flattening([i \in 1..0 |-> 0], s, 0)
      BY DEF Flattening
    <2>. QED
      BY <2>1
  <1>3. m - 1 \in Nat /\ m - 1 \notin Missing
    BY <1>1, <1>2
  <1>4. PICK f : Flattening(f, s, m - 1)
    BY <1>3
  <1>. DEFINE g == [i \in 1..m |-> IF i < m THEN f[i] ELSE IF i = 1 THEN s[i] ELSE f[i - 1] \o s[i]]
  <1>5. \A i \in 1..m : g[i] = IF i = 1 THEN s[i] ELSE g[i - 1] \o s[i]
    <2>. TAKE i \in 1..m
    <2>1. CASE i < m
      <3>1. i \in 1..(m - 1) /\ i - 1 < m /\ (i # 1 => i - 1 \in 1..m)
        BY <1>1, <2>1
      <3>2. f[i] = IF i = 1 THEN s[i] ELSE f[i - 1] \o s[i]
        BY <1>4, <3>1 DEF Flattening
      <3>. QED
        BY <2>1, <3>1, <3>2
    <2>2. CASE i = m
      <3>1. i # 1 => i - 1 \in 1..m /\ i - 1 < m
        BY <2>2
      <3>. QED
        BY <2>2, <3>1
    <2>. QED
      BY <1>1, <2>1, <2>2
  <1>6. Flattening(g, s, m)
    BY <1>5 DEF Flattening
  <1>. QED
    BY <1>6

LEMMA FlattenIs ==
    ASSUME NEW s, Len(s) \in Nat \ {0}
    PROVE  \E f : Flattening(f, s, Len(s)) /\ FlattenSeq(s) = f[Len(s)]
  <1>1. \E f : Flattening(f, s, Len(s))
    BY FlatteningExists
  <1>. DEFINE f == CHOOSE f : Flattening(f, s, Len(s))
  <1>2. Flattening(f, s, Len(s))
    BY <1>1
  <1>3. FlattenSeq(s) = f[Len(s)]
    BY DEF FlattenSeq, Flattening
  <1>. QED
    BY <1>2, <1>3


LEMMA FlatteningUnique ==
    ASSUME NEW S, NEW s, NEW t, NEW m \in Nat, NEW n \in Nat, m <= n,
           \A i \in 1..m : s[i] = t[i] /\ s[i] \in Seq(S),
           NEW f, NEW g, Flattening(f, s, m), Flattening(g, t, n)
    PROVE  \A i \in 1..m : f[i] = g[i] /\ f[i] \in Seq(S)
  <1>. DEFINE Bad == {i \in 1..m : ~(f[i] = g[i] /\ f[i] \in Seq(S))}
  <1>. SUFFICES ASSUME Bad # {} PROVE FALSE
    OBVIOUS
  <1>1. PICK i \in Bad : \A k \in Bad : i <= k
    <2>1. Bad \in SUBSET Nat
      OBVIOUS
    <2>. QED
      BY <2>1, LeastNumber
  <1>2. i \in 1..m /\ i \in 1..n
    OBVIOUS
  <1>3. /\ f[i] = IF i = 1 THEN s[i] ELSE f[i - 1] \o s[i]
        /\ g[i] = IF i = 1 THEN t[i] ELSE g[i - 1] \o t[i]
    BY <1>2 DEF Flattening
  <1>4. CASE i = 1
    BY <1>2, <1>3, <1>4
  <1>5. CASE i # 1
    <2>1. i - 1 \in 1..m /\ i - 1 \notin Bad
      BY <1>1, <1>2, <1>5
    <2>2. f[i - 1] = g[i - 1] /\ f[i - 1] \in Seq(S)
      BY <2>1
    <2>3. f[i - 1] \o s[i] \in Seq(S)
      BY <1>2, <2>2
    <2>. QED
      BY <1>2, <1>3, <1>5, <2>2, <2>3
  <1>. QED
    BY <1>4, <1>5

(* Putting a sequence behind others puts it behind their concatenation.    *)
LEMMA FlattenAppend ==
    ASSUME NEW S, NEW s \in Seq(Seq(S)), NEW x \in Seq(S)
    PROVE  /\ FlattenSeq(s) \in Seq(S)
           /\ FlattenSeq(Append(s, x)) = FlattenSeq(s) \o x
  <1>. DEFINE t == Append(s, x)
  <1>1. /\ Len(s) \in Nat /\ Len(t) = Len(s) + 1 /\ t[Len(t)] = x
        /\ \A i \in 1..Len(s) : s[i] = t[i] /\ s[i] \in Seq(S)
    OBVIOUS
  <1>. HIDE DEF t
  <1>2. PICK g : Flattening(g, t, Len(t)) /\ FlattenSeq(t) = g[Len(t)]
    BY <1>1, FlattenIs
  <1>3. g[Len(t)] = IF Len(t) = 1 THEN x ELSE g[Len(t) - 1] \o x
    <2>1. Len(t) \in 1..Len(t)
      BY <1>1
    <2>. QED
      BY <1>1, <1>2, <2>1 DEF Flattening
  <1>4. CASE s = <<>>
    <2>1. Len(s) = 0 /\ FlattenSeq(s) = <<>>
      BY <1>4 DEF FlattenSeq
    <2>2. Len(t) = 1 /\ FlattenSeq(t) = x
      BY <1>1, <1>2, <1>3, <2>1
    <2>3. <<>> \o x = x /\ <<>> \in Seq(S)
      OBVIOUS
    <2>. QED
      BY <2>1, <2>2, <2>3 DEF t
  <1>5. CASE s # <<>>
    <2>1. Len(s) \in Nat \ {0}
      BY <1>1, <1>5
    <2>2. PICK f : Flattening(f, s, Len(s)) /\ FlattenSeq(s) = f[Len(s)]
      BY <2>1, FlattenIs
    <2>3. \A i \in 1..Len(s) : f[i] = g[i] /\ f[i] \in Seq(S)
      <3>1. Len(t) \in Nat /\ Len(s) <= Len(t)
        BY <1>1
      <3>. QED
        BY <1>1, <1>2, <2>2, <3>1, FlatteningUnique
    <2>4. f[Len(s)] = g[Len(s)] /\ f[Len(s)] \in Seq(S)
      BY <2>1, <2>3
    <2>5. g[Len(t)] = g[Len(s)] \o x
      <3>1. Len(t) # 1 /\ Len(t) - 1 = Len(s)
        BY <1>1, <2>1
      <3>. QED
        BY <1>3, <3>1
    <2>. QED
      BY <1>2, <2>2, <2>4, <2>5 DEF t
  <1>. QED
    BY <1>4, <1>5


LEMMA OneLine ==
    ASSUME NEW S, NEW x \in Seq(S)
    PROVE  FlattenSeq(<<x>>) = x /\ FlattenSeq(<<>>) = <<>>
  <1>1. FlattenSeq(<<>>) = <<>>
    BY DEF FlattenSeq
  <1>2. <<>> \in Seq(Seq(S)) /\ Append(<<>>, x) = <<x>> /\ <<>> \o x = x
    OBVIOUS
  <1>3. FlattenSeq(Append(<<>>, x)) = FlattenSeq(<<>>) \o x
    BY <1>2, FlattenAppend
  <1>. QED
    BY <1>1, <1>2, <1>3

-----------------------------------------------------------------------------
(* Where a sequence of bytes holds an end of line.                         *)
AnyByte == {Device[p][n] : p \in Ports, n \in Nat}

EndsAt(b, n) == n >= Len(Eol) /\ \A k \in 1..Len(Eol) : b[n - Len(Eol) + k] = Eol[k]

LEMMA EolIs == Eol \in Seq(STRING) /\ Len(Eol) \in Nat \ {0}
  BY SerialAssumption

LEMMA BytesAre ==
    ASSUME NEW places \in Seq(Ports \X Nat)
    PROVE  /\ Bytes(places) \in Seq(AnyByte) /\ Len(Bytes(places)) = Len(places)
           /\ \A i \in 1..Len(places) : Bytes(places)[i] = Device[places[i][1]][places[i][2]]
  <1>1. \A i \in 1..Len(places) : Device[places[i][1]][places[i][2]] \in AnyByte
    <2>. TAKE i \in 1..Len(places)
    <2>1. places[i] \in Ports \X Nat
      OBVIOUS
    <2>2. places[i][1] \in Ports /\ places[i][2] \in Nat
      BY <2>1
    <2>. QED
      BY <2>2 DEF AnyByte
  <1>. QED
    BY <1>1 DEF Bytes

LEMMA SuffixIs ==
    ASSUME NEW S, NEW b \in Seq(S)
    PROVE  IsSuffix(Eol, b) <=> EndsAt(b, Len(b))
  <1>. DEFINE e == Reverse(Eol)
              r == Reverse(b)
              L == Len(Eol)
              n == Len(b)
  <1>1. L \in Nat \ {0} /\ n \in Nat
    BY EolIs
  <1>2. /\ Len(e) = L /\ \A k \in 1..L : e[k] = Eol[L - k + 1]
        /\ Len(r) = n /\ \A k \in 1..n : r[k] = b[n - k + 1]
    BY <1>1 DEF Reverse
  <1>3. e \in Seq(STRING) /\ r \in Seq(S)
    <2>1. \A k \in 1..L : Eol[(L - k) + 1] \in STRING
      <3>. TAKE k \in 1..L
      <3>1. (L - k) + 1 \in 1..L
        BY <1>1
      <3>. QED
        BY <3>1, EolIs
    <2>2. \A k \in 1..n : b[(n - k) + 1] \in S
      <3>. TAKE k \in 1..n
      <3>1. (n - k) + 1 \in 1..n
        BY <1>1
      <3>. QED
        BY <3>1
    <2>. QED
      BY <1>1, <2>1, <2>2 DEF Reverse
  <1>. HIDE DEF e, r
  <1>4. IsSuffix(Eol, b) <=> L <= n /\ SubSeq(e, 1, L) = SubSeq(r, 1, L)
    BY <1>2 DEF IsSuffix, IsPrefix, e, r
  <1>5. ASSUME L <= n
        PROVE  SubSeq(e, 1, L) = SubSeq(r, 1, L) <=> \A k \in 1..L : e[k] = r[k]
    <2>1. /\ Len(SubSeq(e, 1, L)) = L /\ \A k \in 1..L : SubSeq(e, 1, L)[k] = e[k]
          /\ Len(SubSeq(r, 1, L)) = L /\ \A k \in 1..L : SubSeq(r, 1, L)[k] = r[k]
          /\ SubSeq(e, 1, L) \in Seq(STRING) /\ SubSeq(r, 1, L) \in Seq(S)
      BY <1>1, <1>2, <1>3, <1>5
    <2>. HIDE DEF L
    <2>2. (\A k \in 1..L : e[k] = r[k]) => SubSeq(e, 1, L) = SubSeq(r, 1, L)
      BY <2>1
    <2>. QED
      BY <2>1, <2>2
  <1>6. ASSUME L <= n
        PROVE  (\A k \in 1..L : e[k] = r[k]) <=> (\A k \in 1..L : b[n - L + k] = Eol[k])
    <2>1. ASSUME \A k \in 1..L : e[k] = r[k], NEW k \in 1..L PROVE b[n - L + k] = Eol[k]
      <3>1. L - k + 1 \in 1..L /\ L - k + 1 \in 1..n
            /\ L - (L - k + 1) + 1 = k /\ n - (L - k + 1) + 1 = n - L + k
        BY <1>1, <1>6
      <3>2. e[L - k + 1] = Eol[k] /\ r[L - k + 1] = b[n - L + k]
        BY <1>2, <3>1
      <3>. QED
        BY <2>1, <3>1, <3>2
    <2>2. ASSUME \A k \in 1..L : b[n - L + k] = Eol[k], NEW k \in 1..L PROVE e[k] = r[k]
      <3>1. L - k + 1 \in 1..L /\ k \in 1..n /\ n - L + (L - k + 1) = n - k + 1
        BY <1>1, <1>6
      <3>. QED
        BY <1>2, <2>2, <3>1
    <2>. QED
      BY <2>1, <2>2
  <1>. QED
    BY <1>1, <1>4, <1>5, <1>6 DEF EndsAt

LEMMA EolsAre ==
    ASSUME NEW S, NEW line \in Seq(S)
    PROVE  EolsIn(line) = {i \in 1..Len(line) : EndsAt(line, i)}
  <1>1. ASSUME NEW i \in 1..Len(line)
        PROVE  IsSuffix(Eol, SubSeq(line, 1, i)) <=> EndsAt(line, i)
    <2>1. /\ SubSeq(line, 1, i) \in Seq(S) /\ Len(SubSeq(line, 1, i)) = i
          /\ \A j \in 1..i : SubSeq(line, 1, i)[j] = line[j]
      OBVIOUS
    <2>2. i >= Len(Eol) => \A k \in 1..Len(Eol) : i - Len(Eol) + k \in 1..i
      BY EolIs
    <2>3. EndsAt(SubSeq(line, 1, i), i) <=> EndsAt(line, i)
      BY <2>1, <2>2 DEF EndsAt
    <2>. QED
      BY <2>1, <2>3, SuffixIs
  <1>. QED
    BY <1>1 DEF EolsIn


-----------------------------------------------------------------------------
(* How far a call has cut its bytes into lines.                            *)

NoneAfter(b, start) == \A i \in (start + 1)..Len(b) : ~EndsAt(b, i)
EolAtEnd(line) == EolsIn(line) = {Len(line)}

Progress(c) ==
    /\ c.op = "read" => c.lines = <<>> /\ (c.arg = 0 => c.got = <<>>)
    /\ c.op = "readline" => NoneAfter(Bytes(c.got), 0)
    /\ c.op = "readlines" =>
          /\ c.start \in 0..Len(c.got)
          /\ c.start > 0 => EndsAt(Bytes(c.got), c.start)
          /\ NoneAfter(Bytes(c.got), c.start)
          /\ c.lines \in Seq(Seq(AnyByte))
          /\ FlattenSeq(c.lines) = SubSeq(Bytes(c.got), 1, c.start)
          /\ EolApart => \A i \in 1..Len(c.lines) : EolAtEnd(c.lines[i])

Result(c) ==
    /\ FlattenSeq(c.lines) = Bytes(c.got)
    /\ c.op # "read" /\ EolApart =>
         \A i \in 1..Len(c.lines) :
            /\ EolsIn(c.lines[i]) \subseteq {Len(c.lines[i])}
            /\ i < Len(c.lines) => EolsIn(c.lines[i]) # {}

Cut(c) ==
    c.op \in Readers =>
        /\ c.arg \in Nat
        /\ c.how = "running" => Progress(c)
        /\ c.how = "returned" /\ (c.op = "readlines" => c.arg >= Len(Eol)) => Result(c)

LEMMA TailFrom ==
    ASSUME NEW S, NEW list \in Seq(S), NEW start \in 0..Len(list)
    PROVE  /\ SubSeq(list, start + 1, Len(list)) \in Seq(S) /\ Len(list) \in Nat
           /\ Len(SubSeq(list, start + 1, Len(list))) = Len(list) - start
           /\ \A i \in 1..(Len(list) - start) :
                 SubSeq(list, start + 1, Len(list))[i] = list[start + i]
  OBVIOUS

(* What is left of the bytes is the last line.                             *)
LEMMA RestOfBytes ==
    ASSUME NEW S, NEW b \in Seq(S), NEW start \in 0..Len(b)
    PROVE  LET line == SubSeq(b, start + 1, Len(b))
           IN  /\ line \in Seq(S) /\ Len(line) = Len(b) - start
               /\ \A i \in 1..(Len(b) - start) : line[i] = b[start + i]
               /\ SubSeq(b, 1, start) \o line = b
               /\ SubSeq(b, 1, start) \in Seq(S)
               /\ EolsIn(line) \subseteq {i \in 1..(Len(b) - start) : EndsAt(b, start + i)}
               /\ \A i \in 1..(Len(b) - start) :
                     i >= Len(Eol) /\ EndsAt(b, start + i) => i \in EolsIn(line)
  <1>. DEFINE line == SubSeq(b, start + 1, Len(b))
              head == SubSeq(b, 1, start)
  <1>1. /\ line \in Seq(S) /\ Len(line) = Len(b) - start /\ Len(b) \in Nat
        /\ \A i \in 1..(Len(b) - start) : line[i] = b[start + i]
    BY TailFrom
  <1>2. /\ head \in Seq(S) /\ Len(head) = start
        /\ \A i \in 1..start : head[i] = b[i]
    OBVIOUS
  <1>. HIDE DEF line, head
  <1>3. head \o line = b
    <2>1. /\ head \o line \in Seq(S) /\ Len(head \o line) = Len(b)
          /\ \A i \in 1..start : (head \o line)[i] = head[i]
          /\ \A i \in (start + 1)..Len(b) : (head \o line)[i] = line[i - start]
      BY <1>1, <1>2
    <2>2. \A i \in 1..Len(b) : (head \o line)[i] = b[i]
      <3>. TAKE i \in 1..Len(b)
      <3>1. CASE i <= start
        <4>1. i \in 1..start
          BY <3>1
        <4>. QED
          BY <1>2, <2>1, <4>1
      <3>2. CASE i > start
        <4>1. i - start \in 1..(Len(b) - start) /\ start + (i - start) = i
              /\ i \in (start + 1)..Len(b)
          BY <1>1, <3>2
        <4>2. line[i - start] = b[start + (i - start)]
          BY <1>1, <4>1
        <4>. QED
          BY <2>1, <4>1, <4>2
      <3>3. i <= start \/ i > start
        BY <1>1
      <3>. QED
        BY <3>1, <3>2, <3>3
    <2>. QED
      BY <2>1, <2>2, SeqEqual
  <1>4. EolsIn(line) = {i \in 1..(Len(b) - start) : EndsAt(line, i)}
    BY <1>1, EolsAre
  <1>5. ASSUME NEW i \in 1..(Len(b) - start), i >= Len(Eol)
        PROVE  EndsAt(line, i) <=> EndsAt(b, start + i)
    <2>1. \A k \in 1..Len(Eol) : line[i - Len(Eol) + k] = b[start + i - Len(Eol) + k]
      <3>. TAKE k \in 1..Len(Eol)
      <3>1. i - Len(Eol) + k \in 1..(Len(b) - start)
            /\ start + (i - Len(Eol) + k) = start + i - Len(Eol) + k
        BY <1>1, <1>5, EolIs
      <3>. QED
        BY <1>1, <3>1
    <2>2. start + i >= Len(Eol)
      BY <1>5, EolIs
    <2>3. EndsAt(line, i) <=> \A k \in 1..Len(Eol) : line[i - Len(Eol) + k] = Eol[k]
      BY <1>5 DEF EndsAt
    <2>4. EndsAt(b, start + i)
             <=> \A k \in 1..Len(Eol) : b[start + i - Len(Eol) + k] = Eol[k]
      BY <2>2 DEF EndsAt
    <2>. QED
      BY <2>1, <2>3, <2>4
  <1>6. \A i \in 1..(Len(b) - start) : EndsAt(line, i) => i >= Len(Eol)
    BY DEF EndsAt
  <1>. QED
    BY <1>1, <1>2, <1>3, <1>4, <1>5, <1>6 DEF line, head

LEMMA LineIs ==
    ASSUME NEW c, c.got \in Seq(Ports \X Nat), c.start \in 0..Len(c.got)
    PROVE  Line(c) = SubSeq(Bytes(c.got), c.start + 1, Len(Bytes(c.got)))
  <1>. DEFINE b == Bytes(c.got)
              n == Len(c.got) - c.start
              part == SubSeq(c.got, c.start + 1, Len(c.got))
              line == SubSeq(b, c.start + 1, Len(b))
  <1>1. /\ b \in Seq(AnyByte) /\ Len(b) = Len(c.got) /\ Len(b) \in Nat
        /\ \A i \in 1..Len(c.got) : b[i] = Device[c.got[i][1]][c.got[i][2]]
    BY BytesAre
  <1>2. /\ part \in Seq(Ports \X Nat) /\ Len(part) = n
        /\ \A i \in 1..n : part[i] = c.got[c.start + i]
    BY TailFrom
  <1>. HIDE DEF b, part
  <1>3. /\ Bytes(part) \in Seq(AnyByte) /\ Len(Bytes(part)) = n
        /\ \A i \in 1..n : Bytes(part)[i] = Device[part[i][1]][part[i][2]]
    BY <1>2, BytesAre
  <1>4. line \in Seq(AnyByte) /\ Len(line) = n /\ \A i \in 1..n : line[i] = b[c.start + i]
    <2>1. c.start \in 0..Len(b)
      BY <1>1
    <2>. QED
      BY <1>1, <2>1, TailFrom
  <1>. HIDE DEF line
  <1>5. ASSUME NEW i \in 1..n PROVE Bytes(part)[i] = line[i]
    <2>1. c.start + i \in 1..Len(c.got)
      BY <1>1
    <2>. QED
      BY <1>1, <1>2, <1>3, <1>4, <2>1
  <1>6. Bytes(part) = line
    BY <1>3, <1>4, <1>5, SeqEqual
  <1>. QED
    BY <1>6 DEF Line, part, line, b

(* A call that ends in the middle of a line gives that line too.           *)
LEMMA RestGiven ==
    ASSUME NEW c, IsCall(c), c.got \in Seq(Ports \X Nat), c.op = "readlines", Progress(c)
    PROVE  Result(Given(c, WithRest(c)))
  <1>. DEFINE b == Bytes(c.got)
              line == SubSeq(b, c.start + 1, Len(b))
              d == Given(c, WithRest(c))
  <1>. SUFFICES Result(d)
    OBVIOUS
  <1>1. /\ b \in Seq(AnyByte) /\ Len(b) = Len(c.got) /\ Len(b) \in Nat
        /\ \A i \in 1..Len(c.got) : b[i] = Device[c.got[i][1]][c.got[i][2]]
    BY BytesAre
  <1>2. /\ c.start \in 0..Len(b) /\ NoneAfter(b, c.start)
        /\ c.lines \in Seq(Seq(AnyByte)) /\ FlattenSeq(c.lines) = SubSeq(b, 1, c.start)
        /\ EolApart => \A i \in 1..Len(c.lines) : EolAtEnd(c.lines[i])
    BY <1>1 DEF Progress
  <1>3. d.got = c.got /\ d.op = c.op /\ d.lines = WithRest(c)
    BY DEF IsCall, Fields, Given
  <1>4. Line(c) = line
    BY <1>1, <1>2, LineIs
  <1>. HIDE DEF d, b
  <1>5. CASE c.start = Len(c.got)
    <2>1. d.lines = c.lines
      BY <1>3, <1>5 DEF WithRest
    <2>2. SubSeq(b, 1, c.start) = b
      BY <1>1, <1>5
    <2>. QED
      BY <1>2, <1>3, <2>1, <2>2 DEF Result, EolAtEnd, b
  <1>6. CASE c.start # Len(c.got)
    <2>1. d.lines = Append(c.lines, line)
      BY <1>3, <1>4, <1>6 DEF WithRest
    <2>2. /\ line \in Seq(AnyByte) /\ SubSeq(b, 1, c.start) \o line = b
          /\ EolsIn(line) \subseteq {i \in 1..(Len(b) - c.start) : EndsAt(b, c.start + i)}
      BY <1>1, <1>2, RestOfBytes
    <2>3. EolsIn(line) = {}
      <3>1. ASSUME NEW i \in 1..(Len(b) - c.start) PROVE ~EndsAt(b, c.start + i)
        <4>1. c.start + i \in (c.start + 1)..Len(b)
          BY <1>1, <1>2
        <4>. QED
          BY <1>2, <4>1 DEF NoneAfter
      <3>. QED
        BY <2>2, <3>1
    <2>. HIDE DEF line
    <2>4. FlattenSeq(d.lines) = b
      BY <1>2, <2>1, <2>2, FlattenAppend
    <2>5. /\ Len(d.lines) = Len(c.lines) + 1 /\ Len(c.lines) \in Nat
          /\ d.lines[Len(d.lines)] = line
          /\ \A i \in 1..Len(c.lines) : d.lines[i] = c.lines[i]
      BY <1>2, <2>1, <2>2
    <2>6. ASSUME EolApart, NEW i \in 1..Len(d.lines)
          PROVE  /\ EolsIn(d.lines[i]) \subseteq {Len(d.lines[i])}
                 /\ i < Len(d.lines) => EolsIn(d.lines[i]) # {}
      <3>1. CASE i = Len(d.lines)
        BY <2>3, <2>5, <3>1
      <3>2. CASE i # Len(d.lines)
        <4>1. i \in 1..Len(c.lines)
          BY <2>5, <3>2
        <4>. QED
          BY <1>2, <2>5, <2>6, <4>1 DEF EolAtEnd
      <3>. QED
        BY <3>1, <3>2
    <2>. QED
      BY <1>3, <2>4, <2>6 DEF Result, b
  <1>. QED
    BY <1>5, <1>6

(* A call whose bytes are one line.                                        *)
LEMMA WholeGiven ==
    ASSUME NEW c, IsCall(c), c.got \in Seq(Ports \X Nat), c.op \in {"read", "readline"},
           c.op = "readline" =>
              \A i \in 1..(Len(c.got) - 1) : ~EndsAt(Bytes(c.got), i)
    PROVE  Result(Given(c, <<Bytes(c.got)>>))
  <1>. DEFINE b == Bytes(c.got)
              d == Given(c, <<b>>)
  <1>1. b \in Seq(AnyByte) /\ Len(b) \in Nat /\ Len(b) = Len(c.got)
    BY BytesAre
  <1>2. d.got = c.got /\ d.op = c.op /\ d.lines = <<b>>
    BY DEF IsCall, Fields, Given
  <1>. HIDE DEF d
  <1>3. FlattenSeq(<<b>>) = b
    BY <1>1, OneLine
  <1>4. c.op = "readline" => EolsIn(b) \subseteq {Len(b)}
    <2>1. EolsIn(b) = {i \in 1..Len(b) : EndsAt(b, i)}
      BY <1>1, EolsAre
    <2>2. c.op = "readline" => \A i \in 1..(Len(b) - 1) : ~EndsAt(b, i)
      BY <1>1
    <2>. HIDE DEF b
    <2>. QED
      BY <1>1, <2>1, <2>2
  <1>5. /\ Len(<<b>>) = 1 /\ <<b>>[1] = b
    OBVIOUS
  <1>6. c.op = "readline" => Result(d)
    BY <1>2, <1>3, <1>4, <1>5 DEF Result
  <1>7. c.op = "read" => Result(d)
    BY <1>2, <1>3 DEF Result
  <1>. QED
    BY <1>6, <1>7 DEF d


(* One more byte: what was no end of line is none still.                   *)
LEMMA OneMore ==
    ASSUME NEW got \in Seq(Ports \X Nat), NEW place \in Ports \X Nat
    PROVE  LET b == Bytes(got)
               b2 == Bytes(Append(got, place))
           IN  /\ b \in Seq(AnyByte) /\ Len(b) = Len(got) /\ Len(b) \in Nat
               /\ b2 \in Seq(AnyByte) /\ Len(b2) = Len(b) + 1
               /\ \A i \in 0..Len(b) : EndsAt(b2, i) <=> EndsAt(b, i)
               /\ \A i \in 0..Len(b) : SubSeq(b2, 1, i) = SubSeq(b, 1, i)
  <1>. DEFINE b == Bytes(got)
              more == Append(got, place)
              b2 == Bytes(more)
  <1>1. /\ b \in Seq(AnyByte) /\ Len(b) = Len(got) /\ Len(b) \in Nat
        /\ \A i \in 1..Len(got) : b[i] = Device[got[i][1]][got[i][2]]
    BY BytesAre
  <1>2. /\ more \in Seq(Ports \X Nat) /\ Len(more) = Len(got) + 1
        /\ \A i \in 1..Len(got) : more[i] = got[i]
    OBVIOUS
  <1>. HIDE DEF more
  <1>3. /\ b2 \in Seq(AnyByte) /\ Len(b2) = Len(more)
        /\ \A i \in 1..Len(more) : b2[i] = Device[more[i][1]][more[i][2]]
    BY <1>2, BytesAre
  <1>. HIDE DEF b, b2
  <1>4. ASSUME NEW i \in 1..Len(b) PROVE b2[i] = b[i]
    <2>1. i \in 1..Len(got) /\ i \in 1..Len(more)
      BY <1>1, <1>2
    <2>2. b2[i] = Device[more[i][1]][more[i][2]] /\ b[i] = Device[got[i][1]][got[i][2]]
      BY <1>1, <1>3, <2>1
    <2>3. more[i] = got[i]
      BY <1>2, <2>1
    <2>. QED
      BY <2>2, <2>3
  <1>5. ASSUME NEW i \in 0..Len(b) PROVE EndsAt(b2, i) <=> EndsAt(b, i)
    <2>1. CASE i >= Len(Eol)
      <3>1. \A k \in 1..Len(Eol) : i - Len(Eol) + k \in 1..Len(b)
        BY <1>1, <2>1, EolIs
      <3>2. \A k \in 1..Len(Eol) : b2[i - Len(Eol) + k] = b[i - Len(Eol) + k]
        BY <1>4, <3>1
      <3>. QED
        BY <3>2 DEF EndsAt
    <2>2. CASE ~(i >= Len(Eol))
      BY <2>2 DEF EndsAt
    <2>. QED
      BY <2>1, <2>2
  <1>6. ASSUME NEW i \in 0..Len(b) PROVE SubSeq(b2, 1, i) = SubSeq(b, 1, i)
    <2>1. /\ SubSeq(b, 1, i) \in Seq(AnyByte) /\ Len(SubSeq(b, 1, i)) = i
          /\ \A k \in 1..i : SubSeq(b, 1, i)[k] = b[k]
      BY <1>1
    <2>2. /\ SubSeq(b2, 1, i) \in Seq(AnyByte) /\ Len(SubSeq(b2, 1, i)) = i
          /\ \A k \in 1..i : SubSeq(b2, 1, i)[k] = b2[k]
      BY <1>1, <1>2, <1>3
    <2>3. ASSUME NEW k \in 1..i PROVE b2[k] = b[k]
      <3>1. Len(b) \in Nat
        BY <1>1
      <3>2. k \in 1..Len(b)
        BY <3>1
      <3>. QED
        BY <1>4, <3>2
    <2>. QED
      BY <2>1, <2>2, <2>3, SeqEqual
  <1>7. Len(b2) = Len(b) + 1
    BY <1>1, <1>2, <1>3
  <1>. QED
    BY <1>1, <1>3, <1>5, <1>6, <1>7 DEF b, b2, more

LEMMA AtEolIs ==
    ASSUME NEW c, c.got \in Seq(Ports \X Nat)
    PROVE  AtEol(c) <=> EndsAt(Bytes(c.got), Len(c.got))
  <1>1. Bytes(c.got) \in Seq(AnyByte) /\ Len(Bytes(c.got)) = Len(c.got)
    BY BytesAre
  <1>2. IsSuffix(Eol, Bytes(c.got)) <=> EndsAt(Bytes(c.got), Len(c.got))
    BY <1>1, SuffixIs
  <1>. QED
    BY <1>2 DEF AtEol, EndsAt


(* The line that an end of line ends has it at its end and nowhere else,   *)
(* unless it shares bytes with the end of the line before.                 *)
LEMMA LineEnds ==
    ASSUME NEW b \in Seq(AnyByte), NEW start \in 0..(Len(b) - 1), EolApart,
           start > 0 => EndsAt(b, start),
           \A i \in (start + 1)..(Len(b) - 1) : ~EndsAt(b, i),
           EndsAt(b, Len(b))
    PROVE  EolAtEnd(SubSeq(b, start + 1, Len(b)))
  <1>. DEFINE line == SubSeq(b, start + 1, Len(b))
              L == Len(Eol)
              n == Len(b)
  <1>1. L \in Nat \ {0} /\ n \in Nat /\ start \in 0..n
    BY EolIs
  <1>2. /\ line \in Seq(AnyByte) /\ Len(line) = n - start
        /\ EolsIn(line) \subseteq {i \in 1..(n - start) : EndsAt(b, start + i)}
        /\ \A i \in 1..(n - start) : i >= L /\ EndsAt(b, start + i) => i \in EolsIn(line)
    BY <1>1, RestOfBytes
  <1>. HIDE DEF line
  <1>3. EolsIn(line) \subseteq {n - start}
    <2>1. ASSUME NEW i \in 1..(n - start), i # n - start PROVE ~EndsAt(b, start + i)
      <3>1. start + i \in (start + 1)..(n - 1)
        BY <1>1, <2>1
      <3>. QED
        BY <3>1
    <2>. QED
      BY <1>2, <2>1
  <1>4. n - start >= L
    <2>1. CASE start = 0
      BY <1>1, <2>1 DEF EndsAt
    <2>2. CASE start > 0
      <3>1. SUFFICES ASSUME n - start < L PROVE FALSE
        BY <1>1
      <3>2. n - start \in 1..(L - 1)
        BY <1>1, <3>1
      <3>3. PICK k \in 1..(L - (n - start)) : Eol[k + (n - start)] # Eol[k]
        BY <3>2 DEF EolApart
      <3>4. k \in 1..L /\ k + (n - start) \in 1..L
            /\ start - L + (k + (n - start)) = n - L + k
        BY <1>1, <3>2
      <3>5. b[n - L + k] = Eol[k]
        BY <3>4 DEF EndsAt
      <3>6. b[start - L + (k + (n - start))] = Eol[k + (n - start)]
        BY <2>2, <3>4 DEF EndsAt
      <3>. QED
        BY <3>3, <3>4, <3>5, <3>6
    <2>. QED
      BY <1>1, <2>1, <2>2
  <1>5. n - start \in EolsIn(line)
    <2>1. n - start \in 1..(n - start) /\ start + (n - start) = n
      BY <1>1
    <2>. QED
      BY <1>2, <1>4, <2>1
  <1>. QED
    BY <1>2, <1>3, <1>5 DEF EolAtEnd, line

LEMMA LinesProgress ==
    ASSUME NEW c, IsCall(c), c.op = "readlines", Progress(c), c.got \in Seq(Ports \X Nat),
           NEW place \in Ports \X Nat, NEW d, d = [c EXCEPT !.got = Append(@, place)]
    PROVE  Progress(ReadlinesCut(d))
  <1>. DEFINE b == Bytes(c.got)
              b2 == Bytes(d.got)
              e == ReadlinesCut(d)
              line == SubSeq(b2, c.start + 1, Len(b2))
  <1>1. /\ IsCall(d) /\ d.op = c.op /\ d.start = c.start /\ d.lines = c.lines
        /\ d.got = Append(c.got, place)
    BY DEF IsCall, Fields
  <1>2. /\ b \in Seq(AnyByte) /\ Len(b) = Len(c.got) /\ Len(b) \in Nat
        /\ b2 \in Seq(AnyByte) /\ Len(b2) = Len(b) + 1
        /\ \A i \in 0..Len(b) : EndsAt(b2, i) <=> EndsAt(b, i)
        /\ \A i \in 0..Len(b) : SubSeq(b2, 1, i) = SubSeq(b, 1, i)
    <2>. DEFINE m == Bytes(Append(c.got, place))
    <2>1. /\ b \in Seq(AnyByte) /\ Len(b) = Len(c.got) /\ Len(b) \in Nat
          /\ m \in Seq(AnyByte) /\ Len(m) = Len(b) + 1
          /\ \A i \in 0..Len(b) : EndsAt(m, i) <=> EndsAt(b, i)
          /\ \A i \in 0..Len(b) : SubSeq(m, 1, i) = SubSeq(b, 1, i)
      BY OneMore
    <2>2. b2 = m
      BY <1>1
    <2>. HIDE DEF b2, m
    <2>. QED
      BY <2>1, <2>2
  <1>3. /\ c.start \in 0..Len(b) /\ NoneAfter(b, c.start)
        /\ c.start > 0 => EndsAt(b, c.start)
        /\ c.lines \in Seq(Seq(AnyByte)) /\ FlattenSeq(c.lines) = SubSeq(b, 1, c.start)
        /\ EolApart => \A i \in 1..Len(c.lines) : EolAtEnd(c.lines[i])
    BY <1>2 DEF Progress
  <1>4. d.got \in Seq(Ports \X Nat) /\ Len(d.got) = Len(b2) /\ Len(b2) \in Nat
    BY <1>1, <1>2
  <1>5. AtEol(d) <=> EndsAt(b2, Len(b2))
    BY <1>4, AtEolIs
  <1>6. /\ c.start > 0 => EndsAt(b2, c.start)
        /\ \A i \in (c.start + 1)..Len(b) : ~EndsAt(b2, i)
        /\ FlattenSeq(c.lines) = SubSeq(b2, 1, c.start)
    <2>1. \A i \in (c.start + 1)..Len(b) : ~EndsAt(b, i)
      BY <1>3 DEF NoneAfter
    <2>. HIDE DEF b, b2
    <2>. QED
      BY <1>2, <1>3, <2>1
  <1>7. Line(d) = line
    <2>1. d.start \in 0..Len(d.got)
      BY <1>1, <1>2, <1>3, <1>4
    <2>. QED
      BY <1>1, <1>4, <2>1, LineIs
  <1>. SUFFICES Progress(e)
    OBVIOUS
  <1>8. CASE ~AtEol(d)
    <2>1. e = d
      BY <1>8 DEF ReadlinesCut
    <2>. HIDE DEF b, b2, e
    <2>2. NoneAfter(b2, c.start)
      <3>1. \A i \in (c.start + 1)..Len(b2) : i \in (c.start + 1)..Len(b) \/ i = Len(b2)
        BY <1>2, <1>3
      <3>. QED
        BY <1>5, <1>6, <1>8, <3>1 DEF NoneAfter
    <2>3. c.start \in 0..Len(d.got)
      BY <1>2, <1>3, <1>4
    <2>. QED
      BY <1>1, <1>3, <1>6, <2>1, <2>2, <2>3 DEF Progress, b2
  <1>9. CASE AtEol(d)
    <2>1. /\ e.op = "readlines" /\ e.got = d.got /\ e.start = Len(b2)
          /\ e.lines = Append(c.lines, line)
      BY <1>1, <1>4, <1>7, <1>9 DEF ReadlinesCut, IsCall, Fields
    <2>2. c.start \in 0..(Len(b2) - 1) /\ c.start \in 0..Len(b2)
      BY <1>2, <1>3
    <2>3. line \in Seq(AnyByte) /\ SubSeq(b2, 1, c.start) \o line = b2
      BY <1>2, <2>2, RestOfBytes
    <2>4. EolApart => EolAtEnd(line)
      <3>1. Len(b2) - 1 = Len(b)
        BY <1>2
      <3>. HIDE DEF b, b2
      <3>. QED
        BY <1>2, <1>5, <1>6, <1>9, <2>2, <3>1, LineEnds
    <2>. HIDE DEF b, b2, e, line
    <2>5. FlattenSeq(e.lines) = b2
      BY <1>3, <1>6, <2>1, <2>3, FlattenAppend
    <2>6. SubSeq(b2, 1, Len(b2)) = b2
      BY <1>2
    <2>7. e.lines \in Seq(Seq(AnyByte))
      BY <1>3, <2>1, <2>3
    <2>8. EolApart => \A i \in 1..Len(e.lines) : EolAtEnd(e.lines[i])
      <3>1. /\ Len(e.lines) = Len(c.lines) + 1 /\ Len(c.lines) \in Nat
            /\ e.lines[Len(e.lines)] = line
            /\ \A i \in 1..Len(c.lines) : e.lines[i] = c.lines[i]
        BY <1>3, <2>1, <2>3
      <3>2. \A i \in 1..Len(e.lines) : i \in 1..Len(c.lines) \/ i = Len(e.lines)
        BY <3>1
      <3>. QED
        BY <1>3, <2>4, <3>1, <3>2
    <2>9. NoneAfter(b2, Len(b2)) /\ EndsAt(b2, Len(b2)) /\ Len(b2) \in 0..Len(d.got)
      BY <1>4, <1>5, <1>9 DEF NoneAfter
    <2>. QED
      BY <1>1, <2>1, <2>5, <2>6, <2>7, <2>8, <2>9 DEF Progress, b2
  <1>. QED
    BY <1>8, <1>9


(* What one more byte makes of a call.                                     *)
LEMMA CutByte ==
    ASSUME NEW c, IsCall(c), Cut(c), c.how = "running", c.op \in Readers, Asks(c),
           c.got \in Seq(Ports \X Nat),
           NEW place \in Ports \X Nat, NEW d, d = [c EXCEPT !.got = Append(@, place)]
    PROVE  Cut(AfterByte(d))
  <1>1. /\ IsCall(d) /\ d.op = c.op /\ d.arg = c.arg /\ d.how = "running"
        /\ d.got = Append(c.got, place) /\ d.got \in Seq(Ports \X Nat)
    <2>1. /\ IsCall(d) /\ d.op = c.op /\ d.arg = c.arg /\ d.how = "running"
          /\ d.got = Append(c.got, place)
      BY DEF IsCall, Fields
    <2>. QED
      BY <2>1
  <1>2. c.arg \in Nat /\ Progress(c)
    BY DEF Cut
  <1>3. \A lines : /\ Given(d, lines).op = d.op /\ Given(d, lines).arg = d.arg
                   /\ Given(d, lines).how = "returned"
    BY <1>1 DEF IsCall, Fields, Given
  <1>4. CASE c.op = "read"
    <2>1. Result(Given(d, <<Bytes(d.got)>>))
      BY <1>1, <1>4, WholeGiven
    <2>2. Progress(d)
      <3>1. d.lines = c.lines
        BY DEF IsCall, Fields
      <3>. QED
        BY <1>1, <1>2, <1>4, <3>1 DEF Progress, Asks
    <2>3. AfterByte(d) = d \/ AfterByte(d) = Given(d, <<Bytes(d.got)>>)
      BY <1>1, <1>4 DEF AfterByte
    <2>. QED
      BY <1>1, <1>2, <1>3, <2>1, <2>2, <2>3 DEF Cut
  <1>5. CASE c.op = "readline"
    <2>1. \A i \in 1..(Len(d.got) - 1) : ~EndsAt(Bytes(d.got), i)
      <3>. DEFINE b == Bytes(c.got)
                  m == Bytes(Append(c.got, place))
      <3>1. /\ Len(b) = Len(c.got) /\ Len(b) \in Nat
            /\ \A i \in 0..Len(b) : EndsAt(m, i) <=> EndsAt(b, i)
        BY OneMore
      <3>2. \A i \in 1..Len(b) : ~EndsAt(b, i)
        BY <1>2, <1>5 DEF Progress, NoneAfter
      <3>3. Bytes(d.got) = m /\ Len(d.got) - 1 = Len(b)
        BY <1>1, <3>1
      <3>. HIDE DEF b, m
      <3>. QED
        BY <3>1, <3>2, <3>3
    <2>2. Result(Given(d, <<Bytes(d.got)>>))
      BY <1>1, <1>5, <2>1, WholeGiven
    <2>3. AfterByte(d) = Readline(d)
      BY <1>1, <1>5 DEF AfterByte
    <2>4. CASE Overran(d)
      <3>1. LET e == [d EXCEPT !.how = "overran"] IN e.how = "overran" /\ e.op = d.op /\ e.arg = d.arg
        BY <1>1 DEF IsCall, Fields
      <3>. QED
        BY <1>1, <1>2, <2>3, <2>4, <3>1 DEF Cut, Readline
    <2>5. CASE ~Overran(d) /\ Len(d.got) >= Len(Eol) /\ (AtEol(d) \/ Len(d.got) = d.arg)
      <3>1. AfterByte(d) = Given(d, <<Bytes(d.got)>>)
        BY <2>3, <2>5 DEF Readline
      <3>. QED
        BY <1>1, <1>2, <1>3, <2>2, <3>1 DEF Cut
    <2>6. CASE ~Overran(d) /\ ~(Len(d.got) >= Len(Eol) /\ (AtEol(d) \/ Len(d.got) = d.arg))
      <3>1. AfterByte(d) = d
        BY <2>3, <2>6 DEF Readline
      <3>2. ~EndsAt(Bytes(d.got), Len(d.got))
        BY <1>1, <2>6, AtEolIs DEF AtEol
      <3>3. Len(Bytes(d.got)) = Len(d.got) /\ Len(d.got) \in Nat
        <4>1. d.got \in Seq(Ports \X Nat)
          BY <1>1
        <4>. QED
          BY <4>1, BytesAre, LenProperties
      <3>4. NoneAfter(Bytes(d.got), 0)
        <4>1. \A i \in 1..Len(d.got) : i \in 1..(Len(d.got) - 1) \/ i = Len(d.got)
          BY <3>3
        <4>. QED
          BY <2>1, <3>2, <3>3, <4>1 DEF NoneAfter
      <3>. QED
        BY <1>1, <1>2, <1>5, <3>1, <3>4 DEF Cut, Progress
    <2>. QED
      BY <2>4, <2>5, <2>6
  <1>6. CASE c.op = "readlines"
    <2>. DEFINE e == ReadlinesCut(d)
    <2>1. Progress(e)
      BY <1>2, <1>6, LinesProgress
    <2>2. /\ IsCall(e) /\ e.op = "readlines" /\ e.arg = c.arg /\ e.got = d.got
          /\ e.how = "running"
      BY <1>1, <1>6 DEF ReadlinesCut, IsCall, Fields
    <2>3. AfterByte(d) = IF Len(d.got) < c.arg THEN e
                         ELSE Given(e, IF Len(d.got) < Len(Eol) THEN e.lines ELSE WithRest(e))
      BY <1>1, <1>6 DEF AfterByte, Readlines
    <2>. HIDE DEF e
    <2>4. \A lines : /\ Given(e, lines).op = "readlines" /\ Given(e, lines).arg = c.arg
                     /\ Given(e, lines).how = "returned"
      BY <2>2 DEF IsCall, Fields, Given
    <2>5. CASE Len(d.got) < c.arg
      BY <1>2, <2>1, <2>2, <2>3, <2>5 DEF Cut
    <2>6. CASE ~(Len(d.got) < c.arg) /\ c.arg >= Len(Eol)
      <3>1. ~(Len(d.got) < Len(Eol))
        BY <1>1, <1>2, <2>6, EolIs
      <3>2. AfterByte(d) = Given(e, WithRest(e))
        BY <2>3, <2>6, <3>1
      <3>3. Result(Given(e, WithRest(e)))
        BY <1>1, <2>1, <2>2, RestGiven
      <3>. QED
        BY <1>2, <2>4, <3>2, <3>3 DEF Cut
    <2>7. CASE ~(Len(d.got) < c.arg) /\ ~(c.arg >= Len(Eol))
      <3>1. PICK lines : AfterByte(d) = Given(e, lines)
        BY <2>3, <2>7
      <3>. QED
        BY <1>2, <2>4, <2>7, <3>1 DEF Cut
    <2>. QED
      BY <2>5, <2>6, <2>7
  <1>. QED
    BY <1>4, <1>5, <1>6 DEF Readers


(* What a time-out makes of a call.                                        *)
LEMMA CutTimeOut ==
    ASSUME NEW c, IsCall(c), Cut(c), c.how = "running", c.op \in Readers,
           c.got \in Seq(Ports \X Nat)
    PROVE  Cut(Given(c, IF c.op = "readlines" THEN WithRest(c) ELSE <<Bytes(c.got)>>))
  <1>1. c.arg \in Nat /\ Progress(c)
    BY DEF Cut
  <1>2. \A lines : /\ Given(c, lines).op = c.op /\ Given(c, lines).arg = c.arg
                   /\ Given(c, lines).how = "returned"
    BY DEF IsCall, Fields, Given
  <1>3. CASE c.op = "readlines"
    <2>1. Result(Given(c, WithRest(c)))
      BY <1>1, <1>3, RestGiven
    <2>. QED
      BY <1>1, <1>2, <1>3, <2>1 DEF Cut
  <1>4. CASE c.op \in {"read", "readline"}
    <2>1. c.op = "readline" => \A i \in 1..(Len(c.got) - 1) : ~EndsAt(Bytes(c.got), i)
      <3>1. Len(Bytes(c.got)) = Len(c.got) /\ Len(c.got) \in Nat
        BY BytesAre, LenProperties
      <3>. QED
        BY <1>1, <3>1 DEF Progress, NoneAfter
    <2>2. Result(Given(c, <<Bytes(c.got)>>))
      BY <1>4, <2>1, WholeGiven
    <2>. QED
      BY <1>1, <1>2, <1>4, <2>2 DEF Cut
  <1>. QED
    BY <1>3, <1>4 DEF Readers

LEMMA CallCuts ==
    ASSUME IInv, NEW t \in Threads, Cut(call[t]), CallStep(t)
    PROVE  \E c : call' = [call EXCEPT ![t] = c] /\ Cut(c)
  <1>1. /\ IsCall(call[t]) /\ Cut(call[t])
        /\ call[t].got \in Seq(Ports \X Nat)
        /\ fd \in Ports \cup {NoDevice} /\ taken \in [Ports -> Nat] /\ put \in [Ports -> Nat]
    BY DEF IInv, Typed, CallTyped
  <1>2. CASE Lock(t)
    <2>. DEFINE c == [call[t] EXCEPT !.held = @ + 1]
    <2>1. call' = [call EXCEPT ![t] = c]
      BY <1>2 DEF Lock
    <2>2. /\ c.op = call[t].op /\ c.arg = call[t].arg /\ c.how = call[t].how
          /\ c.got = call[t].got /\ c.start = call[t].start /\ c.lines = call[t].lines
      BY <1>1 DEF IsCall, Fields
    <2>. HIDE DEF c
    <2>3. Cut(c)
      BY <1>1, <2>2 DEF Cut, Progress, Result
    <2>. QED
      BY <2>1, <2>3
  <1>3. CASE Receive(t)
    <2>. DEFINE d == WithByte(call[t], taken)
    <2>1. call' = [call EXCEPT ![t] = AfterByte(d)]
      BY <1>3 DEF Receive
    <2>2. /\ call[t].op \in Readers /\ call[t].how = "running" /\ Asks(call[t])
          /\ fd \in Ports
      BY <1>1, <1>3 DEF Receive, InCall, Running
    <2>3. <<fd, taken[fd] + 1>> \in Ports \X Nat
          /\ d = [call[t] EXCEPT !.got = Append(@, <<fd, taken[fd] + 1>>)]
      BY <1>1, <2>2 DEF WithByte
    <2>. HIDE DEF d
    <2>4. Cut(AfterByte(d))
      BY <1>1, <2>2, <2>3, CutByte
    <2>. QED
      BY <2>1, <2>4
  <1>4. CASE ReadTimesOut(t)
    <2>. DEFINE c == Given(call[t], IF call[t].op = "readlines" THEN WithRest(call[t])
                                    ELSE <<Bytes(call[t].got)>>)
    <2>1. call' = [call EXCEPT ![t] = c]
      BY <1>4 DEF ReadTimesOut
    <2>2. Cut(c)
      BY <1>1, <1>4, CutTimeOut DEF ReadTimesOut, InCall, Running
    <2>. QED
      BY <2>1, <2>2
  <1>5. CASE call[t].op \notin Readers
    <2>1. PICK c : call' = [call EXCEPT ![t] = c] /\ c.op = call[t].op
      <3>1. CASE Transmit(t)
        <4>. DEFINE d == WithByte(call[t], put)
        <4>1. \E c \in {d, Given(d, <<>>)} : call' = [call EXCEPT ![t] = c]
          BY <3>1 DEF Transmit
        <4>2. IsCall(d) /\ d.op = call[t].op
          BY <1>1 DEF WithByte, IsCall, Fields
        <4>. HIDE DEF d
        <4>3. Given(d, <<>>).op = call[t].op
          BY <4>2, GivenIs
        <4>. QED
          BY <4>1, <4>2, <4>3
      <3>2. CASE \E how : Ends(t, how)
        <4>1. PICK how : Ends(t, how)
          BY <3>2
        <4>. DEFINE c == [call[t] EXCEPT !.how = how, !.held = 0]
        <4>2. call' = [call EXCEPT ![t] = c]
          BY <4>1 DEF Ends
        <4>3. c.op = call[t].op
          BY <1>1 DEF IsCall, Fields
        <4>. QED
          BY <4>2, <4>3
      <3>3. CASE \E step : call' = [call EXCEPT ![t].step = step]
        <4>1. PICK step : call' = [call EXCEPT ![t].step = step]
          BY <3>3
        <4>. DEFINE c == [call[t] EXCEPT !.step = step]
        <4>2. call' = [call EXCEPT ![t] = c]
          BY <4>1
        <4>3. c.op = call[t].op
          BY <1>1 DEF IsCall, Fields
        <4>. QED
          BY <4>2, <4>3
      <3>4. CASE Lock(t)
        <4>. DEFINE c == [call[t] EXCEPT !.held = @ + 1]
        <4>1. call' = [call EXCEPT ![t] = c]
          BY <3>4 DEF Lock
        <4>2. c.op = call[t].op
          BY <1>1 DEF IsCall, Fields
        <4>. QED
          BY <4>1, <4>2
      <3>. QED
        BY <1>5, <3>1, <3>2, <3>3, <3>4 DEF CallStep, Receive, ReadTimesOut, WriteTimesOut,
             NothingAsked, Flush, Refused, Close, Open, SetPortClose, SetPortName
    <2>. QED
      BY <1>5, <2>1 DEF Cut
  <1>6. CASE Refused(t)
    <2>. DEFINE c == [call[t] EXCEPT !.how = "threw", !.held = 0]
    <2>1. call' = [call EXCEPT ![t] = c]
      BY <1>6 DEF Refused, Ends
    <2>2. c.how = "threw" /\ c.op = call[t].op /\ c.arg = call[t].arg
      BY <1>1 DEF IsCall, Fields
    <2>. HIDE DEF c
    <2>3. Cut(c)
      BY <1>1, <2>2 DEF Cut
    <2>. QED
      BY <2>1, <2>3
  <1>7. CASE NothingAsked(t) /\ call[t].op \in Readers
    <2>. DEFINE c == [call[t] EXCEPT !.how = "returned", !.held = 0]
    <2>1. call' = [call EXCEPT ![t] = c]
      BY <1>7 DEF NothingAsked, Ends
    <2>2. /\ c.how = "returned" /\ c.op = call[t].op /\ c.arg = call[t].arg
          /\ c.got = call[t].got /\ c.lines = call[t].lines
      BY <1>1 DEF IsCall, Fields
    <2>. HIDE DEF c
    <2>3. call[t].arg = 0 /\ call[t].op \in {"read", "readlines"} /\ Progress(call[t])
      BY <1>1, <1>7 DEF NothingAsked, Asks, Readers, Cut, InCall, Running
    <2>4. c.op = "read" => c.lines = <<>> /\ c.got = <<>>
      BY <2>2, <2>3 DEF Progress
    <2>5. c.op = "read" => Result(c)
      <3>1. Bytes(<<>>) = <<>>
        BY DEF Bytes
      <3>2. FlattenSeq(<<>>) = <<>>
        BY DEF FlattenSeq
      <3>. QED
        BY <2>4, <3>1, <3>2 DEF Result
    <2>6. c.op = "readlines" => ~(c.arg >= Len(Eol))
      BY <2>2, <2>3, EolIs
    <2>7. Cut(c)
      BY <2>2, <2>3, <2>5, <2>6 DEF Cut
    <2>. QED
      BY <2>1, <2>7
  <1>8. call[t].op \in Readers =>
          Lock(t) \/ Receive(t) \/ ReadTimesOut(t) \/ NothingAsked(t) \/ Refused(t)
    BY DEF CallStep, Readers, Transmit, WriteTimesOut, Flush, Close, Open, SetPortClose,
           SetPortName
  <1>. QED
    BY <1>2, <1>3, <1>4, <1>5, <1>6, <1>7, <1>8

(* Every byte that readline and readlines took is given to the caller, in  *)
(* lines that are cut behind each end of line and nowhere else, for any    *)
(* devices, sizes, time-outs and threads (serial.cpp:172-257).             *)
THEOREM LinesEndWhereTheyShould == SerialSpec => []LinesAreCut
  <1>. DEFINE CutInv == IInv /\ \A t \in Threads : Cut(call[t])
  <1>1. SerialInit => CutInv
    <2>. SUFFICES ASSUME SerialInit PROVE CutInv
      OBVIOUS
    <2>1. IInv /\ \A t \in Threads : call[t] = NoCall
      BY InitHolds DEF SerialInit
    <2>2. Cut(NoCall)
      BY DEF Cut, NoCall, Readers
    <2>. QED
      BY <2>1, <2>2
  <1>2. CutInv /\ [SerialNext]_vars => CutInv'
    <2>. SUFFICES ASSUME CutInv, [SerialNext]_vars PROVE CutInv'
      OBVIOUS
    <2>1. IInv'
      BY StepHolds
    <2>2. call = [u \in Threads |-> call[u]]
      BY DEF IInv, Typed
    <2>3. CASE UNCHANGED vars
      BY <2>1, <2>3 DEF vars
    <2>4. ASSUME NEW t \in Threads, CallStep(t) PROVE CutInv'
      <3>1. PICK c : call' = [call EXCEPT ![t] = c] /\ Cut(c)
        BY <2>4, CallCuts
      <3>2. \A u \in Threads : Cut(call'[u])
        BY <2>2, <3>1
      <3>. QED
        BY <2>1, <3>2
    <2>5. ASSUME NEW t \in Threads, NEW r \in Requests, Call(t, r) PROVE CutInv'
      <3>1. Cut(Started(r))
        <4>. DEFINE c == Started(r)
        <4>1. /\ c.op = r.op /\ c.arg = r.arg /\ c.how = "running"
              /\ c.got = <<>> /\ c.start = 0 /\ c.lines = <<>>
          BY DEF Started, NoCall
        <4>2. r.op \in Readers => r.arg \in Nat
          BY SerialAssumption DEF Readers
        <4>3. <<>> \in Seq(Ports \X Nat) /\ Len(<<>>) = 0 /\ <<>> \in Seq(Seq(AnyByte))
          OBVIOUS
        <4>4. Bytes(<<>>) \in Seq(AnyByte) /\ Len(Bytes(<<>>)) = 0
          BY <4>3, BytesAre
        <4>5. FlattenSeq(<<>>) = <<>> /\ SubSeq(Bytes(<<>>), 1, 0) = <<>>
          BY <4>4 DEF FlattenSeq
        <4>. HIDE DEF c
        <4>6. Progress(c)
          BY <4>1, <4>3, <4>4, <4>5 DEF Progress, NoneAfter
        <4>. QED
          BY <4>1, <4>2, <4>6 DEF Cut, c
      <3>2. \A u \in Threads : Cut(call'[u])
        BY <2>2, <2>5, <3>1 DEF Call
      <3>. QED
        BY <2>1, <3>2
    <2>. QED
      BY <2>3, <2>4, <2>5 DEF SerialNext
  <1>3. CutInv => LinesAreCut
    BY DEF LinesAreCut, Cut, Result
  <1>. QED
    BY <1>1, <1>2, <1>3, PTL DEF SerialSpec
=============================================================================
