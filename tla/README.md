# Verification of jetson-nano-communication

TLA+ specifications, TLC configurations and TLAPS proofs for the robot's on-board
program and for the code it stands on: a Jetson receives packets from a controller
over ENet, decodes them, and drives two wheels and two linear actuators through the
board's GPIO library; browsers reach it through a forwarder between WebSockets and
ENet.

Paths in the modules' comments and in this file are relative to the root of the
repository (`src/main.cpp`, `enet-1.3.18/protocol.c`, `macros.md`).

## 1. The system

| part | state it keeps | operations | talks to |
|---|---|---|---|
| packet decoding (`src/server.hpp`, `run` and `onMessage`) | none | classify by length and first bit; decode a motion packet (2 bytes) or a macro packet (1 or 2 bytes) | calls the callbacks |
| motor control (`src/motor.hpp`) | per drive `prevPercent`; the object behind `motors` | `getMotorContoller`, `setDrivePercent`, `setActuators` (two overloads), `stopMovement`, single drives and actuators, macros (stubs) | the GPIO library |
| GPIO library (`JETGPIO/nano.c`, `JETGPIO/orin.c`) | the board's registers as found and as they are; which pins were used; interrupt threads; I2C and SPI handles | `gpioInitialise`, `gpioTerminate`, modes, levels, PWM, interrupt functions, `i2c...`, `spi...` | the board, whose registers outlive the process; threads that call the program's functions |
| ENet transport (`enet-1.3.18/protocol.c`, `peer.c`) | per channel: sequence numbers, reliable windows, commands sent and not acknowledged, commands received and not in line yet | send, number, transmit, acknowledge, time out, retransmit, reassemble, dispatch | a network that loses, duplicates and reorders |
| ENet host (`enet-1.3.18/protocol.c`, `peer.c`, `host.c`) | per peer slot: connection state, queues of commands, flags; the host's dispatch queue and counters | `enet_host_service`: dispatch, send, receive, send, dispatch, wait | the transport; hands events to its caller |
| robot program (`src/main.cpp`, `UDPServerHandler`) | the two global objects `motors` and `serverHandler` | event loop `run`; callbacks `onMotionUpdate`, `onMacro`, `onDisconnect` | ENet host above, motors below |
| websocketpp (`websocketpp/websocketpp`) | per connection: two states, a response, a frame under way, a write queue, a write flag, two timers | the opening handshake, frames, messages, pings, the closing handshake, writes asked for by any thread, time-outs, the end | asio: reads, writes and timers that complete in any order; the program's handlers |
| WebSocket handler (`src/server.hpp`, `TCPServerHandler`) | a list of connections | `onMessage`, `sendString`, `run` | websocketpp; calls the packet callback |
| socket forwarder (`socket-forwarder/socket-forwarder.cpp`) | an ENet client shared by two threads | `runENet`, `onIncomingPacket` | robot over ENet, browsers over WebSocket |
| serial port (`src/serial.cpp`) | port, read lock, write lock | read, write, `readline(s)`, flush, open, close, `setPort` | an implementation that the repository only declares |

The robot's program is one thread. `run` calls `enet_host_service` with a time limit
of 100 ms; a RECEIVE event's packet is decoded and given to a callback, and the
callback writes registers before the loop goes round. Meanwhile the controllers and
the network go on by themselves: everything a controller did during a callback is
found by the next call. The process can end (killed, or `run` returns on a socket
error) between any two register writes, and the board keeps the registers.

The forwarder has two threads: websocketpp's, whose message handler calls ENet, and
one that services the same ENet host.

What is hard here:

* the phases of `enet_host_service` interleaved with several controllers that connect,
  send, vanish and come back; peers that are reset, time out or say goodbye while
  packets of theirs wait; a dispatch queue that is an intrusive list; one event per
  call although one datagram may carry several commands;
* sequence numbers and windows that wrap, on a network that repeats old datagrams;
  acknowledgements that come after the time-out; split packets whose parts repeat;
* register writes that are not atomic, pins that share registers, a cache of the last
  percentage in front of a register that outlives it; bit fields and truncating
  conversions from a byte to a duty cycle;
* interrupt threads that may be starting, blocked or inside the program's function
  when the library is ended under them;
* frames cut anywhere by the network; writes asked for by several threads; two closing
  handshakes that cross; timers whose handlers can no longer be cancelled;
* two locks, taken one or both, by operations that also meet operations without any.

`PROJECT.json` lists every component, the hazards at their lines, and which property
watches which hazard.

## 2. Modules

| module | models | kind |
|---|---|---|
| `DriveArithmetic` | clamp and duty cycle of `PWMDriveMotor`, the range of `gpioPWM` | operators |
| `PacketCodec` | decoding of motion and macro packets | operators, EXTENDS `DriveArithmetic` |
| `PacketDecoder` | the decoder as a machine, over all packets | state machine |
| `MotorControl` | `motor.hpp` over the GPIO registers | state machine |
| `GpioBoard` | what both builds of the GPIO library share: records, threads, buses | actions |
| `NanoGpio`, `OrinGpio` | every call of `jetgpio.h` on each board | actions, EXTEND `GpioBoard` |
| `JetGpio` | the installed library: one of the two boards | state machine, instantiates both |
| `LinkEvents` | what `enet_host_service` promises its caller | abstract specification |
| `EnetHost` | `enet_host_service` of an accepting host, command by command | state machine, implements `LinkEvents` |
| `OrderedChannel` | what a channel promises | abstract specification |
| `EnetChannel` | one channel between two peers over a bad network | state machine, implements `OrderedChannel` |
| `Robot` | `main.cpp` and `UDPServerHandler::run` | composes `EnetHost`, `MotorControl` and `PacketCodec` |
| `WebSocketEvents` | what the WebSocket endpoint promises its handlers | abstract specification |
| `WebSocketHandshake` | what the server answers to a request | operators |
| `WebSocketFrames` | the reader of frames, and the messages that frames stand for | operators |
| `WebSocketConnection` | one connection of websocketpp's server | state machine, implements `WebSocketEvents` |
| `Forwarder` | both threads of the forwarder, `TCPServerHandler` | composes `WebSocketEvents` and `OrderedChannel` |
| `SerialPort` | the locks, the descriptor and the line readers of `serial.cpp` | state machine |
| `...Proofs` | theorems about the module they are named after (`RobotProofs` also about `PacketDecoder`) | proofs |
| `MC...` | values of the constants for TLC; `MCPacketWay` also puts `MotorControl`, `PacketDecoder` and `Forwarder` beside each other, one explored per behaviour | |

A module's tuples of variables (`hostVars`, `threadVars`, ...) stand for the structs
that hold the variables in the code, and `PROJECT.json` maps them to those.

The abstract specifications are the joints of the project. `EnetChannel` builds the
in-order channel that `EnetHost` and `Forwarder` take for granted; `EnetHost` builds
the links a program sees; `WebSocketConnection` builds the sessions from which
`Forwarder` starts.

Definitions named `...Exchanged`, `...Stale`, `...Silently` and the like, each
introduced as "a mistake" or "a slip", are mutations used to show that the properties
can fail; no specification uses them.

### MotorControl

One step is one call into the GPIO library. An operation (`setDrivePercent`,
`setActuators`, ...) puts the calls it will make into `calls`, in the order of the
code, and returns when the list is empty; the process may `Die` at any moment.
`duty`, `level` and `outputs` are the board's registers and survive; `prevPercent`
and the choice of class do not. `wantPercent` and `wantMotion` are ghosts: what the
callers last asked for. `checked` tells the writes whose status becomes an
operation's result from those whose status the code ignores.

`InitOk` and `WriteOk` are the statuses with which `gpioInitialise` and `gpioWrite`
report success. `jetgpio.h` documents 0; `nano.c` returns 1. The passing runs use the
documented 0 (with 1 the program never leaves the simulation and there would be
little to check), the run `motor_init_status` uses what `nano.c` does, and the theorems
hold for every value.

### GpioBoard, NanoGpio, OrinGpio, JetGpio

`regs[p]` holds the fields of pin `p` that the calls write (function, direction,
level, interrupt, pad), `saved[p]` what `gpioInitialise` stored, `pin_tracker` the set
of bits of the word by which `gpioTerminate` knows what to restore. One call of the
library is one step, except `gpioTerminate`, which cancels the threads, waits in its
joins and then restores; the interrupt threads run between the calls (`RequestEvents`,
`CallFunction`, `FunctionReturns`, `ReadFails`, `Cancelled`). `busSpeed` is the
kernel's file with the clock of a bus; `i2c` and `spi` are the tables of handles.
`lives` counts calls of `gpioInitialise`, because the code's static variables outlive
a `gpioTerminate`.

The two boards differ where it matters. On the Nano the pins of a port share their
registers, every pin stores the whole port, and one bit of the tracker stands for both
PWM generators; on the Orin each pin has its own, the level is restored too, and the
numbers of buses and channels on the header are not those of the devices. These
differences are in the modules as the code has them, errors included (section 5).

### EnetHost

`phase` is the place of the thread in `enet_host_service`; `position` is the peer a
send phase has reached, or the datagrams a receive phase has read; `sender` and
`left` are the datagram being read. The actions are the handlers: dispatching one
peer of the queue (`DispatchReceive`, `DispatchZombie`, `DispatchSkip`), one peer of a
send phase (`SendAcknowledgement`, `SendVerifyConnect`, `TimeOut`, `SendNothing`), one
datagram (`ReceiveConnect`, `ReceiveDatagram`) and one command of it
(`HandleAcknowledge`, `HandleSendReliable`, `RefuseData`, `HandleDisconnect`), then
`EndDatagram`, `ReceiveDone`, `Wait` and `Fail`. Between any two of them the other
ends act (`RemoteAcknowledge`, `RemoteSend`, `RemoteLeave`).

The network is what `OrderedChannel` makes of it: the commands of a peer (`wire`)
arrive in order, late, or from some point on not at all; a datagram carries any number
of them. Time is abstracted: a peer may time out in any send phase. Slots are taken in
index order as in `enet_protocol_handle_connect`. `enet_peer_reset` has the order of
its code, flags first and queues second: a queued peer that is reset stays in the
dispatch queue, unflagged, until a dispatch skips it. `QueuedOnce` shows why this does
no harm in this program: the queue has been emptied before a datagram can reuse the
slot.

`MaxWaiting` stands for `maximumWaitingData` in packets, `MaxDatagrams` for the 256
datagrams of one receive phase, and `MaxInFlight` bounds what a peer has on the
network.

`LinkEvents` says what a caller may rely on: per slot a link opens with CONNECT,
delivers in order, each packet once, a prefix of what was sent, and closes with
DISCONNECT; nothing of an earlier link appears on a later one. `EnetHost` implements
it with `link` read off `peerState` and `channel` as the packets dispatched followed
by those on the network.

### EnetChannel

The sender has `outgoing` (numbered, waiting for a window), `sentReliableCommands` (on
the way) and `resend` (timed out, queued again); the receiver has
`incomingReliableCommands` and `incomingUnreliableCommands`, ordered lists with holes,
from which `DispatchReliable` and `DispatchUnreliable` release what is in line. `wire`
is a set of datagrams: a datagram that is handled may stay there and come again.
`OrderedChannel`'s step gives out packets at some `places`, in their order, among those
still to come, every reliable one before the last of them included; the refinement takes
for "still to come" the packets after the last one delivered. Sequence numbers are taken
modulo `Windows * WindowSize`, the code's 2^16, and `Ahead`, `InWindow` and
`Acknowledged` are the code's three comparisons of window numbers. `Pick` keeps the
elements of a list that satisfy a test, which is what a walk over one of ENet's lists
with `enet_list_remove` leaves. Dispatching a packet drops the unreliable commands
behind the receiver's place (`UnreliableQueue`), split packets that never became
complete among them. `TimeOutCommands` takes any of the commands that are due in one
step, as one call of `enet_protocol_check_timeouts` does in its loop. Packets have an
identity and a number of fragments; a reliable packet is put back together from any
order of its parts.

The choices of one datagram per command and of acknowledgements that leave at once are
argued in the module's header. A datagram is assumed not to outlive half a turn of the
sequence numbers (`Fresh`, with `Lifetime` counted in commands): a copy that is older
cannot be told from a new command, in the model or in the code, where half a turn is
32,768 commands on one channel. `Absolute` gives a command the number it would have had
numbers never wrapped, from the ghost field `after` of its packet; `Fresh` and the
proofs need it, the code's steps do not look at it.

`ChannelAssumption` holds of the code's sizes, `Windows` = 16 and `FreeWindows` = 8, and
of what is near them. The sender goes up to `Windows - FreeWindows - 2` windows ahead, the
receiver tells `FreeWindows` apart: if there were many more windows than twice the free
ones, it would take for late, and acknowledge, what is early. `Lifetime` is at least as
many commands as the sender can be ahead, so that it never keeps the sender from sending;
in the code's sizes it may be 28,672 to 32,768. `MaxQueued`, the most reliable commands
that may wait to be sent for the first time, is a bound on the program and not on the
network: an unreliable command carries the last reliable number given out and leaves at
once, past those that wait, so with more than `FreeWindows` windows of them in the queue
(32,768 in the code) the receiver would take it for one of the past. A packet has at most
a window of fragments, which is 4,096 of about 1,400 bytes; the programs here send a few
bytes.

### Robot

`Start` is the construction of the global `motors`, which comes before the host's;
`HostRuns` is a step inside `enet_host_service`, possible only while no register write
is owed (`Idle`): callbacks block the host. `DriveWheels` and `MoveActuators` are the
two calls of `onMotionUpdate`; `MotorsRun` their register writes; `ServeNext` the way
round the loop, which macros and DISCONNECT events take without touching the motors.
`Exit` combines the death of the process with a fresh host.

### WebSocketConnection

The client is a `request` and a `script` of frames; `arrived` is how many of their
pieces the socket has been given. The actions of `Loop` are the handlers that asio's
one thread runs, one at a time (`handle_accept`, `handle_read_handshake`,
`handle_read_frame`, `read_frame`, `ProcessBytes`, `write_frame`,
`handle_write_frame`, `handle_timer`, ...); those of `Outside` are other threads
(`SendChecks`, `SendPushes`, `SendDispatches`, the three steps of a send around its
locks) and the clock (`Expire`). A read takes any number of the pieces that have been
written; `m_buf` is what has been read and not used.

A timer is "running", "expired" (its handler waits and can no longer be cancelled) or
"off". `terminate` is reached from every one of the ends, and `called` records the
handlers it runs. `WebSocketFrames` gives `consume` as the code has it (the header in
its two parts, the circular mask that a cut in the middle of a payload has to go on
with, one message under way beside one control message), and, written apart from it, a
reference over whole frames: which frame may follow those before it, how far a script
can be read (`Readable`), and the messages it stands for (`MessagesIn`). What may follow
comes in two strengths. `Accepted` is what the reader takes: of a message in several
frames it looks at the last frame's opcode before it asks for whole characters, as
`finalize_message` does. `WellFormed` is what RFC 6455 and the comments of `hybi13.hpp`
promise: it looks at the message's opcode. `DeliversEveryMessage` and `RefusesOnlyTheMalformed`
are about the accepted frames, and what is refused is malformed in both senses.
`TextsAreWhole`, which asks that no text be delivered that is accepted only, is violated
(`websocket_text`).
`WebSocketHandshake` is the order of the checks of a request and
their statuses.

### Forwarder

`handling` is what the WebSocket thread is doing in `onIncomingPacket`, `service` what
the other thread is doing in `runENet`; `client` is the shared pointer to the host,
`peer` the state of the one link, `channel` and `robot` what is on the way and what
arrived. `raced` is a ghost: both threads have been in the host at once, after which
nothing is promised of ENet. Calls through a null or dangling pointer crash
(`program`).

### SerialPort

A thread makes one call; calls start in order, which loses nothing because a thread
keeps no state between two calls. A call takes its scoped locks one by one (`Lock`,
`LocksOf`), moves a byte per step, and gives the locks back when it returns or throws.
Bytes are places on a device, so that a byte lost, repeated or out of order shows.
`setPort` closes, renames and opens in steps of their own. The port's name (`port`)
and the open descriptor (`fd`, a device or `NoDevice`) are two variables, as `port_` and
`fd_` are: bytes come from the descriptor, whatever the port is called, and since `open`
and `close` take no lock, an `open` between `setPort`'s close and its rename leaves the
old device open under the new name. Reading past the end of `readline`'s buffer ends a
behaviour (`Ruined`).

## 3. Runs

| run | question | instance |
|---|---|---|
| `packet_way` | do sign, magnitude, mirror symmetry and order survive decoding and conversion? Do the registers follow the commands, whatever the sequence and wherever the process dies? Does the robot get what the browsers sent, in their order, and all that was handled while the link stood? | three parts, one per behaviour: every packet of 1 and 2 bytes (complete); percentages -150, 3, 100, 150: both signs, beyond the clamp, two that collide after it, one with the stop's duty cycle; 2 browsers of 2 messages |
| `motor_init_status` | is an initialised board driven? No, with the status of `nano.c` | percentages 3, 100, 150 |
| `host` | are queue, counter, packets and events consistent, is the queue fair, are the links of `LinkEvents` implemented, dead ones found, accepted packets delivered? | 2 slots, 2 packets (the second slot's peer sends one kind), 2 commands in flight, 2 waiting, 2 datagrams a phase |
| `robot` | does the board show the last motion packet, does nothing else move it, is every accepted packet carried out? | 2 controllers: one sends full speed ahead and an ESTOP, the other a slow turn |
| `robot_disconnect` | does a lost link stop the robot? No | 1 controller |
| `gpio` | are threads ended, pins and clocks given back, does `gpioTerminate` return? | both boards; pins 19, 21, 33, one bus, 2 SPI channels, 2 threads, 2 lives |
| `link` | does the channel keep its promise, do its counters stay exact, do packets arrive? | 6 windows of 2 commands, 3 of them free, 3 in transit, 2 datagrams on the wire; unreliable numbers up to 3; 4 plans |
| `forwarder_race` | is ENet's host guarded? No | 2 browsers of 2 messages |
| `websocket` | are messages delivered as the frames have them, writes ordered, ends told once and in time? | 8 scripts, 6 requests, 2 sends, 1 close |
| `websocket_text` | is every text that is delivered made of whole characters? No | as `websocket` |
| `serial` | do bytes stay together, are lines cut where they end, does every call return? | 2 devices; any 3 calls of 13 kinds, and 5 chosen ones, each from a thread of its own |
| `serial_line` | is a line no longer than the size asked for? No | 1 call |

The runs take from a few seconds to two minutes each and reach up to 850,000 distinct
states.

### The bounds

* `host`: the handlers touch one slot and the queue, and never a third, so two slots
  let one peer's events meet another's. Two waiting packets reach the requeueing
  branch and the refusal; two datagrams let a phase end on its limit with a datagram
  left over. The second peer's packets are alike because order is watched on the
  first's.
* `robot`: the two motion packets differ in both wheels, signs and both actuators, so
  that a mixture of them cannot look like either. The program exits only when its
  loop has ended (`MCNext`): deaths between any two register writes are in
  `packet_way`, and in the theorems about both.
* `gpio`: pins 19 and 21 share a port of the Nano and belong to SPI channel 0; pin 33
  has a PWM generator on both boards and is the Orin's odd case. One behaviour uses
  the buses, or levels, or functions of pins with interrupts on one pin (`OneUse`):
  they write different registers. Two lives reach the variables that are not reset.
  The theorems of `JetGpioProofs` have none of these bounds.
* `link`: the numbers start just before their wrap (`Starts`), and the window limit
  is reached. `Lifetime` is half a turn, as in the theorems; no plan queues more than
  `MaxQueued` commands. Two datagrams at once
  allow an old one to overtake a new one; loss and repetition need only one. The plans
  are six whole packets; a split one with a split unreliable one; unreliable ones
  until their numbers run out; and three split unreliable packets, so that the receiver
  holds parts of several when it drops what it has passed.
* `packet_way`: the three parts share no variable, so nothing is lost by exploring each
  alone; `Robot` joins the decoder and the motors through the event loop. For the
  forwarder, two messages show order, two browsers show that neither overtakes itself,
  and one reply of the robot reaches `sendString`.
* `websocket`: a script for each branch of the reader: a message in two frames
  around a ping, messages inside messages, a continuation of nothing, a missing mask,
  a wrong length, too long a message, text cut inside a character at the end of a
  message of one frame and of several, two closes. Two
  sends meet in the queue with a pong and a close between them.
* `serial`: two threads can wait for each other, a third comes between; the end of
  line has two bytes, so that it can be cut; sizes below and above it. For the
  descriptor to change between two bytes of a `readline` there have to be five calls: a
  `setPort`, an `open` between its close and its rename, the `readline`, a `close` and
  an `open`. Five arbitrary calls are too many, so behaviours of more than three start
  these five (`MCFiveCalls`), with any interleaving of their steps.

`CHECK_DEADLOCK FALSE` stands where a behaviour ends by itself: `packet_way` (a packet is
decoded once, the forwarder's browsers have written everything), `gpio` (the lives are
used up, or the process died), `link` (the plan has been delivered), `forwarder_race`
(as `packet_way`), both WebSocket runs (the connection has ended), both serial runs (the
calls are used up). That nothing is left waiting there is
what `TerminateReturns`, `ReliableArrives`, `MessagesReachTheRobot`, the liveness of
`WebSocketEvents` and `CallsReturn` say.

### Fairness

* `host`: the thread keeps calling and running `enet_host_service` (weak fairness of
  `Service \/ HostStep`; each wait is bounded by 100 ms), and a peer whose other end is
  gone times out when the send phases keep reaching it (strong fairness of `TimeOut` for
  such peers: an unanswered ping or VERIFY_CONNECT is given up after at most 30 s). The
  network and the other ends get none.
* `robot`: weak fairness of the program's thread. `AcceptedIsObeyed` excepts the ends
  the code has: a closed link, a failed socket, a dead process.
* `link`: unanswered commands time out and no datagram stays on the network for ever
  (weak fairness); a command that is sent again and again gets through in the end, and so
  does its answer, and a sender that can send again and again does (strong fairness,
  with the enabling conditions written out as `CanSend`, `Matters` and `AsksAgain`,
  which TLC evaluates faster than ENABLED). A network that loses everything is out of the
  code's hands: there the peer times out, which is `EnetHost`'s part.
* `gpio`: the thread inside `gpioTerminate` runs, a cancelled thread ends (its `read` is
  a cancellation point), and the program's interrupt functions return.
* `websocket`: handlers that are ready run, and timers that are set expire. Nothing is
  assumed of the client: it need not write, read or close.
* `packet_way`: both threads of the forwarder run, and the channel delivers, which is
  `EnetChannel`'s `ReliableArrives`.
* `serial`: every thread runs its call; a device is read until a time-out, as
  `SerialImpl` is declared to.

### What some properties leave out

* `UnaskedMovesNothing`: a step that is not a motion packet's execution leaves every
  output alone or stops it: the constructor writes the stop pulse and lowers the pins.
* `TerminateRestores`: section 4 lists the pins that the code does not give back.
* `BytesStayTogether`: the bytes of one call are neighbours on their device. A call may
  change from one device to another when a lockless `open` had slipped into an earlier
  `setPort` and another one came during the call (`SlippedInTwice`), and then only once:
  this is what the code does, not what a caller would want. In any other history a call's
  bytes come from one device.
* `NothingFollowsTheLast`: "last" is a frame marked terminal, as the code marks it. A
  CLOSE that the server sends first is not terminal, and a data frame whose sender had
  tested the state before may follow it.
* `ClockGivenBack`: the clock of a bus, after `i2cClose`, in the first life. That a failed
  `i2cOpen` leaves its handle reserved (section 5) is not looked at.
* `MessagesReachTheRobot` promises nothing once both threads were in the host or the link
  was lost.
* `DecoderTypeOK` claims no range of a macro's code. The code reads five bits (0 to 31),
  `macros.md:15` documents six, the comment of `src/server.hpp:451` says
  `0 < macroCode < 23`; the codes end in callbacks that are stubs, so no behaviour depends
  on which of them is right.

### What the violation runs show

* `motor_init_status`: `gpioInitialise` (`JETGPIO/nano.c:187`, `698`) returns 1 on
  success, `getMotorContoller` takes it for a failure: the robot drives a simulation.
* `robot_disconnect`: `run` never calls `onDisconnectCallback`; the robot keeps
  carrying out the last motion packet after the link is lost.
* `forwarder_race`: `onIncomingPacket` sends through the host on the WebSocket thread
  while the other thread is inside `enet_host_service`; ENet's FAQ asks the application
  to guard it.
* `serial_line`: `readline` does not ask whether its buffer is full (`src/serial.cpp:196`)
  while it has fewer bytes than the end of line (`src/serial.cpp:191`): with a size below
  that length the line gets longer than the size, which `include/serial/serial.h:313`
  calls the "maximum length of a line", and runs past the buffer.
* `websocket_text`: `finalize_message` (`hybi13.hpp:537`) asks the opcode of the last
  frame and not of the message, so a text whose last continuation stops inside a
  character is delivered, against the comments at lines 512 to 514 and 536.

## 4. Proofs

All theorems are proved by TLAPS for every value of the constants under the named
assumptions of the modules; TLC checks the same formulas on the instances above. In
each module the theorems rest on one or two inductive invariants, with one lemma per
action.

**`MotorControlProofs`** (`MotorAssumption`: percentages are integers, the library's
success statuses natural numbers). `Inv` adds to the properties what the code relies on
silently: the calls still owed ask for what was last wanted (`CallsAgree`), pin A is
written before pin B (`PinAFirst`), every output either shows what is wanted or is owed
a call (`PercentsOwed`, `LevelsOwed`), the register holds the duty cycle of
`prevPercent` from the moment the constructor has set the drive up (`DutyIsCached`),
and nothing was ever written to a pin before all pins had become outputs
(`LevelsNeedOutputs`). `MotorInvariant`, `MotorTypeOK`, `CommandsReachOutputs`,
`ActuatorsMoveAsCommanded` and `RestartIsStill` follow.

**`EnetHostProofs`** (`HostAssumption`: the limits are positive). `HostInv` is inductive:
besides the queue (`QueuedOnce`, `NothingStranded`), the counter and the ownership of
packets, it says how the two ends of a slot agree (`RemoteMatches`), in which order
commands are on the wire (`WireInOrder`), that a datagram being read is on it
(`DatagramOnWire`) and that the second send phase leaves no goodbye unanswered
(`GoodbyesAnswered`). `HostInvariant`; and `NeverSleeps`, from what each phase leaves
behind.

`QueueServedInTurn` takes the primes apart by what each step does to the queue: only
the peer in front leaves its place, everybody else moves up by one or stays.

The same module proves `HostImplementsLinks`, `HostSpec => ImplementsLinkEvents`:
`Service` is the program's asking, `ReceiveConnect` an arrival, `RemoteAcknowledge` an
acceptance, `RemoteSend` a sending, `RemoteLeave` and `HandleDisconnect` of a connected
peer a break, `HandleAcknowledge` an opening, `DispatchReceive` a delivery,
`DispatchZombie` and a time-out of a connected peer a closing, the ends of a link that
never opened an abandonment, `HostRestart` a crash; every other step changes nothing
that a program can see.

**`EnetChannelProofs`** (`ChannelAssumption`, above). One inductive invariant, `IInv`
(`Invariance`), carries four theorems: `NothingIsLost` (a command leaves the sender only
when the receiver has it), `TheOldestGetsAnAnswer` (the receiver takes the oldest command
the sender keeps, or acknowledges it again), `CountersAreExact` (what is in transit and
in each window is counted exactly, and the receiver's queues stay in order) and
`ChannelKeepsOrder` (`ChannelSpec` implements `OrderedChannel`: whatever the network does,
packets come out in the order they were sent, each at most once, and none before a
reliable one that was sent earlier). Why an
invariant is needed at all: the code only compares numbers modulo 2^16, and whether a
number is old or new follows from how far apart the two ends can be, which no state
variable holds. The argument runs over absolute numbers:

* packets lie behind each other and leave no number out (`PacketsInv`); the queue of
  commands never sent continues where the sent ones end (`Waiting`);
* a sent, unanswered command is at most `Windows - FreeWindows - 2` windows behind the
  last one sent (`InReach`): a new window is opened only when the counters of the
  windows ahead are 0 (`WindowWraps`), which says something about commands only because
  the counters are exact (`CountersInv`);
* the receiver has an absolute number `m`, before which every reliable packet is delivered
  and behind which none is (`ReceiverInv`); what it still waits for was not
  acknowledged, so the sender has it (`NothingAcknowledgedIsLost`), so it is in reach,
  so everything sent is less than a turn ahead of `m`, and with `Fresh` so is everything
  on the wire: a wrapped number then stands for one command only, and `Ahead` tells
  early from late;
* an entry of the reliable queue holds parts of one packet, each once (`Assembles`), and
  the first entry is never complete and in line (`FirstWaits`);
* an unreliable packet shares the reliable number before it, and its own number (the ghost
  field `number`) orders it among those that do: the receiver's place is the pair of `m`
  and its unreliable number, what is delivered lies behind that place and rises
  (`GivenInOrder`), and every entry of the unreliable queue lies ahead of it, in order
  (`Hinted`, `Hints`).

A step of the receiver only adds to what was delivered (`DeliversOn`), and up to the last
packet delivered no reliable one is missing (`View`); so every step gives out packets at
rising places among those still to come, which is `OrderedChannel`'s step
(`DeliversPlaces`).

The sequences need two facts for which the libraries have induction theorems that
cannot be used here: what `Pick` keeps, and where `Insert` puts an entry. The first is
proved from the first index at which the claim would fail, with the least-element
principle for the naturals; the second from the properties of a finite set's maximum.
`TLC` checked `IInv` on the instance of `link` before the proof.

**`RobotProofs`** (`RobotAssumption`: payloads are sequences of bytes) is compositional.
Every step of the program is a step of the host or leaves it alone, so that
`RobotSpec => HostSpec` (`RobotRunsHost`), and with it every theorem about the host holds
of the whole program (`RobotKeepsLinks`). The program's own invariant is `HostInv`, the
motors' `Inv`, and three facts that tie them together: a packet being handled is the
one of the host's event (`HandlesItsEvent`), the motors have been asked for the last
motion packet (`AsksForLastMotion`), a program that is not running has handled nothing
(`StartsFresh`). The motors' lemmas are used as they stand; what is new is that every
byte decodes to a wheel percentage between -24 and 24, where the clamp does nothing.
`RobotObeys` and `NothingMovesUnasked` follow.

The decoder's properties are proved here too, for any set of packets
(`DecoderAssumption`: a packet is a sequence of bytes): `DecoderTypes`,
`ReversalIsExact`, `MirroringIsExact`, `MonotonyOfSticks`. A byte is a sum of its fields
(`BytesAreFields`), a notch and a sign determine a wheel (`WheelsOf`), the truncating
conversions are odd functions (`TruncationIsOdd`, `DutyIsOdd`), and so a statement about
bytes becomes one about eight notches. `DecoderTypes` gives the ranges of a motion
packet; of a macro's code it claims none (section 3). `NothingMovesUnasked` says that a
step other than a motion packet's execution moves nothing, which leaves it the stop
pulse and the stop of an actuator: the constructor of every new process writes them.

**`ForwarderProofs`** (`ForwarderAssumption`: a number of messages). `ForwarderInvariant`:
`ForwarderInv` for any browsers and messages. What a browser has written and nobody has
read is in order and behind everything forwarded, and the message in the thread's hands
stands between the two.

**`JetGpioProofs`** (`GpioAssumption`: pins of the header). The calls of both boards are
reduced to a few kinds (a pin's registers, an interrupt, a bus, a channel, a step of a
thread, a life's beginning and end), and each kind is treated once. `OneWatcherPerPin`
and `ThreadsEndFirst` come from an invariant about the threads (`ThreadsWatch`: every
running thread's pin is recorded as monitored, and a library that is off has no running
thread), and `ClocksComeBack` from one about the buses. `TerminationRestores` needs a
second invariant per board: a pin that the tracker does not have is as it was stored,
with the exceptions that `GivenBack` names, and on the Nano pins of one port share what
is stored, which makes it harmless that each restores the registers of all. The
exceptions, in `GivenBack` and `GeneratorGivenBack`, are what the code does not give
back: on the Nano the function and the pad of a pin, and a generator, that only
`gpioPWM` used; on the Orin a pad left with an interrupt's edge, and a generator that
was switched on without its frequency having been set. They are about function,
direction and generators: levels (the code restores none on the Nano, and pin 33's
wrongly on the Orin) they do not mention.

**`WebSocketProofs`** (`ScriptsAssumption`: the client writes frames whose fields hold no
more than they have bits for, see `Frame`; `RequestsAssumption`: no request asks for
hybi00, which is not modelled; `SizeAssumption`: the limit of a message is a natural
number). There are two invariants. `IInv` is about writing and the end: the write flag is
set exactly while a write is under way or its messages are in hand (`FlagHeld`), a write
of frames never meets the response's (`Opening`), whatever is terminal is the last that
is written (`StopsAtLast`), what waits is attended (`QueueIsAttended`), and the handlers
told agree with the state (`ToldOfTheEnd`). `QueueIsAlwaysAttended`, `TheLastIsLast`,
`WritesDoNotOverlap` and `TheEndIsToldOnce` follow from it alone.

`ConnectionInv` adds what is read. `DeliversEveryMessage` is not inductive, because it
says nothing of a frame that is half read: the bytes still wanted, the part of the
message that is there, and how far the masking key has been turned round. So

* `ReadWell`: every frame gone through was one that could follow those before it, and if a
  message is under way, its beginning is among them;
* `ReadsAt`: the processor stands in its frame exactly where the bytes it was given end,
  which the connection's counters say a second time (`Position`, from `arrived` and
  `m_buf`), and what it keeps of the message is the payload up to there (`Carries`
  between frames, `Fills` inside one, with the key turned by as many bytes as were
  unmasked, so that a cut inside a payload does no harm);
* `ReaderInv` joins these to what was delivered: all the messages of the frames read while
  the connection is open, and a prefix of them afterwards;
* `BufferInv`, `StatusInv` and `TimersInv` are about the rest: what lies behind the
  request is kept in the buffer while the response is written, a read finds the buffer
  empty, and each timer has a cause (the handshake, a close, a frame, the end of
  reading).

One turn of `consume` is treated apart from the connection (`ConsumeOutcome`): given a
processor that stands at some byte of a script and any bytes from there on, it stands
behind what it used, or has ended the frame and gives its message, or has refused it,
and then the frame is not `Accepted`, and so not `WellFormed`. `Processing` lifts that
to `ProcessBytes`; every other step is shown to read nothing (`Quiet`).
`ConnectionIsWellFormed`, `EveryMessageIsDelivered` and `OnlyTheMalformedIsRefused`
follow (the messages are those of the `Accepted` frames, with the unfinished text of
`websocket_text` among them), and `HandlersAreToldInOrder`, the refinement of
`WebSocketEvents` without its fairness (`Events!Safe`): `TellsIs` says of each step how
the state and the handlers called change, and a delivery takes the first of the messages
that are left because what was delivered is a prefix of all of them (`DeliveredOfAll`).

The messages of a script are a concatenation of concatenations, and the proofs need to
know what the next frame adds. The community modules' folds are recursive functions:
that the concatenation of one sequence more is the concatenation so far, with that
sequence behind it (`FlattenNext`), is proved from the existence and uniqueness of such
a function. Least elements (the first terminal frame of a queue, the first frame that
cannot be read) come from `WellFoundedInduction`. TLC checked `ConnectionInv` on the
instance of `websocket` before the proof.

**`SerialPortProofs`** (`SerialAssumption`: devices are sequences of bytes, requests
have the arguments of their operations). `LocksHold`: a call that moves bytes holds the
lock of its direction, and a lock has one holder; the descriptor is closed, or on the
device of the port's name, or on the one it was left on by an `open` that slipped into a
`setPort` (`OnPort`, `Renames`), and from there it can only come back; hence
`CallsAreWhole`, with the one change of device that section 3 tells of, and
`RenamedAlone`. `BuffersEnd`, from a second invariant above it (`FullInv`): a `readline`
whose buffer has room for an end of line has not filled it while it runs.
`LinesEndWhereTheyShould` (`LinesAreCut`), from a third, which says for a running call
that the lines cut so far and the bytes behind them are what it read, and that no end of
line lies in those bytes (`Progress`). That a returned line has its end of line at its
end and nowhere else is claimed, by the property itself, of an end of line that does not
overlap itself (`EolApart`): with "aa", the bytes `aaa` give a second line "a", because
the code looks for the end of line in everything it has read and not in the line. The
community modules' `FlattenSeq` is a recursive function; that appending a line appends
its bytes is proved from the existence and uniqueness of such a function.

Model-checked only:

* all liveness (`DeadLinksReported`, `AcceptedIsDelivered`, `AcceptedIsObeyed`,
  `TerminateReturns`, `ReliableArrives`, `MessagesReachTheRobot`, `CallsReturn`, the
  fairness of `WebSocketEvents`), which TLAPS does not reach;
* `ImplementsWebSocketEvents` as a whole, for that reason: its safety part is proved
  (`HandlersAreToldInOrder`), that both handshakes end is checked by `websocket`.

## 5. Not modelled

**ENet**: unsequenced packets, checksums, compression, bandwidth limits and
`enet_peer_disconnect_later`, which neither program uses; the estimation of round-trip
times, which only moves the time-outs. `duplicatePeers`: its default exceeds every
number of slots. The session numbers that keep an earlier connection's datagrams out:
`EnetHost` empties a slot's channel when it is reset.

**websocketpp**: hybi00, the client role, proxies, TLS, compression, the HTTP handler
and deferred responses, pausing, interrupting and the pong timer, none of which the
forwarder uses; `close` is called on asio's thread only, as by the forwarder. A request
that the parser refuses is answered with 400, where the code has 413 and 431 too. The
socket's post-init timer is assumed to be still cancellable when `post_init` is done
(`transport/asio/connection.hpp:575`), and the shutdown timer (line 1041) is left out:
a shutdown ends by itself. `TCPServerHandler::onMessage` decodes `char`s: the second byte
of a macro packet above 127 becomes a `data` with 24 more bits set (`src/server.hpp:218`).
The forwarder, the one program that uses the class, sets the callback for raw packets
only, and the model stops there.

**GPIO**: the pins' addresses and the layout of the registers; a `gpioInitialise` that
cannot map them; the read-modify-write inside one call (`gpioWrite` on a port that
another thread writes, `gpioPWM`'s moment without pulses): a call is one step.

**Motors**: the destructors, which no program executes (`motors` is never deleted and
`motor-control-example.cpp` never leaves its loop); `disableDriveMotors` and
`disableActuators`, which are never assigned; limit switches and relay, pins that
nothing uses.

**Serial port**: `SerialImpl`, which the repository only declares; the setters of baud
rate, parity and the like, which take no lock and change nothing else. `readSerial.cpp` is
one blocking read, and linked into no program.

**ENet's support code** (lists, allocation, sockets, the range coder) appears as
sequences and channels. **The UDP examples** are stand-alone demonstrations.

Some behaviours of the code were met on the way and are in the models as they are, or
left out as said above, but no property is about them:

* `nano.c`'s `gpioWrite` returns 1 on success, so `extend` and `retract` return false
  after every successful write. `stopMovement` of an actuator raises both pins
  (`src/motor.hpp:145`), which the comment below it says to "try not to do", one after the
  other: seen from both pins low, pin A is up alone in between, as when extending.
  `onMacro` is empty: an ESTOP does nothing. Five bits of a macro code are read where
  `macros.md` documents six, and nothing enforces the range that the comment of
  `src/server.hpp:451` gives.
* GPIO: the Nano does not track pins of which only the PWM or an interrupt was used; its
  falling edge is programmed as both edges except on pin 3; the interrupt thread is
  started even after bad arguments. The Orin restores pin 33's level from pin 3's,
  gives SPI channel 1 the handle 2, which `spiClose` refuses and `spiXfer` does not, and
  shifts 1 into the sign bit of its tracker. A failed `i2cOpen` or `spiOpen` leaves the
  handle reserved, and the bus's clock changed; the clock is forgotten over a
  `gpioTerminate`. After a refused `I2C_SLAVE` a transfer goes to the device addressed
  before (`JETGPIO/nano.c:2268`). `thread_n` and the tracker are never reset.
* WebSocket: the open-handshake timer, once expired, can end a connection that has just
  become open, which is then closed rather than failed; an invalid CLOSE after our
  acknowledgement queues a second one, which is never written.
* Forwarder: the robot's replies reach no browser, because the list of connections stays
  empty; packets are never destroyed, nor those that `enet_peer_send` refuses; the link
  is never made again; a browser's leaving is not forwarded; a message before the host
  exists, or after it was destroyed, goes through a null or dangling pointer.
* Serial: a `readlines` with a size below the end of line's, and any call that throws,
  loses what it had read; an `open` that slips into a `setPort` leaves the port's name
  on a device that is not open.

## 6. Plan

Done: everything of section 2. What is left, in order of use:

1. `Forwarder` and `WebSocketConnection` composed for two connections with the real
   connections in the place of `WebSocketEvents`, on small scripts.
2. Session numbers in `EnetHost`, with datagrams of earlier connections on the wire.
3. The lost update of a shared port: library calls of two threads in steps.
