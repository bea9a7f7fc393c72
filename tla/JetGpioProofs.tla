----------------------------- MODULE JetGpioProofs -----------------------------
(****************************************************************************)
(* Proofs about the GPIO library of both boards, for every set of pins, buses   *)
(* and channels, and any number of threads and lives: its records stay well      *)
(* formed, no pin is watched twice, no interrupt thread outlives the library, a     *)
(* bus gets its clock back and a pin its function.                              *)
(****************************************************************************)
EXTENDS JetGpio, SequenceTheorems, TLAPS

--------------------------------------------------------------------------------
(* What a step of either board's library is for the threads and the buses; what it   *)
(* does to the pins' registers comes after.                                   *)
Begins ==
    /\ phase = "off" /\ phase' = "ready"
    /\ lives < MaxLives /\ lives' = lives + 1
    /\ i2c' = [b \in Buses |-> [i2c[b] EXCEPT !.state = "CLOSED"]]
    /\ spi' = [c \in Channels |-> [spi[c] EXCEPT !.state = "CLOSED"]]
    /\ global_int' = TRUE
    /\ monitored' \in SUBSET IsrPins
    /\ UNCHANGED <<threads, joined, busSpeed, i2c_speed>>

Stops ==
    /\ phase = "ready" /\ phase' = "joining"
    /\ global_int' = FALSE
    /\ UNCHANGED <<threads, joined, monitored, i2cVars, spi, lives>>

Ends ==
    /\ JoinsReturn
    /\ phase' \in {"off", "crashed"}
    /\ joined' = Len(threads) /\ monitored' = {}
    /\ UNCHANGED <<global_int, threads, i2cVars, spi, lives>>

Watches(p) ==
    /\ phase = "ready" /\ phase' = phase
    /\ StartThread(p)
    /\ UNCHANGED <<global_int, joined, i2cVars, spi, lives>>

Moves ==
    /\ phase = "ready" /\ phase' = phase
    /\ \/ spi' = spi
       \/ \E c \in Channels, s \in [state : {"CLOSED", "RESERVED", "OPENED"}, fd : {"none", "open"}] :
             spi' = [spi EXCEPT ![c] = s]
    /\ UNCHANGED <<threadVars, i2cVars, lives>>

Kinds ==
    \/ Begins \/ Stops \/ Ends \/ Moves
    \/ \E p \in IsrPins : Watches(p)
    \/ \E b \in Buses : OpenI2c(b) \/ CloseI2c(b) \/ \E d \in Devices : SmbusTransfer(b, d)
    \/ \E t \in 1..Len(threads) : callback(t)

Registers ==
    /\ DOMAIN regs = Pins /\ DOMAIN saved = Pins
    /\ pin_tracker \subseteq 0..32

SpiTyped == spi \in [Channels -> [state : {"CLOSED", "RESERVED", "OPENED"}, fd : {"none", "open"}]]

--------------------------------------------------------------------------------
(* The pins have their bits.                                                  *)
LEMMA BitRange == \A p \in Pins : Bit(p) \in 0..27
  <1> SUFFICES ASSUME NEW p \in Pins PROVE Bit(p) \in 0..27
    OBVIOUS
  <1>1. p \in ToSet(Header)
    BY GpioAssumption
  <1>2. PICK i \in DOMAIN Header : p = Header[i]
    BY <1>1 DEF ToSet
  <1>3. DOMAIN Header = 1..28
    BY DEF Header
  <1>4. i - 1 \in 0..27 /\ Header[(i - 1) + 1] = p
    BY <1>2, <1>3
  <1>. QED
    BY <1>4 DEF Bit

(* The Nano's calls.                                                         *)
LEMMA NanoKinds == ASSUME SpiTyped, Nano!Next PROVE Kinds
  <1>1. CASE Nano!Initialise
    BY <1>1 DEF Nano!Initialise, Nano!gpioInitialise, Kinds, Begins
  <1>2. CASE Nano!StopThreads
    BY <1>2 DEF Nano!StopThreads, Nano!i2cVars, Kinds, Stops, i2cVars
  <1>3. CASE Nano!gpioTerminate
    BY <1>3 DEF Nano!gpioTerminate, Nano!FinishTerminate, Nano!JoinsReturn, Nano!i2cVars, Kinds, Ends,
                JoinsReturn, i2cVars
  <1>4. ASSUME NEW p \in Pins,
               \/ Nano!gpioSetMode(p) \/ Nano!gpioRead(p) \/ Nano!gpioWrite(p)
               \/ Nano!gpioSetPWMfrequency(p) \/ Nano!gpioPWM(p)
        PROVE  Moves
    <2>1. phase = "ready" /\ UNCHANGED <<phase, Nano!threadVars, Nano!i2cVars, spi, lives>>
      BY <1>4 DEF Nano!gpioSetMode, Nano!SetInput, Nano!SetOutput, Nano!gpioRead, Nano!gpioWrite,
                  Nano!WriteLow, Nano!WriteHigh, Nano!gpioSetPWMfrequency, Nano!gpioPWM, Nano!PinCall
    <2>. QED
      BY <2>1 DEF Moves, threadVars, i2cVars, Nano!threadVars, Nano!i2cVars
  <1>5. ASSUME NEW p \in IsrPins, NEW edge \in {"rising", "falling", "either"},
               Nano!gpioSetISRFunc(p, edge)
        PROVE  Watches(p)
    BY <1>5 DEF Nano!gpioSetISRFunc, Nano!InterruptCall, Nano!StartThread, Nano!i2cVars, Watches,
                StartThread, i2cVars
  <1>6. ASSUME NEW b \in Buses, Nano!i2cOpen(b) \/ Nano!i2cClose(b) PROVE Kinds
    BY <1>6 DEF Nano!i2cOpen, Nano!i2cClose, Nano!OpenI2c, Nano!CloseI2c, Kinds, OpenI2c,
                CloseI2c, boardVars, threadVars, Nano!boardVars, Nano!threadVars
  <1>7. ASSUME NEW b \in Buses, NEW d \in Devices,
               \/ Nano!i2cWriteByteData(b, d) \/ Nano!i2cReadByteData(b, d)
               \/ Nano!i2cWriteWordData(b, d) \/ Nano!i2cReadWordData(b, d)
        PROVE  SmbusTransfer(b, d)
    BY <1>7 DEF Nano!i2cWriteByteData, Nano!i2cReadByteData, Nano!i2cWriteWordData,
                Nano!i2cReadWordData, Nano!SmbusTransfer, Nano!boardVars, Nano!threadVars, SmbusTransfer,
                boardVars, threadVars
  <1>8. ASSUME NEW c \in Channels, Nano!spiOpen(c) \/ Nano!spiClose(c) \/ Nano!spiXfer(c)
        PROVE  Moves
    BY <1>8 DEF SpiTyped, Nano!spiOpen, Nano!spiClose, Nano!spiXfer, Nano!OpenSpi, Nano!CloseSpi,
                Nano!SpiTransfer, Nano!gpioVars, Nano!boardVars, Nano!threadVars, Nano!i2cVars,
                Moves, threadVars, i2cVars
  <1>9. ASSUME NEW t \in 1..Len(threads), Nano!callback(t) PROVE callback(t)
    BY <1>9 DEF Nano!callback, Nano!RequestEvents, Nano!CallFunction, Nano!ReadFails,
                 Nano!FunctionReturns, Nano!Cancelled, Nano!ThreadStep, Nano!boardVars, Nano!i2cVars,
                 callback, RequestEvents, CallFunction, ReadFails, FunctionReturns, Cancelled,
                 ThreadStep, boardVars, i2cVars
  <1>. QED
    BY <1>1, <1>2, <1>3, <1>4, <1>5, <1>6, <1>7, <1>8, <1>9
       DEF Nano!Next, Nano!Call, Kinds

(* The Orin's calls.                                                         *)
LEMMA OrinKinds == ASSUME SpiTyped, Orin!Next PROVE Kinds
  <1>1. CASE Orin!Initialise
    BY <1>1 DEF Orin!Initialise, Orin!gpioInitialise, Kinds, Begins
  <1>2. CASE Orin!StopThreads
    BY <1>2 DEF Orin!StopThreads, Orin!i2cVars, Kinds, Stops, i2cVars
  <1>3. CASE Orin!gpioTerminate
    BY <1>3 DEF Orin!gpioTerminate, Orin!FinishTerminate, Orin!JoinsReturn, Orin!i2cVars, Kinds, Ends,
                JoinsReturn, i2cVars
  <1>4. ASSUME NEW p \in Pins,
               \/ Orin!gpioSetMode(p) \/ Orin!gpioRead(p) \/ Orin!gpioWrite(p)
               \/ Orin!gpioSetPWMfrequency(p) \/ Orin!gpioPWM(p)
        PROVE  Moves
    <2>1. phase = "ready" /\ UNCHANGED <<phase, Orin!threadVars, Orin!i2cVars, spi, lives>>
      BY <1>4 DEF Orin!gpioSetMode, Orin!SetInput, Orin!SetOutput, Orin!gpioRead, Orin!gpioWrite,
                  Orin!WriteLow, Orin!WriteHigh, Orin!gpioSetPWMfrequency, Orin!gpioPWM, Orin!PinCall
    <2>. QED
      BY <2>1 DEF Moves, threadVars, i2cVars, Orin!threadVars, Orin!i2cVars
  <1>5. ASSUME NEW p \in IsrPins, NEW edge \in {"rising", "falling", "either"},
               Orin!gpioSetISRFunc(p, edge)
        PROVE  Watches(p)
    BY <1>5 DEF Orin!gpioSetISRFunc, Orin!InterruptCall, Orin!StartThread, Orin!i2cVars, Watches,
                StartThread, i2cVars
  <1>6. ASSUME NEW number \in {0, 1}, Orin!BusOf(number) \in Buses, Orin!i2cOpen(number) PROVE Kinds
    BY <1>6 DEF Orin!i2cOpen, Orin!OpenI2c, Kinds, OpenI2c, boardVars, threadVars,
                Orin!boardVars, Orin!threadVars
  <1>7. ASSUME NEW b \in Buses, Orin!i2cClose(b) PROVE Kinds
    BY <1>7 DEF Orin!i2cClose, Orin!CloseI2c, Kinds, CloseI2c, boardVars, threadVars,
                Orin!boardVars, Orin!threadVars
  <1>8. ASSUME NEW b \in Buses, NEW d \in Devices,
               \/ Orin!i2cWriteByteData(b, d) \/ Orin!i2cReadByteData(b, d)
               \/ Orin!i2cWriteWordData(b, d) \/ Orin!i2cReadWordData(b, d)
        PROVE  SmbusTransfer(b, d)
    BY <1>8 DEF Orin!i2cWriteByteData, Orin!i2cReadByteData, Orin!i2cWriteWordData,
                Orin!i2cReadWordData, Orin!SmbusTransfer, Orin!boardVars, Orin!threadVars, SmbusTransfer,
                boardVars, threadVars
  <1>9. ASSUME NEW c \in Channels, Orin!spiClose(c) \/ Orin!spiXfer(c)
        PROVE  Moves
    BY <1>9 DEF SpiTyped, Orin!spiClose, Orin!spiXfer, Orin!CloseSpi, Orin!SpiTransfer,
                Orin!gpioVars, Orin!boardVars, Orin!threadVars, Orin!i2cVars,
                Moves, threadVars, i2cVars
  <1>10. ASSUME NEW number \in {0, 1}, Orin!HandleOf(number) \in Channels, Orin!spiOpen(number)
         PROVE  Moves
    BY <1>10 DEF SpiTyped, Orin!spiOpen, Orin!OpenSpi, Orin!threadVars, Orin!i2cVars, Moves,
                 threadVars, i2cVars
  <1>11. ASSUME NEW t \in 1..Len(threads), Orin!callback(t) PROVE callback(t)
    BY <1>11 DEF Orin!callback, Orin!RequestEvents, Orin!CallFunction, Orin!ReadFails,
                 Orin!FunctionReturns, Orin!Cancelled, Orin!ThreadStep, Orin!boardVars, Orin!i2cVars,
                 callback, RequestEvents, CallFunction, ReadFails, FunctionReturns, Cancelled,
                 ThreadStep, boardVars, i2cVars
  <1>. QED
    BY <1>1, <1>2, <1>3, <1>4, <1>5, <1>6, <1>7, <1>8, <1>9, <1>10, <1>11
       DEF Orin!Next, Orin!Call, Kinds

--------------------------------------------------------------------------------
(* No call of a board forgets a pin or tracks a bit that is not there.           *)
LEMMA NanoRegisters == ASSUME Registers, Nano!Next PROVE Registers'
  <1>1. CASE Nano!Initialise
    BY <1>1 DEF Nano!Initialise, Nano!gpioInitialise, Registers
  <1>2. CASE Nano!StopThreads
    BY <1>2 DEF Nano!StopThreads, Nano!boardVars, Registers
  <1>3. CASE Nano!gpioTerminate
    BY <1>3 DEF Nano!gpioTerminate, Nano!FinishTerminate, Registers
  <1>4. ASSUME NEW p \in Pins,
               \/ Nano!gpioSetMode(p) \/ Nano!gpioRead(p) \/ Nano!gpioWrite(p)
               \/ Nano!gpioSetPWMfrequency(p) \/ Nano!gpioPWM(p)
        PROVE  Registers'
    <2>1. /\ saved' = saved /\ DOMAIN regs' = DOMAIN regs
          /\ \E bits \in {{Nano!Bit(p)}, {}, {Nano!TrackPwm}} : pin_tracker' = pin_tracker \cup bits
      BY <1>4 DEF Nano!gpioSetMode, Nano!SetInput, Nano!SetOutput, Nano!gpioRead, Nano!gpioWrite,
                  Nano!WriteLow, Nano!WriteHigh, Nano!gpioSetPWMfrequency, Nano!gpioPWM,
                  Nano!PinCall
    <2>2. Nano!Bit(p) = Bit(p)
      BY DEF Nano!Bit, Bit, Nano!Header, Header
    <2>. QED
      <3>1. Bit(p) \in 0..32 /\ Nano!TrackPwm \in 0..32
        BY BitRange DEF Nano!TrackPwm
      <3>2. \A bits \in {{Nano!Bit(p)}, {}, {Nano!TrackPwm}} : bits \subseteq 0..32
        BY <2>2, <3>1
      <3>. QED
        BY <2>1, <3>2 DEF Registers
  <1>5. ASSUME NEW p \in IsrPins, NEW edge \in {"rising", "falling", "either"},
               Nano!gpioSetISRFunc(p, edge)
        PROVE  Registers'
    BY <1>5 DEF Nano!gpioSetISRFunc, Nano!InterruptCall, Registers
  <1>6. ASSUME NEW c \in Channels, Nano!spiOpen(c)
        PROVE  Registers'
    <2>1. saved' = saved /\ DOMAIN regs' = Pins /\ pin_tracker' = pin_tracker \cup {Nano!TrackSpi(c)}
      BY <1>6 DEF Nano!spiOpen, Nano!OpenSpi
    <2>2. Nano!TrackSpi(c) \in 0..32
      BY DEF Nano!TrackSpi
    <2>. QED
      BY <2>1, <2>2 DEF Registers
  <1>7. ASSUME \/ \E b \in Buses : \/ Nano!i2cOpen(b) \/ Nano!i2cClose(b)
                                   \/ \E d \in Devices : Nano!SmbusTransfer(b, d)
               \/ \E c \in Channels : Nano!spiClose(c) \/ Nano!spiXfer(c)
               \/ \E t \in 1..Len(threads) : Nano!callback(t)
        PROVE  Registers'
    <2>1. UNCHANGED <<regs, saved, pin_tracker>>
      BY <1>7 DEF Nano!i2cOpen, Nano!i2cClose, Nano!OpenI2c, Nano!CloseI2c, Nano!SmbusTransfer,
                  Nano!spiClose, Nano!CloseSpi, Nano!spiXfer, Nano!SpiTransfer, Nano!gpioVars,
                  Nano!callback, Nano!RequestEvents, Nano!CallFunction, Nano!ReadFails,
                  Nano!FunctionReturns, Nano!Cancelled, Nano!ThreadStep, Nano!boardVars
    <2>. QED
      BY <2>1 DEF Registers
  <1>. QED
    BY <1>1, <1>2, <1>3, <1>4, <1>5, <1>6, <1>7
       DEF Nano!Next, Nano!Call, Nano!i2cWriteByteData, Nano!i2cReadByteData,
           Nano!i2cWriteWordData, Nano!i2cReadWordData

LEMMA OrinRegisters == ASSUME Registers, Orin!Next PROVE Registers'
  <1>1. CASE Orin!Initialise
    BY <1>1 DEF Orin!Initialise, Orin!gpioInitialise, Registers
  <1>2. CASE Orin!StopThreads
    BY <1>2 DEF Orin!StopThreads, Orin!boardVars, Registers
  <1>3. CASE Orin!gpioTerminate
    BY <1>3 DEF Orin!gpioTerminate, Orin!FinishTerminate, Registers
  <1>4. ASSUME NEW p \in Pins,
               \/ Orin!gpioSetMode(p) \/ Orin!gpioRead(p) \/ Orin!gpioWrite(p)
               \/ Orin!gpioSetPWMfrequency(p) \/ Orin!gpioPWM(p)
        PROVE  Registers'
    <2>1. /\ saved' = saved /\ DOMAIN regs' = DOMAIN regs
          /\ \/ pin_tracker' = pin_tracker \cup {Orin!Bit(p)}
             \/ pin_tracker' = pin_tracker \cup {}
             \/ p \in Orin!PwmPins /\ pin_tracker' = pin_tracker \cup {Orin!TrackPwm(p)}
      BY <1>4 DEF Orin!gpioSetMode, Orin!SetInput, Orin!SetOutput, Orin!gpioRead, Orin!gpioWrite,
                  Orin!WriteLow, Orin!WriteHigh, Orin!gpioSetPWMfrequency, Orin!gpioPWM,
                  Orin!PinCall
    <2>2. Orin!Bit(p) = Bit(p)
      BY DEF Orin!Bit, Bit, Orin!Header, Header
    <2>3. p \in Orin!PwmPins => Orin!TrackPwm(p) \in 28..30
      BY DEF Orin!PwmPins, Orin!TrackPwm
    <2>. QED
      <3>1. Orin!Bit(p) \in 0..32
        BY <2>2, BitRange
      <3>2. p \in Orin!PwmPins => Orin!TrackPwm(p) \in 0..32
        BY <2>3
      <3>. QED
        BY <2>1, <3>1, <3>2 DEF Registers
  <1>5. ASSUME NEW p \in IsrPins, NEW edge \in {"rising", "falling", "either"},
               Orin!gpioSetISRFunc(p, edge)
        PROVE  Registers'
    BY <1>5 DEF Orin!gpioSetISRFunc, Orin!InterruptCall, Registers
  <1>6. ASSUME NEW number \in {0, 1}, Orin!spiOpen(number)
        PROVE  Registers'
    <2>1. /\ saved' = saved /\ DOMAIN regs' \in {Pins, DOMAIN regs}
          /\ \E bits \in {{}, {Orin!TrackSpi(0), Orin!TrackSpi(1)}} :
                pin_tracker' = pin_tracker \cup bits
      BY <1>6 DEF Orin!spiOpen, Orin!OpenSpi
    <2>2. Orin!TrackSpi(0) \in 0..32 /\ Orin!TrackSpi(1) \in 0..32
      BY DEF Orin!TrackSpi
    <2>3. \A bits \in {{}, {Orin!TrackSpi(0), Orin!TrackSpi(1)}} : bits \subseteq 0..32
      BY <2>2
    <2>. QED
      BY <2>1, <2>3 DEF Registers
  <1>7. ASSUME \/ \E number \in {0, 1} : Orin!i2cOpen(number)
               \/ \E b \in Buses : \/ Orin!i2cClose(b)
                                   \/ \E d \in Devices : Orin!SmbusTransfer(b, d)
               \/ \E c \in Channels : Orin!spiClose(c) \/ Orin!spiXfer(c)
               \/ \E t \in 1..Len(threads) : Orin!callback(t)
        PROVE  Registers'
    <2>1. UNCHANGED <<regs, saved, pin_tracker>>
      BY <1>7 DEF Orin!i2cOpen, Orin!i2cClose, Orin!OpenI2c, Orin!CloseI2c, Orin!SmbusTransfer,
                  Orin!spiClose, Orin!CloseSpi, Orin!spiXfer, Orin!SpiTransfer, Orin!gpioVars,
                  Orin!callback, Orin!RequestEvents, Orin!CallFunction, Orin!ReadFails,
                  Orin!FunctionReturns, Orin!Cancelled, Orin!ThreadStep, Orin!boardVars
    <2>. QED
      BY <2>1 DEF Registers
  <1>. QED
    BY <1>1, <1>2, <1>3, <1>4, <1>5, <1>6, <1>7
       DEF Orin!Next, Orin!Call, Orin!i2cWriteByteData, Orin!i2cReadByteData,
           Orin!i2cWriteWordData, Orin!i2cReadWordData

--------------------------------------------------------------------------------
BusStates == [state : {"CLOSED", "RESERVED", "OPENED"}, fd : {"none", "open"},
              slave : {"none"} \cup Devices]
Threads == [pin : IsrPins, at : {"starting", "reading", "calling", "ended"}]

(* The part of the invariant that the threads' steps disturb: a pin that is watched is  *)
(* marked so, by one thread only, and an uninitialised library has no threads.    *)
ThreadsWatch ==
    /\ threads \in Seq(Threads)
    /\ joined \in 0..Len(threads) /\ monitored \subseteq IsrPins
    /\ \A t \in 1..Len(threads) : Running(t) => threads[t].pin \in monitored
    /\ OneFunctionPerPin
    /\ phase \in {"off", "crashed"} => \A t \in 1..Len(threads) : ~Running(t)

(* The part that the buses' calls disturb: in the first life, the clock of a closed      *)
(* bus is the kernel's, and that of another is stored.                        *)
BusesTyped ==
    /\ i2c \in [Buses -> BusStates]
    /\ busSpeed \in [Buses -> {"kernel", "requested"}]
    /\ i2c_speed \in [Buses -> {"kernel", "requested"}]
ClocksKept ==
    /\ lives = 0 => phase = "off" /\ \A b \in Buses : i2c[b].state = "CLOSED"
    /\ lives \in {0, 1} => \A b \in Buses :
          IF i2c[b].state = "CLOSED" THEN busSpeed[b] = "kernel" ELSE i2c_speed[b] = "kernel"

Plain ==
    /\ board \in {"nano", "orin"}
    /\ phase \in {"off", "ready", "joining", "crashed"}
    /\ global_int \in BOOLEAN
    /\ lives \in 0..MaxLives
    /\ SpiTyped

IInv == Registers /\ Plain /\ ThreadsWatch /\ BusesTyped /\ ClocksKept

LEMMA JetStarts == JetInit => IInv
  <1> SUFFICES ASSUME JetInit PROVE IInv
    OBVIOUS
  <1>1. /\ board \in {"nano", "orin"}
        /\ NotInitialised
        /\ DOMAIN regs = Pins
    BY DEF JetInit, Nano!Init, Orin!Init, Nano!NotInitialised, Orin!NotInitialised,
           NotInitialised
  <1>2. Registers /\ Plain
    <2>1. SpiTyped
      BY <1>1 DEF NotInitialised, SpiTyped
    <2>2. lives \in 0..MaxLives
      BY <1>1, GpioAssumption DEF NotInitialised
    <2>3. Registers
      BY <1>1 DEF NotInitialised, Registers
    <2>. QED
      BY <1>1, <2>1, <2>2, <2>3 DEF NotInitialised, Plain
  <1>3. ThreadsWatch
    BY <1>1 DEF NotInitialised, ThreadsWatch, OneFunctionPerPin
  <1>4. BusesTyped /\ ClocksKept
    BY <1>1 DEF NotInitialised, BusesTyped, BusStates, ClocksKept
  <1>. QED
    BY <1>2, <1>3, <1>4 DEF IInv

(* A thread's own steps.                                                      *)
LEMMA CallbackSteps ==
    ASSUME IInv, NEW t \in 1..Len(threads), callback(t)
    PROVE  ThreadsWatch'
  <1>1. PICK to \in {"reading", "calling", "ended"} :
            /\ threads' = [threads EXCEPT ![t].at = to]
            /\ UNCHANGED <<phase, joined, monitored>>
            /\ threads[t].at # "ended"
    BY DEF callback, RequestEvents, CallFunction, ReadFails, FunctionReturns, Cancelled,
           ThreadStep
  <1>2. /\ threads' \in Seq(Threads) /\ Len(threads') = Len(threads)
        /\ \A u \in 1..Len(threads) : threads'[u].pin = threads[u].pin
        /\ \A u \in 1..Len(threads) : u # t => threads'[u] = threads[u]
    <2>1. threads \in Seq(Threads) /\ threads[t] \in Threads
      BY DEF IInv, ThreadsWatch
    <2>2. [threads[t] EXCEPT !.at = to] \in Threads
      BY <2>1 DEF Threads
    <2>3. threads' = [threads EXCEPT ![t] = [threads[t] EXCEPT !.at = to]]
      BY <1>1
    <2>4. [threads[t] EXCEPT !.at = to].pin = threads[t].pin
      BY <2>1 DEF Threads
    <2>. QED
      BY <2>1, <2>2, <2>3, <2>4
  <1>3. \A u \in 1..Len(threads) : Running(u)' => Running(u)
    BY <1>1, <1>2 DEF Running
  <1>. QED
    BY <1>1, <1>2, <1>3 DEF IInv, ThreadsWatch, OneFunctionPerPin

(* gpioSetISRFunc: only a pin that nobody watches gets a thread.                  *)
LEMMA WatchSteps ==
    ASSUME IInv, NEW p \in IsrPins, Watches(p)
    PROVE  ThreadsWatch'
  <1>1. phase' = phase /\ phase = "ready" /\ joined' = joined
    BY DEF Watches
  <1>2. CASE UNCHANGED <<threads, monitored>>
    BY <1>1, <1>2 DEF IInv, ThreadsWatch, OneFunctionPerPin, Running
  <1>3. CASE p \notin monitored /\ monitored' = monitored \cup {p} /\ threads' = threads
    BY <1>1, <1>3 DEF IInv, ThreadsWatch, OneFunctionPerPin, Running
  <1>4. CASE /\ p \notin monitored /\ monitored' = monitored \cup {p}
             /\ threads' = Append(threads, [pin |-> p, at |-> "starting"])
    <2> DEFINE new == [pin |-> p, at |-> "starting"]
    <2>1. threads \in Seq(Threads) /\ new \in Threads
      BY DEF IInv, ThreadsWatch, Threads
    <2>2. /\ threads' \in Seq(Threads) /\ Len(threads') = Len(threads) + 1
          /\ Len(threads) \in Nat
          /\ \A u \in 1..Len(threads) : threads'[u] = threads[u]
          /\ threads'[Len(threads) + 1] = new
      BY <1>4, <2>1
    <2>3. /\ \A u \in 1..Len(threads) : Running(u)' <=> Running(u)
          /\ \A u \in 1..Len(threads) : Running(u) => threads[u].pin # p
      BY <1>4, <2>2 DEF IInv, ThreadsWatch, Running
    <2>4. \A u \in 1..Len(threads') : Running(u)' => threads'[u].pin \in monitored'
      BY <1>4, <2>2, <2>3 DEF IInv, ThreadsWatch
    <2>5. OneFunctionPerPin'
      <3> SUFFICES ASSUME NEW s \in 1..Len(threads'), NEW t \in 1..Len(threads'),
                          Running(s)', Running(t)', threads'[s].pin = threads'[t].pin
                   PROVE  s = t
        BY DEF OneFunctionPerPin
      <3>1. CASE s \in 1..Len(threads) /\ t \in 1..Len(threads)
        BY <2>2, <2>3, <3>1 DEF IInv, ThreadsWatch, OneFunctionPerPin
      <3>2. CASE s = Len(threads) + 1 \/ t = Len(threads) + 1
        BY <2>2, <2>3, <3>2
      <3>. QED
        BY <2>2, <3>1, <3>2
    <2>6. joined' \in 0..Len(threads') /\ monitored' \subseteq IsrPins
      BY <1>1, <1>4, <2>2 DEF IInv, ThreadsWatch
    <2>. QED
      BY <1>1, <2>2, <2>4, <2>5, <2>6 DEF ThreadsWatch
  <1>. QED
    BY <1>2, <1>3, <1>4 DEF Watches, StartThread

LEMMA ThreadSteps == ASSUME IInv, Kinds PROVE ThreadsWatch'
  <1>1. CASE Begins
    BY <1>1 DEF Begins, IInv, ThreadsWatch, OneFunctionPerPin, Running
  <1>2. CASE Stops \/ Moves
    BY <1>2 DEF Stops, Moves, threadVars, IInv, ThreadsWatch, OneFunctionPerPin, Running
  <1>3. CASE Ends
    BY <1>3 DEF Ends, JoinsReturn, IInv, ThreadsWatch, OneFunctionPerPin, Running
  <1>4. ASSUME NEW b \in Buses,
               OpenI2c(b) \/ CloseI2c(b) \/ \E d \in Devices : SmbusTransfer(b, d)
        PROVE  ThreadsWatch'
    <2>1. UNCHANGED <<phase, threads, joined, monitored>>
      BY <1>4 DEF OpenI2c, CloseI2c, SmbusTransfer, threadVars
    <2>. QED
      BY <2>1 DEF IInv, ThreadsWatch, OneFunctionPerPin, Running
  <1>. QED
    BY <1>1, <1>2, <1>3, <1>4, WatchSteps, CallbackSteps DEF Kinds

LEMMA BusSteps == ASSUME IInv, Kinds PROVE BusesTyped' /\ ClocksKept'
  <1> USE DEF IInv, BusesTyped, ClocksKept
  <1>1. CASE Begins
    <2>1. /\ \A b \in Buses : i2c'[b].state = "CLOSED" /\ i2c'[b] \in BusStates
          /\ i2c' \in [Buses -> BusStates]
      BY <1>1 DEF Begins, BusStates
    <2>2. lives' = lives + 1 /\ lives \in 0..MaxLives
      BY <1>1 DEF Begins, Plain
    <2>3. lives' \in {0, 1} => lives = 0
      BY <2>2
    <2>4. lives' # 0
      BY <2>2
    <2>. QED
      BY <1>1, <2>1, <2>3, <2>4 DEF Begins
  <1>2. CASE UNCHANGED <<i2cVars, lives>> /\ (phase' = phase \/ phase # "off")
    BY <1>2 DEF i2cVars
  <1>3. ASSUME NEW b \in Buses, OpenI2c(b) PROVE BusesTyped' /\ ClocksKept'
    <2>1. /\ i2c'[b].state # "CLOSED" /\ i2c'[b] \in BusStates
          /\ i2c' = [i2c EXCEPT ![b] = i2c'[b]]
      BY <1>3 DEF OpenI2c, BusStates
    <2>2. i2c' \in [Buses -> BusStates]
      BY <2>1
    <2>. QED
      BY <1>3, <2>1, <2>2 DEF OpenI2c
  <1>4. ASSUME NEW b \in Buses, CloseI2c(b) PROVE BusesTyped' /\ ClocksKept'
    <2>1. /\ i2c'[b].state = "CLOSED" /\ i2c'[b] \in BusStates
          /\ i2c' = [i2c EXCEPT ![b] = i2c'[b]]
      BY <1>4 DEF CloseI2c, BusStates
    <2>2. i2c' \in [Buses -> BusStates]
      BY <2>1
    <2>. QED
      BY <1>4, <2>1, <2>2 DEF CloseI2c
  <1>5. ASSUME NEW b \in Buses, NEW d \in Devices, SmbusTransfer(b, d)
        PROVE  BusesTyped' /\ ClocksKept'
    <2>1. /\ i2c' \in [Buses -> BusStates]
          /\ \A a \in Buses : i2c'[a].state = i2c[a].state
      BY <1>5 DEF SmbusTransfer, BusStates
    <2>. QED
      BY <1>5, <2>1 DEF SmbusTransfer
  <1>6. CASE Stops \/ Ends \/ Moves \/ (\E p \in IsrPins : Watches(p))
                \/ (\E t \in 1..Len(threads) : callback(t))
    <2>1. UNCHANGED <<i2cVars, lives>> /\ (phase' = phase \/ phase # "off")
      BY <1>6 DEF Stops, Ends, JoinsReturn, Moves, Watches, callback, RequestEvents, CallFunction,
                  ReadFails, FunctionReturns, Cancelled, ThreadStep, i2cVars
    <2>. QED
      BY <1>2, <2>1
  <1>. QED
    BY <1>1, <1>3, <1>4, <1>5, <1>6 DEF Kinds

LEMMA PlainSteps == ASSUME IInv, Kinds, board' = board PROVE Plain'
  <1>1. lives' \in 0..MaxLives
    <2>1. lives' = lives \/ (lives' = lives + 1 /\ lives < MaxLives)
      BY DEF Kinds, Begins, Stops, Ends, Moves, Watches, OpenI2c, CloseI2c, SmbusTransfer, callback,
             RequestEvents, CallFunction, ReadFails, FunctionReturns, Cancelled, ThreadStep
    <2>. QED
      BY <2>1, GpioAssumption DEF IInv, Plain
  <1>2. phase' \in {"off", "ready", "joining", "crashed"} /\ global_int' \in BOOLEAN
    BY DEF IInv, Plain, Kinds, Begins, Stops, Ends, Moves, Watches, OpenI2c, CloseI2c,
           SmbusTransfer, callback, RequestEvents, CallFunction, ReadFails, FunctionReturns,
           Cancelled, ThreadStep, threadVars
  <1>3. SpiTyped'
    <2>1. \/ spi' = spi
          \/ spi' = [c \in Channels |-> [spi[c] EXCEPT !.state = "CLOSED"]]
          \/ \E c \in Channels,
                s \in [state : {"CLOSED", "RESERVED", "OPENED"}, fd : {"none", "open"}] :
                spi' = [spi EXCEPT ![c] = s]
      BY DEF Kinds, Begins, Stops, Ends, Moves, Watches, OpenI2c, CloseI2c, SmbusTransfer,
             callback, RequestEvents, CallFunction, ReadFails, FunctionReturns, Cancelled,
             ThreadStep
    <2>. QED
      BY <2>1 DEF IInv, Plain, SpiTyped
  <1>. QED
    BY <1>1, <1>2, <1>3 DEF IInv, Plain

LEMMA JetSteps == ASSUME IInv, [JetNext]_jetVars PROVE IInv'
  <1>1. CASE UNCHANGED jetVars
    <2> USE <1>1 DEF IInv, jetVars, gpioVars, boardVars, threadVars, i2cVars
    <2>1. Registers' /\ Plain'
      BY DEF Registers, Plain, SpiTyped
    <2>2. ThreadsWatch'
      BY DEF ThreadsWatch, OneFunctionPerPin, Running
    <2>3. BusesTyped' /\ ClocksKept'
      BY DEF BusesTyped, ClocksKept
    <2>. QED
      BY <2>1, <2>2, <2>3
  <1>2. CASE JetNext
    <2>1. Kinds /\ Registers' /\ board' = board
      BY <1>2, NanoKinds, OrinKinds, NanoRegisters, OrinRegisters DEF JetNext, IInv, Plain
    <2>. QED
      BY <2>1, ThreadSteps, BusSteps, PlainSteps DEF IInv
  <1>. QED
    BY <1>1, <1>2

LEMMA JetInvariant == JetSpec => []IInv
  <1>1. JetInit => IInv
    BY JetStarts
  <1>2. IInv /\ [JetNext]_jetVars => IInv'
    BY JetSteps
  <1>. QED
    BY <1>1, <1>2, PTL DEF JetSpec

(* On both boards, whatever a program calls in whatever order: the library's records      *)
(* of its pins, buses and threads are well formed, and two threads never watch one pin.  *)
THEOREM OneWatcherPerPin == JetSpec => []JetInv
  <1>1. IInv => JetInv
    BY DEF IInv, Registers, Plain, ThreadsWatch, BusesTyped, SpiTyped, JetInv, JetTypeOK, Threads,
           BusStates
  <1>. QED
    BY <1>1, JetInvariant, PTL

(* When gpioTerminate has returned no interrupt thread is left.                   *)
THEOREM ThreadsEndFirst == JetSpec => []NoThreadOutlivesLibrary
  <1>1. IInv => NoThreadOutlivesLibrary
    BY DEF IInv, ThreadsWatch, NoThreadOutlivesLibrary
  <1>. QED
    BY <1>1, JetInvariant, PTL

(* In the library's first life a closed bus has the clock the kernel gave it.        *)
THEOREM ClocksComeBack == JetSpec => []ClockGivenBack
  <1>1. IInv => ClockGivenBack
    BY DEF IInv, ClocksKept, ClockGivenBack
  <1>. QED
    BY <1>1, JetInvariant, PTL

--------------------------------------------------------------------------------
(* The Nano's registers: an untracked pin is as it was stored, but for what gpioPWM     *)
(* and the interrupts changed.                                               *)
NanoRegs == [cnf : {0, 1}, oe : {0, 1}, out : {0, 1}, irq : SUBSET {"high", "edge", "delta", "enabled"},
             pad : {"boot", "in", "out", "pwm", "spi"}]
Generators == {"boot", "frequency", "on"}

NanoTyped ==
    /\ regs \in [Pins -> NanoRegs] /\ saved \in [Pins -> NanoRegs]
    /\ pwm \in [Nano!PwmPins -> Generators] /\ savedPwm \in [Nano!PwmPins -> Generators]
    /\ \A p \in Pins : regs[p].pad = "pwm" \/ saved[p].pad = "pwm" => p \in Nano!PwmPins

NanoKept ==
    phase \in {"ready", "joining"} =>
        /\ \A p \in Pins : ~Nano!Restored(p) =>
              /\ regs[p].pad = saved[p].pad \/ regs[p].pad = "pwm"
              /\ regs[p].cnf = saved[p].cnf \/ regs[p].pad = "pwm"
              /\ regs[p].oe = saved[p].oe
        /\ 28 \notin pin_tracker => \A p \in Nano!PwmPins : pwm[p] \in {savedPwm[p], "on"}

NanoInv == NanoTyped /\ NanoKept /\ (phase = "off" => TerminateRestores)

(* Every pin is in a port.                                                    *)
LEMMA PinHasPort == \A p \in Pins : Nano!SamePort(p, p)
  <1> SUFFICES ASSUME NEW p \in Pins PROVE Nano!SamePort(p, p)
    OBVIOUS
  <1>1. PICK i \in 1..28 : p = Header[i]
    BY GpioAssumption DEF ToSet, Header
  <1>2. \/ p \in {3, 5, 12, 27, 28, 35, 38, 40} \/ p \in {7} \/ p \in {8, 10, 11, 36}
        \/ p \in {13, 18, 22, 37} \/ p \in {15} \/ p \in {16} \/ p \in {19, 21, 23, 24, 26}
        \/ p \in {29} \/ p \in {31} \/ p \in {32} \/ p \in {33}
    BY <1>1 DEF Header
  <1>3. \E port \in Nano!Ports : p \in port
    BY <1>2 DEF Nano!Ports
  <1>. QED
    BY <1>3 DEF Nano!SamePort

(* Bits are never taken out of pin_tracker.                                    *)
LEMMA NanoStaysRestored ==
    ASSUME pin_tracker \subseteq pin_tracker', NEW p \in Pins, Nano!Restored(p)
    PROVE  Nano!Restored(p)'
  BY DEF Nano!Restored

LEMMA NanoFields ==
    ASSUME NEW r \in NanoRegs
    PROVE  /\ \A v \in {0, 1} : /\ [r EXCEPT !.cnf = v] \in NanoRegs
                              /\ [r EXCEPT !.cnf = v].cnf = v
                              /\ [r EXCEPT !.cnf = v].pad = r.pad
                              /\ [r EXCEPT !.cnf = v].oe = r.oe
           /\ \A v \in {0, 1} : /\ [r EXCEPT !.oe = v] \in NanoRegs
                              /\ [r EXCEPT !.oe = v].pad = r.pad
           /\ \A v \in {"in", "out", "pwm", "spi"} : /\ [r EXCEPT !.pad = v] \in NanoRegs
                                                  /\ [r EXCEPT !.pad = v].pad = v
                                                  /\ [r EXCEPT !.pad = v].oe = r.oe
           /\ \A v \in SUBSET {"high", "edge", "delta", "enabled"} :
                 /\ [r EXCEPT !.irq = v] \in NanoRegs
                 /\ [r EXCEPT !.irq = v].pad = r.pad
                 /\ [r EXCEPT !.irq = v].cnf = r.cnf
                 /\ [r EXCEPT !.irq = v].oe = r.oe
  BY DEF NanoRegs

(* A call that changes the registers of one pin.                                 *)
LEMMA NanoPinChanges ==
    ASSUME NanoInv, phase = "ready", phase' = phase, saved' = saved, savedPwm' = savedPwm,
           NEW p \in Pins, NEW r \in NanoRegs, regs' = [regs EXCEPT ![p] = r],
           pin_tracker \subseteq pin_tracker', pwm' \in [Nano!PwmPins -> Generators],
           28 \notin pin_tracker' => \A q \in Nano!PwmPins : pwm'[q] \in {pwm[q], "on"},
           r.pad = "pwm" => p \in Nano!PwmPins,
           \/ Nano!Restored(p)'
           \/ /\ r.pad = regs[p].pad \/ r.pad = "pwm"
              /\ r.cnf = regs[p].cnf \/ r.pad = "pwm"
              /\ r.oe = regs[p].oe
    PROVE  NanoInv'
  <1>1. regs'[p] = r /\ \A q \in Pins : q # p => regs'[q] = regs[q]
    BY DEF NanoInv, NanoTyped
  <1>2. NanoTyped'
    BY <1>1 DEF NanoInv, NanoTyped
  <1>3. ASSUME NEW q \in Pins, ~Nano!Restored(q)'
        PROVE  /\ regs'[q].pad = saved[q].pad \/ regs'[q].pad = "pwm"
               /\ regs'[q].cnf = saved[q].cnf \/ regs'[q].pad = "pwm"
               /\ regs'[q].oe = saved[q].oe
    <2>1. /\ regs[q].pad = saved[q].pad \/ regs[q].pad = "pwm"
          /\ regs[q].cnf = saved[q].cnf \/ regs[q].pad = "pwm"
          /\ regs[q].oe = saved[q].oe
      BY <1>3, NanoStaysRestored DEF NanoInv, NanoKept
    <2>. QED
      BY <1>1, <1>3, <2>1
  <1>4. 28 \notin pin_tracker' => \A q \in Nano!PwmPins : pwm'[q] \in {savedPwm[q], "on"}
    BY DEF NanoInv, NanoKept
  <1>. QED
    BY <1>2, <1>3, <1>4 DEF NanoInv, NanoKept

LEMMA NanoPinCalls ==
    ASSUME NanoInv, NEW p \in Pins,
           \/ Nano!gpioSetMode(p) \/ Nano!gpioRead(p) \/ Nano!gpioWrite(p)
           \/ Nano!gpioSetPWMfrequency(p) \/ Nano!gpioPWM(p)
    PROVE  NanoInv'
  <1>1. /\ phase = "ready" /\ phase' = phase /\ saved' = saved /\ savedPwm' = savedPwm
        /\ pin_tracker \subseteq pin_tracker'
    BY DEF Nano!gpioSetMode, Nano!SetInput, Nano!SetOutput, Nano!gpioRead, Nano!gpioWrite,
           Nano!WriteLow, Nano!WriteHigh, Nano!gpioSetPWMfrequency, Nano!gpioPWM, Nano!PinCall
  <1>2. /\ regs \in [Pins -> NanoRegs] /\ regs[p] \in NanoRegs
        /\ pwm \in [Nano!PwmPins -> Generators]
        /\ regs[p].pad = "pwm" => p \in Nano!PwmPins
    BY DEF NanoInv, NanoTyped
  <1>3. Nano!Bit(p) \in pin_tracker' => Nano!Restored(p)'
    BY DEF Nano!Restored, Nano!Bit, Nano!Header
  <1>4. CASE Nano!gpioSetMode(p)
    <2>1. PICK r \in NanoRegs : /\ regs' = [regs EXCEPT ![p] = r]
                                /\ r.pad # "pwm"
                                /\ pwm' = pwm /\ Nano!Bit(p) \in pin_tracker'
      <3>1. CASE Nano!SetInput(p)
        <4> DEFINE r == [regs[p] EXCEPT !.pad = "in", !.cnf = 1, !.oe = 0]
        <4>1. r \in NanoRegs /\ r.pad # "pwm"
          <5> DEFINE r1 == [regs[p] EXCEPT !.pad = "in"]
                     r2 == [r1 EXCEPT !.cnf = 1]
          <5>1. r1 \in NanoRegs /\ r1.pad # "pwm"
            BY <1>2, NanoFields
          <5> HIDE DEF r1
          <5>2. r2 \in NanoRegs /\ r2.pad # "pwm"
            BY <5>1, NanoFields
          <5> HIDE DEF r2
          <5>3. [r2 EXCEPT !.oe = 0] \in NanoRegs /\ [r2 EXCEPT !.oe = 0].pad # "pwm"
            BY <5>2, NanoFields
          <5>4. r = [r2 EXCEPT !.oe = 0]
            BY DEF r1, r2
          <5>. QED
            BY <5>3, <5>4
        <4>2. regs' = [regs EXCEPT ![p] = r] /\ pwm' = pwm /\ Nano!Bit(p) \in pin_tracker'
          BY <3>1 DEF Nano!SetInput, Nano!PinCall
        <4>. QED
          BY <4>1, <4>2
      <3>2. CASE Nano!SetOutput(p)
        <4> DEFINE r == [regs[p] EXCEPT !.pad = "out", !.cnf = 1, !.oe = 1]
        <4>1. r \in NanoRegs /\ r.pad # "pwm"
          <5> DEFINE r1 == [regs[p] EXCEPT !.pad = "out"]
                     r2 == [r1 EXCEPT !.cnf = 1]
          <5>1. r1 \in NanoRegs /\ r1.pad # "pwm"
            BY <1>2, NanoFields
          <5> HIDE DEF r1
          <5>2. r2 \in NanoRegs /\ r2.pad # "pwm"
            BY <5>1, NanoFields
          <5> HIDE DEF r2
          <5>3. [r2 EXCEPT !.oe = 1] \in NanoRegs /\ [r2 EXCEPT !.oe = 1].pad # "pwm"
            BY <5>2, NanoFields
          <5>4. r = [r2 EXCEPT !.oe = 1]
            BY DEF r1, r2
          <5>. QED
            BY <5>3, <5>4
        <4>2. regs' = [regs EXCEPT ![p] = r] /\ pwm' = pwm /\ Nano!Bit(p) \in pin_tracker'
          BY <3>2 DEF Nano!SetOutput, Nano!PinCall
        <4>. QED
          BY <4>1, <4>2
      <3>. QED
        BY <1>4, <3>1, <3>2 DEF Nano!gpioSetMode
    <2>. QED
      BY <1>1, <1>2, <1>3, <2>1, NanoPinChanges
  <1>5. CASE Nano!gpioRead(p) \/ Nano!gpioSetPWMfrequency(p)
    <2>1. /\ regs' = [regs EXCEPT ![p] = regs[p]]
          /\ pwm' = pwm \/ (28 \in pin_tracker' /\ pwm' = [pwm EXCEPT ![p] = "frequency"])
      BY <1>2, <1>5 DEF Nano!gpioRead, Nano!gpioSetPWMfrequency, Nano!PinCall, Nano!TrackPwm
    <2>2. pwm' \in [Nano!PwmPins -> Generators]
      BY <1>2, <2>1 DEF Generators
    <2>. QED
      BY <1>1, <1>2, <2>1, <2>2, NanoPinChanges
  <1>6. CASE Nano!gpioWrite(p)
    <2>1. PICK level \in {0, 1} : /\ regs' = [regs EXCEPT ![p] = [regs[p] EXCEPT !.out = level]]
                                /\ pwm' = pwm
      BY <1>6 DEF Nano!gpioWrite, Nano!WriteLow, Nano!WriteHigh, Nano!PinCall
    <2>2. [regs[p] EXCEPT !.out = level] \in NanoRegs
      BY <1>2 DEF NanoRegs
    <2>3. /\ [regs[p] EXCEPT !.out = level].pad = regs[p].pad
          /\ [regs[p] EXCEPT !.out = level].cnf = regs[p].cnf
          /\ [regs[p] EXCEPT !.out = level].oe = regs[p].oe
      BY <1>2 DEF NanoRegs
    <2>. QED
      BY <1>1, <1>2, <2>1, <2>2, <2>3, NanoPinChanges
  <1>7. CASE Nano!gpioPWM(p)
    <2> DEFINE r == [regs[p] EXCEPT !.cnf = 0, !.pad = "pwm"]
    <2>1. /\ regs' = [regs EXCEPT ![p] = r]
          /\ p \in Nano!PwmPins /\ pwm' = [pwm EXCEPT ![p] = "on"]
      BY <1>7 DEF Nano!gpioPWM, Nano!PinCall
    <2>2. r \in NanoRegs /\ r.pad = "pwm" /\ r.oe = regs[p].oe
      <3> DEFINE r1 == [regs[p] EXCEPT !.cnf = 0]
      <3>1. r1 \in NanoRegs /\ r1.oe = regs[p].oe
        BY <1>2, NanoFields
      <3> HIDE DEF r1
      <3>2. /\ [r1 EXCEPT !.pad = "pwm"] \in NanoRegs
            /\ [r1 EXCEPT !.pad = "pwm"].pad = "pwm" /\ [r1 EXCEPT !.pad = "pwm"].oe = r1.oe
        BY <3>1, NanoFields
      <3>3. r = [r1 EXCEPT !.pad = "pwm"]
        BY DEF r1
      <3>. QED
        BY <3>1, <3>2, <3>3
    <2>3. pwm' \in [Nano!PwmPins -> Generators] /\ \A q \in Nano!PwmPins : pwm'[q] \in {pwm[q], "on"}
      BY <1>2, <2>1 DEF Generators
    <2> HIDE DEF r
    <2>. QED
      BY <1>1, <2>1, <2>2, <2>3, NanoPinChanges
  <1>. QED
    BY <1>4, <1>5, <1>6, <1>7

(* gpioTerminate on the Nano: the ports of tracked pins are written back, and a pin    *)
(* that shares one only gets what it had.                                     *)
LEMMA NanoTerminates ==
    ASSUME board = "nano", board' = board, NanoInv, Nano!gpioTerminate
    PROVE  NanoInv'
  <1>1. /\ phase = "joining" /\ phase' \in {"off", "crashed"}
        /\ UNCHANGED <<saved, savedPwm, pin_tracker>>
        /\ regs' = [p \in Pins |-> Nano!RestorePin(p)]
        /\ pwm' = IF 28 \in pin_tracker THEN savedPwm ELSE pwm
    BY DEF Nano!gpioTerminate, Nano!FinishTerminate, Nano!JoinsReturn, Nano!TrackPwm
  <1>2. ASSUME NEW p \in Pins
        PROVE  /\ regs'[p] \in NanoRegs
               /\ regs'[p].pad = IF Nano!Restored(p) THEN saved[p].pad ELSE regs[p].pad
               /\ \/ regs'[p].cnf = saved[p].cnf /\ regs'[p].oe = saved[p].oe
                  \/ /\ ~Nano!Restored(p)
                     /\ regs'[p].cnf = regs[p].cnf /\ regs'[p].oe = regs[p].oe
    <2> DEFINE tracked == \E q \in Pins : Nano!SamePort(p, q) /\ Nano!Restored(q)
               port == IF tracked THEN saved[p] ELSE regs[p]
               pad == IF Nano!Restored(p) THEN saved[p].pad ELSE regs[p].pad
    <2>1. Nano!Restored(p) => tracked
      BY PinHasPort
    <2>2. regs'[p] = [port EXCEPT !.out = regs[p].out, !.pad = pad]
      BY <1>1 DEF Nano!RestorePin
    <2>3. /\ port \in NanoRegs /\ (port = saved[p] \/ (port = regs[p] /\ ~Nano!Restored(p)))
          /\ regs[p].out \in {0, 1} /\ pad \in {"boot", "in", "out", "pwm", "spi"}
      BY <2>1 DEF NanoInv, NanoTyped, NanoRegs
    <2> HIDE DEF port, pad
    <2> DEFINE r == [port EXCEPT !.out = regs[p].out]
    <2>4. r \in NanoRegs /\ r.cnf = port.cnf /\ r.oe = port.oe
      BY <2>3 DEF NanoRegs
    <2>5. regs'[p] = [r EXCEPT !.pad = pad]
      BY <2>2
    <2> HIDE DEF r
    <2>6. /\ regs'[p] \in NanoRegs /\ regs'[p].pad = pad
          /\ regs'[p].cnf = port.cnf /\ regs'[p].oe = port.oe
      BY <2>3, <2>4, <2>5 DEF NanoRegs
    <2>. QED
      BY <2>3, <2>6 DEF pad
  <1>3. /\ \A p \in Pins : ~Nano!Restored(p) =>
              /\ regs[p].pad = saved[p].pad \/ regs[p].pad = "pwm"
              /\ regs[p].cnf = saved[p].cnf \/ regs[p].pad = "pwm"
              /\ regs[p].oe = saved[p].oe
        /\ 28 \notin pin_tracker => \A p \in Nano!PwmPins : pwm[p] \in {savedPwm[p], "on"}
    BY <1>1 DEF NanoInv, NanoKept
  <1>4. \A p \in Pins : regs[p].pad = "pwm" /\ ~Nano!Restored(p) => 28 \notin pin_tracker
    BY DEF NanoInv, NanoTyped, Nano!Restored, Nano!TrackPwm
  <1>5. \A p \in Pins : GivenBack(p)'
    BY <1>1, <1>2, <1>3, <1>4 DEF GivenBack
  <1>6. \A p \in DOMAIN pwm' : GeneratorGivenBack(p)'
    BY <1>1, <1>3 DEF GeneratorGivenBack, NanoInv, NanoTyped
  <1>7. NanoTyped'
    <2>1. regs' = [p \in Pins |-> regs'[p]]
      BY <1>1
    <2>2. regs' \in [Pins -> NanoRegs]
      BY <1>2, <2>1
    <2>3. \A p \in Pins : regs'[p].pad = "pwm" => p \in Nano!PwmPins
      BY <1>2 DEF NanoInv, NanoTyped
    <2>. QED
      BY <1>1, <2>2, <2>3 DEF NanoInv, NanoTyped
  <1>. QED
    BY <1>1, <1>5, <1>6, <1>7 DEF NanoInv, NanoKept, TerminateRestores

(* The calls that change one pin's interrupt, or the pins of an SPI channel.        *)
LEMMA NanoInterrupts ==
    ASSUME NanoInv, NEW p \in IsrPins, NEW edge \in {"rising", "falling", "either"},
           Nano!gpioSetISRFunc(p, edge)
    PROVE  NanoInv'
  <1> DEFINE irq == Nano!Interrupt(p, edge, regs[p].irq) \cup {"enabled"}
             r == [regs[p] EXCEPT !.irq = irq]
  <1>1. /\ phase = "ready" /\ UNCHANGED <<phase, saved, savedPwm, pwm, pin_tracker>>
        /\ regs' = [regs EXCEPT ![p].irq = Nano!Interrupt(p, edge, @) \cup {"enabled"}]
    BY DEF Nano!gpioSetISRFunc, Nano!InterruptCall
  <1>2. p \in Pins /\ regs[p] \in NanoRegs /\ regs \in [Pins -> NanoRegs]
    BY GpioAssumption DEF NanoInv, NanoTyped
  <1>3. regs[p].irq \in SUBSET {"high", "edge", "delta", "enabled"}
    BY <1>2 DEF NanoRegs
  <1>4. irq \in SUBSET {"high", "edge", "delta", "enabled"}
    BY <1>3 DEF Nano!Interrupt
  <1>5. regs' = [regs EXCEPT ![p] = r]
    BY <1>1
  <1> HIDE DEF irq
  <1>6. r \in NanoRegs /\ r.pad = regs[p].pad /\ r.cnf = regs[p].cnf /\ r.oe = regs[p].oe
    BY <1>2, <1>4 DEF NanoRegs
  <1>7. /\ pwm' \in [Nano!PwmPins -> Generators]
        /\ regs[p].pad = "pwm" => p \in Nano!PwmPins
    BY <1>1, <1>2 DEF NanoInv, NanoTyped
  <1> HIDE DEF r
  <1>. QED
    BY <1>1, <1>2, <1>5, <1>6, <1>7, NanoPinChanges

LEMMA NanoSpiOpens ==
    ASSUME NanoInv, NEW c \in Channels, Nano!spiOpen(c)
    PROVE  NanoInv'
  <1> DEFINE taken == Nano!SpiPins(c)
  <1>1. /\ c \in {0, 1}
        /\ phase = "ready" /\ UNCHANGED <<phase, saved, savedPwm, pwm>>
        /\ pin_tracker' = pin_tracker \cup {Nano!TrackSpi(c)}
        /\ regs' = [p \in Pins |-> IF p \in taken
                                   THEN [regs[p] EXCEPT !.cnf = 0, !.pad = "spi"] ELSE regs[p]]
    BY DEF Nano!spiOpen, Nano!OpenSpi
  <1>2. \A p \in Pins : p \in taken => Nano!Restored(p)'
    BY <1>1 DEF Nano!Restored
  <1> HIDE DEF taken
  <1>3. ASSUME NEW p \in Pins
        PROVE  /\ regs'[p] \in NanoRegs
               /\ regs'[p].pad = "pwm" => p \in Nano!PwmPins
               /\ p \in taken \/ regs'[p] = regs[p]
    <2>1. regs[p] \in NanoRegs /\ (regs[p].pad = "pwm" => p \in Nano!PwmPins)
      BY DEF NanoInv, NanoTyped
    <2>2. CASE p \in taken
      <3> DEFINE r == [regs[p] EXCEPT !.cnf = 0]
      <3>1. regs'[p] = [r EXCEPT !.pad = "spi"]
        BY <1>1, <2>2
      <3>2. r \in NanoRegs
        BY <2>1, NanoFields
      <3> HIDE DEF r
      <3>3. [r EXCEPT !.pad = "spi"] \in NanoRegs /\ [r EXCEPT !.pad = "spi"].pad = "spi"
        BY <3>2, NanoFields
      <3>. QED
        BY <2>2, <3>1, <3>3
    <2>3. CASE p \notin taken
      <3>1. regs'[p] = regs[p]
        BY <1>1, <2>3
      <3>. QED
        BY <2>1, <3>1
    <2>. QED
      BY <2>2, <2>3
  <1>4. NanoTyped'
    <2>1. regs' = [p \in Pins |-> regs'[p]]
      BY <1>1
    <2>2. regs' \in [Pins -> NanoRegs]
      BY <1>3, <2>1
    <2>. QED
      BY <1>1, <1>3, <2>2 DEF NanoInv, NanoTyped
  <1>5. \A p \in Pins : Nano!Restored(p) => Nano!Restored(p)'
    BY <1>1, NanoStaysRestored
  <1>6. NanoKept'
    BY <1>1, <1>2, <1>3, <1>5 DEF NanoInv, NanoKept
  <1>. QED
    BY <1>1, <1>4, <1>6 DEF NanoInv

(* gpioInitialise stores the registers as it finds them, but for OUT.                *)
LEMMA NanoInitialises == ASSUME NanoInv, Nano!Initialise PROVE NanoInv'
  <1>1. /\ phase' = "ready" /\ UNCHANGED <<regs, pwm, pin_tracker>>
        /\ saved' = [p \in Pins |-> [regs[p] EXCEPT !.out = 0]]
        /\ savedPwm' = pwm
    BY DEF Nano!Initialise, Nano!gpioInitialise, Nano!Stored
  <1>2. ASSUME NEW p \in Pins
        PROVE  /\ saved'[p] \in NanoRegs
               /\ saved'[p].pad = regs[p].pad /\ saved'[p].cnf = regs[p].cnf
               /\ saved'[p].oe = regs[p].oe
    <2>1. regs[p] \in NanoRegs /\ saved'[p] = [regs[p] EXCEPT !.out = 0]
      BY <1>1 DEF NanoInv, NanoTyped
    <2>. QED
      BY <2>1 DEF NanoRegs
  <1>3. NanoTyped'
    <2>1. saved' = [p \in Pins |-> saved'[p]]
      BY <1>1
    <2>2. saved' \in [Pins -> NanoRegs]
      BY <1>2, <2>1
    <2>. QED
      BY <1>1, <1>2, <2>2 DEF NanoInv, NanoTyped
  <1>4. NanoKept'
    BY <1>1, <1>2, <1>3 DEF NanoKept, NanoTyped
  <1>. QED
    BY <1>1, <1>3, <1>4 DEF NanoInv

(* Whatever leaves the pins and pin_tracker alone, and ends nothing.              *)
LEMMA NanoOthers ==
    ASSUME board = "nano", board' = board, NanoInv, UNCHANGED Nano!boardVars,
           phase' = phase \/ (phase = "ready" /\ phase' = "joining")
    PROVE  NanoInv'
  <1> USE DEF Nano!boardVars
  <1>1. NanoTyped'
    BY DEF NanoInv, NanoTyped
  <1>2. \A p \in Pins : Nano!Restored(p) <=> Nano!Restored(p)'
    BY DEF Nano!Restored
  <1>3. NanoKept'
    BY <1>2 DEF NanoInv, NanoKept
  <1>4. phase' = "off" => TerminateRestores'
    <2> SUFFICES ASSUME phase' = "off" PROVE TerminateRestores'
      OBVIOUS
    <2>1. phase = "off" /\ TerminateRestores
      BY DEF NanoInv
    <2>. QED
      BY <2>1 DEF TerminateRestores, GivenBack, GeneratorGivenBack
  <1>. QED
    BY <1>1, <1>3, <1>4 DEF NanoInv

LEMMA NanoSteps == ASSUME board = "nano", board' = board, NanoInv, Nano!Next PROVE NanoInv'
  <1>1. ASSUME \/ Nano!StopThreads
               \/ \E b \in Buses : \/ Nano!i2cOpen(b) \/ Nano!i2cClose(b)
                                   \/ \E d \in Devices : Nano!SmbusTransfer(b, d)
               \/ \E c \in Channels : Nano!spiClose(c) \/ Nano!spiXfer(c)
               \/ \E t \in 1..Len(threads) : Nano!callback(t)
        PROVE  NanoInv'
    <2>1. /\ UNCHANGED Nano!boardVars
          /\ phase' = phase \/ (phase = "ready" /\ phase' = "joining")
      BY <1>1 DEF Nano!StopThreads, Nano!i2cOpen, Nano!i2cClose, Nano!OpenI2c, Nano!CloseI2c,
                  Nano!SmbusTransfer, Nano!spiClose, Nano!CloseSpi, Nano!spiXfer, Nano!SpiTransfer,
                  Nano!gpioVars, Nano!callback, Nano!RequestEvents, Nano!CallFunction,
                  Nano!ReadFails, Nano!FunctionReturns, Nano!Cancelled, Nano!ThreadStep
    <2>. QED
      BY <2>1, NanoOthers
  <1>. QED
    BY <1>1, NanoInitialises, NanoTerminates, NanoPinCalls, NanoInterrupts, NanoSpiOpens
       DEF Nano!Next, Nano!Call, Nano!i2cWriteByteData, Nano!i2cReadByteData,
           Nano!i2cWriteWordData, Nano!i2cReadWordData

LEMMA NanoStarts == ASSUME board = "nano", Nano!Init PROVE NanoInv
  <1>1. /\ regs \in [Pins -> Nano!Boot] /\ saved = regs
        /\ pwm = [p \in Nano!PwmPins |-> "boot"] /\ savedPwm = pwm /\ phase = "off"
    BY DEF Nano!Init, Nano!NotInitialised
  <1>2. \A p \in Pins : regs[p] \in NanoRegs /\ regs[p].pad = "boot"
    BY <1>1 DEF Nano!Boot, NanoRegs
  <1>3. NanoTyped
    BY <1>1, <1>2 DEF NanoTyped, Generators
  <1>4. TerminateRestores
    BY <1>1 DEF TerminateRestores, GivenBack, GeneratorGivenBack
  <1>. QED
    BY <1>1, <1>3, <1>4 DEF NanoInv, NanoKept

--------------------------------------------------------------------------------
(* The Orin's registers: an untracked pin is as it was stored, but for the interrupt's   *)
(* edge in its CNF.                                                          *)
Edges == {"rising", "falling", "either"}
OrinRegs == [cnf : {"boot", "in", "out", "pwm", "spi"} \cup Edges, out : {0, 1}, vle : {0, 1},
             pad : {"boot", "in", "out", "pwm", "spi"}]

OrinTyped ==
    /\ regs \in [Pins -> OrinRegs] /\ saved \in [Pins -> OrinRegs]
    /\ pwm \in [Orin!PwmPins -> Generators] /\ savedPwm \in [Orin!PwmPins -> Generators]

OrinKept ==
    phase \in {"ready", "joining"} =>
        /\ \A p \in Pins : ~Orin!Restored(p) =>
              /\ regs[p].pad = saved[p].pad
              /\ regs[p].out = saved[p].out
              /\ regs[p].cnf = saved[p].cnf \/ regs[p].cnf \in Edges
        /\ \A p \in Orin!PwmPins : Orin!TrackPwm(p) \notin pin_tracker =>
              pwm[p] \in {savedPwm[p], "on"}

OrinInv == OrinTyped /\ OrinKept /\ (phase = "off" => TerminateRestores)

LEMMA OrinStaysRestored ==
    ASSUME pin_tracker \subseteq pin_tracker', NEW p \in Pins, Orin!Restored(p)
    PROVE  Orin!Restored(p)'
  BY DEF Orin!Restored

LEMMA OrinFields ==
    ASSUME NEW r \in OrinRegs
    PROVE  /\ \A v \in {"in", "out", "pwm", "spi"} : /\ [r EXCEPT !.pad = v] \in OrinRegs
                                                  /\ [r EXCEPT !.cnf = v] \in OrinRegs
           /\ \A v \in Edges : /\ [r EXCEPT !.cnf = v] \in OrinRegs
                               /\ [r EXCEPT !.cnf = v].cnf = v
                               /\ [r EXCEPT !.cnf = v].pad = r.pad
                               /\ [r EXCEPT !.cnf = v].out = r.out
           /\ \A v \in {0, 1} : /\ [r EXCEPT !.out = v] \in OrinRegs
                              /\ [r EXCEPT !.vle = v] \in OrinRegs
                              /\ [r EXCEPT !.vle = v].cnf = r.cnf
                              /\ [r EXCEPT !.vle = v].pad = r.pad
                              /\ [r EXCEPT !.vle = v].out = r.out
  BY DEF OrinRegs, Edges

(* A call that changes the registers of one pin.                                 *)
LEMMA OrinPinChanges ==
    ASSUME OrinInv, phase = "ready", phase' = phase, saved' = saved, savedPwm' = savedPwm,
           NEW p \in Pins, NEW r \in OrinRegs, regs' = [regs EXCEPT ![p] = r],
           pin_tracker \subseteq pin_tracker', pwm' \in [Orin!PwmPins -> Generators],
           \A q \in Orin!PwmPins : Orin!TrackPwm(q) \notin pin_tracker' => pwm'[q] \in {pwm[q], "on"},
           \/ Orin!Restored(p)'
           \/ /\ r.pad = regs[p].pad /\ r.out = regs[p].out
              /\ r.cnf = regs[p].cnf \/ r.cnf \in Edges
    PROVE  OrinInv'
  <1>1. regs'[p] = r /\ \A q \in Pins : q # p => regs'[q] = regs[q]
    BY DEF OrinInv, OrinTyped
  <1>2. OrinTyped'
    BY <1>1 DEF OrinInv, OrinTyped
  <1>3. ASSUME NEW q \in Pins, ~Orin!Restored(q)'
        PROVE  /\ regs'[q].pad = saved[q].pad
               /\ regs'[q].out = saved[q].out
               /\ regs'[q].cnf = saved[q].cnf \/ regs'[q].cnf \in Edges
    <2>1. /\ regs[q].pad = saved[q].pad
          /\ regs[q].out = saved[q].out
          /\ regs[q].cnf = saved[q].cnf \/ regs[q].cnf \in Edges
      BY <1>3, OrinStaysRestored DEF OrinInv, OrinKept
    <2>. QED
      BY <1>1, <1>3, <2>1
  <1>4. ASSUME NEW q \in Orin!PwmPins, Orin!TrackPwm(q) \notin pin_tracker'
        PROVE  pwm'[q] \in {savedPwm[q], "on"}
    <2>1. Orin!TrackPwm(q) \notin pin_tracker
      BY <1>4
    <2>2. pwm[q] \in {savedPwm[q], "on"}
      BY <2>1 DEF OrinInv, OrinKept
    <2>. QED
      BY <1>4, <2>2
  <1>5. OrinKept'
    BY <1>3, <1>4 DEF OrinKept
  <1>. QED
    BY <1>2, <1>5 DEF OrinInv

LEMMA OrinPinCalls ==
    ASSUME OrinInv, NEW p \in Pins,
           \/ Orin!gpioSetMode(p) \/ Orin!gpioRead(p) \/ Orin!gpioWrite(p)
           \/ Orin!gpioSetPWMfrequency(p) \/ Orin!gpioPWM(p)
    PROVE  OrinInv'
  <1>1. /\ phase = "ready" /\ phase' = phase /\ saved' = saved /\ savedPwm' = savedPwm
        /\ pin_tracker \subseteq pin_tracker'
    BY DEF Orin!gpioSetMode, Orin!SetInput, Orin!SetOutput, Orin!gpioRead, Orin!gpioWrite,
           Orin!WriteLow, Orin!WriteHigh, Orin!gpioSetPWMfrequency, Orin!gpioPWM, Orin!PinCall
  <1>2. /\ regs \in [Pins -> OrinRegs] /\ regs[p] \in OrinRegs
        /\ pwm \in [Orin!PwmPins -> Generators]
    BY DEF OrinInv, OrinTyped
  <1>3. Orin!Bit(p) \in pin_tracker' => Orin!Restored(p)'
    BY DEF Orin!Restored, Orin!Bit, Orin!Header
  <1>4. CASE Orin!gpioSetMode(p)
    <2>1. PICK v \in {"in", "out"}, level \in {0, 1} :
             /\ regs' = [regs EXCEPT ![p] = [regs[p] EXCEPT !.pad = v, !.cnf = v, !.out = level]]
             /\ pwm' = pwm /\ Orin!Bit(p) \in pin_tracker'
      BY <1>4 DEF Orin!gpioSetMode, Orin!SetInput, Orin!SetOutput, Orin!PinCall
    <2> DEFINE r1 == [regs[p] EXCEPT !.pad = v]
               r2 == [r1 EXCEPT !.cnf = v]
               r3 == [r2 EXCEPT !.out = level]
    <2>2. regs' = [regs EXCEPT ![p] = r3]
      BY <2>1
    <2>3. r1 \in OrinRegs
      BY <1>2, OrinFields
    <2> HIDE DEF r1
    <2>4. r2 \in OrinRegs
      BY <2>3, OrinFields
    <2> HIDE DEF r2
    <2>5. r3 \in OrinRegs
      BY <2>4, OrinFields
    <2> HIDE DEF r3
    <2>. QED
      BY <1>1, <1>2, <1>3, <2>1, <2>2, <2>5, OrinPinChanges
  <1>5. CASE Orin!gpioRead(p)
    <2>1. regs' = [regs EXCEPT ![p] = regs[p]] /\ pwm' = pwm
      BY <1>2, <1>5 DEF Orin!gpioRead, Orin!PinCall
    <2>. QED
      BY <1>1, <1>2, <2>1, OrinPinChanges
  <1>6. CASE Orin!gpioWrite(p)
    <2>1. PICK level \in {0, 1} : /\ regs' = [regs EXCEPT ![p] = [regs[p] EXCEPT !.vle = level]]
                                /\ pwm' = pwm
      BY <1>6 DEF Orin!gpioWrite, Orin!WriteLow, Orin!WriteHigh, Orin!PinCall
    <2> DEFINE r == [regs[p] EXCEPT !.vle = level]
    <2>2. r \in OrinRegs /\ r.pad = regs[p].pad /\ r.cnf = regs[p].cnf /\ r.out = regs[p].out
      BY <1>2, OrinFields
    <2>3. regs' = [regs EXCEPT ![p] = r]
      BY <2>1
    <2> HIDE DEF r
    <2>. QED
      BY <1>1, <1>2, <2>1, <2>2, <2>3, OrinPinChanges
  <1>7. CASE Orin!gpioSetPWMfrequency(p)
    <2> DEFINE r1 == [regs[p] EXCEPT !.cnf = "pwm"]
               r2 == [r1 EXCEPT !.pad = "pwm"]
    <2>1. /\ regs' = [regs EXCEPT ![p] = r2]
          /\ p \in Orin!PwmPins /\ pwm' = [pwm EXCEPT ![p] = "frequency"]
          /\ Orin!TrackPwm(p) \in pin_tracker'
      BY <1>7 DEF Orin!gpioSetPWMfrequency, Orin!PinCall
    <2>2. r1 \in OrinRegs
      BY <1>2, OrinFields
    <2> HIDE DEF r1
    <2>3. r2 \in OrinRegs
      BY <2>2, OrinFields
    <2> HIDE DEF r2
    <2>4. Orin!Restored(p)'
      BY <2>1 DEF Orin!Restored, Orin!PwmPins, Orin!TrackPwm
    <2>5. /\ pwm' \in [Orin!PwmPins -> Generators]
          /\ \A q \in Orin!PwmPins : Orin!TrackPwm(q) \notin pin_tracker' => pwm'[q] \in {pwm[q], "on"}
      BY <1>2, <2>1 DEF Generators
    <2>. QED
      BY <1>1, <2>1, <2>3, <2>4, <2>5, OrinPinChanges
  <1>8. CASE Orin!gpioPWM(p)
    <2>1. /\ regs' = [regs EXCEPT ![p] = regs[p]]
          /\ p \in Orin!PwmPins /\ pwm' = [pwm EXCEPT ![p] = "on"]
      BY <1>2, <1>8 DEF Orin!gpioPWM, Orin!PinCall
    <2>2. /\ pwm' \in [Orin!PwmPins -> Generators]
          /\ \A q \in Orin!PwmPins : pwm'[q] \in {pwm[q], "on"}
      BY <1>2, <2>1 DEF Generators
    <2>. QED
      BY <1>1, <1>2, <2>1, <2>2, OrinPinChanges
  <1>. QED
    BY <1>4, <1>5, <1>6, <1>7, <1>8

(* gpioTerminate on the Orin.                                                  *)
LEMMA OrinTerminates ==
    ASSUME board = "orin", board' = board, OrinInv, Orin!gpioTerminate
    PROVE  OrinInv'
  <1>1. /\ phase = "joining" /\ phase' \in {"off", "crashed"}
        /\ UNCHANGED <<saved, savedPwm, pin_tracker>>
        /\ regs' = [p \in Pins |-> Orin!RestorePin(p)]
        /\ pwm' = [p \in Orin!PwmPins |-> Orin!RestorePwm(p)]
    BY DEF Orin!gpioTerminate, Orin!FinishTerminate, Orin!JoinsReturn
  <1>2. ASSUME NEW p \in Pins
        PROVE  /\ regs'[p] \in OrinRegs
               /\ \/ ~Orin!Restored(p) /\ regs'[p] = regs[p]
                  \/ /\ regs'[p].pad = saved[p].pad /\ regs'[p].out = saved[p].out
                     /\ regs'[p].cnf = saved[p].cnf
    <2>1. regs'[p] = Orin!RestorePin(p)
      BY <1>1
    <2>2. regs[p] \in OrinRegs /\ saved[p] \in OrinRegs
      BY DEF OrinInv, OrinTyped
    <2>3. CASE ~Orin!Restored(p)
      BY <2>1, <2>2, <2>3 DEF Orin!RestorePin
    <2>4. CASE Orin!Restored(p) /\ p = 33 /\ 3 \in Pins
      <3>1. saved[3].vle \in {0, 1}
        BY <2>4 DEF OrinInv, OrinTyped, OrinRegs
      <3> DEFINE r == [saved[p] EXCEPT !.vle = saved[3].vle]
      <3>2. regs'[p] = r
        BY <2>1, <2>4 DEF Orin!RestorePin
      <3>3. r \in OrinRegs /\ r.pad = saved[p].pad /\ r.out = saved[p].out /\ r.cnf = saved[p].cnf
        BY <2>2, <3>1, OrinFields
      <3>. QED
        BY <3>2, <3>3
    <2>5. CASE Orin!Restored(p) /\ ~(p = 33 /\ 3 \in Pins)
      BY <2>1, <2>2, <2>5 DEF Orin!RestorePin
    <2>. QED
      BY <2>3, <2>4, <2>5
  <1>3. ASSUME NEW p \in Orin!PwmPins
        PROVE  pwm'[p] \in Generators /\ GeneratorGivenBack(p)'
    <2>1. pwm'[p] = IF Orin!TrackPwm(p) \in pin_tracker THEN savedPwm[p] ELSE pwm[p]
      BY <1>1 DEF Orin!RestorePwm
    <2>2. pwm[p] \in Generators /\ savedPwm[p] \in Generators
      BY DEF OrinInv, OrinTyped
    <2>3. Orin!TrackPwm(p) \notin pin_tracker => pwm[p] \in {savedPwm[p], "on"}
      BY <1>1 DEF OrinInv, OrinKept
    <2>. QED
      BY <1>1, <2>1, <2>2, <2>3 DEF GeneratorGivenBack
  <1>4. OrinTyped'
    <2>1. regs' = [p \in Pins |-> regs'[p]] /\ pwm' = [p \in Orin!PwmPins |-> pwm'[p]]
      BY <1>1
    <2>2. regs' \in [Pins -> OrinRegs]
      BY <1>2, <2>1
    <2>3. pwm' \in [Orin!PwmPins -> Generators]
      BY <1>3, <2>1
    <2>. QED
      BY <1>1, <2>2, <2>3 DEF OrinInv, OrinTyped
  <1>5. \A p \in Pins : ~Orin!Restored(p) =>
              /\ regs[p].pad = saved[p].pad
              /\ regs[p].out = saved[p].out
              /\ regs[p].cnf = saved[p].cnf \/ regs[p].cnf \in Edges
    BY <1>1 DEF OrinInv, OrinKept
  <1>6. \A p \in Pins : GivenBack(p)'
    BY <1>1, <1>2, <1>5 DEF GivenBack, Edges
  <1>7. DOMAIN pwm' = Orin!PwmPins
    BY <1>1
  <1>. QED
    BY <1>1, <1>3, <1>4, <1>6, <1>7 DEF OrinInv, OrinKept, TerminateRestores

(* The calls that change one pin's interrupt, or the pins of an SPI channel.        *)
LEMMA OrinInterrupts ==
    ASSUME OrinInv, NEW p \in IsrPins, NEW edge \in {"rising", "falling", "either"},
           Orin!gpioSetISRFunc(p, edge)
    PROVE  OrinInv'
  <1> DEFINE r == [regs[p] EXCEPT !.cnf = edge]
  <1>1. /\ phase = "ready" /\ UNCHANGED <<phase, saved, savedPwm, pwm, pin_tracker>>
        /\ regs' = [regs EXCEPT ![p] = r]
    BY DEF Orin!gpioSetISRFunc, Orin!InterruptCall
  <1>2. p \in Pins /\ regs[p] \in OrinRegs /\ pwm \in [Orin!PwmPins -> Generators]
    BY GpioAssumption DEF OrinInv, OrinTyped
  <1>3. edge \in Edges
    BY DEF Edges
  <1>4. r \in OrinRegs /\ r.pad = regs[p].pad /\ r.out = regs[p].out /\ r.cnf \in Edges
    BY <1>2, <1>3, OrinFields
  <1> HIDE DEF r
  <1>. QED
    BY <1>1, <1>2, <1>4, OrinPinChanges

LEMMA OrinSpiOpens ==
    ASSUME OrinInv, NEW number \in {0, 1}, Orin!spiOpen(number)
    PROVE  OrinInv'
  <1> DEFINE taken == IF Orin!HandleOf(number) = 0 THEN Orin!SpiPins(0) ELSE {}
  <1>1. /\ phase = "ready" /\ UNCHANGED <<phase, saved, savedPwm, pwm>>
        /\ pin_tracker \subseteq pin_tracker'
        /\ taken # {} => Orin!TrackSpi(0) \in pin_tracker'
    BY DEF Orin!spiOpen, Orin!OpenSpi
  <1>2. ASSUME NEW p \in Pins
        PROVE  regs'[p] = IF p \in taken THEN [regs[p] EXCEPT !.cnf = "spi", !.pad = "spi"]
                          ELSE regs[p]
    BY DEF Orin!spiOpen, Orin!OpenSpi
  <1>3. \A p \in Pins : p \in taken => Orin!Restored(p)'
    BY <1>1 DEF Orin!Restored
  <1>4. regs' = [p \in Pins |-> regs'[p]]
    BY DEF OrinInv, OrinTyped, Orin!spiOpen, Orin!OpenSpi
  <1> HIDE DEF taken
  <1>5. ASSUME NEW p \in Pins
        PROVE  regs'[p] \in OrinRegs /\ (p \in taken \/ regs'[p] = regs[p])
    <2>1. regs[p] \in OrinRegs
      BY DEF OrinInv, OrinTyped
    <2>2. CASE p \in taken
      <3> DEFINE r == [regs[p] EXCEPT !.cnf = "spi"]
      <3>1. regs'[p] = [r EXCEPT !.pad = "spi"]
        BY <1>2, <2>2
      <3>2. r \in OrinRegs
        BY <2>1, OrinFields
      <3> HIDE DEF r
      <3>. QED
        BY <2>2, <3>1, <3>2, OrinFields
    <2>3. CASE p \notin taken
      BY <1>2, <2>1, <2>3
    <2>. QED
      BY <2>2, <2>3
  <1>6. OrinTyped'
    <2>1. regs' \in [Pins -> OrinRegs]
      BY <1>4, <1>5
    <2>. QED
      BY <1>1, <2>1 DEF OrinInv, OrinTyped
  <1>7. \A p \in Pins : Orin!Restored(p) => Orin!Restored(p)'
    BY <1>1, OrinStaysRestored
  <1>8. OrinKept'
    BY <1>1, <1>3, <1>5, <1>7 DEF OrinInv, OrinKept
  <1>. QED
    BY <1>1, <1>6, <1>8 DEF OrinInv

LEMMA OrinInitialises == ASSUME OrinInv, Orin!Initialise PROVE OrinInv'
  <1>1. /\ phase' = "ready" /\ UNCHANGED <<regs, pwm, pin_tracker>>
        /\ saved' = [p \in Pins |-> Orin!Stored(p)]
        /\ savedPwm' = pwm
    BY DEF Orin!Initialise, Orin!gpioInitialise
  <1>2. \A p \in Pins : Orin!Stored(p) = regs[p]
    BY DEF Orin!Stored, OrinInv, OrinTyped, OrinRegs
  <1>3. saved' = regs
    BY <1>1, <1>2 DEF OrinInv, OrinTyped
  <1>4. OrinTyped' /\ OrinKept'
    BY <1>1, <1>3 DEF OrinInv, OrinTyped, OrinKept
  <1>. QED
    BY <1>1, <1>4 DEF OrinInv

LEMMA OrinOthers ==
    ASSUME board = "orin", board' = board, OrinInv, UNCHANGED Orin!boardVars,
           phase' = phase \/ (phase = "ready" /\ phase' = "joining")
    PROVE  OrinInv'
  <1> USE DEF Orin!boardVars
  <1>1. OrinTyped'
    BY DEF OrinInv, OrinTyped
  <1>2. \A p \in Pins : Orin!Restored(p) <=> Orin!Restored(p)'
    BY DEF Orin!Restored
  <1>3. OrinKept'
    BY <1>2 DEF OrinInv, OrinKept
  <1>4. phase' = "off" => TerminateRestores'
    <2> SUFFICES ASSUME phase' = "off" PROVE TerminateRestores'
      OBVIOUS
    <2>1. phase = "off" /\ TerminateRestores
      BY DEF OrinInv
    <2>. QED
      BY <2>1 DEF TerminateRestores, GivenBack, GeneratorGivenBack
  <1>. QED
    BY <1>1, <1>3, <1>4 DEF OrinInv

LEMMA OrinSteps == ASSUME board = "orin", board' = board, OrinInv, Orin!Next PROVE OrinInv'
  <1>1. ASSUME \/ Orin!StopThreads
               \/ \E number \in {0, 1} : Orin!i2cOpen(number)
               \/ \E b \in Buses : \/ Orin!i2cClose(b)
                                   \/ \E d \in Devices : Orin!SmbusTransfer(b, d)
               \/ \E c \in Channels : Orin!spiClose(c) \/ Orin!spiXfer(c)
               \/ \E t \in 1..Len(threads) : Orin!callback(t)
        PROVE  OrinInv'
    <2>1. /\ UNCHANGED Orin!boardVars
          /\ phase' = phase \/ (phase = "ready" /\ phase' = "joining")
      BY <1>1 DEF Orin!StopThreads, Orin!i2cOpen, Orin!i2cClose, Orin!OpenI2c, Orin!CloseI2c,
                  Orin!SmbusTransfer, Orin!spiClose, Orin!CloseSpi, Orin!spiXfer, Orin!SpiTransfer,
                  Orin!gpioVars, Orin!callback, Orin!RequestEvents, Orin!CallFunction,
                  Orin!ReadFails, Orin!FunctionReturns, Orin!Cancelled, Orin!ThreadStep
    <2>. QED
      BY <2>1, OrinOthers
  <1>. QED
    BY <1>1, OrinInitialises, OrinTerminates, OrinPinCalls, OrinInterrupts, OrinSpiOpens
       DEF Orin!Next, Orin!Call, Orin!i2cWriteByteData, Orin!i2cReadByteData,
           Orin!i2cWriteWordData, Orin!i2cReadWordData

LEMMA OrinStarts == ASSUME board = "orin", Orin!Init PROVE OrinInv
  <1>1. /\ regs \in [Pins -> Orin!Boot] /\ saved = regs
        /\ pwm = [p \in Orin!PwmPins |-> "boot"] /\ savedPwm = pwm /\ phase = "off"
    BY DEF Orin!Init, Orin!NotInitialised
  <1>2. \A p \in Pins : regs[p] \in OrinRegs
    BY <1>1 DEF Orin!Boot, OrinRegs
  <1>3. OrinTyped
    BY <1>1, <1>2 DEF OrinTyped, Generators
  <1>4. TerminateRestores
    BY <1>1 DEF TerminateRestores, GivenBack, GeneratorGivenBack
  <1>. QED
    BY <1>1, <1>3, <1>4 DEF OrinInv, OrinKept

--------------------------------------------------------------------------------
(* Each board keeps its own invariant.                                         *)
BoardInv ==
    /\ board \in {"nano", "orin"}
    /\ board = "nano" => NanoInv
    /\ board = "orin" => OrinInv

(* On both boards, in every life of the library and whatever was called in between:     *)
(* when gpioTerminate has returned, every pin has the function and the direction, and     *)
(* every generator the state, that gpioInitialise found, though the Nano's pins share     *)
(* their ports, but for what GivenBack and GeneratorGivenBack leave out: a Nano's pin or  *)
(* a generator that only gpioPWM used and the code does not track, and an Orin's pad left *)
(* with the edge of an interrupt.  Of output levels it says nothing.                 *)
THEOREM TerminationRestores == JetSpec => []TerminateRestores
  <1>1. JetInit => BoardInv
    BY NanoStarts, OrinStarts DEF JetInit, BoardInv
  <1>2. BoardInv /\ [JetNext]_jetVars => BoardInv'
    <2> SUFFICES ASSUME BoardInv, [JetNext]_jetVars PROVE BoardInv'
      OBVIOUS
    <2>1. CASE UNCHANGED jetVars
      <3> USE <2>1 DEF jetVars, gpioVars, boardVars
      <3>1. board = "nano" => UNCHANGED Nano!boardVars
        BY DEF Nano!boardVars
      <3>2. board = "orin" => UNCHANGED Orin!boardVars
        BY DEF Orin!boardVars
      <3>. QED
        BY <3>1, <3>2, NanoOthers, OrinOthers DEF BoardInv
    <2>2. CASE JetNext
      BY <2>2, NanoSteps, OrinSteps DEF JetNext, BoardInv
    <2>. QED
      BY <2>1, <2>2
  <1>3. BoardInv => TerminateRestores
    BY DEF BoardInv, NanoInv, OrinInv, TerminateRestores
  <1>. QED
    BY <1>1, <1>2, <1>3, PTL DEF JetSpec
================================================================================
