------------------------------- MODULE GpioBoard -------------------------------
(****************************************************************************)
(* What the two builds of the GPIO library, JETGPIO/nano.c and                *)
(* JETGPIO/orin.c, have in common: the registers of the header's pins, the    *)
(* library's own variables, the interrupt threads, and the I2C and SPI buses  *)
(* as jetgpio.h declares them.  NanoGpio and OrinGpio give each board's calls. *)
(*                                                                          *)
(* A pin's pinmux and pincfg registers are always written together, and are    *)
(* one field here, pad.  Calls that fail before they change anything are left   *)
(* out.                                                                     *)
(****************************************************************************)
EXTENDS Integers, Sequences, FiniteSets, SequencesExt

CONSTANTS
    Pins,       \* the header pins looked at
    IsrPins,    \* those an interrupt function is asked for
    Buses,      \* I2C buses, by the number the device has
    Channels,   \* SPI channels, likewise
    Devices,    \* I2C addresses
    MaxThreads, \* bound: interrupt threads started, 28 in the code
    MaxLives    \* bound: calls of gpioInitialise

VARIABLES
    phase,      \* "off", "ready", "joining" in gpioTerminate, "crashed"
    regs,       \* the board: the registers of each pin
    pwm,        \* the board: the PWM generator behind a pin
    saved, savedPwm,    \* what gpioInitialise stored of them
    pin_tracker,        \* the bits that are set in it
    global_int,         \* the interrupt threads' licence to go on
    threads,            \* callThd: per thread its pin and where it is
    joined,             \* how many of them have been joined
    monitored,          \* pins whose ISRFunc_CFG has a gpio other than 0
    i2c,                \* i2cInfo and the kernel's side of its descriptor
    busSpeed, i2c_speed,    \* a bus's clock, and the one stored for i2cClose
    spi,                    \* SpiInfo
    lives               \* gpioInitialise calls so far

boardVars == <<regs, pwm, saved, savedPwm, pin_tracker>>
threadVars == <<global_int, threads, joined, monitored>>
i2cVars == <<i2c, busSpeed, i2c_speed>>
gpioVars == <<phase, boardVars, threadVars, i2cVars, spi, lives>>

\* The pins of the header, in the order of their bits in pin_tracker.
Header == <<3, 5, 7, 8, 10, 11, 12, 13, 15, 16, 18, 19, 21, 22, 23, 24, 26, 27, 28, 29,
            31, 32, 33, 35, 36, 37, 38, 40>>
Bit(p) == CHOOSE b \in 0..27 : Header[b + 1] = p

SpiPins(channel) == IF channel = 0 THEN {19, 21, 23, 24} ELSE {37, 22, 13, 18}

ASSUME GpioAssumption ==
    /\ Pins \subseteq ToSet(Header) /\ IsrPins \subseteq Pins
    /\ MaxThreads \in Nat /\ MaxLives \in Nat

NotInitialised ==
    /\ phase = "off"
    /\ saved = regs
    /\ savedPwm = pwm
    /\ pin_tracker = {}
    /\ global_int = FALSE
    /\ threads = <<>> /\ joined = 0 /\ monitored = {}
    /\ i2c = [b \in Buses |-> [state |-> "CLOSED", fd |-> "none", slave |-> "none"]]
    /\ busSpeed = [b \in Buses |-> "kernel"]
    /\ i2c_speed = [b \in Buses |-> "kernel"]
    /\ spi = [c \in Channels |-> [state |-> "CLOSED", fd |-> "none"]]
    /\ lives = 0

(* gpioInitialise after every mapping has succeeded.  pin_tracker and the count of  *)
(* threads keep their values from an earlier life of the library.  ISRFunc_CFG is    *)
(* malloc'ed and not cleared: any pin may look monitored already.              *)
gpioInitialise(stored) ==
    /\ phase = "off" /\ lives < MaxLives
    /\ lives' = lives + 1
    /\ phase' = "ready"
    /\ saved' = stored
    /\ savedPwm' = pwm
    /\ i2c' = [b \in Buses |-> [i2c[b] EXCEPT !.state = "CLOSED"]]
    /\ spi' = [c \in Channels |-> [spi[c] EXCEPT !.state = "CLOSED"]]
    /\ global_int' = TRUE
    /\ monitored' \in SUBSET IsrPins
    /\ UNCHANGED <<regs, pwm, pin_tracker, threads, joined, busSpeed, i2c_speed>>
--------------------------------------------------------------------------------
(* The interrupt threads.                                                   *)

\* A mistake: a pin that is monitored already gets another thread.
StartThreadAgain(p) ==
    /\ monitored' = monitored \cup {p}
    /\ threads' \in {threads, Append(threads, [pin |-> p, at |-> "starting"])}
    /\ Len(threads) < MaxThreads

(* The end of gpioSetISRFunc: a pin that looks monitored gets no thread; the      *)
(* others do, unless none can be created, and then the pin looks monitored.   *)
StartThread(p) ==
    IF p \in monitored
    THEN UNCHANGED <<threads, monitored>>
    ELSE /\ monitored' = monitored \cup {p}
         /\ threads' \in {threads, Append(threads, [pin |-> p, at |-> "starting"])}
         /\ Len(threads) < MaxThreads

ThreadStep(t, from, to) ==
    /\ threads[t].at = from
    /\ threads' = [threads EXCEPT ![t].at = to]
    /\ UNCHANGED <<phase, boardVars, global_int, joined, monitored, i2cVars, spi, lives>>

(* The thread asks the kernel for the line's events; the kernel may refuse.      *)
RequestEvents(t) == \E to \in {"reading", "ended"} : ThreadStep(t, "starting", to)

(* An edge that the debounce time does not suppress: the function is called.     *)
CallFunction(t) == ThreadStep(t, "reading", "calling")

ReadFails(t) == ThreadStep(t, "reading", "ended")

FunctionReturns(t) == ThreadStep(t, "calling", IF global_int THEN "reading" ELSE "ended")

\* A mistake: the threads are told to stop and not cancelled.
CancelledNever(t) == phase = "joining" /\ FALSE /\ ThreadStep(t, "reading", "ended")

(* pthread_cancel takes effect in read and in whatever the function blocks on.   *)
Cancelled(t) ==
    /\ phase = "joining" /\ threads[t].at # "ended"
    /\ ThreadStep(t, threads[t].at, "ended")

callback(t) ==
    RequestEvents(t) \/ CallFunction(t) \/ ReadFails(t) \/ FunctionReturns(t) \/ Cancelled(t)

(* gpioTerminate up to the joins.                                            *)
StopThreads ==
    /\ phase = "ready"
    /\ phase' = "joining"
    /\ global_int' = FALSE
    /\ UNCHANGED <<boardVars, threads, joined, monitored, i2cVars, spi, lives>>

\* A mistake: the threads are cancelled and not waited for.
JoinsReturnAtOnce == phase = "joining"

JoinsReturn == phase = "joining" /\ \A t \in 1..Len(threads) : threads[t].at = "ended"

(* The rest of gpioTerminate: the registers are restored and the mappings given     *)
(* back.  thread_n is not reset, so that a second life joins the first one's       *)
(* threads again, which is undefined: nothing happens, or the process dies.      *)
FinishTerminate(restoredRegs, restoredPwm) ==
    /\ JoinsReturn
    /\ phase' \in (IF joined > 0 THEN {"off", "crashed"} ELSE {"off"})
    /\ regs' = restoredRegs
    /\ pwm' = restoredPwm
    /\ joined' = Len(threads)
    /\ monitored' = {}
    /\ UNCHANGED <<saved, savedPwm, pin_tracker, global_int, threads, i2cVars, spi, lives>>
--------------------------------------------------------------------------------
(* The buses.                                                               *)

(* i2cOpen: the bus's clock is stored and changed before the device is opened, and    *)
(* a failure to open or to query it leaves the bus reserved, with the new clock.   *)
(* The descriptor of a failed query is forgotten.                             *)
OpenI2c(b) ==
    /\ phase = "ready" /\ i2c[b].state = "CLOSED"
    /\ i2c_speed' = [i2c_speed EXCEPT ![b] = busSpeed[b]]
    /\ busSpeed' = [busSpeed EXCEPT ![b] = "requested"]
    /\ \/ i2c' = [i2c EXCEPT ![b] = [state |-> "OPENED", fd |-> "open", slave |-> "none"]]
       \/ i2c' = [i2c EXCEPT ![b].state = "RESERVED"]
    /\ UNCHANGED <<phase, boardVars, threadVars, spi, lives>>

\* A mistake: the bus keeps the clock of its last user.
CloseI2cOnly(b) ==
    /\ phase = "ready" /\ i2c[b].state = "OPENED"
    /\ i2c' = [i2c EXCEPT ![b] = [@ EXCEPT !.state = "CLOSED", !.fd = "none"]]
    /\ UNCHANGED <<phase, boardVars, threadVars, busSpeed, i2c_speed, spi, lives>>

CloseI2c(b) ==
    /\ phase = "ready" /\ i2c[b].state = "OPENED"
    /\ i2c' = [i2c EXCEPT ![b] = [@ EXCEPT !.state = "CLOSED", !.fd = "none"]]
    /\ busSpeed' = [busSpeed EXCEPT ![b] = i2c_speed[b]]
    /\ UNCHANGED <<phase, boardVars, threadVars, i2c_speed, spi, lives>>

(* An SMBus transfer with device d: the kernel addresses it, or refuses (a driver of    *)
(* its own has the device, or the address is out of range), and the call goes on with  *)
(* the device addressed before; without a descriptor it fails and changes nothing.     *)
SmbusTransfer(b, d) ==
    /\ phase = "ready"
    /\ i2c' \in {i2c} \cup (IF i2c[b].fd = "open" THEN {[i2c EXCEPT ![b].slave = d]} ELSE {})
    /\ UNCHANGED <<phase, boardVars, threadVars, busSpeed, i2c_speed, spi, lives>>

(* spiOpen reserves the channel and takes its pins from the GPIO controller before    *)
(* it opens the device; a failure leaves both as they are.                     *)
OpenSpi(c, newRegs, bits) ==
    /\ phase = "ready" /\ spi[c].state = "CLOSED"
    /\ regs' = newRegs
    /\ pin_tracker' = pin_tracker \cup bits
    /\ \/ spi' = [spi EXCEPT ![c] = [state |-> "OPENED", fd |-> "open"]]
       \/ spi' = [spi EXCEPT ![c].state = "RESERVED"]
    /\ UNCHANGED <<phase, pwm, saved, savedPwm, threadVars, i2cVars, lives>>

(* spiClose does not give the pins back.                                      *)
CloseSpi(c) ==
    /\ phase = "ready" /\ spi[c].state = "OPENED"
    /\ spi' = [spi EXCEPT ![c] = [state |-> "CLOSED", fd |-> "none"]]
    /\ UNCHANGED <<phase, boardVars, threadVars, i2cVars, lives>>

(* spiXfer: the message goes out on the descriptor that the channel has or had; with     *)
(* none the call fails.                                                      *)
SpiTransfer == phase = "ready" /\ UNCHANGED gpioVars

(* The calls about pins change registers only.                                *)
PinCall(newRegs, newPwm, bits) ==
    /\ phase = "ready"
    /\ regs' = newRegs
    /\ pwm' = newPwm
    /\ pin_tracker' = pin_tracker \cup bits
    /\ UNCHANGED <<phase, saved, savedPwm, threadVars, i2cVars, spi, lives>>

(* gpioSetISRFunc: the interrupt's registers are written before it is known whether   *)
(* the pin gets a thread, and the pin is not tracked.                           *)
InterruptCall(p, newRegs) ==
    /\ phase = "ready"
    /\ regs' = newRegs
    /\ StartThread(p)
    /\ UNCHANGED <<phase, pwm, saved, savedPwm, pin_tracker, global_int, joined, i2cVars, spi,
                   lives>>
================================================================================
