-------------------------------- MODULE NanoGpio --------------------------------
(****************************************************************************)
(* The calls of JETGPIO/nano.c.  The pins of the Jetson Nano share ports: a    *)
(* port's CNF, OE, OUT and interrupt registers hold a bit of up to eight pins.  *)
(* A call changes the bit of its pin; gpioInitialise stores the whole port under  *)
(* each of its pins, and gpioTerminate writes the whole port back.             *)
(****************************************************************************)
EXTENDS GpioBoard

Ports == {{3, 5, 12, 27, 28, 35, 38, 40}, {7}, {8, 10, 11, 36}, {13, 18, 22, 37}, {15}, {16},
          {19, 21, 23, 24, 26}, {29}, {31}, {32}, {33}}
SamePort(p, q) == \E port \in Ports : {p, q} \subseteq port

PwmPins == {32, 33} \cap Pins
TrackPwm == 28
TrackSpi(c) == IF c = 0 THEN 29 ELSE 30

\* cnf: 1 when the pin belongs to the GPIO controller.  irq: what is set of its bits
\* in INT_ENB and INT_LVL.
Boot == [cnf : {0}, oe : {0}, out : {0}, irq : {{}}, pad : {"boot"}]

Init ==
    /\ regs \in [Pins -> Boot]
    /\ pwm = [p \in PwmPins |-> "boot"]
    /\ NotInitialised

(* What is stored under a pin: its registers, but not OUT.                        *)
Stored(p) == [regs[p] EXCEPT !.out = 0]

Initialise == gpioInitialise([p \in Pins |-> Stored(p)])

SetInput(p) ==
    PinCall([regs EXCEPT ![p] = [@ EXCEPT !.pad = "in", !.cnf = 1, !.oe = 0]], pwm, {Bit(p)})
SetOutput(p) ==
    PinCall([regs EXCEPT ![p] = [@ EXCEPT !.pad = "out", !.cnf = 1, !.oe = 1]], pwm, {Bit(p)})

gpioSetMode(p) == SetInput(p) \/ SetOutput(p)

(* The pin's bit of IN is looked at.                                           *)
gpioRead(p) == PinCall(regs, pwm, {})

WriteLow(p) == PinCall([regs EXCEPT ![p].out = 0], pwm, {})
WriteHigh(p) == PinCall([regs EXCEPT ![p].out = 1], pwm, {})

gpioWrite(p) == WriteLow(p) \/ WriteHigh(p)

(* A frequency for a pin that has no PWM is refused, and tracked all the same.     *)
gpioSetPWMfrequency(p) ==
    PinCall(regs, IF p \in PwmPins THEN [pwm EXCEPT ![p] = "frequency"] ELSE pwm, {TrackPwm})

(* gpioPWM takes the pin from the GPIO controller and does not track it.           *)
gpioPWM(p) ==
    /\ p \in PwmPins
    /\ PinCall([regs EXCEPT ![p].cnf = 0, ![p].pad = "pwm"], [pwm EXCEPT ![p] = "on"], {})

(* FALLING_EDGE is 2, and only pin 3 compares with that: on the others a falling     *)
(* edge is programmed as either edge.                                         *)
Interrupt(p, edge, irq) ==
    CASE edge = "rising" -> irq \cup {"high", "edge"}
      [] edge = "falling" /\ p = 3 -> (irq \cup {"edge"}) \ {"high"}
      [] OTHER -> irq \cup {"edge", "delta"}

gpioSetISRFunc(p, edge) ==
    InterruptCall(p, [regs EXCEPT ![p].irq = Interrupt(p, edge, @) \cup {"enabled"}])

spiOpen(c) ==
    /\ c \in {0, 1}
    /\ OpenSpi(c, [p \in Pins |-> IF p \in SpiPins(c)
                                  THEN [regs[p] EXCEPT !.cnf = 0, !.pad = "spi"] ELSE regs[p]],
               {TrackSpi(c)})
spiClose(c) == CloseSpi(c)
spiXfer(handle) == handle <= 1 /\ SpiTransfer

i2cOpen(b) == OpenI2c(b)
i2cClose(b) == CloseI2c(b)
i2cWriteByteData(b, d) == SmbusTransfer(b, d)
i2cReadByteData(b, d) == SmbusTransfer(b, d)
i2cWriteWordData(b, d) == SmbusTransfer(b, d)
i2cReadWordData(b, d) == SmbusTransfer(b, d)

\* A mistake: the pins that an SPI channel took are forgotten.
RestoredWithoutSpi(p) ==
    Bit(p) \in pin_tracker \/ (p \in PwmPins /\ TrackPwm \in pin_tracker)

Restored(p) ==
    \/ Bit(p) \in pin_tracker
    \/ p \in PwmPins /\ TrackPwm \in pin_tracker
    \/ \E c \in {0, 1} : p \in SpiPins(c) /\ TrackSpi(c) \in pin_tracker

RestorePin(p) ==
    LET port == IF \E q \in Pins : SamePort(p, q) /\ Restored(q) THEN saved[p] ELSE regs[p]
    IN  [port EXCEPT !.out = regs[p].out,
                     !.pad = IF Restored(p) THEN saved[p].pad ELSE regs[p].pad]

gpioTerminate ==
    FinishTerminate([p \in Pins |-> RestorePin(p)],
                    IF TrackPwm \in pin_tracker THEN savedPwm ELSE pwm)

Call ==
    \/ Initialise \/ StopThreads \/ gpioTerminate
    \/ \E p \in Pins :
         \/ gpioSetMode(p) \/ gpioRead(p) \/ gpioWrite(p)
         \/ gpioSetPWMfrequency(p) \/ gpioPWM(p)
    \/ \E p \in IsrPins, edge \in {"rising", "falling", "either"} : gpioSetISRFunc(p, edge)
    \/ \E b \in Buses : i2cOpen(b) \/ i2cClose(b)
    \/ \E b \in Buses, d \in Devices :
         \/ i2cWriteByteData(b, d) \/ i2cReadByteData(b, d)
         \/ i2cWriteWordData(b, d) \/ i2cReadWordData(b, d)
    \/ \E c \in Channels : spiOpen(c) \/ spiClose(c) \/ spiXfer(c)

Next == Call \/ \E t \in 1..Len(threads) : callback(t)
================================================================================
