-------------------------------- MODULE OrinGpio --------------------------------
(****************************************************************************)
(* The calls of JETGPIO/orin.c.  Each pin of the Jetson Orin has registers of   *)
(* its own; gpioTerminate restores the output level as well, and a pin's       *)
(* interrupt is part of its CNF register.                                     *)
(****************************************************************************)
EXTENDS GpioBoard

PwmPins == {15, 32, 33} \cap Pins
TrackPwm(p) == CASE p = 15 -> 28 [] p = 33 -> 29 [] p = 32 -> 30
TrackSpi(c) == IF c = 0 THEN 31 ELSE 32

\* The devices behind the numbers of the header.
BusOf(i2cBus) == IF i2cBus = 0 THEN 1 ELSE 7
HandleOf(spiChan) == IF spiChan = 1 THEN 2 ELSE spiChan

\* out: whether the output is disabled (1).  vle: OUT_VLE, the level.
Boot == [cnf : {"boot"}, out : {1}, vle : {0}, pad : {"boot"}]

Init ==
    /\ regs \in [Pins -> Boot]
    /\ pwm = [p \in PwmPins |-> "boot"]
    /\ NotInitialised

\* What is stored of a pin: every one of its registers.
Stored(p) == regs[p]

Initialise == gpioInitialise([p \in Pins |-> Stored(p)])

SetInput(p) ==
    PinCall([regs EXCEPT ![p] = [@ EXCEPT !.pad = "in", !.cnf = "in", !.out = 1]], pwm, {Bit(p)})
SetOutput(p) ==
    PinCall([regs EXCEPT ![p] = [@ EXCEPT !.pad = "out", !.cnf = "out", !.out = 0]], pwm, {Bit(p)})

gpioSetMode(p) == SetInput(p) \/ SetOutput(p)

gpioRead(p) == PinCall(regs, pwm, {})

WriteLow(p) == PinCall([regs EXCEPT ![p].vle = 0], pwm, {})
WriteHigh(p) == PinCall([regs EXCEPT ![p].vle = 1], pwm, {})

gpioWrite(p) == WriteLow(p) \/ WriteHigh(p)

(* Here the frequency takes the pin, and gpioPWM only sets the duty cycle.         *)
gpioSetPWMfrequency(p) ==
    /\ p \in PwmPins
    /\ PinCall([regs EXCEPT ![p].cnf = "pwm", ![p].pad = "pwm"],
               [pwm EXCEPT ![p] = "frequency"], {TrackPwm(p)})

gpioPWM(p) == p \in PwmPins /\ PinCall(regs, [pwm EXCEPT ![p] = "on"], {})

gpioSetISRFunc(p, edge) == InterruptCall(p, [regs EXCEPT ![p].cnf = edge])

(* spiOpen counts channel 1 up to 2, the number of its device, before it looks which   *)
(* pins to take: channel 1 takes none.  The bit of channel 0 is 1 << 31, negative as   *)
(* an int, and its sign extends into the bit of channel 1.                       *)
spiOpen(spiChan) ==
    LET c == HandleOf(spiChan)
    IN  IF c = 0
        THEN OpenSpi(c, [p \in Pins |-> IF p \in SpiPins(0)
                                        THEN [regs[p] EXCEPT !.cnf = "spi", !.pad = "spi"]
                                        ELSE regs[p]],
                     {TrackSpi(0), TrackSpi(1)})
        ELSE OpenSpi(c, regs, {})

(* spiClose refuses handles above 1, hence that of channel 1.                      *)
spiClose(handle) == handle <= 1 /\ CloseSpi(handle)

\* It is not refused a transfer.
spiXfer(handle) == handle <= 2 /\ SpiTransfer

i2cOpen(i2cBus) == OpenI2c(BusOf(i2cBus))
i2cClose(handle) == CloseI2c(handle)
i2cWriteByteData(b, d) == SmbusTransfer(b, d)
i2cReadByteData(b, d) == SmbusTransfer(b, d)
i2cWriteWordData(b, d) == SmbusTransfer(b, d)
i2cReadWordData(b, d) == SmbusTransfer(b, d)

Restored(p) ==
    \/ Bit(p) \in pin_tracker
    \/ p \in PwmPins /\ TrackPwm(p) \in pin_tracker
    \/ \E c \in {0, 1} : p \in SpiPins(c) /\ TrackSpi(c) \in pin_tracker

(* Pin 33's output level is restored from pin 3's.                              *)
RestorePin(p) ==
    IF ~Restored(p) THEN regs[p]
    ELSE IF p = 33 /\ 3 \in Pins THEN [saved[33] EXCEPT !.vle = saved[3].vle]
    ELSE saved[p]

RestorePwm(p) == IF TrackPwm(p) \in pin_tracker THEN savedPwm[p] ELSE pwm[p]

gpioTerminate ==
    FinishTerminate([p \in Pins |-> RestorePin(p)], [p \in PwmPins |-> RestorePwm(p)])

Call ==
    \/ Initialise \/ StopThreads \/ gpioTerminate
    \/ \E p \in Pins :
         \/ gpioSetMode(p) \/ gpioRead(p) \/ gpioWrite(p)
         \/ gpioSetPWMfrequency(p) \/ gpioPWM(p)
    \/ \E p \in IsrPins, edge \in {"rising", "falling", "either"} : gpioSetISRFunc(p, edge)
    \/ \E number \in {0, 1} : BusOf(number) \in Buses /\ i2cOpen(number)
    \/ \E b \in Buses : i2cClose(b)
    \/ \E b \in Buses, d \in Devices :
         \/ i2cWriteByteData(b, d) \/ i2cReadByteData(b, d)
         \/ i2cWriteWordData(b, d) \/ i2cReadWordData(b, d)
    \/ \E number \in {0, 1} : HandleOf(number) \in Channels /\ spiOpen(number)
    \/ \E c \in Channels : spiClose(c) \/ spiXfer(c)

Next == Call \/ \E t \in 1..Len(threads) : callback(t)
================================================================================
