--------------------------------- MODULE JetGpio ---------------------------------
(****************************************************************************)
(* The GPIO library as it is installed: get_chip_id tells the board, and the     *)
(* makefile builds nano.c or orin.c for it.  A program calls the functions of     *)
(* jetgpio.h in any order that their descriptions allow; its interrupt threads   *)
(* run beside it.                                                            *)
(****************************************************************************)
EXTENDS GpioBoard

VARIABLE board

jetVars == <<board, gpioVars>>

Nano == INSTANCE NanoGpio
Orin == INSTANCE OrinGpio

JetInit ==
    \/ board = "nano" /\ Nano!Init
    \/ board = "orin" /\ Orin!Init

JetNext ==
    /\ \/ board = "nano" /\ Nano!Next
       \/ board = "orin" /\ Orin!Next
    /\ UNCHANGED board

JetSpec == JetInit /\ [][JetNext]_jetVars

(* A cancelled thread ends once it blocks, a function called returns, and so the      *)
(* joins; the program that calls gpioTerminate is scheduled.                     *)
Terminating ==
    \/ board = "nano" /\ Nano!gpioTerminate
    \/ board = "orin" /\ Orin!gpioTerminate

JetFairness ==
    /\ WF_jetVars(Terminating /\ UNCHANGED board)
    /\ \A t \in 1..MaxThreads :
         WF_jetVars(t <= Len(threads) /\ (Cancelled(t) \/ FunctionReturns(t)) /\ UNCHANGED board)

FairJetSpec == JetSpec /\ JetFairness
--------------------------------------------------------------------------------
Running(t) == threads[t].at # "ended"

JetTypeOK ==
    /\ board \in {"nano", "orin"}
    /\ phase \in {"off", "ready", "joining", "crashed"}
    /\ DOMAIN regs = Pins /\ DOMAIN saved = Pins
    /\ pin_tracker \subseteq 0..32
    /\ global_int \in BOOLEAN
    /\ threads \in Seq([pin : IsrPins, at : {"starting", "reading", "calling", "ended"}])
    /\ joined \in 0..Len(threads) /\ monitored \subseteq IsrPins
    /\ i2c \in [Buses -> [state : {"CLOSED", "RESERVED", "OPENED"}, fd : {"none", "open"},
                          slave : {"none"} \cup Devices]]
    /\ spi \in [Channels -> [state : {"CLOSED", "RESERVED", "OPENED"}, fd : {"none", "open"}]]
    /\ lives \in 0..MaxLives

(* After gpioTerminate no interrupt thread of the library is left: none reads the        *)
(* freed ISRFunc_CFG, none calls its function.                                  *)
NoThreadOutlivesLibrary == phase = "off" => \A t \in 1..Len(threads) : ~Running(t)

(* jetgpio.h: "One function may be registered per GPIO".  Two threads never watch one     *)
(* pin, although the check comes last in gpioSetISRFunc and reads uncleared memory.  *)
OneFunctionPerPin ==
    \A s, t \in 1..Len(threads) :
        Running(s) /\ Running(t) /\ threads[s].pin = threads[t].pin => s = t

(* The library's records of its pins, buses and threads are well formed, and no pin is  *)
(* watched twice.                                                              *)
JetInv == JetTypeOK /\ OneFunctionPerPin

(* gpioTerminate gives the pins it keeps track of back: their function, direction and   *)
(* PWM generator are those that gpioInitialise found, whatever calls and buses used    *)
(* them and whatever pins share their port.  Left out are what the code does not track, *)
(* a pin that only gpioSetISRFunc touched and on the Nano one that only gpioPWM did;     *)
(* and output levels, which it restores for no pin of the Nano and wrongly for pin 33   *)
(* of the Orin.                                                              *)
GivenBack(p) ==
    IF board = "nano"
    THEN /\ regs[p].pad = saved[p].pad \/ (regs[p].pad = "pwm" /\ 28 \notin pin_tracker)
         /\ regs[p].cnf = saved[p].cnf \/ (regs[p].pad = "pwm" /\ 28 \notin pin_tracker)
         /\ regs[p].oe = saved[p].oe
    ELSE /\ regs[p].pad = saved[p].pad
         /\ regs[p].out = saved[p].out
         /\ regs[p].cnf = saved[p].cnf \/ regs[p].cnf \in {"rising", "falling", "either"}

GeneratorGivenBack(p) ==
    \/ pwm[p] = savedPwm[p]
    \/ pwm[p] = "on" /\ (IF board = "nano" THEN 28 ELSE Orin!TrackPwm(p)) \notin pin_tracker

TerminateRestores ==
    phase = "off" => /\ \A p \in Pins : GivenBack(p)
                     /\ \A p \in DOMAIN pwm : GeneratorGivenBack(p)

(* In the library's first life a closed bus has the clock the kernel gave it: only an   *)
(* open bus, or one that a failed i2cOpen left reserved, keeps the other.          *)
ClockGivenBack ==
    lives = 1 /\ phase = "ready" =>
        \A b \in Buses : i2c[b].state = "CLOSED" => busSpeed[b] = "kernel"

(* gpioTerminate returns, although it joins threads that block in read or are in the    *)
(* program's function.                                                        *)
TerminateReturns == phase = "joining" ~> phase # "joining"
================================================================================
