-------------------------------- MODULE MCJetGpio --------------------------------
(* Pins 19 and 21 share a port of the Nano and belong to SPI channel 0, pin 33 has a   *)
(* PWM generator on both boards; bus 1 is a bus of both; the Orin's second channel  *)
(* has the number 2.                                                          *)
EXTENDS JetGpio

CONSTANT compass        \* a model value

\* Bound: the I2C buses, the levels and the functions of the pins do not touch each
\* other's registers, and one program uses one of the three; interrupts are watched on a
\* pin while no other pin is used.  At most three bits of pin_tracker are set.
UsesBuses == \E b \in Buses : i2c[b] # [state |-> "CLOSED", fd |-> "none", slave |-> "none"]
UsesPins == pin_tracker # {} \/ \E p \in DOMAIN pwm : pwm[p] # "boot"
UsesLevels == \E p \in Pins : IF board = "nano" THEN regs[p].out # 0 ELSE regs[p].vle # 0
UsesInterrupts == threads # <<>>

OneUse ==
    /\ UsesBuses => ~(UsesPins \/ UsesLevels \/ UsesInterrupts)
    /\ UsesLevels => ~(UsesPins \/ UsesInterrupts)
    /\ Cardinality(pin_tracker) <= 3
    /\ UsesInterrupts /\ UsesPins => pin_tracker \subseteq {Bit(p) : p \in IsrPins}

MCSpec == JetInit /\ [][JetNext /\ OneUse']_jetVars /\ JetFairness
==================================================================================
