---------------------------- MODULE DriveArithmetic ----------------------------
(****************************************************************************)
(* The integer arithmetic between a wheel percentage and the duty cycle a   *)
(* PWM pin is given (src/motor.hpp, class PWMDriveMotor).  The module has no *)
(* variables: the motor model, the packet decoder and their proofs share it. *)
(****************************************************************************)
EXTENDS Integers

\* enum ActuatorMotion.
Motion == {"NONE", "RETRACTING", "EXTENDING"}

\* C's division and its double-to-int conversion round toward zero, TLA+'s
\* \div rounds down.  All operands here are far inside 32 bits.
CTrunc(a, b) == IF a >= 0 THEN a \div b ELSE -((-a) \div b)

FREQUENCY == 150

\* int(0.0015 * FREQUENCY * 256) = 57: a 1.5 ms pulse holds the wheel still.
STOP_PWM == (15 * FREQUENCY * 256) \div 10000

\* int(0.0005 * FREQUENCY * 256) = 19: duty steps from stop to full speed.
NUM_PARTITIONS == (5 * FREQUENCY * 256) \div 10000

\* The clamp at the head of setPercent.
ClampPercent(percent) ==
    IF percent > 100 THEN 100 ELSE IF percent < -100 THEN -100 ELSE percent

\* The duty cycle setPercent writes for a clamped percentage.
DutyCycle(percent) == STOP_PWM + CTrunc(percent * NUM_PARTITIONS, 100)

\* gpioPWM refuses any other duty cycle with a negative status.
GpioPwmAccepts(dutycycle) == dutycycle \in 0..256
================================================================================
