------------------------------ MODULE PacketCodec ------------------------------
(****************************************************************************)
(* How UDPServerHandler::run (src/server.hpp) reads a packet, a sequence of  *)
(* bytes: motion packets carry two stick positions and four buttons, macro   *)
(* packets a macro code.  Anything else is ignored.                          *)
(****************************************************************************)
EXTENDS DriveArithmetic, Sequences

Byte == 0..255

\* Is the bit of weight w (a power of two) set in b?
HasBit(b, w) == (b \div w) % 2 = 1

getActuatorMotion(a, b) ==
    IF a = b THEN "NONE" ELSE IF b THEN "RETRACTING" ELSE "EXTENDING"

IsMotionPacket(p) == Len(p) = 2 /\ ~ HasBit(p[1], 128)
IsMacroPacket(p)  == Len(p) \in {1, 2} /\ HasBit(p[1], 128)

\* Mistakes the runs must catch: scaling to a full 100 by rounding away from
\* zero at one end only, and by a factor that passes 100.
WheelPercentFloored(magnitude, isNegative) ==
    ((IF isNegative THEN -magnitude ELSE magnitude) * 1428) \div 100
WheelPercentTooLarge(magnitude, isNegative) ==
    (IF isNegative THEN -magnitude ELSE magnitude) * 15

\* Unsigned negation and the conversion back to int give -magnitude; the
\* product with 14.28 is cut toward zero (7 * 14.28 = 99.96 becomes 99).
WheelPercent(magnitude, isNegative) ==
    CTrunc((IF isNegative THEN -magnitude ELSE magnitude) * 1428, 100)

\* Mistakes: the wrong mask for the right wheel's sign, and one that loses the
\* top bit of the left magnitude.
DecodeMotionWrongSign(p) ==
    [ leftDrivePercent  |-> WheelPercent((p[2] \div 16) % 8, HasBit(p[2], 128)),
      rightDrivePercent |-> WheelPercent(p[2] % 8, HasBit(p[2], 128)),
      actuator1         |-> getActuatorMotion(HasBit(p[1], 16), HasBit(p[1], 64)),
      actuator2         |-> getActuatorMotion(HasBit(p[1], 8), HasBit(p[1], 32)) ]
DecodeMotionShortMask(p) ==
    [ leftDrivePercent  |-> WheelPercent((p[2] \div 16) % 4, HasBit(p[2], 128)),
      rightDrivePercent |-> WheelPercent(p[2] % 8, HasBit(p[2], 8)),
      actuator1         |-> getActuatorMotion(HasBit(p[1], 16), HasBit(p[1], 64)),
      actuator2         |-> getActuatorMotion(HasBit(p[1], 8), HasBit(p[1], 32)) ]

DecodeMotion(p) ==
    [ leftDrivePercent  |-> WheelPercent((p[2] \div 16) % 8, HasBit(p[2], 128)),
      rightDrivePercent |-> WheelPercent(p[2] % 8, HasBit(p[2], 8)),
      actuator1         |-> getActuatorMotion(HasBit(p[1], 16), HasBit(p[1], 64)),
      actuator2         |-> getActuatorMotion(HasBit(p[1], 8), HasBit(p[1], 32)) ]

DecodeMacro(p) ==
    [ macro   |-> (p[1] \div 4) % 32,
      pressed |-> HasBit(p[1], 2),
      data    |-> IF Len(p) = 2 THEN p[2] ELSE 0 ]

\* onMotionUpdate drives the wheels at a quarter of the decoded percentage;
\* the product with 0.25 is converted to the int parameter of setDrivePercent.
DriveCommand(percent) == CTrunc(percent, 4)
================================================================================
