------------------------------ MODULE RobotProofs ------------------------------
(****************************************************************************)
(* Proofs about the robot's program, whatever the packets, however many the    *)
(* controllers: its decoder (PacketDecoder) is exact, its host keeps every       *)
(* promise of EnetHost, its motors every promise of MotorControl, and between   *)
(* them the board obeys the last motion packet.                               *)
(****************************************************************************)
EXTENDS Robot, PacketDecoder, EnetHostProofs, MotorControlProofs

--------------------------------------------------------------------------------
(* What a stick's notch becomes on its way to the wheel.                       *)

(* Truncation toward zero treats both directions alike.                        *)
LEMMA TruncationIsOdd ==
    ASSUME NEW a \in Int, NEW b \in {4, 100}
    PROVE  CTrunc(a, b) \in Int /\ CTrunc(-a, b) = -CTrunc(a, b)
  BY DEF CTrunc

(* The percentages of the eight notches, and the duty steps they end up as.      *)
NotchPercent == <<0, 14, 28, 42, 57, 71, 85, 99>>
NotchSpeed == <<0, 0, 1, 1, 2, 3, 3, 4>>

LEMMA NotchPercents ==
    ASSUME NEW notch \in 0..7
    PROVE  /\ NotchPercent[notch + 1] \in 0..99
           /\ WheelPercent(notch, FALSE) = NotchPercent[notch + 1]
           /\ WheelPercent(notch, TRUE) = -NotchPercent[notch + 1]
  <1>1. /\ NotchPercent[notch + 1] \in 0..99
        /\ CTrunc(notch * 1428, 100) = NotchPercent[notch + 1]
    BY DEF NotchPercent, CTrunc
  <1>2. CTrunc((-notch) * 1428, 100) = -CTrunc(notch * 1428, 100)
    <2>1. notch * 1428 \in Int /\ (-notch) * 1428 = -(notch * 1428)
      OBVIOUS
    <2>. QED
      BY <2>1, TruncationIsOdd
  <1>. QED
    BY <1>1, <1>2 DEF WheelPercent

LEMMA DutyIsOdd ==
    ASSUME NEW percent \in -99..99
    PROVE  DutyOf(percent) \in Int /\ DutyOf(-percent) - STOP_PWM = STOP_PWM - DutyOf(percent)
  <1>1. percent \in Int
    OBVIOUS
  <1>2. DriveCommand(percent) \in -24..24 /\ DriveCommand(-percent) = -DriveCommand(percent)
    BY <1>1, TruncationIsOdd DEF DriveCommand, CTrunc
  <1>3. \A c \in -24..24 : DutyCycle(ClampPercent(c)) = 57 + CTrunc(c * 19, 100)
    BY DEF DutyCycle, ClampPercent, STOP_PWM, NUM_PARTITIONS, FREQUENCY
  <1>4. -DriveCommand(percent) \in -24..24
    BY <1>2
  <1>5. DutyOf(percent) = 57 + CTrunc(DriveCommand(percent) * 19, 100)
    BY <1>2, <1>3 DEF DutyOf
  <1>6. DutyOf(-percent) = 57 + CTrunc((-DriveCommand(percent)) * 19, 100)
    BY <1>2, <1>3, <1>4 DEF DutyOf
  <1>7. /\ DriveCommand(percent) * 19 \in Int
        /\ (-DriveCommand(percent)) * 19 = -(DriveCommand(percent) * 19)
    BY <1>2
  <1>8. STOP_PWM = 57
    BY DEF STOP_PWM, FREQUENCY
  <1>9. /\ CTrunc(DriveCommand(percent) * 19, 100) \in Int
        /\ CTrunc(-(DriveCommand(percent) * 19), 100) = -CTrunc(DriveCommand(percent) * 19, 100)
    BY <1>7, TruncationIsOdd
  <1>. QED
    BY <1>5, <1>6, <1>7, <1>8, <1>9

LEMMA NotchSpeeds ==
    ASSUME NEW notch \in 0..7
    PROVE  DutyOf(NotchPercent[notch + 1]) - STOP_PWM = NotchSpeed[notch + 1]
  <1>1. /\ STOP_PWM = 57
        /\ \A c \in -24..24 : DutyCycle(ClampPercent(c)) = 57 + CTrunc(c * 19, 100)
    BY DEF DutyCycle, ClampPercent, STOP_PWM, NUM_PARTITIONS, FREQUENCY
  <1>2. DriveCommand(NotchPercent[notch + 1]) = <<0, 3, 7, 10, 14, 17, 21, 24>>[notch + 1]
    BY DEF DriveCommand, NotchPercent, CTrunc
  <1>3. CTrunc(<<0, 3, 7, 10, 14, 17, 21, 24>>[notch + 1] * 19, 100) = NotchSpeed[notch + 1]
    BY DEF NotchSpeed, CTrunc
  <1>4. <<0, 3, 7, 10, 14, 17, 21, 24>>[notch + 1] \in -24..24
    OBVIOUS
  <1>5. NotchSpeed[notch + 1] \in Int
    BY DEF NotchSpeed
  <1>. QED
    BY <1>1, <1>2, <1>3, <1>4, <1>5 DEF DutyOf


--------------------------------------------------------------------------------
(* The second byte: two sign bits and two notches.                            *)
SecondByte(ls, ln, rs, rn) == 128 * ls + 16 * ln + 8 * rs + rn

LEMMA BytesAreFields ==
    ASSUME NEW b \in Byte
    PROVE  \E ls, rs \in 0..1, ln, rn \in 0..7 : b = SecondByte(ls, ln, rs, rn)
  <1>1. /\ b \div 128 \in 0..1 /\ (b \div 16) % 8 \in 0..7
        /\ (b \div 8) % 2 \in 0..1 /\ b % 8 \in 0..7
    BY DEF Byte
  <1>2. b = SecondByte(b \div 128, (b \div 16) % 8, (b \div 8) % 2, b % 8)
    BY DEF Byte, SecondByte
  <1>. QED
    BY <1>1, <1>2

LEMMA FieldsOfByte ==
    ASSUME NEW ls \in 0..1, NEW rs \in 0..1, NEW ln \in 0..7, NEW rn \in 0..7
    PROVE  LET b == SecondByte(ls, ln, rs, rn)
           IN  /\ (b \div 16) % 8 = ln /\ b % 8 = rn
               /\ HasBit(b, 128) <=> ls = 1
               /\ HasBit(b, 8) <=> rs = 1
  BY DEF SecondByte, HasBit

(* The wheels' percentages, read from the fields.                              *)
Signed(s, notch) == IF s = 1 THEN -NotchPercent[notch + 1] ELSE NotchPercent[notch + 1]

LEMMA SignedRange ==
    ASSUME NEW s \in 0..1, NEW notch \in 0..7
    PROVE  /\ Signed(s, notch) \in -99..99
           /\ Signed(1 - s, notch) = -Signed(s, notch)
  BY NotchPercents DEF Signed

LEMMA WheelsOf ==
    ASSUME NEW ls \in 0..1, NEW rs \in 0..1, NEW ln \in 0..7, NEW rn \in 0..7,
           NEW p, p[2] = SecondByte(ls, ln, rs, rn)
    PROVE  /\ Left(p) = Signed(ls, ln) /\ Right(p) = Signed(rs, rn)
           /\ DecodeMotion(p).actuator1 = getActuatorMotion(HasBit(p[1], 16), HasBit(p[1], 64))
           /\ DecodeMotion(p).actuator2 = getActuatorMotion(HasBit(p[1], 8), HasBit(p[1], 32))
  <1>1. /\ Left(p) = WheelPercent((p[2] \div 16) % 8, HasBit(p[2], 128))
        /\ Right(p) = WheelPercent(p[2] % 8, HasBit(p[2], 8))
        /\ DecodeMotion(p).actuator1 = getActuatorMotion(HasBit(p[1], 16), HasBit(p[1], 64))
        /\ DecodeMotion(p).actuator2 = getActuatorMotion(HasBit(p[1], 8), HasBit(p[1], 32))
    BY DEF Left, Right, DecodeMotion
  <1>2. /\ (p[2] \div 16) % 8 = ln /\ p[2] % 8 = rn
        /\ HasBit(p[2], 128) = (ls = 1) /\ HasBit(p[2], 8) = (rs = 1)
    BY FieldsOfByte DEF HasBit
  <1>3. Left(p) = Signed(ls, ln)
    <2>1. CASE ls = 1
      BY <1>1, <1>2, <2>1, NotchPercents DEF Signed
    <2>2. CASE ls # 1
      BY <1>1, <1>2, <2>2, NotchPercents DEF Signed
    <2>. QED
      BY <2>1, <2>2
  <1>4. Right(p) = Signed(rs, rn)
    <2>1. CASE rs = 1
      BY <1>1, <1>2, <2>1, NotchPercents DEF Signed
    <2>2. CASE rs # 1
      BY <1>1, <1>2, <2>2, NotchPercents DEF Signed
    <2>. QED
      BY <2>1, <2>2
  <1>. QED
    BY <1>1, <1>3, <1>4

--------------------------------------------------------------------------------
(* What the decoder has been given, and what it made of it.                     *)
Decoded ==
    /\ packet \in Arrivals
    /\ \/ decoded \in {NotDecoded, [kind |-> "ignored"]}
       \/ IsMotionPacket(packet) /\ decoded = [kind |-> "motion", data |-> DecodeMotion(packet)]
       \/ IsMacroPacket(packet) /\ decoded = [kind |-> "macro", data |-> DecodeMacro(packet)]

LEMMA DecodedAlways == DecoderSpec => []Decoded
  <1>1. DecoderInit => Decoded
    BY DEF DecoderInit, Decoded
  <1>2. Decoded /\ [DecoderNext]_decoderVars => Decoded'
    <2>. SUFFICES ASSUME Decoded, [DecoderNext]_decoderVars PROVE Decoded'
      OBVIOUS
    <2>1. CASE DecodeAsMotion
      BY <2>1 DEF Decoded, DecodeAsMotion, IsMotionPacket
    <2>2. CASE DecodeAsMacro
      BY <2>2 DEF Decoded, DecodeAsMacro, IsMacroPacket
    <2>3. CASE Ignore
      BY <2>3 DEF Decoded, Ignore
    <2>4. CASE UNCHANGED decoderVars
      BY <2>4 DEF Decoded, decoderVars
    <2>. QED
      BY <2>1, <2>2, <2>3, <2>4 DEF DecoderNext
  <1>. QED
    BY <1>1, <1>2, PTL DEF DecoderSpec

(* A decoded motion packet, taken apart.                                      *)
LEMMA MotionFields ==
    ASSUME Decoded, decoded.kind = "motion"
    PROVE  /\ packet[1] \in Byte /\ packet[2] \in Byte
           /\ decoded = [kind |-> "motion", data |-> DecodeMotion(packet)]
           /\ decoded.data.leftDrivePercent = Left(packet)
           /\ decoded.data.rightDrivePercent = Right(packet)
           /\ \E ls, rs \in 0..1, ln, rn \in 0..7 : packet[2] = SecondByte(ls, ln, rs, rn)
  <1>1. /\ IsMotionPacket(packet)
        /\ decoded = [kind |-> "motion", data |-> DecodeMotion(packet)]
    BY DEF Decoded, NotDecoded
  <1>2. packet \in Seq(Byte) /\ Len(packet) = 2
    BY <1>1, DecoderAssumption DEF Decoded, IsMotionPacket
  <1>3. packet[1] \in Byte /\ packet[2] \in Byte
    BY <1>2
  <1>. QED
    BY <1>1, <1>3, BytesAreFields DEF Left, Right

LEMMA TypesOfDecoded == Decoded => DecoderTypeOK
  <1>. SUFFICES ASSUME Decoded PROVE DecoderTypeOK
    OBVIOUS
  <1>1. CASE decoded.kind = "motion"
    <2>1. PICK ls \in 0..1, rs \in 0..1, ln \in 0..7, rn \in 0..7 :
             packet[2] = SecondByte(ls, ln, rs, rn)
      BY <1>1, MotionFields
    <2>2. Left(packet) \in -100..100 /\ Right(packet) \in -100..100
      <3>1. Left(packet) = Signed(ls, ln) /\ Right(packet) = Signed(rs, rn)
        BY <2>1, WheelsOf
      <3>2. Signed(ls, ln) \in -99..99 /\ Signed(rs, rn) \in -99..99
        BY SignedRange
      <3>. QED
        BY <3>1, <3>2
    <2>3. \A a, b : getActuatorMotion(a, b) \in Motion
      BY DEF getActuatorMotion, Motion
    <2>4. decoded.data \in [leftDrivePercent : -100..100, rightDrivePercent : -100..100,
                            actuator1 : Motion, actuator2 : Motion]
      BY <1>1, <2>2, <2>3, MotionFields DEF Left, Right, DecodeMotion
    <2>. QED
      BY <1>1, <2>4 DEF DecoderTypeOK, Decoded
  <1>2. CASE decoded = [kind |-> "macro", data |-> DecodeMacro(packet)] /\ IsMacroPacket(packet)
    <2>1. /\ packet \in Seq(Byte) /\ Len(packet) \in {1, 2}
      BY <1>2, DecoderAssumption DEF Decoded, IsMacroPacket
    <2>2. packet[1] \in Byte /\ (Len(packet) = 2 => packet[2] \in Byte)
      BY <2>1
    <2>3. HasBit(packet[1], 2) \in BOOLEAN
      BY DEF HasBit
    <2>4. (IF Len(packet) = 2 THEN packet[2] ELSE 0) \in Byte
      BY <2>2 DEF Byte
    <2>. QED
      BY <1>2, <2>3, <2>4 DEF DecoderTypeOK, Decoded, DecodeMacro
  <1>3. CASE decoded \in {NotDecoded, [kind |-> "ignored"]}
    BY <1>3 DEF Decoded, DecoderTypeOK
  <1>. QED
    BY <1>1, <1>2, <1>3 DEF Decoded

(* A decoded packet's percentages stay inside -100..100 and its actuators get    *)
(* one of the three motions, whatever packets arrive.                            *)
THEOREM DecoderTypes == DecoderSpec => []DecoderTypeOK
  BY DecodedAlways, TypesOfDecoded, PTL

LEMMA Reversal == Decoded => ReversingIsExact
  <1>. SUFFICES ASSUME Decoded, decoded.kind = "motion"
                PROVE  /\ Left(Reversed(packet)) = -Left(packet)
                       /\ Right(Reversed(packet)) = -Right(packet)
                       /\ DutyOf(Left(Reversed(packet))) - STOP_PWM
                            = STOP_PWM - DutyOf(Left(packet))
    BY MotionFields DEF ReversingIsExact
  <1>1. PICK ls \in 0..1, rs \in 0..1, ln \in 0..7, rn \in 0..7 :
           packet[2] = SecondByte(ls, ln, rs, rn)
    BY MotionFields
  <1>2. /\ Reversed(packet)[1] = packet[1]
        /\ Reversed(packet)[2] = SecondByte(1 - ls, ln, 1 - rs, rn)
    <2>1. HasBit(packet[2], 128) = (ls = 1) /\ HasBit(packet[2], 8) = (rs = 1)
      BY <1>1, FieldsOfByte DEF HasBit
    <2>2. Reversed(packet) = <<packet[1], packet[2] + (IF ls = 1 THEN -128 ELSE 128)
                                             + (IF rs = 1 THEN -8 ELSE 8)>>
      BY <2>1 DEF Reversed
    <2>. QED
      BY <1>1, <2>2 DEF SecondByte
  <1>3. Left(packet) = Signed(ls, ln) /\ Right(packet) = Signed(rs, rn)
    BY <1>1, WheelsOf
  <1>4. 1 - ls \in 0..1 /\ 1 - rs \in 0..1
    OBVIOUS
  <1>5. Left(Reversed(packet)) = Signed(1 - ls, ln) /\ Right(Reversed(packet)) = Signed(1 - rs, rn)
    BY <1>2, <1>4, WheelsOf
  <1>. QED
    BY <1>3, <1>5, SignedRange, DutyIsOdd

(* Pulling back undoes pushing forward, down to the duty cycle.                  *)
THEOREM ReversalIsExact == DecoderSpec => []ReversingIsExact
  BY DecodedAlways, Reversal, PTL

LEMMA Mirroring == Decoded => SidesAreMirrored
  <1>. SUFFICES ASSUME Decoded, decoded.kind = "motion"
                PROVE  /\ Left(Mirrored(packet)) = Right(packet)
                       /\ Right(Mirrored(packet)) = Left(packet)
                       /\ DecodeMotion(Mirrored(packet)).actuator1 = DecodeMotion(packet).actuator1
                       /\ DecodeMotion(Mirrored(packet)).actuator2 = DecodeMotion(packet).actuator2
    BY MotionFields DEF SidesAreMirrored
  <1>1. PICK ls \in 0..1, rs \in 0..1, ln \in 0..7, rn \in 0..7 :
           packet[2] = SecondByte(ls, ln, rs, rn)
    BY MotionFields
  <1>2. Mirrored(packet)[1] = packet[1] /\ Mirrored(packet)[2] = SecondByte(rs, rn, ls, ln)
    BY <1>1 DEF Mirrored, SecondByte
  <1>3. /\ Left(packet) = Signed(ls, ln) /\ Right(packet) = Signed(rs, rn)
        /\ DecodeMotion(packet).actuator1
             = getActuatorMotion(HasBit(packet[1], 16), HasBit(packet[1], 64))
        /\ DecodeMotion(packet).actuator2
             = getActuatorMotion(HasBit(packet[1], 8), HasBit(packet[1], 32))
    BY <1>1, WheelsOf
  <1>4. /\ Left(Mirrored(packet)) = Signed(rs, rn) /\ Right(Mirrored(packet)) = Signed(ls, ln)
        /\ DecodeMotion(Mirrored(packet)).actuator1
             = getActuatorMotion(HasBit(packet[1], 16), HasBit(packet[1], 64))
        /\ DecodeMotion(Mirrored(packet)).actuator2
             = getActuatorMotion(HasBit(packet[1], 8), HasBit(packet[1], 32))
    <2>. DEFINE m == Mirrored(packet)
    <2>. HIDE DEF m
    <2>1. m[1] = packet[1] /\ m[2] = SecondByte(rs, rn, ls, ln)
      BY <1>2 DEF m
    <2>2. /\ Left(m) = Signed(rs, rn) /\ Right(m) = Signed(ls, ln)
          /\ DecodeMotion(m).actuator1 = getActuatorMotion(HasBit(m[1], 16), HasBit(m[1], 64))
          /\ DecodeMotion(m).actuator2 = getActuatorMotion(HasBit(m[1], 8), HasBit(m[1], 32))
      BY <2>1, WheelsOf
    <2>. QED
      BY <2>1, <2>2 DEF m
  <1>. QED
    BY <1>3, <1>4

(* The two halves of the second byte mean the same for their wheel.              *)
THEOREM MirroringIsExact == DecoderSpec => []SidesAreMirrored
  BY DecodedAlways, Mirroring, PTL

LEMMA Monotony == Decoded => StickIsMonotone
  <1>. SUFFICES ASSUME Decoded, decoded.kind = "motion" PROVE StickIsMonotone
    BY DEF StickIsMonotone
  <1>1. PICK ls \in 0..1, rs \in 0..1, ln \in 0..7, rn \in 0..7 :
           packet[2] = SecondByte(ls, ln, rs, rn)
    BY MotionFields
  <1>. DEFINE further == <<packet[1], packet[2] + 16>>
              speed(p) == DutyOf(Left(p)) - STOP_PWM
              signed(n) == IF ls = 1 THEN -NotchSpeed[n + 1] ELSE NotchSpeed[n + 1]
  <1>2. /\ (packet[2] \div 16) % 8 = ln /\ HasBit(packet[2], 128) = (ls = 1)
    BY <1>1, FieldsOfByte DEF HasBit
  <1>3. \A n \in 0..7 : NotchPercent[n + 1] \in -99..99 /\ NotchPercent[n + 1] \in Int
    BY NotchPercents
  <1>4. STOP_PWM = 57
    BY DEF STOP_PWM, FREQUENCY
  <1>5. ASSUME NEW n \in 0..7 PROVE DutyOf(Signed(ls, n)) - STOP_PWM = signed(n)
    <2>1. DutyOf(NotchPercent[n + 1]) \in Int
      BY <1>3, DutyIsOdd
    <2>2. DutyOf(-NotchPercent[n + 1]) - STOP_PWM = STOP_PWM - DutyOf(NotchPercent[n + 1])
      BY <1>3, DutyIsOdd
    <2>3. STOP_PWM - DutyOf(NotchPercent[n + 1]) = -NotchSpeed[n + 1]
      BY <1>4, <2>1, NotchSpeeds
    <2>. QED
      BY <2>2, <2>3, NotchSpeeds DEF Signed
  <1>6. speed(packet) = signed(ln)
    <2>1. Left(packet) = Signed(ls, ln)
      BY <1>1, WheelsOf
    <2>. QED
      BY <1>5, <2>1
  <1>7. ln < 7 => speed(further) = signed(ln + 1)
    <2>1. SUFFICES ASSUME ln < 7 PROVE speed(further) = signed(ln + 1)
      OBVIOUS
    <2>2. further[1] = packet[1] /\ further[2] = SecondByte(ls, ln + 1, rs, rn) /\ ln + 1 \in 0..7
      BY <1>1, <2>1 DEF SecondByte
    <2>3. Left(further) = Signed(ls, ln + 1)
      BY <2>2, WheelsOf
    <2>. QED
      BY <1>5, <2>2, <2>3
  <1>8. GpioPwmAccepts(DutyOf(Left(packet)))
    <2>1. Left(packet) \in -99..99
      <3>1. Left(packet) = Signed(ls, ln)
        BY <1>1, WheelsOf
      <3>. QED
        BY <3>1, SignedRange
    <2>2. DutyOf(Left(packet)) \in Int
      BY <2>1, DutyIsOdd
    <2>3. signed(ln) \in -4..4
      BY DEF NotchSpeed
    <2>. QED
      BY <1>4, <1>6, <2>2, <2>3 DEF GpioPwmAccepts
  <1>9. signed(ln) = 0 <=> ln <= 1
    BY DEF NotchSpeed
  <1>10. ln < 7 => (IF ls = 1 THEN -1 ELSE 1) * signed(ln + 1) >= (IF ls = 1 THEN -1 ELSE 1) * signed(ln)
    BY DEF NotchSpeed
  <1>. HIDE DEF further, speed, signed
  <1>11. /\ (IF HasBit(packet[2], 128) THEN -1 ELSE 1) = (IF ls = 1 THEN -1 ELSE 1)
    BY <1>2
  <1>12. ln < 7 => (IF HasBit(packet[2], 128) THEN -1 ELSE 1) * speed(further)
                      >= (IF HasBit(packet[2], 128) THEN -1 ELSE 1) * speed(packet)
    BY <1>6, <1>7, <1>10, <1>11
  <1>13. speed(packet) = 0 <=> ln <= 1
    BY <1>6, <1>9
  <1>. QED
    BY <1>2, <1>8, <1>12, <1>13 DEF StickIsMonotone, further, speed

(* One notch further never slows a wheel, and no packet asks for a duty cycle    *)
(* that gpioPWM refuses.                                                     *)
THEOREM MonotonyOfSticks == DecoderSpec => []StickIsMonotone
  BY DecodedAlways, Monotony, PTL

--------------------------------------------------------------------------------
(* What a motion packet can ask for.                                          *)
LEMMA WheelRange ==
    ASSUME NEW magnitude \in 0..7, NEW isNegative \in BOOLEAN
    PROVE  /\ WheelPercent(magnitude, isNegative) \in -99..99
           /\ DriveCommand(WheelPercent(magnitude, isNegative)) \in -24..24
  <1>1. WheelPercent(magnitude, isNegative) \in -99..99
    BY DEF WheelPercent, CTrunc
  <1>2. \A percent \in -99..99 : DriveCommand(percent) \in -24..24
    BY DEF DriveCommand, CTrunc
  <1>. QED
    BY <1>1, <1>2

LEMMA ByteFields ==
    ASSUME NEW b \in Byte
    PROVE  (b \div 16) % 8 \in 0..7 /\ b % 8 \in 0..7
  BY DEF Byte

LEMMA ActuatorRange ==
    ASSUME NEW a \in BOOLEAN, NEW b \in BOOLEAN
    PROVE  getActuatorMotion(a, b) \in Motion
  BY DEF getActuatorMotion, Motion

(* The data of a motion packet: no clamp changes the wheels' percentages.        *)
LEMMA MotionData ==
    ASSUME NEW m \in Payloads, IsMotionPacket(m)
    PROVE  /\ m # NoPacket
           /\ MotionPacketData[m] = DecodeMotion(m)
           /\ DriveCommand(MotionPacketData[m].leftDrivePercent) \in -24..24
           /\ DriveCommand(MotionPacketData[m].rightDrivePercent) \in -24..24
           /\ MotionPacketData[m].actuator1 \in Motion
           /\ MotionPacketData[m].actuator2 \in Motion
  <1>1. m \in Seq(Byte) /\ Len(m) = 2
    BY RobotAssumption DEF IsMotionPacket
  <1>2. m[1] \in Byte /\ m[2] \in Byte
    BY <1>1
  <1>3. m # NoPacket
    BY <1>1 DEF NoPacket
  <1>4. MotionPacketData[m] = DecodeMotion(m)
    BY DEF MotionPacketData
  <1>5. \A w : HasBit(m[1], w) \in BOOLEAN /\ HasBit(m[2], w) \in BOOLEAN
    BY DEF HasBit
  <1>6. /\ DriveCommand(DecodeMotion(m).leftDrivePercent) \in -24..24
        /\ DriveCommand(DecodeMotion(m).rightDrivePercent) \in -24..24
    <2>1. /\ DecodeMotion(m).leftDrivePercent = WheelPercent((m[2] \div 16) % 8, HasBit(m[2], 128))
          /\ DecodeMotion(m).rightDrivePercent = WheelPercent(m[2] % 8, HasBit(m[2], 8))
      BY DEF DecodeMotion
    <2>. QED
      BY <1>2, <1>5, <2>1, ByteFields, WheelRange
  <1>7. DecodeMotion(m).actuator1 \in Motion /\ DecodeMotion(m).actuator2 \in Motion
    <2>1. /\ DecodeMotion(m).actuator1 = getActuatorMotion(HasBit(m[1], 16), HasBit(m[1], 64))
          /\ DecodeMotion(m).actuator2 = getActuatorMotion(HasBit(m[1], 8), HasBit(m[1], 32))
      BY DEF DecodeMotion
    <2>. QED
      BY <1>5, <2>1, ActuatorRange
  <1>. QED
    BY <1>3, <1>4, <1>6, <1>7

LEMMA NoClamp == \A percent \in -24..24 : percent \in Int /\ ClampPercent(percent) = percent
  BY DEF ClampPercent

--------------------------------------------------------------------------------
(* The program's steps are steps of its host.                                 *)
LEMMA StepsOfHost == [RobotNext]_robotVars => [HostNext]_enetVars
  <1>1. CASE Start \/ DriveWheels \/ MoveActuators \/ MotorsRun
    BY <1>1 DEF Start, DriveWheels, MoveActuators, MotorsRun
  <1>2. CASE ServeNext \/ HostRuns \/ Exit \/ Others
    BY <1>2 DEF ServeNext, HostRuns, Exit, Others, HostNext
  <1>3. CASE UNCHANGED robotVars
    BY <1>3 DEF robotVars
  <1>. QED
    BY <1>1, <1>2, <1>3 DEF RobotNext, Thread

(* Seen from the network, the robot's program is a host that keeps calling        *)
(* enet_host_service: no callback of main.cpp disturbs it.                       *)
THEOREM RobotRunsHost == RobotSpec => HostSpec
  <1>1. RobotInit => HostInit
    BY DEF RobotInit
  <1>. QED
    BY <1>1, StepsOfHost, PTL DEF RobotSpec, HostSpec

(* Hence everything that is promised of the host and its links holds of the        *)
(* program.                                                                 *)
THEOREM RobotKeepsLinks ==
    RobotSpec => []HostInv /\ []NeverSleepsOnWork /\ ImplementsLinkEvents
  BY RobotRunsHost, HostInvariant, NeverSleeps, HostImplementsLinks, PTL

(* The host stands still while its caller has the event.                        *)
LEMMA HostStandsStill ==
    ASSUME phase = "returned"
    PROVE  ~HostStep /\ ~Fail
  <1>1. ~Dispatch
    BY DEF Dispatch, DispatchDone, DispatchReceive, DispatchZombie, DispatchSkip, Dispatching
  <1>2. ~SendOutgoing
    BY DEF SendOutgoing, SendDone, SendAcknowledgement, SendVerifyConnect, TimeOut, SendNothing,
           Sending
  <1>3. ~ReceiveIncoming
    BY DEF ReceiveIncoming, EndDatagram, ReceiveDone, ReceiveConnect, ReceiveDatagram,
           NextDatagram, HandleAcknowledge, HandleSendReliable, RefuseData, HandleDisconnect,
           Reading
  <1>4. ~Wait /\ ~Fail
    BY DEF Wait, Fail, NextDatagram
  <1>. QED
    BY <1>1, <1>2, <1>3, <1>4 DEF HostStep


--------------------------------------------------------------------------------
(* What the steps of the program preserve.                                    *)
IInv ==
    /\ HostInv /\ Inv
    /\ stage \in {"serving", "driven", "handled"}
    /\ lastMotion \in {NoPacket} \cup DOMAIN MotionPacketData
    /\ HandlesItsEvent
    /\ AsksForLastMotion
    /\ StartsFresh

LEMMA MotionPackets ==
    \A m : m \in DOMAIN MotionPacketData <=> m \in Payloads /\ IsMotionPacket(m)
  BY DEF MotionPacketData

(* The event's packet is one of the packets.                                  *)
LEMMA EventPacket == HostInv /\ Packet(event) => event.packet \in Payloads
  BY DEF HostInv, HostTypeOK, Events, NoEvent, Packet

(* Idle motors have returned from their last operation.                        *)
LEMMA IdleMotors == Idle => process = "running" /\ calls = <<>>
  BY DEF Idle

LEMMA RobotStarts == RobotInit => IInv
  <1> SUFFICES ASSUME RobotInit PROVE IInv
    OBVIOUS
  <1>1. HostInv /\ Inv
    BY Started, InitInv DEF RobotInit
  <1>. QED
    BY <1>1 DEF RobotInit, MotorInit, IInv, HandlesItsEvent, AsksForLastMotion, StartsFresh

LEMMA WheelsDriven == ASSUME IInv, HostInv', DriveWheels PROVE IInv'
  <1> DEFINE data == MotionPacketData[event.packet]
             leftWheel == DriveCommand(data.leftDrivePercent)
             rightWheel == DriveCommand(data.rightDrivePercent)
  <1>1. /\ Idle /\ MotionReceived
        /\ IF motors = "MotorController" THEN setDrivePercent(leftWheel, rightWheel) ELSE ReturnFalse
        /\ stage' = "driven" /\ lastMotion' = event.packet
        /\ event' = event /\ phase' = phase
    BY DEF DriveWheels, enetVars, callVars
  <1>2. /\ event.packet \in Payloads /\ IsMotionPacket(event.packet)
        /\ phase = "returned" /\ Packet(event)
    BY <1>1, EventPacket DEF MotionReceived, IInv
  <1>3. leftWheel \in Int /\ rightWheel \in Int
    BY <1>2, MotionData, NoClamp
  <1> HIDE DEF leftWheel, rightWheel
  <1>4. Inv'
    BY <1>1, <1>3, SetDrivePercentInv, ReturnFalseInv DEF IInv
  <1>5. process' = "running" /\ motors' = motors
    BY <1>1 DEF setDrivePercent, Issue, ReturnFalse, Idle
  <1>6. lastMotion' \in DOMAIN MotionPacketData
    BY <1>1, <1>2, MotionPackets
  <1>7. HandlesItsEvent'
    BY <1>1, <1>2 DEF HandlesItsEvent, Packet
  <1>8. AsksForLastMotion'
    <2> SUFFICES ASSUME motors = "MotorController"
                 PROVE  wantPercent'[LEFT_PIN] = leftWheel /\ wantPercent'[RIGHT_PIN] = rightWheel
      BY <1>1, <1>5 DEF AsksForLastMotion, leftWheel, rightWheel
    <2>1. wantPercent \in [Drives -> Int] /\ LEFT_PIN # RIGHT_PIN
      BY DEF IInv, Inv, TypeOK, LEFT_PIN, RIGHT_PIN
    <2>. QED
      BY <1>1, <2>1 DEF setDrivePercent, Drives
  <1>. QED
    BY <1>1, <1>4, <1>5, <1>6, <1>7, <1>8 DEF IInv, StartsFresh

LEMMA ActuatorsMoved == ASSUME IInv, HostInv', MoveActuators PROVE IInv'
  <1> DEFINE data == MotionPacketData[event.packet]
             m1 == data.actuator1
             m2 == data.actuator2
  <1>1. /\ Idle /\ stage = "driven"
        /\ IF motors = "MotorController" THEN setActuators(m1, m2, FALSE) ELSE ReturnFalse
        /\ stage' = "handled" /\ lastMotion' = lastMotion
        /\ event' = event /\ phase' = phase
    BY DEF MoveActuators, enetVars, callVars
  <1>2. /\ event.packet \in Payloads /\ IsMotionPacket(event.packet)
        /\ phase = "returned" /\ Packet(event) /\ lastMotion = event.packet
    BY <1>1, EventPacket DEF HandlesItsEvent, IInv
  <1>3. m1 \in Motion /\ m2 \in Motion
    BY <1>2, MotionData
  <1> HIDE DEF m1, m2
  <1>4. Inv'
    BY <1>1, <1>3, SetActuatorsInv, ReturnFalseInv DEF IInv
  <1>5. process' = "running" /\ motors' = motors
    BY <1>1 DEF setActuators, Issue, ReturnFalse, Idle
  <1>6. HandlesItsEvent'
    BY <1>1, <1>2 DEF HandlesItsEvent, Packet
  <1>7. AsksForLastMotion'
    <2> SUFFICES ASSUME motors = "MotorController"
                 PROVE  /\ wantPercent' = wantPercent
                        /\ wantMotion'[1] = m1 /\ wantMotion'[2] = m2
      BY <1>1, <1>2, <1>5 DEF AsksForLastMotion, IInv, m1, m2
    <2>. QED
      BY <1>1 DEF setActuators
  <1>. QED
    BY <1>1, <1>4, <1>5, <1>6, <1>7 DEF IInv, StartsFresh

LEMMA LoopGoesRound == ASSUME IInv, HostInv', ServeNext PROVE IInv'
  <1>1. /\ Idle /\ stage # "driven" /\ stage' = "serving"
        /\ UNCHANGED motorVars /\ lastMotion' = lastMotion
    BY DEF ServeNext
  <1>2. Inv'
    BY <1>1, StutterInv DEF IInv
  <1>3. UNCHANGED <<process, motors, calls, wantPercent, wantMotion>>
    BY <1>1 DEF motorVars, objects, wants
  <1>4. HandlesItsEvent' /\ AsksForLastMotion' /\ StartsFresh'
    BY <1>1, <1>3, IdleMotors DEF IInv, HandlesItsEvent, AsksForLastMotion, StartsFresh
  <1>. QED
    BY <1>1, <1>2, <1>4 DEF IInv

(* The host and the other ends touch nothing of the motors, and no event that is     *)
(* being handled.                                                           *)
LEMMA NetworkRuns == ASSUME IInv, HostInv', HostRuns \/ Others PROVE IInv'
  <1>1. UNCHANGED motorVars /\ UNCHANGED <<stage, lastMotion>>
    BY DEF HostRuns, Others
  <1>2. Inv'
    BY <1>1, StutterInv DEF IInv
  <1>3. UNCHANGED <<process, motors, calls, wantPercent, wantMotion>>
    BY <1>1 DEF motorVars, objects, wants
  <1>4. stage # "serving" => event' = event /\ phase' = phase
    <2>1. CASE HostRuns
      BY <2>1, HostStandsStill DEF HostRuns, IInv, HandlesItsEvent
    <2>2. CASE Others
      BY <2>2 DEF Others, RemoteStep, RemoteAcknowledge, RemoteLeave, RemoteSend, callVars
    <2>. QED
      BY <2>1, <2>2
  <1>5. HandlesItsEvent' /\ AsksForLastMotion' /\ StartsFresh'
    BY <1>1, <1>3, <1>4 DEF IInv, HandlesItsEvent, AsksForLastMotion, StartsFresh, Packet
  <1>. QED
    BY <1>1, <1>2, <1>5 DEF IInv

LEMMA RegistersWritten == ASSUME IInv, HostInv', MotorsRun PROVE IInv'
  <1>1. LibraryCall /\ UNCHANGED <<stage, lastMotion, event, phase>>
    BY DEF MotorsRun, enetVars, callVars
  <1>2. Inv'
    BY <1>1, ConstructorCallInv, setPercentInv, gpioWriteInv DEF IInv, LibraryCall
  <1>3. /\ UNCHANGED <<process, motors, wantPercent, wantMotion>>
        /\ calls = <<>> => calls' = <<>>
    BY <1>1 DEF LibraryCall, ConstructorCall, setPercent, gpioWrite, wants
  <1>4. HandlesItsEvent' /\ AsksForLastMotion' /\ StartsFresh'
    BY <1>1, <1>3 DEF IInv, HandlesItsEvent, AsksForLastMotion, StartsFresh, Packet
  <1>. QED
    BY <1>1, <1>2, <1>4 DEF IInv

LEMMA ProgramStartsAndEnds == ASSUME IInv, HostInv', Start \/ Exit PROVE IInv'
  <1>1. CASE Start
    <2>1. getMotorContoller /\ UNCHANGED <<stage, lastMotion, event, phase>>
      BY <1>1 DEF Start, enetVars, callVars
    <2>2. Inv'
      BY <2>1, StartInv DEF IInv
    <2>3. process = "down" /\ process' = "running" /\ calls' = calls
      BY <2>1 DEF getMotorContoller
    <2>4. HandlesItsEvent' /\ AsksForLastMotion' /\ StartsFresh'
      BY <2>1, <2>3 DEF IInv, HandlesItsEvent, AsksForLastMotion, StartsFresh, Packet
    <2>. QED
      BY <2>1, <2>2, <2>4 DEF IInv
  <1>2. CASE Exit
    <2>1. Die /\ stage' = "serving" /\ lastMotion' = NoPacket
      BY <1>2 DEF Exit
    <2>2. Inv'
      BY <2>1, DieInv DEF IInv
    <2>3. calls' = <<>>
      BY <2>1 DEF Die
    <2>4. HandlesItsEvent' /\ AsksForLastMotion' /\ StartsFresh'
      BY <2>1, <2>3 DEF HandlesItsEvent, AsksForLastMotion, StartsFresh
    <2>. QED
      BY <2>1, <2>2, <2>4 DEF IInv
  <1>. QED
    BY <1>1, <1>2

LEMMA RobotSteps == ASSUME IInv, [RobotNext]_robotVars PROVE IInv'
  <1>1. HostInv'
    BY StepsOfHost, HostSteps DEF IInv
  <1>2. CASE UNCHANGED robotVars
    <2>1. UNCHANGED motorVars /\ UNCHANGED <<stage, lastMotion, event, phase>>
      BY <1>2 DEF robotVars, enetVars, callVars
    <2>2. Inv'
      BY <2>1, StutterInv DEF IInv
    <2>3. UNCHANGED <<process, motors, calls, wantPercent, wantMotion>>
      BY <2>1 DEF motorVars, objects, wants
    <2>4. HandlesItsEvent' /\ AsksForLastMotion' /\ StartsFresh'
      BY <2>1, <2>3 DEF IInv, HandlesItsEvent, AsksForLastMotion, StartsFresh, Packet
    <2>. QED
      BY <1>1, <2>1, <2>2, <2>4 DEF IInv
  <1>. QED
    BY <1>1, <1>2, WheelsDriven, ActuatorsMoved, LoopGoesRound, NetworkRuns, RegistersWritten,
       ProgramStartsAndEnds DEF RobotNext, Thread

(* Ready motors that were asked for the last motion packet show it.              *)
LEMMA AskedIsShown == IInv => ObeysLastMotion
  <1> SUFFICES ASSUME IInv, Ready, stage # "driven", lastMotion # NoPacket
               PROVE  Shows(lastMotion)
    BY DEF ObeysLastMotion
  <1> DEFINE data == MotionPacketData[lastMotion]
  <1>1. lastMotion \in Payloads /\ IsMotionPacket(lastMotion)
    BY MotionPackets DEF IInv
  <1>2. /\ wantPercent[LEFT_PIN]  = DriveCommand(data.leftDrivePercent)
        /\ wantPercent[RIGHT_PIN] = DriveCommand(data.rightDrivePercent)
        /\ wantMotion[1] = data.actuator1 /\ wantMotion[2] = data.actuator2
    BY DEF IInv, AsksForLastMotion, Ready
  <1>3. /\ ClampPercent(DriveCommand(data.leftDrivePercent)) = DriveCommand(data.leftDrivePercent)
        /\ ClampPercent(DriveCommand(data.rightDrivePercent)) = DriveCommand(data.rightDrivePercent)
        /\ data.actuator1 # "UNSET" /\ data.actuator2 # "UNSET"
    BY <1>1, MotionData, NoClamp DEF Motion
  <1>4. /\ \A d \in Drives : duty[d] = DutyCycle(ClampPercent(wantPercent[d]))
        /\ \A a \in Actuators : wantMotion[a] # "UNSET" => MotionOf(a) = wantMotion[a]
    BY ReadyOutputs DEF IInv, OutputsFollowCommands
  <1>5. LEFT_PIN \in Drives /\ RIGHT_PIN \in Drives /\ 1 \in Actuators /\ 2 \in Actuators
    BY DEF Drives, Actuators
  <1> HIDE DEF data
  <1>6. /\ duty[LEFT_PIN]  = DutyCycle(DriveCommand(data.leftDrivePercent))
        /\ duty[RIGHT_PIN] = DutyCycle(DriveCommand(data.rightDrivePercent))
        /\ MotionOf(1) = data.actuator1 /\ MotionOf(2) = data.actuator2
    BY <1>2, <1>3, <1>4, <1>5
  <1>. QED
    BY <1>6 DEF Shows, data

(* Whatever bytes the controllers send, in whatever order they connect, vanish and    *)
(* come back, and wherever the program died before: whenever its loop asks for the     *)
(* next event, the board shows the last motion packet, whole.                  *)
THEOREM RobotObeys == RobotSpec => []RobotInv
  <1>1. RobotInit => IInv
    BY RobotStarts
  <1>2. IInv /\ [RobotNext]_robotVars => IInv'
    BY RobotSteps
  <1>3. IInv => RobotInv
    BY AskedIsShown DEF IInv, RobotInv, RobotTypeOK, HostInv, Inv
  <1>. QED
    BY <1>1, <1>2, <1>3, PTL DEF RobotSpec


--------------------------------------------------------------------------------
(* Only the motors' own calls and the start-up write registers.                 *)
LEMMA RegistersRest ==
    ASSUME IInv, [RobotNext]_robotVars, ~MotorsRun
    PROVE  /\ duty' = duty
           /\ \A a \in Actuators : MotionOf(a)' = MotionOf(a)
  <1>1. duty' = duty /\ level' = level /\ outputs' = outputs
    <2>1. CASE Start \/ Exit
      BY <2>1 DEF Start, Exit, getMotorContoller, Die, registers
    <2>2. CASE DriveWheels \/ MoveActuators
      BY <2>2 DEF DriveWheels, MoveActuators, setDrivePercent, setActuators, ReturnFalse, Issue,
                  registers
    <2>3. CASE ServeNext \/ HostRuns \/ Others \/ UNCHANGED robotVars
      BY <2>3 DEF ServeNext, HostRuns, Others, robotVars, motorVars, registers
    <2>. QED
      BY <2>1, <2>2, <2>3 DEF RobotNext, Thread
  <1>2. \A p : Signal(p)' <=> Signal(p)
    BY <1>1 DEF Signal
  <1>. QED
    BY <1>1, <1>2, SameSignals

(* A call that the motors still owe is owed to the packet being handled.          *)
LEMMA CallsServeThePacket ==
    ASSUME IInv, calls # <<>>
    PROVE  /\ Handling(lastMotion) /\ motors = "MotorController"
           /\ lastMotion \in Payloads /\ IsMotionPacket(lastMotion)
           /\ Head(calls) = calls[1] /\ 1 \in 1..Len(calls)
  <1>1. stage \in {"driven", "handled"} /\ Packet(event) /\ lastMotion = event.packet
        /\ IsMotionPacket(lastMotion)
    BY DEF IInv, HandlesItsEvent
  <1>2. lastMotion \in Payloads
    BY <1>1, EventPacket DEF IInv
  <1>3. calls \in Seq(Call)
    BY DEF IInv, Inv, TypeOK
  <1>4. Head(calls) = calls[1] /\ 1 \in 1..Len(calls)
    BY <1>3, EmptySeq, HeadTailProperties
  <1>. QED
    BY <1>1, <1>2, <1>4, CallsNeedReady DEF Handling, IInv

(* A wheel is given what the packet asks for.                                  *)
LEMMA WheelsServeThePacket ==
    ASSUME IInv, setPercent, NEW d \in Drives, duty'[d] # duty[d]
    PROVE  duty'[d] = DutyCycle(DriveCommand(
                                    IF d = LEFT_PIN
                                    THEN MotionPacketData[lastMotion].leftDrivePercent
                                    ELSE MotionPacketData[lastMotion].rightDrivePercent))
  <1> DEFINE pin == Head(calls).pin
             percent == ClampPercent(Head(calls).value)
             asked == DriveCommand(IF d = LEFT_PIN
                                   THEN MotionPacketData[lastMotion].leftDrivePercent
                                   ELSE MotionPacketData[lastMotion].rightDrivePercent)
  <1>1. /\ calls # <<>> /\ Head(calls).op = "percent"
        /\ duty' = duty \/ duty' = [duty EXCEPT ![pin] = DutyCycle(percent)]
    BY DEF setPercent, gpioPWM, registers
  <1>2. /\ Head(calls) = calls[1] /\ 1 \in 1..Len(calls) /\ motors = "MotorController"
        /\ lastMotion \in Payloads /\ IsMotionPacket(lastMotion)
    BY <1>1, CallsServeThePacket
  <1>3. Head(calls).value = wantPercent[pin]
    BY <1>1, <1>2 DEF IInv, Inv, CallsAgree
  <1>4. duty \in [Drives -> 0..256]
    BY DEF IInv, Inv, TypeOK
  <1>5. d = pin /\ duty'[d] = DutyCycle(percent)
    BY <1>1, <1>4
  <1>6. wantPercent[d] = asked
    <2>1. lastMotion # NoPacket
      BY <1>2, MotionData
    <2>. QED
      BY <1>2, <2>1 DEF IInv, AsksForLastMotion, Drives
  <1>7. ClampPercent(asked) = asked
    BY <1>2, MotionData, NoClamp
  <1> HIDE DEF asked
  <1>8. percent = asked
    BY <1>3, <1>5, <1>6, <1>7
  <1>. QED
    BY <1>5, <1>8 DEF asked

(* Any step may stop a wheel or an actuator of a started board; only a step of the   *)
(* motion packet being handled sets one in motion, and as that packet asks.        *)
THEOREM NothingMovesUnasked == RobotSpec => UnaskedMovesNothing
  <1> DEFINE Asked ==
        built = Len(Construct) /\ process' = "running" =>
          /\ \A d \in Drives : duty'[d] # duty[d] =>
                \/ duty'[d] = STOP_PWM
                \/ /\ Handling(lastMotion)
                   /\ duty'[d] = DutyCycle(DriveCommand(
                                    IF d = LEFT_PIN
                                    THEN MotionPacketData[lastMotion].leftDrivePercent
                                    ELSE MotionPacketData[lastMotion].rightDrivePercent))
          /\ \A a \in Actuators : MotionOf(a)' \notin {MotionOf(a), "NONE"} =>
                Handling(lastMotion) /\ MovesAsCommanded(a)
  <1>1. IInv /\ [RobotNext]_robotVars => [Asked]_robotVars
    <2> SUFFICES ASSUME IInv, RobotNext, built = Len(Construct) PROVE Asked
      OBVIOUS
    <2>1. CASE ~MotorsRun
      BY <2>1, RegistersRest
    <2>2. CASE MotorsRun /\ setPercent
      <3>1. Handling(lastMotion)
        BY <2>2, CallsServeThePacket DEF setPercent
      <3>2. \A a \in Actuators : MotionOf(a)' = MotionOf(a)
        BY <2>2, OthersMoveNothing
      <3>. QED
        BY <2>2, <3>1, <3>2, WheelsServeThePacket
    <2>3. CASE MotorsRun /\ gpioWrite
      <3>1. Handling(lastMotion)
        BY <2>3, CallsServeThePacket DEF gpioWrite
      <3>2. duty' = duty
        BY <2>3 DEF gpioWrite
      <3>3. \A a \in Actuators : MovesAsCommanded(a)
        BY <2>3, WriteMovesAsCommanded DEF MovesAsCommanded, IInv
      <3>. QED
        BY <3>1, <3>2, <3>3
    <2>4. CASE MotorsRun /\ ConstructorCall
      BY <2>4, ConstructOrder DEF ConstructorCall
    <2>. QED
      BY <2>1, <2>2, <2>3, <2>4 DEF MotorsRun, LibraryCall
  <1>2. RobotInit => IInv
    BY RobotStarts
  <1>3. IInv /\ [RobotNext]_robotVars => IInv'
    BY RobotSteps
  <1>. QED
    BY <1>1, <1>2, <1>3, PTL DEF RobotSpec, UnaskedMovesNothing
================================================================================
