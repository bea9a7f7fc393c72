----------------------------- MODULE PacketDecoder -----------------------------
(****************************************************************************)
(* The decoder as a machine: one packet arrives and is classified and        *)
(* decoded once, as in the RECEIVE case of UDPServerHandler::run.  The runs   *)
(* enumerate every byte pair, so the properties below hold of every packet.  *)
(****************************************************************************)
EXTENDS PacketCodec

CONSTANT Arrivals   \* the packets that may arrive

\* A packet is a sequence of bytes.
ASSUME DecoderAssumption == Arrivals \subseteq Seq(Byte)

VARIABLES packet,   \* the packet the event carries
          decoded   \* what the callbacks are given: a tagged record

decoderVars == <<packet, decoded>>

NotDecoded == [kind |-> "pending"]

DecoderInit == packet \in Arrivals /\ decoded = NotDecoded

DecodeAsMotion ==
    /\ decoded = NotDecoded
    /\ IsMotionPacket(packet)
    /\ decoded' = [kind |-> "motion", data |-> DecodeMotion(packet)]
    /\ UNCHANGED packet

DecodeAsMacro ==
    /\ decoded = NotDecoded
    /\ IsMacroPacket(packet)
    /\ decoded' = [kind |-> "macro", data |-> DecodeMacro(packet)]
    /\ UNCHANGED packet

Ignore ==
    /\ decoded = NotDecoded
    /\ ~ IsMotionPacket(packet)
    /\ ~ IsMacroPacket(packet)
    /\ decoded' = [kind |-> "ignored"]
    /\ UNCHANGED packet

DecoderNext == DecodeAsMotion \/ DecodeAsMacro \/ Ignore

DecoderSpec == DecoderInit /\ [][DecoderNext]_decoderVars
--------------------------------------------------------------------------------
Left(p)  == DecodeMotion(p).leftDrivePercent
Right(p) == DecodeMotion(p).rightDrivePercent

\* The duty cycle a decoded percentage ends up as, through onMotionUpdate and
\* setPercent.
DutyOf(percent) == DutyCycle(ClampPercent(DriveCommand(percent)))

\* The packet with both sign bits of the second byte flipped, and the packet
\* with the two nibbles of the second byte exchanged.
Reversed(p) ==
    LET signFlip(b, w) == IF HasBit(b, w) THEN -w ELSE w
    IN  <<p[1], p[2] + signFlip(p[2], 128) + signFlip(p[2], 8)>>
Mirrored(p) == <<p[1], ((p[2] % 16) * 16) + (p[2] \div 16)>>

\* Type invariant of the decoder: percentages stay inside the range that
\* setDrivePercent documents.  Of a macro's code it claims nothing: no callback
\* tells its value apart but for ESTOP, and the documents disagree on its range.
DecoderTypeOK ==
    /\ packet \in Arrivals
    /\ \/ decoded \in {NotDecoded, [kind |-> "ignored"]}
       \/ /\ decoded.kind = "motion"
          /\ decoded.data \in [leftDrivePercent : -100..100, rightDrivePercent : -100..100,
                               actuator1 : Motion, actuator2 : Motion]
       \/ /\ decoded.kind = "macro"
          /\ DOMAIN decoded.data = {"macro", "pressed", "data"}
          /\ decoded.data.pressed \in BOOLEAN
          /\ decoded.data.data \in Byte

\* Pulling both sticks back instead of pushing them forward reverses both
\* wheels exactly, down to the duty cycle: sign-bit decoding, the negation of
\* an unsigned magnitude and three truncating conversions cancel nothing.
ReversingIsExact ==
    decoded.kind = "motion" =>
        /\ Left(Reversed(packet)) = -decoded.data.leftDrivePercent
        /\ Right(Reversed(packet)) = -decoded.data.rightDrivePercent
        /\ DutyOf(Left(Reversed(packet))) - STOP_PWM
             = STOP_PWM - DutyOf(decoded.data.leftDrivePercent)

\* The two halves of the second byte mean the same for their wheel: exchanging
\* them exchanges the wheels and touches no actuator.
SidesAreMirrored ==
    decoded.kind = "motion" =>
        /\ Left(Mirrored(packet)) = decoded.data.rightDrivePercent
        /\ Right(Mirrored(packet)) = decoded.data.leftDrivePercent
        /\ DecodeMotion(Mirrored(packet)).actuator1 = decoded.data.actuator1
        /\ DecodeMotion(Mirrored(packet)).actuator2 = decoded.data.actuator2

\* Pushing the left stick one notch further never slows the wheel, and the
\* pipeline never leaves the duty cycles gpioPWM accepts: only the notches 0
\* and 1 leave the wheel at the stop pulse.
StickIsMonotone ==
    decoded.kind = "motion" =>
        LET notch == (packet[2] \div 16) % 8
            further == <<packet[1], packet[2] + 16>>
            speed(p) == DutyOf(Left(p)) - STOP_PWM
            sign == IF HasBit(packet[2], 128) THEN -1 ELSE 1
        IN  /\ GpioPwmAccepts(DutyOf(Left(packet)))
            /\ (speed(packet) = 0) <=> (notch <= 1)
            /\ (notch < 7) => sign * speed(further) >= sign * speed(packet)
================================================================================
