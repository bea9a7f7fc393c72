---------------------------- MODULE MCPacketWay ------------------------------
(* What a motion packet goes through on its way from a browser to the motors,  *)
(* but for the host and the links: the forwarder, the decoder and the motors.  *)
(* They share no variable, so each is explored alone, by the part that the     *)
(* initial state picks; Robot joins the last two through the event loop.       *)
EXTENDS MotorControl, PacketDecoder, Forwarder

VARIABLE part   \* the part of the way that is explored

\* Percentages on both sides of the clamp that collide after it (100, 150),
\* that share a duty cycle with the stop (3), and both directions.
MCPercents == {-150, 3, 100, 150}

\* Every packet of two bytes, every packet of one byte, and packets of lengths
\* the server ignores.
MCArrivals == (Byte \X Byte) \cup {<<b>> : b \in Byte} \cup {<<b, 0, 0>> : b \in Byte}
                \cup {<<>>}

MCInit ==
    /\ MotorInit /\ DecoderInit /\ ForwarderInit
    /\ part \in {"forwarder", "decoder", "motors"}
    /\ part # "decoder" => packet = <<>>

MCNext ==
    /\ UNCHANGED part
    /\ \/ part = "forwarder" /\ ForwarderNext /\ UNCHANGED <<decoderVars, motorVars>>
       \/ part = "decoder" /\ DecoderNext /\ UNCHANGED <<forwarderVars, motorVars>>
       \/ part = "motors" /\ MotorNext /\ UNCHANGED <<forwarderVars, decoderVars>>

\* Only the forwarder's part has a liveness property, so only it is fair.
MCSpec ==
    /\ MCInit /\ [][MCNext]_<<part, forwarderVars, decoderVars, motorVars>>
    /\ ForwarderFairness
===============================================================================
