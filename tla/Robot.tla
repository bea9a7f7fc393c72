--------------------------------- MODULE Robot ---------------------------------
(****************************************************************************)
(* The robot's program (src/main.cpp): the event loop UDPServerHandler::run    *)
(* over the ENet host, and the callbacks that turn the packets it receives      *)
(* into operations of the motors.  One thread does it all: while a callback     *)
(* runs, the host does not, and the other ends go on.                         *)
(****************************************************************************)
EXTENDS EnetHost, MotorControl, PacketCodec

(* A packet is a sequence of bytes.                                           *)
ASSUME RobotAssumption == Payloads \subseteq Seq(Byte)

VARIABLES
    stage,      \* "serving", or how far onMotionUpdate is with the event's packet
    lastMotion  \* ghost: the last motion packet handled since the program started

robotVars == <<enetVars, motorVars, stage, lastMotion>>

NoPacket == <<>>

(* What run makes of a motion packet before it calls onMotionUpdate.             *)
MotionPacketData == [m \in {m \in Payloads : IsMotionPacket(m)} |-> DecodeMotion(m)]

RobotInit == HostInit /\ MotorInit /\ stage = "serving" /\ lastMotion = NoPacket

(* main has been reached, with the motors constructed, and no operation of theirs  *)
(* is under way.                                                            *)
Idle == process = "running" /\ calls = <<>>
            /\ (motors = "SimulatedMotorController" \/ Ready)

(* The motion packet that run has just been given and has not yet looked at.     *)
MotionReceived ==
    /\ phase = "returned" /\ Packet(event) /\ IsMotionPacket(event.packet)
    /\ stage = "serving"

\* Mistakes: the two wheels, or the two actuators, exchanged.
DriveWheelsExchanged ==
    /\ Idle /\ MotionReceived
    /\ LET data == MotionPacketData[event.packet]
       IN  IF motors = "MotorController"
           THEN setDrivePercent(DriveCommand(data.rightDrivePercent),
                                DriveCommand(data.leftDrivePercent))
           ELSE ReturnFalse
    /\ stage' = "driven"
    /\ lastMotion' = event.packet
    /\ UNCHANGED enetVars
MoveActuatorsExchanged ==
    /\ Idle /\ stage = "driven"
    /\ LET data == MotionPacketData[event.packet]
       IN  IF motors = "MotorController"
           THEN setActuators(data.actuator2, data.actuator1, FALSE)
           ELSE ReturnFalse
    /\ stage' = "handled"
    /\ UNCHANGED <<enetVars, lastMotion>>

(* onMotionUpdate, its first call.                                           *)
DriveWheels ==
    /\ Idle /\ MotionReceived
    /\ LET data == MotionPacketData[event.packet]
       IN  IF motors = "MotorController"
           THEN setDrivePercent(DriveCommand(data.leftDrivePercent),
                                DriveCommand(data.rightDrivePercent))
           ELSE ReturnFalse
    /\ stage' = "driven"
    /\ lastMotion' = event.packet
    /\ UNCHANGED enetVars

(* onMotionUpdate, its second call.                                          *)
MoveActuators ==
    /\ Idle /\ stage = "driven"
    /\ LET data == MotionPacketData[event.packet]
       IN  IF motors = "MotorController"
           THEN setActuators(data.actuator1, data.actuator2, FALSE)
           ELSE ReturnFalse
    /\ stage' = "handled"
    /\ UNCHANGED <<enetVars, lastMotion>>

\* A mistake: run goes round while the motors are still being written to.
ServeNextUnwaited ==
    /\ process = "running" /\ (motors = "SimulatedMotorController" \/ built = Len(Construct))
    /\ ~ MotionReceived /\ stage # "driven"
    /\ Service
    /\ stage' = "serving"
    /\ UNCHANGED <<motorVars, lastMotion>>

\* A mistake: run goes round before it has looked at the packet of the event.
ServeNextEarly ==
    /\ Idle /\ stage # "driven"
    /\ Service
    /\ stage' = "serving"
    /\ UNCHANGED <<motorVars, lastMotion>>

(* run goes round.  onMacro, and the DISCONNECT case, do nothing to the motors.   *)
ServeNext ==
    /\ Idle /\ ~ MotionReceived /\ stage # "driven"
    /\ Service
    /\ stage' = "serving"
    /\ UNCHANGED <<motorVars, lastMotion>>

HostRuns ==
    /\ Idle
    /\ HostStep \/ Fail
    /\ UNCHANGED <<motorVars, stage, lastMotion>>

MotorsRun ==
    /\ LibraryCall
    /\ UNCHANGED <<enetVars, stage, lastMotion>>

Start ==
    /\ getMotorContoller
    /\ UNCHANGED <<enetVars, stage, lastMotion>>

(* The program is killed, cannot create its host, or leaves main because run has   *)
(* returned; the registers of the board stay as they are.                    *)
Exit ==
    /\ Die
    /\ HostRestart
    /\ stage' = "serving"
    /\ lastMotion' = NoPacket

Others ==
    /\ RemoteStep
    /\ UNCHANGED <<motorVars, stage, lastMotion>>

Thread == DriveWheels \/ MoveActuators \/ ServeNext \/ HostRuns \/ MotorsRun

RobotNext == Start \/ Thread \/ Exit \/ Others

RobotSpec == RobotInit /\ [][RobotNext]_robotVars

(* The program's thread runs on.                                              *)
FairRobotSpec == RobotSpec /\ WF_robotVars(Thread)
--------------------------------------------------------------------------------
(* Type invariant of the composition.                                        *)
RobotTypeOK ==
    /\ HostTypeOK /\ TypeOK
    /\ stage \in {"serving", "driven", "handled"}
    /\ lastMotion \in {NoPacket} \cup DOMAIN MotionPacketData

(* A packet that is being handled is the one of the event the host has returned,    *)
(* and the motors have something to do only for its sake.                     *)
HandlesItsEvent ==
    /\ stage # "serving" =>
          /\ phase = "returned" /\ Packet(event) /\ IsMotionPacket(event.packet)
          /\ lastMotion = event.packet
    /\ calls # <<>> => stage # "serving"

(* The motors have been asked for the last motion packet, and once it is handled,    *)
(* for all of it.                                                            *)
AsksForLastMotion ==
    motors = "MotorController" /\ lastMotion # NoPacket =>
        LET data == MotionPacketData[lastMotion]
        IN  /\ wantPercent[LEFT_PIN]  = DriveCommand(data.leftDrivePercent)
            /\ wantPercent[RIGHT_PIN] = DriveCommand(data.rightDrivePercent)
            /\ stage # "driven" => /\ wantMotion[1] = data.actuator1
                                   /\ wantMotion[2] = data.actuator2

(* A program that is not running has handled nothing.                         *)
StartsFresh == process = "down" => stage = "serving" /\ lastMotion = NoPacket

(* The outputs a motion packet asks for: the wheels at a quarter of the stick's    *)
(* percentage, the actuators as the buttons say.                             *)
Shows(packet) ==
    LET data == MotionPacketData[packet]
    IN  /\ duty[LEFT_PIN]  = DutyCycle(DriveCommand(data.leftDrivePercent))
        /\ duty[RIGHT_PIN] = DutyCycle(DriveCommand(data.rightDrivePercent))
        /\ MotionOf(1) = data.actuator1
        /\ MotionOf(2) = data.actuator2

(* Whenever the loop is ready for its next event, the board shows the last motion  *)
(* packet that was received, whole, whichever peer sent it, however many          *)
(* peers, macros and disconnections came since.                              *)
ObeysLastMotion ==
    Ready /\ stage # "driven" /\ ~ MotionReceived /\ lastMotion # NoPacket
        => Shows(lastMotion)

(* The robot is well formed and obeys the last motion packet (main.cpp's onMotion).   *)
RobotInv ==
    /\ RobotTypeOK
    /\ HandlesItsEvent
    /\ AsksForLastMotion
    /\ StartsFresh
    /\ ObeysLastMotion

(* Once it has been started, the board's outputs change in three ways only: a wheel  *)
(* takes the stop pulse, or the duty cycle that the motion packet being handled asks  *)
(* for; an actuator comes to rest, or moves as that packet commands it.  The first    *)
(* half of each is allowed to any step: a macro, a connection, a disconnection, a     *)
(* failure or the next process may stop the robot but never sets it in motion.      *)
Handling(packet) ==
    stage \in {"driven", "handled"} /\ Packet(event) /\ packet = event.packet

UnaskedMovesNothing ==
    [][ built = Len(Construct) /\ process' = "running" =>
          /\ \A d \in Drives : duty'[d] # duty[d] =>
                \/ duty'[d] = STOP_PWM
                \/ /\ Handling(lastMotion)
                   /\ duty'[d] = DutyCycle(DriveCommand(
                                    IF d = LEFT_PIN
                                    THEN MotionPacketData[lastMotion].leftDrivePercent
                                    ELSE MotionPacketData[lastMotion].rightDrivePercent))
          /\ \A a \in Actuators : MotionOf(a)' \notin {MotionOf(a), "NONE"} =>
                Handling(lastMotion) /\ MovesAsCommanded(a) ]_robotVars

(* A motion packet that the host has accepted and that is its peer's next is obeyed,   *)
(* and no callback or other packet keeps it waiting for ever, unless its link closes  *)
(* or the program ends.  (That the peer's next packet handled is that one, in its      *)
(* order, is ImplementsLinkEvents.)                                             *)
MotionWaits(p) == dispatchedCommands[p] # <<>> /\ IsMotionPacket(Head(dispatchedCommands[p]))

Obeyed(p) ==
    /\ stage = "handled" /\ Idle
    /\ event.peer = p /\ lastMotion = event.packet

AcceptedIsObeyed ==
    \A p \in Peers :
        MotionWaits(p) ~>
            (Obeyed(p) \/ peerState[p] # "CONNECTED" \/ status < 0 \/ process = "down")

Stopped ==
    /\ \A d \in Drives : duty[d] = STOP_PWM
    /\ \A a \in Actuators : MotionOf(a) = "NONE"

(* src/main.cpp:39, "Reset all robot motion to 0" on a disconnection, and            *)
(* src/server.hpp:75: the loop leaves a DISCONNECT event with the robot stopped. *)
LinkLossStops ==
    [][ ServeNext /\ event.type = "DISCONNECT" /\ Ready => Stopped ]_robotVars
================================================================================
