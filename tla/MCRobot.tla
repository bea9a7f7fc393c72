-------------------------------- MODULE MCRobot --------------------------------
(* Packets: full speed ahead with actuator 1 extending; a slow turn with actuator  *)
(* 2 retracting; an ESTOP.                                                   *)
EXTENDS Robot

Ahead == <<16, 119>>
Turn  == <<32, 163>>
Estop == <<130>>
MCPayloads == {Ahead, Turn, Estop}

\* The motors' own callers are not part of this program.
MCPercents == {DriveCommand(DecodeMotion(p).leftDrivePercent) : p \in {Ahead, Turn}}
                 \cup {DriveCommand(DecodeMotion(p).rightDrivePercent) : p \in {Ahead, Turn}}

\* Bound: two controllers with opposing motions, the first of which sends the ESTOP.
OneMotionEach ==
    \A p \in Peers : \A i \in 1..Len(wire[p]) :
        wire[p][i].type = "send_reliable" =>
            wire[p][i].packet \in (IF p = 1 THEN {Ahead, Estop} ELSE {Turn})

\* Bound: the program ends when its event loop has; that it may die at any moment is
\* part of the motors' own run.
MCNext == Start \/ Thread \/ (status < 0 /\ Exit) \/ Others

MCSpec == RobotInit /\ [][MCNext /\ OneMotionEach']_robotVars /\ WF_robotVars(Thread)
================================================================================
