------------------------------ MODULE MotorControl ------------------------------
(****************************************************************************)
(* The robot's motors (src/motor.hpp): two drive motors, each a PWM pin, and *)
(* two actuators, each a pair of GPIO pins, behind the MotorInterface that    *)
(* getMotorContoller picks at start-up.                                      *)
(*                                                                          *)
(* One step is one call into the GPIO library, hence one write to a register *)
(* of the board.  The registers (duty, level, outputs) outlive the process,   *)
(* which may die between any two calls; the objects (prevPercent) do not.     *)
(*                                                                          *)
(* disableDriveMotors and disableActuators are never assigned, so the        *)
(* branches they guard are left out.                                        *)
(****************************************************************************)
EXTENDS DriveArithmetic, Sequences

CONSTANTS
    Percents,   \* the percentages callers ask for
    InitOk,     \* what gpioInitialise returns when it succeeds: 0 in jetgpio.h,
                \* 1 in nano.c
    WriteOk     \* what gpioWrite returns when it succeeds: likewise

ASSUME MotorAssumption == Percents \subseteq Int /\ InitOk \in Nat /\ WriteOk \in Nat

VARIABLES
    process,        \* "down" or "running"
    motors,         \* the class of the object behind the pointer of this name
    gpioReady,      \* has the library mapped the registers?
    built,          \* how many calls of the constructor have been made
    calls,          \* the library calls the current operation still has to make
    success,        \* what the last operation returns, as far as it got
    prevPercent,    \* PWMDriveMotor::prevPercent
    duty,           \* PWM registers: duty cycle per drive pin, 0 is no pulses
    level,          \* GPIO output latches
    outputs,        \* GPIO pins that gpioSetMode has made outputs
    wantPercent,    \* ghost: the last percentage asked of each drive
    wantMotion      \* ghost: the last motion asked of each actuator

objects == <<motors, gpioReady, built, calls, success, prevPercent>>
registers == <<duty, level, outputs>>
wants == <<wantPercent, wantMotion>>
motorVars == <<process, objects, registers, wants>>

LEFT_PIN  == 33
RIGHT_PIN == 32
Drives == {LEFT_PIN, RIGHT_PIN}

Actuators == 1..2
PinA == <<35, 28>>      \* extends
PinB == <<36, 29>>      \* retracts
ActuatorPins == {35, 36, 28, 29}

--------------------------------------------------------------------------------
(* The calls the constructor of MotorController makes, member by member.      *)
Construct ==
    << [op |-> "frequency", pin |-> LEFT_PIN],  [op |-> "stop", pin |-> LEFT_PIN],
       [op |-> "frequency", pin |-> RIGHT_PIN], [op |-> "stop", pin |-> RIGHT_PIN],
       [op |-> "mode", pin |-> PinA[1]], [op |-> "mode", pin |-> PinB[1]],
       [op |-> "mode", pin |-> PinA[2]], [op |-> "mode", pin |-> PinB[2]] >>

(* A call of the operations: setPercent, one call at most into the library,   *)
(* or gpioWrite.  "checked" says that its status makes the operation's result. *)
Percent(drive, percent) ==
    [op |-> "percent", pin |-> drive, value |-> percent, checked |-> FALSE]
Write(pin, value, checked) ==
    [op |-> "write", pin |-> pin, value |-> value, checked |-> checked]

Call == [op : {"percent"}, pin : Drives, value : Int, checked : {FALSE}]
            \cup [op : {"write"}, pin : ActuatorPins, value : 0..1, checked : BOOLEAN]

\* A mistake: relying on the other direction having cleared this pin.
retractOnePin(a, checked) == <<Write(PinB[a], 1, checked)>>

extend(a, checked)  == <<Write(PinA[a], 1, checked), Write(PinB[a], 0, checked)>>
retract(a, checked) == <<Write(PinA[a], 0, checked), Write(PinB[a], 1, checked)>>
stopActuator(a)     == <<Write(PinA[a], 1, FALSE), Write(PinB[a], 1, FALSE)>>

\* A mistake: the two directions exchanged.
setMotionExchanged(a, motion, checked) ==
    CASE motion = "EXTENDING"  -> retract(a, checked)
      [] motion = "RETRACTING" -> extend(a, checked)
      [] motion = "NONE"       -> stopActuator(a)

setMotion(a, motion, checked) ==
    CASE motion = "EXTENDING"  -> extend(a, checked)
      [] motion = "RETRACTING" -> retract(a, checked)
      [] motion = "NONE"       -> stopActuator(a)

(* What an actuator does, by the table above Actuator::setMotion.  A pin that  *)
(* is not an output yet pulls nothing.                                       *)
Signal(pin) == pin \in outputs /\ level[pin] = 1
MotionOf(a) ==
    CASE Signal(PinA[a]) /\ ~ Signal(PinB[a]) -> "EXTENDING"
      [] ~ Signal(PinA[a]) /\ Signal(PinB[a]) -> "RETRACTING"
      [] Signal(PinA[a]) <=> Signal(PinB[a])  -> "NONE"
--------------------------------------------------------------------------------
(* The board is switched on and the program has not been started.             *)
MotorInit ==
    /\ process = "down"
    /\ motors = "unset"
    /\ gpioReady = FALSE
    /\ built = 0
    /\ calls = <<>>
    /\ success = TRUE
    /\ prevPercent = [d \in Drives |-> 0]
    /\ duty = [d \in Drives |-> 0]
    /\ level = [p \in ActuatorPins |-> 0]
    /\ outputs = {}
    /\ wantPercent = [d \in Drives |-> 0]
    /\ wantMotion = [a \in Actuators |-> "UNSET"]

(* The library.  gpioInitialise maps the registers, which it only reads, and    *)
(* reports InitOk, or stops at one of its seven checks and reports that one's     *)
(* number.                                                                  *)
gpioInitialise(status) ==
    gpioReady' = (status = InitOk)

(* It clears the PWM register, which stops the pulses.                        *)
gpioSetPWMfrequency(pin) ==
    /\ duty' = [duty EXCEPT ![pin] = 0]
    /\ UNCHANGED <<level, outputs>>

gpioPWM(pin, dutycycle) ==
    /\ duty' = IF GpioPwmAccepts(dutycycle) THEN [duty EXCEPT ![pin] = dutycycle] ELSE duty
    /\ UNCHANGED <<level, outputs>>

(* JET_OUTPUT enables the pin with whatever its latch holds.                  *)
gpioSetMode(pin) ==
    /\ outputs' = outputs \cup {pin}
    /\ UNCHANGED <<duty, level>>
--------------------------------------------------------------------------------
(* getMotorContoller takes any status but 0 for a failure.                    *)
getMotorContoller ==
    /\ process = "down"
    /\ process' = "running"
    /\ \E status \in {InitOk} \cup (-7..-1) :
         /\ gpioInitialise(status)
         /\ motors' = IF status # 0 THEN "SimulatedMotorController" ELSE "MotorController"
    /\ UNCHANGED <<built, calls, success, prevPercent, registers, wants>>

\* A mistake: the constructor drives its pins as it makes them outputs.
ConstructorCallDriving ==
    /\ motors = "MotorController"
    /\ built < Len(Construct)
    /\ built' = built + 1
    /\ LET c == Construct[built + 1]
       IN  \/ c.op = "frequency" /\ gpioSetPWMfrequency(c.pin)
           \/ c.op = "stop" /\ gpioPWM(c.pin, STOP_PWM)
           \/ /\ c.op = "mode"
              /\ outputs' = outputs \cup {c.pin}
              /\ level' = [level EXCEPT ![c.pin] = 1]
              /\ UNCHANGED duty
    /\ UNCHANGED <<process, motors, gpioReady, calls, success, prevPercent, wants>>

(* The next call of the constructor of MotorController.                       *)
ConstructorCall ==
    /\ motors = "MotorController"
    /\ built < Len(Construct)
    /\ built' = built + 1
    /\ LET c == Construct[built + 1]
       IN  \/ c.op = "frequency" /\ gpioSetPWMfrequency(c.pin)
           \/ c.op = "stop" /\ gpioPWM(c.pin, STOP_PWM)
           \/ c.op = "mode" /\ gpioSetMode(c.pin)
    /\ UNCHANGED <<process, motors, gpioReady, calls, success, prevPercent, wants>>

\* A mistake: the early return keeps the percentage of the last change.
setPercentStale ==
    /\ calls # <<>> /\ Head(calls).op = "percent"
    /\ calls' = Tail(calls)
    /\ LET d == Head(calls).pin
           percent == ClampPercent(Head(calls).value)
       IN  /\ prevPercent' = IF percent = 0 THEN prevPercent
                             ELSE [prevPercent EXCEPT ![d] = percent]
           /\ IF percent # prevPercent[d] THEN gpioPWM(d, DutyCycle(percent))
                                          ELSE UNCHANGED registers
    /\ UNCHANGED <<process, motors, gpioReady, built, success, wants>>

(* PWMDriveMotor::setPercent, whose only call into the library is gpioPWM.     *)
setPercent ==
    /\ calls # <<>> /\ Head(calls).op = "percent"
    /\ calls' = Tail(calls)
    /\ LET d == Head(calls).pin
           percent == ClampPercent(Head(calls).value)
       IN  /\ prevPercent' = [prevPercent EXCEPT ![d] = percent]
           /\ IF percent # prevPercent[d] THEN gpioPWM(d, DutyCycle(percent))
                                          ELSE UNCHANGED registers
    /\ UNCHANGED <<process, motors, gpioReady, built, success, wants>>

gpioWrite ==
    /\ calls # <<>> /\ Head(calls).op = "write"
    /\ calls' = Tail(calls)
    /\ level' = [level EXCEPT ![Head(calls).pin] = Head(calls).value]
    /\ success' = (success /\ (Head(calls).checked => WriteOk = 0))
    /\ UNCHANGED <<process, motors, gpioReady, built, prevPercent, duty, outputs, wants>>

(* The operations.  The one thread of the program starts one when the last     *)
(* one has returned.                                                        *)
Ready == process = "running" /\ motors = "MotorController"
            /\ built = Len(Construct) /\ calls = <<>>

Issue(newCalls) ==
    /\ Ready
    /\ calls' = newCalls
    /\ success' = TRUE
    /\ UNCHANGED <<process, motors, gpioReady, built, prevPercent, registers>>

setDrivePercent(left, right) ==
    /\ Issue(<<Percent(LEFT_PIN, left), Percent(RIGHT_PIN, right)>>)
    /\ wantPercent' = [wantPercent EXCEPT ![LEFT_PIN] = left, ![RIGHT_PIN] = right]
    /\ UNCHANGED wantMotion

(* setActuators(a1, a2) ignores what setMotion returns; the overload that       *)
(* takes an array combines it.                                              *)
setActuators(m1, m2, checked) ==
    /\ Issue(setMotion(1, m1, checked) \o setMotion(2, m2, checked))
    /\ wantMotion' = <<m1, m2>>
    /\ UNCHANGED wantPercent

stopMovement ==
    /\ Issue(<<Percent(LEFT_PIN, 0), Percent(RIGHT_PIN, 0)>>
                \o stopActuator(1) \o stopActuator(2))
    /\ wantPercent' = [d \in Drives |-> 0]
    /\ wantMotion' = [a \in Actuators |-> "NONE"]

(* getLeftDrive()->setPercent and getActuator(a)->setMotion, for the callers    *)
(* that hold one motor.                                                      *)
setOneDrive(d, percent) ==
    /\ Issue(<<Percent(d, percent)>>)
    /\ wantPercent' = [wantPercent EXCEPT ![d] = percent]
    /\ UNCHANGED wantMotion

setOneActuator(a, motion) ==
    /\ Issue(setMotion(a, motion, TRUE))
    /\ wantMotion' = [wantMotion EXCEPT ![a] = motion]
    /\ UNCHANGED wantPercent

(* Every operation of SimulatedMotorController, and the macros of both classes, *)
(* return false and do nothing.                                             *)
ReturnFalse ==
    /\ process = "running" /\ calls = <<>>
    /\ motors = "SimulatedMotorController" \/ Ready
    /\ success' = FALSE
    /\ UNCHANGED <<process, motors, gpioReady, built, calls, prevPercent, registers, wants>>

(* The process is killed, or main returns: motors is never deleted, so no        *)
(* destructor runs, and the registers keep what was last written.              *)
Die ==
    /\ process = "running"
    /\ process' = "down"
    /\ motors' = "unset"
    /\ gpioReady' = FALSE
    /\ built' = 0
    /\ calls' = <<>>
    /\ success' = TRUE
    /\ prevPercent' = [d \in Drives |-> 0]
    /\ wantPercent' = [d \in Drives |-> 0]
    /\ wantMotion' = [a \in Actuators |-> "UNSET"]
    /\ UNCHANGED registers

Operation ==
    \/ \E left, right \in Percents : setDrivePercent(left, right)
    \/ \E m1, m2 \in Motion, checked \in BOOLEAN : setActuators(m1, m2, checked)
    \/ stopMovement
    \/ \E d \in Drives, percent \in Percents : setOneDrive(d, percent)
    \/ \E a \in Actuators, motion \in Motion : setOneActuator(a, motion)
    \/ ReturnFalse

LibraryCall == ConstructorCall \/ setPercent \/ gpioWrite

MotorNext == getMotorContoller \/ LibraryCall \/ Operation \/ Die

MotorSpec == MotorInit /\ [][MotorNext]_motorVars
--------------------------------------------------------------------------------
(* Type invariant of the motors: what the members, the registers and the       *)
(* remaining calls of an operation can be.                                   *)
TypeOK ==
    /\ process \in {"down", "running"}
    /\ motors \in {"unset", "SimulatedMotorController", "MotorController"}
    /\ gpioReady \in BOOLEAN
    /\ built \in 0..8
    /\ calls \in Seq(Call)
    /\ success \in BOOLEAN
    /\ prevPercent \in [Drives -> -100..100]
    /\ duty \in [Drives -> 0..256]
    /\ level \in [ActuatorPins -> 0..1]
    /\ outputs \subseteq ActuatorPins
    /\ wantPercent \in [Drives -> Int]
    /\ wantMotion \in [Actuators -> Motion \cup {"UNSET"}]

(* The levels of the two pins of an actuator that has been given a motion.     *)
LevelA(motion) == IF motion = "RETRACTING" THEN 0 ELSE 1
LevelB(motion) == IF motion = "EXTENDING" THEN 0 ELSE 1

Pending(pin) == \E i \in 1..Len(calls) : calls[i].pin = pin

(* Only a constructed MotorController has operations to carry out, and only a   *)
(* constructed one has been asked for anything.                              *)
ConstructedFirst ==
    /\ process = "down" => motors = "unset"
    /\ motors # "MotorController" => built = 0
    /\ built < Len(Construct) =>
          /\ calls = <<>>
          /\ prevPercent = [d \in Drives |-> 0]
          /\ wantPercent = [d \in Drives |-> 0]
          /\ wantMotion = [a \in Actuators |-> "UNSET"]
    /\ \A i \in 1..built : Construct[i].op = "mode" => Construct[i].pin \in outputs

(* The calls still to be made ask for what was last wanted, nothing older.     *)
CallsAgree ==
    \A i \in 1..Len(calls) :
        /\ calls[i].op = "percent" => calls[i].value = wantPercent[calls[i].pin]
        /\ \A a \in Actuators :
             /\ calls[i].pin = PinA[a] => /\ wantMotion[a] # "UNSET"
                                          /\ calls[i].value = LevelA(wantMotion[a])
             /\ calls[i].pin = PinB[a] => /\ wantMotion[a] # "UNSET"
                                          /\ calls[i].value = LevelB(wantMotion[a])

(* An actuator's pin A is always written before its pin B.                    *)
PinAFirst ==
    \A i, j \in 1..Len(calls), a \in Actuators :
        calls[i].pin = PinB[a] /\ calls[j].pin = PinA[a] => j < i

(* Each output shows what is wanted of it, or a call that will set it is still  *)
(* to be made.                                                              *)
PercentsOwed ==
    \A d \in Drives : prevPercent[d] = ClampPercent(wantPercent[d]) \/ Pending(d)

LevelsOwed ==
    \A a \in Actuators : wantMotion[a] # "UNSET" =>
        /\ level[PinA[a]] = LevelA(wantMotion[a]) \/ Pending(PinA[a])
        /\ level[PinB[a]] = LevelB(wantMotion[a]) \/ Pending(PinB[a])

(* setPercent's early return is sound: the register holds the duty cycle of     *)
(* prevPercent from the moment the constructor has set the drive up.          *)
DutyIsCached ==
    /\ built >= 2 => duty[LEFT_PIN] = DutyCycle(prevPercent[LEFT_PIN])
    /\ built >= 4 => duty[RIGHT_PIN] = DutyCycle(prevPercent[RIGHT_PIN])

(* The levels of a previous process: until the first constructor is through,    *)
(* nothing was ever written; from then on the pins stay outputs.              *)
LevelsNeedOutputs == outputs = ActuatorPins \/ level = [p \in ActuatorPins |-> 0]

(* The inductive invariant of the motors, whatever the percentages and the      *)
(* library's status values: it is what the theorems about them rest on.       *)
Inv ==
    /\ TypeOK
    /\ ConstructedFirst
    /\ CallsAgree
    /\ PinAFirst
    /\ PercentsOwed
    /\ LevelsOwed
    /\ DutyIsCached
    /\ LevelsNeedOutputs

(* Between operations the board does what the last operation on each motor      *)
(* asked for: no partial update, no write swallowed by the early return of      *)
(* setPercent, no left-over of a killed process on a wheel.                  *)
OutputsFollowCommands ==
    Ready =>
        /\ \A d \in Drives : duty[d] = DutyCycle(ClampPercent(wantPercent[d]))
        /\ \A a \in Actuators : wantMotion[a] # "UNSET" => MotionOf(a) = wantMotion[a]

(* No sequence of pin writes moves an actuator where nobody asked it to go, not  *)
(* even between the two writes of an operation.  The one exception the code      *)
(* has: a stop that finds both pins low raises pin A first.                  *)
MovesAsCommanded(a) ==
    MotionOf(a)' \notin {MotionOf(a), "NONE"} =>
        \/ MotionOf(a)' = wantMotion'[a]
        \/ /\ wantMotion'[a] = "NONE"
           /\ ~ Signal(PinA[a]) /\ ~ Signal(PinB[a])
           /\ MotionOf(a)' = "EXTENDING"

MovesOnlyAsCommanded == [][\A a \in Actuators : MovesAsCommanded(a)]_motorVars

(* Starting the program, on a board in whatever state an earlier process left   *)
(* it, moves no actuator and only ever stops a wheel.                        *)
StartMovesNothing ==
    process' # process \/ built' # built =>
        /\ \A a \in Actuators : MotionOf(a)' = MotionOf(a)
        /\ \A d \in Drives : duty'[d] \in {duty[d], 0, STOP_PWM}

RestartMovesNothing == [][StartMovesNothing]_motorVars

(* src/motor.hpp:414-441 and jetgpio.h:424 ("Returns 0 if OK"): when the library *)
(* is initialised the robot drives its motors, not the simulation.            *)
RealWhenInitialised ==
    process = "running" /\ gpioReady => motors = "MotorController"
================================================================================
