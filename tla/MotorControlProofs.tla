--------------------------- MODULE MotorControlProofs ---------------------------
(****************************************************************************)
(* What TLAPS proves of MotorControl, for every set of percentages and every  *)
(* status value of the GPIO library.                                         *)
(****************************************************************************)
EXTENDS MotorControl, SequenceTheorems, TLAPS

--------------------------------------------------------------------------------
(* The values of the two constants the compiler computes.                     *)
LEMMA PulseConstants == STOP_PWM = 57 /\ NUM_PARTITIONS = 19
  BY DEF STOP_PWM, NUM_PARTITIONS, FREQUENCY

(* The clamp of setPercent.                                                  *)
LEMMA ClampRange == \A p \in Int : ClampPercent(p) \in -100..100
  BY DEF ClampPercent

(* A clamped percentage gives a pulse between 1 ms and 2 ms, which gpioPWM      *)
(* accepts; zero gives the stop pulse.                                       *)
LEMMA DutyRange ==
    /\ \A p \in -100..100 : DutyCycle(p) \in 38..76 /\ GpioPwmAccepts(DutyCycle(p))
    /\ DutyCycle(0) = STOP_PWM /\ GpioPwmAccepts(STOP_PWM)
  <1>1. ASSUME NEW p \in -100..100 PROVE DutyCycle(p) \in 38..76
    <2>1. DutyCycle(p) = 57 + CTrunc(19 * p, 100)
      BY PulseConstants DEF DutyCycle
    <2>2. CASE p >= 0
      <3>1. 19 * p \in 0..1900 /\ (19 * p) \div 100 \in 0..19
        BY <2>2
      <3>. QED
        BY <2>1, <3>1 DEF CTrunc
    <2>3. CASE p < 0
      <3>1. -(19 * p) \in 0..1900 /\ (-(19 * p)) \div 100 \in 0..19 /\ ~(19 * p >= 0)
        BY <2>3
      <3>. QED
        BY <2>1, <3>1 DEF CTrunc
    <2>. QED
      BY <2>2, <2>3
  <1>2. DutyCycle(0) = STOP_PWM /\ STOP_PWM \in 38..76
    BY PulseConstants DEF DutyCycle, CTrunc
  <1>3. \A d \in 38..76 : GpioPwmAccepts(d)
    BY DEF GpioPwmAccepts
  <1>. QED
    BY <1>1, <1>2, <1>3

(* What the two calls of setMotion are.                                      *)
LEMMA SetMotionCalls ==
    ASSUME NEW a \in Actuators, NEW motion \in Motion, NEW checked \in BOOLEAN
    PROVE  \E c \in BOOLEAN :
              setMotion(a, motion, checked) = <<Write(PinA[a], LevelA(motion), c),
                                                Write(PinB[a], LevelB(motion), c)>>
  BY DEF Motion, setMotion, extend, retract, stopActuator, LevelA, LevelB

LEMMA WriteIsCall ==
    ASSUME NEW a \in Actuators, NEW v \in 0..1, NEW c \in BOOLEAN
    PROVE  /\ Write(PinA[a], v, c) \in Call
           /\ Write(PinB[a], v, c) \in Call
  BY DEF Actuators, PinA, PinB, Write, Call, ActuatorPins

LEMMA PercentIsCall ==
    ASSUME NEW d \in Drives, NEW v \in Int
    PROVE  Percent(d, v) \in Call
  BY DEF Drives, Percent, Call

(* No pin serves two motors.                                                 *)
LEMMA PinsAreDistinct ==
    /\ \A a, b \in Actuators : PinA[a] # PinB[b]
    /\ \A a, b \in Actuators : PinA[a] = PinA[b] => a = b
    /\ \A a, b \in Actuators : PinB[a] = PinB[b] => a = b
    /\ \A a \in Actuators : PinA[a] \in ActuatorPins /\ PinB[a] \in ActuatorPins
    /\ \A d \in Drives, a \in Actuators : d # PinA[a] /\ d # PinB[a]
    /\ \A p \in ActuatorPins : \E a \in Actuators : p = PinA[a] \/ p = PinB[a]
  BY DEF Actuators, PinA, PinB, ActuatorPins, Drives, LEFT_PIN, RIGHT_PIN

(* Making the first call leaves the others as they were.                     *)
LEMMA NextCall ==
    ASSUME calls \in Seq(Call), calls # <<>>, calls' = Tail(calls), CallsAgree, PinAFirst,
           UNCHANGED wants
    PROVE  /\ Head(calls) \in Call /\ Head(calls) = calls[1]
           /\ calls' \in Seq(Call)
           /\ CallsAgree' /\ PinAFirst'
           /\ \A pin : Pending(pin) => pin = Head(calls).pin \/ Pending(pin)'
  <1>1. /\ Head(calls) \in Call
        /\ Head(calls) = calls[1]
        /\ Tail(calls) \in Seq(Call)
        /\ Len(calls) \in Nat
        /\ Len(calls') = Len(calls) - 1
        /\ \A i \in 1..Len(calls') : calls'[i] = calls[i + 1]
    BY HeadTailProperties
  <1>2. \A i \in 1..Len(calls') : i + 1 \in 1..Len(calls)
    BY <1>1
  <1>3. CallsAgree'
    BY <1>1, <1>2 DEF CallsAgree, wants
  <1>5. PinAFirst'
    <2> SUFFICES ASSUME NEW i \in 1..Len(calls'), NEW j \in 1..Len(calls'), NEW a \in Actuators,
                        calls'[i].pin = PinB[a], calls'[j].pin = PinA[a]
                 PROVE  j < i
      BY DEF PinAFirst
    <2>1. j + 1 < i + 1
      BY <1>1, <1>2 DEF PinAFirst
    <2> QED
      BY <2>1
  <1>4. ASSUME NEW pin, Pending(pin)
        PROVE  pin = Head(calls).pin \/ Pending(pin)'
    <2>1. PICK i \in 1..Len(calls) : calls[i].pin = pin
      BY <1>4 DEF Pending
    <2>2. CASE i = 1
      BY <2>1, <2>2, <1>1
    <2>3. CASE i # 1
      <3>1. i - 1 \in 1..Len(calls') /\ calls'[i - 1] = calls[i]
        BY <2>3, <1>1
      <3> QED
        BY <2>1, <3>1 DEF Pending
    <2> QED
      BY <2>2, <2>3
  <1> QED
    BY <1>1, <1>3, <1>4, <1>5
--------------------------------------------------------------------------------
LEMMA InitInv == MotorInit => Inv
  <1> SUFFICES ASSUME MotorInit PROVE Inv
    OBVIOUS
  <1> USE DEF MotorInit
  <1>1. TypeOK
    <2>1. calls \in Seq(Call)
      OBVIOUS
    <2>2. prevPercent \in [Drives -> -100..100] /\ duty \in [Drives -> 0..256]
      OBVIOUS
    <2>3. level \in [ActuatorPins -> 0..1] /\ outputs \subseteq ActuatorPins
      OBVIOUS
    <2>4. /\ wantPercent \in [Drives -> Int]
          /\ wantMotion \in [Actuators -> Motion \cup {"UNSET"}]
      OBVIOUS
    <2>5. gpioReady \in BOOLEAN /\ success \in BOOLEAN
      BY Zenon
    <2>6. built \in 0..8
      OBVIOUS
    <2> QED
      BY <2>1, <2>2, <2>3, <2>4, <2>5, <2>6, Zenon DEF TypeOK
  <1>2. ConstructedFirst
    BY DEF ConstructedFirst
  <1>3. CallsAgree /\ PinAFirst
    BY DEF CallsAgree, PinAFirst
  <1>4. PercentsOwed
    BY DEF PercentsOwed, ClampPercent
  <1>5. LevelsOwed
    BY DEF LevelsOwed
  <1>6. DutyIsCached /\ LevelsNeedOutputs
    BY DEF DutyIsCached, LevelsNeedOutputs
  <1> QED
    BY <1>1, <1>2, <1>3, <1>4, <1>5, <1>6 DEF Inv

LEMMA StartInv == ASSUME Inv, getMotorContoller PROVE Inv'
  <1> USE DEF Inv, getMotorContoller, gpioInitialise, registers, wants
  <1>1. TypeOK'
    BY DEF TypeOK
  <1>2. built = 0 /\ ConstructedFirst'
    BY DEF ConstructedFirst, TypeOK
  <1>3. CallsAgree' /\ PinAFirst' /\ PercentsOwed' /\ LevelsOwed'
    BY DEF CallsAgree, PinAFirst, PercentsOwed, LevelsOwed, Pending
  <1>4. DutyIsCached' /\ LevelsNeedOutputs'
    BY DEF DutyIsCached, LevelsNeedOutputs
  <1> QED
    BY <1>1, <1>2, <1>3, <1>4

LEMMA DieInv == ASSUME Inv, Die PROVE Inv'
  <1> USE DEF Inv, Die, registers
  <1>1. TypeOK'
    <2>1. calls' \in Seq(Call)
      OBVIOUS
    <2>2. prevPercent' \in [Drives -> -100..100]
      OBVIOUS
    <2>3. /\ wantPercent' \in [Drives -> Int]
          /\ wantMotion' \in [Actuators -> Motion \cup {"UNSET"}]
      OBVIOUS
    <2>4. duty' = duty /\ level' = level /\ outputs' = outputs
      OBVIOUS
    <2>5. gpioReady' \in BOOLEAN /\ success' \in BOOLEAN
      BY Zenon
    <2>6. built' \in 0..8 /\ process' = "down" /\ motors' = "unset"
      OBVIOUS
    <2>7. /\ duty \in [Drives -> 0..256]
          /\ level \in [ActuatorPins -> 0..1]
          /\ outputs \subseteq ActuatorPins
      BY DEF TypeOK
    <2> HIDE DEF Inv, Die, registers
    <2> QED
      BY <2>1, <2>2, <2>3, <2>4, <2>5, <2>6, <2>7, Zenon DEF TypeOK
  <1>2. ConstructedFirst'
    BY DEF ConstructedFirst
  <1>3. CallsAgree' /\ PinAFirst' /\ LevelsOwed'
    BY DEF CallsAgree, PinAFirst, LevelsOwed
  <1>4. PercentsOwed'
    BY DEF PercentsOwed, ClampPercent
  <1>5. DutyIsCached' /\ LevelsNeedOutputs'
    BY DEF DutyIsCached, LevelsNeedOutputs
  <1> QED
    BY <1>1, <1>2, <1>3, <1>4, <1>5

LEMMA ReturnFalseInv == ASSUME Inv, ReturnFalse PROVE Inv'
  <1> USE DEF Inv, ReturnFalse, registers, wants
  <1>1. TypeOK' /\ ConstructedFirst'
    BY DEF TypeOK, ConstructedFirst
  <1>2. CallsAgree' /\ PinAFirst' /\ PercentsOwed' /\ LevelsOwed'
    BY DEF CallsAgree, PinAFirst, PercentsOwed, LevelsOwed, Pending
  <1>3. DutyIsCached' /\ LevelsNeedOutputs'
    BY DEF DutyIsCached, LevelsNeedOutputs
  <1> QED
    BY <1>1, <1>2, <1>3

(* The constructor's calls, by number.                                       *)
LEMMA ConstructOrder ==
    /\ Len(Construct) = 8
    /\ \A i \in {1, 3} : Construct[i].op = "frequency"
    /\ \A i \in {2, 4} : Construct[i].op = "stop"
    /\ \A i \in 5..8 : Construct[i].op = "mode"
    /\ Construct[1].pin = LEFT_PIN /\ Construct[2].pin = LEFT_PIN
    /\ Construct[3].pin = RIGHT_PIN /\ Construct[4].pin = RIGHT_PIN
    /\ Construct[5].pin = PinA[1] /\ Construct[6].pin = PinB[1]
    /\ Construct[7].pin = PinA[2] /\ Construct[8].pin = PinB[2]
  BY DEF Construct

LEMMA ConstructorCallInv == ASSUME Inv, ConstructorCall PROVE Inv'
  <1> USE DEF Inv
  <1> DEFINE c == Construct[built + 1]
  <1>1. /\ built \in 0..7 /\ built' = built + 1
        /\ calls = <<>>
        /\ UNCHANGED <<process, motors, gpioReady, calls, success, prevPercent, wants>>
    BY ConstructOrder DEF ConstructorCall, ConstructedFirst, TypeOK
  <1>2. /\ level' = level
        /\ \/ c.op = "frequency" /\ duty' = [duty EXCEPT ![c.pin] = 0] /\ outputs' = outputs
           \/ c.op = "stop" /\ duty' = [duty EXCEPT ![c.pin] = STOP_PWM] /\ outputs' = outputs
           \/ c.op = "mode" /\ outputs' = outputs \cup {c.pin} /\ duty' = duty
    <2>1. GpioPwmAccepts(STOP_PWM)
      BY DutyRange
    <2> QED
      BY <2>1 DEF ConstructorCall, gpioSetPWMfrequency, gpioPWM, gpioSetMode
  <1>3. c.op = "mode" <=> built \in 4..7
    BY <1>1, ConstructOrder
  <1>4. c.op = "mode" => c.pin \in ActuatorPins
    BY <1>1, <1>3, ConstructOrder, PinsAreDistinct DEF Actuators
  <1>5. TypeOK'
    <2>1. duty' \in [Drives -> 0..256]
      <3>1. duty \in [Drives -> 0..256] /\ STOP_PWM \in 0..256 /\ 0 \in 0..256
        BY PulseConstants DEF TypeOK
      <3>2. CASE c.op = "frequency" /\ duty' = [duty EXCEPT ![c.pin] = 0]
        BY <3>1, <3>2
      <3>3. CASE c.op = "stop" /\ duty' = [duty EXCEPT ![c.pin] = STOP_PWM]
        BY <3>1, <3>3
      <3>4. CASE duty' = duty
        BY <3>1, <3>4
      <3> QED
        BY <1>2, <3>2, <3>3, <3>4, Zenon
    <2>2. outputs' \subseteq ActuatorPins
      BY <1>2, <1>4 DEF TypeOK
    <2>3. level' = level
      BY <1>2
    <2>4. built' \in 0..8
      BY <1>1
    <2> QED
      BY <1>1, <2>1, <2>2, <2>3, <2>4 DEF TypeOK, wants
  <1>6. ConstructedFirst'
    <2>1. \A i \in 1..built' : Construct[i].op = "mode" => Construct[i].pin \in outputs'
      <3> SUFFICES ASSUME NEW i \in 1..built', Construct[i].op = "mode"
                   PROVE  Construct[i].pin \in outputs'
        OBVIOUS
      <3>1. CASE i = built + 1
        BY <3>1, <1>2
      <3>2. CASE i # built + 1
        <4>1. i \in 1..built
          BY <3>2, <1>1
        <4> QED
          BY <4>1, <1>2 DEF ConstructedFirst
      <3> QED
        BY <3>1, <3>2
    <2>2. motors = "MotorController" /\ built < Len(Construct)
      BY DEF ConstructorCall
    <2> QED
      BY <1>1, <2>1, <2>2 DEF ConstructedFirst, wants
  <1>7. CallsAgree' /\ PinAFirst' /\ PercentsOwed'
    BY <1>1 DEF CallsAgree, PinAFirst, PercentsOwed, Pending, wants
  <1>8. LevelsOwed'
    BY <1>1, <1>2 DEF LevelsOwed, Pending, wants
  <1>9. DutyIsCached'
    <2>1. prevPercent = [d \in Drives |-> 0] /\ prevPercent' = prevPercent
      BY <1>1, ConstructOrder DEF ConstructedFirst
    <2>2. prevPercent[LEFT_PIN] = 0 /\ prevPercent[RIGHT_PIN] = 0 /\ LEFT_PIN # RIGHT_PIN
      BY <2>1 DEF Drives, LEFT_PIN, RIGHT_PIN
    <2>3. built' >= 2 => duty'[LEFT_PIN] = STOP_PWM
      <3>1. built = 1 => duty'[LEFT_PIN] = STOP_PWM
        BY <1>2, ConstructOrder DEF TypeOK, Drives
      <3>2. built >= 2 => duty[LEFT_PIN] = STOP_PWM
        BY <2>2, DutyRange DEF DutyIsCached
      <3>3. built >= 2 => duty'[LEFT_PIN] = duty[LEFT_PIN]
        <4>1. built \in {2, 3} => c.pin = RIGHT_PIN
          BY ConstructOrder
        <4>2. built \in 4..7 => duty' = duty
          BY <1>2, <1>3
        <4> QED
          BY <4>1, <4>2, <1>1, <1>2, <2>2 DEF TypeOK, Drives
      <3> QED
        BY <3>1, <3>2, <3>3, <1>1
    <2>4. built' >= 4 => duty'[RIGHT_PIN] = STOP_PWM
      <3>1. built = 3 => duty'[RIGHT_PIN] = STOP_PWM
        BY <1>2, ConstructOrder DEF TypeOK, Drives
      <3>2. built >= 4 => duty[RIGHT_PIN] = STOP_PWM
        BY <2>2, DutyRange DEF DutyIsCached
      <3>3. built >= 4 => duty' = duty
        BY <1>1, <1>2, <1>3
      <3> QED
        BY <3>1, <3>2, <3>3, <1>1
    <2> QED
      BY <2>1, <2>2, <2>3, <2>4, DutyRange DEF DutyIsCached
  <1>10. LevelsNeedOutputs'
    BY <1>2, <1>4 DEF LevelsNeedOutputs
  <1> QED
    BY <1>5, <1>6, <1>7, <1>8, <1>9, <1>10

(* The calls that are pending belong to a constructed controller.             *)
LEMMA CallsNeedReady ==
    ASSUME Inv, calls # <<>>
    PROVE  built = 8 /\ motors = "MotorController"
  BY ConstructOrder DEF Inv, ConstructedFirst, TypeOK

LEMMA setPercentInv == ASSUME Inv, setPercent PROVE Inv'
  <1> USE DEF Inv
  <1> DEFINE d == Head(calls).pin
             percent == ClampPercent(Head(calls).value)
  <1>1. /\ calls # <<>> /\ Head(calls).op = "percent" /\ calls' = Tail(calls)
        /\ prevPercent' = [prevPercent EXCEPT ![d] = percent]
        /\ duty' = IF percent # prevPercent[d] /\ GpioPwmAccepts(DutyCycle(percent))
                   THEN [duty EXCEPT ![d] = DutyCycle(percent)] ELSE duty
        /\ UNCHANGED <<process, motors, gpioReady, built, success, level, outputs>>
        /\ wantPercent' = wantPercent /\ wantMotion' = wantMotion
    BY DEF setPercent, gpioPWM, registers, wants
  <1>2. /\ Head(calls) \in Call /\ Head(calls) = calls[1] /\ calls' \in Seq(Call)
        /\ CallsAgree' /\ PinAFirst'
        /\ \A pin : Pending(pin) => pin = d \/ Pending(pin)'
    BY <1>1, NextCall DEF TypeOK, wants
  <1>3. d \in Drives /\ Head(calls).value \in Int
    BY <1>1, <1>2 DEF Call
  <1>4. percent \in -100..100 /\ DutyCycle(percent) \in 0..256
          /\ GpioPwmAccepts(DutyCycle(percent))
    <2>1. percent \in -100..100
      BY <1>3, ClampRange
    <2>2. DutyCycle(percent) \in 38..76 /\ GpioPwmAccepts(DutyCycle(percent))
      BY <2>1, DutyRange
    <2> QED
      BY <2>1, <2>2
  <1>5. Head(calls).value = wantPercent[d]
    <2>1. 1 \in 1..Len(calls)
      BY <1>1, EmptySeq DEF TypeOK
    <2> QED
      BY <1>1, <1>2, <2>1 DEF CallsAgree
  <1>6. TypeOK'
    <2>1. prevPercent' \in [Drives -> -100..100]
      BY <1>1, <1>4 DEF TypeOK
    <2>2. duty' \in [Drives -> 0..256]
      <3>1. duty \in [Drives -> 0..256]
        BY DEF TypeOK
      <3>2. [duty EXCEPT ![d] = DutyCycle(percent)] \in [Drives -> 0..256]
        BY <3>1, <1>4
      <3> QED
        BY <1>1, <3>1, <3>2
    <2> QED
      BY <1>1, <1>2, <2>1, <2>2 DEF TypeOK
  <1>7. ConstructedFirst'
    BY <1>1, CallsNeedReady, ConstructOrder DEF ConstructedFirst
  <1>8. PercentsOwed'
    <2> SUFFICES ASSUME NEW e \in Drives
                 PROVE  prevPercent'[e] = ClampPercent(wantPercent[e]) \/ Pending(e)'
      BY <1>1 DEF PercentsOwed
    <2>1. CASE e = d
      BY <2>1, <1>1, <1>3, <1>5 DEF TypeOK
    <2>2. CASE e # d
      BY <2>2, <1>1, <1>2 DEF TypeOK, PercentsOwed
    <2> QED
      BY <2>1, <2>2
  <1>9. LevelsOwed'
    BY <1>1, <1>2, <1>3, PinsAreDistinct DEF LevelsOwed
  <1>10. DutyIsCached'
    <2>1. built = 8
      BY <1>1, CallsNeedReady
    <2>2. \A e \in Drives : duty[e] = DutyCycle(prevPercent[e])
      BY <2>1 DEF DutyIsCached, Drives
    <2>3. \A e \in Drives : duty'[e] = DutyCycle(prevPercent'[e])
      <3> SUFFICES ASSUME NEW e \in Drives PROVE duty'[e] = DutyCycle(prevPercent'[e])
        OBVIOUS
      <3>1. prevPercent'[e] = IF e = d THEN percent ELSE prevPercent[e]
        BY <1>1 DEF TypeOK
      <3>2. duty'[e] = IF e = d THEN DutyCycle(percent) ELSE duty[e]
        BY <1>1, <1>3, <1>4, <2>2 DEF TypeOK
      <3> QED
        BY <2>2, <3>1, <3>2
    <2> QED
      BY <2>3 DEF DutyIsCached, Drives
  <1>11. LevelsNeedOutputs'
    BY <1>1 DEF LevelsNeedOutputs
  <1> QED
    BY <1>2, <1>6, <1>7, <1>8, <1>9, <1>10, <1>11

LEMMA gpioWriteInv == ASSUME Inv, gpioWrite PROVE Inv'
  <1> USE DEF Inv
  <1> DEFINE pin == Head(calls).pin
             value == Head(calls).value
  <1>1. /\ calls # <<>> /\ Head(calls).op = "write" /\ calls' = Tail(calls)
        /\ level' = [level EXCEPT ![pin] = value]
        /\ success' = (success /\ (Head(calls).checked => WriteOk = 0))
        /\ UNCHANGED <<process, motors, gpioReady, built, prevPercent, duty, outputs>>
        /\ wantPercent' = wantPercent /\ wantMotion' = wantMotion
    BY DEF gpioWrite, wants
  <1>2. /\ Head(calls) \in Call /\ Head(calls) = calls[1] /\ calls' \in Seq(Call)
        /\ CallsAgree' /\ PinAFirst'
        /\ \A p : Pending(p) => p = pin \/ Pending(p)'
    BY <1>1, NextCall DEF TypeOK, wants
  <1>3. pin \in ActuatorPins /\ value \in 0..1
    BY <1>1, <1>2 DEF Call
  <1>4. /\ built = 8 /\ motors = "MotorController"
        /\ outputs = ActuatorPins
    <2>1. built = 8 /\ motors = "MotorController"
      BY <1>1, CallsNeedReady
    <2>2. PinA[1] \in outputs /\ PinB[1] \in outputs /\ PinA[2] \in outputs /\ PinB[2] \in outputs
      BY <2>1, ConstructOrder DEF ConstructedFirst
    <2> QED
      BY <2>1, <2>2 DEF TypeOK, PinA, PinB, ActuatorPins
  <1>5. TypeOK'
    <2>1. level' \in [ActuatorPins -> 0..1]
      BY <1>1, <1>3 DEF TypeOK
    <2>2. success' \in BOOLEAN
      BY <1>1, Zenon
    <2> QED
      BY <1>1, <1>2, <2>1, <2>2 DEF TypeOK
  <1>6. ConstructedFirst'
    BY <1>1, <1>4, ConstructOrder DEF ConstructedFirst
  <1>7. PercentsOwed'
    BY <1>1, <1>2, <1>3, PinsAreDistinct DEF PercentsOwed
  <1>8. LevelsOwed'
    <2> SUFFICES ASSUME NEW a \in Actuators, wantMotion[a] # "UNSET"
                 PROVE  /\ level'[PinA[a]] = LevelA(wantMotion[a]) \/ Pending(PinA[a])'
                        /\ level'[PinB[a]] = LevelB(wantMotion[a]) \/ Pending(PinB[a])'
      BY <1>1 DEF LevelsOwed
    <2>1. 1 \in 1..Len(calls)
      BY <1>1, EmptySeq DEF TypeOK
    <2>2. /\ pin = PinA[a] => value = LevelA(wantMotion[a])
          /\ pin = PinB[a] => value = LevelB(wantMotion[a])
      BY <1>2, <2>1 DEF CallsAgree
    <2>3. /\ level'[PinA[a]] = IF pin = PinA[a] THEN value ELSE level[PinA[a]]
          /\ level'[PinB[a]] = IF pin = PinB[a] THEN value ELSE level[PinB[a]]
      BY <1>1, PinsAreDistinct DEF TypeOK
    <2> QED
      BY <1>2, <2>2, <2>3 DEF LevelsOwed
  <1>9. DutyIsCached' /\ LevelsNeedOutputs'
    BY <1>1, <1>4 DEF DutyIsCached, LevelsNeedOutputs
  <1> QED
    BY <1>2, <1>5, <1>6, <1>7, <1>8, <1>9
--------------------------------------------------------------------------------
(* Starting an operation keeps the invariant when its calls ask for what is     *)
(* wanted and reach every motor whose wanted value changes.                   *)
LEMMA IssueInv ==
    ASSUME Inv, NEW newCalls \in Seq(Call), Issue(newCalls),
           wantPercent' \in [Drives -> Int],
           wantMotion' \in [Actuators -> Motion \cup {"UNSET"}],
           CallsAgree', PinAFirst',
           \A d \in Drives : wantPercent'[d] = wantPercent[d] \/ Pending(d)',
           \A a \in Actuators : \/ wantMotion'[a] = wantMotion[a]
                                \/ Pending(PinA[a])' /\ Pending(PinB[a])'
    PROVE  Inv'
  <1> USE DEF Inv
  <1>1. /\ process = "running" /\ motors = "MotorController" /\ built = 8 /\ calls = <<>>
        /\ calls' = newCalls /\ success' = TRUE
        /\ process' = process /\ motors' = motors /\ gpioReady' = gpioReady
        /\ built' = built /\ prevPercent' = prevPercent
        /\ duty' = duty /\ level' = level /\ outputs' = outputs
    BY ConstructOrder DEF Issue, Ready, registers
  <1>2. \A pin : ~ Pending(pin)
    BY <1>1 DEF Pending
  <1>3. TypeOK'
    <2>1. success' \in BOOLEAN
      BY <1>1, Zenon
    <2> QED
      BY <1>1, <2>1 DEF TypeOK
  <1>4. ConstructedFirst'
    BY <1>1, ConstructOrder DEF ConstructedFirst
  <1>5. PercentsOwed'
    <2> SUFFICES ASSUME NEW d \in Drives
                 PROVE  prevPercent'[d] = ClampPercent(wantPercent'[d]) \/ Pending(d)'
      BY DEF PercentsOwed
    <2>1. prevPercent[d] = ClampPercent(wantPercent[d])
      BY <1>2 DEF PercentsOwed
    <2> QED
      BY <1>1, <2>1
  <1>6. LevelsOwed'
    BY <1>1, <1>2 DEF LevelsOwed
  <1>7. DutyIsCached' /\ LevelsNeedOutputs'
    BY <1>1 DEF DutyIsCached, LevelsNeedOutputs
  <1> QED
    BY <1>3, <1>4, <1>5, <1>6, <1>7

LEMMA SetDrivePercentInv ==
    ASSUME Inv, NEW left \in Int, NEW right \in Int, setDrivePercent(left, right)
    PROVE  Inv'
  <1> DEFINE new == <<Percent(LEFT_PIN, left), Percent(RIGHT_PIN, right)>>
  <1>1. new \in Seq(Call)
    BY PercentIsCall DEF Drives
  <1>2. Issue(new) /\ calls' = new /\ wantMotion' = wantMotion
        /\ wantPercent' = [wantPercent EXCEPT ![LEFT_PIN] = left, ![RIGHT_PIN] = right]
    BY DEF setDrivePercent, Issue
  <1>3. wantPercent \in [Drives -> Int] /\ wantMotion \in [Actuators -> Motion \cup {"UNSET"}]
    BY DEF Inv, TypeOK
  <1>4. /\ wantPercent' \in [Drives -> Int]
        /\ wantPercent'[LEFT_PIN] = left /\ wantPercent'[RIGHT_PIN] = right
    BY <1>2, <1>3 DEF Drives, LEFT_PIN, RIGHT_PIN
  <1>5. Len(calls') = 2 /\ \A i \in 1..2 : calls'[i].op = "percent"
        /\ calls'[i].pin \in Drives /\ calls'[i].value = wantPercent'[calls'[i].pin]
    BY <1>2, <1>4 DEF Percent, Drives
  <1>6. CallsAgree' /\ PinAFirst'
    BY <1>5, PinsAreDistinct DEF CallsAgree, PinAFirst
  <1>7. \A d \in Drives : Pending(d)'
    BY <1>2, <1>5 DEF Pending, Percent, Drives
  <1> HIDE DEF new
  <1> QED
    BY <1>1, <1>2, <1>3, <1>4, <1>6, <1>7, IssueInv

LEMMA SetOneDriveInv ==
    ASSUME Inv, NEW e \in Drives, NEW percent \in Int, setOneDrive(e, percent)
    PROVE  Inv'
  <1> DEFINE new == <<Percent(e, percent)>>
  <1>1. new \in Seq(Call)
    BY PercentIsCall
  <1>2. Issue(new) /\ calls' = new /\ wantMotion' = wantMotion
        /\ wantPercent' = [wantPercent EXCEPT ![e] = percent]
    BY DEF setOneDrive, Issue
  <1>3. wantPercent \in [Drives -> Int] /\ wantMotion \in [Actuators -> Motion \cup {"UNSET"}]
    BY DEF Inv, TypeOK
  <1>4. wantPercent' \in [Drives -> Int] /\ wantPercent'[e] = percent
    BY <1>2, <1>3
  <1>5. Len(calls') = 1 /\ calls'[1].op = "percent"
        /\ calls'[1].pin = e /\ calls'[1].value = percent
    BY <1>2 DEF Percent
  <1>6. CallsAgree' /\ PinAFirst'
    BY <1>4, <1>5, PinsAreDistinct DEF CallsAgree, PinAFirst
  <1>7. \A d \in Drives : wantPercent'[d] = wantPercent[d] \/ Pending(d)'
    <2>1. Pending(e)'
      BY <1>5 DEF Pending
    <2> QED
      BY <1>2, <1>3, <2>1
  <1> HIDE DEF new
  <1> QED
    BY <1>1, <1>2, <1>3, <1>4, <1>6, <1>7, IssueInv

LEMMA SetOneActuatorInv ==
    ASSUME Inv, NEW b \in Actuators, NEW motion \in Motion, setOneActuator(b, motion)
    PROVE  Inv'
  <1> DEFINE new == setMotion(b, motion, TRUE)
  <1>1. PICK c \in BOOLEAN : new = <<Write(PinA[b], LevelA(motion), c),
                                     Write(PinB[b], LevelB(motion), c)>>
    BY SetMotionCalls
  <1>2. Issue(new) /\ calls' = new /\ wantPercent' = wantPercent
        /\ wantMotion' = [wantMotion EXCEPT ![b] = motion]
    BY DEF setOneActuator, Issue
  <1>3. wantPercent \in [Drives -> Int] /\ wantMotion \in [Actuators -> Motion \cup {"UNSET"}]
    BY DEF Inv, TypeOK
  <1>4. /\ wantMotion' \in [Actuators -> Motion \cup {"UNSET"}]
        /\ wantMotion'[b] = motion /\ motion # "UNSET"
    BY <1>2, <1>3 DEF Motion
  <1>5. LevelA(motion) \in 0..1 /\ LevelB(motion) \in 0..1
    BY DEF LevelA, LevelB
  <1> HIDE DEF new
  <1>6. new \in Seq(Call)
    BY <1>1, <1>5, WriteIsCall
  <1>7. /\ Len(calls') = 2 /\ calls'[1].op = "write" /\ calls'[2].op = "write"
        /\ calls'[1].pin = PinA[b] /\ calls'[1].value = LevelA(motion)
        /\ calls'[2].pin = PinB[b] /\ calls'[2].value = LevelB(motion)
    BY <1>1, <1>2 DEF Write
  <1>8. CallsAgree' /\ PinAFirst'
    BY <1>4, <1>7, PinsAreDistinct DEF CallsAgree, PinAFirst
  <1>9. \A a \in Actuators : \/ wantMotion'[a] = wantMotion[a]
                             \/ Pending(PinA[a])' /\ Pending(PinB[a])'
    <2>1. Pending(PinA[b])' /\ Pending(PinB[b])'
      BY <1>7 DEF Pending
    <2> QED
      BY <1>2, <1>3, <2>1
  <1> QED
    BY <1>2, <1>3, <1>4, <1>6, <1>8, <1>9, IssueInv

(* Joining the calls of two motors gives the calls one after the other.        *)
LEMMA JoinCalls ==
    ASSUME NEW s1 \in Seq(Call), NEW s2 \in Seq(Call), Len(s1) = 2, Len(s2) \in {2, 4}
    PROVE  /\ s1 \o s2 \in Seq(Call) /\ Len(s1 \o s2) = 2 + Len(s2)
           /\ (s1 \o s2)[1] = s1[1] /\ (s1 \o s2)[2] = s1[2]
           /\ \A i \in 1..Len(s2) : (s1 \o s2)[2 + i] = s2[i]
  <1>1. /\ s1 \o s2 \in Seq(Call)
        /\ Len(s1 \o s2) = Len(s1) + Len(s2)
        /\ \A i \in 1..Len(s1) + Len(s2) :
             (s1 \o s2)[i] = IF i <= Len(s1) THEN s1[i] ELSE s2[i - Len(s1)]
    BY ConcatProperties
  <1>2. 1 \in 1..Len(s1) + Len(s2) /\ 2 \in 1..Len(s1) + Len(s2)
    <2>1. CASE Len(s2) = 2
      BY <2>1
    <2>2. CASE Len(s2) = 4
      BY <2>2
    <2> QED
      BY <2>1, <2>2
  <1>3. (s1 \o s2)[1] = s1[1] /\ (s1 \o s2)[2] = s1[2]
    BY <1>1, <1>2
  <1>4. ASSUME NEW i \in 1..Len(s2) PROVE (s1 \o s2)[2 + i] = s2[i]
    <2>1. 2 + i \in 1..Len(s1) + Len(s2) /\ ~ (2 + i <= Len(s1)) /\ (2 + i) - Len(s1) = i
      OBVIOUS
    <2> QED
      BY <1>1, <2>1
  <1> QED
    BY <1>1, <1>3, <1>4

(* The four writes of an operation on both actuators.                         *)
LEMMA FourWrites ==
    ASSUME NEW w1 \in Call, NEW w2 \in Call, NEW w3 \in Call, NEW w4 \in Call,
           NEW s1, s1 = <<w1, w2>>, NEW s2, s2 = <<w3, w4>>
    PROVE  /\ s1 \o s2 \in Seq(Call) /\ Len(s1 \o s2) = 4
           /\ (s1 \o s2)[1] = w1 /\ (s1 \o s2)[2] = w2
           /\ (s1 \o s2)[3] = w3 /\ (s1 \o s2)[4] = w4
  <1>1. /\ s1 \in Seq(Call) /\ s2 \in Seq(Call) /\ Len(s1) = 2 /\ Len(s2) = 2
        /\ s1[1] = w1 /\ s1[2] = w2 /\ s2[1] = w3 /\ s2[2] = w4
    OBVIOUS
  <1>2. /\ s1 \o s2 \in Seq(Call) /\ Len(s1 \o s2) = 2 + Len(s2)
        /\ (s1 \o s2)[1] = s1[1] /\ (s1 \o s2)[2] = s1[2]
        /\ \A i \in 1..Len(s2) : (s1 \o s2)[2 + i] = s2[i]
    BY <1>1, JoinCalls
  <1>3. (s1 \o s2)[2 + 1] = s2[1] /\ (s1 \o s2)[2 + 2] = s2[2]
    BY <1>1, <1>2
  <1> QED
    BY <1>1, <1>2, <1>3

LEMMA SetActuatorsInv ==
    ASSUME Inv, NEW m1 \in Motion, NEW m2 \in Motion, NEW checked \in BOOLEAN,
           setActuators(m1, m2, checked)
    PROVE  Inv'
  <1> DEFINE new == setMotion(1, m1, checked) \o setMotion(2, m2, checked)
  <1>1. PICK c1 \in BOOLEAN : setMotion(1, m1, checked) =
            <<Write(PinA[1], LevelA(m1), c1), Write(PinB[1], LevelB(m1), c1)>>
    BY SetMotionCalls DEF Actuators
  <1>2. PICK c2 \in BOOLEAN : setMotion(2, m2, checked) =
            <<Write(PinA[2], LevelA(m2), c2), Write(PinB[2], LevelB(m2), c2)>>
    BY SetMotionCalls DEF Actuators
  <1>3. Issue(new) /\ calls' = new /\ wantPercent' = wantPercent /\ wantMotion' = <<m1, m2>>
    BY DEF setActuators, Issue
  <1>4. /\ new \in Seq(Call) /\ Len(new) = 4
        /\ new[1] = Write(PinA[1], LevelA(m1), c1) /\ new[2] = Write(PinB[1], LevelB(m1), c1)
        /\ new[3] = Write(PinA[2], LevelA(m2), c2) /\ new[4] = Write(PinB[2], LevelB(m2), c2)
    <2>1. \A m \in Motion : LevelA(m) \in 0..1 /\ LevelB(m) \in 0..1
      BY DEF LevelA, LevelB
    <2>2. /\ Write(PinA[1], LevelA(m1), c1) \in Call /\ Write(PinB[1], LevelB(m1), c1) \in Call
          /\ Write(PinA[2], LevelA(m2), c2) \in Call /\ Write(PinB[2], LevelB(m2), c2) \in Call
      BY <2>1, WriteIsCall DEF Actuators
    <2> QED
      BY <1>1, <1>2, <2>2, FourWrites
  <1>5. wantPercent \in [Drives -> Int]
    BY DEF Inv, TypeOK
  <1>6. /\ wantMotion' \in [Actuators -> Motion \cup {"UNSET"}]
        /\ wantMotion'[1] = m1 /\ wantMotion'[2] = m2 /\ m1 # "UNSET" /\ m2 # "UNSET"
    BY <1>3 DEF Actuators, Motion
  <1> HIDE DEF new
  <1>7. /\ Len(calls') = 4 /\ \A i \in 1..4 : calls'[i].op = "write"
        /\ calls'[1].pin = PinA[1] /\ calls'[1].value = LevelA(m1)
        /\ calls'[2].pin = PinB[1] /\ calls'[2].value = LevelB(m1)
        /\ calls'[3].pin = PinA[2] /\ calls'[3].value = LevelA(m2)
        /\ calls'[4].pin = PinB[2] /\ calls'[4].value = LevelB(m2)
    BY <1>3, <1>4 DEF Write
  <1>8. CallsAgree' /\ PinAFirst'
    BY <1>6, <1>7, PinsAreDistinct DEF CallsAgree, PinAFirst, Actuators
  <1>9. \A a \in Actuators : Pending(PinA[a])' /\ Pending(PinB[a])'
    BY <1>7 DEF Pending, Actuators
  <1> QED
    BY <1>3, <1>4, <1>5, <1>6, <1>8, <1>9, IssueInv

LEMMA StopCalls ==
    ASSUME NEW a \in Actuators
    PROVE  \E c \in BOOLEAN : stopActuator(a) = <<Write(PinA[a], 1, c), Write(PinB[a], 1, c)>>
  BY Zenon DEF stopActuator

LEMMA StopMovementInv == ASSUME Inv, stopMovement PROVE Inv'
  <1> DEFINE drives == <<Percent(LEFT_PIN, 0), Percent(RIGHT_PIN, 0)>>
             stops == stopActuator(1) \o stopActuator(2)
             new == drives \o stopActuator(1) \o stopActuator(2)
  <1>a. PICK c1 \in BOOLEAN :
            stopActuator(1) = <<Write(PinA[1], 1, c1), Write(PinB[1], 1, c1)>>
    BY StopCalls DEF Actuators
  <1>b. PICK c2 \in BOOLEAN :
            stopActuator(2) = <<Write(PinA[2], 1, c2), Write(PinB[2], 1, c2)>>
    BY StopCalls DEF Actuators
  <1>c. /\ Write(PinA[1], 1, c1) \in Call /\ Write(PinB[1], 1, c1) \in Call
        /\ Write(PinA[2], 1, c2) \in Call /\ Write(PinB[2], 1, c2) \in Call
    BY WriteIsCall DEF Actuators
  <1>1. /\ stops \in Seq(Call) /\ Len(stops) = 4
        /\ stops[1] = Write(PinA[1], 1, c1) /\ stops[2] = Write(PinB[1], 1, c1)
        /\ stops[3] = Write(PinA[2], 1, c2) /\ stops[4] = Write(PinB[2], 1, c2)
    BY <1>a, <1>b, <1>c, FourWrites
  <1>2. /\ drives \in Seq(Call) /\ Len(drives) = 2
        /\ drives[1] = Percent(LEFT_PIN, 0) /\ drives[2] = Percent(RIGHT_PIN, 0)
    BY PercentIsCall DEF Drives
  <1>3. new = drives \o stops
    <2>1. stopActuator(1) \in Seq(Call) /\ stopActuator(2) \in Seq(Call)
      <3>1. \A w1, w2 \in Call : <<w1, w2>> \in Seq(Call)
        OBVIOUS
      <3> QED
        BY <1>a, <1>b, <1>c, <3>1
    <2> HIDE DEF drives
    <2> QED
      BY <1>2, <2>1, ConcatAssociative
  <1>4. /\ Issue(new) /\ calls' = new
        /\ wantPercent' = [d \in Drives |-> 0] /\ wantMotion' = [a \in Actuators |-> "NONE"]
    BY DEF stopMovement, Issue
  <1> HIDE DEF drives, stops, new
  <1>5. /\ new \in Seq(Call) /\ Len(new) = 6
        /\ new[1] = drives[1] /\ new[2] = drives[2]
        /\ \A i \in 1..4 : new[2 + i] = stops[i]
    <2>1. /\ new \in Seq(Call) /\ Len(new) = 2 + Len(stops)
          /\ new[1] = drives[1] /\ new[2] = drives[2]
          /\ \A i \in 1..Len(stops) : new[2 + i] = stops[i]
      BY <1>1, <1>2, <1>3, JoinCalls
    <2> QED
      BY <1>1, <2>1
  <1>6. /\ new[1] = Percent(LEFT_PIN, 0) /\ new[2] = Percent(RIGHT_PIN, 0)
        /\ new[3] = Write(PinA[1], 1, c1) /\ new[4] = Write(PinB[1], 1, c1)
        /\ new[5] = Write(PinA[2], 1, c2) /\ new[6] = Write(PinB[2], 1, c2)
    <2>1. /\ new[2 + 1] = stops[1] /\ new[2 + 2] = stops[2]
          /\ new[2 + 3] = stops[3] /\ new[2 + 4] = stops[4]
      BY <1>5
    <2> QED
      BY <1>1, <1>2, <1>5, <2>1
  <1>7. /\ Len(calls') = 6
        /\ \A i \in 1..2 : calls'[i].op = "percent" /\ calls'[i].value = 0
        /\ \A i \in 3..6 : calls'[i].op = "write" /\ calls'[i].value = 1
        /\ calls'[1].pin = LEFT_PIN /\ calls'[2].pin = RIGHT_PIN
        /\ calls'[3].pin = PinA[1] /\ calls'[4].pin = PinB[1]
        /\ calls'[5].pin = PinA[2] /\ calls'[6].pin = PinB[2]
    BY <1>4, <1>5, <1>6 DEF Percent, Write
  <1>8. /\ wantPercent' \in [Drives -> Int]
        /\ wantMotion' \in [Actuators -> Motion \cup {"UNSET"}]
        /\ \A d \in Drives : wantPercent'[d] = 0
        /\ \A a \in Actuators : wantMotion'[a] = "NONE"
    BY <1>4 DEF Motion
  <1>9. CallsAgree'
    <2>1. LevelA("NONE") = 1 /\ LevelB("NONE") = 1
      BY DEF LevelA, LevelB
    <2>2. \A i \in 1..2 : calls'[i].pin \in Drives
      BY <1>7 DEF Drives
    <2>3. ASSUME NEW i \in 1..6
          PROVE  /\ calls'[i].op = "percent" => calls'[i].value = wantPercent'[calls'[i].pin]
                 /\ \A a \in Actuators :
                      calls'[i].pin \in {PinA[a], PinB[a]} => calls'[i].value = 1
      <3>1. CASE i \in 1..2
        BY <3>1, <1>7, <1>8, <2>2, PinsAreDistinct
      <3>2. CASE i \in 3..6
        BY <3>2, <1>7
      <3> QED
        BY <3>1, <3>2
    <2> QED
      BY <1>7, <1>8, <2>1, <2>3 DEF CallsAgree
  <1>12. PinAFirst'
    <2>1. LEFT_PIN \in Drives /\ RIGHT_PIN \in Drives
      BY DEF Drives
    <2> QED
      BY <1>7, <2>1, PinsAreDistinct DEF PinAFirst, Actuators
  <1>10. \A a \in Actuators : Pending(PinA[a])' /\ Pending(PinB[a])'
    BY <1>7 DEF Pending, Actuators
  <1>11. \A d \in Drives : Pending(d)'
    BY <1>7 DEF Pending, Drives
  <1> QED
    BY <1>4, <1>5, <1>8, <1>9, <1>10, <1>11, <1>12, IssueInv
--------------------------------------------------------------------------------
LEMMA OperationInv == ASSUME Inv, Operation PROVE Inv'
  <1>1. CASE \E left, right \in Percents : setDrivePercent(left, right)
    BY <1>1, MotorAssumption, SetDrivePercentInv
  <1>2. CASE \E m1, m2 \in Motion, checked \in BOOLEAN : setActuators(m1, m2, checked)
    BY <1>2, SetActuatorsInv
  <1>3. CASE stopMovement
    BY <1>3, StopMovementInv
  <1>4. CASE \E d \in Drives, percent \in Percents : setOneDrive(d, percent)
    BY <1>4, MotorAssumption, SetOneDriveInv
  <1>5. CASE \E a \in Actuators, motion \in Motion : setOneActuator(a, motion)
    BY <1>5, SetOneActuatorInv
  <1>6. CASE ReturnFalse
    BY <1>6, ReturnFalseInv
  <1> QED
    BY <1>1, <1>2, <1>3, <1>4, <1>5, <1>6 DEF Operation

LEMMA StutterInv == ASSUME Inv, UNCHANGED motorVars PROVE Inv'
  <1> USE DEF Inv, motorVars, objects, registers, wants
  <1>1. TypeOK' /\ ConstructedFirst'
    BY DEF TypeOK, ConstructedFirst
  <1>2. CallsAgree' /\ PinAFirst' /\ PercentsOwed' /\ LevelsOwed'
    BY DEF CallsAgree, PinAFirst, PercentsOwed, LevelsOwed, Pending
  <1>3. DutyIsCached' /\ LevelsNeedOutputs'
    BY DEF DutyIsCached, LevelsNeedOutputs
  <1> QED
    BY <1>1, <1>2, <1>3

LEMMA StepInv == Inv /\ [MotorNext]_motorVars => Inv'
  <1> SUFFICES ASSUME Inv, [MotorNext]_motorVars PROVE Inv'
    OBVIOUS
  <1>1. CASE getMotorContoller
    BY <1>1, StartInv
  <1>2. CASE ConstructorCall
    BY <1>2, ConstructorCallInv
  <1>3. CASE setPercent
    BY <1>3, setPercentInv
  <1>4. CASE gpioWrite
    BY <1>4, gpioWriteInv
  <1>5. CASE Operation
    BY <1>5, OperationInv
  <1>6. CASE Die
    BY <1>6, DieInv
  <1>7. CASE UNCHANGED motorVars
    BY <1>7, StutterInv
  <1> QED
    BY <1>1, <1>2, <1>3, <1>4, <1>5, <1>6, <1>7 DEF MotorNext, LibraryCall

(* The inductive invariant of the motors holds in every state, for every set of  *)
(* percentages and every pair of status values.                              *)
THEOREM MotorInvariant == MotorSpec => []Inv
  <1> QED
    BY InitInv, StepInv, PTL DEF MotorSpec

(* Type correctness of the motors.                                           *)
THEOREM MotorTypeOK == MotorSpec => []TypeOK
  <1>1. Inv => TypeOK
    BY DEF Inv
  <1> QED
    BY MotorInvariant, <1>1, PTL

(* Between operations nothing is pending, so what is owed has been delivered.    *)
LEMMA ReadyOutputs == Inv => OutputsFollowCommands
  <1> SUFFICES ASSUME Inv, Ready PROVE
          /\ \A d \in Drives : duty[d] = DutyCycle(ClampPercent(wantPercent[d]))
          /\ \A a \in Actuators : wantMotion[a] # "UNSET" => MotionOf(a) = wantMotion[a]
    BY DEF OutputsFollowCommands
  <1>1. built = 8 /\ calls = <<>>
    BY ConstructOrder DEF Ready
  <1>2. \A pin : ~ Pending(pin)
    BY <1>1 DEF Pending
  <1>3. ASSUME NEW d \in Drives PROVE duty[d] = DutyCycle(ClampPercent(wantPercent[d]))
    BY <1>1, <1>2 DEF Inv, DutyIsCached, PercentsOwed, Drives
  <1>4. ASSUME NEW a \in Actuators, wantMotion[a] # "UNSET" PROVE MotionOf(a) = wantMotion[a]
    <2>1. PinA[a] \in outputs /\ PinB[a] \in outputs
      BY <1>1, ConstructOrder DEF Inv, ConstructedFirst, Actuators
    <2>2. level[PinA[a]] = LevelA(wantMotion[a]) /\ level[PinB[a]] = LevelB(wantMotion[a])
      BY <1>2, <1>4 DEF Inv, LevelsOwed
    <2>3. wantMotion[a] \in {"NONE", "RETRACTING", "EXTENDING"}
      BY <1>4 DEF Inv, TypeOK, Motion
    <2>4. /\ Signal(PinA[a]) <=> wantMotion[a] # "RETRACTING"
          /\ Signal(PinB[a]) <=> wantMotion[a] # "EXTENDING"
      BY <2>1, <2>2 DEF Signal, LevelA, LevelB
    <2>5. CASE wantMotion[a] = "EXTENDING"
      BY <2>4, <2>5 DEF MotionOf
    <2>6. CASE wantMotion[a] = "RETRACTING"
      BY <2>4, <2>6 DEF MotionOf
    <2>7. CASE wantMotion[a] = "NONE"
      BY <2>4, <2>7 DEF MotionOf
    <2> QED
      BY <2>3, <2>5, <2>6, <2>7
  <1> QED
    BY <1>3, <1>4

(* Between operations, the wheels and actuators do what was last asked of them,   *)
(* however many restarts, repeated commands and clamped percentages came before. *)
THEOREM CommandsReachOutputs == MotorSpec => []OutputsFollowCommands
  BY MotorInvariant, ReadyOutputs, PTL
--------------------------------------------------------------------------------
(* Steps that leave the GPIO registers alone move no actuator.                 *)
LEMMA SameSignals ==
    ASSUME NEW a \in Actuators, Signal(PinA[a])' <=> Signal(PinA[a]),
           Signal(PinB[a])' <=> Signal(PinB[a])
    PROVE  MotionOf(a)' = MotionOf(a)
  BY DEF MotionOf

(* Making the pins outputs moves nothing: either they already were, or no level   *)
(* has ever been written.                                                    *)
LEMMA ConstructorMovesNothing ==
    ASSUME Inv, ConstructorCall
    PROVE  /\ \A a \in Actuators : MotionOf(a)' = MotionOf(a)
           /\ \A d \in Drives : duty'[d] \in {duty[d], 0, STOP_PWM}
  <1> DEFINE c == Construct[built + 1]
  <1>1. /\ level' = level
        /\ \/ duty' = [duty EXCEPT ![c.pin] = 0] /\ outputs' = outputs
           \/ duty' = [duty EXCEPT ![c.pin] = STOP_PWM] /\ outputs' = outputs
           \/ outputs' = outputs \cup {c.pin} /\ duty' = duty
    <2>1. GpioPwmAccepts(STOP_PWM)
      BY DutyRange
    <2> QED
      BY <2>1 DEF ConstructorCall, gpioSetPWMfrequency, gpioPWM, gpioSetMode
  <1> HIDE DEF c
  <1>2. /\ outputs \subseteq ActuatorPins /\ outputs' \subseteq ActuatorPins
        /\ outputs = ActuatorPins \/ level = [p \in ActuatorPins |-> 0]
    BY ConstructorCallInv DEF Inv, TypeOK, LevelsNeedOutputs
  <1>3. \A p \in ActuatorPins : Signal(p)' <=> Signal(p)
    BY <1>1, <1>2 DEF Signal
  <1>4. \A a \in Actuators : MotionOf(a)' = MotionOf(a)
    BY <1>3, SameSignals, PinsAreDistinct
  <1>5. ASSUME NEW d \in Drives PROVE duty'[d] \in {duty[d], 0, STOP_PWM}
    BY <1>1 DEF Inv, TypeOK
  <1> QED
    BY <1>4, <1>5

(* One write of one pin: towards what is wanted, or the pulse of a first stop.    *)
LEMMA WriteMovesAsCommanded ==
    ASSUME Inv, gpioWrite, NEW a \in Actuators,
           MotionOf(a)' \notin {MotionOf(a), "NONE"}
    PROVE  \/ MotionOf(a)' = wantMotion'[a]
           \/ /\ wantMotion'[a] = "NONE"
              /\ ~ Signal(PinA[a]) /\ ~ Signal(PinB[a])
              /\ MotionOf(a)' = "EXTENDING"
  <1> DEFINE pin == Head(calls).pin
             value == Head(calls).value
             want == wantMotion[a]
  <1>1. /\ calls # <<>> /\ calls \in Seq(Call)
        /\ level' = [level EXCEPT ![pin] = value]
        /\ outputs' = outputs /\ wantMotion' = wantMotion
        /\ level \in [ActuatorPins -> 0..1]
    BY DEF gpioWrite, Inv, TypeOK, wants
  <1>2. 1 \in 1..Len(calls) /\ Head(calls) = calls[1]
    BY <1>1, EmptySeq, HeadTailProperties
  <1>3. /\ level'[PinA[a]] = IF pin = PinA[a] THEN value ELSE level[PinA[a]]
        /\ level'[PinB[a]] = IF pin = PinB[a] THEN value ELSE level[PinB[a]]
    BY <1>1, PinsAreDistinct
  <1> HIDE DEF pin, value, want
  <1>4. pin = PinA[a] \/ pin = PinB[a]
    <2> SUFFICES ASSUME pin # PinA[a], pin # PinB[a] PROVE FALSE
      OBVIOUS
    <2>1. (Signal(PinA[a])' <=> Signal(PinA[a])) /\ (Signal(PinB[a])' <=> Signal(PinB[a]))
      BY <1>1, <1>3 DEF Signal
    <2> QED
      BY <2>1, SameSignals
  <1>5. /\ want \in {"NONE", "RETRACTING", "EXTENDING"}
        /\ pin = PinA[a] => value = LevelA(want)
        /\ pin = PinB[a] => value = LevelB(want)
    BY <1>2, <1>4 DEF Inv, CallsAgree, TypeOK, Motion, pin, value, want
  <1>6. pin = PinB[a] => level[PinA[a]] = LevelA(want)
    <2> SUFFICES ASSUME pin = PinB[a] PROVE level[PinA[a]] = LevelA(want)
      OBVIOUS
    <2>1. ~ Pending(PinA[a])
      <3> SUFFICES ASSUME NEW j \in 1..Len(calls), calls[j].pin = PinA[a] PROVE FALSE
        BY DEF Pending
      <3>1. j < 1
        BY <1>2 DEF Inv, PinAFirst, pin
      <3> QED
        BY <3>1
    <2>2. want # "UNSET"
      BY <1>5
    <2> QED
      BY <2>1, <2>2 DEF Inv, LevelsOwed, want
  <1>7. PinA[a] # PinB[a]
    BY PinsAreDistinct
  <1>8. outputs = ActuatorPins
    <2>1. built = 8
      BY <1>1, CallsNeedReady
    <2>2. PinA[1] \in outputs /\ PinB[1] \in outputs /\ PinA[2] \in outputs /\ PinB[2] \in outputs
      BY <2>1, ConstructOrder DEF Inv, ConstructedFirst
    <2> QED
      BY <2>2 DEF Inv, TypeOK, PinA, PinB, ActuatorPins
  <1>9. /\ Signal(PinA[a]) <=> level[PinA[a]] = 1
        /\ Signal(PinB[a]) <=> level[PinB[a]] = 1
        /\ Signal(PinA[a])' <=> level'[PinA[a]] = 1
        /\ Signal(PinB[a])' <=> level'[PinB[a]] = 1
    BY <1>1, <1>8, PinsAreDistinct DEF Signal
  <1>10. CASE pin = PinB[a]
    <2>1. level'[PinA[a]] = LevelA(want) /\ level'[PinB[a]] = LevelB(want)
      BY <1>3, <1>5, <1>6, <1>7, <1>10
    <2>2. MotionOf(a)' = want
      BY <1>5, <1>9, <2>1 DEF MotionOf, LevelA, LevelB
    <2> QED
      BY <1>1, <2>2 DEF want
  <1>11. CASE pin = PinA[a]
    <2>1. level'[PinA[a]] = LevelA(want) /\ level'[PinB[a]] = level[PinB[a]]
      BY <1>3, <1>5, <1>7, <1>11
    <2>2. CASE want = "EXTENDING"
      BY <1>1, <1>9, <2>1, <2>2 DEF MotionOf, LevelA, want
    <2>3. CASE want = "RETRACTING"
      BY <1>1, <1>9, <2>1, <2>3 DEF MotionOf, LevelA, want
    <2>4. CASE want = "NONE"
      <3>1. Signal(PinA[a])' /\ (Signal(PinB[a])' <=> Signal(PinB[a]))
        BY <1>9, <2>1, <2>4 DEF LevelA
      <3>2. ~ Signal(PinB[a])' /\ MotionOf(a)' = "EXTENDING"
        BY <3>1 DEF MotionOf
      <3>3. ~ Signal(PinA[a])
        BY <3>1, <3>2, SameSignals
      <3> QED
        BY <1>1, <2>4, <3>1, <3>2, <3>3 DEF want
    <2> QED
      BY <1>5, <2>2, <2>3, <2>4
  <1> QED
    BY <1>4, <1>10, <1>11

(* The steps that write no GPIO register.                                     *)
LEMMA OthersMoveNothing ==
    ASSUME getMotorContoller \/ setPercent \/ Operation \/ Die \/ UNCHANGED motorVars
    PROVE  \A a \in Actuators : MotionOf(a)' = MotionOf(a)
  <1>1. level' = level /\ outputs' = outputs
    <2>1. CASE getMotorContoller
      BY <2>1 DEF getMotorContoller, registers
    <2>2. CASE setPercent
      BY <2>2 DEF setPercent, gpioPWM, registers
    <2>3. CASE Operation
      BY <2>3 DEF Operation, setDrivePercent, setActuators, stopMovement, setOneDrive,
                  setOneActuator, Issue, ReturnFalse, registers
    <2>4. CASE Die
      BY <2>4 DEF Die, registers
    <2>5. CASE UNCHANGED motorVars
      BY <2>5 DEF motorVars, registers
    <2> QED
      BY <2>1, <2>2, <2>3, <2>4, <2>5
  <1>2. \A p : Signal(p)' <=> Signal(p)
    BY <1>1 DEF Signal
  <1> QED
    BY <1>2, SameSignals

(* No interleaving of pin writes, restarts and operations moves an actuator in a  *)
(* direction nobody asked for, the first stop's pulse apart.                  *)
THEOREM ActuatorsMoveAsCommanded == MotorSpec => MovesOnlyAsCommanded
  <1>1. Inv /\ [MotorNext]_motorVars => [\A a \in Actuators : MovesAsCommanded(a)]_motorVars
    <2> SUFFICES ASSUME Inv, MotorNext, NEW a \in Actuators PROVE MovesAsCommanded(a)
      OBVIOUS
    <2>1. CASE gpioWrite
      BY <2>1, WriteMovesAsCommanded DEF MovesAsCommanded
    <2>2. CASE ConstructorCall
      BY <2>2, ConstructorMovesNothing DEF MovesAsCommanded
    <2>3. CASE getMotorContoller \/ setPercent \/ Operation \/ Die
      BY <2>3, OthersMoveNothing DEF MovesAsCommanded
    <2> QED
      BY <2>1, <2>2, <2>3 DEF MotorNext, LibraryCall
  <1> QED
    BY MotorInvariant, <1>1, PTL DEF MotorSpec, MovesOnlyAsCommanded

(* A start of the program, whatever the earlier process left on the board, moves  *)
(* no actuator and gives a wheel nothing but the stop pulse or no pulse.      *)
THEOREM RestartIsStill == MotorSpec => RestartMovesNothing
  <1>1. Inv /\ [MotorNext]_motorVars => [StartMovesNothing]_motorVars
    <2> SUFFICES ASSUME Inv, MotorNext, process' # process \/ built' # built
                 PROVE  /\ \A a \in Actuators : MotionOf(a)' = MotionOf(a)
                        /\ \A d \in Drives : duty'[d] \in {duty[d], 0, STOP_PWM}
      BY DEF StartMovesNothing
    <2>1. CASE ConstructorCall
      BY <2>1, ConstructorMovesNothing
    <2>2. CASE getMotorContoller \/ Die
      <3>1. duty' = duty
        BY <2>2 DEF getMotorContoller, gpioInitialise, Die, registers
      <3> QED
        BY <2>2, <3>1, OthersMoveNothing
    <2>3. CASE setPercent \/ gpioWrite
      BY <2>3 DEF setPercent, gpioPWM, gpioWrite, registers
    <2>4. CASE Operation
      BY <2>4 DEF Operation, setDrivePercent, setActuators, stopMovement, setOneDrive,
                  setOneActuator, Issue, ReturnFalse
    <2> QED
      BY <2>1, <2>2, <2>3, <2>4 DEF MotorNext, LibraryCall
  <1> QED
    BY MotorInvariant, <1>1, PTL DEF MotorSpec, RestartMovesNothing
================================================================================
