------------------------- MODULE StepperMotorProofs -------------------------
(***************************************************************************)
(* Proofs about StepperMotor, for every value of its constants: first of   *)
(* the operators of MotorArith, for every distance and place (the control  *)
(* law and its reference definition, the duty register, the quadrature     *)
(* decoder), then of the boards.                                           *)
(***************************************************************************)
EXTENDS PositionLink, MCStepperMotor, LeastElements

LEMMA ClampBounds ==
  ASSUME NEW lo \in Int, NEW hi \in Int, NEW n \in Int, lo <= hi
  PROVE  Clamp(lo, hi, n) \in lo..hi
BY DEF Clamp

(***************************************************************************)
(* get_pwm (stepper_motor.c:58-68) returns a percentage, of the sign of    *)
(* the distance and no smaller than MIN_PWM_DUTY; zero only at distance 0. *)
(***************************************************************************)
LEMMA GetPwmSign ==
  ASSUME NEW distance \in Int
  PROVE  /\ GetPwm(distance) \in -100..100
         /\ distance = 0 => GetPwm(distance) = 0
         /\ distance > 0 => GetPwm(distance) >= MIN_PWM_DUTY
         /\ distance < 0 => GetPwm(distance) <= -MIN_PWM_DUTY
<1> DEFINE d   == Clamp(-200, 200, distance)
           sq  == (d * Abs(d)) \div 256
           pwm == Clamp(-100, 100, sq)
<1>1. /\ d \in Int
      /\ distance = 0 => d = 0
      /\ distance > 0 => d > 0
      /\ distance < 0 => d < 0
  BY DEF Clamp
<1>2. sq \in Int /\ (d = 0 => sq = 0)
  <2>1. Abs(d) \in Int
    BY <1>1 DEF Abs
  <2>2. d * Abs(d) \in Int /\ (d = 0 => d * Abs(d) = 0)
    BY <1>1, <2>1
  <2> QED  BY <2>2
<1>3. pwm \in -100..100 /\ (d = 0 => pwm = 0)
  BY <1>2 DEF Clamp
<1>4. GetPwm(distance) = IF d < 0 /\ pwm > -MIN_PWM_DUTY THEN -MIN_PWM_DUTY
                         ELSE IF d > 0 /\ pwm < MIN_PWM_DUTY THEN MIN_PWM_DUTY
                         ELSE pwm
  BY DEF GetPwm
<1> HIDE DEF d, sq, pwm
<1> QED  BY <1>1, <1>3, <1>4 DEF MIN_PWM_DUTY

(***************************************************************************)
(* The duty register keeps the sign and loses no percentage to rounding.   *)
(***************************************************************************)
LEMMA EncodeDutyShape ==
  ASSUME NEW duty \in -100..100
  PROVE  /\ EncodeDuty(duty) \in [dir : Directions, cycles : Nat]
         /\ Drive(EncodeDuty(duty)) = IF duty > 0 THEN 1
                                      ELSE IF duty < 0 THEN -1 ELSE 0
<1>1. (PWM_PERIOD * Abs(duty)) \div 100 = 50 * Abs(duty) /\ Abs(duty) \in Nat
  BY DEF PWM_PERIOD, Abs
<1>2. Abs(duty) = 0 <=> duty = 0
  BY DEF Abs
<1> QED  BY <1>1, <1>2 DEF EncodeDuty, Drive, Directions

LEMMA SetMotorDutycycleOfDuty ==
  ASSUME NEW reg, NEW duty \in -100..100
  PROVE  SetMotorDutycycle(reg, duty) = EncodeDuty(duty)
BY DEF SetMotorDutycycle

(***************************************************************************)
(* From every distance, and whatever the register held, the handler's and  *)
(* the task's get_pwm and set_motor_dutycycle (stepper_motor.c:85-86, 146, *)
(* 148) turn the motor towards the set-point, and stop it there.           *)
(***************************************************************************)
THEOREM DrivesTowards ==
  ASSUME NEW distance \in Int, NEW reg
  PROVE  Drive(SetMotorDutycycle(reg, GetPwm(distance)))
           = IF distance > 0 THEN 1 ELSE IF distance < 0 THEN -1 ELSE 0
<1>1. GetPwm(distance) \in -100..100
  BY GetPwmSign
<1>2. SetMotorDutycycle(reg, GetPwm(distance)) = EncodeDuty(GetPwm(distance))
  BY <1>1, SetMotorDutycycleOfDuty
<1>3. CASE distance > 0
  BY <1>1, <1>2, <1>3, GetPwmSign, EncodeDutyShape DEF MIN_PWM_DUTY
<1>4. CASE distance < 0
  BY <1>1, <1>2, <1>4, GetPwmSign, EncodeDutyShape DEF MIN_PWM_DUTY
<1>5. CASE distance = 0
  BY <1>1, <1>2, <1>5, GetPwmSign, EncodeDutyShape
<1> QED  BY <1>3, <1>4, <1>5

-----------------------------------------------------------------------------
(* The decoder                                                             *)

LEMMA PhaseIndexOfPhase ==
  ASSUME NEW n \in Int
  PROVE  Phase(n) \in MotorStates /\ PhaseIndex(Phase(n)) = n % 4
<1>1. n % 4 \in 0..3
  OBVIOUS
<1> QED  BY <1>1 DEF Phase, PhaseIndex, MotorStates

LEMMA LinesOfState ==
  ASSUME NEW state \in MotorStates
  PROVE  /\ LineA(state) \in {0, 1} /\ LineB(state) \in {0, 1}
         /\ LineA(state) + 2 * LineB(state) = state
BY DEF MotorStates, LineA, LineB

\* The two reads of MOTOR_SR give an encoder state, even of different phases.
LEMMA StateOfLines ==
  ASSUME NEW a \in {0, 1}, NEW state \in MotorStates
  PROVE  a + 2 * LineB(state) \in MotorStates
BY DEF MotorStates, LineB

LEMMA DecodeParity ==
  ASSUME NEW old \in MotorStates, NEW new \in MotorStates
  PROVE  /\ Decode(old, new) \in {-1, 0, 1}
         /\ (Decode(old, new) - PhaseIndex(new) + PhaseIndex(old)) % 2 = 0
<1>1. \A s, t \in {0, 1, 2, 3} :
        TransitionTable[Transition(s, t)] =
          IF <<s, t>> \in {<<0, 1>>, <<1, 3>>, <<3, 2>>, <<2, 0>>} THEN 1
          ELSE IF <<s, t>> \in {<<1, 0>>, <<3, 1>>, <<2, 3>>, <<0, 2>>} THEN -1
          ELSE 0
  BY DEF Transition, TransitionTable
<1>2. /\ PhaseIndex(0) = 0 /\ PhaseIndex(1) = 1
      /\ PhaseIndex(3) = 2 /\ PhaseIndex(2) = 3
  BY DEF PhaseIndex
<1>3. /\ old \in {0, 1, 2, 3} /\ new \in {0, 1, 2, 3}
  BY DEF MotorStates
<1>4. CASE old = 0
  BY <1>1, <1>2, <1>3, <1>4 DEF Decode
<1>5. CASE old = 1
  BY <1>1, <1>2, <1>3, <1>5 DEF Decode
<1>6. CASE old = 2
  BY <1>1, <1>2, <1>3, <1>6 DEF Decode
<1>7. CASE old = 3
  BY <1>1, <1>2, <1>3, <1>7 DEF Decode
<1> QED  BY <1>3, <1>4, <1>5, <1>6, <1>7

LEMMA DecodeStep ==
  ASSUME NEW n \in Int, NEW step \in {-1, 0, 1}
  PROVE  Decode(Phase(n), Phase(n + step)) = step
<1>1. n % 4 \in {0, 1, 2, 3}
  OBVIOUS
<1>2. (n + 1) % 4 = IF n % 4 = 3 THEN 0 ELSE (n % 4) + 1
  OBVIOUS
<1>3. (n - 1) % 4 = IF n % 4 = 0 THEN 3 ELSE (n % 4) - 1
  OBVIOUS
<1>4. Decode(Phase(n), Phase(n)) = 0
  BY <1>1 DEF Decode, TransitionTable, Transition, Phase
<1>5. Decode(Phase(n), Phase(n + 1)) = 1
  BY <1>1, <1>2 DEF Decode, TransitionTable, Transition, Phase
<1>6. Decode(Phase(n), Phase(n - 1)) = -1
  BY <1>1, <1>3 DEF Decode, TransitionTable, Transition, Phase
<1>7. n + 0 = n /\ n + -1 = n - 1
  OBVIOUS
<1> QED  BY <1>4, <1>5, <1>6, <1>7

-----------------------------------------------------------------------------
(* The reference definition                                                *)

\* Beyond 200 the square is out of the percentages' reach.
LEMMA FarSquare ==
  ASSUME NEW d \in Int, d > 200 \/ d < -200
  PROVE  d * d \in Int /\ d * d >= 25600
<1>1. \A x \in Int : x > 200 => x * x >= 200 * x
  OBVIOUS
<1>2. (-d) * (-d) = d * d
  OBVIOUS
<1>3. CASE d > 200
  BY <1>1, <1>3
<1>4. CASE d < -200
  <2>1. -d \in Int /\ -d > 200
    BY <1>4
  <2>2. (-d) * (-d) >= 200 * (-d)
    BY <1>1, <2>1
  <2> QED  BY <1>2, <2>1, <2>2
<1> QED  BY <1>3, <1>4

\* The square of the clamped distance, with the distance's sign, over 256.
LEMMA PwmOfSquare ==
  ASSUME NEW d \in Int
  PROVE  \E q \in Int :
           /\ GetPwm(d) = IF d < 0 /\ Clamp(-100, 100, q) > -MIN_PWM_DUTY
                            THEN -MIN_PWM_DUTY
                          ELSE IF d > 0 /\ Clamp(-100, 100, q) < MIN_PWM_DUTY
                            THEN MIN_PWM_DUTY
                          ELSE Clamp(-100, 100, q)
           /\ d \in 0..200 => 256 * q <= d * d /\ d * d < 256 * q + 256
           /\ d > 200 => q >= 100
           /\ d \in -200..0 => 256 * q <= -(d * d) /\ -(d * d) < 256 * q + 256
           /\ d < -200 => q <= -100
<1> DEFINE c == Clamp(-200, 200, d)
           s == c * Abs(c)
           q == s \div 256
<1>1. /\ c \in Int /\ (c < 0 <=> d < 0) /\ (c > 0 <=> d > 0)
      /\ d > 200 => c = 200
      /\ d < -200 => c = -200
      /\ d \in -200..200 => c = d
  BY DEF Clamp
<1>2. /\ s \in Int
      /\ d > 200 => s = 40000
      /\ d < -200 => s = -40000
      /\ d \in 0..200 => s = d * d
      /\ d \in -200..0 => s = -(d * d)
  <2>1. \A x \in Int : x * (-x) = -(x * x) /\ x * x \in Int
    OBVIOUS
  <2>2. Abs(c) = IF c < 0 THEN -c ELSE c
    BY DEF Abs
  <2> HIDE DEF c
  <2>3. CASE c < 0
    <3>1. s = -(c * c)
      BY <1>1, <2>1, <2>2, <2>3
    <3> QED  BY <1>1, <2>1, <2>3, <3>1
  <2>4. CASE ~(c < 0)
    <3>1. s = c * c
      BY <1>1, <2>2, <2>4
    <3> QED  BY <1>1, <2>1, <2>4, <3>1
  <2> QED  BY <2>3, <2>4
<1>3. q \in Int /\ 256 * q <= s /\ s < 256 * q + 256
  <2> HIDE DEF s
  <2> QED  BY <1>2
<1>4. GetPwm(d) = IF d < 0 /\ Clamp(-100, 100, q) > -MIN_PWM_DUTY
                    THEN -MIN_PWM_DUTY
                  ELSE IF d > 0 /\ Clamp(-100, 100, q) < MIN_PWM_DUTY
                    THEN MIN_PWM_DUTY
                  ELSE Clamp(-100, 100, q)
  <2>1. GetPwm(d) = IF c < 0 /\ Clamp(-100, 100, q) > -MIN_PWM_DUTY
                      THEN -MIN_PWM_DUTY
                    ELSE IF c > 0 /\ Clamp(-100, 100, q) < MIN_PWM_DUTY
                      THEN MIN_PWM_DUTY
                    ELSE Clamp(-100, 100, q)
    BY DEF GetPwm
  <2> HIDE DEF c, q
  <2> QED  BY <1>1, <2>1
<1> HIDE DEF c, s, q
<1> QED  BY <1>2, <1>3, <1>4

(***************************************************************************)
(* get_pwm (stepper_motor.c:58-68), with its clamps and its shift of a     *)
(* negative number, computes the duty of the reference definition at every *)
(* distance, not only those of a sweep.                                    *)
(***************************************************************************)
THEOREM PwmIsReference ==
  ASSUME NEW d \in Int
  PROVE  GetPwm(d) = ReferenceDuty(d)
<1> DEFINE square == d * d
<1>1. PICK q \in Int :
           /\ GetPwm(d) = IF d < 0 /\ Clamp(-100, 100, q) > -MIN_PWM_DUTY
                            THEN -MIN_PWM_DUTY
                          ELSE IF d > 0 /\ Clamp(-100, 100, q) < MIN_PWM_DUTY
                            THEN MIN_PWM_DUTY
                          ELSE Clamp(-100, 100, q)
           /\ d \in 0..200 => 256 * q <= square /\ square < 256 * q + 256
           /\ d > 200 => q >= 100
           /\ d \in -200..0 => 256 * q <= -square /\ -square < 256 * q + 256
           /\ d < -200 => q <= -100
  BY PwmOfSquare
<1>2. square \in Int /\ (d > 200 \/ d < -200 => square >= 25600)
  BY FarSquare
<1>3. d = 0 => square = 0
  OBVIOUS
<1>r. ReferenceDuty(d) =
        IF d = 0 THEN 0
        ELSE IF d > 0
          THEN Max({MIN_PWM_DUTY} \cup {p \in 0..100 : 256 * p <= square})
        ELSE -Min({100} \cup {p \in MIN_PWM_DUTY..100 : 256 * p >= square})
  BY DEF ReferenceDuty
<1> HIDE DEF square
<1> DEFINE duty == GetPwm(d)
<1>4. CASE d = 0
  <2>1. q = 0
    BY <1>1, <1>3, <1>4
  <2> QED  BY <1>1, <1>4, <1>r, <2>1 DEF Clamp
<1>5. CASE d > 0
  <2>1. duty = IF q < MIN_PWM_DUTY THEN MIN_PWM_DUTY
               ELSE IF q > 100 THEN 100 ELSE q
    BY <1>1, <1>5 DEF Clamp, MIN_PWM_DUTY
  <2> DEFINE S == {MIN_PWM_DUTY} \cup {p \in 0..100 : 256 * p <= square}
  <2> HIDE DEF duty
  <2>2. S \in SUBSET Int
    BY DEF MIN_PWM_DUTY
  <2>3. duty \in S
    BY <1>1, <1>2, <1>5, <2>1 DEF MIN_PWM_DUTY
  <2>4. \A x \in S : duty >= x
    BY <1>1, <1>2, <1>5, <2>1 DEF MIN_PWM_DUTY
  <2> HIDE DEF S
  <2>5. Max(S) = duty
    BY <2>2, <2>3, <2>4, GreatestIs
  <2> QED  BY <1>5, <1>r, <2>5 DEF S, duty
<1>6. CASE d < 0
  <2> DEFINE S == {100} \cup {p \in MIN_PWM_DUTY..100 : 256 * p >= square}
             m == -duty
  <2>1. m = IF q > -MIN_PWM_DUTY THEN MIN_PWM_DUTY
            ELSE IF q < -100 THEN 100 ELSE -q
    BY <1>1, <1>6 DEF Clamp, MIN_PWM_DUTY
  <2>2. duty = -m
    <3>1. \A x \in Int : x = -(-x)
      OBVIOUS
    <3>2. duty \in Int
      BY GetPwmSign
    <3> QED  BY <3>1, <3>2
  <2> HIDE DEF duty, m
  <2>3. S \in SUBSET Int
    BY DEF MIN_PWM_DUTY
  <2>4. m \in S
    BY <1>1, <1>2, <1>6, <2>1 DEF MIN_PWM_DUTY
  <2>5. \A x \in S : m <= x
    BY <1>1, <1>2, <1>6, <2>1 DEF MIN_PWM_DUTY
  <2> HIDE DEF S
  <2>6. Min(S) = m
    BY <2>3, <2>4, <2>5, LeastIs
  <2> QED  BY <1>6, <1>r, <2>2, <2>6 DEF S, duty
<1> QED  BY <1>4, <1>5, <1>6

-----------------------------------------------------------------------------
(* The steps of the boards                                                 *)

(***************************************************************************)
(* Every action of the specification, for proofs by cases.                 *)
(***************************************************************************)
LEMMA NextCases ==
  ASSUME [Next]_vars
  PROVE  \/ \E step \in {-1, 1} : Turn(step) /\ (Hand \/ Drive(pwmReg) = step)
         \/ IsrEnter \/ IsrDecode \/ IsrControl
         \/ IsrSetReg \/ IsrSetShared \/ IsrClear
         \/ InitReset \/ InitReadA \/ InitReadB
         \/ \E operand \in {"desired", "position"} : TaskTake(operand)
         \/ TaskCompute \/ TaskDisable \/ TaskSetReg
         \/ TaskSetShared \/ TaskEnable
         \/ \E v \in SetPoints : UdpReceive(v)
         \/ UdpReceiveFails \/ UdpGive
         \/ UNCHANGED vars
<1>1. ASSUME MotorTurns
      PROVE  \E step \in {-1, 1} : Turn(step) /\ Drive(pwmReg) = step
  BY <1>1 DEF MotorTurns, Drive
<1> QED
  BY <1>1 DEF Next, Environment, HandTurns, SetPointArrives, Isr, Task,
              MotorInit

-----------------------------------------------------------------------------
(* Types                                                                   *)

TypeInv == TypeOK /\ (task.pc = "initB" => task.val \in {0, 1})

LEMMA TypeInit == Init => TypeInv
BY MotorAssumption
   DEF Init, TypeInv, TypeOK, IdleIsr, WaitTask, PwmOff, Directions, Duties,
       MotorStates, IsrPcs, TaskPcs

LEMMA TypeNext == TypeInv /\ [Next]_vars => TypeInv'
<1> SUFFICES ASSUME TypeInv, [Next]_vars PROVE TypeInv'
  OBVIOUS
<1> USE MotorAssumption DEF TypeInv, TypeOK, Duties
<1>p. Phase(shaft) \in MotorStates
  BY PhaseIndexOfPhase
<1>l. LineA(Phase(shaft)) \in {0, 1}
  BY <1>p, LinesOfState
<1>1. ASSUME NEW step \in {-1, 1}, Turn(step) PROVE TypeInv'
  BY <1>1 DEF Turn, shared, history
<1>2. CASE IsrEnter
  BY <1>2, <1>l DEF IsrEnter, IsrPcs, hardware, shared, history
<1>3. CASE IsrDecode
  <2> DEFINE new == isr.a + 2 * LineB(Phase(shaft))
  <2>1. new \in MotorStates
    BY <1>p, StateOfLines
  <2>2. Decode(motorState, new) \in {-1, 0, 1}
    BY <2>1, DecodeParity
  <2>3. PICK pc \in IsrPcs : isr' = [isr EXCEPT !.pc = pc, !.a = 0]
    BY <1>3 DEF IsrDecode, IsrPcs
  <2>4. isr' \in [pc : IsrPcs, a : {0, 1}, duty : Duties, target : Int]
    BY <2>3
  <2>5. motorState' = new /\ position' = position + Decode(motorState, new)
    BY <1>3 DEF IsrDecode
  <2>6. UNCHANGED <<hardware, desired, pwmDuty, sem, task, udpPc, history>>
    BY <1>3 DEF IsrDecode
  <2> HIDE DEF new
  <2> QED  BY <2>1, <2>2, <2>4, <2>5, <2>6 DEF hardware, history
<1>4. CASE IsrControl
  <2>1. GetPwm(desired - position) \in -100..100
    BY GetPwmSign
  <2> QED  BY <1>4, <2>1 DEF IsrControl, IsrPcs, hardware, shared, history
<1>5. CASE IsrSetReg
  <2>1. SetMotorDutycycle(pwmReg, isr.duty)
          \in [dir : Directions, cycles : Nat]
    <3>1. isr.duty \in Duties  OBVIOUS
    <3> QED  BY ONLY <3>1, EncodeDutyShape, SetMotorDutycycleOfDuty
  <2> QED  BY <1>5, <2>1 DEF IsrSetReg, IsrPcs, shared
<1>6. CASE IsrSetShared
  BY <1>6 DEF IsrSetShared, IsrPcs, hardware, history
<1>7. CASE IsrClear
  BY <1>7 DEF IsrClear, IdleIsr, IsrPcs, shared, history
<1>8. CASE InitReset
  BY <1>8 DEF InitReset, PwmOff, Directions, TaskPcs, history
<1>9. CASE InitReadA
  <2>1. PICK a \in {0, 1} :
          task' = [task EXCEPT !.pc = "initB", !.val = a]
    BY <1>9, <1>l DEF InitReadA
  <2>2. /\ task' \in [pc : TaskPcs, read : {"none", "desired", "position"},
                      val : Int, duty : Duties, target : Int]
        /\ task'.val \in {0, 1}
    <3>1. a \in Int
      OBVIOUS
    <3> QED  BY <2>1, <3>1 DEF TaskPcs
  <2> QED  BY <1>9, <2>2 DEF InitReadA, hardware, shared, history
<1>10. CASE InitReadB
  <2> DEFINE new == task.val + 2 * LineB(Phase(shaft))
  <2>1. new \in MotorStates
    BY <1>10, <1>p, StateOfLines DEF InitReadB
  <2>2. PhaseIndex(new) \in Int
    BY <2>1 DEF MotorStates, PhaseIndex
  <2>3. NearestPlace(shaft, new) \in Int
    BY <2>2 DEF NearestPlace
  <2> QED  BY <1>10, <2>1, <2>3 DEF InitReadB, WaitTask, TaskPcs, shared
<1>11. ASSUME NEW operand \in {"desired", "position"}, TaskTake(operand)
       PROVE  TypeInv'
  <2>1. CASE ~SetDesired
    BY <1>11, <2>1 DEF TaskTake, hardware, shared, history
  <2>2. CASE SetDesired
    <3>1. PICK n \in Int : task' = [task EXCEPT !.pc = "compute",
                                               !.read = operand, !.val = n]
      BY <1>11, <2>2 DEF TaskTake
    <3>2. /\ task' \in [pc : TaskPcs, read : {"none", "desired", "position"},
                        val : Int, duty : Duties, target : Int]
          /\ task'.pc # "initB"
      BY <3>1 DEF TaskPcs
    <3> QED  BY <1>11, <3>2 DEF TaskTake, hardware, shared, history
  <2> QED  BY <2>1, <2>2
<1>12. CASE TaskCompute
  <2> DEFINE d == IF task.read = "desired" THEN task.val ELSE desired
             p == IF task.read = "position" THEN task.val ELSE position
  <2>1. d \in Int /\ d - p \in Int
    OBVIOUS
  <2>2. GetPwm(d - p) \in -100..100
    BY <2>1, GetPwmSign
  <2>3. task' = [pc |-> "disable", read |-> "none", val |-> 0,
                 duty |-> GetPwm(d - p), target |-> d]
    BY <1>12 DEF TaskCompute, WaitTask
  <2>4. UNCHANGED <<hardware, shared, motorState, sem, isr, udpPc, history>>
    BY <1>12 DEF TaskCompute
  <2> HIDE DEF d, p
  <2> QED
    BY <2>1, <2>2, <2>3, <2>4 DEF TaskPcs, hardware, shared, history
<1>13. CASE TaskDisable
  BY <1>13 DEF TaskDisable, TaskPcs, shared, history
<1>14. CASE TaskSetReg
  <2>1. SetMotorDutycycle(pwmReg, task.duty)
          \in [dir : Directions, cycles : Nat]
    <3>1. task.duty \in Duties  OBVIOUS
    <3> QED  BY ONLY <3>1, EncodeDutyShape, SetMotorDutycycleOfDuty
  <2> QED  BY <1>14, <2>1 DEF TaskSetReg, TaskPcs, shared
<1>15. CASE TaskSetShared
  BY <1>15 DEF TaskSetShared, TaskPcs, hardware, history
<1>16. CASE TaskEnable
  BY <1>16 DEF TaskEnable, WaitTask, TaskPcs, shared, history
<1>17. ASSUME NEW v \in SetPoints, UdpReceive(v) PROVE TypeInv'
  BY <1>17 DEF UdpReceive, hardware, history
<1>18. CASE UdpReceiveFails
  BY <1>18 DEF UdpReceiveFails, hardware, shared, history
<1>19. CASE UdpGive
  BY <1>19 DEF UdpGive, hardware, shared, history
<1>20. CASE UNCHANGED vars
  BY <1>20 DEF vars, hardware, shared, history
<1> QED
  BY NextCases, <1>1, <1>2, <1>3, <1>4, <1>5, <1>6, <1>7, <1>8, <1>9, <1>10,
     <1>11, <1>12, <1>13, <1>14, <1>15, <1>16, <1>17, <1>18, <1>19, <1>20

LEMMA TypeInvariant == Spec => []TypeInv
BY TypeInit, TypeNext, PTL DEF Spec

(***************************************************************************)
(* Type correctness of the driver, for every set of set-points and on one  *)
(* core or several: in particular the duties that motor_isr and motor      *)
(* store are percentages, and every store of PWM_DUTY_CR is a register     *)
(* value.                                                                  *)
(***************************************************************************)
THEOREM TypeCorrect == Spec => []TypeOK
BY TypeInvariant, PTL DEF TypeInv

-----------------------------------------------------------------------------
(* The decoder's drift                                                     *)

(***************************************************************************)
(* DriftIsEven speaks of the shaft only when motor_state shows it.  What   *)
(* every step preserves is that position, counted from the origin, has the *)
(* parity of the place motor_state shows.  It starts at InitReadB, so the  *)
(* strengthening also says that nothing counts before: the handler cannot  *)
(* run until motor_init, its last act, enables the interrupt.              *)
(***************************************************************************)
BootInv == ~Running => isr.pc = "idle" /\ intEnabled = 0 /\ position = 0

ParityInv == Running => (position + origin - PhaseIndex(motorState)) % 2 = 0

DriftInv == TypeInv /\ BootInv /\ ParityInv

LEMMA BootInit == Init => BootInv
BY DEF Init, BootInv, IdleIsr, WaitTask, Running

LEMMA BootNext == TypeInv /\ BootInv /\ [Next]_vars => BootInv'
<1> SUFFICES ASSUME TypeInv, BootInv, [Next]_vars PROVE BootInv'
  OBVIOUS
<1> USE DEF TypeInv, TypeOK, BootInv, Running
<1>1. ASSUME NEW step \in {-1, 1}, Turn(step) PROVE BootInv'
  BY <1>1 DEF Turn, shared
<1>2. CASE IsrEnter
  BY <1>2 DEF IsrEnter, hardware, shared
<1>3. CASE IsrDecode \/ IsrControl \/ IsrSetReg \/ IsrSetShared \/ IsrClear
  BY <1>3 DEF IsrDecode, IsrControl, IsrSetReg, IsrSetShared, IsrClear,
              hardware, shared
<1>4. CASE InitReset \/ InitReadA \/ InitReadB
  BY <1>4 DEF InitReset, InitReadA, InitReadB, WaitTask, hardware, shared
<1>5. ASSUME NEW operand \in {"desired", "position"}, TaskTake(operand)
      PROVE  BootInv'
  BY <1>5 DEF TaskTake, hardware, shared
<1>6. CASE TaskCompute \/ TaskDisable \/ TaskSetReg \/ TaskSetShared
              \/ TaskEnable
  <2>1. Running /\ task'.pc \in {"wait", "disable", "setReg", "setShared",
                                "enable"}
    <3>1. CASE TaskCompute
      <4>1. task'.pc = "disable"
        BY <3>1 DEF TaskCompute, WaitTask
      <4> QED  BY <3>1, <4>1 DEF TaskCompute
    <3>2. CASE TaskDisable \/ TaskSetReg \/ TaskSetShared \/ TaskEnable
      BY <3>2 DEF TaskDisable, TaskSetReg, TaskSetShared, TaskEnable, WaitTask
    <3> QED  BY <1>6, <3>1, <3>2
  <2> QED  BY <2>1
<1>7. ASSUME NEW v \in SetPoints, UdpReceive(v) PROVE BootInv'
  BY <1>7 DEF UdpReceive, hardware
<1>8. CASE UdpReceiveFails \/ UdpGive \/ UNCHANGED vars
  BY <1>8 DEF UdpReceiveFails, UdpGive, vars, hardware, shared
<1> QED
  BY NextCases, <1>1, <1>2, <1>3, <1>4, <1>5, <1>6, <1>7, <1>8

\* What motor_init finds: the place NearestPlace gives shows the state read.
LEMMA NearestPlaceShows ==
  ASSUME NEW n \in Int, NEW state \in MotorStates
  PROVE  /\ NearestPlace(n, state) \in Int
         /\ (NearestPlace(n, state) - PhaseIndex(state)) % 4 = 0
         /\ state = Phase(n) => NearestPlace(n, state) = n
<1>1. PhaseIndex(state) \in 0..3
  BY DEF MotorStates, PhaseIndex
<1>2. PhaseIndex(Phase(n)) = n % 4
  BY PhaseIndexOfPhase
<1>3. /\ (1 - PhaseIndex(state)) \in Int
      /\ PhaseIndex(state) = n % 4 => (PhaseIndex(state) - (n - 1)) % 4 = 1
  BY <1>1
<1> QED  BY <1>1, <1>2, <1>3 DEF NearestPlace

LEMMA ParityNext == DriftInv /\ [Next]_vars => ParityInv'
<1> SUFFICES ASSUME DriftInv, [Next]_vars PROVE ParityInv'
  OBVIOUS
<1> USE DEF DriftInv, TypeInv, TypeOK, ParityInv, Running
<1>i. \A s \in MotorStates : PhaseIndex(s) \in 0..3
  BY DEF MotorStates, PhaseIndex
<1>p. Phase(shaft) \in MotorStates
  BY PhaseIndexOfPhase
<1>1. CASE IsrDecode
  <2> DEFINE new == isr.a + 2 * LineB(Phase(shaft))
             step == Decode(motorState, new)
  <2>1. new \in MotorStates
    BY <1>p, StateOfLines
  <2>2. /\ step \in {-1, 0, 1}
        /\ (step - PhaseIndex(new) + PhaseIndex(motorState)) % 2 = 0
    BY <2>1, DecodeParity
  <2>3. /\ motorState' = new /\ position' = position + step
        /\ UNCHANGED <<task, origin>>
    BY <1>1 DEF IsrDecode, history
  <2> DEFINE before == position + origin - PhaseIndex(motorState)
             change == step - PhaseIndex(new) + PhaseIndex(motorState)
  <2>4. before \in Int /\ change \in Int
    BY <1>i, <2>1, <2>2
  <2>5. /\ position' \in Int /\ origin' \in Int
        /\ PhaseIndex(motorState') \in Int
        /\ position' + origin' - PhaseIndex(motorState') = before + change
    BY <1>i, <2>1, <2>2, <2>3
  <2>6. before % 2 = 0 => (before + change) % 2 = 0
    <3> HIDE DEF before, change
    <3> QED  BY <2>2, <2>4 DEF change
  <2> HIDE DEF before, change
  <2> QED  BY <2>3, <2>5, <2>6 DEF before
<1>2. CASE InitReadB
  <2> DEFINE new == task.val + 2 * LineB(Phase(shaft))
  <2>1. new \in MotorStates
    BY <1>2, <1>p, StateOfLines DEF InitReadB
  <2>2. /\ motorState' = new /\ origin' = NearestPlace(shaft, new)
        /\ position' = 0
    BY <1>2 DEF InitReadB, shared, BootInv
  <2> HIDE DEF new
  <2>3. origin' \in Int /\ (origin' - PhaseIndex(new)) % 4 = 0
    BY <2>1, <2>2, NearestPlaceShows
  <2>4. PhaseIndex(new) \in Int
    BY <1>i, <2>1
  <2> DEFINE sum == position' + origin' - PhaseIndex(motorState')
  <2>5. sum \in Int /\ sum % 4 = 0
    BY <2>2, <2>3, <2>4
  <2> HIDE DEF sum
  <2>6. sum % 2 = 0
    BY <2>5
  <2> QED  BY <2>6 DEF sum
<1>3. CASE InitReset \/ InitReadA
  BY <1>3 DEF InitReset, InitReadA
<1>4. CASE /\ UNCHANGED <<position, motorState, origin>>
           /\ Running' => Running
  BY <1>4
<1>5. ASSUME NEW step \in {-1, 1}, Turn(step) PROVE ParityInv'
  BY <1>4, <1>5 DEF Turn, shared, history
<1>6. CASE IsrEnter \/ IsrControl \/ IsrSetReg \/ IsrSetShared \/ IsrClear
  BY <1>4, <1>6 DEF IsrEnter, IsrControl, IsrSetReg, IsrSetShared, IsrClear,
              shared, history
<1>7. ASSUME NEW operand \in {"desired", "position"}, TaskTake(operand)
      PROVE  ParityInv'
  BY <1>4, <1>7 DEF TaskTake, shared, history
<1>8. CASE TaskCompute \/ TaskDisable \/ TaskSetReg \/ TaskSetShared
              \/ TaskEnable
  BY <1>4, <1>8 DEF TaskCompute, TaskDisable, TaskSetReg, TaskSetShared,
              TaskEnable, shared, history
<1>9. ASSUME NEW v \in SetPoints, UdpReceive(v) PROVE ParityInv'
  BY <1>4, <1>9 DEF UdpReceive, history
<1>10. CASE UdpReceiveFails \/ UdpGive \/ UNCHANGED vars
  BY <1>4, <1>10 DEF UdpReceiveFails, UdpGive, vars, shared, history
<1> QED
  BY NextCases, <1>1, <1>2, <1>3, <1>5, <1>6, <1>7, <1>8, <1>9, <1>10

LEMMA DriftInvariant == Spec => []DriftInv
<1>1. Init => DriftInv
  BY TypeInit, BootInit DEF DriftInv, ParityInv, Init, Running, WaitTask
<1>2. DriftInv /\ [Next]_vars => DriftInv'
  BY TypeNext, BootNext, ParityNext DEF DriftInv
<1> QED  BY <1>1, <1>2, PTL DEF Spec

(***************************************************************************)
(* Whatever the shaft's speed and however reads, handler and tasks         *)
(* interleave, on one core or several, position is off by whole pairs of   *)
(* steps whenever motor_state shows the encoder's state                    *)
(* (stepper_motor.c:75-81, :90).                                           *)
(***************************************************************************)
THEOREM DriftIsAlwaysEven == Spec => []DriftIsEven
<1>1. DriftInv => DriftIsEven
  <2> SUFFICES ASSUME DriftInv, Running, motorState = Phase(shaft)
               PROVE  (position - (shaft - origin)) % 2 = 0
    BY DEF DriftIsEven
  <2>1. /\ position \in Int /\ shaft \in Int /\ origin \in Int
        /\ (position + origin - PhaseIndex(motorState)) % 2 = 0
    BY DEF DriftInv, TypeInv, TypeOK, ParityInv
  <2>2. PhaseIndex(motorState) = shaft % 4
    BY <2>1, PhaseIndexOfPhase
  <2> QED  BY <2>1, <2>2
<1> QED  BY <1>1, DriftInvariant, PTL

-----------------------------------------------------------------------------
(* A shaft no faster than its service                                      *)

(***************************************************************************)
(* The shaft is at most one step from where position puts it, and exactly  *)
(* there when no phase change waits to be counted; motor_state is the      *)
(* encoder's state at that place.  Line A, once read, is not out of date   *)
(* when line B is.                                                         *)
(***************************************************************************)
Counted ==
  \/ isr.pc \in {"control", "setReg", "setShared", "clear"}
  \/ isr.pc = "idle" /\ gpioStatus = 0

TrackInv ==
  /\ Running => /\ motorState = Phase(origin + position)
                /\ shaft - (origin + position) \in {-1, 0, 1}
                /\ Counted => shaft = origin + position
  /\ isr.pc = "decode" => isr.a = LineA(Phase(shaft))
  /\ task.pc = "initB" => task.val = LineA(Phase(shaft))

SlowInv == TypeInv /\ BootInv /\ TrackInv

LEMMA TrackInit == Init => TrackInv
BY DEF Init, TrackInv, Running, IdleIsr, WaitTask

LEMMA TrackNext ==
  ASSUME SlowShaft
  PROVE  SlowInv /\ [Next]_vars => TrackInv'
<1> SUFFICES ASSUME SlowInv, [Next]_vars PROVE TrackInv'
  OBVIOUS
<1> USE DEF SlowInv, TypeInv, TypeOK, TrackInv, Running, Counted
<1>p. Phase(shaft) \in MotorStates
  BY PhaseIndexOfPhase
<1>s. LineA(Phase(shaft)) + 2 * LineB(Phase(shaft)) = Phase(shaft)
  BY <1>p, LinesOfState
<1>1. ASSUME NEW step \in {-1, 1}, Turn(step) PROVE TrackInv'
  <2>1. /\ gpioStatus = 0 /\ isr.pc = "idle" /\ task.pc # "initB"
        /\ shaft' = shaft + step /\ gpioStatus' = 1
        /\ UNCHANGED <<position, motorState, isr, task, origin>>
    BY <1>1 DEF Turn, MayTurn, shared, history
  <2> QED  BY <2>1
<1>2. CASE IsrEnter
  <2>1. isr'.pc = "decode" /\ isr'.a = LineA(Phase(shaft))
    BY <1>2 DEF IsrEnter
  <2> QED  BY <1>2, <2>1 DEF IsrEnter, hardware, shared, history
<1>3. CASE IsrDecode
  <2> DEFINE step == shaft - (origin + position)
  <2>1. Running /\ isr.pc = "decode"
    BY <1>3 DEF IsrDecode, BootInv
  <2>2. isr.a + 2 * LineB(Phase(shaft)) = Phase(shaft)
    BY <2>1, <1>s
  <2>3. /\ motorState' = Phase(shaft)
        /\ position' = position + Decode(motorState, Phase(shaft))
        /\ isr'.pc \in {"control", "clear"}
        /\ UNCHANGED <<shaft, gpioStatus, task, origin>>
    BY <1>3, <2>2 DEF IsrDecode, hardware, history
  <2>4. /\ step \in {-1, 0, 1} /\ origin + position \in Int
        /\ shaft = (origin + position) + step
    BY <2>1
  <2>5. Decode(motorState, Phase(shaft)) = step
    <3> HIDE DEF step
    <3> QED  BY <2>1, <2>4, DecodeStep
  <2>6. origin' + position' = shaft
    BY <2>3, <2>5
  <2> QED  BY <2>1, <2>3, <2>6
<1>4. CASE InitReset \/ InitReadA
  <2>1. CASE InitReset
    BY <2>1 DEF InitReset, BootInv
  <2>2. CASE InitReadA
    <3>1. task'.pc = "initB" /\ task'.val = LineA(Phase(shaft))
      BY <2>2 DEF InitReadA
    <3> QED  BY <2>2, <3>1 DEF InitReadA, hardware, shared
  <2> QED  BY <1>4, <2>1, <2>2
<1>5. CASE InitReadB
  <2>1. task.val + 2 * LineB(Phase(shaft)) = Phase(shaft)
    BY <1>5, <1>s DEF InitReadB
  <2>2. /\ motorState' = Phase(shaft)
        /\ origin' = NearestPlace(shaft, Phase(shaft))
        /\ position' = 0 /\ isr.pc = "idle"
        /\ task'.pc = "wait" /\ UNCHANGED <<shaft, isr>>
    BY <1>5, <2>1 DEF InitReadB, BootInv, shared, WaitTask
  <2>3. origin' = shaft
    BY <2>2, <1>p, NearestPlaceShows
  <2> QED  BY <2>2, <2>3
<1>6. CASE /\ UNCHANGED <<shaft, gpioStatus, position, motorState, origin,
                          isr>>
           /\ task'.pc # "initB" /\ Running
  BY <1>6
<1>7. CASE IsrControl \/ IsrSetReg \/ IsrSetShared \/ IsrClear
  <2>1. /\ UNCHANGED <<shaft, position, motorState, task, origin>>
        /\ Counted /\ isr'.pc # "decode"
    <3>1. isr'.pc # "decode" /\ Counted
      <4>1. CASE IsrControl
        BY <4>1 DEF IsrControl
      <4>2. CASE IsrSetReg \/ IsrSetShared \/ IsrClear
        BY <4>2 DEF IsrSetReg, IsrSetShared, IsrClear, IdleIsr
      <4> QED  BY <1>7, <4>1, <4>2
    <3> QED  BY <1>7, <3>1 DEF IsrControl, IsrSetReg, IsrSetShared, IsrClear,
                               hardware, shared, history
  <2> QED  BY <2>1
<1>8. ASSUME NEW operand \in {"desired", "position"}, TaskTake(operand)
      PROVE  TrackInv'
  <2>1. task'.pc \in {"wait", "compute"}
    BY <1>8 DEF TaskTake
  <2> QED  BY <1>6, <1>8, <2>1 DEF TaskTake, hardware, shared, history
<1>9. CASE TaskCompute
  <2>1. task'.pc = "disable"
    BY <1>9 DEF TaskCompute, WaitTask
  <2> QED  BY <1>6, <1>9, <2>1 DEF TaskCompute, hardware, shared, history
<1>10. CASE TaskDisable \/ TaskSetReg \/ TaskSetShared \/ TaskEnable
  <2>1. task'.pc # "initB"
    BY <1>10 DEF TaskDisable, TaskSetReg, TaskSetShared, TaskEnable, WaitTask
  <2> QED  BY <1>6, <1>10, <2>1 DEF TaskDisable, TaskSetReg, TaskSetShared,
                                    TaskEnable, hardware, shared, history
<1>11. CASE UNCHANGED <<shaft, gpioStatus, position, motorState, origin, isr,
                        task>>
  BY <1>11
<1>12. ASSUME NEW v \in SetPoints, UdpReceive(v) PROVE TrackInv'
  BY <1>11, <1>12 DEF UdpReceive, hardware, history
<1>13. CASE UdpReceiveFails \/ UdpGive \/ UNCHANGED vars
  BY <1>11, <1>13 DEF UdpReceiveFails, UdpGive, vars, hardware, shared, history
<1> QED
  BY NextCases, <1>1, <1>2, <1>3, <1>4, <1>5, <1>7, <1>8, <1>9, <1>10, <1>12,
     <1>13

(***************************************************************************)
(* A shaft no faster than its service is counted step for step: through    *)
(* every mask of the interrupt by the motor task (stepper_motor.c:147-150) *)
(* and from the instant motor_init enables it (:118).                      *)
(***************************************************************************)
THEOREM SlowShaftIsTracked ==
  ASSUME SlowShaft
  PROVE  Spec => []TracksShaft
<1>1. Init => SlowInv
  BY TypeInit, BootInit, TrackInit DEF SlowInv
<1>2. SlowInv /\ [Next]_vars => SlowInv'
  BY TypeNext, BootNext, TrackNext DEF SlowInv
<1>3. SlowInv => TracksShaft
  <2> SUFFICES ASSUME SlowInv, Running
               PROVE  position + Decode(motorState, Phase(shaft))
                        = shaft - origin
    BY DEF TracksShaft
  <2> DEFINE step == shaft - (origin + position)
  <2>1. /\ step \in {-1, 0, 1} /\ motorState = Phase(origin + position)
        /\ origin + position \in Int /\ shaft = (origin + position) + step
        /\ position \in Int /\ origin \in Int /\ shaft \in Int
    BY DEF SlowInv, TrackInv, TypeInv, TypeOK
  <2>2. Decode(motorState, Phase(shaft)) = step
    <3> HIDE DEF step
    <3> QED  BY <2>1, DecodeStep
  <2> QED  BY <2>1, <2>2
<1> QED  BY <1>1, <1>2, <1>3, PTL DEF Spec

-----------------------------------------------------------------------------
(* One core: the mask keeps handler and task apart                         *)

(***************************************************************************)
(* The interrupt is enabled exactly while the task is outside the section  *)
(* it masks; a handler runs only while it is enabled, and the task does    *)
(* not run under it.  So only one of them is ever between the two stores,  *)
(* and it has just written the register.                                   *)
(***************************************************************************)
MaskInv ==
  /\ intEnabled = 1 <=> task.pc \in {"wait", "compute", "disable"}
  /\ isr.pc # "idle" => intEnabled = 1

StoresInv ==
  /\ isr.pc = "setShared" => pwmReg = EncodeDuty(isr.duty)
  /\ task.pc = "setShared" => pwmReg = EncodeDuty(task.duty)
  /\ isr.pc # "setShared" /\ task.pc # "setShared" => Shows(pwmReg, pwmDuty)
  /\ ~Running => pwmDuty = 0

CoreInv == TypeInv /\ MaskInv /\ StoresInv

LEMMA CoreInit == Init => CoreInv
<1> SUFFICES ASSUME Init PROVE CoreInv
  OBVIOUS
<1>1. task.pc = "boot" /\ isr.pc = "idle"
  BY DEF Init, IdleIsr, WaitTask
<1> QED  BY <1>1, TypeInit DEF Init, CoreInv, MaskInv, StoresInv, Shows

LEMMA MaskNext ==
  ASSUME cores = 1
  PROVE  TypeInv /\ MaskInv /\ [Next]_vars => MaskInv'
<1> SUFFICES ASSUME TypeInv, MaskInv, [Next]_vars PROVE MaskInv'
  OBVIOUS
<1> USE DEF TypeInv, TypeOK, MaskInv
<1>1. CASE UNCHANGED <<intEnabled, task, isr>>
  BY <1>1
<1>2. ASSUME NEW step \in {-1, 1}, Turn(step) PROVE MaskInv'
  BY <1>1, <1>2 DEF Turn
<1>3. CASE IsrEnter
  BY <1>3 DEF IsrEnter, hardware
<1>4. CASE IsrDecode \/ IsrControl \/ IsrSetReg \/ IsrSetShared \/ IsrClear
  <2>1. isr.pc # "idle" /\ UNCHANGED <<intEnabled, task>>
    BY <1>4 DEF IsrDecode, IsrControl, IsrSetReg, IsrSetShared, IsrClear,
                hardware
  <2> QED  BY <2>1
<1>5. ASSUME isr.pc = "idle", isr' = isr,
             intEnabled' = 1 <=> task'.pc \in {"wait", "compute", "disable"}
      PROVE  MaskInv'
  BY <1>5
<1>6. CASE InitReset \/ InitReadA \/ InitReadB
  <2>1. CASE InitReset
    BY <1>5, <2>1 DEF InitReset, TaskMayRun
  <2>2. CASE InitReadA
    <3>1. task.pc = "initA" /\ task'.pc = "initB"
      BY <2>2 DEF InitReadA
    <3> QED  BY <1>5, <2>2, <3>1 DEF InitReadA, TaskMayRun, hardware
  <2>3. CASE InitReadB
    BY <1>5, <2>3 DEF InitReadB, TaskMayRun, WaitTask
  <2> QED  BY <1>6, <2>1, <2>2, <2>3
<1>7. ASSUME NEW operand \in {"desired", "position"}, TaskTake(operand)
      PROVE  MaskInv'
  <2>1. task.pc = "wait" /\ task'.pc \in {"wait", "compute"}
    BY <1>7 DEF TaskTake
  <2> QED  BY <1>5, <1>7, <2>1 DEF TaskTake, TaskMayRun, hardware
<1>8. CASE TaskCompute
  <2>1. task.pc = "compute" /\ task'.pc = "disable"
    BY <1>8 DEF TaskCompute, WaitTask
  <2> QED  BY <1>5, <1>8, <2>1 DEF TaskCompute, TaskMayRun, hardware
<1>9. CASE TaskDisable \/ TaskSetReg \/ TaskSetShared \/ TaskEnable
  BY <1>5, <1>9 DEF TaskDisable, TaskSetReg, TaskSetShared, TaskEnable,
                    WaitTask, TaskMayRun, hardware
<1>10. ASSUME NEW v \in SetPoints, UdpReceive(v) PROVE MaskInv'
  BY <1>1, <1>10 DEF UdpReceive, hardware
<1>11. CASE UdpReceiveFails \/ UdpGive \/ UNCHANGED vars
  BY <1>1, <1>11 DEF UdpReceiveFails, UdpGive, vars, hardware
<1> QED
  BY NextCases, <1>2, <1>3, <1>4, <1>6, <1>7, <1>8, <1>9, <1>10, <1>11

LEMMA StoresNext ==
  ASSUME cores = 1
  PROVE  CoreInv /\ [Next]_vars => StoresInv'
<1> SUFFICES ASSUME CoreInv, [Next]_vars PROVE StoresInv'
  OBVIOUS
<1> USE DEF CoreInv, TypeInv, TypeOK, MaskInv, StoresInv, Running, Duties
<1>1. ASSUME UNCHANGED <<pwmReg, pwmDuty>>,
             isr' = isr \/ (isr.pc # "setShared" /\ isr'.pc # "setShared"),
             task' = task \/ (task.pc # "setShared" /\ task'.pc # "setShared"),
             ~Running' => ~Running
      PROVE  StoresInv'
  BY <1>1
<1>2. ASSUME NEW step \in {-1, 1}, Turn(step) PROVE StoresInv'
  BY <1>1, <1>2 DEF Turn, shared
<1>3. CASE IsrEnter \/ IsrClear
  <2>1. isr.pc \in {"idle", "clear"} /\ isr'.pc \in {"decode", "idle"}
    <3>1. CASE IsrEnter
      BY <3>1 DEF IsrEnter
    <3>2. CASE IsrClear
      BY <3>2 DEF IsrClear, IdleIsr
    <3> QED  BY <1>3, <3>1, <3>2
  <2> QED  BY <1>1, <1>3, <2>1 DEF IsrEnter, IsrClear, hardware, shared
<1>4. CASE IsrDecode
  <2>1. isr.pc = "decode" /\ isr'.pc \in {"control", "clear"}
    BY <1>4 DEF IsrDecode
  <2> QED  BY <1>1, <1>4, <2>1 DEF IsrDecode, hardware
<1>5. CASE IsrControl
  <2>1. isr.pc = "control" /\ isr'.pc = "setReg"
    BY <1>5 DEF IsrControl
  <2> QED  BY <1>1, <1>5, <2>1 DEF IsrControl, hardware, shared
<1>6. CASE IsrSetReg
  <2>1. pwmReg' = EncodeDuty(isr.duty)
    BY <1>6, SetMotorDutycycleOfDuty DEF IsrSetReg
  <2> QED  BY <1>6, <2>1 DEF IsrSetReg, shared
<1>7. CASE IsrSetShared
  BY <1>7 DEF IsrSetShared, hardware, Shows
<1>8. CASE InitReset
  BY <1>8 DEF InitReset, Shows
<1>9. CASE InitReadA \/ InitReadB
  <2>1. task.pc \in {"initA", "initB"} /\ task'.pc \in {"initB", "wait"}
    <3>1. CASE InitReadA
      BY <3>1 DEF InitReadA
    <3>2. CASE InitReadB
      BY <3>2 DEF InitReadB, WaitTask
    <3> QED  BY <1>9, <3>1, <3>2
  <2> QED  BY <1>1, <1>9, <2>1 DEF InitReadA, InitReadB, hardware, shared
<1>10. ASSUME NEW operand \in {"desired", "position"}, TaskTake(operand)
       PROVE  StoresInv'
  <2>1. task.pc = "wait" /\ task'.pc \in {"wait", "compute"}
    BY <1>10 DEF TaskTake
  <2> QED  BY <1>1, <1>10, <2>1 DEF TaskTake, hardware, shared
<1>11. CASE TaskCompute
  <2>1. task.pc = "compute" /\ task'.pc = "disable"
    BY <1>11 DEF TaskCompute, WaitTask
  <2> QED  BY <1>1, <1>11, <2>1 DEF TaskCompute, hardware, shared
<1>12. CASE TaskDisable \/ TaskEnable
  BY <1>1, <1>12 DEF TaskDisable, TaskEnable, WaitTask, shared
<1>13. CASE TaskSetReg
  <2>1. pwmReg' = EncodeDuty(task.duty)
    BY <1>13, SetMotorDutycycleOfDuty DEF TaskSetReg
  <2> QED  BY <1>13, <2>1 DEF TaskSetReg, shared, TaskMayRun
<1>14. CASE TaskSetShared
  BY <1>14 DEF TaskSetShared, hardware, Shows
<1>15. ASSUME NEW v \in SetPoints, UdpReceive(v) PROVE StoresInv'
  BY <1>1, <1>15 DEF UdpReceive, hardware
<1>16. CASE UdpReceiveFails \/ UdpGive \/ UNCHANGED vars
  BY <1>1, <1>16 DEF UdpReceiveFails, UdpGive, vars, hardware, shared
<1> QED
  BY NextCases, <1>2, <1>3, <1>4, <1>5, <1>6, <1>7, <1>8, <1>9, <1>10, <1>11,
     <1>12, <1>13, <1>14, <1>15, <1>16

\* How many cores a board has does not change.
LEMMA CoresFixed == [Next]_vars => cores' = cores
<1> SUFFICES ASSUME [Next]_vars PROVE cores' = cores
  OBVIOUS
<1> USE DEF hardware
<1>1. CASE Isr \/ Task \/ UdpGive
  BY <1>1 DEF Isr, IsrEnter, IsrDecode, IsrControl, IsrSetReg, IsrSetShared,
     IsrClear, Task, MotorInit, InitReset, InitReadA, InitReadB, TaskTake,
     TaskCompute, TaskDisable, TaskSetReg, TaskSetShared, TaskEnable, UdpGive
<1>2. CASE Environment \/ UNCHANGED vars
  BY <1>2 DEF Environment, MotorTurns, HandTurns, Turn, SetPointArrives,
     UdpReceive, UdpReceiveFails, vars
<1> QED  BY <1>1, <1>2 DEF Next

LEMMA CoreInvariant == Spec => [](cores = 1 => CoreInv)
<1> DEFINE OneCoreInv == cores = 1 => CoreInv
<1>1. Init => OneCoreInv
  BY CoreInit
<1>2. OneCoreInv /\ [Next]_vars => OneCoreInv'
  BY TypeNext, MaskNext, StoresNext, CoresFixed DEF CoreInv
<1> QED  BY <1>1, <1>2, PTL DEF Spec

(***************************************************************************)
(* On one core the writes of motor_isr and motor to PWM_DUTY_CR and        *)
(* pwm_duty never interleave: the mask of stepper_motor.c:147-150 does     *)
(* prevent that race.  (On several cores it does not: the handler may be   *)
(* past its start when the task masks it.)                                 *)
(***************************************************************************)
THEOREM DutyAgreesOnOneCore == Spec => []DutyAgrees
<1>1. (cores = 1 => CoreInv) => DutyAgrees
  BY DEF CoreInv, StoresInv, DutyAgrees
<1> QED  BY <1>1, CoreInvariant, PTL

-----------------------------------------------------------------------------
(* One core: no set-point is lost                                          *)

(***************************************************************************)
(* With no request left in the semaphore and none being posted, whoever is *)
(* about to write the PWM register writes it for the last set-point, and   *)
(* if nobody is, it has been written for it.  A handler that overwrites    *)
(* the task's duty used the same set-point: no datagram is received under  *)
(* it.                                                                     *)
(***************************************************************************)
NothingPosted == udpPc = "recv" /\ sem = 0

ForLast ==
  /\ task.pc = "compute" /\ task.read = "desired" => task.val = desired
  /\ task.pc \in {"disable", "setReg"} => task.target = desired
  /\ task.pc \notin {"compute", "disable", "setReg"} => appliedTo = desired

PostedInv ==
  /\ NothingPosted => ForLast
  /\ isr.pc = "setReg" => isr.target = desired
  /\ ~SetDesired => NothingPosted /\ desired = 0 /\ isr.pc # "control"
                   /\ task.pc \in {"boot", "initA", "initB", "wait"}

AppliedInv == TypeInv /\ MaskInv /\ PostedInv

LEMMA PostedInit == Init => PostedInv
<1> SUFFICES ASSUME Init PROVE PostedInv
  OBVIOUS
<1>1. task.pc = "boot" /\ isr.pc = "idle"
  BY DEF Init, IdleIsr, WaitTask
<1> QED  BY <1>1 DEF Init, PostedInv, NothingPosted, ForLast

LEMMA PostedNext ==
  ASSUME cores = 1
  PROVE  AppliedInv /\ [Next]_vars => PostedInv'
<1> SUFFICES ASSUME AppliedInv, [Next]_vars PROVE PostedInv'
  OBVIOUS
<1> USE DEF AppliedInv, TypeInv, TypeOK, MaskInv, PostedInv, NothingPosted,
            ForLast
<1>1. ASSUME UNCHANGED <<desired, sem, task, udpPc, appliedTo>>,
             isr'.pc \notin {"control", "setReg"} \/ isr' = isr
      PROVE  PostedInv'
  BY <1>1
<1>2. ASSUME NEW step \in {-1, 1}, Turn(step) PROVE PostedInv'
  BY <1>1, <1>2 DEF Turn, shared, history
<1>3. CASE IsrEnter \/ IsrSetShared \/ IsrClear
  <2>1. isr'.pc \in {"decode", "clear", "idle"}
    <3>1. CASE IsrEnter
      BY <3>1 DEF IsrEnter
    <3>2. CASE IsrSetShared \/ IsrClear
      BY <3>2 DEF IsrSetShared, IsrClear, IdleIsr
    <3> QED  BY <1>3, <3>1, <3>2
  <2> QED  BY <1>1, <1>3, <2>1 DEF IsrEnter, IsrSetShared, IsrClear, shared,
                                  history
<1>4. CASE IsrDecode
  <2>1. isr'.pc = "clear" \/ (SetDesired /\ isr'.pc = "control")
    BY <1>4 DEF IsrDecode
  <2> QED  BY <1>4, <2>1 DEF IsrDecode, history
<1>5. CASE IsrControl
  <2>1. isr'.pc = "setReg" /\ isr'.target = desired
    BY <1>5 DEF IsrControl
  <2> QED  BY <1>5, <2>1 DEF IsrControl, shared, history
<1>6. CASE IsrSetReg
  <2>1. appliedTo' = desired /\ isr'.pc = "setShared"
    BY <1>6 DEF IsrSetReg
  <2> QED  BY <1>6, <2>1 DEF IsrSetReg, shared
<1>7. CASE InitReset \/ InitReadA \/ InitReadB
  <2>1. /\ task.pc \in {"boot", "initA", "initB"}
        /\ task'.pc \in {"initA", "initB", "wait"}
    <3>1. CASE InitReset \/ InitReadB
      BY <3>1 DEF InitReset, InitReadB, WaitTask
    <3>2. CASE InitReadA
      BY <3>2 DEF InitReadA
    <3> QED  BY <1>7, <3>1, <3>2
  <2> QED  BY <1>7, <2>1 DEF InitReset, InitReadA, InitReadB, shared, history
<1>8. ASSUME NEW operand \in {"desired", "position"}, TaskTake(operand)
      PROVE  PostedInv'
  <2>1. SetDesired
    BY <1>8 DEF TaskTake
  <2>2. /\ task'.pc = "compute"
        /\ task'.read = "desired" => task'.val = desired
    BY <1>8, <2>1 DEF TaskTake
  <2> QED  BY <1>8, <2>1, <2>2 DEF TaskTake, shared, history
<1>9. CASE TaskCompute
  <2>1. /\ task'.pc = "disable"
        /\ task'.target = IF task.read = "desired" THEN task.val ELSE desired
    BY <1>9 DEF TaskCompute, WaitTask
  <2> QED  BY <1>9, <2>1 DEF TaskCompute, shared, history
<1>10. CASE TaskDisable
  <2>1. /\ task.pc = "disable" /\ task'.pc = "setReg"
        /\ task'.target = task.target
    BY <1>10 DEF TaskDisable
  <2> QED  BY <1>10, <2>1 DEF TaskDisable, shared, history
<1>11. CASE TaskSetReg
  <2>1. task'.pc = "setShared" /\ appliedTo' = task.target
    BY <1>11 DEF TaskSetReg
  <2> QED  BY <1>11, <2>1 DEF TaskSetReg, shared
<1>12. CASE TaskSetShared \/ TaskEnable
  <2>1. /\ task.pc \in {"setShared", "enable"}
        /\ task'.pc \in {"enable", "wait"}
    BY <1>12 DEF TaskSetShared, TaskEnable, WaitTask
  <2> QED  BY <1>12, <2>1 DEF TaskSetShared, TaskEnable, shared, history
<1>13. ASSUME NEW v \in SetPoints, UdpReceive(v) PROVE PostedInv'
  BY <1>13 DEF UdpReceive, TaskMayRun
<1>14. CASE UdpReceiveFails \/ UdpGive
  BY <1>14 DEF UdpReceiveFails, UdpGive, shared, history
<1>15. CASE UNCHANGED vars
  BY <1>1, <1>15 DEF vars, shared, history
<1> QED
  BY NextCases, <1>2, <1>3, <1>4, <1>5, <1>6, <1>7, <1>8, <1>9, <1>10, <1>11,
     <1>12, <1>13, <1>14, <1>15

(***************************************************************************)
(* On one core no set-point is lost: at rest, the PWM register holds a     *)
(* duty computed for the set-point received last (server.c:69-73,          *)
(* stepper_motor.c:84-88, 143-150).                                        *)
(***************************************************************************)
THEOREM SetpointAppliedOnOneCore == Spec => []SetpointApplied
<1> DEFINE OneCoreInv == cores = 1 => AppliedInv
<1>1. Init => OneCoreInv
  BY TypeInit, CoreInit, PostedInit DEF AppliedInv, CoreInv
<1>2. OneCoreInv /\ [Next]_vars => OneCoreInv'
  BY TypeNext, MaskNext, PostedNext, CoresFixed DEF AppliedInv
<1>3. OneCoreInv => SetpointApplied
  BY DEF AppliedInv, PostedInv, NothingPosted, ForLast, SetpointApplied,
         Running, Quiet
<1> QED  BY <1>1, <1>2, <1>3, PTL DEF Spec

-----------------------------------------------------------------------------
(* The control law                                                         *)

(***************************************************************************)
(* get_pwm and set_motor_dutycycle (stepper_motor.c:43, 58-68) compute the *)
(* duty of the reference definition and turn the motor towards the         *)
(* set-point: PwmIsReference and DrivesTowards say it of every distance,   *)
(* so it holds of those the runs sweep.                                    *)
(***************************************************************************)
THEOREM DutyLawHolds == Spec => []DutyLaw
<1>1. Distances \subseteq Int
  BY DEF Distances, MaxDistance
<1>2. ASSUME NEW d \in Distances, NEW held
      PROVE  Drive(SetMotorDutycycle(held, GetPwm(d))) = Sign(d)
  BY <1>1, DrivesTowards DEF Sign
<1>3. \A d \in Distances : GetPwm(d) = ReferenceDuty(d)
  BY <1>1, PwmIsReference
<1>4. DutyLaw
  BY <1>2, <1>3 DEF DutyLaw
<1> QED  BY <1>4, PTL

-----------------------------------------------------------------------------
(* A motor left to its controller                                          *)

Targets == SetPoints \cup {0}

\* A place is as far as any target, upwards (e = 1) or downwards (e = -1).
Reached(e, x) == \A s \in Targets : IF e = 1 THEN x >= s ELSE x <= s

Place == shaft - origin

\* The handler has written the register for the place where the shaft is.
Corrected ==
  \/ isr.pc \in {"setShared", "clear"}
  \/ isr.pc = "idle" /\ gpioStatus = 0

\* The task has a duty that way, or may be about to compute one from a place
\* read earlier.
TaskPushes(e) ==
  \/ task.pc \in {"disable", "setReg"} /\ Sign(task.duty) = e
  \/ task.pc = "compute" /\ task.read = "position" /\ ~Reached(e, task.val)

\* A distance is always to a target, and nothing drives before motor_init.
TargetInv ==
  /\ desired \in Targets
  /\ task.pc = "compute" /\ task.read = "desired" => task.val \in Targets
  /\ ~Running => pwmReg = PwmOff
  /\ task.pc \in {"initA", "initB"} => gpioStatus = 0

(***************************************************************************)
(* One push too many: at the last target the task may still write a stale  *)
(* duty that drives on, but then it has no other one; so beyond it, where  *)
(* it reads nothing that would give one, the handler's correction stands.  *)
(***************************************************************************)
PushInv(e) ==
  Running /\ Reached(e, Place) =>
    /\ Corrected => ~(Drive(pwmReg) = e /\ TaskPushes(e))
    /\ isr.pc = "setReg" => Sign(isr.duty) # e
    /\ Reached(e, Place - e) =>
         /\ ~TaskPushes(e)
         /\ Corrected => Drive(pwmReg) # e

BoundInv(e) ==
  Running => ~Reached(e, Place - 2 * e) /\ ~Reached(e, position - 2 * e)

OvershootInv ==
  SlowInv /\ TargetInv /\ \A e \in {-1, 1} : PushInv(e) /\ BoundInv(e)

LEMMA ReachedFrom ==
  ASSUME NEW e \in {-1, 1}, NEW x \in Int, NEW y \in Int,
         Reached(e, x), IF e = 1 THEN x <= y ELSE y <= x
  PROVE  Reached(e, y)
<1>1. Targets \subseteq Int
  BY MotorAssumption DEF Targets
<1> QED  BY <1>1 DEF Reached

LEMMA NothingPastZero ==
  ASSUME NEW e \in {-1, 1}, NEW x \in Int, IF e = 1 THEN x < 0 ELSE x > 0
  PROVE  ~Reached(e, x)
BY DEF Reached, Targets

\* From a place as far as any target get_pwm drives no further.
LEMMA NoPush ==
  ASSUME NEW e \in {-1, 1}, NEW d \in Targets, NEW p \in Int, Reached(e, p)
  PROVE  Sign(GetPwm(d - p)) # e
<1>1. d \in Int /\ d - p \in Int
  BY MotorAssumption DEF Targets
<1>2. e = 1 => d - p <= 0
  BY <1>1 DEF Reached
<1>3. e = -1 => d - p >= 0
  BY <1>1 DEF Reached
<1>4. /\ GetPwm(d - p) \in -100..100
      /\ d - p = 0 => GetPwm(d - p) = 0
      /\ d - p > 0 => GetPwm(d - p) >= MIN_PWM_DUTY
      /\ d - p < 0 => GetPwm(d - p) <= -MIN_PWM_DUTY
  BY <1>1, GetPwmSign
<1> DEFINE duty == GetPwm(d - p)
<1> HIDE DEF duty
<1>5. /\ duty \in Int
      /\ d - p = 0 => duty = 0
      /\ d - p > 0 => duty > 0
      /\ d - p < 0 => duty < 0
  BY <1>4 DEF duty, MIN_PWM_DUTY
<1>6. Sign(duty) # e
  BY <1>1, <1>2, <1>3, <1>5 DEF Sign
<1> QED  BY <1>6 DEF duty

LEMMA SignDriven ==
  ASSUME NEW reg, NEW duty \in Duties
  PROVE  Drive(SetMotorDutycycle(reg, duty)) = Sign(duty)
<1>1. duty \in -100..100
  BY DEF Duties
<1> QED  BY <1>1, SetMotorDutycycleOfDuty, EncodeDutyShape DEF Sign

LEMMA TargetNext ==
  ASSUME ~Hand
  PROVE  SlowInv /\ TargetInv /\ [Next]_vars => TargetInv'
<1> SUFFICES ASSUME SlowInv, TargetInv, [Next]_vars PROVE TargetInv'
  OBVIOUS
<1> USE DEF SlowInv, TypeInv, TypeOK, BootInv, TargetInv, Running
<1>1. ASSUME NEW step \in {-1, 1}, Turn(step), Drive(pwmReg) = step
      PROVE  TargetInv'
  <2>1. Running
    BY <1>1 DEF Drive, PwmOff
  <2> QED  BY <1>1, <2>1 DEF Turn, shared
<1>2. CASE IsrEnter \/ IsrDecode \/ IsrControl \/ IsrSetShared \/ IsrClear
  BY <1>2 DEF IsrEnter, IsrDecode, IsrControl, IsrSetShared, IsrClear,
              hardware, shared
<1>3. CASE IsrSetReg
  BY <1>3 DEF IsrSetReg, shared
<1>4. CASE InitReset
  <2>1. task'.pc = "initA"
    BY <1>4 DEF InitReset
  <2> QED  BY <1>4, <2>1 DEF InitReset
<1>5. CASE InitReadA \/ InitReadB
  <2>1. task'.pc \in {"initB", "wait"}
    <3>1. InitReadA => task'.pc = "initB"
      BY DEF InitReadA
    <3>2. InitReadB => task'.pc = "wait"
      BY DEF InitReadB, WaitTask
    <3> QED  BY <1>5, <3>1, <3>2
  <2> QED  BY <1>5, <2>1 DEF InitReadA, InitReadB, hardware, shared
<1>6. ASSUME NEW operand \in {"desired", "position"}, TaskTake(operand)
      PROVE  TargetInv'
  <2>1. Running /\ UNCHANGED <<desired, pwmReg>>
    BY <1>6 DEF TaskTake, hardware, shared
  <2>2. CASE ~SetDesired
    BY <1>6, <2>1, <2>2 DEF TaskTake
  <2>3. CASE SetDesired
    <3>1. /\ task'.pc = "compute" /\ task'.read = operand
          /\ operand = "desired" => task'.val = desired
      BY <1>6, <2>3 DEF TaskTake
    <3> QED  BY <2>1, <3>1
  <2> QED  BY <2>2, <2>3
<1>7. CASE TaskCompute
  <2>1. task'.pc = "disable"
    BY <1>7 DEF TaskCompute, WaitTask
  <2> QED  BY <1>7, <2>1 DEF TaskCompute, shared
<1>8. CASE TaskDisable \/ TaskSetReg \/ TaskSetShared \/ TaskEnable
  <2>1. task'.pc \in {"setReg", "setShared", "enable", "wait"}
    BY <1>8 DEF TaskDisable, TaskSetReg, TaskSetShared, TaskEnable, WaitTask
  <2> QED  BY <1>8, <2>1 DEF TaskDisable, TaskSetReg, TaskSetShared,
                              TaskEnable, shared
<1>9. ASSUME NEW v \in SetPoints, UdpReceive(v) PROVE TargetInv'
  BY <1>9 DEF UdpReceive, hardware, Targets
<1>10. CASE UdpReceiveFails \/ UdpGive \/ UNCHANGED vars
  BY <1>10 DEF UdpReceiveFails, UdpGive, vars, hardware, shared
<1> QED
  BY NextCases, <1>1, <1>2, <1>3, <1>4, <1>5, <1>6, <1>7, <1>8, <1>9, <1>10

\* Where the shaft is counted, position is its place; else it is next to it.
LEMMA PlaceKnown ==
  ASSUME SlowInv
  PROVE  /\ Place \in Int /\ position \in Int
         /\ Running => Place - position \in {-1, 0, 1}
         /\ Running /\ Counted => Place = position
         /\ Corrected => Counted
BY DEF SlowInv, TypeInv, TypeOK, TrackInv, Place, Corrected, Counted

LEMMA CountedPrime ==
  ASSUME SlowInv', Running', Counted'
  PROVE  Place' = position'
<1>1. shaft' = origin' + position'
  BY DEF SlowInv, TrackInv
<1>2. shaft' \in Int /\ origin' \in Int /\ position' \in Int
  BY DEF SlowInv, TypeInv, TypeOK
<1>3. \A x, y, z \in Int : x = y + z => x - y = z
  OBVIOUS
<1> QED  BY <1>1, <1>2, <1>3 DEF Place

\* A step of the shaft is one its register drives.
LEMMA OvershootTurn ==
  ASSUME OvershootInv, SlowShaft, NEW step \in {-1, 1}, Turn(step),
         Drive(pwmReg) = step, NEW e \in {-1, 1}
  PROVE  PushInv(e)' /\ BoundInv(e)'
<1>1. /\ gpioStatus = 0 /\ isr.pc = "idle" /\ gpioStatus' = 1
      /\ shaft' = shaft + step /\ Place' = Place + step
      /\ UNCHANGED <<pwmReg, isr, task, position, origin>>
  BY DEF Turn, MayTurn, shared, history, Place, OvershootInv, SlowInv,
         TypeInv, TypeOK
<1>2. Corrected /\ ~Corrected' /\ isr'.pc # "setReg"
  BY <1>1 DEF Corrected
<1>3. TaskPushes(e)' = TaskPushes(e)
  BY <1>1 DEF TaskPushes, Reached
<1>4. PushInv(e) /\ BoundInv(e) /\ Place \in Int /\ position \in Int
  BY PlaceKnown DEF OvershootInv
<1> SUFFICES ASSUME Running'
             PROVE  /\ Reached(e, Place + step - e) => ~TaskPushes(e)
                    /\ ~Reached(e, Place + step - 2 * e)
                    /\ ~Reached(e, position - 2 * e)
  <2>1. /\ Reached(e, Place - e)' = Reached(e, Place + step - e)
        /\ Reached(e, Place - 2 * e)' = Reached(e, Place + step - 2 * e)
        /\ Reached(e, position - 2 * e)' = Reached(e, position - 2 * e)
    BY <1>1, <1>4 DEF Reached
  <2> HIDE DEF Reached
  <2>2. PushInv(e)'
    BY <1>2, <1>3, <2>1 DEF PushInv
  <2>3. BoundInv(e)'
    BY <2>1 DEF BoundInv
  <2> QED  BY <2>2, <2>3
<1>5. Running
  BY <1>1 DEF Running
<1>6. CASE step = e
  <2>1. Reached(e, Place - e) => Reached(e, Place)
    BY <1>4, ReachedFrom
  <2>2. ~Reached(e, Place - e)
    BY <1>2, <1>4, <1>5, <1>6, <2>1 DEF PushInv
  <2>3. Place + step - e = Place /\ Place + step - 2 * e = Place - e
    BY <1>4, <1>6
  <2>4. Reached(e, Place) => ~TaskPushes(e)
    BY <1>2, <1>4, <1>5, <1>6 DEF PushInv
  <2> QED  BY <1>4, <1>5, <2>2, <2>3, <2>4 DEF BoundInv
<1>7. CASE step # e
  <2>1. step = -e
    BY <1>7
  <2>2. Place + step - e = Place - 2 * e
    BY <1>4, <2>1
  <2>3. Reached(e, Place + step - 2 * e) => Reached(e, Place - 2 * e)
    BY <1>4, <2>1, ReachedFrom
  <2> QED  BY <1>4, <1>5, <2>2, <2>3 DEF BoundInv
<1> QED  BY <1>6, <1>7

\* What a step does to the two parts when neither shaft nor position moves.
LEMMA BoundSame ==
  ASSUME OvershootInv, UNCHANGED <<shaft, origin, position>>,
         Running' => Running, NEW e \in {-1, 1}
  PROVE  BoundInv(e)' /\ Place' = Place
BY DEF OvershootInv, BoundInv, Place, Reached

\* From where it reads position the task gets no duty that drives on.
LEMMA ReadHere ==
  ASSUME SlowInv, Running, NEW e \in {-1, 1},
         \/ Reached(e, Place) /\ Corrected
         \/ Reached(e, Place - e)
  PROVE  Reached(e, position)
<1>1. /\ Place \in Int /\ position \in Int
      /\ Place - position \in {-1, 0, 1}
      /\ Corrected => Place = position
  BY PlaceKnown
<1>2. CASE Reached(e, Place) /\ Corrected
  BY <1>1, <1>2
<1>3. CASE Reached(e, Place - e)
  BY <1>1, <1>3, ReachedFrom
<1> QED  BY <1>2, <1>3

LEMMA OvershootIsr ==
  ASSUME OvershootInv, OvershootInv => SlowInv', SetDesired, Isr,
         NEW e \in {-1, 1}
  PROVE  PushInv(e)' /\ BoundInv(e)'
<1>t. /\ isr \in [pc : IsrPcs, a : {0, 1}, duty : Duties, target : Int]
      /\ SlowInv /\ SlowInv' /\ PushInv(e) /\ BoundInv(e) /\ TargetInv
  BY DEF OvershootInv, SlowInv, TypeInv, TypeOK
<1>1. UNCHANGED <<shaft, origin, task>> /\ Place' = Place
  BY DEF Isr, IsrEnter, IsrDecode, IsrControl, IsrSetReg, IsrSetShared,
         IsrClear, hardware, history, Place
<1>2. Running' = Running /\ TaskPushes(e)' = TaskPushes(e)
  BY <1>1 DEF Running, TaskPushes, Reached
<1>3. CASE IsrEnter
  <2>1. isr'.pc = "decode" /\ position' = position
    BY <1>3, <1>t DEF IsrEnter, shared
  <2> QED  BY <1>1, <1>2, <1>t, <2>1, BoundSame
              DEF PushInv, Corrected, Reached
<1>4. CASE IsrDecode
  <2>1. isr'.pc = "control"
    BY <1>4, <1>t DEF IsrDecode
  <2>2. Running' => position' = Place'
    BY <1>t, <2>1, CountedPrime DEF Counted
  <2>3. BoundInv(e)'
    BY <1>1, <1>2, <1>t, <2>2 DEF BoundInv, Reached
  <2> QED  BY <1>1, <1>2, <1>t, <2>1, <2>3 DEF PushInv, Corrected, Reached
<1>5. CASE IsrControl
  <2>1. /\ isr.pc = "control" /\ isr'.pc = "setReg"
        /\ isr'.duty = GetPwm(desired - position) /\ position' = position
    BY <1>5, <1>t DEF IsrControl, shared
  <2>2. Running => Place = position /\ position \in Int
    BY <1>t, <2>1, PlaceKnown DEF Counted
  <2>3. Running /\ Reached(e, Place) => Sign(isr'.duty) # e
    BY <1>t, <2>1, <2>2, NoPush DEF TargetInv
  <2> QED  BY <1>1, <1>2, <1>t, <2>1, <2>3, BoundSame
              DEF PushInv, Corrected, Reached, Sign
<1>6. CASE IsrSetReg
  <2>1. /\ isr.pc = "setReg" /\ isr'.pc = "setShared" /\ position' = position
        /\ pwmReg' = SetMotorDutycycle(pwmReg, isr.duty)
    BY <1>6, <1>t DEF IsrSetReg, shared
  <2>2. Drive(pwmReg') = Sign(isr.duty)
    BY <1>t, <2>1, SignDriven
  <2> QED  BY <1>1, <1>2, <1>t, <2>1, <2>2, BoundSame DEF PushInv, Reached
<1>7. CASE IsrSetShared \/ IsrClear
  <2>1. /\ isr.pc \in {"setShared", "clear"} /\ isr'.pc \in {"clear", "idle"}
        /\ UNCHANGED <<pwmReg, position>>
    BY <1>7, <1>t DEF IsrSetShared, IsrClear, IdleIsr, hardware, shared
  <2>2. Corrected /\ isr'.pc # "setReg"
    BY <2>1 DEF Corrected
  <2> QED  BY <1>1, <1>2, <1>t, <2>1, <2>2, BoundSame DEF PushInv, Reached
<1> QED  BY <1>3, <1>4, <1>5, <1>6, <1>7 DEF Isr

LEMMA OvershootTask ==
  ASSUME OvershootInv, SetDesired, NEW e \in {-1, 1},
         \/ \E operand \in {"desired", "position"} : TaskTake(operand)
         \/ TaskCompute \/ TaskDisable \/ TaskSetReg
         \/ TaskSetShared \/ TaskEnable
  PROVE  PushInv(e)' /\ BoundInv(e)'
<1>t. /\ task \in [pc : TaskPcs, read : {"none", "desired", "position"},
                   val : Int, duty : Duties, target : Int]
      /\ SlowInv /\ PushInv(e) /\ BoundInv(e) /\ TargetInv
      /\ position \in Int
  BY DEF OvershootInv, SlowInv, TypeInv, TypeOK
<1>1. /\ UNCHANGED <<shaft, origin, isr, gpioStatus, position>>
      /\ Running
  BY DEF TaskTake, TaskCompute, TaskDisable, TaskSetReg, TaskSetShared,
         TaskEnable, hardware, shared, history, Running
<1>2. Place' = Place /\ BoundInv(e)' /\ Corrected' = Corrected
  BY <1>1, BoundSame DEF Corrected
<1>3. ASSUME Reached(e, Place), NEW reg, reg = pwmReg',
             Corrected => ~(Drive(reg) = e /\ TaskPushes(e)'),
             Reached(e, Place - e) =>
               ~TaskPushes(e)' /\ (Corrected => Drive(reg) # e)
      PROVE  PushInv(e)'
  BY <1>1, <1>2, <1>3, <1>t DEF PushInv, Reached
<1>4. ~Reached(e, Place) => PushInv(e)'
  BY <1>2 DEF PushInv, Reached
<1> SUFFICES ASSUME Reached(e, Place) PROVE PushInv(e)'
  BY <1>2, <1>4
<1>5. ASSUME NEW operand \in {"desired", "position"}, TaskTake(operand)
      PROVE  PushInv(e)'
  <2>1. /\ task'.pc = "compute" /\ task'.read = operand
        /\ operand = "position" => task'.val = position
        /\ pwmReg' = pwmReg
    BY <1>5, <1>t DEF TaskTake, hardware
  <2>2. Corrected \/ Reached(e, Place - e) => Reached(e, position)
    BY <1>1, <1>t, ReadHere
  <2>3. TaskPushes(e)' => ~Reached(e, position)
    BY <2>1 DEF TaskPushes, Reached
  <2> QED  BY <1>1, <1>3, <1>t, <2>1, <2>2, <2>3 DEF PushInv
<1>6. CASE TaskCompute
  <2> DEFINE d == IF task.read = "desired" THEN task.val ELSE desired
             p == IF task.read = "position" THEN task.val ELSE position
  <2>1. /\ task.pc = "compute" /\ task'.pc = "disable"
        /\ task'.duty = GetPwm(d - p) /\ pwmReg' = pwmReg
    BY <1>6 DEF TaskCompute, WaitTask, hardware
  <2>2. d \in Targets /\ p \in Int
    BY <1>t, <2>1 DEF TargetInv
  <2>3. TaskPushes(e)' => Sign(GetPwm(d - p)) = e
    <3> HIDE DEF d, p
    <3> QED  BY <2>1 DEF TaskPushes, Sign
  <2>4. TaskPushes(e)' => ~Reached(e, p)
    <3> HIDE DEF d, p
    <3> QED  BY <2>2, <2>3, NoPush
  <2>5. Corrected \/ Reached(e, Place - e) => Reached(e, position)
    BY <1>1, <1>t, ReadHere
  <2>6. TaskPushes(e)' /\ (Corrected \/ Reached(e, Place - e))
          => TaskPushes(e)
    BY <2>1, <2>4, <2>5 DEF TaskPushes
  <2> QED  BY <1>1, <1>3, <1>t, <2>1, <2>6 DEF PushInv
<1>7. CASE TaskDisable
  <2>1. /\ task.pc = "disable" /\ task'.pc = "setReg"
        /\ task'.duty = task.duty /\ pwmReg' = pwmReg
    BY <1>7, <1>t DEF TaskDisable
  <2>2. TaskPushes(e)' => TaskPushes(e)
    BY <2>1 DEF TaskPushes, Sign
  <2> QED  BY <1>1, <1>3, <1>t, <2>1, <2>2 DEF PushInv
<1>8. CASE TaskSetReg
  <2>1. /\ task.pc = "setReg" /\ task'.pc = "setShared"
        /\ pwmReg' = SetMotorDutycycle(pwmReg, task.duty)
    BY <1>8, <1>t DEF TaskSetReg
  <2>2. ~TaskPushes(e)' /\ Drive(pwmReg') = Sign(task.duty)
    BY <1>t, <2>1, SignDriven DEF TaskPushes
  <2>3. Reached(e, Place - e) => Drive(pwmReg') # e
    BY <1>1, <1>t, <2>1, <2>2 DEF PushInv, TaskPushes
  <2> QED  BY <1>3, <2>2, <2>3
<1>9. CASE TaskSetShared \/ TaskEnable
  <2>1. task'.pc \in {"enable", "wait"} /\ pwmReg' = pwmReg
    BY <1>9, <1>t DEF TaskSetShared, TaskEnable, WaitTask, hardware
  <2>2. ~TaskPushes(e)'
    BY <2>1 DEF TaskPushes
  <2> QED  BY <1>1, <1>3, <1>t, <2>1, <2>2 DEF PushInv
<1> QED  BY <1>5, <1>6, <1>7, <1>8, <1>9

LEMMA OvershootNext ==
  ASSUME SlowShaft, ~Hand, SetDesired
  PROVE  OvershootInv /\ [Next]_vars => OvershootInv'
<1> SUFFICES ASSUME OvershootInv, [Next]_vars PROVE OvershootInv'
  OBVIOUS
<1>1. SlowInv' /\ TargetInv'
  BY TypeNext, BootNext, TrackNext, TargetNext DEF OvershootInv, SlowInv
<1> SUFFICES ASSUME NEW e \in {-1, 1} PROVE PushInv(e)' /\ BoundInv(e)'
  BY <1>1 DEF OvershootInv
<1>2. ASSUME NEW step \in {-1, 1}, Turn(step), Drive(pwmReg) = step
      PROVE  PushInv(e)' /\ BoundInv(e)'
  BY <1>2, OvershootTurn
<1>3. CASE Isr
  BY <1>1, <1>3, OvershootIsr
<1>4. CASE InitReset \/ InitReadA
  <2>1. ~Running'
    BY <1>4 DEF InitReset, InitReadA, Running, OvershootInv, SlowInv,
                TypeInv, TypeOK
  <2> QED  BY <2>1 DEF PushInv, BoundInv
<1>5. CASE InitReadB
  <2>1. /\ task'.pc = "wait" /\ pwmReg' = PwmOff /\ position' = 0
        /\ isr'.pc = "idle"
    BY <1>5 DEF InitReadB, WaitTask, OvershootInv, SlowInv, BootInv,
                TargetInv, Running, shared
  <2>2. Running' /\ Counted'
    <3>1. gpioStatus' = gpioStatus
      BY <1>5 DEF InitReadB
    <3>2. Running'
      BY <2>1 DEF Running
    <3>3. gpioStatus = 0
      BY <1>5 DEF OvershootInv, TargetInv, InitReadB
    <3> QED  BY <2>1, <3>1, <3>2, <3>3 DEF Counted
  <2>3. Place' = 0
    BY <1>1, <2>1, <2>2, CountedPrime
  <2>4. ~Reached(e, 0 - e) /\ ~Reached(e, 0 - 2 * e)
    BY NothingPastZero
  <2>5. ~TaskPushes(e)'
    BY <2>1 DEF TaskPushes
  <2>6. isr'.pc # "setReg"
    BY <2>1
  <2> QED  BY <2>1, <2>3, <2>4, <2>5, <2>6 DEF PushInv, BoundInv, Reached
<1>6. CASE \/ \E operand \in {"desired", "position"} : TaskTake(operand)
           \/ TaskCompute \/ TaskDisable \/ TaskSetReg
           \/ TaskSetShared \/ TaskEnable
  BY <1>6, OvershootTask
<1>7. CASE UNCHANGED <<shaft, origin, position, gpioStatus, pwmReg, isr, task>>
  <2>1. /\ Corrected' = Corrected /\ TaskPushes(e)' = TaskPushes(e)
        /\ Running' = Running
    BY <1>7 DEF Corrected, TaskPushes, Running, Reached
  <2>2. PushInv(e) /\ Place' = Place /\ BoundInv(e)'
    BY <1>7, <2>1, BoundSame DEF OvershootInv
  <2> QED  BY <1>7, <2>1, <2>2 DEF PushInv, Reached
<1>8. ASSUME NEW v \in SetPoints, UdpReceive(v)
      PROVE  PushInv(e)' /\ BoundInv(e)'
  BY <1>7, <1>8 DEF UdpReceive, hardware, history
<1>9. CASE UdpReceiveFails \/ UdpGive \/ UNCHANGED vars
  BY <1>7, <1>9 DEF UdpReceiveFails, UdpGive, vars, hardware, shared, history
<1> QED
  BY NextCases, <1>2, <1>3, <1>4, <1>5, <1>6, <1>8, <1>9 DEF Isr

(***************************************************************************)
(* Left to the controller, and with a shaft no faster than its service,    *)
(* the motor overshoots all the set-points it is ever sent by one step at  *)
(* most, whichever they are and however often handler and task overwrite   *)
(* each other's duties (stepper_motor.c:84-88, :145-150).                  *)
(***************************************************************************)
THEOREM OvershootIsBounded ==
  ASSUME SlowShaft, ~Hand, SetDesired
  PROVE  Spec => []OvershootBounded
<1>1. Init => OvershootInv
  <2> SUFFICES ASSUME Init PROVE OvershootInv
    OBVIOUS
  <2>1. SlowInv
    BY TypeInit, BootInit, TrackInit DEF SlowInv
  <2>2. ~Running /\ desired = 0 /\ pwmReg = PwmOff /\ task.pc = "boot"
    BY DEF Init, Running, WaitTask
  <2> QED  BY <2>1, <2>2
              DEF OvershootInv, TargetInv, PushInv, BoundInv, Targets
<1>2. OvershootInv => OvershootBounded
  <2> SUFFICES ASSUME OvershootInv PROVE OvershootBounded
    OBVIOUS
  <2>1. position \in Int /\ Targets \subseteq Int /\ 0 \in Targets
    BY MotorAssumption DEF OvershootInv, SlowInv, TypeInv, TypeOK, Targets
  <2>2. CASE ~Running
    <3>1. position = 0
      BY <2>2 DEF OvershootInv, SlowInv, BootInv
    <3> QED  BY <2>1, <3>1 DEF OvershootBounded, Targets
  <2>3. CASE Running
    <3>1. ~Reached(1, position - 2) /\ ~Reached(-1, position + 2)
      BY <2>1, <2>3 DEF OvershootInv, BoundInv
    <3>2. PICK hi \in Targets : ~(position - 2 >= hi)
      BY <3>1 DEF Reached
    <3>3. PICK lo \in Targets : ~(position + 2 <= lo)
      BY <3>1 DEF Reached
    <3>4. position \in lo - 1 .. hi + 1
      BY <2>1, <3>2, <3>3
    <3> QED  BY <3>4 DEF OvershootBounded, Targets
  <2> QED  BY <2>2, <2>3
<1> QED  BY <1>1, <1>2, OvershootNext, PTL DEF Spec

-----------------------------------------------------------------------------
(* The receiver board in the link                                          *)

LEMMA LinkSteps ==
  [LinkNext]_sysVars => [Next]_vars
<1>1. \A v \in TxPositions : Deliver(v) => Next
  BY LinkAssumption DEF Deliver, Next, Environment, SetPointArrives
<1>2. \A v \in TxPositions : Lose(v) \/ Duplicate(v) => UNCHANGED vars
  BY DEF Lose, Duplicate
<1>3. Receiver => Next
  BY DEF Receiver, Next, Environment
<1>4. TxSend \/ (\E step \in {-1, 1} : TxTurns(step)) => UNCHANGED vars
  BY DEF TxSend, TxTurns
<1>5. UNCHANGED sysVars => UNCHANGED vars
  BY DEF sysVars
<1> QED  BY <1>1, <1>2, <1>3, <1>4, <1>5 DEF LinkNext, Network

(***************************************************************************)
(* Whatever the network loses, reorders and duplicates and wherever the    *)
(* transmitter's motor is moved, the receiver's board behaves as           *)
(* StepperMotor: what is proved of that holds in the link too.             *)
(***************************************************************************)
THEOREM LinkKeepsMotor == LinkSpec => Spec
<1>1. LinkInit => Init
  BY DEF LinkInit
<1> QED  BY <1>1, LinkSteps, PTL DEF LinkSpec, Spec

(***************************************************************************)
(* The system steers by wire, safely: the receiver's motor stays within a  *)
(* step of the places where the transmitter's motor is ever moved and the  *)
(* 0 both start from, whatever becomes of the datagrams (server.c:69-89).  *)
(***************************************************************************)
THEOREM LinkNeverOvershoots ==
  ASSUME SlowShaft, ~Hand, SetDesired
  PROVE  LinkSpec => []OvershootBounded
BY LinkKeepsMotor, OvershootIsBounded, PTL
=============================================================================
