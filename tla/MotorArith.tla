----------------------------- MODULE MotorArith -----------------------------
(***************************************************************************)
(* The pure part of the stepper motor driver                               *)
(* (semestral_project/src/stepper_motor.c): the quadrature decoder, the    *)
(* control law that turns a distance into a PWM duty, and the encoding of  *)
(* that duty in the PWM_DUTY_CR register.                                  *)
(***************************************************************************)
EXTENDS Integers

MIN_PWM_DUTY == 3
PWM_PERIOD == 5000

Abs(n) == IF n < 0 THEN -n ELSE n

Clamp(lo, hi, n) == IF n < lo THEN lo ELSE IF n > hi THEN hi ELSE n

\* Mutant of GetPwm: the minimum duty is forgotten.
GetPwmNoMinimum(distance) ==
  LET d == Clamp(-200, 200, distance)
  IN  Clamp(-100, 100, (d * Abs(d)) \div 256)

(***************************************************************************)
(* get_pwm.  \div rounds towards minus infinity, as the arithmetic shift   *)
(* `>> 8' of a negative int does, so the law is not odd: 30 gives 3 and    *)
(* -30 gives -4.  The int8_t result is exact, -100..100 being in its range.*)
(***************************************************************************)
GetPwm(distance) ==
  LET d   == Clamp(-200, 200, distance)
      pwm == Clamp(-100, 100, (d * Abs(d)) \div 256)
  IN  IF d < 0 /\ pwm > -MIN_PWM_DUTY THEN -MIN_PWM_DUTY
      ELSE IF d > 0 /\ pwm < MIN_PWM_DUTY THEN MIN_PWM_DUTY
      ELSE pwm

(***************************************************************************)
(* PWM_DUTY_CR: the two direction bits and the duty counter below them.    *)
(***************************************************************************)
Directions == {"none", "forward", "reverse"}

PwmOff == [dir |-> "none", cycles |-> 0]

EncodeDuty(duty) ==
  [dir    |-> IF duty < 0 THEN "reverse" ELSE "forward",
   cycles |-> (PWM_PERIOD * Abs(duty)) \div 100]

\* Mutant of SetMotorDutycycle: full duty is rejected.
SetMotorDutycycleStrict(reg, duty) ==
  IF duty <= -100 \/ duty >= 100 THEN reg ELSE EncodeDuty(duty)

\* The value set_motor_dutycycle leaves in the register that held reg.
SetMotorDutycycle(reg, duty) ==
  IF duty < -100 \/ duty > 100 THEN reg ELSE EncodeDuty(duty)

\* The register holds this duty, or is off as motor_init leaves it.
Shows(reg, duty) == reg = EncodeDuty(duty) \/ (reg = PwmOff /\ duty = 0)

\* The way the motor turns under a register value.
Drive(reg) == IF reg.cycles = 0 THEN 0
              ELSE CASE reg.dir = "forward" -> 1
                     [] reg.dir = "reverse" -> -1
                     [] OTHER -> 0

(***************************************************************************)
(* The encoder has two lines; its state is  a + 2b.  Turning forwards it   *)
(* goes through 0, 1, 3, 2.  PhaseIndex is the place of a state in that    *)
(* cycle, and Phase(n) the state with the shaft n steps from the origin.   *)
(***************************************************************************)
MotorStates == 0..3

LineA(state) == state % 2
LineB(state) == state \div 2

PhaseIndex(state) == CASE state = 0 -> 0
                       [] state = 1 -> 1
                       [] state = 3 -> 2
                       [] state = 2 -> 3

Phase(n) == CASE n % 4 = 0 -> 0
              [] n % 4 = 1 -> 1
              [] n % 4 = 2 -> 3
              [] n % 4 = 3 -> 2

\* TRANSITION and TRANSITION_TABLE: entries that are not listed are zero.
Transition(old, new) == 4 * old + new

\* Mutant of TransitionTable: the entry for 2 -> 0 is missing.
TransitionTableShort ==
  [t \in 0..15 |->
     IF t \in {Transition(0, 1), Transition(1, 3), Transition(3, 2)} THEN 1
     ELSE IF t \in {Transition(1, 0), Transition(3, 1),
                    Transition(2, 3), Transition(0, 2)} THEN -1
     ELSE 0]

TransitionTable ==
  [t \in 0..15 |->
     IF t \in {Transition(0, 1), Transition(1, 3),
               Transition(3, 2), Transition(2, 0)} THEN 1
     ELSE IF t \in {Transition(1, 0), Transition(3, 1),
                    Transition(2, 3), Transition(0, 2)} THEN -1
     ELSE 0]

Decode(old, new) == TransitionTable[Transition(old, new)]
=============================================================================
