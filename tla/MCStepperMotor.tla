--------------------------- MODULE MCStepperMotor ---------------------------
(***************************************************************************)
(* Instances of StepperMotor for TLC, with the control law that its steps  *)
(* call compared with the reference definition.                            *)
(***************************************************************************)
EXTENDS StepperMotor, DutyReference

MCSetPoints == {0, 1}
MCNoSetPoints == {}

\* A shaft that rests through motor_init and never turns faster than motor_isr
\* reads: while a phase change is served, the next one comes after its decoding.
ReadInTime ==
  shaft' # shaft =>
    Running /\ (gpioStatus = 1 => isr.pc = "clear" /\ motorState = Phase(shaft))

ReadInTimeSpec == Init /\ [][Next /\ ReadInTime]_vars

\* The laws depend on no variable but the register, and are swept in the states
\* before motor_init only.
Sweeping == task.pc = "boot"

(***************************************************************************)
(* get_pwm (stepper_motor.c:58-68), with its clamps, its shift of a        *)
(* negative number and its int8_t result, computes the duty of the         *)
(* reference definition at every distance, and set_motor_dutycycle writes  *)
(* it so that the motor turns towards the set-point and stops there,       *)
(* whatever the register held: the range check at :43 never drops a duty   *)
(* that get_pwm returns, and the percentage never rounds down to no        *)
(* cycles.                                                                 *)
(***************************************************************************)
DutyLaw ==
  Sweeping =>
    \A d \in Distances :
      /\ GetPwm(d) = ReferenceDuty(d)
      /\ \A held \in {pwmReg, EncodeDuty(3), EncodeDuty(-3)} :
           Drive(SetMotorDutycycle(held, GetPwm(d))) = Sign(d)
=============================================================================
