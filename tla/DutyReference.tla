---------------------------- MODULE DutyReference ----------------------------
(***************************************************************************)
(* A reference definition of the control law, and the distances at which   *)
(* get_pwm is compared with it.  Beyond 200 either way get_pwm clamps the  *)
(* distance, so nothing new happens there.                                 *)
(***************************************************************************)
EXTENDS MotorArith, FiniteSetsExt

MaxDistance == 300 \* bound: the distances the sweep goes through

Distances == -MaxDistance..MaxDistance

Sign(n) == IF n > 0 THEN 1 ELSE IF n < 0 THEN -1 ELSE 0

\* The duty asked for, in percent, is a 256th of the distance squared, rounded
\* down (so away from zero when it is negative), kept between the least duty
\* that still moves the motor and full duty.
ReferenceDuty(d) ==
  IF d = 0 THEN 0
  ELSE IF d > 0 THEN Max({MIN_PWM_DUTY} \cup {p \in 0..100 : 256 * p <= d * d})
  ELSE -Min({100} \cup {p \in MIN_PWM_DUTY..100 : 256 * p >= d * d})
=============================================================================
