---------------------------- MODULE StepperMotor ----------------------------
(***************************************************************************)
(* The motor driver of one board: semestral_project/src/stepper_motor.c    *)
(* with its environment, the motor shaft, its encoder and GPIO line, and   *)
(* the UDP receiver task of server.c that posts set-points.                *)
(*                                                                         *)
(* Three agents touch motor_driver_shared and the PWM register: the        *)
(* interrupt handler motor_isr, the task motor, and the task run_udp_srv.  *)
(* Every access to a variable or register that another agent may touch is  *)
(* a step of its own.  The project's default build (.wrproject:            *)
(* ARMARCH7gnu_SMP) is multi-core: the handler and the tasks run in        *)
(* parallel.  On one core the handler preempts the tasks and runs to its   *)
(* end before they continue.                                               *)
(*                                                                         *)
(* irq_count (only ever incremented, never read) is left out.              *)
(***************************************************************************)
EXTENDS MotorArith

CONSTANTS
  SetDesired, \* motor's argument: TRUE on the receiver board
  Cores,      \* the boards considered: 1 core, or 2 or more
  SlowShaft,  \* TRUE: a phase lasts at least as long as its service
  Hand,       \* TRUE: the shaft is also moved by hand
  SetPoints,  \* the positions that may arrive over UDP
  MaxShaft,   \* bound: the shaft stays in -MaxShaft..MaxShaft
  MaxCount,   \* bound: the shaft rests once position is beyond it
  MaxSem      \* bound: messages received ahead of the motor task

ASSUME MotorAssumption ==
  /\ SetDesired \in BOOLEAN /\ Cores \subseteq {1, 2}
  /\ SlowShaft \in BOOLEAN /\ Hand \in BOOLEAN
  /\ SetPoints \subseteq Int
  /\ MaxShaft \in Nat /\ MaxCount \in Nat /\ MaxSem \in Nat

VARIABLES
  cores,      \* hardware: 2 when handler and tasks run on different cores
  shaft,      \* hardware: where the shaft is, in encoder steps
  gpioStatus, \* hardware: GPIO_INT_STATUS bit of the motor's pin
  intEnabled, \* hardware: INT_LVL_GPIO at the controller, 1 when enabled
  pwmReg,     \* hardware: PWM_DUTY_CR
  position,   \* motor_driver_shared.position
  desired,    \* motor_driver_shared.desired_position
  pwmDuty,    \* motor_driver_shared.pwm_duty
  motorState, \* motor_state
  sem,        \* count of /sem_motor_pwm_change
  isr,        \* motor_isr: program counter and locals
  task,       \* motor: program counter and locals
  udpPc,      \* run_udp_srv: "recv" or "give"
  origin,     \* history: the place of the shaft that position 0 stands for
  appliedTo   \* history: the set-point pwmReg was computed for

hardware == <<cores, shaft, gpioStatus, intEnabled, pwmReg>>
shared   == <<position, desired, pwmDuty>>
history  == <<origin, appliedTo>>
vars     == <<hardware, shared, motorState, sem, isr, task, udpPc, history>>

IdleIsr  == [pc |-> "idle", a |-> 0, duty |-> 0, target |-> 0]
WaitTask == [pc |-> "wait", read |-> "none", val |-> 0, duty |-> 0, target |-> 0]

IsrPcs  == {"idle", "decode", "control", "setReg", "setShared", "clear"}
TaskPcs == {"boot", "initA", "initB", "wait", "compute", "disable",
            "setReg", "setShared", "enable"}

Init ==
  /\ cores \in Cores
  /\ shaft = 0 /\ gpioStatus \in {0, 1} /\ intEnabled = 0
  /\ pwmReg = PwmOff
  /\ position = 0 /\ desired = 0 /\ pwmDuty = 0
  /\ motorState = 0 /\ sem = 0
  /\ isr = IdleIsr /\ task = [WaitTask EXCEPT !.pc = "boot"]
  /\ udpPc = "recv"
  /\ origin = 0 /\ appliedTo = 0

-----------------------------------------------------------------------------
(* The shaft.  Each phase change raises the motor's GPIO interrupt.        *)

\* With SlowShaft the shaft waits while a phase change is being served, or
\* while motor_init is between its two reads of the encoder.
MayTurn ==
  SlowShaft => gpioStatus = 0 /\ isr.pc = "idle" /\ task.pc # "initB"

Turn(step) ==
  /\ MayTurn
  /\ shaft + step \in -MaxShaft..MaxShaft
  /\ position \in -MaxCount..MaxCount
  /\ shaft' = shaft + step
  /\ gpioStatus' = 1
  /\ UNCHANGED <<cores, intEnabled, pwmReg, shared, motorState, sem, isr,
                 task, udpPc, history>>

MotorTurns == Drive(pwmReg) # 0 /\ Turn(Drive(pwmReg))

HandTurns == Hand /\ \E step \in {-1, 1} : Turn(step)

-----------------------------------------------------------------------------
(* motor_isr                                                               *)

\* The handler starts when the line is raised and enabled; it reads line A.
IsrEnter ==
  /\ isr.pc = "idle" /\ gpioStatus = 1 /\ intEnabled = 1
  /\ isr' = [isr EXCEPT !.pc = "decode", !.a = LineA(Phase(shaft))]
  /\ UNCHANGED <<hardware, shared, motorState, sem, task, udpPc, history>>

\* Mutant of IsrDecode: the handler counts but does not control.
IsrDecodeOnly ==
  LET new == isr.a + 2 * LineB(Phase(shaft))
  IN  /\ isr.pc = "decode"
      /\ motorState' = new
      /\ position' = position + Decode(motorState, new)
      /\ isr' = [isr EXCEPT !.pc = "clear", !.a = 0]
      /\ UNCHANGED <<hardware, desired, pwmDuty, sem, task, udpPc, history>>

\* A second read of MOTOR_SR, for line B; the state is decoded and counted.
IsrDecode ==
  LET new == isr.a + 2 * LineB(Phase(shaft))
  IN  /\ isr.pc = "decode"
      /\ motorState' = new
      /\ position' = position + Decode(motorState, new)
      /\ isr' = [isr EXCEPT !.pc = IF SetDesired THEN "control" ELSE "clear",
                            !.a = 0]
      /\ UNCHANGED <<hardware, desired, pwmDuty, sem, task, udpPc, history>>

IsrControl ==
  /\ isr.pc = "control"
  /\ isr' = [isr EXCEPT !.pc = "setReg",
                        !.duty = GetPwm(desired - position),
                        !.target = desired]
  /\ UNCHANGED <<hardware, shared, motorState, sem, task, udpPc, history>>

IsrSetReg ==
  /\ isr.pc = "setReg"
  /\ pwmReg' = SetMotorDutycycle(pwmReg, isr.duty)
  /\ appliedTo' = isr.target
  /\ isr' = [isr EXCEPT !.pc = "setShared"]
  /\ UNCHANGED <<cores, shaft, gpioStatus, intEnabled, shared, motorState,
                 sem, task, udpPc, origin>>

IsrSetShared ==
  /\ isr.pc = "setShared"
  /\ pwmDuty' = isr.duty
  /\ isr' = [isr EXCEPT !.pc = "clear"]
  /\ UNCHANGED <<hardware, position, desired, motorState, sem, task, udpPc,
                 history>>

\* The handler's last act clears the status bit, and with it any edge that
\* came since it was entered.
IsrClear ==
  /\ isr.pc = "clear"
  /\ gpioStatus' = 0
  /\ isr' = IdleIsr
  /\ UNCHANGED <<cores, shaft, intEnabled, pwmReg, shared, motorState, sem,
                 task, udpPc, history>>

Isr == \/ IsrEnter \/ IsrDecode \/ IsrControl
       \/ IsrSetReg \/ IsrSetShared \/ IsrClear

-----------------------------------------------------------------------------
(* motor: motor_init, then the loop on the semaphore                       *)

TaskMayRun == cores = 2 \/ isr.pc = "idle"

\* The place next to n where the encoder shows state, of which line B was read
\* at n: at n or, if line A was read elsewhere, a step away.
NearestPlace(n, state) == n - 1 + ((PhaseIndex(state) - (n - 1)) % 4)

InitReset ==
  /\ TaskMayRun /\ task.pc = "boot"
  /\ position' = 0
  /\ gpioStatus' = 0
  /\ pwmReg' = PwmOff
  /\ task' = [task EXCEPT !.pc = "initA"]
  /\ UNCHANGED <<cores, shaft, intEnabled, desired, pwmDuty, motorState,
                 sem, isr, udpPc, history>>

InitReadA ==
  /\ TaskMayRun /\ task.pc = "initA"
  /\ task' = [task EXCEPT !.pc = "initB", !.val = LineA(Phase(shaft))]
  /\ UNCHANGED <<hardware, shared, motorState, sem, isr, udpPc, history>>

\* Mutant of InitReadB: motor_state is not initialised.
InitReadBForgotten ==
  LET new == task.val + 2 * LineB(Phase(shaft))
  IN  /\ TaskMayRun /\ task.pc = "initB"
      /\ origin' = NearestPlace(shaft, new)
      /\ intEnabled' = 1
      /\ task' = WaitTask
      /\ UNCHANGED <<cores, shaft, gpioStatus, pwmReg, shared, motorState,
                     sem, isr, udpPc, appliedTo>>

InitReadB ==
  LET new == task.val + 2 * LineB(Phase(shaft))
  IN  /\ TaskMayRun /\ task.pc = "initB"
      /\ motorState' = new
      /\ origin' = NearestPlace(shaft, new)
      /\ intEnabled' = 1
      /\ task' = WaitTask
      /\ UNCHANGED <<cores, shaft, gpioStatus, pwmReg, shared, sem, isr,
                     udpPc, appliedTo>>

\* Mutant of TaskTake: semTake with NO_WAIT, its result ignored.
TaskTakeNoWait(operand) ==
  /\ TaskMayRun /\ task.pc = "wait"
  /\ sem' = sem - 1
  /\ task' = [task EXCEPT !.pc = "compute", !.read = operand,
               !.val = IF operand = "desired" THEN desired ELSE position]
  /\ UNCHANGED <<hardware, shared, motorState, isr, udpPc, history>>

\* semTake succeeds.  C leaves open which operand of the subtraction is read
\* first; that read is part of this step.
TaskTake(operand) ==
  /\ TaskMayRun /\ task.pc = "wait" /\ sem > 0
  /\ sem' = sem - 1
  /\ task' = IF ~SetDesired THEN task
             ELSE [task EXCEPT !.pc = "compute", !.read = operand,
                     !.val = IF operand = "desired" THEN desired ELSE position]
  /\ UNCHANGED <<hardware, shared, motorState, isr, udpPc, history>>

\* The other operand is read and the duty computed, interrupts still enabled.
TaskCompute ==
  LET d == IF task.read = "desired" THEN task.val ELSE desired
      p == IF task.read = "position" THEN task.val ELSE position
  IN  /\ TaskMayRun /\ task.pc = "compute"
      /\ task' = [WaitTask EXCEPT !.pc = "disable",
                                  !.duty = GetPwm(d - p), !.target = d]
      /\ UNCHANGED <<hardware, shared, motorState, sem, isr, udpPc,
                     history>>

\* Mutant of TaskDisable: the interrupt stays enabled.
TaskDisableForgotten ==
  /\ TaskMayRun /\ task.pc = "disable"
  /\ task' = [task EXCEPT !.pc = "setReg"]
  /\ UNCHANGED <<hardware, shared, motorState, sem, isr, udpPc, history>>

TaskDisable ==
  /\ TaskMayRun /\ task.pc = "disable"
  /\ intEnabled' = 0
  /\ task' = [task EXCEPT !.pc = "setReg"]
  /\ UNCHANGED <<cores, shaft, gpioStatus, pwmReg, shared, motorState, sem,
                 isr, udpPc, history>>

TaskSetReg ==
  /\ TaskMayRun /\ task.pc = "setReg"
  /\ pwmReg' = SetMotorDutycycle(pwmReg, task.duty)
  /\ appliedTo' = task.target
  /\ task' = [task EXCEPT !.pc = "setShared"]
  /\ UNCHANGED <<cores, shaft, gpioStatus, intEnabled, shared, motorState,
                 sem, isr, udpPc, origin>>

TaskSetShared ==
  /\ TaskMayRun /\ task.pc = "setShared"
  /\ pwmDuty' = task.duty
  /\ task' = [task EXCEPT !.pc = "enable"]
  /\ UNCHANGED <<hardware, position, desired, motorState, sem, isr, udpPc,
                 history>>

\* Mutant of TaskEnable: the pending interrupt is cleared with the mask.
TaskEnableClears ==
  /\ TaskMayRun /\ task.pc = "enable"
  /\ intEnabled' = 1
  /\ gpioStatus' = 0
  /\ task' = WaitTask
  /\ UNCHANGED <<cores, shaft, pwmReg, shared, motorState, sem, isr, udpPc,
                 history>>

TaskEnable ==
  /\ TaskMayRun /\ task.pc = "enable"
  /\ intEnabled' = 1
  /\ task' = WaitTask
  /\ UNCHANGED <<cores, shaft, gpioStatus, pwmReg, shared, motorState, sem,
                 isr, udpPc, history>>

MotorInit == InitReset \/ InitReadA \/ InitReadB

Task == \/ MotorInit
        \/ \E operand \in {"desired", "position"} : TaskTake(operand)
        \/ TaskCompute \/ TaskDisable \/ TaskSetReg
        \/ TaskSetShared \/ TaskEnable

-----------------------------------------------------------------------------
(* run_udp_srv, the receiver's branch                                      *)

\* recvfrom stores a datagram straight into desired_position.
UdpReceive(v) ==
  /\ SetDesired /\ TaskMayRun /\ udpPc = "recv"
  /\ sem < MaxSem
  /\ desired' = v
  /\ udpPc' = "give"
  /\ UNCHANGED <<hardware, position, pwmDuty, motorState, sem, isr, task,
                 history>>

\* recvfrom fails; its status is not looked at.
UdpReceiveFails ==
  /\ SetDesired /\ TaskMayRun /\ udpPc = "recv"
  /\ sem < MaxSem
  /\ udpPc' = "give"
  /\ UNCHANGED <<hardware, shared, motorState, sem, isr, task, history>>

\* Mutant of UdpGive: semFlush, which only wakes a task already waiting.
UdpFlush ==
  /\ TaskMayRun /\ udpPc = "give"
  /\ sem' = IF task.pc = "wait" THEN 1 ELSE sem
  /\ udpPc' = "recv"
  /\ UNCHANGED <<hardware, shared, motorState, isr, task, history>>

UdpGive ==
  /\ TaskMayRun /\ udpPc = "give"
  /\ sem' = sem + 1
  /\ udpPc' = "recv"
  /\ UNCHANGED <<hardware, shared, motorState, isr, task, history>>

SetPointArrives == \E v \in SetPoints : UdpReceive(v)

-----------------------------------------------------------------------------
Environment == MotorTurns \/ HandTurns \/ SetPointArrives \/ UdpReceiveFails

Next == Environment \/ Isr \/ Task \/ UdpGive

Spec == Init /\ [][Next]_vars

(***************************************************************************)
(* A raised interrupt is taken once it is unmasked: the motor task masks   *)
(* it for three statements at a time, hence strong fairness.  A handler    *)
(* that has begun goes on, a ready task runs, a driven shaft turns, and    *)
(* the peer, which sends every SERVER_SEND_DELAY ticks, is heard again and *)
(* again.                                                                  *)
(***************************************************************************)
Fairness == /\ SF_vars(IsrEnter) /\ WF_vars(Isr)
            /\ WF_vars(Task) /\ WF_vars(UdpGive)
            /\ WF_vars(MotorTurns) /\ WF_vars(SetPointArrives)

FairSpec == Spec /\ Fairness

-----------------------------------------------------------------------------
(* Properties                                                              *)

Duties == -100..100

TypeOK ==
  /\ cores \in {1, 2}
  /\ shaft \in Int /\ gpioStatus \in {0, 1} /\ intEnabled \in {0, 1}
  /\ pwmReg \in [dir : Directions, cycles : Nat]
  /\ position \in Int /\ desired \in Int /\ pwmDuty \in Duties
  /\ motorState \in MotorStates /\ sem \in Nat
  /\ isr \in [pc : IsrPcs, a : {0, 1}, duty : Duties, target : Int]
  /\ task \in [pc : TaskPcs, read : {"none", "desired", "position"},
               val : Int, duty : Duties, target : Int]
  /\ udpPc \in {"recv", "give"}
  /\ origin \in Int /\ appliedTo \in Int

Running == task.pc \notin {"boot", "initA", "initB"}

\* Nothing is left to do: no interrupt raised or served, no set-point
\* waiting, every task at its blocking call.
Quiet == /\ gpioStatus = 0 /\ isr.pc = "idle"
         /\ task.pc = "wait" /\ sem = 0 /\ udpPc = "recv"

(***************************************************************************)
(* The decoder loses only whole pairs of steps: whenever motor_state shows *)
(* the encoder's present state, position is off by an even number, however *)
(* many edges were lost between the reads of MOTOR_SR and the clearing of  *)
(* GPIO_INT_STATUS, and however the two line reads were torn               *)
(* (stepper_motor.c:75-81, :90).                                           *)
(***************************************************************************)
DriftIsEven ==
  Running /\ motorState = Phase(shaft) => (position - (shaft - origin)) % 2 = 0

(***************************************************************************)
(* With a shaft no faster than its service, position counts every step:    *)
(* position plus the step motor_isr has yet to count is where the shaft    *)
(* stands, through every mask of the interrupt by the motor task and from  *)
(* the instant motor_init enables it.                                      *)
(***************************************************************************)
TracksShaft ==
  Running => position + Decode(motorState, Phase(shaft)) = shaft - origin

(***************************************************************************)
(* "Absolute position of the motor" (shared.h:24): once every interrupt is *)
(* served and the encoder shows the state that was decoded last, position  *)
(* is the shaft's displacement, at any shaft speed.                        *)
(***************************************************************************)
AbsolutePosition ==
  Running /\ Quiet /\ motorState = Phase(shaft) => position = shaft - origin

(***************************************************************************)
(* On one core motor_driver_shared.pwm_duty, which the plots show, is the  *)
(* duty in the PWM register whenever no writer is between its two stores   *)
(* (stepper_motor.c:86-87, :148-149): the writes of handler and task never *)
(* interleave.                                                             *)
(***************************************************************************)
DutyAgrees ==
  cores = 1 /\ isr.pc # "setShared" /\ task.pc # "setShared"
    => Shows(pwmReg, pwmDuty)

(***************************************************************************)
(* On one core no set-point is lost: when the board is at rest the PWM     *)
(* register holds a duty computed for the set-point that arrived last,     *)
(* whatever handler and task overwrote of each other on the way.           *)
(***************************************************************************)
SetpointApplied == cores = 1 /\ Running /\ Quiet => appliedTo = desired

(***************************************************************************)
(* "Disable interrupts to prevent data race (when interrupt handler sets   *)
(* duty cycle too)" (stepper_motor.c:145): at rest, the duty is the one    *)
(* the control law gives for the present distance.                         *)
(***************************************************************************)
FreshDuty ==
  Running /\ Quiet /\ SetDesired
    => Shows(pwmReg, GetPwm(desired - position))

(***************************************************************************)
(* Left to the controller, position never passes the set-points it is sent *)
(* (and the 0 it starts from) by more than one step, although a duty       *)
(* computed before an interrupt is applied after it: a single stale duty   *)
(* is in flight, and the next step of the shaft has it corrected.          *)
(***************************************************************************)
OvershootBounded ==
  \E lo, hi \in SetPoints \cup {0} : position \in lo - 1 .. hi + 1

(***************************************************************************)
(* The motor reaches a set-point that lasts, again and again: no stale     *)
(* duty, lost step or missed wake-up leaves it at rest elsewhere or        *)
(* running away for good.                                                  *)
(***************************************************************************)
ReachesSetpoint ==
  \A v \in SetPoints : <>[](desired = v) => []<>(position = v)
=============================================================================
