---------------------------- MODULE ResponseTime ----------------------------
(***************************************************************************)
(* Lab 6: how long after a timer's interrupt its handler and a task that   *)
(* waits for a semaphore run (lab6_response_time_async_events/main.c).     *)
(* Both read the timer's counter, which starts again at the interrupt.     *)
(***************************************************************************)
EXTENDS Integers, FiniteSetsExt

CONSTANTS
  TIM_MAX,       \* counts of the timer's period
  TIME_MAP_SIZE, \* rows of a histogram
  CountTime,     \* time of a count, 36 in the source, ...
  RowTime,       \*   and of a row: 1000
  MaxPeriods,    \* bound: periods of the timer in one call
  MaxStarts,     \* bound: calls of CreateTasks
  MaxPrints      \* bound: measurements asked for

ASSUME ResponseAssumption ==
  /\ {TIM_MAX, TIME_MAP_SIZE, CountTime, RowTime} \subseteq Nat \ {0}
  /\ {MaxPeriods, MaxStarts, MaxPrints} \subseteq Nat

VARIABLES
  board,   \* the processor: smp, two cores or one; hoisted, the compiler reads
           \*   m_end once in CreateTasks' loop; prompt, handler and task are
           \*   done before the period is over
  timer,   \* counter, running; status, an interrupt is due; enabled, it arrives
  isr,     \* places of timer_isr, CreateTasks, ServiceTask and MonitorTask
  shell,
  service,
  monitor,
  m_end,
  semaphore,      \* the count of isr_semaphore
  m_time_isr_map,
  m_time_srv_map,
  wanted,         \* MonitorTask's measurements ...
  printed,        \*   and i
  history         \* history: calls; since the last: periods, handlers and
                  \*   services begun, stale: an interrupt was due already

maps         == <<m_time_isr_map, m_time_srv_map>>
responseVars == <<board, timer, isr, shell, service, monitor, m_end, semaphore,
                  maps, wanted, printed, history>>

Rows == 0 .. TIME_MAP_SIZE - 1

ResponseInit ==
  /\ board \in [smp : BOOLEAN, hoisted : BOOLEAN, prompt : BOOLEAN]
  /\ timer = [counter |-> 0, running |-> FALSE, status |-> FALSE,
              enabled |-> FALSE]
  /\ isr = "idle" /\ shell = "idle" /\ service = "none" /\ monitor = "none"
  /\ m_end = 0 /\ semaphore = 0 /\ wanted = 0 /\ printed = 0
  /\ m_time_isr_map = [r \in Rows |-> 0] /\ m_time_srv_map = [r \in Rows |-> 0]
  /\ history = [calls |-> 0, periods |-> 0, handled |-> 0, served |-> 0,
                stale |-> FALSE]

-----------------------------------------------------------------------------
(* The timer                                                               *)

\* Everything the last interrupt asked for has been done.
Answered == ~timer.status /\ isr = "idle" /\ semaphore = 0 /\ service = "take"

TimerCounts ==
  /\ timer.running /\ timer.counter + 1 < TIM_MAX
  /\ timer' = [timer EXCEPT !.counter = @ + 1]
  /\ UNCHANGED <<board, isr, shell, service, monitor, m_end, semaphore, maps,
                 wanted, printed, history>>

TimerInterrupts ==
  /\ timer.running /\ timer.counter + 1 = TIM_MAX
  /\ board.prompt => Answered
  /\ history.periods < MaxPeriods
  /\ timer' = [timer EXCEPT !.counter = 0, !.status = TRUE]
  /\ history' = [history EXCEPT !.periods = @ + 1]
  /\ UNCHANGED <<board, isr, shell, service, monitor, m_end, semaphore, maps,
                 wanted, printed>>

\* A histogram with the present counter's row, if it has one, raised by one.
Sampled(map) ==
  LET row == (timer.counter * CountTime) \div RowTime
  IN  IF row \in Rows THEN [map EXCEPT ![row] = @ + 1] ELSE map

-----------------------------------------------------------------------------
(* timer_isr                                                               *)

IsrSamples ==
  /\ isr = "idle" /\ timer.status /\ timer.enabled
  /\ m_time_isr_map' = Sampled(m_time_isr_map)
  /\ history' = [history EXCEPT !.handled = @ + 1]
  /\ isr' = "give"
  /\ UNCHANGED <<board, timer, shell, service, monitor, m_end, semaphore,
                 m_time_srv_map, wanted, printed>>

IsrGives ==
  /\ isr = "give"
  /\ semaphore' = semaphore + 1
  /\ isr' = "clear"
  /\ UNCHANGED <<board, timer, shell, service, monitor, m_end, maps, wanted,
                 printed, history>>

\* Mutant of IsrClears: the register is not read.
IsrClearsNothing ==
  /\ isr = "clear"
  /\ isr' = "idle"
  /\ UNCHANGED <<board, timer, shell, service, monitor, m_end, semaphore, maps,
                 wanted, printed, history>>

\* Reading the register clears it: also of an interrupt that came meanwhile.
IsrClears ==
  /\ isr = "clear"
  /\ timer' = [timer EXCEPT !.status = FALSE]
  /\ isr' = "idle"
  /\ UNCHANGED <<board, shell, service, monitor, m_end, semaphore, maps, wanted,
                 printed, history>>

-----------------------------------------------------------------------------
(* The tasks.  CreateTasks' loop never yields its core, so they run on the *)
(* other one, if there is one, and the monitor when the service task waits.*)

ServiceReady ==
  service \in {"test", "read"} \/ (service = "take" /\ semaphore > 0)

ServiceTests ==
  /\ board.smp /\ service = "test"
  /\ service' = IF m_end = 0 THEN "take" ELSE "none"
  /\ UNCHANGED <<board, timer, isr, shell, monitor, m_end, semaphore, maps,
                 wanted, printed, history>>

ServiceTakes ==
  /\ board.smp /\ service = "take" /\ semaphore > 0
  /\ semaphore' = semaphore - 1
  /\ service' = "read"
  /\ UNCHANGED <<board, timer, isr, shell, monitor, m_end, maps, wanted,
                 printed, history>>

ServiceSamples ==
  /\ board.smp /\ service = "read"
  /\ m_time_srv_map' = Sampled(m_time_srv_map)
  /\ history' = [history EXCEPT !.served = @ + 1]
  /\ service' = "test"
  /\ UNCHANGED <<board, timer, isr, shell, monitor, m_end, semaphore,
                 m_time_isr_map, wanted, printed>>

MonitorGoesOn == wanted = 0 \/ wanted # printed

MonitorDelays ==
  /\ board.smp /\ ~ServiceReady /\ monitor = "test" /\ MonitorGoesOn
  /\ monitor' = "delay"
  /\ UNCHANGED <<board, timer, isr, shell, service, m_end, semaphore, maps,
                 wanted, printed, history>>

\* The delay is over and the two histograms are printed.  Of an endless
\* measurement they are not counted.
MonitorPrints ==
  /\ board.smp /\ ~ServiceReady /\ monitor = "delay"
  /\ monitor' = "test"
  /\ printed' = IF wanted = 0 THEN 0 ELSE printed + 1
  /\ UNCHANGED <<board, timer, isr, shell, service, m_end, semaphore, maps,
                 wanted, history>>

\* Mutant of MonitorEnds: the end is not announced.
MonitorEndsSilently ==
  /\ board.smp /\ ~ServiceReady /\ monitor = "test" /\ ~MonitorGoesOn
  /\ monitor' = "none"
  /\ UNCHANGED <<board, timer, isr, shell, service, m_end, semaphore, maps,
                 wanted, printed, history>>

MonitorEnds ==
  /\ board.smp /\ ~ServiceReady /\ monitor = "test" /\ ~MonitorGoesOn
  /\ m_end' = 1
  /\ monitor' = "none"
  /\ UNCHANGED <<board, timer, isr, shell, service, semaphore, maps, wanted,
                 printed, history>>

-----------------------------------------------------------------------------
(* CreateTasks, called in the shell                                        *)

\* Mutant of Prepare: the semaphore is created full.
PrepareFull(measurements) ==
  /\ shell = "idle" /\ isr = "idle" /\ history.calls < MaxStarts
  /\ m_end' = 0 /\ semaphore' = 1
  /\ m_time_isr_map' = [r \in Rows |-> 0]
  /\ m_time_srv_map' = [r \in Rows |-> 0]
  /\ timer' = [timer EXCEPT !.running = TRUE, !.enabled = TRUE]
  /\ wanted' = measurements /\ printed' = 0
  /\ history' = [calls |-> history.calls + 1, periods |-> 0, handled |-> 0,
                 served |-> 0, stale |-> timer.status]
  /\ shell' = "spawn"
  /\ UNCHANGED <<board, isr, service, monitor>>

\* Up to intEnable.  The handler of the last call's interrupts has returned
\* long since; the counter goes on from where it was stopped.
Prepare(measurements) ==
  /\ shell = "idle" /\ isr = "idle" /\ history.calls < MaxStarts
  /\ m_end' = 0 /\ semaphore' = 0
  /\ m_time_isr_map' = [r \in Rows |-> 0]
  /\ m_time_srv_map' = [r \in Rows |-> 0]
  /\ timer' = [timer EXCEPT !.running = TRUE, !.enabled = TRUE]
  /\ wanted' = measurements /\ printed' = 0
  /\ history' = [calls |-> history.calls + 1, periods |-> 0, handled |-> 0,
                 served |-> 0, stale |-> timer.status]
  /\ shell' = "spawn"
  /\ UNCHANGED <<board, isr, service, monitor>>

Spawn ==
  /\ shell = "spawn"
  /\ service' = "test" /\ monitor' = "test"
  /\ shell' = "wait"
  /\ UNCHANGED <<board, timer, isr, m_end, semaphore, maps, wanted, printed,
                 history>>

\* The loop is left if m_end is read again.  The interrupt is disabled; one
\* that is due stays so.
Stop ==
  /\ shell = "wait" /\ ~board.hoisted /\ m_end = 1
  /\ timer' = [timer EXCEPT !.running = FALSE, !.enabled = FALSE]
  /\ shell' = "delete"
  /\ UNCHANGED <<board, isr, service, monitor, m_end, semaphore, maps, wanted,
                 printed, history>>

Delete ==
  /\ shell = "delete"
  /\ service' = "none"
  /\ shell' = "idle"
  /\ UNCHANGED <<board, timer, isr, monitor, m_end, semaphore, maps, wanted,
                 printed, history>>

-----------------------------------------------------------------------------
Timer   == TimerCounts \/ TimerInterrupts
Isr     == IsrSamples \/ IsrGives \/ IsrClears
Service == ServiceTests \/ ServiceTakes \/ ServiceSamples
Monitor == MonitorDelays \/ MonitorPrints \/ MonitorEnds
Shell   == Spawn \/ Stop \/ Delete

ResponseNext ==
  \/ Timer \/ Isr \/ Service \/ Monitor \/ Shell
  \/ \E n \in 0..MaxPrints : Prepare(n)

ResponseSpec == ResponseInit /\ [][ResponseNext]_responseVars

-----------------------------------------------------------------------------
(* Properties                                                              *)

ResponseTypeOK ==
  /\ board \in [smp : BOOLEAN, hoisted : BOOLEAN, prompt : BOOLEAN]
  /\ timer \in [counter : 0 .. TIM_MAX - 1, running : BOOLEAN,
                status : BOOLEAN, enabled : BOOLEAN]
  /\ isr \in {"idle", "give", "clear"}
  /\ shell \in {"idle", "spawn", "wait", "delete"}
  /\ service \in {"none", "test", "take", "read"}
  /\ monitor \in {"none", "test", "delay"}
  /\ m_end \in {0, 1} /\ semaphore \in Nat
  /\ {m_time_isr_map, m_time_srv_map} \subseteq [Rows -> Nat]
  /\ wanted \in 0..MaxPrints /\ printed \in 0..MaxPrints
  /\ history \in [calls : Nat, periods : Nat, handled : Nat, served : Nat,
                  stale : BOOLEAN]

(***************************************************************************)
(* No period of the timer is handled twice; as long as handler and task    *)
(* are prompt none is missed, and all that is not yet served is an         *)
(* interrupt that is due, the handler's, or in the semaphore.  One sample  *)
(* may come from before the call: the interrupt that was due when the last *)
(* one disabled it (main.c:26, :160-163, :169-170).                        *)
(***************************************************************************)
PeriodsHandledOnce ==
  LET due == history.periods + (IF history.stale THEN 1 ELSE 0)
  IN  /\ history.handled <= due
      /\ board.prompt /\ shell = "wait" =>
           history.handled = due - (IF timer.status /\ isr = "idle" THEN 1 ELSE 0)
      /\ shell = "wait" =>
           history.handled = history.served + semaphore
                             + (IF isr = "give" THEN 1 ELSE 0)
                             + (IF service = "read" THEN 1 ELSE 0)

\* Samples of a histogram up to a row.
UpTo(map, row) == FoldSet(LAMBDA r, sum : sum + map[r], 0, 0..row)

(***************************************************************************)
(* If all is prompt the service task is never seen faster than the         *)
(* handler it waits for: up to any row its histogram counts no more than   *)
(* the handler's.  (After a missed period its latency is counted from the  *)
(* wrong interrupt, main.c:44.)                                            *)
(***************************************************************************)
ServiceNotFaster ==
  board.prompt =>
    \A row \in Rows : UpTo(m_time_srv_map, row) <= UpTo(m_time_isr_map, row)

(***************************************************************************)
(* On two cores a measurement of so many prints ends, "after `seconds'     *)
(* seconds have passed" (main.c:117), if the compiler reads m_end again in *)
(* each turn of the loop (main.c:167; it is not volatile).  On one core    *)
(* the loop starves the tasks it waits for.                                *)
(***************************************************************************)
ResponseEnds ==
  (board.smp /\ ~board.hoisted /\ shell = "spawn" /\ wanted # 0)
    ~> shell = "idle"
=============================================================================
