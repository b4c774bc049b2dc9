-------------------------- MODULE PriorityInversion --------------------------
(***************************************************************************)
(* Lab 4: three tasks of different priority and a mutex that the lowest    *)
(* and the highest share (lab4_priority_inheritance_kernel_module/main.c,  *)
(* utils.c), under the kernel's preemptive priority scheduler.  The high   *)
(* task measures how long it waits for the mutex.                          *)
(*                                                                         *)
(* Work and delays take ticks; everything else takes no time, so a Tick    *)
(* waits until no task that may run has anything else to do.  The          *)
(* activations of the tasks take no time either.                           *)
(***************************************************************************)
EXTENDS Integers

CONSTANTS
  Cores,     \* the boards considered: 1 core or 2
  LowWork,   \* bounds, in ticks: the longest work under the mutex,
  MidWork,   \*   the middle task's longest work,
  LowDelay,  \*   and the longest delays
  MidDelay,
  HighDelay,
  MaxMeasurements, \* bound: measurements asked for in one call
  MaxCalls         \* bound: calls of CreateTasks

ASSUME InversionAssumption ==
  /\ Cores \subseteq {1, 2}
  /\ {LowWork, MidWork, LowDelay, MidDelay, HighDelay} \subseteq Nat \ {0}
  /\ MaxMeasurements \in Nat /\ MaxCalls \in Nat

VARIABLES
  cores,        \* hardware: the number of cores
  calls,        \* how often CreateTasks has been called
  a1,           \* its first argument: 2 for priority inheritance
  num_of_mes,
  end,
  global_mutex, \* its owner, or "free"
  prio,         \* the kernel's present priority of each task
  pc,           \* each task's place
  left,         \* the ticks its work or delay still takes
  i,            \* tHPrio: the measurements made
  current,      \* tHPrio: the ticks since tstart was taken
  max_time      \* tHPrio: the longest of them in this call

settings == <<cores, calls, a1, num_of_mes>>
measure  == <<i, current, max_time>>
vars     == <<settings, end, global_mutex, prio, pc, left, measure>>

HIGH_PRIORITY == 210
MID_PRIORITY  == 211
LOW_PRIORITY  == 222

Base == [low |-> LOW_PRIORITY, mid |-> MID_PRIORITY, high |-> HIGH_PRIORITY]

Tasks == DOMAIN Base

Nobody == [t \in Tasks |-> "none"]

Init ==
  /\ cores \in Cores
  /\ calls = 0 /\ a1 = 1 /\ num_of_mes = 0 /\ end = 0
  /\ global_mutex = "free" /\ prio = Base
  /\ pc = Nobody /\ left = [t \in Tasks |-> 0]
  /\ i = 0 /\ current = 0 /\ max_time = 0

-----------------------------------------------------------------------------
(* CreateTasks                                                             *)

\* The tasks of an earlier call have ended.  end keeps its value.
CreateTasks(arg, n) ==
  /\ pc = Nobody /\ calls < MaxCalls
  /\ calls' = calls + 1 /\ a1' = arg /\ num_of_mes' = n
  /\ global_mutex' = "free" /\ prio' = Base
  /\ pc' = [t \in Tasks |-> "test"]
  /\ i' = 0 /\ current' = 0 /\ max_time' = 0
  /\ UNCHANGED <<cores, end, left>>

\* A task cannot be created, or the kernel is built for one processor and
\* refuses to set an affinity: none is activated.
CreateTasksFails(arg, n) ==
  /\ pc = Nobody /\ calls < MaxCalls
  /\ calls' = calls + 1 /\ a1' = arg /\ num_of_mes' = n
  /\ global_mutex' = "free"
  /\ i' = 0 /\ current' = 0 /\ max_time' = 0
  /\ UNCHANGED <<cores, end, prio, pc, left>>

-----------------------------------------------------------------------------
(* The scheduler                                                           *)

\* The affinity of the middle task is set twice and that of the high one never.
Affinity(t) == IF t = "high" THEN 1..cores ELSE {1}

Ready(t) == pc[t] \notin {"none", "delay", "blocked"}

\* A task that shares its core with a ready one of higher priority waits.
MayRun(t) ==
  /\ Ready(t)
  /\ \A u \in Tasks :
       Ready(u) /\ Affinity(u) = Affinity(t) => prio[t] <= prio[u]

Goto(t, place) == pc' = [pc EXCEPT ![t] = place]

\* After so many ticks; taskDelay and the work end at any tick up to max.
GotoFor(t, place, max) ==
  /\ Goto(t, place)
  /\ \E n \in 1..max : left' = [left EXCEPT ![t] = n]

\* Where a task goes on when its ticks are over.
After(t) ==
  IF pc[t] = "delay" THEN "test" ELSE IF t = "low" THEN "give" ELSE "rest"

Tick ==
  LET elapsing == {t \in Tasks : \/ pc[t] = "delay"
                                 \/ MayRun(t) /\ pc[t] = "work"}
  IN  /\ pc # Nobody
      /\ \A t \in Tasks : MayRun(t) => pc[t] = "work"
      /\ left' = [t \in Tasks |-> IF t \in elapsing THEN left[t] - 1
                                  ELSE left[t]]
      /\ pc' = [t \in Tasks |-> IF t \in elapsing /\ left[t] = 1 THEN After(t)
                                ELSE pc[t]]
      /\ current' = IF pc["high"] = "blocked" THEN current + 1 ELSE current
      /\ UNCHANGED <<settings, end, global_mutex, prio, i, max_time>>

-----------------------------------------------------------------------------
(* The mutex                                                               *)

Other(t) == IF t = "low" THEN "high" ELSE "low"

\* Where a task goes on with the mutex in hand.
Entered(t) == IF t = "low" THEN "enter" ELSE "got"

\* Mutant of semTake: no inheritance whatever the argument.
semTakePlain(t) ==
  IF global_mutex = "free"
  THEN global_mutex' = t /\ Goto(t, Entered(t)) /\ UNCHANGED prio
  ELSE Goto(t, "blocked") /\ UNCHANGED <<global_mutex, prio>>

\* With SEM_INVERSION_SAFE the owner inherits the priority of who waits.
semTake(t) ==
  IF global_mutex = "free"
  THEN global_mutex' = t /\ Goto(t, Entered(t)) /\ UNCHANGED prio
  ELSE /\ Goto(t, "blocked") /\ UNCHANGED global_mutex
       /\ prio' = IF a1 = 2 /\ prio[t] < prio[global_mutex]
                  THEN [prio EXCEPT ![global_mutex] = prio[t]] ELSE prio

\* The mutex is handed to who waits, and an inherited priority given up.
semGive(t, place) ==
  LET woken == {u \in {Other(t)} : pc[u] = "blocked"}
  IN  /\ global_mutex' = IF woken = {} THEN "free" ELSE Other(t)
      /\ prio' = [prio EXCEPT ![t] = Base[t]]
      /\ pc' = [u \in Tasks |-> IF u = t THEN place
                                ELSE IF u \in woken THEN Entered(u) ELSE pc[u]]

-----------------------------------------------------------------------------
(* tLPrio and tMPrio                                                       *)

\* The loops' conditions.
TestEnd(t, place) ==
  /\ MayRun(t) /\ pc[t] = "test"
  /\ Goto(t, IF end = 1 THEN "none" ELSE place)
  /\ UNCHANGED <<settings, end, global_mutex, prio, left, measure>>

LowTake ==
  /\ MayRun("low") /\ pc["low"] = "take"
  /\ semTake("low")
  /\ UNCHANGED <<settings, end, left, measure>>

LowWorks ==
  /\ MayRun("low") /\ pc["low"] = "enter"
  /\ GotoFor("low", "work", LowWork)
  /\ UNCHANGED <<settings, end, global_mutex, prio, measure>>

LowGive ==
  /\ MayRun("low") /\ pc["low"] = "give"
  /\ semGive("low", "rest")
  /\ UNCHANGED <<settings, end, left, measure>>

Low == TestEnd("low", "take") \/ LowTake \/ LowWorks \/ LowGive

MidWorks ==
  /\ MayRun("mid") /\ pc["mid"] = "begin"
  /\ GotoFor("mid", "work", MidWork)
  /\ UNCHANGED <<settings, end, global_mutex, prio, measure>>

\* taskDelay
Rest(t, max) ==
  /\ MayRun(t) /\ pc[t] = "rest"
  /\ GotoFor(t, "delay", max)
  /\ UNCHANGED <<settings, end, global_mutex, prio, measure>>

Mid == TestEnd("mid", "begin") \/ MidWorks

-----------------------------------------------------------------------------
(* tHPrio                                                                  *)

HighMeasures ==
  /\ MayRun("high") /\ pc["high"] = "test" /\ i < num_of_mes
  /\ current' = 0
  /\ semTake("high")
  /\ UNCHANGED <<settings, end, left, i, max_time>>

HighGot ==
  /\ MayRun("high") /\ pc["high"] = "got"
  /\ semGive("high", "rest")
  /\ max_time' = IF current > max_time THEN current ELSE max_time
  /\ i' = i + 1
  /\ UNCHANGED <<settings, end, left, current>>

\* Mutant of HighEnds: the other tasks are not told.
HighEndsSilently ==
  /\ MayRun("high") /\ pc["high"] = "test" /\ i >= num_of_mes
  /\ Goto("high", "none")
  /\ UNCHANGED <<settings, end, global_mutex, prio, left, measure>>

HighEnds ==
  /\ MayRun("high") /\ pc["high"] = "test" /\ i >= num_of_mes
  /\ end' = 1
  /\ Goto("high", "none")
  /\ UNCHANGED <<settings, global_mutex, prio, left, measure>>

High == HighMeasures \/ HighGot \/ HighEnds

-----------------------------------------------------------------------------
Rests == \/ Rest("low", LowDelay) \/ Rest("mid", MidDelay)
         \/ Rest("high", HighDelay)

Call == \E arg \in {1, 2}, n \in 0..MaxMeasurements :
          CreateTasks(arg, n) \/ CreateTasksFails(arg, n)

Run == Low \/ Mid \/ High \/ Rests \/ Tick

Next == Call \/ Run

Spec == Init /\ [][Next]_vars

\* The processor does not stand still; on two cores neither of them does.
FairSpec ==
  /\ Spec
  /\ WF_vars(Low \/ Mid \/ Rest("low", LowDelay) \/ Rest("mid", MidDelay))
  /\ WF_vars(High \/ Rest("high", HighDelay))
  /\ WF_vars(Tick)

-----------------------------------------------------------------------------
(* Properties                                                              *)

TypeOK ==
  /\ cores \in {1, 2} /\ calls \in Nat /\ a1 \in {1, 2} /\ num_of_mes \in Nat
  /\ end \in {0, 1} /\ global_mutex \in {"free", "low", "high"}
  /\ prio \in [Tasks -> {HIGH_PRIORITY, MID_PRIORITY, LOW_PRIORITY}]
  /\ pc \in [Tasks -> {"none", "test", "take", "enter", "work", "give", "rest",
                       "delay", "begin", "got", "blocked"}]
  /\ left \in [Tasks -> Nat]
  /\ i \in Nat /\ current \in Nat /\ max_time \in Nat

(***************************************************************************)
(* With priority inheritance the high task never waits for the mutex       *)
(* longer than the low task works under it: whatever the middle task does  *)
(* and whichever core the high task is on, since its affinity is never set *)
(* (main.c:40-42, utils.c:32-47).  Without, there is no such bound.        *)
(***************************************************************************)
WaitBounded ==
  a1 = 2 => current <= LowWork /\ max_time <= LowWork

(***************************************************************************)
(* An inherited priority lasts exactly as long as its reason: a task's     *)
(* priority differs from the one it was created with only while the high   *)
(* task waits for the mutex it owns, and then it is the high task's; and   *)
(* nobody sleeps, ends or waits with the mutex in hand, so that who waits  *)
(* for it waits for a task that can run (utils.c:9-12, :35-38).            *)
(***************************************************************************)
InheritedWhileWaited ==
  /\ \A t \in Tasks :
       prio[t] = IF a1 = 2 /\ global_mutex = t /\ pc[Other(t)] = "blocked"
                    /\ Base[Other(t)] < Base[t]
                 THEN Base[Other(t)] ELSE Base[t]
  /\ global_mutex # "free" => Ready(global_mutex)

(***************************************************************************)
(* Every measurement ends and the three tasks with it, with inheritance or *)
(* without: the middle task's delays let the low one give back the mutex   *)
(* in the end, and end reaches both loops (utils.c:8, :19, :48).           *)
(***************************************************************************)
MeasurementEnds == pc # Nobody ~> pc = Nobody
=============================================================================
