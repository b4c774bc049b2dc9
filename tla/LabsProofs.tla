----------------------------- MODULE LabsProofs -----------------------------
(***************************************************************************)
(* Proofs about the measurements of labs 4 to 7, for any lengths, delays,  *)
(* counts and numbers of faults.                                           *)
(***************************************************************************)
EXTENDS MCLabs, FiniteSetTheorems, LeastElements

-----------------------------------------------------------------------------
(* Lab 4: priority inheritance                                             *)

(***************************************************************************)
(* Every action of the three tasks and of CreateTasks, for proofs by       *)
(* cases.                                                                  *)
(***************************************************************************)
LEMMA NextCases ==
  ASSUME [Next]_vars
  PROVE  \/ \E arg \in {1, 2}, n \in 0..MaxMeasurements :
              CreateTasks(arg, n) \/ CreateTasksFails(arg, n)
         \/ TestEnd("low", "take") \/ LowTake \/ LowWorks \/ LowGive
         \/ TestEnd("mid", "begin") \/ MidWorks
         \/ HighMeasures \/ HighGot \/ HighEnds
         \/ Rest("low", LowDelay) \/ Rest("mid", MidDelay)
         \/ Rest("high", HighDelay)
         \/ Tick \/ UNCHANGED vars
BY DEF Next, Call, Run, Low, Mid, High, Rests

LEMMA InversionConstants ==
  /\ Cores \subseteq {1, 2}
  /\ LowWork \in Nat \ {0} /\ MidWork \in Nat \ {0} /\ LowDelay \in Nat \ {0}
  /\ MidDelay \in Nat \ {0} /\ HighDelay \in Nat \ {0}
  /\ MaxMeasurements \in Nat /\ MaxCalls \in Nat
BY InversionAssumption

LEMMA TasksFacts ==
  /\ Tasks = {"low", "mid", "high"}
  /\ Base["low"] = 222 /\ Base["mid"] = 211 /\ Base["high"] = 210
  /\ Base \in [Tasks -> {HIGH_PRIORITY, MID_PRIORITY, LOW_PRIORITY}]
BY DEF Tasks, Base, HIGH_PRIORITY, MID_PRIORITY, LOW_PRIORITY

\* A task is at a place of its own code.
PlacesInv ==
  /\ pc["low"] \in {"none", "test", "take", "enter", "work", "give", "rest",
                    "delay", "blocked"}
  /\ pc["mid"] \in {"none", "test", "begin", "work", "rest", "delay"}
  /\ pc["high"] \in {"none", "test", "got", "rest", "delay", "blocked"}

\* The mutex belongs to who is between semTake and semGive, and who is blocked
\* waits for the other.
MutexInv ==
  /\ global_mutex = "low" <=> pc["low"] \in {"enter", "work", "give"}
  /\ global_mutex = "high" <=> pc["high"] = "got"
  /\ pc["low"] = "blocked" => global_mutex = "high"
  /\ pc["high"] = "blocked" => global_mutex = "low"

\* Work and delays take time, and the low task's work not too long.
TicksInv ==
  /\ \A t \in Tasks : pc[t] \in {"work", "delay"} => left[t] >= 1
  /\ pc["low"] = "work" => left["low"] <= LowWork

(***************************************************************************)
(* The inductive form of WaitBounded: the high task has waited for no      *)
(* longer than the low one has worked, and what is left of that work will  *)
(* not bring it over the bound.                                            *)
(***************************************************************************)
WaitInv ==
  a1 = 2 /\ pc["high"] = "blocked" =>
    /\ pc["low"] = "enter" => current = 0
    /\ pc["low"] = "work" => current + left["low"] <= LowWork

InversionInv == /\ TypeOK /\ PlacesInv /\ MutexInv /\ TicksInv
                /\ InheritedWhileWaited /\ WaitBounded /\ WaitInv

LEMMA InversionInitial == Init => InversionInv
<1> SUFFICES ASSUME Init PROVE InversionInv
  OBVIOUS
<1> USE InversionConstants, TasksFacts DEF Init, Nobody
<1>1. TypeOK
  BY DEF TypeOK
<1>2. PlacesInv /\ MutexInv /\ TicksInv /\ WaitBounded /\ WaitInv
  BY DEF PlacesInv, MutexInv, TicksInv, WaitBounded, WaitInv
<1>3. InheritedWhileWaited
  BY DEF InheritedWhileWaited
<1> QED
  BY <1>1, <1>2, <1>3 DEF InversionInv

\* The facts about the state that the proofs start from.
LEMMA Types ==
  TypeOK <=>
    /\ cores \in {1, 2} /\ calls \in Nat /\ a1 \in {1, 2} /\ num_of_mes \in Nat
    /\ end \in {0, 1} /\ global_mutex \in {"free", "low", "high"}
    /\ prio \in [Tasks -> {HIGH_PRIORITY, MID_PRIORITY, LOW_PRIORITY}]
    /\ pc \in [Tasks -> {"none", "test", "take", "enter", "work", "give",
                         "rest", "delay", "begin", "got", "blocked"}]
    /\ left \in [Tasks -> Nat]
    /\ i \in Nat /\ current \in Nat /\ max_time \in Nat
BY DEF TypeOK

LEMMA PlacesNext ==
  TypeOK /\ PlacesInv /\ MutexInv /\ [Next]_vars => PlacesInv'
<1> SUFFICES ASSUME TypeOK, PlacesInv, MutexInv, [Next]_vars
             PROVE  PlacesInv'
  OBVIOUS
<1> USE Types, TasksFacts DEF PlacesInv, MutexInv
<1>1. ASSUME NEW arg \in {1, 2}, NEW n \in 0..MaxMeasurements,
             CreateTasks(arg, n)
      PROVE  PlacesInv'
  BY <1>1 DEF CreateTasks, Nobody, settings, measure
<1>2. ASSUME NEW arg \in {1, 2}, NEW n \in 0..MaxMeasurements,
             CreateTasksFails(arg, n)
      PROVE  PlacesInv'
  BY <1>2 DEF CreateTasksFails, Nobody, settings, measure
<1>3. CASE TestEnd("low", "take")
  BY <1>3 DEF TestEnd, Goto, settings, measure
<1>4. CASE LowTake
  BY <1>4 DEF LowTake, semTake, Goto, Entered, settings, measure
<1>5. CASE LowWorks
  BY <1>5 DEF LowWorks, GotoFor, Goto, settings, measure
<1>6. CASE LowGive
  BY <1>6 DEF LowGive, semGive, Other, Entered, settings, measure
<1>7. CASE TestEnd("mid", "begin")
  BY <1>7 DEF TestEnd, Goto, settings, measure
<1>8. CASE MidWorks
  BY <1>8 DEF MidWorks, GotoFor, Goto, settings, measure
<1>9. CASE HighMeasures
  BY <1>9 DEF HighMeasures, semTake, Goto, Entered, settings, measure
<1>10. CASE HighGot
  BY <1>10 DEF HighGot, semGive, Other, Entered, settings, measure
<1>11. CASE HighEnds
  BY <1>11 DEF HighEnds, Goto, settings, measure
<1>12. CASE Rest("low", LowDelay)
  BY <1>12 DEF Rest, GotoFor, Goto, settings, measure
<1>13. CASE Rest("mid", MidDelay)
  BY <1>13 DEF Rest, GotoFor, Goto, settings, measure
<1>14. CASE Rest("high", HighDelay)
  BY <1>14 DEF Rest, GotoFor, Goto, settings, measure
<1>15. CASE Tick
  BY <1>15 DEF Tick, After, settings, measure
<1>16. CASE UNCHANGED vars
  BY <1>16 DEF vars, settings, measure
<1> QED
  BY <1>1, <1>2, <1>3, <1>4, <1>5, <1>6, <1>7, <1>8, <1>9, <1>10, <1>11, <1>12,
     <1>13, <1>14, <1>15, <1>16, NextCases

LEMMA MutexNext ==
  TypeOK /\ PlacesInv /\ MutexInv /\ [Next]_vars => MutexInv'
<1> SUFFICES ASSUME TypeOK, PlacesInv, MutexInv, [Next]_vars
             PROVE  MutexInv'
  OBVIOUS
<1> USE Types, TasksFacts DEF PlacesInv, MutexInv
<1>1. ASSUME NEW arg \in {1, 2}, NEW n \in 0..MaxMeasurements,
             CreateTasks(arg, n)
      PROVE  MutexInv'
  BY <1>1 DEF CreateTasks, Nobody, settings, measure
<1>2. ASSUME NEW arg \in {1, 2}, NEW n \in 0..MaxMeasurements,
             CreateTasksFails(arg, n)
      PROVE  MutexInv'
  BY <1>2 DEF CreateTasksFails, Nobody, settings, measure
<1>3. CASE TestEnd("low", "take")
  BY <1>3 DEF TestEnd, Goto, settings, measure
<1>4. CASE LowTake
  BY <1>4 DEF LowTake, semTake, Goto, Entered, settings, measure
<1>5. CASE LowWorks
  BY <1>5 DEF LowWorks, GotoFor, Goto, settings, measure
<1>6. CASE LowGive
  BY <1>6 DEF LowGive, semGive, Other, Entered, settings, measure
<1>7. CASE TestEnd("mid", "begin")
  BY <1>7 DEF TestEnd, Goto, settings, measure
<1>8. CASE MidWorks
  BY <1>8 DEF MidWorks, GotoFor, Goto, settings, measure
<1>9. CASE HighMeasures
  BY <1>9 DEF HighMeasures, semTake, Goto, Entered, settings, measure
<1>10. CASE HighGot
  BY <1>10 DEF HighGot, semGive, Other, Entered, settings, measure
<1>11. CASE HighEnds
  BY <1>11 DEF HighEnds, Goto, settings, measure
<1>12. CASE Rest("low", LowDelay)
  BY <1>12 DEF Rest, GotoFor, Goto, settings, measure
<1>13. CASE Rest("mid", MidDelay)
  BY <1>13 DEF Rest, GotoFor, Goto, settings, measure
<1>14. CASE Rest("high", HighDelay)
  BY <1>14 DEF Rest, GotoFor, Goto, settings, measure
<1>15. CASE Tick
  BY <1>15 DEF Tick, After, settings, measure
<1>16. CASE UNCHANGED vars
  BY <1>16 DEF vars, settings, measure
<1> QED
  BY <1>1, <1>2, <1>3, <1>4, <1>5, <1>6, <1>7, <1>8, <1>9, <1>10, <1>11, <1>12,
     <1>13, <1>14, <1>15, <1>16, NextCases

LEMMA TicksNext ==
  TypeOK /\ PlacesInv /\ TicksInv /\ [Next]_vars => TicksInv'
<1> SUFFICES ASSUME TypeOK, PlacesInv, TicksInv, [Next]_vars
             PROVE  TicksInv'
  OBVIOUS
<1> USE Types, TasksFacts, InversionConstants DEF PlacesInv, TicksInv
<1>1. ASSUME NEW arg \in {1, 2}, NEW n \in 0..MaxMeasurements,
             CreateTasks(arg, n)
      PROVE  TicksInv'
  BY <1>1 DEF CreateTasks, Nobody, settings, measure
<1>2. ASSUME NEW arg \in {1, 2}, NEW n \in 0..MaxMeasurements,
             CreateTasksFails(arg, n)
      PROVE  TicksInv'
  BY <1>2 DEF CreateTasksFails, Nobody, settings, measure
<1>3. CASE TestEnd("low", "take")
  BY <1>3 DEF TestEnd, Goto, settings, measure
<1>4. CASE LowTake
  BY <1>4 DEF LowTake, semTake, Goto, Entered, settings, measure
<1>5. CASE LowWorks
  BY <1>5 DEF LowWorks, GotoFor, Goto, settings, measure
<1>6. CASE LowGive
  BY <1>6 DEF LowGive, semGive, Other, Entered, settings, measure
<1>7. CASE TestEnd("mid", "begin")
  BY <1>7 DEF TestEnd, Goto, settings, measure
<1>8. CASE MidWorks
  BY <1>8 DEF MidWorks, GotoFor, Goto, settings, measure
<1>9. CASE HighMeasures
  BY <1>9 DEF HighMeasures, semTake, Goto, Entered, settings, measure
<1>10. CASE HighGot
  BY <1>10 DEF HighGot, semGive, Other, Entered, settings, measure
<1>11. CASE HighEnds
  BY <1>11 DEF HighEnds, Goto, settings, measure
<1>12. CASE Rest("low", LowDelay)
  BY <1>12 DEF Rest, GotoFor, Goto, settings, measure
<1>13. CASE Rest("mid", MidDelay)
  BY <1>13 DEF Rest, GotoFor, Goto, settings, measure
<1>14. CASE Rest("high", HighDelay)
  BY <1>14 DEF Rest, GotoFor, Goto, settings, measure
<1>15. CASE Tick
  BY <1>15 DEF Tick, After, settings, measure
<1>16. CASE UNCHANGED vars
  BY <1>16 DEF vars, settings, measure
<1> QED
  BY <1>1, <1>2, <1>3, <1>4, <1>5, <1>6, <1>7, <1>8, <1>9, <1>10, <1>11, <1>12,
     <1>13, <1>14, <1>15, <1>16, NextCases

LEMMA TypeNext ==
  TypeOK /\ PlacesInv /\ MutexInv /\ TicksInv /\ [Next]_vars => TypeOK'
<1> SUFFICES ASSUME TypeOK, PlacesInv, MutexInv, TicksInv, [Next]_vars
             PROVE  TypeOK'
  OBVIOUS
<1> USE TasksFacts, InversionConstants DEF TypeOK, TicksInv
<1>1. ASSUME NEW arg \in {1, 2}, NEW n \in 0..MaxMeasurements,
             CreateTasks(arg, n)
      PROVE  TypeOK'
  BY <1>1 DEF CreateTasks, Nobody, settings, measure
<1>2. ASSUME NEW arg \in {1, 2}, NEW n \in 0..MaxMeasurements,
             CreateTasksFails(arg, n)
      PROVE  TypeOK'
  BY <1>2 DEF CreateTasksFails, Nobody, settings, measure
<1>3. CASE TestEnd("low", "take")
  BY <1>3 DEF TestEnd, Goto, settings, measure
<1>4. CASE LowTake
  BY <1>4 DEF LowTake, semTake, Goto, Entered, settings, measure
<1>5. CASE LowWorks
  BY <1>5 DEF LowWorks, GotoFor, Goto, settings, measure
<1>6. CASE LowGive
  BY <1>6 DEF LowGive, semGive, Other, Entered, settings, measure
<1>7. CASE TestEnd("mid", "begin")
  BY <1>7 DEF TestEnd, Goto, settings, measure
<1>8. CASE MidWorks
  BY <1>8 DEF MidWorks, GotoFor, Goto, settings, measure
<1>9. CASE HighMeasures
  BY <1>9 DEF HighMeasures, semTake, Goto, Entered, settings, measure
<1>10. CASE HighGot
  BY <1>10 DEF HighGot, semGive, Other, Entered, settings, measure
<1>11. CASE HighEnds
  BY <1>11 DEF HighEnds, Goto, settings, measure
<1>12. CASE Rest("low", LowDelay)
  BY <1>12 DEF Rest, GotoFor, Goto, settings, measure
<1>13. CASE Rest("mid", MidDelay)
  BY <1>13 DEF Rest, GotoFor, Goto, settings, measure
<1>14. CASE Rest("high", HighDelay)
  BY <1>14 DEF Rest, GotoFor, Goto, settings, measure
<1>15. CASE Tick
  BY <1>15 DEF Tick, After, settings, measure
<1>16. CASE UNCHANGED vars
  BY <1>16 DEF vars, settings, measure
<1> QED
  BY <1>1, <1>2, <1>3, <1>4, <1>5, <1>6, <1>7, <1>8, <1>9, <1>10, <1>11, <1>12,
     <1>13, <1>14, <1>15, <1>16, NextCases

(***************************************************************************)
(* InheritedWhileWaited, task by task: only the low task ever inherits.    *)
(***************************************************************************)
LEMMA Inheritance ==
  ASSUME TypeOK, PlacesInv, MutexInv
  PROVE  InheritedWhileWaited <=>
           /\ prio["mid"] = 211 /\ prio["high"] = 210
           /\ prio["low"]
                = IF a1 = 2 /\ pc["high"] = "blocked" THEN 210 ELSE 222
<1>1. /\ global_mutex # "free" => Ready(global_mutex)
      /\ global_mutex # "mid"
  BY Types, TasksFacts DEF MutexInv, Ready
<1>2. /\ Other("low") = "high" /\ Other("high") = "low" /\ Other("mid") = "low"
      /\ pc["high"] = "blocked" => global_mutex = "low"
  BY DEF Other, MutexInv
<1>3. InheritedWhileWaited <=>
        \A t \in {"low", "mid", "high"} :
          prio[t] = IF a1 = 2 /\ global_mutex = t /\ pc[Other(t)] = "blocked"
                       /\ Base[Other(t)] < Base[t]
                    THEN Base[Other(t)] ELSE Base[t]
  BY <1>1, TasksFacts DEF InheritedWhileWaited
<1>4. /\ Base["low"] = 222 /\ Base["mid"] = 211 /\ Base["high"] = 210
  BY TasksFacts
<1> QED
  BY <1>1, <1>2, <1>3, <1>4

LEMMA InheritedNext ==
  TypeOK /\ PlacesInv /\ MutexInv /\ TicksInv /\ InheritedWhileWaited
    /\ [Next]_vars => InheritedWhileWaited'
<1> SUFFICES ASSUME TypeOK, PlacesInv, MutexInv, TicksInv,
                    InheritedWhileWaited, [Next]_vars
             PROVE  InheritedWhileWaited'
  OBVIOUS
<1> DEFINE Goal ==
      /\ prio'["mid"] = 211 /\ prio'["high"] = 210
      /\ prio'["low"]
           = IF a1' = 2 /\ pc'["high"] = "blocked" THEN 210 ELSE 222
<1>a. TypeOK' /\ PlacesInv' /\ MutexInv'
  BY TypeNext, PlacesNext, MutexNext
<1>b. (TypeOK /\ PlacesInv /\ MutexInv =>
        (InheritedWhileWaited <=>
           /\ prio["mid"] = 211 /\ prio["high"] = 210
           /\ prio["low"]
                = IF a1 = 2 /\ pc["high"] = "blocked" THEN 210 ELSE 222))'
  BY Inheritance, PTL
<1> SUFFICES Goal
  BY <1>a, <1>b
<1>c. /\ prio["mid"] = 211 /\ prio["high"] = 210
      /\ prio["low"] = IF a1 = 2 /\ pc["high"] = "blocked" THEN 210 ELSE 222
  BY Inheritance
<1> USE <1>c, Types, TasksFacts DEF PlacesInv, MutexInv
<1>1. ASSUME NEW arg \in {1, 2}, NEW n \in 0..MaxMeasurements,
             CreateTasks(arg, n)
      PROVE  Goal
  BY <1>1 DEF CreateTasks, Nobody, settings, measure
<1>2. ASSUME NEW arg \in {1, 2}, NEW n \in 0..MaxMeasurements,
             CreateTasksFails(arg, n)
      PROVE  Goal
  BY <1>2 DEF CreateTasksFails, Nobody, settings, measure
<1>3. CASE TestEnd("low", "take")
  BY <1>3 DEF TestEnd, Goto, settings, measure
<1>4. CASE LowTake
  BY <1>4 DEF LowTake, semTake, Goto, Entered, settings, measure
<1>5. CASE LowWorks
  BY <1>5 DEF LowWorks, GotoFor, Goto, settings, measure
<1>6. CASE LowGive
  BY <1>6 DEF LowGive, semGive, Other, Entered, settings, measure
<1>7. CASE TestEnd("mid", "begin")
  BY <1>7 DEF TestEnd, Goto, settings, measure
<1>8. CASE MidWorks
  BY <1>8 DEF MidWorks, GotoFor, Goto, settings, measure
<1>9. CASE HighMeasures
  BY <1>9 DEF HighMeasures, semTake, Goto, Entered, settings, measure
<1>10. CASE HighGot
  BY <1>10 DEF HighGot, semGive, Other, Entered, settings, measure
<1>11. CASE HighEnds
  BY <1>11 DEF HighEnds, Goto, settings, measure
<1>12. CASE Rest("low", LowDelay)
  BY <1>12 DEF Rest, GotoFor, Goto, settings, measure
<1>13. CASE Rest("mid", MidDelay)
  BY <1>13 DEF Rest, GotoFor, Goto, settings, measure
<1>14. CASE Rest("high", HighDelay)
  BY <1>14 DEF Rest, GotoFor, Goto, settings, measure
<1>15. CASE Tick
  BY <1>15 DEF Tick, After, settings, measure
<1>16. CASE UNCHANGED vars
  BY <1>16 DEF vars, settings, measure
<1> QED
  BY <1>1, <1>2, <1>3, <1>4, <1>5, <1>6, <1>7, <1>8, <1>9, <1>10, <1>11, <1>12,
     <1>13, <1>14, <1>15, <1>16, NextCases

(***************************************************************************)
(* While the high task waits for a mutex that inherits, the low one runs.  *)
(***************************************************************************)
LEMMA LowRuns ==
  ASSUME TypeOK, PlacesInv, MutexInv, InheritedWhileWaited,
         a1 = 2, pc["high"] = "blocked"
  PROVE  pc["low"] \in {"enter", "work", "give"} /\ MayRun("low")
<1>1. pc["low"] \in {"enter", "work", "give"}
  BY DEF MutexInv
<1>2. prio["low"] = 210 /\ prio["mid"] = 211 /\ prio["high"] = 210
  BY Inheritance
<1> QED
  BY <1>1, <1>2, TasksFacts DEF MayRun, Ready

LEMMA WaitNext ==
  TypeOK /\ PlacesInv /\ MutexInv /\ TicksInv /\ InheritedWhileWaited
    /\ WaitBounded /\ WaitInv /\ [Next]_vars => (WaitBounded /\ WaitInv)'
<1> SUFFICES ASSUME TypeOK, PlacesInv, MutexInv, TicksInv,
                    InheritedWhileWaited, WaitBounded, WaitInv, [Next]_vars
             PROVE  (WaitBounded /\ WaitInv)'
  OBVIOUS
<1> USE Types, TasksFacts, InversionConstants
    DEF PlacesInv, MutexInv, TicksInv, WaitBounded, WaitInv
<1>1. ASSUME NEW arg \in {1, 2}, NEW n \in 0..MaxMeasurements,
             CreateTasks(arg, n)
      PROVE  (WaitBounded /\ WaitInv)'
  BY <1>1 DEF CreateTasks, Nobody, settings, measure
<1>2. ASSUME NEW arg \in {1, 2}, NEW n \in 0..MaxMeasurements,
             CreateTasksFails(arg, n)
      PROVE  (WaitBounded /\ WaitInv)'
  BY <1>2 DEF CreateTasksFails, Nobody, settings, measure
<1>3. CASE TestEnd("low", "take")
  BY <1>3 DEF TestEnd, Goto, settings, measure
<1>4. CASE LowTake
  BY <1>4 DEF LowTake, semTake, Goto, Entered, settings, measure
<1>5. CASE LowWorks
  BY <1>5 DEF LowWorks, GotoFor, Goto, settings, measure
<1>6. CASE LowGive
  BY <1>6 DEF LowGive, semGive, Other, Entered, settings, measure
<1>7. CASE TestEnd("mid", "begin")
  BY <1>7 DEF TestEnd, Goto, settings, measure
<1>8. CASE MidWorks
  BY <1>8 DEF MidWorks, GotoFor, Goto, settings, measure
<1>9. CASE HighMeasures
  BY <1>9 DEF HighMeasures, semTake, Goto, Entered, settings, measure
<1>10. CASE HighGot
  BY <1>10 DEF HighGot, semGive, Other, Entered, settings, measure
<1>11. CASE HighEnds
  BY <1>11 DEF HighEnds, Goto, settings, measure
<1>12. CASE Rest("low", LowDelay)
  BY <1>12 DEF Rest, GotoFor, Goto, settings, measure
<1>13. CASE Rest("mid", MidDelay)
  BY <1>13 DEF Rest, GotoFor, Goto, settings, measure
<1>14. CASE Rest("high", HighDelay)
  BY <1>14 DEF Rest, GotoFor, Goto, settings, measure
<1>15. CASE Tick
  <2>1. CASE a1 = 2 /\ pc["high"] = "blocked"
    <3>1. pc["low"] = "work" /\ MayRun("low") /\ left["low"] \in Nat \ {0}
      BY <1>15, <2>1, LowRuns DEF Tick
    <3>2. /\ left'["low"] = left["low"] - 1 /\ current' = current + 1
          /\ pc'["low"] = IF left["low"] = 1 THEN "give" ELSE "work"
          /\ a1' = a1 /\ max_time' = max_time
      BY <1>15, <2>1, <3>1 DEF Tick, After, settings
    <3> QED
      BY <2>1, <3>1, <3>2
  <2>2. CASE ~ (a1 = 2 /\ pc["high"] = "blocked")
    <3>1. /\ a1' = a1 /\ max_time' = max_time
          /\ pc["high"] # "blocked" => pc'["high"] # "blocked"
          /\ pc["high"] # "blocked" => current' = current
      BY <1>15 DEF Tick, After, settings
    <3> QED
      BY <2>2, <3>1
  <2> QED
    BY <2>1, <2>2
<1>16. CASE UNCHANGED vars
  BY <1>16 DEF vars, settings, measure
<1> QED
  BY <1>1, <1>2, <1>3, <1>4, <1>5, <1>6, <1>7, <1>8, <1>9, <1>10, <1>11, <1>12,
     <1>13, <1>14, <1>15, <1>16, NextCases

LEMMA InversionNext == InversionInv /\ [Next]_vars => InversionInv'
BY TypeNext, PlacesNext, MutexNext, TicksNext, InheritedNext, WaitNext
   DEF InversionInv

LEMMA InversionAlways == Spec => []InversionInv
BY InversionInitial, InversionNext, PTL DEF Spec

(***************************************************************************)
(* For any work and delays, on one core or two: an inherited priority      *)
(* lasts exactly as long as the high task waits, and the owner of the      *)
(* mutex can run (utils.c:9-12, :35-38).                                   *)
(***************************************************************************)
THEOREM InheritedExactlyWhileWaited == Spec => []InheritedWhileWaited
BY InversionAlways, PTL DEF InversionInv

(***************************************************************************)
(* For any work and delays: with inheritance the high task never waits     *)
(* longer than the low one works under the mutex (utils.c:32-47).          *)
(***************************************************************************)
THEOREM WaitIsBounded == Spec => []WaitBounded
BY InversionAlways, PTL DEF InversionInv

-----------------------------------------------------------------------------
(* Lab 5: the chain                                                        *)

LEMMA ChainConstants ==
  /\ FirstLength \in Nat /\ FirstLength >= 1
  /\ MAX_ARRAY_LEN \in Nat /\ MAX_ARRAY_LEN >= FirstLength
  /\ MaxJumps \in Nat /\ MaxJumps >= 1
BY ChainAssumption

\* An order of the elements links them to elements.
LEMMA LinkType ==
  ASSUME len \in Nat, len >= 1, len <= MAX_ARRAY_LEN,
         next \in [Elements -> Elements],
         NEW order \in [Elements -> Elements], LinkInOrder(order)
  PROVE  next' \in [Elements -> Elements]
<1>1. ASSUME NEW e \in Elements, NEW n \in Working
      PROVE  order[(n + 1) % len] \in Elements
  <2>1. (n + 1) % len \in 0 .. len - 1
    BY <1>1 DEF Working
  <2>2. (n + 1) % len \in Elements
    BY <2>1, ChainConstants DEF Elements
  <2> QED  BY <2>2
<1>2. ASSUME NEW e \in Elements
      PROVE  (IF \E n \in Working : order[n] = e
              THEN order[((CHOOSE n \in Working : order[n] = e) + 1) % len]
              ELSE next[e]) \in Elements
  <2>1. CASE \E n \in Working : order[n] = e
    <3>1. (CHOOSE n \in Working : order[n] = e) \in Working
      BY <2>1
    <3> QED  BY <2>1, <3>1, <1>1
  <2>2. CASE ~\E n \in Working : order[n] = e
    BY <2>2
  <2> QED  BY <2>1, <2>2
<1> QED  BY <1>2 DEF LinkInOrder

LEMMA ChainTypeNext == ChainTypeOK /\ [ChainNext]_chainVars => ChainTypeOK'
<1> SUFFICES ASSUME ChainTypeOK, [ChainNext]_chainVars PROVE ChainTypeOK'
  OBVIOUS
<1> USE ChainConstants DEF ChainTypeOK
<1>1. CASE \E m \in {"SEQUENTIAL", "RANDOM", "OTHER"}, n \in 1..MaxJumps :
             MeasureCache(m, n)
  BY <1>1 DEF MeasureCache
<1>2. CASE SeqArray
  <2>1. [n \in Elements |-> n] \in [Elements -> Elements]
    OBVIOUS
  <2>2. next' \in [Elements -> Elements]
    BY <1>2, <2>1, LinkType DEF SeqArray
  <2> QED  BY <1>2, <2>2 DEF SeqArray
<1>3. CASE RanArray
  BY <1>3 DEF RanArray
<1>4. CASE Shuffled
  <2>1. next' \in [Elements -> Elements]
    BY <1>4, LinkType DEF Shuffled
  <2> QED  BY <1>4, <2>1 DEF Shuffled
<1>5. CASE \E idx \in longrand(len) : Shuffle(idx)
  <2>1. PICK idx \in Working : Shuffle(idx)
    BY <1>5 DEF Working, longrand
  <2>2. idx \in Elements /\ k \in Elements
    BY <2>1 DEF Shuffle, Working, Elements
  <2> QED  BY <2>1, <2>2 DEF Shuffle
<1>6. CASE MeasurementBegins
  <2>1. counter' \in 0..MaxJumps /\ p' \in Elements
    BY <1>6 DEF MeasurementBegins, Elements
  <2> QED  BY <1>6, <2>1 DEF MeasurementBegins
<1>7. CASE Jump
  BY <1>7 DEF Jump
<1>8. CASE NextLength
  BY <1>8 DEF NextLength
<1>9. CASE UNCHANGED chainVars
  BY <1>9 DEF chainVars
<1> QED
  BY <1>1, <1>2, <1>3, <1>4, <1>5, <1>6, <1>7, <1>8, <1>9 DEF ChainNext

LEMMA PermutedNext ==
  ChainTypeOK /\ IndexesPermuted /\ [ChainNext]_chainVars => IndexesPermuted'
<1> SUFFICES ASSUME ChainTypeOK, IndexesPermuted, [ChainNext]_chainVars,
                    step' = "shuffle"
             PROVE  IndexesPermuted'
  BY DEF IndexesPermuted
<1> USE ChainConstants DEF ChainTypeOK
<1>1. CASE RanArray
  <2>1. len' = len /\ \A n \in Working : n \in Elements
    BY <1>1 DEF RanArray, Working, Elements
  <2>2. \A n \in Working : random_indexes'[n] = n
    BY <1>1, <2>1 DEF RanArray
  <2> QED  BY <2>1, <2>2 DEF IndexesPermuted, Working
<1>2. CASE \E idx \in longrand(len) : Shuffle(idx)
  <2>1. PICK idx \in Working : Shuffle(idx)
    BY <1>2 DEF Working, longrand
  <2>2. step = "shuffle" /\ len' = len /\ k \in Working
        /\ Working \subseteq Elements
    BY <2>1 DEF Shuffle, Working, Elements
  <2> DEFINE old == random_indexes
             new == random_indexes'
  <2>3. \A n \in Working : new[n] = IF n = idx THEN old[k]
                                    ELSE IF n = k THEN old[idx] ELSE old[n]
    BY <2>1, <2>2 DEF Shuffle
  <2>4. /\ \A n \in Working : old[n] \in Working
        /\ \A m, n \in Working : old[m] = old[n] => m = n
        /\ \A e \in Working : \E n \in Working : old[n] = e
    BY <2>2 DEF IndexesPermuted
  <2> HIDE DEF old, new
  <2>5. /\ \A n \in Working : new[n] \in Working
        /\ \A m, n \in Working : new[m] = new[n] => m = n
    BY <2>1, <2>2, <2>3, <2>4
  <2>6. ASSUME NEW e \in Working PROVE \E n \in Working : new[n] = e
    <3>1. PICK n \in Working : old[n] = e
      BY <2>4
    <3>2. CASE n = k
      BY <3>1, <3>2, <2>1, <2>3
    <3>3. CASE n = idx
      BY <3>1, <3>3, <2>2, <2>3
    <3>4. CASE n # k /\ n # idx
      BY <3>1, <3>4, <2>3
    <3> QED  BY <3>2, <3>3, <3>4
  <2>7. Working' = Working
    BY <2>2 DEF Working
  <2> QED  BY <2>5, <2>6, <2>7 DEF IndexesPermuted, new
<1>3. CASE UNCHANGED chainVars
  BY <1>3 DEF chainVars, IndexesPermuted, Working
<1>4. ~SeqArray /\ ~Shuffled /\ ~MeasurementBegins /\ ~Jump /\ ~NextLength
      /\ ~\E m \in {"SEQUENTIAL", "RANDOM", "OTHER"}, n \in 1..MaxJumps :
            MeasureCache(m, n)
  BY DEF SeqArray, Shuffled, MeasurementBegins, Jump, NextLength, MeasureCache
<1> QED  BY <1>1, <1>2, <1>3, <1>4 DEF ChainNext

LEMMA ChainInitial == ChainInit => ChainTypeOK /\ IndexesPermuted
BY ChainConstants DEF ChainInit, ChainTypeOK, IndexesPermuted, Elements

(***************************************************************************)
(* Whatever rand gives, shuffling a working set of any length keeps its    *)
(* indexes a permutation of it (main.c:31-36).                             *)
(***************************************************************************)
THEOREM ShuffleIsPermutation == ChainSpec => [](ChainTypeOK /\ IndexesPermuted)
<1>1. ChainTypeOK /\ IndexesPermuted /\ [ChainNext]_chainVars
        => (ChainTypeOK /\ IndexesPermuted)'
  BY ChainTypeNext, PermutedNext
<1> QED  BY ChainInitial, <1>1, PTL DEF ChainSpec

\* The links lead round places 0 .. length - 1, in some order.
IsRound(order, link, length) ==
  /\ order \in [0 .. length - 1 -> 0 .. length - 1]
  /\ \A e \in 0 .. length - 1 : \E n \in 0 .. length - 1 : order[n] = e
  /\ \A n \in 0 .. length - 1 : link[order[n]] = order[(n + 1) % length]

\* f says where so many links lead from the first place.
IsVisit(f, link) ==
  f = [n \in Nat |-> IF n = 0 THEN 0 ELSE link[f[n - 1]]]

LEMMA NextRemainder ==
  ASSUME NEW n \in Nat, NEW b \in Nat \ {0}
  PROVE  /\ n % b \in 0 .. b - 1
         /\ (n + 1) % b = ((n % b) + 1) % b
         /\ n < b => n % b = n
         /\ (n + b) % b = n % b
<1>1. ASSUME NEW a \in Nat, NEW q \in Nat, NEW r \in 0 .. b - 1, a = q * b + r
      PROVE  a % b = r
  BY <1>1
<1> DEFINE q == n \div b
           r == n % b
<1>2. q \in Nat /\ r \in 0 .. b - 1 /\ n = q * b + r
  OBVIOUS
<1> HIDE DEF q, r
<1>3. (n + 1) % b = (r + 1) % b
  <2>1. CASE r + 1 = b
    <3>1. n + 1 = (q + 1) * b + 0
      BY <1>2, <2>1
    <3>2. (n + 1) % b = 0
      BY <1>1, <1>2, <3>1
    <3>3. (r + 1) % b = 0
      BY <1>1, <2>1
    <3> QED  BY <3>2, <3>3
  <2>2. CASE r + 1 # b
    <3>1. r + 1 \in 0 .. b - 1 /\ n + 1 = q * b + (r + 1)
      BY <1>2, <2>2
    <3>2. (n + 1) % b = r + 1
      BY <1>1, <1>2, <3>1
    <3>3. r + 1 = 0 * b + (r + 1)
      BY <3>1
    <3>4. (r + 1) % b = r + 1
      BY <1>1, <3>1, <3>3
    <3> QED  BY <3>2, <3>4
  <2> QED  BY <2>1, <2>2
<1>4. n < b => n % b = n
  <2>1. n = 0 * b + n
    OBVIOUS
  <2> QED  BY <1>1, <2>1
<1>5. (n + b) % b = r
  <2>1. n + b = (q + 1) * b + r
    BY <1>2
  <2> QED  BY <1>1, <1>2, <2>1
<1> QED  BY <1>2, <1>3, <1>4, <1>5 DEF r

(***************************************************************************)
(* The place after n links of a round that begins at order[start].         *)
(***************************************************************************)
Along(order, start, length) ==
  [n \in Nat |-> order[(start + n) % length]]

LEMMA AlongIsVisit ==
  ASSUME NEW length \in Nat \ {0}, NEW order, NEW link,
         IsRound(order, link, length),
         NEW start \in 0 .. length - 1, order[start] = 0
  PROVE  IsVisit(Along(order, start, length), link)
<1> DEFINE f == Along(order, start, length)
<1>1. f[0] = 0
  <2>1. start \in Nat /\ start < length /\ start + 0 = start
    OBVIOUS
  <2>2. start % length = start
    BY <2>1, NextRemainder
  <2> QED  BY <2>1, <2>2 DEF Along
<1>2. ASSUME NEW n \in Nat, n # 0 PROVE f[n] = link[f[n - 1]]
  <2> DEFINE before == start + (n - 1)
             m      == before % length
  <2>1. before \in Nat /\ n - 1 \in Nat /\ before + 1 = start + n
    BY <1>2
  <2>2. m \in 0 .. length - 1 /\ (start + n) % length = (m + 1) % length
    <3> HIDE DEF before
    <3>1. m \in 0 .. length - 1 /\ (before + 1) % length = (m + 1) % length
      BY <2>1, NextRemainder
    <3> QED  BY <2>1, <3>1
  <2>3. f[n - 1] = order[m] /\ f[n] = order[(m + 1) % length]
    BY <2>1, <2>2 DEF Along
  <2> HIDE DEF m, f
  <2> QED  BY <2>2, <2>3 DEF IsRound
<1>3. f = [n \in Nat |-> f[n]]
  BY DEF Along
<1> HIDE DEF f
<1>4. f = [n \in Nat |-> IF n = 0 THEN 0 ELSE link[f[n - 1]]]
  BY <1>1, <1>2, <1>3
<1> QED  BY <1>4 DEF IsVisit, f

\* There is one such function only.
LEMMA VisitIsUnique ==
  ASSUME NEW link, NEW f, NEW g, IsVisit(f, link), IsVisit(g, link)
  PROVE  f = g
<1> DEFINE B == {n \in Nat : f[n] = g[n]}
<1>1. 0 \in B
  BY DEF IsVisit
<1>2. ASSUME NEW n \in Nat, n \in B PROVE n + 1 \in B
  <2>1. n + 1 \in Nat /\ n + 1 # 0 /\ (n + 1) - 1 = n
    OBVIOUS
  <2>2. f[n + 1] = link[f[n]] /\ g[n + 1] = link[g[n]]
    BY <2>1 DEF IsVisit
  <2> QED  BY <1>2, <2>1, <2>2
<1> HIDE DEF B
<1>3. Nat \subseteq B
  BY <1>1, <1>2, Induction
<1>4. \A n \in Nat : f[n] = g[n]
  BY <1>3 DEF B
<1>5. f = [n \in Nat |-> f[n]] /\ g = [n \in Nat |-> g[n]]
  BY DEF IsVisit
<1> QED  BY <1>4, <1>5

LEMMA VisitedStep ==
  ASSUME NEW link, NEW f, IsVisit(f, link), NEW n \in Nat
  PROVE  f[0] = 0 /\ f[n + 1] = link[f[n]]
<1>1. n + 1 \in Nat /\ n + 1 # 0 /\ (n + 1) - 1 = n
  OBVIOUS
<1> QED  BY <1>1 DEF IsVisit

(***************************************************************************)
(* On such a round as many links as it is long visit every place and lead  *)
(* back to the first.                                                      *)
(***************************************************************************)
LEMMA RoundVisitsAll ==
  ASSUME NEW length \in Nat \ {0}, NEW order, NEW link,
         IsRound(order, link, length)
  PROVE  \E f : /\ IsVisit(f, link)
                /\ {f[n] : n \in 0 .. length - 1} = 0 .. length - 1
                /\ f[length] = 0
<1>1. 0 \in 0 .. length - 1
  OBVIOUS
<1>2. PICK start \in 0 .. length - 1 : order[start] = 0
  BY <1>1 DEF IsRound
<1> DEFINE f == Along(order, start, length)
<1>3. IsVisit(f, link)
  BY <1>2, AlongIsVisit
<1>4. f[length] = 0
  <2>1. start \in Nat /\ start < length
    OBVIOUS
  <2>2. (start + length) % length = start
    BY <2>1, NextRemainder
  <2> QED  BY <1>2, <2>2 DEF Along
<1>5. ASSUME NEW n \in 0 .. length - 1 PROVE f[n] \in 0 .. length - 1
  <2>1. start + n \in Nat /\ n \in Nat
    OBVIOUS
  <2>2. (start + n) % length \in 0 .. length - 1
    BY <2>1, NextRemainder
  <2> QED  BY <2>1, <2>2 DEF Along, IsRound
<1>6. ASSUME NEW e \in 0 .. length - 1
      PROVE  \E n \in 0 .. length - 1 : f[n] = e
  <2>1. PICK m \in 0 .. length - 1 : order[m] = e
    BY DEF IsRound
  <2>2. m \in Nat /\ m < length
    OBVIOUS
  <2>5. m % length = m /\ (m + length) % length = m
    BY <2>2, NextRemainder
  <2>3. CASE start <= m
    <3>1. m - start \in 0 .. length - 1 /\ start + (m - start) = m
      BY <2>3
    <3>2. f[m - start] = e
      BY <2>1, <2>5, <3>1 DEF Along
    <3> QED  BY <3>1, <3>2
  <2>4. CASE m < start
    <3>1. /\ m + length - start \in 0 .. length - 1
          /\ start + (m + length - start) = m + length
      BY <2>4
    <3>2. f[m + length - start] = e
      BY <2>1, <2>5, <3>1 DEF Along
    <3> QED  BY <3>1, <3>2
  <2> QED  BY <2>3, <2>4
<1> HIDE DEF f
<1> QED  BY <1>3, <1>4, <1>5, <1>6

\* Linking a permutation of the working set makes a round of it.
LEMMA LinkedIsRound ==
  ASSUME len \in Nat, len >= 1, len <= MAX_ARRAY_LEN,
         NEW indexes, LinkInOrder(indexes),
         \A n \in Working : indexes[n] \in Working,
         \A m, n \in Working : indexes[m] = indexes[n] => m = n,
         \A e \in Working : \E n \in Working : indexes[n] = e
  PROVE  IsRound([n \in Working |-> indexes[n]], next', len)
<1> DEFINE order == [n \in Working |-> indexes[n]]
<1>1. ASSUME NEW n \in Working PROVE next'[order[n]] = order[(n + 1) % len]
  <2>1. (CHOOSE m \in Working : indexes[m] = indexes[n]) = n
    OBVIOUS
  <2>2. indexes[n] \in Working /\ indexes[n] \in Elements
    BY ChainConstants DEF Working, Elements
  <2>3. next'[indexes[n]] = indexes[(n + 1) % len]
    BY <2>1, <2>2 DEF LinkInOrder
  <2>4. (n + 1) % len \in Working
    BY DEF Working
  <2> QED  BY <2>3, <2>4
<1> HIDE DEF order
<1>2. order \in [Working -> Working]
  BY DEF order
<1>3. \A e \in Working : \E n \in Working : order[n] = e
  BY DEF order
<1> QED  BY <1>1, <1>2, <1>3 DEF IsRound, Working, order

\* While it is measured the chain is a round, and p is as many links along it
\* as jumps were made.
RoundInv ==
  /\ step \in {"measure", "jump"} => \E order : IsRound(order, next, len)
  /\ step = "jump" => /\ counter <= jumps - 1
                      /\ p = Visited[jumps - 1 - counter]

LEMMA VisitedIsVisit ==
  ASSUME NEW order, len \in Nat \ {0}, IsRound(order, next, len)
  PROVE  IsVisit(Visited, next)
<1>1. \E f : IsVisit(f, next)
  BY RoundVisitsAll
<1>2. Visited = CHOOSE f : IsVisit(f, next)
  BY DEF Visited, IsVisit
<1> QED  BY <1>1, <1>2

LEMMA RoundNext ==
  ChainTypeOK /\ IndexesPermuted /\ RoundInv /\ [ChainNext]_chainVars
    => RoundInv'
<1> SUFFICES ASSUME ChainTypeOK, IndexesPermuted, RoundInv,
                    [ChainNext]_chainVars
             PROVE  RoundInv'
  OBVIOUS
<1>l. len \in Nat \ {0} /\ jumps \in Nat /\ jumps >= 1 /\ counter \in Nat
  BY DEF ChainTypeOK
<1>e. step \in {"measure", "jump"} =>
        /\ \E order : IsRound(order, next, len)
        /\ IsVisit(Visited, next)
  BY <1>l, VisitedIsVisit DEF RoundInv
<1>v. next' = next => Visited' = Visited
  BY DEF Visited
<1>1. CASE SeqArray
  <2> DEFINE indexes == [n \in Elements |-> n]
  <2>1. \A n \in Working : n \in Elements /\ indexes[n] = n
    BY <1>1, <1>l, ChainConstants DEF SeqArray, ChainTypeOK, Working, Elements
  <2>2. LinkInOrder(indexes) /\ len <= MAX_ARRAY_LEN
    BY <1>1 DEF SeqArray, ChainTypeOK
  <2> HIDE DEF indexes
  <2>3. IsRound([n \in Working |-> indexes[n]], next', len)
    BY <1>l, <2>1, <2>2, LinkedIsRound
  <2>4. step' = "measure" /\ len' = len
    BY <1>1 DEF SeqArray
  <2> QED  BY <2>3, <2>4 DEF RoundInv
<1>2. CASE Shuffled
  <2>1. LinkInOrder(random_indexes) /\ len <= MAX_ARRAY_LEN
    BY <1>2 DEF Shuffled, ChainTypeOK
  <2>2. IsRound([n \in Working |-> random_indexes[n]], next', len)
    BY <1>2, <1>l, <2>1, LinkedIsRound DEF Shuffled, IndexesPermuted
  <2>3. step' = "measure" /\ len' = len
    BY <1>2 DEF Shuffled
  <2> QED  BY <2>2, <2>3 DEF RoundInv
<1>3. CASE MeasurementBegins
  <2>1. Visited' = Visited /\ Visited[0] = 0
    BY <1>3, <1>e, <1>v, VisitedStep DEF MeasurementBegins
  <2>2. /\ step' = "jump" /\ counter' = jumps - 1 /\ p' = 0
        /\ jumps' = jumps /\ len' = len /\ next' = next
    BY <1>3 DEF MeasurementBegins
  <2>3. counter' <= jumps' - 1 /\ jumps' - 1 - counter' = 0
    BY <1>l, <2>2
  <2>4. \E order : IsRound(order, next', len')
    BY <1>3, <1>e, <2>2 DEF MeasurementBegins
  <2> QED  BY <2>1, <2>2, <2>3, <2>4 DEF RoundInv
<1>4. CASE Jump
  <2> DEFINE made == jumps - 1 - counter
  <2>1. /\ step = "jump" /\ step' = "jump" /\ counter # 0
        /\ counter' = counter - 1 /\ p' = next[p]
        /\ jumps' = jumps /\ len' = len /\ next' = next
    BY <1>4 DEF Jump
  <2>2. made \in Nat /\ p = Visited[made]
    BY <1>l, <2>1 DEF RoundInv
  <2>3. jumps' - 1 - counter' = made + 1 /\ counter' <= jumps' - 1
    BY <1>l, <2>1, <2>2
  <2> HIDE DEF made
  <2>4. p' = Visited[made + 1]
    BY <1>e, <2>1, <2>2, VisitedStep
  <2>5. \E order : IsRound(order, next', len')
    BY <1>e, <2>1
  <2> QED  BY <1>v, <2>1, <2>3, <2>4, <2>5 DEF RoundInv
<1>5. CASE \/ \E m \in {"SEQUENTIAL", "RANDOM", "OTHER"}, n \in 1..MaxJumps :
               MeasureCache(m, n)
           \/ RanArray \/ NextLength
           \/ \E idx \in longrand(len) : Shuffle(idx)
  <2>1. step' \notin {"measure", "jump"}
    BY <1>5 DEF MeasureCache, RanArray, NextLength, Shuffle
  <2> QED  BY <2>1 DEF RoundInv
<1>6. CASE UNCHANGED chainVars
  BY <1>6, <1>v DEF chainVars, RoundInv
<1> QED  BY <1>1, <1>2, <1>3, <1>4, <1>5, <1>6 DEF ChainNext

(***************************************************************************)
(* Whatever the lengths and whatever rand gives, the elements measured are *)
(* exactly the working set, round one cycle (main.c:18-21, 31-42).         *)
(***************************************************************************)
THEOREM ChainIsOneCycle == ChainSpec => []OneCycle
<1> DEFINE Inv == ChainTypeOK /\ IndexesPermuted /\ RoundInv
<1>1. ChainInit => Inv
  BY ChainInitial DEF ChainInit, RoundInv
<1>2. Inv /\ [ChainNext]_chainVars => Inv'
  BY ChainTypeNext, PermutedNext, RoundNext
<1>3. Inv => OneCycle
  <2> SUFFICES ASSUME Inv, step \in {"measure", "jump"}
               PROVE  /\ {Visited[n] : n \in Working} = Working
                      /\ Visited[len] = 0
                      /\ step = "jump" => p = Visited[jumps - 1 - counter]
    BY DEF OneCycle
  <2>1. PICK order : IsRound(order, next, len)
    BY DEF RoundInv
  <2>2. len \in Nat \ {0}
    BY DEF ChainTypeOK
  <2>3. PICK f : /\ IsVisit(f, next)
                 /\ {f[n] : n \in 0 .. len - 1} = 0 .. len - 1
                 /\ f[len] = 0
    BY <2>1, <2>2, RoundVisitsAll
  <2>4. f = Visited
    BY <2>1, <2>2, <2>3, VisitedIsVisit, VisitIsUnique
  <2> QED  BY <2>3, <2>4 DEF Working, RoundInv
<1> HIDE DEF Inv
<1> QED  BY <1>1, <1>2, <1>3, PTL DEF ChainSpec

-----------------------------------------------------------------------------
(* Lab 6: the response time                                                *)

(***************************************************************************)
(* Every action of the timer, the handler, the tasks and the shell, for    *)
(* proofs by cases.                                                        *)
(***************************************************************************)
LEMMA ResponseCases ==
  ASSUME [ResponseNext]_responseVars
  PROVE  \/ \E n \in 0..MaxPrints : Prepare(n)
         \/ TimerCounts \/ TimerInterrupts
         \/ IsrSamples \/ IsrGives \/ IsrClears
         \/ ServiceTests \/ ServiceTakes \/ ServiceSamples
         \/ MonitorDelays \/ MonitorPrints \/ MonitorEnds
         \/ Spawn \/ Stop \/ Delete
         \/ UNCHANGED responseVars
BY DEF ResponseNext, Timer, Isr, Service, Monitor, Shell

(***************************************************************************)
(* The monitor runs only while the shell waits for it and it has not       *)
(* announced the end, and it counts up to what was wanted.                 *)
(***************************************************************************)
MonitorInv ==
  /\ shell = "spawn" => m_end = 0
  /\ shell # "wait" \/ m_end = 1 => monitor = "none"
  /\ wanted = 0 => printed = 0
  /\ wanted # 0 => printed <= wanted
  /\ monitor = "delay" /\ wanted # 0 => printed < wanted

\* The service task runs only while a measurement lasts.
ServiceInv == shell \in {"idle", "spawn"} => service = "none"

\* The interrupts that were due, with the one that was left over.
Due == history.periods + (IF history.stale THEN 1 ELSE 0)

(***************************************************************************)
(* PeriodsHandledOnce, whatever the shell does: an interrupt that is due   *)
(* while the handler does not run is one more than were handled; with      *)
(* prompt handlers there is no other that was not; and what was handled    *)
(* and not served is counted in the semaphore or in hand.                  *)
(***************************************************************************)
HandledInv ==
  /\ history.handled <= Due
  /\ timer.status /\ isr = "idle" => history.handled + 1 <= Due
  /\ board.prompt =>
       history.handled = Due - (IF timer.status /\ isr = "idle" THEN 1 ELSE 0)
  /\ shell # "idle" =>
       history.handled = history.served + semaphore
                         + (IF isr = "give" THEN 1 ELSE 0)
                         + (IF service = "read" THEN 1 ELSE 0)

ResponseInv == ResponseTypeOK /\ MonitorInv /\ ServiceInv /\ HandledInv

LEMMA ResponseInitial == ResponseInit => ResponseInv
<1> SUFFICES ASSUME ResponseInit PROVE ResponseInv
  OBVIOUS
<1> USE ResponseAssumption DEF ResponseInit
<1>1. ResponseTypeOK
  BY DEF ResponseTypeOK
<1>2. MonitorInv /\ ServiceInv /\ HandledInv
  BY DEF MonitorInv, ServiceInv, HandledInv, Due
<1> QED
  BY <1>1, <1>2 DEF ResponseInv

\* A sample leaves a histogram a histogram.
LEMMA SampledType ==
  ASSUME NEW map \in [Rows -> Nat]
  PROVE  Sampled(map) \in [Rows -> Nat]
BY DEF Sampled

LEMMA ResponseTypeNext ==
  ResponseTypeOK /\ MonitorInv /\ [ResponseNext]_responseVars
    => ResponseTypeOK'
<1> SUFFICES ASSUME ResponseTypeOK, MonitorInv, [ResponseNext]_responseVars
             PROVE  ResponseTypeOK'
  OBVIOUS
<1> USE ResponseAssumption DEF ResponseTypeOK
<1>1. ASSUME NEW n \in 0..MaxPrints, Prepare(n) PROVE ResponseTypeOK'
  <2>1. timer' \in [counter : 0 .. TIM_MAX - 1, running : BOOLEAN,
                     status : BOOLEAN, enabled : BOOLEAN]
    BY <1>1 DEF Prepare
  <2>2. /\ history.calls + 1 \in Nat /\ timer.status \in BOOLEAN
        /\ history' = [calls |-> history.calls + 1, periods |-> 0,
                       handled |-> 0, served |-> 0, stale |-> timer.status]
    BY <1>1 DEF Prepare
  <2>3. history' \in [calls : Nat, periods : Nat, handled : Nat, served : Nat,
                      stale : BOOLEAN]
    BY <2>2
  <2>4. {m_time_isr_map', m_time_srv_map'} \subseteq [Rows -> Nat]
    BY <1>1 DEF Prepare
  <2> QED
    BY <1>1, <2>1, <2>3, <2>4 DEF Prepare
<1>2. CASE TimerCounts
  BY <1>2 DEF TimerCounts, maps
<1>3. CASE TimerInterrupts
  <2>1. 0 \in 0 .. TIM_MAX - 1 /\ history.periods + 1 \in Nat
    OBVIOUS
  <2>2. timer' \in [counter : 0 .. TIM_MAX - 1, running : BOOLEAN,
                    status : BOOLEAN, enabled : BOOLEAN]
    BY <1>3, <2>1 DEF TimerInterrupts
  <2>3. history' \in [calls : Nat, periods : Nat, handled : Nat, served : Nat,
                      stale : BOOLEAN]
    BY <1>3, <2>1 DEF TimerInterrupts
  <2> QED
    BY <1>3, <2>2, <2>3 DEF TimerInterrupts, maps
<1>4. CASE IsrSamples
  BY <1>4, SampledType DEF IsrSamples, maps
<1>5. CASE IsrGives
  BY <1>5 DEF IsrGives, maps
<1>6. CASE IsrClears
  BY <1>6 DEF IsrClears, maps
<1>7. CASE ServiceTests
  BY <1>7 DEF ServiceTests, maps
<1>8. CASE ServiceTakes
  BY <1>8 DEF ServiceTakes, maps
<1>9. CASE ServiceSamples
  BY <1>9, SampledType DEF ServiceSamples, maps
<1>10. CASE MonitorDelays
  BY <1>10 DEF MonitorDelays, maps
<1>11. CASE MonitorPrints
  BY <1>11 DEF MonitorPrints, maps, MonitorInv
<1>12. CASE MonitorEnds
  BY <1>12 DEF MonitorEnds, maps
<1>13. CASE Spawn
  BY <1>13 DEF Spawn, maps
<1>14. CASE Stop
  BY <1>14 DEF Stop, maps
<1>15. CASE Delete
  BY <1>15 DEF Delete, maps
<1>16. CASE UNCHANGED responseVars
  BY <1>16 DEF responseVars, maps
<1> QED
  BY <1>1, <1>2, <1>3, <1>4, <1>5, <1>6, <1>7, <1>8, <1>9, <1>10, <1>11, <1>12,
     <1>13, <1>14, <1>15, <1>16, ResponseCases

LEMMA MonitorNext ==
  ResponseTypeOK /\ MonitorInv /\ [ResponseNext]_responseVars => MonitorInv'
<1> SUFFICES ASSUME ResponseTypeOK, MonitorInv, [ResponseNext]_responseVars
             PROVE  MonitorInv'
  OBVIOUS
<1> USE ResponseAssumption DEF ResponseTypeOK, MonitorInv
<1>1. ASSUME NEW n \in 0..MaxPrints, Prepare(n) PROVE MonitorInv'
  BY <1>1 DEF Prepare, maps
<1>2. CASE TimerCounts
  BY <1>2 DEF TimerCounts, maps
<1>3. CASE TimerInterrupts
  BY <1>3 DEF TimerInterrupts, maps
<1>4. CASE IsrSamples
  BY <1>4 DEF IsrSamples, maps
<1>5. CASE IsrGives
  BY <1>5 DEF IsrGives, maps
<1>6. CASE IsrClears
  BY <1>6 DEF IsrClears, maps
<1>7. CASE ServiceTests
  BY <1>7 DEF ServiceTests, maps
<1>8. CASE ServiceTakes
  BY <1>8 DEF ServiceTakes, maps
<1>9. CASE ServiceSamples
  BY <1>9 DEF ServiceSamples, maps
<1>10. CASE MonitorDelays
  BY <1>10 DEF MonitorDelays, MonitorGoesOn, maps
<1>11. CASE MonitorPrints
  BY <1>11 DEF MonitorPrints, maps
<1>12. CASE MonitorEnds
  BY <1>12 DEF MonitorEnds, maps
<1>13. CASE Spawn
  BY <1>13 DEF Spawn, maps
<1>14. CASE Stop
  BY <1>14 DEF Stop, maps
<1>15. CASE Delete
  BY <1>15 DEF Delete, maps
<1>16. CASE UNCHANGED responseVars
  BY <1>16 DEF responseVars, maps
<1> QED
  BY <1>1, <1>2, <1>3, <1>4, <1>5, <1>6, <1>7, <1>8, <1>9, <1>10, <1>11, <1>12,
     <1>13, <1>14, <1>15, <1>16, ResponseCases

LEMMA ServiceNext ==
  ServiceInv /\ [ResponseNext]_responseVars => ServiceInv'
<1> SUFFICES ASSUME ServiceInv, [ResponseNext]_responseVars
             PROVE  ServiceInv'
  OBVIOUS
<1> USE DEF ServiceInv
<1>1. ASSUME NEW n \in 0..MaxPrints, Prepare(n) PROVE ServiceInv'
  BY <1>1 DEF Prepare, maps
<1>2. CASE TimerCounts
  BY <1>2 DEF TimerCounts, maps
<1>3. CASE TimerInterrupts
  BY <1>3 DEF TimerInterrupts, maps
<1>4. CASE IsrSamples
  BY <1>4 DEF IsrSamples, maps
<1>5. CASE IsrGives
  BY <1>5 DEF IsrGives, maps
<1>6. CASE IsrClears
  BY <1>6 DEF IsrClears, maps
<1>7. CASE ServiceTests
  BY <1>7 DEF ServiceTests, maps
<1>8. CASE ServiceTakes
  BY <1>8 DEF ServiceTakes, maps
<1>9. CASE ServiceSamples
  BY <1>9 DEF ServiceSamples, maps
<1>10. CASE MonitorDelays
  BY <1>10 DEF MonitorDelays, maps
<1>11. CASE MonitorPrints
  BY <1>11 DEF MonitorPrints, maps
<1>12. CASE MonitorEnds
  BY <1>12 DEF MonitorEnds, maps
<1>13. CASE Spawn
  BY <1>13 DEF Spawn, maps
<1>14. CASE Stop
  BY <1>14 DEF Stop, maps
<1>15. CASE Delete
  BY <1>15 DEF Delete, maps
<1>16. CASE UNCHANGED responseVars
  BY <1>16 DEF responseVars, maps
<1> QED
  BY <1>1, <1>2, <1>3, <1>4, <1>5, <1>6, <1>7, <1>8, <1>9, <1>10, <1>11, <1>12,
     <1>13, <1>14, <1>15, <1>16, ResponseCases

LEMMA HandledNext ==
  ResponseTypeOK /\ ServiceInv /\ HandledInv /\ [ResponseNext]_responseVars
    => HandledInv'
<1> SUFFICES ASSUME ResponseTypeOK, ServiceInv, HandledInv,
                    [ResponseNext]_responseVars
             PROVE  HandledInv'
  OBVIOUS
<1> USE DEF ResponseTypeOK, HandledInv, Due
<1>1. ASSUME NEW n \in 0..MaxPrints, Prepare(n) PROVE HandledInv'
  <2>1. /\ history'.periods = 0 /\ history'.handled = 0 /\ history'.served = 0
        /\ history'.stale = timer.status /\ timer'.status = timer.status
        /\ isr' = "idle" /\ isr = "idle" /\ semaphore' = 0
    BY <1>1 DEF Prepare
  <2>2. service' = "none"
    BY <1>1 DEF Prepare, ServiceInv
  <2> QED
    BY <2>1, <2>2
<1>2. CASE TimerCounts
  BY <1>2 DEF TimerCounts, maps
<1>3. CASE TimerInterrupts
  BY <1>3 DEF TimerInterrupts, Answered, maps
<1>4. CASE IsrSamples
  BY <1>4 DEF IsrSamples, maps
<1>5. CASE IsrGives
  BY <1>5 DEF IsrGives, maps
<1>6. CASE IsrClears
  BY <1>6 DEF IsrClears, maps
<1>7. CASE ServiceTests
  BY <1>7 DEF ServiceTests, maps
<1>8. CASE ServiceTakes
  BY <1>8 DEF ServiceTakes, maps
<1>9. CASE ServiceSamples
  BY <1>9 DEF ServiceSamples, maps
<1>10. CASE MonitorDelays
  BY <1>10 DEF MonitorDelays, maps
<1>11. CASE MonitorPrints
  BY <1>11 DEF MonitorPrints, maps
<1>12. CASE MonitorEnds
  BY <1>12 DEF MonitorEnds, maps
<1>13. CASE Spawn
  BY <1>13 DEF Spawn, ServiceInv, maps
<1>14. CASE Stop
  BY <1>14 DEF Stop, maps
<1>15. CASE Delete
  BY <1>15 DEF Delete, maps
<1>16. CASE UNCHANGED responseVars
  BY <1>16 DEF responseVars, maps
<1> QED
  BY <1>1, <1>2, <1>3, <1>4, <1>5, <1>6, <1>7, <1>8, <1>9, <1>10, <1>11, <1>12,
     <1>13, <1>14, <1>15, <1>16, ResponseCases

LEMMA ResponseInvNext ==
  ResponseInv /\ [ResponseNext]_responseVars => ResponseInv'
BY ResponseTypeNext, MonitorNext, ServiceNext, HandledNext DEF ResponseInv

(***************************************************************************)
(* For any timer, histogram and number of measurements, no period is       *)
(* handled twice, none is missed as long as all is prompt, and what is not *)
(* yet served is in the semaphore or in hand (main.c:20-52, 150-170).      *)
(***************************************************************************)
THEOREM PeriodsAlwaysHandledOnce == ResponseSpec => []PeriodsHandledOnce
<1>1. ResponseInv => PeriodsHandledOnce
  BY DEF ResponseInv, HandledInv, PeriodsHandledOnce, Due
<1> QED
  BY ResponseInitial, ResponseInvNext, <1>1, PTL DEF ResponseSpec

(***************************************************************************)
(* Sums over sets of rows, which UpTo takes as a fold.                     *)
(***************************************************************************)

\* The element that a fold takes first.
Some(s) == CHOOSE x \in s : TRUE

LEMMA OneLess ==
  ASSUME NEW S, IsFiniteSet(S), NEW s \in SUBSET S, s # {}
  PROVE  /\ Some(s) \in s /\ s \ {Some(s)} \in SUBSET S
         /\ Cardinality(s) \in Nat /\ Cardinality(s) > 0
         /\ Cardinality(s \ {Some(s)}) = Cardinality(s) - 1
<1>1. Some(s) \in s
  BY DEF Some
<1>2. IsFiniteSet(s)
  BY FS_Subset
<1>3. Cardinality(s \ {Some(s)}) = Cardinality(s) - 1
  BY <1>1, <1>2, FS_RemoveElement
<1>4. Cardinality(s) \in Nat /\ Cardinality(s) # 0
  BY <1>2, FS_CardinalityType, FS_EmptySet
<1> QED  BY <1>1, <1>3, <1>4

\* What holds of no elements, and of a set if it does without its first, holds.
LEMMA SubsetsInduction ==
  ASSUME NEW S, IsFiniteSet(S), NEW B, {} \in B,
         \A s \in SUBSET S : s # {} /\ s \ {Some(s)} \in B => s \in B
  PROVE  SUBSET S \subseteq B
<1> DEFINE N == {n \in Nat : \A s \in SUBSET S : Cardinality(s) = n => s \in B}
<1>1. \A s \in SUBSET S : IsFiniteSet(s) /\ Cardinality(s) \in Nat
  BY FS_Subset, FS_CardinalityType
<1>2. 0 \in N
  BY <1>1, FS_EmptySet
<1>3. ASSUME NEW n \in Nat, n \in N PROVE n + 1 \in N
  <2>1. ASSUME NEW s \in SUBSET S, Cardinality(s) = n + 1 PROVE s \in B
    <3>1. s # {}
      BY <1>3, <2>1, FS_EmptySet
    <3>2. s \ {Some(s)} \in SUBSET S /\ Cardinality(s \ {Some(s)}) = n
      BY <1>3, <2>1, <3>1, OneLess
    <3> QED  BY <1>3, <3>1, <3>2
  <2> QED  BY <1>3, <2>1
<1> HIDE DEF N
<1>4. Nat \subseteq N
  BY <1>2, <1>3, Induction
<1> QED  BY <1>1, <1>4 DEF N

\* f gives the sum of the map over each of the subsets of S.
IsSum(f, map, S) ==
  f = [s \in SUBSET S |->
         IF s = {} THEN 0 ELSE f[s \ {Some(s)}] + map[Some(s)]]

\* It exists: for the sets of so many elements first, then for larger ones.
LEMMA SumExists ==
  ASSUME NEW S, IsFiniteSet(S), NEW map
  PROVE  \E f : IsSum(f, map, S)
<1> DEFINE Rec(f, s) == IF s = {} THEN 0 ELSE f[s \ {Some(s)}] + map[Some(s)]
           N == {n \in Nat : \E f : \A s \in SUBSET S :
                               Cardinality(s) <= n => f[s] = Rec(f, s)}
<1>1. \A s \in SUBSET S : IsFiniteSet(s) /\ Cardinality(s) \in Nat
  BY FS_Subset, FS_CardinalityType
<1>2. 0 \in N
  <2> DEFINE f == [s \in SUBSET S |-> 0]
  <2>1. ASSUME NEW s \in SUBSET S, Cardinality(s) <= 0 PROVE f[s] = Rec(f, s)
    <3>1. s = {}
      BY <1>1, <2>1, FS_EmptySet
    <3> QED  BY <3>1
  <2> QED  BY <2>1
<1>3. ASSUME NEW n \in Nat, n \in N PROVE n + 1 \in N
  <2>1. PICK f : \A s \in SUBSET S : Cardinality(s) <= n => f[s] = Rec(f, s)
    BY <1>3
  <2> DEFINE g == [s \in SUBSET S |->
                     IF Cardinality(s) = n + 1 THEN Rec(f, s) ELSE f[s]]
  <2>2. ASSUME NEW s \in SUBSET S, Cardinality(s) <= n + 1
        PROVE  g[s] = Rec(g, s)
    <3>1. CASE s = {}
      <4>1. Cardinality(s) = 0 /\ 0 # n + 1 /\ 0 <= n
        BY <1>3, <3>1, FS_EmptySet
      <4>2. f[s] = Rec(f, s)
        BY <2>1, <4>1
      <4>3. g[s] = f[s]
        BY <4>1
      <4> QED  BY <3>1, <4>2, <4>3
    <3>2. CASE s # {}
      <4> DEFINE t == s \ {Some(s)}
      <4>1. /\ t \in SUBSET S /\ Cardinality(t) \in Nat
            /\ Cardinality(s) \in Nat /\ Cardinality(t) = Cardinality(s) - 1
        BY <1>1, <3>2, OneLess
      <4>2. g[t] = f[t]
        BY <1>3, <2>2, <4>1
      <4>3. g[s] = f[t] + map[Some(s)]
        <5>1. CASE Cardinality(s) = n + 1
          BY <3>2, <5>1
        <5>2. CASE Cardinality(s) <= n
          <6>1. g[s] = f[s]
            BY <1>3, <4>1, <5>2
          <6> QED  BY <2>1, <3>2, <5>2, <6>1
        <5> QED  BY <1>3, <2>2, <4>1, <5>1, <5>2
      <4> QED  BY <3>2, <4>2, <4>3
    <3> QED  BY <3>1, <3>2
  <2> HIDE DEF g
  <2>3. \A s \in SUBSET S : Cardinality(s) <= n + 1 => g[s] = Rec(g, s)
    BY <2>2
  <2> HIDE DEF Rec
  <2>4. \E h : \A s \in SUBSET S :
                 Cardinality(s) <= n + 1 => h[s] = Rec(h, s)
    BY <2>3
  <2> QED  BY <2>4
<1> HIDE DEF N
<1>4. Cardinality(S) \in N
  BY <1>1, <1>2, <1>3, Induction
<1>5. PICK f : \A s \in SUBSET S :
                 Cardinality(s) <= Cardinality(S) => f[s] = Rec(f, s)
  BY <1>4 DEF N
<1>6. \A s \in SUBSET S : Cardinality(s) <= Cardinality(S)
  BY FS_Subset
<1> DEFINE g == [s \in SUBSET S |-> f[s]]
<1>7. ASSUME NEW s \in SUBSET S PROVE g[s] = Rec(g, s)
  BY <1>5, <1>6
<1>8. IsSum(g, map, S)
  <2> HIDE DEF g
  <2>1. g = [s \in SUBSET S |-> g[s]]
    BY DEF g
  <2> QED  BY <1>7, <2>1 DEF IsSum
<1> QED  BY <1>8

LEMMA UpToIsSum ==
  ASSUME NEW map, NEW row \in Nat
  PROVE  \E f : IsSum(f, map, 0..row) /\ UpTo(map, row) = f[0..row]
<1> DEFINE F == CHOOSE f : IsSum(f, map, 0..row)
<1>1. IsFiniteSet(0..row)
  BY FS_Interval
<1>2. IsSum(F, map, 0..row)
  BY <1>1, SumExists
<1>3. UpTo(map, row) = F[0..row]
  BY DEF UpTo, FoldSet, MapThenFoldSet, IsSum, Some
<1> QED  BY <1>2, <1>3

LEMMA RowsBelow ==
  ASSUME NEW row \in Rows
  PROVE  /\ row \in Nat /\ row <= TIME_MAP_SIZE - 1 /\ TIME_MAP_SIZE \in Nat
         /\ IsFiniteSet(0..row) /\ 0..row \subseteq Rows
<1>1. TIME_MAP_SIZE \in Nat
  BY ResponseAssumption
<1>2. row \in Nat /\ row <= TIME_MAP_SIZE - 1 /\ 0..row \subseteq Rows
  BY <1>1 DEF Rows
<1> QED  BY <1>1, <1>2, FS_Interval

LEMMA UpToNone ==
  ASSUME NEW row \in Rows
  PROVE  UpTo([r \in Rows |-> 0], row) = 0
<1> DEFINE map == [r \in Rows |-> 0]
           S   == 0..row
<1>1. PICK f : IsSum(f, map, S) /\ UpTo(map, row) = f[S]
  BY RowsBelow, UpToIsSum
<1>2. IsFiniteSet(S) /\ S \subseteq Rows
  BY RowsBelow
<1> DEFINE B == {s \in SUBSET S : f[s] = 0}
<1>3. {} \in B
  BY <1>1 DEF IsSum
<1>4. ASSUME NEW s \in SUBSET S, s # {}, s \ {Some(s)} \in B PROVE s \in B
  <2>1. f[s] = f[s \ {Some(s)}] + map[Some(s)]
    BY <1>1, <1>4 DEF IsSum
  <2>2. map[Some(s)] = 0
    BY <1>2, <1>4, OneLess
  <2> QED  BY <1>4, <2>1, <2>2
<1> HIDE DEF S, B
<1>5. S \in B
  BY <1>2, <1>3, <1>4, SubsetsInduction
<1> QED  BY <1>1, <1>5 DEF B

\* A sample in one row is one more up to it and up to any later row.
LEMMA UpToRaised ==
  ASSUME NEW map \in [Rows -> Nat], NEW row \in Rows, NEW raised \in Rows
  PROVE  /\ UpTo(map, row) \in Nat
         /\ UpTo([map EXCEPT ![raised] = @ + 1], row)
              = UpTo(map, row) + (IF raised <= row THEN 1 ELSE 0)
<1> DEFINE more == [map EXCEPT ![raised] = @ + 1]
           S    == 0..row
<1>1. PICK f : IsSum(f, map, S) /\ UpTo(map, row) = f[S]
  BY RowsBelow, UpToIsSum
<1>2. PICK g : IsSum(g, more, S) /\ UpTo(more, row) = g[S]
  <2> HIDE DEF more
  <2> QED  BY RowsBelow, UpToIsSum
<1>3. IsFiniteSet(S) /\ S \subseteq Rows
  BY RowsBelow
<1>4. ASSUME NEW x \in S
      PROVE map[x] \in Nat /\ more[x] = map[x] + (IF x = raised THEN 1 ELSE 0)
  BY <1>3
<1>e. raised \in S <=> raised <= row
  BY RowsBelow
<1> DEFINE B == {s \in SUBSET S :
                   /\ f[s] \in Nat
                   /\ g[s] = f[s] + (IF raised \in s THEN 1 ELSE 0)}
<1>5. {} \in B
  BY <1>1, <1>2 DEF IsSum
<1>6. ASSUME NEW s \in SUBSET S, s # {}, s \ {Some(s)} \in B PROVE s \in B
  <2> DEFINE x == Some(s)
             t == s \ {x}
  <2>1. f[s] = f[t] + map[x] /\ g[s] = g[t] + more[x]
    BY <1>1, <1>2, <1>6 DEF IsSum
  <2>2. x \in s
    BY <1>3, <1>6, OneLess
  <2>3. f[t] \in Nat /\ g[t] = f[t] + (IF raised \in t THEN 1 ELSE 0)
    BY <1>6
  <2>4. map[x] \in Nat /\ more[x] = map[x] + (IF x = raised THEN 1 ELSE 0)
    BY <1>4, <2>2
  <2>5. raised \in s <=> raised \in t \/ x = raised
    BY <2>2
  <2>6. x = raised => raised \notin t
    OBVIOUS
  <2> HIDE DEF x, t, more
  <2>7. f[s] \in Nat /\ g[s] = f[s] + (IF raised \in s THEN 1 ELSE 0)
    BY <2>1, <2>3, <2>4, <2>5, <2>6
  <2> QED  BY <2>7
<1> HIDE DEF S, B, more
<1>7. S \in B
  BY <1>3, <1>5, <1>6, SubsetsInduction
<1> QED  BY <1>1, <1>2, <1>7, <1>e DEF B, more

\* The row of the present counter, in the histogram or beyond it.
PresentRow == (timer.counter * CountTime) \div RowTime

\* Samples of the handler that the service task has still to follow.
Unserved == semaphore + (IF isr = "give" THEN 1 ELSE 0)
                      + (IF service = "read" THEN 1 ELSE 0)

\* A histogram with a row, if it has one, raised by one.
Raised(map, row) == IF row \in Rows THEN [map EXCEPT ![row] = @ + 1] ELSE map

(***************************************************************************)
(* The handler's samples that are not yet served were all taken in rows up *)
(* to the present one, where the service's will be.                        *)
(***************************************************************************)
Slack(srv, handler, present, unserved) ==
  \A row \in Rows :
    UpTo(srv, row) + (IF present <= row THEN unserved ELSE 0)
      <= UpTo(handler, row)

SlackInv ==
  board.prompt =>
    Slack(m_time_srv_map, m_time_isr_map, PresentRow, Unserved)

LEMMA SlackNone ==
  ASSUME NEW present
  PROVE  Slack([r \in Rows |-> 0], [r \in Rows |-> 0], present, 0)
BY UpToNone DEF Slack

\* Later in the period, and with fewer to be served, there is no less slack.
LEMMA SlackKept ==
  ASSUME NEW srv \in [Rows -> Nat], NEW handler \in [Rows -> Nat],
         NEW present \in Nat, NEW later \in Nat,
         NEW unserved \in Nat, NEW fewer \in Nat,
         Slack(srv, handler, present, unserved),
         present <= later \/ fewer = 0, fewer <= unserved
  PROVE  Slack(srv, handler, later, fewer)
<1> SUFFICES ASSUME NEW row \in Rows
             PROVE  UpTo(srv, row) + (IF later <= row THEN fewer ELSE 0)
                      <= UpTo(handler, row)
  BY DEF Slack
<1>1. UpTo(srv, row) \in Nat /\ UpTo(handler, row) \in Nat /\ row \in Nat
  BY RowsBelow, UpToRaised
<1>2. UpTo(srv, row) + (IF present <= row THEN unserved ELSE 0)
        <= UpTo(handler, row)
  BY DEF Slack
<1> QED  BY <1>1, <1>2

LEMMA UpToOfRaised ==
  ASSUME NEW map \in [Rows -> Nat], NEW row \in Rows, NEW present \in Nat
  PROVE  /\ UpTo(map, row) \in Nat
         /\ UpTo(Raised(map, present), row)
              = UpTo(map, row) + (IF present <= row THEN 1 ELSE 0)
<1>1. row \in Nat /\ row <= TIME_MAP_SIZE - 1 /\ TIME_MAP_SIZE \in Nat
  BY RowsBelow
<1>2. CASE present \in Rows
  BY <1>2, UpToRaised DEF Raised
<1>3. CASE present \notin Rows
  <2>1. ~(present <= row)
    BY <1>1, <1>3 DEF Rows
  <2>2. Raised(map, present) = map
    BY <1>3 DEF Raised
  <2>3. UpTo(map, row) \in Nat
    BY UpToRaised
  <2> QED  BY <2>1, <2>2, <2>3
<1> QED  BY <1>2, <1>3

\* A sample of the handler is one more to be served.
LEMMA SlackHandled ==
  ASSUME NEW srv \in [Rows -> Nat], NEW handler \in [Rows -> Nat],
         NEW present \in Nat, NEW unserved \in Nat,
         Slack(srv, handler, present, unserved)
  PROVE  Slack(srv, Raised(handler, present), present, unserved + 1)
<1> SUFFICES ASSUME NEW row \in Rows
             PROVE  UpTo(srv, row)
                      + (IF present <= row THEN unserved + 1 ELSE 0)
                      <= UpTo(Raised(handler, present), row)
  BY DEF Slack
<1>1. /\ UpTo(srv, row) \in Nat /\ UpTo(handler, row) \in Nat
      /\ UpTo(Raised(handler, present), row)
           = UpTo(handler, row) + (IF present <= row THEN 1 ELSE 0)
  BY UpToOfRaised
<1>2. UpTo(srv, row) + (IF present <= row THEN unserved ELSE 0)
        <= UpTo(handler, row)
  BY DEF Slack
<1> QED  BY <1>1, <1>2

\* A sample of the service task is one less.
LEMMA SlackServed ==
  ASSUME NEW srv \in [Rows -> Nat], NEW handler \in [Rows -> Nat],
         NEW present \in Nat, NEW unserved \in Nat \ {0},
         Slack(srv, handler, present, unserved)
  PROVE  Slack(Raised(srv, present), handler, present, unserved - 1)
<1> SUFFICES ASSUME NEW row \in Rows
             PROVE  UpTo(Raised(srv, present), row)
                      + (IF present <= row THEN unserved - 1 ELSE 0)
                      <= UpTo(handler, row)
  BY DEF Slack
<1>1. /\ UpTo(srv, row) \in Nat /\ UpTo(handler, row) \in Nat
      /\ UpTo(Raised(srv, present), row)
           = UpTo(srv, row) + (IF present <= row THEN 1 ELSE 0)
  BY UpToOfRaised
<1>2. UpTo(srv, row) + (IF present <= row THEN unserved ELSE 0)
        <= UpTo(handler, row)
  BY DEF Slack
<1> QED  BY <1>1, <1>2

LEMMA RowGrows ==
  ASSUME NEW a \in Nat, NEW b \in Nat, a <= b
  PROVE  /\ (a * CountTime) \div RowTime \in Nat
         /\ (a * CountTime) \div RowTime <= (b * CountTime) \div RowTime
<1>1. CountTime \in Nat /\ RowTime \in Nat \ {0}
  BY ResponseAssumption
<1>2. /\ a * CountTime \in Nat /\ b * CountTime \in Nat
      /\ a * CountTime <= b * CountTime
  BY <1>1
<1>3. ASSUME NEW m \in Nat, NEW n \in Nat, m <= n, NEW c \in Nat \ {0}
      PROVE  m \div c \in Nat /\ m \div c <= n \div c
  BY <1>3
<1> QED  BY <1>1, <1>2, <1>3

LEMMA SlackNext ==
  SlackInv /\ ResponseInv /\ [ResponseNext]_responseVars => SlackInv'
<1> SUFFICES ASSUME SlackInv, ResponseInv, [ResponseNext]_responseVars,
                    board.prompt'
             PROVE  Slack(m_time_srv_map', m_time_isr_map',
                          PresentRow', Unserved')
  BY DEF SlackInv
<1>b. board' = board
  BY ResponseCases
     DEF Prepare, TimerCounts, TimerInterrupts, IsrSamples, IsrGives,
         IsrClears, ServiceTests, ServiceTakes, ServiceSamples, MonitorDelays,
         MonitorPrints, MonitorEnds, Spawn, Stop, Delete, responseVars
<1>s. Slack(m_time_srv_map, m_time_isr_map, PresentRow, Unserved)
  BY <1>b DEF SlackInv
<1>t. /\ m_time_srv_map \in [Rows -> Nat] /\ m_time_isr_map \in [Rows -> Nat]
      /\ timer.counter \in Nat /\ semaphore \in Nat
  BY ResponseAssumption DEF ResponseInv, ResponseTypeOK
<1>u. /\ PresentRow \in Nat /\ Unserved \in Nat
  BY <1>t, RowGrows DEF PresentRow, Unserved
<1>v. PresentRow' \in Nat /\ Unserved' \in Nat
  <2>1. ResponseTypeOK'
    BY ResponseInvNext DEF ResponseInv
  <2>2. timer.counter' \in Nat /\ semaphore' \in Nat
    BY <2>1, ResponseAssumption DEF ResponseTypeOK
  <2>3. PresentRow' = (timer.counter' * CountTime) \div RowTime
    BY DEF PresentRow
  <2>4. PresentRow' \in Nat
    BY <2>2, <2>3, RowGrows
  <2>5. \A n \in Nat, give, read \in {0, 1} : n + give + read \in Nat
    OBVIOUS
  <2>6. Unserved' \in Nat
    BY <2>2, <2>5 DEF Unserved
  <2> QED  BY <2>4, <2>6
\* The histograms are left alone.
<1>m. ASSUME UNCHANGED maps, PresentRow <= PresentRow' \/ Unserved' = 0,
             Unserved' <= Unserved
      PROVE  Slack(m_time_srv_map', m_time_isr_map', PresentRow', Unserved')
  BY <1>m, <1>s, <1>t, <1>u, <1>v, SlackKept DEF maps
<1>same. ASSUME UNCHANGED maps, UNCHANGED <<timer.counter, Unserved>>
         PROVE  Slack(m_time_srv_map', m_time_isr_map', PresentRow', Unserved')
  <2>1. PresentRow' = PresentRow
    BY <1>same DEF PresentRow
  <2> QED  BY <1>same, <1>m, <1>u, <2>1
<1>1. ASSUME NEW n \in 0..MaxPrints, Prepare(n)
      PROVE  Slack(m_time_srv_map', m_time_isr_map', PresentRow', Unserved')
  <2>1. Unserved' = 0
    BY <1>1 DEF Prepare, Unserved, ResponseInv, ServiceInv
  <2> QED  BY <1>1, <2>1, SlackNone DEF Prepare
<1>2. CASE TimerCounts
  <2>1. PresentRow <= PresentRow' /\ Unserved' = Unserved
    <3>1. timer.counter' = timer.counter + 1
      BY <1>2 DEF TimerCounts, ResponseInv, ResponseTypeOK
    <3>2. timer.counter' \in Nat /\ timer.counter <= timer.counter'
      BY <1>t, <3>1
    <3> QED  BY <1>2, <1>t, <3>2, RowGrows
                DEF TimerCounts, PresentRow, Unserved
  <2> QED  BY <1>2, <1>m, <1>u, <2>1 DEF TimerCounts
<1>3. CASE TimerInterrupts
  <2>1. Unserved = 0 /\ Unserved' = 0
    BY <1>3, <1>b DEF TimerInterrupts, Answered, Unserved
  <2> QED  BY <1>3, <1>m, <2>1 DEF TimerInterrupts
<1>4. CASE IsrSamples
  <2>1. Unserved' = Unserved + 1
    BY <1>4, <1>t DEF IsrSamples, Unserved
  <2>2. PresentRow' = PresentRow
    BY <1>4 DEF IsrSamples, PresentRow
  <2>3. m_time_isr_map' = Raised(m_time_isr_map, PresentRow)
    BY <1>4 DEF IsrSamples, Sampled, Raised, PresentRow
  <2> QED  BY <1>4, <1>s, <1>t, <1>u, <2>1, <2>2, <2>3, SlackHandled
              DEF IsrSamples
<1>5. CASE IsrGives
  BY <1>5, <1>t, <1>same DEF IsrGives, Unserved
<1>6. CASE IsrClears
  BY <1>6, <1>t, <1>same DEF IsrClears, Unserved, ResponseInv, ResponseTypeOK
<1>7. CASE ServiceTests
  BY <1>7, <1>t, <1>same DEF ServiceTests, Unserved
<1>8. CASE ServiceTakes
  BY <1>8, <1>t, <1>same DEF ServiceTakes, Unserved
<1>9. CASE ServiceSamples
  <2>1. Unserved \in Nat \ {0} /\ Unserved' = Unserved - 1
    BY <1>9, <1>t DEF ServiceSamples, Unserved
  <2>2. PresentRow' = PresentRow
    BY <1>9 DEF ServiceSamples, PresentRow
  <2>3. m_time_srv_map' = Raised(m_time_srv_map, PresentRow)
    BY <1>9 DEF ServiceSamples, Sampled, Raised, PresentRow
  <2> QED  BY <1>9, <1>s, <1>t, <1>u, <2>1, <2>2, <2>3, SlackServed
              DEF ServiceSamples
<1>10. CASE MonitorDelays \/ MonitorPrints \/ MonitorEnds
  BY <1>10, <1>same DEF MonitorDelays, MonitorPrints, MonitorEnds, Unserved
<1>11. CASE Spawn \/ Delete
  <2>1. Unserved' <= Unserved /\ PresentRow' = PresentRow
    BY <1>11, <1>t DEF Spawn, Delete, Unserved, PresentRow
  <2> QED  BY <1>11, <1>m, <1>u, <2>1 DEF Spawn, Delete
<1>12. CASE Stop
  BY <1>12, <1>same DEF Stop, Unserved, ResponseInv, ResponseTypeOK
<1>13. CASE UNCHANGED responseVars
  BY <1>13, <1>same DEF responseVars, Unserved
<1> QED
  BY <1>1, <1>2, <1>3, <1>4, <1>5, <1>6, <1>7, <1>8, <1>9, <1>10, <1>11, <1>12,
     <1>13, ResponseCases

(***************************************************************************)
(* For any timer and histograms the service task is never seen faster than *)
(* the handler, if all is prompt (main.c:20-52).                           *)
(***************************************************************************)
THEOREM ServiceIsNotFaster == ResponseSpec => []ServiceNotFaster
<1>1. SlackInv /\ ResponseInv => ServiceNotFaster
  <2> SUFFICES ASSUME SlackInv, ResponseInv, board.prompt, NEW row \in Rows
               PROVE  UpTo(m_time_srv_map, row) <= UpTo(m_time_isr_map, row)
    BY DEF ServiceNotFaster
  <2>1. UpTo(m_time_srv_map, row) \in Nat /\ UpTo(m_time_isr_map, row) \in Nat
    BY UpToRaised DEF ResponseInv, ResponseTypeOK
  <2>2. UpTo(m_time_srv_map, row) + (IF PresentRow <= row THEN Unserved ELSE 0)
          <= UpTo(m_time_isr_map, row)
    BY DEF SlackInv, Slack
  <2>3. Unserved \in Nat
    BY DEF Unserved, ResponseInv, ResponseTypeOK
  <2> QED  BY <2>1, <2>2, <2>3
<1>2. ResponseInit => SlackInv
  <2> SUFFICES ASSUME ResponseInit PROVE SlackInv
    OBVIOUS
  <2>1. Unserved = 0
    BY DEF ResponseInit, Unserved
  <2> QED  BY <2>1, SlackNone DEF ResponseInit, SlackInv
<1>3. SlackInv /\ ResponseInv /\ [ResponseNext]_responseVars
        => (SlackInv /\ ResponseInv)'
  BY SlackNext, ResponseInvNext
<1> QED
  BY ResponseInitial, <1>1, <1>2, <1>3, PTL DEF ResponseSpec

-----------------------------------------------------------------------------
(* Lab 7: the latency                                                      *)

(***************************************************************************)
(* Every action of the two sides and of the network, for proofs by cases.  *)
(***************************************************************************)
LEMMA LatencyCases ==
  ASSUME [LatencyNext]_latencyVars
  PROVE  \/ \E count \in 0..MaxCount : Listens(count) \/ Sends(count)
         \/ \E d \in Datagrams : \/ ListenerReceives(d) \/ SenderReceives(d)
                                 \/ Lose(d) \/ Duplicate(d)
         \/ \E lost \in BOOLEAN : SenderSends(lost)
         \/ ListenerTests \/ ListenerFails \/ Echoes \/ EchoFails
         \/ SenderTests \/ SenderFails
         \/ UNCHANGED latencyVars
BY DEF LatencyNext, ListenerRuns, SenderRuns

\* The sender's count is in its bounds, and so the numbers of its messages are.
CountInv ==
  /\ sender.at \in {"off", "test"} =>
       /\ sender.messages_count # 0 => sender.i <= sender.messages_count
       /\ sender.messages_count = 0 => sender.i <= MaxEndless
  /\ sender.at \in {"send", "recv"} => sender.i \in Messages
  /\ sender.at \in {"send", "recv"} =>
       /\ sender.messages_count # 0 => sender.i <= sender.messages_count
       /\ sender.messages_count = 0 => sender.i <= MaxEndless
  /\ sender.at # "echo"
  /\ listener.at = "echo" => listener.buf \in Datagrams

(***************************************************************************)
(* As long as nothing was duplicated and no recvfrom of the sender failed, *)
(* one datagram at most is under way, on the wire or in the listener's     *)
(* hands, and then the sender waits for that very one.                     *)
(***************************************************************************)
OneUnderWay ==
  faults["duplicated"] = 0 /\ faults["sender"] = 0 =>
    /\ sender.at # "recv" =>
         requests = {} /\ answers = {} /\ listener.at # "echo"
    /\ requests \cup answers \subseteq {<<sender.i, "original">>}
    /\ listener.at = "echo" => listener.buf = <<sender.i, "original">>
    /\ requests # {} => answers = {} /\ listener.at # "echo"
    /\ answers # {} => listener.at # "echo"

LatencyInv == LatencyTypeOK /\ CountInv /\ OneUnderWay /\ OwnAnswer

\* The records of either side.
Sides == [at : {"off", "test", "send", "recv", "echo", "closed"},
          messages_count : 0..MaxCount, i : Nat,
          buf : Datagrams \cup {Nothing}]

LEMMA LatencyTypes ==
  LatencyTypeOK <=>
    /\ sender \in Sides /\ listener \in Sides
    /\ requests \subseteq Datagrams /\ answers \subseteq Datagrams
    /\ delays \subseteq Messages \X (Messages \cup {0})
    /\ faults \in [Faults -> 0..MaxFaults]
BY DEF LatencyTypeOK, Sides

LEMMA LatencyConstants ==
  MaxCount \in Nat /\ MaxEndless \in Nat /\ MaxFaults \in Nat
BY LatencyAssumption

\* A fault is counted, and the counts stay in their bounds.
LEMMA FaultCounted ==
  ASSUME faults \in [Faults -> 0..MaxFaults], NEW kind \in Faults, Fault(kind)
  PROVE  /\ faults' \in [Faults -> 0..MaxFaults]
         /\ faults'[kind] # 0
         /\ \A other \in Faults :
               other # kind => faults'[other] = faults[other]
         /\ \A other \in Faults : faults'[other] = 0 => faults[other] = 0
BY LatencyConstants DEF Fault, Faults

LEMMA FaultKinds == {"lost", "duplicated", "sender", "listener"} = Faults
BY DEF Faults

\* A side that counts on is of the same type.
LEMMA TestedType ==
  ASSUME NEW side \in Sides, NEW place \in {"send", "recv"}
  PROVE  Tested(side, place) \in Sides
<1>1. ASSUME NEW n \in Nat, NEW at \in {place, "closed"}
      PROVE  [side EXCEPT !.i = n, !.at = at] \in Sides
  BY <1>1 DEF Sides
<1>2. side.i + 1 \in Nat
  BY DEF Sides
<1>3. \A at \in {place, "closed"} :
         [side EXCEPT !.i = side.i + 1, !.at = at] \in Sides
  BY <1>1, <1>2
<1> QED
  BY <1>3 DEF Tested

LEMMA LatencyInitial == LatencyInit => LatencyInv
<1> SUFFICES ASSUME LatencyInit PROVE LatencyInv
  OBVIOUS
<1> USE LatencyConstants DEF LatencyInit, Off
<1>1. LatencyTypeOK
  BY DEF LatencyTypeOK, Faults
<1>2. CountInv /\ OneUnderWay /\ OwnAnswer
  BY DEF CountInv, OneUnderWay, OwnAnswer
<1> QED
  BY <1>1, <1>2 DEF LatencyInv

LEMMA LatencyTypeNext ==
  LatencyTypeOK /\ CountInv /\ [LatencyNext]_latencyVars => LatencyTypeOK'
<1> SUFFICES ASSUME LatencyTypeOK, CountInv, [LatencyNext]_latencyVars
             PROVE  LatencyTypeOK'
  OBVIOUS
<1> SUFFICES /\ sender' \in Sides /\ listener' \in Sides
             /\ requests' \subseteq Datagrams /\ answers' \subseteq Datagrams
             /\ delays' \subseteq Messages \X (Messages \cup {0})
             /\ faults' \in [Faults -> 0..MaxFaults]
  BY DEF LatencyTypeOK, Sides
<1> DEFINE Goal ==
      /\ sender' \in Sides /\ listener' \in Sides
      /\ requests' \subseteq Datagrams /\ answers' \subseteq Datagrams
      /\ delays' \subseteq Messages \X (Messages \cup {0})
      /\ faults' \in [Faults -> 0..MaxFaults]
<1> USE LatencyConstants, LatencyTypes DEF Sides, CountInv
<1>1. ASSUME NEW count \in 0..MaxCount, Listens(count) PROVE Goal
  BY <1>1 DEF Listens, Off, Datagrams
<1>2. ASSUME NEW count \in 0..MaxCount, Sends(count) PROVE Goal
  BY <1>2 DEF Sends, Off, Datagrams
<1>3. ASSUME NEW d \in Datagrams, ListenerReceives(d) PROVE Goal
  BY <1>3 DEF ListenerReceives, Datagrams
<1>4. ASSUME NEW d \in Datagrams, SenderReceives(d) PROVE Goal
  BY <1>4 DEF SenderReceives, Datagrams
<1>5. ASSUME NEW d \in Datagrams, Lose(d) PROVE Goal
  BY <1>5, FaultCounted, FaultKinds DEF Lose, Datagrams
<1>6. ASSUME NEW d \in Datagrams, Duplicate(d) PROVE Goal
  BY <1>6, FaultCounted, FaultKinds DEF Duplicate, Datagrams
<1>7. ASSUME NEW lost \in BOOLEAN, SenderSends(lost) PROVE Goal
  BY <1>7, FaultCounted, FaultKinds DEF SenderSends, Datagrams
<1>8. CASE ListenerTests
  BY <1>8, TestedType DEF ListenerTests
<1>9. CASE ListenerFails
  BY <1>9, FaultCounted, FaultKinds DEF ListenerFails, Datagrams
<1>10. CASE Echoes
  BY <1>10 DEF Echoes, Datagrams
<1>11. CASE EchoFails
  BY <1>11, FaultCounted, FaultKinds DEF EchoFails, Datagrams
<1>12. CASE SenderTests
  BY <1>12, TestedType DEF SenderTests
<1>13. CASE SenderFails
  BY <1>13, FaultCounted, FaultKinds DEF SenderFails, Datagrams
<1>14. CASE UNCHANGED latencyVars
  BY <1>14 DEF latencyVars, Datagrams
<1> QED
  BY <1>1, <1>2, <1>3, <1>4, <1>5, <1>6, <1>7, <1>8, <1>9, <1>10, <1>11, <1>12,
     <1>13, <1>14, LatencyCases

LEMMA CountNext ==
  LatencyTypeOK /\ CountInv /\ [LatencyNext]_latencyVars => CountInv'
<1> SUFFICES ASSUME LatencyTypeOK, CountInv, [LatencyNext]_latencyVars
             PROVE  CountInv'
  OBVIOUS
<1> USE LatencyConstants, LatencyTypes DEF Sides, CountInv, Messages
<1>1. ASSUME NEW count \in 0..MaxCount, Listens(count) PROVE CountInv'
  BY <1>1 DEF Listens, Off
<1>2. ASSUME NEW count \in 0..MaxCount, Sends(count) PROVE CountInv'
  BY <1>2 DEF Sends, Off
<1>3. ASSUME NEW d \in Datagrams, ListenerReceives(d) PROVE CountInv'
  BY <1>3 DEF ListenerReceives
<1>4. ASSUME NEW d \in Datagrams, SenderReceives(d) PROVE CountInv'
  BY <1>4 DEF SenderReceives
<1>5. ASSUME NEW d \in Datagrams, Lose(d) PROVE CountInv'
  BY <1>5 DEF Lose
<1>6. ASSUME NEW d \in Datagrams, Duplicate(d) PROVE CountInv'
  BY <1>6 DEF Duplicate
<1>7. ASSUME NEW lost \in BOOLEAN, SenderSends(lost) PROVE CountInv'
  BY <1>7 DEF SenderSends
<1>8. CASE ListenerTests
  BY <1>8 DEF ListenerTests, Tested
<1>9. CASE ListenerFails
  BY <1>9 DEF ListenerFails
<1>10. CASE Echoes
  BY <1>10 DEF Echoes
<1>11. CASE EchoFails
  BY <1>11 DEF EchoFails
<1>12. CASE SenderTests
  BY <1>12 DEF SenderTests, Tested, InBound
<1>13. CASE SenderFails
  BY <1>13 DEF SenderFails
<1>14. CASE UNCHANGED latencyVars
  BY <1>14 DEF latencyVars
<1> QED
  BY <1>1, <1>2, <1>3, <1>4, <1>5, <1>6, <1>7, <1>8, <1>9, <1>10, <1>11, <1>12,
     <1>13, <1>14, LatencyCases

LEMMA OneUnderWayNext ==
  LatencyTypeOK /\ CountInv /\ OneUnderWay /\ [LatencyNext]_latencyVars
    => OneUnderWay'
<1> SUFFICES ASSUME LatencyTypeOK, CountInv, OneUnderWay,
                    [LatencyNext]_latencyVars
             PROVE  OneUnderWay'
  OBVIOUS
<1> USE LatencyTypes DEF Sides, CountInv, OneUnderWay
<1>1. ASSUME NEW count \in 0..MaxCount, Listens(count) PROVE OneUnderWay'
  BY <1>1 DEF Listens, Off
<1>2. ASSUME NEW count \in 0..MaxCount, Sends(count) PROVE OneUnderWay'
  BY <1>2 DEF Sends, Off
<1>3. ASSUME NEW d \in Datagrams, ListenerReceives(d) PROVE OneUnderWay'
  BY <1>3 DEF ListenerReceives
<1>4. ASSUME NEW d \in Datagrams, SenderReceives(d) PROVE OneUnderWay'
  BY <1>4 DEF SenderReceives
<1>5. ASSUME NEW d \in Datagrams, Lose(d) PROVE OneUnderWay'
  BY <1>5, FaultCounted, FaultKinds DEF Lose
<1>6. ASSUME NEW d \in Datagrams, Duplicate(d) PROVE OneUnderWay'
  BY <1>6, FaultCounted, FaultKinds DEF Duplicate
<1>7. ASSUME NEW lost \in BOOLEAN, SenderSends(lost) PROVE OneUnderWay'
  BY <1>7, FaultCounted, FaultKinds DEF SenderSends
<1>8. CASE ListenerTests
  BY <1>8 DEF ListenerTests, Tested
<1>9. CASE ListenerFails
  BY <1>9, FaultCounted, FaultKinds DEF ListenerFails
<1>10. CASE Echoes
  BY <1>10 DEF Echoes
<1>11. CASE EchoFails
  BY <1>11, FaultCounted, FaultKinds DEF EchoFails
<1>12. CASE SenderTests
  BY <1>12 DEF SenderTests, Tested, InBound
<1>13. CASE SenderFails
  BY <1>13, FaultCounted, FaultKinds DEF SenderFails
<1>14. CASE UNCHANGED latencyVars
  BY <1>14 DEF latencyVars
<1> QED
  BY <1>1, <1>2, <1>3, <1>4, <1>5, <1>6, <1>7, <1>8, <1>9, <1>10, <1>11, <1>12,
     <1>13, <1>14, LatencyCases

LEMMA OwnAnswerNext ==
  LatencyTypeOK /\ CountInv /\ OneUnderWay /\ OwnAnswer
    /\ [LatencyNext]_latencyVars => OwnAnswer'
<1> SUFFICES ASSUME LatencyTypeOK, CountInv, OneUnderWay, OwnAnswer,
                    [LatencyNext]_latencyVars
             PROVE  OwnAnswer'
  OBVIOUS
<1> USE LatencyTypes DEF Sides, OwnAnswer
<1>1. ASSUME NEW count \in 0..MaxCount, Listens(count) PROVE OwnAnswer'
  BY <1>1 DEF Listens, Off
<1>2. ASSUME NEW count \in 0..MaxCount, Sends(count) PROVE OwnAnswer'
  BY <1>2 DEF Sends, Off
<1>3. ASSUME NEW d \in Datagrams, ListenerReceives(d) PROVE OwnAnswer'
  BY <1>3 DEF ListenerReceives
<1>4. ASSUME NEW d \in Datagrams, SenderReceives(d) PROVE OwnAnswer'
  BY <1>4 DEF SenderReceives, OneUnderWay
<1>5. ASSUME NEW d \in Datagrams, Lose(d) PROVE OwnAnswer'
  BY <1>5, FaultCounted, FaultKinds DEF Lose
<1>6. ASSUME NEW d \in Datagrams, Duplicate(d) PROVE OwnAnswer'
  BY <1>6, FaultCounted, FaultKinds DEF Duplicate
<1>7. ASSUME NEW lost \in BOOLEAN, SenderSends(lost) PROVE OwnAnswer'
  BY <1>7, FaultCounted, FaultKinds DEF SenderSends
<1>8. CASE ListenerTests
  BY <1>8 DEF ListenerTests, Tested
<1>9. CASE ListenerFails
  BY <1>9, FaultCounted, FaultKinds DEF ListenerFails
<1>10. CASE Echoes
  BY <1>10 DEF Echoes
<1>11. CASE EchoFails
  BY <1>11, FaultCounted, FaultKinds DEF EchoFails
<1>12. CASE SenderTests
  BY <1>12 DEF SenderTests, Tested, InBound
<1>13. CASE SenderFails
  BY <1>13, FaultCounted, FaultKinds DEF SenderFails
<1>14. CASE UNCHANGED latencyVars
  BY <1>14 DEF latencyVars
<1> QED
  BY <1>1, <1>2, <1>3, <1>4, <1>5, <1>6, <1>7, <1>8, <1>9, <1>10, <1>11, <1>12,
     <1>13, <1>14, LatencyCases

LEMMA LatencyInvNext == LatencyInv /\ [LatencyNext]_latencyVars => LatencyInv'
BY LatencyTypeNext, CountNext, OneUnderWayNext, OwnAnswerNext DEF LatencyInv

(***************************************************************************)
(* Whatever is lost, and for any numbers of messages, a delay is of the    *)
(* message just sent and its own answer, as long as nothing is duplicated  *)
(* and no recvfrom of the sender fails (latency_measurement.c:95-115).     *)
(***************************************************************************)
THEOREM AnswersAreOwn == LatencySpec => []OwnAnswer
<1>1. LatencyInv => OwnAnswer
  BY DEF LatencyInv
<1> QED
  BY LatencyInitial, LatencyInvNext, <1>1, PTL DEF LatencySpec

-----------------------------------------------------------------------------
(* Lab 4: the difference of two times                                      *)

\* The quotient is the number that divides so.
LEMMA Quotient ==
  ASSUME NEW a \in Nat, NEW b \in Nat \ {0}, NEW q \in Nat,
         q * b <= a, a < (q + 1) * b
  PROVE  a \div b = q
OBVIOUS

LEMMA NsFacts ==
  /\ MsPerSec \in Nat \ {0} /\ NsPerMs \in Nat \ {0}
  /\ NsPerSec \in Nat \ {0} /\ NsPerSec = MsPerSec * NsPerMs
<1>1. ASSUME NEW a \in Nat \ {0}, NEW b \in Nat \ {0}
      PROVE  a * b \in Nat \ {0}
  OBVIOUS
<1> QED
  BY <1>1, UnitsAssumption DEF NsPerSec

\* Clock readings: whole seconds, and nanoseconds below one.
Readings == [sec : Nat, nsec : 0 .. NsPerSec - 1]

\* What timespec_subtract makes of clock readings, borrowing at most a second.
LEMMA Subtraction ==
  ASSUME NEW x \in Readings, NEW y \in Readings
  PROVE  LET borrowed == IF x.nsec >= y.nsec THEN 0 ELSE 1
         IN  timespec_subtract(x, y) =
               [result   |-> [sec  |-> x.sec - (y.sec + borrowed),
                              nsec |-> x.nsec - y.nsec + borrowed * NsPerSec],
                negative |-> x.sec < y.sec + borrowed]
<1>1. /\ x.sec \in Nat /\ y.sec \in Nat
      /\ x.nsec \in 0 .. NsPerSec - 1 /\ y.nsec \in 0 .. NsPerSec - 1
      /\ NsPerSec \in Nat \ {0}
  BY NsFacts DEF Readings
<1>2. CASE x.nsec >= y.nsec
  <2>1. Borrow(x, y) = y
    BY <1>2 DEF Borrow
  <2>2. x.nsec - y.nsec <= NsPerSec
    BY <1>1
  <2>3. Carry(x, y) = y
    BY <2>2 DEF Carry
  <2> QED
    BY <1>1, <1>2, <2>1, <2>3 DEF timespec_subtract
<1>3. CASE ~ (x.nsec >= y.nsec)
  <2> DEFINE z == [sec |-> y.sec + 1, nsec |-> y.nsec - NsPerSec]
  <2>1. (y.nsec - x.nsec) \div NsPerSec = 0
    BY <1>1, <1>3, Quotient
  <2>2. Borrow(x, y) = z
    <3>1. Borrow(x, y) = [sec  |-> y.sec + (0 + 1),
                          nsec |-> y.nsec - NsPerSec * (0 + 1)]
      BY <1>3, <2>1 DEF Borrow
    <3> QED
      BY <1>1, <3>1
  <2>3. x.nsec - z.nsec <= NsPerSec
    BY <1>1, <1>3
  <2>4. Carry(x, z) = z
    BY <2>3 DEF Carry
  <2>5. timespec_subtract(x, y) =
          [result   |-> [sec |-> x.sec - z.sec, nsec |-> x.nsec - z.nsec],
           negative |-> x.sec < z.sec]
    BY <2>2, <2>4 DEF timespec_subtract
  <2>6. x.nsec - z.nsec = x.nsec - y.nsec + 1 * NsPerSec
    BY <1>1
  <2> QED
    BY <1>3, <2>5, <2>6
<1> QED
  BY <1>2, <1>3

(***************************************************************************)
(* For any two clock readings, however many seconds, timespec_subtract     *)
(* gives their exact difference and its sign, and time_to_ms the whole     *)
(* milliseconds of one that is not negative (utils.c:62-89).               *)
(***************************************************************************)
LEMMA DifferenceIsExact ==
  ASSUME NEW x \in Readings, NEW y \in Readings
  PROVE  LET diff == Nanoseconds(x) - Nanoseconds(y)
             out  == timespec_subtract(x, y)
         IN  /\ Nanoseconds(out.result) = diff
             /\ out.result.nsec \in 0 .. NsPerSec - 1
             /\ out.negative <=> diff < 0
             /\ diff >= 0 => time_to_ms(out.result) = diff \div NsPerMs
<1> DEFINE diff == Nanoseconds(x) - Nanoseconds(y)
           borrowed == IF x.nsec >= y.nsec THEN 0 ELSE 1
           s == x.sec - (y.sec + borrowed)
           n == x.nsec - y.nsec + borrowed * NsPerSec
<1>1. /\ x.sec \in Nat /\ y.sec \in Nat
      /\ x.nsec \in 0 .. NsPerSec - 1 /\ y.nsec \in 0 .. NsPerSec - 1
      /\ NsPerSec \in Nat \ {0}
  BY NsFacts DEF Readings
<1>2. timespec_subtract(x, y) = [result   |-> [sec  |-> s, nsec |-> n],
                                 negative |-> x.sec < y.sec + borrowed]
  BY Subtraction
<1>3. s \in Int /\ n \in 0 .. NsPerSec - 1
  BY <1>1
<1>4. s * NsPerSec + n = diff
  <2>1. \A a, b, w \in Int : (a - b) * w = a * w - b * w
    OBVIOUS
  <2>2. \A b, w \in Int : (b + 1) * w = b * w + w
    OBVIOUS
  <2>3. CASE x.nsec >= y.nsec
    BY <1>1, <2>1, <2>3 DEF Nanoseconds
  <2>4. CASE ~ (x.nsec >= y.nsec)
    <3>1. s = x.sec - (y.sec + 1) /\ n = x.nsec - y.nsec + NsPerSec
      BY <1>1, <2>4
    <3>2. s * NsPerSec = x.sec * NsPerSec - (y.sec * NsPerSec + NsPerSec)
      BY <1>1, <2>1, <2>2, <3>1
    <3>3. x.sec * NsPerSec \in Int /\ y.sec * NsPerSec \in Int
      BY <1>1
    <3> HIDE DEF s, n
    <3> QED
      BY <1>1, <3>1, <3>2, <3>3 DEF Nanoseconds
  <2> QED
    BY <2>3, <2>4
<1>5. s < 0 <=> diff < 0
  <2>1. \A a \in Int, w \in Nat \ {0} : /\ a < 0 => a * w <= -w
                                        /\ a >= 0 => a * w >= 0
    OBVIOUS
  <2> HIDE DEF s, n, diff
  <2> QED
    BY <1>1, <1>3, <1>4, <2>1
<1>6. x.sec < y.sec + borrowed <=> s < 0
  BY <1>1
<1>7. ASSUME diff >= 0
      PROVE  s * MsPerSec + n \div NsPerMs = diff \div NsPerMs
  <2> DEFINE q == n \div NsPerMs
  <2>0. ~ (s < 0)
    <3>1. diff \in Int
      BY <1>1 DEF Nanoseconds
    <3> HIDE DEF s, n, diff
    <3> QED
      BY <1>5, <1>7, <3>1
  <2>1. s \in Nat /\ n \in Nat /\ MsPerSec \in Nat /\ NsPerMs \in Nat \ {0}
    <3> HIDE DEF s, n
    <3> QED
      BY <1>1, <1>3, <2>0, NsFacts
  <2>2. NsPerSec = MsPerSec * NsPerMs
    BY NsFacts
  <2> HIDE DEF s, n, diff
  <2>3. q \in Nat /\ q * NsPerMs <= n /\ n < (q + 1) * NsPerMs
    BY <2>1
  <2>4. diff \in Nat /\ diff = (s * MsPerSec) * NsPerMs + n
    BY <1>4, <2>1, <2>2, <1>7
  <2> HIDE DEF q
  <2>5. s * MsPerSec \in Nat
    BY <2>1
  <2>6. \A m \in Nat : /\ (m + q) * NsPerMs = m * NsPerMs + q * NsPerMs
                       /\ (m + q + 1) * NsPerMs
                            = m * NsPerMs + (q + 1) * NsPerMs
    BY <2>1, <2>3
  <2>7. /\ (s * MsPerSec + q) * NsPerMs <= diff
        /\ diff < (s * MsPerSec + q + 1) * NsPerMs
    BY <2>1, <2>3, <2>4, <2>5, <2>6
  <2>8. diff \div NsPerMs = s * MsPerSec + q
    BY <2>1, <2>3, <2>4, <2>5, <2>7, Quotient
  <2> QED
    BY <2>8 DEF q
<1> DEFINE out == timespec_subtract(x, y)
<1>8. /\ out.result.sec = s /\ out.result.nsec = n
      /\ out.negative <=> x.sec < y.sec + borrowed
  <2> HIDE DEF s, n, borrowed
  <2>1. /\ out.result = [sec |-> s, nsec |-> n]
        /\ out.negative = (x.sec < y.sec + borrowed)
    BY <1>2
  <2>2. out.result.sec = s /\ out.result.nsec = n
    BY <2>1
  <2>3. out.negative <=> x.sec < y.sec + borrowed
    BY <2>1, Zenon
  <2> QED
    BY <2>2, <2>3
<1>9. /\ Nanoseconds(out.result) = s * NsPerSec + n
      /\ time_to_ms(out.result) = s * MsPerSec + n \div NsPerMs
  BY <1>8 DEF Nanoseconds, time_to_ms
<1> HIDE DEF s, n, out, diff, borrowed
<1> SUFFICES /\ Nanoseconds(out.result) = diff
             /\ out.result.nsec \in 0 .. NsPerSec - 1
             /\ out.negative <=> diff < 0
             /\ diff >= 0 => time_to_ms(out.result) = diff \div NsPerMs
  BY DEF out, diff
<1> QED
  BY <1>3, <1>4, <1>5, <1>6, <1>7, <1>8, <1>9

LEMMA SubtractHolds == SubtractLaw
<1>1. Times \subseteq Readings
  BY DEF Times, Readings, MaxSec
<1> QED
  BY <1>1, DifferenceIsExact DEF SubtractLaw

(***************************************************************************)
(* The law of the subtraction, for the units of the source or any other    *)
(* (utils.c:62-89).                                                        *)
(***************************************************************************)
THEOREM SubtractionIsLawful == LabsSpec => []SubtractLaw
BY SubtractHolds, PTL

-----------------------------------------------------------------------------
(* The labs together                                                       *)

LabsInv == /\ lab \in 4..7
           /\ InversionInv /\ ChainTypeOK /\ ResponseInv /\ LatencyInv

LEMMA LabsInitial == LabsInit => LabsInv
BY InversionInitial, ChainInitial, ResponseInitial, LatencyInitial
   DEF LabsInit, LabsInv

LEMMA LabsNext ==
  LabsInv /\ [Inversion \/ Chain \/ Response \/ Exchange]_labVars => LabsInv'
<1> SUFFICES ASSUME LabsInv,
                    [Inversion \/ Chain \/ Response \/ Exchange]_labVars
             PROVE  LabsInv'
  OBVIOUS
<1>1. /\ lab' = lab
      /\ [Next]_vars /\ [ChainNext]_chainVars
      /\ [ResponseNext]_responseVars /\ [LatencyNext]_latencyVars
  BY DEF Inversion, Chain, Response, Exchange, labVars
<1> QED
  BY <1>1, InversionNext, ChainTypeNext, ResponseInvNext, LatencyInvNext
     DEF LabsInv

(***************************************************************************)
(* Every variable of labs 4 to 7 keeps its type, whatever the sizes, the   *)
(* delays and the counts: no length passes the end of lab 5's arrays, and  *)
(* no count of labs 6 and 7 its end.                                       *)
(***************************************************************************)
THEOREM LabsTypeCorrect == LabsSpec => []LabsTypeOK
<1>1. LabsInv => LabsTypeOK
  BY DEF LabsInv, LabsTypeOK, InversionInv, ResponseInv, LatencyInv
<1> QED
  BY LabsInitial, LabsNext, <1>1, PTL DEF LabsSpec
=============================================================================
