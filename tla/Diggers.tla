------------------------------ MODULE Diggers -------------------------------
(***************************************************************************)
(* Lab 2 (lab2_mutex_semaphore/task2.c): diggers share SHOVELS shovels.    *)
(* Those in the hole throw soil on a heap, those above take it from there. *)
(* CreateTasks, at the keyboard, hires diggers and deletes them, and       *)
(* taskSafe defers the deletion of a digger that holds a shovel.           *)
(*                                                                         *)
(* A digger is <<kind, n>>, n being its place in l_diggers_ids or          *)
(* u_diggers_ids.  The lab's image is single-core (SIMLINUXgnu), but its   *)
(* tasks and the keyboard's task may be switched anywhere.                 *)
(***************************************************************************)
EXTENDS Integers, FiniteSets, SequencesExt

CONSTANTS
  SHOVELS,             \* shovels there are
  MAX_NUM_OF_DIGGERS,  \* length of each array of ids
  MaxUpper,            \* bound: upper diggers there may be
  MaxHeap,             \* bound: soil dug and not yet taken away
  MaxFired             \* bound: upper diggers deleted in all

ASSUME DiggersAssumption ==
  /\ SHOVELS \in Nat \ {0} /\ MAX_NUM_OF_DIGGERS \in Nat \ {0}
  /\ MaxUpper \in Nat \ {0} /\ MaxHeap \in Nat /\ MaxFired \in Nat

VARIABLES
  pc,      \* what each digger is doing
  shovels, \* semShovels: its count and its FIFO queue
  heap,    \* semSoilHeap: likewise
  count,   \* l_diggers_count and u_diggers_count
  boss,    \* CreateTasks: "key", or the deletion it is blocked in
  dug,     \* history: soil dug and not taken away
  fired    \* history: upper diggers deleted

vars == <<pc, shovels, heap, count, boss, dug, fired>>

Lowers  == {"lower"} \X (0 .. MAX_NUM_OF_DIGGERS - 1)
Uppers  == {"upper"} \X (0 .. MaxUpper - 1)
Diggers == Lowers \cup Uppers

Key == [pc |-> "key", kind |-> "lower", n |-> 0]

\* CreateTasks makes the semaphores and hires a digger of each kind.
Init ==
  /\ pc = [d \in Diggers |-> IF d[2] = 0 THEN "rest" ELSE "none"]
  /\ shovels = [count |-> SHOVELS, queue |-> << >>]
  /\ heap = [count |-> 0, queue |-> << >>]
  /\ count = [lower |-> 1, upper |-> 1]
  /\ boss = Key /\ dug = 0 /\ fired = 0

-----------------------------------------------------------------------------
(* Counting semaphores.  A semGive hands over to the head of the queue.    *)

Taken(sem) == [sem EXCEPT !.count = @ - 1]

\* Mutant of Queued: the queue is last in, first out.
QueuedInFront(sem, d) == [sem EXCEPT !.queue = <<d>> \o @]

Queued(sem, d) == [sem EXCEPT !.queue = Append(@, d)]

Without(sem, d) == [sem EXCEPT !.queue = RemoveFirst(@, d)]

Given(sem) == IF sem.queue = << >> THEN [sem EXCEPT !.count = @ + 1]
              ELSE [sem EXCEPT !.queue = Tail(@)]

\* pc, once d has gone on to next and the head of sem's queue, if any, to then.
Handover(sem, then, d, next) ==
  [e \in Diggers |-> IF e = d THEN next
                     ELSE IF sem.queue # << >> /\ e = Head(sem.queue) THEN then
                     ELSE pc[e]]

\* semTake of a shovel; the digger is safe from deletion from here on.
TakeShovel(d) ==
  IF shovels.count > 0
    THEN shovels' = Taken(shovels) /\ pc' = [pc EXCEPT ![d] = "work"]
    ELSE shovels' = Queued(shovels, d) /\ pc' = [pc EXCEPT ![d] = "waitShovel"]

\* semGive of a shovel, then taskUnsafe.
GiveShovel(d) ==
  /\ pc' = Handover(shovels, "work", d, "rest")
  /\ shovels' = Given(shovels)

Safe(d) == pc[d] \in {"waitShovel", "work", "threw", "timedOut"}

-----------------------------------------------------------------------------
(* digger_in_hole                                                          *)

LowerStarts(d) ==
  /\ pc[d] = "rest"
  /\ dug + Cardinality({e \in Lowers : pc[e] \in {"waitShovel", "work"}}) < MaxHeap
  /\ TakeShovel(d)
  /\ UNCHANGED <<heap, count, boss, dug, fired>>

LowerThrows(d) ==
  /\ pc[d] = "work"
  /\ pc' = Handover(heap, "gotSoil", d, "threw")
  /\ heap' = Given(heap)
  /\ dug' = dug + 1
  /\ UNCHANGED <<shovels, count, boss, fired>>

LowerStops(d) ==
  /\ pc[d] = "threw"
  /\ GiveShovel(d)
  /\ UNCHANGED <<heap, count, boss, dug, fired>>

Lower(d) == LowerStarts(d) \/ LowerThrows(d) \/ LowerStops(d)

-----------------------------------------------------------------------------
(* digger_up_the_hole                                                      *)

UpperTakesSoil(d) ==
  /\ pc[d] = "rest"
  /\ IF heap.count > 0
       THEN heap' = Taken(heap) /\ pc' = [pc EXCEPT ![d] = "gotSoil"]
       ELSE heap' = Queued(heap, d) /\ pc' = [pc EXCEPT ![d] = "waitSoil"]
  /\ UNCHANGED <<shovels, count, boss, dug, fired>>

\* Only here, the soil in hand, does the digger call taskSafe.
UpperStarts(d) ==
  /\ pc[d] = "gotSoil"
  /\ TakeShovel(d)
  /\ UNCHANGED <<heap, count, boss, dug, fired>>

\* Mutant of UpperTimesOut: semTake's error is not looked at.
UpperIgnoresTimeout(d) ==
  /\ pc[d] = "waitShovel"
  /\ shovels' = Without(shovels, d)
  /\ pc' = [pc EXCEPT ![d] = "work"]
  /\ UNCHANGED <<heap, count, boss, dug, fired>>

\* Ten ticks have passed.
UpperTimesOut(d) ==
  /\ pc[d] = "waitShovel"
  /\ shovels' = Without(shovels, d)
  /\ pc' = [pc EXCEPT ![d] = "timedOut"]
  /\ UNCHANGED <<heap, count, boss, dug, fired>>

\* Mutant of UpperGivesBack: the soil is not put back.
UpperGivesNothingBack(d) ==
  /\ pc[d] = "timedOut"
  /\ pc' = [pc EXCEPT ![d] = "rest"]
  /\ UNCHANGED <<shovels, heap, count, boss, dug, fired>>

UpperGivesBack(d) ==
  /\ pc[d] = "timedOut"
  /\ pc' = Handover(heap, "gotSoil", d, "rest")
  /\ heap' = Given(heap)
  /\ UNCHANGED <<shovels, count, boss, dug, fired>>

UpperStops(d) ==
  /\ pc[d] = "work"
  /\ GiveShovel(d)
  /\ dug' = dug - 1
  /\ UNCHANGED <<heap, count, boss, fired>>

Upper(d) == \/ UpperTakesSoil(d) \/ UpperStarts(d) \/ UpperTimesOut(d)
            \/ UpperGivesBack(d) \/ UpperStops(d)

-----------------------------------------------------------------------------
(* CreateTasks                                                             *)

\* Commands `i' and `I'.  Both check l_diggers_count.
Hire(kind) ==
  /\ boss.pc = "key"
  /\ count["lower"] < MAX_NUM_OF_DIGGERS
  /\ <<kind, count[kind]>> \in Diggers
  /\ pc' = [pc EXCEPT ![<<kind, count[kind]>>] = "rest"]
  /\ count' = [count EXCEPT ![kind] = @ + 1]
  /\ UNCHANGED <<shovels, heap, boss, dug, fired>>

\* Mutant of Leave: nobody asks whether there is a digger left.
LeaveUnchecked(kind) ==
  /\ boss.pc = "key" /\ fired < MaxFired
  /\ boss' = [pc |-> "leave", kind |-> kind, n |-> count[kind] - 1]
  /\ UNCHANGED <<pc, shovels, heap, count, dug, fired>>

\* Commands `o' and `O': taskDelete is called for the last digger.
Leave(kind) ==
  /\ boss.pc = "key" /\ count[kind] > 0
  /\ kind = "upper" => fired < MaxFired
  /\ boss' = [pc |-> "leave", kind |-> kind, n |-> count[kind] - 1]
  /\ UNCHANGED <<pc, shovels, heap, count, dug, fired>>

\* Command `E' begins with the lower diggers.
LeaveAll ==
  /\ boss.pc = "key" /\ fired + count["upper"] <= MaxFired
  /\ boss' = [pc |-> "all", kind |-> "lower", n |-> 0]
  /\ UNCHANGED <<pc, shovels, heap, count, dug, fired>>

\* Mutant of MayDelete: taskSafe has no effect.
MayDeleteAny(d) == TRUE

\* taskDelete waits until its target is not safe.
MayDelete(d) == ~Safe(d)

\* The digger disappears, from the queue it waits in too, with what it holds.
Delete(d) ==
  /\ MayDelete(d)
  /\ pc' = [pc EXCEPT ![d] = "none"]
  /\ heap' = Without(heap, d)
  /\ fired' = IF d \in Uppers THEN fired + 1 ELSE fired
  /\ UNCHANGED <<shovels, dug>>

DeleteLast ==
  /\ boss.pc = "leave"
  /\ Delete(<<boss.kind, boss.n>>)
  /\ count' = [count EXCEPT ![boss.kind] = @ - 1]
  /\ boss' = Key

DeleteNext ==
  /\ boss.pc = "all" /\ boss.n < count[boss.kind]
  /\ Delete(<<boss.kind, boss.n>>)
  /\ boss' = [boss EXCEPT !.n = @ + 1]
  /\ UNCHANGED count

\* From the lower diggers to the upper ones.
NextKind ==
  /\ boss.pc = "all" /\ boss.kind = "lower" /\ boss.n = count["lower"]
  /\ boss' = [boss EXCEPT !.kind = "upper", !.n = 0]
  /\ UNCHANGED <<pc, shovels, heap, count, dug, fired>>

AllLeft ==
  /\ boss.pc = "all" /\ boss.kind = "upper" /\ boss.n = count["upper"]
  /\ count' = [lower |-> 0, upper |-> 0]
  /\ boss' = Key
  /\ UNCHANGED <<pc, shovels, heap, dug, fired>>

Boss == \/ \E kind \in {"lower", "upper"} : Hire(kind) \/ Leave(kind)
        \/ LeaveAll \/ DeleteLast \/ DeleteNext \/ NextKind \/ AllLeft

-----------------------------------------------------------------------------
Next == \/ Boss
        \/ \E d \in Lowers : Lower(d)
        \/ \E d \in Uppers : Upper(d)

Spec == Init /\ [][Next]_vars

\* Every digger's task runs on, and so its work and its rest end.
FairSpec == /\ Spec
            /\ \A d \in Lowers : WF_vars(Lower(d))
            /\ \A d \in Uppers : WF_vars(Upper(d))

-----------------------------------------------------------------------------
(* Properties                                                              *)

Pcs == {"none", "rest", "waitSoil", "gotSoil", "waitShovel", "work", "threw",
        "timedOut"}

Semaphores == [count : Nat, queue : Seq(Diggers)]

TypeOK ==
  /\ pc \in [Diggers -> Pcs]
  /\ shovels \in Semaphores /\ heap \in Semaphores
  /\ count \in [{"lower", "upper"} -> Nat]
  /\ boss \in [pc : {"key", "leave", "all"}, kind : {"lower", "upper"}, n : Nat]
  /\ dug \in Nat /\ fired \in Nat

In(state) == {d \in Diggers : pc[d] \in state}

(***************************************************************************)
(* No shovel is lost or forged, whoever is deleted when, and a digger      *)
(* waits for one only when there is none: a shovel is free, or in the      *)
(* hands of a digger who works.                                            *)
(***************************************************************************)
ShovelsConserved ==
  /\ shovels.count + Cardinality(In({"work", "threw"})) = SHOVELS
  /\ shovels.queue # << >> => shovels.count = 0

(***************************************************************************)
(* Soil is never forged: what is dug and not taken away is on the heap or  *)
(* in the hands of an upper digger, except what was in the hands of those  *)
(* who were deleted between semTake and taskSafe (task2.c:42-43), at most  *)
(* once for each of them.                                                  *)
(***************************************************************************)
SoilAccounted ==
  LET inHand == In({"gotSoil", "timedOut"})
                  \cup {d \in Uppers : pc[d] \in {"waitShovel", "work"}}
  IN  dug - (heap.count + Cardinality(inHand)) \in 0..fired

(***************************************************************************)
(* The semaphore's queues hold the diggers that wait in them and no other: *)
(* a shovel is never handed to a digger that timed out or is gone, so no   *)
(* semGive is wasted.                                                      *)
(***************************************************************************)
QueuesAreWaiters ==
  /\ ToSet(shovels.queue) = In({"waitShovel"})
  /\ ToSet(heap.queue) = In({"waitSoil"})

(***************************************************************************)
(* A lower digger who waits for a shovel gets one, however many upper      *)
(* diggers come for it, time out and come again: the queue is FIFO, and    *)
(* nobody deletes a digger that waits there.                               *)
(***************************************************************************)
LowerGetsShovel ==
  \A d \in Lowers : pc[d] = "waitShovel" ~> pc[d] = "work"
=============================================================================
