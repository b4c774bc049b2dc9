---------------------------- MODULE DiggersProofs ---------------------------
(***************************************************************************)
(* Proofs about Diggers, for any number of shovels and of diggers.         *)
(***************************************************************************)
EXTENDS Diggers, SequenceTheorems, FiniteSetTheorems, TLAPS

\* The two kinds of digger.
Kinds == {"lower", "upper"}

-----------------------------------------------------------------------------
(* The semaphores                                                          *)

\* No digger is twice in a queue.
NoTwice(q) == \A i, j \in 1 .. Len(q) : q[i] = q[j] => i = j

LEMMA ToSetEmpty ==
  ASSUME NEW S, NEW q \in Seq(S)
  PROVE  ToSet(q) \subseteq S /\ (ToSet(q) = {} <=> q = << >>)
BY DEF ToSet

LEMMA SemTaken ==
  ASSUME NEW sem \in Semaphores, sem.count > 0
  PROVE  /\ Taken(sem) \in Semaphores
         /\ Taken(sem).count = sem.count - 1
         /\ Taken(sem).queue = sem.queue
BY DEF Semaphores, Taken

LEMMA SemQueued ==
  ASSUME NEW sem \in Semaphores, NEW d \in Diggers,
         d \notin ToSet(sem.queue), NoTwice(sem.queue)
  PROVE  /\ Queued(sem, d) \in Semaphores
         /\ Queued(sem, d).count = sem.count
         /\ Queued(sem, d).queue # << >>
         /\ ToSet(Queued(sem, d).queue) = ToSet(sem.queue) \cup {d}
         /\ NoTwice(Queued(sem, d).queue)
<1> DEFINE q == sem.queue
           r == Queued(sem, d).queue
<1>1. /\ q \in Seq(Diggers) /\ r = Append(q, d)
      /\ Queued(sem, d).count = sem.count
      /\ r \in Seq(Diggers) => Queued(sem, d) \in Semaphores
  BY DEF Semaphores, Queued
<1>2. Len(r) = Len(q) + 1 /\ r[Len(q) + 1] = d /\ r # << >>
  BY <1>1
<1>3. \A i \in 1 .. Len(q) : r[i] = q[i]
  BY <1>1
<1>4. DOMAIN q = 1 .. Len(q) /\ DOMAIN r = 1 .. (Len(q) + 1)
  BY <1>1, <1>2
<1>5. ToSet(r) = ToSet(q) \cup {d}
  BY <1>1, <1>2, <1>3, <1>4 DEF ToSet
<1>6. NoTwice(r)
  BY <1>1, <1>2, <1>3, <1>4 DEF NoTwice, ToSet
<1> QED
  BY <1>1, <1>2, <1>5, <1>6

LEMMA SemGiven ==
  ASSUME NEW sem \in Semaphores, NoTwice(sem.queue)
  PROVE  /\ Given(sem) \in Semaphores
         /\ sem.queue = << >> => /\ Given(sem).count = sem.count + 1
                                 /\ Given(sem).queue = << >>
         /\ sem.queue # << >> =>
              /\ Given(sem).count = sem.count
              /\ Head(sem.queue) \in ToSet(sem.queue)
              /\ ToSet(Given(sem).queue) = ToSet(sem.queue) \ {Head(sem.queue)}
         /\ NoTwice(Given(sem).queue)
<1>1. CASE sem.queue = << >>
  BY <1>1 DEF Semaphores, Given, NoTwice
<1>2. CASE sem.queue # << >>
  <2> DEFINE q == sem.queue
             r == Given(sem).queue
  <2>1. /\ q \in Seq(Diggers) /\ r = Tail(q)
        /\ Given(sem).count = sem.count /\ Given(sem) \in Semaphores
    BY <1>2 DEF Semaphores, Given
  <2>2. Len(q) \in Nat \ {0} /\ Len(r) = Len(q) - 1 /\ Head(q) = q[1]
    BY <1>2, <2>1
  <2>3. \A i \in 1 .. (Len(q) - 1) : r[i] = q[i + 1]
    BY <1>2, <2>1
  <2>4. DOMAIN q = 1 .. Len(q) /\ DOMAIN r = 1 .. (Len(q) - 1)
    BY <1>2, <2>1, <2>2
  <2>5. \A i \in 2 .. Len(q) : i - 1 \in 1 .. (Len(q) - 1) /\ q[i] = r[i - 1]
    BY <2>2, <2>3
  <2>6. ToSet(r) = ToSet(q) \ {Head(q)}
    <3>1. ToSet(r) \subseteq ToSet(q) \ {Head(q)}
      <4> SUFFICES ASSUME NEW i \in 1 .. (Len(q) - 1)
                   PROVE  r[i] \in ToSet(q) /\ r[i] # q[1]
        BY <2>2, <2>4 DEF ToSet
      <4>1. i + 1 \in 1 .. Len(q) /\ r[i] = q[i + 1] /\ i + 1 # 1
        BY <2>2, <2>3
      <4>2. 1 \in 1 .. Len(q)
        BY <2>2
      <4> QED
        BY <2>4, <4>1, <4>2 DEF ToSet, NoTwice
    <3>2. ASSUME NEW e \in ToSet(q), e # Head(q) PROVE e \in ToSet(r)
      <4>1. PICK i \in 1 .. Len(q) : q[i] = e
        BY <2>4 DEF ToSet
      <4>2. i \in 2 .. Len(q)
        BY <2>2, <3>2, <4>1
      <4> QED
        BY <2>4, <2>5, <4>1, <4>2 DEF ToSet
    <3> QED
      BY <3>1, <3>2
  <2>7. NoTwice(r)
    BY <2>2, <2>3 DEF NoTwice
  <2>8. Head(q) \in ToSet(q)
    BY <2>2, <2>4 DEF ToSet
  <2> QED
    BY <1>2, <2>1, <2>6, <2>7, <2>8
<1> QED
  BY <1>1, <1>2

LEMMA SemWithout ==
  ASSUME NEW sem \in Semaphores, NEW d \in Diggers, NoTwice(sem.queue)
  PROVE  /\ Without(sem, d) \in Semaphores
         /\ Without(sem, d).count = sem.count
         /\ ToSet(Without(sem, d).queue) = ToSet(sem.queue) \ {d}
         /\ NoTwice(Without(sem, d).queue)
<1> DEFINE q == sem.queue
           r == Without(sem, d).queue
<1>1. /\ q \in Seq(Diggers) /\ r = RemoveFirst(q, d)
      /\ Without(sem, d).count = sem.count
      /\ r \in Seq(Diggers) => Without(sem, d) \in Semaphores
  BY DEF Semaphores, Without
<1>2. Len(q) \in Nat /\ DOMAIN q = 1 .. Len(q)
  BY <1>1
<1>3. CASE ~ \E i \in 1 .. Len(q) : q[i] = d
  <2>1. r = q
    BY <1>1, <1>3 DEF RemoveFirst
  <2>2. d \notin ToSet(q)
    BY <1>2, <1>3 DEF ToSet
  <2> QED
    BY <1>1, <2>1, <2>2
<1>4. CASE \E i \in 1 .. Len(q) : q[i] = d
  <2>1. PICK k \in 1 .. Len(q) : q[k] = d
    BY <1>4
  <2> DEFINE I == {i \in 1 .. Len(q) : q[i] = d}
  <2>2. I = {k}
    BY <1>2, <2>1 DEF NoTwice
  <2>3. Min({k}) = k
    BY <1>2, <2>1 DEF Min
  <2>4. SelectInSeq(q, LAMBDA v : v = d) = k
    BY <2>2, <2>3 DEF SelectInSeq
  <2>5. r = SubSeq(q, 1, k - 1) \o SubSeq(q, k + 1, Len(q))
    BY <1>1, <1>4, <2>4 DEF RemoveFirst, RemoveAt
  <2> HIDE DEF I
  <2>6. /\ r \in Seq(Diggers) /\ Len(r) = Len(q) - 1
        /\ \A i \in 1 .. (k - 1) : r[i] = q[i]
        /\ \A i \in k .. (Len(q) - 1) : r[i] = q[i + 1]
    <3> DEFINE a == SubSeq(q, 1, k - 1)
               b == SubSeq(q, k + 1, Len(q))
    <3>1. /\ a \in Seq(Diggers) /\ Len(a) = k - 1
          /\ \A i \in 1 .. (k - 1) : a[i] = q[i]
      BY <1>1, <1>2, <2>1
    <3>2. /\ b \in Seq(Diggers) /\ Len(b) = Len(q) - k
          /\ \A i \in 1 .. (Len(q) - k) : b[i] = q[i + k]
      BY <1>1, <1>2, <2>1
    <3>3. r = a \o b
      BY <2>5
    <3> HIDE DEF a, b, q, r
    <3>4. /\ r \in Seq(Diggers) /\ Len(r) = Len(a) + Len(b)
          /\ \A i \in 1 .. Len(a) + Len(b) :
                r[i] = IF i <= Len(a) THEN a[i] ELSE b[i - Len(a)]
      BY ONLY <3>1, <3>2, <3>3, ConcatProperties
    <3>5. ASSUME NEW i \in k .. (Len(q) - 1) PROVE r[i] = q[i + 1]
      <4>1. /\ i \in 1 .. Len(a) + Len(b) /\ ~ (i <= Len(a))
            /\ i - Len(a) \in 1 .. (Len(q) - k)
            /\ i - Len(a) + k = i + 1
        BY <1>2, <2>1, <3>1, <3>2 DEF q
      <4> QED
        BY <3>2, <3>4, <4>1
    <3>6. ASSUME NEW i \in 1 .. (k - 1) PROVE r[i] = q[i]
      <4>1. i \in 1 .. Len(a) + Len(b) /\ i <= Len(a)
        BY <1>2, <2>1, <3>1, <3>2 DEF q
      <4> QED
        BY <3>1, <3>4, <4>1
    <3>7. Len(r) = Len(q) - 1
      BY <1>2, <2>1, <3>1, <3>2, <3>4 DEF q
    <3> QED
      BY <3>4, <3>5, <3>6, <3>7
  <2>7. DOMAIN r = 1 .. (Len(q) - 1)
    BY <2>6
  <2>8. \A i \in 1 .. (k - 1) : i \in 1 .. (Len(q) - 1) /\ q[i] = r[i]
    BY <1>2, <2>1, <2>6
  <2>9. \A i \in (k + 1) .. Len(q) :
           i - 1 \in 1 .. (Len(q) - 1) /\ q[i] = r[i - 1]
    BY <1>2, <2>1, <2>6
  <2>10. \A i \in 1 .. (Len(q) - 1) : \E j \in 1 .. Len(q) :
            j # k /\ j = (IF i < k THEN i ELSE i + 1) /\ r[i] = q[j]
    BY <1>2, <2>1, <2>6
  <2>11. ToSet(r) = ToSet(q) \ {d}
    <3>1. ToSet(r) \subseteq ToSet(q) \ {d}
      BY <1>2, <2>1, <2>7, <2>10 DEF ToSet, NoTwice
    <3>2. ASSUME NEW e \in ToSet(q), e # d PROVE e \in ToSet(r)
      <4>1. PICK i \in 1 .. Len(q) : q[i] = e
        BY <1>2 DEF ToSet
      <4>2. i < k \/ i > k
        BY <1>2, <2>1, <3>2, <4>1
      <4>3. CASE i < k
        <5>1. i \in 1 .. (k - 1)
          BY <1>2, <2>1, <4>3
        <5> QED
          BY <2>7, <2>8, <4>1, <5>1 DEF ToSet
      <4>4. CASE i > k
        <5>1. i \in (k + 1) .. Len(q)
          BY <1>2, <2>1, <4>4
        <5> QED
          BY <2>7, <2>9, <4>1, <5>1 DEF ToSet
      <4> QED
        BY <4>2, <4>3, <4>4
    <3> QED
      BY <3>1, <3>2
  <2>12. NoTwice(r)
    BY <1>2, <2>1, <2>6, <2>10 DEF NoTwice
  <2> QED
    BY <1>1, <2>6, <2>11, <2>12
<1> QED
  BY <1>3, <1>4

-----------------------------------------------------------------------------
(* The invariant                                                           *)

(***************************************************************************)
(* CreateTasks has been through d in command `E': the lower diggers first, *)
(* each kind from its first digger on.                                     *)
(***************************************************************************)
Passed(d) ==
  /\ boss.pc = "all"
  /\ \/ d[1] = boss.kind /\ d[2] < boss.n
     \/ d[1] = "lower" /\ boss.kind = "upper"

(***************************************************************************)
(* A digger that is not counted, or that command `E' has deleted, does not *)
(* run: the place create_lower and create_upper take next is free.         *)
(***************************************************************************)
AbsentInv ==
  \A d \in Diggers : count[d[1]] <= d[2] \/ Passed(d) => pc[d] = "none"

\* The ids CreateTasks deletes by are ids of diggers there are.
BossInv ==
  /\ count["lower"] <= MAX_NUM_OF_DIGGERS /\ count["upper"] <= MaxUpper
  /\ boss.pc = "leave" => boss.n = count[boss.kind] - 1
  /\ boss.pc = "all" => boss.n <= count[boss.kind]

\* A digger is where its own code has places.
RolesInv ==
  /\ \A d \in Lowers :
        pc[d] \in {"none", "rest", "waitShovel", "work", "threw"}
  /\ \A d \in Uppers : pc[d] # "threw"

QueuesInv ==
  /\ QueuesAreWaiters
  /\ NoTwice(shovels.queue) /\ NoTwice(heap.queue)

DiggersInv ==
  /\ TypeOK /\ BossInv /\ AbsentInv /\ RolesInv /\ QueuesInv
  /\ ShovelsConserved /\ SoilAccounted

-----------------------------------------------------------------------------
(***************************************************************************)
(* Every action of the specification, for proofs by cases.                 *)
(***************************************************************************)
LEMMA NextCases ==
  ASSUME [Next]_vars
  PROVE  \/ \E d \in Lowers : LowerStarts(d) \/ LowerThrows(d) \/ LowerStops(d)
         \/ \E d \in Uppers : \/ UpperTakesSoil(d) \/ UpperStarts(d)
                              \/ UpperTimesOut(d) \/ UpperGivesBack(d)
                              \/ UpperStops(d)
         \/ \E kind \in Kinds : Hire(kind) \/ Leave(kind)
         \/ LeaveAll \/ DeleteLast \/ DeleteNext \/ NextKind \/ AllLeft
         \/ UNCHANGED vars
BY DEF Next, Boss, Lower, Upper, Kinds

LEMMA DiggersFacts ==
  /\ \A d \in Lowers : d \in Diggers /\ d \notin Uppers /\ d[1] = "lower"
  /\ \A d \in Uppers : d \in Diggers /\ d \notin Lowers /\ d[1] = "upper"
  /\ \A d \in Diggers : d = <<d[1], d[2]>> /\ d[1] \in Kinds /\ d[2] \in Nat
  /\ \A n \in Nat : <<"lower", n>> \in Diggers <=> n < MAX_NUM_OF_DIGGERS
  /\ \A n \in Nat : <<"upper", n>> \in Diggers <=> n < MaxUpper
BY DiggersAssumption DEF Diggers, Lowers, Uppers, Kinds

\* The diggers CreateTasks deletes.
LEMMA Deleted ==
  ASSUME TypeOK, BossInv
  PROVE  /\ boss.pc = "leave" => <<boss.kind, boss.n>> \in Diggers
         /\ boss.pc = "all" /\ boss.n < count[boss.kind] =>
              <<boss.kind, boss.n>> \in Diggers
<1>1. /\ boss.kind \in {"lower", "upper"} /\ boss.n \in Nat
      /\ count[boss.kind] \in Nat
  BY DEF TypeOK
<1> QED
  BY <1>1, DiggersAssumption, DiggersFacts DEF BossInv

\* What a semTake of a shovel does to a digger that does not hold one.
LEMMA TakesShovel ==
  ASSUME TypeOK, QueuesInv, NEW d \in Diggers,
         pc[d] # "waitShovel", TakeShovel(d)
  PROVE  /\ shovels' \in Semaphores /\ NoTwice(shovels'.queue)
         /\ \/ /\ shovels.count > 0 /\ shovels'.count = shovels.count - 1
               /\ shovels'.queue = shovels.queue
               /\ pc' = [pc EXCEPT ![d] = "work"]
            \/ /\ shovels.count = 0 /\ shovels'.count = 0
               /\ ToSet(shovels'.queue) = ToSet(shovels.queue) \cup {d}
               /\ pc' = [pc EXCEPT ![d] = "waitShovel"]
<1>1. /\ d \notin ToSet(shovels.queue)
      /\ shovels \in Semaphores /\ shovels.count \in Nat
  BY DEF TypeOK, QueuesInv, QueuesAreWaiters, In, Semaphores
<1>2. CASE shovels.count > 0
  BY <1>1, <1>2, SemTaken DEF TakeShovel, QueuesInv
<1>3. CASE ~ (shovels.count > 0)
  BY <1>1, <1>3, SemQueued DEF TakeShovel, QueuesInv
<1> QED
  BY <1>2, <1>3

(***************************************************************************)
(* What a semGive of a shovel does: the digger at the head of the queue,   *)
(* if any, goes on with it.                                                *)
(***************************************************************************)
LEMMA GivesShovel ==
  ASSUME TypeOK, QueuesInv, NEW d \in Diggers,
         pc[d] # "waitShovel", GiveShovel(d)
  PROVE  /\ shovels' \in Semaphores /\ NoTwice(shovels'.queue)
         /\ \/ /\ shovels.queue = << >> /\ shovels'.queue = << >>
               /\ shovels'.count = shovels.count + 1
               /\ pc' = [pc EXCEPT ![d] = "rest"]
            \/ \E h \in Diggers :
                 /\ h # d /\ pc[h] = "waitShovel" /\ shovels.queue # << >>
                 /\ shovels'.count = shovels.count
                 /\ ToSet(shovels'.queue) = ToSet(shovels.queue) \ {h}
                 /\ pc' = [pc EXCEPT ![d] = "rest", ![h] = "work"]
<1>1. /\ shovels \in Semaphores /\ NoTwice(shovels.queue)
      /\ pc \in [Diggers -> Pcs] /\ shovels' = Given(shovels)
      /\ \A e \in ToSet(shovels.queue) : e \in Diggers /\ pc[e] = "waitShovel"
  BY DEF TypeOK, QueuesInv, QueuesAreWaiters, In, GiveShovel
<1>2. CASE shovels.queue = << >>
  BY <1>1, <1>2, SemGiven DEF GiveShovel, Handover
<1>3. CASE shovels.queue # << >>
  <2> DEFINE h == Head(shovels.queue)
  <2>1. h \in Diggers /\ pc[h] = "waitShovel" /\ h # d
    BY <1>1, <1>3, SemGiven
  <2>2. pc' = [pc EXCEPT ![d] = "rest", ![h] = "work"]
    BY <1>1, <1>3, <2>1 DEF GiveShovel, Handover
  <2> QED
    BY <1>1, <1>3, <2>1, <2>2, SemGiven
<1> QED
  BY <1>2, <1>3

\* What a semGive of soil does: likewise.
LEMMA GivesSoil ==
  ASSUME TypeOK, QueuesInv, NEW d \in Diggers, pc[d] # "waitSoil", NEW next,
         pc' = Handover(heap, "gotSoil", d, next), heap' = Given(heap)
  PROVE  /\ heap' \in Semaphores /\ NoTwice(heap'.queue)
         /\ \/ /\ heap.queue = << >> /\ heap'.queue = << >>
               /\ heap'.count = heap.count + 1
               /\ pc' = [pc EXCEPT ![d] = next]
            \/ \E h \in Diggers :
                 /\ h # d /\ pc[h] = "waitSoil" /\ heap'.count = heap.count
                 /\ ToSet(heap'.queue) = ToSet(heap.queue) \ {h}
                 /\ pc' = [pc EXCEPT ![d] = next, ![h] = "gotSoil"]
<1>1. /\ heap \in Semaphores /\ NoTwice(heap.queue)
      /\ pc \in [Diggers -> Pcs]
      /\ \A e \in ToSet(heap.queue) : e \in Diggers /\ pc[e] = "waitSoil"
  BY DEF TypeOK, QueuesInv, QueuesAreWaiters, In
<1>2. CASE heap.queue = << >>
  BY <1>1, <1>2, SemGiven DEF Handover
<1>3. CASE heap.queue # << >>
  <2> DEFINE h == Head(heap.queue)
  <2>1. h \in Diggers /\ pc[h] = "waitSoil" /\ h # d
    BY <1>1, <1>3, SemGiven
  <2>2. pc' = [pc EXCEPT ![d] = next, ![h] = "gotSoil"]
    BY <1>1, <1>3, <2>1 DEF Handover
  <2> QED
    BY <1>1, <1>3, <2>1, <2>2, SemGiven
<1> QED
  BY <1>2, <1>3

\* What a semTake of soil does.
LEMMA TakesSoil ==
  ASSUME TypeOK, QueuesInv, NEW d \in Diggers, UpperTakesSoil(d)
  PROVE  /\ heap' \in Semaphores /\ NoTwice(heap'.queue)
         /\ \/ /\ heap.count > 0 /\ heap'.count = heap.count - 1
               /\ heap'.queue = heap.queue
               /\ pc' = [pc EXCEPT ![d] = "gotSoil"]
            \/ /\ heap'.count = heap.count
               /\ ToSet(heap'.queue) = ToSet(heap.queue) \cup {d}
               /\ pc' = [pc EXCEPT ![d] = "waitSoil"]
<1>1. d \notin ToSet(heap.queue) /\ heap \in Semaphores /\ pc[d] = "rest"
  BY DEF TypeOK, QueuesInv, QueuesAreWaiters, In, UpperTakesSoil
<1>2. CASE heap.count > 0
  BY <1>1, <1>2, SemTaken DEF UpperTakesSoil, QueuesInv
<1>3. CASE ~ (heap.count > 0)
  BY <1>1, <1>3, SemQueued DEF UpperTakesSoil, QueuesInv
<1> QED
  BY <1>2, <1>3

\* What taskDelete does.
LEMMA Deletes ==
  ASSUME TypeOK, QueuesInv, NEW d \in Diggers, Delete(d)
  PROVE  /\ heap' \in Semaphores /\ NoTwice(heap'.queue)
         /\ heap'.count = heap.count
         /\ ToSet(heap'.queue) = ToSet(heap.queue) \ {d}
         /\ pc' = [pc EXCEPT ![d] = "none"]
         /\ pc[d] \in {"none", "rest", "waitSoil", "gotSoil"}
BY SemWithout DEF TypeOK, QueuesInv, Delete, MayDelete, Safe, Pcs

-----------------------------------------------------------------------------
(* Counting                                                                *)

LEMMA Counting ==
  ASSUME NEW S \in SUBSET Diggers
  PROVE  /\ Cardinality(S) \in Nat
         /\ \A d \in S : Cardinality(S \ {d}) = Cardinality(S) - 1
         /\ \A d \in Diggers \ S : Cardinality(S \cup {d}) = Cardinality(S) + 1
<1>1. IsFiniteSet({"lower"}) /\ IsFiniteSet({"upper"})
  BY FS_Singleton
<1>2. /\ IsFiniteSet(0 .. MAX_NUM_OF_DIGGERS - 1)
      /\ IsFiniteSet(0 .. MaxUpper - 1)
  BY FS_Interval, DiggersAssumption
<1>3. IsFiniteSet(Lowers) /\ IsFiniteSet(Uppers)
  BY <1>1, <1>2, FS_Product DEF Lowers, Uppers
<1>4. IsFiniteSet(Diggers)
  BY <1>3, FS_Union DEF Diggers
<1>5. IsFiniteSet(S)
  BY <1>4, FS_Subset
<1> QED
  BY <1>5, FS_CardinalityType, FS_AddElement, FS_RemoveElement

\* The diggers who hold a shovel, and those who hold soil.
Holders == In({"work", "threw"})

InHand == In({"gotSoil", "timedOut"})
            \cup {d \in Uppers : pc[d] \in {"waitShovel", "work"}}

LEMMA Accounts ==
  /\ ShovelsConserved <=>
       /\ shovels.count + Cardinality(Holders) = SHOVELS
       /\ shovels.queue # << >> => shovels.count = 0
  /\ SoilAccounted <=>
       dug - (heap.count + Cardinality(InHand)) \in 0 .. fired
  /\ Holders \in SUBSET Diggers /\ InHand \in SUBSET Diggers
BY DEF ShovelsConserved, SoilAccounted, Holders, InHand, In, Diggers

\* Who takes soil away has dug it up.
LEMMA DugPositive ==
  ASSUME TypeOK, SoilAccounted, NEW d \in Uppers, pc[d] = "work"
  PROVE  dug - 1 \in Nat
<1>1. d \in InHand /\ InHand \in SUBSET Diggers
  BY Accounts DEF InHand
<1>2. Cardinality(InHand) \in Nat /\ Cardinality(InHand \ {d}) \in Nat
      /\ Cardinality(InHand \ {d}) = Cardinality(InHand) - 1
  BY <1>1, Counting
<1>3. heap.count \in Nat /\ dug \in Nat /\ fired \in Nat
  BY DEF TypeOK, Semaphores
<1> QED
  BY <1>2, <1>3, Accounts

-----------------------------------------------------------------------------
(* Types                                                                   *)

LEMMA TypeInit == Init => TypeOK
BY DiggersAssumption DEF Init, TypeOK, Key, Pcs, Semaphores

LEMMA TypeNext ==
  TypeOK /\ BossInv /\ QueuesInv /\ SoilAccounted /\ [Next]_vars => TypeOK'
<1> SUFFICES ASSUME TypeOK, BossInv, QueuesInv, SoilAccounted, [Next]_vars
             PROVE  TypeOK'
  OBVIOUS
<1>1. ASSUME NEW d \in Lowers, LowerStarts(d) PROVE TypeOK'
  <2>1. d \in Diggers /\ pc[d] = "rest" /\ TakeShovel(d)
    BY <1>1, DiggersFacts DEF LowerStarts
  <2> QED
    BY <1>1, <2>1, DiggersFacts, TakesShovel DEF LowerStarts, TypeOK, Pcs, Key
<1>2. ASSUME NEW d \in Lowers, LowerThrows(d) PROVE TypeOK'
  <2>1. d \in Diggers /\ pc[d] = "work"
    BY <1>2, DiggersFacts DEF LowerThrows
  <2> QED
    BY <1>2, <2>1, DiggersFacts, GivesSoil DEF LowerThrows, TypeOK, Pcs, Key
<1>3. ASSUME NEW d \in Lowers, LowerStops(d) PROVE TypeOK'
  <2>1. d \in Diggers /\ pc[d] = "threw" /\ GiveShovel(d)
    BY <1>3, DiggersFacts DEF LowerStops
  <2> QED
    BY <1>3, <2>1, DiggersFacts, GivesShovel DEF LowerStops, TypeOK, Pcs, Key
<1>4. ASSUME NEW d \in Uppers, UpperTakesSoil(d) PROVE TypeOK'
  <2>1. d \in Diggers /\ pc[d] = "rest"
    BY <1>4, DiggersFacts DEF UpperTakesSoil
  <2> QED
    BY <1>4, <2>1, DiggersFacts, TakesSoil DEF UpperTakesSoil, TypeOK, Pcs, Key
<1>5. ASSUME NEW d \in Uppers, UpperStarts(d) PROVE TypeOK'
  <2>1. d \in Diggers /\ pc[d] = "gotSoil" /\ TakeShovel(d)
    BY <1>5, DiggersFacts DEF UpperStarts
  <2> QED
    BY <1>5, <2>1, DiggersFacts, TakesShovel DEF UpperStarts, TypeOK, Pcs, Key
<1>6. ASSUME NEW d \in Uppers, UpperTimesOut(d) PROVE TypeOK'
  <2>1. d \in Diggers /\ NoTwice(shovels.queue)
    BY DiggersFacts DEF QueuesInv
  <2>2. shovels' \in Semaphores
    BY <1>6, <2>1, SemWithout DEF UpperTimesOut, TypeOK
  <2> QED
    BY <1>6, <2>1, <2>2 DEF UpperTimesOut, TypeOK, Pcs
<1>7. ASSUME NEW d \in Uppers, UpperGivesBack(d) PROVE TypeOK'
  <2>1. d \in Diggers /\ pc[d] = "timedOut"
    BY <1>7, DiggersFacts DEF UpperGivesBack
  <2>2. heap' \in Semaphores /\ pc' \in [Diggers -> Pcs]
    BY <1>7, <2>1, GivesSoil DEF UpperGivesBack, TypeOK, Pcs
  <2> QED
    BY <1>7, <2>2 DEF UpperGivesBack, TypeOK
<1>8. ASSUME NEW d \in Uppers, UpperStops(d) PROVE TypeOK'
  <2>1. d \in Diggers /\ pc[d] = "work" /\ GiveShovel(d)
    BY <1>8, DiggersFacts DEF UpperStops
  <2> QED
    BY <1>8, <2>1, DiggersFacts, GivesShovel, DugPositive DEF UpperStops,
       TypeOK, Pcs, Key
<1>9. ASSUME NEW kind \in Kinds, Hire(kind) PROVE TypeOK'
  BY <1>9 DEF Hire, Kinds, Pcs, TypeOK
<1>10. ASSUME NEW kind \in Kinds, Leave(kind) PROVE TypeOK'
  BY <1>10 DEF Leave, Kinds, TypeOK
<1>11. CASE LeaveAll
  BY <1>11 DEF LeaveAll, TypeOK
<1>12. CASE DeleteLast
  <2>1. <<boss.kind, boss.n>> \in Diggers /\ Delete(<<boss.kind, boss.n>>)
    BY <1>12, Deleted DEF DeleteLast
  <2>2. count[boss.kind] - 1 \in Nat /\ boss.kind \in {"lower", "upper"}
    BY <1>12 DEF DeleteLast, BossInv, TypeOK
  <2>3. heap' \in Semaphores /\ pc' \in [Diggers -> Pcs]
    BY <2>1, Deletes DEF TypeOK, Pcs
  <2>4. shovels' = shovels /\ dug' = dug /\ fired' \in Nat
    BY <2>1 DEF Delete, TypeOK
  <2>5. count' \in [{"lower", "upper"} -> Nat] /\ boss' = Key
    BY <1>12, <2>2 DEF DeleteLast, TypeOK
  <2> QED
    BY <2>3, <2>4, <2>5 DEF TypeOK, Key
<1>13. CASE DeleteNext
  <2>1. <<boss.kind, boss.n>> \in Diggers /\ Delete(<<boss.kind, boss.n>>)
    BY <1>13, Deleted DEF DeleteNext
  <2>2. heap' \in Semaphores /\ pc' \in [Diggers -> Pcs]
    BY <2>1, Deletes DEF TypeOK, Pcs
  <2>3. shovels' = shovels /\ dug' = dug /\ fired' \in Nat
    BY <2>1 DEF Delete, TypeOK
  <2> QED
    BY <1>13, <2>2, <2>3 DEF DeleteNext, TypeOK
<1>14. CASE NextKind
  BY <1>14 DEF NextKind, TypeOK
<1>15. CASE AllLeft
  BY <1>15 DEF AllLeft, Key, TypeOK
<1>16. CASE UNCHANGED vars
  BY <1>16 DEF vars, TypeOK
<1> QED
  BY <1>1, <1>2, <1>3, <1>4, <1>5, <1>6, <1>7, <1>8, <1>9, <1>10, <1>11, <1>12,
     <1>13, <1>14, <1>15, <1>16, NextCases

-----------------------------------------------------------------------------
(* CreateTasks                                                             *)

LEMMA BossInit == Init => BossInv
BY DiggersAssumption DEF Init, BossInv, Key

LEMMA BossNext == TypeOK /\ BossInv /\ [Next]_vars => BossInv'
<1> SUFFICES ASSUME TypeOK, BossInv, [Next]_vars PROVE BossInv'
  OBVIOUS
<1> USE DiggersAssumption DEF BossInv
<1>1. ASSUME NEW d \in Lowers, LowerStarts(d) PROVE BossInv'
  BY <1>1 DEF LowerStarts, TakeShovel, TypeOK
<1>2. ASSUME NEW d \in Lowers, LowerThrows(d) PROVE BossInv'
  BY <1>2 DEF LowerThrows, TypeOK
<1>3. ASSUME NEW d \in Lowers, LowerStops(d) PROVE BossInv'
  BY <1>3 DEF LowerStops, GiveShovel, TypeOK
<1>4. ASSUME NEW d \in Uppers, UpperTakesSoil(d) PROVE BossInv'
  BY <1>4 DEF UpperTakesSoil, TypeOK
<1>5. ASSUME NEW d \in Uppers, UpperStarts(d) PROVE BossInv'
  BY <1>5 DEF UpperStarts, TakeShovel, TypeOK
<1>6. ASSUME NEW d \in Uppers, UpperTimesOut(d) PROVE BossInv'
  BY <1>6 DEF UpperTimesOut, TypeOK
<1>7. ASSUME NEW d \in Uppers, UpperGivesBack(d) PROVE BossInv'
  BY <1>7 DEF UpperGivesBack, TypeOK
<1>8. ASSUME NEW d \in Uppers, UpperStops(d) PROVE BossInv'
  BY <1>8 DEF UpperStops, GiveShovel, TypeOK
<1>9. ASSUME NEW kind \in Kinds, Hire(kind) PROVE BossInv'
  <2>1. count[kind] \in Nat /\ count["lower"] \in Nat /\ count["upper"] \in Nat
    BY <1>9 DEF TypeOK, Kinds
  <2>2. boss' = boss /\ boss.pc = "key"
    BY <1>9 DEF Hire
  <2>3. /\ count' = [count EXCEPT ![kind] = @ + 1]
        /\ <<kind, count[kind]>> \in Diggers
    BY <1>9 DEF Hire
  <2>4. kind = "lower" => count["lower"] < MAX_NUM_OF_DIGGERS
    BY <1>9 DEF Hire
  <2>5. kind = "upper" => count["upper"] < MaxUpper
    BY <2>1, <2>3, DiggersFacts
  <2> QED
    BY <2>1, <2>2, <2>3, <2>4, <2>5 DEF TypeOK, Kinds
<1>10. ASSUME NEW kind \in Kinds, Leave(kind) PROVE BossInv'
  BY <1>10 DEF Leave, Kinds, TypeOK
<1>11. CASE LeaveAll
  BY <1>11 DEF LeaveAll, TypeOK
<1>12. CASE DeleteLast
  <2>1. boss.kind \in {"lower", "upper"}
    BY DEF TypeOK
  <2>2. count' = [count EXCEPT ![boss.kind] = @ - 1] /\ boss' = Key
    BY <1>12 DEF DeleteLast
  <2> QED
    BY <2>1, <2>2 DEF TypeOK, Key
<1>13. CASE DeleteNext
  BY <1>13 DEF DeleteNext, Delete, TypeOK
<1>14. CASE NextKind
  BY <1>14 DEF NextKind, TypeOK
<1>15. CASE AllLeft
  BY <1>15 DEF AllLeft, Key, TypeOK
<1>16. CASE UNCHANGED vars
  BY <1>16 DEF vars, TypeOK
<1> QED
  BY <1>1, <1>2, <1>3, <1>4, <1>5, <1>6, <1>7, <1>8, <1>9, <1>10, <1>11, <1>12,
     <1>13, <1>14, <1>15, <1>16, NextCases

-----------------------------------------------------------------------------
(* The diggers that do not run, and what the others do                     *)

\* Whoever a digger's step sets going, or stops, is a digger that runs.
LEMMA DiggersRun ==
  ASSUME TypeOK, QueuesInv, NEW d \in Diggers, Lower(d) \/ Upper(d)
  PROVE  /\ boss' = boss /\ count' = count
         /\ \A e \in Diggers : pc[e] = "none" => pc'[e] = "none"
<1>1. CASE LowerStarts(d)
  BY <1>1, TakesShovel DEF LowerStarts, TypeOK
<1>2. CASE LowerThrows(d)
  BY <1>2, GivesSoil DEF LowerThrows, TypeOK
<1>3. CASE LowerStops(d)
  BY <1>3, GivesShovel DEF LowerStops, TypeOK
<1>4. CASE UpperTakesSoil(d)
  BY <1>4, TakesSoil DEF UpperTakesSoil, TypeOK
<1>5. CASE UpperStarts(d)
  BY <1>5, TakesShovel DEF UpperStarts, TypeOK
<1>6. CASE UpperTimesOut(d)
  BY <1>6 DEF UpperTimesOut, TypeOK
<1>7. CASE UpperGivesBack(d)
  BY <1>7, GivesSoil DEF UpperGivesBack, TypeOK
<1>8. CASE UpperStops(d)
  BY <1>8, GivesShovel DEF UpperStops, TypeOK
<1> QED
  BY <1>1, <1>2, <1>3, <1>4, <1>5, <1>6, <1>7, <1>8 DEF Lower, Upper

LEMMA AbsentInit == Init => AbsentInv
BY DiggersFacts DEF Init, AbsentInv, Passed, Key, Kinds

LEMMA AbsentNext ==
  TypeOK /\ BossInv /\ AbsentInv /\ QueuesInv /\ [Next]_vars => AbsentInv'
<1> SUFFICES ASSUME TypeOK, BossInv, AbsentInv, QueuesInv, [Next]_vars,
                    NEW d \in Diggers, count'[d[1]] <= d[2] \/ Passed(d)'
             PROVE  pc'[d] = "none"
  BY DEF AbsentInv
<1>1. /\ d = <<d[1], d[2]>> /\ d[1] \in Kinds /\ d[2] \in Nat
      /\ count[d[1]] \in Nat
      /\ boss.n \in Nat /\ boss.kind \in Kinds /\ count[boss.kind] \in Nat
  BY DiggersFacts DEF TypeOK, Kinds
<1>2. count[d[1]] <= d[2] \/ Passed(d) => pc[d] = "none"
  BY DEF AbsentInv
<1>3. CASE \E e \in Diggers : Lower(e) \/ Upper(e)
  BY <1>2, <1>3, DiggersRun DEF Passed
<1>4. ASSUME NEW kind \in Kinds, Hire(kind) PROVE pc'[d] = "none"
  <2>1. ~ Passed(d)' /\ count' = [count EXCEPT ![kind] = @ + 1]
    BY <1>4 DEF Hire, Passed
  <2>2. count[d[1]] <= d[2] /\ d # <<kind, count[kind]>>
    BY <1>1, <2>1 DEF TypeOK, Kinds
  <2> QED
    BY <1>2, <1>4, <2>2 DEF Hire, TypeOK
<1>5. ASSUME NEW kind \in Kinds, Leave(kind) PROVE pc'[d] = "none"
  BY <1>2, <1>5 DEF Leave, Passed
<1>6. CASE LeaveAll
  BY <1>1, <1>2, <1>6 DEF LeaveAll, Passed, TypeOK
<1>7. CASE DeleteLast
  <2>1. <<boss.kind, boss.n>> \in Diggers /\ Delete(<<boss.kind, boss.n>>)
    BY <1>7, Deleted DEF DeleteLast
  <2>2. pc' = [pc EXCEPT ![<<boss.kind, boss.n>>] = "none"]
    BY <2>1, Deletes
  <2>3. /\ count' = [count EXCEPT ![boss.kind] = @ - 1] /\ boss' = Key
        /\ boss.n = count[boss.kind] - 1
    BY <1>7 DEF DeleteLast, BossInv
  <2>4. ~ Passed(d)' /\ count'[d[1]] <= d[2]
    BY <2>3 DEF Passed, Key
  <2>5. d # <<boss.kind, boss.n>> => count[d[1]] <= d[2]
    <3>1. CASE d[1] = boss.kind
      <4>1. d[2] # boss.n => boss.n + 1 <= d[2]
        BY <1>1, <2>3, <2>4, <3>1 DEF TypeOK, Kinds
      <4> QED
        BY <1>1, <2>3, <3>1, <4>1
    <3>2. CASE d[1] # boss.kind
      BY <1>1, <2>3, <2>4, <3>2 DEF TypeOK, Kinds
    <3> QED
      BY <3>1, <3>2
  <2> QED
    BY <1>2, <2>2, <2>5 DEF TypeOK
<1>8. CASE DeleteNext
  <2>1. <<boss.kind, boss.n>> \in Diggers /\ Delete(<<boss.kind, boss.n>>)
    BY <1>8, Deleted DEF DeleteNext
  <2>2. pc' = [pc EXCEPT ![<<boss.kind, boss.n>>] = "none"]
    BY <2>1, Deletes
  <2>3. /\ boss.pc = "all" /\ boss' = [boss EXCEPT !.n = @ + 1]
        /\ count' = count
    BY <1>8 DEF DeleteNext
  <2>4. boss'.pc = boss.pc /\ boss'.kind = boss.kind /\ boss'.n = boss.n + 1
    BY <2>3 DEF TypeOK
  <2>5. d # <<boss.kind, boss.n>> => count[d[1]] <= d[2] \/ Passed(d)
    BY <1>1, <2>3, <2>4 DEF Passed
  <2> QED
    BY <1>2, <2>2, <2>5 DEF TypeOK
<1>9. CASE NextKind
  <2>1. /\ boss.pc = "all" /\ boss.kind = "lower" /\ boss.n = count["lower"]
        /\ boss'.kind = "upper" /\ boss'.n = 0
        /\ count' = count /\ pc' = pc
    BY <1>9 DEF NextKind, TypeOK
  <2> QED
    BY <1>1, <1>2, <2>1 DEF Passed, Kinds
<1>10. CASE AllLeft
  <2>1. /\ boss.pc = "all" /\ boss.kind = "upper" /\ boss.n = count["upper"]
        /\ pc' = pc
    BY <1>10 DEF AllLeft
  <2> QED
    BY <1>1, <1>2, <2>1 DEF Passed, Kinds
<1>11. CASE UNCHANGED vars
  BY <1>2, <1>11 DEF vars, Passed
<1> QED
  BY <1>3, <1>4, <1>5, <1>6, <1>7, <1>8, <1>9, <1>10, <1>11, NextCases,
     DiggersFacts
     DEF Lower, Upper

-----------------------------------------------------------------------------
(* Roles                                                                   *)

LEMMA RolesInit == Init => RolesInv
BY DiggersFacts DEF Init, RolesInv

LEMMA RolesNext ==
  TypeOK /\ BossInv /\ RolesInv /\ QueuesInv /\ [Next]_vars => RolesInv'
<1> SUFFICES ASSUME TypeOK, BossInv, RolesInv, QueuesInv, [Next]_vars
             PROVE  RolesInv'
  OBVIOUS
<1>0. pc \in [Diggers -> Pcs]
  BY DEF TypeOK
<1> USE DEF RolesInv
<1>1. ASSUME NEW d \in Lowers, LowerStarts(d) PROVE RolesInv'
  <2>1. d \in Diggers /\ pc[d] = "rest" /\ TakeShovel(d)
    BY <1>1, DiggersFacts DEF LowerStarts
  <2> QED
    BY <1>1, <1>0, <2>1, DiggersFacts, TakesShovel DEF LowerStarts
<1>2. ASSUME NEW d \in Lowers, LowerThrows(d) PROVE RolesInv'
  <2>1. d \in Diggers /\ pc[d] = "work"
    BY <1>2, DiggersFacts DEF LowerThrows
  <2> QED
    BY <1>2, <1>0, <2>1, DiggersFacts, GivesSoil DEF LowerThrows
<1>3. ASSUME NEW d \in Lowers, LowerStops(d) PROVE RolesInv'
  <2>1. d \in Diggers /\ pc[d] = "threw" /\ GiveShovel(d)
    BY <1>3, DiggersFacts DEF LowerStops
  <2> QED
    BY <1>3, <1>0, <2>1, DiggersFacts, GivesShovel DEF LowerStops
<1>4. ASSUME NEW d \in Uppers, UpperTakesSoil(d) PROVE RolesInv'
  BY <1>4, <1>0, DiggersFacts DEF UpperTakesSoil
<1>5. ASSUME NEW d \in Uppers, UpperStarts(d) PROVE RolesInv'
  <2>1. d \in Diggers /\ pc[d] = "gotSoil" /\ TakeShovel(d)
    BY <1>5, DiggersFacts DEF UpperStarts
  <2> QED
    BY <1>5, <1>0, <2>1, DiggersFacts, TakesShovel DEF UpperStarts
<1>6. ASSUME NEW d \in Uppers, UpperTimesOut(d) PROVE RolesInv'
  BY <1>6, <1>0, DiggersFacts DEF UpperTimesOut
<1>7. ASSUME NEW d \in Uppers, UpperGivesBack(d) PROVE RolesInv'
  <2>1. d \in Diggers /\ pc[d] = "timedOut"
    BY <1>7, DiggersFacts DEF UpperGivesBack
  <2> QED
    BY <1>7, <1>0, <2>1, DiggersFacts, GivesSoil DEF UpperGivesBack
<1>8. ASSUME NEW d \in Uppers, UpperStops(d) PROVE RolesInv'
  <2>1. d \in Diggers /\ pc[d] = "work" /\ GiveShovel(d)
    BY <1>8, DiggersFacts DEF UpperStops
  <2> QED
    BY <1>8, <1>0, <2>1, DiggersFacts, GivesShovel DEF UpperStops
<1>9. ASSUME NEW kind \in Kinds, Hire(kind) PROVE RolesInv'
  BY <1>9, <1>0, DiggersFacts DEF Hire
<1>10. ASSUME NEW kind \in Kinds, Leave(kind) PROVE RolesInv'
  BY <1>10 DEF Leave
<1>11. CASE LeaveAll
  BY <1>11 DEF LeaveAll
<1>12. CASE DeleteLast
  <2>1. <<boss.kind, boss.n>> \in Diggers /\ Delete(<<boss.kind, boss.n>>)
    BY <1>12, Deleted DEF DeleteLast
  <2> QED
    BY <1>12, <1>0, <2>1, Deletes DEF DeleteLast, Delete
<1>13. CASE DeleteNext
  <2>1. <<boss.kind, boss.n>> \in Diggers /\ Delete(<<boss.kind, boss.n>>)
    BY <1>13, Deleted DEF DeleteNext
  <2> QED
    BY <1>13, <1>0, <2>1, Deletes DEF DeleteNext, Delete
<1>14. CASE NextKind
  BY <1>14 DEF NextKind
<1>15. CASE AllLeft
  BY <1>15 DEF AllLeft
<1>16. CASE UNCHANGED vars
  BY <1>16 DEF vars
<1> QED
  BY <1>1, <1>2, <1>3, <1>4, <1>5, <1>6, <1>7, <1>8, <1>9, <1>10, <1>11, <1>12,
     <1>13, <1>14, <1>15, <1>16, NextCases

-----------------------------------------------------------------------------
(* The queues                                                              *)

LEMMA QueuesInit == Init => QueuesInv
BY DEF Init, QueuesInv, QueuesAreWaiters, NoTwice, ToSet, In

LEMMA QueuesNext ==
  TypeOK /\ BossInv /\ AbsentInv /\ QueuesInv /\ [Next]_vars => QueuesInv'
<1> SUFFICES ASSUME TypeOK, BossInv, AbsentInv, QueuesInv, [Next]_vars
             PROVE  QueuesInv'
  OBVIOUS
<1>0. /\ pc \in [Diggers -> Pcs]
      /\ NoTwice(shovels.queue) /\ NoTwice(heap.queue)
      /\ ToSet(shovels.queue) = {d \in Diggers : pc[d] = "waitShovel"}
      /\ ToSet(heap.queue) = {d \in Diggers : pc[d] = "waitSoil"}
  BY DEF TypeOK, QueuesInv, QueuesAreWaiters, In
<1> DEFINE Goal ==
      /\ NoTwice(shovels'.queue) /\ NoTwice(heap'.queue)
      /\ ToSet(shovels'.queue) = {d \in Diggers : pc'[d] = "waitShovel"}
      /\ ToSet(heap'.queue) = {d \in Diggers : pc'[d] = "waitSoil"}
<1> SUFFICES Goal
  BY DEF QueuesInv, QueuesAreWaiters, NoTwice, In
<1>1. ASSUME NEW d \in Lowers, LowerStarts(d) PROVE Goal
  <2>1. d \in Diggers /\ pc[d] = "rest" /\ TakeShovel(d) /\ heap' = heap
    BY <1>0, <1>1, DiggersFacts DEF LowerStarts
  <2>2. ToSet(shovels.queue) = {} <=> shovels.queue = << >>
    BY ToSetEmpty DEF TypeOK, Semaphores
  <2>3. NoTwice(shovels'.queue) /\ NoTwice(heap'.queue)
    BY <1>0, <2>1, TakesShovel
  <2>4. ToSet(shovels'.queue) = {e \in Diggers : pc'[e] = "waitShovel"}
    BY <1>0, <2>1, <2>2, TakesShovel
  <2>5. ToSet(heap'.queue) = {e \in Diggers : pc'[e] = "waitSoil"}
    BY <1>0, <2>1, <2>2, TakesShovel
  <2> QED
    BY <2>3, <2>4, <2>5
<1>2. ASSUME NEW d \in Lowers, LowerThrows(d) PROVE Goal
  <2>1. /\ d \in Diggers /\ pc[d] = "work" /\ shovels' = shovels
        /\ heap' = Given(heap) /\ pc' = Handover(heap, "gotSoil", d, "threw")
    BY <1>0, <1>2, DiggersFacts DEF LowerThrows
  <2>2. ToSet(heap.queue) = {} <=> heap.queue = << >>
    BY ToSetEmpty DEF TypeOK, Semaphores
  <2>3. NoTwice(shovels'.queue) /\ NoTwice(heap'.queue)
    BY <1>0, <2>1, GivesSoil
  <2>4. ToSet(shovels'.queue) = {e \in Diggers : pc'[e] = "waitShovel"}
    BY <1>0, <2>1, <2>2, GivesSoil
  <2>5. ToSet(heap'.queue) = {e \in Diggers : pc'[e] = "waitSoil"}
    BY <1>0, <2>1, <2>2, GivesSoil
  <2> QED
    BY <2>3, <2>4, <2>5
<1>3. ASSUME NEW d \in Lowers, LowerStops(d) PROVE Goal
  <2>1. d \in Diggers /\ pc[d] = "threw" /\ GiveShovel(d) /\ heap' = heap
    BY <1>0, <1>3, DiggersFacts DEF LowerStops
  <2>2. ToSet(shovels.queue) = {} <=> shovels.queue = << >>
    BY ToSetEmpty DEF TypeOK, Semaphores
  <2>3. NoTwice(shovels'.queue) /\ NoTwice(heap'.queue)
    BY <1>0, <2>1, GivesShovel
  <2>4. ToSet(shovels'.queue) = {e \in Diggers : pc'[e] = "waitShovel"}
    BY <1>0, <2>1, <2>2, GivesShovel
  <2>5. ToSet(heap'.queue) = {e \in Diggers : pc'[e] = "waitSoil"}
    BY <1>0, <2>1, <2>2, GivesShovel
  <2> QED
    BY <2>3, <2>4, <2>5
<1>4. ASSUME NEW d \in Uppers, UpperTakesSoil(d) PROVE Goal
  <2>1. /\ d \in Diggers /\ pc[d] = "rest"
        /\ shovels' = shovels /\ UpperTakesSoil(d)
    BY <1>0, <1>4, DiggersFacts DEF UpperTakesSoil
  <2>2. ToSet(heap.queue) = {} <=> heap.queue = << >>
    BY ToSetEmpty DEF TypeOK, Semaphores
  <2>3. NoTwice(shovels'.queue) /\ NoTwice(heap'.queue)
    BY <1>0, <2>1, TakesSoil
  <2>4. ToSet(shovels'.queue) = {e \in Diggers : pc'[e] = "waitShovel"}
    BY <1>0, <2>1, <2>2, TakesSoil
  <2>5. ToSet(heap'.queue) = {e \in Diggers : pc'[e] = "waitSoil"}
    BY <1>0, <2>1, <2>2, TakesSoil
  <2> QED
    BY <2>3, <2>4, <2>5
<1>5. ASSUME NEW d \in Uppers, UpperStarts(d) PROVE Goal
  <2>1. d \in Diggers /\ pc[d] = "gotSoil" /\ TakeShovel(d) /\ heap' = heap
    BY <1>0, <1>5, DiggersFacts DEF UpperStarts
  <2>2. ToSet(shovels.queue) = {} <=> shovels.queue = << >>
    BY ToSetEmpty DEF TypeOK, Semaphores
  <2>3. NoTwice(shovels'.queue) /\ NoTwice(heap'.queue)
    BY <1>0, <2>1, TakesShovel
  <2>4. ToSet(shovels'.queue) = {e \in Diggers : pc'[e] = "waitShovel"}
    BY <1>0, <2>1, <2>2, TakesShovel
  <2>5. ToSet(heap'.queue) = {e \in Diggers : pc'[e] = "waitSoil"}
    BY <1>0, <2>1, <2>2, TakesShovel
  <2> QED
    BY <2>3, <2>4, <2>5
<1>6. ASSUME NEW d \in Uppers, UpperTimesOut(d) PROVE Goal
  <2>1. d \in Diggers /\ shovels \in Semaphores /\ heap' = heap
    BY <1>0, <1>6, DiggersFacts DEF UpperTimesOut, TypeOK
  <2>2. /\ ToSet(shovels'.queue) = ToSet(shovels.queue) \ {d}
        /\ NoTwice(shovels'.queue)
        /\ pc' = [pc EXCEPT ![d] = "timedOut"]
    BY <1>0, <1>6, <2>1, SemWithout DEF UpperTimesOut
  <2>3. ToSet(shovels'.queue) = {e \in Diggers : pc'[e] = "waitShovel"}
    BY <1>0, <2>1, <2>2
  <2>4. ToSet(heap'.queue) = {e \in Diggers : pc'[e] = "waitSoil"}
    BY <1>0, <1>6, <2>1, <2>2 DEF UpperTimesOut
  <2> QED
    BY <1>0, <2>1, <2>2, <2>3, <2>4
<1>7. ASSUME NEW d \in Uppers, UpperGivesBack(d) PROVE Goal
  <2>1. /\ d \in Diggers /\ pc[d] = "timedOut" /\ shovels' = shovels
        /\ heap' = Given(heap) /\ pc' = Handover(heap, "gotSoil", d, "rest")
    BY <1>0, <1>7, DiggersFacts DEF UpperGivesBack
  <2>2. ToSet(heap.queue) = {} <=> heap.queue = << >>
    BY ToSetEmpty DEF TypeOK, Semaphores
  <2>3. NoTwice(shovels'.queue) /\ NoTwice(heap'.queue)
    BY <1>0, <2>1, GivesSoil
  <2>4. ToSet(shovels'.queue) = {e \in Diggers : pc'[e] = "waitShovel"}
    BY <1>0, <2>1, <2>2, GivesSoil
  <2>5. ToSet(heap'.queue) = {e \in Diggers : pc'[e] = "waitSoil"}
    BY <1>0, <2>1, <2>2, GivesSoil
  <2> QED
    BY <2>3, <2>4, <2>5
<1>8. ASSUME NEW d \in Uppers, UpperStops(d) PROVE Goal
  <2>1. d \in Diggers /\ pc[d] = "work" /\ GiveShovel(d) /\ heap' = heap
    BY <1>0, <1>8, DiggersFacts DEF UpperStops
  <2>2. ToSet(shovels.queue) = {} <=> shovels.queue = << >>
    BY ToSetEmpty DEF TypeOK, Semaphores
  <2>3. NoTwice(shovels'.queue) /\ NoTwice(heap'.queue)
    BY <1>0, <2>1, GivesShovel
  <2>4. ToSet(shovels'.queue) = {e \in Diggers : pc'[e] = "waitShovel"}
    BY <1>0, <2>1, <2>2, GivesShovel
  <2>5. ToSet(heap'.queue) = {e \in Diggers : pc'[e] = "waitSoil"}
    BY <1>0, <2>1, <2>2, GivesShovel
  <2> QED
    BY <2>3, <2>4, <2>5
<1>9. ASSUME NEW kind \in Kinds, Hire(kind) PROVE Goal
  <2>1. /\ <<kind, count[kind]>> \in Diggers
        /\ pc' = [pc EXCEPT ![<<kind, count[kind]>>] = "rest"]
        /\ shovels' = shovels /\ heap' = heap
    BY <1>0, <1>9 DEF Hire
  <2>2. pc[<<kind, count[kind]>>] = "none"
    BY <2>1 DEF AbsentInv, TypeOK, Kinds
  <2>3. ToSet(shovels.queue) = {e \in Diggers : pc'[e] = "waitShovel"}
    BY <1>0, <2>1, <2>2
  <2>4. ToSet(heap.queue) = {e \in Diggers : pc'[e] = "waitSoil"}
    BY <1>0, <2>1, <2>2
  <2> QED
    BY <1>0, <2>1, <2>3, <2>4
<1>10. ASSUME NEW kind \in Kinds, Leave(kind) PROVE Goal
  BY <1>0, <1>10 DEF Leave
<1>11. CASE LeaveAll
  BY <1>0, <1>11 DEF LeaveAll
<1>12. CASE DeleteLast
  <2>1. <<boss.kind, boss.n>> \in Diggers /\ Delete(<<boss.kind, boss.n>>)
    BY <1>0, <1>12, Deleted DEF DeleteLast
  <2>2. shovels' = shovels
    BY <2>1 DEF Delete
  <2> QED
    BY <1>0, <2>1, <2>2, Deletes
<1>13. CASE DeleteNext
  <2>1. <<boss.kind, boss.n>> \in Diggers /\ Delete(<<boss.kind, boss.n>>)
    BY <1>0, <1>13, Deleted DEF DeleteNext
  <2>2. shovels' = shovels
    BY <2>1 DEF Delete
  <2> QED
    BY <1>0, <2>1, <2>2, Deletes
<1>14. CASE NextKind
  BY <1>0, <1>14 DEF NextKind
<1>15. CASE AllLeft
  BY <1>0, <1>15 DEF AllLeft
<1>16. CASE UNCHANGED vars
  BY <1>0, <1>16 DEF vars
<1> QED
  BY <1>0, <1>1, <1>2, <1>3, <1>4, <1>5, <1>6, <1>7, <1>8, <1>9, <1>10, <1>11,
     <1>12, <1>13, <1>14, <1>15, <1>16, NextCases

-----------------------------------------------------------------------------
(* The shovels                                                             *)

LEMMA ShovelsInit == Init => ShovelsConserved
<1> SUFFICES ASSUME Init PROVE ShovelsConserved
  OBVIOUS
<1>1. Holders = {}
  BY DEF Init, Holders, In
<1> QED
  BY <1>1, FS_EmptySet, Accounts, DiggersAssumption DEF Init

\* The facts the proofs about shovels start from.
LEMMA ShovelFacts ==
  ASSUME TypeOK, QueuesInv, ShovelsConserved
  PROVE  /\ pc \in [Diggers -> Pcs] /\ shovels.count \in Nat
         /\ Holders = {e \in Diggers : pc[e] \in {"work", "threw"}}
         /\ Cardinality(Holders) \in Nat /\ SHOVELS \in Nat
         /\ shovels.count + Cardinality(Holders) = SHOVELS
         /\ shovels.queue # << >> => shovels.count = 0
BY Accounts, Counting, DiggersAssumption DEF TypeOK, Semaphores, Holders, In

\* What it takes for the shovels to be conserved in the next state.
LEMMA ShovelsPrime ==
  ASSUME NEW H, H = {e \in Diggers : pc'[e] \in {"work", "threw"}},
         shovels'.count + Cardinality(H) = SHOVELS,
         shovels'.queue # << >> => shovels'.count = 0
  PROVE  ShovelsConserved'
BY DEF ShovelsConserved, In

\* Who neither takes a shovel nor gives one back changes nothing.
LEMMA ShovelsSame ==
  ASSUME TypeOK, QueuesInv, ShovelsConserved, shovels' = shovels,
         \A e \in Diggers : \/ pc'[e] = pc[e]
                            \/ /\ pc[e] \in {"work", "threw"}
                               /\ pc'[e] \in {"work", "threw"}
                            \/ /\ pc[e] \notin {"work", "threw"}
                               /\ pc'[e] \notin {"work", "threw"}
  PROVE  ShovelsConserved'
<1>1. Holders = {e \in Diggers : pc'[e] \in {"work", "threw"}}
  BY ShovelFacts
<1> QED
  BY <1>1, ShovelFacts, ShovelsPrime

LEMMA ShovelTaken ==
  ASSUME TypeOK, QueuesInv, ShovelsConserved,
         NEW d \in Diggers, pc[d] \in {"rest", "gotSoil"}, TakeShovel(d)
  PROVE  ShovelsConserved'
<1> DEFINE H == {e \in Diggers : pc'[e] \in {"work", "threw"}}
<1>1. CASE /\ shovels.count > 0 /\ shovels'.count = shovels.count - 1
           /\ shovels'.queue = shovels.queue
           /\ pc' = [pc EXCEPT ![d] = "work"]
  <2>1. H = Holders \cup {d} /\ d \in Diggers \ Holders
    BY <1>1, ShovelFacts
  <2>2. Cardinality(H) = Cardinality(Holders) + 1
    BY <2>1, Counting, Accounts
  <2> QED
    BY <1>1, <2>2, ShovelFacts, ShovelsPrime
<1>2. CASE /\ shovels.count = 0 /\ shovels'.count = 0
           /\ pc' = [pc EXCEPT ![d] = "waitShovel"]
  <2>1. H = Holders
    BY <1>2, ShovelFacts
  <2> QED
    BY <1>2, <2>1, ShovelFacts, ShovelsPrime
<1> QED
  BY <1>1, <1>2, TakesShovel

LEMMA ShovelGiven ==
  ASSUME TypeOK, QueuesInv, ShovelsConserved,
         NEW d \in Diggers, pc[d] \in {"work", "threw"}, GiveShovel(d)
  PROVE  ShovelsConserved'
<1> DEFINE H == {e \in Diggers : pc'[e] \in {"work", "threw"}}
<1>0. d \in Holders /\ Cardinality(Holders \ {d}) = Cardinality(Holders) - 1
  BY ShovelFacts, Counting, Accounts
<1>1. CASE /\ shovels.queue = << >> /\ shovels'.queue = << >>
           /\ shovels'.count = shovels.count + 1
           /\ pc' = [pc EXCEPT ![d] = "rest"]
  <2>1. H = Holders \ {d}
    BY <1>1, ShovelFacts
  <2> QED
    BY <1>0, <1>1, <2>1, ShovelFacts, ShovelsPrime
<1>2. ASSUME NEW h \in Diggers, h # d, pc[h] = "waitShovel",
             shovels.queue # << >>, shovels'.count = shovels.count,
             pc' = [pc EXCEPT ![d] = "rest", ![h] = "work"]
      PROVE  ShovelsConserved'
  <2>1. H = (Holders \ {d}) \cup {h} /\ h \in Diggers \ (Holders \ {d})
    BY <1>2, ShovelFacts
  <2>2. Cardinality(H) = Cardinality(Holders \ {d}) + 1
    BY <2>1, Counting, Accounts
  <2> QED
    BY <1>0, <1>2, <2>2, ShovelFacts, ShovelsPrime
<1> QED
  BY <1>1, <1>2, GivesShovel

LEMMA ShovelsNext ==
  TypeOK /\ BossInv /\ AbsentInv /\ QueuesInv /\ ShovelsConserved
    /\ [Next]_vars => ShovelsConserved'
<1> SUFFICES ASSUME TypeOK, BossInv, AbsentInv, QueuesInv, ShovelsConserved,
                    [Next]_vars
             PROVE  ShovelsConserved'
  OBVIOUS
<1>0. pc \in [Diggers -> Pcs]
  BY DEF TypeOK
<1>1. ASSUME NEW d \in Lowers, LowerStarts(d) PROVE ShovelsConserved'
  BY <1>1, DiggersFacts, ShovelTaken DEF LowerStarts
<1>2. ASSUME NEW d \in Lowers, LowerThrows(d) PROVE ShovelsConserved'
  <2>1. /\ d \in Diggers /\ pc[d] = "work" /\ shovels' = shovels
        /\ heap' = Given(heap) /\ pc' = Handover(heap, "gotSoil", d, "threw")
    BY <1>2, DiggersFacts DEF LowerThrows
  <2> QED
    BY <1>0, <2>1, GivesSoil, ShovelsSame
<1>3. ASSUME NEW d \in Lowers, LowerStops(d) PROVE ShovelsConserved'
  BY <1>3, DiggersFacts, ShovelGiven DEF LowerStops
<1>4. ASSUME NEW d \in Uppers, UpperTakesSoil(d) PROVE ShovelsConserved'
  <2>1. d \in Diggers /\ pc[d] = "rest" /\ shovels' = shovels
    BY <1>4, DiggersFacts DEF UpperTakesSoil
  <2> QED
    BY <1>4, <1>0, <2>1, TakesSoil, ShovelsSame
<1>5. ASSUME NEW d \in Uppers, UpperStarts(d) PROVE ShovelsConserved'
  BY <1>5, DiggersFacts, ShovelTaken DEF UpperStarts
<1>6. ASSUME NEW d \in Uppers, UpperTimesOut(d) PROVE ShovelsConserved'
  <2>1. /\ d \in Diggers /\ pc[d] = "waitShovel"
        /\ pc' = [pc EXCEPT ![d] = "timedOut"]
        /\ shovels' = Without(shovels, d)
    BY <1>6, DiggersFacts DEF UpperTimesOut
  <2>2. shovels'.count = shovels.count
    BY <2>1, SemWithout DEF TypeOK, QueuesInv
  <2>3. d \in ToSet(shovels.queue) /\ shovels.queue \in Seq(Diggers)
    BY <2>1 DEF QueuesInv, QueuesAreWaiters, In, TypeOK, Semaphores
  <2>4. shovels.count = 0
    BY <2>3, ToSetEmpty, ShovelFacts
  <2>5. Holders = {e \in Diggers : pc'[e] \in {"work", "threw"}}
    BY <2>1, ShovelFacts
  <2> QED
    BY <2>2, <2>4, <2>5, ShovelFacts, ShovelsPrime
<1>7. ASSUME NEW d \in Uppers, UpperGivesBack(d) PROVE ShovelsConserved'
  <2>1. /\ d \in Diggers /\ pc[d] = "timedOut" /\ shovels' = shovels
        /\ heap' = Given(heap) /\ pc' = Handover(heap, "gotSoil", d, "rest")
    BY <1>7, DiggersFacts DEF UpperGivesBack
  <2> QED
    BY <1>0, <2>1, GivesSoil, ShovelsSame
<1>8. ASSUME NEW d \in Uppers, UpperStops(d) PROVE ShovelsConserved'
  BY <1>8, DiggersFacts, ShovelGiven DEF UpperStops
<1>9. ASSUME NEW kind \in Kinds, Hire(kind) PROVE ShovelsConserved'
  <2>1. /\ <<kind, count[kind]>> \in Diggers /\ shovels' = shovels
        /\ pc' = [pc EXCEPT ![<<kind, count[kind]>>] = "rest"]
    BY <1>9 DEF Hire
  <2>2. pc[<<kind, count[kind]>>] = "none"
    BY <2>1 DEF AbsentInv, TypeOK, Kinds
  <2> QED
    BY <1>0, <2>1, <2>2, ShovelsSame
<1>10. ASSUME NEW kind \in Kinds, Leave(kind) PROVE ShovelsConserved'
  BY <1>10, ShovelsSame DEF Leave
<1>11. CASE LeaveAll
  BY <1>11, ShovelsSame DEF LeaveAll
<1>12. CASE DeleteLast
  <2>1. <<boss.kind, boss.n>> \in Diggers /\ Delete(<<boss.kind, boss.n>>)
    BY <1>12, Deleted DEF DeleteLast
  <2>2. shovels' = shovels
    BY <2>1 DEF Delete
  <2> QED
    BY <1>0, <2>1, <2>2, Deletes, ShovelsSame
<1>13. CASE DeleteNext
  <2>1. <<boss.kind, boss.n>> \in Diggers /\ Delete(<<boss.kind, boss.n>>)
    BY <1>13, Deleted DEF DeleteNext
  <2>2. shovels' = shovels
    BY <2>1 DEF Delete
  <2> QED
    BY <1>0, <2>1, <2>2, Deletes, ShovelsSame
<1>14. CASE NextKind
  BY <1>14, ShovelsSame DEF NextKind
<1>15. CASE AllLeft
  BY <1>15, ShovelsSame DEF AllLeft
<1>16. CASE UNCHANGED vars
  BY <1>16, ShovelsSame DEF vars
<1> QED
  BY <1>1, <1>2, <1>3, <1>4, <1>5, <1>6, <1>7, <1>8, <1>9, <1>10, <1>11, <1>12,
     <1>13, <1>14, <1>15, <1>16, NextCases

-----------------------------------------------------------------------------
(* The soil                                                                *)

LEMMA SoilInit == Init => SoilAccounted
<1> SUFFICES ASSUME Init PROVE SoilAccounted
  OBVIOUS
<1>1. InHand = {}
  BY DEF Init, InHand, In, Diggers
<1> QED
  BY <1>1, FS_EmptySet, Accounts DEF Init

\* A digger with soil in hand.
HasSoil(d) == \/ pc[d] \in {"gotSoil", "timedOut"}
              \/ d \in Uppers /\ pc[d] \in {"waitShovel", "work"}

\* The facts the proofs about soil start from.
LEMMA SoilFacts ==
  ASSUME TypeOK, RolesInv, SoilAccounted
  PROVE  /\ pc \in [Diggers -> Pcs] /\ heap.count \in Nat
         /\ InHand = {e \in Diggers : HasSoil(e)}
         /\ Cardinality(InHand) \in Nat /\ dug \in Nat /\ fired \in Nat
         /\ dug - (heap.count + Cardinality(InHand)) \in 0 .. fired
         /\ \A d \in Diggers : HasSoil(d) => d \in Uppers
<1>1. InHand = {e \in Diggers : HasSoil(e)}
  BY DEF InHand, In, HasSoil, Diggers
<1>2. \A d \in Diggers : HasSoil(d) => d \in Uppers
  BY DEF HasSoil, RolesInv, Diggers
<1> QED
  BY <1>1, <1>2, Accounts, Counting DEF TypeOK, Semaphores

\* What it takes for the soil to be accounted for in the next state.
LEMMA SoilPrime ==
  ASSUME NEW H, H = {e \in Diggers : HasSoil(e)'},
         dug' - (heap'.count + Cardinality(H)) \in 0 .. fired'
  PROVE  SoilAccounted'
<1>1. H = (In({"gotSoil", "timedOut"})
             \cup {d \in Uppers : pc[d] \in {"waitShovel", "work"}})'
  BY DEF In, HasSoil, Diggers
<1> QED
  BY <1>1 DEF SoilAccounted

\* Who neither takes soil nor loses it changes nothing.
LEMMA SoilSame ==
  ASSUME TypeOK, RolesInv, SoilAccounted,
         heap'.count = heap.count, dug' = dug, fired' = fired,
         \A e \in Diggers : HasSoil(e)' <=> HasSoil(e)
  PROVE  SoilAccounted'
<1>1. InHand = {e \in Diggers : HasSoil(e)'}
  BY SoilFacts
<1> QED
  BY <1>1, SoilFacts, SoilPrime

\* A semGive of soil puts as much on the heap, or in a hand, as d gives.
LEMMA SoilGiven ==
  ASSUME TypeOK, RolesInv, QueuesInv, SoilAccounted,
         NEW d \in Diggers, pc[d] # "waitSoil", NEW next \in {"threw", "rest"},
         pc' = Handover(heap, "gotSoil", d, next), heap' = Given(heap),
         fired' = fired,
         dug' = IF HasSoil(d) THEN dug ELSE dug + 1
  PROVE  SoilAccounted'
<1> DEFINE Rest == InHand \ {d}
           H == {e \in Diggers : HasSoil(e)'}
<1>1. Rest \in SUBSET Diggers /\ Cardinality(Rest) \in Nat
  BY Counting, Accounts
<1>2. dug' - (heap.count + Cardinality(Rest) + 1) \in 0 .. fired
  <2>1. CASE HasSoil(d)
    <3>1. Cardinality(Rest) = Cardinality(InHand) - 1
      BY <2>1, Counting, Accounts, SoilFacts
    <3> QED
      BY <2>1, <3>1, SoilFacts
  <2>2. CASE ~ HasSoil(d)
    <3>1. Rest = InHand
      BY <2>2, SoilFacts
    <3> QED
      BY <2>2, <3>1, SoilFacts
  <2> QED
    BY <2>1, <2>2
<1>3. CASE heap'.count = heap.count + 1 /\ pc' = [pc EXCEPT ![d] = next]
  <2>1. H = Rest
    BY <1>3, SoilFacts DEF HasSoil
  <2> QED
    BY <1>1, <1>2, <1>3, <2>1, SoilFacts, SoilPrime
<1>4. ASSUME NEW h \in Diggers, h # d, pc[h] = "waitSoil",
             heap'.count = heap.count,
             pc' = [pc EXCEPT ![d] = next, ![h] = "gotSoil"]
      PROVE  SoilAccounted'
  <2>1. H = Rest \cup {h} /\ h \in Diggers \ Rest
    BY <1>4, SoilFacts DEF HasSoil
  <2>2. Cardinality(H) = Cardinality(Rest) + 1
    BY <1>1, <2>1, Counting
  <2> QED
    BY <1>1, <1>2, <1>4, <2>2, SoilFacts, SoilPrime
<1> QED
  BY <1>3, <1>4, GivesSoil

\* A digger that is deleted loses at most the soil in its hands.
LEMMA SoilLost ==
  ASSUME TypeOK, RolesInv, QueuesInv, SoilAccounted,
         NEW d \in Diggers, Delete(d)
  PROVE  SoilAccounted'
<1> DEFINE Rest == InHand \ {d}
<1>1. Rest = {e \in Diggers : HasSoil(e)'}
  BY Deletes, SoilFacts DEF HasSoil
<1>2. heap'.count = heap.count /\ dug' = dug
  BY Deletes DEF Delete
<1>3. CASE HasSoil(d)
  <2>1. fired' = fired + 1
    BY <1>3, SoilFacts DEF Delete
  <2>2. Cardinality(Rest) = Cardinality(InHand) - 1
    BY <1>3, Counting, Accounts, SoilFacts
  <2> QED
    BY <1>1, <1>2, <2>1, <2>2, SoilFacts, SoilPrime
<1>4. CASE ~ HasSoil(d)
  <2>1. Rest = InHand
    BY <1>4, SoilFacts
  <2>2. fired' \in Nat /\ fired' >= fired
    BY SoilFacts DEF Delete
  <2> QED
    BY <1>1, <1>2, <2>1, <2>2, SoilFacts, SoilPrime
<1> QED
  BY <1>3, <1>4

LEMMA SoilNext ==
  TypeOK /\ BossInv /\ AbsentInv /\ RolesInv /\ QueuesInv /\ SoilAccounted
    /\ [Next]_vars => SoilAccounted'
<1> SUFFICES ASSUME TypeOK, BossInv, AbsentInv, RolesInv, QueuesInv,
                    SoilAccounted, [Next]_vars
             PROVE  SoilAccounted'
  OBVIOUS
<1>0. pc \in [Diggers -> Pcs]
  BY DEF TypeOK
<1>1. ASSUME NEW d \in Lowers, LowerStarts(d) PROVE SoilAccounted'
  <2>1. /\ d \in Lowers /\ d \in Diggers /\ pc[d] = "rest" /\ TakeShovel(d)
        /\ heap' = heap /\ dug' = dug /\ fired' = fired
    BY <1>1, DiggersFacts DEF LowerStarts
  <2>2. \A e \in Diggers : HasSoil(e)' <=> HasSoil(e)
    BY <1>0, <2>1, DiggersFacts, TakesShovel DEF HasSoil
  <2> QED
    BY <2>1, <2>2, SoilSame
<1>2. ASSUME NEW d \in Lowers, LowerThrows(d) PROVE SoilAccounted'
  <2>1. /\ d \in Diggers /\ pc[d] = "work" /\ ~ HasSoil(d)
        /\ heap' = Given(heap) /\ pc' = Handover(heap, "gotSoil", d, "threw")
        /\ dug' = dug + 1 /\ fired' = fired
    BY <1>2, DiggersFacts DEF LowerThrows, HasSoil
  <2> QED
    BY <2>1, SoilGiven
<1>3. ASSUME NEW d \in Lowers, LowerStops(d) PROVE SoilAccounted'
  <2>1. /\ d \in Lowers /\ d \in Diggers /\ pc[d] = "threw" /\ GiveShovel(d)
        /\ heap' = heap /\ dug' = dug /\ fired' = fired
    BY <1>3, DiggersFacts DEF LowerStops
  <2>2. \A e \in Diggers : HasSoil(e)' <=> HasSoil(e)
    BY <1>0, <2>1, DiggersFacts, GivesShovel DEF HasSoil
  <2> QED
    BY <2>1, <2>2, SoilSame
<1>4. ASSUME NEW d \in Uppers, UpperTakesSoil(d) PROVE SoilAccounted'
  <2>1. /\ d \in Diggers /\ pc[d] = "rest" /\ ~ HasSoil(d)
        /\ dug' = dug /\ fired' = fired
    BY <1>4, DiggersFacts DEF UpperTakesSoil, HasSoil
  <2>2. CASE /\ heap.count > 0 /\ heap'.count = heap.count - 1
             /\ pc' = [pc EXCEPT ![d] = "gotSoil"]
    <3> DEFINE H == {e \in Diggers : HasSoil(e)'}
    <3>1. H = InHand \cup {d} /\ d \in Diggers \ InHand
      BY <2>1, <2>2, SoilFacts DEF HasSoil
    <3>2. Cardinality(H) = Cardinality(InHand) + 1
      BY <3>1, Counting, Accounts
    <3> QED
      BY <2>1, <2>2, <3>2, SoilFacts, SoilPrime
  <2>3. CASE heap'.count = heap.count /\ pc' = [pc EXCEPT ![d] = "waitSoil"]
    <3>1. \A e \in Diggers : HasSoil(e)' <=> HasSoil(e)
      BY <1>0, <2>1, <2>3 DEF HasSoil
    <3> QED
      BY <2>1, <2>3, <3>1, SoilSame
  <2> QED
    BY <1>4, <2>1, <2>2, <2>3, TakesSoil
<1>5. ASSUME NEW d \in Uppers, UpperStarts(d) PROVE SoilAccounted'
  <2>1. /\ d \in Uppers /\ d \in Diggers /\ pc[d] = "gotSoil" /\ TakeShovel(d)
        /\ heap' = heap /\ dug' = dug /\ fired' = fired
    BY <1>5, DiggersFacts DEF UpperStarts
  <2>2. \A e \in Diggers : HasSoil(e)' <=> HasSoil(e)
    BY <1>0, <2>1, DiggersFacts, TakesShovel DEF HasSoil
  <2> QED
    BY <2>1, <2>2, SoilSame
<1>6. ASSUME NEW d \in Uppers, UpperTimesOut(d) PROVE SoilAccounted'
  <2>1. /\ d \in Uppers /\ d \in Diggers /\ pc[d] = "waitShovel"
        /\ pc' = [pc EXCEPT ![d] = "timedOut"]
        /\ heap' = heap /\ dug' = dug /\ fired' = fired
    BY <1>6, DiggersFacts DEF UpperTimesOut
  <2>2. \A e \in Diggers : HasSoil(e)' <=> HasSoil(e)
    BY <1>0, <2>1, DiggersFacts DEF HasSoil
  <2> QED
    BY <2>1, <2>2, SoilSame
<1>7. ASSUME NEW d \in Uppers, UpperGivesBack(d) PROVE SoilAccounted'
  <2>1. /\ d \in Diggers /\ pc[d] = "timedOut" /\ HasSoil(d)
        /\ heap' = Given(heap) /\ pc' = Handover(heap, "gotSoil", d, "rest")
        /\ dug' = dug /\ fired' = fired
    BY <1>7, DiggersFacts DEF UpperGivesBack, HasSoil
  <2> QED
    BY <2>1, SoilGiven
<1>8. ASSUME NEW d \in Uppers, UpperStops(d) PROVE SoilAccounted'
  <2>1. /\ d \in Uppers /\ d \in Diggers /\ pc[d] = "work" /\ GiveShovel(d)
        /\ heap' = heap /\ dug' = dug - 1 /\ fired' = fired
    BY <1>8, DiggersFacts DEF UpperStops
  <2> DEFINE Rest == InHand \ {d}
  <2>2. Rest = {e \in Diggers : HasSoil(e)'}
    <3>1. CASE pc' = [pc EXCEPT ![d] = "rest"]
      BY <2>1, <3>1, SoilFacts DEF HasSoil
    <3>2. ASSUME NEW h \in Diggers, h # d, pc[h] = "waitShovel",
                 pc' = [pc EXCEPT ![d] = "rest", ![h] = "work"]
          PROVE  Rest = {e \in Diggers : HasSoil(e)'}
      BY <2>1, <3>2, SoilFacts DEF HasSoil
    <3> QED
      BY <2>1, <3>1, <3>2, GivesShovel
  <2>3. Cardinality(Rest) = Cardinality(InHand) - 1
    BY <2>1, Counting, Accounts, SoilFacts DEF HasSoil
  <2> QED
    BY <2>1, <2>2, <2>3, SoilFacts, SoilPrime
<1>9. ASSUME NEW kind \in Kinds, Hire(kind) PROVE SoilAccounted'
  <2>1. /\ <<kind, count[kind]>> \in Diggers
        /\ pc' = [pc EXCEPT ![<<kind, count[kind]>>] = "rest"]
        /\ heap' = heap /\ dug' = dug /\ fired' = fired
    BY <1>9 DEF Hire
  <2>2. pc[<<kind, count[kind]>>] = "none"
    BY <2>1 DEF AbsentInv, TypeOK, Kinds
  <2>3. \A e \in Diggers : HasSoil(e)' <=> HasSoil(e)
    BY <1>0, <2>1, <2>2 DEF HasSoil
  <2> QED
    BY <2>1, <2>3, SoilSame
<1>10. ASSUME NEW kind \in Kinds, Leave(kind) PROVE SoilAccounted'
  BY <1>10, SoilSame DEF Leave, HasSoil
<1>11. CASE LeaveAll
  BY <1>11, SoilSame DEF LeaveAll, HasSoil
<1>12. CASE DeleteLast
  BY <1>12, Deleted, SoilLost DEF DeleteLast
<1>13. CASE DeleteNext
  BY <1>13, Deleted, SoilLost DEF DeleteNext
<1>14. CASE NextKind
  BY <1>14, SoilSame DEF NextKind, HasSoil
<1>15. CASE AllLeft
  BY <1>15, SoilSame DEF AllLeft, HasSoil
<1>16. CASE UNCHANGED vars
  BY <1>16, SoilSame DEF vars, HasSoil
<1> QED
  BY <1>1, <1>2, <1>3, <1>4, <1>5, <1>6, <1>7, <1>8, <1>9, <1>10, <1>11, <1>12,
     <1>13, <1>14, <1>15, <1>16, NextCases

-----------------------------------------------------------------------------
(* Theorems                                                                *)

LEMMA InvInit == Init => DiggersInv
BY TypeInit, BossInit, AbsentInit, RolesInit, QueuesInit, ShovelsInit, SoilInit
   DEF DiggersInv

LEMMA InvNext == DiggersInv /\ [Next]_vars => DiggersInv'
BY TypeNext, BossNext, AbsentNext, RolesNext, QueuesNext, ShovelsNext, SoilNext
   DEF DiggersInv

LEMMA InvAlways == Spec => []DiggersInv
BY InvInit, InvNext, PTL DEF Spec

(***************************************************************************)
(* Whatever is hired and deleted when, every semaphore count, id count and *)
(* soil count stays a natural number: a digger is deleted by an id that    *)
(* was handed out, and nobody takes away soil nobody dug (task2.c:21-120). *)
(***************************************************************************)
THEOREM DiggersTypeCorrect == Spec => []TypeOK
BY InvAlways, PTL DEF DiggersInv

(***************************************************************************)
(* The semaphore's queues hold exactly the diggers that wait in them, for  *)
(* any number of diggers: taskSafe keeps taskDelete from one that waits    *)
(* for a shovel, and the timeout takes it out (task2.c:43-49).             *)
(***************************************************************************)
THEOREM QueuesAreAlwaysWaiters == Spec => []QueuesAreWaiters
BY InvAlways, PTL DEF DiggersInv, QueuesInv

(***************************************************************************)
(* No shovel is lost or forged, for any number of shovels and diggers      *)
(* (task2.c:25-34, 43-55).                                                 *)
(***************************************************************************)
THEOREM ShovelsAlwaysConserved == Spec => []ShovelsConserved
BY InvAlways, PTL DEF DiggersInv

(***************************************************************************)
(* Soil is never forged, and at most one piece is lost with each upper     *)
(* digger that is deleted (task2.c:42-43).                                 *)
(***************************************************************************)
THEOREM SoilAlwaysAccounted == Spec => []SoilAccounted
BY InvAlways, PTL DEF DiggersInv

=============================================================================
