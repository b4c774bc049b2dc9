----------------------------- MODULE CacheChain -----------------------------
(***************************************************************************)
(* Lab 5: the linked list in an array with which the cache's access time   *)
(* is measured (lab5_cache_memory_influences/main.c).  A pointer is the    *)
(* index of its element; rand gives any index.                             *)
(***************************************************************************)
EXTENDS Integers

CONSTANTS
  MAX_ARRAY_LEN,
  FirstLength, \* length of the first working set: 256 in the source
  MaxJumps     \* bound: jumps of a measurement

ASSUME ChainAssumption ==
  /\ FirstLength \in Nat \ {0} /\ MAX_ARRAY_LEN \in Nat
  /\ FirstLength <= MAX_ARRAY_LEN
  /\ MaxJumps \in Nat \ {0}

VARIABLES
  step,     \* where measureCache is
  mode,
  jumps,
  len,      \* measureCache's i: the length of the working set
  k,        \* ranArray's i
  random_indexes,
  next,     \* next of each element of global_array
  counter,
  p         \* the element measurement has come to

chainVars == <<step, mode, jumps, len, k, random_indexes, next, counter, p>>

Elements == 0 .. MAX_ARRAY_LEN - 1
Working  == 0 .. len - 1

\* What longrand may return.
longrand(max) == 0 .. max - 1

ChainInit ==
  /\ step = "start" /\ mode = "SEQUENTIAL" /\ jumps = 1 /\ len = FirstLength
  /\ k = 0 /\ counter = 0 /\ p = 0
  /\ random_indexes = [e \in Elements |-> 0]
  /\ next = [e \in Elements |-> 0]

\* A call of measureCache; a mode it does not know ends it at once.
MeasureCache(m, n) ==
  /\ step = "start"
  /\ mode' = m /\ jumps' = n /\ len' = FirstLength
  /\ step' = IF m = "OTHER" THEN "start" ELSE "link"
  /\ UNCHANGED <<k, random_indexes, next, counter, p>>

\* Mutant of LinkInOrder: the cycle is not closed.
LinkInOrderOpen(order) ==
  next' = [e \in Elements |->
             IF \E n \in 0 .. len - 2 : order[n] = e
               THEN order[(CHOOSE n \in Working : order[n] = e) + 1]
               ELSE next[e]]

\* The working set becomes a cycle in the order of the indexes.
LinkInOrder(order) ==
  next' = [e \in Elements |->
             IF \E n \in Working : order[n] = e
               THEN order[((CHOOSE n \in Working : order[n] = e) + 1) % len]
               ELSE next[e]]

SeqArray ==
  /\ step = "link" /\ mode = "SEQUENTIAL"
  /\ LinkInOrder([n \in Elements |-> n])
  /\ step' = "measure"
  /\ UNCHANGED <<mode, jumps, len, k, random_indexes, counter, p>>

RanArray ==
  /\ step = "link" /\ mode = "RANDOM"
  /\ random_indexes' = [n \in Elements |-> IF n \in Working THEN n
                                           ELSE random_indexes[n]]
  /\ k' = 0 /\ step' = "shuffle"
  /\ UNCHANGED <<mode, jumps, len, next, counter, p>>

\* Mutant of Shuffle: the first index is overwritten before it is kept.
ShuffleWithoutTmp(idx) ==
  /\ step = "shuffle" /\ k < len
  /\ random_indexes' = [random_indexes EXCEPT ![k] = random_indexes[idx]]
  /\ k' = k + 1
  /\ UNCHANGED <<step, mode, jumps, len, next, counter, p>>

Shuffle(idx) ==
  /\ step = "shuffle" /\ k < len
  /\ random_indexes' = [random_indexes EXCEPT ![k]   = random_indexes[idx],
                                              ![idx] = random_indexes[k]]
  /\ k' = k + 1
  /\ UNCHANGED <<step, mode, jumps, len, next, counter, p>>

Shuffled ==
  /\ step = "shuffle" /\ k = len
  /\ LinkInOrder(random_indexes)
  /\ step' = "measure"
  /\ UNCHANGED <<mode, jumps, len, k, random_indexes, counter, p>>

MeasurementBegins ==
  /\ step = "measure"
  /\ counter' = jumps - 1 /\ p' = 0
  /\ step' = "jump"
  /\ UNCHANGED <<mode, jumps, len, k, random_indexes, next>>

Jump ==
  /\ step = "jump" /\ counter # 0
  /\ p' = next[p]
  /\ counter' = counter - 1
  /\ UNCHANGED <<step, mode, jumps, len, k, random_indexes, next>>

\* Mutant of NextLength: the length is compared before it is doubled.
NextLengthLate ==
  /\ step = "jump" /\ counter = 0
  /\ len' = 2 * len
  /\ step' = IF len <= MAX_ARRAY_LEN THEN "link" ELSE "start"
  /\ UNCHANGED <<mode, jumps, k, random_indexes, next, counter, p>>

NextLength ==
  /\ step = "jump" /\ counter = 0
  /\ len' = 2 * len
  /\ step' = IF len' <= MAX_ARRAY_LEN THEN "link" ELSE "start"
  /\ UNCHANGED <<mode, jumps, k, random_indexes, next, counter, p>>

ChainNext ==
  \/ \E m \in {"SEQUENTIAL", "RANDOM", "OTHER"}, n \in 1..MaxJumps :
       MeasureCache(m, n)
  \/ SeqArray \/ RanArray \/ Shuffled
  \/ \E idx \in longrand(len) : Shuffle(idx)
  \/ MeasurementBegins \/ Jump \/ NextLength

ChainSpec == ChainInit /\ [][ChainNext]_chainVars

-----------------------------------------------------------------------------
(* Properties                                                              *)

ChainTypeOK ==
  /\ step \in {"start", "link", "shuffle", "measure", "jump"}
  /\ mode \in {"SEQUENTIAL", "RANDOM", "OTHER"}
  /\ jumps \in 1..MaxJumps /\ counter \in 0..MaxJumps
  /\ len \in Nat \ {0} /\ k \in Nat
  /\ random_indexes \in [Elements -> Elements]
  /\ next \in [Elements -> Elements] /\ p \in Elements
  /\ step # "start" => len <= MAX_ARRAY_LEN
  /\ step = "shuffle" => k <= len

(***************************************************************************)
(* However often an element is swapped, also with itself, the indexes of   *)
(* the working set stay a permutation of it (main.c:31-36): none is lost   *)
(* and none occurs twice, so that linking them closes one cycle.           *)
(***************************************************************************)
IndexesPermuted ==
  step = "shuffle" =>
    /\ \A n \in Working : random_indexes[n] \in Working
    /\ \A m, n \in Working : random_indexes[m] = random_indexes[n] => m = n
    /\ \A e \in Working : \E n \in Working : random_indexes[n] = e

\* Where so many jumps from the first element lead.
Visited[n \in Nat] == IF n = 0 THEN 0 ELSE next[Visited[n - 1]]

(***************************************************************************)
(* The elements measured are exactly the working set, all of them, and     *)
(* none of the longer or shorter one linked before: len jumps lead round   *)
(* one cycle of it (main.c:18-21, :37-42; config.h:37-41).                 *)
(***************************************************************************)
OneCycle ==
  step \in {"measure", "jump"} =>
    /\ {Visited[n] : n \in Working} = Working
    /\ Visited[len] = 0
    /\ step = "jump" => p = Visited[jumps - 1 - counter]
=============================================================================
