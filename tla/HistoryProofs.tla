--------------------------- MODULE HistoryProofs ----------------------------
(***************************************************************************)
(* Proofs about History, for every HISTORY_SIZE, HISTORY_CYCLIC_ARRAY_SIZE *)
(* and number of samples, and about the Page drawn from it, for every      *)
(* clock and signal: its axis of time, its grids, and the places of all    *)
(* that is drawn.                                                          *)
(***************************************************************************)
EXTENDS Page, SvgPlotProofs

CYC == HISTORY_CYCLIC_ARRAY_SIZE
Gap == HISTORY_CYCLIC_ARRAY_SIZE - HISTORY_SIZE

LEMMA Sizes ==
  /\ HISTORY_SIZE \in Nat /\ HISTORY_SIZE >= 1
  /\ CYC \in Nat /\ CYC > HISTORY_SIZE
  /\ Gap \in Nat /\ Gap >= 1 /\ Gap = CYC - HISTORY_SIZE
BY HistoryAssumption DEF CYC, Gap

\* Every index the code wraps is less than two rounds from slot 0.
LEMMA WrapCases ==
  ASSUME NEW n \in Nat, n < 2 * CYC
  PROVE  /\ Wrap(n) = IF n < CYC THEN n ELSE n - CYC
         /\ Wrap(n) \in Slots
<1>1. CYC \in Nat /\ CYC >= 1
  BY Sizes
<1>2. CASE n < CYC
  <2>1. n % CYC = n
    BY <1>1, <1>2
  <2> QED  BY <1>1, <1>2, <2>1 DEF Wrap, Slots, CYC
<1>3. CASE n >= CYC
  <2>1. n % CYC = n - CYC
    BY <1>1, <1>3
  <2> QED  BY <1>1, <1>3, <2>1 DEF Wrap, Slots, CYC
<1> QED  BY <1>1, <1>2, <1>3

\* How far slot i is ahead of slot b.
Dist(b, i) == IF i >= b THEN i - b ELSE i - b + CYC

\* The sample that a slot holds when nothing is being stored there, if it is
\* `ahead' slots from the start index and w samples are written.
HeldAhead(ahead, w) ==
  LET sample == w - (HISTORY_SIZE - 1) + ahead
                  - (IF ahead >= HISTORY_SIZE THEN CYC ELSE 0)
  IN  IF sample > 0 THEN sample ELSE 0

Held(i) == HeldAhead(Dist(start, i), written)

\* A sample overwrites the one that many slots earlier, or a zero.
Replaced(sample) == IF sample > CYC THEN sample - CYC ELSE 0

\* What a reader may find in entry n: the sample it asked for, and on another
\* core, in the newest entry, the one that this sample replaces.
Allowed(n) ==
  {Expected(n)} \cup
  (IF core = "other" /\ n = HISTORY_SIZE - 1 THEN {Replaced(taken)} ELSE {})

(***************************************************************************)
(* The invariant.  CursorInv keeps the copy's index and its count together *)
(* and is all that TypeOK needs: an index that missed the end of the       *)
(* window would leave the copy's range.  StoreInv says where the slot      *)
(* being stored is, seen from the start index, and that a reader on the    *)
(* writer's core sees the index stored last.  RingInv says what every slot *)
(* holds: the samples of the last CYC rounds, except the slot being        *)
(* stored, where the fields still to be stored hold the sample replaced.   *)
(* WindowInv says where the reader is, seen from the writer: so few        *)
(* samples behind that a slot being stored is one it has yet to copy only  *)
(* if it is the newest of its window and its index was seen early.         *)
(* CopyInv says that all that is copied is what a reader may find.         *)
(***************************************************************************)
CursorInv ==
  reader.pc = "copy" =>
    /\ reader.i = Wrap(reader.s + reader.n)
    /\ reader.n = HISTORY_SIZE => reader.field = "desired"

StoreInv ==
  pending # {} =>
    /\ core = "same" => "index" \in pending
    /\ Dist(start, slot) = IF "index" \in pending THEN HISTORY_SIZE
                           ELSE HISTORY_SIZE - 1

RingInv ==
  \A i \in Slots, f \in Fields :
    array[i][f] = IF pending # {} /\ i = slot
                  THEN IF f \in pending THEN Replaced(Sample) ELSE Sample
                  ELSE Held(i)

WindowInv ==
  reader.pc = "copy" =>
    /\ taken <= written
    /\ written - taken <= Gap
    /\ "index" \in pending => written - taken < Gap
    /\ start = Wrap(reader.s + (written - taken))

\* The fields of the present entry that are copied already.
CopiedFields == Before(reader.field)

CopyInv ==
  /\ reader.pc = "copy" =>
       \A n \in Entries, f \in Fields :
         n < reader.n \/ (n = reader.n /\ f \in CopiedFields)
           => copy[n][f] \in Allowed(n)
  /\ reader.pc = "plot" =>
       \A n \in Entries, f \in Fields : copy[n][f] \in Allowed(n)

Inv == TypeOK /\ CursorInv /\ StoreInv /\ RingInv /\ WindowInv /\ CopyInv

LEMMA InvInit == Init => Inv
<1> SUFFICES ASSUME Init PROVE Inv
  OBVIOUS
<1>1. reader.pc = "idle" /\ reader \in [pc : {"idle", "copy", "plot"},
          s : Slots, i : Slots, n : 0..HISTORY_SIZE, field : Fields]
  BY Sizes DEF Init, IdleReader, Slots, CYC, Fields
<1>2. TypeOK
  BY <1>1, Sizes DEF Init, TypeOK, Slots, CYC, Fields, Garbage
<1>3. \A i \in Slots : Held(i) = 0
  BY Sizes DEF Init, Held, HeldAhead, Dist, Slots, CYC
<1> QED
  BY <1>1, <1>2, <1>3
     DEF Init, Inv, CursorInv, StoreInv, RingInv, WindowInv, CopyInv

\* A slot and where it is from the start index tell each other.
LEMMA DistInjective ==
  ASSUME NEW b \in Slots, NEW i \in Slots, NEW j \in Slots,
         Dist(b, i) = Dist(b, j)
  PROVE  i = j
BY Sizes DEF Slots, Dist, CYC

LEMMA TypeNext == TypeOK /\ CursorInv /\ [Next]_vars => TypeOK'
<1> SUFFICES ASSUME TypeOK, CursorInv, [Next]_vars PROVE TypeOK'
  OBVIOUS
<1> USE DEF TypeOK
<1>1. start \in Nat /\ start < CYC
  BY Sizes DEF Slots, CYC
<1>2. CASE BeginSample
  <2>1. start + HISTORY_SIZE \in Nat /\ start + HISTORY_SIZE < 2 * CYC
    BY <1>1, Sizes
  <2> QED  BY <1>2, <2>1, WrapCases DEF BeginSample, Fields
<1>3. CASE StoreIndex
  <2>1. start + 1 \in Nat /\ start + 1 < 2 * CYC
    BY <1>1, Sizes
  <2> QED  BY <1>3, <2>1, WrapCases DEF StoreIndex
<1>4. ASSUME NEW f \in Fields, StoreField(f) PROVE TypeOK'
  <2>1. Sample \in Nat
    BY DEF Sample
  <2>2. array' \in [Slots -> [Fields -> Nat]]
    BY <1>4, <2>1 DEF StoreField
  <2> QED  BY <1>4, <2>2 DEF StoreField
<1>5. CASE TakeWindow
  <2>1. reader' = [pc |-> "copy", s |-> start, i |-> start, n |-> 0,
                   field |-> "desired"]
    BY <1>5 DEF TakeWindow, IdleReader
  <2> QED  BY <1>5, <2>1, Sizes DEF TakeWindow, writer, Fields
<1>6. CASE CopyField
  <2>1. array[reader.i][reader.field] \in Nat
    OBVIOUS
  <2>2. copy' \in [Entries -> [Fields -> Nat \cup {-1}]]
    BY <1>6, <2>1 DEF CopyField
  <2>3. reader.i + 1 \in Nat /\ reader.i + 1 < 2 * CYC
    BY Sizes DEF Slots, CYC
  <2>4. Wrap(reader.i + 1) \in Slots
    BY <2>3, WrapCases
  <2>5. reader.n # HISTORY_SIZE
    BY <1>6 DEF CopyField, CursorInv, WindowEnd
  <2>6. reader.n + 1 \in 0..HISTORY_SIZE
    <3>1. \A n \in 0..HISTORY_SIZE :
            n # HISTORY_SIZE => n + 1 \in 0..HISTORY_SIZE
      BY Sizes
    <3>2. reader.n \in 0..HISTORY_SIZE
      OBVIOUS
    <3> QED  BY <2>5, <3>1, <3>2
  <2>7. NextField[reader.field] \in Fields
    BY DEF NextField, Fields
  <2>8. reader' \in [pc : {"idle", "copy", "plot"}, s : Slots, i : Slots,
                    n : 0..HISTORY_SIZE, field : Fields]
    BY <1>6, <2>4, <2>6, <2>7 DEF CopyField
  <2> QED  BY <1>6, <2>2, <2>8 DEF CopyField, writer
<1>7. CASE CopyEnds
  BY <1>7 DEF CopyEnds, writer
<1>8. CASE Plotted
  <2>1. IdleReader \in [pc : {"idle", "copy", "plot"}, s : Slots, i : Slots,
                       n : 0..HISTORY_SIZE, field : Fields]
    BY Sizes DEF IdleReader, Slots, CYC, Fields
  <2>2. Garbage \in [Entries -> [Fields -> Nat \cup {-1}]]
    BY DEF Garbage
  <2> QED  BY <1>8, <2>1, <2>2 DEF Plotted, writer
<1>9. CASE UNCHANGED vars
  BY <1>9 DEF vars, writer
<1> QED
  BY <1>2, <1>3, <1>4, <1>5, <1>6, <1>7, <1>8, <1>9 DEF Next, Writer, Reader

-----------------------------------------------------------------------------
(* The writer's part of the invariant                                      *)

LEMMA StoreNext ==
  TypeOK /\ StoreInv /\ [Next]_vars => StoreInv'
<1> SUFFICES ASSUME TypeOK, StoreInv, [Next]_vars PROVE StoreInv'
  OBVIOUS
<1> USE DEF StoreInv
<1>t. /\ start \in Nat /\ start < CYC /\ slot \in Nat /\ slot < CYC
      /\ pending \in SUBSET (Fields \cup {"index"})
  BY Sizes DEF TypeOK, Slots, CYC
<1>1. CASE BeginSample
  <2>1. /\ slot' = Wrap(start + HISTORY_SIZE) /\ start' = start
        /\ "index" \in pending'
    BY <1>1 DEF BeginSample
  <2>2. slot' = IF start + HISTORY_SIZE < CYC THEN start + HISTORY_SIZE
                ELSE start + HISTORY_SIZE - CYC
    BY <1>t, <2>1, Sizes, WrapCases
  <2>3. Dist(start', slot') = HISTORY_SIZE
    BY <1>t, <2>1, <2>2, Sizes DEF Dist
  <2> QED  BY <2>1, <2>3 DEF Dist
<1>2. CASE StoreIndex
  <2>1. /\ "index" \in pending /\ pending' = pending \ {"index"}
        /\ core = "other" \/ pending \cap Fields = {}
        /\ start' = Wrap(start + 1) /\ slot' = slot /\ core' = core
    BY <1>2 DEF StoreIndex, MayStore, Before
  <2>2. core = "same" => pending' = {}
    BY <1>t, <2>1 DEF TypeOK
  <2>3. start' = IF start + 1 < CYC THEN start + 1 ELSE start + 1 - CYC
    BY <1>t, <2>1, Sizes, WrapCases
  <2>4. Dist(start, slot) = HISTORY_SIZE
    BY <2>1
  <2>5. Dist(start', slot') = HISTORY_SIZE - 1
    BY <1>t, <2>1, <2>3, <2>4, Sizes DEF Dist
  <2> QED  BY <2>1, <2>2, <2>5 DEF Dist
<1>3. ASSUME NEW f \in Fields, StoreField(f) PROVE StoreInv'
  <2>1. /\ f # "index" /\ f \in pending /\ pending' = pending \ {f}
        /\ UNCHANGED <<start, slot, core>>
    BY <1>3 DEF StoreField, MayStore, Fields
  <2> QED  BY <2>1 DEF Dist
<1>4. CASE UNCHANGED <<pending, slot, start, core>>
  BY <1>4 DEF Dist
<1>5. CASE TakeWindow \/ CopyField \/ CopyEnds \/ Plotted \/ UNCHANGED vars
  BY <1>4, <1>5 DEF TakeWindow, CopyField, CopyEnds, Plotted, vars, writer
<1> QED  BY <1>1, <1>2, <1>3, <1>5 DEF Next, Writer, Reader

LEMMA RingNext ==
  TypeOK /\ StoreInv /\ RingInv /\ [Next]_vars => RingInv'
<1> SUFFICES ASSUME TypeOK, StoreInv, RingInv, [Next]_vars PROVE RingInv'
  OBVIOUS
<1>t. /\ start \in Nat /\ start < CYC /\ slot \in Nat /\ slot < CYC
      /\ slot \in Slots /\ start \in Slots /\ written \in Nat
      /\ pending \in SUBSET (Fields \cup {"index"})
  BY Sizes DEF TypeOK, Slots, CYC
<1>f. "index" \notin Fields
  BY DEF Fields
<1>1. CASE BeginSample
  <2>1. /\ pending = {} /\ pending' = Fields \cup {"index"}
        /\ slot' = Wrap(start + HISTORY_SIZE)
        /\ UNCHANGED <<array, start, written>>
    BY <1>1 DEF BeginSample
  <2>2. \A i \in Slots : Held(i)' = Held(i)
    BY <2>1 DEF Held
  <2>3. slot' = IF start + HISTORY_SIZE < CYC THEN start + HISTORY_SIZE
                ELSE start + HISTORY_SIZE - CYC
    BY <1>t, <2>1, Sizes, WrapCases
  <2>4. Dist(start, slot') = HISTORY_SIZE /\ slot' \in Slots
    BY <1>t, <2>3, Sizes DEF Dist, Slots, CYC
  <2>5. Held(slot') = Replaced(written + 1)
    BY <1>t, <2>4, Sizes DEF Held, HeldAhead, Replaced
  <2>6. Sample' = written + 1
    BY <2>1 DEF Sample
  <2>7. Replaced(Sample)' = Replaced(written + 1)
    BY <2>6 DEF Replaced
  <2>8. \A i \in Slots, f \in Fields : array'[i][f] = Held(i)
    BY <2>1 DEF RingInv
  <2> QED  BY <2>1, <2>2, <2>4, <2>5, <2>7, <2>8 DEF RingInv
<1>2. ASSUME NEW f \in Fields, StoreField(f) PROVE RingInv'
  <2>1. /\ f \in pending /\ f # "index"
        /\ array' = [array EXCEPT ![slot][f] = Sample]
        /\ pending' = pending \ {f}
        /\ UNCHANGED <<start, slot, written>>
    BY <1>2 DEF StoreField, MayStore, Fields
  <2>2. \A i \in Slots : Held(i)' = Held(i)
    BY <2>1 DEF Held
  <2>3. Sample' = Sample
    BY <2>1 DEF Sample
  <2>4. Replaced(Sample)' = Replaced(Sample)
    BY <2>3 DEF Replaced
  <2>5. \A i \in Slots, g \in Fields :
          array'[i][g] = IF i = slot /\ g = f THEN Sample ELSE array[i][g]
    BY <1>t, <2>1 DEF TypeOK
  <2>6. pending' = {} => Held(slot) = Sample
    <3> SUFFICES ASSUME pending' = {} PROVE Held(slot) = Sample
      OBVIOUS
    <3>1. "index" \notin pending /\ pending # {}
      BY <2>1
    <3>2. Dist(start, slot) = HISTORY_SIZE - 1
      BY <3>1 DEF StoreInv
    <3> QED  BY <1>t, <3>1, <3>2, Sizes DEF Held, HeldAhead, Sample
  <2> SUFFICES ASSUME NEW i \in Slots, NEW g \in Fields
               PROVE  array'[i][g] = IF pending' # {} /\ i = slot
                        THEN IF g \in pending'
                             THEN Replaced(Sample) ELSE Sample
                        ELSE Held(i)
    BY <2>1, <2>2, <2>3, <2>4 DEF RingInv
  <2>7. array[i][g] = IF i = slot
                      THEN IF g \in pending THEN Replaced(Sample) ELSE Sample
                      ELSE Held(i)
    BY <2>1 DEF RingInv
  <2> HIDE DEF Held, Sample, Replaced
  <2> QED  BY <2>1, <2>5, <2>6, <2>7
<1>3. CASE StoreIndex
  <2>1. /\ "index" \in pending /\ pending' = pending \ {"index"}
        /\ start' = Wrap(start + 1) /\ written' = written + 1
        /\ UNCHANGED <<array, slot>>
    BY <1>3 DEF StoreIndex, MayStore
  <2>2. start' = IF start + 1 < CYC THEN start + 1 ELSE start + 1 - CYC
    BY <1>t, <2>1, Sizes, WrapCases
  <2>3. Dist(start, slot) = HISTORY_SIZE
    BY <2>1 DEF StoreInv
  <2>4. Sample = written + 1 /\ Sample' = Sample
    BY <2>1 DEF Sample
  <2>5. Replaced(Sample)' = Replaced(Sample)
    BY <2>4 DEF Replaced
  <2> SUFFICES ASSUME NEW i \in Slots, NEW f \in Fields
               PROVE  array[i][f] = IF pending' # {} /\ i = slot
                        THEN IF f \in pending'
                             THEN Replaced(Sample) ELSE Sample
                        ELSE Held(i)'
    BY <2>1, <2>4, <2>5 DEF RingInv
  <2>6. i \in Nat /\ i < CYC
    BY Sizes DEF Slots, CYC
  <2>7. Dist(start', i) = IF Dist(start, i) = 0 THEN CYC - 1
                          ELSE Dist(start, i) - 1
    BY <1>t, <2>2, <2>6, Sizes DEF Dist
  <2>8. Dist(start, i) \in 0 .. CYC - 1
    BY <1>t, <2>6, Sizes DEF Dist
  <2>9. Held(i)' = HeldAhead(Dist(start', i), written + 1)
    BY <2>1 DEF Held, Dist
  <2>10. CASE i = slot
    <3>1. array[i][f] = IF f \in pending THEN Replaced(Sample) ELSE Sample
      BY <2>1, <2>10 DEF RingInv
    <3>2. f \in pending <=> f \in pending'
      BY <1>f, <2>1
    <3>3. Dist(start', i) = HISTORY_SIZE - 1
      BY <2>3, <2>7, <2>10, Sizes
    <3>4. Held(i)' = Sample
      BY <1>t, <2>4, <2>9, <3>3, Sizes DEF HeldAhead
    <3> QED  BY <2>10, <3>1, <3>2, <3>4
  <2>11. CASE i # slot
    <3>1. array[i][f] = Held(i)
      BY <2>11 DEF RingInv
    <3>2. Dist(start, i) # HISTORY_SIZE
      BY <1>t, <2>3, <2>11, DistInjective
    <3>3. Held(i)' = Held(i)
      BY <1>t, <2>7, <2>8, <2>9, <3>2, Sizes DEF Held, HeldAhead
    <3> QED  BY <2>11, <3>1, <3>3
  <2> QED  BY <2>10, <2>11
<1>4. CASE UNCHANGED <<array, pending, slot, start, written>>
  <2>1. \A i \in Slots : Held(i)' = Held(i)
    BY <1>4 DEF Held
  <2>2. Sample' = Sample /\ Replaced(Sample)' = Replaced(Sample)
    BY <1>4 DEF Sample, Replaced
  <2> QED  BY <1>4, <2>1, <2>2 DEF RingInv
<1>5. CASE TakeWindow \/ CopyField \/ CopyEnds \/ Plotted \/ UNCHANGED vars
  BY <1>4, <1>5 DEF TakeWindow, CopyField, CopyEnds, Plotted, vars, writer
<1> QED  BY <1>1, <1>2, <1>3, <1>5 DEF Next, Writer, Reader

-----------------------------------------------------------------------------
(* The reader's part                                                       *)

LEMMA CursorNext == TypeOK /\ CursorInv /\ [Next]_vars => CursorInv'
<1> SUFFICES ASSUME TypeOK, CursorInv, [Next]_vars PROVE CursorInv'
  OBVIOUS
<1> USE DEF CursorInv
<1>t. /\ reader.s \in Nat /\ reader.s < CYC /\ start \in Nat /\ start < CYC
      /\ reader.n \in 0..HISTORY_SIZE /\ reader.i \in Nat /\ reader.i < CYC
  BY Sizes DEF TypeOK, Slots, CYC
<1>r. reader \in [pc : {"idle", "copy", "plot"}, s : Slots, i : Slots,
                 n : 0..HISTORY_SIZE, field : Fields]
  BY DEF TypeOK
<1>1. CASE Writer \/ UNCHANGED vars
  BY <1>1 DEF Writer, BeginSample, StoreIndex, StoreField, vars
<1>2. CASE TakeWindow
  <2>1. reader' = [pc |-> "copy", s |-> start, i |-> start, n |-> 0,
                   field |-> "desired"]
    BY <1>2 DEF TakeWindow, IdleReader
  <2>2. start = Wrap(start + 0)
    BY <1>t, WrapCases, Sizes
  <2> QED  BY <1>t, <2>1, <2>2
<1>3. CASE CopyField
  <2>1. /\ reader.pc = "copy" /\ reader.i # WindowEnd(reader.s)
        /\ reader.n # HISTORY_SIZE
    BY <1>3 DEF CopyField, WindowEnd
  <2>2. CASE reader.field = "timestamp"
    <3>1. reader' = [reader EXCEPT !.i = Wrap(reader.i + 1),
                                   !.n = reader.n + 1,
                                   !.field = "desired"]
      BY <1>3, <2>2 DEF CopyField, NextField
    <3>2. /\ reader'.s = reader.s /\ reader'.i = Wrap(reader.i + 1)
          /\ reader'.n = reader.n + 1 /\ reader'.field = "desired"
      BY <1>r, <2>1, <3>1
    <3> DEFINE here == reader.s + reader.n
               next == reader.s + (reader.n + 1)
    <3>3. /\ here \in Nat /\ here < 2 * CYC
          /\ next \in Nat /\ next < 2 * CYC /\ next = here + 1
          /\ reader.i = Wrap(here)
      BY <1>t, <2>1, Sizes
    <3>4. Wrap(reader.i + 1) = Wrap(next)
      <4> HIDE DEF here, next
      <4>1. reader.i = IF here < CYC THEN here ELSE here - CYC
        BY <3>3, WrapCases
      <4>2. Wrap(reader.i + 1) = IF reader.i + 1 < CYC THEN reader.i + 1
                                 ELSE reader.i + 1 - CYC
        BY <1>t, Sizes, WrapCases
      <4>3. Wrap(next) = IF next < CYC THEN next ELSE next - CYC
        BY <3>3, WrapCases
      <4> QED  BY <1>t, <3>3, <4>1, <4>2, <4>3, Sizes
    <3> QED  BY <3>2, <3>4
  <2>3. CASE reader.field # "timestamp"
    <3>1. /\ reader'.s = reader.s
          /\ reader'.i = reader.i /\ reader'.n = reader.n
      BY <1>3, <2>3 DEF CopyField, TypeOK
    <3> QED  BY <2>1, <3>1
  <2> QED  BY <2>2, <2>3
<1>4. CASE CopyEnds \/ Plotted
  <2>1. reader'.pc \in {"plot", "idle"}
    BY <1>4 DEF CopyEnds, Plotted, IdleReader, TypeOK
  <2> QED  BY <2>1
<1> QED
  BY <1>1, <1>2, <1>3, <1>4 DEF Next, Reader

(***************************************************************************)
(* Every variable of the history keeps its type: no index leaves the       *)
(* arrays of motor_history or those on the reader's stack, on one core or  *)
(* two, whatever the sizes and however many samples a copy lags            *)
(* (statistics_updater.c:20-30, svg_generator.c:28-37).                    *)
(***************************************************************************)
THEOREM HistoryTypeCorrect == Spec => []TypeOK
<1>1. Init => TypeOK /\ CursorInv
  BY InvInit DEF Inv
<1>2. TypeOK /\ CursorInv /\ [Next]_vars => (TypeOK /\ CursorInv)'
  BY TypeNext, CursorNext
<1> QED  BY <1>1, <1>2, PTL DEF Spec

LEMMA WindowNext ==
  ASSUME MaxLag <= Gap
  PROVE  TypeOK /\ StoreInv /\ WindowInv /\ [Next]_vars => WindowInv'
<1> SUFFICES ASSUME TypeOK, StoreInv, WindowInv, [Next]_vars PROVE WindowInv'
  OBVIOUS
<1> USE DEF WindowInv
<1>t. /\ reader.s \in Nat /\ reader.s < CYC /\ start \in Nat /\ start < CYC
      /\ written \in Nat /\ taken \in Nat
  BY Sizes DEF TypeOK, Slots, CYC
<1>1. CASE BeginSample
  <2>1. /\ pending = {}
        /\ reader.pc = "copy" => Lag < MaxLag
        /\ UNCHANGED <<start, written, reader, taken>>
    BY <1>1 DEF BeginSample
  <2>2. Lag = written - taken
    BY <1>t, <2>1 DEF Lag
  <2> QED  BY <1>t, <2>1, <2>2, Sizes, HistoryAssumption
<1>2. ASSUME NEW f \in Fields, StoreField(f) PROVE WindowInv'
  <2>1. /\ pending' = pending \ {f}
        /\ UNCHANGED <<start, written, reader, taken>>
    BY <1>2 DEF StoreField
  <2> QED  BY <2>1
<1>3. CASE StoreIndex
  <2>1. /\ "index" \in pending /\ pending' = pending \ {"index"}
        /\ start' = Wrap(start + 1) /\ written' = written + 1
        /\ UNCHANGED <<reader, taken>>
    BY <1>3 DEF StoreIndex, MayStore
  <2> SUFFICES ASSUME reader.pc = "copy"
               PROVE  start' = Wrap(reader.s + (written + 1 - taken))
                        /\ taken <= written /\ written + 1 - taken <= Gap
    BY <1>t, <2>1
  <2>2. taken <= written /\ written - taken + 1 <= Gap
    BY <1>t, <2>1, Sizes
  <2> DEFINE here == reader.s + (written - taken)
             next == reader.s + (written + 1 - taken)
  <2>3. /\ here \in Nat /\ here < 2 * CYC
        /\ next \in Nat /\ next < 2 * CYC /\ next = here + 1
        /\ start = Wrap(here)
    BY <1>t, <2>2, Sizes
  <2> SUFFICES start' = Wrap(next)
    BY <1>t, <2>2, Sizes
  <2> HIDE DEF here, next
  <2>4. start = IF here < CYC THEN here ELSE here - CYC
    BY <2>3, WrapCases
  <2>5. start' = IF start + 1 < CYC THEN start + 1 ELSE start + 1 - CYC
    BY <1>t, <2>1, Sizes, WrapCases
  <2>6. Wrap(next) = IF next < CYC THEN next ELSE next - CYC
    BY <2>3, WrapCases
  <2> QED  BY <1>t, <2>3, <2>4, <2>5, <2>6, Sizes
<1>4. CASE TakeWindow
  <2>1. /\ reader'.s = start /\ taken' = written
        /\ UNCHANGED <<start, written, pending>>
    BY <1>4 DEF TakeWindow, IdleReader, writer
  <2>2. start = Wrap(start + 0)
    BY <1>t, WrapCases, Sizes
  <2>3. written' - taken' = 0
    BY <1>t, <2>1
  <2> QED  BY <1>t, <2>1, <2>2, <2>3, Sizes
<1>5. CASE CopyField
  <2>1. /\ reader.pc = "copy" /\ reader'.s = reader.s
        /\ UNCHANGED <<start, written, pending, taken>>
    BY <1>5 DEF CopyField, writer, TypeOK
  <2> QED  BY <2>1
<1>6. CASE CopyEnds \/ Plotted
  <2>1. reader'.pc \in {"plot", "idle"}
    BY <1>6 DEF CopyEnds, Plotted, IdleReader, TypeOK
  <2> QED  BY <2>1
<1>7. CASE UNCHANGED vars
  BY <1>7 DEF vars, writer
<1> QED
  BY <1>1, <1>2, <1>3, <1>4, <1>5, <1>6, <1>7 DEF Next, Writer, Reader

\* The slot the reader is at holds what the reader may find.
LEMMA SlotToCopy ==
  ASSUME TypeOK, CursorInv, StoreInv, RingInv, WindowInv,
         reader.pc = "copy", reader.n < HISTORY_SIZE, NEW f \in Fields
  PROVE  array[reader.i][f] \in Allowed(reader.n)
<1> DEFINE lag == written - taken
           at  == reader.s + reader.n
           now == reader.s + lag
<1>1. /\ reader.s \in Nat /\ reader.s < CYC /\ start \in Nat /\ start < CYC
      /\ reader.n \in Nat /\ written \in Nat /\ taken \in Nat
      /\ reader.i \in Slots /\ core \in {"same", "other"}
  BY Sizes DEF TypeOK, Slots, CYC
<1>2. /\ lag \in Nat /\ lag <= Gap /\ ("index" \in pending => lag < Gap)
      /\ start = Wrap(now) /\ reader.i = Wrap(at)
  BY <1>1, Sizes DEF WindowInv, CursorInv
<1>3. /\ at \in Nat /\ at < 2 * CYC /\ now \in Nat /\ now < 2 * CYC
      /\ at = reader.s + reader.n /\ now = reader.s + lag
  BY <1>1, <1>2, Sizes
<1>4. written = taken + lag
  BY <1>1
<1> HIDE DEF at, now, lag
<1>5. /\ start = IF now < CYC THEN now ELSE now - CYC
      /\ reader.i = IF at < CYC THEN at ELSE at - CYC
  BY <1>2, <1>3, WrapCases
<1>6. Dist(start, reader.i) = IF reader.n >= lag THEN reader.n - lag
                              ELSE reader.n - lag + CYC
  BY <1>1, <1>2, <1>3, <1>5, Sizes DEF Dist
<1>7. Held(reader.i) = Expected(reader.n)
  <2>1. CASE reader.n >= lag
    <3>1. Dist(start, reader.i) < HISTORY_SIZE
      BY <1>1, <1>2, <1>6, <2>1, Sizes
    <3> QED  BY <1>1, <1>2, <1>4, <1>6, <2>1, <3>1, Sizes
       DEF Held, HeldAhead, Expected
  <2>2. CASE reader.n < lag
    <3>1. Dist(start, reader.i) >= HISTORY_SIZE
      BY <1>1, <1>2, <1>6, <2>2, Sizes
    <3> QED  BY <1>1, <1>2, <1>4, <1>6, <2>2, <3>1, Sizes
       DEF Held, HeldAhead, Expected
  <2> QED  BY <1>1, <1>2, <2>1, <2>2
<1>8. CASE pending = {} \/ reader.i # slot
  BY <1>1, <1>7, <1>8 DEF RingInv, Allowed
<1>9. CASE pending # {} /\ reader.i = slot
  <2>1. "index" \notin pending
    <3> SUFFICES ASSUME "index" \in pending PROVE FALSE
      OBVIOUS
    <3>1. Dist(start, reader.i) = HISTORY_SIZE
      BY <1>9 DEF StoreInv
    <3> QED  BY <1>1, <1>2, <1>6, <3>1, Sizes
  <2>2. core = "other" /\ Dist(start, reader.i) = HISTORY_SIZE - 1
    BY <1>1, <1>9, <2>1 DEF StoreInv
  <2>3. reader.n = HISTORY_SIZE - 1 /\ lag = 0
    BY <1>1, <1>2, <1>6, <2>2, Sizes
  <2>4. Sample = taken /\ Expected(reader.n) = taken
    BY <1>1, <1>4, <2>1, <2>3, Sizes DEF Sample, Expected
  <2>5. array[reader.i][f] \in {Replaced(Sample), Sample}
    BY <1>1, <1>9 DEF RingInv
  <2> QED  BY <2>2, <2>3, <2>4, <2>5 DEF Allowed
<1> QED  BY <1>8, <1>9

\* The loop's index meets the end of the window only after the whole window.
LEMMA EndsAtSize ==
  ASSUME TypeOK, CursorInv, reader.pc = "copy", reader.i = WindowEnd(reader.s)
  PROVE  reader.n = HISTORY_SIZE
<1> DEFINE here == reader.s + reader.n
           end  == reader.s + HISTORY_SIZE
<1>1. /\ reader.s \in Nat /\ reader.s < CYC
      /\ reader.n \in Nat /\ reader.n <= HISTORY_SIZE
  BY Sizes DEF TypeOK, Slots, CYC
<1>2. /\ here \in Nat /\ here < 2 * CYC /\ end \in Nat /\ end < 2 * CYC
      /\ end = here + (HISTORY_SIZE - reader.n)
      /\ Wrap(here) = Wrap(end)
  BY <1>1, Sizes DEF CursorInv, WindowEnd
<1> HIDE DEF here, end
<1>3. /\ Wrap(here) = IF here < CYC THEN here ELSE here - CYC
      /\ Wrap(end) = IF end < CYC THEN end ELSE end - CYC
  BY <1>2, WrapCases
<1>4. here = end \/ here = end - CYC \/ here - CYC = end
  BY <1>2, <1>3, Sizes
<1> QED  BY <1>1, <1>2, <1>4, Sizes

LEMMA CopyNext == Inv /\ [Next]_vars => CopyInv'
<1> SUFFICES ASSUME Inv, [Next]_vars PROVE CopyInv'
  OBVIOUS
<1> USE DEF Inv, CopyInv, CopiedFields
<1>a. UNCHANGED <<taken, core>> => \A n \in Entries : Allowed(n)' = Allowed(n)
  BY DEF Allowed, Expected, Replaced
<1>1. CASE UNCHANGED <<reader, copy, taken, core>>
  BY <1>a, <1>1 DEF Before
<1>2. CASE Writer \/ UNCHANGED vars
  BY <1>1, <1>2 DEF Writer, BeginSample, StoreIndex, StoreField, vars
<1>3. CASE TakeWindow
  <2>1. reader'.pc = "copy" /\ reader'.n = 0 /\ reader'.field = "desired"
    BY <1>3 DEF TakeWindow, IdleReader
  <2>2. Before(reader'.field) = {}
    BY <2>1 DEF Before
  <2> QED  BY <2>1, <2>2 DEF Entries, Before
<1>4. CASE CopyField
  <2>1. /\ reader.pc = "copy" /\ reader.n < HISTORY_SIZE
        /\ reader.n \in Entries
        /\ reader.field \in Fields
    <3>1. /\ reader.pc = "copy" /\ reader.i # WindowEnd(reader.s)
          /\ reader.n \in 0..HISTORY_SIZE /\ reader.field \in Fields
      BY <1>4 DEF CopyField, TypeOK
    <3>2. reader.n # HISTORY_SIZE
      BY <3>1 DEF CursorInv, WindowEnd
    <3> QED  BY <3>1, <3>2, Sizes DEF Entries
  <2>2. array[reader.i][reader.field] \in Allowed(reader.n)
    BY <2>1, SlotToCopy
  <2>3. \A n \in Entries, f \in Fields :
          copy'[n][f] = IF n = reader.n /\ f = reader.field
                        THEN array[reader.i][reader.field] ELSE copy[n][f]
    BY <1>4, <2>1 DEF CopyField, TypeOK
  <2>4. \A n \in Entries : Allowed(n)' = Allowed(n)
    BY <1>4, <1>a DEF CopyField
  <2>5. reader'.pc = "copy"
    BY <1>4, <2>1 DEF CopyField, TypeOK
  <2> SUFFICES ASSUME NEW n \in Entries, NEW f \in Fields,
                      \/ n < reader'.n
                      \/ n = reader'.n /\ f \in Before(reader'.field)
               PROVE  copy'[n][f] \in Allowed(n)
    BY <2>4, <2>5
  <2>i. n \in Int /\ reader.n \in Int
    BY <2>1 DEF Entries
  <2>c. n < reader.n \/ (n = reader.n /\ f \in Before(reader.field))
          => copy[n][f] \in Allowed(n)
    BY <2>1
  <2>6. CASE reader.field = "timestamp"
    <3>1. reader'.n = reader.n + 1 /\ reader'.field = "desired"
      BY <1>4, <2>6 DEF CopyField, NextField, TypeOK
    <3>2. Before(reader'.field) = {}
      BY <3>1 DEF Before
    <3>3. f \in Before(reader.field) \/ f = reader.field
      BY <2>6 DEF Before, Fields
    <3>4. n < reader.n \/ n = reader.n
      BY <2>i, <3>1, <3>2
    <3> QED  BY <2>2, <2>3, <2>c, <3>3, <3>4
  <2>7. CASE reader.field # "timestamp"
    <3>1. reader'.n = reader.n /\ reader'.field = NextField[reader.field]
      BY <1>4, <2>7 DEF CopyField, TypeOK
    <3>2. f \in Before(NextField[reader.field])
            => f \in Before(reader.field) \/ f = reader.field
      BY <2>1, <2>7 DEF Before, NextField, Fields
    <3> QED  BY <2>2, <2>3, <2>c, <3>1, <3>2
  <2> QED  BY <2>6, <2>7
<1>5. CASE CopyEnds
  <2>1. reader.n = HISTORY_SIZE
    BY <1>5, EndsAtSize DEF CopyEnds
  <2>2. \A n \in Entries, f \in Fields : copy[n][f] \in Allowed(n)
    BY <1>5, <2>1, Sizes DEF CopyEnds, Entries
  <2>3. reader'.pc = "plot" /\ UNCHANGED <<copy, taken, core>>
    BY <1>5 DEF CopyEnds, TypeOK
  <2> QED  BY <1>a, <2>2, <2>3
<1>6. CASE Plotted
  <2>1. reader'.pc = "idle"
    BY <1>6 DEF Plotted, IdleReader
  <2> QED  BY <2>1
<1> QED
  BY <1>2, <1>3, <1>4, <1>5, <1>6 DEF Next, Reader

LEMMA InvNext ==
  ASSUME MaxLag <= Gap
  PROVE  Inv /\ [Next]_vars => Inv'
BY TypeNext, CursorNext, StoreNext, RingNext, WindowNext, CopyNext DEF Inv

(***************************************************************************)
(* With a copy that takes no longer than the gap between the two array     *)
(* sizes gives it, every page made on the writer's core shows the          *)
(* HISTORY_SIZE samples before the request, whole and in order, whatever   *)
(* the two sizes are and however often the array has wrapped               *)
(* (statistics_updater.c:24-30, svg_generator.c:28-37).                    *)
(***************************************************************************)
THEOREM SnapshotIsExact ==
  ASSUME MaxLag <= Gap
  PROVE  Spec => []SnapshotExact
<1>1. Inv => SnapshotExact
  BY DEF Inv, CopyInv, SnapshotExact, Allowed
<1> QED  BY <1>1, InvInit, InvNext, PTL DEF Spec

-----------------------------------------------------------------------------
(* The history implements SampleLog.                                       *)

LEMMA LogInit == Init => Log!Init
<1> SUFFICES ASSUME Init PROVE Log!Init
  OBVIOUS
<1>1. reader.pc = "idle"
  BY DEF Init, IdleReader
<1> QED  BY <1>1 DEF Init, Log!Init

\* A step of which the log sees nothing.
LEMMA LogStutter ==
  ASSUME UNCHANGED <<core, written, taken, copy>>, reader'.pc = reader.pc
  PROVE  UNCHANGED Log!log
BY DEF Log!log, Garbage

\* The end of the copy shows the window; torn is what differs from it.
LEMMA EndShows ==
  Inv /\ Inv' /\ CopyEnds => \E torn \in SUBSET Fields : Log!Show(torn)
<1> SUFFICES ASSUME Inv, Inv', CopyEnds
             PROVE  \E torn \in SUBSET Fields : Log!Show(torn)
  OBVIOUS
<1> DEFINE last == HISTORY_SIZE - 1
           torn == {f \in Fields : copy[last][f] # Expected(last)}
<1>1. reader.pc = "copy" /\ reader'.pc = "plot"
  BY DEF CopyEnds, Inv, TypeOK
<1>2. UNCHANGED <<core, written, taken, copy>>
  BY DEF CopyEnds, writer
<1>3. taken \in Nat /\ taken # -1 /\ core \in {"same", "other"}
  BY DEF Inv, TypeOK
<1>4. \A n \in Entries, f \in Fields : copy[n][f] \in Allowed(n)
  <2>1. \A n \in Entries : Allowed(n)' = Allowed(n)
    BY <1>2 DEF Allowed, Expected, Replaced
  <2> QED  BY <1>1, <1>2, <2>1 DEF Inv, CopyInv
<1>5. last \in Entries
  BY Sizes DEF Entries
<1>6. core = "same" => torn = {}
  BY <1>4, <1>5 DEF Allowed
<1>7. \A n \in Entries :
        Expected(n) = Log!Numbered(taken - (HISTORY_SIZE - 1) + n)
  BY DEF Expected, Log!Numbered
<1>8. Replaced(taken) = Log!Numbered(taken - HISTORY_CYCLIC_ARRAY_SIZE)
  BY <1>3, Sizes DEF Replaced, Log!Numbered, CYC
<1>9. ASSUME NEW n \in Entries, NEW f \in Fields
      PROVE  copy[n][f] =
               IF n = HISTORY_SIZE - 1 /\ f \in torn
               THEN Log!Numbered(taken - HISTORY_CYCLIC_ARRAY_SIZE)
               ELSE Log!Numbered(taken - (HISTORY_SIZE - 1) + n)
  <2>1. copy[n][f] \in Allowed(n)
    BY <1>4
  <2>2. CASE n = HISTORY_SIZE - 1 /\ f \in torn
    BY <1>8, <2>1, <2>2 DEF Allowed
  <2>3. CASE ~(n = HISTORY_SIZE - 1 /\ f \in torn)
    <3>1. copy[n][f] = Expected(n)
      BY <2>1, <2>3 DEF Allowed
    <3> QED  BY <1>7, <2>3, <3>1
  <2> QED  BY <2>2, <2>3
<1>10. copy' = [n \in 0 .. HISTORY_SIZE - 1 |-> [f \in Fields |->
                  IF n = HISTORY_SIZE - 1 /\ f \in torn
                  THEN Log!Numbered(taken - HISTORY_CYCLIC_ARRAY_SIZE)
                  ELSE Log!Numbered(taken - (HISTORY_SIZE - 1) + n)]]
  <2>1. copy \in [Entries -> [Fields -> Nat \cup {-1}]]
    BY DEF Inv, TypeOK
  <2> HIDE DEF torn, last
  <2> QED  BY <1>2, <1>9, <2>1 DEF Entries
<1>11. torn \in SUBSET Fields
  OBVIOUS
<1> HIDE DEF torn, last
<1>12. Log!Show(torn)
  BY <1>1, <1>2, <1>3, <1>6, <1>10 DEF Log!Show
<1> QED  BY <1>11, <1>12

LEMMA LogNext == Inv /\ Inv' /\ [Next]_vars => [Log!Next]_(Log!log)
<1> SUFFICES ASSUME Inv, Inv', [Next]_vars PROVE [Log!Next]_(Log!log)
  OBVIOUS
<1>1. TypeOK /\ TypeOK'
  BY DEF Inv
<1>2. CASE BeginSample
  BY <1>2, LogStutter DEF BeginSample
<1>3. CASE \E f \in Fields : StoreField(f)
  BY <1>3, LogStutter DEF StoreField
<1>4. CASE StoreIndex
  <2>1. Log!Append
    BY <1>4 DEF StoreIndex, Log!Append, Garbage
  <2> QED  BY <2>1 DEF Log!Next
<1>5. CASE TakeWindow
  <2>1. reader.pc = "idle" /\ reader'.pc = "copy" /\ taken' = written
    BY <1>5 DEF TakeWindow, IdleReader
  <2>2. Log!Ask
    BY <1>5, <2>1, <1>1 DEF TakeWindow, Log!Ask, Garbage, writer
  <2> QED  BY <2>2 DEF Log!Next
<1>6. CASE CopyField
  <2>1. reader.pc = "copy" /\ reader'.pc = "copy"
    BY <1>6, <1>1 DEF CopyField, TypeOK
  <2>2. UNCHANGED <<core, written, taken>>
    BY <1>6 DEF CopyField, writer
  <2>3. UNCHANGED Log!log
    BY <2>1, <2>2 DEF Log!log, Garbage
  <2> QED  BY <2>3
<1>7. CASE CopyEnds
  BY <1>7, EndShows DEF Log!Next
<1>8. CASE Plotted
  <2>1. reader.pc = "plot" /\ reader'.pc = "idle"
    BY <1>8 DEF Plotted, IdleReader
  <2>2. copy # Garbage
    <3>1. 0 \in Entries /\ "desired" \in Fields
      BY Sizes DEF Entries, Fields
    <3>2. copy[0]["desired"] \in Allowed(0)
      BY <2>1, <3>1 DEF Inv, CopyInv
    <3>3. Expected(0) # -1 /\ Replaced(taken) # -1
      BY <1>1, Sizes DEF Expected, Replaced, TypeOK
    <3>4. -1 \notin Allowed(0)
      BY <3>3 DEF Allowed
    <3> QED  BY <3>1, <3>2, <3>4 DEF Garbage
  <2>3. Log!Return
    BY <1>8, <2>1, <2>2 DEF Plotted, Log!Return, writer
  <2> QED  BY <2>3 DEF Log!Next
<1>9. CASE UNCHANGED vars
  BY <1>9, LogStutter DEF vars, writer
<1> QED
  BY <1>2, <1>3, <1>4, <1>5, <1>6, <1>7, <1>8, <1>9 DEF Next, Writer, Reader

(***************************************************************************)
(* To every reader the history is a log to which samples are appended at   *)
(* once and of which a window is shown at once, whatever the sizes of      *)
(* array and window are, provided that the copy is quick enough; to one on *)
(* another core the newest entry may be torn, between its own sample and   *)
(* the one it replaces, and no other                                       *)
(* (statistics_updater.c:12-30, svg_generator.c:28-37).                    *)
(***************************************************************************)
THEOREM HistoryImplementsLog ==
  ASSUME MaxLag <= Gap
  PROVE  Spec => PageIsSnapshot
BY InvInit, InvNext, LogInit, LogNext, PTL DEF Spec, PageIsSnapshot, Log!Spec

-----------------------------------------------------------------------------
(* The page does with the history what History does                        *)

LEMMA PageSteps ==
  [PageNext]_pageVars => [Next]_vars
BY DEF PageNext, Copying, SampleEnds, Drawing, Next, Writer, Reader, pageVars

(***************************************************************************)
(* Whatever is drawn meanwhile, the page's history behaves as History:     *)
(* what is proved of it holds of the page.                                 *)
(***************************************************************************)
THEOREM PageKeepsHistory == PageSpec => Spec
BY PageSteps, PTL DEF PageSpec, PageInit, Spec

-----------------------------------------------------------------------------
(* The clock                                                               *)

\* What the clock counts up to.
Round == 2^UintBits

\* It goes forward, by less than a round between two samples.
LEMMA Clock ==
  /\ Round \in Nat \ {0} /\ TicksPerSec \in Nat \ {0} /\ MaxSamples \in Nat
  /\ \A m \in 0..MaxSamples : Ticks[m] \in Nat
  /\ \A m \in 1..MaxSamples : /\ Ticks[m] - Ticks[m - 1] \in 0 .. Round - 1
                              /\ Ticks[m - 1] <= Ticks[m]
  /\ (Ticks[MaxSamples] - Ticks[0]) * 1000 < TicksPerSec * Round
<1>1. /\ TicksPerSec \in Nat \ {0} /\ MaxSamples \in Nat /\ Round \in Int
      /\ \A m \in 0..MaxSamples : Ticks[m] \in Nat
      /\ \A m \in 1..MaxSamples : Ticks[m] - Ticks[m - 1] \in 0 .. Round - 1
      /\ (Ticks[MaxSamples] - Ticks[0]) * 1000 < TicksPerSec * Round
  BY SignalAssumption, HistoryAssumption DEF Round
<1> HIDE DEF Round
<1>2. \A m \in 1..MaxSamples : Ticks[m - 1] <= Ticks[m]
  <2>1. ASSUME NEW m \in 1..MaxSamples PROVE Ticks[m - 1] <= Ticks[m]
    <3>1. m \in 0..MaxSamples /\ m - 1 \in 0..MaxSamples
      BY <1>1
    <3>2. Ticks[m] \in Nat /\ Ticks[m - 1] \in Nat
      BY <1>1, <3>1
    <3> QED  BY <1>1, <3>2
  <2> QED  BY <2>1
<1>3. Round > 0
  <2>1. CASE MaxSamples = 0
    <3>1. Ticks[0] \in Nat
      BY <1>1, <2>1
    <3>2. 0 < TicksPerSec * Round
      BY <1>1, <2>1, <3>1
    <3> QED  BY <1>1, <3>2
  <2>2. CASE MaxSamples # 0
    <3>1. 1 \in 1..MaxSamples
      BY <1>1, <2>2
    <3> QED  BY <1>1, <3>1
  <2> QED  BY <2>1, <2>2
<1> QED  BY <1>1, <1>2, <1>3

LEMMA TimePasses ==
  ASSUME NEW m \in 0..MaxSamples, NEW n \in 0..MaxSamples, m <= n
  PROVE  Ticks[m] <= Ticks[n]
<1> DEFINE B == {k \in Nat : m + k <= MaxSamples => Ticks[m] <= Ticks[m + k]}
<1>1. m \in Nat /\ n \in Nat /\ MaxSamples \in Nat
  BY Clock
<1>2. 0 \in B
  BY <1>1, Clock
<1>3. ASSUME NEW k \in Nat, k \in B PROVE k + 1 \in B
  <2> SUFFICES ASSUME m + (k + 1) <= MaxSamples
               PROVE  Ticks[m] <= Ticks[m + (k + 1)]
    OBVIOUS
  <2> DEFINE next == m + (k + 1)
  <2>1. /\ next \in 1..MaxSamples /\ next - 1 = m + k
        /\ m + k \in 0..MaxSamples /\ next \in 0..MaxSamples
    BY <1>1
  <2>2. Ticks[m] <= Ticks[m + k]
    BY <1>3, <2>1
  <2> HIDE DEF next
  <2>3. Ticks[m + k] <= Ticks[next]
    BY <2>1, Clock
  <2>4. Ticks[m] \in Nat /\ Ticks[m + k] \in Nat /\ Ticks[next] \in Nat
    BY <2>1, Clock
  <2>5. Ticks[m] <= Ticks[next]
    BY <2>2, <2>3, <2>4
  <2> QED  BY <2>5 DEF next
<1> HIDE DEF B
<1>4. n - m \in B
  <2>1. n - m \in Nat
    BY <1>1
  <2> QED  BY <1>2, <1>3, <2>1, Induction
<1>5. m + (n - m) = n /\ n <= MaxSamples
  BY <1>1
<1> QED  BY <1>4, <1>5 DEF B

\* Differences of readings wrap round with the clock.
LEMMA DifferenceWraps ==
  ASSUME NEW a \in Nat, NEW b \in Nat, NEW c \in Nat \ {0},
         b - a \in 0 .. c - 1
  PROVE  ((b % c) - (a % c)) % c = b - a
<1> DEFINE q == a \div c
           r == a % c
           s == b \div c
           u == b % c
<1>1. /\ q \in Nat /\ r \in 0 .. c - 1 /\ a = q * c + r
      /\ s \in Nat /\ u \in 0 .. c - 1 /\ b = s * c + u
  OBVIOUS
<1> HIDE DEF q, r, s, u
<1>2. ASSUME NEW x \in 0 .. c - 1 PROVE x % c = x /\ (x - c) % c = x
  BY <1>2
<1>3. b - a = (s - q) * c + (u - r)
  BY <1>1
<1>4. u - r = b - a \/ u - r = (b - a) - c
  <2>1. ASSUME s - q <= -1 PROVE FALSE
    <3>1. (s - q) * c <= -c
      BY <1>1, <2>1
    <3> QED  BY <1>1, <1>3, <3>1
  <2>2. ASSUME s - q >= 2 PROVE FALSE
    <3>1. (s - q) * c >= 2 * c
      BY <1>1, <2>2
    <3> QED  BY <1>1, <1>3, <3>1
  <2>3. s - q = 0 \/ s - q = 1
    BY <1>1, <2>1, <2>2
  <2>4. CASE s - q = 0
    BY <1>1, <1>3, <2>4
  <2>5. CASE s - q = 1
    BY <1>1, <1>3, <2>5
  <2> QED  BY <2>3, <2>4, <2>5
<1>5. (u - r) % c = b - a
  BY <1>2, <1>4
<1> QED  BY <1>5 DEF u, r

\* What a sample adds to the sum in 64 bits, and the sums up to it.
Step(m) == (SysTimestamp(m) - SysTimestamp(m - 1)) % 2^UintBits

IsSum64(f, n) ==
  f = [m \in 0..n |-> IF m = 0 THEN 0 ELSE f[m - 1] + Step(m)]

LEMMA StepIsTime ==
  ASSUME NEW m \in 1..MaxSamples
  PROVE  Step(m) = Ticks[m] - Ticks[m - 1]
<1>1. m \in 0..MaxSamples /\ m - 1 \in 0..MaxSamples
  BY Clock
<1>2. /\ Ticks[m] \in Nat /\ Ticks[m - 1] \in Nat /\ Round \in Nat \ {0}
      /\ Ticks[m] - Ticks[m - 1] \in 0 .. Round - 1
  BY <1>1, Clock
<1>3. Step(m) = ((Ticks[m] % Round) - (Ticks[m - 1] % Round)) % Round
  BY DEF Step, SysTimestamp, Round
<1> QED  BY <1>2, <1>3, DifferenceWraps

LEMMA Sum64IsTime ==
  ASSUME NEW n \in 0..MaxSamples, NEW f, IsSum64(f, n)
  PROVE  f[n] = Ticks[n] - Ticks[0]
<1> DEFINE B == {m \in Nat : m <= n => f[m] = Ticks[m] - Ticks[0]}
<1>0. n \in Nat /\ MaxSamples \in Nat /\ n <= MaxSamples
  BY Clock
<1>1. 0 \in B
  <2>1. f[0] = 0 /\ Ticks[0] \in Nat
    BY <1>0, Clock DEF IsSum64
  <2> QED  BY <2>1
<1>2. ASSUME NEW m \in Nat, m \in B PROVE m + 1 \in B
  <2> SUFFICES ASSUME m + 1 <= n PROVE f[m + 1] = Ticks[m + 1] - Ticks[0]
    OBVIOUS
  <2>1. /\ m + 1 \in 0..n /\ m + 1 # 0 /\ (m + 1) - 1 = m
        /\ m + 1 \in 1..MaxSamples /\ m \in 0..MaxSamples
        /\ m + 1 \in 0..MaxSamples /\ 0 \in 0..MaxSamples
    BY <1>0
  <2>2. f[m + 1] = f[m] + Step(m + 1)
    BY <2>1 DEF IsSum64
  <2>3. Step(m + 1) = Ticks[m + 1] - Ticks[m]
    BY <2>1, StepIsTime
  <2>4. f[m] = Ticks[m] - Ticks[0]
    BY <1>0, <1>2, <2>1
  <2>5. Ticks[m] \in Nat /\ Ticks[m + 1] \in Nat /\ Ticks[0] \in Nat
    BY <2>1, Clock
  <2> QED  BY <2>2, <2>3, <2>4, <2>5
<1> HIDE DEF B
<1>3. n \in B
  BY <1>0, <1>1, <1>2, Induction
<1> QED  BY <1>0, <1>3 DEF B

\* There is such a sum: the time since the start.
LEMMA Sum64Exists ==
  ASSUME NEW n \in 0..MaxSamples
  PROVE  \E f : IsSum64(f, n)
<1> DEFINE f == [m \in 0..n |-> Ticks[m] - Ticks[0]]
<1>0. n \in Nat /\ MaxSamples \in Nat /\ n <= MaxSamples
  BY Clock
<1>1. ASSUME NEW m \in 0..n
      PROVE  f[m] = IF m = 0 THEN 0 ELSE f[m - 1] + Step(m)
  <2>1. m \in 0..MaxSamples /\ 0 \in 0..MaxSamples
    BY <1>0
  <2>2. Ticks[m] \in Nat /\ Ticks[0] \in Nat
    BY <2>1, Clock
  <2>3. CASE m = 0
    BY <2>2, <2>3
  <2>4. CASE m # 0
    <3>1. m \in 1..MaxSamples /\ m - 1 \in 0..n /\ m - 1 \in 0..MaxSamples
      BY <1>0, <2>4
    <3>2. Step(m) = Ticks[m] - Ticks[m - 1] /\ Ticks[m - 1] \in Nat
      BY <3>1, StepIsTime, Clock
    <3> QED  BY <2>2, <2>4, <3>1, <3>2
  <2> QED  BY <2>3, <2>4
<1>2. f = [m \in 0..n |-> f[m]]
  OBVIOUS
<1> HIDE DEF f
<1>3. IsSum64(f, n)
  BY <1>1, <1>2 DEF IsSum64
<1> QED  BY <1>3

(***************************************************************************)
(* However often the clock has gone round, a timestamp of                  *)
(* update_statistics is the time since the start (statistics_updater.c:    *)
(* 20-28).                                                                 *)
(***************************************************************************)
LEMMA TimestampIsElapsed ==
  ASSUME NEW n \in 0..MaxSamples
  PROVE  Timestamp(n) = Elapsed(n)
<1> DEFINE f == CHOOSE f : IsSum64(f, n)
           ticks == Ticks[n] - Ticks[0]
<1>1. IsSum64(f, n)
  BY Sum64Exists
<1>2. Timestamp(n) = ((f[n] * 1000) \div TicksPerSec) % Round
  BY DEF Timestamp, IsSum64, Step, Round
<1>3. f[n] = ticks
  BY <1>1, Sum64IsTime
<1>4. /\ ticks \in Nat /\ ticks * 1000 < TicksPerSec * Round
      /\ Round \in Nat \ {0} /\ TicksPerSec \in Nat \ {0}
  <2>1. 0 \in 0..MaxSamples /\ MaxSamples \in 0..MaxSamples /\ n <= MaxSamples
        /\ 0 <= n
    BY Clock
  <2>2. Ticks[0] <= Ticks[n] /\ Ticks[n] <= Ticks[MaxSamples]
    BY <2>1, TimePasses
  <2>3. Ticks[0] \in Nat /\ Ticks[n] \in Nat /\ Ticks[MaxSamples] \in Nat
    BY <2>1, Clock
  <2>4. (Ticks[MaxSamples] - Ticks[0]) * 1000 < TicksPerSec * Round
        /\ Round \in Nat \ {0} /\ TicksPerSec \in Nat \ {0}
    BY Clock
  <2> QED  BY <2>2, <2>3, <2>4
<1> HIDE DEF ticks, f, Round
<1> DEFINE ms == ticks * 1000
<1>5. ASSUME NEW a \in Nat, NEW b \in Nat \ {0}, NEW c \in Nat \ {0}, a < b * c
      PROVE  (a \div b) % c = a \div b
  <2>1. a \div b \in Nat /\ b * (a \div b) <= a
    BY <1>5
  <2>2. a \div b < c
    <3>1. ASSUME a \div b >= c PROVE FALSE
      <4>1. b * (a \div b) >= b * c
        BY <2>1, <3>1
      <4> QED  BY <1>5, <2>1, <4>1
    <3> QED  BY <2>1, <3>1
  <2> QED  BY <2>1, <2>2
<1>6. ms \in Nat /\ ms < TicksPerSec * Round
  BY <1>4
<1> HIDE DEF ms
<1>7. (ms \div TicksPerSec) % Round = ms \div TicksPerSec
  BY <1>4, <1>5, <1>6
<1> QED  BY <1>2, <1>3, <1>7 DEF Elapsed, ticks, ms

-----------------------------------------------------------------------------
(* The axis                                                                *)

\* No more samples are taken than the bound of the runs.
TakenInv ==
  /\ written <= MaxSamples /\ taken <= MaxSamples
  /\ "index" \in pending => written < MaxSamples

LEMMA TakenNext == TypeOK /\ TakenInv /\ [Next]_vars => TakenInv'
<1> SUFFICES ASSUME TypeOK, TakenInv, [Next]_vars PROVE TakenInv'
  OBVIOUS
<1> USE HistoryAssumption DEF TypeOK, TakenInv
<1>1. CASE BeginSample
  BY <1>1 DEF BeginSample
<1>2. CASE StoreIndex
  <2>1. "index" \in pending
    BY <1>2 DEF StoreIndex, MayStore
  <2> QED  BY <1>2, <2>1 DEF StoreIndex
<1>3. ASSUME NEW f \in Fields, StoreField(f) PROVE TakenInv'
  BY <1>3 DEF StoreField
<1>4. CASE TakeWindow
  BY <1>4 DEF TakeWindow, writer
<1>5. CASE CopyField \/ CopyEnds \/ Plotted \/ UNCHANGED vars
  BY <1>5 DEF CopyField, CopyEnds, Plotted, vars, writer
<1> QED
  BY <1>1, <1>2, <1>3, <1>4, <1>5 DEF Next, Writer, Reader

\* The ends of the window.
LEMMA EntriesEnds ==
  Min(Entries) = 0 /\ Max(Entries) = HISTORY_SIZE - 1
<1>1. /\ Entries \in SUBSET Int
      /\ 0 \in Entries /\ HISTORY_SIZE - 1 \in Entries
      /\ \A n \in Entries : 0 <= n /\ HISTORY_SIZE - 1 >= n
  BY Sizes DEF Entries
<1> HIDE DEF Entries
<1> QED  BY <1>1, GreatestIs, LeastIs

\* The axis that the window's samples ask for.
AxisOfWindow == [min |-> Float[One * Elapsed(Expected(0))],
                 max |-> Float[One * Elapsed(Expected(HISTORY_SIZE - 1))]]

\* The times of a copy on the writer's core.
LEMMA TimesOfCopy ==
  ASSUME TypeOK, TakenInv, SnapshotExact, reader.pc = "plot", core = "same",
         NEW n \in Entries
  PROVE  /\ Expected(n) \in 0..MaxSamples
         /\ Floats("timestamp")[n] = Float[One * Elapsed(Expected(n))]
<1> DEFINE x == Floats("timestamp")
<1>1. copy[n]["timestamp"] = Expected(n)
  BY DEF SnapshotExact, Fields
<1>2. Expected(n) \in 0..MaxSamples
  BY Sizes, HistoryAssumption DEF Expected, Entries, TypeOK, TakenInv
<1>3. Timestamp(Expected(n)) = Elapsed(Expected(n))
  BY <1>2, TimestampIsElapsed
<1>4. x[n] = Float[One * Timestamp(copy[n]["timestamp"])]
  BY DEF Floats
<1> QED  BY <1>1, <1>2, <1>3, <1>4

LEMMA AxisOfCopy ==
  ASSUME TypeOK, TakenInv, SnapshotExact, reader.pc = "plot", core = "same"
  PROVE  Ends(Floats("timestamp")) = AxisOfWindow
<1> DEFINE x == Floats("timestamp")
<1>1. \A n \in Entries : x[n] = Float[One * Elapsed(Expected(n))]
  BY TimesOfCopy
<1>2. DOMAIN x = Entries /\ 0 \in Entries /\ HISTORY_SIZE - 1 \in Entries
  BY Sizes DEF Floats, Entries
<1> HIDE DEF x
<1>3. Ends(x) = [min |-> x[0], max |-> x[HISTORY_SIZE - 1]]
  BY <1>2, EntriesEnds DEF Ends
<1> QED  BY <1>1, <1>2, <1>3 DEF AxisOfWindow, x

(***************************************************************************)
(* A plot is drawn from a copy, and its axis of time is the window's.      *)
(***************************************************************************)
AxisInv ==
  place # "begin" =>
    /\ reader.pc = "plot"
    /\ core = "same" => xRange = AxisOfWindow

LEMMA AxisNext ==
  TypeOK /\ TakenInv /\ SnapshotExact /\ AxisInv /\ [PageNext]_pageVars
    => AxisInv'
<1> SUFFICES ASSUME TypeOK, TakenInv, SnapshotExact, AxisInv,
                    [PageNext]_pageVars, place' # "begin"
             PROVE  /\ reader'.pc = "plot"
                    /\ core' = "same" => xRange' = AxisOfWindow'
  BY DEF AxisInv
<1>w. taken' = taken => AxisOfWindow' = AxisOfWindow
  BY DEF AxisOfWindow, Expected
<1>1. CASE Copying
  BY <1>1 DEF Copying, AxisInv, plotVars
<1>2. CASE SampleEnds
  <2>1. UNCHANGED <<reader, taken, core, place, xRange>>
    BY <1>2 DEF SampleEnds, StoreIndex, StoreField, plotVars
  <2> QED  BY <1>w, <2>1 DEF AxisInv
<1>3. CASE Drawing
  <2>1. place # "axes"
    BY <1>3 DEF Drawing, Plot, Begin, VerticalLine, VerticalsEnd,
                HorizontalLine, HorizontalsEnd, Data, Axes
  <2>2. reader.pc = "plot" /\ UNCHANGED <<reader, taken, core>>
    BY <1>3, <2>1 DEF Drawing, vars
  <2>3. CASE place = "begin"
    <3>1. xRange' = Ends(Floats("timestamp"))
      BY <1>3, <2>3 DEF Drawing, Plot, Begin, VerticalLine, VerticalsEnd,
                        HorizontalLine, HorizontalsEnd, Data, Axes
    <3> QED  BY <1>w, <2>2, <3>1, AxisOfCopy
  <2>4. CASE place # "begin"
    <3>1. xRange' = xRange
      BY <1>3, <2>1, <2>4
         DEF Drawing, Plot, Begin, VerticalLine, VerticalsEnd,
             HorizontalLine, HorizontalsEnd, Data, Axes
    <3> QED  BY <1>w, <2>2, <2>4, <3>1 DEF AxisInv
  <2> QED  BY <2>3, <2>4
<1>4. CASE UNCHANGED pageVars
  BY <1>4, <1>w DEF pageVars, vars, plotVars, AxisInv
<1> QED  BY <1>1, <1>2, <1>3, <1>4 DEF PageNext

(***************************************************************************)
(* Whatever the clock's width and frequency and however often it goes      *)
(* round, the axis of every plot on the writer's core spans the window of  *)
(* the request in milliseconds since the start, provided that the copy is  *)
(* quick enough (statistics_updater.c:20-28, svg_generator.c:28-37).       *)
(***************************************************************************)
THEOREM AxisIsAlwaysTime ==
  ASSUME MaxLag <= Gap
  PROVE  PageSpec => []AxisIsTime
<1> DEFINE PageInv == Inv /\ TakenInv /\ AxisInv
<1>1. Inv => TypeOK /\ SnapshotExact
  BY DEF Inv, CopyInv, SnapshotExact, Allowed
<1>2. PageInit => PageInv
  <2> SUFFICES ASSUME PageInit PROVE PageInv
    OBVIOUS
  <2>1. written = 0 /\ taken = 0 /\ pending = {} /\ place = "begin"
    BY DEF PageInit, Init, PlotInit
  <2> QED  BY <2>1, InvInit, HistoryAssumption
              DEF PageInit, TakenInv, AxisInv
<1>3. PageInv /\ [PageNext]_pageVars => PageInv'
  BY <1>1, PageSteps, InvNext, TakenNext, AxisNext
<1>4. PageInv => AxisIsTime
  BY DEF AxisInv, AxisIsTime, AxisOfWindow
<1> HIDE DEF PageInv
<1> QED  BY <1>2, <1>3, <1>4, PTL DEF PageSpec

-----------------------------------------------------------------------------
(* The grids                                                               *)

Curves == {"position", "desired", "pwm"}

(***************************************************************************)
(* While a plot is drawn the copy stays, the ranges are those of its       *)
(* arrays, and lines of a grid are floats in its range or behind it.  (To  *)
(* a reader on another core the axis of time may be upside down: then the  *)
(* first vertical line is already behind its end.)                         *)
(***************************************************************************)
DrawInv ==
  /\ curve \in Curves
  /\ scaled = (place = "data")
  /\ place # "begin" =>
       /\ reader.pc = "plot"
       /\ xRange = Ends(Floats("timestamp"))
       /\ yRange = MaxMin(Floats(curve))
  /\ place = "vertical" =>
       IsFloat(t) /\ (xRange.min <= t \/ xRange.max <= t)
  /\ place = "horizontal" => IsFloat(t) /\ yRange.min <= t

\* Every number that is copied is that of a sample, or 0.
LEMMA CopiedSamples ==
  ASSUME TypeOK, TakenInv, CopyInv, reader.pc = "plot",
         NEW n \in Entries, NEW f \in Fields
  PROVE  copy[n][f] \in 0..MaxSamples
<1>1. copy[n][f] \in Allowed(n)
  BY DEF CopyInv
<1>2. /\ Expected(n) \in 0..MaxSamples
      /\ Replaced(taken) \in 0..MaxSamples
  BY Sizes, HistoryAssumption
     DEF Expected, Replaced, Entries, TypeOK, TakenInv
<1> QED  BY <1>1, <1>2 DEF Allowed

\* Time is counted in whole milliseconds, and does not go back.
LEMMA ElapsedGrows ==
  ASSUME NEW m \in 0..MaxSamples
  PROVE  /\ Elapsed(m) \in Nat
         /\ \A n \in 0..MaxSamples : m <= n => Elapsed(m) <= Elapsed(n)
<1>1. ASSUME NEW a \in Nat, NEW b \in Nat, NEW c \in Nat \ {0}, a <= b
      PROVE  a \div c \in Nat /\ a \div c <= b \div c
  <2>1. /\ a \div c \in Nat /\ c * (a \div c) <= a
        /\ b \div c \in Nat /\ b < c * (b \div c) + c
    OBVIOUS
  <2> DEFINE p == a \div c
             q == b \div c
  <2>2. p \in Nat /\ q \in Nat /\ c * p < c * q + c
    BY <1>1, <2>1
  <2> HIDE DEF p, q
  <2>3. ASSUME q + 1 <= p PROVE FALSE
    <3>1. q * c + c <= p * c
      BY <2>2, <2>3, Multiples
    <3> QED  BY <2>2, <3>1
  <2>4. p <= q
    BY <2>2, <2>3
  <2> QED  BY <2>2, <2>4 DEF p, q
<1>2. ASSUME NEW n \in 0..MaxSamples PROVE Ticks[n] - Ticks[0] \in Nat
  <2>1. MaxSamples \in Nat /\ 0 \in 0..MaxSamples /\ 0 <= n
    BY Clock
  <2>2. Ticks[0] <= Ticks[n] /\ Ticks[0] \in Nat /\ Ticks[n] \in Nat
    BY <2>1, TimePasses, Clock
  <2> QED  BY <2>2
<1>3. ASSUME NEW n \in 0..MaxSamples, m <= n
      PROVE  Elapsed(m) \in Nat /\ Elapsed(m) <= Elapsed(n)
  <2> DEFINE a == (Ticks[m] - Ticks[0]) * 1000
             b == (Ticks[n] - Ticks[0]) * 1000
  <2>1. 0 \in 0..MaxSamples /\ TicksPerSec \in Nat \ {0}
    BY Clock
  <2>2. Ticks[m] \in Nat /\ Ticks[n] \in Nat /\ Ticks[0] \in Nat
    BY <2>1, Clock
  <2>3. Ticks[m] <= Ticks[n]
    BY <1>3, TimePasses
  <2>4. a \in Nat /\ b \in Nat /\ a <= b
    BY <1>2, <2>2, <2>3
  <2>5. Elapsed(m) = a \div TicksPerSec /\ Elapsed(n) = b \div TicksPerSec
    BY DEF Elapsed
  <2> HIDE DEF a, b
  <2> QED  BY <1>1, <2>1, <2>4, <2>5
<1>4. m <= m
  BY Clock
<1> QED  BY <1>3, <1>4

(***************************************************************************)
(* The arrays that are plotted hold floats.                                *)
(***************************************************************************)
LEMMA FloatsAreFloats ==
  ASSUME TypeOK, TakenInv, CopyInv, reader.pc = "plot", NEW f \in Fields
  PROVE  DOMAIN Floats(f) = Entries /\ \A n \in Entries : IsFloat(Floats(f)[n])
<1>1. ASSUME NEW n \in Entries PROVE IsFloat(Floats(f)[n])
  <2> DEFINE c == copy[n][f]
             v == IF f = "timestamp" THEN Timestamp(c) ELSE Signal[f][c]
  <2>1. c \in 0..MaxSamples
    BY CopiedSamples
  <2>2. Floats(f)[n] = Float[One * v]
    BY DEF Floats
  <2> HIDE DEF c
  <2>3. v \in Int
    <3>1. CASE f = "timestamp"
      BY <2>1, <3>1, TimestampIsElapsed, ElapsedGrows
    <3>2. CASE f # "timestamp"
      <4>1. Signal[f] \in [0..MaxSamples -> Int]
        BY <3>2, SignalAssumption
      <4> QED  BY <2>1, <3>2, <4>1
    <3> QED  BY <3>1, <3>2
  <2>4. One \in Int
    BY HalfIs
  <2> HIDE DEF v
  <2>5. One * v \in Int
    BY <2>3, <2>4
  <2> QED  BY <2>2, <2>5, RoundedIsFloat
<1>2. DOMAIN Floats(f) = Entries
  BY DEF Floats
<1> QED  BY <1>1, <1>2

\* So their ranges do.
LEMMA RangesAreFloats ==
  ASSUME TypeOK, TakenInv, CopyInv, reader.pc = "plot", curve \in Curves
  PROVE  LET x == Floats("timestamp")
             y == Floats(curve)
         IN  /\ IsFloat(Ends(x).min) /\ IsFloat(Ends(x).max)
             /\ IsFloat(MaxMin(y).min) /\ IsFloat(MaxMin(y).max)
             /\ \A n \in Entries : y[n] \in MaxMin(y).min .. MaxMin(y).max
             /\ MaxMin(y).min <= MaxMin(y).max
<1> DEFINE x == Floats("timestamp")
           y == Floats(curve)
           N == HISTORY_SIZE - 1
<1>1. N \in Nat /\ Entries = 0..N /\ 0 \in Entries /\ N \in Entries
  BY Sizes DEF Entries
<1>2. DOMAIN x = Entries /\ \A n \in Entries : IsFloat(x[n])
  BY FloatsAreFloats DEF Fields
<1>3. DOMAIN y = Entries /\ \A n \in Entries : IsFloat(y[n])
  BY FloatsAreFloats DEF Fields, Curves
<1>4. Ends(x).min = x[0] /\ Ends(x).max = x[N]
  <2> HIDE DEF x
  <2> QED  BY <1>2, EntriesEnds DEF Ends
<1> HIDE DEF x, y, N
<1>5. /\ IsFloat(MaxMin(y).min) /\ IsFloat(MaxMin(y).max)
      /\ \A n \in Entries : y[n] \in MaxMin(y).min .. MaxMin(y).max
      /\ MaxMin(y).min <= MaxMin(y).max
  BY <1>1, <1>3, MaxMinIs
<1>6. IsFloat(x[0]) /\ IsFloat(x[N])
  BY <1>1, <1>2
<1> QED  BY <1>4, <1>5, <1>6 DEF x, y

\* The ranges of a plot that is being drawn.
LEMMA DrawnRanges ==
  ASSUME TypeOK, TakenInv, CopyInv, DrawInv, place # "begin"
  PROVE  /\ IsFloat(xRange.min) /\ IsFloat(xRange.max)
         /\ IsFloat(yRange.min) /\ IsFloat(yRange.max)
         /\ xRange.min \in Int /\ xRange.max \in Int
         /\ yRange.min \in Int /\ yRange.max \in Int
         /\ yRange.min <= yRange.max
BY RangesAreFloats DEF DrawInv, IsFloat

\* A step of a plot does not touch the copy but when the page is complete.
LEMMA DrawingKeeps ==
  ASSUME Drawing
  PROVE  /\ reader.pc = "plot" /\ core' = core
         /\ place # "axes" => /\ UNCHANGED <<reader, copy, taken, curve>>
                              /\ \A f \in Fields : Floats(f)' = Floats(f)
<1>1. core' = core
  BY DEF Drawing, Plotted, vars
<1>2. ASSUME place # "axes" PROVE UNCHANGED <<reader, copy, taken, curve>>
  BY <1>2 DEF Drawing, vars
<1>3. copy' = copy => \A f \in Fields : Floats(f)' = Floats(f)
  BY DEF Floats
<1> QED  BY <1>1, <1>2, <1>3 DEF Drawing

LEMMA DrawNext ==
  TypeOK /\ TakenInv /\ CopyInv /\ DrawInv /\ [PageNext]_pageVars => DrawInv'
<1> SUFFICES ASSUME TypeOK, TakenInv, CopyInv, DrawInv, [PageNext]_pageVars
             PROVE  DrawInv'
  OBVIOUS
<1>f. copy' = copy => \A f \in Fields : Floats(f)' = Floats(f)
  BY DEF Floats
<1>c. Curves \subseteq Fields /\ "timestamp" \in Fields
  BY DEF Curves, Fields
<1>1. CASE Copying
  BY <1>1 DEF Copying, plotVars, DrawInv
<1>2. CASE SampleEnds \/ UNCHANGED pageVars
  <2>1. UNCHANGED <<reader, copy, plotVars, curve>>
    BY <1>2 DEF SampleEnds, StoreIndex, StoreField, pageVars, vars
  <2> QED  BY <1>f, <1>c, <2>1 DEF DrawInv, plotVars
<1>3. CASE Drawing
  <2>1. curve' \in Curves
    BY <1>3 DEF DrawInv, Drawing, NextCurve, Curves
  <2>2. CASE place # "axes"
    <3>0. /\ reader.pc = "plot" /\ reader' = reader /\ curve' = curve
          /\ Floats("timestamp")' = Floats("timestamp")
          /\ Floats(curve)' = Floats(curve)
      <4>1. /\ reader.pc = "plot" /\ UNCHANGED <<reader, copy, curve>>
            /\ \A f \in Fields : Floats(f)' = Floats(f)
        BY <1>3, <2>2, DrawingKeeps
      <4>2. Floats(curve)' = [n \in Entries |-> Float[One * IF curve = "timestamp"
                  THEN Timestamp(copy[n][curve]) ELSE Signal[curve][copy[n][curve]]]]
        BY <4>1 DEF Floats
      <4> QED  BY <4>1, <4>2, <1>c DEF Floats
    <3>1. CASE Begin(Floats("timestamp"), Floats(curve))
      <4>1. /\ xRange' = Ends(Floats("timestamp")) /\ yRange' = MaxMin(Floats(curve))
            /\ place' = "vertical" /\ scaled' = FALSE
            /\ t' = Advance(xRange'.min, Float[Tenth(xRange')])
        BY <3>1 DEF Begin
      <4>2. IsFloat(xRange'.min) /\ IsFloat(xRange'.max)
        BY <3>0, <4>1, RangesAreFloats DEF DrawInv
      <4>3. IsFloat(t') /\ (xRange'.min <= t' \/ xRange'.max <= t')
        BY <4>1, <4>2, FirstLine
      <4> QED  BY <2>1, <3>0, <4>1, <4>3 DEF DrawInv
    <3>2. CASE VerticalLine
      <4>1. /\ place = "vertical" /\ t < xRange.max
            /\ t' = Advance(t, Float[Tenth(xRange)])
            /\ UNCHANGED <<place, xRange, yRange, scaled>>
        BY <3>2 DEF VerticalLine
      <4>2. /\ IsFloat(xRange.min) /\ xRange.min \in Int /\ xRange.max \in Int
        BY <4>1, DrawnRanges
      <4>3. IsFloat(t) /\ t \in Int /\ xRange.min <= t
        BY <4>1, <4>2 DEF DrawInv, IsFloat
      <4>4. IsFloat(t') /\ xRange.min <= t'
        BY <4>1, <4>2, <4>3, NextLine
      <4> QED  BY <2>1, <3>0, <4>1, <4>4 DEF DrawInv
    <3>3. CASE VerticalsEnd
      <4>1. /\ place = "vertical" /\ place' = "horizontal"
            /\ t' = Advance(yRange.min, Float[Tenth(yRange)])
            /\ UNCHANGED <<xRange, yRange, scaled>>
        BY <3>3 DEF VerticalsEnd
      <4>2. /\ IsFloat(yRange.min) /\ IsFloat(yRange.max)
            /\ yRange.min <= yRange.max
        BY <4>1, DrawnRanges
      <4>3. IsFloat(t') /\ yRange.min <= t'
        BY <4>1, <4>2, FirstLine
      <4> QED  BY <2>1, <3>0, <4>1, <4>3 DEF DrawInv
    <3>4. CASE HorizontalLine
      <4>1. /\ place = "horizontal" /\ t < yRange.max
            /\ t' = Advance(t, Tenth(yRange))
            /\ UNCHANGED <<place, xRange, yRange, scaled>>
        BY <3>4 DEF HorizontalLine
      <4>2. /\ IsFloat(yRange.min) /\ yRange.min \in Int /\ yRange.max \in Int
        BY <4>1, DrawnRanges
      <4>3. IsFloat(t) /\ yRange.min <= t
        BY <4>1 DEF DrawInv
      <4>4. IsFloat(t') /\ yRange.min <= t'
        BY <4>1, <4>2, <4>3, NextLine
      <4> QED  BY <2>1, <3>0, <4>1, <4>4 DEF DrawInv
    <3>5. CASE HorizontalsEnd
      BY <2>1, <3>0, <3>5 DEF DrawInv, HorizontalsEnd
    <3>6. CASE Data(Floats("timestamp"), Floats(curve))
      BY <2>1, <3>0, <3>6 DEF DrawInv, Data
    <3> QED
      BY <1>3, <2>2, <3>1, <3>2, <3>3, <3>4, <3>5, <3>6
         DEF Drawing, Plot, Axes
  <2>3. CASE place = "axes"
    <3>1. place' = "begin" /\ scaled' = scaled /\ scaled = FALSE
      BY <1>3, <2>3
         DEF Drawing, Plot, Begin, VerticalLine, VerticalsEnd, HorizontalLine,
             HorizontalsEnd, Data, Axes, DrawInv
    <3> QED  BY <2>1, <3>1 DEF DrawInv
  <2> QED  BY <2>2, <2>3
<1> QED  BY <1>1, <1>2, <1>3 DEF PageNext

\* What the grids and the places of what is drawn need of the history.
DrawnFrom == Inv /\ TakenInv /\ DrawInv

LEMMA DrawnFromInit == PageInit => DrawnFrom
<1> SUFFICES ASSUME PageInit PROVE DrawnFrom
  OBVIOUS
<1>1. /\ written = 0 /\ taken = 0 /\ pending = {}
      /\ place = "begin" /\ scaled = FALSE /\ curve = "position"
  BY DEF PageInit, Init, PlotInit
<1>2. Inv
  BY InvInit DEF PageInit
<1>3. TakenInv
  BY <1>1, HistoryAssumption DEF TakenInv
<1>4. DrawInv
  BY <1>1 DEF DrawInv, Curves
<1> QED  BY <1>2, <1>3, <1>4 DEF DrawnFrom

LEMMA DrawnFromNext ==
  ASSUME MaxLag <= Gap
  PROVE  DrawnFrom /\ [PageNext]_pageVars => DrawnFrom'
<1>1. Inv => TypeOK /\ CopyInv
  BY DEF Inv
<1> QED  BY <1>1, PageSteps, InvNext, TakenNext, DrawNext DEF DrawnFrom

(***************************************************************************)
(* Whatever the samples, the precision and the core, no line of a grid is  *)
(* drawn twice, as long as a tenth of the range is more than half of the   *)
(* distance between the floats at its ends (svg_generator.c:385, :408).    *)
(***************************************************************************)
THEOREM LinesAlwaysAdvance ==
  ASSUME MaxLag <= Gap
  PROVE  PageSpec => LinesAdvance
<1> DEFINE LineMoves == /\ VerticalLine /\ FineEnough(xRange) => t' > t
                        /\ HorizontalLine /\ FineEnough(yRange) => t' > t
<1>1. DrawnFrom => LineMoves
  <2> SUFFICES ASSUME DrawnFrom PROVE LineMoves
    OBVIOUS
  <2>0. TypeOK /\ TakenInv /\ CopyInv /\ DrawInv
    BY DEF DrawnFrom, Inv
  <2>1. ASSUME NEW range, IsFloat(range.min),
               range.min \in Int, range.max \in Int, IsFloat(t),
               range.min <= t, t < range.max, FineEnough(range),
               NEW by \in {Tenth(range), Float[Tenth(range)]}
        PROVE  Advance(t, by) > t
    <3>1. range.min <= range.max /\ range.min # range.max
      BY <2>1 DEF IsFloat
    <3>2. Span(range) \in Nat /\ Span(range) # 0
      BY <2>1, <3>1, SpanIs
    <3>3. 2 * Float[Tenth(range)] > Max({Ulp[range.min], Ulp[range.max]})
      BY <2>1, <3>2 DEF FineEnough
    <3> QED  BY <2>1, <3>3, NextLine
  <2>2. ASSUME VerticalLine, FineEnough(xRange) PROVE t' > t
    <3>1. /\ place = "vertical" /\ t < xRange.max
          /\ t' = Advance(t, Float[Tenth(xRange)])
      BY <2>2 DEF VerticalLine
    <3>2. IsFloat(xRange.min) /\ xRange.min \in Int /\ xRange.max \in Int
      BY <2>0, <3>1, DrawnRanges
    <3>3. IsFloat(t) /\ xRange.min <= t
      BY <2>0, <3>1, <3>2 DEF DrawInv, IsFloat
    <3> QED  BY <2>1, <2>2, <3>1, <3>2, <3>3
  <2>3. ASSUME HorizontalLine, FineEnough(yRange) PROVE t' > t
    <3>1. /\ place = "horizontal" /\ t < yRange.max
          /\ t' = Advance(t, Tenth(yRange))
      BY <2>3 DEF HorizontalLine
    <3>2. IsFloat(yRange.min) /\ yRange.min \in Int /\ yRange.max \in Int
      BY <2>0, <3>1, DrawnRanges
    <3>3. IsFloat(t) /\ yRange.min <= t
      BY <2>0, <3>1 DEF DrawInv
    <3> QED  BY <2>1, <2>3, <3>1, <3>2, <3>3
  <2> QED  BY <2>2, <2>3
<1> QED
  BY <1>1, DrawnFromInit, DrawnFromNext, PTL DEF PageSpec, LinesAdvance

\* No signal is so far from 0 that floats there are too coarse for a grid.
SmallSignals ==
  \A f \in Fields \ {"timestamp"}, n \in 0..MaxSamples :
    AbsVal(Signal[f][n]) <= Pow2[Precision - 4]

\* Whole numbers of that size are floats.
LEMMA SmallFloat ==
  ASSUME NEW a \in Int, AbsVal(a) <= Pow2[Precision - 4]
  PROVE  Float[One * a] = One * a
<1> DEFINE q == Pow2[Precision - 4]
           v == One * a
<1>1. q \in Nat \ {0} /\ Half = 8 * q /\ One = 1280 * q /\ Half \in Nat
  BY HalfOfWide, HalfIs
<1> HIDE DEF q
<1>2. v \in Int /\ AbsVal(v) = One * AbsVal(a) /\ AbsVal(a) \in Nat
  <2>1. CASE a >= 0
    <3>1. v >= 0 /\ v \in Int
      BY <1>1, <2>1
    <3> QED  BY <2>1, <3>1, AbsIs
  <2>2. CASE a < 0
    <3>1. v < 0 /\ v \in Int /\ -v = One * (-a)
      BY <1>1, <2>2
    <3> QED  BY <2>2, <3>1, AbsIs
  <2> QED  BY <2>1, <2>2
\* One is a multiple of the distance there, a power of two no greater.
<1>3. \E m \in Int : One = m * Ulp[v]
  <2>1. CASE AbsVal(v) < 10 * Half
    <3>1. Ulp[v] = 1
      BY <1>2, <2>1, UlpIs
    <3> QED  BY <1>1, <3>1
  <2>2. CASE ~(AbsVal(v) < 10 * Half)
    <3>1. PICK k \in Nat : InBinade(v, k)
      BY <1>1, <1>2, <2>2, BinadeExists, AbsIs
    <3>2. Ulp[v] = 10 * Pow2[k]
      BY <1>2, <3>1, UlpIs
    <3>3. k <= Precision + 3
      <4>1. Precision + 3 \in Nat /\ One = 10 * Pow2[Precision + 3]
        BY PlotAssumption, OneIs
      <4>2. ASSUME Precision + 3 < k PROVE FALSE
        <5>1. 2 * Low(Precision + 3) <= Low(k) /\ Low(Precision + 3) \in Nat
          BY <4>1, <4>2, LowIs
        <5>2. Low(Precision + 3) = Half * One
          BY <4>1 DEF Low
        <5>3. Low(k) <= One * AbsVal(a) /\ Low(k) \in Nat
          BY <1>2, <3>1, LowIs DEF InBinade
        <5>4. One * AbsVal(a) <= Half * One
          BY <1>1, <1>2 DEF q
        <5>5. Half * One > 0 /\ One * AbsVal(a) \in Int /\ Half * One \in Int
          BY <1>1, <1>2
        <5> QED  BY <5>1, <5>2, <5>3, <5>4, <5>5
      <4> QED  BY <4>1, <4>2
    <3>4. PICK m \in Nat \ {0} : Pow2[Precision + 3] = m * Pow2[k]
      BY <3>3, PlotAssumption, Pow2Divides
    <3>5. 10 * (m * Pow2[k]) = m * (10 * Pow2[k])
      BY Pow2Ordered
    <3> QED  BY <3>2, <3>4, <3>5, OneIs
  <2> QED  BY <2>1, <2>2
<1>4. PICK m \in Int : One = m * Ulp[v]
  BY <1>3
<1>5. v = (m * a) * Ulp[v] /\ m * a \in Int
  <2>1. Ulp[v] \in Nat
    BY <1>2, FloatIs
  <2>2. \A u \in Nat : (m * u) * a = (m * a) * u
    OBVIOUS
  <2> QED  BY <1>4, <2>1, <2>2
<1> HIDE DEF v
<1>6. Float[v] = v
  BY <1>2, <1>5, FloatOfMultiple
<1> QED  BY <1>6 DEF v

(***************************************************************************)
(* Positions, set-points and duties below 2^20 (with floats of 24 digits)  *)
(* have grids whose every horizontal line is a new one, whatever their     *)
(* range: the loop of svg_generator.c:408 does not depend on how far they  *)
(* vary.                                                                   *)
(***************************************************************************)
THEOREM SmallSignalsAdvance ==
  ASSUME MaxLag <= Gap, SmallSignals
  PROVE  PageSpec => [][HorizontalLine => t' > t]_pageVars
<1>1. ASSUME DrawnFrom, HorizontalLine PROVE t' > t
  <2>0. TypeOK /\ TakenInv /\ CopyInv /\ DrawInv
    BY <1>1 DEF DrawnFrom, Inv
  <2>1. /\ place = "horizontal" /\ t < yRange.max
        /\ t' = Advance(t, Tenth(yRange))
    BY <1>1 DEF HorizontalLine
  <2>2. /\ IsFloat(yRange.min) /\ yRange.min \in Int /\ yRange.max \in Int
        /\ IsFloat(t) /\ t \in Int /\ yRange.min <= t
    BY <2>0, <2>1, DrawnRanges DEF DrawInv, IsFloat
  <2> DEFINE y == Floats(curve)
             N == HISTORY_SIZE - 1
  <2>3. /\ N \in Nat /\ Entries = 0..N /\ reader.pc = "plot"
        /\ curve \in Curves /\ yRange = MaxMin(y)
    BY <2>0, <2>1, Sizes DEF Entries, DrawInv
  <2>4. ASSUME NEW n \in Entries
        PROVE  \E a \in Int : y[n] = One * a /\ AbsVal(a) <= Pow2[Precision - 4]
    <3>1. /\ curve \in Fields \ {"timestamp"} /\ copy[n][curve] \in 0..MaxSamples
      BY <2>0, <2>3, CopiedSamples DEF Curves, Fields
    <3> DEFINE a == Signal[curve][copy[n][curve]]
    <3>2. a \in Int /\ AbsVal(a) <= Pow2[Precision - 4]
      BY <3>1, SignalAssumption DEF SmallSignals
    <3>3. y[n] = Float[One * a]
      BY <3>1 DEF Floats
    <3> HIDE DEF a, y
    <3> QED  BY <3>2, <3>3, SmallFloat
  <2>5. DOMAIN y = Entries /\ \A n \in Entries : IsFloat(y[n])
    BY <2>0, <2>3, FloatsAreFloats DEF Fields, Curves
  <2> HIDE DEF y, N
  <2>6. PICK m \in Entries, n \in Entries : yRange = [min |-> y[m], max |-> y[n]]
    BY <2>3, <2>5, MaxMinIs
  <2>7. PICK a \in Int : y[m] = One * a /\ AbsVal(a) <= Pow2[Precision - 4]
    BY <2>4
  <2>8. PICK b \in Int : y[n] = One * b /\ AbsVal(b) <= Pow2[Precision - 4]
    BY <2>4
  <2> DEFINE d == yRange.max - yRange.min
             q == Pow2[Precision - 4]
  <2>9. yRange.min = One * a /\ yRange.max = One * b /\ d \in Int
    BY <2>2, <2>6, <2>7, <2>8
  <2>10. One \in Nat /\ One > 0 /\ q \in Nat
    BY HalfIs, HalfOfWide
  <2>11. a < b
    <3>1. One * a < One * b
      BY <2>1, <2>2, <2>9
    <3>2. b <= a => One * b <= One * a
      BY <2>10
    <3>3. One * a \in Int /\ One * b \in Int
      BY <2>10
    <3> QED  BY <3>1, <3>2, <3>3
  <2>12. d >= One
    <3>1. One * b >= One * a + One /\ One * a \in Int /\ One * b \in Int
      BY <2>10, <2>11
    <3> QED  BY <2>9, <2>10, <3>1
  <2>13. ASSUME NEW c \in Int, AbsVal(c) <= q PROVE AbsVal(One * c) <= q * d
    <3>1. /\ AbsVal(One * c) = One * AbsVal(c) /\ AbsVal(c) \in Nat
      <4>1. CASE c >= 0
        <5>1. One * c >= 0 /\ One * c \in Int
          BY <2>10, <4>1
        <5> QED  BY <4>1, <5>1, AbsIs
      <4>2. CASE c < 0
        <5>1. One * c < 0 /\ One * c \in Int /\ -(One * c) = One * (-c)
          BY <2>10, <4>2
        <5> QED  BY <4>2, <5>1, AbsIs
      <4> QED  BY <4>1, <4>2
    <3> HIDE DEF q, d
    <3>2. One * AbsVal(c) <= One * q
      BY <2>10, <2>13, <3>1
    <3>3. q * One <= q * d /\ q * One = One * q
      BY <2>9, <2>10, <2>12
    <3>4. One * AbsVal(c) \in Int /\ One * q \in Int /\ q * d \in Int
      BY <2>9, <2>10, <3>1
    <3> QED  BY <3>1, <3>2, <3>3, <3>4
  <2>14. AbsVal(yRange.min) <= q * d /\ AbsVal(yRange.max) <= q * d
    <3> HIDE DEF d
    <3> QED  BY <2>7, <2>8, <2>9, <2>13
  <2>15. 2 * Float[Tenth(yRange)] > Max({Ulp[yRange.min], Ulp[yRange.max]})
    BY <2>2, <2>9, <2>12, <2>14, FineIfWide
  <2> QED  BY <2>1, <2>2, <2>15, NextLine
<1>2. DrawnFrom => (HorizontalLine => t' > t)
  BY <1>1
<1> QED  BY <1>2, DrawnFromInit, DrawnFromNext, PTL DEF PageSpec

-----------------------------------------------------------------------------
(* The frame                                                               *)

\* What whole numbers are rounded to are whole numbers.
LEMMA WholeFloat ==
  ASSUME NEW a \in Int
  PROVE  \E m \in Int : Float[One * a] = One * m
<1> DEFINE v == One * a
           n == Precision + 3
<1>1. v \in Int /\ One \in Nat \ {0} /\ n \in Nat /\ One = 10 * Pow2[n]
  BY OneIs, PlotAssumption
<1>2. CASE AbsVal(v) < 10 * Half
  <2>1. Float[v] = v
    BY <1>1, <1>2, FloatOfSmall
  <2> QED  BY <2>1
<1>3. CASE ~(AbsVal(v) < 10 * Half)
  <2>1. PICK k \in Nat : InBinade(v, k)
    BY <1>1, <1>3, BinadeExists, AbsIs, HalfIs
  <2>2. Ulp[v] = 10 * Pow2[k] /\ Pow2[k] \in Nat
    BY <1>1, <2>1, UlpIs, Pow2Ordered
  <2>3. CASE k <= n
    <3>1. PICK q \in Nat \ {0} : Pow2[n] = q * Pow2[k]
      BY <1>1, <2>3, Pow2Divides
    <3>2. One = q * Ulp[v]
      <4>1. 10 * (q * Pow2[k]) = q * (10 * Pow2[k])
        BY <2>2
      <4> QED  BY <1>1, <2>2, <3>1, <4>1
    <3>3. v = (q * a) * Ulp[v] /\ q * a \in Int
      <4>1. \A u \in Nat : (q * u) * a = (q * a) * u
        OBVIOUS
      <4>2. Ulp[v] \in Nat
        BY <1>1, FloatIs
      <4> QED  BY <3>2, <4>1, <4>2
    <3>4. Float[v] = v
      <4> HIDE DEF v
      <4> QED  BY <1>1, <3>3, FloatOfMultiple
    <3> QED  BY <3>4
  <2>4. CASE n < k
    <3>1. PICK q \in Nat \ {0} : Pow2[k] = q * Pow2[n]
      BY <1>1, <2>4, Pow2Divides
    <3>2. Ulp[v] = q * One
      <4>1. Pow2[n] \in Nat
        BY <1>1, Pow2Type
      <4>2. 10 * (q * Pow2[n]) = q * (10 * Pow2[n])
        BY <4>1
      <4> QED  BY <1>1, <2>2, <3>1, <4>2
    <3> HIDE DEF v
    <3>3. PICK m \in Int : Float[v] = m * Ulp[v]
      <4>1. v \in Int /\ Ulp[v] \in Nat \ {0} /\ Float[v] = Nearest(v, Ulp[v])
        BY <1>1, FloatIs
      <4>2. \E m \in Int : Nearest(v, Ulp[v]) = m * Ulp[v]
        BY <4>1, NearestBetween, Zenon
      <4> QED  BY <4>1, <4>2
    <3>4. m * (q * One) = One * (m * q) /\ m * q \in Int
      BY <1>1
    <3>5. Float[v] = One * (m * q)
      BY <3>2, <3>3, <3>4
    <3> QED  BY <3>4, <3>5 DEF v
  <2> QED  BY <1>1, <2>3, <2>4
<1> QED  BY <1>2, <1>3

LEMMA FloatsAreWhole ==
  ASSUME TypeOK, TakenInv, CopyInv, reader.pc = "plot", NEW f \in Fields,
         NEW n \in Entries
  PROVE  \E m \in Int : Floats(f)[n] = One * m
<1> DEFINE c == copy[n][f]
           v == IF f = "timestamp" THEN Timestamp(c) ELSE Signal[f][c]
<1>1. c \in 0..MaxSamples
  BY CopiedSamples
<1>2. Floats(f)[n] = Float[One * v]
  BY DEF Floats
<1> HIDE DEF c
<1>3. v \in Int
  <2>1. CASE f = "timestamp"
    BY <1>1, <2>1, TimestampIsElapsed, ElapsedGrows
  <2>2. CASE f # "timestamp"
    <3>1. Signal[f] \in [0..MaxSamples -> Int]
      BY <2>2, SignalAssumption
    <3> QED  BY <1>1, <2>2, <3>1
  <2> QED  BY <2>1, <2>2
<1> HIDE DEF v
<1> QED  BY <1>2, <1>3, WholeFloat

\* Two such numbers, one not greater than the other, are the ends of a range.
LEMMA WholeApart ==
  ASSUME NEW a \in Int, NEW b \in Int, NEW range,
         range.min = One * a, range.max = One * b,
         range.min <= range.max
  PROVE  Apart(range)
<1>1. One \in Nat \ {0} /\ One * a = a * One /\ One * b = b * One
      /\ One * a \in Int /\ One * b \in Int
  BY OneIs
<1>2. CASE a < b
  <2>1. a * One + One <= b * One
    BY <1>1, <1>2, Multiples
  <2> QED  BY <1>1, <2>1 DEF Apart
<1>3. CASE a = b
  BY <1>1, <1>3 DEF Apart
<1>4. CASE b < a
  <2>1. b * One + One <= a * One
    BY <1>1, <1>4, Multiples
  <2> QED  BY <1>1, <2>1
<1> QED  BY <1>2, <1>3, <1>4

\* The ranges of a plot, if that of the time is not upside down.
LEMMA RangesApart ==
  ASSUME TypeOK, TakenInv, CopyInv, DrawInv, place # "begin"
  PROVE  /\ xRange.min <= xRange.max => Apart(xRange)
         /\ Apart(yRange) /\ yRange.min <= yRange.max
<1> DEFINE x == Floats("timestamp")
           y == Floats(curve)
           N == HISTORY_SIZE - 1
<1>1. /\ N \in Nat /\ Entries = 0..N /\ 0 \in Entries /\ N \in Entries
      /\ reader.pc = "plot" /\ curve \in Curves
      /\ xRange = Ends(x) /\ yRange = MaxMin(y)
  BY Sizes DEF Entries, DrawInv
<1>2. \A n \in Entries : \E m \in Int : x[n] = One * m
  BY <1>1, FloatsAreWhole DEF Fields
<1>3. \A n \in Entries : \E m \in Int : y[n] = One * m
  BY <1>1, FloatsAreWhole DEF Fields, Curves
<1>4. /\ DOMAIN x = Entries /\ DOMAIN y = Entries
      /\ \A n \in Entries : IsFloat(y[n])
  BY <1>1, FloatsAreFloats DEF Fields, Curves
<1>5. xRange.min = x[0] /\ xRange.max = x[N]
  <2> HIDE DEF x
  <2> QED  BY <1>1, <1>4, EntriesEnds DEF Ends
<1> HIDE DEF x, y, N
<1>6. PICK m \in Entries, n \in Entries : yRange = [min |-> y[m], max |-> y[n]]
  BY <1>1, <1>4, MaxMinIs
<1>7. yRange.min <= yRange.max
  BY DrawnRanges
<1>8. Apart(yRange)
  <2>1. yRange.min = y[m] /\ yRange.max = y[n]
    BY <1>6
  <2> QED  BY <1>3, <1>7, <2>1, WholeApart
<1>9. xRange.min <= xRange.max => Apart(xRange)
  BY <1>1, <1>2, <1>5, WholeApart
<1> QED  BY <1>7, <1>8, <1>9

\* "X mast be already ordered": on the writer's core the copy's times are.
LEMMA TimesInRange ==
  ASSUME TypeOK, TakenInv, SnapshotExact, reader.pc = "plot", core = "same"
  PROVE  LET x == Floats("timestamp")
         IN  /\ Ends(x).min <= Ends(x).max
             /\ \A n \in Entries : x[n] \in Ends(x).min .. Ends(x).max
<1> DEFINE x == Floats("timestamp")
           N == HISTORY_SIZE - 1
<1>1. N \in Nat /\ Entries = 0..N
  BY Sizes DEF Entries
<1>2. ASSUME NEW m \in Entries, NEW n \in Entries, m <= n
      PROVE  x[m] \in Int /\ x[n] \in Int /\ x[m] <= x[n]
  <2>1. /\ Expected(m) \in 0..MaxSamples /\ Expected(n) \in 0..MaxSamples
        /\ x[m] = Float[One * Elapsed(Expected(m))]
        /\ x[n] = Float[One * Elapsed(Expected(n))]
    BY TimesOfCopy
  <2>2. Expected(m) <= Expected(n)
    BY <1>1, <1>2, Sizes DEF Expected, TypeOK
  <2> DEFINE a == Elapsed(Expected(m))
             b == Elapsed(Expected(n))
  <2>3. a \in Nat /\ b \in Nat /\ a <= b
    BY <2>1, <2>2, ElapsedGrows
  <2> HIDE DEF a, b, x
  <2>4. One \in Nat
    BY HalfIs
  <2>5. One * a \in Int /\ One * b \in Int /\ One * a <= One * b
    BY <2>3, <2>4
  <2>6. Float[One * a] \in Int /\ Float[One * b] \in Int
        /\ Float[One * a] <= Float[One * b]
    BY <2>5, FloatIs, FloatMonotone
  <2> QED  BY <2>1, <2>6 DEF a, b
<1>3. DOMAIN x = Entries
  BY DEF Floats
<1> HIDE DEF x, N
<1>4. Ends(x).min = x[0] /\ Ends(x).max = x[N]
  BY <1>3, EntriesEnds DEF Ends, N
<1>5. 0 \in Entries /\ N \in Entries /\ 0 <= N
      /\ \A n \in Entries : 0 <= n /\ n <= N
  BY <1>1
<1>6. \A n \in Entries : x[n] \in x[0] .. x[N]
  BY <1>2, <1>5
<1>7. x[0] <= x[N]
  BY <1>2, <1>5
<1> QED  BY <1>4, <1>6, <1>7 DEF x

\* Without the data's scale things are drawn where they are.
LEMMA DrawnUnscaled ==
  ASSUME scaled = FALSE, NEW given, \A q \in given : InPicture(q)
  PROVE  \A p \in Drawn(given) : InPicture(p)
<1> SUFFICES ASSUME NEW q \in given PROVE InPicture(Cord(q[1], q[2]))
  BY DEF Drawn
<1>1. Cord(q[1], q[2]) = <<q[1], q[2]>>
  BY DEF Cord
<1> QED  BY <1>1 DEF InPicture, Within

\* A line of a grid, and its label.
LEMMA VerticalInPicture ==
  ASSUME VerticalLine, scaled = FALSE,
         Apart(xRange), t \in Int, xRange.min <= t
  PROVE  \A p \in points' : InPicture(p)
<1> DEFINE tx    == Pixel(Float[Coordinate(t, xRange, InnerWidth) + One * Padding])
           given == {<<tx, PLOT_HEIGHT - Padding>>, <<tx, Padding>>}
           label == Turned(<<tx - 3, PLOT_HEIGHT - Padding - 10>>, Cord(0, 0))
<1>1. t < xRange.max /\ points' = Drawn(given) \cup {label}
  BY DEF VerticalLine
<1>2. xRange.min # xRange.max /\ t \in xRange.min .. xRange.max
  BY <1>1 DEF Apart
<1>3. tx \in 50..950
  BY <1>2, LinesWithin
<1> HIDE DEF tx
<1>4. InPicture(label)
  <2>1. label = <<tx - 3, 240>>
    BY <1>3 DEF Turned, Cord, PLOT_HEIGHT, Padding
  <2> QED  BY <1>3, <2>1 DEF InPicture, Within, PLOT_WIDTH, PLOT_HEIGHT
<1>5. \A q \in given : InPicture(q)
  BY <1>3 DEF InPicture, Within, PLOT_WIDTH, PLOT_HEIGHT, Padding
<1> HIDE DEF given, label
<1>6. \A p \in Drawn(given) : InPicture(p)
  BY <1>5, DrawnUnscaled
<1> QED  BY <1>1, <1>4, <1>6

LEMMA HorizontalInPicture ==
  ASSUME HorizontalLine, scaled = FALSE,
         Apart(yRange), t \in Int, yRange.min <= t
  PROVE  \A p \in points' : InPicture(p)
<1> DEFINE above == Float[One * PLOT_HEIGHT - Coordinate(t, yRange, InnerHeight)]
           ty    == Pixel(Float[above - One * Padding])
           given == {<<Padding, ty>>, <<PLOT_WIDTH - Padding, ty>>,
                     <<Padding + 3, ty - 3>>}
<1>1. t < yRange.max /\ points' = Drawn(given)
  BY DEF HorizontalLine
<1>2. yRange.min # yRange.max /\ t \in yRange.min .. yRange.max
  BY <1>1 DEF Apart
<1>3. ty \in 49..250
  BY <1>2, LinesWithin
<1> HIDE DEF ty
<1>4. \A q \in given : InPicture(q)
  BY <1>3 DEF InPicture, Within, PLOT_WIDTH, PLOT_HEIGHT, Padding
<1> HIDE DEF given
<1> QED  BY <1>1, <1>4, DrawnUnscaled

\* The path of the data.
LEMMA DataInFrame ==
  ASSUME NEW x, NEW y, Data(x, y), scaled = TRUE,
         Apart(xRange), xRange.min <= xRange.max,
         Apart(yRange), yRange.min <= yRange.max,
         \A n \in DOMAIN x : /\ x[n] \in xRange.min .. xRange.max
                            /\ y[n] \in yRange.min .. yRange.max
  PROVE  \A p \in points' :
           \/ InFrame(p)
           \/ p = <<NaN, NaN>> /\ (Span(xRange) = 0 \/ Span(yRange) = 0)
<1> SUFFICES ASSUME NEW n \in DOMAIN x
             PROVE  LET p == InGroup(Cord(x[n], y[n]))
                    IN  \/ InFrame(p)
                        \/ /\ p = <<NaN, NaN>>
                           /\ Span(xRange) = 0 \/ Span(yRange) = 0
  BY DEF Data
<1> DEFINE a == Scaled(x[n], xRange, InnerWidth)
           b == Scaled(y[n], yRange, InnerHeight)
<1>1. Cord(x[n], y[n]) = <<a, b>>
  BY DEF Cord
<1>2. CASE Span(xRange) = 0 \/ Span(yRange) = 0
  <2>1. a = NaN \/ b = NaN
    BY <1>2 DEF Scaled
  <2> HIDE DEF a, b
  <2> QED  BY <1>1, <1>2, <2>1 DEF InGroup
<1>3. CASE ~(Span(xRange) = 0 \/ Span(yRange) = 0)
  <2>1. xRange.min # xRange.max /\ yRange.min # yRange.max
    BY <1>3, SpanIs DEF Apart
  <2>2. a \in 0..InnerWidth
    BY <2>1, ScaledWithin
  <2>3. b \in 0..InnerHeight
    BY <2>1, ScaledWithin
  <2> HIDE DEF a, b
  <2>4. InGroup(<<a, b>>) = <<a + 50, 250 - b>>
    BY <2>2, <2>3
       DEF InGroup, NaN, InnerWidth, InnerHeight, PLOT_WIDTH, PLOT_HEIGHT, Padding
  <2> QED  BY <1>1, <2>2, <2>3, <2>4
              DEF InFrame, Within, InnerWidth, InnerHeight, PLOT_WIDTH,
                  PLOT_HEIGHT, Padding
<1> QED  BY <1>2, <1>3

\* The labels at the ends and the arrows.
LEMMA AxesInPicture ==
  ASSUME Axes, scaled = FALSE
  PROVE  \A p \in points' : InPicture(p)
<1> DEFINE right   == PLOT_WIDTH - Padding
           bottom  == PLOT_HEIGHT - Padding
           half    == Padding \div 2
           quarter == half \div 4
           given   == {<<Padding + 3, Padding>>, <<Padding + 3, bottom + 14>>,
                       <<Padding, bottom + half>>, <<Padding, half>>,
                       <<Padding + quarter, half + quarter>>,
                       <<half, bottom>>, <<right + half, bottom>>,
                       <<PLOT_WIDTH - half, bottom - 2 * quarter>>}
           labels  == {Turned(<<end - 7, bottom - 7>>, Cord(0, 0)) :
                         end \in {right, Padding}}
<1>1. points' = Drawn(given) \cup labels
  BY DEF Axes
<1>2. \A q \in given : InPicture(q)
  BY DEF InPicture, Within, PLOT_WIDTH, PLOT_HEIGHT, Padding
<1>3. \A p \in labels : InPicture(p)
  <2>1. labels = {<<943, 243>>, <<43, 243>>}
    BY DEF Turned, Cord, PLOT_WIDTH, PLOT_HEIGHT, Padding
  <2> QED  BY <2>1 DEF InPicture, Within, PLOT_WIDTH, PLOT_HEIGHT
<1> HIDE DEF given, labels
<1>4. \A p \in Drawn(given) : InPicture(p)
  BY <1>2, DrawnUnscaled
<1> QED  BY <1>1, <1>3, <1>4

\* What is drawn, and on which core; the ranges count for the path alone.
LEMMA FrameNext ==
  DrawnFrom /\ PlotsInFrame /\ [PageNext]_pageVars => PlotsInFrame'
<1> SUFFICES ASSUME DrawnFrom, PlotsInFrame, [PageNext]_pageVars, core' = "same"
             PROVE  PlotsInFrame'
  BY DEF PlotsInFrame
<1>0. TypeOK /\ TakenInv /\ CopyInv /\ DrawInv /\ SnapshotExact
  BY DEF DrawnFrom, Inv, CopyInv, SnapshotExact, Allowed
<1>1. CASE Copying \/ SampleEnds \/ UNCHANGED pageVars
  <2>1. core' = core
    BY <1>1 DEF Copying, Writer, BeginSample, StoreIndex, StoreField,
                TakeWindow, CopyField, CopyEnds, SampleEnds, pageVars, vars
  <2>2. UNCHANGED plotVars
    BY <1>1 DEF Copying, SampleEnds, pageVars
  <2>3. Span(xRange)' = Span(xRange) /\ Span(yRange)' = Span(yRange)
    BY <2>2 DEF plotVars, Span
  <2> QED  BY <2>1, <2>2, <2>3 DEF PlotsInFrame, plotVars
<1>2. CASE Drawing
  <2>0. reader.pc = "plot" /\ core = "same"
    BY <1>2, DrawingKeeps
  <2>e. ASSUME place' # "axes", \A p \in points' : InPicture(p)
        PROVE  PlotsInFrame'
    BY <2>e DEF PlotsInFrame, InPicture
  <2>k. ASSUME points' = points, place # "axes", place' # "axes"
        PROVE  PlotsInFrame'
    <3>1. \A p \in points : InPicture(p)
      BY <2>0, <2>k DEF PlotsInFrame
    <3> QED  BY <2>e, <2>k, <3>1
  <2>1. CASE Begin(Floats("timestamp"), Floats(curve))
    <3>1. points' = {<<0, 0>>, <<1000, 300>>} /\ place' = "vertical"
      BY <2>1 DEF Begin, PLOT_WIDTH, PLOT_HEIGHT
    <3>2. \A p \in points' : InPicture(p)
      BY <3>1 DEF InPicture, Within, PLOT_WIDTH, PLOT_HEIGHT
    <3> QED  BY <2>e, <3>1, <3>2
  <2>2. CASE VerticalLine
    <3>1. place = "vertical" /\ place' = "vertical" /\ t < xRange.max
      BY <2>2 DEF VerticalLine
    <3>2. scaled = FALSE /\ t \in Int /\ xRange.min <= t /\ Apart(xRange)
      <4>1. Apart(xRange) /\ xRange.min \in Int /\ xRange.max \in Int
        <5>1. xRange.min <= xRange.max
          BY <1>0, <2>0, <3>1, TimesInRange DEF DrawInv
        <5> QED  BY <1>0, <3>1, <5>1, RangesApart DEF Apart
      <4>2. scaled = FALSE /\ IsFloat(t) /\ (xRange.min <= t \/ xRange.max <= t)
        BY <1>0, <3>1 DEF DrawInv
      <4> QED  BY <3>1, <4>1, <4>2 DEF IsFloat
    <3>3. \A p \in points' : InPicture(p)
      BY <2>2, <3>2, VerticalInPicture
    <3> QED  BY <2>e, <3>1, <3>3
  <2>3. CASE VerticalsEnd
    BY <2>k, <2>3 DEF VerticalsEnd
  <2>4. CASE HorizontalLine
    <3>1. place = "horizontal" /\ place' = "horizontal"
      BY <2>4 DEF HorizontalLine
    <3>2. scaled = FALSE /\ t \in Int /\ yRange.min <= t /\ Apart(yRange)
      <4>1. Apart(yRange)
        BY <1>0, <3>1, RangesApart
      <4>2. scaled = FALSE /\ IsFloat(t) /\ yRange.min <= t
        BY <1>0, <3>1 DEF DrawInv
      <4> QED  BY <4>1, <4>2 DEF IsFloat
    <3>3. \A p \in points' : InPicture(p)
      BY <2>4, <3>2, HorizontalInPicture
    <3> QED  BY <2>e, <3>1, <3>3
  <2>5. CASE HorizontalsEnd
    BY <2>k, <2>5 DEF HorizontalsEnd
  <2>6. CASE Data(Floats("timestamp"), Floats(curve))
    <3> DEFINE x == Floats("timestamp")
               y == Floats(curve)
    <3>1. place = "data" /\ place' = "axes" /\ UNCHANGED <<xRange, yRange>>
      BY <2>6 DEF Data
    <3>2. xRange = Ends(x) /\ yRange = MaxMin(y) /\ scaled = TRUE
      BY <1>0, <3>1 DEF DrawInv
    <3>3. /\ xRange.min <= xRange.max
          /\ \A n \in Entries : x[n] \in xRange.min .. xRange.max
      BY <1>0, <2>0, <3>2, TimesInRange
    <3>4. Apart(xRange) /\ Apart(yRange) /\ yRange.min <= yRange.max
      BY <1>0, <3>1, <3>3, RangesApart
    <3>5. \A n \in Entries : y[n] \in yRange.min .. yRange.max
      BY <1>0, <2>0, <3>2, RangesAreFloats DEF DrawInv
    <3>6. DOMAIN x = Entries
      BY DEF Floats
    <3>7. Data(x, y)
      BY <2>6
    <3> HIDE DEF x, y
    <3>8. \A p \in points' :
            \/ InFrame(p)
            \/ p = <<NaN, NaN>> /\ (Span(xRange) = 0 \/ Span(yRange) = 0)
      BY <3>2, <3>3, <3>4, <3>5, <3>6, <3>7, DataInFrame
    <3>9. Span(xRange)' = Span(xRange) /\ Span(yRange)' = Span(yRange)
      BY <3>1 DEF Span
    <3> QED  BY <3>1, <3>8, <3>9 DEF PlotsInFrame
  <2>7. CASE Axes
    <3>1. place = "axes" /\ place' = "begin"
      BY <2>7 DEF Axes
    <3>2. scaled = FALSE
      BY <1>0, <3>1 DEF DrawInv
    <3>3. \A p \in points' : InPicture(p)
      BY <2>7, <3>2, AxesInPicture
    <3> QED  BY <2>e, <3>1, <3>3
  <2> QED
    BY <1>2, <2>1, <2>2, <2>3, <2>4, <2>5, <2>6, <2>7 DEF Drawing, Plot
<1> QED  BY <1>1, <1>2 DEF PageNext

(***************************************************************************)
(* Whatever the samples and the clock, all that is drawn on the writer's   *)
(* core is drawn in the picture, and every sample in the frame of the      *)
(* axes, provided that the copy is quick enough (svg_generator.c:343).     *)
(* The roundings of svg_generator.c:373-374, :386, :409 and of cordx and   *)
(* cordy move nothing by a pixel, for pixels and their halves are floats:  *)
(* that takes eleven binary digits of the 24, PlotAssumption.              *)
(***************************************************************************)
THEOREM PlotsAlwaysInFrame ==
  ASSUME MaxLag <= Gap
  PROVE  PageSpec => []PlotsInFrame
<1>1. PageInit => PlotsInFrame
  BY DEF PageInit, PlotInit, PlotsInFrame
<1> QED
  BY <1>1, DrawnFromInit, DrawnFromNext, FrameNext, PTL DEF PageSpec
=============================================================================
