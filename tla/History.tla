------------------------------ MODULE History -------------------------------
(***************************************************************************)
(* The history behind the plots: update_statistics                         *)
(* (statistics_updater.c) appends samples to the cyclic array              *)
(* motor_history, generate_html_file (svg_generator.c) copies a window of  *)
(* it, and no lock keeps them apart.                                       *)
(*                                                                         *)
(* A sample is known by its number: the n-th one stores n in each of its   *)
(* four fields, and 0 is what create_tasks left there.  So a torn entry    *)
(* shows as one whose fields differ.                                       *)
(*                                                                         *)
(* Readers share nothing with each other; one stands for all.              *)
(***************************************************************************)
EXTENDS Integers

CONSTANTS
  HISTORY_SIZE,              \* length of the window
  HISTORY_CYCLIC_ARRAY_SIZE, \* length of the array
  MaxLag,     \* samples the writer may begin while one window is copied
  MaxSamples  \* bound: samples taken in all

ASSUME HistoryAssumption ==
  /\ HISTORY_SIZE \in Nat \ {0}
  /\ HISTORY_CYCLIC_ARRAY_SIZE \in Nat \ {0}
  /\ HISTORY_SIZE < HISTORY_CYCLIC_ARRAY_SIZE
  /\ MaxLag \in Nat /\ MaxSamples \in Nat

VARIABLES
  array,   \* the four arrays of motor_history, an entry per slot
  start,   \* motor_history.array_start_index
  pending, \* writer: stores of the present sample not yet visible
  slot,    \* writer: i
  reader,  \* reader: program counter, s, i, copy_array_idx, the next field
  copy,    \* reader: the arrays on its stack
  core,    \* reader: the core it runs on, the writer's or another
  written, \* history: samples whose index store is visible
  taken    \* history: written, when the reader took s

writer == <<array, start, pending, slot, written>>
vars   == <<writer, reader, copy, core, taken>>

Fields  == {"desired", "position", "pwm", "timestamp"}
Slots   == 0 .. HISTORY_CYCLIC_ARRAY_SIZE - 1
Entries == 0 .. HISTORY_SIZE - 1

Garbage    == [n \in Entries |-> [f \in Fields |-> -1]]
IdleReader == [pc |-> "idle", s |-> 0, i |-> 0, n |-> 0, field |-> "desired"]

Wrap(n) == n % HISTORY_CYCLIC_ARRAY_SIZE

Init ==
  /\ array = [i \in Slots |-> [f \in Fields |-> 0]]
  /\ start = 0 /\ pending = {} /\ slot = 0
  /\ reader = IdleReader /\ copy = Garbage /\ core \in {"same", "other"}
  /\ written = 0 /\ taken = 0

-----------------------------------------------------------------------------
(* update_statistics                                                       *)

\* Samples begun since the reader took its window.
Lag == written - taken + (IF pending = {} THEN 0 ELSE 1)

\* taskDelay returns.  The kernel call is a barrier: the stores of the last
\* sample are visible.
BeginSample ==
  /\ pending = {} /\ written < MaxSamples
  /\ reader.pc = "copy" => Lag < MaxLag
  /\ slot' = Wrap(start + HISTORY_SIZE)
  /\ pending' = Fields \cup {"index"}
  /\ UNCHANGED <<array, start, written, reader, copy, core, taken>>

\* Mutant of Before: the index is stored first.
BeforeIndexFirst(f) == CASE f = "index"     -> {}
                         [] f = "desired"   -> {"index"}
                         [] f = "position"  -> {"index", "desired"}
                         [] f = "pwm"       -> {"index", "desired", "position"}
                         [] f = "timestamp" -> {"index"} \cup (Fields \ {f})

\* The stores before f in program order.
Before(f) == CASE f = "desired"   -> {}
               [] f = "position"  -> {"desired"}
               [] f = "pwm"       -> {"desired", "position"}
               [] f = "timestamp" -> {"desired", "position", "pwm"}
               [] f = "index"     -> Fields

\* A reader on the writer's core sees its stores in that order; to another core
\* they may become visible in any order.
MayStore(f) ==
  f \in pending /\ (core = "other" \/ Before(f) \cap pending = {})

\* The store's value: the number of the sample in progress.
Sample == IF "index" \in pending THEN written + 1 ELSE written

StoreField(f) ==
  /\ MayStore(f)
  /\ array' = [array EXCEPT ![slot][f] = Sample]
  /\ pending' = pending \ {f}
  /\ UNCHANGED <<start, slot, written, reader, copy, core, taken>>

StoreIndex ==
  /\ MayStore("index")
  /\ start' = Wrap(start + 1)
  /\ written' = written + 1
  /\ pending' = pending \ {"index"}
  /\ UNCHANGED <<array, slot, reader, copy, core, taken>>

-----------------------------------------------------------------------------
(* generate_html_file, up to the copies it plots                           *)

\* A request for the page; the window is the one array_start_index gives now.
TakeWindow ==
  /\ reader.pc = "idle"
  /\ reader' = [IdleReader EXCEPT !.pc = "copy", !.s = start, !.i = start]
  /\ taken' = written
  /\ UNCHANGED <<writer, copy, core>>

\* Mutant of WindowEnd: the end of the window is not wrapped.
WindowEndUnwrapped(s) == s + HISTORY_SIZE

WindowEnd(s) == Wrap(s + HISTORY_SIZE)

NextField == [desired   |-> "position",  position  |-> "pwm",
              pwm       |-> "timestamp", timestamp |-> "desired"]

\* One field of the entry is copied; after the timestamp i moves on.
CopyField ==
  /\ reader.pc = "copy" /\ reader.i # WindowEnd(reader.s)
  /\ copy' = [copy EXCEPT ![reader.n][reader.field] =
                              array[reader.i][reader.field]]
  /\ reader' =
       IF reader.field = "timestamp"
         THEN [reader EXCEPT !.i = Wrap(@ + 1), !.n = @ + 1,
                             !.field = NextField[@]]
         ELSE [reader EXCEPT !.field = NextField[@]]
  /\ UNCHANGED <<writer, core, taken>>

CopyEnds ==
  /\ reader.pc = "copy" /\ reader.i = WindowEnd(reader.s)
  /\ reader' = [reader EXCEPT !.pc = "plot"]
  /\ UNCHANGED <<writer, copy, core, taken>>

\* The three plots are drawn from the copy, and the function returns.
Plotted ==
  /\ reader.pc = "plot"
  /\ reader' = IdleReader
  /\ copy' = Garbage
  /\ UNCHANGED <<writer, core, taken>>

-----------------------------------------------------------------------------
Writer == BeginSample \/ StoreIndex \/ \E f \in Fields : StoreField(f)

Reader == CopyField \/ CopyEnds \/ Plotted

Next == Writer \/ Reader \/ TakeWindow

Spec == Init /\ [][Next]_vars

-----------------------------------------------------------------------------
(* Properties                                                              *)

TypeOK ==
  /\ array \in [Slots -> [Fields -> Nat]]
  /\ start \in Slots /\ slot \in Slots
  /\ pending \in SUBSET (Fields \cup {"index"})
  /\ reader \in [pc : {"idle", "copy", "plot"}, s : Slots, i : Slots,
                 n : 0..HISTORY_SIZE, field : Fields]
  /\ copy \in [Entries -> [Fields -> Nat \cup {-1}]]
  /\ core \in {"same", "other"} /\ written \in Nat /\ taken \in Nat

\* Entry n of the window taken when `taken' samples were written: that many
\* samples back from the newest, or the zeroes from before the first.
Expected(n) ==
  LET sample == taken - (HISTORY_SIZE - 1) + n
  IN  IF sample > 0 THEN sample ELSE 0

(***************************************************************************)
(* A reader on the writer's core shows the HISTORY_SIZE samples that       *)
(* precede the request, in order and whole, although nothing stops the     *)
(* writer: the gap between HISTORY_SIZE and HISTORY_CYCLIC_ARRAY_SIZE      *)
(* keeps it off the window for as long as it begins at most that many      *)
(* samples during the copy.                                                *)
(***************************************************************************)
SnapshotExact ==
  reader.pc = "plot" /\ core = "same" =>
    \A n \in Entries, f \in Fields : copy[n][f] = Expected(n)

Log == INSTANCE SampleLog WITH
  size <- HISTORY_SIZE, slots <- HISTORY_CYCLIC_ARRAY_SIZE, NoView <- Garbage,
  exact <- core = "same", count <- written,
  asked <- IF reader.pc = "idle" THEN -1 ELSE taken,
  view <- IF reader.pc = "plot" THEN copy ELSE Garbage

(***************************************************************************)
(* The stores of a sample and the copy of a window, field by field and     *)
(* without a lock, are single steps of a log of samples to everyone who    *)
(* reads the page: the window is that of the moment of the request.        *)
(* "Obviously it can happen (somewhere on the bounds) and we realise it"   *)
(* (statistics_updater.c:12): to a reader on another core the newest entry *)
(* may be torn, between the sample's own fields and those of the one it    *)
(* replaces in the array, and no other.                                    *)
(***************************************************************************)
PageIsSnapshot == Log!Spec
=============================================================================
