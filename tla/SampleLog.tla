----------------------------- MODULE SampleLog ------------------------------
(***************************************************************************)
(* What the position history promises who reads it: samples are appended   *)
(* one by one, and a reader is shown the last `size' of them as they were  *)
(* when it asked, at once.  To a reader on another core the newest of them *)
(* may be torn, with fields of the sample that was `slots' earlier.        *)
(***************************************************************************)
EXTENDS Integers

CONSTANTS size, slots, Fields, NoView

VARIABLES
  exact, \* the reader is on the writer's core
  count, \* the samples appended
  asked, \* count when the reader asked, or -1
  view   \* what the reader is shown, or NoView

log == <<exact, count, asked, view>>

Init == exact \in BOOLEAN /\ count = 0 /\ asked = -1 /\ view = NoView

\* The zeroes from before the first sample.
Numbered(n) == IF n > 0 THEN n ELSE 0

Append ==
  /\ count' = count + 1
  /\ UNCHANGED <<exact, asked, view>>

Ask ==
  /\ asked = -1
  /\ asked' = count
  /\ UNCHANGED <<exact, count, view>>

Show(torn) ==
  /\ asked # -1 /\ view = NoView
  /\ exact => torn = {}
  /\ view' = [n \in 0 .. size - 1 |-> [f \in Fields |->
                IF n = size - 1 /\ f \in torn THEN Numbered(asked - slots)
                ELSE Numbered(asked - (size - 1) + n)]]
  /\ UNCHANGED <<exact, count, asked>>

Return ==
  /\ view # NoView
  /\ view' = NoView /\ asked' = -1
  /\ UNCHANGED <<exact, count>>

Next == Append \/ Ask \/ Return \/ \E torn \in SUBSET Fields : Show(torn)

Spec == Init /\ [][Next]_log
=============================================================================
