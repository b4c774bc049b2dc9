------------------------------- MODULE MCPage -------------------------------
(* Instances of Page for TLC. *)
EXTENDS Page

\* A motor that rests, jumps and then moves by less than a float can tell; a
\* set-point that falls; a duty that changes its sign.
MCSignal ==
  [position |-> [n \in 0..MaxSamples |-> IF n < 4 THEN 0 ELSE 2042 + n],
   desired  |-> [n \in 0..MaxSamples |-> -3 * n],
   pwm      |-> [n \in 0..MaxSamples |-> IF n % 2 = 0 THEN 12 ELSE -1]]

\* A sample every 83 ms; the first comes late, and the clock wraps twice: once
\* before it and once within the windows.
MCTicks == [n \in 0..MaxSamples |-> IF n = 0 THEN 3000 ELSE 6750 + 250 * n]
=============================================================================
