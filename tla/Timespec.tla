------------------------------ MODULE Timespec ------------------------------
(***************************************************************************)
(* timespec_subtract and time_to_ms of lab4_priority_inheritance_kernel_   *)
(* module/utils.c.  The units are parameters: the source's are 1000        *)
(* milliseconds to the second and 1000000 nanoseconds to the millisecond.  *)
(***************************************************************************)
EXTENDS Integers

CONSTANTS MsPerSec, NsPerMs

ASSUME UnitsAssumption == MsPerSec \in Nat \ {0} /\ NsPerMs \in Nat \ {0}

NsPerSec == MsPerSec * NsPerMs

\* The first correction of y: seconds borrowed so that the nanoseconds of x are
\* enough.
Borrow(x, y) ==
  IF x.nsec >= y.nsec THEN y
  ELSE LET num_sec == (y.nsec - x.nsec) \div NsPerSec + 1
       IN  [sec |-> y.sec + num_sec, nsec |-> y.nsec - NsPerSec * num_sec]

\* The second one: seconds carried back when there are too many.
Carry(x, y) ==
  IF x.nsec - y.nsec <= NsPerSec THEN y
  ELSE LET num_sec == (x.nsec - y.nsec) \div NsPerSec
       IN  [sec |-> y.sec - num_sec, nsec |-> y.nsec + NsPerSec * num_sec]

\* Mutant of timespec_subtract: the borrow is not made.
timespec_subtract_no_borrow(x, y) ==
  LET z == Carry(x, y)
  IN  [result   |-> [sec |-> x.sec - z.sec, nsec |-> x.nsec - z.nsec],
       negative |-> x.sec < z.sec]

timespec_subtract(x, y) ==
  LET z == Carry(x, Borrow(x, y))
  IN  [result   |-> [sec |-> x.sec - z.sec, nsec |-> x.nsec - z.nsec],
       negative |-> x.sec < z.sec]

time_to_ms(time) == time.sec * MsPerSec + time.nsec \div NsPerMs
=============================================================================
