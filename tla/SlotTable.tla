----------------------------- MODULE SlotTable ------------------------------
(***************************************************************************)
(* What lab 3's table promises the companies: joining, leaving and every   *)
(* report of soil are one step each, whatever other processes do.          *)
(***************************************************************************)
EXTENDS Integers

CONSTANTS Companies, Nobody, Table

VARIABLES
  member, \* the company that has each slot, or Nobody
  former, \* companies that left a slot and still have diggers at work
  total   \* the soil counted in each slot

table == <<member, former, total>>

Init ==
  /\ member = [s \in Table |-> Nobody]
  /\ former = [s \in Table |-> {}]
  /\ total = [s \in Table |-> 0]

\* The first slot that is free; what former members report stays in it.
Join(c, s) ==
  /\ member[s] = Nobody /\ \A r \in Table : member[r] = Nobody => s <= r
  /\ \A r \in Table : member[r] # c
  /\ member' = [member EXCEPT ![s] = c]
  /\ UNCHANGED <<former, total>>

Report(s) ==
  /\ member[s] # Nobody \/ former[s] # {}
  /\ total' = [total EXCEPT ![s] = @ + 1]
  /\ UNCHANGED <<member, former>>

Leave(c, s) ==
  /\ member[s] = c
  /\ member' = [member EXCEPT ![s] = Nobody]
  /\ former' = [former EXCEPT ![s] = @ \cup {c}]
  /\ total' = [total EXCEPT ![s] = 0]

\* The last digger of a former member has stopped.
Disband(c, s) ==
  /\ c \in former[s]
  /\ former' = [former EXCEPT ![s] = @ \ {c}]
  /\ UNCHANGED <<member, total>>

Next ==
  \E s \in Table :
    \/ Report(s)
    \/ \E c \in Companies : Join(c, s) \/ Leave(c, s) \/ Disband(c, s)

Spec == Init /\ [][Next]_table
=============================================================================
