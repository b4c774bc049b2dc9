------------------------ MODULE CompanyRegistryProofs ------------------------
(***************************************************************************)
(* Proofs about CompanyRegistry, for any companies, diggers and slots.     *)
(***************************************************************************)
EXTENDS CompanyRegistry, LeastElements

-----------------------------------------------------------------------------
(***************************************************************************)
(* The inductive invariant.  Beside the three properties it says what is   *)
(* true of the table before it is zeroed and of a company before it has a  *)
(* slot, and what a digger knows between its read and its store.           *)
(***************************************************************************)

\* Until somebody has zeroed the table no company has a slot of it.
ZeroingInv ==
  /\ zeroed => exists
  /\ \A p \in Processes : pc[p] = "create" => exists /\ ~zeroed
  /\ ~zeroed => /\ \A c \in Companies : m_id[c] = Slots
                /\ \A s \in Table : slots[s] = ZeroSlot /\ late[s] = 0

\* A company that has not claimed a slot has none, and no digger; and it is
\* not the monitor.
ClaimInv ==
  \A c \in Companies :
    /\ pc[c] # "look"
    /\ pc[c] \in {"off", "open", "create", "attach", "ready", "claim",
                  "failed"}
         => m_id[c] = Slots /\ own[c] = 0

\* Nobody changes the total between a digger's read and its store.
ReadInv ==
  \A d \in Diggers : lock = d /\ Alive(d[1])
                       => seen[d] = slots[m_id[d[1]]].n_of_soil_done

\* What is left in an empty slot is what the next company finds there.
EmptyInv ==
  zeroed => \A s \in Table :
    slots[s].is_empty = 1 => slots[s].n_of_soil_done = late[s]

RegistryInv ==
  /\ TypeOK /\ MutexIsReturned
  /\ ZeroingInv /\ ClaimInv /\ ReadInv /\ EmptyInv
  /\ SlotsAccounted /\ TotalsAccounted

-----------------------------------------------------------------------------
(***************************************************************************)
(* Every action of the specification, for proofs by cases.                 *)
(***************************************************************************)
LEMMA NextCases ==
  ASSUME [Next]_vars
  PROVE  \/ \E p \in Processes :
               \/ Begin(p) \/ OpenFails(p) \/ Open(p) \/ MapFails(p)
               \/ Zero(p) \/ Attach(p) \/ Crash(p)
         \/ \E c \in Companies :
               \/ TakeForClaim(c) \/ Claim(c) \/ TakeForClear(c)
               \/ Clear(c) \/ Exit(c)
         \/ \E d \in Diggers : \/ ReadTotal(d) \/ StoreTotal(d)
         \/ Look \/ Looked \/ UNCHANGED vars
BY DEF Next, InitShm, Company, Digger

\* The search of init_shm ends at the first empty slot, or at the length.
LEMMA FirstEmptyIsFirst ==
  /\ FirstEmpty \in 0..Slots
  /\ FirstEmpty = Slots \/ FirstEmpty \in EmptySlots
  /\ \A r \in EmptySlots : FirstEmpty <= r
<1> DEFINE First(s) == /\ s = Slots \/ s \in EmptySlots
                       /\ \A r \in EmptySlots : s <= r
<1>1. \E s \in 0..Slots : First(s)
  <2>1. CASE EmptySlots = {}
    BY <2>1, RegistryAssumption
  <2>2. CASE EmptySlots # {}
    <3>1. EmptySlots \subseteq Nat /\ EmptySlots \subseteq 0..Slots
      BY RegistryAssumption DEF EmptySlots, Table
    <3>2. PICK s \in EmptySlots : \A r \in EmptySlots : s <= r
      BY <3>1, <2>2, LeastElement
    <3> QED  BY <3>1, <3>2
  <2> QED  BY <2>1, <2>2
<1>2. FirstEmpty = CHOOSE s \in 0..Slots : First(s)
  BY DEF FirstEmpty
<1> HIDE DEF First
<1>3. FirstEmpty \in 0..Slots /\ First(FirstEmpty)
  BY <1>1, <1>2
<1> QED  BY <1>3 DEF First

-----------------------------------------------------------------------------
(***************************************************************************)
(* What the three actions that write to the table make of each slot.       *)
(***************************************************************************)

Records == [name : Companies \cup {NoName}, is_empty : {0, 1},
            n_of_soil_done : Nat]

LEMMA ClaimWrites ==
  ASSUME TypeOK, NEW c \in Companies, Claim(c)
  PROVE  slots' = [s \in 0..Slots |->
                     IF s = FirstEmpty /\ s \in Table
                     THEN [name |-> c, is_empty |-> 0,
                           n_of_soil_done |-> slots[s].n_of_soil_done]
                     ELSE slots[s]]
<1>1. slots \in [0..Slots -> Records]
  BY DEF TypeOK, Records
<1>2. slots' = IF FirstEmpty \notin Table THEN slots
               ELSE [slots EXCEPT ![FirstEmpty].name = c,
                                  ![FirstEmpty].is_empty = 0]
  BY DEF Claim
<1>3. FirstEmpty \in 0..Slots
  BY FirstEmptyIsFirst
<1>4. CASE FirstEmpty \notin Table
  BY <1>1, <1>2, <1>4
<1>5. CASE FirstEmpty \in Table
  <2> DEFINE named == [slots EXCEPT ![FirstEmpty].name = c]
  <2>1. named \in [0..Slots -> Records]
    BY <1>1, <1>3 DEF Records
  <2>2. slots' = [named EXCEPT ![FirstEmpty].is_empty = 0]
    BY <1>2, <1>5
  <2>3. slots[FirstEmpty] \in Records
    BY <1>1, <1>3
  <2>4. slots'[FirstEmpty]
          = [name |-> c, is_empty |-> 0,
             n_of_soil_done |-> slots[FirstEmpty].n_of_soil_done]
    BY <1>1, <1>3, <2>1, <2>2, <2>3 DEF Records
  <2> QED  BY <1>1, <1>3, <1>5, <2>1, <2>2, <2>4
<1> QED  BY <1>4, <1>5

LEMMA ClearWrites ==
  ASSUME TypeOK, NEW c \in Companies, Clear(c)
  PROVE  slots' = [s \in 0..Slots |->
                     IF s = m_id[c]
                     THEN [name |-> slots[s].name, is_empty |-> 1,
                           n_of_soil_done |-> 0]
                     ELSE slots[s]]
<1>1. slots \in [0..Slots -> Records] /\ m_id[c] \in 0..Slots
  BY DEF TypeOK, Records
<1> DEFINE emptied == [slots EXCEPT ![m_id[c]].is_empty = 1]
<1>2. emptied \in [0..Slots -> Records]
  BY <1>1 DEF Records
<1>3. slots' = [emptied EXCEPT ![m_id[c]].n_of_soil_done = 0]
  BY DEF Clear
<1>4. slots[m_id[c]] \in Records
  BY <1>1
<1>5. slots'[m_id[c]] = [name |-> slots[m_id[c]].name, is_empty |-> 1,
                         n_of_soil_done |-> 0]
  BY <1>1, <1>2, <1>3, <1>4 DEF Records
<1> QED  BY <1>1, <1>2, <1>3, <1>5

LEMMA StoreWrites ==
  ASSUME TypeOK, NEW d \in Diggers, StoreTotal(d)
  PROVE  slots' = [s \in 0..Slots |->
                     IF s = m_id[d[1]]
                     THEN [name |-> slots[s].name,
                           is_empty |-> slots[s].is_empty,
                           n_of_soil_done |-> seen[d] + 1]
                     ELSE slots[s]]
<1>1. slots \in [0..Slots -> Records] /\ d[1] \in Companies
  BY DEF TypeOK, Records, Diggers
<1>2. m_id[d[1]] \in 0..Slots
  BY <1>1 DEF TypeOK
<1>3. slots[m_id[d[1]]] \in Records
  BY <1>1, <1>2
<1>4. slots' = [slots EXCEPT ![m_id[d[1]]].n_of_soil_done = seen[d] + 1]
  BY DEF StoreTotal
<1>5. slots'[m_id[d[1]]] = [name |-> slots[m_id[d[1]]].name,
                            is_empty |-> slots[m_id[d[1]]].is_empty,
                            n_of_soil_done |-> seen[d] + 1]
  BY <1>1, <1>2, <1>3, <1>4 DEF Records
<1> QED  BY <1>1, <1>2, <1>4, <1>5

-----------------------------------------------------------------------------
(* Types                                                                   *)

LEMMA TypeInit == Init => TypeOK
<1> SUFFICES ASSUME Init PROVE TypeOK
  OBVIOUS
<1> USE RegistryAssumption DEF Init, NoName, Processes
<1>1. ZeroSlot \in Records
  BY DEF Records, ZeroSlot
<1>2. slots \in [0..Slots -> Records]
  BY <1>1
<1>3. slots \in [0..Slots -> [name : Companies \cup {NoName},
                             is_empty : {0, 1}, n_of_soil_done : Nat]]
  BY <1>2 DEF Records
<1>4. m_id \in [Companies -> 0..Slots] /\ late \in [0..Slots -> Nat]
  OBVIOUS
<1>5. pc \in [Processes -> Places]
  BY DEF Places
<1> QED  BY <1>3, <1>4, <1>5 DEF TypeOK

LEMMA TypeNext == TypeOK /\ [Next]_vars => TypeOK'
<1> SUFFICES ASSUME TypeOK, [Next]_vars PROVE TypeOK'
  OBVIOUS
<1> USE RegistryAssumption DEF Places, shared, counts, Table, NoName, Processes
<1>1. ASSUME NEW p \in Processes, Begin(p) PROVE TypeOK'
  BY <1>1 DEF Begin, Take, Goto, TypeOK
<1>2. ASSUME NEW p \in Processes, OpenFails(p) PROVE TypeOK'
  BY <1>2 DEF OpenFails, Give, Goto, TypeOK
<1>3. ASSUME NEW p \in Processes, Open(p) PROVE TypeOK'
  BY <1>3 DEF Open, Goto, TypeOK
<1>4. ASSUME NEW p \in Processes, MapFails(p) PROVE TypeOK'
  BY <1>4 DEF MapFails, Give, Goto, TypeOK
<1>5. ASSUME NEW p \in Processes, Zero(p) PROVE TypeOK'
  BY <1>5 DEF Zero, Give, Goto, ZeroSlot, TypeOK
<1>6. ASSUME NEW p \in Processes, Attach(p) PROVE TypeOK'
  BY <1>6 DEF Attach, Give, Goto, TypeOK
<1>7. ASSUME NEW p \in Processes, Crash(p) PROVE TypeOK'
  BY <1>7 DEF Crash, Reap, Give, Goto, TypeOK
<1>8. ASSUME NEW c \in Companies, TakeForClaim(c) PROVE TypeOK'
  BY <1>8 DEF TakeForClaim, Take, Goto, TypeOK
<1>9. ASSUME NEW c \in Companies, Claim(c) PROVE TypeOK'
  <2>1. slots' \in [0..Slots -> Records]
    BY <1>9, ClaimWrites DEF TypeOK, Records
  <2>2. m_id' \in [Companies -> 0..Slots]
    BY <1>9, FirstEmptyIsFirst DEF Claim, TypeOK
  <2> QED  BY <1>9, <2>1, <2>2 DEF TypeOK, Records, Claim, Give, Goto
<1>10. ASSUME NEW c \in Companies, TakeForClear(c) PROVE TypeOK'
  BY <1>10 DEF TakeForClear, Take, Goto, TypeOK
<1>11. ASSUME NEW c \in Companies, Clear(c) PROVE TypeOK'
  <2>1. slots' \in [0..Slots -> Records]
    BY <1>11, ClearWrites DEF TypeOK, Records
  <2> QED  BY <1>11, <2>1 DEF TypeOK, Records, Clear, Give, Goto
<1>12. ASSUME NEW c \in Companies, Exit(c) PROVE TypeOK'
  BY <1>12 DEF Exit, Reap, Give, Goto, TypeOK
<1>13. ASSUME NEW d \in Diggers, ReadTotal(d) PROVE TypeOK'
  <2>1. d[1] \in Companies
    BY DEF Diggers
  <2>2. m_id[d[1]] \in 0..Slots
    BY <2>1 DEF TypeOK
  <2>3. slots[m_id[d[1]]].n_of_soil_done \in Nat
    BY <2>2 DEF TypeOK
  <2>4. seen' \in [Diggers -> Nat]
    BY <1>13, <2>3 DEF ReadTotal, TypeOK
  <2> QED  BY <1>13, <2>4 DEF ReadTotal, Take, TypeOK
<1>14. ASSUME NEW d \in Diggers, StoreTotal(d) PROVE TypeOK'
  <2>1. slots' \in [0..Slots -> Records]
    BY <1>14, StoreWrites DEF TypeOK, Records
  <2>2. d[1] \in Companies
    BY DEF Diggers
  <2>3. m_id[d[1]] \in 0..Slots
    BY <2>2 DEF TypeOK
  <2>4. own' \in [Companies -> Nat]
    BY <1>14, <2>2 DEF StoreTotal, TypeOK
  <2>5. late' \in [0..Slots -> Nat]
    BY <1>14, <2>3 DEF StoreTotal, TypeOK
  <2> QED  BY <1>14, <2>1, <2>4, <2>5 DEF TypeOK, Records, StoreTotal, Give
<1>15. CASE Look
  BY <1>15 DEF Look, Take, Goto, TypeOK
<1>16. CASE Looked
  BY <1>16 DEF Looked, Give, Goto, TypeOK
<1>17. CASE UNCHANGED vars
  BY <1>17 DEF vars, TypeOK
<1> QED
  BY <1>1, <1>2, <1>3, <1>4, <1>5, <1>6, <1>7, <1>8, <1>9, <1>10, <1>11, <1>12,
     <1>13, <1>14, <1>15, <1>16, <1>17, NextCases

-----------------------------------------------------------------------------
(* The mutex                                                               *)

\* The threads of the processes and the diggers are distinct.
LEMMA Threads ==
  /\ Companies \subseteq Processes /\ Monitor \in Processes \ Companies
  /\ Free \notin Processes /\ Free \notin Diggers
  /\ \A d \in Diggers : d[1] \in Companies /\ d \notin Processes
BY RegistryAssumption DEF Processes, Diggers

LEMMA MutexInit == Init => MutexIsReturned
BY Threads DEF Init, MutexIsReturned, Inside

LEMMA MutexNext ==
  TypeOK /\ MutexIsReturned /\ [Next]_vars => MutexIsReturned'
<1> SUFFICES ASSUME TypeOK, MutexIsReturned, [Next]_vars
             PROVE  MutexIsReturned'
  OBVIOUS
<1>0. pc \in [Processes -> Places] /\ \A p \in Processes : pc[p] \in Places
  BY DEF TypeOK
<1> USE <1>0, Threads DEF MutexIsReturned, Inside, Alive
<1>1. ASSUME NEW p \in Processes, Begin(p) PROVE MutexIsReturned'
  BY <1>1 DEF Begin, Take, Goto
<1>2. ASSUME NEW p \in Processes, OpenFails(p) PROVE MutexIsReturned'
  BY <1>2 DEF OpenFails, Give, Goto
<1>3. ASSUME NEW p \in Processes, Open(p) PROVE MutexIsReturned'
  BY <1>3 DEF Open, Goto
<1>4. ASSUME NEW p \in Processes, MapFails(p) PROVE MutexIsReturned'
  BY <1>4 DEF MapFails, Give, Goto
<1>5. ASSUME NEW p \in Processes, Zero(p) PROVE MutexIsReturned'
  BY <1>5 DEF Zero, Give, Goto, ZeroSlot
<1>6. ASSUME NEW p \in Processes, Attach(p) PROVE MutexIsReturned'
  BY <1>6 DEF Attach, Give, Goto
<1>7. ASSUME NEW p \in Processes, Crash(p) PROVE MutexIsReturned'
  BY <1>7 DEF Crash, Reap, Give, Goto
<1>8. ASSUME NEW c \in Companies, TakeForClaim(c) PROVE MutexIsReturned'
  BY <1>8 DEF TakeForClaim, Take, Goto
<1>9. ASSUME NEW c \in Companies, Claim(c) PROVE MutexIsReturned'
  BY <1>9 DEF Claim, Give, Goto
<1>10. ASSUME NEW c \in Companies, TakeForClear(c) PROVE MutexIsReturned'
  BY <1>10 DEF TakeForClear, Take, Goto
<1>11. ASSUME NEW c \in Companies, Clear(c) PROVE MutexIsReturned'
  BY <1>11 DEF Clear, Give, Goto
<1>12. ASSUME NEW c \in Companies, Exit(c) PROVE MutexIsReturned'
  BY <1>12 DEF Exit, Reap, Give, Goto
<1>13. ASSUME NEW d \in Diggers, ReadTotal(d) PROVE MutexIsReturned'
  BY <1>13 DEF ReadTotal, Take, Alive
<1>14. ASSUME NEW d \in Diggers, StoreTotal(d) PROVE MutexIsReturned'
  BY <1>14 DEF StoreTotal, Give, Alive
<1>15. CASE Look
  BY <1>15 DEF Look, Take, Goto
<1>16. CASE Looked
  BY <1>16 DEF Looked, Give, Goto
<1>17. CASE UNCHANGED vars
  BY <1>17 DEF vars
<1> QED
  BY <1>1, <1>2, <1>3, <1>4, <1>5, <1>6, <1>7, <1>8, <1>9, <1>10, <1>11, <1>12,
     <1>13, <1>14, <1>15, <1>16, <1>17, NextCases

-----------------------------------------------------------------------------
(* Before the table is zeroed, and before a company has a slot             *)

LEMMA BeforeInit == Init => ZeroingInv /\ ClaimInv
BY Threads, RegistryAssumption DEF Init, ZeroingInv, ClaimInv, Table

LEMMA ZeroingNext ==
  TypeOK /\ MutexIsReturned /\ ZeroingInv /\ ClaimInv /\ [Next]_vars
    => ZeroingInv'
<1> SUFFICES ASSUME TypeOK, MutexIsReturned, ZeroingInv, ClaimInv, [Next]_vars
             PROVE  ZeroingInv'
  OBVIOUS
<1>0. pc \in [Processes -> Places] /\ m_id \in [Companies -> 0..Slots]
  BY DEF TypeOK
<1> USE <1>0, Threads, RegistryAssumption DEF ZeroingInv, shared, counts
<1>1. ASSUME NEW p \in Processes, Begin(p) PROVE ZeroingInv'
  BY <1>1 DEF Begin, Take, Goto
<1>2. ASSUME NEW p \in Processes, OpenFails(p) PROVE ZeroingInv'
  BY <1>2 DEF OpenFails, Give, Goto
<1>3. ASSUME NEW p \in Processes, Open(p) PROVE ZeroingInv'
  BY <1>3 DEF Open, Goto
<1>4. ASSUME NEW p \in Processes, MapFails(p) PROVE ZeroingInv'
  BY <1>4 DEF MapFails, Give, Goto
<1>5. ASSUME NEW p \in Processes, Zero(p) PROVE ZeroingInv'
  <2>1. pc[p] = "create" /\ lock = p /\ ~zeroed
    BY <1>5 DEF Zero, MutexIsReturned, Inside
  <2>2. \A q \in Processes : pc'[q] # "create"
    BY <1>5, <2>1 DEF Zero, Goto, MutexIsReturned, Inside
  <2> QED  BY <1>5, <2>1, <2>2 DEF Zero
<1>6. ASSUME NEW p \in Processes, Attach(p) PROVE ZeroingInv'
  BY <1>6 DEF Attach, Give, Goto
<1>7. ASSUME NEW p \in Processes, Crash(p) PROVE ZeroingInv'
  BY <1>7 DEF Crash, Reap, Give, Goto
<1>8. ASSUME NEW c \in Companies, TakeForClaim(c) PROVE ZeroingInv'
  BY <1>8 DEF TakeForClaim, Take, Goto
<1>9. ASSUME NEW c \in Companies, Claim(c) PROVE ZeroingInv'
  <2>1. ~zeroed => FirstEmpty = Slots
    BY FirstEmptyIsFirst DEF EmptySlots, ZeroSlot
  <2>2. FirstEmpty \notin Table => slots' = slots
    BY <1>9 DEF Claim
  <2>3. ~zeroed => FirstEmpty \notin Table
    BY <2>1 DEF Table
  <2> QED  BY <1>9, <2>1, <2>2, <2>3 DEF Claim, Goto
<1>10. ASSUME NEW c \in Companies, TakeForClear(c) PROVE ZeroingInv'
  BY <1>10 DEF TakeForClear, Take, Goto
<1>11. ASSUME NEW c \in Companies, Clear(c) PROVE ZeroingInv'
  <2>1. ~zeroed => \A s \in Table : slots'[s] = slots[s] /\ late'[s] = late[s]
    BY <1>11, ClearWrites DEF Clear, Table, TypeOK
  <2> QED  BY <1>11, <2>1 DEF Clear, Goto
<1>12. ASSUME NEW c \in Companies, Exit(c) PROVE ZeroingInv'
  BY <1>12 DEF Exit, Reap, Give, Goto
<1>13. ASSUME NEW d \in Diggers, ReadTotal(d) PROVE ZeroingInv'
  BY <1>13 DEF ReadTotal, Take, Alive
<1>14. ASSUME NEW d \in Diggers, StoreTotal(d) PROVE ZeroingInv'
  <2>1. m_id[d[1]] \in 0..Slots
    OBVIOUS
  <2>2. ~zeroed => \A s \in Table : slots'[s] = slots[s] /\ late'[s] = late[s]
    <3>1. CASE ~zeroed
      <4>1. m_id[d[1]] = Slots
        BY <3>1
      <4>2. \A s \in Table : s # m_id[d[1]] /\ s \in 0..Slots
        BY <4>1 DEF Table
      <4>3. \A s \in Table : slots'[s] = slots[s]
        BY <1>14, <4>2, StoreWrites
      <4>4. \A s \in Table : late'[s] = late[s]
        BY <1>14, <4>2 DEF StoreTotal, TypeOK
      <4> QED  BY <4>3, <4>4
    <3> QED  BY <3>1
  <2> QED  BY <1>14, <2>2 DEF StoreTotal
<1>15. CASE Look
  BY <1>15 DEF Look, Take, Goto
<1>16. CASE Looked
  BY <1>16 DEF Looked, Give, Goto
<1>17. CASE UNCHANGED vars
  BY <1>17 DEF vars
<1> QED
  BY <1>1, <1>2, <1>3, <1>4, <1>5, <1>6, <1>7, <1>8, <1>9, <1>10, <1>11, <1>12,
     <1>13, <1>14, <1>15, <1>16, <1>17, NextCases

LEMMA ClaimNext == TypeOK /\ ClaimInv /\ [Next]_vars => ClaimInv'
<1> SUFFICES ASSUME TypeOK, ClaimInv, [Next]_vars PROVE ClaimInv'
  OBVIOUS
<1>0. /\ pc \in [Processes -> Places] /\ m_id \in [Companies -> 0..Slots]
      /\ own \in [Companies -> Nat]
  BY DEF TypeOK
<1> USE <1>0, Threads DEF ClaimInv, shared, counts
<1>1. ASSUME NEW p \in Processes, Begin(p) PROVE ClaimInv'
  BY <1>1 DEF Begin, Take, Goto
<1>2. ASSUME NEW p \in Processes, OpenFails(p) PROVE ClaimInv'
  BY <1>2 DEF OpenFails, Give, Goto
<1>3. ASSUME NEW p \in Processes, Open(p) PROVE ClaimInv'
  BY <1>3 DEF Open, Goto
<1>4. ASSUME NEW p \in Processes, MapFails(p) PROVE ClaimInv'
  BY <1>4 DEF MapFails, Give, Goto
<1>5. ASSUME NEW p \in Processes, Zero(p) PROVE ClaimInv'
  BY <1>5 DEF Zero, Give, Goto, ZeroSlot
<1>6. ASSUME NEW p \in Processes, Attach(p) PROVE ClaimInv'
  BY <1>6 DEF Attach, Give, Goto
<1>7. ASSUME NEW p \in Processes, Crash(p) PROVE ClaimInv'
  BY <1>7 DEF Crash, Reap, Give, Goto
<1>8. ASSUME NEW c \in Companies, TakeForClaim(c) PROVE ClaimInv'
  BY <1>8 DEF TakeForClaim, Take, Goto
<1>9. ASSUME NEW c \in Companies, Claim(c) PROVE ClaimInv'
  BY <1>9 DEF Claim, Give, Goto
<1>10. ASSUME NEW c \in Companies, TakeForClear(c) PROVE ClaimInv'
  BY <1>10 DEF TakeForClear, Take, Goto
<1>11. ASSUME NEW c \in Companies, Clear(c) PROVE ClaimInv'
  BY <1>11 DEF Clear, Give, Goto
<1>12. ASSUME NEW c \in Companies, Exit(c) PROVE ClaimInv'
  BY <1>12 DEF Exit, Reap, Give, Goto
<1>13. ASSUME NEW d \in Diggers, ReadTotal(d) PROVE ClaimInv'
  BY <1>13 DEF ReadTotal, Take, Alive
<1>14. ASSUME NEW d \in Diggers, StoreTotal(d) PROVE ClaimInv'
  BY <1>14 DEF StoreTotal, Give, Alive
<1>15. CASE Look
  BY <1>15 DEF Look, Take, Goto
<1>16. CASE Looked
  BY <1>16 DEF Looked, Give, Goto
<1>17. CASE UNCHANGED vars
  BY <1>17 DEF vars
<1> QED
  BY <1>1, <1>2, <1>3, <1>4, <1>5, <1>6, <1>7, <1>8, <1>9, <1>10, <1>11, <1>12,
     <1>13, <1>14, <1>15, <1>16, <1>17, NextCases

-----------------------------------------------------------------------------
(* What a digger has read                                                  *)

LEMMA ReadInit == Init => ReadInv /\ EmptyInv
BY Threads DEF Init, ReadInv, EmptyInv

LEMMA ReadNext ==
  TypeOK /\ MutexIsReturned /\ ReadInv /\ [Next]_vars => ReadInv'
<1> SUFFICES ASSUME TypeOK, MutexIsReturned, ReadInv, [Next]_vars
             PROVE  ReadInv'
  OBVIOUS
<1>0. /\ pc \in [Processes -> Places] /\ m_id \in [Companies -> 0..Slots]
      /\ seen \in [Diggers -> Nat]
  BY DEF TypeOK
<1>f. lock' \notin Diggers => ReadInv'
  BY DEF ReadInv
<1> USE <1>0, <1>f, Threads DEF shared, counts
<1>1. ASSUME NEW p \in Processes, Begin(p) PROVE ReadInv'
  BY <1>1 DEF Begin, Take, Goto
<1>2. ASSUME NEW p \in Processes, OpenFails(p) PROVE ReadInv'
  BY <1>2 DEF OpenFails, Give, Goto
<1>3. ASSUME NEW p \in Processes, Open(p) PROVE ReadInv'
  BY <1>3 DEF Open, Goto, ReadInv, MutexIsReturned, Inside
<1>4. ASSUME NEW p \in Processes, MapFails(p) PROVE ReadInv'
  BY <1>4 DEF MapFails, Give, Goto
<1>5. ASSUME NEW p \in Processes, Zero(p) PROVE ReadInv'
  BY <1>5 DEF Zero, Give, Goto, ZeroSlot
<1>6. ASSUME NEW p \in Processes, Attach(p) PROVE ReadInv'
  BY <1>6 DEF Attach, Give, Goto
<1>7. ASSUME NEW p \in Processes, Crash(p) PROVE ReadInv'
  BY <1>7 DEF Crash, Reap, Give, Goto, ReadInv, Alive
<1>8. ASSUME NEW c \in Companies, TakeForClaim(c) PROVE ReadInv'
  BY <1>8 DEF TakeForClaim, Take, Goto
<1>9. ASSUME NEW c \in Companies, Claim(c) PROVE ReadInv'
  BY <1>9 DEF Claim, Give, Goto
<1>10. ASSUME NEW c \in Companies, TakeForClear(c) PROVE ReadInv'
  BY <1>10 DEF TakeForClear, Take, Goto
<1>11. ASSUME NEW c \in Companies, Clear(c) PROVE ReadInv'
  BY <1>11 DEF Clear, Give, Goto
<1>12. ASSUME NEW c \in Companies, Exit(c) PROVE ReadInv'
  BY <1>12 DEF Exit, Reap, Give, Goto, ReadInv, Alive
<1>13. ASSUME NEW d \in Diggers, ReadTotal(d) PROVE ReadInv'
  BY <1>13 DEF ReadTotal, Take, ReadInv, Alive
<1>14. ASSUME NEW d \in Diggers, StoreTotal(d) PROVE ReadInv'
  BY <1>14 DEF StoreTotal, Give, Alive
<1>15. CASE Look
  BY <1>15 DEF Look, Take, Goto
<1>16. CASE Looked
  BY <1>16 DEF Looked, Give, Goto
<1>17. CASE UNCHANGED vars
  BY <1>17 DEF vars, ReadInv, Alive
<1> QED
  BY <1>1, <1>2, <1>3, <1>4, <1>5, <1>6, <1>7, <1>8, <1>9, <1>10, <1>11, <1>12,
     <1>13, <1>14, <1>15, <1>16, <1>17, NextCases

-----------------------------------------------------------------------------
(* The table                                                               *)

TableInv == EmptyInv /\ SlotsAccounted /\ TotalsAccounted

LEMMA TableInit == Init => TableInv
BY Threads DEF Init, TableInv, EmptyInv, SlotsAccounted, TotalsAccounted,
   Holders

\* A step that writes neither to the table nor to what is counted against it,
\* and takes no slot and gives none back.
Quiet ==
  /\ UNCHANGED <<slots, m_id, zeroed, own, late>>
  /\ \A c \in Companies :
       \/ pc'[c] = pc[c]
       \/ pc'[c] \notin {"dig", "clear", "crashed"}
            /\ pc[c] \notin {"dig", "clear", "crashed"}
       \/ {pc[c], pc'[c]} \subseteq {"dig", "clear", "crashed"}
       \/ m_id[c] = Slots

LEMMA QuietStep == TableInv /\ Quiet => TableInv'
<1> SUFFICES ASSUME TableInv, Quiet PROVE TableInv'
  OBVIOUS
<1>1. ASSUME NEW s \in Table, NEW c \in Companies
      PROVE  /\ pc[c] \in {"dig", "clear", "crashed"} /\ m_id[c] = s
                <=> pc'[c] \in {"dig", "clear", "crashed"} /\ m_id'[c] = s
  <2>1. s # Slots
    BY RegistryAssumption DEF Table
  <2> QED  BY <2>1 DEF Quiet
<1>2. \A s \in Table : Holders(s)' = Holders(s)
  BY <1>1 DEF Holders
<1>3. EmptyInv'
  BY DEF TableInv, EmptyInv, Quiet
<1>4. SlotsAccounted'
  BY <1>2 DEF TableInv, SlotsAccounted, Quiet
<1>5. TotalsAccounted'
  <2> SUFFICES ASSUME NEW s \in Table, NEW c \in Holders(s)'
               PROVE  slots'[s].n_of_soil_done = own'[c] + late'[s]
    BY DEF TotalsAccounted
  <2> QED  BY <1>2 DEF TableInv, TotalsAccounted, Quiet
<1> QED  BY <1>3, <1>4, <1>5 DEF TableInv

LEMMA ZeroTable ==
  ASSUME RegistryInv, NEW p \in Processes, Zero(p)
  PROVE  TableInv'
<1>1. ~zeroed /\ m_id' = m_id /\ late' = late /\ own' = own
  BY DEF RegistryInv, ZeroingInv, Zero, counts
<1>2. \A s \in Table : /\ slots'[s].is_empty = 1
                       /\ slots'[s].n_of_soil_done = 0
                       /\ late'[s] = 0
  <2>1. \A s \in Table : slots'[s] = [ZeroSlot EXCEPT !.is_empty = 1]
    BY RegistryAssumption DEF Zero, Table
  <2>2. \A s \in Table : late[s] = 0
    BY <1>1 DEF RegistryInv, ZeroingInv
  <2>3. /\ [ZeroSlot EXCEPT !.is_empty = 1].is_empty = 1
        /\ [ZeroSlot EXCEPT !.is_empty = 1].n_of_soil_done = 0
    BY DEF ZeroSlot
  <2> QED  BY <1>1, <2>1, <2>2, <2>3
<1>3. \A s \in Table : Holders(s)' = {}
  <2>1. \A c \in Companies : m_id'[c] = Slots
    BY <1>1 DEF RegistryInv, ZeroingInv
  <2> QED  BY <2>1, RegistryAssumption DEF Holders, Table
<1>4. EmptyInv' /\ SlotsAccounted' /\ TotalsAccounted'
  BY <1>2, <1>3 DEF EmptyInv, SlotsAccounted, TotalsAccounted
<1> QED  BY <1>4 DEF TableInv

LEMMA ClaimTable ==
  ASSUME RegistryInv, NEW c \in Companies, Claim(c)
  PROVE  TableInv'
<1> DEFINE f == FirstEmpty
<1>0. /\ pc \in [Processes -> Places] /\ m_id \in [Companies -> 0..Slots]
      /\ own \in [Companies -> Nat]
  BY DEF RegistryInv, TypeOK
<1>1. pc[c] = "claim" /\ m_id[c] = Slots /\ own[c] = 0
  BY DEF Claim, RegistryInv, ClaimInv
<1>2. /\ pc' = [pc EXCEPT ![c] = "dig"] /\ m_id' = [m_id EXCEPT ![c] = f]
      /\ zeroed' = zeroed /\ own' = own /\ late' = late
  BY DEF Claim, Goto, counts
<1>3. \A s \in 0..Slots :
        /\ slots'[s].name = IF s = f /\ s \in Table THEN c ELSE slots[s].name
        /\ slots'[s].is_empty
             = IF s = f /\ s \in Table THEN 0 ELSE slots[s].is_empty
        /\ slots'[s].n_of_soil_done = slots[s].n_of_soil_done
  <2> SUFFICES ASSUME NEW s \in 0..Slots
               PROVE  /\ slots'[s].name
                           = IF s = f /\ s \in Table THEN c ELSE slots[s].name
                      /\ slots'[s].is_empty
                           = IF s = f /\ s \in Table THEN 0
                             ELSE slots[s].is_empty
                      /\ slots'[s].n_of_soil_done = slots[s].n_of_soil_done
    OBVIOUS
  <2>1. CASE s = f /\ s \in Table
    <3>1. slots'[s] = [name |-> c, is_empty |-> 0,
                       n_of_soil_done |-> slots[s].n_of_soil_done]
      BY <2>1, ClaimWrites DEF RegistryInv
    <3> QED  BY <2>1, <3>1
  <2>2. CASE ~(s = f /\ s \in Table)
    <3>1. slots'[s] = slots[s]
      BY <2>2, ClaimWrites DEF RegistryInv
    <3> QED  BY <2>2, <3>1
  <2> QED  BY <2>1, <2>2
<1>4. Table \subseteq 0..Slots /\ Slots \notin Table
  BY RegistryAssumption DEF Table
<1>5. f \in Table => slots[f].is_empty = 1 /\ zeroed
  <2>1. f \in Table => slots[f].is_empty = 1
    BY <1>4, FirstEmptyIsFirst DEF EmptySlots
  <2>2. ~zeroed => \A s \in Table : slots[s].is_empty = 0
    BY DEF RegistryInv, ZeroingInv, ZeroSlot
  <2> QED  BY <2>1, <2>2
<1>6. \A s \in Table :
        Holders(s)' = IF s = f THEN Holders(s) \cup {c} ELSE Holders(s)
  <2>1. \A s \in Table, e \in Companies :
          (pc'[e] \in {"dig", "clear", "crashed"} /\ m_id'[e] = s)
            <=> IF e = c THEN s = f
                ELSE pc[e] \in {"dig", "clear", "crashed"} /\ m_id[e] = s
    BY <1>0, <1>2, Threads
  <2>2. \A s \in Table : c \notin Holders(s)
    BY <1>1, <1>4 DEF Holders
  <2> QED  BY <2>1, <2>2 DEF Holders
<1>7. f \in Table => Holders(f) = {} /\ slots[f].n_of_soil_done = late[f]
  BY <1>5 DEF RegistryInv, SlotsAccounted, EmptyInv
<1>8. EmptyInv'
  BY <1>2, <1>3, <1>4 DEF RegistryInv, EmptyInv
<1>9. SlotsAccounted'
  BY <1>2, <1>3, <1>4, <1>6, <1>7 DEF RegistryInv, SlotsAccounted
<1>10. TotalsAccounted'
  <2> SUFFICES ASSUME NEW s \in Table, NEW e \in Holders(s)'
               PROVE  slots'[s].n_of_soil_done = own'[e] + late'[s]
    BY DEF TotalsAccounted
  <2>1. slots'[s].n_of_soil_done = slots[s].n_of_soil_done
    BY <1>3, <1>4
  <2>2. CASE e \in Holders(s)
    BY <1>2, <2>1, <2>2 DEF RegistryInv, TotalsAccounted
  <2>3. CASE e = c /\ s = f
    <3>1. late[s] \in Nat
      BY <1>4 DEF RegistryInv, TypeOK
    <3> QED  BY <1>1, <1>2, <1>7, <2>1, <2>3, <3>1
  <2> QED  BY <1>6, <2>2, <2>3
<1> QED  BY <1>8, <1>9, <1>10 DEF TableInv

LEMMA ClearTable ==
  ASSUME RegistryInv, NEW c \in Companies, Clear(c)
  PROVE  TableInv'
<1> DEFINE m == m_id[c]
<1>0. /\ pc \in [Processes -> Places] /\ m_id \in [Companies -> 0..Slots]
      /\ late \in [0..Slots -> Nat] /\ m \in 0..Slots
  BY DEF RegistryInv, TypeOK
<1>1. /\ pc[c] = "clear" /\ pc' = [pc EXCEPT ![c] = "leaving"]
      /\ m_id' = m_id /\ zeroed' = zeroed /\ own' = own
      /\ late' = [late EXCEPT ![m] = 0]
  BY DEF Clear, Goto
<1>2. \A s \in 0..Slots :
        /\ slots'[s].name = slots[s].name
        /\ slots'[s].is_empty = IF s = m THEN 1 ELSE slots[s].is_empty
        /\ slots'[s].n_of_soil_done
             = IF s = m THEN 0 ELSE slots[s].n_of_soil_done
  <2>1. slots'[m] = [name |-> slots[m].name, is_empty |-> 1,
                     n_of_soil_done |-> 0]
    BY <1>0, ClearWrites DEF RegistryInv
  <2>2. \A s \in 0..Slots : s # m => slots'[s] = slots[s]
    BY ClearWrites DEF RegistryInv
  <2> QED  BY <2>1, <2>2
<1>3. Table \subseteq 0..Slots /\ Slots \notin Table
  BY RegistryAssumption DEF Table
<1>4. \A s \in Table :
        Holders(s)' = IF s = m THEN Holders(s) \ {c} ELSE Holders(s)
  <2>1. \A s \in Table, e \in Companies :
          (pc'[e] \in {"dig", "clear", "crashed"} /\ m_id'[e] = s)
            <=> /\ e # c
                /\ pc[e] \in {"dig", "clear", "crashed"} /\ m_id[e] = s
    BY <1>0, <1>1, Threads
  <2>2. \A s \in Table : c \in Holders(s) => s = m
    BY DEF Holders
  <2> QED  BY <2>1, <2>2 DEF Holders
<1>5. m \in Table => zeroed /\ Holders(m) = {c}
  <2>1. m \in Table => zeroed
    BY <1>3 DEF RegistryInv, ZeroingInv
  <2>2. m \in Table => c \in Holders(m)
    BY <1>1 DEF Holders
  <2>3. \A s \in Table : zeroed =>
          Holders(s) = {} \/ Holders(s) = {slots[s].name}
    BY DEF RegistryInv, SlotsAccounted
  <2> QED  BY <2>1, <2>2, <2>3
<1>6. EmptyInv'
  BY <1>0, <1>1, <1>2, <1>3 DEF RegistryInv, EmptyInv
<1>7. SlotsAccounted'
  BY <1>1, <1>2, <1>3, <1>4, <1>5 DEF RegistryInv, SlotsAccounted
<1>8. TotalsAccounted'
  <2> SUFFICES ASSUME NEW s \in Table, NEW e \in Holders(s)'
               PROVE  slots'[s].n_of_soil_done = own'[e] + late'[s]
    BY DEF TotalsAccounted
  <2>1. s # m /\ e \in Holders(s)
    BY <1>4, <1>5
  <2>2. /\ slots'[s].n_of_soil_done = slots[s].n_of_soil_done
        /\ late'[s] = late[s]
    BY <1>0, <1>1, <1>2, <1>3, <2>1
  <2> QED  BY <1>1, <2>1, <2>2 DEF RegistryInv, TotalsAccounted
<1> QED  BY <1>6, <1>7, <1>8 DEF TableInv

LEMMA StoreTable ==
  ASSUME RegistryInv, NEW d \in Diggers, StoreTotal(d)
  PROVE  TableInv'
<1> DEFINE c == d[1]
           m == m_id[c]
<1>0. /\ c \in Companies /\ m \in 0..Slots
      /\ own \in [Companies -> Nat] /\ late \in [0..Slots -> Nat]
  BY Threads DEF RegistryInv, TypeOK
<1>1. /\ Alive(c) /\ UNCHANGED <<pc, m_id, zeroed>>
      /\ own' = [own EXCEPT ![c] = @ + 1]
      /\ late' = IF pc[c] # "leaving" THEN late
                 ELSE [late EXCEPT ![m] = @ + 1]
  BY DEF StoreTotal
<1>2. \A s \in 0..Slots :
        /\ slots'[s].name = slots[s].name
        /\ slots'[s].is_empty = slots[s].is_empty
        /\ slots'[s].n_of_soil_done
             = IF s = m THEN slots[s].n_of_soil_done + 1
               ELSE slots[s].n_of_soil_done
  <2>1. seen[d] = slots[m].n_of_soil_done
    BY DEF RegistryInv, ReadInv, StoreTotal
  <2>2. slots'[m] = [name |-> slots[m].name, is_empty |-> slots[m].is_empty,
                     n_of_soil_done |-> seen[d] + 1]
    BY <1>0, StoreWrites DEF RegistryInv
  <2>3. \A s \in 0..Slots : s # m => slots'[s] = slots[s]
    BY StoreWrites DEF RegistryInv
  <2> QED  BY <2>1, <2>2, <2>3
<1>3. Table \subseteq 0..Slots /\ Slots \notin Table
  BY RegistryAssumption DEF Table
<1>4. \A s \in Table : Holders(s)' = Holders(s)
  BY <1>1 DEF Holders
<1>5. m \in Table /\ pc[c] # "leaving" => zeroed /\ Holders(m) = {c}
  <2>1. m \in Table => zeroed
    BY <1>0, <1>3 DEF RegistryInv, ZeroingInv
  <2>2. pc[c] # "leaving" => c \in Holders(m)
    BY <1>0, <1>1 DEF Holders, Alive
  <2>3. \A s \in Table : zeroed =>
          Holders(s) = {} \/ Holders(s) = {slots[s].name}
    BY DEF RegistryInv, SlotsAccounted
  <2> QED  BY <2>1, <2>2, <2>3
<1>6. pc[c] = "leaving" => \A s \in Table : c \notin Holders(s)
  BY DEF Holders
<1>7. EmptyInv'
  <2> SUFFICES ASSUME zeroed, NEW s \in Table, slots'[s].is_empty = 1
               PROVE  slots'[s].n_of_soil_done = late'[s]
    BY <1>1 DEF EmptyInv
  <2>1. slots[s].is_empty = 1 /\ slots[s].n_of_soil_done = late[s]
    BY <1>2, <1>3 DEF RegistryInv, EmptyInv
  <2>2. s = m => pc[c] = "leaving"
    BY <1>5, <2>1 DEF RegistryInv, SlotsAccounted
  <2> QED  BY <1>0, <1>1, <1>2, <1>3, <2>1, <2>2
<1>8. SlotsAccounted'
  BY <1>1, <1>2, <1>3, <1>4 DEF RegistryInv, SlotsAccounted
<1>9. TotalsAccounted'
  <2> SUFFICES ASSUME NEW s \in Table, NEW e \in Holders(s)
               PROVE  slots'[s].n_of_soil_done = own'[e] + late'[s]
    BY <1>4 DEF TotalsAccounted
  <2>1. /\ slots[s].n_of_soil_done = own[e] + late[s]
        /\ e \in Companies /\ own[e] \in Nat /\ late[s] \in Nat
    BY <1>0, <1>3 DEF RegistryInv, TotalsAccounted, Holders
  <2>2. CASE s = m /\ pc[c] = "leaving"
    <3>1. e # c
      BY <1>6, <2>2
    <3>2. late'[s] = late[s] + 1 /\ own'[e] = own[e]
      BY <1>0, <1>1, <2>1, <2>2, <3>1
    <3> QED  BY <1>2, <1>3, <2>1, <2>2, <3>2
  <2>3. CASE s = m /\ pc[c] # "leaving"
    <3>1. e = c
      BY <1>5, <2>3
    <3>2. late'[s] = late[s] /\ own'[e] = own[e] + 1
      BY <1>0, <1>1, <2>1, <2>3, <3>1
    <3> QED  BY <1>2, <1>3, <2>1, <2>3, <3>2
  <2>4. CASE s # m
    <3>1. e # c
      BY <2>4 DEF Holders
    <3>2. late'[s] = late[s] /\ own'[e] = own[e]
      BY <1>0, <1>1, <1>3, <2>1, <2>4, <3>1
    <3> QED  BY <1>2, <1>3, <2>1, <2>4, <3>2
  <2> QED  BY <2>2, <2>3, <2>4
<1> QED  BY <1>7, <1>8, <1>9 DEF TableInv

LEMMA TableNext == RegistryInv /\ [Next]_vars => TableInv'
<1> SUFFICES ASSUME RegistryInv, [Next]_vars PROVE TableInv'
  OBVIOUS
<1>0. /\ pc \in [Processes -> Places] /\ TableInv /\ ClaimInv
      /\ (Quiet => TableInv')
  BY QuietStep DEF RegistryInv, TypeOK, TableInv
<1> USE <1>0, Threads DEF shared, counts, Quiet
<1>1. ASSUME NEW p \in Processes, Begin(p) PROVE TableInv'
  BY <1>1 DEF Begin, Take, Goto
<1>2. ASSUME NEW p \in Processes, OpenFails(p) PROVE TableInv'
  BY <1>2 DEF OpenFails, Give, Goto
<1>3. ASSUME NEW p \in Processes, Open(p) PROVE TableInv'
  BY <1>3 DEF Open, Goto
<1>4. ASSUME NEW p \in Processes, MapFails(p) PROVE TableInv'
  BY <1>4 DEF MapFails, Give, Goto
<1>5. ASSUME NEW p \in Processes, Zero(p) PROVE TableInv'
  BY <1>5, ZeroTable
<1>6. ASSUME NEW p \in Processes, Attach(p) PROVE TableInv'
  BY <1>6 DEF Attach, Give, Goto
<1>7. ASSUME NEW p \in Processes, Crash(p) PROVE TableInv'
  <2>1. pc' = [pc EXCEPT ![p] = "crashed"]
    BY <1>7 DEF Crash, Reap, Goto
  <2>2. \A c \in Companies : pc[c] \in Places
    BY DEF RegistryInv, TypeOK
  <2>3. pc[p] \notin {"off", "failed", "leaving", "left", "crashed"}
    BY <1>7 DEF Crash
  <2>4. \A c \in Companies :
          \/ pc'[c] = pc[c]
          \/ {pc[c], pc'[c]} \subseteq {"dig", "clear", "crashed"}
          \/ m_id[c] = Slots
    BY <2>1, <2>2, <2>3 DEF ClaimInv, Places
  <2> QED  BY <1>7, <2>4 DEF Crash, Reap
<1>8. ASSUME NEW c \in Companies, TakeForClaim(c) PROVE TableInv'
  BY <1>8 DEF TakeForClaim, Take, Goto
<1>9. ASSUME NEW c \in Companies, Claim(c) PROVE TableInv'
  BY <1>9, ClaimTable
<1>10. ASSUME NEW c \in Companies, TakeForClear(c) PROVE TableInv'
  BY <1>10 DEF TakeForClear, Take, Goto
<1>11. ASSUME NEW c \in Companies, Clear(c) PROVE TableInv'
  BY <1>11, ClearTable
<1>12. ASSUME NEW c \in Companies, Exit(c) PROVE TableInv'
  BY <1>12 DEF Exit, Reap, Goto
<1>13. ASSUME NEW d \in Diggers, ReadTotal(d) PROVE TableInv'
  BY <1>13 DEF ReadTotal, Take, Alive
<1>14. ASSUME NEW d \in Diggers, StoreTotal(d) PROVE TableInv'
  BY <1>14, StoreTable
<1>15. CASE Look
  BY <1>15 DEF Look, Take, Goto
<1>16. CASE Looked
  BY <1>16 DEF Looked, Give, Goto
<1>17. CASE UNCHANGED vars
  BY <1>17 DEF vars
<1> QED
  BY <1>1, <1>2, <1>3, <1>4, <1>5, <1>6, <1>7, <1>8, <1>9, <1>10, <1>11, <1>12,
     <1>13, <1>14, <1>15, <1>16, <1>17, NextCases

-----------------------------------------------------------------------------
(* The theorems                                                            *)

LEMMA RegistryInvInit == Init => RegistryInv
BY TypeInit, MutexInit, BeforeInit, ReadInit, TableInit
   DEF RegistryInv, TableInv

LEMMA RegistryInvNext == RegistryInv /\ [Next]_vars => RegistryInv'
<1> SUFFICES ASSUME RegistryInv, [Next]_vars PROVE RegistryInv'
  OBVIOUS
<1>1. TypeOK' /\ MutexIsReturned'
  BY TypeNext, MutexNext DEF RegistryInv
<1>2. ZeroingInv' /\ ClaimInv'
  BY ZeroingNext, ClaimNext DEF RegistryInv
<1>3. ReadInv'
  BY ReadNext DEF RegistryInv
<1>4. EmptyInv' /\ SlotsAccounted' /\ TotalsAccounted'
  BY TableNext DEF TableInv
<1> QED  BY <1>1, <1>2, <1>3, <1>4 DEF RegistryInv

LEMMA RegistryInvariant == Spec => []RegistryInv
BY RegistryInvInit, RegistryInvNext, PTL DEF Spec

(***************************************************************************)
(* Every variable of the companies, of the table and of the mutex keeps    *)
(* its type; in particular no slot's number leaves the mapped memory       *)
(* (shm.c:82-91).                                                          *)
(***************************************************************************)
THEOREM RegistryTypeCorrect == Spec => []TypeOK
<1>1. RegistryInv => TypeOK
  BY DEF RegistryInv
<1> QED  BY <1>1, RegistryInvariant, PTL

(***************************************************************************)
(* On every path through init_shm, through E and through the monitor the   *)
(* mutex is given back, and its owner alone is between sem_wait and        *)
(* sem_post, for any number of processes (shm.c, company.c:119-122).       *)
(***************************************************************************)
THEOREM MutexAlwaysReturned == Spec => []MutexIsReturned
<1>1. RegistryInv => MutexIsReturned
  BY DEF RegistryInv
<1> QED  BY <1>1, RegistryInvariant, PTL

(***************************************************************************)
(* However many companies come, leave and crash, a slot of a zeroed table  *)
(* is taken exactly while one company holds it (shm.c:82-88).              *)
(***************************************************************************)
THEOREM SlotsAlwaysAccounted == Spec => []SlotsAccounted
<1>1. RegistryInv => SlotsAccounted
  BY DEF RegistryInv
<1> QED  BY <1>1, RegistryInvariant, PTL

(***************************************************************************)
(* No increment of n_of_soil_done is lost and no total is inherited,       *)
(* for any number of diggers (company.c:53-55, :120-122).                  *)
(***************************************************************************)
THEOREM TotalsAlwaysAccounted == Spec => []TotalsAccounted
<1>1. RegistryInv => TotalsAccounted
  BY DEF RegistryInv
<1> QED  BY <1>1, RegistryInvariant, PTL

-----------------------------------------------------------------------------
(* The registry implements the table: first its initial states, then each  *)
(* of its steps.                                                           *)

LEMMA ImplementsInit == Init => Abstract!Init
<1> SUFFICES ASSUME Init PROVE Abstract!Init
  OBVIOUS
<1>1. Table \subseteq 0..Slots
  BY RegistryAssumption DEF Table
<1>2. Members = [s \in Table |-> NoName]
  BY DEF Init, Members
<1>3. Formers = [s \in Table |-> {}]
  <2>1. \A c \in Companies : pc[c] = "off"
    BY Threads DEF Init
  <2> QED  BY <2>1 DEF Formers
<1>4. [s \in Table |-> slots[s].n_of_soil_done] = [s \in Table |-> 0]
  BY <1>1 DEF Init, ZeroSlot
<1> QED  BY <1>2, <1>3, <1>4 DEF Abstract!Init

\* A step that leaves the companies' view of the table as it is.
Unseen ==
  /\ UNCHANGED <<slots, m_id, zeroed>>
  /\ \A c \in Companies : pc'[c] = "leaving" <=> pc[c] = "leaving"

LEMMA UnseenStutters == Unseen => UNCHANGED Abstract!table
<1> SUFFICES ASSUME Unseen PROVE UNCHANGED Abstract!table
  OBVIOUS
<1>1. Members' = Members
  BY DEF Members, Unseen
<1>2. Formers' = Formers
  BY DEF Formers, Unseen
<1>3. [s \in Table |-> slots[s].n_of_soil_done]'
        = [s \in Table |-> slots[s].n_of_soil_done]
  BY DEF Unseen
<1> QED  BY <1>1, <1>2, <1>3 DEF Abstract!table

LEMMA ZeroStutters ==
  ASSUME RegistryInv, NEW p \in Processes, Zero(p)
  PROVE  UNCHANGED Abstract!table
<1>1. ~zeroed /\ pc[p] = "create" /\ m_id' = m_id
  BY DEF RegistryInv, ZeroingInv, Zero
<1>2. \A s \in Table : /\ slots'[s].is_empty = 1
                       /\ slots'[s].n_of_soil_done = 0
                       /\ slots[s].n_of_soil_done = 0
  <2>1. \A s \in Table : slots'[s] = [ZeroSlot EXCEPT !.is_empty = 1]
    BY RegistryAssumption DEF Zero, Table
  <2>2. \A s \in Table : slots[s] = ZeroSlot
    BY <1>1 DEF RegistryInv, ZeroingInv
  <2>3. /\ [ZeroSlot EXCEPT !.is_empty = 1].is_empty = 1
        /\ [ZeroSlot EXCEPT !.is_empty = 1].n_of_soil_done = 0
        /\ ZeroSlot.n_of_soil_done = 0
    BY DEF ZeroSlot
  <2> QED  BY <2>1, <2>2, <2>3
<1>3. Members' = Members
  <2>1. Members = [s \in Table |-> NoName]
    BY <1>1 DEF Members
  <2>2. Members' = [s \in Table |-> NoName]
    BY <1>2 DEF Members
  <2> QED  BY <2>1, <2>2
<1>4. Formers' = Formers
  <2>1. \A c \in Companies : pc'[c] = "leaving" <=> pc[c] = "leaving"
    BY <1>1, Threads DEF Zero, Goto, RegistryInv, TypeOK
  <2> QED  BY <1>1, <2>1 DEF Formers
<1>5. [s \in Table |-> slots[s].n_of_soil_done]'
        = [s \in Table |-> slots[s].n_of_soil_done]
  BY <1>2
<1> QED  BY <1>3, <1>4, <1>5 DEF Abstract!table

\* A company that finds the table full joins nothing.
LEMMA ClaimJoins ==
  ASSUME RegistryInv, NEW c \in Companies, Claim(c)
  PROVE  \/ UNCHANGED Abstract!table
         \/ \E s \in Table : Abstract!Join(c, s)
<1> DEFINE f == FirstEmpty
<1>0. /\ pc \in [Processes -> Places] /\ m_id \in [Companies -> 0..Slots]
  BY DEF RegistryInv, TypeOK
<1>1. /\ pc[c] = "claim" /\ pc' = [pc EXCEPT ![c] = "dig"]
      /\ m_id' = [m_id EXCEPT ![c] = f] /\ zeroed' = zeroed
  BY DEF Claim, Goto
<1>2. \A s \in Table : Formers'[s] = Formers[s]
  BY <1>0, <1>1, Threads DEF Formers
<1>3. Formers' = Formers
  BY <1>2 DEF Formers
<1>4. CASE f \notin Table
  <2>1. slots' = slots
    BY <1>4 DEF Claim
  <2>2. Members' = Members
    BY <1>1, <2>1 DEF Members
  <2>3. [s \in Table |-> slots[s].n_of_soil_done]'
          = [s \in Table |-> slots[s].n_of_soil_done]
    BY <2>1
  <2> QED  BY <1>3, <2>2, <2>3 DEF Abstract!table
<1>5. CASE f \in Table
  <2>1. Table \subseteq 0..Slots
    BY RegistryAssumption DEF Table
  <2>2. slots'[f] = [name |-> c, is_empty |-> 0,
                     n_of_soil_done |-> slots[f].n_of_soil_done]
    BY <1>5, <2>1, ClaimWrites DEF RegistryInv
  <2>3. \A s \in Table : s # f => slots'[s] = slots[s]
    BY <2>1, ClaimWrites DEF RegistryInv
  <2>4. slots[f].is_empty = 1
    BY <1>5, <2>1, FirstEmptyIsFirst, RegistryAssumption DEF EmptySlots, Table
  <2>5. zeroed
    <3>1. ~zeroed => slots[f].is_empty = 0
      BY <1>5 DEF RegistryInv, ZeroingInv, ZeroSlot
    <3> QED  BY <2>4, <3>1
  <2>6. Members[f] = NoName
    BY <1>5, <2>4 DEF Members
  <2>7. ASSUME NEW r \in Table, Members[r] = NoName PROVE f <= r
    <3>1. slots[r].is_empty \in {0, 1}
      BY <2>1 DEF RegistryInv, TypeOK
    <3>2. CASE slots[r].is_empty = 1
      BY <3>2, FirstEmptyIsFirst DEF EmptySlots
    <3>3. CASE slots[r].is_empty = 0
      <4>1. slots[r].name \in Holders(r)
        BY <2>5, <3>3 DEF RegistryInv, SlotsAccounted
      <4>2. slots[r].name \in Companies /\ slots[r].name = NoName
        BY <2>5, <2>7, <3>3, <4>1 DEF Holders, Members
      <4> QED  BY <4>2, RegistryAssumption DEF NoName
    <3> QED  BY <3>1, <3>2, <3>3
  <2>8. ASSUME NEW r \in Table PROVE Members[r] # c
    <3>1. CASE slots[r].is_empty = 1
      BY <3>1, RegistryAssumption DEF Members, NoName
    <3>2. CASE slots[r].is_empty # 1
      <4>1. Holders(r) = {slots[r].name}
        BY <2>5, <3>2 DEF RegistryInv, SlotsAccounted
      <4>2. c \notin Holders(r)
        BY <1>1 DEF Holders
      <4> QED  BY <4>1, <4>2, RegistryAssumption DEF Members, NoName
    <3> QED  BY <3>1, <3>2
  <2>9. Members' = [Members EXCEPT ![f] = c]
    <3>1. \A s \in Table : Members'[s] = IF s = f THEN c ELSE Members[s]
      BY <1>1, <1>5, <2>2, <2>3, <2>5 DEF Members
    <3> QED  BY <3>1 DEF Members
  <2>10. [s \in Table |-> slots[s].n_of_soil_done]'
           = [s \in Table |-> slots[s].n_of_soil_done]
    BY <2>2, <2>3
  <2>11. Abstract!Join(c, f)
    BY <1>3, <2>6, <2>7, <2>8, <2>9, <2>10 DEF Abstract!Join
  <2> QED  BY <1>5, <2>11
<1> QED  BY <1>4, <1>5

\* A company behind the table has nothing to leave.
LEMMA ClearLeaves ==
  ASSUME RegistryInv, NEW c \in Companies, Clear(c)
  PROVE  \/ UNCHANGED Abstract!table
         \/ \E s \in Table : Abstract!Leave(c, s)
<1> DEFINE m == m_id[c]
<1>0. /\ pc \in [Processes -> Places] /\ m_id \in [Companies -> 0..Slots]
      /\ Table \subseteq 0..Slots
  BY RegistryAssumption DEF RegistryInv, TypeOK, Table
<1>1. /\ pc[c] = "clear" /\ pc' = [pc EXCEPT ![c] = "leaving"]
      /\ m_id' = m_id /\ zeroed' = zeroed
  BY DEF Clear, Goto
<1>2. \A s \in Table : s # m => slots'[s] = slots[s]
  BY <1>0, ClearWrites DEF RegistryInv
<1>3. m \in Table => slots'[m] = [name |-> slots[m].name, is_empty |-> 1,
                                  n_of_soil_done |-> 0]
  BY <1>0, ClearWrites DEF RegistryInv
<1>4. \A s \in Table : Formers'[s] = IF s = m THEN Formers[s] \cup {c}
                                     ELSE Formers[s]
  BY <1>0, <1>1, Threads DEF Formers
<1>5. CASE m \notin Table
  <2>1. Formers' = Formers
    BY <1>4, <1>5 DEF Formers
  <2>2. Members' = Members
    BY <1>1, <1>2, <1>5 DEF Members
  <2>3. [s \in Table |-> slots[s].n_of_soil_done]'
          = [s \in Table |-> slots[s].n_of_soil_done]
    BY <1>2, <1>5
  <2> QED  BY <2>1, <2>2, <2>3 DEF Abstract!table
<1>6. CASE m \in Table
  <2>1. zeroed
    BY <1>6, RegistryAssumption DEF RegistryInv, ZeroingInv, Table
  <2>2. Holders(m) = {slots[m].name} /\ slots[m].is_empty # 1
    <3>1. c \in Holders(m)
      BY <1>1 DEF Holders
    <3> QED  BY <1>6, <2>1, <3>1 DEF RegistryInv, SlotsAccounted
  <2>3. slots[m].name = c
    BY <1>1, <2>2 DEF Holders
  <2>4. slots[m].is_empty = 0
    BY <1>0, <1>6, <2>2 DEF RegistryInv, TypeOK
  <2>5. Members[m] = c
    BY <1>6, <2>1, <2>3, <2>4 DEF Members
  <2>6. Members' = [Members EXCEPT ![m] = NoName]
    <3>1. \A s \in Table : Members'[s] = IF s = m THEN NoName ELSE Members[s]
      BY <1>1, <1>2, <1>3 DEF Members
    <3> QED  BY <3>1 DEF Members
  <2>7. Formers' = [Formers EXCEPT ![m] = @ \cup {c}]
    BY <1>4, <1>6 DEF Formers
  <2>8. [s \in Table |-> slots[s].n_of_soil_done]'
          = [[s \in Table |-> slots[s].n_of_soil_done] EXCEPT ![m] = 0]
    <3>1. \A s \in Table : slots'[s].n_of_soil_done
                             = IF s = m THEN 0 ELSE slots[s].n_of_soil_done
      BY <1>2, <1>3
    <3> QED  BY <3>1
  <2>9. \A t \in Table : t = m => Abstract!Leave(c, t)
    BY <2>5, <2>6, <2>7, <2>8 DEF Abstract!Leave
  <2> QED  BY <1>6, <2>9
<1> QED  BY <1>5, <1>6

LEMMA StoreReports ==
  ASSUME RegistryInv, NEW d \in Diggers, StoreTotal(d)
  PROVE  \/ UNCHANGED Abstract!table
         \/ \E s \in Table : Abstract!Report(s)
<1> DEFINE c == d[1]
           m == m_id[c]
<1>0. c \in Companies /\ m \in 0..Slots /\ Table \subseteq 0..Slots
  BY Threads, RegistryAssumption DEF RegistryInv, TypeOK, Table
<1>1. Alive(c) /\ UNCHANGED <<pc, m_id, zeroed>>
  BY DEF StoreTotal
<1>2. \A s \in Table : s # m => slots'[s] = slots[s]
  BY <1>0, StoreWrites DEF RegistryInv
<1>3. m \in Table => slots'[m] = [name |-> slots[m].name,
                                  is_empty |-> slots[m].is_empty,
                                  n_of_soil_done |-> seen[d] + 1]
  BY <1>0, StoreWrites DEF RegistryInv
<1>4. seen[d] = slots[m].n_of_soil_done
  BY DEF RegistryInv, ReadInv, StoreTotal
<1>5. Formers' = Formers
  BY <1>1 DEF Formers
<1>6. Members' = Members
  <2>1. \A s \in Table : /\ slots'[s].name = slots[s].name
                         /\ slots'[s].is_empty = slots[s].is_empty
    BY <1>2, <1>3
  <2> QED  BY <1>1, <2>1 DEF Members
<1>7. CASE m \notin Table
  <2>1. [s \in Table |-> slots[s].n_of_soil_done]'
          = [s \in Table |-> slots[s].n_of_soil_done]
    BY <1>2, <1>7
  <2> QED  BY <1>5, <1>6, <2>1 DEF Abstract!table
<1>8. CASE m \in Table
  <2>1. [s \in Table |-> slots[s].n_of_soil_done]'
          = [[s \in Table |-> slots[s].n_of_soil_done] EXCEPT ![m] = @ + 1]
    BY <1>2, <1>3, <1>4, <1>8
  <2>2. Members[m] # NoName \/ Formers[m] # {}
    <3>1. CASE pc[c] = "leaving"
      BY <1>0, <1>8, <3>1 DEF Formers
    <3>2. CASE pc[c] # "leaving"
      <4>1. c \in Holders(m)
        BY <1>0, <1>1, <3>2 DEF Holders, Alive
      <4>2. zeroed
        BY <1>0, <1>8, RegistryAssumption DEF RegistryInv, ZeroingInv, Table
      <4>3. slots[m].name = c /\ slots[m].is_empty # 1
        BY <1>8, <4>1, <4>2 DEF RegistryInv, SlotsAccounted
      <4>4. slots[m].is_empty = 0
        BY <1>0, <4>3 DEF RegistryInv, TypeOK
      <4> QED  BY <1>0, <1>8, <4>2, <4>3, <4>4, RegistryAssumption
               DEF Members, NoName
    <3> QED  BY <3>1, <3>2
  <2>3. \A t \in Table : t = m => Abstract!Report(t)
    BY <1>5, <1>6, <2>1, <2>2 DEF Abstract!Report
  <2> QED  BY <1>8, <2>3
<1> QED  BY <1>7, <1>8

LEMMA ExitDisbands ==
  ASSUME RegistryInv, NEW c \in Companies, Exit(c)
  PROVE  \/ UNCHANGED Abstract!table
         \/ \E s \in Table : Abstract!Disband(c, s)
<1> DEFINE m == m_id[c]
<1>1. /\ pc[c] = "leaving" /\ pc' = [pc EXCEPT ![c] = "left"]
      /\ UNCHANGED <<slots, m_id, zeroed>>
  BY DEF Exit, Reap, Goto, shared
<1>2. pc \in [Processes -> Places]
  BY DEF RegistryInv, TypeOK
<1>3. \A s \in Table : Formers'[s] = IF s = m THEN Formers[s] \ {c}
                                     ELSE Formers[s]
  BY <1>1, <1>2, Threads DEF Formers
<1>4. Members' = Members
  BY <1>1 DEF Members
<1>5. [s \in Table |-> slots[s].n_of_soil_done]'
        = [s \in Table |-> slots[s].n_of_soil_done]
  BY <1>1
<1>6. CASE m \notin Table
  <2>1. Formers' = Formers
    BY <1>3, <1>6 DEF Formers
  <2> QED  BY <1>4, <1>5, <2>1 DEF Abstract!table
<1>7. CASE m \in Table
  <2>1. c \in Formers[m]
    BY <1>1, <1>7 DEF Formers
  <2>2. Formers' = [Formers EXCEPT ![m] = @ \ {c}]
    BY <1>3, <1>7 DEF Formers
  <2>3. \A t \in Table : t = m => Abstract!Disband(c, t)
    BY <1>4, <1>5, <2>1, <2>2 DEF Abstract!Disband
  <2> QED  BY <1>7, <2>3
<1> QED  BY <1>6, <1>7

LEMMA ImplementsNext ==
  RegistryInv /\ [Next]_vars => [Abstract!Next]_Abstract!table
<1> SUFFICES ASSUME RegistryInv, [Next]_vars
             PROVE  [Abstract!Next]_Abstract!table
  OBVIOUS
<1>0. /\ pc \in [Processes -> Places]
      /\ Unseen => [Abstract!Next]_Abstract!table
  BY UnseenStutters DEF RegistryInv, TypeOK
<1> USE <1>0, Threads DEF shared, counts, Unseen
<1>1. ASSUME NEW p \in Processes, Begin(p)
      PROVE  [Abstract!Next]_Abstract!table
  BY <1>1 DEF Begin, Take, Goto
<1>2. ASSUME NEW p \in Processes, OpenFails(p)
      PROVE  [Abstract!Next]_Abstract!table
  BY <1>2 DEF OpenFails, Give, Goto
<1>3. ASSUME NEW p \in Processes, Open(p)
      PROVE  [Abstract!Next]_Abstract!table
  BY <1>3 DEF Open, Goto
<1>4. ASSUME NEW p \in Processes, MapFails(p)
      PROVE  [Abstract!Next]_Abstract!table
  BY <1>4 DEF MapFails, Give, Goto
<1>5. ASSUME NEW p \in Processes, Zero(p)
      PROVE  [Abstract!Next]_Abstract!table
  BY <1>5, ZeroStutters
<1>6. ASSUME NEW p \in Processes, Attach(p)
      PROVE  [Abstract!Next]_Abstract!table
  BY <1>6 DEF Attach, Give, Goto
<1>7. ASSUME NEW p \in Processes, Crash(p)
      PROVE  [Abstract!Next]_Abstract!table
  BY <1>7 DEF Crash, Reap, Goto
<1>8. ASSUME NEW c \in Companies, TakeForClaim(c)
      PROVE  [Abstract!Next]_Abstract!table
  BY <1>8 DEF TakeForClaim, Take, Goto
<1>9. ASSUME NEW c \in Companies, Claim(c)
      PROVE  [Abstract!Next]_Abstract!table
  BY <1>9, ClaimJoins DEF Abstract!Next
<1>10. ASSUME NEW c \in Companies, TakeForClear(c)
      PROVE  [Abstract!Next]_Abstract!table
  BY <1>10 DEF TakeForClear, Take, Goto
<1>11. ASSUME NEW c \in Companies, Clear(c)
      PROVE  [Abstract!Next]_Abstract!table
  BY <1>11, ClearLeaves DEF Abstract!Next
<1>12. ASSUME NEW c \in Companies, Exit(c)
      PROVE  [Abstract!Next]_Abstract!table
  BY <1>12, ExitDisbands DEF Abstract!Next
<1>13. ASSUME NEW d \in Diggers, ReadTotal(d)
      PROVE  [Abstract!Next]_Abstract!table
  BY <1>13 DEF ReadTotal, Take, Alive
<1>14. ASSUME NEW d \in Diggers, StoreTotal(d)
      PROVE  [Abstract!Next]_Abstract!table
  BY <1>14, StoreReports DEF Abstract!Next
<1>15. CASE Look
  BY <1>15 DEF Look, Take, Goto
<1>16. CASE Looked
  BY <1>16 DEF Looked, Give, Goto
<1>17. CASE UNCHANGED vars
  BY <1>17 DEF vars
<1> QED
  BY <1>1, <1>2, <1>3, <1>4, <1>5, <1>6, <1>7, <1>8, <1>9, <1>10, <1>11, <1>12,
     <1>13, <1>14, <1>15, <1>16, <1>17, NextCases

(***************************************************************************)
(* Every step of init_shm, of a report of soil and of E, with all that     *)
(* other processes and crashes do in between, is a step of the shared      *)
(* table or none of it, for any companies, diggers and slots.              *)
(***************************************************************************)
THEOREM RegistryImplementsTable == Spec => TableIsAtomic
<1>1. RegistryInv /\ [Next]_vars => [Abstract!Next]_Abstract!table
  BY ImplementsNext
<1>2. Init => Abstract!Init
  BY ImplementsInit
<1> QED  BY <1>1, <1>2, RegistryInvariant, PTL
         DEF Spec, TableIsAtomic, Abstract!Spec
=============================================================================
