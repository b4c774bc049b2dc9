--------------------------- MODULE CompanyRegistry ---------------------------
(***************************************************************************)
(* Lab 3: companies are processes that register in shared memory, a table  *)
(* of slots under one named mutex, and count there the soil their upper    *)
(* diggers have moved (lab3_real_time_processes/shm.c, company.c); a       *)
(* monitor process prints the table (monitor.c).  Whichever process comes  *)
(* first creates and zeroes the memory.                                    *)
(*                                                                         *)
(* Slot number Slots is the memory behind the table: it is in the mapped   *)
(* page, and init_shm returns its number when the table is full.           *)
(*                                                                         *)
(* The semaphores of the diggers of one company are those of lab 2 (module *)
(* Diggers); here an upper digger only reports soil, at any time.          *)
(***************************************************************************)
EXTENDS Integers, FiniteSets

CONSTANTS
  Companies, \* the company processes, each started at most once
  Monitor,   \* the monitor process
  Uppers,    \* the upper diggers of a company
  Slots,     \* the length of companies[]
  Free,      \* the owner of the mutex when nobody has it
  MaxSoil    \* bound: what a company's diggers report before it leaves

ASSUME RegistryAssumption ==
  /\ Slots \in Nat \ {0} /\ MaxSoil \in Nat
  /\ Monitor \notin Companies
  /\ Free \notin Companies \cup {Monitor} \cup (Companies \X Uppers)
  /\ (Companies \X Uppers) \cap (Companies \cup {Monitor}) = {}

VARIABLES
  exists,  \* the object /company has been created
  slots,   \* ptr->companies, and the memory behind it
  lock,    \* the owner of /complock
  pc,      \* the main thread of each process
  m_id,    \* what init_shm returned to each company
  seen,    \* the total each upper digger has read and not yet stored
  zeroed,  \* history: the memory has been zeroed
  own,     \* history: the soil each company's diggers have reported
  late     \* history: the soil reported to a slot after its company's E

shared == <<exists, slots, zeroed>>
counts == <<seen, own, late>>
vars   == <<shared, lock, pc, m_id, counts>>

Processes == Companies \cup {Monitor}
Diggers   == Companies \X Uppers
Table     == 0 .. Slots - 1
NoName    == Free

ZeroSlot == [name |-> NoName, is_empty |-> 0, n_of_soil_done |-> 0]

Init ==
  /\ exists = FALSE /\ zeroed = FALSE
  /\ slots = [s \in 0..Slots |-> ZeroSlot]
  /\ lock = Free
  /\ pc = [p \in Processes |-> "off"]
  /\ m_id = [c \in Companies |-> Slots]
  /\ seen = [d \in Diggers |-> 0]
  /\ own = [c \in Companies |-> 0]
  /\ late = [s \in 0..Slots |-> 0]

Goto(p, place) == pc' = [pc EXCEPT ![p] = place]

Take(thread) == lock = Free /\ lock' = thread

Give == lock' = Free

-----------------------------------------------------------------------------
(* init_shm, with the mutex held up to Attach or Zero                      *)

Begin(p) ==
  /\ pc[p] = "off" /\ Take(p) /\ Goto(p, "open")
  /\ UNCHANGED <<shared, m_id, counts>>

\* Mutant of OpenFails: the error path keeps the mutex.
OpenFailsKeepsLock(p) ==
  /\ pc[p] = "open" /\ Goto(p, "failed")
  /\ UNCHANGED <<shared, lock, m_id, counts>>

\* shm_open fails, for the first process or a later one.
OpenFails(p) ==
  /\ pc[p] = "open" /\ Give /\ Goto(p, "failed")
  /\ UNCHANGED <<shared, m_id, counts>>

\* O_EXCL tells the first process from the others; ftruncate gives the first
\* one a memory of zeroes.
Open(p) ==
  /\ pc[p] = "open"
  /\ Goto(p, IF exists THEN "attach" ELSE "create")
  /\ exists' = TRUE
  /\ UNCHANGED <<slots, zeroed, lock, m_id, counts>>

\* ftruncate or mmap fails; the object stays.
MapFails(p) ==
  /\ pc[p] \in {"create", "attach"} /\ Give /\ Goto(p, "failed")
  /\ UNCHANGED <<shared, m_id, counts>>

Zero(p) ==
  /\ pc[p] = "create" /\ Give /\ Goto(p, "ready")
  /\ slots' = [s \in 0..Slots |-> IF s \in Table
                 THEN [ZeroSlot EXCEPT !.is_empty = 1] ELSE slots[s]]
  /\ zeroed' = TRUE
  /\ UNCHANGED <<exists, m_id, counts>>

\* Mutant of Attach: every process zeroes the memory.
AttachZeroes(p) ==
  /\ pc[p] = "attach" /\ Give /\ Goto(p, "ready")
  /\ slots' = [s \in 0..Slots |-> IF s \in Table
                 THEN [ZeroSlot EXCEPT !.is_empty = 1] ELSE slots[s]]
  /\ UNCHANGED <<exists, zeroed, m_id, counts>>

Attach(p) ==
  /\ pc[p] = "attach" /\ Give /\ Goto(p, "ready")
  /\ UNCHANGED <<shared, m_id, counts>>

TakeForClaim(c) ==
  /\ pc[c] = "ready" /\ Take(c) /\ Goto(c, "claim")
  /\ UNCHANGED <<shared, m_id, counts>>

EmptySlots == {s \in Table : slots[s].is_empty = 1}

\* Mutant of FirstEmpty: the search looks at one slot too many.
FirstEmptyPastEnd ==
  CHOOSE s \in 0 .. Slots + 1 :
    /\ s = Slots + 1 \/ s \in EmptySlots
    /\ \A r \in EmptySlots : s <= r

\* Where the search of init_shm ends: the first empty slot, or the length.
FirstEmpty ==
  CHOOSE s \in 0..Slots :
    /\ s = Slots \/ s \in EmptySlots
    /\ \A r \in EmptySlots : s <= r

\* n_of_soil_done is left as it is.
Claim(c) ==
  /\ pc[c] = "claim" /\ Give /\ Goto(c, "dig")
  /\ m_id' = [m_id EXCEPT ![c] = FirstEmpty]
  /\ slots' = IF FirstEmpty \notin Table THEN slots
              ELSE [slots EXCEPT ![FirstEmpty].name = c,
                                 ![FirstEmpty].is_empty = 0]
  /\ UNCHANGED <<exists, zeroed, counts>>

InitShm(p) ==
  \/ Begin(p) \/ OpenFails(p) \/ Open(p) \/ MapFails(p)
  \/ Zero(p) \/ Attach(p)

-----------------------------------------------------------------------------
(* The company's upper diggers: ++n_of_soil_done under the mutex           *)

Alive(c) == pc[c] \in {"dig", "clear", "leaving"}

ReadTotal(d) ==
  /\ Alive(d[1]) /\ own[d[1]] < MaxSoil /\ Take(d)
  /\ seen' = [seen EXCEPT ![d] = slots[m_id[d[1]]].n_of_soil_done]
  /\ UNCHANGED <<shared, pc, m_id, own, late>>

StoreTotal(d) ==
  LET c == d[1]
  IN  /\ Alive(c) /\ lock = d /\ Give
      /\ slots' = [slots EXCEPT ![m_id[c]].n_of_soil_done = seen[d] + 1]
      /\ seen' = [seen EXCEPT ![d] = 0]
      /\ own' = [own EXCEPT ![c] = @ + 1]
      /\ late' = IF pc[c] # "leaving" THEN late
                 ELSE [late EXCEPT ![m_id[c]] = @ + 1]
      /\ UNCHANGED <<exists, zeroed, pc, m_id>>

Digger(d) == ReadTotal(d) \/ StoreTotal(d)

-----------------------------------------------------------------------------
(* Command E, and the end of a process                                     *)

TakeForClear(c) ==
  /\ pc[c] = "dig" /\ Take(c) /\ Goto(c, "clear")
  /\ UNCHANGED <<shared, m_id, counts>>

\* Mutant of Clear: the total stays.
ClearKeepsTotal(c) ==
  /\ pc[c] = "clear" /\ Give /\ Goto(c, "leaving")
  /\ slots' = [slots EXCEPT ![m_id[c]].is_empty = 1]
  /\ late' = [late EXCEPT ![m_id[c]] = 0]
  /\ UNCHANGED <<exists, zeroed, m_id, seen, own>>

\* The slot is given back while the diggers still run.
Clear(c) ==
  /\ pc[c] = "clear" /\ Give /\ Goto(c, "leaving")
  /\ slots' = [slots EXCEPT ![m_id[c]].is_empty = 1,
                            ![m_id[c]].n_of_soil_done = 0]
  /\ late' = [late EXCEPT ![m_id[c]] = 0]
  /\ UNCHANGED <<exists, zeroed, m_id, seen, own>>

\* The process ends, its diggers with it, in the middle of what they do.  What
\* becomes of a mutex that one of its threads owns is the kernel's affair: it
\* may be free or lost for good.
Reap(p, place) ==
  /\ Goto(p, place)
  /\ \/ UNCHANGED lock
     \/ lock \in {p} \cup (Diggers \cap ({p} \X Uppers)) /\ Give
  /\ UNCHANGED <<shared, m_id, counts>>

Exit(c) == pc[c] = "leaving" /\ Reap(c, "left")

Crash(p) ==
  /\ pc[p] \notin {"off", "failed", "leaving", "left", "crashed"}
  /\ Reap(p, "crashed")

Company(c) == TakeForClaim(c) \/ Claim(c) \/ Clear(c) \/ Exit(c)

-----------------------------------------------------------------------------
(* The monitor: reads one slot after the other under the mutex             *)

Look ==
  /\ pc[Monitor] = "ready" /\ Take(Monitor) /\ Goto(Monitor, "look")
  /\ UNCHANGED <<shared, m_id, counts>>

Looked ==
  /\ pc[Monitor] = "look" /\ Give /\ Goto(Monitor, "ready")
  /\ UNCHANGED <<shared, m_id, counts>>

-----------------------------------------------------------------------------
Next ==
  \/ \E p \in Processes : InitShm(p) \/ Crash(p)
  \/ \E c \in Companies : Company(c) \/ TakeForClear(c)
  \/ \E d \in Diggers : Digger(d)
  \/ Look \/ Looked

Spec == Init /\ [][Next]_vars

-----------------------------------------------------------------------------
(* Properties                                                              *)

Places == {"off", "open", "create", "attach", "ready", "claim", "dig", "clear",
           "leaving", "look", "left", "failed", "crashed"}

TypeOK ==
  /\ exists \in BOOLEAN /\ zeroed \in BOOLEAN
  /\ slots \in [0..Slots -> [name : Companies \cup {NoName},
                             is_empty : {0, 1}, n_of_soil_done : Nat]]
  /\ lock \in {Free} \cup Processes \cup Diggers
  /\ pc \in [Processes -> Places]
  /\ m_id \in [Companies -> 0..Slots]
  /\ seen \in [Diggers -> Nat] /\ own \in [Companies -> Nat]
  /\ late \in [0..Slots -> Nat]

\* The companies that hold slot s: those that have it and have not given it
\* back, crashed ones too.
Holders(s) ==
  {c \in Companies : pc[c] \in {"dig", "clear", "crashed"} /\ m_id[c] = s}

(***************************************************************************)
(* A slot of a zeroed table is taken exactly while one company holds it:   *)
(* no two companies share one, none is lost by a company that leaves, and  *)
(* only a crash keeps one for good (shm.c:82-88, company.c:119-122).       *)
(***************************************************************************)
SlotsAccounted ==
  zeroed => \A s \in Table :
    Holders(s) = IF slots[s].is_empty = 1 THEN {} ELSE {slots[s].name}

(***************************************************************************)
(* A company's total in the table is the soil its diggers have reported,   *)
(* and beyond it only what diggers of the slot's former company reported   *)
(* between its E and its end: increments are never lost, and a total is    *)
(* not inherited (company.c:53-55, :120-122).                              *)
(***************************************************************************)
TotalsAccounted ==
  \A s \in Table : \A c \in Holders(s) :
    slots[s].n_of_soil_done = own[c] + late[s]

(***************************************************************************)
(* A process is between taking the mutex and giving it back exactly when   *)
(* it owns the mutex: no path of init_shm (the error paths included), of E *)
(* or of the monitor ends with the mutex taken, and none goes on without   *)
(* it.  A digger that owns it is alive to give it back.  Only a process    *)
(* that exits or crashes under the mutex can keep it.                      *)
(***************************************************************************)
Inside == {"open", "create", "attach", "claim", "clear", "look"}

MutexIsReturned ==
  /\ \A p \in Processes :
       /\ pc[p] \in Inside => lock = p
       /\ lock = p => pc[p] \in Inside \cup {"crashed"}
  /\ \A d \in Diggers :
       lock = d => Alive(d[1]) \/ pc[d[1]] \in {"left", "crashed"}

(***************************************************************************)
(* "the fist company should zero the memory this way" (shm.c:65): who has  *)
(* attached to the table finds no slot taken that belongs to nobody.       *)
(***************************************************************************)
NoPhantoms ==
  \A p \in Processes :
    pc[p] = "ready" => \A s \in Table : slots[s].is_empty = 0
                                          => slots[s].name # NoName

\* The table as the companies see it.  Until it is zeroed nobody can join.
Members == [s \in Table |-> IF zeroed /\ slots[s].is_empty = 0
                            THEN slots[s].name ELSE NoName]

Formers == [s \in Table |-> {c \in Companies : pc[c] = "leaving" /\ m_id[c] = s}]

Abstract == INSTANCE SlotTable WITH
  Nobody <- NoName, member <- Members, former <- Formers,
  total <- [s \in Table |-> slots[s].n_of_soil_done]

(***************************************************************************)
(* init_shm, ++n_of_soil_done and E, each several steps under the mutex    *)
(* that other processes come between and crashes cut short, are single     *)
(* steps of a shared table to everyone who reads it.                       *)
(***************************************************************************)
TableIsAtomic == Abstract!Spec
=============================================================================
