# Verification of the real-time systems labs and the steer-by-wire project

The repository holds a term project (`semestral_project/`: two boards that
steer one motor by another over UDP and show it on a web page) and seven lab
programs, all in C for VxWorks.  This directory holds TLA+ models of them, the
TLC configurations that check the models on small instances, and TLAPS proofs.

    tlc -workers 2 -config page.cfg MCPage            # one run
    tlapm StepperMotorProofs.tla                      # one module of proofs

## 1. Inventory

### Term project

| component | state | operations | interacts through |
|---|---|---|---|
| motor driver, `stepper_motor.c` | `motor_driver_shared` (position, desired_position, pwm_duty), `motor_state`, the GPIO and PWM registers, the semaphore `/sem_motor_pwm_change` | `motor_isr` (decode, count, control), `motor_init`, the loop of `motor` | shared structure, semaphore, interrupt mask |
| UDP link, `server.c` | a socket; on the receiver `desired_position`, on the transmitter `position` | receive and post the semaphore, or send and delay | UDP, shared structure, semaphore |
| history, `statistics_updater.c` | the cyclic arrays of `motor_history` and `array_start_index` | append a sample every 3 ticks | shared arrays, no lock |
| page, `svg_generator.c` | copies on the stack | copy the window, draw three plots | reads `motor_history`, writes the client's stream |
| HTTP server, `server_http.c` | the listening socket, one task and descriptor for each client | accept, spawn, receive, answer, close | the process-wide table of descriptors |
| start-up, `main.c`, `shared.c` | the initial values | spawn the tasks of a board | |

What is hard here:

* `motor_isr`, the task `motor` and `run_udp_srv` share variables and a
  register with only the interrupt mask between them.  The default build
  (`.wrproject`: `ARMARCH7gnu_SMP`) is multi-core, where masking an interrupt
  does not stop a handler that has already begun.
* the encoder goes on turning while the handler reads its two lines and clears
  the interrupt's status;
* datagrams carry no sequence number, and nothing answers them;
* the history is written and read without a lock, on purpose
  (`statistics_updater.c:11-13`);
* a client's descriptor is closed twice (`server_http.c:51`, `:59`).

What makes the components correct: the position follows the shaft, or drifts
only in a known way; the register, `pwm_duty` and the latest set-point agree
when the board is at rest; the motor gets to where the other motor rests;
the page shows the window of its request; no descriptor is lost and no client
is left hanging.

### Labs

| lab | what it is | hard part | property to establish |
|---|---|---|---|
| 1 `test.c` | a printing loop | nothing | none |
| 2 `task2.c` | diggers share shovels and a soil heap (counting semaphores), hired and deleted at the keyboard | deletion, timeouts, handovers | shovels and soil are conserved; nobody starves |
| 3 `company.c`, `shm.c`, `monitor.c` | lab 2 as processes with a registry in shared memory | first process initialises, exit while digging, crashes | a slot belongs to one company; totals are right |
| 4 `main.c`, `utils.c` | priority inversion on three tasks | scheduling, affinity | the high task's wait is bounded with inheritance |
| 5 `main.c` | linked arrays for measuring the cache | a shuffle in place | the array is one cycle through all elements |
| 6 `main.c` | latency of a handler and a service task | missed periods, a register cleared by reading, end of the measurement | no period counts twice, the task is never faster than the handler, the measurement ends |
| 7 `latency_measurement.c` | UDP round trips | lost and duplicated datagrams | a delay is that of its own message, the sender ends |

`PROJECT.json` lists every component with its status and every hazard at its
line, with the properties that cover it or the reason why none does yet.

## 2. Plan

Done, in this order: `MotorArith`, `StepperMotor`, their proofs, `History` and
its proof, `PositionLink` (composes the board with the other one), `HttpServer`,
`Diggers`, `CompanyRegistry`, `PriorityInversion`; then `SvgPlot` and `Page`
(composes history and plots), the abstract specifications `SampleLog` and
`SlotTable`, `CacheChain`, `ResponseTime`, `Latency`.

Then proofs for all sizes: of the history on either core, of `CompanyRegistry`
and its abstract table, `HttpServer`, `Diggers`, of labs 4 to 7 and of the
motor's overshoot and control law.

Then what is defined by recursion, by an induction over sets (`LeastElements`):
the sums of lab 6, the cycle of lab 5 and the page's axis of time.

Then what needs bounds on the rounding of floats (`SvgPlotProofs`): the pictures
stay in their frames, the grids' lines advance, and where they cannot.  Last, the
link: what is proved of one board holds of the composed system.

## 3. Modules

| module | models | how |
|---|---|---|
| `MotorArith` | `TRANSITION_TABLE`, `get_pwm`, `set_motor_dutycycle` | operators |
| `StepperMotor` | motor driver, receiving half of `run_udp_srv`, shaft, encoder, interrupt line | one action per access that another agent may see |
| `PositionLink` | `StepperMotor` with the sending half of `run_udp_srv` and a network that loses, reorders and duplicates | composition |
| `History` | `update_statistics` and the copy in `generate_html_file` | one action per store and load |
| `SvgPlot` | `svg_draw_to_file_xy` and what it calls | one action per grid line and per part of the drawing; all arithmetic in floats |
| `Page` | `History` with three `SvgPlot`s of each copy, and the timestamps | composition |
| `SampleLog` | the promise of the history: append, ask, show | abstract; `History` implements it (`PageIsSnapshot`) |
| `HttpServer` | `run_http_srv`, `one_client_server`, the table of descriptors | one action per system call |
| `Diggers` | lab 2 | one action per semaphore operation |
| `CompanyRegistry` | lab 3: `init_shm`, the reports of the upper diggers, command `E`, the monitor | one action per critical section, and one for each place where it can fail or crash |
| `SlotTable` | the promise of the registry: join, report, leave, disband | abstract; `CompanyRegistry` implements it (`TableIsAtomic`) |
| `PriorityInversion` | lab 4: `CreateTasks`, `tLPrio`, `tMPrio`, `tHPrio`, the scheduler | one action per kernel call; ticks of time |
| `Timespec` | lab 4: `timespec_subtract`, `time_to_ms` | operators |
| `CacheChain` | lab 5: `seqArray`, `ranArray`, `measurement`, `measureCache` | one action per call, swap and jump |
| `ResponseTime` | lab 6: timer, `timer_isr`, `ServiceTask`, `MonitorTask`, `CreateTasks` | one action per access that another agent may see |
| `Latency` | lab 7: both sides of `udp_latency`, the network | one action per call of the socket library |
| `DutyReference` | a reference definition for `MotorArith` | operators |
| `MC...` | the instances TLC checks | sets given to constants, symmetry, the laws swept over bounded inputs (`DutyLaw`, `SubtractLaw`), the types of the four labs (`LabsTypeOK`) |
| `StepperMotorProofs` (with the link and the control law), `SvgPlotProofs` (floats), `HistoryProofs` (with the page), `HttpServerProofs`, `DiggersProofs`, `CompanyRegistryProofs`, `LabsProofs` (labs 4 to 7) | theorems | section 6 |
| `LeastElements` | every non-empty set of numbers has a least element (what `CHOOSE` finds in the first free descriptor and the first free slot), from it induction over a set, definition by recursion, and what `Max` and `Min` choose | lemmas |

### StepperMotor

Variables follow the source: `position`, `desired` (`desired_position`),
`pwmDuty`, `motorState`, `sem`, the registers `gpioStatus`, `pwmReg` and the
mask `intEnabled`; `isr` and `task` hold a program counter and the locals of
`motor_isr` and `motor`.  `shaft` is the true place of the shaft in encoder
steps, from which `Phase` gives the two lines.  `origin` and `appliedTo` are
history variables and no action reads them.  `origin` is the place that
`motor_init` took the shaft to be at: where the encoder shows the state that was
read, at the shaft's place or, when the lines were read on either side of a step,
next to it (`NearestPlace`).

The handler is split where another agent could come in between: the first read
of `MOTOR_SR`, the second read with the decoding, the control law, the register,
`pwm_duty`, the clearing of the status.  The task likewise; C leaves the order
of the two reads in `stepper_motor.c:146` open, so `TaskTake` chooses.  `cores`,
chosen at the start from the constant `Cores`, says whether the handler and the
tasks run in parallel; on one core the handler runs to its end before a task
goes on.  With `SlowShaft` the shaft waits while a
phase change is being served: the speed the driver is built for.  Without it the
shaft turns at any moment.  Between the two is `ReadInTime` (`MCStepperMotor`):
a shaft that rests through `motor_init` and may turn again as soon as its last
step is decoded, though not yet cleared.  `irq_count`, which nobody reads, and the widths of
the integers are left out; `motor_cleanup` is behind an endless loop.

### PositionLink

The transmitter's position moves by single steps within `TxPositions`, and what
it may send are the receiver's set-points (`LinkAssumption`).  `net`
is a bag of datagrams: any of them may be the next to arrive, be lost, or be
duplicated.  `recvfrom` writes into `desired_position` directly, so `Deliver` is
`UdpReceive` of `StepperMotor`.

### History

A sample is its number; entry and field hold numbers, so a torn entry is one
whose fields differ.  `BeginSample` is the computation of `i`, `StoreField` and
`StoreIndex` are the five stores.  A reader on the writer's core sees them in
program order; a reader on another core may see them in any order (there is no
barrier), but `taskDelay` orders one sample before the next.  `MaxLag` is how
many samples the writer may begin while one window is copied: the source's gap
is 400 samples of 3 ms, 1.2 s.

What it promises is `SampleLog`: samples are appended one by one, a reader asks,
is shown the last of them as they were then, and returns; on another core the
newest may be torn.  The mapping shows the copy when it is complete and hides
the cursor, the pending stores and the arrays.

### SvgPlot and Page

`SvgPlot` draws one plot: the ranges, the lines of the two grids, each with its
addition in single precision, the data under their own scale, the axes.
`points` is where the last step drew, through `cordx` and `cordy`.

A float is rounded to `Precision` binary digits, 11 in the run, 24 in the source,
ties to even.  Numbers are counted in parts of `One` so that a tenth, and its
rounding, are integers, and `Ulp`, the distance between neighbouring floats, is
that at the half of a number doubled.  So the run's floats are coarse at 2^11
where the code's are at 2^24.  Every operation that the code does in floats is
rounded: the range's width, its tenth, the next line, the scale factors `mx` and
`my` (`svg_generator.c:373-374`), the offset from the least value, its product
with the factor (`:386`, `:409`, `cordx`, `cordy`), and the sums that make `tx`
and `ty`.  A scale factor has far more digits behind the point than `One`
holds, so `Factor` is its digits as a whole number and `Shift` the power of
two that goes with them; `Product` multiplies digits, rounds, and scales back.
The horizontal step, which the code computes in double precision (`/ 10.0`), is
exact here and rounded when it is assigned.  `Pixel` cuts what is left to whole pixels, and
places are compared in these: by less than a pixel (2^-14 of one, in the
source) the code may draw a last sample beyond its frame.  What is not finite
is the point `NaN`.

`Page` is `generate_html_file`: the copy of `History`, then three plots of it.
`Signal` says what the fields of each sample hold, `Ticks` when it was taken, by
a clock of `UintBits` bits; `Timestamp` is the sum of `update_statistics`.
While plots are drawn the writer only ends its sample, and then waits: nothing
it does touches the reader's stack, its steps commute with those of drawing, so
what it would do meanwhile it may as well do before the next request.  This
keeps the state space small and no behaviour of the reader out of it.

### HttpServer

`fds` is the kernel's table: a connection, the listening socket or free; a new
descriptor is the lowest free one.  `fclose` and `close` are separate steps.
Each of `socket`, `bind`, `listen`, `accept`, `taskSpawn`, `recv` may fail, with
the source's error path.  A client connects once and may leave at any time.
What the page contains is `Page`'s affair.

### Diggers

Semaphores have a count and a FIFO queue; a `semGive` hands over to the head.
An upper digger waits for a shovel at most ten ticks, which may end at any
moment.  `taskDelete` waits while its target is safe (`taskSafe`) and then
removes it, from the queue it waits in too.  All commands of the keyboard are
actions of `Boss`; `E` and `o` block in the deletion they are in.  Delays and
output are left out.

### CompanyRegistry

`slots` is the table in shared memory with one slot more, the memory behind it
that an index of 50 reaches; `lock` is the owner of the named mutex, `pc` the
place of every process's main thread.  A process between `semTake` and `semGive`
stands at a place of its own, so it can fail (`shm_open`, `ftruncate`, `mmap`)
or crash there.  `ReadTotal` and `StoreTotal` are the two halves of
`++n_of_soil_done`.  After `E` a company is "leaving" and its diggers still run
until `Exit`.  When a process ends with a thread in the mutex, the mutex is free
or lost for good: the kernel's affair, so both.  `own`, `late` and `zeroed` are
history.  The FIFO order of the mutex is left out: any waiter may be next.  What
the monitor prints changes nothing.  The name in a slot is the company that
wrote it.

`SlotTable` is what the companies may rely on: joining the first free slot,
reporting, leaving and disbanding in one step each.  The mapping takes a slot's
company as a member once the table is zeroed; who is leaving is a former member
until its last digger stops, and may still report: `Report` allows exactly that.

### PriorityInversion

Work and delays take between 1 and a bound of ticks; every other step takes no
time, and `Tick` waits until no task that may run has such a step to do.
`MayRun` is the scheduler: a task waits for those of higher priority on its own
core.  On two cores the low and the middle task are pinned to one, and the high
task to none, because `main.c:42` sets the affinity of the middle task again.
`prio` is the kernel's present priority; `semTake` raises the owner's when the
mutex was made with `SEM_INVERSION_SAFE`, `semGive` restores it.  `end` outlives
the call, as in the code.  `current` counts ticks instead of subtracting two
clock readings; `Timespec` has that subtraction, checked over all pairs of
readings of three seconds with 5 milliseconds to the second and 3 nanoseconds to
the millisecond.  `CreateTasks` is called again only after the three tasks have
ended; the calls with another first argument return at once and do nothing.

### CacheChain

A pointer is an index, `next` the links of `global_array`, `random_indexes` the
array of the source, of which the shuffle swaps one pair in each step with any
index `longrand` may return.  `len` doubles from `FirstLength` (256 in the
source) to `MAX_ARRAY_LEN`, and the arrays keep what earlier lengths and calls
left in them.  `measurement` follows one link fewer than `jumps` (`main.c:49`
decrements first), though `config.h:71` says `jumps` times; the model does as
the code does.

### ResponseTime

The timer counts `TIM_MAX` counts and raises its interrupt, which stays due
(`status`) until the handler reads the register, after it has sampled the
counter and given the semaphore.  `board` says at the start whether there is a
second core, whether the compiler reads `m_end` once (`hoisted`; the variable is
not volatile and the loop of `main.c:167` has no other access), and whether
handler and task are done within the period (`prompt`).  The loop never gives
up its core, so the tasks run only on another one; the monitor, of lower
priority, runs while the service task waits.  An interrupt due when the
measurement ends is kept, and is the first of the next one.  `history` counts.

### Latency

Datagrams carry the number of their message, which the code does not see.  The
network loses, duplicates and reorders, sends and receives fail, at most
`MaxFaults` times in all.  `delays` records, for each delay measured, the
message and the answer.  A side with the count 0 is endless; of a sender
`MaxEndless` messages are looked at.  A new run of a side begins only as a new
behaviour.

## 4. Runs

| run | checks | bounds | result |
|---|---|---|---|
| `motor_any_speed` | `TypeOK`, `DutyLaw`, `DriftIsEven`, `DutyAgrees`, `SetpointApplied` | one core and two, shaft of any speed and moved by hand, 3 places; the law at every distance in -300..300 (`get_pwm` clamps at 200) | hold |
| `motor_follow` | `TracksShaft`, `OvershootBounded`, `ReachesSetpoint` | several cores, slow shaft, set-points 0 and 1, 7 places | hold |
| `link_converges` | `SteersByWire` | two positions, two datagrams in flight, one duplicate | holds |
| `page` | `TypeOK`, `PlotsInFrame`, `AxisIsTime`, `PageIsSnapshot`, `PageEnds` | window 3 of an array of 5, 11 samples: more than two turns; floats of 11 bits; a clock of 12 bits that wraps twice | hold |
| `http_server` | `TypeOK`, `ListenerSurvives`, `NoConnectionLeaks`, `ConnectionsEnd` | 3 clients, 3 descriptors: one listening, so two clients share | hold |
| `diggers` | `TypeOK`, `ShovelsConserved`, `SoilAccounted`, `QueuesAreWaiters`, `LowerGetsShovel` | 1 shovel, 2 diggers of each kind, 3 units of soil, 2 deletions of upper diggers | hold |
| `company_registry` | `TypeOK`, `SlotsAccounted`, `TotalsAccounted`, `MutexIsReturned`, `TableIsAtomic` | 3 companies of 2 upper diggers, the monitor, a table of 2, 2 reports of each company; symmetry of companies and diggers | hold |
| `labs` | `LabsTypeOK`; lab 4: `SubtractLaw`, `WaitBounded`, `InheritedWhileWaited`, `MeasurementEnds` | one core and two, both arguments, 2 calls of up to 2 measurements | hold |
| | lab 5: `IndexesPermuted`, `OneCycle` | working sets of 2 and 4, up to 5 jumps, any number of calls | hold |
| | lab 6: `PeriodsHandledOnce`, `ServiceNotFaster`, `ResponseEnds` | 3 counts to the period, 2 rows, 2 calls of 2 periods | hold |
| | lab 7: `OwnAnswer`, `SenderEnds` | counts up to 3 or endless on each side, 2 faults | hold |
| `motor_lost_edge` | `AbsolutePosition` | transmitter board, the shaft as `ReadInTime` says | violated |
| `motor_stale_duty` | `FreshDuty` | one core | violated |
| `http_double_close` | `OwnDescriptor` | as `http_server` | violated |
| `registry_phantoms` | `NoPhantoms` | as `company_registry` | violated |

Why the bounds are enough.  A lost edge needs one step during service, a drift
two steps; three places allow both directions and a turn back.  A datagram can
be overtaken with two in flight.  The history wraps twice, so every relative
position of window, writer and end of the array occurs.  The signals of
`MCPage` have a curve that is constant in some windows, one that falls, one
that changes its sign, and one that rests, jumps, and then moves by less than a
float can tell there; the clock wraps before the first sample and inside
windows, and the last samples' times are rounded.  A number is handed out again
as soon as two clients share two descriptors, and the third is there for the
accept that then fails.  With one shovel every handover and timeout happens
with two diggers of each kind.  Three companies on two slots fill the table,
and let the third inherit a slot from either of the others; a lost increment
needs two reports.  Two lengths let links of the shorter set remain under the
longer one, and five jumps lead once round four elements and on.  Two periods
are the fewest in which one can be missed, and a second call meets what the
first left.  Three messages leave one before and one after the message a fault
strikes.  The low task's work is shorter than the middle one's, as in the
source, and two measurements let the second meet the middle task anywhere.  The
bounds `MaxShaft`, `MaxCount`, `MaxSem`, `MaxInFlight`, `MaxDuplicates`,
`MaxSamples`, `MaxHeap`, `MaxFired`, `MaxUpper`, `MaxSoil`, `MaxMeasurements`,
`MaxCalls`, `MaxJumps`, `MaxPeriods`, `MaxStarts`, `MaxPrints`, `MaxEndless`
and `MaxFaults` are guards of the environment's actions (turning, receiving,
sending, sampling, digging, reporting soil, commands); none is on a step that
another agent waits for.

`CHECK_DEADLOCK FALSE` is said where the system may stop: the HTTP server and
its clients, the companies, or the measurements of labs 4 to 7 may all have ended, and a
transmitter board's shaft may rest.

`PROJECT.json` gives for each property a mutant, a definition changed as a
plausible bug would change it, that TLC must catch.  The mutants stand next to
the definitions they vary, with a comment; no specification uses them.

### What the violated properties show

* `motor_lost_edge`: `motor_isr` clears the status bit last.  A phase change
  between the reads and the clearing is not served; the next one looks like a
  jump by two, which the table counts as 0; `position` is off by two from then
  on.  The run's shaft rests through `motor_init` and does not turn before its
  last step is decoded, so neither a torn read nor a shaft too fast for the
  handler has a part in it.  `DriftIsEven` says that this is all that can happen.
* `motor_stale_duty`: the duty is computed before interrupts are disabled, so a
  fresher one may be overwritten, on one core as on several.  The next step of
  the shaft corrects it, hence `OvershootBounded` and `ReachesSetpoint`; but at
  distance 0 the motor may rest with a duty for another distance until then.
* With several cores handler and task interleave their pairs of stores, and the
  duty shown may differ from the register's: `DutyAgrees` and `SetpointApplied`
  speak of one core.
* `http_double_close`: between `fclose` and `close` the number may have become
  the next client's.
* `registry_phantoms`: the process that creates the object fails in `ftruncate`
  or `mmap` and leaves it; the next takes it for initialised.  No slot is empty,
  every company gets index 50 and counts behind the table.

What the properties exempt, because the code does go wrong there and no document
says that it should not: in lab 6, samples after a missed period, interrupts
lost inside the handler, and a wait for `m_end` on one core or with a hoisted
read; in lab 7, delays after a duplicated datagram, and a sender whose datagram
was lost or whose listener had too few turns (`TurnsSuffice`); in lab 3, a mutex
whose owner exits or crashes, and the counts behind the table; in the term
project, a copy that takes longer than the gap, and the mixed stores of several
cores above.  The models do all of this; `PROJECT.json` says it at each hazard.

Two defects were seen while modelling and are stated as no property: command `I`
of labs 2 and 3 compares the lower diggers' count (`task2.c:88`), and `end` of
lab 4 is never reset, so that a second measurement contends with nobody.

## 5. Fairness

* Motor: a handler that has begun goes on, ready tasks run (weak fairness); a
  raised interrupt is taken although the task masks it for three statements
  again and again (strong fairness); a driven shaft turns; the peer sends every
  20 ticks, so set-points keep arriving.
* Link: the transmitter's loop goes on; a datagram is delivered or lost in the
  end; a position that is sent for ever is delivered again and again.  Without
  the last, no protocol could do anything over this network.
* Page: the task that serves a request copies and draws on, and stores become
  visible in the end.  The writer need not begin a sample.
* HTTP: the server and its tasks run, and `recv` returns: the client sends or
  leaves.  A client that does neither blocks its task in the code too.
* Diggers: every digger's task runs.  The keyboard need not be touched.
* PriorityInversion: neither core stands still, and time passes.  Who runs is
  the scheduler's choice, not fairness.
* ResponseTime: neither core stands still.  The monitor needs strong fairness:
  the service task keeps it from running whenever the semaphore is given, but
  waits again in each period.
* Latency: each side goes on while it can.  What is not lost arrives.

## 6. Proofs

All are for every value of the constants.

* `TypeCorrect`: `Spec => []TypeOK`.  `TypeInv` is inductive with the program
  counters' typing.
* `DriftIsAlwaysEven`: with the invariant that the parity of `position` plus
  the parity of the place `motor_state` stands for is that of the origin.  No
  read of the encoder can break it, since `Decode` moves both by the same
  amount modulo 2 (`DecodeParity`), and a state read in two halves is still a
  state; hence it needs no assumption on speed or cores.  `BootInv` says what
  the boards have not done before `motor_init` has ended.
* `SlowShaftIsTracked` (assumes `SlowShaft`): `TrackInv` adds what the handler
  has read so far and that at most one step is outstanding.
* `DutyAgreesOnOneCore` (speaks of one core): `CoreInv` says that a task between its
  stores has masked the interrupt and that the handler is idle while a task
  moves; so a store of one never falls between the two stores of the other.
* `SetpointAppliedOnOneCore` (speaks of one core): `PostedInv` says that a
  set-point not yet applied is announced by a posted semaphore, a pending give,
  or a task or handler that holds it.
* `OvershootIsBounded` (assumes `SlowShaft`, no hand and the receiver's board,
  where nobody but the network sets `desired`): for each direction, `PushInv`
  says that at or beyond all set-points the motor is driven on only by a task
  that computed its duty before the shaft arrived, and that the handler has
  then still to correct it; `BoundInv` that the place is one step beyond at most.
  Handler and task may overwrite each other's duties on any number of cores:
  what saves the bound is that the next edge's handler comes before the next
  step.  `TargetInv` says that every set-point in hand is one that was sent.
* `PwmIsReference`: `get_pwm` is the reference definition at every integer
  distance.  The square of the clamped distance over 256 is bounded from both
  sides (`PwmOfSquare`), which makes it the greatest, or least, percentage that
  the definition asks for (`GreatestIs`, `LeastIs`).  `DutyLawHolds` is the
  property the run sweeps.
* `HistoryTypeCorrect`: the loop's index and its count stay together
  (`CursorInv`), without which an index that missed the end of the window would
  leave the arrays on the stack; no assumption on cores or lag.
* `HistoryImplementsLog` (assumes `MaxLag <=` the gap between the two sizes):
  `History` implements `SampleLog` for a reader on either core.  `LogInit`,
  `LogStutter`, `EndShows` and `LogNext` map the initial states and every step.
  The invariant they need says where the slot being stored is (`StoreInv`), what
  every slot of the ring holds as a function of its distance from the start
  index, of the number of samples written and of the stores still to come
  (`RingInv`), where the reader is seen from the writer (`WindowInv`), and that
  what is copied is what the log allows (`CopyInv`).  A store that is seen early
  can only be in the newest entry of a window: all others are more than the
  gap away from it.
* `SnapshotIsExact` (assumes the same, speaks of a reader on the writer's core)
  is the consequence that nothing at all is torn there.
* `PageKeepsHistory`: a step of the page is one of `History` or leaves it alone,
  so all this holds of the page too.
* `AxisIsAlwaysTime` (assumes the same `MaxLag`, and what `SignalAssumption` says
  of the clock): `TimestampIsElapsed` says that the sum of the wrapped
  differences, in `update_statistics`, is the time since the start.  The sum is
  a recursive function; that time satisfies its definition (`Sum64Exists`), and
  by induction nothing else does (`Sum64IsTime`).  `AxisInv` ties the axis to
  the window that was copied, through `SnapshotExact`, whatever is written
  between the plots.
* `PlotsAlwaysInFrame` (assumes the same `MaxLag`): `DrawInv` says that the
  ranges are the ends and the extremes of the floats copied, and that a grid's
  next line is a float that is not before its range.  A line is drawn only while it
  is before the end, so within the range.  Where that is on the page is bounded
  through every rounding: the scale factor is too long by half of its last
  digit at most (`FactorIs`), so a product is at most half a pixel longer than the
  frame before it is rounded (`SizeWithin`, `ProductWithin`), and half
  pixels are floats, so rounding cannot take it any farther, nor the sums after it
  (`CoordinateWithin`, `LinesWithin`).  Ranges that are not empty are at least
  one wide, since whole numbers are rounded to whole numbers (`RangesApart`).  This is where `PlotAssumption` asks for eleven digits: of ten, the
  floats between 512 and 1024 are whole, and the pixel 900 may be rounded to
  901.  The lemmas below it are `FloatMonotone` and `FloatIdempotent`: rounding
  keeps the order of numbers and leaves floats alone, since in the binade of `v`,
  from `Low(k)` to its double, the floats are the multiples of one distance, and
  `Nearest` stays in the binade or rounds up to the next one's first float.  Times
  are in order because elapsed time is and rounding keeps it (`TimesInRange`).
  On another core a torn newest entry may turn the axis of time round; its first
  line is then already behind its end (`FirstLine`, by `TenthBackwards`), so no
  line is drawn.
* `LinesAlwaysAdvance` (assumes the same `MaxLag`): if a tenth of the range is more
  than half of the distance between floats at its ends (`FineEnough`), adding it
  to a float in the range gives a greater one (`AdvanceMoves`), since the distance
  is nowhere in the range more than at its ends (`UlpMonotone`, `NextLine`),
  through zero too.  This is the step on which `PageEnds` rests; the
  run checks that, and its mutant (`AdvanceWhole`) breaks both.
* `SmallSignalsAdvance` (assumes also that signals are at most `2^(Precision - 4)`,
  which is 2^20 in the source): whole numbers of that size are floats
  (`SmallFloat`), and a range that is not empty is at least one wide, so fine
  enough (`FineIfWide`).
* `LineStuck`: between `2^(Precision - 3)` and its double (2^21 and 2^22 in the
  source) a signal that varies by one is not fine enough, and the line stays
  where it is for ever.  So the threshold of the previous theorem is within a
  factor of two of the best one.
* `LinkKeepsMotor`: a step of the composed system is one of `StepperMotor` or
  leaves the receiver's board alone (`LinkSteps`), because a datagram can only
  hold a position the transmitter had.  `LinkNeverOvershoots` (assumes what
  `OvershootIsBounded` does) is the consequence for the whole system: whatever is
  lost, late or doubled, the motor stays within a step of the places where the
  other one is ever moved.
* `RegistryImplementsTable`: `CompanyRegistry` implements `SlotTable`, for any
  number of companies, diggers and slots.  `TableNext` proves `SlotsAccounted`
  and `TotalsAccounted` together with `EmptyInv`, that what is left in an empty
  slot is what late diggers reported: a claim inherits it.  They need `ZeroingInv`
  (nobody has a slot of a table that was not zeroed, where they would not hold:
  `NoPhantoms`), `ClaimInv` and `ReadInv` (nobody changes a total between a
  digger's read and its store), and this needs `MutexIsReturned`.  Then each step
  is one of the table's, or none (`ImplementsNext`).
* `SlotsAlwaysAccounted`, `TotalsAlwaysAccounted`, `MutexAlwaysReturned`,
  `RegistryTypeCorrect` are parts of that invariant.
* `NoConnectionEverLeaks`, `ListenerAlwaysSurvives`, `HttpTypeCorrect`: since
  tasks close each other's numbers, nothing can be said of the connection behind
  a task's number; `HttpInv` speaks of the numbers.  `ListenerInv` says that the
  listening socket's number is never one that a task still closes, because it is
  taken before any other and no close of it is outstanding; `OnceInv` that a
  client is in the backlog, with the server or with its task.
* `ShovelsAlwaysConserved`, `SoilAlwaysAccounted`, `QueuesAreAlwaysWaiters`,
  `DiggersTypeCorrect`: `SemTaken`, `SemQueued`, `SemGiven` and `SemWithout` say
  what the semaphore's operations do to count and queue.  The queues hold
  nobody twice (`QueuesInv`), so a give or a deletion takes its digger out for
  good.  `AbsentInv` and `BossInv` say that a digger that is not counted does not
  run, without which a new one could start in the place of one who still holds a
  shovel.
* `InheritedExactlyWhileWaited` and `WaitIsBounded`: `MutexInv` says from which
  places the mutex is held; `WaitInv` that the time waited so far and the low
  task's work still to be done are together within the bound.
* `ShuffleIsPermutation`: at every length the indexes stay a permutation of the
  working set, because a swap is injective and onto.  Type correctness goes with
  it: linking in the order of a permutation leaves `next` a function.
* `ChainIsOneCycle`: `RoundInv` says that while it is measured, the links lead
  round the working set in some order, which the linking loop makes of a
  permutation (`LinkedIsRound`).  The place so many steps along that order
  satisfies the recursion that defines `Visited` (`AlongIsVisit`), and only one
  function does (`VisitIsUnique`).
* `ServiceIsNotFaster`: `SlackInv` says that from the row of the present counter
  on, the handler's histogram is ahead by the samples not yet served, because
  those were all taken earlier in the period.  What a sample adds to a sum
  (`UpToRaised`) is proved of the community modules' fold: it exists as a
  function (`SumExists`), and two sums compare set by set (`SubsetsInduction`).
* `PeriodsAlwaysHandledOnce`: `HandledInv` is the property for whatever the
  shell does, with the tasks that cannot run meanwhile (`MonitorInv`,
  `ServiceInv`).
* `AnswersAreOwn`: as long as nothing is duplicated and no `recvfrom` of the
  sender failed, one message is under way at most, as request, in the listener's
  buffer or as answer (`OneUnderWay`).
* `SubtractionIsLawful`: `DifferenceIsExact` proves the law for all seconds; the
  property sweeps it over a few.
* `LabsTypeCorrect`: the four labs keep their types, with the invariants above.
* `DrivesTowards`: the control law's sign, and with `SetMotorDutycycle` the
  motor's, for every integer distance.

The only assumptions are the named ones of the modules (`MotorAssumption`,
`HistoryAssumption`, `RegistryAssumption`, ...), which TLC evaluates in every run,
and those stated in the theorems.  They say that sizes and bounds are numbers in
the order the source has them, and that names of different things differ:
processes and the threads in them, clients and the listening socket.  Each
inductive invariant was checked by TLC on the run's instance before it was
proved.  The bounds of the runs are constants of any size in the theorems.

Model-checked only:

* every liveness property (`ReachesSetpoint`, `SteersByWire`, `PageEnds`,
  `ConnectionsEnd`, `LowerGetsShovel`, `MeasurementEnds`, `ResponseEnds`,
  `SenderEnds`), which this prover does not reach.  `LinesAlwaysAdvance` is the
  step of `PageEnds`, and `OvershootIsBounded` the safe half of
  `ReachesSetpoint`, but that fairness leads to the end is TLC's alone.

Every safety invariant and every action property of the passing runs is proved.

The library's induction theorems take an operator, which the provers cannot
instantiate.  `Induction` (`LeastElements`) takes a set in its place, and is
proved from the least element that every non-empty set of numbers has;
`Recursion` takes a function for the step, and so gives `Pow2`.

## 7. Not modelled

* The text of the page: tags, colours, fonts, printed numbers.  Positions and
  milliseconds beyond what floats of the run hold are scaled down, not modelled
  at their size.  The wrap of a 32-bit count of milliseconds after 49 days, at
  which the abscissae would no longer be ordered, is excluded by
  `SignalAssumption`.
* Lab 1, a printing loop.
* Lab 5: the measured times; calls with no jumps or fewer, which count down
  through the integers.
* Lab 7: start-up failures (the program exits), the clock, the payload, and the
  histogram's bound.
* Inside a company of lab 3, the shovels, the heap and the hiring of diggers:
  they are those of lab 2.
* Start-up failures of the UDP task (it exits) and datagrams of another size
  than an `int32_t`: the only sender is the other board.
* Widths of integers: positions 2^31 steps apart are out of the motors' reach.
* The moment of a sample across `motor_isr` (three fields read one after the
  other): `StepperMotor` and `History` are not composed.
