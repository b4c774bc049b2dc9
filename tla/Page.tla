-------------------------------- MODULE Page --------------------------------
(***************************************************************************)
(* The page: generate_html_file (svg_generator.c) copies a window of the   *)
(* history, as in module History, and draws three plots of it, as in       *)
(* module SvgPlot, while update_statistics goes on.                        *)
(***************************************************************************)
EXTENDS History, SvgPlot

CONSTANTS
  Signal,      \* what the other fields of a sample hold, by its number
  Ticks,       \* the hardware's clock when each was taken; [0]: at the start
  TicksPerSec, \* sysTimestampFreq
  UintBits     \* bits of sysTimestamp and of a timestamp: 32

VARIABLE curve \* the plot that is drawn

pageVars == <<vars, plotVars, curve>>

\* Samples follow one another before the clock has gone round, and the board is
\* not up for so long that milliseconds do, 49 days.
ASSUME SignalAssumption ==
  /\ UintBits \in Nat /\ TicksPerSec \in Nat \ {0}
  /\ Signal \in [Fields \ {"timestamp"} -> [0..MaxSamples -> Int]]
  /\ Ticks \in [0..MaxSamples -> Nat]
  /\ \A n \in 1..MaxSamples : Ticks[n] - Ticks[n - 1] \in 0 .. 2^UintBits - 1
  /\ (Ticks[MaxSamples] - Ticks[0]) * 1000 < TicksPerSec * 2^UintBits

-----------------------------------------------------------------------------
(* The timestamps of update_statistics                                     *)

SysTimestamp(n) == Ticks[n] % 2^UintBits

\* Mutant of Timestamp: the clock's reading is compared with the first one.
TimestampSinceStart(n) ==
  (((SysTimestamp(n) - SysTimestamp(0)) % 2^UintBits) * 1000) \div TicksPerSec

\* Milliseconds, of a sum in 64 bits of unsigned differences in fewer.
Timestamp(n) ==
  LET timestamp64[m \in 0..n] ==
        IF m = 0 THEN 0
        ELSE timestamp64[m - 1]
               + ((SysTimestamp(m) - SysTimestamp(m - 1)) % 2^UintBits)
  IN  ((timestamp64[n] * 1000) \div TicksPerSec) % 2^UintBits

-----------------------------------------------------------------------------
(* generate_html_file                                                      *)

NextCurve == [position |-> "desired", desired |-> "pwm", pwm |-> "position"]

\* The arrays on the stack: floats.
Floats(field) ==
  [n \in Entries |->
     Float[One * IF field = "timestamp" THEN Timestamp(copy[n][field])
                 ELSE Signal[field][copy[n][field]]]]

PageInit == Init /\ PlotInit /\ curve = "position"

Copying ==
  /\ reader.pc # "plot"
  /\ Writer \/ TakeWindow \/ CopyField \/ CopyEnds
  /\ UNCHANGED <<plotVars, curve>>

\* The plots do not see what the writer does meanwhile; it can as well do that
\* before or afterwards.  So it ends its sample before they are drawn ...
SampleEnds ==
  /\ reader.pc = "plot"
  /\ StoreIndex \/ \E f \in Fields : StoreField(f)
  /\ UNCHANGED <<plotVars, curve>>

\* ... and waits until they are.  A plot's last step is followed by the next
\* plot; after the third one the function returns.
Drawing ==
  /\ reader.pc = "plot" /\ pending = {}
  /\ Plot(Floats("timestamp"), Floats(curve))
  /\ curve' = IF place = "axes" THEN NextCurve[curve] ELSE curve
  /\ IF place = "axes" /\ curve = "pwm" THEN Plotted ELSE UNCHANGED vars

PageNext == Copying \/ SampleEnds \/ Drawing

PageSpec == PageInit /\ [][PageNext]_pageVars

\* The task that serves a request runs on, and stores become visible.
FairPageSpec ==
  /\ PageSpec
  /\ WF_pageVars(SampleEnds \/ Drawing \/ (Copying /\ (CopyField \/ CopyEnds)))

-----------------------------------------------------------------------------
(* Properties                                                              *)

Within(point, left, right, top, bottom) ==
  point[1] \in left..right /\ point[2] \in top..bottom

InPicture(point) == Within(point, 0, PLOT_WIDTH, 0, PLOT_HEIGHT)

InFrame(point) == Within(point, Padding, PLOT_WIDTH - Padding,
                         Padding, PLOT_HEIGHT - Padding)

(***************************************************************************)
(* On the writer's core every plot is drawn inside its picture and every   *)
(* sample inside the frame of the axes: "X mast be already ordered"        *)
(* (svg_generator.c:343), and the copy leaves it ordered although samples  *)
(* go on being written; the scale of the data touches nothing else.  Only  *)
(* a curve that is constant, or a window taken before time has passed, has *)
(* no scale and no points (:373-374).  Places are told apart by whole      *)
(* pixels.                                                                 *)
(***************************************************************************)
PlotsInFrame ==
  core = "same" =>
    \A p \in points :
      \/ IF place = "axes" THEN InFrame(p) ELSE InPicture(p)
      \/ /\ place = "axes" /\ p = <<NaN, NaN>>
         /\ Span(xRange) = 0 \/ Span(yRange) = 0

\* Milliseconds since the start.
Elapsed(n) == ((Ticks[n] - Ticks[0]) * 1000) \div TicksPerSec

(***************************************************************************)
(* "The graphs should show at least 2 seconds of history"                  *)
(* (svg_generator.c:18): to a reader on the writer's core the axis of time *)
(* spans the window of the request, from its oldest sample to its newest,  *)
(* in milliseconds since the start and as exact as a float, however often  *)
(* the clock's 32 bits wrap between two samples or within the window       *)
(* (statistics_updater.c:20-28).                                           *)
(***************************************************************************)
AxisIsTime ==
  core = "same" /\ place # "begin" =>
    xRange = [min |-> Float[One * Elapsed(Expected(0))],
              max |-> Float[One * Elapsed(Expected(HISTORY_SIZE - 1))]]

\* A tenth of the range is more than half of the distance between floats.
FineEnough(range) ==
  \/ Span(range) <= 0
  \/ 2 * Float[Tenth(range)] > Max({Ulp[range.min], Ulp[range.max]})

(***************************************************************************)
(* No line of a grid is drawn twice: if a tenth of the range is more than  *)
(* half of the distance between floats there, each round of the grids'     *)
(* loops moves the line, however the sum rounds (svg_generator.c:385,      *)
(* :408), through zero and from negative numbers too.  With less the loop  *)
(* would never end.                                                        *)
(***************************************************************************)
LinesAdvance ==
  [][/\ VerticalLine /\ FineEnough(xRange) => t' > t
     /\ HorizontalLine /\ FineEnough(yRange) => t' > t]_pageVars

(***************************************************************************)
(* A request is answered: the loop over the window ends, wherever in the   *)
(* array it begins and however far array_start_index moves under it        *)
(* (svg_generator.c:30-31), and the grids' loops end, as floats round      *)
(* (:385, :408), if the ranges are wide enough for where they lie: a tenth *)
(* must be more than half of the distance between the floats there.  (With *)
(* less the line never moves: a position that varies by one from 2^21 on.) *)
(***************************************************************************)
PageEnds ==
  reader.pc = "copy"
    ~> (reader.pc = "idle" \/ ~FineEnough(xRange) \/ ~FineEnough(yRange))
=============================================================================
