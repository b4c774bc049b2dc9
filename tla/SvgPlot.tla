------------------------------ MODULE SvgPlot -------------------------------
(***************************************************************************)
(* One plot of the page: svg_draw_to_file_xy and the functions it calls    *)
(* (semestral_project/src/svg_generator.c).  Of the document it keeps      *)
(* where things are drawn; tags, colours and fonts are left out.           *)
(*                                                                         *)
(* The code computes with floats.  Here a number is a count of One-ths, so *)
(* that the tenth of a whole number is exact, and Float rounds it to       *)
(* Precision binary digits, as an assignment to a float does.  Pixels are  *)
(* whole numbers.                                                          *)
(***************************************************************************)
EXTENDS Integers, FiniteSetsExt

CONSTANT Precision \* binary digits of a float: 24 in the source

\* The coordinates of pixels, and halves between them, are floats.
ASSUME PlotAssumption == Precision \in Nat /\ Precision > 10

VARIABLES
  place,  \* where svg_draw_to_file_xy is
  xRange, \* min_x, max_x
  yRange, \* min_y, max_y
  t,      \* the grid line to be drawn
  scaled, \* ctx has the scale and offset of the data
  points  \* what was drawn last, in pixels of the page

plotVars == <<place, xRange, yRange, t, scaled, points>>

PLOT_WIDTH  == 1000
PLOT_HEIGHT == 300
Padding     == 50

\* The powers of two.
Pow2[k \in Nat] == IF k = 0 THEN 1 ELSE 2 * Pow2[k - 1]

\* The least whole number with Precision digits.
Half == Pow2[Precision - 1]

\* Fine enough for a tenth and its rounding.
One == 160 * Half

AbsVal(v) == IF v < 0 THEN -v ELSE v

\* The distance between neighbouring floats at v: twice that at half of v.
Ulp[v \in Int] ==
  IF AbsVal(v) < 10 * Half THEN 1
  ELSE IF AbsVal(v) < 20 * Half THEN 10
  ELSE 2 * Ulp[AbsVal(v) \div 2]

\* The nearest multiple of u, the even one of two that are equally near.
Nearest(v, u) ==
  LET n == v \div u
      r == 2 * (v % u)
  IN  IF r < u \/ (r = u /\ n % 2 = 0) THEN n * u ELSE (n + 1) * u

Float[v \in Int] == Nearest(v, Ulp[v])

\* What is not a number is nowhere in the picture.
NaN == -1000000

NoRange == [min |-> 0, max |-> 0]

PlotInit ==
  /\ place = "begin" /\ t = 0 /\ scaled = FALSE /\ points = {}
  /\ xRange = NoRange /\ yRange = NoRange

-----------------------------------------------------------------------------
(* The scale of a plot of the points x[n], y[n].                           *)

\* Mutant of MaxMin: the last entry is not looked at.
MaxMinShort(data) ==
  LET values == {data[n] : n \in DOMAIN data \ {Max(DOMAIN data)}}
  IN  [min |-> Min(values), max |-> Max(values)]

MaxMin(data) ==
  LET values == {data[n] : n \in DOMAIN data}
  IN  [min |-> Min(values), max |-> Max(values)]

\* The abscissae must be ordered already: their ends are their extremes.
Ends(x) == [min |-> x[Min(DOMAIN x)], max |-> x[Max(DOMAIN x)]]

Span(range) == Float[range.max - range.min]

\* The digits of a float as a whole number, from Half to its double.
Digits(v) == AbsVal(v) \div Ulp[v]

\* The power of two that gives pixels / digits the digits of a float.
Shift(pixels) == [digits \in Nat |->
  Pow2[Min({j \in 0..Precision : digits <= pixels * Pow2[j]})]]

\* mx and my, which are pixels / span: their digits, to the nearest.
Factor(pixels) == [digits \in Nat |->
  Nearest(pixels * Shift(pixels)[digits] * Half, digits) \div digits]

\* The size of offset * mx, rounded again: Float[10 * n] has the digits of n.
Product(pixels) == [span \in Int |-> [offset \in Int |->
  LET digits == Digits(span)
      size   == (16 * Float[10 * (Digits(offset) * Factor(pixels)[digits])])
                  \div Shift(pixels)[digits]
      near   == Ulp[offset]
      far    == Ulp[span]
  IN  IF near <= far THEN size \div (far \div near) ELSE size * (near \div far)]]

\* (v - min) * mx: where v is in a range that is so many pixels long.
Coordinate(v, range, pixels) ==
  LET offset == Float[v - range.min]
      size   == Product(pixels)[Span(range)][offset]
  IN  IF (offset < 0) = (Span(range) < 0) THEN size ELSE -size

\* The pixel where a number is.
Pixel(c) == c \div One

\* The scale of an empty range is infinite.
Scaled(v, range, pixels) ==
  IF Span(range) = 0 THEN NaN ELSE Pixel(Coordinate(v, range, pixels))

InnerWidth  == PLOT_WIDTH - 2 * Padding
InnerHeight == PLOT_HEIGHT - 2 * Padding

\* cordx and cordy of a point; they change it only with the data's scale.
Cord(x, y) ==
  IF scaled THEN <<Scaled(x, xRange, InnerWidth), Scaled(y, yRange, InnerHeight)>>
  ELSE <<x, y>>

\* Where svg_line, svg_arrow and svg_text draw who are given these points.
Drawn(given) == {Cord(p[1], p[2]) : p \in given}

\* The group of the data is moved by the padding and turned upside down.
InGroup(cord) ==
  IF NaN \in {cord[1], cord[2]} THEN <<NaN, NaN>>
  ELSE <<cord[1] + Padding, PLOT_HEIGHT - Padding - cord[2]>>

\* A label is turned upwards about its anchor.
Turned(anchor, cord) == <<anchor[1] + cord[2], anchor[2] - cord[1]>>

-----------------------------------------------------------------------------
(* svg_draw_to_file_xy                                                     *)

\* The distance of grid lines: a float, but where the horizontal ones go on, by a
\* double.
Tenth(range) == Span(range) \div 10

\* Mutant of Advance: by whole numbers only.
AdvanceWhole(from, by) == Float[from + One * (by \div One)]

\* The next grid line after from.
Advance(from, by) == Float[from + by]

Begin(x, y) ==
  /\ place = "begin"
  /\ xRange' = Ends(x) /\ yRange' = MaxMin(y)
  /\ points' = {<<0, 0>>, <<PLOT_WIDTH, PLOT_HEIGHT>>}
  /\ t' = Advance(xRange'.min, Float[Tenth(xRange')])
  /\ place' = "vertical" /\ scaled' = FALSE

VerticalLine ==
  LET tx == Pixel(Float[Coordinate(t, xRange, InnerWidth) + One * Padding])
  IN  /\ place = "vertical" /\ t < xRange.max
      /\ points' = Drawn({<<tx, PLOT_HEIGHT - Padding>>, <<tx, Padding>>})
           \cup {Turned(<<tx - 3, PLOT_HEIGHT - Padding - 10>>, Cord(0, 0))}
      /\ t' = Advance(t, Float[Tenth(xRange)])
      /\ UNCHANGED <<place, xRange, yRange, scaled>>

VerticalsEnd ==
  /\ place = "vertical" /\ t >= xRange.max
  /\ t' = Advance(yRange.min, Float[Tenth(yRange)])
  /\ place' = "horizontal"
  /\ UNCHANGED <<xRange, yRange, scaled, points>>

HorizontalLine ==
  LET above == Float[One * PLOT_HEIGHT - Coordinate(t, yRange, InnerHeight)]
      ty    == Pixel(Float[above - One * Padding])
  IN  /\ place = "horizontal" /\ t < yRange.max
      /\ points' = Drawn({<<Padding, ty>>, <<PLOT_WIDTH - Padding, ty>>,
                          <<Padding + 3, ty - 3>>})
      /\ t' = Advance(t, Tenth(yRange))
      /\ UNCHANGED <<place, xRange, yRange, scaled>>

HorizontalsEnd ==
  /\ place = "horizontal" /\ t >= yRange.max
  /\ place' = "data" /\ scaled' = TRUE
  /\ UNCHANGED <<xRange, yRange, t, points>>

\* Mutant of Data: the context keeps the scale of the data.
DataKeepsScale(x, y) ==
  /\ place = "data"
  /\ points' = {InGroup(Cord(x[n], y[n])) : n \in DOMAIN x}
  /\ place' = "axes"
  /\ UNCHANGED <<xRange, yRange, t, scaled>>

\* The path of the data; then the context is reset.
Data(x, y) ==
  /\ place = "data"
  /\ points' = {InGroup(Cord(x[n], y[n])) : n \in DOMAIN x}
  /\ place' = "axes" /\ scaled' = FALSE
  /\ UNCHANGED <<xRange, yRange, t>>

\* The labels at the ends and the two arrows with theirs; the function
\* returns.
Axes ==
  LET right   == PLOT_WIDTH - Padding
      bottom  == PLOT_HEIGHT - Padding
      half    == Padding \div 2
      quarter == half \div 4
  IN  /\ place = "axes"
      /\ points' =
           Drawn({<<Padding + 3, Padding>>, <<Padding + 3, bottom + 14>>,
                  <<Padding, bottom + half>>, <<Padding, half>>,
                  <<Padding + quarter, half + quarter>>,
                  <<half, bottom>>, <<right + half, bottom>>,
                  <<PLOT_WIDTH - half, bottom - 2 * quarter>>})
           \cup {Turned(<<end - 7, bottom - 7>>, Cord(0, 0)) :
                   end \in {right, Padding}}
      /\ place' = "begin"
      /\ xRange' = NoRange /\ yRange' = NoRange /\ t' = 0
      /\ UNCHANGED scaled

Plot(x, y) ==
  \/ Begin(x, y) \/ VerticalLine \/ VerticalsEnd
  \/ HorizontalLine \/ HorizontalsEnd \/ Data(x, y) \/ Axes
=============================================================================
