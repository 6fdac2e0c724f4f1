------------------------------- MODULE Rulers -------------------------------
(***************************************************************************)
(* gui/ruler: which ticks a ruler has for the range that is shown and the  *)
(* room there is, and where the lines are drawn.                           *)
(*                                                                         *)
(* The limits of the range are in units of 1/PerUnit, positions of ticks   *)
(* in tenths of the pixels of the drawing area, in which a major tick, a   *)
(* fifth and a tenth of their distance are whole numbers.                  *)
(***************************************************************************)
EXTENDS Geometry

CONSTANT PerUnit

ASSUME PerUnitAssumption == PerUnit \in Nat \ {0}

MIN_SPACE_MAJORTICKS == 80
MIN_SPACE_SUBTICKS   == 5
VALID_INTERVALS == <<1, 5, 10, 25>>
SUBTICK_SEGMENTS == <<5, 2>>

intervalPixelSpacing(interval, lower, upper, size) ==
    floored_divide_by(size * interval * PerUnit, upper - lower)

\* The n-th interval that calculateInterval() tries: INTERVAL_BASE to a power, times
\* one of those above.
Power[n \in Nat] == IF n = 0 THEN 1 ELSE 10 * Power[n - 1]
Interval(n) == VALID_INTERVALS[(n % 4) + 1] * Power[n \div 4]
calculateInterval(lower, upper, size) ==
    LET try[n \in Nat] ==
            IF intervalPixelSpacing(Interval(n), lower, upper, size) >= MIN_SPACE_MAJORTICKS
            THEN Interval(n) ELSE try[n + 1]
    IN  try[0]

\* A mutation: division that truncates, which rounds up below 0.
WrongFirstTick(lower, interval) == Truncated(lower, interval * PerUnit) * interval
firstTick(lower, interval) == floored_divide_by(lower, interval * PerUnit) * interval
\* scaleToRange(), to a drawing area that begins at 0.
scaleToRange(x, lower, upper, size) ==
    rounded_divide_by(size * (x * PerUnit - lower), upper - lower)

\* updateMajorTickInterval()
MajorTicks(lower, upper, size) ==
    IF lower < upper /\ 0 < size
    THEN LET interval == calculateInterval(lower, upper, size)
         IN  [interval |-> interval, spacing |-> intervalPixelSpacing(interval, lower, upper, size)]
    ELSE [interval |-> 10, spacing |-> 10]

-----------------------------------------------------------------------------
(* What draw() draws: ticks of a level, 0 for the major ones, at a place,  *)
(* of which the major ones have a label.  drawSingleTick() leaves the line *)
(* out when it is not inside the drawing area.                             *)
Tick(level, at, label) == [level |-> level, at |-> at, label |-> label]
NoLabel == "no label"

drawSubTicks(lower, spacing, size) ==
    LET fifth    == (10 * spacing) \div SUBTICK_SEGMENTS[1]
        interval == <<fifth, fifth \div SUBTICK_SEGMENTS[2]>>
        fits(depth) == interval[depth] >= 10 * MIN_SPACE_SUBTICKS
        \* The places where drawSubTicks() at a depth, which begins at pos, stops or not.
        places(depth, pos) ==
            {pos + k * interval[depth] : k \in {l \in 0..SUBTICK_SEGMENTS[depth] - 1 :
                                                  pos + l * interval[depth] < 10 * size}}
    IN  IF ~fits(1) THEN {}
        ELSE {Tick(1, p, NoLabel) : p \in places(1, lower) \ {lower}}
                \cup (IF ~fits(2) THEN {}
                      ELSE UNION {{Tick(2, p, NoLabel) : p \in places(2, q) \ {q}} : q \in places(1, lower)})

drawTicks(lower, upper, size) ==
    LET major == MajorTicks(lower, upper, size)
        first == firstTick(lower, major.interval)
        count == ceiled_divide_by(upper - first * PerUnit, major.interval * PerUnit)
        at(k) == 10 * scaleToRange(first + k * major.interval, lower, upper, size)
    IN  UNION {{Tick(0, at(k), first + k * major.interval)} \cup drawSubTicks(at(k), major.spacing, size)
                 : k \in 0..count - 1}

Visible(tick, size) == 0 < tick.at /\ tick.at < 10 * size

-----------------------------------------------------------------------------
(* HorizontalDrawStrategy and VerticalDrawStrategy: lines from one point   *)
(* to another, in half pixels, and the place of a label.                   *)
Line(x1, y1, x2, y2) == <<Point(x1, y1), Point(x2, y2)>>
Half == 1   \* lineWidth * LINE_COORD_OFFSET

HorizontalOutline(w, h) ==
    {Line(Half, 0, Half, 2 * h), Line(2 * w - Half, 0, 2 * w - Half, 2 * h), Line(0, 2 * h - Half, 2 * w, 2 * h - Half)}
VerticalOutline(w, h) ==
    {Line(0, Half, 2 * w, Half), Line(0, 2 * h - Half, 2 * w, 2 * h - Half), Line(2 * w - Half, 0, 2 * w - Half, 2 * h)}
HorizontalTickLine(w, h, at, length) == Line(2 * at + Half, 2 * h, 2 * at + Half, 2 * (h - length))
VerticalTickLine(w, h, at, length)   == Line(2 * w, 2 * at + Half, 2 * (w - length), 2 * at + Half)
\* How far the label goes along the ruler from the tick, and across it.
HorizontalTickText(w, h, at, along, across) == Point(at + along, h - across)
VerticalTickText(w, h, at, along, across)   == Point(w - across, at - along)
HorizontalSize(w, h) == [drawArea |-> w, tickLength |-> h]
VerticalSize(w, h)   == [drawArea |-> h, tickLength |-> w]

-----------------------------------------------------------------------------
(* What is right about it *)

\* For every range and every room: the major ticks are the multiples of the
\* interval in the range, each where the range is at that value, and one before it,
\* of which the sub-ticks are in the range; the interval is
\* the smallest on offer of which the ticks do not come too close, and no sub-tick
\* gets at or past the next major tick, where it would be drawn over it.
TicksFit(lower, upper, size) ==
    LET major == MajorTicks(lower, upper, size)
        ticks == drawTicks(lower, upper, size)
        labels == {t \in ticks : t.level = 0}
    IN  /\ \A v \in lower..upper - 1 :
              v % (major.interval * PerUnit) = 0 => \E t \in labels : t.label * PerUnit = v
        /\ \E t \in labels : t.label * PerUnit <= lower
        /\ \A t \in labels :
              /\ t.label % major.interval = 0
              /\ 2 * ((upper - lower) * t.at - 10 * size * (t.label * PerUnit - lower))
                     \in -10 * (upper - lower)..10 * (upper - lower)
              /\ \A u \in labels \ {t} : u.label # t.label
                     /\ (u.at - t.at >= 10 * major.spacing \/ t.at - u.at >= 10 * major.spacing)
              /\ \A u \in labels, s \in drawSubTicks(t.at, major.spacing, size) : s.at < u.at \/ u.at <= t.at
        /\ major.spacing >= MIN_SPACE_MAJORTICKS
        /\ \A n \in 0..15 :
              Interval(n) < major.interval
                  => intervalPixelSpacing(Interval(n), lower, upper, size) < MIN_SPACE_MAJORTICKS
        /\ \A s, t \in ticks : s # t => s.at - t.at >= 50 \/ t.at - s.at >= 50

\* The vertical ruler is the horizontal one turned over: its lines and labels
\* are where those of a horizontal ruler of its height are, with x and y swapped
\* (and the labels upwards instead of to the right).
RulersAgree(w, h, at, n) ==
    LET Swap(p) == Point(p.y, p.x)
        Turned(lines) == {<<Swap(l[1]), Swap(l[2])>> : l \in lines}
    IN  /\ VerticalOutline(w, h) = Turned(HorizontalOutline(h, w))
        /\ {VerticalTickLine(w, h, at, n)} = Turned({HorizontalTickLine(h, w, at, n)})
        /\ VerticalTickText(w, h, at, n, n + 1) = Swap(HorizontalTickText(h, w, at, -n, n + 1))
        /\ VerticalSize(w, h) = HorizontalSize(h, w)
=============================================================================
