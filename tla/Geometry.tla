------------------------------ MODULE Geometry ------------------------------
(***************************************************************************)
(* libs/util: rounding.hh, point.hh, linearsegment.hh and rectangle.hh,    *)
(* and what cairo-helpers.cc draws around a presentation.                  *)
(*                                                                         *)
(* Coordinates are integers.  Where the code uses double, one unit of the  *)
(* model is a fixed fraction of a pixel, and rounding to whole pixels is   *)
(* rounding to multiples of that many units.                               *)
(***************************************************************************)
EXTENDS Integers, FiniteSets

-----------------------------------------------------------------------------
(* Division that truncates, as int / int does, and the three that round.   *)
Smallest(a, b) == IF a <= b THEN a ELSE b
Largest(a, b)  == IF a >= b THEN a ELSE b

Truncated(v, f) == IF v >= 0 THEN v \div f ELSE -((-v) \div f)

floored_divide_by(v, f) == v \div f
ceiled_divide_by(v, f)  == -((-v) \div f)
\* std::round: halves go away from zero.
rounded_divide_by(v, f) ==
    IF v >= 0 THEN (2 * v + f) \div (2 * f) ELSE -((f - 2 * v) \div (2 * f))

round_to_multiple_of(v, f)      == f * rounded_divide_by(v, f)
round_up_to_multiple_of(v, f)   == f * ceiled_divide_by(v, f)
round_down_to_multiple_of(v, f) == f * floored_divide_by(v, f)

-----------------------------------------------------------------------------
(* Points *)
Point(x, y)   == [x |-> x, y |-> y]
Plus(p, q)    == Point(p.x + q.x, p.y + q.y)
Minus(p, q)   == Point(p.x - q.x, p.y - q.y)
Times(p, q)   == Point(p.x * q.x, p.y * q.y)
RoundedTo(p, f) == Point(round_to_multiple_of(p.x, f.x), round_to_multiple_of(p.y, f.y))

-----------------------------------------------------------------------------
(* Segments.  A negative size is turned round by the constructor (and by   *)
(* setEnd()), so that the operations below find a size of zero or more.    *)
Segments == [start : Int, size : Nat]
Segment(start, size) ==
    IF size < 0 THEN [start |-> start + size, size |-> -size] ELSE [start |-> start, size |-> size]
FromTo(start, end) == Segment(start, end - start)
NoSegment == Segment(0, 0)

End(s)     == s.start + s.size
IsEmpty(s) == s.size = 0
ContainsPoint(s, p)   == s.start <= p /\ p < End(s)
ContainsSegment(s, t) == s.start <= t.start /\ End(t) <= End(s)
\* A mutation: empty segments intersect too.
WrongIntersects(s, t) == s.start < End(t) /\ t.start < End(s)
Intersects(s, t) ==
    s.start < End(t) /\ t.start < End(s) /\ ~IsEmpty(s) /\ ~IsEmpty(t)
Intersection(s, t) ==
    LET start == Largest(s.start, t.start)
        size  == Smallest(End(s), End(t)) - start
    IN  IF size >= 0 THEN Segment(start, size) ELSE NoSegment
Before(s, v) ==
    IF v < s.start THEN NoSegment
    ELSE IF v < End(s) THEN Segment(s.start, v - s.start) ELSE s
After(s, v) ==
    IF v > End(s) THEN NoSegment
    ELSE IF v > s.start THEN Segment(v, End(s) - v) ELSE s
SameSegment(s, t) == IF IsEmpty(s) \/ IsEmpty(t) THEN IsEmpty(s) /\ IsEmpty(t) ELSE s = t
Moved(s, n)    == [s EXCEPT !.start = @ + n]
Scaled(s, f)   == [start |-> s.start * f, size |-> s.size * f]
Starting(s, n) == FromTo(n, End(s))                     \* setStart()
Ending(s, n)   == FromTo(s.start, n)                    \* setEnd()
Multiple(s, m) == [s EXCEPT !.size = @ - (@ % m)]         \* reduceSizeToMultipleOf()
RoundedOut(s, f) == FromTo(round_down_to_multiple_of(s.start, f), round_up_to_multiple_of(End(s), f))

-----------------------------------------------------------------------------
(* Rectangles *)
Rectangles == [h : Segments, v : Segments]
Rectangle(h, v)     == [h |-> h, v |-> v]
make_rect(p, size)  == Rectangle(Segment(p.x, size.x), Segment(p.y, size.y))
Corners(p, q)       == Rectangle(FromTo(p.x, q.x), FromTo(p.y, q.y))
TopLeft(r)          == Point(r.h.start, r.v.start)
BottomRight(r)      == Point(End(r.h), End(r.v))
RectEmpty(r)        == IsEmpty(r.h) \/ IsEmpty(r.v)
RectContains(r, p)  == ContainsPoint(r.h, p.x) /\ ContainsPoint(r.v, p.y)
RectIntersects(r, q) == Intersects(r.h, q.h) /\ Intersects(r.v, q.v)
Overlap(r, q)       == Rectangle(Intersection(r.h, q.h), Intersection(r.v, q.v))
SameRect(r, q) ==
    IF RectEmpty(r) \/ RectEmpty(q) THEN RectEmpty(r) /\ RectEmpty(q)
    ELSE SameSegment(r.h, q.h) /\ SameSegment(r.v, q.v)
RectMoved(r, p)     == Rectangle(Moved(r.h, p.x), Moved(r.v, p.y))
RectScaled(r, f)    == Rectangle(Scaled(r.h, f), Scaled(r.v, f))
RectRoundedOut(r, f) == Rectangle(RoundedOut(r.h, f), RoundedOut(r.v, f))
roundCorners(r, f)  == Corners(RoundedTo(TopLeft(r), f), RoundedTo(BottomRight(r), f))

LeftOf(r, v)  == Rectangle(Before(r.h, v), r.v)
RightOf(r, v) == Rectangle(After(r.h, v), r.v)
Above(r, v)   == Rectangle(r.h, Before(r.v, v))
Below(r, v)   == Rectangle(r.h, After(r.v, v))

\* The same with a rectangle: the part beside it, in its own rows or columns.
LeftOfRect(r, q)  == IF RectEmpty(q) THEN q ELSE Rectangle(Before(r.h, q.h.start), Intersection(r.v, q.v))
RightOfRect(r, q) == IF RectEmpty(q) THEN q ELSE Rectangle(After(r.h, End(q.h)), Intersection(r.v, q.v))
AboveRect(r, q)   == IF RectEmpty(q) THEN q ELSE Rectangle(Intersection(r.h, q.h), Before(r.v, q.v.start))
BelowRect(r, q)   == IF RectEmpty(q) THEN q ELSE Rectangle(Intersection(r.h, q.h), After(r.v, End(q.v)))

\* drawOutOfBoundsWithoutBackground(): what it paints, before the move to the
\* origin of the drawing area and the scaling that it applies to all of it.
Border(requested, actual) ==
    {r \in {LeftOf(requested, actual.h.start), RightOf(requested, End(actual.h)),
            Above(requested, actual.v.start), Below(requested, End(actual.v))} : ~RectEmpty(r)}

-----------------------------------------------------------------------------
(* What they mean: a segment is the set of its points, and so is a         *)
(* rectangle.                                                              *)
Points(s)     == s.start .. End(s) - 1
RectPoints(r) == {Point(x, y) : x \in Points(r.h), y \in Points(r.v)}

\* Every operation on segments is the one on sets of points that its name says,
\* empty segments and those that were given backwards included.
SegmentsAreSets(s, t, v) ==
    /\ Points(Intersection(s, t)) = Points(s) \cap Points(t)
    /\ Intersects(s, t) <=> Points(s) \cap Points(t) # {}
    /\ ContainsSegment(s, t) => Points(t) \subseteq Points(s)
    /\ Points(t) \subseteq Points(s) => IsEmpty(t) \/ ContainsSegment(s, t)
    /\ SameSegment(s, t) <=> Points(s) = Points(t)
    /\ Points(Before(s, v)) = {p \in Points(s) : p < v}
    /\ Points(After(s, v)) = {p \in Points(s) : p >= v}
    /\ Points(Starting(s, v)) = IF v <= End(s) THEN v..End(s) - 1 ELSE End(s)..v - 1
    /\ Points(Ending(s, v)) = IF v >= s.start THEN s.start..v - 1 ELSE v..s.start - 1
    /\ \A f \in 1..3 : /\ Points(s) \subseteq Points(RoundedOut(s, f))
                       /\ RoundedOut(s, f).size < s.size + 2 * f
                       /\ Points(Multiple(s, f)) \subseteq Points(s)
                       /\ Multiple(s, f).size % f = 0

\* The operations on rectangles too; and the four rectangles of the border
\* paint exactly what was requested and is not in the presentation.
RectanglesAreSets(r, q) ==
    /\ RectPoints(Overlap(r, q)) = RectPoints(r) \cap RectPoints(q)
    /\ RectIntersects(r, q) <=> RectPoints(r) \cap RectPoints(q) # {}
    /\ SameRect(r, q) <=> RectPoints(r) = RectPoints(q)
    /\ UNION {RectPoints(b) : b \in Border(r, q)} = RectPoints(r) \ RectPoints(q)
    /\ ~RectEmpty(q) =>
        /\ RectPoints(LeftOfRect(r, q)) = {p \in RectPoints(r) : p.x < q.h.start /\ ContainsPoint(q.v, p.y)}
        /\ RectPoints(RightOfRect(r, q)) = {p \in RectPoints(r) : p.x >= End(q.h) /\ ContainsPoint(q.v, p.y)}
        /\ RectPoints(AboveRect(r, q)) = {p \in RectPoints(r) : p.y < q.v.start /\ ContainsPoint(q.h, p.x)}
        /\ RectPoints(BelowRect(r, q)) = {p \in RectPoints(r) : p.y >= End(q.v) /\ ContainsPoint(q.h, p.x)}
=============================================================================
