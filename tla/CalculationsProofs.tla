-------------------------- MODULE CalculationsProofs --------------------------
(***************************************************************************)
(* Proofs about the calculations.  The operations of Geometry are right    *)
(* for all segments, rectangles and coordinates; the tiles and layers of   *)
(* Tiling for bitmaps of every size that an int can have, what redraw()    *)
(* draws of them for every area and zoom level, and what                   *)
(* getPixelAverages() counts for every area; the places of samples and     *)
(* pixels in memory, in the reduced tile and in the view, of Pixels, for   *)
(* tiles of every size, every pixel and every value; the colours that are  *)
(* seen of a reduced tile for any values of its pixels; what Formats       *)
(* makes of files for all tags, palettes and sizes of tiles; and the ticks *)
(* of rulers of every size and range: not only for those that the run      *)
(* Calculations enumerates.  The invariants which that run checks follow   *)
(* because its inputs are among them.                                      *)
(***************************************************************************)
EXTENDS Calculations, Induction

-----------------------------------------------------------------------------
(* Rounding to multiples of any number.                                    *)

LEMMA Division ==
    ASSUME NEW v \in Int, NEW f \in Nat \ {0}
    PROVE  /\ v \div f \in Int
           /\ f * (v \div f) <= v
           /\ v < f * (v \div f) + f
OBVIOUS

LEMMA RoundedDown ==
    ASSUME NEW v \in Int, NEW f \in Nat \ {0}
    PROVE  /\ round_down_to_multiple_of(v, f) \in Int
           /\ round_down_to_multiple_of(v, f) <= v
           /\ v < round_down_to_multiple_of(v, f) + f
BY Division DEF round_down_to_multiple_of, floored_divide_by

LEMMA RoundedUp ==
    ASSUME NEW v \in Int, NEW f \in Nat \ {0}
    PROVE  /\ round_up_to_multiple_of(v, f) \in Int
           /\ v <= round_up_to_multiple_of(v, f)
           /\ round_up_to_multiple_of(v, f) < v + f
<1>. DEFINE q == (-v) \div f
<1>1. q \in Int /\ f * q <= -v /\ -v < f * q + f  BY Division
<1>2. f * q \in Int /\ f * (-q) = -(f * q)  BY <1>1
<1>3. round_up_to_multiple_of(v, f) = f * (-q)
  BY DEF round_up_to_multiple_of, ceiled_divide_by
<1>. HIDE DEF q
<1>. QED  BY <1>1, <1>2, <1>3

-----------------------------------------------------------------------------
(* Segments                                                                *)

\* A segment is the set of its points.
LEMMA PointOf ==
    ASSUME NEW s \in Segments, NEW x
    PROVE  x \in Points(s) <=> x \in Int /\ s.start <= x /\ x < End(s)
BY DEF Segments, Points, End

LEMMA SegmentType ==
    ASSUME NEW a \in Int, NEW n \in Int
    PROVE  /\ Segment(a, n) \in Segments
           /\ n >= 0 => Segment(a, n) = [start |-> a, size |-> n]
           /\ n < 0 => Segment(a, n) = [start |-> a + n, size |-> -n]
BY DEF Segment, Segments

LEMMA FromToType ==
    ASSUME NEW a \in Int, NEW b \in Int
    PROVE  /\ FromTo(a, b) \in Segments
           /\ a <= b => FromTo(a, b).start = a /\ End(FromTo(a, b)) = b
           /\ b < a  => FromTo(a, b).start = b /\ End(FromTo(a, b)) = a
BY SegmentType DEF FromTo, End

LEMMA Fields ==
    ASSUME NEW s \in Segments
    PROVE  s.start \in Int /\ s.size \in Nat /\ End(s) \in Int /\ s.start <= End(s)
           /\ s = [start |-> s.start, size |-> End(s) - s.start]
           /\ (IsEmpty(s) <=> s.start = End(s))
BY DEF Segments, End, IsEmpty

\* Parts of segments.
LEMMA IntersectionPoints ==
    ASSUME NEW s \in Segments, NEW t \in Segments
    PROVE  /\ Intersection(s, t) \in Segments
           /\ \A x : x \in Points(Intersection(s, t)) <=> x \in Points(s) /\ x \in Points(t)
<1>. DEFINE a == Largest(s.start, t.start)
            b == Smallest(End(s), End(t))
<1>1. a \in Int /\ b \in Int  BY Fields DEF Largest, Smallest
<1>2. CASE a <= b
  <2>1. Intersection(s, t) = Segment(a, b - a)  BY <1>1, <1>2 DEF Intersection
  <2>2. Intersection(s, t) \in Segments /\ Intersection(s, t).start = a /\ End(Intersection(s, t)) = b
    BY <1>1, <1>2, <2>1, SegmentType DEF End
  <2>. QED  BY <2>2, PointOf, Fields DEF Largest, Smallest
<1>3. CASE b < a
  <2>1. Intersection(s, t) = [start |-> 0, size |-> 0]
    BY <1>1, <1>3, SegmentType DEF Intersection, NoSegment
  <2>2. Intersection(s, t) \in Segments /\ Points(Intersection(s, t)) = {}
    BY <2>1 DEF Segments, Points, End
  <2>. QED  BY <1>3, <2>2, PointOf, Fields DEF Largest, Smallest
<1>. QED  BY <1>1, <1>2, <1>3

LEMMA NoPoints ==
    NoSegment \in Segments /\ \A x : x \notin Points(NoSegment)
<1>1. NoSegment = [start |-> 0, size |-> 0]  BY SegmentType DEF NoSegment
<1>. QED  BY <1>1 DEF Segments, Points, End

LEMMA Between ==
    ASSUME NEW a \in Int, NEW n \in Int, n >= 0
    PROVE  /\ Segment(a, n) \in Segments
           /\ \A x : x \in Points(Segment(a, n)) <=> x \in Int /\ a <= x /\ x < a + n
<1>1. Segment(a, n) \in Segments /\ Segment(a, n).start = a /\ End(Segment(a, n)) = a + n
  BY SegmentType DEF End
<1>. QED  BY <1>1, PointOf

LEMMA BeforePoints ==
    ASSUME NEW s \in Segments, NEW v \in Int
    PROVE  /\ Before(s, v) \in Segments
           /\ \A x : x \in Points(Before(s, v)) <=> x \in Points(s) /\ x < v
<1>1. s.start \in Int /\ End(s) \in Int /\ s.start <= End(s)  BY Fields
<1>2. \A x : x \in Points(s) <=> x \in Int /\ s.start <= x /\ x < End(s)  BY PointOf
<1>3. CASE v < s.start
  BY <1>1, <1>2, <1>3, NoPoints DEF Before
<1>4. CASE s.start <= v /\ v < End(s)
  <2>1. v - s.start \in Int /\ v - s.start >= 0 /\ s.start + (v - s.start) = v  BY <1>1, <1>4
  <2>2. Before(s, v) = Segment(s.start, v - s.start)  BY <1>1, <1>4 DEF Before
  <2>3. /\ Before(s, v) \in Segments
        /\ \A x : x \in Points(Before(s, v)) <=> x \in Int /\ s.start <= x /\ x < v
    BY <1>1, <2>1, <2>2, Between
  <2>. QED  BY <1>1, <1>2, <1>4, <2>3
<1>5. CASE End(s) <= v
  BY <1>1, <1>2, <1>5 DEF Before
<1>. QED  BY <1>1, <1>3, <1>4, <1>5

LEMMA AfterPoints ==
    ASSUME NEW s \in Segments, NEW v \in Int
    PROVE  /\ After(s, v) \in Segments
           /\ \A x : x \in Points(After(s, v)) <=> x \in Points(s) /\ x >= v
<1>1. s.start \in Int /\ End(s) \in Int /\ s.start <= End(s)  BY Fields
<1>2. \A x : x \in Points(s) <=> x \in Int /\ s.start <= x /\ x < End(s)  BY PointOf
<1>3. CASE v > End(s)
  BY <1>1, <1>2, <1>3, NoPoints DEF After
<1>4. CASE v <= End(s) /\ v > s.start
  <2>1. End(s) - v \in Int /\ End(s) - v >= 0 /\ v + (End(s) - v) = End(s)  BY <1>1, <1>4
  <2>2. After(s, v) = Segment(v, End(s) - v)  BY <1>1, <1>4 DEF After
  <2>3. /\ After(s, v) \in Segments
        /\ \A x : x \in Points(After(s, v)) <=> x \in Int /\ v <= x /\ x < End(s)
    BY <1>1, <2>1, <2>2, Between
  <2>. QED  BY <1>1, <1>2, <1>4, <2>3
<1>5. CASE v <= s.start
  BY <1>1, <1>2, <1>5 DEF After
<1>. QED  BY <1>1, <1>3, <1>4, <1>5

-----------------------------------------------------------------------------
(* linearsegment.hh: each part of SegmentsAreSets.                         *)

LEMMA IntersectsRight ==
    ASSUME NEW s \in Segments, NEW t \in Segments
    PROVE  Intersects(s, t) <=> Points(s) \cap Points(t) # {}
<1>1. /\ s.start \in Int /\ End(s) \in Int /\ s.start <= End(s) /\ (IsEmpty(s) <=> s.start = End(s))
      /\ t.start \in Int /\ End(t) \in Int /\ t.start <= End(t) /\ (IsEmpty(t) <=> t.start = End(t))
  BY Fields
<1>2. ASSUME Intersects(s, t) PROVE Largest(s.start, t.start) \in Points(s) \cap Points(t)
  BY <1>1, <1>2, PointOf DEF Intersects, Largest
<1>3. ASSUME NEW x \in Points(s) \cap Points(t) PROVE Intersects(s, t)
  BY <1>1, PointOf DEF Intersects
<1>. QED  BY <1>2, <1>3

LEMMA ContainsRight ==
    ASSUME NEW s \in Segments, NEW t \in Segments
    PROVE  /\ ContainsSegment(s, t) => Points(t) \subseteq Points(s)
           /\ Points(t) \subseteq Points(s) => IsEmpty(t) \/ ContainsSegment(s, t)
<1>1. /\ s.start \in Int /\ End(s) \in Int /\ s.start <= End(s) /\ (IsEmpty(s) <=> s.start = End(s))
      /\ t.start \in Int /\ End(t) \in Int /\ t.start <= End(t) /\ (IsEmpty(t) <=> t.start = End(t))
  BY Fields
<1>2. ASSUME ContainsSegment(s, t) PROVE Points(t) \subseteq Points(s)
  BY <1>1, <1>2, PointOf DEF ContainsSegment
<1>3. ASSUME Points(t) \subseteq Points(s), ~IsEmpty(t) PROVE ContainsSegment(s, t)
  <2>1. t.start \in Points(t) /\ End(t) - 1 \in Points(t)  BY <1>1, <1>3, PointOf
  <2>2. t.start \in Points(s) /\ End(t) - 1 \in Points(s)  BY <1>3, <2>1
  <2>. QED  BY <1>1, <2>2, PointOf DEF ContainsSegment
<1>. QED  BY <1>2, <1>3

LEMMA SameRight ==
    ASSUME NEW s \in Segments, NEW t \in Segments
    PROVE  SameSegment(s, t) <=> Points(s) = Points(t)
<1>1. ASSUME NEW u \in Segments PROVE IsEmpty(u) <=> Points(u) = {}
  <2>1. u.start \in Int /\ End(u) \in Int /\ u.start <= End(u) /\ (IsEmpty(u) <=> u.start = End(u))
    BY Fields
  <2>2. ~IsEmpty(u) => u.start \in Points(u)  BY <2>1, PointOf
  <2>3. IsEmpty(u) => \A x : x \notin Points(u)  BY <2>1, PointOf
  <2>. QED  BY <2>2, <2>3
<1>2. CASE IsEmpty(s) \/ IsEmpty(t)
  BY <1>1, <1>2 DEF SameSegment
<1>3. CASE ~IsEmpty(s) /\ ~IsEmpty(t)
  <2>1. s = t => Points(s) = Points(t)  OBVIOUS
  <2>2. ASSUME Points(s) = Points(t) PROVE s = t
    <3>1. ContainsSegment(s, t) /\ ContainsSegment(t, s)  BY <1>3, <2>2, ContainsRight
    <3>2. s.start = t.start /\ End(s) = End(t)  BY <3>1, Fields DEF ContainsSegment
    <3>. QED  BY <3>2, Fields
  <2>. QED  BY <1>3, <2>1, <2>2 DEF SameSegment
<1>. QED  BY <1>2, <1>3

LEMMA StartingRight ==
    ASSUME NEW s \in Segments, NEW v \in Int
    PROVE  Points(Starting(s, v)) = IF v <= End(s) THEN v..End(s) - 1 ELSE End(s)..v - 1
<1>1. s.start \in Int /\ End(s) \in Int  BY Fields
<1>2. /\ v <= End(s) => Starting(s, v).start = v /\ End(Starting(s, v)) = End(s)
      /\ End(s) < v  => Starting(s, v).start = End(s) /\ End(Starting(s, v)) = v
  BY <1>1, FromToType DEF Starting
<1>. QED  BY <1>1, <1>2 DEF Points

LEMMA EndingRight ==
    ASSUME NEW s \in Segments, NEW v \in Int
    PROVE  Points(Ending(s, v)) = IF v >= s.start THEN s.start..v - 1 ELSE v..s.start - 1
<1>1. s.start \in Int /\ End(s) \in Int  BY Fields
<1>2. /\ s.start <= v => Ending(s, v).start = s.start /\ End(Ending(s, v)) = v
      /\ v < s.start  => Ending(s, v).start = v /\ End(Ending(s, v)) = s.start
  BY <1>1, FromToType DEF Ending
<1>. QED  BY <1>1, <1>2 DEF Points

\* Rounding outward, and reducing, to multiples of any number.
LEMMA RoundedOutRight ==
    ASSUME NEW s \in Segments, NEW f \in Nat \ {0}
    PROVE  /\ RoundedOut(s, f) \in Segments
           /\ Points(s) \subseteq Points(RoundedOut(s, f))
           /\ RoundedOut(s, f).size < s.size + 2 * f
<1>. DEFINE a == round_down_to_multiple_of(s.start, f)
            b == round_up_to_multiple_of(End(s), f)
            r == RoundedOut(s, f)
<1>1. /\ s.start \in Int /\ End(s) \in Int /\ s.size \in Nat /\ s.start <= End(s)
      /\ End(s) = s.start + s.size
  BY Fields DEF End
<1>2. a \in Int /\ a <= s.start /\ s.start < a + f  BY <1>1, RoundedDown
<1>3. b \in Int /\ End(s) <= b /\ b < End(s) + f  BY <1>1, RoundedUp
<1>4. r = FromTo(a, b)  BY DEF RoundedOut
<1>. HIDE DEF a, b, r
<1>5. r \in Segments /\ r.start = a /\ End(r) = b  BY <1>1, <1>2, <1>3, <1>4, FromToType
<1>6. \A x : x \in Points(s) => x \in Points(r)  BY <1>1, <1>2, <1>3, <1>5, PointOf
<1>7. r.size = b - a  BY <1>5, <1>2, <1>3 DEF End, Segments
<1>. QED  BY <1>1, <1>2, <1>3, <1>5, <1>6, <1>7 DEF r

LEMMA MultipleRight ==
    ASSUME NEW s \in Segments, NEW f \in Nat \ {0}
    PROVE  /\ Points(Multiple(s, f)) \subseteq Points(s)
           /\ Multiple(s, f).size % f = 0
<1>1. s.start \in Int /\ s.size \in Nat  BY Fields
<1>2. s.size % f \in Nat /\ s.size % f <= s.size /\ (s.size - (s.size % f)) % f = 0
  <2>. DEFINE n == s.size
              q == s.size \div f
  <2>1. n \in Nat  BY <1>1
  <2>2. q \in Nat /\ n % f \in Nat /\ n = f * q + (n % f)  BY <2>1
  <2>. HIDE DEF n, q
  <2>3. f * q \in Nat  BY <2>2
  <2>4. (f * q) % f = 0  BY <2>2
  <2>5. n - (n % f) = f * q /\ n % f <= n  BY <2>1, <2>2, <2>3
  <2>. QED  BY <2>2, <2>4, <2>5 DEF n
<1>3. Multiple(s, f) = [start |-> s.start, size |-> s.size - (s.size % f)]
  BY DEF Multiple, Segments
<1>. QED  BY <1>1, <1>2, <1>3 DEF Points, End

\* Every operation on segments is the operation on sets of points that its name
\* says (linearsegment.hh), of all segments and at all values.
THEOREM SegmentOperations ==
    \A s, t \in Segments, v \in Int : SegmentsAreSets(s, t, v)
<1>. SUFFICES ASSUME NEW s \in Segments, NEW t \in Segments, NEW v \in Int
              PROVE  SegmentsAreSets(s, t, v)
  OBVIOUS
<1>1. Points(Intersection(s, t)) = Points(s) \cap Points(t)  BY IntersectionPoints
<1>2. Points(Before(s, v)) = {p \in Points(s) : p < v}  BY BeforePoints
<1>3. Points(After(s, v)) = {p \in Points(s) : p >= v}  BY AfterPoints
<1>4. ASSUME NEW f \in 1..3
      PROVE  /\ Points(s) \subseteq Points(RoundedOut(s, f))
             /\ RoundedOut(s, f).size < s.size + 2 * f
             /\ Points(Multiple(s, f)) \subseteq Points(s)
             /\ Multiple(s, f).size % f = 0
  <2>1. f \in Nat \ {0}  OBVIOUS
  <2>. QED  BY <2>1, RoundedOutRight, MultipleRight
<1>. QED
  BY <1>1, <1>2, <1>3, <1>4, IntersectsRight, ContainsRight, SameRight, StartingRight, EndingRight
  DEF SegmentsAreSets

-----------------------------------------------------------------------------
(* Rectangles                                                              *)

LEMMA Sides ==
    ASSUME NEW r \in Rectangles
    PROVE  /\ r.h \in Segments /\ r.v \in Segments
           /\ r = Rectangle(r.h, r.v)
BY DEF Rectangles, Rectangle

LEMMA IsRectangle ==
    ASSUME NEW h \in Segments, NEW v \in Segments
    PROVE  Rectangle(h, v) \in Rectangles /\ Rectangle(h, v).h = h /\ Rectangle(h, v).v = v
BY DEF Rectangles, Rectangle

\* A rectangle is the set of its points.
LEMMA PointIn ==
    ASSUME NEW r
    PROVE  /\ \A x, y : Point(x, y) \in RectPoints(r) <=> x \in Points(r.h) /\ y \in Points(r.v)
           /\ \A p \in RectPoints(r) : p = Point(p.x, p.y)
<1>1. ASSUME NEW x, NEW y, Point(x, y) \in RectPoints(r) PROVE x \in Points(r.h) /\ y \in Points(r.v)
  <2>1. PICK a \in Points(r.h), b \in Points(r.v) : Point(x, y) = Point(a, b)  BY <1>1 DEF RectPoints
  <2>2. Point(x, y).x = x /\ Point(x, y).y = y /\ Point(a, b).x = a /\ Point(a, b).y = b  BY DEF Point
  <2>. QED  BY <2>1, <2>2
<1>2. ASSUME NEW x \in Points(r.h), NEW y \in Points(r.v) PROVE Point(x, y) \in RectPoints(r)
  BY DEF RectPoints
<1>3. ASSUME NEW p \in RectPoints(r) PROVE p = Point(p.x, p.y)
  <2>1. PICK a \in Points(r.h), b \in Points(r.v) : p = Point(a, b)  BY DEF RectPoints
  <2>. QED  BY <2>1 DEF Point
<1>. QED  BY <1>1, <1>2, <1>3

LEMMA EmptyHasNone ==
    ASSUME NEW r \in Rectangles
    PROVE  RectEmpty(r) <=> RectPoints(r) = {}
<1>0. r.h \in Segments /\ r.v \in Segments  BY Sides
<1>1. ASSUME NEW u \in Segments PROVE IsEmpty(u) <=> Points(u) = {}
  <2>1. u.start \in Int /\ End(u) \in Int /\ u.start <= End(u) /\ (IsEmpty(u) <=> u.start = End(u))
    BY Fields
  <2>2. ~IsEmpty(u) => u.start \in Points(u)  BY <2>1, PointOf
  <2>3. IsEmpty(u) => \A x : x \notin Points(u)  BY <2>1, PointOf
  <2>. QED  BY <2>2, <2>3
<1>2. RectEmpty(r) <=> Points(r.h) = {} \/ Points(r.v) = {}  BY <1>0, <1>1 DEF RectEmpty
<1>3. Points(r.h) = {} \/ Points(r.v) = {} => RectPoints(r) = {}  BY DEF RectPoints
<1>4. ASSUME Points(r.h) # {}, Points(r.v) # {} PROVE RectPoints(r) # {}
  <2>1. PICK x, y : x \in Points(r.h) /\ y \in Points(r.v)  BY <1>4
  <2>. QED  BY <2>1, PointIn
<1>. QED  BY <1>2, <1>3, <1>4

\* The part of a rectangle on one side of a line.
LEMMA SidePoints ==
    ASSUME NEW r \in Rectangles, NEW n \in Int
    PROVE  /\ LeftOf(r, n) \in Rectangles
           /\ RightOf(r, n) \in Rectangles
           /\ Above(r, n) \in Rectangles
           /\ Below(r, n) \in Rectangles
           /\ \A x, y : /\ Point(x, y) \in RectPoints(LeftOf(r, n)) <=> Point(x, y) \in RectPoints(r) /\ x < n
                        /\ Point(x, y) \in RectPoints(RightOf(r, n)) <=> Point(x, y) \in RectPoints(r) /\ x >= n
                        /\ Point(x, y) \in RectPoints(Above(r, n)) <=> Point(x, y) \in RectPoints(r) /\ y < n
                        /\ Point(x, y) \in RectPoints(Below(r, n)) <=> Point(x, y) \in RectPoints(r) /\ y >= n
<1>1. r.h \in Segments /\ r.v \in Segments  BY Sides
<1>2. /\ LeftOf(r, n) \in Rectangles /\ LeftOf(r, n).h = Before(r.h, n) /\ LeftOf(r, n).v = r.v
      /\ RightOf(r, n) \in Rectangles /\ RightOf(r, n).h = After(r.h, n) /\ RightOf(r, n).v = r.v
      /\ Above(r, n) \in Rectangles /\ Above(r, n).h = r.h /\ Above(r, n).v = Before(r.v, n)
      /\ Below(r, n) \in Rectangles /\ Below(r, n).h = r.h /\ Below(r, n).v = After(r.v, n)
  BY <1>1, BeforePoints, AfterPoints, IsRectangle DEF LeftOf, RightOf, Above, Below
<1>3. /\ \A x : x \in Points(Before(r.h, n)) <=> x \in Points(r.h) /\ x < n
      /\ \A x : x \in Points(After(r.h, n)) <=> x \in Points(r.h) /\ x >= n
      /\ \A y : y \in Points(Before(r.v, n)) <=> y \in Points(r.v) /\ y < n
      /\ \A y : y \in Points(After(r.v, n)) <=> y \in Points(r.v) /\ y >= n
  BY <1>1, BeforePoints, AfterPoints
<1>. QED  BY <1>2, <1>3, PointIn

LEMMA OverlapPoints ==
    ASSUME NEW r \in Rectangles, NEW q \in Rectangles
    PROVE  /\ Overlap(r, q) \in Rectangles
           /\ RectPoints(Overlap(r, q)) = RectPoints(r) \cap RectPoints(q)
<1>1. r.h \in Segments /\ r.v \in Segments /\ q.h \in Segments /\ q.v \in Segments  BY Sides
<1>2. /\ Overlap(r, q) \in Rectangles
      /\ Overlap(r, q).h = Intersection(r.h, q.h)
      /\ Overlap(r, q).v = Intersection(r.v, q.v)
  BY <1>1, IntersectionPoints, IsRectangle DEF Overlap
<1>3. /\ \A x : x \in Points(Intersection(r.h, q.h)) <=> x \in Points(r.h) /\ x \in Points(q.h)
      /\ \A y : y \in Points(Intersection(r.v, q.v)) <=> y \in Points(r.v) /\ y \in Points(q.v)
  BY <1>1, IntersectionPoints
<1>4. \A x, y : Point(x, y) \in RectPoints(Overlap(r, q))
                  <=> Point(x, y) \in RectPoints(r) /\ Point(x, y) \in RectPoints(q)
  BY <1>2, <1>3, PointIn
<1>5. ASSUME NEW p PROVE p \in RectPoints(Overlap(r, q)) <=> p \in RectPoints(r) \cap RectPoints(q)
  BY <1>4, PointIn
<1>. QED  BY <1>2, <1>5

LEMMA RectIntersectsRight ==
    ASSUME NEW r \in Rectangles, NEW q \in Rectangles
    PROVE  RectIntersects(r, q) <=> RectPoints(r) \cap RectPoints(q) # {}
<1>1. r.h \in Segments /\ r.v \in Segments /\ q.h \in Segments /\ q.v \in Segments  BY Sides
<1>2. RectIntersects(r, q) <=> /\ Points(r.h) \cap Points(q.h) # {}
                              /\ Points(r.v) \cap Points(q.v) # {}
  BY <1>1, IntersectsRight DEF RectIntersects
<1>3. ASSUME NEW x \in Points(r.h) \cap Points(q.h), NEW y \in Points(r.v) \cap Points(q.v)
      PROVE  Point(x, y) \in RectPoints(r) \cap RectPoints(q)
  BY PointIn
<1>4. ASSUME NEW p \in RectPoints(r) \cap RectPoints(q)
      PROVE  p.x \in Points(r.h) \cap Points(q.h) /\ p.y \in Points(r.v) \cap Points(q.v)
  <2>1. p = Point(p.x, p.y)  BY PointIn
  <2>. QED  BY <2>1, PointIn
<1>. QED  BY <1>2, <1>3, <1>4

\* Two rectangles that have the same points have the same sides, if they have any.
LEMMA SameRectRight ==
    ASSUME NEW r \in Rectangles, NEW q \in Rectangles
    PROVE  SameRect(r, q) <=> RectPoints(r) = RectPoints(q)
<1>1. r.h \in Segments /\ r.v \in Segments /\ q.h \in Segments /\ q.v \in Segments  BY Sides
<1>2. CASE RectEmpty(r) \/ RectEmpty(q)
  BY <1>2, EmptyHasNone DEF SameRect
<1>3. CASE ~RectEmpty(r) /\ ~RectEmpty(q)
  <2>1. SameRect(r, q) <=> Points(r.h) = Points(q.h) /\ Points(r.v) = Points(q.v)
    BY <1>1, <1>3, SameRight DEF SameRect
  <2>2. Points(r.h) = Points(q.h) /\ Points(r.v) = Points(q.v) => RectPoints(r) = RectPoints(q)
    BY DEF RectPoints
  <2>3. ASSUME RectPoints(r) = RectPoints(q) PROVE Points(r.h) = Points(q.h) /\ Points(r.v) = Points(q.v)
    <3>1. PICK p : p \in RectPoints(r)  BY <1>3, EmptyHasNone
    <3>2. p = Point(p.x, p.y)  BY <3>1, PointIn
    <3>3. /\ p.x \in Points(r.h) /\ p.y \in Points(r.v)
          /\ p.x \in Points(q.h) /\ p.y \in Points(q.v)
      BY <2>3, <3>1, <3>2, PointIn
    <3>4. \A x : x \in Points(r.h) <=> x \in Points(q.h)
      <4>1. \A x : Point(x, p.y) \in RectPoints(r) <=> Point(x, p.y) \in RectPoints(q)  BY <2>3
      <4>. QED  BY <3>3, <4>1, PointIn
    <3>5. \A y : y \in Points(r.v) <=> y \in Points(q.v)
      <4>1. \A y : Point(p.x, y) \in RectPoints(r) <=> Point(p.x, y) \in RectPoints(q)  BY <2>3
      <4>. QED  BY <3>3, <4>1, PointIn
    <3>. QED  BY <3>4, <3>5
  <2>. QED  BY <2>1, <2>2, <2>3
<1>. QED  BY <1>2, <1>3

\* drawOutOfBoundsWithoutBackground() paints all of the requested area that is not
\* in the presentation, and nothing of the presentation.
LEMMA BorderCovers ==
    ASSUME NEW r \in Rectangles, NEW q \in Rectangles
    PROVE  UNION {RectPoints(b) : b \in Border(r, q)} = RectPoints(r) \ RectPoints(q)
<1>. DEFINE left  == LeftOf(r, q.h.start)
            right == RightOf(r, End(q.h))
            above == Above(r, q.v.start)
            below == Below(r, End(q.v))
            all   == RectPoints(left) \cup RectPoints(right) \cup RectPoints(above) \cup RectPoints(below)
<1>1. /\ q.h \in Segments /\ q.v \in Segments
      /\ q.h.start \in Int /\ End(q.h) \in Int /\ q.v.start \in Int /\ End(q.v) \in Int
  BY Sides, Fields
<1>2. left \in Rectangles /\ right \in Rectangles /\ above \in Rectangles /\ below \in Rectangles
  BY <1>1, SidePoints
<1>3. UNION {RectPoints(b) : b \in Border(r, q)} = all
  <2>1. Border(r, q) = {b \in {left, right, above, below} : ~RectEmpty(b)}  BY DEF Border
  <2>2. \A b \in {left, right, above, below} : RectEmpty(b) => RectPoints(b) = {}
    BY <1>2, EmptyHasNone
  <2>. HIDE DEF left, right, above, below
  <2>. QED  BY <2>1, <2>2
<1>4. ASSUME NEW x, NEW y PROVE Point(x, y) \in all <=> Point(x, y) \in RectPoints(r) \ RectPoints(q)
  <2>1. Point(x, y) \in all <=> /\ Point(x, y) \in RectPoints(r)
                                /\ x < q.h.start \/ x >= End(q.h) \/ y < q.v.start \/ y >= End(q.v)
    BY <1>1, SidePoints, ZenonT(60)
  <2>2. Point(x, y) \in RectPoints(r) => x \in Int /\ y \in Int  BY PointIn, PointOf, Sides
  <2>3. Point(x, y) \in RectPoints(q) <=> x \in Points(q.h) /\ y \in Points(q.v)  BY PointIn
  <2>4. /\ x \in Points(q.h) <=> x \in Int /\ q.h.start <= x /\ x < End(q.h)
        /\ y \in Points(q.v) <=> y \in Int /\ q.v.start <= y /\ y < End(q.v)
    BY <1>1, PointOf
  <2>. HIDE DEF all
  <2>. QED  BY <1>1, <2>1, <2>2, <2>3, <2>4
<1>5. ASSUME NEW p PROVE p \in all <=> p \in RectPoints(r) \ RectPoints(q)
  <2>1. p \in all => p = Point(p.x, p.y)  BY PointIn
  <2>2. p \in RectPoints(r) => p = Point(p.x, p.y)  BY PointIn
  <2>. HIDE DEF all
  <2>. QED  BY <1>4, <2>1, <2>2
<1>. QED  BY <1>3, <1>5

\* What is beside a rectangle, in its own rows or columns.
LEMMA Beside ==
    ASSUME NEW r \in Rectangles, NEW q \in Rectangles, ~RectEmpty(q)
    PROVE  /\ RectPoints(LeftOfRect(r, q)) = {p \in RectPoints(r) : p.x < q.h.start /\ ContainsPoint(q.v, p.y)}
           /\ RectPoints(RightOfRect(r, q)) = {p \in RectPoints(r) : p.x >= End(q.h) /\ ContainsPoint(q.v, p.y)}
           /\ RectPoints(AboveRect(r, q)) = {p \in RectPoints(r) : p.y < q.v.start /\ ContainsPoint(q.h, p.x)}
           /\ RectPoints(BelowRect(r, q)) = {p \in RectPoints(r) : p.y >= End(q.v) /\ ContainsPoint(q.h, p.x)}
<1>1. /\ r.h \in Segments /\ r.v \in Segments /\ q.h \in Segments /\ q.v \in Segments
      /\ q.h.start \in Int /\ End(q.h) \in Int /\ q.v.start \in Int /\ End(q.v) \in Int
  BY Sides, Fields
<1>2. /\ LeftOfRect(r, q)  = Rectangle(Before(r.h, q.h.start), Intersection(r.v, q.v))
      /\ RightOfRect(r, q) = Rectangle(After(r.h, End(q.h)), Intersection(r.v, q.v))
      /\ AboveRect(r, q)   = Rectangle(Intersection(r.h, q.h), Before(r.v, q.v.start))
      /\ BelowRect(r, q)   = Rectangle(Intersection(r.h, q.h), After(r.v, End(q.v)))
  BY DEF LeftOfRect, RightOfRect, AboveRect, BelowRect
<1>3. ASSUME NEW h, NEW v PROVE Rectangle(h, v).h = h /\ Rectangle(h, v).v = v  BY DEF Rectangle
<1>4. /\ \A x : x \in Points(Before(r.h, q.h.start)) <=> x \in Points(r.h) /\ x < q.h.start
      /\ \A x : x \in Points(After(r.h, End(q.h))) <=> x \in Points(r.h) /\ x >= End(q.h)
      /\ \A y : y \in Points(Before(r.v, q.v.start)) <=> y \in Points(r.v) /\ y < q.v.start
      /\ \A y : y \in Points(After(r.v, End(q.v))) <=> y \in Points(r.v) /\ y >= End(q.v)
  BY <1>1, BeforePoints, AfterPoints
<1>5. /\ \A x : x \in Points(Intersection(r.h, q.h)) <=> x \in Points(r.h) /\ ContainsPoint(q.h, x)
      /\ \A y : y \in Points(Intersection(r.v, q.v)) <=> y \in Points(r.v) /\ ContainsPoint(q.v, y)
  BY <1>1, IntersectionPoints, PointOf DEF ContainsPoint
<1>6. ASSUME NEW x, NEW y
      PROVE  /\ Point(x, y) \in RectPoints(LeftOfRect(r, q))
                   <=> Point(x, y) \in RectPoints(r) /\ x < q.h.start /\ ContainsPoint(q.v, y)
             /\ Point(x, y) \in RectPoints(RightOfRect(r, q))
                   <=> Point(x, y) \in RectPoints(r) /\ x >= End(q.h) /\ ContainsPoint(q.v, y)
             /\ Point(x, y) \in RectPoints(AboveRect(r, q))
                   <=> Point(x, y) \in RectPoints(r) /\ y < q.v.start /\ ContainsPoint(q.h, x)
             /\ Point(x, y) \in RectPoints(BelowRect(r, q))
                   <=> Point(x, y) \in RectPoints(r) /\ y >= End(q.v) /\ ContainsPoint(q.h, x)
  BY <1>2, <1>3, <1>4, <1>5, PointIn
<1>7. ASSUME NEW p
      PROVE  /\ p \in RectPoints(LeftOfRect(r, q))
                   <=> p \in RectPoints(r) /\ p.x < q.h.start /\ ContainsPoint(q.v, p.y)
             /\ p \in RectPoints(RightOfRect(r, q))
                   <=> p \in RectPoints(r) /\ p.x >= End(q.h) /\ ContainsPoint(q.v, p.y)
             /\ p \in RectPoints(AboveRect(r, q))
                   <=> p \in RectPoints(r) /\ p.y < q.v.start /\ ContainsPoint(q.h, p.x)
             /\ p \in RectPoints(BelowRect(r, q))
                   <=> p \in RectPoints(r) /\ p.y >= End(q.v) /\ ContainsPoint(q.h, p.x)
  BY <1>6, PointIn
<1>. QED  BY <1>7

\* The operations on rectangles are those on sets of points, and the border around
\* a presentation is what was requested and is not in it (rectangle.hh and
\* cairo-helpers.cc), for all rectangles.
THEOREM RectangleOperations ==
    \A r, q \in Rectangles : RectanglesAreSets(r, q)
BY OverlapPoints, RectIntersectsRight, SameRectRight, BorderCovers, Beside DEF RectanglesAreSets

-----------------------------------------------------------------------------
(* From the tags of a file to layers.                                      *)

\* The tags of any file, and any palettes.
AllTags == [readable : BOOLEAN, spp : Nat \cup {Missing}, bps : Nat \cup {Missing},
            width : Nat \cup {Missing}, height : Nat \cup {Missing}, photometric : Photometrics \cup {Missing}]
AllFiles == [header : BOOLEAN, count : Nat, entries : Nat]

Depths == {1, 2, 4, 8}

\* What open() supports.
Supported(tags, spp, bps) ==
    /\ tags.readable /\ tags.width # Missing /\ tags.height # Missing
    /\ tags.photometric \notin {Missing, "OTHER"}
    /\ bps \in Depths /\ spp \in {1, 3, 4} /\ (spp = 3 => bps = 8)

\* It opens what it supports, and nothing else.
LEMMA OpenTiffIs ==
    ASSUME NEW tags \in AllTags, NEW spp, spp = Or(tags.spp, 1),
           NEW bps, bps = Or(tags.bps, IF spp = 1 THEN 1 ELSE 8)
    PROVE  /\ (OpenTiff(tags) # Nothing) <=> Supported(tags, spp, bps)
           /\ OpenTiff(tags) # Nothing =>
                  OpenTiff(tags) =
                      [type |-> IF spp = 4 THEN "CMYK" ELSE IF spp = 3 THEN "RGB"
                                ELSE IF tags.photometric = "PALETTE" THEN "Colormapped" ELSE "Greyscale",
                       spp |-> spp, bps |-> bps, width |-> tags.width, height |-> tags.height,
                       helper |-> ColormapHelperFor(tags, bps)]
<1>. DEFINE type == IF spp = 4 THEN "CMYK" ELSE IF spp = 3 THEN "RGB"
                    ELSE IF tags.photometric = "PALETTE" THEN "Colormapped" ELSE "Greyscale"
            helper == ColormapHelperFor(tags, bps)
            b == [type |-> type,
                       spp |-> spp, bps |-> bps, width |-> tags.width, height |-> tags.height,
                       helper |-> helper]
<1>1. b # Nothing
  <2>1. b.type # "none"  OBVIOUS
  <2>. QED  BY <2>1 DEF Nothing
<1>2. CASE ~Supported(tags, spp, bps)
  <2>1. OpenTiff(tags) = Nothing
    BY <1>2 DEF Supported, Depths, OpenTiff
  <2>. QED  BY <1>2, <2>1
<1>3. CASE Supported(tags, spp, bps)
  <2>1. spp \in {1, 3, 4}  BY <1>3 DEF Supported
  <2>2. type = CASE spp = 4 -> "CMYK" [] spp = 3 -> "RGB"
                         [] spp = 1 -> IF tags.photometric = "PALETTE" THEN "Colormapped" ELSE "Greyscale"
    BY <2>1
  <2>. HIDE DEF type, helper
  <2>3. OpenTiff(tags) = b
    BY <1>3, <2>2 DEF Supported, Depths, OpenTiff, helper
  <2>. QED  BY <1>1, <1>3, <2>3 DEF type, helper
<1>. QED  BY <1>2, <1>3

\* The four kinds of bitmaps that files with consistent tags have.
IsRGB(b)  == b.type = "RGB" /\ b.spp = 3 /\ b.bps = 8 /\ b.helper = NoHelper
IsCMYK(b) == b.type = "CMYK" /\ b.spp = 4 /\ b.bps \in Depths /\ b.helper = NoHelper
IsGreyscale(b) ==
    /\ b.type = "Greyscale" /\ b.spp = 1 /\ b.bps \in Depths
    /\ b.helper = MonoHelper(IF b.bps \in {2, 4} THEN 2 ^ b.bps ELSE 2)
IsColormapped(b) ==
    b.type = "Colormapped" /\ b.spp = 1 /\ b.bps \in Depths /\ b.helper = MapHelper(2 ^ b.bps)

\* A file of which the tags agree gives a bitmap of one of them.
LEMMA KindOfBitmap ==
    ASSUME NEW tags \in AllTags, Consistent(tags), OpenTiff(tags) # Nothing
    PROVE  LET b == OpenTiff(tags) IN IsRGB(b) \/ IsCMYK(b) \/ IsGreyscale(b) \/ IsColormapped(b)
<1>. DEFINE spp == Or(tags.spp, 1)
            bps == Or(tags.bps, IF spp = 1 THEN 1 ELSE 8)
            b == OpenTiff(tags)
            helper == ColormapHelperFor(tags, bps)
<1>1. Supported(tags, spp, bps)  BY OpenTiffIs
<1>2. b = [type |-> IF spp = 4 THEN "CMYK" ELSE IF spp = 3 THEN "RGB"
                    ELSE IF tags.photometric = "PALETTE" THEN "Colormapped" ELSE "Greyscale",
           spp |-> spp, bps |-> bps, width |-> tags.width, height |-> tags.height, helper |-> helper]
  BY OpenTiffIs
<1>3. /\ tags.photometric \in Photometrics \ {"OTHER"}
      /\ tags.photometric = "RGB" => spp = 3
      /\ tags.photometric = "SEPARATED" => spp = 4
      /\ tags.photometric \notin {"RGB", "SEPARATED"} => spp = 1
  BY <1>1 DEF Supported, AllTags, Consistent
<1>4. bps \in Depths /\ (spp = 3 => bps = 8)  BY <1>1 DEF Supported
<1>. HIDE DEF spp, bps, b
<1>5. /\ tags.photometric \in {"RGB", "SEPARATED"} => helper = NoHelper
      /\ tags.photometric = "PALETTE" => helper = MapHelper(2 ^ bps)
      /\ tags.photometric \in {"MINISBLACK", "MINISWHITE"}
            => helper = MonoHelper(IF bps \in {2, 4} THEN 2 ^ bps ELSE 2)
  BY <1>3 DEF ColormapHelperFor, Photometrics
<1>. HIDE DEF helper
<1>6. CASE tags.photometric = "RGB"  BY <1>2, <1>3, <1>4, <1>5, <1>6 DEF IsRGB, b
<1>7. CASE tags.photometric = "SEPARATED"  BY <1>2, <1>3, <1>4, <1>5, <1>7 DEF IsCMYK, b
<1>8. CASE tags.photometric = "PALETTE"  BY <1>2, <1>3, <1>4, <1>5, <1>8 DEF IsColormapped, b
<1>9. CASE tags.photometric \in {"MINISBLACK", "MINISWHITE"}
  BY <1>2, <1>3, <1>4, <1>5, <1>9 DEF IsGreyscale, b
<1>. QED  BY <1>3, <1>6, <1>7, <1>8, <1>9 DEF Photometrics

\* The layer operations of each of them.
LayersOf(b) ==
    IF b.type = "RGB" THEN <<Op("24bpp", 8)>>
    ELSE IF b.type = "CMYK" THEN (IF b.bps = 8 THEN <<Op("cmyk", 8)>> ELSE <<Op("cmyk", b.bps), Op("cmyk", 8)>>)
    ELSE IF b.type = "Greyscale" /\ b.bps = 1 THEN <<Op("1bpp", 1), Op("8bpp", 8)>>
    ELSE IF b.type = "Greyscale" /\ b.bps = 8 THEN <<Op("8bpp", 8)>>
    ELSE <<Op("indexed", b.bps), Op("colormapped", b.bps)>>

\* One function has an answer.
LEMMA OneAnswer ==
    ASSUME NEW b, NEW k \in 1..4, NEW spec, spec # NoSpec,
           ColormappedBitmap(b) = IF k = 1 THEN spec ELSE NoSpec,
           GreyscaleBitmap(b) = IF k = 2 THEN spec ELSE NoSpec,
           CMYKBitmap(b) = IF k = 3 THEN spec ELSE NoSpec,
           RGBBitmap(b) = IF k = 4 THEN spec ELSE NoSpec
    PROVE  LayerSpecForBitmap(b) = spec
<1>. DEFINE answers == <<ColormappedBitmap(b), GreyscaleBitmap(b), CMYKBitmap(b), RGBBitmap(b)>>
            given == {n \in DOMAIN answers : answers[n] # NoSpec}
<1>1. DOMAIN answers = 1..4  OBVIOUS
<1>2. \A n \in 1..4 : answers[n] = IF n = k THEN spec ELSE NoSpec  OBVIOUS
<1>3. LayerSpecForBitmap(b) = IF given = {} THEN NoSpec ELSE answers[Min(given)]  BY DEF LayerSpecForBitmap
<1>. HIDE DEF answers
<1>4. given = {k}  BY <1>1, <1>2
<1>5. Min(given) = k  BY <1>4 DEF Min
<1>. QED  BY <1>2, <1>3, <1>4, <1>5

\* A specification with layers is an answer.
LEMMA Answers ==
    ASSUME NEW ls, NEW helper, ls # <<>>
    PROVE  LayerSpec(ls, helper) # NoSpec
<1>1. LayerSpec(ls, helper).ls = ls /\ NoSpec.ls = <<>>  BY DEF LayerSpec, NoSpec
<1>. QED  BY <1>1

\* LayerSpecForBitmap() of each of them.
LEMMA LayerSpecIs ==
    ASSUME NEW b, IsRGB(b) \/ IsCMYK(b) \/ IsGreyscale(b) \/ IsColormapped(b)
    PROVE  LayerSpecForBitmap(b) = LayerSpec(LayersOf(b), b.helper)
<1>. DEFINE spec == LayerSpec(LayersOf(b), b.helper)
<1>1. /\ b.type # "Colormapped" => ColormappedBitmap(b) = NoSpec
      /\ b.type # "Greyscale" => GreyscaleBitmap(b) = NoSpec
      /\ b.type # "CMYK" => CMYKBitmap(b) = NoSpec
      /\ b.type # "RGB" => RGBBitmap(b) = NoSpec
  BY DEF ColormappedBitmap, GreyscaleBitmap, CMYKBitmap, RGBBitmap
<1>2. \A n : MonoHelper(n) # NoHelper /\ MapHelper(n) # NoHelper
  <2>1. \A n : MonoHelper(n).kind = "monochrome" /\ MapHelper(n).kind = "colormap" /\ NoHelper.kind = "none"
    BY DEF MonoHelper, MapHelper, NoHelper
  <2>. QED  BY <2>1
<1>3. spec # NoSpec
  <2>1. LayersOf(b) # <<>>  BY DEF LayersOf
  <2>. QED  BY <2>1, Answers
<1>4. IsRGB(b) => RGBBitmap(b) = spec  BY DEF IsRGB, RGBBitmap, LayersOf
<1>5. IsCMYK(b) => CMYKBitmap(b) = spec  BY DEF IsCMYK, Depths, CMYKBitmap, LayersOf
<1>6. IsGreyscale(b) => GreyscaleBitmap(b) = spec
  BY <1>2 DEF IsGreyscale, Depths, GreyscaleBitmap, LayersOf
<1>7. IsColormapped(b) => ColormappedBitmap(b) = spec
  BY <1>2 DEF IsColormapped, Depths, ColormappedBitmap, LayersOf
<1>8. PICK k \in 1..4 : /\ k = 1 <=> b.type = "Colormapped"
                        /\ k = 2 <=> b.type = "Greyscale"
                        /\ k = 3 <=> b.type = "CMYK"
                        /\ k = 4 <=> b.type = "RGB"
  <2>1. b.type \in {"Colormapped", "Greyscale", "CMYK", "RGB"}
    BY DEF IsRGB, IsCMYK, IsGreyscale, IsColormapped
  <2>. QED  BY <2>1
<1>9. /\ IsRGB(b) => k = 4
      /\ IsCMYK(b) => k = 3
      /\ IsGreyscale(b) => k = 2
      /\ IsColormapped(b) => k = 1
  BY <1>8 DEF IsRGB, IsCMYK, IsGreyscale, IsColormapped
<1>. HIDE DEF spec
<1>10. /\ ColormappedBitmap(b) = IF k = 1 THEN spec ELSE NoSpec
       /\ GreyscaleBitmap(b) = IF k = 2 THEN spec ELSE NoSpec
       /\ CMYKBitmap(b) = IF k = 3 THEN spec ELSE NoSpec
       /\ RGBBitmap(b) = IF k = 4 THEN spec ELSE NoSpec
  BY <1>1, <1>4, <1>5, <1>6, <1>7, <1>8, <1>9
<1>11. LayerSpecForBitmap(b) = spec  BY <1>3, <1>10, OneAnswer
<1>. QED  BY <1>11 DEF spec

\* Operations on top of each other: what is reduced is drawn with what is above.
Carries(op, next) == TargetBpp(op) = GetBpp(next) /\ OperationsAbove(op) = next

\* Which of them are on top of which, and the bits per pixel that they work on.
LEMMA Carried ==
    /\ Carries(Op("24bpp", 8), Op("24bpp", 8)) /\ GetBpp(Op("24bpp", 8)) = 24
    /\ Carries(Op("8bpp", 8), Op("8bpp", 8)) /\ GetBpp(Op("8bpp", 8)) = 8
    /\ Carries(Op("1bpp", 1), Op("8bpp", 8)) /\ GetBpp(Op("1bpp", 1)) = 1
    /\ \A b \in Depths : /\ Carries(Op("cmyk", b), Op("cmyk", 8)) /\ GetBpp(Op("cmyk", b)) = 4 * b
                         /\ Carries(Op("indexed", b), Op("colormapped", b)) /\ GetBpp(Op("indexed", b)) = b
                         /\ Carries(Op("colormapped", b), Op("colormapped", b))
<1>1. \A name, b : Op(name, b).name = name /\ Op(name, b).bps = b  BY DEF Op
<1>2. ReductionOf(Op("24bpp", 8)) = Reduce24bpp /\ ReductionOf(Op("8bpp", 8)) = Reduce8bpp
      /\ ReductionOf(Op("1bpp", 1)) = Reduce1bpp
  BY <1>1 DEF ReductionOf
<1>3. Reduce24bpp.bpp = 24 /\ Reduce24bpp.into = 24 /\ Reduce8bpp.bpp = 8 /\ Reduce8bpp.into = 8
      /\ Reduce1bpp.bpp = 1 /\ Reduce1bpp.into = 8
  BY DEF Reduce24bpp, Reduce8bpp, Reduce1bpp
<1>4. OperationsAbove(Op("24bpp", 8)) = Op("24bpp", 8) /\ OperationsAbove(Op("8bpp", 8)) = Op("8bpp", 8)
      /\ OperationsAbove(Op("1bpp", 1)) = Op("8bpp", 8)
  BY <1>1 DEF OperationsAbove
<1>5. ASSUME NEW b \in Depths
      PROVE  /\ GetBpp(Op("cmyk", b)) = 4 * b /\ TargetBpp(Op("cmyk", b)) = 32
             /\ OperationsAbove(Op("cmyk", b)) = Op("cmyk", 8)
  <2>1. /\ b = 8 => ReductionOf(Op("cmyk", b)) = ReduceCMYK32
        /\ b = 4 => ReductionOf(Op("cmyk", b)) = ReduceCMYK16
        /\ b = 2 => ReductionOf(Op("cmyk", b)) = ReduceCMYK8
        /\ b = 1 => ReductionOf(Op("cmyk", b)) = ReduceCMYK4
    BY <1>1 DEF ReductionOf
  <2>2. ReduceCMYK32.bpp = 32 /\ ReduceCMYK16.bpp = 16 /\ ReduceCMYK8.bpp = 8 /\ ReduceCMYK4.bpp = 4
        /\ ReduceCMYK32.into = 32 /\ ReduceCMYK16.into = 32 /\ ReduceCMYK8.into = 32 /\ ReduceCMYK4.into = 32
    BY DEF ReduceCMYK32, ReduceCMYK16, ReduceCMYK8, ReduceCMYK4
  <2>3. OperationsAbove(Op("cmyk", b)) = Op("cmyk", 8)  BY <1>1 DEF OperationsAbove
  <2>. QED  BY <2>1, <2>2, <2>3 DEF GetBpp, TargetBpp, Depths
<1>6. ASSUME NEW b \in Depths
      PROVE  /\ GetBpp(Op("indexed", b)) = b /\ TargetBpp(Op("indexed", b)) = 2 * b
             /\ GetBpp(Op("colormapped", b)) = 2 * b /\ TargetBpp(Op("colormapped", b)) = 2 * b
             /\ OperationsAbove(Op("indexed", b)) = Op("colormapped", b)
             /\ OperationsAbove(Op("colormapped", b)) = Op("colormapped", b)
  <2>1. ReductionOf(Op("indexed", b)) = ReduceIndexed(b) /\ ReductionOf(Op("colormapped", b)) = ReduceColormapped(b)
    BY <1>1 DEF ReductionOf
  <2>2. ReduceIndexed(b).bpp = b /\ ReduceIndexed(b).into = 2 * b
        /\ ReduceColormapped(b).bpp = 2 * b /\ ReduceColormapped(b).into = 2 * b
    BY DEF ReduceIndexed, ReduceColormapped
  <2>3. OperationsAbove(Op("indexed", b)) = Op("colormapped", b)
        /\ OperationsAbove(Op("colormapped", b)) = Op("colormapped", b)
    BY <1>1 DEF OperationsAbove
  <2>. QED  BY <2>1, <2>2, <2>3 DEF GetBpp, TargetBpp
<1>7. 8 \in Depths  BY DEF Depths
<1>. QED  BY <1>2, <1>3, <1>4, <1>5, <1>6, <1>7 DEF Carries, GetBpp, TargetBpp

\* The sizes of the colour maps on offer are large enough.
LEMMA OfferedIs ==
    ASSUME NEW helper, helper.colors \in Nat, NEW files \in SUBSET AllFiles
    PROVE  \A size \in Offered(helper, files) : size \in Nat /\ size >= helper.colors
BY DEF Offered, AllFiles

\* What a presentation is.
LEMMA PresentationIs ==
    ASSUME NEW tags \in AllTags, Consistent(tags)
    PROVE  /\ OpenTiff(tags) = Nothing => Presentation(tags) = Nothing
           /\ OpenTiff(tags) # Nothing =>
                  LET b == OpenTiff(tags)
                      p == Presentation(tags)
                  IN  /\ p # Nothing /\ p.bmd = b /\ p.spec = LayerSpec(LayersOf(b), b.helper)
                      /\ p.bottomBpp = b.spp * b.bps
                      /\ p.pipette = (LayersOf(b)[1].name \in {"24bpp", "cmyk"})
<1>1. CASE OpenTiff(tags) = Nothing  BY <1>1 DEF Presentation
<1>2. CASE OpenTiff(tags) # Nothing
  <2>. DEFINE b == OpenTiff(tags)
              spec == LayerSpec(LayersOf(b), b.helper)
              p == [type |-> b.type, bmd |-> b, spec |-> spec, bottomBpp |-> b.spp * b.bps,
                    pipette |-> spec.ls[1].name \in {"24bpp", "cmyk"}]
  <2>1. IsRGB(b) \/ IsCMYK(b) \/ IsGreyscale(b) \/ IsColormapped(b)  BY <1>2, KindOfBitmap
  <2>2. LayerSpecForBitmap(b) = spec  BY <2>1, LayerSpecIs
  <2>3. spec # NoSpec
    <3>1. LayersOf(b) # <<>>  BY DEF LayersOf
    <3>. QED  BY <3>1, Answers
  <2>4. p # Nothing
    <3>1. p.type = b.type /\ b.type \in {"RGB", "CMYK", "Greyscale", "Colormapped"}
      BY <2>1 DEF IsRGB, IsCMYK, IsGreyscale, IsColormapped
    <3>2. Nothing.type = "none"  BY DEF Nothing
    <3>. HIDE DEF p
    <3>. QED  BY <3>1, <3>2
  <2>5. Presentation(tags) = p
    <3>. HIDE DEF spec
    <3>. QED  BY <1>2, <2>2, <2>3 DEF Presentation
  <2>6. spec.ls = LayersOf(b)  BY DEF LayerSpec
  <2>. HIDE DEF b, spec
  <2>7. p.bmd = b /\ p.spec = spec /\ p.bottomBpp = b.spp * b.bps
        /\ p.pipette = (LayersOf(b)[1].name \in {"24bpp", "cmyk"})
    BY <2>6
  <2>. HIDE DEF p
  <2>. QED  BY <1>2, <2>4, <2>5, <2>7 DEF b, spec
<1>. QED  BY <1>1, <1>2

\* The first and the last of the layer operations.
First(ls) == ls[1]
Last(ls)  == ls[Len(ls)]

\* There are no more than two.
LEMMA LayerOpIs ==
    ASSUME NEW ls, Len(ls) \in {1, 2}, NEW n \in 0..3
    PROVE  /\ LayerOp(ls, n) = IF n = 0 THEN First(ls) ELSE Last(ls)
           /\ LayerOp(ls, n + 1) = Last(ls)
<1>1. CASE n = 0  BY <1>1 DEF LayerOp, First, Last
<1>2. CASE n \in 1..3  BY <1>2 DEF LayerOp, First, Last
<1>. QED  BY <1>1, <1>2

\* A colour map of some size has a colour for each value.
Enough(op, size) == (Indexed(op) => size >= 2 ^ op.bps) /\ (op.name \in {"1bpp", "8bpp"} => size >= 2)

\* How many colours that takes.
LEMMA EnoughColours ==
    \A size \in Nat :
        /\ \A b \in Depths : size >= 2 ^ b => Enough(Op("indexed", b), size) /\ Enough(Op("colormapped", b), size)
        /\ \A b : Enough(Op("cmyk", b), size) /\ Enough(Op("24bpp", b), size)
        /\ \A b : size >= 2 => Enough(Op("1bpp", b), size) /\ Enough(Op("8bpp", b), size)
BY DEF Enough, Indexed, Op

\* What is right about the layer operations of a bitmap.
Suits(ls, b) ==
    /\ Len(ls) \in {1, 2}
    /\ Carries(First(ls), Last(ls)) /\ Carries(Last(ls), Last(ls))
    /\ GetBpp(First(ls)) = b.spp * b.bps
    /\ (First(ls).name \in {"24bpp", "cmyk"}) <=> b.spp > 1
    /\ First(ls).name # "broken"
    /\ b.helper.colors \in Nat
    /\ \A size \in Nat : size >= b.helper.colors => Enough(First(ls), size) /\ Enough(Last(ls), size)

\* They are right for each kind of bitmap.
LEMMA LayersOfIs ==
    ASSUME NEW b, IsRGB(b) \/ IsCMYK(b) \/ IsGreyscale(b) \/ IsColormapped(b)
    PROVE  Suits(LayersOf(b), b)
<1>. SUFFICES ASSUME NEW ls, ls = LayersOf(b) PROVE Suits(ls, b)  OBVIOUS
<1>0. 8 \in Depths /\ 1 \in Depths /\ \A d \in Depths : d \in Nat /\ 4 * d \in Nat /\ 2 ^ d \in Nat  BY DEF Depths
<1>9. Len(ls) \in {1, 2}  BY DEF LayersOf
<1>1. /\ \A op : First(<<op>>) = op /\ Last(<<op>>) = op
      /\ \A op, next : First(<<op, next>>) = op /\ Last(<<op, next>>) = next
  BY DEF First, Last
<1>2. \A name, d : Op(name, d).name = name  BY DEF Op
<1>3. \A n : MonoHelper(n).colors = n /\ MapHelper(n).colors = n /\ NoHelper.colors = 0
  BY DEF MonoHelper, MapHelper, NoHelper
<1>4. CASE IsRGB(b)
  <2>1. ls = <<Op("24bpp", 8)>> /\ b.spp = 3 /\ b.bps = 8 /\ b.helper.colors = 0
    BY <1>3, <1>4 DEF IsRGB, LayersOf
  <2>2. First(ls) = Op("24bpp", 8) /\ Last(ls) = Op("24bpp", 8)  BY <1>1, <2>1
  <2>. QED  BY <1>2, <2>1, <2>2, <1>9, Carried, EnoughColours DEF Suits
<1>5. CASE IsCMYK(b)
  <2>1. b.spp = 4 /\ b.bps \in Depths /\ b.helper.colors = 0  BY <1>3, <1>5 DEF IsCMYK
  <2>2. First(ls) = Op("cmyk", b.bps) /\ Last(ls) = Op("cmyk", 8)
    BY <1>1, <1>5 DEF IsCMYK, LayersOf
  <2>. QED  BY <1>0, <1>2, <2>1, <2>2, <1>9, Carried, EnoughColours DEF Suits
<1>6. CASE IsGreyscale(b) /\ b.bps = 1
  <2>1. b.spp = 1 /\ b.helper.colors = 2  BY <1>3, <1>6 DEF IsGreyscale
  <2>2. First(ls) = Op("1bpp", 1) /\ Last(ls) = Op("8bpp", 8)
    BY <1>1, <1>6 DEF IsGreyscale, LayersOf
  <2>. QED  BY <1>2, <1>6, <2>1, <2>2, <1>9, Carried, EnoughColours DEF Suits
<1>7. CASE IsGreyscale(b) /\ b.bps = 8
  <2>1. b.spp = 1 /\ b.helper.colors = 2  BY <1>3, <1>7 DEF IsGreyscale
  <2>2. First(ls) = Op("8bpp", 8) /\ Last(ls) = Op("8bpp", 8)
    BY <1>1, <1>7 DEF IsGreyscale, LayersOf
  <2>. QED  BY <1>2, <1>7, <2>1, <2>2, <1>9, Carried, EnoughColours DEF Suits
<1>8. ASSUME b.spp = 1, b.bps \in Depths, b.helper.colors = 2 ^ b.bps,
             ls = <<Op("indexed", b.bps), Op("colormapped", b.bps)>>
      PROVE  Suits(ls, b)
  <2>1. First(ls) = Op("indexed", b.bps) /\ Last(ls) = Op("colormapped", b.bps)  BY <1>1, <1>8
  <2>. QED  BY <1>0, <1>2, <1>8, <2>1, <1>9, Carried, EnoughColours DEF Suits
<1>10. CASE IsColormapped(b)
  BY <1>3, <1>8, <1>10 DEF IsColormapped, LayersOf
<1>11. CASE IsGreyscale(b) /\ b.bps \in {2, 4}
  BY <1>3, <1>8, <1>11 DEF IsGreyscale, LayersOf
<1>12. CASE IsGreyscale(b)
  <2>1. b.bps = 1 \/ b.bps = 8 \/ b.bps \in {2, 4}  BY <1>12 DEF IsGreyscale, Depths
  <2>. QED  BY <1>12, <2>1, <1>6, <1>7, <1>11
<1>. QED  BY <1>4, <1>5, <1>10, <1>12

\* A file that says what it is, is opened if it is supported.
LEMMA SupportedOpens ==
    ASSUME NEW tags \in AllTags, Consistent(tags),
           NEW other, other = IF OpenTiff(tags) = Nothing THEN 0 ELSE OpenTiff(tags).bps
    PROVE  (OpenTiff(tags) # Nothing) <=>
              /\ tags.readable /\ Missing \notin {tags.width, tags.height, tags.photometric}
              /\ tags.photometric # "OTHER"
              /\ Or(tags.bps, other) \in (IF tags.spp = 3 THEN {8} ELSE {1, 2, 4, 8})
<1>. DEFINE spp == Or(tags.spp, 1)
            bps == Or(tags.bps, IF spp = 1 THEN 1 ELSE 8)
            b == OpenTiff(tags)
            says == /\ tags.readable /\ Missing \notin {tags.width, tags.height, tags.photometric}
                    /\ tags.photometric # "OTHER"
            fits == Or(tags.bps, other) \in (IF tags.spp = 3 THEN {8} ELSE {1, 2, 4, 8})
<1>1. (b # Nothing) <=> Supported(tags, spp, bps)  BY OpenTiffIs
<1>2. b # Nothing => b.bps = bps  BY OpenTiffIs
<1>3. tags.spp \in Nat \cup {Missing} /\ tags.bps \in Nat \cup {Missing} /\ Missing \notin Nat
  BY MissingAssumption DEF AllTags
<1>4. (spp = 3 <=> tags.spp = 3) /\ (tags.bps # Missing => bps = tags.bps)
  BY <1>3 DEF Or
<1>5. says => spp \in {1, 3, 4}
  BY DEF Consistent, AllTags
<1>6. ASSUME b # Nothing PROVE says /\ fits
  <2>1. says  BY <1>1, <1>6 DEF Supported
  <2>2. other = bps  BY <1>2, <1>6
  <2>3. Or(tags.bps, bps) = bps  BY DEF Or
  <2>4. bps \in Depths /\ (spp = 3 => bps = 8)  BY <1>1, <1>6 DEF Supported
  <2>. HIDE DEF spp, bps, b
  <2>. QED  BY <1>4, <2>1, <2>2, <2>3, <2>4 DEF Depths
<1>7. ASSUME b = Nothing, says PROVE ~fits
  <2>1. other = 0  BY <1>7
  <2>2. CASE tags.bps = Missing  BY <2>1, <2>2 DEF Or
  <2>3. CASE tags.bps # Missing
    <3>1. Or(tags.bps, other) = bps  BY <1>4, <2>3 DEF Or
    <3>2. ~(bps \in Depths /\ (spp = 3 => bps = 8))
      <4>1. ~Supported(tags, spp, bps)  BY <1>1, <1>7
      <4>. HIDE DEF spp, bps, b
      <4>. QED  BY <1>5, <1>7, <4>1 DEF Supported
    <3>. HIDE DEF spp, bps, b
    <3>. QED  BY <1>4, <3>1, <3>2 DEF Depths
  <2>. QED  BY <2>2, <2>3
<1>. HIDE DEF b, spp, bps
<1>8. (b # Nothing) <=> says /\ fits  BY <1>6, <1>7
<1>. QED  BY <1>8 DEF b

\* Every file that is supported gets layer operations that fit its pixels, each other
\* and every colour map on offer (tiff.cc, layerspecforbitmap.cc), whatever its tags
\* and whichever palettes the user has.
THEOREM SupportedFilesGetLayers ==
    \A tags \in AllTags, files \in SUBSET AllFiles : LayersMatchFormat(tags, files)
<1>. SUFFICES ASSUME NEW tags \in AllTags, NEW files \in SUBSET AllFiles, Consistent(tags)
              PROVE  LayersMatchFormat(tags, files)
  BY DEF LayersMatchFormat
<1>. DEFINE b == OpenTiff(tags)
            p == Presentation(tags)
            ls == IF p = Nothing THEN <<>> ELSE p.spec.ls
            other == IF ls = <<>> THEN 0 ELSE p.bmd.bps
            supported == /\ tags.readable /\ Missing \notin {tags.width, tags.height, tags.photometric}
                         /\ tags.photometric # "OTHER"
                         /\ Or(tags.bps, other) \in (IF tags.spp = 3 THEN {8} ELSE {1, 2, 4, 8})
            Sizes == IF p.spec.helper.kind = "colormap" THEN Offered(p.spec.helper, files) ELSE {p.spec.helper.colors}
<1>1. (p = Nothing) <=> (b = Nothing)  BY PresentationIs
<1>2. ASSUME b # Nothing
      PROVE  /\ p.bmd = b /\ p.spec.helper = b.helper /\ ls = LayersOf(b) /\ LayersOf(b) # <<>>
             /\ p.bottomBpp = b.spp * b.bps /\ p.pipette = (First(ls).name \in {"24bpp", "cmyk"})
             /\ p.spec.ls = LayersOf(b)
  <2>1. p.bmd = b /\ p.spec = LayerSpec(LayersOf(b), b.helper)
        /\ p.bottomBpp = b.spp * b.bps /\ p.pipette = (LayersOf(b)[1].name \in {"24bpp", "cmyk"})
    BY <1>2, PresentationIs
  <2>2. p.spec.ls = LayersOf(b) /\ p.spec.helper = b.helper  BY <2>1 DEF LayerSpec
  <2>3. LayersOf(b) # <<>>  BY DEF LayersOf
  <2>4. ls = LayersOf(b)  BY <1>1, <1>2, <2>2
  <2>. HIDE DEF p, b, ls
  <2>. QED  BY <2>1, <2>2, <2>3, <2>4 DEF First
<1>3. other = IF b = Nothing THEN 0 ELSE b.bps
  <2>1. b = Nothing => other = 0  BY <1>1
  <2>2. b # Nothing => other = b.bps
    <3>. HIDE DEF p, b, ls
    <3>. QED  BY <1>2
  <2>. QED  BY <2>1, <2>2
<1>4. supported = (p # Nothing)
  <2>1. (b # Nothing) <=> supported
    <3>. HIDE DEF other
    <3>. QED  BY <1>3, SupportedOpens
  <2>. QED  BY <1>1, <2>1
<1>5. ASSUME p # Nothing
      PROVE  /\ p.spec # Broken
             /\ p.bottomBpp = GetBpp(ls[1])
             /\ p.pipette <=> p.bmd.spp > 1
             /\ \A n \in 0..3 :
                   LET op == LayerOp(ls, n) IN
                   /\ TargetBpp(op) = GetBpp(LayerOp(ls, n + 1))
                   /\ OperationsAbove(op) = LayerOp(ls, n + 1)
                   /\ \A size \in Sizes : /\ Indexed(op) => size >= 2 ^ op.bps
                                          /\ op.name \in {"1bpp", "8bpp"} => size >= 2
  <2>1. b # Nothing  BY <1>1, <1>5
  <2>2. IsRGB(b) \/ IsCMYK(b) \/ IsGreyscale(b) \/ IsColormapped(b)  BY <2>1, KindOfBitmap
  <2>3. Suits(ls, b)
    <3>1. ls = LayersOf(b)  BY <1>2, <2>1
    <3>. HIDE DEF b, p, ls
    <3>. QED  BY <2>2, <3>1, LayersOfIs
  <2>4. \A size \in Sizes : size \in Nat /\ size >= b.helper.colors
    <3>1. p.spec.helper = b.helper  BY <1>2, <2>1
    <3>2. b.helper.colors \in Nat  BY <2>3 DEF Suits
    <3>. HIDE DEF b, p
    <3>3. Sizes \subseteq Offered(b.helper, files) \cup {b.helper.colors}  BY <3>1
    <3>. HIDE DEF Sizes
    <3>. QED  BY <3>2, <3>3, OfferedIs
  <2>5. p.spec # Broken
    <3>1. First(Broken.ls).name = "broken"  BY DEF Broken, LayerSpec, First, Op
    <3>2. p.spec.ls = ls  BY <1>2, <2>1
    <3>. HIDE DEF b, p, ls
    <3>. QED  BY <2>3, <3>1, <3>2 DEF Suits
  <2>6. p.bottomBpp = GetBpp(ls[1]) /\ (p.pipette <=> p.bmd.spp > 1)
    <3>1. p.bottomBpp = b.spp * b.bps /\ p.bmd = b /\ p.pipette = (First(ls).name \in {"24bpp", "cmyk"})
      BY <1>2, <2>1
    <3>. HIDE DEF b, p, ls
    <3>. QED  BY <2>3, <3>1 DEF First, Suits
  <2>7. ASSUME NEW n \in 0..3
        PROVE  LET op == LayerOp(ls, n) IN
                   /\ TargetBpp(op) = GetBpp(LayerOp(ls, n + 1))
                   /\ OperationsAbove(op) = LayerOp(ls, n + 1)
                   /\ \A size \in Sizes : /\ Indexed(op) => size >= 2 ^ op.bps
                                          /\ op.name \in {"1bpp", "8bpp"} => size >= 2
    <3>. DEFINE op == LayerOp(ls, n)
                next == LayerOp(ls, n + 1)
    <3>1. op \in {First(ls), Last(ls)} /\ next = Last(ls)
      <4>1. Len(ls) \in {1, 2}  BY <2>3 DEF Suits
      <4>. HIDE DEF b, p, ls
      <4>. QED  BY <4>1, LayerOpIs
    <3>. HIDE DEF b, p, ls, Sizes, op, next
    <3>2. TargetBpp(op) = GetBpp(next) /\ OperationsAbove(op) = next
      BY <2>3, <3>1 DEF Carries, Suits
    <3>3. \A size \in Sizes : Enough(op, size)  BY <2>3, <2>4, <3>1 DEF Suits
    <3>. QED  BY <3>2, <3>3 DEF Enough, op, next
  <2>. HIDE DEF b, p, ls, Sizes
  <2>. QED  BY <2>5, <2>6, <2>7
<1>. HIDE DEF supported
<1>. QED
  <2>1. LayersMatchFormat(tags, files) <=>
          /\ supported = (p # Nothing)
          /\ p # Nothing =>
               /\ p.spec # Broken
               /\ p.bottomBpp = GetBpp(ls[1])
               /\ p.pipette <=> p.bmd.spp > 1
               /\ \A n \in 0..3 :
                     LET op == LayerOp(ls, n) IN
                     /\ TargetBpp(op) = GetBpp(LayerOp(ls, n + 1))
                     /\ OperationsAbove(op) = LayerOp(ls, n + 1)
                     /\ \A size \in Sizes : /\ Indexed(op) => size >= 2 ^ op.bps
                                            /\ op.name \in {"1bpp", "8bpp"} => size >= 2
    BY DEF LayersMatchFormat, supported
  <2>. HIDE DEF p, ls, Sizes
  <2>. QED  BY <1>4, <1>5, <2>1

-----------------------------------------------------------------------------
(* From the rows of a file to tiles.                                       *)

\* Products with a natural number keep the order.
LEMMA Products ==
    ASSUME NEW a \in Int, NEW b \in Int, NEW s \in Nat, a <= b
    PROVE  a * s \in Int /\ b * s \in Int /\ a * s <= b * s /\ (a + 1) * s = a * s + s
<1>1. PICK d \in Nat : b = a + d
  <2>1. b - a \in Nat /\ b = a + (b - a)  OBVIOUS
  <2>. QED  BY <2>1
<1>2. d * s \in Nat /\ a * s \in Int /\ b * s = a * s + d * s  BY <1>1
<1>3. (a + 1) * s = a * s + s  OBVIOUS
<1>. QED  BY <1>2, <1>3

\* ... and have it.
LEMMA ProductsLess ==
    ASSUME NEW a \in Int, NEW b \in Int, NEW s \in Nat, a * s < b * s
    PROVE  a < b
<1>1. a * s \in Int /\ b * s \in Int  OBVIOUS
<1>2. CASE b <= a
  <2>1. b * s <= a * s  BY <1>2, Products
  <2>. QED  BY <1>1, <2>1
<1>. QED  BY <1>2

\* A row of all bytes takes q tiles, of s bytes each, and not one less.
RowSpans(q, s, all) ==
    /\ q \in Nat /\ s \in Nat \ {0} /\ all \in Nat
    /\ q > 0 => (q - 1) * s < all /\ all <= q * s
    /\ q = 0 => all = 0
\* Each of them gets its part, the last one what is left.
Cut(part, q, s, all) ==
    \A n \in 0..q - 1 : part[n] = n * s .. n * s + (IF n < q - 1 THEN s ELSE all - n * s) - 1

\* These parts are all of the row, each within its tile.
LEMMA PartsAreAll ==
    ASSUME NEW q, NEW s, NEW all, RowSpans(q, s, all), NEW part, Cut(part, q, s, all)
    PROVE  /\ UNION {part[n] : n \in 0..q - 1} = 0..all - 1
           /\ \A n \in 0..q - 1 : part[n] \subseteq n * s .. (n + 1) * s - 1
<1>0. /\ q \in Nat /\ s \in Nat /\ s > 0 /\ all \in Nat
      /\ q > 0 => (q - 1) * s < all /\ all <= q * s
      /\ q = 0 => all = 0
      /\ \A n \in Nat : n * s \in Nat
  BY DEF RowSpans
<1>1. ASSUME NEW n \in 0..q - 1
      PROVE  part[n] \subseteq 0..all - 1 /\ part[n] \subseteq n * s .. (n + 1) * s - 1
  <2>0. PICK m : m = n * s  OBVIOUS
  <2>1. n \in Nat /\ m \in Nat /\ (n + 1) * s = m + s  BY <1>0, <2>0, Products
  <2>4. part[n] = m .. m + (IF n < q - 1 THEN s ELSE all - m) - 1  BY <2>0, Zenon DEF Cut
  <2>5. n * s .. (n + 1) * s - 1 = m .. m + s - 1
    <3>1. (n + 1) * s - 1 = m + s - 1  BY <1>0, <2>1
    <3>. QED  BY <2>0, <3>1, Zenon
  <2>2. CASE n < q - 1
    <3>1. part[n] = m .. m + s - 1  BY <2>2, <2>4, Zenon
    <3>2. n + 1 <= q - 1 /\ n + 1 \in Int /\ q - 1 \in Int /\ q > 0  BY <1>0, <2>1, <2>2
    <3>3. (n + 1) * s <= (q - 1) * s /\ (q - 1) * s \in Int  BY <1>0, <3>2, Products
    <3>4. m + s < all  BY <1>0, <2>1, <3>2, <3>3
    <3>5. part[n] \subseteq 0..all - 1 /\ part[n] \subseteq m .. m + s - 1
      BY <1>0, <2>1, <3>1, <3>4
    <3>. QED  BY <2>5, <3>5, Zenon
  <2>3. CASE n = q - 1
    <3>1. ~ n < q - 1 /\ n + 1 = q /\ q > 0  BY <1>0, <2>1, <2>3
    <3>2. part[n] = m .. m + (all - m) - 1  BY <2>4, <3>1, Zenon
    <3>3. all <= m + s  BY <1>0, <2>1, <3>1
    <3>4. part[n] = m .. all - 1  BY <1>0, <2>1, <3>2
    <3>5. part[n] \subseteq 0..all - 1 /\ part[n] \subseteq m .. m + s - 1
      BY <1>0, <2>1, <3>3, <3>4
    <3>. QED  BY <2>5, <3>5, Zenon
  <2>. QED  BY <1>0, <2>2, <2>3
<1>. USE DEF RowSpans, Cut
<1>2. ASSUME NEW x \in 0..all - 1 PROVE \E n \in 0..q - 1 : x \in part[n]
  <2>1. q > 0 /\ q - 1 \in Nat /\ (q - 1) * s \in Nat /\ x \in Nat  BY <1>0
  <2>2. CASE x >= (q - 1) * s
    <3>1. part[q - 1] = (q - 1) * s .. (q - 1) * s + (all - (q - 1) * s) - 1  BY <2>1
    <3>2. (q - 1) * s + (all - (q - 1) * s) - 1 = all - 1  BY <2>1
    <3>3. x \in part[q - 1]  BY <2>1, <2>2, <3>1, <3>2
    <3>. QED  BY <2>1, <3>3
  <2>3. CASE x < (q - 1) * s
    <3>. DEFINE k == x \div s
    <3>1. k \in Nat /\ s * k <= x /\ x < s * k + s  BY <2>1
    <3>2. s * k = k * s  BY <3>1
    <3>. HIDE DEF k
    <3>3. k * s \in Nat /\ k * s <= x /\ x < k * s + s  BY <1>0, <3>1, <3>2
    <3>4. k * s < (q - 1) * s  BY <2>1, <2>3, <3>3
    <3>5. k < q - 1  BY <2>1, <3>1, <3>4, ProductsLess
    <3>6. k \in 0..q - 1  BY <2>1, <3>1, <3>5
    <3>7. part[k] = k * s .. k * s + s - 1  BY <3>5, <3>6
    <3>8. x \in part[k]  BY <2>1, <3>3, <3>7
    <3>. QED  BY <3>6, <3>8
  <2>. QED  BY <2>1, <2>2, <2>3
<1>3. UNION {part[n] : n \in 0..q - 1} \subseteq 0..all - 1  BY <1>1
<1>4. 0..all - 1 \subseteq UNION {part[n] : n \in 0..q - 1}  BY <1>2
<1>5. \A n \in 0..q - 1 : part[n] \subseteq n * s .. (n + 1) * s - 1  BY <1>1
<1>. QED  BY <1>3, <1>4, <1>5

\* A row of a bitmap, in bytes, against the rows of the tiles it is cut into.
LEMMA RowOfTiles ==
    ASSUME NEW width \in Nat, NEW spp \in {1, 3, 4}, NEW bps \in Depths, NEW t \in Nat \ {0},
           NEW q, q = (width + 8 * t - 1) \div (8 * t),
           NEW s, s = ((8 * t) * spp * bps) \div 8,
           NEW all, all = (width * spp * bps + 7) \div 8
    PROVE  RowSpans(q, s, all)
<1>. DEFINE c == spp * bps
            f == 8 * t
            v == width + f - 1
<1>1. c \in Nat \ {0}  BY DEF Depths
<1>2. s = t * c /\ s \in Nat \ {0}
  <2>1. CASE spp = 1  BY <2>1 DEF Depths
  <2>2. CASE spp = 3  BY <2>2 DEF Depths
  <2>3. CASE spp = 4  BY <2>3 DEF Depths
  <2>. QED  BY <2>1, <2>2, <2>3
<1>3. all \in Nat /\ width * c <= 8 * all /\ 8 * all <= width * c + 7
  <2>1. CASE spp = 1  BY <2>1 DEF Depths
  <2>2. CASE spp = 3  BY <2>2 DEF Depths
  <2>3. CASE spp = 4  BY <2>3 DEF Depths
  <2>. QED  BY <2>1, <2>2, <2>3
<1>4. q \in Nat /\ f * q <= v /\ v < f * q + f
  <2>1. v \in Nat /\ f \in Nat \ {0} /\ q = v \div f  OBVIOUS
  <2>. HIDE DEF f, v
  <2>. QED  BY <2>1
<1>. DEFINE u == t * q
<1>5. u \in Nat /\ f * q = 8 * u  BY <1>4
<1>6. (width <= 8 * u /\ 8 * u - 8 * t < width) \/ (q = 0 /\ width = 0)
  BY <1>4, <1>5
<1>7. q * s = u * c /\ (q - 1) * s = u * c - t * c
  <2>1. s = t * c /\ c \in Nat /\ t \in Nat /\ q \in Nat  BY <1>1, <1>2, <1>4
  <2>. HIDE DEF c
  <2>2. q * (t * c) = (t * q) * c /\ (q - 1) * (t * c) = (t * q) * c - t * c  BY <2>1
  <2>. QED  BY <2>1, <2>2
<1>8. q = 0 => width = 0  BY <1>4
<1>. HIDE DEF u
<1>9. ASSUME q > 0 PROVE u * c - t * c < all /\ all <= u * c
  <2>1. width <= 8 * u /\ 8 * u - 8 * t < width  BY <1>6, <1>9
  <2>2. CASE spp = 1  BY <1>3, <1>5, <2>1, <2>2 DEF Depths
  <2>3. CASE spp = 3  BY <1>3, <1>5, <2>1, <2>3 DEF Depths
  <2>4. CASE spp = 4  BY <1>3, <1>5, <2>1, <2>4 DEF Depths
  <2>. QED  BY <2>2, <2>3, <2>4
<1>10. ASSUME q = 0 PROVE all = 0
  <2>1. width = 0 /\ width * c = 0  BY <1>1, <1>8, <1>10
  <2>. HIDE DEF c
  <2>. QED  BY <1>3, <2>1
<1>. HIDE DEF c
<1>. QED  BY <1>2, <1>3, <1>4, <1>7, <1>9, <1>10 DEF RowSpans

\* The rows of every file that keeps the samples of a pixel together fit its tiles, of
\* any size that is a multiple of 8: each byte goes to one tile, in its place (tiff.cc,
\* fillTiles()).
THEOREM RowsAreCut ==
    \A tags, again \in AllTags, tile \in Nat \ {0} : tile % 8 = 0 => RowsFitTiles(tags, again, tile)
<1>. SUFFICES ASSUME NEW tags \in AllTags, NEW again \in AllTags, NEW tile \in Nat \ {0}, tile % 8 = 0,
                     OpenTiff(tags) # Nothing, Reset(FALSE, again, OpenTiff(tags)) # Nothing
              PROVE  RowsFitTiles(tags, again, tile)
  BY DEF RowsFitTiles
<1>. DEFINE b   == OpenTiff(tags)
            now == Reset(FALSE, again, b)
            q   == (b.width + tile - 1) \div tile
            s   == TileStride(tile, b)
            all == ScanlineSize(now)
            part == [n \in 0..q - 1 |-> CopiedBytes(tile, now, q, n)]
            spp == Or(tags.spp, 1)
            bps == Or(tags.bps, IF spp = 1 THEN 1 ELSE 8)
<1>1. SameKind(now, b) /\ now = OpenTiff(again)
  <2>. DEFINE other == OpenTiff(again)
  <2>1. now = IF other # Nothing /\ SameKind(other, b) THEN other ELSE Nothing  BY DEF Reset
  <2>2. now # Nothing  OBVIOUS
  <2>. HIDE DEF b, now, other
  <2>. QED  BY <2>1, <2>2 DEF other
<1>2. b.width = now.width /\ b.spp = now.spp /\ b.bps = now.bps  BY <1>1 DEF SameKind
<1>3. b.spp \in {1, 3, 4} /\ b.bps \in Depths /\ b.width \in Nat
  <2>1. Supported(tags, spp, bps) /\ b.width = tags.width /\ b.spp = spp /\ b.bps = bps  BY OpenTiffIs
  <2>. HIDE DEF spp, bps, b
  <2>. QED  BY <2>1 DEF Supported, AllTags
<1>4. PICK t \in Nat \ {0} : tile = 8 * t
  <2>1. tile \div 8 \in Nat \ {0} /\ tile = 8 * (tile \div 8)  OBVIOUS
  <2>. QED  BY <2>1
<1>5. s = ((8 * t) * b.spp * b.bps) \div 8  BY <1>4 DEF TileStride
<1>6. all = (b.width * b.spp * b.bps + 7) \div 8  BY <1>2 DEF ScanlineSize
<1>7. q = (b.width + 8 * t - 1) \div (8 * t)  BY <1>4
<1>. HIDE DEF b, q, s, all, now
<1>8. RowSpans(q, s, all)
  BY <1>3, <1>5, <1>6, <1>7, RowOfTiles
<1>9. TileStride(tile, now) = s  BY <1>2 DEF TileStride, s
<1>10. Cut(part, q, s, all)
  <2>1. \A n \in 0..q - 1 : part[n] = n * s .. n * s + (IF n < q - 1 THEN s ELSE all - n * s) - 1
    BY <1>9 DEF CopiedBytes, all
  <2>. QED  BY <2>1 DEF Cut
<1>. HIDE DEF part
<1>11. /\ UNION {part[n] : n \in 0..q - 1} = 0..all - 1
       /\ \A n \in 0..q - 1 : part[n] \subseteq n * s .. (n + 1) * s - 1
  BY <1>8, <1>10, PartsAreAll
<1>12. \A n \in 0..q - 1 : part[n] = CopiedBytes(tile, now, q, n)  BY DEF part
<1>13. UNION {CopiedBytes(tile, now, q, n) : n \in 0..q - 1} = 0..all - 1
  <2>1. {CopiedBytes(tile, now, q, n) : n \in 0..q - 1} = {part[n] : n \in 0..q - 1}  BY <1>12
  <2>. QED  BY <1>11, <2>1
<1>14. \A n \in 0..q - 1 : CopiedBytes(tile, now, q, n) \subseteq n * s .. (n + 1) * s - 1  BY <1>11, <1>12
<1>. QED  BY <1>13, <1>14 DEF RowsFitTiles, b, now, q, s, all

-----------------------------------------------------------------------------
(* Ink and paper.                                                          *)

\* Any colour.
AllColours == [Channels -> Int]

\* Gray values are colours.
LEMMA GrayIs ==
    ASSUME NEW v \in Int, NEW full \in Int
    PROVE  /\ Gray(v, full) = [ch \in Channels |-> IF ch = "alpha" THEN full ELSE v]
           /\ Gray(v, full) \in AllColours
<1>1. Gray(v, full) = [ch \in Channels |-> IF ch = "alpha" THEN full ELSE v]
  BY DEF Gray, Colour, Channels
<1>. QED  BY <1>1 DEF AllColours

\* A map has its paper, or black, at one end, and its ink, or white, at the other.
LEMMA MixIs ==
    ASSUME NEW a \in AllColours, NEW b \in AllColours, NEW whole \in Nat, NEW part \in 0..whole
    PROVE  /\ Mix(a, b, 0, whole) = WithAlpha(b, whole)
           /\ Mix(a, b, whole, whole) = WithAlpha(a, whole)
           /\ Mix(Gray(1, 1), Gray(0, 1), part, whole) = Gray(part, whole)
           /\ Mix(Gray(0, 1), Gray(1, 1), part, whole) = Gray(whole - part, whole)
<1>1. \A ch \in Channels : a[ch] \in Int /\ b[ch] \in Int  BY DEF AllColours
<1>2. Mix(a, b, 0, whole) = WithAlpha(b, whole)
  <2>1. \A ch \in Channels : a[ch] * 0 + b[ch] * (whole - 0) = b[ch] * whole  BY <1>1
  <2>. QED  BY <2>1 DEF Mix, WithAlpha
<1>3. Mix(a, b, whole, whole) = WithAlpha(a, whole)
  <2>1. \A ch \in Channels : a[ch] * whole + b[ch] * (whole - whole) = a[ch] * whole  BY <1>1
  <2>. QED  BY <2>1 DEF Mix, WithAlpha
<1>4. Mix(Gray(1, 1), Gray(0, 1), part, whole) = Gray(part, whole)  BY GrayIs DEF Mix
<1>5. Mix(Gray(0, 1), Gray(1, 1), part, whole) = Gray(whole - part, whole)  BY GrayIs DEF Mix
<1>. QED  BY <1>2, <1>3, <1>4, <1>5

\* What the map of a helper is made of, after the user has chosen c.
LEMMA ChosenIs ==
    ASSUME NEW n, NEW inverted \in BOOLEAN, NEW c, NEW transparent \in BOOLEAN,
           NEW m, m = SetTransparent(SetMonochromeColor(Monochrome(n, inverted), c), transparent)
    PROVE  /\ m.n = n /\ m.inverted = inverted /\ m.transparent = transparent
           /\ m.blackish = (IF inverted THEN Gray(1, 1) ELSE c)
           /\ m.whitish = (IF inverted THEN c ELSE Gray(1, 1))
           /\ GetMonochromeColor(m) = c
<1>. DEFINE first == Monochrome(n, inverted)
            second == SetMonochromeColor(first, c)
<1>1. first = [n |-> n, inverted |-> inverted, blackish |-> Gray(IF inverted THEN 1 ELSE 0, 1),
               whitish |-> Gray(IF inverted THEN 0 ELSE 1, 1), transparent |-> FALSE]
  BY DEF Monochrome
<1>. HIDE DEF first
<1>2. second = [n |-> n, inverted |-> inverted, blackish |-> (IF inverted THEN Gray(1, 1) ELSE c),
                whitish |-> (IF inverted THEN c ELSE Gray(1, 1)), transparent |-> FALSE]
  BY <1>1 DEF SetMonochromeColor
<1>. HIDE DEF second
<1>3. m = [n |-> n, inverted |-> inverted, blackish |-> (IF inverted THEN Gray(1, 1) ELSE c),
           whitish |-> (IF inverted THEN c ELSE Gray(1, 1)), transparent |-> transparent]
  BY <1>2 DEF SetTransparent, first, second
<1>. QED  BY <1>3 DEF GetMonochromeColor

\* Whatever is set, the ink has the colour that was chosen and the paper is white or
\* transparent, in a map of any size (monochromecolormaphelper).
THEOREM InkStays ==
    \A n \in Nat \ {0, 1}, inverted, transparent \in BOOLEAN, c \in AllColours :
        InkAndPaper(n, inverted, c, transparent)
<1>. SUFFICES ASSUME NEW n \in Nat \ {0, 1}, NEW inverted \in BOOLEAN, NEW transparent \in BOOLEAN,
                     NEW c \in AllColours
              PROVE  InkAndPaper(n, inverted, c, transparent)
  OBVIOUS
<1>. DEFINE first == Monochrome(n, inverted)
            m     == SetTransparent(SetMonochromeColor(first, c), transparent)
            whole == n - 1
            ink   == IF inverted THEN n - 1 ELSE 0
            paper == n - 1 - ink
            white == Gray(1, 1)
            bare  == IF transparent THEN WithAlpha(white, 0) ELSE white
<1>1. whole \in Nat \ {0} /\ 0 \in 0..whole /\ whole \in 0..whole  OBVIOUS
<1>2. Regenerated(first) = DefaultMap(n, inverted)
  <2>1. first = [n |-> n, inverted |-> inverted, blackish |-> Gray(IF inverted THEN 1 ELSE 0, 1),
                 whitish |-> Gray(IF inverted THEN 0 ELSE 1, 1), transparent |-> FALSE]
    BY DEF Monochrome
  <2>. HIDE DEF first
  <2>2. Regenerated(first) = [i \in 0..n - 1 |-> Mix(Gray(IF inverted THEN 0 ELSE 1, 1),
                                                     Gray(IF inverted THEN 1 ELSE 0, 1), i, n - 1)]
    BY <2>1 DEF Regenerated
  <2>3. white \in AllColours  BY GrayIs
  <2>4. \A i \in 0..n - 1 : Mix(Gray(IF inverted THEN 0 ELSE 1, 1), Gray(IF inverted THEN 1 ELSE 0, 1), i, n - 1)
                               = Gray(IF inverted THEN n - 1 - i ELSE i, n - 1)
    BY <1>1, <2>3, MixIs
  <2>. QED  BY <2>2, <2>4 DEF DefaultMap
<1>3. /\ m.n = n /\ m.inverted = inverted /\ m.transparent = transparent
      /\ m.blackish = (IF inverted THEN white ELSE c)
      /\ m.whitish = (IF inverted THEN c ELSE white)
      /\ GetMonochromeColor(m) = c
  BY ChosenIs
<1>4. white \in AllColours /\ bare \in AllColours
  <2>1. white \in AllColours  BY GrayIs
  <2>2. \A ch \in Channels : white[ch] * 0 \in Int  BY <2>1 DEF AllColours
  <2>. HIDE DEF white
  <2>. QED  BY <2>1, <2>2 DEF WithAlpha, AllColours
<1>5. WithAlpha(bare, whole) = WithAlpha(white, IF transparent THEN 0 ELSE whole)
  <2>1. \A ch \in Channels : white[ch] \in Int  BY <1>4 DEF AllColours
  <2>2. \A ch \in Channels : (white[ch] * 0) * whole = white[ch] * 0
    BY <1>1, <2>1
  <2>. HIDE DEF white, whole
  <2>. QED  BY <2>2 DEF WithAlpha
<1>6. \A i \in 0..n - 1 : Regenerated(m)[i] = IF inverted THEN Mix(c, bare, i, whole) ELSE Mix(bare, c, i, whole)
  <2>. HIDE DEF m, white
  <2>. QED  BY <1>3 DEF Regenerated
<1>. HIDE DEF m, first, white, bare, whole
<1>7. Regenerated(m)[ink] = WithAlpha(c, whole)
  <2>1. ink = (IF inverted THEN whole ELSE 0) /\ ink \in 0..n - 1  BY DEF whole
  <2>. HIDE DEF ink
  <2>. QED  BY <1>1, <1>4, <1>6, <2>1, MixIs
<1>8. Regenerated(m)[paper] = WithAlpha(bare, whole)
  <2>1. paper = (IF inverted THEN 0 ELSE whole) /\ paper \in 0..n - 1  BY DEF whole
  <2>. HIDE DEF paper
  <2>. QED  BY <1>1, <1>4, <1>6, <2>1, MixIs
<1>. QED  BY <1>2, <1>3, <1>5, <1>7, <1>8 DEF InkAndPaper, m, first, white, whole

-----------------------------------------------------------------------------
(* TiledBitmap::initialize(): the layers of a bitmap.                      *)

\* The lengths that an int has room for.
Lengths == 1..2 ^ 31 - 1

\* initialize(): each layer is eight times as small as the one below it.
LEMMA LengthIs ==
    ASSUME NEW length \in Nat
    PROVE  /\ Length(length, 0) = length
           /\ \A n \in Nat : Length(length, n) \in Nat /\ Length(length, n + 1) = (Length(length, n) + 7) \div 8
<1>. DEFINE next == [x \in Nat |-> (x + 7) \div 8]
            IsIt(f) == f = [i \in Nat |-> IF i = 0 THEN length ELSE (f[i - 1] + 7) \div 8]
            it == CHOOSE f : IsIt(f)
<1>1. \E f : IsIt(f)
  <2>1. next \in [Nat -> Nat]  OBVIOUS
  <2>2. PICK f : SequenceOf(f, Nat, length, next)
    <3>. HIDE DEF next
    <3>. QED  BY <2>1, SequenceExists
  <2>3. \A n \in Nat : f[n] = IF n = 0 THEN length ELSE (f[n - 1] + 7) \div 8
    <3>0. f \in [Nat -> Nat] /\ \A n \in Nat : f[n] = IF n = 0 THEN length ELSE next[f[n - 1]]
      BY <2>2 DEF SequenceOf
    <3>1. \A n \in Nat : n # 0 => f[n - 1] \in Nat  BY <3>0
    <3>2. \A x \in Nat : next[x] = (x + 7) \div 8  OBVIOUS
    <3>. HIDE DEF next
    <3>. QED  BY <3>0, <3>1, <3>2
  <2>4. f = [n \in Nat |-> f[n]]  BY <2>2 DEF SequenceOf
  <2>5. IsIt(f)  BY <2>3, <2>4
  <2>. QED  BY <2>5
<1>2. IsIt(it)  BY <1>1
<1>3. \A n \in Nat : Length(length, n) = it[n]  BY DEF Length
<1>. HIDE DEF it
<1>4. \A n \in Nat : it[n] = IF n = 0 THEN length ELSE (it[n - 1] + 7) \div 8  BY <1>2
<1>. DEFINE T == {n \in Nat : it[n] \in Nat}
<1>5. \A n \in Nat : n \in T
  <2>1. 0 \in T  BY <1>4
  <2>2. ASSUME NEW n \in Nat, n \in T PROVE n + 1 \in T
    <3>1. n + 1 \in Nat /\ n + 1 # 0 /\ (n + 1) - 1 = n  OBVIOUS
    <3>2. it[n + 1] = (it[n] + 7) \div 8  BY <1>4, <3>1
    <3>. QED  BY <2>2, <3>2
  <2>. HIDE DEF T
  <2>. QED  BY <2>1, <2>2, NatSets
<1>6. ASSUME NEW n \in Nat PROVE it[n + 1] = (it[n] + 7) \div 8
  <2>1. n + 1 \in Nat /\ n + 1 # 0 /\ (n + 1) - 1 = n  OBVIOUS
  <2>. QED  BY <1>4, <2>1
<1>. QED  BY <1>3, <1>4, <1>5, <1>6

\* The tenth layer of any bitmap has two pixels at most.
LEMMA TenthIsSmall ==
    ASSUME NEW length \in Lengths
    PROVE  Length(length, 10) <= 2
<1>0. /\ 2 ^ 31 = 8 * 2 ^ 28 /\ 2 ^ 28 = 8 * 2 ^ 25 /\ 2 ^ 25 = 8 * 2 ^ 22 /\ 2 ^ 22 = 8 * 2 ^ 19
      /\ 2 ^ 19 = 8 * 2 ^ 16 /\ 2 ^ 16 = 8 * 2 ^ 13 /\ 2 ^ 13 = 8 * 2 ^ 10 /\ 2 ^ 10 = 8 * 2 ^ 7
      /\ 2 ^ 7 = 8 * 2 ^ 4 /\ 2 ^ 4 = 8 * 2
  BY SMT
<1>. DEFINE L(n) == Length(length, n)
<1>1. length \in Nat /\ length <= 2 ^ 31  BY SMT DEF Lengths
<1>2. L(0) = length /\ \A n \in Nat : L(n) \in Nat /\ L(n + 1) = (L(n) + 7) \div 8  BY <1>1, LengthIs
<1>. HIDE DEF L
<1>3. L(0) <= 2 ^ 31  BY <1>1, <1>2
<1>4. ASSUME NEW n \in Nat, NEW b \in Nat, L(n) <= 8 * b PROVE L(n + 1) <= b
  <2>1. L(n) \in Nat /\ L(n + 1) = (L(n) + 7) \div 8  BY <1>2
  <2>. QED  BY <1>4, <2>1
<1>4a. /\ 2 ^ 28 \in Nat /\ 2 ^ 25 \in Nat /\ 2 ^ 22 \in Nat /\ 2 ^ 19 \in Nat /\ 2 ^ 16 \in Nat
       /\ 2 ^ 13 \in Nat /\ 2 ^ 10 \in Nat /\ 2 ^ 7 \in Nat /\ 2 ^ 4 \in Nat
  BY SMT
<1>5. L(1) <= 2 ^ 28  BY <1>0, <1>3, <1>4, <1>4a
<1>6. L(2) <= 2 ^ 25  BY <1>0, <1>4, <1>4a, <1>5
<1>7. L(3) <= 2 ^ 22  BY <1>0, <1>4, <1>4a, <1>6
<1>8. L(4) <= 2 ^ 19  BY <1>0, <1>4, <1>4a, <1>7
<1>9. L(5) <= 2 ^ 16  BY <1>0, <1>4, <1>4a, <1>8
<1>10. L(6) <= 2 ^ 13  BY <1>0, <1>4, <1>4a, <1>9
<1>11. L(7) <= 2 ^ 10  BY <1>0, <1>4, <1>4a, <1>10
<1>12. L(8) <= 2 ^ 7  BY <1>0, <1>4, <1>4a, <1>11
<1>13. L(9) <= 2 ^ 4  BY <1>0, <1>4, <1>4a, <1>12
<1>14. L(10) <= 2  BY <1>0, <1>4, <1>13
<1>. QED  BY <1>14 DEF L

\* So there are ten layers at most, the last of which is small.
LEMMA LayerCountIs ==
    ASSUME NEW w \in Lengths, NEW h \in Lengths
    PROVE  /\ LayerCount(w, h) \in 1..10
           /\ Length(w, LayerCount(w, h)) <= TileSize \div 4
           /\ Length(h, LayerCount(w, h)) <= TileSize \div 4
<1>. DEFINE Big(n) == Largest(Length(w, n), Length(h, n))
            Small(n) == Big(n) <= TileSize \div 4
            Least(n) == Small(n) /\ \A m \in 1..n - 1 : Big(m) > TileSize \div 4
            count == LayerCount(w, h)
<1>0. TileSize \in Nat /\ TileSize >= 8  BY TileSizeAssumption
<1>1. w \in Nat /\ h \in Nat  BY DEF Lengths
<1>2. \A n \in Nat : Length(w, n) \in Nat /\ Length(h, n) \in Nat  BY <1>1, LengthIs
<1>3. \A n \in Nat : Big(n) \in Nat  BY <1>2 DEF Largest
<1>4. Small(10)
  <2>1. Length(w, 10) <= 2 /\ Length(h, 10) <= 2  BY TenthIsSmall
  <2>2. Big(10) <= 2  BY <2>1 DEF Largest
  <2>3. TileSize \div 4 \in Nat /\ TileSize \div 4 >= 2  BY <1>0
  <2>. HIDE DEF Big
  <2>. QED  BY <1>3, <2>2, <2>3
<1>5. TileSize \div 4 \in Nat  BY <1>0
<1>6. \E n \in 1..20 : Least(n)
  <2>. SUFFICES ASSUME \A n \in 1..20 : ~Least(n) PROVE FALSE  OBVIOUS
  <2>. DEFINE T == {n \in Nat : n <= 20 => \A m \in 1..n : ~Small(m)}
  <2>. HIDE DEF Big
  <2>1. 0 \in T  OBVIOUS
  <2>2. ASSUME NEW n \in Nat, n \in T PROVE n + 1 \in T
    <3>. SUFFICES ASSUME n + 1 <= 20 PROVE ~Small(n + 1)  BY <2>2
    <3>1. \A m \in 1..(n + 1) - 1 : Big(m) > TileSize \div 4  BY <1>3, <1>5, <2>2
    <3>. QED  BY <3>1
  <2>3. \A n \in Nat : n \in T
    <3>. HIDE DEF T
    <3>. QED  BY <2>1, <2>2, NatSets
  <2>4. 10 \in T  BY <2>3
  <2>. QED  BY <1>4, <2>4
<1>7. count = CHOOSE n \in 1..20 : Least(n)  BY DEF LayerCount
<1>. HIDE DEF Least, count
<1>8. count \in 1..20 /\ Least(count)  BY <1>6, <1>7
<1>9. Small(count) /\ \A m \in 1..count - 1 : Big(m) > TileSize \div 4  BY <1>8 DEF Least
<1>10. count <= 10
  <2>. HIDE DEF Big
  <2>. SUFFICES ASSUME count > 10 PROVE FALSE  BY <1>8
  <2>1. 10 \in 1..count - 1  BY <1>8
  <2>. QED  BY <1>3, <1>4, <1>5, <1>9, <2>1
<1>11. Length(w, count) \in Nat /\ Length(h, count) \in Nat  BY <1>2, <1>8
<1>. QED  BY <1>5, <1>8, <1>9, <1>10, <1>11 DEF Largest, count

\* The sizes of its pixels.
LEMMA PixelIs ==
    ASSUME NEW n \in 0..9
    PROVE  PixelOf(n) \in Nat \ {0}
<1>0. Unit \in Nat \ {0}  BY UnitAssumption
<1>1. /\ 8 ^ 0 \in Nat \ {0} /\ 8 ^ 1 \in Nat \ {0} /\ 8 ^ 2 \in Nat \ {0} /\ 8 ^ 3 \in Nat \ {0}
      /\ 8 ^ 4 \in Nat \ {0} /\ 8 ^ 5 \in Nat \ {0} /\ 8 ^ 6 \in Nat \ {0} /\ 8 ^ 7 \in Nat \ {0}
      /\ 8 ^ 8 \in Nat \ {0} /\ 8 ^ 9 \in Nat \ {0}
  BY SMT
<1>2. 8 ^ n \in Nat \ {0}
  <2>1. n \in {0, 1, 2, 3, 4, 5, 6, 7, 8, 9}  OBVIOUS
  <2>. QED  BY <1>1, <2>1
<1>. QED  BY <1>0, <1>2 DEF PixelOf

\* The layer that is drawn at a zoom level.
LEMMA LayerForIs ==
    ASSUME NEW w \in Lengths, NEW h \in Lengths, NEW zoom \in Int
    PROVE  LayerFor(zoom, LayerCount(w, h)) \in 0..9
<1>. DEFINE count == LayerCount(w, h)
<1>1. count \in 1..10  BY LayerCountIs
<1>. HIDE DEF count
<1>2. CASE zoom > -3  BY <1>2 DEF LayerFor, count
<1>3. CASE ~(zoom > -3)
  <2>1. (-zoom) \div 3 \in Nat  BY <1>3
  <2>2. LayerFor(zoom, count) = Smallest(count - 1, (-zoom) \div 3)  BY <1>3 DEF LayerFor
  <2>3. LayerFor(zoom, count) \in 0..9  BY <1>1, <2>1, <2>2 DEF Smallest
  <2>. QED  BY <2>3 DEF count
<1>. QED  BY <1>2, <1>3

-----------------------------------------------------------------------------
(* TiledBitmap::redraw(), one axis at a time: of a layer of some length,   *)
(* with pixels of some size, a segment is requested.                       *)

\* The part of it that exists, what redraw() clips the request to, a tile, and the
\* part of the tile that is drawn.
ValidPart(s, length, pixel) == Intersection(s, Scaled(Segment(0, length), pixel))
ClippedTo(s, length, pixel) == Before(s, End(ValidPart(s, length, pixel)))
TileSpan(i, pixel) == Scaled(Scaled(Moved(Segment(0, 1), i), TileSize), pixel)
VisiblePart(s, length, pixel, i) == Intersection(TileSpan(i, pixel), ClippedTo(s, length, pixel))

\* The tiles that are needed, from the first to before the last.
FirstTile(s, pixel) == Largest(0, Truncated(Truncated(s.start, pixel), TileSize))
EndTile(s, pixel)   == Truncated(Truncated(End(s), pixel) + TileSize - 1, TileSize)

\* Division keeps the order, from whichever side of 0.
LEMMA TruncatedOrder ==
    ASSUME NEW v \in Int, NEW x \in Nat, NEW f \in Nat \ {0}, v <= x
    PROVE  Truncated(v, f) \in Int /\ Truncated(v, f) <= x \div f /\ x \div f \in Nat
<1>1. x \div f \in Nat  OBVIOUS
<1>2. CASE v < 0
  <2>1. (-v) \div f \in Nat  BY <1>2
  <2>. QED  BY <1>1, <1>2, <2>1 DEF Truncated
<1>3. CASE v >= 0
  <2>. DEFINE a == v \div f
              b == x \div f
  <2>1. a \in Nat /\ f * a <= v  BY <1>3
  <2>2. b \in Nat /\ x < f * b + f  OBVIOUS
  <2>3. Truncated(v, f) = a  BY <1>3 DEF Truncated
  <2>. HIDE DEF a, b
  <2>4. a * f < (b + 1) * f
    <3>1. f * a = a * f /\ f * b + f = (b + 1) * f /\ a * f \in Int /\ (b + 1) * f \in Int  BY <2>1, <2>2
    <3>. QED  BY <2>1, <2>2, <3>1
  <2>5. a < b + 1  BY <2>1, <2>2, <2>4, ProductsLess
  <2>. QED  BY <2>1, <2>2, <2>3, <2>5 DEF b
<1>. QED  BY <1>2, <1>3

\* A tile is as many units long as its pixels, and begins where the last one ends.
LEMMA SpanIs ==
    ASSUME NEW i \in Int, NEW p \in Nat \ {0}
    PROVE  /\ TileSpan(i, p) \in Segments
           /\ TileSpan(i, p).start = i * TileSize * p
           /\ End(TileSpan(i, p)) = (i + 1) * TileSize * p
           /\ i * TileSize * p \in Int /\ (i + 1) * TileSize * p \in Int
           /\ i * TileSize * p < (i + 1) * TileSize * p
<1>0. TileSize \in Nat \ {0}  BY TileSizeAssumption
<1>1. Segment(0, 1) = [start |-> 0, size |-> 1]  BY DEF Segment
<1>2. TileSpan(i, p) = [start |-> i * TileSize * p, size |-> 1 * TileSize * p]
  BY <1>0, <1>1 DEF TileSpan, Moved, Scaled
<1>3. 1 * TileSize * p \in Nat \ {0} /\ i * TileSize * p \in Int  BY <1>0
<1>4. (i + 1) * TileSize * p = i * TileSize * p + 1 * TileSize * p  BY <1>0
<1>. QED  BY <1>2, <1>3, <1>4 DEF Segments, End

\* So its points are between the two.
LEMMA PointOfSpan ==
    ASSUME NEW i \in Nat, NEW p \in Nat \ {0}, NEW x, x \in Points(TileSpan(i, p))
    PROVE  x \in Int /\ i * TileSize * p <= x /\ x < (i + 1) * TileSize * p
<1>1. /\ TileSpan(i, p) \in Segments /\ TileSpan(i, p).start = i * TileSize * p
      /\ End(TileSpan(i, p)) = (i + 1) * TileSize * p
  BY SpanIs
<1>. HIDE DEF TileSpan
<1>. QED  BY <1>1, PointOf

\* What exists of a request are its points that are in the layer.
LEMMA ValidIs ==
    ASSUME NEW s \in Segments, NEW length \in Nat, NEW p \in Nat \ {0}
    PROVE  /\ length * p \in Nat
           /\ Scaled(Segment(0, length), p) \in Segments
           /\ ValidPart(s, length, p) \in Segments
           /\ \A x : x \in Points(ValidPart(s, length, p)) <=> x \in Points(s) /\ 0 <= x /\ x < length * p
<1>1. Segment(0, length) = [start |-> 0, size |-> length]  BY DEF Segment
<1>2. length * p \in Nat  OBVIOUS
<1>. DEFINE all == Scaled(Segment(0, length), p)
<1>3. all = [start |-> 0, size |-> length * p]  BY <1>1 DEF Scaled
<1>4. all \in Segments /\ all.start = 0 /\ End(all) = length * p  BY <1>2, <1>3 DEF Segments, End
<1>5. ValidPart(s, length, p) = Intersection(s, all)  BY DEF ValidPart
<1>. HIDE DEF all
<1>6. /\ ValidPart(s, length, p) \in Segments
      /\ \A x : x \in Points(ValidPart(s, length, p)) <=> x \in Points(s) /\ x \in Points(all)
  BY <1>4, <1>5, IntersectionPoints
<1>7. \A x : x \in Points(s) => x \in Int  BY PointOf
<1>8. \A x : x \in Points(all) <=> x \in Int /\ 0 <= x /\ x < length * p  BY <1>4, PointOf
<1>. QED  BY <1>2, <1>4, <1>6, <1>7, <1>8 DEF all

\* Clipping leaves what exists, and what was asked for before the layer begins.
LEMMA ClippedIs ==
    ASSUME NEW s \in Segments, NEW length \in Nat, NEW p \in Nat \ {0}
    PROVE  /\ ClippedTo(s, length, p) \in Segments
           /\ \A x \in Nat : x \in Points(ClippedTo(s, length, p)) <=> x \in Points(ValidPart(s, length, p))
           /\ ~IsEmpty(ClippedTo(s, length, p)) => ClippedTo(s, length, p).start = s.start
<1>. DEFINE v == ValidPart(s, length, p)
            all == Scaled(Segment(0, length), p)
<1>1. /\ v \in Segments /\ length * p \in Nat
      /\ \A x : x \in Points(v) <=> x \in Points(s) /\ 0 <= x /\ x < length * p
  BY ValidIs
<1>2. End(v) <= length * p
  <2>1. all \in Segments /\ End(all) = length * p
    <3>1. Segment(0, length) = [start |-> 0, size |-> length]  BY DEF Segment
    <3>2. all = [start |-> 0, size |-> length * p]  BY <3>1 DEF Scaled
    <3>. QED  BY <1>1, <3>2 DEF Segments, End
  <2>2. v = Intersection(s, all)  BY DEF ValidPart
  <2>. HIDE DEF v, all
  <2>. DEFINE a == Largest(s.start, all.start)
              b == Smallest(End(s), End(all))
  <2>3. a \in Int /\ b \in Int /\ b <= length * p  BY <1>1, <2>1, Fields DEF Largest, Smallest
  <2>4. v = IF b - a >= 0 THEN Segment(a, b - a) ELSE NoSegment  BY <2>2 DEF Intersection
  <2>. HIDE DEF a, b
  <2>5. CASE b - a >= 0
    <3>1. v = [start |-> a, size |-> b - a]  BY <2>3, <2>4, <2>5, SegmentType
    <3>. QED  BY <2>3, <3>1 DEF End
  <2>6. CASE ~(b - a >= 0)
    <3>1. v = [start |-> 0, size |-> 0]  BY <2>3, <2>4, <2>6, SegmentType DEF NoSegment
    <3>. QED  BY <1>1, <3>1 DEF End
  <2>. QED  BY <2>5, <2>6
<1>3. ClippedTo(s, length, p) = Before(s, End(v))  BY DEF ClippedTo
<1>. HIDE DEF v
<1>4. End(v) \in Int  BY <1>1, Fields
<1>5. /\ ClippedTo(s, length, p) \in Segments
      /\ \A x : x \in Points(ClippedTo(s, length, p)) <=> x \in Points(s) /\ x < End(v)
  BY <1>3, <1>4, BeforePoints
<1>6. ASSUME NEW x \in Nat PROVE x \in Points(ClippedTo(s, length, p)) <=> x \in Points(v)
  <2>1. x \in Points(v) => x < End(v)  BY <1>1, PointOf
  <2>. QED  BY <1>1, <1>2, <1>4, <1>5, <2>1
<1>7. ASSUME ~IsEmpty(ClippedTo(s, length, p)) PROVE ClippedTo(s, length, p).start = s.start
  <2>1. IsEmpty(NoSegment)  BY SegmentType DEF NoSegment, IsEmpty
  <2>2. s.start \in Int /\ End(s) \in Int  BY Fields
  <2>3. ~(End(v) < s.start)  BY <1>3, <1>7, <2>1 DEF Before
  <2>4. CASE End(v) < End(s)
    <3>1. Before(s, End(v)) = Segment(s.start, End(v) - s.start)  BY <2>3, <2>4 DEF Before
    <3>. QED  BY <1>3, <1>4, <2>2, <2>3, <3>1, SegmentType
  <2>5. CASE ~(End(v) < End(s))
    BY <1>3, <2>3, <2>5 DEF Before
  <2>. QED  BY <2>4, <2>5
<1>. QED  BY <1>5, <1>6, <1>7 DEF v

\* The visible part of a tile is what is requested, exists, and is of the tile; and
\* there is such a tile in the layer.
LEMMA VisibleIs ==
    ASSUME NEW s \in Segments, NEW length \in Nat, NEW p \in Nat \ {0}, NEW i \in Nat
    PROVE  /\ VisiblePart(s, length, p, i) \in Segments
           /\ \A x : x \in Points(VisiblePart(s, length, p, i))
                        <=> x \in Points(ValidPart(s, length, p)) /\ x \in Points(TileSpan(i, p))
           /\ ~IsEmpty(VisiblePart(s, length, p, i)) =>
                 /\ i \in 0..TileCount(length) - 1
                 /\ Intersection(VisiblePart(s, length, p, i), ValidPart(s, length, p)) = VisiblePart(s, length, p, i)
                 /\ ClippedTo(s, length, p).start = s.start
<1>. DEFINE v == VisiblePart(s, length, p, i)
            w == ValidPart(s, length, p)
            t == TileSpan(i, p)
            c == ClippedTo(s, length, p)
<1>0. TileSize \in Nat \ {0}  BY TileSizeAssumption
<1>1. /\ t \in Segments /\ t.start = i * TileSize * p /\ i * TileSize * p \in Nat
      /\ End(t) = (i + 1) * TileSize * p
  BY <1>0, SpanIs
<1>2. c \in Segments /\ \A x \in Nat : x \in Points(c) <=> x \in Points(w)  BY ClippedIs
<1>3. /\ w \in Segments /\ length * p \in Nat
      /\ \A x : x \in Points(w) <=> x \in Points(s) /\ 0 <= x /\ x < length * p
  BY ValidIs
<1>4. v = Intersection(t, c)  BY DEF VisiblePart
<1>4a. ~IsEmpty(c) => c.start = s.start  BY ClippedIs
<1>. HIDE DEF v, w, t, c
<1>5. v \in Segments /\ \A x : x \in Points(v) <=> x \in Points(t) /\ x \in Points(c)
  BY <1>1, <1>2, <1>4, IntersectionPoints
<1>6. \A x : x \in Points(t) => x \in Nat /\ t.start <= x  BY <1>1, PointOf
<1>7. \A x : x \in Points(v) <=> x \in Points(w) /\ x \in Points(t)  BY <1>2, <1>5, <1>6
<1>8. ASSUME ~IsEmpty(v)
      PROVE  i \in 0..TileCount(length) - 1 /\ Intersection(v, w) = v /\ c.start = s.start
  <2>1. v.start \in Points(v) /\ v.start \in Int  BY <1>5, <1>8, Fields, PointOf
  <2>2. i * TileSize * p <= v.start /\ v.start < length * p  BY <1>1, <1>3, <1>6, <1>7, <2>1
  <2>3. (i * TileSize) * p < length * p  BY <1>1, <1>3, <2>1, <2>2
  <2>4. i * TileSize < length  BY <1>0, <2>3, ProductsLess
  <2>5. i \in 0..TileCount(length) - 1
    <3>. DEFINE n == length + TileSize - 1
                q == n \div TileSize
    <3>1. n \in Nat /\ n < TileSize * q + TileSize /\ q \in Nat  BY <1>0
    <3>2. TileCount(length) = q  BY DEF TileCount
    <3>. HIDE DEF q
    <3>3. TileSize * q = q * TileSize /\ q * TileSize \in Nat /\ i * TileSize \in Nat  BY <1>0, <3>1
    <3>4. i * TileSize < q * TileSize  BY <1>0, <2>4, <3>1, <3>3
    <3>5. i < q  BY <1>0, <3>1, <3>4, ProductsLess
    <3>. QED  BY <3>1, <3>2, <3>5
  <2>6. Points(v) \subseteq Points(w)  BY <1>7
  <2>7. ContainsSegment(w, v)  BY <1>3, <1>5, <1>8, <2>6, ContainsRight
  <2>8. Intersection(v, w) = v
    <3>1. /\ v.start \in Int /\ End(v) \in Int /\ v.start <= End(v)
          /\ v = [start |-> v.start, size |-> End(v) - v.start]
          /\ w.start \in Int /\ End(w) \in Int
      BY <1>3, <1>5, Fields
    <3>2. Largest(v.start, w.start) = v.start /\ Smallest(End(v), End(w)) = End(v)
      BY <2>7, <3>1 DEF ContainsSegment, Largest, Smallest
    <3>3. Intersection(v, w) = Segment(v.start, End(v) - v.start)  BY <3>1, <3>2 DEF Intersection
    <3>. QED  BY <3>1, <3>3, SegmentType
  <2>9. v.start \in Points(c)  BY <1>5, <2>1
  <2>10. ~IsEmpty(c)  BY <1>2, <2>9, PointOf, Fields
  <2>. QED  BY <1>4a, <2>5, <2>8, <2>10
<1>. QED  BY <1>5, <1>7, <1>8 DEF v, w, t, c

\* Tiles are apart.
LEMMA SpansApart ==
    ASSUME NEW p \in Nat \ {0}, NEW i \in Nat, NEW k \in Nat, NEW x,
           x \in Points(TileSpan(i, p)), x \in Points(TileSpan(k, p))
    PROVE  i = k
<1>0. TileSize \in Nat \ {0}  BY TileSizeAssumption
<1>. DEFINE m == TileSize * p
<1>1. m \in Nat \ {0}  BY <1>0
<1>2. \A n \in Int : n * TileSize * p = n * m  BY <1>0
<1>3. /\ x \in Int /\ i * m <= x /\ x < (i + 1) * m
      /\ k * m <= x /\ x < (k + 1) * m
  BY <1>2, PointOfSpan
<1>. HIDE DEF m
<1>4. /\ i * m \in Int /\ k * m \in Int /\ (i + 1) * m \in Int /\ (k + 1) * m \in Int  BY <1>1
<1>5. i * m < (k + 1) * m /\ k * m < (i + 1) * m  BY <1>3, <1>4
<1>6. i < k + 1 /\ k < i + 1  BY <1>1, <1>4, <1>5, ProductsLess
<1>. QED  BY <1>6

\* Each whole pixel that is requested and exists is in a tile that is needed.
LEMMA TileIsNeeded ==
    ASSUME NEW s \in Segments, NEW length \in Nat, NEW p \in Nat \ {0},
           NEW x, x \in Points(ValidPart(s, length, p)), x < p * Truncated(End(s), p)
    PROVE  \E i \in Nat : /\ i \in FirstTile(s, p)..EndTile(s, p) - 1
                          /\ x \in Points(VisiblePart(s, length, p, i))
<1>0. TileSize \in Nat \ {0}  BY TileSizeAssumption
<1>1. x \in Nat /\ x \in Points(s)  BY ValidIs, PointOf
<1>2. s.start \in Int /\ End(s) \in Int /\ s.start <= x /\ x < End(s)  BY <1>1, Fields, PointOf
<1>. DEFINE k == x \div p
            i == k \div TileSize
            e == Truncated(End(s), p)
<1>3. k \in Nat /\ p * k <= x /\ x < p * k + p  BY <1>1
<1>. HIDE DEF k
<1>4. i \in Nat /\ TileSize * i <= k /\ k < TileSize * i + TileSize  BY <1>0, <1>3
<1>5. e \in Nat /\ x < p * e
  <2>1. End(s) > 0  BY <1>1, <1>2
  <2>. QED  BY <1>2, <2>1 DEF Truncated
<1>6. FirstTile(s, p) <= i /\ FirstTile(s, p) \in Int
  <2>1. Truncated(s.start, p) \in Int /\ Truncated(s.start, p) <= k  BY <1>1, <1>2, TruncatedOrder DEF k
  <2>2. /\ Truncated(Truncated(s.start, p), TileSize) \in Int
        /\ Truncated(Truncated(s.start, p), TileSize) <= i
    BY <1>0, <1>3, <2>1, TruncatedOrder
  <2>. HIDE DEF i
  <2>. QED  BY <1>4, <2>2 DEF FirstTile, Largest
<1>. HIDE DEF i, e
<1>7. k < e
  <2>1. p * k = k * p /\ p * e = e * p /\ k * p \in Int /\ e * p \in Int  BY <1>3, <1>5
  <2>2. k * p < e * p  BY <1>1, <1>3, <1>5, <2>1
  <2>. QED  BY <1>3, <1>5, <2>2, ProductsLess
<1>8. i < EndTile(s, p) /\ EndTile(s, p) \in Int
  <2>. DEFINE n == e + TileSize - 1
              q == n \div TileSize
  <2>1. n \in Nat /\ n < TileSize * q + TileSize /\ q \in Nat  BY <1>0, <1>5
  <2>2. EndTile(s, p) = q  BY <2>1 DEF EndTile, Truncated, e
  <2>. HIDE DEF q
  <2>3. /\ TileSize * q = q * TileSize /\ TileSize * i = i * TileSize
        /\ q * TileSize \in Nat /\ i * TileSize \in Nat
    BY <1>0, <1>4, <2>1
  <2>4. i * TileSize < q * TileSize  BY <1>0, <1>3, <1>4, <1>5, <1>7, <2>1, <2>3
  <2>5. i < q  BY <1>0, <1>4, <2>1, <2>4, ProductsLess
  <2>. QED  BY <2>1, <2>2, <2>5
<1>9. x \in Points(TileSpan(i, p))
  <2>1. /\ TileSpan(i, p) \in Segments /\ TileSpan(i, p).start = i * TileSize * p
        /\ End(TileSpan(i, p)) = (i + 1) * TileSize * p
        /\ i * TileSize * p \in Int /\ (i + 1) * TileSize * p \in Int
    BY <1>4, SpanIs
  <2>2. i * TileSize * p <= x
    <3>1. (i * TileSize) * p <= k * p  BY <1>0, <1>3, <1>4, Products
    <3>2. k * p = p * k /\ k * p \in Int  BY <1>3
    <3>. QED  BY <1>1, <1>3, <2>1, <3>1, <3>2
  <2>3. x < (i + 1) * TileSize * p
    <3>1. k + 1 <= (i + 1) * TileSize /\ k + 1 \in Int /\ (i + 1) * TileSize \in Int  BY <1>0, <1>3, <1>4
    <3>2. (k + 1) * p <= ((i + 1) * TileSize) * p  BY <3>1, Products
    <3>3. (k + 1) * p = p * k + p /\ (k + 1) * p \in Int  BY <1>3
    <3>. QED  BY <1>1, <1>3, <2>1, <3>2, <3>3
  <2>. QED  BY <1>1, <2>1, <2>2, <2>3, PointOf
<1>10. x \in Points(VisiblePart(s, length, p, i))  BY <1>4, <1>9, VisibleIs
<1>. QED  BY <1>4, <1>6, <1>8, <1>10

\* What redraw() draws of one tile.
PartOf(layer, pixel, requested, i, j) ==
    LET h == VisiblePart(requested.h, layer.width, pixel, i)
        v == VisiblePart(requested.v, layer.height, pixel, j)
    IN  [tile |-> GetTile(layer, i, j),
         part |-> Rectangle(Moved(h, 0 - TileSpan(i, pixel).start), Moved(v, 0 - TileSpan(j, pixel).start)),
         view |-> Rectangle(Moved(h, 0 - ClippedTo(requested.h, layer.width, pixel).start),
                            Moved(v, 0 - ClippedTo(requested.v, layer.height, pixel).start))]

\* redraw() draws that, for each pair of tiles that is needed on the two axes.
LEMMA RedrawIs ==
    ASSUME NEW w, NEW h, NEW requested, NEW zoom,
           NEW layerNr, layerNr = LayerFor(zoom, LayerCount(w, h)),
           NEW layer, layer = Layer(w, h, layerNr), NEW pixel, pixel = PixelOf(layerNr)
    PROVE  /\ Redraw(w, h, requested, zoom) =
                 {PartOf(layer, pixel, requested, i, j) :
                     i \in FirstTile(requested.h, pixel)..EndTile(requested.h, pixel) - 1,
                     j \in FirstTile(requested.v, pixel)..EndTile(requested.v, pixel) - 1}
           /\ Overlap(requested, RectScaled(LayerRect(layer), pixel)) =
                 Rectangle(ValidPart(requested.h, layer.width, pixel), ValidPart(requested.v, layer.height, pixel))
<1>. DEFINE valid   == Overlap(requested, RectScaled(LayerRect(layer), pixel))
            clipped == LeftOf(Above(requested, End(valid.v)), End(valid.h))
            needed  == NeededTiles(requested, pixel)
            area(i, j) == RectScaled(TileArea(i, j), pixel)
            visible(i, j) == Overlap(area(i, j), clipped)
            Part(i, j) ==
                [tile |-> GetTile(layer, i, j),
                 part |-> RectMoved(visible(i, j), Minus(Point(0, 0), TopLeft(area(i, j)))),
                 view |-> RectMoved(visible(i, j), Minus(Point(0, 0), TopLeft(clipped)))]
<1>1. ASSUME NEW a, NEW b PROVE Rectangle(a, b).h = a /\ Rectangle(a, b).v = b  BY DEF Rectangle
<1>2. ASSUME NEW a, NEW b PROVE Point(a, b).x = a /\ Point(a, b).y = b  BY DEF Point
<1>3. valid = Rectangle(ValidPart(requested.h, layer.width, pixel), ValidPart(requested.v, layer.height, pixel))
  BY <1>1 DEF Overlap, RectScaled, LayerRect, ValidPart
<1>4. clipped = Rectangle(ClippedTo(requested.h, layer.width, pixel), ClippedTo(requested.v, layer.height, pixel))
  <2>. HIDE DEF valid
  <2>. QED  BY <1>1, <1>3 DEF LeftOf, Above, ClippedTo
<1>. HIDE DEF clipped
<1>5. ASSUME NEW i, NEW j PROVE area(i, j) = Rectangle(TileSpan(i, pixel), TileSpan(j, pixel))
  BY <1>1, <1>2 DEF RectScaled, TileArea, RectMoved, TileSpan
<1>. HIDE DEF area
<1>6. ASSUME NEW i, NEW j
      PROVE  visible(i, j) = Rectangle(VisiblePart(requested.h, layer.width, pixel, i),
                                       VisiblePart(requested.v, layer.height, pixel, j))
  BY <1>1, <1>4, <1>5 DEF Overlap, VisiblePart
<1>. HIDE DEF visible
<1>7. ASSUME NEW i, NEW j PROVE Part(i, j) = PartOf(layer, pixel, requested, i, j)
  <2>1. /\ Minus(Point(0, 0), TopLeft(area(i, j))).x = 0 - TileSpan(i, pixel).start
        /\ Minus(Point(0, 0), TopLeft(area(i, j))).y = 0 - TileSpan(j, pixel).start
    BY <1>1, <1>2, <1>5 DEF Minus, TopLeft
  <2>2. /\ Minus(Point(0, 0), TopLeft(clipped)).x = 0 - ClippedTo(requested.h, layer.width, pixel).start
        /\ Minus(Point(0, 0), TopLeft(clipped)).y = 0 - ClippedTo(requested.v, layer.height, pixel).start
    BY <1>1, <1>2, <1>4 DEF Minus, TopLeft
  <2>. QED  BY <1>1, <1>6, <2>1, <2>2 DEF RectMoved, PartOf
<1>8. /\ needed.imin = FirstTile(requested.h, pixel) /\ needed.imax = EndTile(requested.h, pixel)
      /\ needed.jmin = FirstTile(requested.v, pixel) /\ needed.jmax = EndTile(requested.v, pixel)
  BY DEF NeededTiles, FirstTile, EndTile
<1>9. Redraw(w, h, requested, zoom) =
          {Part(i, j) : i \in needed.imin..needed.imax - 1, j \in needed.jmin..needed.jmax - 1}
  BY DEF Redraw, visible, area, clipped
<1>. HIDE DEF Part, needed
<1>. QED  BY <1>3, <1>7, <1>8, <1>9

\* What moves there and back again stays the same.
LEMMA MovedBack ==
    ASSUME NEW s \in Segments, NEW a \in Int
    PROVE  /\ Moved(Moved(s, 0 - a), a) = s
           /\ IsEmpty(Moved(s, 0 - a)) <=> IsEmpty(s)
<1>0. ASSUME NEW b, NEW n, NEW m PROVE Moved([start |-> b, size |-> n], m) = [start |-> b + m, size |-> n]
  BY DEF Moved
<1>1. s.start \in Int /\ s = [start |-> s.start, size |-> s.size]  BY DEF Segments
<1>2. Moved(s, 0 - a) = [start |-> s.start + (0 - a), size |-> s.size]  BY <1>0, <1>1
<1>3. Moved(Moved(s, 0 - a), a) = [start |-> (s.start + (0 - a)) + a, size |-> s.size]  BY <1>0, <1>2
<1>4. (s.start + (0 - a)) + a = s.start  BY <1>1
<1>. QED  BY <1>1, <1>2, <1>3, <1>4 DEF IsEmpty

\* What is drawn of a tile is drawn at its place.
LEMMA PartIs ==
    ASSUME NEW layer, layer.width \in Nat, layer.height \in Nat, NEW pixel \in Nat \ {0},
           NEW requested \in Rectangles, NEW i \in Nat, NEW j \in Nat,
           NEW d, d = PartOf(layer, pixel, requested, i, j),
           NEW h, h = VisiblePart(requested.h, layer.width, pixel, i),
           NEW v, v = VisiblePart(requested.v, layer.height, pixel, j)
    PROVE  /\ RectEmpty(d.part) <=> IsEmpty(h) \/ IsEmpty(v)
           /\ ~RectEmpty(d.part) =>
                 /\ d.tile = <<i, j>>
                 /\ RectMoved(d.part, Point(d.tile[1] * TileSize * pixel, d.tile[2] * TileSize * pixel)) = Rectangle(h, v)
                 /\ RectMoved(d.view, TopLeft(requested)) = Rectangle(h, v)
                 /\ Overlap(Rectangle(h, v), Rectangle(ValidPart(requested.h, layer.width, pixel),
                                                       ValidPart(requested.v, layer.height, pixel))) = Rectangle(h, v)
<1>. DEFINE a  == TileSpan(i, pixel).start
            b  == TileSpan(j, pixel).start
            c1 == ClippedTo(requested.h, layer.width, pixel)
            c2 == ClippedTo(requested.v, layer.height, pixel)
            w1 == ValidPart(requested.h, layer.width, pixel)
            w2 == ValidPart(requested.v, layer.height, pixel)
<1>1. ASSUME NEW x, NEW y PROVE Rectangle(x, y).h = x /\ Rectangle(x, y).v = y  BY DEF Rectangle
<1>2. ASSUME NEW x, NEW y PROVE Point(x, y).x = x /\ Point(x, y).y = y  BY DEF Point
<1>3. d = [tile |-> GetTile(layer, i, j), part |-> Rectangle(Moved(h, 0 - a), Moved(v, 0 - b)),
           view |-> Rectangle(Moved(h, 0 - c1.start), Moved(v, 0 - c2.start))]
  BY DEF PartOf
<1>4. /\ requested.h \in Segments /\ requested.v \in Segments
      /\ requested.h.start \in Int /\ requested.v.start \in Int
  BY Sides, Fields
<1>5. /\ h \in Segments /\ v \in Segments
      /\ ~IsEmpty(h) => i \in 0..TileCount(layer.width) - 1 /\ Intersection(h, w1) = h /\ c1.start = requested.h.start
      /\ ~IsEmpty(v) => j \in 0..TileCount(layer.height) - 1 /\ Intersection(v, w2) = v /\ c2.start = requested.v.start
  <2>1. h \in Segments /\ v \in Segments  BY <1>4, VisibleIs
  <2>4. ASSUME NEW s \in Segments, NEW n \in Nat, NEW k \in Nat, ~IsEmpty(VisiblePart(s, n, pixel, k))
        PROVE  /\ k \in 0..TileCount(n) - 1
               /\ Intersection(VisiblePart(s, n, pixel, k), ValidPart(s, n, pixel)) = VisiblePart(s, n, pixel, k)
               /\ ClippedTo(s, n, pixel).start = s.start
    BY <2>4, VisibleIs
  <2>2. ~IsEmpty(h) => i \in 0..TileCount(layer.width) - 1 /\ Intersection(h, w1) = h /\ c1.start = requested.h.start
    BY <1>4, <2>4
  <2>3. ~IsEmpty(v) => j \in 0..TileCount(layer.height) - 1 /\ Intersection(v, w2) = v /\ c2.start = requested.v.start
    BY <1>4, <2>4
  <2>. QED  BY <2>1, <2>2, <2>3
<1>6. a = i * TileSize * pixel /\ a \in Int /\ b = j * TileSize * pixel /\ b \in Int
  BY SpanIs
<1>. HIDE DEF a, b, c1, c2, w1, w2
<1>7. RectEmpty(d.part) <=> IsEmpty(h) \/ IsEmpty(v)
  <2>1. IsEmpty(Moved(h, 0 - a)) <=> IsEmpty(h)  BY <1>5, <1>6, MovedBack
  <2>2. IsEmpty(Moved(v, 0 - b)) <=> IsEmpty(v)  BY <1>5, <1>6, MovedBack
  <2>. QED  BY <1>1, <1>3, <2>1, <2>2 DEF RectEmpty
<1>8. ASSUME ~RectEmpty(d.part)
      PROVE  /\ d.tile = <<i, j>>
             /\ RectMoved(d.part, Point(d.tile[1] * TileSize * pixel, d.tile[2] * TileSize * pixel)) = Rectangle(h, v)
             /\ RectMoved(d.view, TopLeft(requested)) = Rectangle(h, v)
             /\ Overlap(Rectangle(h, v), Rectangle(w1, w2)) = Rectangle(h, v)
  <2>1. ~IsEmpty(h) /\ ~IsEmpty(v)  BY <1>7, <1>8
  <2>2. d.tile = <<i, j>>  BY <1>3, <1>5, <2>1 DEF GetTile
  <2>3. d.tile[1] = i /\ d.tile[2] = j  BY <2>2
  <2>4. Moved(Moved(h, 0 - a), a) = h /\ Moved(Moved(v, 0 - b), b) = v  BY <1>5, <1>6, MovedBack
  <2>5. c1.start = requested.h.start /\ c2.start = requested.v.start  BY <1>5, <2>1
  <2>6. /\ Moved(Moved(h, 0 - c1.start), requested.h.start) = h
        /\ Moved(Moved(v, 0 - c2.start), requested.v.start) = v
    BY <1>4, <1>5, <2>5, MovedBack
  <2>7. RectMoved(d.part, Point(a, b)) = Rectangle(h, v)  BY <1>1, <1>2, <1>3, <2>4 DEF RectMoved
  <2>8. RectMoved(d.view, TopLeft(requested)) = Rectangle(h, v)  BY <1>1, <1>2, <1>3, <2>6 DEF RectMoved, TopLeft
  <2>9. Overlap(Rectangle(h, v), Rectangle(w1, w2)) = Rectangle(h, v)  BY <1>1, <1>5, <2>1 DEF Overlap
  <2>. QED  BY <1>6, <2>2, <2>3, <2>7, <2>8, <2>9
<1>. QED  BY <1>7, <1>8 DEF w1, w2

\* Whatever part of a bitmap of any size is requested at whatever zoom level, redraw()
\* draws each whole pixel of it once, at its place, and nothing else.
THEOREM RedrawIsComplete ==
    \A w, h \in Lengths, requested \in Rectangles, zoom \in Int : RedrawsEverything(w, h, requested, zoom)
<1>. SUFFICES ASSUME NEW w \in Lengths, NEW h \in Lengths, NEW requested \in Rectangles, NEW zoom \in Int
              PROVE  RedrawsEverything(w, h, requested, zoom)
  OBVIOUS
<1>. DEFINE layerNr == LayerFor(zoom, LayerCount(w, h))
            layer   == Layer(w, h, layerNr)
            pixel   == PixelOf(layerNr)
            wanted  == Overlap(requested, RectScaled(LayerRect(layer), pixel))
            whole   == LeftOf(Above(wanted, pixel * Truncated(End(requested.v), pixel)),
                              pixel * Truncated(End(requested.h), pixel))
            drawn   == {d \in Redraw(w, h, requested, zoom) : ~RectEmpty(d.part)}
            Source(d) == RectMoved(d.part, Point(d.tile[1] * TileSize * pixel, d.tile[2] * TileSize * pixel))
            H(i) == VisiblePart(requested.h, layer.width, pixel, i)
            V(j) == VisiblePart(requested.v, layer.height, pixel, j)
            w1 == ValidPart(requested.h, layer.width, pixel)
            w2 == ValidPart(requested.v, layer.height, pixel)
            P(i, j) == PartOf(layer, pixel, requested, i, j)
            imin == FirstTile(requested.h, pixel)
            imax == EndTile(requested.h, pixel)
            jmin == FirstTile(requested.v, pixel)
            jmax == EndTile(requested.v, pixel)
<1>1. layerNr \in 0..9 /\ pixel \in Nat \ {0}  BY LayerForIs, PixelIs
<1>2. layer.width \in Nat /\ layer.height \in Nat
  <2>1. w \in Nat /\ h \in Nat  BY DEF Lengths
  <2>. HIDE DEF layerNr
  <2>3. layerNr \in Nat  BY <1>1
  <2>4. \A length, n \in Nat : Length(length, n) \in Nat  BY LengthIs
  <2>2. Length(w, layerNr) \in Nat /\ Length(h, layerNr) \in Nat  BY <2>1, <2>3, <2>4
  <2>. QED  BY <2>2 DEF Layer
<1>3. /\ Redraw(w, h, requested, zoom) = {P(i, j) : i \in imin..imax - 1, j \in jmin..jmax - 1}
      /\ wanted = Rectangle(w1, w2)
  BY RedrawIs
<1>4. requested.h \in Segments /\ requested.v \in Segments  BY Sides
<1>4a. imin \in Nat /\ jmin \in Nat
  <2>1. ASSUME NEW s \in Segments PROVE FirstTile(s, pixel) \in Nat
    <3>1. ASSUME NEW x \in Int, NEW f \in Nat \ {0} PROVE Truncated(x, f) \in Int
      <4>1. CASE x >= 0  BY <4>1 DEF Truncated
      <4>2. CASE x < 0
        <5>1. (-x) \div f \in Nat  BY <4>2
        <5>. QED  BY <4>2, <5>1 DEF Truncated
      <4>. QED  BY <4>1, <4>2
    <3>2. s.start \in Int /\ TileSize \in Nat \ {0}  BY Fields, TileSizeAssumption
    <3>3. Truncated(Truncated(s.start, pixel), TileSize) \in Int  BY <1>1, <3>1, <3>2
    <3>. QED  BY <3>3 DEF FirstTile, Largest
  <2>. QED  BY <1>4, <2>1
<1>. HIDE DEF layerNr, layer, pixel, wanted, imin, imax, jmin, jmax
<1>5. ASSUME NEW i \in Nat, NEW j \in Nat
      PROVE  /\ RectEmpty(P(i, j).part) <=> IsEmpty(H(i)) \/ IsEmpty(V(j))
             /\ ~RectEmpty(P(i, j).part) =>
                    /\ P(i, j).tile = <<i, j>>
                    /\ Source(P(i, j)) = Rectangle(H(i), V(j))
                    /\ RectMoved(P(i, j).view, TopLeft(requested)) = Rectangle(H(i), V(j))
                    /\ Overlap(Rectangle(H(i), V(j)), wanted) = Rectangle(H(i), V(j))
  BY <1>1, <1>2, <1>3, PartIs
<1>6. ASSUME NEW d \in drawn
      PROVE  \E i \in Nat, j \in Nat : d = P(i, j) /\ ~RectEmpty(P(i, j).part)
  <2>1. d \in Redraw(w, h, requested, zoom) /\ ~RectEmpty(d.part)  OBVIOUS
  <2>2. PICK i \in imin..imax - 1, j \in jmin..jmax - 1 : d = P(i, j)  BY <1>3, <2>1
  <2>3. i \in Nat /\ j \in Nat  BY <1>4a, <2>2
  <2>. QED  BY <2>1, <2>2, <2>3
<1>7. ASSUME NEW i \in Nat
      PROVE  /\ H(i) \in Segments /\ V(i) \in Segments
             /\ \A x : x \in Points(H(i)) <=> x \in Points(w1) /\ x \in Points(TileSpan(i, pixel))
             /\ \A x : x \in Points(V(i)) <=> x \in Points(w2) /\ x \in Points(TileSpan(i, pixel))
  BY <1>1, <1>2, <1>4, VisibleIs
<1>8. ASSUME NEW d \in drawn
      PROVE  /\ d.tile # OutOfBounds
             /\ Overlap(Source(d), wanted) = Source(d)
             /\ Source(d) = RectMoved(d.view, TopLeft(requested))
             /\ \A e \in drawn \ {d} : ~RectIntersects(Source(d), Source(e))
  <2>1. PICK i \in Nat, j \in Nat : d = P(i, j) /\ ~RectEmpty(P(i, j).part)  BY <1>6
  <2>2. /\ d.tile = <<i, j>> /\ Source(d) = Rectangle(H(i), V(j))
        /\ RectMoved(d.view, TopLeft(requested)) = Rectangle(H(i), V(j))
        /\ Overlap(Rectangle(H(i), V(j)), wanted) = Rectangle(H(i), V(j))
    BY <1>5, <2>1
  <2>3. d.tile # OutOfBounds
    <3>1. d.tile[1] = i /\ OutOfBounds[1] = -1  BY <2>2 DEF OutOfBounds
    <3>. QED  BY <3>1
  <2>4. ASSUME NEW e \in drawn \ {d} PROVE ~RectIntersects(Source(d), Source(e))
    <3>1. PICK k \in Nat, l \in Nat : e = P(k, l) /\ ~RectEmpty(P(k, l).part)  BY <1>6
    <3>2. Source(e) = Rectangle(H(k), V(l))  BY <1>5, <3>1
    <3>3. i # k \/ j # l  BY <2>1, <2>4, <3>1
    <3>4. i # k => Points(H(i)) \cap Points(H(k)) = {}  BY <1>1, <1>7, SpansApart
    <3>5. j # l => Points(V(j)) \cap Points(V(l)) = {}  BY <1>1, <1>7, SpansApart
    <3>6. /\ H(i) \in Segments /\ H(k) \in Segments /\ V(j) \in Segments /\ V(l) \in Segments  BY <1>7
    <3>. HIDE DEF H, V, P, Source, drawn
    <3>7. ~Intersects(H(i), H(k)) \/ ~Intersects(V(j), V(l))
      BY <3>3, <3>4, <3>5, <3>6, IntersectsRight
    <3>. QED  BY <2>2, <3>2, <3>7 DEF RectIntersects, Rectangle
  <2>. HIDE DEF H, V, P, Source, drawn
  <2>. QED  BY <2>2, <2>3, <2>4
<1>9. ASSUME NEW x \in Points(whole.h), NEW y \in Points(whole.v)
      PROVE  \E d \in drawn : RectContains(Source(d), Point(x, y))
  <2>. DEFINE e1 == pixel * Truncated(End(requested.h), pixel)
              e2 == pixel * Truncated(End(requested.v), pixel)
  <2>1. w1 \in Segments /\ w2 \in Segments  BY <1>1, <1>2, <1>4, ValidIs
  <2>2. whole.h = Before(w1, e1) /\ whole.v = Before(w2, e2)
    BY <1>3 DEF LeftOf, Above, Rectangle
  <2>3. e1 \in Int /\ e2 \in Int
    <3>1. ASSUME NEW n \in Int PROVE Truncated(n, pixel) \in Int
      <4>1. CASE n >= 0  BY <1>1, <4>1 DEF Truncated
      <4>2. CASE n < 0
        <5>1. (-n) \div pixel \in Nat  BY <1>1, <4>2
        <5>. QED  BY <4>2, <5>1 DEF Truncated
      <4>. QED  BY <4>1, <4>2
    <3>2. End(requested.h) \in Int /\ End(requested.v) \in Int  BY <1>4, Fields
    <3>3. Truncated(End(requested.h), pixel) \in Int /\ Truncated(End(requested.v), pixel) \in Int  BY <3>1, <3>2
    <3>. QED  BY <1>1, <3>3
  <2>4. x \in Points(w1) /\ x < e1 /\ y \in Points(w2) /\ y < e2
    <3>1. x \in Points(Before(w1, e1)) /\ y \in Points(Before(w2, e2))  BY <2>2
    <3>. HIDE DEF w1, w2, e1, e2, whole
    <3>. QED  BY <2>1, <2>3, <3>1, BeforePoints
  <2>5. PICK i \in Nat : i \in imin..imax - 1 /\ x \in Points(H(i))
    BY <1>1, <1>2, <1>4, <2>4, TileIsNeeded DEF imin, imax
  <2>6. PICK j \in Nat : j \in jmin..jmax - 1 /\ y \in Points(V(j))
    BY <1>1, <1>2, <1>4, <2>4, TileIsNeeded DEF jmin, jmax
  <2>7. H(i) \in Segments /\ V(j) \in Segments  BY <1>7
  <2>. HIDE DEF H, V
  <2>8. /\ x \in Int /\ H(i).start <= x /\ x < End(H(i)) /\ ~IsEmpty(H(i))
        /\ y \in Int /\ V(j).start <= y /\ y < End(V(j)) /\ ~IsEmpty(V(j))
    BY <2>5, <2>6, <2>7, PointOf, Fields
  <2>9. ~RectEmpty(P(i, j).part)  BY <1>5, <2>8
  <2>10. P(i, j) \in Redraw(w, h, requested, zoom)  BY <1>3, <2>5, <2>6
  <2>11. P(i, j) \in drawn  BY <2>9, <2>10
  <2>12. Source(P(i, j)) = Rectangle(H(i), V(j))  BY <1>5, <2>9
  <2>13. RectContains(Rectangle(H(i), V(j)), Point(x, y))
    BY <2>8 DEF RectContains, Rectangle, ContainsPoint, Point
  <2>. HIDE DEF P, Source, drawn
  <2>. QED  BY <2>11, <2>12, <2>13
<1>. HIDE DEF Source
<1>10. /\ \A d \in drawn :
              /\ d.tile # OutOfBounds
              /\ Overlap(Source(d), wanted) = Source(d)
              /\ Source(d) = RectMoved(d.view, TopLeft(requested))
              /\ \A e \in drawn \ {d} : ~RectIntersects(Source(d), Source(e))
       /\ \A x \in Points(whole.h), y \in Points(whole.v) :
              \E d \in drawn : RectContains(Source(d), Point(x, y))
  <2>. HIDE DEF drawn, whole
  <2>. QED  BY <1>8, <1>9
<1>. QED  BY <1>10 DEF RedrawsEverything, Source, wanted, pixel, layer, layerNr

-----------------------------------------------------------------------------
(* TiledBitmap::initialize() and connect(): the tiles of a layer, and the  *)
(* one in the next layer that each is reduced into.                        *)

\* The tiles of a layer are those that begin in it.
LEMMA TilesOfLayer ==
    ASSUME NEW length \in Nat \ {0}
    PROVE  /\ length \in (TileCount(length) - 1) * TileSize + 1 .. TileCount(length) * TileSize
           /\ \A i \in Nat : i * TileSize < length <=> i \in 0..TileCount(length) - 1
<1>. DEFINE T == TileSize
            n == length + TileSize - 1
            q == n \div TileSize
<1>0. T \in Nat \ {0}  BY TileSizeAssumption
<1>1. n \in Nat /\ q \in Nat /\ T * q <= n /\ n < T * q + T  BY <1>0
<1>2. TileCount(length) = q  BY DEF TileCount
<1>. HIDE DEF q, T
<1>3. T * q = q * T /\ (q - 1) * T = q * T - T /\ q * T \in Nat  BY <1>0, <1>1
<1>4. n = length + T - 1  BY DEF T
<1>. HIDE DEF n
<1>5. (q - 1) * T < length /\ length <= q * T  BY <1>0, <1>1, <1>3, <1>4
<1>6. ASSUME NEW i \in Nat PROVE i * T < length <=> i \in 0..q - 1
  <2>1. i * T \in Nat /\ (q - 1) * T \in Int  BY <1>0, <1>3
  <2>2. ASSUME i * T < length PROVE i < q
    <3>1. i * T < q * T  BY <1>3, <1>5, <2>1, <2>2
    <3>. QED  BY <1>0, <1>1, <3>1, ProductsLess
  <2>3. ASSUME i <= q - 1 PROVE i * T < length
    <3>1. i * T <= (q - 1) * T  BY <1>0, <1>1, <2>3, Products
    <3>. QED  BY <1>5, <2>1, <3>1
  <2>. QED  BY <1>1, <2>2, <2>3
<1>7. length \in (q - 1) * T + 1 .. q * T  BY <1>0, <1>1, <1>3, <1>5
<1>. QED  BY <1>2, <1>6, <1>7 DEF T

\* An eighth of a tile, and its place in the target.
Eighth == TileSize \div 8
BlockStart(i) == (i \div 8) * TileSize + (i % 8) * Eighth

LEMMA BlockIs ==
    ASSUME NEW i \in Nat
    PROVE  /\ Eighth \in Nat \ {0} /\ TileSize = 8 * Eighth
           /\ i \div 8 \in Nat /\ i % 8 \in 0..7
           /\ BlockStart(i) = i * Eighth
           /\ (i \div 8) * TileSize <= BlockStart(i)
           /\ BlockStart(i) + Eighth <= (i \div 8) * TileSize + TileSize
           /\ \A x \in Nat : i * TileSize <= x /\ x < i * TileSize + TileSize =>
                  BlockStart(i) <= x \div 8 /\ x \div 8 < BlockStart(i) + Eighth
<1>. DEFINE e == Eighth
            a == i \div 8
            b == i % 8
<1>1. e \in Nat \ {0} /\ TileSize = 8 * e  BY TileSizeAssumption DEF Eighth
<1>2. a \in Nat /\ b \in 0..7 /\ i = 8 * a + b  OBVIOUS
<1>3. BlockStart(i) = a * TileSize + b * e  BY DEF BlockStart
<1>. HIDE DEF e, a, b
<1>4. a * TileSize = 8 * (a * e) /\ a * e \in Nat /\ b * e \in Nat  BY <1>1, <1>2
<1>5. i * e = 8 * (a * e) + b * e /\ i * e \in Nat  BY <1>1, <1>2
<1>6. BlockStart(i) = i * e  BY <1>3, <1>4, <1>5
<1>7. b * e <= 7 * e
  <2>1. b * e <= 7 * e  BY <1>1, <1>2, Products
  <2>. QED  BY <2>1
<1>8. ASSUME NEW x \in Nat, i * TileSize <= x, x < i * TileSize + TileSize
      PROVE  i * e <= x \div 8 /\ x \div 8 < i * e + e
  <2>1. i * TileSize = 8 * (i * e)  BY <1>1
  <2>. DEFINE m == i * e
  <2>2. m \in Nat /\ 8 * m <= x /\ x < 8 * m + 8 * e  BY <1>1, <1>5, <1>8, <2>1
  <2>. HIDE DEF m
  <2>3. m <= x \div 8 /\ x \div 8 < m + e  BY <1>1, <2>2
  <2>. QED  BY <2>3 DEF m
<1>9. /\ a * TileSize <= BlockStart(i)
      /\ BlockStart(i) + e <= a * TileSize + TileSize
  BY <1>1, <1>3, <1>4, <1>7
<1>. QED  BY <1>1, <1>2, <1>6, <1>8, <1>9 DEF e, a, b

\* The target of a tile is in the next layer.
LEMMA TargetExists ==
    ASSUME NEW length \in Nat \ {0}, NEW i \in 0..TileCount(length) - 1
    PROVE  i \in Nat /\ i \div 8 \in 0..TileCount((length + 7) \div 8) - 1
<1>0. TileSize \in Nat \ {0}  BY TileSizeAssumption
<1>1. i \in Nat /\ i * TileSize < length  BY TilesOfLayer
<1>. DEFINE a == i \div 8
            above == (length + 7) \div 8
<1>2. a \in Nat /\ 8 * a <= i  BY <1>1
<1>3. above \in Nat \ {0} /\ length <= 8 * above  OBVIOUS
<1>. HIDE DEF a, above
<1>4. (8 * a) * TileSize <= i * TileSize  BY <1>0, <1>1, <1>2, Products
<1>5. (8 * a) * TileSize = 8 * (a * TileSize) /\ a * TileSize \in Nat /\ i * TileSize \in Nat  BY <1>0, <1>1, <1>2
<1>6. a * TileSize < above  BY <1>1, <1>3, <1>4, <1>5
<1>7. a \in 0..TileCount(above) - 1  BY <1>2, <1>3, <1>6, TilesOfLayer
<1>. QED  BY <1>1, <1>7 DEF a, above

\* A tile, reduced, is a block in its target.
LEMMA TargetHolds ==
    ASSUME NEW i \in Nat, NEW j \in Nat, NEW layer, layer.width \in Nat, layer.height \in Nat,
           NEW target, target = Target(i, j),
           NEW place, place = RectMoved(TileArea(target[1], target[2]), Point(0, 0)),
           NEW block, block = RectMoved(Rectangle(Segment(0, TileSize \div 8), Segment(0, TileSize \div 8)),
                                        Plus(TopLeft(place), Point(Offset(i, j)[1] * (TileSize \div 8),
                                                                   Offset(i, j)[2] * (TileSize \div 8))))
    PROVE  /\ Overlap(block, place) = block
           /\ \A p \in RectPoints(Overlap(TileArea(i, j), LayerRect(layer))) :
                  RectContains(block, Point(p.x \div 8, p.y \div 8))
<1>. DEFINE e == Eighth
            Stretch(start, size) == [start |-> start, size |-> size]
<1>0. TileSize \in Nat \ {0}  BY TileSizeAssumption
<1>1. ASSUME NEW x, NEW y PROVE Rectangle(x, y).h = x /\ Rectangle(x, y).v = y  BY DEF Rectangle
<1>2. ASSUME NEW x, NEW y PROVE Point(x, y).x = x /\ Point(x, y).y = y  BY DEF Point
<1>3. Segment(0, 1) = Stretch(0, 1) /\ Segment(0, e) = Stretch(0, e) /\ e \in Nat \ {0}
  BY BlockIs DEF Segment
<1>4. ASSUME NEW x, NEW y, NEW n PROVE Moved(Stretch(x, y), n) = Stretch(x + n, y) /\ Scaled(Stretch(x, y), n) = Stretch(x * n, y * n)
  BY DEF Moved, Scaled
<1>5. ASSUME NEW k \in Nat, NEW l \in Nat
      PROVE  TileArea(k, l) = Rectangle(Stretch(k * TileSize, TileSize), Stretch(l * TileSize, TileSize))
  <2>1. (0 + k) * TileSize = k * TileSize /\ (0 + l) * TileSize = l * TileSize /\ 1 * TileSize = TileSize  BY <1>0
  <2>. HIDE DEF Stretch
  <2>2. RectMoved(Rectangle(Segment(0, 1), Segment(0, 1)), Point(k, l)) = Rectangle(Stretch(0 + k, 1), Stretch(0 + l, 1))
    BY <1>1, <1>2, <1>3, <1>4 DEF RectMoved
  <2>3. TileArea(k, l) = Rectangle(Stretch((0 + k) * TileSize, 1 * TileSize), Stretch((0 + l) * TileSize, 1 * TileSize))
    BY <1>1, <1>4, <2>2 DEF TileArea, RectScaled
  <2>. QED  BY <2>1, <2>3
<1>6. /\ i \div 8 \in Nat /\ j \div 8 \in Nat /\ i % 8 \in 0..7 /\ j % 8 \in 0..7
      /\ BlockStart(i) = i * e /\ BlockStart(j) = j * e
      /\ (i \div 8) * TileSize <= BlockStart(i) /\ BlockStart(i) + e <= (i \div 8) * TileSize + TileSize
      /\ (j \div 8) * TileSize <= BlockStart(j) /\ BlockStart(j) + e <= (j \div 8) * TileSize + TileSize
      /\ (i \div 8) * TileSize \in Nat /\ (j \div 8) * TileSize \in Nat
      /\ BlockStart(i) \in Nat /\ BlockStart(j) \in Nat
  <2>1. (i \div 8) * TileSize \in Nat /\ (j \div 8) * TileSize \in Nat /\ i * e \in Nat /\ j * e \in Nat  BY <1>0, <1>3
  <2>. QED  BY <2>1, BlockIs
<1>7. target[1] = i \div 8 /\ target[2] = j \div 8  BY DEF Target
<1>8. place = Rectangle(Stretch((i \div 8) * TileSize, TileSize), Stretch((j \div 8) * TileSize, TileSize))
  <2>1. TileArea(target[1], target[2]) =
            Rectangle(Stretch((i \div 8) * TileSize, TileSize), Stretch((j \div 8) * TileSize, TileSize))
    BY <1>5, <1>6, <1>7
  <2>2. (i \div 8) * TileSize + 0 = (i \div 8) * TileSize /\ (j \div 8) * TileSize + 0 = (j \div 8) * TileSize
    BY <1>6
  <2>. HIDE DEF Stretch
  <2>. QED  BY <1>1, <1>2, <1>4, <2>1, <2>2 DEF RectMoved
<1>9. block = Rectangle(Stretch(BlockStart(i), e), Stretch(BlockStart(j), e))
  <2>1. TopLeft(place).x = (i \div 8) * TileSize /\ TopLeft(place).y = (j \div 8) * TileSize
    BY <1>1, <1>2, <1>8 DEF TopLeft
  <2>2. Offset(i, j)[1] = i % 8 /\ Offset(i, j)[2] = j % 8  BY DEF Offset
  <2>. DEFINE by == Plus(TopLeft(place), Point(Offset(i, j)[1] * e, Offset(i, j)[2] * e))
  <2>3. by.x = BlockStart(i) /\ by.y = BlockStart(j)  BY <1>2, <2>1, <2>2 DEF Plus, BlockStart
  <2>4. block = RectMoved(Rectangle(Stretch(0, e), Stretch(0, e)), by)  BY <1>3 DEF Eighth
  <2>5. 0 + BlockStart(i) = BlockStart(i) /\ 0 + BlockStart(j) = BlockStart(j)  BY <1>6
  <2>. HIDE DEF by, Stretch
  <2>. QED  BY <1>1, <1>4, <2>3, <2>4, <2>5 DEF RectMoved
<1>10. Overlap(block, place) = block
  <2>1. ASSUME NEW a \in Nat, NEW b \in Nat, a <= b, b + e <= a + TileSize
        PROVE  Intersection(Stretch(b, e), Stretch(a, TileSize)) = Stretch(b, e)
    <3>1. Largest(b, a) = b /\ Smallest(b + e, a + TileSize) = b + e  BY <1>0, <1>3, <2>1 DEF Largest, Smallest
    <3>2. (b + e) - b = e /\ e >= 0  BY <1>3
    <3>3. Intersection(Stretch(b, e), Stretch(a, TileSize)) = Segment(b, e)
      BY <3>1, <3>2 DEF Intersection, End
    <3>. QED  BY <1>3, <3>3, SegmentType
  <2>. HIDE DEF Stretch
  <2>2. /\ Intersection(Stretch(BlockStart(i), e), Stretch((i \div 8) * TileSize, TileSize)) = Stretch(BlockStart(i), e)
        /\ Intersection(Stretch(BlockStart(j), e), Stretch((j \div 8) * TileSize, TileSize)) = Stretch(BlockStart(j), e)
    BY <1>6, <2>1
  <2>. QED  BY <1>1, <1>8, <1>9, <2>2 DEF Overlap
<1>11. ASSUME NEW p \in RectPoints(Overlap(TileArea(i, j), LayerRect(layer)))
       PROVE  RectContains(block, Point(p.x \div 8, p.y \div 8))
  <2>1. TileArea(i, j) = Rectangle(Stretch(i * TileSize, TileSize), Stretch(j * TileSize, TileSize))  BY <1>5
  <2>2. i * TileSize \in Nat /\ j * TileSize \in Nat  BY <1>0
  <2>3. /\ TileArea(i, j) \in Rectangles /\ LayerRect(layer) \in Rectangles
    <3>1. Stretch(i * TileSize, TileSize) \in Segments /\ Stretch(j * TileSize, TileSize) \in Segments
      BY <1>0, <2>2 DEF Segments
    <3>2. Segment(0, layer.width) \in Segments /\ Segment(0, layer.height) \in Segments  BY SegmentType
    <3>. QED  BY <2>1, <3>1, <3>2, IsRectangle DEF LayerRect
  <2>4. p \in RectPoints(TileArea(i, j))  BY <2>3, OverlapPoints
  <2>5. p = Point(p.x, p.y)  BY <2>4, PointIn
  <2>6. p.x \in Points(TileArea(i, j).h) /\ p.y \in Points(TileArea(i, j).v)  BY <2>4, <2>5, PointIn
  <2>7. /\ p.x \in Nat /\ i * TileSize <= p.x /\ p.x < i * TileSize + TileSize
        /\ p.y \in Nat /\ j * TileSize <= p.y /\ p.y < j * TileSize + TileSize
    BY <1>0, <1>1, <2>1, <2>2, <2>6 DEF Points, End
  <2>8. /\ BlockStart(i) <= p.x \div 8 /\ p.x \div 8 < BlockStart(i) + e
        /\ BlockStart(j) <= p.y \div 8 /\ p.y \div 8 < BlockStart(j) + e
    BY <2>7, BlockIs
  <2>. HIDE DEF e
  <2>. QED  BY <1>1, <1>2, <1>9, <2>8 DEF RectContains, ContainsPoint, End
<1>. QED  BY <1>10, <1>11

\* The lengths of the layers of a bitmap.
LEMMA LayersAre ==
    ASSUME NEW length \in Lengths
    PROVE  \A n \in Nat : /\ Length(length, n) \in Nat \ {0}
                          /\ Length(length, n + 1) = (Length(length, n) + 7) \div 8
<1>1. length \in Nat \ {0}  BY SMT DEF Lengths
<1>2. /\ Length(length, 0) = length
      /\ \A n \in Nat : Length(length, n) \in Nat /\ Length(length, n + 1) = (Length(length, n) + 7) \div 8
  BY <1>1, LengthIs
<1>. DEFINE N == {n \in Nat : Length(length, n) # 0}
<1>3. 0 \in N  BY <1>1, <1>2
<1>4. ASSUME NEW n \in Nat, n \in N PROVE n + 1 \in N
  <2>1. Length(length, n) \in Nat \ {0} /\ Length(length, n + 1) = (Length(length, n) + 7) \div 8  BY <1>2, <1>4
  <2>2. (Length(length, n) + 7) \div 8 # 0  BY <2>1
  <2>. QED  BY <2>1, <2>2
<1>5. \A n \in Nat : n \in N
  <2>. HIDE DEF N
  <2>. QED  BY <1>3, <1>4, NatSets
<1>. QED  BY <1>2, <1>5

\* The layers of a bitmap of any size are covered by their tiles, each of which has its
\* place in a tile of the next layer, and the last layer is small.
THEOREM LayersAreTiled ==
    \A w, h \in Lengths : LayersFit(w, h)
<1>. SUFFICES ASSUME NEW w \in Lengths, NEW h \in Lengths PROVE LayersFit(w, h)  OBVIOUS
<1>. DEFINE count == LayerCount(w, h)
            Covered(layer) ==
                /\ layer.width \in (TileCount(layer.width) - 1) * TileSize + 1 .. TileCount(layer.width) * TileSize
                /\ layer.height \in (TileCount(layer.height) - 1) * TileSize + 1 .. TileCount(layer.height) * TileSize
            Place2(i, j) == RectMoved(TileArea(Target(i, j)[1], Target(i, j)[2]), Point(0, 0))
            Block(i, j) == RectMoved(Rectangle(Segment(0, TileSize \div 8), Segment(0, TileSize \div 8)),
                                     Plus(TopLeft(Place2(i, j)), Point(Offset(i, j)[1] * (TileSize \div 8),
                                                                      Offset(i, j)[2] * (TileSize \div 8))))
            Connected(layer, above) ==
                \A i \in 0..TileCount(layer.width) - 1, j \in 0..TileCount(layer.height) - 1 :
                    /\ GetTile(above, Target(i, j)[1], Target(i, j)[2]) = Target(i, j)
                    /\ Overlap(Block(i, j), Place2(i, j)) = Block(i, j)
                    /\ \A p \in RectPoints(Overlap(TileArea(i, j), LayerRect(layer))) :
                           RectContains(Block(i, j), Point(p.x \div 8, p.y \div 8))
<1>1. /\ count \in 1..10
      /\ Length(w, count) <= TileSize \div 4 /\ Length(h, count) <= TileSize \div 4
  BY LayerCountIs
<1>2. \A n \in Nat : /\ Length(w, n) \in Nat \ {0} /\ Length(w, n + 1) = (Length(w, n) + 7) \div 8
                     /\ Length(h, n) \in Nat \ {0} /\ Length(h, n + 1) = (Length(h, n) + 7) \div 8
  BY LayersAre
<1>3. \A n \in Nat : Layer(w, h, n).width = Length(w, n) /\ Layer(w, h, n).height = Length(h, n)  BY DEF Layer
<1>. HIDE DEF count
<1>4. ASSUME NEW n \in 0..count - 1 PROVE Covered(Layer(w, h, n))
  <2>1. n \in Nat  BY <1>1
  <2>2. Layer(w, h, n).width \in Nat \ {0} /\ Layer(w, h, n).height \in Nat \ {0}  BY <1>2, <1>3, <2>1
  <2>. QED  BY <2>2, TilesOfLayer
<1>5. ASSUME NEW n \in 0..count - 1 PROVE Connected(Layer(w, h, n), Layer(w, h, n + 1))
  <2>. DEFINE layer == Layer(w, h, n)
              above == Layer(w, h, n + 1)
  <2>1. /\ layer.width \in Nat \ {0} /\ above.width = (layer.width + 7) \div 8
        /\ layer.height \in Nat \ {0} /\ above.height = (layer.height + 7) \div 8
    <3>1. n \in Nat /\ n + 1 \in Nat  BY <1>1
    <3>. QED  BY <1>2, <1>3, <3>1
  <2>. HIDE DEF layer, above
  <2>2. ASSUME NEW i \in 0..TileCount(layer.width) - 1, NEW j \in 0..TileCount(layer.height) - 1
        PROVE  /\ GetTile(above, Target(i, j)[1], Target(i, j)[2]) = Target(i, j)
               /\ Overlap(Block(i, j), Place2(i, j)) = Block(i, j)
               /\ \A p \in RectPoints(Overlap(TileArea(i, j), LayerRect(layer))) :
                      RectContains(Block(i, j), Point(p.x \div 8, p.y \div 8))
    <3>1. i \in Nat /\ i \div 8 \in 0..TileCount(above.width) - 1  BY <2>1, TargetExists
    <3>2. j \in Nat /\ j \div 8 \in 0..TileCount(above.height) - 1  BY <2>1, TargetExists
    <3>3. GetTile(above, Target(i, j)[1], Target(i, j)[2]) = Target(i, j)  BY <3>1, <3>2 DEF GetTile, Target
    <3>4. /\ Overlap(Block(i, j), Place2(i, j)) = Block(i, j)
          /\ \A p \in RectPoints(Overlap(TileArea(i, j), LayerRect(layer))) :
                 RectContains(Block(i, j), Point(p.x \div 8, p.y \div 8))
      BY <2>1, <3>1, <3>2, TargetHolds
    <3>. QED  BY <3>3, <3>4
  <2>. HIDE DEF Block, Place2
  <2>. QED  BY <2>2 DEF layer, above
<1>6. Largest(Layer(w, h, count - 1).width, Layer(w, h, count - 1).height) <= 2 * TileSize
  <2>0. TileSize \in Nat  BY TileSizeAssumption
  <2>1. count - 1 \in Nat /\ (count - 1) + 1 = count  BY <1>1
  <2>2. ASSUME NEW x \in Nat, (x + 7) \div 8 <= TileSize \div 4 PROVE x <= 2 * TileSize
    BY <2>0, <2>2
  <2>3. /\ Length(w, count - 1) \in Nat /\ (Length(w, count - 1) + 7) \div 8 <= TileSize \div 4
        /\ Length(h, count - 1) \in Nat /\ (Length(h, count - 1) + 7) \div 8 <= TileSize \div 4
    BY <1>1, <1>2, <2>1
  <2>4. Length(w, count - 1) <= 2 * TileSize /\ Length(h, count - 1) <= 2 * TileSize  BY <2>2, <2>3
  <2>. QED  BY <1>3, <2>1, <2>4 DEF Largest
<1>. HIDE DEF Covered
<1>7. \A n \in 0..count - 1 : Covered(Layer(w, h, n)) /\ Connected(Layer(w, h, n), Layer(w, h, n + 1))
  <2>. HIDE DEF Connected
  <2>. QED  BY <1>4, <1>5
<1>. QED  BY <1>6, <1>7 DEF LayersFit, Covered, count

-----------------------------------------------------------------------------
(* TiledBitmapPresentation::getPixelAverages(), first along one axis.      *)

\* The pixels along an axis of a bitmap of some length that a segment touches.
PixelsOf(s, length) ==
    LET r == RoundedOut(ValidPart(s, length, Unit), Unit)
    IN  Segment(r.start \div Unit, r.size \div Unit)

\* Where nothing of a segment exists, it ends up between two pixels.
LEMMA NothingIsBetween ==
    ASSUME NEW s \in Segments, ~IsEmpty(s), NEW length \in Nat \ {0}, NEW p \in Nat \ {0},
           IsEmpty(ValidPart(s, length, p))
    PROVE  \E n \in Int : ValidPart(s, length, p).start = n * p
<1>. DEFINE all == Scaled(Segment(0, length), p)
            v == ValidPart(s, length, p)
<1>1. all = [start |-> 0, size |-> length * p]  BY SegmentType DEF Scaled
<1>2. length * p \in Nat  OBVIOUS
<1>3. all.start = 0 /\ End(all) = length * p  BY <1>1, <1>2 DEF End
<1>4. v = Intersection(s, all)  BY DEF ValidPart
<1>. HIDE DEF all
<1>. DEFINE a == Largest(s.start, all.start)
            b == Smallest(End(s), End(all))
<1>5. /\ a \in Int /\ b \in Int /\ (a = 0 \/ a = s.start) /\ (b = length * p \/ b = End(s))
      /\ s.start < End(s)
  BY <1>2, <1>3, Fields DEF Largest, Smallest
<1>6. v = IF b - a >= 0 THEN Segment(a, b - a) ELSE NoSegment  BY <1>4 DEF Intersection
<1>7. 0 * p = 0  OBVIOUS
<1>. HIDE DEF a, b, v
<1>8. CASE b - a >= 0
  <2>1. v = [start |-> a, size |-> b - a]  BY <1>5, <1>6, <1>8, SegmentType
  <2>2. v.start = a /\ b - a = 0  BY <2>1 DEF IsEmpty, v
  <2>3. v.start = 0 \/ v.start = length * p  BY <1>2, <1>5, <2>2
  <2>. QED  BY <1>7, <2>3 DEF v
<1>9. CASE ~(b - a >= 0)
  <2>1. v = [start |-> 0, size |-> 0]  BY <1>5, <1>6, <1>9, SegmentType DEF NoSegment
  <2>. QED  BY <1>7, <2>1 DEF v
<1>. QED  BY <1>5, <1>8, <1>9

\* They are those that have a point in common with it.
LEMMA PixelsAre ==
    ASSUME NEW s \in Segments, ~IsEmpty(s), NEW length \in Nat \ {0}
    PROVE  /\ PixelsOf(s, length) \in Segments
           /\ \A x : x \in Points(PixelsOf(s, length))
                        <=> x \in 0..length - 1 /\ Intersects(Segment(x * Unit, Unit), s)
<1>0. Unit \in Nat \ {0}  BY UnitAssumption
<1>. DEFINE v == ValidPart(s, length, Unit)
            q == v.start \div Unit
            c == -((-End(v)) \div Unit)
<1>1. /\ v \in Segments /\ length * Unit \in Nat
      /\ \A x : x \in Points(v) <=> x \in Points(s) /\ 0 <= x /\ x < length * Unit
  BY <1>0, ValidIs
<1>1a. IsEmpty(v) => \E n \in Int : v.start = n * Unit  BY <1>0, NothingIsBetween
<1>. HIDE DEF v
<1>2. v.start \in Int /\ End(v) \in Int /\ v.start <= End(v) /\ (IsEmpty(v) <=> v.start = End(v))
  BY <1>1, Fields
<1>3. q \in Int /\ Unit * q <= v.start /\ v.start < Unit * q + Unit  BY <1>0, <1>2, Division
<1>4. c \in Int /\ End(v) <= Unit * c /\ Unit * c - Unit < End(v)
  <2>. DEFINE d == (-End(v)) \div Unit
  <2>1. -End(v) \in Int  BY <1>2
  <2>2. d \in Int /\ Unit * d <= -End(v) /\ -End(v) < Unit * d + Unit  BY <1>0, <2>1, Division
  <2>3. c = -d  OBVIOUS
  <2>. HIDE DEF d
  <2>4. Unit * (-d) = -(Unit * d) /\ Unit * d \in Int  BY <1>0, <2>2
  <2>. QED  BY <1>0, <1>2, <2>2, <2>3, <2>4
<1>5. RoundedOut(v, Unit) = FromTo(Unit * q, Unit * c)
  BY DEF RoundedOut, round_down_to_multiple_of, round_up_to_multiple_of, floored_divide_by, ceiled_divide_by
<1>6. PixelsOf(s, length) = LET r == RoundedOut(v, Unit) IN Segment(r.start \div Unit, r.size \div Unit)
  BY DEF PixelsOf, v
<1>. HIDE DEF q, c
<1>7. \A n \in Int : Unit * n = n * Unit /\ n * Unit \in Int /\ (n + 1) * Unit = n * Unit + Unit  BY <1>0
<1>8. q <= c
  <2>1. q * Unit < (c + 1) * Unit  BY <1>0, <1>2, <1>3, <1>4, <1>7
  <2>2. q < c + 1  BY <1>0, <1>3, <1>4, <2>1, ProductsLess
  <2>. QED  BY <1>3, <1>4, <2>2
<1>9. PixelsOf(s, length) = [start |-> q, size |-> c - q]
  <2>1. Unit * q <= Unit * c /\ Unit * q \in Int /\ Unit * c \in Int  BY <1>2, <1>3, <1>4, <1>7
  <2>2. RoundedOut(v, Unit) = [start |-> Unit * q, size |-> Unit * c - Unit * q]
    BY <1>5, <2>1, SegmentType DEF FromTo
  <2>3. (Unit * q) \div Unit = q  BY <1>0, <1>3
  <2>4. (Unit * c - Unit * q) \div Unit = c - q
    <3>. DEFINE n == c - q
    <3>1. n \in Int /\ Unit * c - Unit * q = Unit * n  BY <1>0, <1>3, <1>4
    <3>. HIDE DEF n
    <3>2. (Unit * n) \div Unit = n  BY <1>0, <3>1
    <3>. QED  BY <3>1, <3>2 DEF n
  <2>5. PixelsOf(s, length) = Segment(q, c - q)  BY <1>6, <2>2, <2>3, <2>4
  <2>. QED  BY <1>3, <1>4, <1>8, <2>5, SegmentType
<1>10. PixelsOf(s, length) \in Segments /\ \A x : x \in Points(PixelsOf(s, length)) <=> x \in Int /\ q <= x /\ x < c
  BY <1>3, <1>4, <1>8, <1>9 DEF Segments, Points, End
<1>11. \A x \in Int : Segment(x * Unit, Unit) \in Segments
                   /\ \A y : y \in Points(Segment(x * Unit, Unit)) <=> y \in Int /\ x * Unit <= y /\ y < x * Unit + Unit
  BY <1>0, <1>7, Between
<1>12. \A x \in Int : Intersects(Segment(x * Unit, Unit), s)
                        <=> Points(Segment(x * Unit, Unit)) \cap Points(s) # {}
  BY <1>11, IntersectsRight
<1>13. \A y : y \in Points(v) <=> y \in Int /\ v.start <= y /\ y < End(v)  BY <1>1, PointOf
<1>14. ASSUME NEW x \in Int, q <= x, x < c
       PROVE  x \in 0..length - 1 /\ Intersects(Segment(x * Unit, Unit), s)
  <2>1. q * Unit <= x * Unit /\ (x + 1) * Unit <= c * Unit  BY <1>0, <1>3, <1>4, <1>14, Products
  <2>2. v.start < x * Unit + Unit /\ x * Unit < End(v)  BY <1>0, <1>2, <1>3, <1>4, <1>7, <2>1
  <2>3. ~IsEmpty(v)
    <3>. SUFFICES ASSUME IsEmpty(v) PROVE FALSE  OBVIOUS
    <3>1. PICK n \in Int : v.start = n * Unit  BY <1>1a
    <3>2. n * Unit < (x + 1) * Unit /\ x * Unit < n * Unit  BY <1>2, <1>7, <2>2, <3>1
    <3>3. n < x + 1 /\ x < n  BY <1>0, <3>2, ProductsLess
    <3>. QED  BY <3>3
  <2>. DEFINE y == Largest(x * Unit, v.start)
  <2>4. y \in Int /\ x * Unit <= y /\ y < x * Unit + Unit /\ v.start <= y /\ y < End(v)
    BY <1>0, <1>2, <1>7, <2>2, <2>3 DEF Largest
  <2>. HIDE DEF y
  <2>5. y \in Points(v) /\ y \in Points(Segment(x * Unit, Unit))  BY <1>11, <1>13, <2>4
  <2>6. y \in Points(s) /\ 0 <= y /\ y < length * Unit  BY <1>1, <2>5
  <2>7. x < length
    <3>1. x * Unit < length * Unit  BY <1>1, <1>7, <2>4, <2>6
    <3>. QED  BY <1>0, <3>1, ProductsLess
  <2>8. 0 <= x
    <3>1. 0 * Unit < (x + 1) * Unit  BY <1>0, <1>7, <2>4, <2>6
    <3>2. 0 < x + 1  BY <1>0, <3>1, ProductsLess
    <3>. QED  BY <3>2
  <2>. QED  BY <1>12, <2>5, <2>6, <2>7, <2>8
<1>15. ASSUME NEW x \in 0..length - 1, Intersects(Segment(x * Unit, Unit), s)
       PROVE  x \in Int /\ q <= x /\ x < c
  <2>0. x \in Int /\ 0 <= x /\ x < length  OBVIOUS
  <2>1. PICK y : y \in Points(Segment(x * Unit, Unit)) /\ y \in Points(s)  BY <1>12, <1>15, <2>0
  <2>2. y \in Int /\ x * Unit <= y /\ y < x * Unit + Unit  BY <1>11, <2>0, <2>1
  <2>3. 0 * Unit <= x * Unit /\ (x + 1) * Unit <= length * Unit  BY <1>0, <2>0, Products
  <2>4. y \in Points(v)  BY <1>0, <1>1, <1>7, <2>0, <2>1, <2>2, <2>3
  <2>5. v.start <= y /\ y < End(v)  BY <1>13, <2>4
  <2>6. q * Unit < (x + 1) * Unit /\ x * Unit < c * Unit  BY <1>0, <1>2, <1>3, <1>4, <1>7, <2>0, <2>2, <2>5
  <2>7. q < x + 1 /\ x < c  BY <1>0, <1>3, <1>4, <2>0, <2>6, ProductsLess
  <2>. QED  BY <1>3, <2>0, <2>7
<1>. QED  BY <1>10, <1>14, <1>15

-----------------------------------------------------------------------------
(* The sums that getPixelAverages() adds up, of a rectangle of pixels.     *)

Colours == {"count", "x", "y"}
PairsOf(r) == Points(r.h) \X Points(r.v)
HasValues(value, r) == \A c \in Colours : \A p \in PairsOf(r) : value[c][p[1]][p[2]] \in Int
ColourOf(value, r, c) == [p \in PairsOf(r) |-> value[c][p[1]][p[2]]]
TotalsFor(total, value, r) == \A c \in Colours : TotalsOf(total[c], PairsOf(r), ColourOf(value, r, c))

\* A rectangle has as many pixels as its width times its height.
LEMMA FinitePairs ==
    ASSUME NEW r \in Rectangles
    PROVE  /\ IsFiniteSet(PairsOf(r)) /\ Cardinality(PairsOf(r)) = r.h.size * r.v.size
           /\ IsFiniteSet(RectPoints(r))
<1>1. ASSUME NEW s \in Segments PROVE IsFiniteSet(Points(s)) /\ Cardinality(Points(s)) = s.size
  <2>1. s.start \in Int /\ s.size \in Nat /\ End(s) = s.start + s.size  BY DEF Segments, End
  <2>. DEFINE a == s.start
              b == End(s) - 1
  <2>2. a \in Int /\ b \in Int  BY <2>1
  <2>3. Points(s) = a..b  BY DEF Points
  <2>4. IF a > b THEN s.size = 0 ELSE s.size = b - a + 1  BY <2>1
  <2>. HIDE DEF a, b
  <2>5. IsFiniteSet(a..b) /\ Cardinality(a..b) = IF a > b THEN 0 ELSE b - a + 1  BY <2>2, FS_Interval
  <2>. QED  BY <2>2, <2>3, <2>4, <2>5
<1>2. r.h \in Segments /\ r.v \in Segments  BY Sides
<1>3. IsFiniteSet(PairsOf(r)) /\ Cardinality(PairsOf(r)) = r.h.size * r.v.size
  BY <1>1, <1>2, FS_Product DEF PairsOf
<1>. DEFINE f == [z \in PairsOf(r) |-> Point(z[1], z[2])]
<1>4. f \in Surjection(PairsOf(r), RectPoints(r))
  <2>1. \A z \in PairsOf(r) : f[z] \in RectPoints(r)  BY DEF PairsOf, RectPoints
  <2>2. \A q \in RectPoints(r) : \E z \in PairsOf(r) : f[z] = q
    <3>1. ASSUME NEW q \in RectPoints(r) PROVE \E z \in PairsOf(r) : f[z] = q
      <4>1. PICK x \in Points(r.h), y \in Points(r.v) : q = Point(x, y)  BY DEF RectPoints
      <4>2. <<x, y>> \in PairsOf(r) /\ f[<<x, y>>] = q  BY <4>1 DEF PairsOf
      <4>. QED  BY <4>2
    <3>. QED  BY <3>1
  <2>3. f \in [PairsOf(r) -> RectPoints(r)]  BY <2>1
  <2>. HIDE DEF f
  <2>. QED  BY <2>2, <2>3 DEF Surjection
<1>5. IsFiniteSet(RectPoints(r))
  <2>. HIDE DEF f
  <2>. QED  BY <1>3, <1>4, FS_Surjection
<1>. QED  BY <1>3, <1>5

\* The sums that the averages are taken of exist.
LEMMA TotalsForExist ==
    ASSUME NEW r \in Rectangles, NEW value, HasValues(value, r)
    PROVE  \E total : TotalsFor(total, value, r)
<1>1. ASSUME NEW c \in Colours PROVE \E f : TotalsOf(f, PairsOf(r), ColourOf(value, r, c))
  <2>1. ColourOf(value, r, c) \in [PairsOf(r) -> Int]  BY DEF HasValues, ColourOf
  <2>2. IsFiniteSet(PairsOf(r))  BY FinitePairs
  <2>. QED  BY <2>1, <2>2, TotalsExist
<1>. DEFINE total == [c \in Colours |-> CHOOSE f : TotalsOf(f, PairsOf(r), ColourOf(value, r, c))]
<1>2. \A c \in Colours : TotalsOf(total[c], PairsOf(r), ColourOf(value, r, c))  BY <1>1
<1>. HIDE DEF total
<1>. QED  BY <1>2 DEF TotalsFor

\* The sum over pixels of the bitmap.
PairSum(value, c, pairs) == FoldSet(LAMBDA p, s : s + value[c][p[1]][p[2]], 0, pairs)

LEMMA SumOfPairs ==
    ASSUME NEW r \in Rectangles, NEW value, HasValues(value, r), NEW total, TotalsFor(total, value, r),
           NEW c \in Colours
    PROVE  PairSum(value, c, PairsOf(r)) = total[c][PairsOf(r)]
<1>. DEFINE R == PairsOf(r)
            g == ColourOf(value, r, c)
            name == [p \in R |-> p]
            e == [p \in R |-> g[name[p]]]
            Fits(f) == f = [s \in SUBSET R |-> IF s = {} THEN 0
                                               ELSE f[s \ {Chosen(s)}] + value[c][Chosen(s)[1]][Chosen(s)[2]]]
            it == CHOOSE f : Fits(f)
<1>1. IsFiniteSet(R)  BY FinitePairs
<1>2. g \in [R -> Int] /\ \A p \in R : g[p] = value[c][p[1]][p[2]]  BY DEF HasValues, ColourOf
<1>3. TotalsOf(total[c], R, g)  BY DEF TotalsFor
<1>4. PairSum(value, c, R) = it[R]  BY DEF PairSum, FoldSet, MapThenFoldSet, Chosen
<1>. HIDE DEF R, g
<1>5. name \in [R -> R] /\ \A x, y \in R : name[x] = name[y] => x = y  OBVIOUS
<1>6. e \in [R -> Int] /\ \A p \in R : e[p] = value[c][p[1]][p[2]]  BY <1>2
<1>7. \A f : Fits(f) <=> SumOf(f, R, e)
  <2>1. ASSUME NEW f, NEW s \in SUBSET R
        PROVE  (IF s = {} THEN 0 ELSE f[s \ {Chosen(s)}] + value[c][Chosen(s)[1]][Chosen(s)[2]])
                 = IF s = {} THEN 0 ELSE f[s \ {Chosen(s)}] + e[Chosen(s)]
    <3>1. s # {} => Chosen(s) \in R  BY DEF Chosen
    <3>. HIDE DEF e
    <3>. QED  BY <1>6, <3>1
  <2>2. ASSUME NEW f
        PROVE  [s \in SUBSET R |-> IF s = {} THEN 0 ELSE f[s \ {Chosen(s)}] + value[c][Chosen(s)[1]][Chosen(s)[2]]]
                 = [s \in SUBSET R |-> IF s = {} THEN 0 ELSE f[s \ {Chosen(s)}] + e[Chosen(s)]]
    BY <2>1
  <2>. HIDE DEF e
  <2>. QED  BY <2>2 DEF SumOf
<1>8. \E f : SumOf(f, R, e)
  <2>. HIDE DEF e
  <2>. QED  BY <1>1, <1>6, TotalsExist
<1>9. SumOf(it, R, e)
  <2>1. \E f : Fits(f)  BY <1>7, <1>8
  <2>2. Fits(it)
    <3>. HIDE DEF Fits
    <3>. QED  BY <2>1
  <2>. HIDE DEF it, Fits
  <2>. QED  BY <1>7, <2>2
<1>. HIDE DEF it, Fits
<1>10. it[R] = total[c][Named(name, R)]
  <2>1. Renamed(e, R, name, g, R)  BY <1>5 DEF Renamed
  <2>. HIDE DEF e, name
  <2>. QED  BY <1>1, <1>2, <1>3, <1>9, <2>1, SumIsTotal
<1>11. Named(name, R) = R  BY DEF Named
<1>. QED  BY <1>4, <1>10, <1>11 DEF R

\* The sum over part of a tile, of which the points are counted from its corner.
PartPixels(t, part) == {<<t[1] * TileSize + p.x, t[2] * TileSize + p.y>> : p \in RectPoints(part)}
TileSum(value, c, t, part) ==
    FoldSet(LAMBDA p, sum : sum + value[c][t[1] * TileSize + p.x][t[2] * TileSize + p.y], 0, RectPoints(part))

LEMMA SumOfPart ==
    ASSUME NEW r \in Rectangles, NEW value, HasValues(value, r), NEW total, TotalsFor(total, value, r),
           NEW c \in Colours, NEW t \in Int \X Int, NEW part \in Rectangles,
           \A p \in RectPoints(part) : <<t[1] * TileSize + p.x, t[2] * TileSize + p.y>> \in PairsOf(r)
    PROVE  TileSum(value, c, t, part) = total[c][PartPixels(t, part)]
<1>. DEFINE S == PairsOf(r)
            R == RectPoints(part)
            g == ColourOf(value, r, c)
            name == [p \in R |-> <<t[1] * TileSize + p.x, t[2] * TileSize + p.y>>]
            e == [p \in R |-> g[name[p]]]
            Fits(f) == f = [s \in SUBSET R |-> IF s = {} THEN 0
                                               ELSE f[s \ {Chosen(s)}] + value[c][t[1] * TileSize + Chosen(s).x][t[2] * TileSize + Chosen(s).y]]
            it == CHOOSE f : Fits(f)
<1>1. IsFiniteSet(R) /\ IsFiniteSet(S)  BY FinitePairs
<1>2. g \in [S -> Int] /\ \A p \in S : g[p] = value[c][p[1]][p[2]]  BY DEF HasValues, ColourOf
<1>3. TotalsOf(total[c], S, g)  BY DEF TotalsFor
<1>4. TileSum(value, c, t, part) = it[R]
  BY DEF TileSum, FoldSet, MapThenFoldSet, Chosen
<1>5. name \in [R -> S]  OBVIOUS
<1>6. \A p, q \in R : name[p] = name[q] => p = q
  <2>1. ASSUME NEW p \in R, NEW q \in R, name[p] = name[q] PROVE p = q
    <3>0. t[1] * TileSize \in Int /\ t[2] * TileSize \in Int  BY TileSizeAssumption
    <3>1. /\ t[1] * TileSize + p.x = t[1] * TileSize + q.x
          /\ t[2] * TileSize + p.y = t[2] * TileSize + q.y
      BY <2>1
    <3>2. \A o \in R : o.x \in Int /\ o.y \in Int /\ o = Point(o.x, o.y)
      <4>1. ASSUME NEW o \in R PROVE o.x \in Int /\ o.y \in Int /\ o = Point(o.x, o.y)
        <5>1. PICK x \in Points(part.h), y \in Points(part.v) : o = Point(x, y)  BY DEF RectPoints
        <5>2. x \in Int /\ y \in Int  BY Sides, PointOf
        <5>. QED  BY <5>1, <5>2 DEF Point
      <4>. QED  BY <4>1
    <3>. HIDE DEF R, name
    <3>3. p.x = q.x /\ p.y = q.y  BY <3>0, <3>1, <3>2
    <3>. QED  BY <3>2, <3>3
  <2>. QED  BY <2>1
<1>6a. \A p \in R : e[p] = value[c][t[1] * TileSize + p.x][t[2] * TileSize + p.y]
  <2>1. ASSUME NEW p \in R PROVE e[p] = value[c][t[1] * TileSize + p.x][t[2] * TileSize + p.y]
    <3>1. <<t[1] * TileSize + p.x, t[2] * TileSize + p.y>> \in S /\ e[p] = g[<<t[1] * TileSize + p.x, t[2] * TileSize + p.y>>]  OBVIOUS
    <3>. HIDE DEF S, R, g
    <3>. QED  BY <1>2, <3>1
  <2>. QED  BY <2>1
<1>. HIDE DEF R, S, g
<1>6b. e \in [R -> Int]  BY <1>2, <1>5
<1>7. \A f : Fits(f) <=> SumOf(f, R, e)
  <2>1. ASSUME NEW f, NEW s \in SUBSET R
        PROVE  (IF s = {} THEN 0 ELSE f[s \ {Chosen(s)}] + value[c][t[1] * TileSize + Chosen(s).x][t[2] * TileSize + Chosen(s).y])
                 = IF s = {} THEN 0 ELSE f[s \ {Chosen(s)}] + e[Chosen(s)]
    <3>1. s # {} => Chosen(s) \in R  BY DEF Chosen
    <3>. HIDE DEF e
    <3>. QED  BY <1>6a, <3>1
  <2>2. ASSUME NEW f
        PROVE  [s \in SUBSET R |-> IF s = {} THEN 0 ELSE f[s \ {Chosen(s)}] + value[c][t[1] * TileSize + Chosen(s).x][t[2] * TileSize + Chosen(s).y]]
                 = [s \in SUBSET R |-> IF s = {} THEN 0 ELSE f[s \ {Chosen(s)}] + e[Chosen(s)]]
    BY <2>1
  <2>. HIDE DEF e
  <2>. QED  BY <2>2 DEF SumOf
<1>8. \E f : SumOf(f, R, e)
  <2>. HIDE DEF e
  <2>. QED  BY <1>1, <1>6b, TotalsExist
<1>9. SumOf(it, R, e)
  <2>1. \E f : Fits(f)  BY <1>7, <1>8
  <2>2. Fits(it)
    <3>. HIDE DEF Fits
    <3>. QED  BY <2>1
  <2>. HIDE DEF it, Fits
  <2>. QED  BY <1>7, <2>2
<1>. HIDE DEF it, Fits
<1>10. it[R] = total[c][Named(name, R)]
  <2>1. Renamed(e, R, name, g, S)  BY <1>5, <1>6 DEF Renamed
  <2>. HIDE DEF e, name
  <2>. QED  BY <1>1, <1>2, <1>3, <1>9, <2>1, SumIsTotal
<1>11. Named(name, R) = PartPixels(t, part)  BY DEF Named, PartPixels, R
<1>. QED  BY <1>4, <1>10, <1>11 DEF R

-----------------------------------------------------------------------------
(* The tiles that getPixelAverages() goes through.                         *)

\* Along an axis: a tile, the first tile and the last one.
Span(i) == Scaled(Moved(Segment(0, 1), i), TileSize)
FirstSummed(s) == Truncated(s.start, TileSize)
LastSummed(s)  == Truncated(End(s) - 1, TileSize)

\* A tile begins where the last one ends.
LEMMA SpanPoints ==
    ASSUME NEW i \in Int
    PROVE  /\ Span(i) \in Segments /\ i * TileSize \in Int
           /\ \A x : x \in Points(Span(i)) <=> x \in Int /\ i * TileSize <= x /\ x < (i + 1) * TileSize
<1>0. TileSize \in Nat \ {0}  BY TileSizeAssumption
<1>1. Segment(0, 1) = [start |-> 0, size |-> 1]  BY DEF Segment
<1>2. Span(i) = [start |-> i * TileSize, size |-> 1 * TileSize]  BY <1>0, <1>1 DEF Span, Moved, Scaled
<1>3. 1 * TileSize \in Nat /\ i * TileSize \in Int /\ (i + 1) * TileSize = i * TileSize + 1 * TileSize  BY <1>0
<1>. QED  BY <1>2, <1>3 DEF Segments, Points, End

\* Tiles are apart, and each pixel is in one of those that are summed.
LEMMA SpansAreApart ==
    ASSUME NEW i \in Int, NEW k \in Int, NEW x, x \in Points(Span(i)), x \in Points(Span(k))
    PROVE  i = k
<1>0. TileSize \in Nat \ {0}  BY TileSizeAssumption
<1>1. /\ x \in Int /\ i * TileSize <= x /\ x < (i + 1) * TileSize
      /\ k * TileSize <= x /\ x < (k + 1) * TileSize
  BY SpanPoints
<1>2. i * TileSize < (k + 1) * TileSize /\ k * TileSize < (i + 1) * TileSize  BY <1>0, <1>1
<1>3. i < k + 1 /\ k < i + 1  BY <1>0, <1>2, ProductsLess
<1>. QED  BY <1>3

\* Along an axis, each pixel is in one of the tiles from the first to the last.
LEMMA SummedSpans ==
    ASSUME NEW s \in Segments, s.start >= 0, ~IsEmpty(s)
    PROVE  /\ FirstSummed(s) \in Nat /\ LastSummed(s) \in Nat
           /\ \A x \in Points(s) : /\ x \div TileSize \in FirstSummed(s)..LastSummed(s)
                                   /\ x \in Points(Span(x \div TileSize))
<1>0. TileSize \in Nat \ {0}  BY TileSizeAssumption
<1>1. s.start \in Nat /\ End(s) \in Int /\ End(s) - 1 \in Nat  BY Fields
<1>2. FirstSummed(s) = s.start \div TileSize /\ LastSummed(s) = (End(s) - 1) \div TileSize
  BY <1>1 DEF FirstSummed, LastSummed, Truncated
<1>3. FirstSummed(s) \in Nat /\ LastSummed(s) \in Nat  BY <1>0, <1>1, <1>2
<1>4. ASSUME NEW x \in Points(s)
      PROVE  x \div TileSize \in FirstSummed(s)..LastSummed(s) /\ x \in Points(Span(x \div TileSize))
  <2>1. x \in Nat /\ s.start <= x /\ x <= End(s) - 1
    <3>1. x \in Int /\ s.start <= x /\ x < End(s)  BY PointOf
    <3>. QED  BY <1>1, <3>1
  <2>0. \A n, m \in Nat : n <= m => n \div TileSize <= m \div TileSize /\ m \div TileSize \in Nat
    <3>1. ASSUME NEW n \in Nat, NEW m \in Nat, n <= m
          PROVE  n \div TileSize <= m \div TileSize /\ m \div TileSize \in Nat
      <4>. DEFINE a == n \div TileSize
                  b == m \div TileSize
      <4>1. a \in Nat /\ TileSize * a <= n /\ b \in Nat /\ m < TileSize * b + TileSize  BY <1>0
      <4>. HIDE DEF a, b
      <4>2. /\ TileSize * a = a * TileSize /\ TileSize * b + TileSize = (b + 1) * TileSize
            /\ a * TileSize \in Nat /\ (b + 1) * TileSize \in Nat
        BY <1>0, <4>1
      <4>3. a * TileSize < (b + 1) * TileSize  BY <3>1, <4>1, <4>2
      <4>4. a < b + 1  BY <1>0, <4>1, <4>3, ProductsLess
      <4>. QED  BY <4>1, <4>4 DEF a, b
    <3>. QED  BY <3>1
  <2>2. FirstSummed(s) <= x \div TileSize /\ x \div TileSize \in Nat
    <3>. DEFINE n == s.start
    <3>1. n \in Nat /\ n <= x /\ FirstSummed(s) = n \div TileSize  BY <1>1, <1>2, <2>1
    <3>. HIDE DEF n
    <3>. QED  BY <2>1, <2>0, <3>1
  <2>3. x \div TileSize <= LastSummed(s)
    <3>. DEFINE e == End(s) - 1
    <3>1. e \in Nat /\ x <= e /\ LastSummed(s) = e \div TileSize  BY <1>1, <1>2, <2>1
    <3>. HIDE DEF e
    <3>. QED  BY <2>0, <2>1, <3>1
  <2>. DEFINE k == x \div TileSize
  <2>4. k \in Int /\ TileSize * k <= x /\ x < TileSize * k + TileSize  BY <1>0, <2>1
  <2>. HIDE DEF k
  <2>5. k * TileSize = TileSize * k /\ (k + 1) * TileSize = TileSize * k + TileSize  BY <1>0, <2>4
  <2>6. x \in Points(Span(k))  BY <2>1, <2>4, <2>5, SpanPoints
  <2>. QED  BY <1>3, <2>2, <2>3, <2>6 DEF k
<1>. QED  BY <1>3, <1>4

\* A segment that moves takes its points along.
LEMMA MovedPoints ==
    ASSUME NEW s \in Segments, NEW n \in Int
    PROVE  /\ Moved(s, -n) \in Segments
           /\ \A x : x \in Points(Moved(s, -n)) <=> x \in Int /\ n + x \in Points(s)
<1>1. s.start \in Int /\ s.size \in Nat /\ s = [start |-> s.start, size |-> s.size]  BY DEF Segments
<1>2. Moved(s, -n) = [start |-> s.start - n, size |-> s.size]  BY <1>1 DEF Moved
<1>. QED  BY <1>1, <1>2 DEF Segments, Points, End

\* The pixels of a rectangle that are in a tile.
PixelsIn(t, r) == {p \in PairsOf(r) : p[1] \in Points(Span(t[1])) /\ p[2] \in Points(Span(t[2]))}
SummedPart(t, r) ==
    RectMoved(Overlap(TileArea(t[1], t[2]), r), Point(-t[1] * TileSize, -t[2] * TileSize))

\* The part of a tile that is summed has those pixels, counted from its corner.
LEMMA SummedPartIs ==
    ASSUME NEW r \in Rectangles, NEW t \in Int \X Int
    PROVE  /\ SummedPart(t, r) \in Rectangles
           /\ PartPixels(t, SummedPart(t, r)) = PixelsIn(t, r)
           /\ \A p \in RectPoints(SummedPart(t, r)) :
                 <<t[1] * TileSize + p.x, t[2] * TileSize + p.y>> \in PairsOf(r)
<1>. DEFINE a == t[1] * TileSize
            b == t[2] * TileSize
            h == Intersection(Span(t[1]), r.h)
            v == Intersection(Span(t[2]), r.v)
            part == SummedPart(t, r)
<1>0. r.h \in Segments /\ r.v \in Segments  BY Sides
<1>1. /\ Span(t[1]) \in Segments /\ Span(t[2]) \in Segments /\ a \in Int /\ b \in Int  BY SpanPoints
<1>2. /\ h \in Segments /\ v \in Segments
      /\ \A x : x \in Points(h) <=> x \in Points(Span(t[1])) /\ x \in Points(r.h)
      /\ \A x : x \in Points(v) <=> x \in Points(Span(t[2])) /\ x \in Points(r.v)
  BY <1>0, <1>1, IntersectionPoints
<1>3. part = Rectangle(Moved(h, -a), Moved(v, -b))
  <2>1. ASSUME NEW x, NEW y PROVE Rectangle(x, y).h = x /\ Rectangle(x, y).v = y  BY DEF Rectangle
  <2>2. ASSUME NEW x, NEW y PROVE Point(x, y).x = x /\ Point(x, y).y = y  BY DEF Point
  <2>3. TileArea(t[1], t[2]) = Rectangle(Span(t[1]), Span(t[2]))  BY <2>1, <2>2 DEF TileArea, RectMoved, RectScaled, Span
  <2>4. Overlap(TileArea(t[1], t[2]), r) = Rectangle(h, v)  BY <2>1, <2>3 DEF Overlap
  <2>5. part = RectMoved(Overlap(TileArea(t[1], t[2]), r), Point(-a, -b))  BY DEF SummedPart
  <2>. HIDE DEF part, h, v, a, b
  <2>. QED  BY <2>1, <2>2, <2>4, <2>5 DEF RectMoved
<1>. HIDE DEF h, v, a, b, part
<1>4. /\ Moved(h, -a) \in Segments /\ Moved(v, -b) \in Segments
      /\ \A x : x \in Points(Moved(h, -a)) <=> x \in Int /\ a + x \in Points(h)
      /\ \A x : x \in Points(Moved(v, -b)) <=> x \in Int /\ b + x \in Points(v)
  BY <1>1, <1>2, MovedPoints
<1>5. part \in Rectangles /\ part.h = Moved(h, -a) /\ part.v = Moved(v, -b)  BY <1>3, <1>4, IsRectangle
<1>6. ASSUME NEW p \in RectPoints(part) PROVE <<a + p.x, b + p.y>> \in PixelsIn(t, r)
  <2>1. PICK x \in Points(part.h), y \in Points(part.v) : p = Point(x, y)  BY DEF RectPoints
  <2>2. p.x = x /\ p.y = y  BY <2>1 DEF Point
  <2>3. a + x \in Points(h) /\ b + y \in Points(v)  BY <1>4, <1>5, <2>1
  <2>4. /\ a + x \in Points(Span(t[1])) /\ a + x \in Points(r.h)
        /\ b + y \in Points(Span(t[2])) /\ b + y \in Points(r.v)
    BY <1>2, <2>3
  <2>. QED  BY <2>2, <2>4 DEF PixelsIn, PairsOf
<1>7. ASSUME NEW q \in PixelsIn(t, r) PROVE \E p \in RectPoints(part) : q = <<a + p.x, b + p.y>>
  <2>1. /\ q \in Points(r.h) \X Points(r.v) /\ q[1] \in Points(Span(t[1])) /\ q[2] \in Points(Span(t[2]))
    BY DEF PixelsIn, PairsOf
  <2>2. q[1] \in Points(h) /\ q[2] \in Points(v) /\ q = <<q[1], q[2]>>  BY <1>2, <2>1
  <2>3. q[1] \in Int /\ q[2] \in Int  BY <1>2, <2>2, PointOf
  <2>. DEFINE x == q[1] - a
              y == q[2] - b
  <2>4. x \in Int /\ y \in Int /\ a + x = q[1] /\ b + y = q[2]  BY <1>1, <2>3
  <2>. HIDE DEF x, y
  <2>5. x \in Points(part.h) /\ y \in Points(part.v)  BY <1>4, <1>5, <2>2, <2>4
  <2>6. Point(x, y) \in RectPoints(part) /\ Point(x, y).x = x /\ Point(x, y).y = y
    BY <2>5 DEF RectPoints, Point
  <2>. QED  BY <2>2, <2>4, <2>6
<1>8. {<<a + p.x, b + p.y>> : p \in RectPoints(part)} = PixelsIn(t, r)  BY <1>6, <1>7
<1>9. \A p \in RectPoints(part) : <<a + p.x, b + p.y>> \in PairsOf(r)  BY <1>6 DEF PixelsIn
<1>. QED  BY <1>5, <1>8, <1>9 DEF a, b, part, PartPixels

\* The sums of a tile are those of its pixels.
LEMMA SumsOfTile ==
    ASSUME NEW r \in Rectangles, NEW value, HasValues(value, r), NEW total, TotalsFor(total, value, r),
           NEW t \in Int \X Int
    PROVE  sumPixelValues(value, t, SummedPart(t, r)) = [c \in Colours |-> total[c][PixelsIn(t, r)]]
<1>. DEFINE part == SummedPart(t, r)
<1>1. /\ part \in Rectangles /\ PartPixels(t, part) = PixelsIn(t, r)
      /\ \A p \in RectPoints(part) : <<t[1] * TileSize + p.x, t[2] * TileSize + p.y>> \in PairsOf(r)
  BY SummedPartIs
<1>2. sumPixelValues(value, t, part) = [c \in Colours |-> TileSum(value, c, t, part)]
  BY DEF sumPixelValues, Colours, TileSum
<1>. HIDE DEF part
<1>3. \A c \in Colours : TileSum(value, c, t, part) = total[c][PixelsIn(t, r)]  BY <1>1, SumOfPart
<1>. QED  BY <1>2, <1>3 DEF part

\* The pixels of some tiles; a rectangle of pixels has those of the tiles that are summed.
PixelsInAll(s, r) == {p \in PairsOf(r) : \E t \in s : p \in PixelsIn(t, r)}

\* Each pixel of a rectangle is in one of the tiles that are summed.
LEMMA SummedTilesAre ==
    ASSUME NEW r \in Rectangles, r.h.start >= 0, r.v.start >= 0, ~RectEmpty(r)
    PROVE  /\ IsFiniteSet(SummedTiles(r)) /\ SummedTiles(r) \subseteq Int \X Int
           /\ SummedTiles(r) # {} /\ PixelsInAll(SummedTiles(r), r) = PairsOf(r)
<1>0. /\ r.h \in Segments /\ r.v \in Segments /\ ~IsEmpty(r.h) /\ ~IsEmpty(r.v)
      /\ r.h.start \in Points(r.h) /\ r.v.start \in Points(r.v)
  BY Sides, Fields, PointOf DEF RectEmpty
<1>. DEFINE h == FirstSummed(r.h)..LastSummed(r.h)
            v == FirstSummed(r.v)..LastSummed(r.v)
<1>1. /\ FirstSummed(r.h) \in Nat /\ LastSummed(r.h) \in Nat
      /\ \A x \in Points(r.h) : x \div TileSize \in h /\ x \in Points(Span(x \div TileSize))
  BY <1>0, SummedSpans
<1>2. /\ FirstSummed(r.v) \in Nat /\ LastSummed(r.v) \in Nat
      /\ \A x \in Points(r.v) : x \div TileSize \in v /\ x \in Points(Span(x \div TileSize))
  BY <1>0, SummedSpans
<1>3. IsFiniteSet(h) /\ IsFiniteSet(v) /\ h \subseteq Int /\ v \subseteq Int  BY <1>1, <1>2, FS_Interval
<1>4. SummedTiles(r) = h \X v
  <2>1. SummedTiles(r) = {<<i, j>> : i \in h, j \in v}  BY DEF SummedTiles, FirstSummed, LastSummed
  <2>. HIDE DEF h, v
  <2>. QED  BY <2>1
<1>. HIDE DEF h, v
<1>5. IsFiniteSet(SummedTiles(r))  BY <1>3, <1>4, FS_Product
<1>6. \A p \in PairsOf(r) : \E t \in SummedTiles(r) : p \in PixelsIn(t, r)
  <2>1. ASSUME NEW p \in PairsOf(r) PROVE \E t \in SummedTiles(r) : p \in PixelsIn(t, r)
    <3>. DEFINE t == <<p[1] \div TileSize, p[2] \div TileSize>>
    <3>1. p[1] \in Points(r.h) /\ p[2] \in Points(r.v)  BY DEF PairsOf
    <3>2. t \in SummedTiles(r)  BY <1>1, <1>2, <1>4, <3>1
    <3>3. p \in PixelsIn(t, r)  BY <1>1, <1>2, <3>1 DEF PixelsIn
    <3>. QED  BY <3>2, <3>3
  <2>. QED  BY <2>1
<1>7. PixelsInAll(SummedTiles(r), r) = PairsOf(r)  BY <1>6 DEF PixelsInAll
<1>8. SummedTiles(r) # {}
  <2>1. <<r.h.start, r.v.start>> \in PairsOf(r)  BY <1>0 DEF PairsOf
  <2>. QED  BY <1>6, <2>1
<1>. QED  BY <1>3, <1>4, <1>5, <1>7, <1>8

\* What is added to the sums of some tiles is not in them yet.
LEMMA OneTileMore ==
    ASSUME NEW r \in Rectangles, NEW value, HasValues(value, r), NEW total, TotalsFor(total, value, r),
           NEW s \in SUBSET (Int \X Int), NEW t \in s, NEW c \in Colours
    PROVE  /\ total[c][PixelsInAll(s, r)] = total[c][PixelsIn(t, r)] + total[c][PixelsInAll(s \ {t}, r)]
           /\ s \ {t} = {} => PixelsInAll(s, r) = PixelsIn(t, r)
<1>. DEFINE a == PixelsIn(t, r)
            b == PixelsInAll(s \ {t}, r)
<1>1. a \in SUBSET PairsOf(r) /\ b \in SUBSET PairsOf(r)  BY DEF PixelsIn, PixelsInAll
<1>2. PixelsInAll(s, r) = a \cup b  BY <1>1 DEF PixelsInAll
<1>3. a \cap b = {}
  <2>. SUFFICES ASSUME NEW p \in PairsOf(r), p \in a, p \in b PROVE FALSE  BY <1>1
  <2>1. PICK u \in s \ {t} : p \in PixelsIn(u, r)  BY DEF PixelsInAll
  <2>2. /\ p[1] \in Points(Span(t[1])) /\ p[2] \in Points(Span(t[2]))
        /\ p[1] \in Points(Span(u[1])) /\ p[2] \in Points(Span(u[2]))
    BY <2>1 DEF PixelsIn
  <2>3. t[1] \in Int /\ t[2] \in Int /\ u[1] \in Int /\ u[2] \in Int
        /\ t = <<t[1], t[2]>> /\ u = <<u[1], u[2]>> /\ u # t
    BY <2>1
  <2>4. t[1] = u[1] /\ t[2] = u[2]  BY <2>2, <2>3, SpansAreApart
  <2>. QED  BY <2>3, <2>4
<1>4. s \ {t} = {} => PixelsInAll(s, r) = a  BY <1>2 DEF PixelsInAll
<1>. HIDE DEF a, b
<1>5. IsFiniteSet(PairsOf(r)) /\ ColourOf(value, r, c) \in [PairsOf(r) -> Int]
  BY FinitePairs DEF HasValues, ColourOf
<1>6. TotalsOf(total[c], PairsOf(r), ColourOf(value, r, c))  BY DEF TotalsFor
<1>7. total[c][a \cup b] = total[c][a] + total[c][b]
  <2>. DEFINE S == PairsOf(r)
              g == ColourOf(value, r, c)
              f == total[c]
  <2>1. IsFiniteSet(S) /\ g \in [S -> Int] /\ TotalsOf(f, S, g) /\ a \in SUBSET S /\ b \in SUBSET S
    BY <1>1, <1>5, <1>6
  <2>. HIDE DEF S, g, f
  <2>2. f[a \cup b] = f[a] + f[b]  BY ONLY <1>3, <2>1, TotalOfUnion
  <2>. QED  BY <2>2 DEF f
<1>. QED  BY <1>2, <1>4, <1>7 DEF a, b

\* The sums over the tiles are those over the pixels.
TilesSum(value, r) ==
    FoldSet(LAMBDA t, sums : sumPipetteColors(sums, sumPixelValues(value, t, SummedPart(t, r))),
            <<>>, SummedTiles(r))

LEMMA SumOfTiles ==
    ASSUME NEW r \in Rectangles, r.h.start >= 0, r.v.start >= 0, ~RectEmpty(r),
           NEW value, HasValues(value, r), NEW total, TotalsFor(total, value, r)
    PROVE  TilesSum(value, r) = [c \in Colours |-> total[c][PairsOf(r)]]
<1>. DEFINE T == SummedTiles(r)
            sum(t) == sumPixelValues(value, t, SummedPart(t, r))
            Fits(f) == f = [s \in SUBSET T |-> IF s = {} THEN <<>>
                                ELSE sumPipetteColors(f[s \ {Chosen(s)}],
                                         sumPixelValues(value, Chosen(s), SummedPart(Chosen(s), r)))]
            it == CHOOSE f : Fits(f)
            F == [s \in SUBSET T |-> IF s = {} THEN <<>> ELSE [c \in Colours |-> total[c][PixelsInAll(s, r)]]]
            pick == [s \in SUBSET T |-> Chosen(s)]
<1>1. IsFiniteSet(T) /\ T \subseteq Int \X Int /\ T # {} /\ PixelsInAll(T, r) = PairsOf(r)  BY SummedTilesAre
<1>2. TilesSum(value, r) = it[T]  BY DEF TilesSum, FoldSet, MapThenFoldSet, Chosen
<1>. HIDE DEF T
<1>3. \A s \in SUBSET T : s # {} => Chosen(s) \in s  BY DEF Chosen
<1>4. ASSUME NEW s \in SUBSET T, s # {}
      PROVE  sumPipetteColors(F[s \ {Chosen(s)}],
                              sumPixelValues(value, Chosen(s), SummedPart(Chosen(s), r))) = F[s]
  <2>. DEFINE t == Chosen(s)
              rest == s \ {t}
              rhs == sumPixelValues(value, t, SummedPart(t, r))
  <2>1. t \in s /\ s \in SUBSET (Int \X Int) /\ t \in Int \X Int  BY <1>1, <1>3, <1>4
  <2>. HIDE DEF t
  <2>2. rhs = [c \in Colours |-> total[c][PixelsIn(t, r)]]  BY <2>1, SumsOfTile
  <2>3. \A c \in Colours : total[c][PixelsInAll(s, r)] = total[c][PixelsIn(t, r)] + total[c][PixelsInAll(rest, r)]
    BY <2>1, OneTileMore
  <2>4. F[s] = [c \in Colours |-> total[c][PixelsInAll(s, r)]]  BY <1>4
  <2>5. CASE rest = {}
    <3>1. F[rest] = <<>>  BY <2>5
    <3>2. "x" \in Colours  BY DEF Colours
    <3>3. PixelsInAll(s, r) = PixelsIn(t, r)  BY <2>1, <2>5, <3>2, OneTileMore
    <3>. HIDE DEF F, rhs, rest
    <3>4. sumPipetteColors(F[rest], rhs) = rhs  BY <3>1 DEF sumPipetteColors
    <3>5. rhs = F[s]  BY <2>2, <2>4, <3>3
    <3>. QED  BY <3>4, <3>5 DEF rhs, rest, t
  <2>6. CASE rest # {}
    <3>1. F[rest] = [c \in Colours |-> total[c][PixelsInAll(rest, r)]]  BY <2>6
    <3>2. F[rest] # <<>>
      <4>. HIDE DEF F
      <4>1. DOMAIN F[rest] = Colours /\ "x" \in Colours  BY <3>1 DEF Colours
      <4>2. DOMAIN <<>> = {}  OBVIOUS
      <4>. QED  BY <4>1, <4>2
    <3>. HIDE DEF F, rhs, rest
    <3>3. sumPipetteColors(F[rest], rhs) = [c \in DOMAIN rhs |-> rhs[c] + F[rest][c]]
      BY <3>2 DEF sumPipetteColors
    <3>4. DOMAIN rhs = Colours  BY <2>2
    <3>5. \A c \in Colours : rhs[c] + F[rest][c] = total[c][PixelsInAll(s, r)]  BY <2>2, <2>3, <3>1
    <3>6. sumPipetteColors(F[rest], rhs) = [c \in Colours |-> total[c][PixelsInAll(s, r)]]  BY <3>3, <3>4, <3>5
    <3>7. sumPipetteColors(F[rest], rhs) = F[s]  BY <2>4, <3>6
    <3>. QED  BY <3>7 DEF rhs, rest, t
  <2>. QED  BY <2>5, <2>6
<1>5. Fits(F)
  <2>1. \A s \in SUBSET T : F[s] = IF s = {} THEN <<>>
                                   ELSE sumPipetteColors(F[s \ {Chosen(s)}],
                                            sumPixelValues(value, Chosen(s), SummedPart(Chosen(s), r)))
    <3>1. F[{}] = <<>>  OBVIOUS
    <3>. HIDE DEF F
    <3>. QED  BY <1>4, <3>1
  <2>2. F = [s \in SUBSET T |-> F[s]]  OBVIOUS
  <2>. HIDE DEF F
  <2>. QED  BY <2>1, <2>2
<1>6. Fits(it)
  <2>. HIDE DEF Fits, F
  <2>. QED  BY <1>5
<1>. HIDE DEF it
<1>7. \A s \in SUBSET T : it[s] = IF s = {} THEN <<>>
                                  ELSE sumPipetteColors(it[s \ {Chosen(s)}],
                                           sumPixelValues(value, Chosen(s), SummedPart(Chosen(s), r)))
  BY <1>6
<1>. DEFINE A == {s \in SUBSET T : it[s] = F[s]}
<1>8. {} \in A
  <2>1. F[{}] = <<>> /\ it[{}] = <<>>  BY <1>7
  <2>. HIDE DEF F
  <2>. QED  BY <2>1
<1>. HIDE DEF F, Fits
<1>9. ASSUME NEW s \in SUBSET T, s # {}, s \ {pick[s]} \in A PROVE s \in A
  <2>1. it[s \ {Chosen(s)}] = F[s \ {Chosen(s)}]  BY <1>9
  <2>2. it[s] = sumPipetteColors(F[s \ {Chosen(s)}],
                                 sumPixelValues(value, Chosen(s), SummedPart(Chosen(s), r)))
    BY <1>7, <1>9, <2>1
  <2>. QED  BY <1>4, <1>9, <2>2
<1>10. \A s \in SUBSET T : s \in A
  <2>1. \A s \in SUBSET T : s # {} => pick[s] \in s  BY <1>3
  <2>2. \A s \in SUBSET T : s # {} /\ s \ {pick[s]} \in A => s \in A  BY <1>9
  <2>3. ASSUME NEW U, {} \in U, \A s \in SUBSET T : s # {} /\ s \ {pick[s]} \in U => s \in U
        PROVE  \A s \in SUBSET T : s \in U
    <3>1. IsFiniteSet(T)  BY <1>1
    <3>. HIDE DEF pick
    <3>. QED  BY ONLY <2>1, <2>3, <3>1, OneByOne
  <2>. HIDE DEF A, pick
  <2>. QED  BY <1>8, <2>2, <2>3
<1>11. it[T] = F[T]  BY <1>10
<1>12. F[T] = [c \in Colours |-> total[c][PairsOf(r)]]  BY <1>1 DEF F
<1>. QED  BY <1>2, <1>11, <1>12

\* The pixels that an area touches.
TouchedBy(w, h, area) ==
    {p \in (0..w - 1) \X (0..h - 1) :
        RectIntersects(Rectangle(Segment(p[1] * Unit, Unit), Segment(p[2] * Unit, Unit)), area)}

\* The rectangle that an area is rounded out to has the pixels that it touches.
LEMMA PixelAreaIs ==
    ASSUME NEW w \in Nat \ {0}, NEW h \in Nat \ {0}, NEW area \in Rectangles, ~RectEmpty(area)
    PROVE  /\ PixelArea(w, h, area) \in Rectangles
           /\ PairsOf(PixelArea(w, h, area)) = TouchedBy(w, h, area)
           /\ ~RectEmpty(PixelArea(w, h, area)) =>
                 PixelArea(w, h, area).h.start >= 0 /\ PixelArea(w, h, area).v.start >= 0
<1>. DEFINE a == PixelsOf(area.h, w)
            b == PixelsOf(area.v, h)
            r == PixelArea(w, h, area)
<1>0. ASSUME NEW x, NEW y PROVE Rectangle(x, y).h = x /\ Rectangle(x, y).v = y  BY DEF Rectangle
<1>1. area.h \in Segments /\ area.v \in Segments /\ ~IsEmpty(area.h) /\ ~IsEmpty(area.v)
  BY Sides DEF RectEmpty
<1>2. /\ a \in Segments
      /\ \A x : x \in Points(a) <=> x \in 0..w - 1 /\ Intersects(Segment(x * Unit, Unit), area.h)
  BY <1>1, PixelsAre
<1>3. /\ b \in Segments
      /\ \A y : y \in Points(b) <=> y \in 0..h - 1 /\ Intersects(Segment(y * Unit, Unit), area.v)
  BY <1>1, PixelsAre
<1>4. r = Rectangle(a, b)
  <2>. DEFINE layer == [width |-> w, height |-> h]
              all   == RectScaled(LayerRect(layer), Unit)
  <2>1. all = Rectangle(Scaled(Segment(0, w), Unit), Scaled(Segment(0, h), Unit))
    BY <1>0 DEF RectScaled, LayerRect
  <2>2. Overlap(area, all) = Rectangle(ValidPart(area.h, w, Unit), ValidPart(area.v, h, Unit))
    <3>. HIDE DEF all
    <3>. QED  BY <1>0, <2>1 DEF Overlap, ValidPart
  <2>3. RectRoundedOut(Overlap(area, all), Unit)
          = Rectangle(RoundedOut(ValidPart(area.h, w, Unit), Unit), RoundedOut(ValidPart(area.v, h, Unit), Unit))
    <3>. HIDE DEF all
    <3>. QED  BY <1>0, <2>2 DEF RectRoundedOut
  <2>. DEFINE o == RectRoundedOut(Overlap(area, all), Unit)
  <2>4. r = Rectangle(Segment(o.h.start \div Unit, o.h.size \div Unit),
                      Segment(o.v.start \div Unit, o.v.size \div Unit))
    BY DEF PixelArea
  <2>. HIDE DEF r, o
  <2>5. /\ o.h = RoundedOut(ValidPart(area.h, w, Unit), Unit)
        /\ o.v = RoundedOut(ValidPart(area.v, h, Unit), Unit)
    BY <1>0, <2>3 DEF o
  <2>. QED  BY <2>4, <2>5 DEF PixelsOf
<1>. HIDE DEF a, b, r
<1>5. r \in Rectangles /\ r.h = a /\ r.v = b  BY <1>2, <1>3, <1>4, IsRectangle
<1>6. PairsOf(r) = TouchedBy(w, h, area)
  <2>1. ASSUME NEW p \in (0..w - 1) \X (0..h - 1)
        PROVE  RectIntersects(Rectangle(Segment(p[1] * Unit, Unit), Segment(p[2] * Unit, Unit)), area)
                 <=> p[1] \in Points(a) /\ p[2] \in Points(b)
    <3>1. p[1] \in 0..w - 1 /\ p[2] \in 0..h - 1  OBVIOUS
    <3>. QED  BY <1>0, <1>2, <1>3, <3>1 DEF RectIntersects
  <2>2. Points(a) \subseteq 0..w - 1 /\ Points(b) \subseteq 0..h - 1  BY <1>2, <1>3
  <2>3. PairsOf(r) = Points(a) \X Points(b)  BY <1>5 DEF PairsOf
  <2>. DEFINE touches(p) == RectIntersects(Rectangle(Segment(p[1] * Unit, Unit), Segment(p[2] * Unit, Unit)), area)
  <2>4. TouchedBy(w, h, area) = {p \in (0..w - 1) \X (0..h - 1) : touches(p)}  BY DEF TouchedBy
  <2>5. \A p \in (0..w - 1) \X (0..h - 1) : touches(p) <=> p[1] \in Points(a) /\ p[2] \in Points(b)  BY <2>1
  <2>. HIDE DEF touches
  <2>. QED  BY <2>2, <2>3, <2>4, <2>5
<1>7. ASSUME ~RectEmpty(r) PROVE r.h.start >= 0 /\ r.v.start >= 0
  <2>1. ~IsEmpty(a) /\ ~IsEmpty(b)  BY <1>5, <1>7 DEF RectEmpty
  <2>2. a.start \in Points(a) /\ b.start \in Points(b)  BY <1>2, <1>3, <2>1, Fields, PointOf
  <2>3. a.start \in 0..w - 1 /\ b.start \in 0..h - 1  BY <1>2, <1>3, <2>2
  <2>. QED  BY <1>5, <2>3
<1>. QED  BY <1>5, <1>6, <1>7 DEF r

\* The averages of whatever values the pixels have are over those that are touched.
LEMMA AveragesOf ==
    ASSUME NEW w \in Nat \ {0}, NEW h \in Nat \ {0}, NEW area \in Rectangles, ~RectEmpty(area), NEW value,
           \A c \in Colours : \A x \in 0..w - 1, y \in 0..h - 1 : value[c][x][y] \in Int
    PROVE  GetPixelAverages(w, h, area, value) =
             IF TouchedBy(w, h, area) = {} THEN <<>>
             ELSE [c \in Colours |-> [sum |-> PairSum(value, c, TouchedBy(w, h, area)),
                                      of  |-> Cardinality(TouchedBy(w, h, area))]]
<1>. DEFINE r == PixelArea(w, h, area)
            touched == TouchedBy(w, h, area)
            total == r.h.size * r.v.size
<1>1. /\ r \in Rectangles /\ PairsOf(r) = touched
      /\ ~RectEmpty(r) => r.h.start >= 0 /\ r.v.start >= 0
  BY PixelAreaIs
<1>2. GetPixelAverages(w, h, area, value) =
          IF total = 0 THEN <<>> ELSE dividePipetteColors(TilesSum(value, r), total)
  BY DEF GetPixelAverages, TilesSum, SummedPart
<1>3. touched \subseteq (0..w - 1) \X (0..h - 1)  BY DEF TouchedBy
<1>. HIDE DEF r, touched
<1>4. IsFiniteSet(touched) /\ Cardinality(touched) = total  BY <1>1, FinitePairs
<1>5. total = 0 <=> touched = {}  BY <1>4, FS_EmptySet
<1>6. CASE total = 0  BY <1>2, <1>5, <1>6 DEF touched
<1>7. CASE total # 0
  <2>1. r.h.size \in Nat /\ r.v.size \in Nat  BY <1>1, Sides, Fields
  <2>2. ~RectEmpty(r)  BY <1>7, <2>1 DEF RectEmpty, IsEmpty
  <2>3. HasValues(value, r)
    <3>1. ASSUME NEW c \in Colours, NEW p \in touched PROVE value[c][p[1]][p[2]] \in Int
      <4>1. p[1] \in 0..w - 1 /\ p[2] \in 0..h - 1  BY <1>3
      <4>. QED  BY <4>1
    <3>. QED  BY <1>1, <3>1 DEF HasValues
  <2>4. PICK sums : TotalsFor(sums, value, r)  BY <1>1, <2>3, TotalsForExist
  <2>5. TilesSum(value, r) = [c \in Colours |-> sums[c][PairsOf(r)]]  BY <1>1, <2>2, <2>3, <2>4, SumOfTiles
  <2>6. \A c \in Colours : PairSum(value, c, PairsOf(r)) = sums[c][PairsOf(r)]
    BY <1>1, <2>3, <2>4, SumOfPairs
  <2>. HIDE DEF total
  <2>7. dividePipetteColors(TilesSum(value, r), total)
          = [c \in Colours |-> [sum |-> PairSum(value, c, touched), of |-> total]]
    BY <1>1, <2>5, <2>6 DEF dividePipetteColors
  <2>. QED  BY <1>2, <1>4, <1>5, <1>7, <2>7 DEF touched
<1>. QED  BY <1>6, <1>7

\* getPixelAverages() takes the averages over exactly the pixels that the area
\* touches, each once, whichever tiles they are in, for bitmaps and areas of
\* every size.
THEOREM AveragesAreOfArea ==
    \A w, h \in Nat \ {0}, area \in Rectangles : AveragesOverArea(w, h, area)
<1>. SUFFICES ASSUME NEW w \in Nat \ {0}, NEW h \in Nat \ {0}, NEW area \in Rectangles
              PROVE  AveragesOverArea(w, h, area)
  OBVIOUS
<1>. DEFINE value == [count |-> [x \in 0..w - 1 |-> [y \in 0..h - 1 |-> 1]],
                      x     |-> [x \in 0..w - 1 |-> [y \in 0..h - 1 |-> 2 ^ x]],
                      y     |-> [x \in 0..w - 1 |-> [y \in 0..h - 1 |-> 2 ^ y]]]
            touched == TouchedBy(w, h, area)
<1>1. \A n \in Nat : 2 ^ n \in Int  OBVIOUS
<1>2. \A c \in Colours : \A x \in 0..w - 1, y \in 0..h - 1 : value[c][x][y] \in Int
  <2>1. ASSUME NEW x \in 0..w - 1, NEW y \in 0..h - 1
        PROVE  value.count[x][y] \in Int /\ value.x[x][y] \in Int /\ value.y[x][y] \in Int
    <3>1. x \in Nat /\ y \in Nat  OBVIOUS
    <3>2. value.count[x][y] = 1 /\ value.x[x][y] = 2 ^ x /\ value.y[x][y] = 2 ^ y  OBVIOUS
    <3>. QED  BY <1>1, <3>1, <3>2
  <2>. HIDE DEF value
  <2>. QED  BY <2>1 DEF Colours
<1>3. AveragesOverArea(w, h, area) =
        (~RectEmpty(area) => GetPixelAverages(w, h, area, value) =
            IF touched = {} THEN <<>>
            ELSE [c \in Colours |-> [sum |-> PairSum(value, c, touched), of |-> Cardinality(touched)]])
  BY DEF AveragesOverArea, PairSum, TouchedBy, Colours
<1>. HIDE DEF value
<1>4. ~RectEmpty(area) =>
         GetPixelAverages(w, h, area, value) =
             IF touched = {} THEN <<>>
             ELSE [c \in Colours |-> [sum |-> PairSum(value, c, touched), of |-> Cardinality(touched)]]
  BY <1>2, AveragesOf
<1>. QED  BY <1>3, <1>4

-----------------------------------------------------------------------------
(* The layer operations: where reduce() finds the pixels of a tile, and    *)
(* where it puts those of the target, in bytes.                            *)

LEMMA SideIs ==
    Side \in Nat \ {0} /\ \E u \in Nat \ {0} : Side = 64 * u
<1>1. Side = 64 * (Side \div 64) /\ Side \div 64 \in Nat \ {0}  BY SideAssumption
<1>. QED  BY <1>1, SideAssumption

\* A reduction that counts in bytes what is right in pixels.
FitsInPlace(r) ==
    /\ r.bpp \in Nat \ {0} /\ r.into \in Nat \ {0}
    /\ r.stride \in Nat /\ 8 * r.stride = r.bpp * Side
    /\ r.step = r.bpp
    /\ r.targetStride \in Nat /\ 8 * r.targetStride = r.into * Side
    /\ \A at \in Place : /\ r.base[at] \in Nat
                         /\ 8 * r.base[at] = r.into * ((Side \div 8) * (at.y * Side + at.x))

LEMMA DividedBy ==
    ASSUME NEW n \in Int
    PROVE  /\ (8 * n) \div 8 = n /\ (4 * n) \div 4 = n /\ (2 * n) \div 2 = n /\ n \div 1 = n
           /\ (64 * n) \div 8 = 8 * n /\ (16 * n) \div 2 = 8 * n
OBVIOUS

\* Where the place at (x, y) of a target begins, in eighths of a byte per bit.
LEMMA PlaceIs ==
    ASSUME NEW u \in Nat \ {0}, Side = 64 * u, NEW at \in Place
    PROVE  /\ at.x \in 0..7 /\ at.y \in 0..7
           /\ (Side \div 8) * (at.y * Side + at.x) = 8 * (64 * (u * u * at.y) + u * at.x)
           /\ u * u * at.y \in Nat /\ u * at.x \in Nat
<1>1. at.x \in 0..7 /\ at.y \in 0..7  BY DEF Place
<1>2. Side \div 8 = 8 * u  BY DividedBy
<1>3. u * u \in Nat  OBVIOUS
<1>. DEFINE x == at.x
            y == at.y
<1>4. (8 * u) * (y * (64 * u) + x) = 8 * (64 * (u * u * y) + u * x)
  <2>. HIDE DEF x, y
  <2>1. x \in Nat /\ y \in Nat  BY <1>1 DEF x, y
  <2>. QED  BY <2>1
<1>5. u * u * at.y \in Nat /\ u * at.x \in Nat  BY <1>1, <1>3
<1>. QED  BY <1>1, <1>2, <1>4, <1>5

LEMMA PlainFit == FitsInPlace(Reduce1bpp) /\ FitsInPlace(Reduce8bpp) /\ FitsInPlace(Reduce24bpp)
                    /\ FitsInPlace(Reduce1bppClipped)
<1>1. PICK u \in Nat \ {0} : Side = 64 * u  BY SideIs
<1>2. Side \div 8 = 8 * u  BY <1>1
<1>3. ASSUME NEW at \in Place
      PROVE  /\ (Side * at.y * Side) \div 8 + (Side * at.x) \div 8 = 8 * (64 * (u * u * at.y) + u * at.x)
             /\ (Side * at.y * 3 * Side) \div 8 + (3 * Side * at.x) \div 8
                  = 3 * (8 * (64 * (u * u * at.y) + u * at.x))
             /\ (Side * at.y * (Side \div 8)) \div 8 + ((Side * at.x) \div 8) \div 8
                  = 64 * (u * u * at.y) + u * at.x
  <2>1. at.x \in Nat /\ at.y \in Nat  BY DEF Place
  <2>. DEFINE x == at.x
              y == at.y
              a == u * u * y
              b == u * x
  <2>2. a \in Nat /\ b \in Nat  BY <1>1, <2>1, PlaceIs
  <2>3. /\ (64 * u) * y * (64 * u) = 8 * (512 * a) /\ (64 * u) * x = 8 * (8 * b)
        /\ (64 * u) * y * 3 * (64 * u) = 8 * (1536 * a) /\ 3 * (64 * u) * x = 8 * (24 * b)
        /\ (64 * u) * y * (8 * u) = 8 * (64 * a)
    <3>. HIDE DEF x, y
    <3>1. x \in Nat /\ y \in Nat  BY <2>1 DEF x, y
    <3>. QED  BY <3>1
  <2>. HIDE DEF a, b
  <2>4. /\ (8 * (512 * a)) \div 8 = 512 * a /\ (8 * (8 * b)) \div 8 = 8 * b /\ (8 * b) \div 8 = b
        /\ (8 * (1536 * a)) \div 8 = 1536 * a /\ (8 * (24 * b)) \div 8 = 24 * b /\ (8 * (64 * a)) \div 8 = 64 * a
    BY <2>2
  <2>5. /\ (Side * y * Side) \div 8 + (Side * x) \div 8 = 512 * a + 8 * b
        /\ (Side * y * 3 * Side) \div 8 + (3 * Side * x) \div 8 = 1536 * a + 24 * b
        /\ (Side * y * (Side \div 8)) \div 8 + ((Side * x) \div 8) \div 8 = 64 * a + b
    <3>. HIDE DEF x, y
    <3>. QED  BY <1>1, <1>2, <2>3, <2>4
  <2>6. /\ 512 * a + 8 * b = 8 * (64 * a + b) /\ 1536 * a + 24 * b = 3 * (8 * (64 * a + b))  BY <2>2
  <2>. QED  BY <2>5, <2>6 DEF a, b
<1>4. \A at \in Place : /\ (Side \div 8) * (at.y * Side + at.x) = 8 * (64 * (u * u * at.y) + u * at.x)
                        /\ u * u * at.y \in Nat /\ u * at.x \in Nat
  BY <1>1, PlaceIs
<1>5. FitsInPlace(Reduce1bpp)
  BY <1>1, <1>2, <1>3, <1>4 DEF FitsInPlace, Reduce1bpp
<1>6. FitsInPlace(Reduce8bpp)
  BY <1>1, <1>2, <1>3, <1>4 DEF FitsInPlace, Reduce8bpp
<1>7. FitsInPlace(Reduce24bpp)
  BY <1>1, <1>2, <1>3, <1>4 DEF FitsInPlace, Reduce24bpp
<1>8. FitsInPlace(Reduce1bppClipped)
  BY <1>1, <1>2, <1>3, <1>4 DEF FitsInPlace, Reduce1bppClipped
<1>. QED  BY <1>5, <1>6, <1>7, <1>8

LEMMA IndexedFit == \A bps \in {1, 2, 4, 8} : FitsInPlace(ReduceIndexed(bps)) /\ FitsInPlace(ReduceColormapped(bps))
<1>1. PICK u \in Nat \ {0} : Side = 64 * u  BY SideIs
<1>2. ASSUME NEW at \in Place
      PROVE  /\ u * u * at.y \in Nat /\ u * at.x \in Nat /\ at.x \in Nat /\ at.y \in Nat
             /\ (Side \div 8) * (at.y * Side + at.x) = 8 * (64 * (u * u * at.y) + u * at.x)
  BY <1>1, PlaceIs
<1>3. ASSUME NEW bps \in {1, 2, 4, 8}
      PROVE  /\ PixelsPerByte(bps) \in Nat \ {0} /\ bps * PixelsPerByte(bps) = 8
             /\ Side \div PixelsPerByte(bps) = 8 * (bps * u)
             /\ (2 * Side) \div PixelsPerByte(bps) = 16 * (bps * u)
             /\ 8 \div PixelsPerByte(bps) = bps /\ (8 * 2) \div PixelsPerByte(bps) = 2 * bps
             /\ \A n \in Nat : (16 * n) \div PixelsPerByte(bps) = 2 * (bps * n)
  <2>1. CASE bps = 1  BY <1>1, <2>1 DEF PixelsPerByte
  <2>2. CASE bps = 2  BY <1>1, <2>2 DEF PixelsPerByte
  <2>3. CASE bps = 4  BY <1>1, <2>3 DEF PixelsPerByte
  <2>4. CASE bps = 8  BY <1>1, <2>4 DEF PixelsPerByte
  <2>. QED  BY <2>1, <2>2, <2>3, <2>4
<1>4. ASSUME NEW bps \in {1, 2, 4, 8}, NEW at \in Place
      PROVE  /\ (Side * (16 * (bps * u)) * at.y) \div 8 + ((2 * Side * at.x) \div 8) \div PixelsPerByte(bps)
                  = 2 * (bps * (64 * (u * u * at.y) + u * at.x))
             /\ (Side * at.y * (16 * (bps * u))) \div 8 + ((2 * Side * at.x) \div 8) \div PixelsPerByte(bps)
                  = 2 * (bps * (64 * (u * u * at.y) + u * at.x))
  <2>. DEFINE x == at.x
              y == at.y
              a == u * u * y
              b == u * x
  <2>1. a \in Nat /\ b \in Nat /\ bps \in Nat /\ bps * a \in Nat  BY <1>2
  <2>2. /\ (64 * u) * (16 * (bps * u)) * y = 8 * (128 * (bps * a))
        /\ (64 * u) * y * (16 * (bps * u)) = 8 * (128 * (bps * a))
        /\ 2 * (64 * u) * x = 8 * (16 * b)
    <3>0. x \in Nat /\ y \in Nat  BY <1>2
    <3>. HIDE DEF x, y
    <3>. QED  BY <2>1, <3>0
  <2>3. (16 * b) \div PixelsPerByte(bps) = 2 * (bps * b)  BY <1>3, <2>1
  <2>. HIDE DEF x, y, a, b
  <2>4. /\ (8 * (128 * (bps * a))) \div 8 = 128 * (bps * a) /\ (8 * (16 * b)) \div 8 = 16 * b
    <3>1. 128 * (bps * a) \in Int /\ 16 * b \in Int  BY <2>1
    <3>. QED  BY <3>1, DividedBy
  <2>5. 128 * (bps * a) + 2 * (bps * b) = 2 * (bps * (64 * a + b))  BY <2>1
  <2>6. /\ (Side * (16 * (bps * u)) * y) \div 8 + ((2 * Side * x) \div 8) \div PixelsPerByte(bps)
             = 128 * (bps * a) + 2 * (bps * b)
        /\ (Side * y * (16 * (bps * u))) \div 8 + ((2 * Side * x) \div 8) \div PixelsPerByte(bps)
             = 128 * (bps * a) + 2 * (bps * b)
    BY <1>1, <2>2, <2>3, <2>4
  <2>. QED  BY <2>5, <2>6 DEF x, y, a, b
<1>. SUFFICES ASSUME NEW bps \in {1, 2, 4, 8}
              PROVE  FitsInPlace(ReduceIndexed(bps)) /\ FitsInPlace(ReduceColormapped(bps))
  OBVIOUS
<1>5. ASSUME NEW at \in Place
      PROVE  LET n == 64 * (u * u * at.y) + u * at.x
             IN  2 * (bps * n) \in Nat /\ 8 * (2 * (bps * n)) = (2 * bps) * (8 * n)
  <2>. DEFINE n == 64 * (u * u * at.y) + u * at.x
  <2>1. n \in Nat  BY <1>2
  <2>. HIDE DEF n
  <2>2. 2 * (bps * n) \in Nat /\ 8 * (2 * (bps * n)) = (2 * bps) * (8 * n)  BY <2>1
  <2>. QED  BY <2>2 DEF n
<1>6. /\ 8 * (bps * u) \in Nat /\ 16 * (bps * u) \in Nat
      /\ 8 * (8 * (bps * u)) = bps * Side /\ 8 * (16 * (bps * u)) = (2 * bps) * Side
  BY <1>1
<1>7. FitsInPlace(ReduceIndexed(bps))
  <2>. DEFINE r == ReduceIndexed(bps)
  <2>1. /\ r.bpp = bps /\ r.into = 2 * bps /\ r.stride = 8 * (bps * u) /\ r.step = bps
        /\ r.targetStride = 16 * (bps * u)
    BY <1>3 DEF ReduceIndexed
  <2>2. ASSUME NEW at \in Place
        PROVE  r.base[at] \in Nat /\ 8 * r.base[at] = r.into * ((Side \div 8) * (at.y * Side + at.x))
    <3>1. r.base[at] = (Side * (16 * (bps * u)) * at.y) \div 8 + ((2 * Side * at.x) \div 8) \div PixelsPerByte(bps)
      BY <1>3 DEF ReduceIndexed
    <3>. DEFINE n == 64 * (u * u * at.y) + u * at.x
    <3>2. r.base[at] = 2 * (bps * n)  BY <1>4, <3>1
    <3>3. 2 * (bps * n) \in Nat /\ 8 * (2 * (bps * n)) = (2 * bps) * (8 * n)  BY <1>5
    <3>4. (Side \div 8) * (at.y * Side + at.x) = 8 * n  BY <1>2
    <3>5. r.into = 2 * bps  BY <2>1
    <3>. HIDE DEF n, r
    <3>. QED  BY <3>2, <3>3, <3>4, <3>5
  <2>. HIDE DEF r
  <2>3. FitsInPlace(r)  BY <1>6, <2>1, <2>2 DEF FitsInPlace
  <2>. QED  BY <2>3 DEF r
<1>8. FitsInPlace(ReduceColormapped(bps))
  <2>. DEFINE r == ReduceColormapped(bps)
  <2>1. /\ r.bpp = 2 * bps /\ r.into = 2 * bps /\ r.stride = 16 * (bps * u) /\ r.step = 2 * bps
        /\ r.targetStride = 16 * (bps * u)
    BY <1>3 DEF ReduceColormapped
  <2>2. ASSUME NEW at \in Place
        PROVE  r.base[at] \in Nat /\ 8 * r.base[at] = r.into * ((Side \div 8) * (at.y * Side + at.x))
    <3>1. r.base[at] = (Side * at.y * (16 * (bps * u))) \div 8 + ((2 * Side * at.x) \div 8) \div PixelsPerByte(bps)
      BY <1>3 DEF ReduceColormapped
    <3>. DEFINE n == 64 * (u * u * at.y) + u * at.x
    <3>2. r.base[at] = 2 * (bps * n)  BY <1>4, <3>1
    <3>3. 2 * (bps * n) \in Nat /\ 8 * (2 * (bps * n)) = (2 * bps) * (8 * n)  BY <1>5
    <3>4. (Side \div 8) * (at.y * Side + at.x) = 8 * n  BY <1>2
    <3>5. r.into = 2 * bps  BY <2>1
    <3>. HIDE DEF n, r
    <3>. QED  BY <3>2, <3>3, <3>4, <3>5
  <2>. HIDE DEF r
  <2>3. FitsInPlace(r)  BY <1>6, <2>1, <2>2 DEF FitsInPlace
  <2>. QED  BY <2>3 DEF r
<1>. QED  BY <1>7, <1>8

LEMMA CMYKFit ==
    FitsInPlace(ReduceCMYK32) /\ FitsInPlace(ReduceCMYK16) /\ FitsInPlace(ReduceCMYK8) /\ FitsInPlace(ReduceCMYK4)
<1>1. PICK u \in Nat \ {0} : Side = 64 * u  BY SideIs
<1>2. ASSUME NEW at \in Place
      PROVE  /\ PlaceInCMYK32[at] \in Nat
             /\ 8 * PlaceInCMYK32[at] = 32 * ((Side \div 8) * (at.y * Side + at.x))
  <2>1. at.x \in Nat /\ at.y \in Nat /\ Side \div 8 = 8 * u  BY <1>1 DEF Place
  <2>. DEFINE n == at.y * Side + at.x
  <2>2. n \in Nat /\ u * n \in Nat  BY <1>1, <2>1
  <2>3. Side * at.y = at.y * Side /\ (8 * Side) \div 2 = 256 * u  BY <1>1, <2>1
  <2>. HIDE DEF n
  <2>4. (n * (256 * u)) \div 8 = 32 * (u * n)
    <3>1. n * (256 * u) = 8 * (32 * (u * n)) /\ 32 * (u * n) \in Int  BY <2>2
    <3>. QED  BY <3>1, DividedBy
  <2>5. PlaceInCMYK32[at] = 32 * (u * n)  BY <2>3, <2>4 DEF PlaceInCMYK32, n
  <2>6. 8 * (32 * (u * n)) = 32 * ((8 * u) * n)  BY <2>2
  <2>. QED  BY <2>1, <2>2, <2>5, <2>6 DEF n
<1>. DEFINE places == PlaceInCMYK32
<1>. HIDE DEF places
<1>3. /\ (8 * Side) \div 2 = 256 * u /\ (4 * Side) \div 2 = 128 * u /\ Side \div 2 = 32 * u  BY <1>1
<1>4. FitsInPlace(ReduceCMYK32)  BY <1>1, <1>2, <1>3 DEF FitsInPlace, ReduceCMYK32
<1>5. FitsInPlace(ReduceCMYK16)  BY <1>1, <1>2, <1>3 DEF FitsInPlace, ReduceCMYK16
<1>6. FitsInPlace(ReduceCMYK8)  BY <1>1, <1>2, <1>3 DEF FitsInPlace, ReduceCMYK8
<1>7. FitsInPlace(ReduceCMYK4)  BY <1>1, <1>2, <1>3 DEF FitsInPlace, ReduceCMYK4
<1>. QED  BY <1>4, <1>5, <1>6, <1>7

\* The layer operations, one by one.
LEMMA OperationsAre ==
    ASSUME NEW op \in LayerOperations
    PROVE  \/ op = Op("1bpp", 1) \/ op = Op("8bpp", 8) \/ op = Op("24bpp", 8) \/ op = Op("1bppClipped", 1)
           \/ \E bps \in {1, 2, 4, 8} : op = Op("indexed", bps) \/ op = Op("colormapped", bps) \/ op = Op("cmyk", bps)
BY DEF LayerOperations

LEMMA ReductionsFit ==
    ASSUME NEW op \in LayerOperations
    PROVE  /\ FitsInPlace(ReductionOf(op))
           /\ Indexed(op) => \E bps \in Nat : TargetBpp(op) = 2 * bps
<1>1. CASE op = Op("1bpp", 1)
  <2>1. ReductionOf(op) = Reduce1bpp /\ ~Indexed(op)  BY <1>1 DEF ReductionOf, Op, Indexed
  <2>. QED  BY <2>1, PlainFit
<1>2. CASE op = Op("8bpp", 8)
  <2>1. ReductionOf(op) = Reduce8bpp /\ ~Indexed(op)  BY <1>2 DEF ReductionOf, Op, Indexed
  <2>. QED  BY <2>1, PlainFit
<1>3. CASE op = Op("24bpp", 8)
  <2>1. ReductionOf(op) = Reduce24bpp /\ ~Indexed(op)  BY <1>3 DEF ReductionOf, Op, Indexed
  <2>. QED  BY <2>1, PlainFit
<1>4. CASE op = Op("1bppClipped", 1)
  <2>1. ReductionOf(op) = Reduce1bppClipped /\ ~Indexed(op)  BY <1>4 DEF ReductionOf, Op, Indexed
  <2>. QED  BY <2>1, PlainFit
<1>5. ASSUME NEW bps \in {1, 2, 4, 8}, op = Op("indexed", bps)
      PROVE  FitsInPlace(ReductionOf(op)) /\ TargetBpp(op) = 2 * bps
  <2>1. ReductionOf(op) = ReduceIndexed(bps)  BY <1>5 DEF ReductionOf, Op
  <2>2. ReduceIndexed(bps).into = 2 * bps  BY DEF ReduceIndexed
  <2>. QED  BY <2>1, <2>2, IndexedFit DEF TargetBpp
<1>6. ASSUME NEW bps \in {1, 2, 4, 8}, op = Op("colormapped", bps)
      PROVE  FitsInPlace(ReductionOf(op)) /\ TargetBpp(op) = 2 * bps
  <2>1. ReductionOf(op) = ReduceColormapped(bps)  BY <1>6 DEF ReductionOf, Op
  <2>2. ReduceColormapped(bps).into = 2 * bps  BY DEF ReduceColormapped
  <2>. QED  BY <2>1, <2>2, IndexedFit DEF TargetBpp
<1>7. ASSUME NEW bps \in {1, 2, 4, 8}, op = Op("cmyk", bps)
      PROVE  FitsInPlace(ReductionOf(op)) /\ ~Indexed(op)
  <2>1. ReductionOf(op) = CASE bps = 8 -> ReduceCMYK32 [] bps = 4 -> ReduceCMYK16
                            [] bps = 2 -> ReduceCMYK8 [] bps = 1 -> ReduceCMYK4
    BY <1>7 DEF ReductionOf, Op
  <2>2. ReductionOf(op) \in {ReduceCMYK32, ReduceCMYK16, ReduceCMYK8, ReduceCMYK4}  BY <2>1
  <2>3. ~Indexed(op)  BY <1>7 DEF Indexed, Op
  <2>. QED  BY <2>2, <2>3, CMYKFit
<1>8. \A bps \in {1, 2, 4, 8} : bps \in Nat  OBVIOUS
<1>. QED  BY <1>1, <1>2, <1>3, <1>4, <1>5, <1>6, <1>7, <1>8, OperationsAre

LEMMA Multiples ==
    ASSUME NEW b \in Nat \ {0}, NEW k \in Nat
    PROVE  (b * k) \div b = k /\ (b * k) % b = 0
OBVIOUS

LEMMA RowAndColumn ==
    ASSUME NEW j \in Nat, NEW i \in 0..Side - 1
    PROVE  (j * Side + i) % Side = i /\ (j * Side + i) \div Side = j
<1>. DEFINE n == j * Side + i
<1>1. Side \in Nat \ {0} /\ n \in Nat  BY SideAssumption
<1>2. n \div Side = j  BY <1>1
<1>. QED  BY <1>1, <1>2

\* The address of the pixel in column m of row j counts the bits of those before it.
IsAddress(address, bpp, m, j) == 8 * address = bpp * (j * Side + m)

LEMMA PixelFound ==
    ASSUME NEW bpp \in Nat \ {0}, NEW address \in Nat, NEW m \in Nat, NEW j \in Nat, NEW n \in Nat,
           m + n < Side, IsAddress(address, bpp, m, j)
    PROVE  PixelAt(address, n, bpp) = <<m + n, j>> /\ OnPixel(address, bpp)
<1>1. Side \in Nat \ {0}  BY SideAssumption
<1>2. j * Side + m \in Nat  BY <1>1
<1>3. (8 * address) \div bpp = j * Side + m /\ (8 * address) % bpp = 0
  BY <1>2, Multiples DEF IsAddress
<1>4. m + n \in 0..Side - 1  BY <1>1
<1>5. (j * Side + m) + n = j * Side + (m + n)  BY <1>1
<1>. QED  BY <1>3, <1>4, <1>5, RowAndColumn DEF PixelAt, OnPixel

\* One of the pixels that reduce() reads for pixel (i, j) of the target, and which
\* it ought to be.
SourcePixel(r, i, j, k, l) == PixelAt((8 * j + k) * r.stride + i * r.step, l, r.bpp)
MeantPixel(i, j, k, l) == <<8 * i + l, 8 * j + k>>

LEMMA SourcePixelIs ==
    ASSUME NEW r, FitsInPlace(r), NEW i \in Nat, NEW j \in Nat, NEW k \in Nat, NEW l \in Nat, 8 * i + l < Side
    PROVE  SourcePixel(r, i, j, k, l) = MeantPixel(i, j, k, l)
<1>. DEFINE b == r.bpp
            s == r.stride
            y == 8 * j + k
<1>0. y \in Nat  OBVIOUS
<1>1. b \in Nat \ {0} /\ s \in Nat /\ 8 * s = b * Side /\ r.step = b  BY DEF FitsInPlace
<1>2. SourcePixel(r, i, j, k, l) = PixelAt(y * s + i * b, l, b)  BY <1>1 DEF SourcePixel
<1>. HIDE DEF b, s, y
<1>3. Side \in Nat  BY SideAssumption
<1>4. y * s \in Nat /\ i * b \in Nat /\ 8 * i \in Nat  BY <1>0, <1>1
<1>5. y * s + i * b \in Nat  BY <1>4
<1>6. 8 * (y * s) = y * (8 * s)  BY <1>0, <1>1
<1>7. y * (b * Side) + 8 * (i * b) = b * (y * Side + 8 * i)  BY <1>0, <1>1, <1>3
<1>8. 8 * (y * s + i * b) = 8 * (y * s) + 8 * (i * b)  BY <1>4
<1>9. IsAddress(y * s + i * b, b, 8 * i, y)  BY ONLY <1>1, <1>6, <1>7, <1>8 DEF IsAddress
<1>10. PixelAt(y * s + i * b, l, b) = <<8 * i + l, y>>  BY <1>0, <1>1, <1>4, <1>5, <1>9, PixelFound
<1>. QED  BY <1>2, <1>10 DEF y, MeantPixel

\* The pixels that reduce() reads for pixel (i, j) of the target.
LEMMA SourceFound ==
    ASSUME NEW op \in LayerOperations, NEW i \in 0..Side \div 8 - 1, NEW j \in 0..Side \div 8 - 1
    PROVE  SourcePixels(op, i, j) = {<<8 * i + l, 8 * j + k>> : k \in 0..7, l \in 0..7}
<1>. DEFINE r == ReductionOf(op)
<1>1. SourcePixels(op, i, j) = {SourcePixel(r, i, j, k, l) : k \in 0..7, l \in 0..7}
  BY DEF SourcePixels, SourcePixel
<1>2. ASSUME NEW k \in 0..7, NEW l \in 0..7
      PROVE  SourcePixel(r, i, j, k, l) = MeantPixel(i, j, k, l)
  <2>1. PICK u \in Nat \ {0} : Side = 64 * u  BY SideIs
  <2>2. i \in Nat /\ j \in Nat /\ k \in Nat /\ l \in Nat /\ 8 * i + l < Side  BY <2>1
  <2>3. FitsInPlace(r)  BY ReductionsFit
  <2>. HIDE DEF r
  <2>. QED  BY <2>2, <2>3, SourcePixelIs
<1>. HIDE DEF r
<1>3. {SourcePixel(r, i, j, k, l) : k \in 0..7, l \in 0..7} = {MeantPixel(i, j, k, l) : k \in 0..7, l \in 0..7}
  BY <1>2
<1>. QED  BY <1>1, <1>3 DEF MeantPixel

\* The pixel that it writes.
LEMMA TargetFound ==
    ASSUME NEW op \in LayerOperations, NEW x \in 0..7, NEW y \in 0..7,
           NEW i \in 0..Side \div 8 - 1, NEW j \in 0..Side \div 8 - 1
    PROVE  /\ TargetPixel(op, x, y, i, j) = <<x * (Side \div 8) + i, y * (Side \div 8) + j>>
           /\ OnPixel(TargetRow(op, x, y, j), TargetBpp(op))
           /\ Indexed(op) => TargetRow(op, x, y, j) % 2 = 0
<1>. DEFINE r == ReductionOf(op)
            at == [x |-> x, y |-> y]
            row == TargetRow(op, x, y, j)
<1>1. PICK u \in Nat \ {0} : Side = 64 * u  BY SideIs
<1>2. i \in Nat /\ j \in Nat /\ i < 8 * u /\ Side = 64 * u /\ Side \div 8 = 8 * u  BY <1>1
<1>3. at \in Place /\ at.x = x /\ at.y = y  BY DEF Place
<1>4. /\ r.into \in Nat \ {0} /\ r.targetStride \in Nat /\ 8 * r.targetStride = r.into * Side
      /\ r.base[at] \in Nat /\ 8 * r.base[at] = r.into * ((8 * u) * (y * Side + x))
  BY <1>2, <1>3, ReductionsFit DEF FitsInPlace
<1>5. row = r.base[at] + j * r.targetStride  BY DEF TargetRow
<1>. DEFINE c == r.into
            t == r.targetStride
            b == r.base[at]
            n == (y * (8 * u) + j) * 8 + x
<1>. HIDE DEF r, at, row
<1>6. j * t \in Nat /\ 8 * (j * t) = j * (8 * t)  BY <1>2, <1>4
<1>7. 8 * row = c * ((8 * u) * n) /\ row \in Nat /\ n \in Nat
  <2>. HIDE DEF c, t, b
  <2>1. b \in Nat /\ c \in Nat /\ t \in Nat  BY <1>4 DEF c, t, b
  <2>2. c * ((8 * u) * (y * (64 * u) + x)) + j * (c * (64 * u)) = c * ((8 * u) * n)  BY <1>2, <2>1
  <2>3. 8 * row = c * ((8 * u) * (y * (64 * u) + x)) + j * (c * (64 * u))
    <3>1. 8 * t = c * (64 * u) /\ 8 * b = c * ((8 * u) * (y * (64 * u) + x))  BY <1>2, <1>4 DEF c, t, b
    <3>2. row = b + j * t  BY <1>5 DEF t, b
    <3>. QED  BY <1>6, <2>1, <3>1, <3>2
  <2>4. row \in Nat  BY <1>5, <1>6, <2>1 DEF t, b
  <2>5. n \in Nat  BY <1>2
  <2>. QED  BY <2>2, <2>3, <2>4, <2>5
<1>8. (8 * u) * n = (y * (8 * u) + j) * Side + x * (8 * u)  BY <1>2
<1>. DEFINE column == x * (8 * u)
            line == y * (8 * u) + j
<1>9. column \in Nat /\ line \in Nat /\ column + i < Side
  <2>1. x * (8 * u) <= 7 * (8 * u)  BY <1>1
  <2>. QED  BY <1>1, <1>2, <2>1
<1>10. 8 * row = c * (line * Side + column)  BY <1>7, <1>8
<1>11. PixelAt(row, i, c) = <<column + i, line>> /\ OnPixel(row, c)
  <2>. HIDE DEF c, column, line
  <2>1. c \in Nat \ {0}  BY <1>4 DEF c
  <2>2. IsAddress(row, c, column, line)  BY <1>10 DEF IsAddress
  <2>. QED  BY <1>2, <1>7, <1>9, <2>1, <2>2, PixelFound
<1>12. TargetPixel(op, x, y, i, j) = PixelAt(row, i, c) /\ TargetBpp(op) = c
  BY DEF TargetPixel, TargetBpp, row, r
<1>13. ASSUME Indexed(op) PROVE row % 2 = 0
  <2>1. PICK bps \in Nat : c = 2 * bps  BY <1>12, <1>13, ReductionsFit
  <2>. HIDE DEF c, n
  <2>2. u * n \in Nat /\ bps * (u * n) \in Nat  BY <1>7
  <2>3. (2 * bps) * ((8 * u) * n) = 8 * (2 * (bps * (u * n)))  BY <1>7
  <2>4. row = 2 * (bps * (u * n))  BY <1>7, <2>1, <2>2, <2>3
  <2>. QED  BY <2>2, <2>4
<1>14. PixelAt(row, i, c) = <<x * (Side \div 8) + i, y * (Side \div 8) + j>>  BY <1>2, <1>11
<1>. QED  BY <1>11, <1>12, <1>13, <1>14 DEF row

\* Every layer operation reduces each tile into its own place in the target, pixel
\* by pixel, for tiles of any size.
THEOREM ReductionsStayInPlace ==
    \A op \in LayerOperations, x, y \in 0..7, i, j \in 0..Side \div 8 - 1 : ReducesInPlace(op, x, y, i, j)
BY SMTT(30), SourceFound, TargetFound DEF ReducesInPlace

-----------------------------------------------------------------------------
(* Drawing: the row that cache() reads, and the place in the view.         *)

\* The row that cache() reads.
LEMMA CacheFits ==
    ASSUME NEW op \in LayerOperations, NEW j \in Nat, NEW v
    PROVE  /\ CacheOf(op, j, v).row \in Nat
           /\ IsAddress(CacheOf(op, j, v).row, GetBpp(op), 0, j)
<1>. DEFINE row == CacheOf(op, j, v).row
            Fits(n, bpp) == n \in Nat /\ 8 * n = bpp * (j * Side)
<1>1. PICK u \in Nat \ {0} : Side = 64 * u  BY SideIs
<1>2. j * u \in Nat /\ j * Side = 64 * (j * u) /\ Side * j = 64 * (j * u)  BY <1>1
<1>3. ASSUME op = Op("1bpp", 1) \/ op = Op("1bppClipped", 1) PROVE Fits(row, GetBpp(op))
  <2>1. row = (j * Side) \div 8  BY <1>3 DEF CacheOf, Cache1bpp, Cached, Op
  <2>2. GetBpp(op) = 1  BY <1>3 DEF GetBpp, ReductionOf, Reduce1bpp, Reduce1bppClipped, Op
  <2>. HIDE DEF row
  <2>. QED  BY <1>2, <2>1, <2>2
<1>4. ASSUME op = Op("8bpp", 8) PROVE Fits(row, GetBpp(op))
  <2>1. row = j * Side  BY <1>4 DEF CacheOf, Cache8bpp, Cached, Op
  <2>2. GetBpp(op) = 8  BY <1>4 DEF GetBpp, ReductionOf, Reduce8bpp, Op
  <2>. HIDE DEF row
  <2>. QED  BY <1>2, <2>1, <2>2
<1>5. ASSUME op = Op("24bpp", 8) PROVE Fits(row, GetBpp(op))
  <2>1. row = 3 * j * Side  BY <1>5 DEF CacheOf, Cache24bpp, Cached, Op
  <2>2. GetBpp(op) = 24  BY <1>5 DEF GetBpp, ReductionOf, Reduce24bpp, Op
  <2>3. 3 * j * Side = 3 * (j * Side)  BY <1>1
  <2>. HIDE DEF row
  <2>. QED  BY <1>2, <2>1, <2>2, <2>3
<1>6. ASSUME NEW bps \in {1, 2, 4, 8}
      PROVE  /\ PixelsPerByte(bps) \in {1, 2, 4, 8}
             /\ \A n \in Nat : (64 * n) \div PixelsPerByte(bps) = 8 * (bps * n)
             /\ \A n \in Nat : (128 * n) \div PixelsPerByte(bps) = 16 * (bps * n)
  <2>1. CASE bps = 1  BY <2>1 DEF PixelsPerByte
  <2>2. CASE bps = 2  BY <2>2 DEF PixelsPerByte
  <2>3. CASE bps = 4  BY <2>3 DEF PixelsPerByte
  <2>4. CASE bps = 8  BY <2>4 DEF PixelsPerByte
  <2>. QED  BY <2>1, <2>2, <2>3, <2>4
<1>7. ASSUME NEW bps \in {1, 2, 4, 8}, op = Op("indexed", bps) PROVE Fits(row, GetBpp(op))
  <2>1. row = (j * Side) \div PixelsPerByte(bps)  BY <1>7 DEF CacheOf, CacheIndexed, Cached, Op
  <2>2. GetBpp(op) = bps  BY <1>7 DEF GetBpp, ReductionOf, ReduceIndexed, Op
  <2>3. row = 8 * (bps * (j * u))  BY <1>2, <1>6, <2>1
  <2>. HIDE DEF row
  <2>. QED  BY <1>2, <2>2, <2>3
<1>8. ASSUME NEW bps \in {1, 2, 4, 8}, op = Op("colormapped", bps) PROVE Fits(row, GetBpp(op))
  <2>1. row = (2 * j * Side) \div PixelsPerByte(bps)  BY <1>8 DEF CacheOf, CacheColormapped, Cached, Op
  <2>2. GetBpp(op) = 2 * bps  BY <1>8 DEF GetBpp, ReductionOf, ReduceColormapped, Op
  <2>3. 2 * j * Side = 128 * (j * u)  BY <1>1
  <2>4. row = 16 * (bps * (j * u))  BY <1>2, <1>6, <2>1, <2>3
  <2>. HIDE DEF row
  <2>. QED  BY <1>2, <2>2, <2>4
<1>9. ASSUME NEW bps \in {1, 2, 4, 8}, op = Op("cmyk", bps) PROVE Fits(row, GetBpp(op))
  <2>1. CASE bps = 8
    <3>1. row = 4 * Side * j  BY <1>9, <2>1 DEF CacheOf, CacheCMYK32, Cached, Op
    <3>2. GetBpp(op) = 32  BY <1>9, <2>1 DEF GetBpp, ReductionOf, ReduceCMYK32, Op
    <3>3. 4 * Side * j = 4 * (j * Side)  BY <1>1
    <3>. HIDE DEF row
    <3>. QED  BY <1>2, <3>1, <3>2, <3>3
  <2>2. CASE bps = 4
    <3>1. row = 2 * Side * j  BY <1>9, <2>2 DEF CacheOf, CacheCMYK16, Cached, Op
    <3>2. GetBpp(op) = 16  BY <1>9, <2>2 DEF GetBpp, ReductionOf, ReduceCMYK16, Op
    <3>3. 2 * Side * j = 2 * (j * Side)  BY <1>1
    <3>. HIDE DEF row
    <3>. QED  BY <1>2, <3>1, <3>2, <3>3
  <2>3. CASE bps = 2
    <3>1. row = Side * j  BY <1>9, <2>3 DEF CacheOf, CacheCMYK8, Cached, Op
    <3>2. GetBpp(op) = 8  BY <1>9, <2>3 DEF GetBpp, ReductionOf, ReduceCMYK8, Op
    <3>. HIDE DEF row
    <3>. QED  BY <1>2, <3>1, <3>2
  <2>4. CASE bps = 1
    <3>1. row = (Side * j) \div 2  BY <1>9, <2>4 DEF CacheOf, CacheCMYK4, Cached, Op
    <3>2. GetBpp(op) = 4  BY <1>9, <2>4 DEF GetBpp, ReductionOf, ReduceCMYK4, Op
    <3>. HIDE DEF row
    <3>. QED  BY <1>2, <3>1, <3>2
  <2>. QED  BY <2>1, <2>2, <2>3, <2>4
<1>10. Fits(row, GetBpp(op))
  <2>. HIDE DEF row
  <2>. QED  BY <1>3, <1>4, <1>5, <1>7, <1>8, <1>9, OperationsAre
<1>11. j * Side + 0 = j * Side  BY <1>2
<1>. QED  BY <1>10, <1>11 DEF IsAddress

\* The pixel in a column of a row that begins at an address.
LEMMA ColumnFound ==
    ASSUME NEW bpp \in Nat \ {0}, NEW address \in Nat, NEW j \in Nat, IsAddress(address, bpp, 0, j)
    PROVE  \A n \in Nat : n < Side => PixelAt(address, n, bpp) = <<n, j>>
<1>. SUFFICES ASSUME NEW n \in Nat, n < Side PROVE PixelAt(address, n, bpp) = <<n, j>>  OBVIOUS
<1>1. 0 + n = n  OBVIOUS
<1>2. PixelAt(address, n, bpp) = <<0 + n, j>>  BY <1>1, PixelFound
<1>. QED  BY <1>1, <1>2

\* What cache() draws at (i, j) is the pixel there.
LEMMA CachedFound ==
    ASSUME NEW op \in LayerOperations, NEW i \in 0..Side - 1, NEW j \in Nat
    PROVE  CachedPixel(op, i, j) = <<i, j>>
<1>. DEFINE row == CacheOf(op, j, IF op.name = "colormapped" THEN <<0, 0>> ELSE 0).row
            bpp == GetBpp(op)
<1>1. row \in Nat /\ IsAddress(row, bpp, 0, j)  BY CacheFits
<1>2. bpp \in Nat \ {0}  BY ReductionsFit DEF GetBpp, FitsInPlace
<1>3. CachedPixel(op, i, j) = PixelAt(row, i, bpp)  BY DEF CachedPixel
<1>. HIDE DEF row, bpp
<1>4. \A n \in Nat : n < Side => PixelAt(row, n, bpp) = <<n, j>>  BY <1>1, <1>2, ColumnFound
<1>5. i \in Nat /\ i < Side  BY SideAssumption
<1>. QED  BY <1>3, <1>4, <1>5

\* The sizes of a pixel at the zoom levels of a view.
LEMMA PixelSizes ==
    ASSUME NEW zoom \in -2..5
    PROVE  /\ zoom > 0 => 2 ^ zoom \in Nat \ {0} /\ 2 ^ (zoom + 2) = 4 * 2 ^ zoom
           /\ zoom <= 0 => 2 ^ (-zoom) \in {1, 2, 4} /\ 2 ^ (zoom + 2) \in Nat /\ 2 ^ (zoom + 2) * 2 ^ (-zoom) = 4
<1>1. /\ 2 ^ 0 = 1 /\ 2 ^ 1 = 2 /\ 2 ^ 2 = 4 /\ 2 ^ 3 = 8
      /\ 2 ^ 4 = 16 /\ 2 ^ 5 = 32 /\ 2 ^ 6 = 64 /\ 2 ^ 7 = 128
  BY SMT
<1>2. zoom + 2 = 0 \/ zoom + 2 = 1 \/ zoom + 2 = 2 \/ zoom \in {1, 2, 3, 4, 5}  OBVIOUS
<1>3. CASE zoom + 2 = 0
  <2>1. -zoom = 2 /\ zoom <= 0  BY <1>3
  <2>2. 2 ^ (-zoom) = 4  BY <1>1, <2>1
  <2>3. 2 ^ (zoom + 2) = 1  BY <1>1, <1>3
  <2>. QED  BY <2>1, <2>2, <2>3
<1>4. CASE zoom + 2 = 1
  <2>1. -zoom = 1 /\ zoom <= 0  BY <1>4
  <2>2. 2 ^ (-zoom) = 2  BY <1>1, <2>1
  <2>3. 2 ^ (zoom + 2) = 2  BY <1>1, <1>4
  <2>. QED  BY <2>1, <2>2, <2>3
<1>5. CASE zoom + 2 = 2
  <2>1. -zoom = 0 /\ zoom <= 0  BY <1>5
  <2>2. 2 ^ (-zoom) = 1  BY <1>1, <2>1
  <2>3. 2 ^ (zoom + 2) = 4  BY <1>1, <1>5
  <2>. QED  BY <2>1, <2>2, <2>3
<1>6. CASE zoom = 1
  <2>1. zoom + 2 = 3  BY <1>6
  <2>. QED  BY <1>1, <1>6, <2>1
<1>7. CASE zoom = 2
  <2>1. zoom + 2 = 4  BY <1>7
  <2>. QED  BY <1>1, <1>7, <2>1
<1>8. CASE zoom = 3
  <2>1. zoom + 2 = 5  BY <1>8
  <2>. QED  BY <1>1, <1>8, <2>1
<1>9. CASE zoom = 4
  <2>1. zoom + 2 = 6  BY <1>9
  <2>. QED  BY <1>1, <1>9, <2>1
<1>10. CASE zoom = 5
  <2>1. zoom + 2 = 7  BY <1>10
  <2>. QED  BY <1>1, <1>10, <2>1
<1>. QED  BY <1>2, <1>3, <1>4, <1>5, <1>6, <1>7, <1>8, <1>9, <1>10

\* Places in a tile and in a view.  For the zoom levels at which the pixels of a view
\* are larger than those of the tile, a place in the view is a whole number of units of
\* the tile.
Coordinates == [x : Int, y : Int]
Views(zoom) == {v \in Coordinates : zoom > 0 => v.x % 2 ^ zoom = 0 /\ v.y % 2 ^ zoom = 0}
PixelsOfTile == [x : 0..Side - 1, y : 0..Side - 1]

\* The zoom levels at which a tile may be drawn: those whose "1 << -zoom" is an int.
\* Only the smallest layer is drawn below -2.
Drawable == -30..5

LEMMA SmallPowers == \A e \in 3..30 : 2 ^ e \in Nat \ {0}
<1>. DEFINE T == {e \in Nat : 2 ^ e \in Nat \ {0}}
<1>1. /\ 3 \in T /\ 4 \in T /\ 5 \in T /\ 6 \in T /\ 7 \in T /\ 8 \in T /\ 9 \in T /\ 10 \in T
      /\ 11 \in T /\ 12 \in T
  OBVIOUS
<1>2. /\ 13 \in T /\ 14 \in T /\ 15 \in T /\ 16 \in T /\ 17 \in T /\ 18 \in T /\ 19 \in T /\ 20 \in T
      /\ 21 \in T
  OBVIOUS
<1>3. /\ 22 \in T /\ 23 \in T /\ 24 \in T /\ 25 \in T /\ 26 \in T /\ 27 \in T /\ 28 \in T /\ 29 \in T
      /\ 30 \in T
  OBVIOUS
<1>. SUFFICES ASSUME NEW e \in 3..30 PROVE e \in T  OBVIOUS
<1>. HIDE DEF T
<1>4. e \in 3..12 => e \in T  BY <1>1
<1>5. e \in 13..21 => e \in T  BY <1>2
<1>6. e \in 22..30 => e \in T  BY <1>3
<1>. QED  BY <1>4, <1>5, <1>6

LEMMA ExactQuotient ==
    ASSUME NEW d \in Nat \ {0}, NEW a \in Int
    PROVE  (d * a) \div d = a
<1>. DEFINE v == d * a
            q == v \div d
<1>1. v \in Int /\ q \in Int /\ d * q <= v /\ v < d * q + d
  <2>1. v \in Int  OBVIOUS
  <2>. HIDE DEF v
  <2>. QED  BY <2>1, Division
<1>. HIDE DEF q
<1>2. d * q <= d * a /\ d * a < d * q + d /\ d * (a - q) = d * a - d * q /\ a - q \in Int  BY <1>1
<1>3. ~(a - q >= 1)
  <2>1. a - q >= 1 => d * (a - q) >= d  BY <1>2
  <2>. QED  BY <1>1, <1>2, <2>1
<1>4. ~(a - q <= -1)
  <2>1. a - q <= -1 => d * (a - q) <= -d  BY <1>2
  <2>. QED  BY <1>1, <1>2, <2>1
<1>5. q = a  BY <1>1, <1>3, <1>4
<1>. QED  BY <1>5 DEF q

LEMMA ScaledDown ==
    ASSUME NEW d \in {1, 2, 4}, NEW f \in Nat, f * d = 4,
           NEW v \in Int, NEW a \in Int, NEW p \in Int, NEW fine \in Nat
    PROVE  (v - (4 * a) \div d) + (4 * fine * p) \div d = v + f * (fine * p - a)
<1>. DEFINE n == fine * p
<1>1. n \in Int /\ 4 * fine * p = 4 * n  OBVIOUS
<1>. HIDE DEF n
<1>2. CASE d = 1
  <2>1. f = 4  BY <1>2
  <2>. QED  BY <1>1, <1>2, <2>1 DEF n
<1>3. CASE d = 2
  <2>1. f = 2  BY <1>3
  <2>. QED  BY <1>1, <1>3, <2>1 DEF n
<1>4. CASE d = 4
  <2>1. f = 1  BY <1>4
  <2>. QED  BY <1>1, <1>4, <2>1 DEF n
<1>. QED  BY <1>2, <1>3, <1>4

\* Where a pixel is painted.
PlaceInView(zoom, part, view, p, fine) ==
    [c \in {"x", "y"} |-> view[c] + Scale(zoom) * (fine * p[c] - part[c])]

LEMMA PaintedIs ==
    ASSUME NEW zoom \in Drawable, NEW part \in Coordinates, NEW view \in Views(zoom),
           NEW p \in Coordinates, NEW fine \in Nat \ {0}
    PROVE  Painted(zoom, part, view, p, fine) = PlaceInView(zoom, part, view, p, fine)
<1>1. ASSUME NEW c \in {"x", "y"}
      PROVE  part[c] \in Int /\ view[c] \in Int /\ p[c] \in Int /\ (zoom > 0 => view[c] % 2 ^ zoom = 0)
  BY <1>1 DEF Coordinates, Views
<1>2. CASE zoom > 0
  <2>. DEFINE m == 2 ^ zoom
  <2>1. m \in Nat \ {0} /\ 2 ^ (zoom + 2) = 4 * m /\ Scale(zoom) = 2 ^ (zoom + 2) /\ Grain(zoom) = 4
    <3>1. zoom \in -2..5  BY <1>2 DEF Drawable
    <3>2. zoom > 0 => 2 ^ zoom \in Nat \ {0} /\ 2 ^ (zoom + 2) = 4 * 2 ^ zoom  BY <3>1, PixelSizes
    <3>3. m \in Nat \ {0} /\ 2 ^ (zoom + 2) = 4 * m  BY <1>2, <3>2, Zenon
    <3>4. ~(zoom < -2)  BY <3>1
    <3>5. Scale(zoom) = 2 ^ (zoom + 2) /\ Grain(zoom) = 4  BY <3>4, Zenon DEF Scale, Grain
    <3>. QED  BY <3>3, <3>5, Zenon
  <2>2. Painted(zoom, part, view, p, fine)
          = [c \in {"x", "y"} |-> m * ((view[c] \div m - 4 * part[c]) + 4 * fine * p[c])]
    BY <1>2, <2>1 DEF Painted
  <2>3. ASSUME NEW c \in {"x", "y"} PROVE view[c] % m = 0  BY <1>1, <1>2
  <2>. HIDE DEF m
  <2>4. ASSUME NEW c \in {"x", "y"}
        PROVE  m * ((view[c] \div m - 4 * part[c]) + 4 * fine * p[c])
                 = view[c] + (4 * m) * (fine * p[c] - part[c])
    <3>. DEFINE v == view[c]
                a == part[c]
                x == p[c]
    <3>1. v \in Int /\ a \in Int /\ x \in Int /\ v % m = 0  BY <1>1, <2>3
    <3>. HIDE DEF v, a, x
    <3>. DEFINE q == v \div m
                n == fine * x
    <3>2. v = m * q /\ q \in Int  BY <2>1, <3>1
    <3>3. n \in Int /\ 4 * fine * x = 4 * n  BY <3>1
    <3>. HIDE DEF q, n
    <3>4. m * (q - 4 * a + 4 * n) = m * q + (4 * m) * (n - a)  BY <2>1, <3>1, <3>2, <3>3
    <3>5. m * ((v \div m - 4 * a) + 4 * fine * x) = v + (4 * m) * (fine * x - a)
      BY <3>2, <3>3, <3>4 DEF q, n
    <3>. QED  BY <3>5 DEF v, a, x
  <2>. QED  BY <2>1, <2>2, <2>4 DEF PlaceInView
<1>3. CASE zoom \in -2..0
  <2>. DEFINE d == 2 ^ (-zoom)
              f == 2 ^ (zoom + 2)
  <2>1. d \in {1, 2, 4} /\ f \in Nat /\ f * d = 4
    <3>1. zoom <= 0 /\ zoom \in -2..5  BY <1>3
    <3>. QED  BY <3>1, PixelSizes
  <2>5. ~(zoom > 0) /\ Grain(zoom) = 4 /\ Scale(zoom) = f
    <3>1. ~(zoom > 0) /\ ~(zoom < -2)  BY <1>3
    <3>. QED  BY <3>1, Zenon DEF Grain, Scale
  <2>2. Painted(zoom, part, view, p, fine)
          = [c \in {"x", "y"} |-> (view[c] - (4 * part[c]) \div d) + (4 * fine * p[c]) \div d]
    BY <2>5 DEF Painted
  <2>. HIDE DEF d, f
  <2>3. ASSUME NEW c \in {"x", "y"}
        PROVE  (view[c] - (4 * part[c]) \div d) + (4 * fine * p[c]) \div d
                 = view[c] + f * (fine * p[c] - part[c])
    <3>. DEFINE v == view[c]
                a == part[c]
                x == p[c]
    <3>1. v \in Int /\ a \in Int /\ x \in Int  BY <1>1
    <3>. HIDE DEF v, a, x
    <3>2. (v - (4 * a) \div d) + (4 * fine * x) \div d = v + f * (fine * x - a)  BY <2>1, <3>1, ScaledDown
    <3>. QED  BY <3>2 DEF v, a, x
  <2>4. Painted(zoom, part, view, p, fine) = [c \in {"x", "y"} |-> view[c] + f * (fine * p[c] - part[c])]
    BY <2>2, <2>3
  <2>. QED  BY <2>4, <2>5 DEF PlaceInView
<1>4. CASE zoom < -2
  <2>. DEFINE d == 2 ^ (-zoom)
  <2>1. d \in Nat \ {0}
    <3>1. -zoom \in 3..30  BY <1>4 DEF Drawable
    <3>. QED  BY <3>1, SmallPowers
  <2>2. ~(zoom > 0) /\ Grain(zoom) = d /\ Scale(zoom) = 1
    <3>1. ~(zoom > 0) /\ zoom < -2  BY <1>4 DEF Drawable
    <3>. QED  BY <3>1, Zenon DEF Grain, Scale
  <2>3. Painted(zoom, part, view, p, fine)
          = [c \in {"x", "y"} |-> (view[c] - (d * part[c]) \div d) + (d * fine * p[c]) \div d]
    BY <2>2 DEF Painted
  <2>. HIDE DEF d
  <2>4. ASSUME NEW c \in {"x", "y"}
        PROVE  (view[c] - (d * part[c]) \div d) + (d * fine * p[c]) \div d = view[c] + 1 * (fine * p[c] - part[c])
    <3>. DEFINE v == view[c]
                a == part[c]
                n == fine * p[c]
    <3>1. v \in Int /\ a \in Int /\ n \in Int /\ d * fine * p[c] = d * n  BY <1>1, <2>1
    <3>. HIDE DEF v, a, n
    <3>2. (d * a) \div d = a /\ (d * n) \div d = n  BY <2>1, <3>1, ExactQuotient
    <3>3. (v - (d * a) \div d) + (d * n) \div d = v + 1 * (n - a)  BY <3>1, <3>2
    <3>. QED  BY <3>1, <3>3 DEF v, a, n
  <2>. QED  BY <2>2, <2>3, <2>4 DEF PlaceInView
<1>. QED  BY <1>2, <1>3, <1>4 DEF Drawable

\* Which pixel the value of is printed.
LEMMA PrintedPixelIs ==
    ASSUME NEW op \in LayerOperations, NEW part \in Coordinates, NEW view, NEW p \in PixelsOfTile,
           NEW fine \in Nat \ {0}
    PROVE  Printed(op, part, view, p.x - part.x \div fine, p.y - part.y \div fine, fine).pixel = <<p.x, p.y>>
<1>. DEFINE r == ReductionOf(op)
            nx == p.x - part.x \div fine
            ny == p.y - part.y \div fine
<1>1. p.x \in Nat /\ p.y \in Nat /\ p.x < Side  BY SideAssumption DEF PixelsOfTile
<1>2. part.x \div fine \in Int /\ part.y \div fine \in Int  BY DEF Coordinates
<1>3. part.x \div fine + nx = p.x /\ part.y \div fine + ny = p.y  BY <1>1, <1>2
<1>4. r.bpp \in Nat \ {0} /\ r.stride \in Nat /\ 8 * r.stride = r.bpp * Side /\ GetBpp(op) = r.bpp
  BY ReductionsFit DEF FitsInPlace, GetBpp
<1>5. Printed(op, part, view, nx, ny, fine).pixel
        = PixelAt((part.y \div fine + ny) * r.stride, part.x \div fine + nx, r.bpp)
  BY <1>4 DEF Printed
<1>. HIDE DEF nx, ny
<1>6. Printed(op, part, view, nx, ny, fine).pixel = PixelAt(p.y * r.stride, p.x, r.bpp)
  BY <1>3, <1>5
<1>. HIDE DEF r
<1>. DEFINE b == r.bpp
            s == r.stride
            y == p.y
<1>7. y * s \in Nat /\ IsAddress(y * s, b, 0, y)
  <2>1. b \in Nat /\ s \in Nat /\ y \in Nat /\ 8 * s = b * Side /\ Side \in Nat  BY <1>1, <1>4, SideAssumption
  <2>. HIDE DEF b, s, y
  <2>2. y * s \in Nat /\ 8 * (y * s) = y * (8 * s)  BY <2>1
  <2>3. y * (b * Side) = b * (y * Side + 0)  BY <2>1
  <2>. QED  BY <2>1, <2>2, <2>3 DEF IsAddress
<1>. HIDE DEF b, s
<1>8. \A n \in Nat : n < Side => PixelAt(y * s, n, b) = <<n, y>>
  <2>1. b \in Nat \ {0} /\ y \in Nat  BY <1>1, <1>4 DEF b
  <2>. HIDE DEF y
  <2>. QED  BY <1>7, <2>1, ColumnFound
<1>. QED  BY <1>1, <1>6, <1>8 DEF b, s, nx, ny

LEMMA TruncatedNear ==
    ASSUME NEW v \in Int, NEW f \in Nat \ {0}
    PROVE  Truncated(v, f) \in Int /\ v - Truncated(v, f) * f \in 1 - f..f - 1
<1>1. CASE v >= 0
  <2>1. v \div f \in Int /\ f * (v \div f) <= v /\ v < f * (v \div f) + f  BY Division
  <2>. DEFINE q == v \div f
  <2>2. Truncated(v, f) = q  BY <1>1 DEF Truncated
  <2>. HIDE DEF q
  <2>3. q \in Int /\ f * q = q * f /\ f * q <= v /\ v < f * q + f  BY <2>1 DEF q
  <2>. QED  BY <2>2, <2>3
<1>2. CASE ~(v >= 0)
  <2>. DEFINE w == -v
              q == w \div f
  <2>0. w \in Int /\ w = 0 - v  OBVIOUS
  <2>1. q \in Int /\ f * q <= w /\ w < f * q + f
    <3>. HIDE DEF w
    <3>. QED  BY <2>0, Division
  <2>2. Truncated(v, f) = -q  BY <1>2 DEF Truncated
  <2>. HIDE DEF q, w
  <2>3. (-q) * f = 0 - f * q /\ -q \in Int /\ f * q \in Int  BY <2>1
  <2>. QED  BY <2>0, <2>1, <2>2, <2>3
<1>. QED  BY <1>1, <1>2

\* The square that a value is printed in begins within a pixel of where that is painted.
LEMMA PrintedPlaceIs ==
    ASSUME NEW v \in Int, NEW a \in Int, NEW p \in Int, NEW fine \in Nat \ {0}
    PROVE  (v + 128 * (fine * p - a))
             - Truncated((v + ((a \div fine) * fine - a) * 4 * 32) + 32 * (p - a \div fine) * 4 * fine, 4 * fine) * 4 * fine
               \in 1 - 4 * fine..4 * fine - 1
<1>. DEFINE q == a \div fine
            f == 4 * fine
            w == v + 128 * (fine * p - a)
<1>1. q \in Int /\ f \in Nat \ {0} /\ fine * p \in Int /\ w \in Int  OBVIOUS
<1>. HIDE DEF q
<1>2. (v + (q * fine - a) * 4 * 32) + 32 * (p - q) * 4 * fine = w
  <2>1. q * fine \in Int /\ (p - q) * fine = fine * p - q * fine  BY <1>1
  <2>2. 32 * (p - q) * 4 * fine = 128 * ((p - q) * fine)  BY <1>1
  <2>. QED  BY <1>1, <2>1, <2>2
<1>. HIDE DEF w, f
<1>3. Truncated(w, f) \in Int /\ w - Truncated(w, f) * f \in 1 - f..f - 1  BY <1>1, TruncatedNear
<1>. DEFINE t == Truncated(w, f)
<1>. HIDE DEF t
<1>4. t * 4 * fine = t * f  BY <1>1, <1>3 DEF f, t
<1>5. w - t * 4 * fine \in 1 - f..f - 1  BY <1>3, <1>4 DEF t
<1>. QED  BY <1>2, <1>5 DEF t, w, q, f

\* Whatever part of a tile is drawn wherever in a view: each pixel comes from its place
\* in memory and goes to its place in the view, and the value printed in its square is
\* its own.
THEOREM DrawingStaysInPlace ==
    \A op \in LayerOperations, zoom \in Drawable, part \in Coordinates, p \in PixelsOfTile, fine \in Nat \ {0} :
        \A view \in Views(zoom) : DrawsInPlace(op, zoom, part, view, p, fine)
<1>. SUFFICES ASSUME NEW op \in LayerOperations, NEW zoom \in Drawable, NEW part \in Coordinates,
                     NEW p \in PixelsOfTile, NEW fine \in Nat \ {0}, NEW view \in Views(zoom)
              PROVE  DrawsInPlace(op, zoom, part, view, p, fine)
  OBVIOUS
<1>. DEFINE painted == Painted(zoom, part, view, p, fine)
            n == [c \in {"x", "y"} |-> p[c] - part[c] \div fine]
            printed == Printed(op, part, view, n.x, n.y, fine)
            place == [c \in {"x", "y"} |-> view[c] + Scale(zoom) * (fine * p[c] - part[c])]
<1>1. p.x \in 0..Side - 1 /\ p.y \in Nat /\ p \in Coordinates  BY SideAssumption DEF PixelsOfTile, Coordinates
<1>2. CachedPixel(op, p.x, p.y) = <<p.x, p.y>>  BY <1>1, CachedFound
<1>3. painted = place
  <2>1. painted = PlaceInView(zoom, part, view, p, fine)  BY <1>1, PaintedIs
  <2>. QED  BY <2>1 DEF PlaceInView
<1>4. n.x = p.x - part.x \div fine /\ n.y = p.y - part.y \div fine  OBVIOUS
<1>5. printed.pixel = <<p.x, p.y>>  BY <1>4, PrintedPixelIs
<1>6. ASSUME zoom = 5, NEW c \in {"x", "y"}
      PROVE  painted[c] - printed[c] * 4 * fine \in 1 - 4 * fine..4 * fine - 1
  <2>1. 2 ^ 5 = 32 /\ Scale(zoom) = 128
    <3>1. 2 ^ 5 = 32 /\ 2 ^ 7 = 128  BY SMT
    <3>2. zoom + 2 = 7 /\ ~(zoom < -2)  BY <1>6
    <3>3. Scale(zoom) = 2 ^ (zoom + 2)  BY <3>2, Zenon DEF Scale
    <3>. QED  BY <3>1, <3>2, <3>3
  <2>2. printed[c] = Truncated((view[c] + ((part[c] \div fine) * fine - part[c]) * 4 * 32)
                                 + 32 * (p[c] - part[c] \div fine) * 4 * fine, 4 * fine)
    <3>1. CASE c = "x"  BY <2>1, <3>1 DEF Printed
    <3>2. CASE c = "y"  BY <2>1, <3>2 DEF Printed
    <3>. QED  BY <3>1, <3>2
  <2>3. painted[c] = view[c] + 128 * (fine * p[c] - part[c])  BY <1>3, <2>1
  <2>4. view[c] \in Int /\ part[c] \in Int /\ p[c] \in Int  BY <1>1 DEF Coordinates, Views
  <2>. HIDE DEF painted, printed, n
  <2>. DEFINE v == view[c]
              a == part[c]
              x == p[c]
  <2>5. v \in Int /\ a \in Int /\ x \in Int  BY <2>4
  <2>6. painted[c] = v + 128 * (fine * x - a)  BY <2>3
  <2>7. printed[c] = Truncated((v + ((a \div fine) * fine - a) * 4 * 32) + 32 * (x - a \div fine) * 4 * fine, 4 * fine)
    BY <2>2
  <2>. HIDE DEF v, a, x
  <2>. QED  BY <2>5, <2>6, <2>7, PrintedPlaceIs
<1>. HIDE DEF painted, printed, n, place
<1>. QED  BY <1>2, <1>3, <1>5, <1>6 DEF DrawsInPlace, painted, printed, n, place

-----------------------------------------------------------------------------
(* Iterators over samples.                                                 *)

LEMMA Remainder ==
    ASSUME NEW v \in Int, NEW n \in Nat \ {0}, NEW q, q = v \div n, NEW r, r = v % n
    PROVE  v = n * q + r /\ r \in 0..n - 1
<1>1. v = n * q + r  OBVIOUS
<1>2. v % n \in 0..n - 1  OBVIOUS
<1>. QED  BY <1>1, <1>2

\* Quotient and remainder are what they are known by.
LEMMA QuotientIs ==
    ASSUME NEW n \in Nat \ {0}, NEW a \in Int, NEW m \in Nat, m < n
    PROVE  (n * a + m) \div n = a /\ (n * a + m) % n = m
<1>. DEFINE v == n * a + m
            q == v \div n
            r == v % n
<1>1. v \in Int /\ q = v \div n /\ r = v % n /\ q \in Int  OBVIOUS
<1>2. v = n * q + r /\ r \in 0..n - 1
  <2>. HIDE DEF v, q, r
  <2>. QED  BY <1>1, Remainder
<1>. HIDE DEF q, r
<1>3. n * a \in Int /\ n * q \in Int /\ n * (a - q) = n * a - n * q /\ a - q \in Int  BY <1>1
<1>4. a - q = 0
  <2>1. CASE a - q >= 1
    <3>1. n * (a - q) >= n  BY <1>3, <2>1
    <3>. QED  BY <1>2, <1>3, <3>1
  <2>2. CASE a - q <= -1
    <3>1. n * (a - q) <= 0 - n  BY <1>3, <2>2
    <3>. QED  BY <1>2, <1>3, <3>1
  <2>. QED  BY <1>3, <2>1, <2>2
<1>5. q = a /\ r = m  BY <1>1, <1>2, <1>4
<1>. QED  BY <1>5 DEF q, r

LEMMA QuotientOfSum ==
    ASSUME NEW n \in Nat \ {0}, NEW k \in Nat, NEW x \in Nat
    PROVE  /\ k \div n + ((k % n) + x) \div n = (k + x) \div n
           /\ ((k % n) + x) % n = (k + x) % n
           /\ k \div n \in Nat /\ k % n \in 0..n - 1
<1>. DEFINE q == k \div n
            r == k % n
            d == (r + x) \div n
            m == (r + x) % n
<1>1. q \in Nat /\ r \in 0..n - 1 /\ k = n * q + r  OBVIOUS
<1>. HIDE DEF q, r
<1>2. d \in Nat /\ m \in 0..n - 1 /\ r + x = n * d + m  BY <1>1
<1>. HIDE DEF d, m
<1>3. k + x = n * (q + d) + m
  <2>1. n * q \in Int /\ n * d \in Int /\ n * (q + d) = n * q + n * d  BY <1>1, <1>2
  <2>. QED  BY <1>1, <1>2, <2>1
<1>4. q + d \in Int /\ m \in Nat /\ m < n  BY <1>1, <1>2
<1>5. (n * (q + d) + m) \div n = q + d /\ (n * (q + d) + m) % n = m  BY <1>4, QuotientIs
<1>. QED  BY <1>1, <1>3, <1>5 DEF q, r, d, m

\* The iterator at a sample, for words with room for n samples.
Iterator(n, bps, q, r) == [bps |-> bps, samplesPerBase |-> n, base |-> q, off |-> n - 1 - r]
IteratorAt(n, bps, k) == Iterator(n, bps, k \div n, k % n)

LEMMA IteratorFields ==
    ASSUME NEW n, NEW bps, NEW q, NEW r, NEW it, it = Iterator(n, bps, q, r)
    PROVE  it.bps = bps /\ it.samplesPerBase = n /\ it.base = q /\ it.off = n - 1 - r
BY DEF Iterator

LEMMA AdvanceIs ==
    ASSUME NEW n \in Nat \ {0}, NEW bps, NEW k \in Nat, NEW x \in Nat
    PROVE  Advance(IteratorAt(n, bps, k), x) = IteratorAt(n, bps, k + x)
<1>. DEFINE q == k \div n
            r == k % n
            it == Iterator(n, bps, q, r)
            z == r + x
            b == q + z \div n
            m == z % n
<1>1. b = (k + x) \div n /\ m = (k + x) % n /\ q \in Nat /\ r \in 0..n - 1
  BY QuotientOfSum
<1>. HIDE DEF q, r
<1>2. it.samplesPerBase = n /\ it.off = n - 1 - r /\ it.base = q  BY IteratorFields
<1>3. it.samplesPerBase - 1 - it.off + x = z
  <2>. HIDE DEF it
  <2>. QED  BY <1>1, <1>2
<1>4. Advance(it, x) = [it EXCEPT !.base = b, !.off = n - 1 - m]
  <2>. HIDE DEF it, z
  <2>. QED  BY <1>2, <1>3 DEF Advance
<1>5. Advance(it, x) = Iterator(n, bps, b, m)
  <2>. HIDE DEF b, m
  <2>. QED  BY <1>4 DEF Iterator
<1>. HIDE DEF b, m, it
<1>6. Iterator(n, bps, b, m) = IteratorAt(n, bps, k + x)  BY <1>1 DEF IteratorAt
<1>. QED  BY <1>5, <1>6 DEF it, q, r, IteratorAt

LEMMA SuccIs ==
    ASSUME NEW n \in Nat \ {0}, NEW bps, NEW k \in Nat
    PROVE  Succ(IteratorAt(n, bps, k)) = IteratorAt(n, bps, k + 1)
<1>. DEFINE q == k \div n
            r == k % n
            it == Iterator(n, bps, q, r)
<1>1. /\ q + (r + 1) \div n = (k + 1) \div n /\ (r + 1) % n = (k + 1) % n
      /\ q \in Nat /\ r \in 0..n - 1
  BY QuotientOfSum
<1>. HIDE DEF q, r
<1>2. it.samplesPerBase = n /\ it.off = n - 1 - r /\ it.base = q  BY IteratorFields
<1>3. CASE r = n - 1
  <2>1. it.off = 0
    <3>. HIDE DEF it
    <3>. QED  BY <1>1, <1>2, <1>3
  <2>2. n \div n = 1 /\ n % n = 0
    <3>1. n * 1 + 0 = n  OBVIOUS
    <3>2. (n * 1 + 0) \div n = 1 /\ (n * 1 + 0) % n = 0  BY QuotientIs
    <3>. QED  BY <3>1, <3>2
  <2>3. r + 1 = n  BY <1>1, <1>3
  <2>4. (k + 1) \div n = q + 1 /\ (k + 1) % n = 0  BY <1>1, <2>2, <2>3
  <2>5. Succ(it) = [it EXCEPT !.off = n - 1, !.base = q + 1]
    <3>. HIDE DEF it
    <3>. QED  BY <1>2, <2>1 DEF Succ
  <2>6. n - 1 - 0 = n - 1  OBVIOUS
  <2>7. Succ(it) = Iterator(n, bps, q + 1, 0)  BY <2>5, <2>6 DEF Iterator
  <2>. HIDE DEF it
  <2>. QED  BY <2>4, <2>7 DEF it, q, r, IteratorAt
<1>4. CASE r # n - 1
  <2>1. it.off # 0
    <3>. HIDE DEF it
    <3>. QED  BY <1>1, <1>2, <1>4
  <2>2. (r + 1) \div n = 0 /\ (r + 1) % n = r + 1
    <3>1. n * 0 + (r + 1) = r + 1 /\ r + 1 \in Nat /\ r + 1 < n  BY <1>1, <1>4
    <3>2. (n * 0 + (r + 1)) \div n = 0 /\ (n * 0 + (r + 1)) % n = r + 1  BY <3>1, QuotientIs
    <3>. QED  BY <3>1, <3>2
  <2>3. (k + 1) \div n = q /\ (k + 1) % n = r + 1  BY <1>1, <2>2
  <2>4. Succ(it) = [it EXCEPT !.off = (n - 1 - r) - 1]
    <3>. HIDE DEF it
    <3>. QED  BY <1>2, <2>1 DEF Succ
  <2>5. (n - 1 - r) - 1 = n - 1 - (r + 1)  BY <1>1
  <2>6. Succ(it) = Iterator(n, bps, q, r + 1)  BY <2>4, <2>5 DEF Iterator
  <2>. HIDE DEF it
  <2>. QED  BY <2>3, <2>6 DEF it, q, r, IteratorAt
<1>. QED  BY <1>3, <1>4

LEMMA IndexIs ==
    ASSUME NEW n \in Nat \ {0}, NEW bps, NEW k \in Nat, NEW it, it = IteratorAt(n, bps, k)
    PROVE  it.base * it.samplesPerBase + it.samplesPerBase - 1 - it.off = k
<1>. DEFINE q == k \div n
            r == k % n
<1>1. q \in Nat /\ r \in 0..n - 1 /\ k = n * q + r  OBVIOUS
<1>2. it = Iterator(n, bps, q, r)  BY DEF IteratorAt
<1>. HIDE DEF q, r
<1>3. it.base = q /\ it.samplesPerBase = n /\ it.off = n - 1 - r  BY <1>2, IteratorFields
<1>4. q * n = n * q  BY <1>1
<1>. QED  BY <1>1, <1>3, <1>4

-----------------------------------------------------------------------------
(* The samples of an area.                                                 *)

\* One of the bits that cacheZoom() looks at, and which it ought to be.
ZoomedBit(pixelSize, i, j, x, y) ==
    LET it == Advance(SampleIterator(8, 1, (pixelSize * i) % 8), x)
    IN  8 * (((j * pixelSize + y) * Side) \div 8 + ((pixelSize * i) \div 8) + it.base) + 7 - it.off
MeantBit(pixelSize, i, j, x, y) == (j * pixelSize + y) * Side + i * pixelSize + x

LEMMA SampleIteratorIs ==
    ASSUME NEW bits, NEW bps, NEW k
    PROVE  SampleIterator(bits, bps, k) = IteratorAt(bits \div bps, bps, k)
BY DEF SampleIterator, IteratorAt, Iterator

LEMMA ByEight ==
    ASSUME NEW p \in Nat
    PROVE  \E q, r \in Nat : q = p \div 8 /\ r = p % 8 /\ p = 8 * q + r
<1>. DEFINE q == p \div 8
            r == p % 8
<1>1. q \in Nat /\ r \in Nat /\ p = 8 * q + r  OBVIOUS
<1>. QED  BY <1>1

LEMMA ZoomedBitIs ==
    ASSUME NEW pixelSize \in Nat, NEW i \in Nat, NEW j \in Nat, NEW x \in Nat, NEW y \in Nat
    PROVE  ZoomedBit(pixelSize, i, j, x, y) = MeantBit(pixelSize, i, j, x, y)
<1>. DEFINE p == pixelSize * i
            line == j * pixelSize + y
            k == (p % 8) + x
            it == Advance(SampleIterator(8, 1, p % 8), x)
<1>1. p \in Nat /\ line \in Nat /\ p % 8 \in Nat /\ p = 8 * (p \div 8) + (p % 8) /\ p \div 8 \in Nat
  <2>1. p \in Nat /\ line \in Nat  OBVIOUS
  <2>. HIDE DEF p, line
  <2>2. PICK q, r \in Nat : q = p \div 8 /\ r = p % 8 /\ p = 8 * q + r  BY <2>1, ByEight
  <2>. QED  BY <2>1, <2>2
<1>2. PICK u \in Nat \ {0} : Side = 64 * u  BY SideIs
<1>3. ZoomedBit(pixelSize, i, j, x, y) = 8 * ((line * Side) \div 8 + p \div 8 + it.base) + 7 - it.off
  BY DEF ZoomedBit
<1>4. MeantBit(pixelSize, i, j, x, y) = line * Side + p + x
  <2>1. i * pixelSize = pixelSize * i  OBVIOUS
  <2>. QED  BY <2>1 DEF MeantBit
<1>. HIDE DEF p, line
<1>5. it = IteratorAt(8, 1, k)
  <2>1. 8 \div 1 = 8  OBVIOUS
  <2>2. SampleIterator(8, 1, p % 8) = IteratorAt(8, 1, p % 8)  BY <2>1, SampleIteratorIs
  <2>. QED  BY <1>1, <2>2, AdvanceIs
<1>6. k \in Nat  BY <1>1
<1>. HIDE DEF k, it
<1>7. it.base \in Int /\ it.off \in Int /\ 8 * it.base + 7 - it.off = k
  <2>. DEFINE q == k \div 8
              r == k % 8
  <2>1. it = Iterator(8, 1, q, r)  BY <1>5 DEF IteratorAt
  <2>2. q = k \div 8 /\ r = k % 8 /\ q \in Nat /\ r \in Nat  BY <1>6
  <2>3. k = 8 * q + r
    <3>1. 8 \in Nat \ {0} /\ k \in Int  BY <1>6
    <3>. HIDE DEF q, r
    <3>. QED  BY <2>2, <3>1, Remainder
  <2>. HIDE DEF q, r
  <2>4. it.base = q /\ it.off = 8 - 1 - r  BY <2>1, IteratorFields
  <2>. QED  BY <2>2, <2>3, <2>4
<1>8. 8 * ((line * Side) \div 8) = line * Side /\ (line * Side) \div 8 \in Int /\ line * Side \in Int
  <2>1. line * Side = 8 * (8 * (line * u)) /\ line * u \in Nat  BY <1>1, <1>2
  <2>. QED  BY <2>1
<1>9. ZoomedBit(pixelSize, i, j, x, y) = line * Side + 8 * (p \div 8) + k
  <2>. DEFINE a == (line * Side) \div 8
              b == p \div 8
              s == line * Side
              base == it.base
              off == it.off
  <2>1. a \in Int /\ b \in Int /\ s \in Int /\ base \in Int /\ off \in Int /\ 8 * a = s /\ 8 * base + 7 - off = k
    BY <1>1, <1>7, <1>8
  <2>2. ZoomedBit(pixelSize, i, j, x, y) = 8 * (a + b + base) + 7 - off  BY <1>3
  <2>. HIDE DEF a, b, s, base, off
  <2>3. ZoomedBit(pixelSize, i, j, x, y) = s + 8 * b + k  BY <1>6, <2>1, <2>2
  <2>. QED  BY <2>3 DEF s, b
<1>10. 8 * (p \div 8) + k = p + x
  <2>. DEFINE a == p \div 8
              r == p % 8
  <2>1. a \in Nat /\ r \in Nat /\ p = 8 * a + r /\ k = r + x  BY <1>1 DEF k
  <2>. HIDE DEF a, r
  <2>2. 8 * a + k = p + x  BY <1>1, <2>1
  <2>. QED  BY <2>2 DEF a
<1>. DEFINE s == line * Side
            e == 8 * (p \div 8)
<1>11. /\ s \in Int /\ e \in Int /\ e + k = p + x
       /\ ZoomedBit(pixelSize, i, j, x, y) = s + e + k
       /\ MeantBit(pixelSize, i, j, x, y) = s + p + x
  BY <1>1, <1>4, <1>8, <1>9, <1>10
<1>. HIDE DEF s, e
<1>. QED  BY <1>1, <1>6, <1>11

MeantBits(pixelSize, i, j) == {MeantBit(pixelSize, i, j, x, y) : x \in 0..pixelSize - 1, y \in 0..pixelSize - 1}

LEMMA ZoomedBitsAre ==
    ASSUME NEW pixelSize \in Nat, NEW i \in Nat, NEW j \in Nat
    PROVE  ZoomedBits(pixelSize, i, j) = MeantBits(pixelSize, i, j)
<1>1. ZoomedBits(pixelSize, i, j) = {ZoomedBit(pixelSize, i, j, x, y) : x \in 0..pixelSize - 1, y \in 0..pixelSize - 1}
  BY DEF ZoomedBits, ZoomedBit
<1>2. ASSUME NEW x \in 0..pixelSize - 1, NEW y \in 0..pixelSize - 1
      PROVE  ZoomedBit(pixelSize, i, j, x, y) = MeantBit(pixelSize, i, j, x, y)
  <2>1. x \in Nat /\ y \in Nat  OBVIOUS
  <2>. QED  BY <2>1, ZoomedBitIs
<1>3. {ZoomedBit(pixelSize, i, j, x, y) : x \in 0..pixelSize - 1, y \in 0..pixelSize - 1}
        = {MeantBit(pixelSize, i, j, x, y) : x \in 0..pixelSize - 1, y \in 0..pixelSize - 1}
  BY <1>2
<1>. QED  BY <1>1, <1>3 DEF MeantBits

\* The iterator at the beginning of each row that sumPixelValues() adds up.
StartsRows(start, n, bps, offset, length) ==
    start = [y \in Nat |-> IF y = 0 THEN Advance(IteratorAt(n, bps, 0), offset) ELSE Advance(start[y - 1], length)]
AtRows(start, n, bps, offset, length) == \A y \in Nat : start[y] = IteratorAt(n, bps, offset + y * length)

LEMMA RowStartsAre ==
    ASSUME NEW n \in Nat \ {0}, NEW bps, NEW offset \in Nat, NEW length \in Nat,
           NEW start, StartsRows(start, n, bps, offset, length)
    PROVE  AtRows(start, n, bps, offset, length)
<1>. DEFINE T == {y \in Nat : start[y] = IteratorAt(n, bps, offset + y * length)}
<1>1. start[0] = Advance(IteratorAt(n, bps, 0), offset)
      /\ \A y \in Nat : start[y + 1] = Advance(start[y], length)
  <2>1. \A y \in Nat : start[y] = IF y = 0 THEN Advance(IteratorAt(n, bps, 0), offset)
                                  ELSE Advance(start[y - 1], length)
    BY DEF StartsRows
  <2>2. \A y \in Nat : y + 1 \in Nat /\ y + 1 # 0 /\ (y + 1) - 1 = y  OBVIOUS
  <2>3. ASSUME NEW y \in Nat PROVE start[y + 1] = Advance(start[y], length)
    BY ONLY <2>1, <2>2, y \in Nat
  <2>4. 0 \in Nat  OBVIOUS
  <2>. QED  BY ONLY <2>1, <2>3, <2>4
<1>2. 0 \in T
  <2>1. 0 + offset = offset /\ offset + 0 * length = offset  OBVIOUS
  <2>2. Advance(IteratorAt(n, bps, 0), offset) = IteratorAt(n, bps, 0 + offset)  BY AdvanceIs
  <2>. QED  BY <1>1, <2>1, <2>2
<1>3. ASSUME NEW y \in Nat, y \in T PROVE y + 1 \in T
  <2>. DEFINE k == offset + y * length
  <2>1. k \in Nat /\ k + length = offset + (y + 1) * length  OBVIOUS
  <2>2. start[y] = IteratorAt(n, bps, k)  BY <1>3
  <2>. HIDE DEF k
  <2>3. Advance(IteratorAt(n, bps, k), length) = IteratorAt(n, bps, k + length)  BY <2>1, AdvanceIs
  <2>4. start[y + 1] = IteratorAt(n, bps, k + length)  BY <1>1, <2>2, <2>3
  <2>. QED  BY <2>1, <2>4
<1>4. \A y \in Nat : y \in T
  <2>. HIDE DEF T
  <2>. QED  BY <1>2, <1>3, NatSets
<1>. QED  BY <1>4 DEF AtRows

\* Where the rows begin, and which sample an iterator is at.
RowStarts(first, offset, length) ==
    LET start[y \in Nat] == IF y = 0 THEN Advance(first, offset) ELSE Advance(start[y - 1], length)
    IN  start
IndexOf(it) == it.base * it.samplesPerBase + it.samplesPerBase - 1 - it.off

LEMMA RowStartsFound ==
    ASSUME NEW n \in Nat \ {0}, NEW bps, NEW offset \in Nat, NEW length \in Nat,
           NEW y \in Nat, NEW k \in Nat
    PROVE  IndexOf(Advance(RowStarts(IteratorAt(n, bps, 0), offset, length)[y], k)) = (offset + y * length) + k
<1>. DEFINE first == IteratorAt(n, bps, 0)
            IsIt(f) == f = [z \in Nat |-> IF z = 0 THEN Advance(first, offset) ELSE Advance(f[z - 1], length)]
            f == [z \in Nat |-> IteratorAt(n, bps, offset + z * length)]
            it == CHOOSE g : IsIt(g)
<1>1. IsIt(f)
  <2>1. ASSUME NEW z \in Nat
        PROVE  f[z] = IF z = 0 THEN Advance(first, offset) ELSE Advance(f[z - 1], length)
    <3>1. CASE z = 0
      <4>1. 0 + offset = offset /\ offset + 0 * length = offset /\ 0 \in Nat  OBVIOUS
      <4>2. Advance(first, offset) = IteratorAt(n, bps, 0 + offset)  BY <4>1, AdvanceIs
      <4>3. f[0] = IteratorAt(n, bps, offset + 0 * length)  BY <4>1
      <4>. QED  BY <3>1, <4>1, <4>2, <4>3
    <3>2. CASE z # 0
      <4>. DEFINE j == offset + (z - 1) * length
      <4>1. z - 1 \in Nat /\ j \in Nat /\ j + length = offset + z * length
        <5>1. z - 1 \in Nat  BY <3>2
        <5>2. (z - 1) * length \in Nat /\ (z - 1) * length + length = z * length  BY <5>1
        <5>. QED  BY <5>1, <5>2
      <4>2. f[z - 1] = IteratorAt(n, bps, j) /\ f[z] = IteratorAt(n, bps, offset + z * length)  BY <4>1
      <4>. HIDE DEF j, f, first
      <4>3. Advance(IteratorAt(n, bps, j), length) = IteratorAt(n, bps, j + length)  BY <4>1, AdvanceIs
      <4>. QED  BY <3>2, <4>1, <4>2, <4>3
    <3>. QED  BY <3>1, <3>2
  <2>2. f = [z \in Nat |-> f[z]]  OBVIOUS
  <2>. HIDE DEF f
  <2>. QED  BY <2>1, <2>2
<1>2. IsIt(it)  BY <1>1
<1>3. RowStarts(first, offset, length) = it  BY DEF RowStarts
<1>. HIDE DEF it
<1>4. it[y] = IteratorAt(n, bps, offset + y * length)
  <2>1. StartsRows(it, n, bps, offset, length)  BY <1>2 DEF StartsRows
  <2>2. AtRows(it, n, bps, offset, length)  BY <2>1, RowStartsAre
  <2>. QED  BY <2>2 DEF AtRows
<1>5. offset + y * length \in Nat  OBVIOUS
<1>. DEFINE m == offset + y * length
<1>6. it[y] = IteratorAt(n, bps, m) /\ m \in Nat /\ m + k \in Nat  BY <1>4, <1>5
<1>. HIDE DEF m, first
<1>7. Advance(it[y], k) = IteratorAt(n, bps, m + k)  BY <1>6, AdvanceIs
<1>8. IndexOf(Advance(it[y], k)) = m + k
  <2>. DEFINE at == Advance(it[y], k)
              s == m + k
  <2>1. at = IteratorAt(n, bps, s) /\ s \in Nat  BY <1>6, <1>7
  <2>. HIDE DEF at, s
  <2>2. IndexOf(at) = s  BY <2>1, IndexIs DEF IndexOf
  <2>. QED  BY <2>2 DEF at, s
<1>. QED  BY <1>3, <1>8 DEF m, first

\* A sample that sumPixelValues() adds up, and which it ought to be.
SummedSample(channels, left, top, y, k) == (channels * (top * Side + left) + y * (channels * Side)) + k
MeantSample(channels, left, top, x, y, c) == channels * ((top + y) * Side + left + x) + c

LEMMA SummedSampleIs ==
    ASSUME NEW channels \in Nat, NEW left \in Nat, NEW top \in Nat, NEW x \in Nat, NEW y \in Nat, NEW c \in Nat
    PROVE  SummedSample(channels, left, top, y, channels * x + c) = MeantSample(channels, left, top, x, y, c)
<1>0. Side \in Nat  BY SideIs
<1>. DEFINE t == top * Side
            v == y * Side
<1>1. t \in Nat /\ v \in Nat /\ (top + y) * Side = t + v  BY <1>0
<1>2. y * (channels * Side) = channels * v  BY <1>0
<1>. HIDE DEF t, v
<1>3. channels * (t + left) = channels * t + channels * left  BY <1>1
<1>4. channels * (((t + v) + left) + x) = ((channels * t + channels * v) + channels * left) + channels * x  BY <1>1
<1>5. channels * t \in Nat /\ channels * v \in Nat /\ channels * left \in Nat /\ channels * x \in Nat  BY <1>1
<1>. DEFINE ct == channels * t
            cv == channels * v
            cl == channels * left
            cx == channels * x
<1>6. SummedSample(channels, left, top, y, channels * x + c) = ((ct + cl) + cv) + (cx + c)
  BY <1>2, <1>3 DEF SummedSample, t
<1>7. MeantSample(channels, left, top, x, y, c) = (((ct + cv) + cl) + cx) + c
  BY <1>1, <1>4 DEF MeantSample
<1>8. ct \in Nat /\ cv \in Nat /\ cl \in Nat /\ cx \in Nat  BY <1>5
<1>. HIDE DEF ct, cv, cl, cx
<1>. QED  BY <1>6, <1>7, <1>8

LEMMA SamplesPerByte ==
    ASSUME NEW bps \in {1, 2, 4, 8}
    PROVE  8 \div bps \in Nat \ {0}
<1>1. 8 \div 1 = 8 /\ 8 \div 2 = 4 /\ 8 \div 4 = 2 /\ 8 \div 8 = 1  OBVIOUS
<1>. QED  BY <1>1

\* Which sample of its row is the one of channel c of pixel x, and the other way round.
LEMMA ChannelAndPixel ==
    ASSUME NEW channels \in Nat \ {0}, NEW width \in Nat
    PROVE  /\ \A k \in 0..channels * width - 1 :
                  \E x \in 0..width - 1, c \in 0..channels - 1 : k = channels * x + c
           /\ \A x \in 0..width - 1, c \in 0..channels - 1 : channels * x + c \in 0..channels * width - 1
<1>1. ASSUME NEW k \in 0..channels * width - 1
      PROVE  \E x \in 0..width - 1, c \in 0..channels - 1 : k = channels * x + c
  <2>. DEFINE x == k \div channels
              c == k % channels
              s == channels * width
  <2>1. x \in Int /\ c \in 0..channels - 1 /\ k \in Nat /\ s \in Nat /\ k < s
    <3>1. channels * width \in Int  OBVIOUS
    <3>. QED  BY <3>1
  <2>2. x = k \div channels /\ c = k % channels  OBVIOUS
  <2>. HIDE DEF x, c, s
  <2>3. k = channels * x + c  BY <2>1, <2>2, Remainder
  <2>4. x >= 0
    <3>1. CASE x <= -1
      <4>1. channels * x <= 0 - channels  BY <2>1, <3>1
      <4>2. channels * x \in Int  BY <2>1
      <4>. QED  BY <2>1, <2>3, <4>1, <4>2
    <3>. QED  BY <2>1, <3>1
  <2>5. x < width
    <3>1. CASE x >= width
      <4>1. channels * (x - width) >= 0 /\ channels * (x - width) = channels * x - channels * width
        BY <2>1, <3>1
      <4>2. channels * x \in Int /\ channels * width \in Int  BY <2>1
      <4>3. channels * x >= s  BY <4>1, <4>2 DEF s
      <4>. QED  BY <2>1, <2>3, <4>2, <4>3
    <3>. QED  BY <2>1, <3>1
  <2>. QED  BY <2>1, <2>3, <2>4, <2>5
<1>2. ASSUME NEW x \in 0..width - 1, NEW c \in 0..channels - 1
      PROVE  channels * x + c \in 0..channels * width - 1
  <2>1. channels * ((width - 1) - x) >= 0 /\ channels * x \in Nat  OBVIOUS
  <2>2. channels * ((width - 1) - x) = (channels * width - channels) - channels * x  OBVIOUS
  <2>3. channels * width \in Nat  OBVIOUS
  <2>. DEFINE s == channels * width
              u == channels * x
  <2>4. (s - channels) - u >= 0 /\ s \in Nat /\ u \in Nat  BY <2>1, <2>2, <2>3
  <2>. HIDE DEF s, u
  <2>5. u + c \in 0..s - 1  BY <2>4
  <2>. QED  BY <2>5 DEF s, u
<1>. QED  BY <1>1, <1>2

MeantSamples(channels, left, top, width, height) ==
    {MeantSample(channels, left, top, x, y, c) : c \in 0..channels - 1, x \in 0..width - 1, y \in 0..height - 1}

LEMMA SummedSamplesAre ==
    ASSUME NEW channels \in Nat \ {0}, NEW bps \in {1, 2, 4, 8}, NEW left \in Nat, NEW top \in Nat,
           NEW width \in Nat, NEW height \in Nat
    PROVE  SummedSamples(channels, bps, left, top, width, height) = MeantSamples(channels, left, top, width, height)
<1>. DEFINE n == 8 \div bps
            first == SampleIterator(8, bps, 0)
            offset == channels * (top * Side + left)
            length == channels * width + channels * (Side - width)
            start == RowStarts(first, offset, length)
            Ks == 0..channels * width - 1
            S == SummedSamples(channels, bps, left, top, width, height)
<1>1. S = {IndexOf(Advance(start[y], k)) : y \in 0..height - 1, k \in Ks}
  BY DEF SummedSamples, RowStarts, IndexOf
<1>2. n \in Nat \ {0}  BY SamplesPerByte
<1>3. first = IteratorAt(n, bps, 0)
  <2>1. first = IteratorAt(8 \div bps, bps, 0)  BY SampleIteratorIs
  <2>. QED  BY <2>1
<1>4. Side \in Nat  BY SideIs
<1>5. offset \in Nat /\ length = channels * Side /\ length \in Nat
  <2>1. offset \in Nat  BY <1>4
  <2>2. channels * (Side - width) = channels * Side - channels * width  BY <1>4
  <2>3. channels * Side \in Nat /\ channels * width \in Nat  BY <1>4
  <2>. QED  BY <2>1, <2>2, <2>3
<1>6. ASSUME NEW y \in Nat, NEW k \in Nat
      PROVE  IndexOf(Advance(start[y], k)) = SummedSample(channels, left, top, y, k)
  <2>. HIDE DEF first, n
  <2>1. SummedSample(channels, left, top, y, k) = (offset + y * length) + k  BY <1>5 DEF SummedSample
  <2>. HIDE DEF offset, length
  <2>2. IndexOf(Advance(RowStarts(IteratorAt(n, bps, 0), offset, length)[y], k)) = (offset + y * length) + k
    BY <1>2, <1>5, RowStartsFound
  <2>. QED  BY <1>3, <2>1, <2>2
<1>. HIDE DEF n, first, offset, length, start
<1>7. \A x \in Nat, y \in Nat, c \in Nat :
          SummedSample(channels, left, top, y, channels * x + c) = MeantSample(channels, left, top, x, y, c)
  BY SummedSampleIs
<1>. DEFINE T == {MeantSample(channels, left, top, x, y, c) : c \in 0..channels - 1, x \in 0..width - 1, y \in 0..height - 1}
<1>8. ASSUME NEW e \in S PROVE e \in T
  <2>1. PICK y \in 0..height - 1, k \in Ks : e = IndexOf(Advance(start[y], k))  BY <1>1
  <2>2. PICK x \in 0..width - 1, c \in 0..channels - 1 : k = channels * x + c  BY ChannelAndPixel
  <2>3. k \in Nat /\ x \in Nat /\ y \in Nat /\ c \in Nat
    <3>1. channels * width \in Int  OBVIOUS
    <3>. QED  BY <3>1
  <2>4. e = MeantSample(channels, left, top, x, y, c)  BY <1>6, <1>7, <2>1, <2>2, <2>3
  <2>. QED  BY <2>4
<1>9. ASSUME NEW e \in T PROVE e \in S
  <2>1. PICK c \in 0..channels - 1, x \in 0..width - 1, y \in 0..height - 1 :
            e = MeantSample(channels, left, top, x, y, c)
    OBVIOUS
  <2>. DEFINE k == channels * x + c
  <2>2. k \in Ks  BY ChannelAndPixel
  <2>3. k \in Nat /\ x \in Nat /\ y \in Nat /\ c \in Nat
    <3>1. channels * x \in Nat  OBVIOUS
    <3>. QED  BY <3>1
  <2>4. e = SummedSample(channels, left, top, y, k)  BY <1>7, <2>1, <2>3
  <2>. HIDE DEF k
  <2>5. e = IndexOf(Advance(start[y], k))  BY <1>6, <2>3, <2>4
  <2>. QED  BY <1>1, <2>2, <2>5
<1>10. S = T
  <2>. HIDE DEF S, T
  <2>. QED  BY <1>8, <1>9
<1>. QED  BY <1>10 DEF MeantSamples

\* Whatever the size of an area and wherever it is: cacheZoom() of clipped bitmaps
\* looks at exactly the bits of its pixels, and sumPixelValues() adds up exactly
\* their samples, each of its channels, for every tile.
THEOREM SamplesAreOfTheArea ==
    ASSUME NEW pixelSize \in Nat, NEW i \in Nat, NEW j \in Nat, NEW channels \in Nat \ {0}, NEW bps \in {1, 2, 4, 8}
    PROVE  SamplesOfArea(pixelSize, i, j, channels, bps)
<1>. DEFINE height == pixelSize + 1
            Meant == {channels * ((j + y) * Side + i + x) + c :
                         c \in 0..channels - 1, x \in 0..pixelSize - 1, y \in 0..pixelSize}
            Bits == {(j * pixelSize + y) * Side + i * pixelSize + x : x \in 0..pixelSize - 1, y \in 0..pixelSize - 1}
<1>1. height \in Nat /\ height - 1 = pixelSize  OBVIOUS
<1>2. MeantSamples(channels, i, j, pixelSize, height) = Meant
  <2>. HIDE DEF height
  <2>1. MeantSamples(channels, i, j, pixelSize, height) =
            {MeantSample(channels, i, j, x, y, c) : c \in 0..channels - 1, x \in 0..pixelSize - 1, y \in 0..pixelSize}
    BY <1>1 DEF MeantSamples
  <2>. QED  BY ONLY <2>1 DEF MeantSample
<1>3. MeantBits(pixelSize, i, j) = Bits  BY DEF MeantBits, MeantBit
<1>4. SamplesOfArea(pixelSize, i, j, channels, bps) <=>
          (ZoomedBits(pixelSize, i, j) = Bits /\ SummedSamples(channels, bps, i, j, pixelSize, height) = Meant)
  BY ONLY TRUE DEF SamplesOfArea
<1>. HIDE DEF height, Meant, Bits
<1>5. SummedSamples(channels, bps, i, j, pixelSize, height) = MeantSamples(channels, i, j, pixelSize, height)
  BY SMTT(30), <1>1, SummedSamplesAre
<1>6. ZoomedBits(pixelSize, i, j) = MeantBits(pixelSize, i, j)  BY ZoomedBitsAre
<1>. QED  BY <1>2, <1>3, <1>4, <1>5, <1>6

-----------------------------------------------------------------------------
(* Samples in a word: powers of 2, and what set() does to its word.        *)

\* Powers of 2 that fit in a word.
LEMMA PowersOfTwo ==
    /\ \A a \in 0..16 : 2 ^ a \in Nat \ {0}
    /\ \A a \in 0..15 : 2 ^ (a + 1) = 2 * 2 ^ a
    /\ 2 ^ 0 = 1
<1>1. 2 ^ 0 = 1  BY SMT
<1>2. /\ 2 ^ 1 = 2 * 2 ^ 0 /\ 2 ^ 2 = 2 * 2 ^ 1 /\ 2 ^ 3 = 2 * 2 ^ 2 /\ 2 ^ 4 = 2 * 2 ^ 3
      /\ 2 ^ 5 = 2 * 2 ^ 4 /\ 2 ^ 6 = 2 * 2 ^ 5 /\ 2 ^ 7 = 2 * 2 ^ 6 /\ 2 ^ 8 = 2 * 2 ^ 7
      /\ 2 ^ 9 = 2 * 2 ^ 8 /\ 2 ^ 10 = 2 * 2 ^ 9 /\ 2 ^ 11 = 2 * 2 ^ 10 /\ 2 ^ 12 = 2 * 2 ^ 11
      /\ 2 ^ 13 = 2 * 2 ^ 12 /\ 2 ^ 14 = 2 * 2 ^ 13 /\ 2 ^ 15 = 2 * 2 ^ 14 /\ 2 ^ 16 = 2 * 2 ^ 15
  BY SMT
<1>4. ASSUME NEW a \in 0..15 PROVE 2 ^ (a + 1) = 2 * 2 ^ a
  <2>1. \/ (a = 0 /\ a + 1 = 1) \/ (a = 1 /\ a + 1 = 2) \/ (a = 2 /\ a + 1 = 3) \/ (a = 3 /\ a + 1 = 4)
        \/ (a = 4 /\ a + 1 = 5) \/ (a = 5 /\ a + 1 = 6) \/ (a = 6 /\ a + 1 = 7) \/ (a = 7 /\ a + 1 = 8)
        \/ (a = 8 /\ a + 1 = 9) \/ (a = 9 /\ a + 1 = 10) \/ (a = 10 /\ a + 1 = 11) \/ (a = 11 /\ a + 1 = 12)
        \/ (a = 12 /\ a + 1 = 13) \/ (a = 13 /\ a + 1 = 14) \/ (a = 14 /\ a + 1 = 15) \/ (a = 15 /\ a + 1 = 16)
    OBVIOUS
  <2>. QED  BY <1>2, <2>1, Zenon
<1>5. ASSUME NEW a \in 0..16 PROVE 2 ^ a \in Nat \ {0}
  <2>. DEFINE T == {n \in Nat : n <= 16 => 2 ^ n \in Nat \ {0}}
  <2>1. 0 \in T  BY <1>1
  <2>2. ASSUME NEW n \in Nat, n \in T PROVE n + 1 \in T
    <3>. DEFINE p == 2 ^ n
    <3>1. CASE n + 1 <= 16
      <4>1. n \in 0..15 /\ p \in Nat \ {0}  BY <2>2, <3>1
      <4>2. 2 ^ (n + 1) = 2 * p  BY <1>4, <4>1
      <4>. HIDE DEF p
      <4>3. 2 * p \in Nat \ {0}  BY <4>1
      <4>. QED  BY <4>2, <4>3
    <3>. QED  BY <3>1
  <2>3. a \in T
    <3>1. a \in Nat  OBVIOUS
    <3>. HIDE DEF T
    <3>. QED  BY <2>1, <2>2, <3>1, NatSets
  <2>. QED  BY <2>3
<1>. QED  BY <1>1, <1>4, <1>5

LEMMA PowerOfSum ==
    ASSUME NEW a \in Nat, NEW b \in Nat, a + b <= 16
    PROVE  2 ^ (a + b) = 2 ^ a * 2 ^ b
<1>. DEFINE T == {n \in Nat : a + n <= 16 => 2 ^ (a + n) = 2 ^ a * 2 ^ n}
<1>1. 0 \in T
  <2>1. CASE a + 0 <= 16
    <3>1. a \in 0..16  BY <2>1
    <3>2. 2 ^ a \in Nat  BY <3>1, PowersOfTwo
    <3>3. 2 ^ a * 1 = 2 ^ a /\ a + 0 = a  BY <3>2
    <3>. QED  BY <3>3, PowersOfTwo
  <2>. QED  BY <2>1
<1>2. ASSUME NEW n \in Nat, n \in T PROVE n + 1 \in T
  <2>. SUFFICES ASSUME a + (n + 1) <= 16 PROVE 2 ^ (a + (n + 1)) = 2 ^ a * 2 ^ (n + 1)
    OBVIOUS
  <2>. DEFINE pa == 2 ^ a
              pn == 2 ^ n
  <2>1. a \in 0..16 /\ n \in 0..15 /\ a + n \in 0..15 /\ a + (n + 1) = (a + n) + 1  OBVIOUS
  <2>2. 2 ^ (a + n) = pa * pn  BY <1>2, <2>1
  <2>3. 2 ^ ((a + n) + 1) = 2 * 2 ^ (a + n) /\ 2 ^ (n + 1) = 2 * pn /\ pa \in Nat /\ pn \in Nat
    <3>1. n \in 0..16  BY <2>1
    <3>. QED  BY <2>1, <3>1, PowersOfTwo
  <2>. HIDE DEF pa, pn
  <2>4. 2 * (pa * pn) = pa * (2 * pn)  BY <2>3
  <2>5. 2 ^ (a + (n + 1)) = pa * (2 * pn)  BY <2>1, <2>2, <2>3, <2>4
  <2>. QED  BY <2>3, <2>5 DEF pa
<1>3. b \in T
  <2>. HIDE DEF T
  <2>. QED  BY <1>1, <1>2, NatSets
<1>. QED  BY <1>3

\* The weight of sample k, counted from the least significant one.
Weight(bps, k) == 2 ^ (k * bps)

LEMMA WordsAre ==
    ASSUME NEW bits \in {8, 16}, NEW bps \in {1, 2, 4, 8}
    PROVE  bits \div bps \in Nat \ {0} /\ (bits \div bps) * bps = bits
<1>1. /\ 8 \div 1 = 8 /\ 8 \div 2 = 4 /\ 8 \div 4 = 2 /\ 8 \div 8 = 1
      /\ 16 \div 1 = 16 /\ 16 \div 2 = 8 /\ 16 \div 4 = 4 /\ 16 \div 8 = 2
  OBVIOUS
<1>. QED  BY <1>1

IsSumOf(c, a, b) == c = a + b
IsProductOf(c, a, b) == c = a * b

LEMMA WeightsAre ==
    ASSUME NEW bits \in {8, 16}, NEW bps \in {1, 2, 4, 8}, NEW n \in Nat, n * bps = bits
    PROVE  /\ \A a \in Nat : a <= n => Weight(bps, a) \in Nat \ {0}
           /\ \A a \in Nat, b \in Nat, c \in Nat :
                  c <= n /\ IsSumOf(c, a, b) => IsProductOf(Weight(bps, c), Weight(bps, a), Weight(bps, b))
           /\ Weight(bps, 1) = 2 ^ bps
           /\ Weight(bps, n) = 2 ^ bits
<1>1. ASSUME NEW a \in Nat, a <= n PROVE a * bps \in 0..16
  <2>1. (n - a) * bps >= 0 /\ (n - a) * bps = n * bps - a * bps /\ a * bps \in Nat  BY <1>1
  <2>. QED  BY <2>1
<1>2. ASSUME NEW a \in Nat, a <= n PROVE Weight(bps, a) \in Nat \ {0}
  BY <1>1, <1>2, PowersOfTwo DEF Weight
<1>3. ASSUME NEW a \in Nat, NEW b \in Nat, a + b <= n
      PROVE  Weight(bps, a + b) = Weight(bps, a) * Weight(bps, b)
  <2>. DEFINE x == a * bps
              y == b * bps
  <2>1. (a + b) * bps = x + y /\ x \in Nat /\ y \in Nat  OBVIOUS
  <2>2. x + y <= 16
    <3>1. (a + b) * bps \in 0..16  BY <1>1, <1>3
    <3>. QED  BY <2>1, <3>1
  <2>. HIDE DEF x, y
  <2>3. 2 ^ (x + y) = 2 ^ x * 2 ^ y  BY <2>1, <2>2, PowerOfSum
  <2>. QED  BY <2>1, <2>3 DEF Weight, x, y
<1>4. 1 * bps = bps  OBVIOUS
<1>5. ASSUME NEW a \in Nat, NEW b \in Nat, NEW c \in Nat, c <= n, IsSumOf(c, a, b)
      PROVE  IsProductOf(Weight(bps, c), Weight(bps, a), Weight(bps, b))
  <2>1. c = a + b /\ a + b <= n  BY <1>5 DEF IsSumOf
  <2>2. Weight(bps, a + b) = Weight(bps, a) * Weight(bps, b)  BY <1>3, <2>1
  <2>. QED  BY <2>1, <2>2 DEF IsProductOf
<1>. QED  BY <1>2, <1>4, <1>5 DEF Weight

\* The sample of weight s that is read from a word, when there are m values.
Sample(word, s, m) == (word \div s) % m

IsProduct(p, s, m, y) == p = s * (m * y)
IsWord(word, s, m, x, v, rest) == word = s * (m * x + v) + rest
IsBelow(word, s, m, y, e) == word = s * (m * y) - e
IsLargest(word, s, m) == Sample(word, s, m) = m - 1

IsSum(w, n, a, r) == w = n * a + r

LEMMA QuotientFound ==
    ASSUME NEW n \in Nat \ {0}, NEW a \in Int, NEW r \in Nat, r < n, NEW w, IsSum(w, n, a, r)
    PROVE  w \div n = a /\ w % n = r
<1>1. (n * a + r) \div n = a /\ (n * a + r) % n = r  BY QuotientIs
<1>. QED  BY <1>1 DEF IsSum

LEMMA SampleIs ==
    ASSUME NEW s \in Nat \ {0}, NEW m \in Nat \ {0}, NEW x \in Nat, NEW v \in Nat, v < m, NEW rest \in Nat, rest < s,
           NEW word, IsWord(word, s, m, x, v, rest)
    PROVE  Sample(word, s, m) = v
<1>. DEFINE z == m * x + v
<1>1. z \in Nat  OBVIOUS
<1>2. IsSum(z, m, x, v) /\ IsSum(word, s, z, rest)  BY DEF IsSum, IsWord
<1>. HIDE DEF z
<1>3. z % m = v  BY <1>2, QuotientFound
<1>4. word \div s = z  BY <1>1, <1>2, QuotientFound
<1>. QED  BY <1>3, <1>4 DEF Sample

\* Just below a multiple of m * s the sample of weight s is the largest.
LEMMA LargestSample ==
    ASSUME NEW s \in Nat \ {0}, NEW m \in Nat \ {0}, NEW y \in Nat \ {0}, NEW e \in 1..s,
           NEW word, IsBelow(word, s, m, y, e)
    PROVE  IsLargest(word, s, m)
<1>. DEFINE x == y - 1
            v == m - 1
            rest == s - e
            a == m * y
<1>1. x \in Nat /\ v \in Nat /\ v < m /\ rest \in Nat /\ rest < s  OBVIOUS
<1>2. m * x + v = a - 1 /\ a \in Int
  <2>1. m * x = a - m /\ a \in Int  OBVIOUS
  <2>. HIDE DEF x, a
  <2>. QED  BY <2>1
<1>3. s * (a - 1) = s * a - s
  <2>1. a \in Int  OBVIOUS
  <2>. HIDE DEF a
  <2>. QED  BY <2>1
<1>4. word = s * (m * x + v) + rest
  <2>. DEFINE b == s * a
  <2>1. b \in Int  BY <1>2
  <2>2. word = b - e  BY DEF IsBelow
  <2>3. s * (m * x + v) = b - s  BY <1>2, <1>3
  <2>. HIDE DEF a, b, x, v
  <2>. QED  BY <2>1, <2>2, <2>3
<1>5. IsWord(word, s, m, x, v, rest)  BY <1>4 DEF IsWord
<1>. HIDE DEF x, v, rest
<1>6. Sample(word, s, m) = v  BY <1>1, <1>5, SampleIs
<1>. QED  BY <1>6 DEF v, IsLargest

\* A word all of whose bits were set, after a sample of weight s in it was set to v.
WrittenWord(whole, s, m, v) == (whole - 1) - s * (m - 1) + s * v

LEMMA WrittenSample ==
    ASSUME NEW s \in Nat \ {0}, NEW m \in Nat \ {0}, NEW h \in Nat \ {0}, NEW v \in Nat, v < m,
           NEW whole, IsProduct(whole, s, m, h)
    PROVE  Sample(WrittenWord(whole, s, m, v), s, m) = v
<1>. DEFINE x == h - 1
            rest == s - 1
            word == WrittenWord(whole, s, m, v)
<1>1. x \in Nat /\ rest \in Nat /\ rest < s  OBVIOUS
<1>2. word = s * (m * x + v) + rest
  <2>. DEFINE a == m * h
              b == s * a
              c == s * m
              d == s * v
  <2>1. a \in Int /\ b \in Int /\ c \in Int /\ d \in Int  OBVIOUS
  <2>2. m * x + v = (a - m) + v
    <3>1. m * x = a - m  OBVIOUS
    <3>. QED  BY <3>1
  <2>3. s * ((a - m) + v) = (b - c) + d
    <3>1. a \in Int  OBVIOUS
    <3>. HIDE DEF a
    <3>. QED  BY <3>1
  <2>4. s * (m - 1) = c - s  OBVIOUS
  <2>5. word = (b - 1) - (c - s) + d  BY <2>4 DEF WrittenWord, IsProduct
  <2>6. s * (m * x + v) = (b - c) + d  BY <2>2, <2>3
  <2>. HIDE DEF a, b, c, d, x, word
  <2>. QED  BY <2>1, <2>5, <2>6
<1>2a. IsWord(word, s, m, x, v, rest)  BY <1>2 DEF IsWord
<1>. HIDE DEF x, rest, word
<1>3. Sample(word, s, m) = v  BY <1>1, <1>2a, SampleIs
<1>. QED  BY <1>3 DEF word

\* The less significant samples of that word are still the largest.
LEMMA LowerSample ==
    ASSUME NEW s \in Nat \ {0}, NEW m \in Nat \ {0}, NEW h \in Nat \ {0}, NEW v \in Nat, v < m,
           NEW whole, IsProduct(whole, s, m, h), NEW t \in Nat \ {0}, NEW k \in Nat \ {0}, IsProduct(s, t, m, k)
    PROVE  IsLargest(WrittenWord(whole, s, m, v), t, m)
<1>. DEFINE word == WrittenWord(whole, s, m, v)
            x == m * (h - 1) + v
            z == x + 1
            y == k * z
<1>1. x \in Nat
  <2>1. h - 1 \in Nat  OBVIOUS
  <2>2. m * (h - 1) \in Nat  BY <2>1
  <2>. QED  BY <2>2
<1>2. z \in Nat \ {0}
  <2>. HIDE DEF x
  <2>. QED  BY <1>1
<1>3. y \in Nat \ {0}
  <2>. HIDE DEF z
  <2>. QED  BY <1>2
<1>4. word = s * z - 1
  <2>. DEFINE a == m * h
              b == s * a
              c == s * m
              d == s * v
  <2>1. a \in Int /\ b \in Int /\ c \in Int /\ d \in Int  OBVIOUS
  <2>2. z = ((a - m) + v) + 1
    <3>1. m * (h - 1) = a - m  OBVIOUS
    <3>. QED  BY <3>1
  <2>3. s * (((a - m) + v) + 1) = ((b - c) + d) + s
    <3>1. a \in Int  OBVIOUS
    <3>. HIDE DEF a
    <3>. QED  BY <3>1
  <2>4. s * (m - 1) = c - s  OBVIOUS
  <2>5. word = (b - 1) - (c - s) + d  BY <2>4 DEF WrittenWord, IsProduct
  <2>. HIDE DEF a, b, c, d, z, word
  <2>. QED  BY <2>1, <2>2, <2>3, <2>5
<1>5. s * z = t * (m * y)
  <2>. HIDE DEF z
  <2>1. (t * (m * k)) * z = t * (m * (k * z))  BY <1>2
  <2>. QED  BY <2>1 DEF IsProduct
<1>6. IsBelow(word, t, m, y, 1)  BY <1>4, <1>5 DEF IsBelow
<1>7. 1 \in 1..t  OBVIOUS
<1>. HIDE DEF y, word
<1>8. IsLargest(word, t, m)  BY <1>3, <1>6, <1>7, LargestSample
<1>. QED  BY <1>8 DEF word

\* So are the more significant ones.
LEMMA HigherSample ==
    ASSUME NEW s \in Nat \ {0}, NEW m \in Nat \ {0}, NEW v \in Nat, v < m,
           NEW k \in Nat \ {0}, NEW t \in Nat \ {0}, IsProduct(t, s, m, k),
           NEW h \in Nat \ {0}, NEW whole, IsProduct(whole, t, m, h)
    PROVE  IsLargest(WrittenWord(whole, s, m, v), t, m)
<1>. DEFINE word == WrittenWord(whole, s, m, v)
            c == s * m
            d == s * v
            e == (c - s) - d + 1
<1>1. c \in Int /\ d \in Nat /\ d <= c - s
  <2>1. c \in Int /\ d \in Nat  OBVIOUS
  <2>2. s * ((m - 1) - v) >= 0  OBVIOUS
  <2>3. s * ((m - 1) - v) = (c - s) - d  OBVIOUS
  <2>. HIDE DEF c, d
  <2>. QED  BY <2>1, <2>2, <2>3
<1>2. c <= t
  <2>1. m <= m * k /\ m * k \in Nat
    <3>1. m * (k - 1) >= 0 /\ m * (k - 1) = m * k - m /\ m * k \in Nat  OBVIOUS
    <3>. QED  BY <3>1
  <2>. DEFINE w == m * k
  <2>2. m <= w /\ w \in Nat  BY <2>1
  <2>. HIDE DEF w
  <2>3. s * (w - m) >= 0 /\ s * (w - m) = s * w - c /\ s * w \in Nat  BY <2>2
  <2>4. t = s * w  BY DEF w, IsProduct
  <2>. QED  BY <1>1, <2>3, <2>4
<1>3. e \in 1..t
  <2>. HIDE DEF c, d
  <2>. QED  BY <1>1, <1>2
<1>4. word = whole - e
  <2>1. s * (m - 1) = c - s  OBVIOUS
  <2>2. word = (whole - 1) - (c - s) + d  BY <2>1 DEF WrittenWord
  <2>3. whole \in Int  BY DEF IsProduct
  <2>. HIDE DEF c, d, word
  <2>. QED  BY <1>1, <2>2, <2>3
<1>5. IsBelow(word, t, m, h, e)  BY <1>4 DEF IsBelow, IsProduct
<1>. HIDE DEF e, word
<1>6. IsLargest(word, t, m)  BY <1>3, <1>5, LargestSample
<1>. QED  BY <1>6 DEF word

\* Going from sample to sample.
Steps(first) == LET step[m \in Nat] == IF m = 0 THEN first ELSE Succ(step[m - 1]) IN step

LEMMA StepIs ==
    ASSUME NEW n \in Nat \ {0}, NEW bps, NEW m \in Nat
    PROVE  Steps(IteratorAt(n, bps, 0))[m] = IteratorAt(n, bps, m)
<1>. DEFINE first == IteratorAt(n, bps, 0)
            IsIt(g) == g = [z \in Nat |-> IF z = 0 THEN first ELSE Succ(g[z - 1])]
            f == [z \in Nat |-> IteratorAt(n, bps, z)]
            it == CHOOSE g : IsIt(g)
            T == {z \in Nat : it[z] = IteratorAt(n, bps, z)}
<1>1. \A z \in Nat : Succ(IteratorAt(n, bps, z)) = IteratorAt(n, bps, z + 1)  BY SuccIs
<1>2. IsIt(f)
  <2>1. ASSUME NEW z \in Nat PROVE f[z] = IF z = 0 THEN first ELSE Succ(f[z - 1])
    <3>1. CASE z = 0  BY <3>1
    <3>2. CASE z # 0
      <4>1. z - 1 \in Nat /\ (z - 1) + 1 = z  BY <3>2
      <4>2. f[z - 1] = IteratorAt(n, bps, z - 1) /\ f[z] = IteratorAt(n, bps, z)  BY <4>1
      <4>3. Succ(IteratorAt(n, bps, z - 1)) = IteratorAt(n, bps, z)  BY <1>1, <4>1
      <4>. QED  BY <3>2, <4>2, <4>3
    <3>. QED  BY <3>1, <3>2
  <2>2. f = [z \in Nat |-> f[z]]  OBVIOUS
  <2>. HIDE DEF f, first
  <2>. QED  BY <2>1, <2>2
<1>3. IsIt(it)  BY <1>2
<1>4. Steps(first) = it  BY DEF Steps
<1>5. it[0] = first /\ \A z \in Nat : it[z + 1] = Succ(it[z])
  <2>. HIDE DEF it, first
  <2>1. \A z \in Nat : it[z] = IF z = 0 THEN first ELSE Succ(it[z - 1])  BY <1>3
  <2>2. \A z \in Nat : z + 1 \in Nat /\ z + 1 # 0 /\ (z + 1) - 1 = z  OBVIOUS
  <2>3. 0 \in Nat  OBVIOUS
  <2>4. ASSUME NEW z \in Nat PROVE it[z + 1] = Succ(it[z])
    BY ONLY <2>1, <2>2, z \in Nat
  <2>. QED  BY ONLY <2>1, <2>3, <2>4
<1>. HIDE DEF it
<1>6. 0 \in T  BY <1>5
<1>7. ASSUME NEW z \in Nat, z \in T PROVE z + 1 \in T
  BY <1>1, <1>5, <1>7
<1>8. m \in T
  <2>. HIDE DEF T
  <2>. QED  BY <1>6, <1>7, NatSets
<1>. QED  BY <1>4, <1>8

\* Which sample of a word an iterator reads, and what it writes.
LEMMA GetOf ==
    ASSUME NEW mem, NEW n, NEW bps, NEW q, NEW r, NEW it, it = Iterator(n, bps, q, r)
    PROVE  Get(mem, it) = Sample(mem[q], Weight(bps, n - 1 - r), 2 ^ bps)
<1>1. it.bps = bps /\ it.base = q /\ it.off = n - 1 - r  BY IteratorFields
<1>. QED  BY <1>1 DEF Get, Mask, Shift, Weight, Sample

LEMMA SetOf ==
    ASSUME NEW mem, NEW n, NEW bps, NEW q, NEW r, NEW it, it = Iterator(n, bps, q, r), NEW v
    PROVE  Set(mem, it, v) =
               [mem EXCEPT ![q] = @ - Weight(bps, n - 1 - r) * Get(mem, it) + Weight(bps, n - 1 - r) * v]
<1>1. it.bps = bps /\ it.base = q /\ it.off = n - 1 - r  BY IteratorFields
<1>2. Shift(it) = Weight(bps, n - 1 - r)  BY <1>1 DEF Shift, Weight
<1>. QED  BY <1>1, <1>2 DEF Set

LEMMA DividesInto ==
    ASSUME NEW v \in Int, NEW n \in Nat \ {0}, NEW q, q = v \div n, NEW r, r = v % n
    PROVE  IsSum(v, n, q, r) /\ r \in 0..n - 1
<1>1. v = n * q + r  OBVIOUS
<1>2. v % n \in 0..n - 1  OBVIOUS
<1>. QED  BY <1>1, <1>2 DEF IsSum

\* The words in which these samples are.
LEMMA WordOf ==
    ASSUME NEW n \in Nat \ {0}, NEW m \in 0..2 * n
    PROVE  m \div n \in 0..2 /\ m % n \in 0..n - 1
<1>. DEFINE q == m \div n
            r == m % n
<1>1. q = m \div n /\ r = m % n /\ q \in Nat  OBVIOUS
<1>2. m = n * q + r /\ r \in 0..n - 1
  <2>1. m \in Int  OBVIOUS
  <2>. HIDE DEF q, r
  <2>2. IsSum(m, n, q, r) /\ r \in 0..n - 1  BY <1>1, <2>1, DividesInto
  <2>. QED  BY <2>2 DEF IsSum
<1>. HIDE DEF q, r
<1>3. q <= 2
  <2>1. CASE q >= 3
    <3>1. n * (q - 3) >= 0 /\ n * (q - 3) = n * q - 3 * n /\ n * q \in Nat  BY <1>1, <2>1
    <3>. QED  BY <1>2, <3>1
  <2>. QED  BY <1>1, <2>1
<1>. QED  BY <1>1, <1>2, <1>3

LEMMA SameSample ==
    ASSUME NEW n \in Nat \ {0}, NEW k \in Nat, NEW m \in Nat, k \div n = m \div n, k % n = m % n
    PROVE  k = m
<1>. DEFINE q == k \div n
            r == k % n
<1>1. q = k \div n /\ r = k % n /\ q = m \div n /\ r = m % n /\ k \in Int /\ m \in Int  OBVIOUS
<1>. HIDE DEF q, r
<1>2. IsSum(k, n, q, r)  BY <1>1, DividesInto
<1>3. IsSum(m, n, q, r)  BY <1>1, DividesInto
<1>. QED  BY <1>2, <1>3 DEF IsSum

\* The samples of a word of 2^bits values.
LEMMA WordHolds ==
    ASSUME NEW bits \in {8, 16}, NEW bps \in {1, 2, 4, 8}, NEW n \in Nat \ {0}, n * bps = bits, NEW r \in 0..n - 1
    PROVE  /\ Weight(bps, n - 1 - r) \in Nat \ {0} /\ Weight(bps, r) \in Nat \ {0} /\ 2 ^ bps \in Nat \ {0}
           /\ IsProduct(2 ^ bits, Weight(bps, n - 1 - r), 2 ^ bps, Weight(bps, r))
<1>. DEFINE off == n - 1 - r
            s == Weight(bps, off)
            m == Weight(bps, 1)
            h == Weight(bps, r)
<1>1. /\ off \in Nat /\ off <= n /\ r \in Nat /\ r <= n /\ 1 <= n /\ 1 + r <= n /\ 1 + r \in Nat
      /\ IsSumOf(1 + r, 1, r) /\ IsSumOf(n, off, 1 + r) /\ 1 \in Nat
  BY DEF IsSumOf
<1>. DEFINE next == 1 + r
<1>1a. next \in Nat /\ next <= n /\ IsSumOf(next, 1, r) /\ IsSumOf(n, off, next)  BY <1>1
<1>. HIDE DEF off, next
<1>2. /\ s \in Nat \ {0} /\ h \in Nat \ {0} /\ m \in Nat \ {0}
      /\ IsProductOf(Weight(bps, next), m, h)
      /\ IsProductOf(Weight(bps, n), s, Weight(bps, next))
      /\ m = 2 ^ bps /\ Weight(bps, n) = 2 ^ bits
  <2>1. s \in Nat \ {0} /\ h \in Nat \ {0} /\ m \in Nat \ {0}  BY <1>1, WeightsAre
  <2>2. n \in Nat /\ n <= n  OBVIOUS
  <2>3. IsProductOf(Weight(bps, next), m, h)  BY <1>1, <1>1a, WeightsAre
  <2>4. IsProductOf(Weight(bps, n), s, Weight(bps, next))  BY <1>1, <1>1a, <2>2, WeightsAre
  <2>5. m = 2 ^ bps /\ Weight(bps, n) = 2 ^ bits  BY ZenonT(40), WeightsAre
  <2>. QED  BY <2>1, <2>3, <2>4, <2>5
<1>3. 2 ^ bits = s * (m * h)  BY <1>2 DEF IsProductOf
<1>. QED  BY <1>2, <1>3 DEF off, IsProduct

\* Setting one of the samples of a word sets that sample, and no other.
AfterSet(bits, bps, n, a, v) == WrittenWord(2 ^ bits, Weight(bps, n - 1 - a), 2 ^ bps, v)
SampleOf(word, bps, n, a) == Sample(word, Weight(bps, n - 1 - a), 2 ^ bps)
LargestOf(word, bps, n, b) == IsLargest(word, Weight(bps, n - 1 - b), 2 ^ bps)
ValuesOf(bps) == 0..2 ^ bps - 1

LEMMA WordAfterSet ==
    ASSUME NEW bits \in {8, 16}, NEW bps \in {1, 2, 4, 8}, NEW n \in Nat \ {0}, n * bps = bits,
           NEW a \in 0..n - 1, NEW v \in ValuesOf(bps), NEW word, word = AfterSet(bits, bps, n, a, v)
    PROVE  /\ SampleOf(word, bps, n, a) = v
           /\ \A b \in 0..n - 1 : b # a => LargestOf(word, bps, n, b)
<1>. DEFINE whole == 2 ^ bits
            m == 2 ^ bps
            s == Weight(bps, n - 1 - a)
            h == Weight(bps, a)
<1>1. s \in Nat \ {0} /\ m \in Nat \ {0} /\ h \in Nat \ {0} /\ IsProduct(whole, s, m, h)  BY WordHolds
<1>2. v \in Nat /\ v < m  BY <1>1 DEF ValuesOf
<1>. HIDE DEF whole, m, s, h
<1>3. word = WrittenWord(whole, s, m, v)  BY DEF whole, m, s, AfterSet
<1>4. Sample(word, s, m) = v  BY <1>1, <1>2, <1>3, WrittenSample
<1>5. ASSUME NEW b \in 0..n - 1, b # a PROVE IsLargest(word, Weight(bps, n - 1 - b), m)
  <2>. DEFINE t == Weight(bps, n - 1 - b)
              g == Weight(bps, b)
  <2>1. t \in Nat \ {0} /\ g \in Nat \ {0} /\ IsProduct(whole, t, m, g)
    BY WordHolds DEF m, whole
  <2>2. m = Weight(bps, 1)  BY WeightsAre DEF m
  <2>3. CASE b > a
    <3>. DEFINE d == b - a - 1
                o == n - 1 - b
                k == Weight(bps, d)
                e == 1 + d
                u == n - 1 - a
    <3>1. /\ d \in Nat /\ o \in Nat /\ d <= n /\ e \in Nat /\ e <= n /\ u \in Nat /\ u <= n /\ 1 \in Nat
          /\ IsSumOf(e, 1, d) /\ IsSumOf(u, o, e)
      BY <2>3 DEF IsSumOf
    <3>. HIDE DEF d, o, e, u
    <3>2. /\ k \in Nat \ {0} /\ IsProductOf(Weight(bps, e), m, k)
          /\ IsProductOf(Weight(bps, u), Weight(bps, o), Weight(bps, e))
      BY <2>2, <3>1, WeightsAre
    <3>3. s = t * (m * k)  BY <3>2 DEF s, t, o, u, IsProductOf
    <3>4. IsProduct(s, t, m, k)  BY <3>3 DEF IsProduct
    <3>. HIDE DEF t, k, g
    <3>5. IsLargest(WrittenWord(whole, s, m, v), t, m)  BY <1>1, <1>2, <2>1, <3>2, <3>4, LowerSample
    <3>. QED  BY <1>3, <3>5 DEF t
  <2>4. CASE b < a
    <3>. DEFINE d == a - b - 1
                o == n - 1 - a
                k == Weight(bps, d)
                e == 1 + d
                u == n - 1 - b
    <3>1. /\ d \in Nat /\ o \in Nat /\ d <= n /\ e \in Nat /\ e <= n /\ u \in Nat /\ u <= n /\ 1 \in Nat
          /\ IsSumOf(e, 1, d) /\ IsSumOf(u, o, e)
      BY <2>4 DEF IsSumOf
    <3>. HIDE DEF d, o, e, u
    <3>2. /\ k \in Nat \ {0} /\ IsProductOf(Weight(bps, e), m, k)
          /\ IsProductOf(Weight(bps, u), Weight(bps, o), Weight(bps, e))
      BY <2>2, <3>1, WeightsAre
    <3>3. t = s * (m * k)  BY <3>2 DEF s, t, o, u, IsProductOf
    <3>4. IsProduct(t, s, m, k)  BY <3>3 DEF IsProduct
    <3>. HIDE DEF t, k, g
    <3>5. IsLargest(WrittenWord(whole, s, m, v), t, m)  BY <1>1, <1>2, <2>1, <3>2, <3>4, HigherSample
    <3>. QED  BY <1>3, <3>5 DEF t
  <2>. QED  BY <1>5, <2>3, <2>4
<1>. QED  BY <1>4, <1>5 DEF s, m, SampleOf, LargestOf

\* In a word all of whose bits are set every sample is the largest.
LEMMA FullWord ==
    ASSUME NEW bits \in {8, 16}, NEW bps \in {1, 2, 4, 8}, NEW n \in Nat \ {0}, n * bps = bits, NEW r \in 0..n - 1
    PROVE  LargestOf(2 ^ bits - 1, bps, n, r)
<1>. DEFINE whole == 2 ^ bits
            word == whole - 1
            m == 2 ^ bps
            s == Weight(bps, n - 1 - r)
            h == Weight(bps, r)
<1>1. s \in Nat \ {0} /\ m \in Nat \ {0} /\ h \in Nat \ {0} /\ IsProduct(whole, s, m, h)  BY WordHolds
<1>2. 1 \in 1..s  BY <1>1
<1>. HIDE DEF whole, m, s, h
<1>3. IsBelow(word, s, m, h, 1)  BY <1>1 DEF IsProduct, IsBelow
<1>. HIDE DEF word
<1>4. IsLargest(word, s, m)  BY <1>1, <1>2, <1>3, LargestSample
<1>. QED  BY <1>4 DEF word, whole, s, m, LargestOf

\* Three words of samples, and what is read from them after sample k was set.
FullWords(bits) == [w \in 0..2 |-> 2 ^ bits - 1]
Kept(written, mem, n, bps, k, v) ==
    \A m \in 0..2 * n : Get(written, IteratorAt(n, bps, m)) = IF m = k THEN v ELSE Get(mem, IteratorAt(n, bps, m))

LEMMA GetAfterSet ==
    ASSUME NEW bits \in {8, 16}, NEW bps \in {1, 2, 4, 8}, NEW n \in Nat \ {0}, IsProductOf(bits, n, bps),
           NEW k \in 0..2 * n, NEW v \in ValuesOf(bps),
           NEW mem, mem = FullWords(bits), NEW written, written = Set(mem, IteratorAt(n, bps, k), v)
    PROVE  Kept(written, mem, n, bps, k, v)
<1>0. SUFFICES ASSUME NEW m \in 0..2 * n
               PROVE  Get(written, IteratorAt(n, bps, m)) =
                          IF m = k THEN v ELSE Get(mem, IteratorAt(n, bps, m))
  BY DEF Kept
<1>. DEFINE full == 2 ^ bits - 1
            q == k \div n
            a == k % n
            p == m \div n
            b == m % n
            it == IteratorAt(n, bps, k)
            at == IteratorAt(n, bps, m)
            S(r) == Weight(bps, n - 1 - r)
<1>1. q \in 0..2 /\ a \in 0..n - 1 /\ p \in 0..2 /\ b \in 0..n - 1  BY WordOf
<1>2. it = Iterator(n, bps, q, a) /\ at = Iterator(n, bps, p, b)  BY DEF IteratorAt
<1>3. k \in Nat /\ m \in Nat /\ n * bps = bits  BY DEF IsProductOf
<1>4. (p = q /\ b = a) <=> m = k
  <2>1. k \div n = m \div n /\ k % n = m % n => k = m  BY <1>3, SameSample
  <2>. QED  BY <2>1
<1>5. mem[q] = full /\ mem[p] = full  BY <1>1 DEF FullWords
<1>6. \A r \in 0..n - 1 : LargestOf(full, bps, n, r)  BY <1>3, FullWord
<1>7. DOMAIN mem = 0..2 /\ mem = [w \in 0..2 |-> mem[w]]  BY DEF FullWords
<1>. HIDE DEF full, q, a, p, b, it, at
<1>8. Get(mem, it) = SampleOf(mem[q], bps, n, a)  BY <1>2, GetOf DEF SampleOf
<1>9. Get(mem, it) = 2 ^ bps - 1
  <2>1. LargestOf(full, bps, n, a)  BY <1>1, <1>6
  <2>. QED  BY <1>5, <1>8, <2>1 DEF LargestOf, IsLargest, SampleOf
<1>10. written = [mem EXCEPT ![q] = @ - S(a) * Get(mem, it) + S(a) * v]
  <2>1. Set(mem, it, v) = [mem EXCEPT ![q] = @ - S(a) * Get(mem, it) + S(a) * v]
    BY <1>2, SetOf
  <2>. QED  BY <2>1 DEF it
<1>11. written[q] = AfterSet(bits, bps, n, a, v)
  <2>. HIDE DEF S
  <2>1. written[q] = mem[q] - S(a) * Get(mem, it) + S(a) * v  BY <1>1, <1>7, <1>10
  <2>2. written[q] = full - S(a) * (2 ^ bps - 1) + S(a) * v  BY <1>5, <1>9, <2>1
  <2>. QED  BY <2>2 DEF AfterSet, WrittenWord, S, full
<1>12. SampleOf(written[q], bps, n, a) = v /\ \A r \in 0..n - 1 : r # a => LargestOf(written[q], bps, n, r)
  <2>. DEFINE word == written[q]
  <2>1. word = AfterSet(bits, bps, n, a, v)  BY <1>11
  <2>. HIDE DEF word
  <2>2. SampleOf(word, bps, n, a) = v /\ \A r \in 0..n - 1 : r # a => LargestOf(word, bps, n, r)
    BY <1>1, <1>3, <2>1, WordAfterSet
  <2>. QED  BY <2>2 DEF word
<1>13. Get(written, at) = SampleOf(written[p], bps, n, b) /\ Get(mem, at) = SampleOf(mem[p], bps, n, b)
  BY <1>2, GetOf DEF SampleOf
<1>14. CASE m = k
  BY <1>4, <1>12, <1>13, <1>14 DEF at
<1>15. CASE p # q
  <2>1. written[p] = mem[p]  BY <1>1, <1>7, <1>10, <1>15
  <2>. QED  BY <1>4, <1>13, <1>15, <2>1 DEF at
<1>16. CASE p = q /\ b # a
  <2>1. LargestOf(written[p], bps, n, b) /\ LargestOf(mem[p], bps, n, b)  BY <1>1, <1>5, <1>6, <1>12, <1>16
  <2>2. Get(written, at) = Get(mem, at)  BY <1>13, <2>1 DEF LargestOf, IsLargest, SampleOf
  <2>. QED  BY <1>4, <1>16, <2>2 DEF at
<1>. QED  BY <1>4, <1>14, <1>15, <1>16

\* SampleIterator, for words of 8 and of 16 bits and samples of any depth: stepping
\* and advancing lead to the sample that is meant, and setting a sample to any value
\* of its depth sets it, and leaves every other sample as it was.
THEOREM SamplesKeepApart ==
    ASSUME NEW bits \in {8, 16}, NEW bps \in {1, 2, 4, 8},
           NEW n \in 0..2 * (bits \div bps) - 1, NEW value \in 0..2 ^ bps - 1
    PROVE  SamplesStayApart(bits, bps, n, value)
<1>. DEFINE N == bits \div bps
            first == SampleIterator(bits, bps, 0)
            it == SampleIterator(bits, bps, n)
            step == Steps(first)
            mem == [w \in 0..2 |-> 2 ^ bits - 1]
            written == Set(mem, it, value)
<1>1. N \in Nat \ {0} /\ N * bps = bits  BY WordsAre
<1>2. \A k : SampleIterator(bits, bps, k) = IteratorAt(N, bps, k)  BY SampleIteratorIs
<1>3. n \in Nat /\ n \in 0..2 * N
  <2>1. n \in 0..2 * N - 1  OBVIOUS
  <2>. HIDE DEF N
  <2>. QED  BY <1>1, <2>1
<1>. HIDE DEF N
<1>4. \A m \in Nat : step[m] = IteratorAt(N, bps, m)
  <2>1. first = IteratorAt(N, bps, 0)  BY <1>2
  <2>. HIDE DEF first
  <2>. QED  BY <1>1, <2>1, StepIs
<1>5. \A k \in Nat, x \in Nat : Advance(IteratorAt(N, bps, k), x) = IteratorAt(N, bps, k + x)
  BY <1>1, AdvanceIs
<1>6. it = IteratorAt(N, bps, n) /\ first = IteratorAt(N, bps, 0)  BY <1>2
<1>. HIDE DEF it, first, step, mem, written
<1>7. step[n] = it  BY <1>3, <1>4, <1>6
<1>8. Advance(first, n) = it
  <2>1. 0 + n = n /\ 0 \in Nat  BY <1>3
  <2>2. Advance(IteratorAt(N, bps, 0), n) = IteratorAt(N, bps, 0 + n)  BY <1>3, <1>5, <2>1
  <2>. QED  BY <1>6, <2>1, <2>2
<1>9. \A m \in 0..n : Advance(step[m], n - m) = it
  <2>. SUFFICES ASSUME NEW m \in 0..n PROVE Advance(step[m], n - m) = it  OBVIOUS
  <2>1. m \in Nat /\ n - m \in Nat /\ m + (n - m) = n  BY <1>3
  <2>. DEFINE x == n - m
  <2>. HIDE DEF x
  <2>2. x \in Nat /\ m + x = n  BY <2>1 DEF x
  <2>3. Advance(IteratorAt(N, bps, m), x) = IteratorAt(N, bps, n)  BY <1>5, <2>1, <2>2
  <2>4. Advance(step[m], x) = it  BY <1>4, <1>6, <2>1, <2>3
  <2>. QED  BY <2>4 DEF x
<1>10. \A m \in 0..2 * N : Get(written, IteratorAt(N, bps, m)) = IF m = n THEN value ELSE Get(mem, IteratorAt(N, bps, m))
  <2>1. written = Set(mem, IteratorAt(N, bps, n), value)  BY <1>6 DEF written
  <2>2. mem = FullWords(bits)  BY DEF mem, FullWords
  <2>3. IsProductOf(bits, N, bps) /\ value \in ValuesOf(bps)  BY <1>1 DEF IsProductOf, ValuesOf
  <2>4. Kept(written, mem, N, bps, n, value)  BY <1>1, <1>3, <2>1, <2>2, <2>3, GetAfterSet
  <2>. QED  BY <2>4 DEF Kept
<1>11. Get(written, it) = value  BY <1>3, <1>6, <1>10
<1>12. \A m \in 0..2 * N : m # n =>
           Get(written, SampleIterator(bits, bps, m)) = Get(mem, SampleIterator(bits, bps, m))
  BY <1>2, <1>10
<1>13. SamplesStayApart(bits, bps, n, value) <=>
           /\ step[n] = it
           /\ Advance(first, n) = it
           /\ \A m \in 0..n : Advance(step[m], n - m) = it
           /\ Get(written, it) = value
           /\ \A m \in 0..2 * N :
                  m # n => Get(written, SampleIterator(bits, bps, m)) = Get(mem, SampleIterator(bits, bps, m))
  BY DEF SamplesStayApart, step, Steps, first, it, mem, written, N
<1>. QED  BY <1>7, <1>8, <1>9, <1>11, <1>12, <1>13

-----------------------------------------------------------------------------
(* The values: the two that occur most often.                              *)

\* What the loop of reduce() knows of the values up to c: they are these two, in this
\* order, and no other occurs more often than the second.
AreTopTwo(lookup, b, c) ==
    /\ b \in (0..c) \X (0..c) /\ b[1] # b[2] /\ lookup[b[1]] >= lookup[b[2]]
    /\ \A w \in 0..c \ {b[1], b[2]} : lookup[w] <= lookup[b[2]]

\* One turn of that loop, and the value that it goes on from: those in between do
\* not occur.
TopTwoWith(lookup, c, b) ==
    IF lookup[c] > lookup[b[1]] THEN <<c, b[1]>>
    ELSE IF lookup[c] > lookup[b[2]] THEN <<b[1], c>> ELSE b
LastOccurring(lookup, c) == Max({0} \cup {v \in Occurring(lookup) : v < c})

LEMMA LastOccurringIs ==
    ASSUME NEW n \in Nat, NEW lookup \in [0..n -> Nat], NEW c \in Nat
    PROVE  /\ LastOccurring(lookup, c) \in 0..n /\ (c > 0 => LastOccurring(lookup, c) < c)
           /\ \A w \in 0..n : LastOccurring(lookup, c) < w /\ w < c => lookup[w] = 0
<1>. DEFINE S == {0} \cup {v \in Occurring(lookup) : v < c}
<1>1. S \subseteq 0..n /\ S # {} /\ S \subseteq Int  BY DEF Occurring
<1>2. IsFiniteSet(S)
  <2>1. IsFiniteSet(0..n)  BY FS_Interval
  <2>. QED  BY <1>1, <2>1, FS_Subset
<1>3. Max(S) \in S /\ \A y \in S : Max(S) >= y
  <2>. HIDE DEF S
  <2>. QED  BY <1>1, <1>2, MaxIs
<1>4. LastOccurring(lookup, c) = Max(S)  BY DEF LastOccurring
<1>5. c > 0 => \A v \in S : v < c  BY DEF Occurring
<1>6. ASSUME NEW w \in 0..n, Max(S) < w, w < c PROVE lookup[w] = 0
  <2>1. w \notin S  BY <1>1, <1>3, <1>6
  <2>2. w \notin Occurring(lookup)  BY <1>6, <2>1
  <2>. QED  BY <2>2 DEF Occurring
<1>. QED  BY <1>1, <1>3, <1>4, <1>5, <1>6

\* A turn of the loop keeps what it knows.
LEMMA TopTwoStays ==
    ASSUME NEW n \in Nat, NEW lookup \in [0..n -> Nat], NEW p \in 1..n, NEW c \in 1..n, p < c,
           \A w \in 0..n : p < w /\ w < c => lookup[w] = 0,
           NEW b, AreTopTwo(lookup, b, p)
    PROVE  AreTopTwo(lookup, TopTwoWith(lookup, c, b), c)
<1>. DEFINE x == b[1]
            y == b[2]
<1>1. /\ b = <<x, y>> /\ x \in 0..p /\ y \in 0..p /\ x # y /\ lookup[x] >= lookup[y]
      /\ \A w \in 0..p \ {x, y} : lookup[w] <= lookup[y]
  BY DEF AreTopTwo
<1>. HIDE DEF x, y
<1>2. x \in 0..n /\ y \in 0..n /\ x # c /\ y # c /\ x \in 0..c /\ y \in 0..c  BY <1>1
<1>3. lookup[x] \in Nat /\ lookup[y] \in Nat /\ lookup[c] \in Nat  BY <1>2
<1>4. \A w \in 0..c \ {x, y, c} : lookup[w] \in Nat /\ lookup[w] <= lookup[y]
  <2>. SUFFICES ASSUME NEW w \in 0..c \ {x, y, c} PROVE lookup[w] \in Nat /\ lookup[w] <= lookup[y]  OBVIOUS
  <2>1. w \in 0..n /\ w < c  OBVIOUS
  <2>2. CASE w <= p  BY <1>1, <2>1, <2>2
  <2>3. CASE p < w
    <3>1. lookup[w] = 0  BY <2>1, <2>3
    <3>. QED  BY <1>3, <3>1
  <2>. QED  BY <2>1, <2>2, <2>3
<1>5. CASE lookup[c] > lookup[x]
  <2>1. TopTwoWith(lookup, c, b) = <<c, x>>  BY <1>1, <1>5 DEF TopTwoWith
  <2>2. \A w \in 0..c \ {c, x} : lookup[w] <= lookup[x]
    <3>. SUFFICES ASSUME NEW w \in 0..c \ {c, x} PROVE lookup[w] <= lookup[x]  OBVIOUS
    <3>1. CASE w = y  BY <1>1, <3>1
    <3>2. CASE w # y
      <4>1. lookup[w] \in Nat /\ lookup[w] <= lookup[y]  BY <1>4, <3>2
      <4>. QED  BY <1>1, <1>3, <4>1
    <3>. QED  BY <3>1, <3>2
  <2>. QED  BY SMTT(30), <1>2, <1>3, <1>5, <2>1, <2>2 DEF AreTopTwo
<1>6. CASE ~(lookup[c] > lookup[x]) /\ lookup[c] > lookup[y]
  <2>1. TopTwoWith(lookup, c, b) = <<x, c>>  BY <1>1, <1>6 DEF TopTwoWith
  <2>2. \A w \in 0..c \ {x, c} : lookup[w] <= lookup[c]
    <3>. SUFFICES ASSUME NEW w \in 0..c \ {c, x} PROVE lookup[w] <= lookup[c]  OBVIOUS
    <3>1. CASE w = y  BY <1>3, <1>6, <3>1
    <3>2. CASE w # y
      <4>1. lookup[w] \in Nat /\ lookup[w] <= lookup[y]  BY <1>4, <3>2
      <4>. QED  BY <1>3, <1>6, <4>1
    <3>. QED  BY <3>1, <3>2
  <2>. QED  BY SMTT(30), <1>2, <1>3, <1>6, <2>1, <2>2 DEF AreTopTwo
<1>7. CASE ~(lookup[c] > lookup[x]) /\ ~(lookup[c] > lookup[y])
  <2>1. TopTwoWith(lookup, c, b) = <<x, y>>  BY <1>1, <1>7 DEF TopTwoWith
  <2>2. \A w \in 0..c \ {x, y} : lookup[w] <= lookup[y]
    <3>. SUFFICES ASSUME NEW w \in 0..c \ {x, y} PROVE lookup[w] <= lookup[y]  OBVIOUS
    <3>1. CASE w = c  BY <1>3, <1>7, <3>1
    <3>2. CASE w # c  BY <1>4, <3>2
    <3>. QED  BY <3>1, <3>2
  <2>3. TopTwoWith(lookup, c, b)[1] = x /\ TopTwoWith(lookup, c, b)[2] = y  BY <2>1
  <2>4. TopTwoWith(lookup, c, b) \in (0..c) \X (0..c)  BY <1>2, <2>1
  <2>. HIDE DEF TopTwoWith
  <2>. QED  BY <1>1, <2>2, <2>3, <2>4 DEF AreTopTwo
<1>. QED  BY <1>5, <1>6, <1>7

\* TopTwo() begins with the values 0 and 1, and looks at the others one by one.
StartOf(lookup) == IF lookup[1] > lookup[0] THEN <<1, 0>> ELSE <<0, 1>>
IsBest(best, lookup) ==
    best = [c \in Nat |-> IF c < 2 THEN StartOf(lookup)
                          ELSE TopTwoWith(lookup, c, best[LastOccurring(lookup, c)])]

LEMMA BestExists ==
    ASSUME NEW n \in Nat, NEW lookup \in [0..n -> Nat]
    PROVE  \E f : IsBest(f, lookup)
<1>. DEFINE V == Nat \X Nat
            stop == 0..1
            prev == [c \in Nat |-> LastOccurring(lookup, c)]
            step == [z \in Nat \X V |-> TopTwoWith(lookup, z[1], z[2])]
<1>1. prev \in [Nat -> Nat] /\ \A c \in Nat : c \notin stop => prev[c] < c
  <2>. SUFFICES ASSUME NEW c \in Nat
                PROVE  LastOccurring(lookup, c) \in Nat /\ (c > 0 => LastOccurring(lookup, c) < c)
    OBVIOUS
  <2>1. LastOccurring(lookup, c) \in 0..n /\ (c > 0 => LastOccurring(lookup, c) < c)  BY LastOccurringIs
  <2>. QED  BY <2>1
<1>2. step \in [Nat \X V -> V]
  <2>. SUFFICES ASSUME NEW c \in Nat, NEW b \in V PROVE TopTwoWith(lookup, c, b) \in V  OBVIOUS
  <2>1. b[1] \in Nat /\ b[2] \in Nat  OBVIOUS
  <2>2. <<c, b[1]>> \in V /\ <<b[1], c>> \in V  BY <2>1
  <2>. QED  BY <2>2, Zenon DEF TopTwoWith
<1>3. StartOf(lookup) \in V
  <2>1. <<1, 0>> \in V /\ <<0, 1>> \in V  OBVIOUS
  <2>. QED  BY <2>1, Zenon DEF StartOf
<1>4. PICK f : FromEarlier(f, V, stop, StartOf(lookup), prev, step)
  <2>. HIDE DEF V, stop, prev, step
  <2>. QED  BY <1>1, <1>2, <1>3, EarlierExists
<1>5. f \in [Nat -> V] /\ f = [c \in Nat |-> IF c \in stop THEN StartOf(lookup) ELSE step[<<c, f[prev[c]]>>]]
  BY <1>4 DEF FromEarlier
<1>6. ASSUME NEW c \in Nat
      PROVE  f[c] = IF c < 2 THEN StartOf(lookup) ELSE TopTwoWith(lookup, c, f[LastOccurring(lookup, c)])
  <2>1. f[c] = IF c \in stop THEN StartOf(lookup) ELSE step[<<c, f[prev[c]]>>]  BY <1>5
  <2>2. prev[c] = LastOccurring(lookup, c) /\ f[prev[c]] \in V  BY <1>1, <1>5
  <2>3. step[<<c, f[prev[c]]>>] = TopTwoWith(lookup, c, f[prev[c]])  BY <2>2
  <2>4. c \in stop <=> c < 2  OBVIOUS
  <2>. HIDE DEF V, stop, prev, step
  <2>. QED  BY <2>1, <2>2, <2>3, <2>4, Zenon
<1>7. f = [c \in Nat |-> f[c]]  BY <1>5
<1>8. f = [c \in Nat |-> IF c < 2 THEN StartOf(lookup) ELSE TopTwoWith(lookup, c, f[LastOccurring(lookup, c)])]
  <2>. HIDE DEF V, stop, prev, step
  <2>. QED  BY <1>6, <1>7, Zenon
<1>. QED  BY <1>8 DEF IsBest

\* After each turn, it knows that of the values so far.
LEMMA BestKnows ==
    ASSUME NEW n \in Nat \ {0}, NEW lookup \in [0..n -> Nat], NEW best, IsBest(best, lookup)
    PROVE  /\ AreTopTwo(lookup, best[n], n)
<1>. DEFINE T == {m \in Nat : \A c \in 0..n : c <= m => AreTopTwo(lookup, best[c], IF c = 0 THEN 1 ELSE c)}
<1>0. \A c \in Nat : best[c] = IF c < 2 THEN StartOf(lookup) ELSE TopTwoWith(lookup, c, best[LastOccurring(lookup, c)])
  BY DEF IsBest
<1>1. AreTopTwo(lookup, StartOf(lookup), 1)
  <2>1. lookup[0] \in Nat /\ lookup[1] \in Nat  OBVIOUS
  <2>2. StartOf(lookup) = IF lookup[1] > lookup[0] THEN <<1, 0>> ELSE <<0, 1>>  BY DEF StartOf
  <2>3. \A w \in 0..1 : w = 0 \/ w = 1  OBVIOUS
  <2>4. CASE lookup[1] > lookup[0]
    <3>1. StartOf(lookup) = <<1, 0>>  BY <2>2, <2>4
    <3>. QED  BY <2>1, <2>3, <2>4, <3>1 DEF AreTopTwo
  <2>5. CASE ~(lookup[1] > lookup[0])
    <3>1. StartOf(lookup) = <<0, 1>>  BY <2>2, <2>5
    <3>. QED  BY <2>1, <2>3, <2>5, <3>1 DEF AreTopTwo
  <2>. QED  BY <2>4, <2>5
<1>2. best[0] = StartOf(lookup) /\ best[1] = StartOf(lookup)  BY <1>0
<1>3. 0 \in T
  <2>1. AreTopTwo(lookup, best[0], 1)  BY <1>1, <1>2
  <2>. QED  BY <2>1
<1>4. ASSUME NEW m \in Nat, m \in T PROVE m + 1 \in T
  <2>. SUFFICES ASSUME NEW c \in 0..n, c <= m + 1 PROVE AreTopTwo(lookup, best[c], IF c = 0 THEN 1 ELSE c)
    OBVIOUS
  <2>1. CASE c = 0  BY <1>1, <1>2, <2>1
  <2>2. CASE c = 1  BY <1>1, <1>2, <2>2
  <2>3. CASE c > 1
    <3>. DEFINE q == LastOccurring(lookup, c)
                p == IF q = 0 THEN 1 ELSE q
    <3>1. q \in 0..n /\ q < c /\ \A w \in 0..n : q < w /\ w < c => lookup[w] = 0
      <4>1. c \in Nat /\ n \in Nat /\ c > 0  BY <2>3
      <4>. QED  BY <4>1, LastOccurringIs
    <3>2. AreTopTwo(lookup, best[q], p)
      <4>1. q <= m  BY <3>1
      <4>. HIDE DEF q
      <4>. QED  BY <1>4, <3>1, <4>1
    <3>3. best[c] = TopTwoWith(lookup, c, best[q])  BY <1>0, <2>3
    <3>. HIDE DEF q
    <3>4. p \in 1..n /\ p < c /\ c \in 1..n /\ \A w \in 0..n : p < w /\ w < c => lookup[w] = 0  BY <2>3, <3>1
    <3>. HIDE DEF p
    <3>5. AreTopTwo(lookup, TopTwoWith(lookup, c, best[q]), c)  BY <3>2, <3>4, TopTwoStays
    <3>. QED  BY <2>3, <3>3, <3>5
  <2>. QED  BY <2>1, <2>2, <2>3
<1>5. \A m \in Nat : m \in T
  <2>. HIDE DEF T
  <2>. QED  BY <1>3, <1>4, NatSets
<1>6. n \in T /\ n \in 0..n /\ n <= n /\ n # 0  BY <1>5
<1>. QED  BY <1>6

\* The outcome: the two values that occur most often, or the only one twice.
LEMMA TopTwoAre ==
    ASSUME NEW n \in Nat \ {0}, NEW lookup \in [0..n -> Nat], Occurring(lookup) # {}
    PROVE  LET t == TopTwo(lookup) IN
           /\ t = <<t[1], t[2]>> /\ t[1] \in Occurring(lookup) /\ t[2] \in Occurring(lookup)
           /\ lookup[t[1]] >= lookup[t[2]]
           /\ \A w \in 0..n \ {t[1], t[2]} : lookup[w] <= lookup[t[2]]
           /\ t[1] = t[2] => Occurring(lookup) = {t[1]}
<1>. DEFINE start == StartOf(lookup)
            best == CHOOSE f : f = [c \in Nat |->
                        IF c < 2 THEN start
                        ELSE IF lookup[c] > lookup[f[LastOccurring(lookup, c)][1]] THEN <<c, f[LastOccurring(lookup, c)][1]>>
                             ELSE IF lookup[c] > lookup[f[LastOccurring(lookup, c)][2]] THEN <<f[LastOccurring(lookup, c)][1], c>>
                                  ELSE f[LastOccurring(lookup, c)]]
            found == best[Cardinality(DOMAIN lookup) - 1]
<1>1. TopTwo(lookup) = IF lookup[found[2]] = 0 THEN <<found[1], found[1]>> ELSE found
  BY DEF TopTwo, StartOf, LastOccurring
<1>2. IsBest(best, lookup)
  <2>1. \E f : IsBest(f, lookup)  BY BestExists
  <2>. QED  BY <2>1 DEF IsBest, TopTwoWith
<1>. HIDE DEF best
<1>3. Cardinality(DOMAIN lookup) - 1 = n
  <2>1. DOMAIN lookup = 0..n  OBVIOUS
  <2>2. Cardinality(0..n) = n + 1  BY FS_Interval
  <2>. QED  BY <2>1, <2>2
<1>. DEFINE x == found[1]
            y == found[2]
<1>4. /\ found = <<x, y>> /\ x \in 0..n /\ y \in 0..n /\ x # y /\ lookup[x] >= lookup[y]
      /\ \A w \in 0..n \ {x, y} : lookup[w] <= lookup[y]
  <2>1. AreTopTwo(lookup, best[n], n)  BY <1>2, BestKnows
  <2>2. found = best[n]  BY <1>3
  <2>. HIDE DEF found
  <2>. QED  BY <2>1, <2>2 DEF AreTopTwo
<1>. HIDE DEF found, x, y
<1>5. TopTwo(lookup) = IF lookup[y] = 0 THEN <<x, x>> ELSE <<x, y>>  BY <1>1, <1>4 DEF x, y
<1>6. Occurring(lookup) = {v \in 0..n : lookup[v] > 0}  BY DEF Occurring
<1>7. lookup[x] \in Nat /\ lookup[y] \in Nat /\ \A w \in 0..n : lookup[w] \in Nat  BY <1>4
<1>8. CASE lookup[y] = 0
  <2>1. TopTwo(lookup) = <<x, x>>  BY <1>5, <1>8
  <2>2. \A w \in 0..n \ {x} : lookup[w] = 0
    <3>. SUFFICES ASSUME NEW w \in 0..n \ {x} PROVE lookup[w] = 0  OBVIOUS
    <3>1. w = y \/ lookup[w] <= lookup[y]  BY <1>4
    <3>. QED  BY <1>7, <1>8, <3>1
  <2>3. Occurring(lookup) = {x} /\ lookup[x] > 0  BY <1>4, <1>6, <1>7, <2>2
  <2>. QED  BY <1>7, <2>1, <2>2, <2>3
<1>9. CASE lookup[y] # 0
  <2>1. TopTwo(lookup) = <<x, y>>  BY <1>5, <1>9
  <2>2. x \in Occurring(lookup) /\ y \in Occurring(lookup)  BY <1>4, <1>6, <1>7, <1>9
  <2>. QED  BY <1>4, <2>1, <2>2
<1>. QED  BY <1>8, <1>9

-----------------------------------------------------------------------------
(* The values: their mean, and what is seen of them.                       *)

\* The number of pixels that were counted.
PixelsCounted(lookup) == FoldSet(LAMBDA v, n : n + lookup[v], 0, DOMAIN lookup)

\* The sum over all values, and the weighted one over those that occur.
LEMMA PixelsCountedIs ==
    ASSUME NEW n \in Nat, NEW lookup \in [0..n -> Nat], NEW total, TotalsOf(total, 0..n, lookup)
    PROVE  PixelsCounted(lookup) = total[0..n]
<1>. DEFINE D == 0..n
            name == [v \in D |-> v]
            Fits(f) == f = [s \in SUBSET D |-> IF s = {} THEN 0 ELSE f[s \ {Chosen(s)}] + lookup[Chosen(s)]]
            it == CHOOSE f : Fits(f)
<1>0. IsFiniteSet(D) /\ lookup \in [D -> Int] /\ DOMAIN lookup = D  BY FS_Interval
<1>1. PixelsCounted(lookup) = it[D]  BY <1>0 DEF PixelsCounted, FoldSet, MapThenFoldSet, Chosen
<1>2. Fits(it)
  <2>1. \E f : SumOf(f, D, lookup)  BY <1>0, TotalsExist
  <2>. QED  BY <2>1 DEF SumOf
<1>3. SumOf(it, D, lookup)  BY <1>2 DEF SumOf
<1>4. Renamed(lookup, D, name, lookup, D) /\ Named(name, D) = D  BY DEF Renamed, Named
<1>5. it[D] = total[Named(name, D)]
  <2>. HIDE DEF D, name, it
  <2>. QED  BY <1>0, <1>3, <1>4, SumIsTotal DEF D
<1>. QED  BY <1>1, <1>4, <1>5

LEMMA SumIs ==
    ASSUME NEW n \in Nat, NEW lookup \in [0..n -> Nat],
           NEW total, TotalsOf(total, 0..n, [v \in 0..n |-> v * lookup[v]])
    PROVE  Sum(lookup) = total[Occurring(lookup)]
<1>. DEFINE D == 0..n
            R == Occurring(lookup)
            g == [v \in D |-> v * lookup[v]]
            name == [v \in R |-> v]
            e == [v \in R |-> v * lookup[v]]
            Fits(f) == f = [s \in SUBSET R |-> IF s = {} THEN 0
                                               ELSE f[s \ {Chosen(s)}] + Chosen(s) * lookup[Chosen(s)]]
            it == CHOOSE f : Fits(f)
<1>0. R \subseteq D  BY DEF Occurring
<1>1. IsFiniteSet(D) /\ IsFiniteSet(R)
  <2>1. IsFiniteSet(D)  BY FS_Interval
  <2>. QED  BY <1>0, <2>1, FS_Subset
<1>2. g \in [D -> Int] /\ e \in [R -> Int]
  <2>1. \A v \in D : v * lookup[v] \in Int  OBVIOUS
  <2>. QED  BY <1>0, <2>1
<1>3. Sum(lookup) = it[R]  BY DEF Sum, FoldSet, MapThenFoldSet, Chosen
<1>4. Renamed(e, R, name, g, D) /\ Named(name, R) = R  BY <1>0 DEF Renamed, Named
<1>5. \A f : SumOf(f, R, e) <=> Fits(f)
  <2>1. ASSUME NEW s \in SUBSET R, s # {} PROVE e[Chosen(s)] = Chosen(s) * lookup[Chosen(s)]
    <3>1. Chosen(s) \in R  BY <2>1 DEF Chosen
    <3>. QED  BY <3>1
  <2>2. ASSUME NEW f
        PROVE  [s \in SUBSET R |-> IF s = {} THEN 0 ELSE f[s \ {Chosen(s)}] + e[Chosen(s)]]
               = [s \in SUBSET R |-> IF s = {} THEN 0 ELSE f[s \ {Chosen(s)}] + Chosen(s) * lookup[Chosen(s)]]
    <3>1. \A s \in SUBSET R : (IF s = {} THEN 0 ELSE f[s \ {Chosen(s)}] + e[Chosen(s)])
                              = (IF s = {} THEN 0 ELSE f[s \ {Chosen(s)}] + Chosen(s) * lookup[Chosen(s)])
      <4>. SUFFICES ASSUME NEW s \in SUBSET R
                    PROVE  (IF s = {} THEN 0 ELSE f[s \ {Chosen(s)}] + e[Chosen(s)])
                           = (IF s = {} THEN 0 ELSE f[s \ {Chosen(s)}] + Chosen(s) * lookup[Chosen(s)])
        OBVIOUS
      <4>1. CASE s = {}  BY <4>1
      <4>2. CASE s # {}
        <5>1. e[Chosen(s)] = Chosen(s) * lookup[Chosen(s)]  BY <2>1, <4>2
        <5>. HIDE DEF R, e
        <5>. QED  BY <4>2, <5>1, Zenon
      <4>. QED  BY <4>1, <4>2
    <3>. HIDE DEF R, e
    <3>. QED  BY <3>1, Zenon
  <2>. QED  BY <2>2 DEF SumOf
<1>6. SumOf(it, R, e)
  <2>1. \E f : SumOf(f, R, e)
    <3>. HIDE DEF R, e
    <3>. QED  BY <1>1, <1>2, TotalsExist
  <2>. QED  BY <1>5, <2>1
<1>7. it[R] = total[Named(name, R)]
  <2>1. TotalsOf(total, D, g)  OBVIOUS
  <2>. HIDE DEF D, R, g, name, e, it
  <2>. QED  BY <1>1, <1>2, <1>4, <1>6, <2>1, SumIsTotal
<1>. QED  BY <1>3, <1>4, <1>7

\* A sum of values is at most that of as many times the largest one, and at least
\* that of as many times the smallest.
LEMMA WeightedSum ==
    ASSUME NEW D, IsFiniteSet(D), D \subseteq Int, NEW lookup \in [D -> Nat], NEW t, TotalsOf(t, D, lookup),
           NEW g \in [D -> Int], \A v \in D : g[v] = v * lookup[v], NEW sums, TotalsOf(sums, D, g),
           NEW R \in SUBSET D, NEW k \in R
    PROVE  /\ (\A v \in R : v <= k) => sums[R] <= k * t[R]
           /\ (\A v \in R : k <= v) => k * t[R] <= sums[R]
<1>0. k \in Int /\ lookup \in [D -> Int] /\ TotalsOf(t, D, lookup)  OBVIOUS
<1>0a. IsFiniteSet(D) /\ R \in SUBSET D /\ g \in [D -> Int] /\ TotalsOf(sums, D, g)  OBVIOUS
<1>1. PICK h : h = [v \in D |-> k * lookup[v]]  OBVIOUS
<1>2. PICK u : u = [s \in SUBSET D |-> k * t[s]]  OBVIOUS
<1>3. h \in [D -> Int] /\ TotalsOf(u, D, h)  
  <2>1. AreScaled(h, u, D, lookup, t, k)  BY <1>1, <1>2 DEF AreScaled
  <2>. QED  BY ONLY <1>0, <2>1, ScaledTotals
<1>4. u[R] = k * t[R]  BY <1>2
<1>5. ASSUME NEW v \in R
      PROVE  /\ g[v] = v * lookup[v] /\ h[v] = k * lookup[v] /\ lookup[v] \in Nat /\ v \in Int
  BY <1>1
<1>6. ASSUME \A v \in R : v <= k PROVE sums[R] <= k * t[R]
  <2>1. \A v \in R : g[v] <= h[v]
    <3>. SUFFICES ASSUME NEW v \in R PROVE g[v] <= h[v]  OBVIOUS
    <3>1. v <= k  BY <1>6
    <3>. QED  BY <1>0, <1>5, <3>1, Products
  <2>2. sums[R] <= u[R]  BY ONLY <1>0a, <1>3, <2>1, SmallerTotal
  <2>. QED  BY <1>4, <2>2
<1>7. ASSUME \A v \in R : k <= v PROVE k * t[R] <= sums[R]
  <2>1. \A v \in R : h[v] <= g[v]
    <3>. SUFFICES ASSUME NEW v \in R PROVE h[v] <= g[v]  OBVIOUS
    <3>1. k <= v  BY <1>7
    <3>. QED  BY <1>0, <1>5, <3>1, Products
  <2>2. u[R] <= sums[R]  BY ONLY <1>0a, <1>3, <2>1, SmallerTotal
  <2>. QED  BY <1>4, <2>2
<1>. QED  BY <1>6, <1>7

\* The mean lies between the smallest and the largest value that occurs.
LEMMA MeanBetween ==
    ASSUME NEW n \in Nat, NEW lookup \in [0..n -> Nat], PixelsCounted(lookup) > 0
    PROVE  /\ Occurring(lookup) # {} /\ PixelsCounted(lookup) \in Nat /\ Sum(lookup) \in Int
           /\ \E v, w \in Occurring(lookup) :
                  v * PixelsCounted(lookup) <= Sum(lookup) /\ Sum(lookup) <= w * PixelsCounted(lookup)
<1>1. PICK D : D = 0..n  OBVIOUS
<1>2. PICK R : R = Occurring(lookup)  OBVIOUS
<1>3. PICK g : g = [v \in D |-> v * lookup[v]]  OBVIOUS
<1>4. /\ D \subseteq Int /\ R \in SUBSET D /\ lookup \in [D -> Nat] /\ lookup \in [D -> Int]
      /\ \A v \in D \ R : lookup[v] = 0
  BY <1>1, <1>2 DEF Occurring
<1>5. IsFiniteSet(D) /\ IsFiniteSet(R)
  <2>1. IsFiniteSet(D)  BY <1>1, FS_Interval
  <2>. QED  BY <1>4, <2>1, FS_Subset
<1>6. g \in [D -> Int] /\ \A v \in D : g[v] = v * lookup[v]
  <2>1. \A v \in D : v * lookup[v] \in Int  BY <1>4
  <2>. QED  BY <1>3, <2>1
<1>7. PICK t : TotalsOf(t, D, lookup)  BY <1>4, <1>5, TotalsExist
<1>8. PICK sums : TotalsOf(sums, D, g)  BY <1>5, <1>6, TotalsExist
<1>9. PixelsCounted(lookup) = t[D]  BY <1>1, <1>7, PixelsCountedIs
<1>10. Sum(lookup) = sums[R]
  <2>1. TotalsOf(sums, 0..n, [v \in 0..n |-> v * lookup[v]])  BY <1>1, <1>3, <1>8
  <2>. QED  BY <1>2, <2>1, SumIs
<1>11. /\ sums[R] \in Int /\ t[D] \in Int /\ t[{}] = 0
  <2>1. /\ \A s \in SUBSET D : sums[s] \in Int /\ t[s] \in Int
        /\ t[{}] = 0
    BY <1>7, <1>8 DEF TotalsOf
  <2>. QED  BY <1>4, <2>1
<1>12. t[R] = t[D]  BY <1>4, <1>5, <1>7, TotalOfPart
<1>13. R # {}  BY <1>9, <1>11, <1>12
<1>14. Max(R) \in R /\ Min(R) \in R /\ \A y \in R : y <= Max(R) /\ Min(R) <= y
  <2>0. R \subseteq Int  BY <1>4
  <2>1. Max(R) \in R /\ \A y \in R : Max(R) >= y  BY <1>5, <1>13, <2>0, MaxIs
  <2>2. Min(R) \in R /\ \A y \in R : Min(R) <= y  BY <1>5, <1>13, <2>0, MinIs
  <2>. QED  BY <2>0, <2>1, <2>2
<1>15. sums[R] <= Max(R) * t[R]  BY <1>4, <1>5, <1>6, <1>7, <1>8, <1>14, WeightedSum
<1>16. Min(R) * t[R] <= sums[R]  BY <1>4, <1>5, <1>6, <1>7, <1>8, <1>14, WeightedSum
<1>. QED  BY <1>2, <1>9, <1>10, <1>11, <1>12, <1>13, <1>14, <1>15, <1>16

\* The values that a sample can have.
LEMMA LevelsAre ==
    ASSUME NEW name, NEW bps \in {1, 2, 4, 8}
    PROVE  \E n \in Nat \ {0} : Levels(Op(name, bps)) = 0..n /\ (bps = 1 => n = 1)
<1>. DEFINE n == 2 ^ bps - 1
<1>1. 2 ^ 1 - 1 = 1 /\ 2 ^ 2 - 1 = 3 /\ 2 ^ 4 - 1 = 15 /\ 2 ^ 8 - 1 = 255  BY SMT
<1>2. n \in {1, 3, 15, 255} /\ (bps = 1 => n = 1)
  <2>1. CASE bps = 1  BY <1>1, <2>1
  <2>2. CASE bps = 2  BY <1>1, <2>2
  <2>3. CASE bps = 4  BY <1>1, <2>3
  <2>4. CASE bps = 8  BY <1>1, <2>4
  <2>. QED  BY <2>1, <2>2, <2>3, <2>4
<1>3. Levels(Op(name, bps)) = 0..n  BY DEF Levels, Op
<1>. HIDE DEF n
<1>4. n \in Nat \ {0} /\ (bps = 1 => n = 1)  BY <1>2
<1>. QED  BY <1>3, <1>4

\* Of 64 pixels of some values, lo the smallest and hi the largest.
SumsTo64(lookup, lo, hi) ==
    /\ lo \in Occurring(lookup) /\ hi \in Occurring(lookup) /\ lo \in Nat /\ hi \in Nat
    /\ Sum(lookup) \in Nat /\ 64 * lo <= Sum(lookup) /\ Sum(lookup) <= 64 * hi

LEMMA SumIsBetween ==
    ASSUME NEW n \in Nat, NEW lookup \in [0..n -> Nat], PixelsCounted(lookup) = 64
    PROVE  /\ \E lo, hi \in 0..n : SumsTo64(lookup, lo, hi)
           /\ Occurring(lookup) \subseteq 0..n
<1>1. Occurring(lookup) \subseteq 0..n  BY DEF Occurring
<1>2. PixelsCounted(lookup) > 0  OBVIOUS
<1>3. Sum(lookup) \in Int  BY <1>2, MeanBetween
<1>4. PICK lo \in Occurring(lookup), hi \in Occurring(lookup) :
          lo * PixelsCounted(lookup) <= Sum(lookup) /\ Sum(lookup) <= hi * PixelsCounted(lookup)
  BY <1>2, MeanBetween
<1>5. lo \in 0..n /\ hi \in 0..n  BY <1>1
<1>6. 64 * lo <= Sum(lookup) /\ Sum(lookup) <= 64 * hi /\ Sum(lookup) \in Nat  BY <1>3, <1>4, <1>5
<1>. QED  BY <1>1, <1>4, <1>5, <1>6 DEF SumsTo64

\* What is computed from their sum.
MeansBetween(S, lo, hi) ==
    /\ lo <= S \div 64 /\ S \div 64 <= hi /\ S \div 64 \in Nat
    /\ 17 * lo <= MeanCMYK16(S) /\ MeanCMYK16(S) <= 17 * hi /\ MeanCMYK16(S) \in Nat
    /\ 85 * lo <= MeanCMYK8(S) /\ MeanCMYK8(S) <= 85 * hi /\ MeanCMYK8(S) \in Nat
    /\ 255 * lo <= (S * 255) \div 64 /\ (S * 255) \div 64 <= 255 * hi /\ (S * 255) \div 64 \in Nat
    /\ lo = hi => Clipped(S) = IF lo > 0 THEN 1 ELSE 0

LEMMA MeansAre ==
    ASSUME NEW S \in Nat, NEW lo \in Nat, NEW hi \in Nat, 64 * lo <= S, S <= 64 * hi
    PROVE  MeansBetween(S, lo, hi)
<1>1. 15 * 64 = 960  OBVIOUS
<1>2. lo <= S \div 64 /\ S \div 64 <= hi /\ S \div 64 \in Nat  OBVIOUS
<1>3. 17 * lo <= (S * 255) \div 960 /\ (S * 255) \div 960 <= 17 * hi /\ (S * 255) \div 960 \in Nat  OBVIOUS
<1>4. 85 * lo <= (S * 255) \div 192 /\ (S * 255) \div 192 <= 85 * hi /\ (S * 255) \div 192 \in Nat  OBVIOUS
<1>5. 255 * lo <= (S * 255) \div 64 /\ (S * 255) \div 64 <= 255 * hi /\ (S * 255) \div 64 \in Nat  OBVIOUS
<1>6. lo = hi => Clipped(S) = IF lo > 0 THEN 1 ELSE 0  BY DEF Clipped
<1>. QED  BY <1>1, <1>2, <1>3, <1>4, <1>5, <1>6 DEF MeansBetween, MeanCMYK16, MeanCMYK8

\* The operations for one bit and for brightnesses: what they compute of pixels of one
\* colour is shown as that colour.
LEMMA GreysStay ==
    ASSUME NEW op, op = Op("1bpp", 1) \/ op = Op("8bpp", 8) \/ op = Op("24bpp", 8) \/ op = Op("1bppClipped", 1),
           NEW lookup \in [Levels(op) -> Nat], PixelsCounted(lookup) = 64
    PROVE  ReductionKeepsColours(op, lookup)
<1>. DEFINE S == Sum(lookup)
            values == Occurring(lookup)
            reduced == Reduced(op, lookup)
<1>0. PICK n \in Nat : Levels(op) = 0..n /\ (op = Op("1bpp", 1) \/ op = Op("1bppClipped", 1) => n = 1)
  <2>1. \E name : op = Op(name, 1) \/ op = Op(name, 8)  OBVIOUS
  <2>2. CASE op.bps = 1
    <3>1. \E name : op = Op(name, 1)  BY <2>1, <2>2 DEF Op
    <3>. QED  BY <3>1, LevelsAre
  <2>3. CASE op.bps # 1
    <3>1. \E name : op = Op(name, 8)  BY <2>1, <2>3 DEF Op
    <3>2. op # Op("1bpp", 1) /\ op # Op("1bppClipped", 1)  BY <2>3 DEF Op
    <3>. QED  BY <3>1, <3>2, LevelsAre
  <2>. QED  BY <2>2, <2>3
<1>1. PICK lo \in Levels(op), hi \in Levels(op) : SumsTo64(lookup, lo, hi)
  <2>1. lookup \in [0..n -> Nat]  BY <1>0
  <2>2. \E lo, hi \in 0..n : SumsTo64(lookup, lo, hi)  BY <2>1, SumIsBetween
  <2>. QED  BY <1>0, <2>2, Zenon
<1>2. /\ lo \in values /\ hi \in values /\ lo \in Nat /\ hi \in Nat /\ S \in Nat
      /\ 64 * lo <= S /\ S <= 64 * hi
  BY <1>1 DEF SumsTo64
<1>. HIDE DEF S, values
<1>3. /\ lo <= S \div 64 /\ S \div 64 <= hi /\ S \div 64 \in Nat
      /\ 255 * lo <= (S * 255) \div 64 /\ (S * 255) \div 64 <= 255 * hi /\ (S * 255) \div 64 \in Nat
      /\ lo = hi => Clipped(S) = IF lo > 0 THEN 1 ELSE 0
  <2>1. MeansBetween(S, lo, hi)  BY <1>2, MeansAre
  <2>. QED  BY <2>1 DEF MeansBetween
<1>4. ASSUME NEW v \in values, values = {v} PROVE v = lo /\ v = hi  BY <1>2, <1>4
<1>5. CASE op = Op("1bpp", 1)
  <2>1. reduced = (S * 255) \div 64  BY <1>5 DEF Reduced, Indexed, Mean, Mean1bpp, Op, S
  <2>2. OperationsAbove(op) = Op("8bpp", 8)  BY <1>5 DEF OperationsAbove, Op
  <2>3. op.name \notin {"8bpp", "24bpp", "cmyk"} /\ ~Indexed(op)  BY <1>5 DEF Op, Indexed
  <2>4. ASSUME NEW v \in values, values = {v} PROVE Shown(OperationsAbove(op), reduced) = Shown(op, v)
    <3>1. v \in {0, 1} /\ reduced = 255 * v
      <4>1. v = lo /\ v = hi  BY <1>4, <2>4
      <4>2. v \in 0..1  BY <1>0, <1>5, <4>1
      <4>. QED  BY <1>3, <2>1, <4>1, <4>2
    <3>2. Shown(op, v) = Parts([c \in {v} |-> 510])  BY <1>5 DEF Shown, CacheOf, Cache1bpp, Cached, Op
    <3>3. Shown(OperationsAbove(op), reduced)
              = Parts([c \in {0, 1} |-> 2 * (IF c = 1 THEN reduced ELSE 255 - reduced)])
      BY <2>2 DEF Shown, CacheOf, Cache8bpp, Cached, Op
    <3>. HIDE DEF reduced
    <3>4. ASSUME NEW c \in 0..255
          PROVE  (IF c \in {v} THEN 510 ELSE 0)
                 = (IF c \in {0, 1} THEN 2 * (IF c = 1 THEN reduced ELSE 255 - reduced) ELSE 0)
      BY <3>1
    <3>5. Parts([c \in {v} |-> 510]) = [c \in 0..255 |-> IF c \in {v} THEN 510 ELSE 0]  BY DEF Parts
    <3>6. Parts([c \in {0, 1} |-> 2 * (IF c = 1 THEN reduced ELSE 255 - reduced)])
              = [c \in 0..255 |-> IF c \in {0, 1} THEN 2 * (IF c = 1 THEN reduced ELSE 255 - reduced) ELSE 0]
      BY DEF Parts
    <3>7. [c \in 0..255 |-> IF c \in {v} THEN 510 ELSE 0]
              = [c \in 0..255 |-> IF c \in {0, 1} THEN 2 * (IF c = 1 THEN reduced ELSE 255 - reduced) ELSE 0]
      BY <3>4
    <3>. QED  BY <3>2, <3>3, <3>5, <3>6, <3>7, Zenon
  <2>5. op.name # "colormapped"  BY <1>5 DEF Op
  <2>. QED  BY <2>3, <2>4, <2>5 DEF ReductionKeepsColours, values
<1>6. CASE op = Op("8bpp", 8) \/ op = Op("24bpp", 8)
  <2>1. reduced = S \div 64  BY <1>6 DEF Reduced, Indexed, Mean, Mean8bpp, Mean24bpp, Op, S
  <2>2. OperationsAbove(op) = op  BY <1>6 DEF OperationsAbove, Op
  <2>3. op.name \notin {"cmyk", "colormapped"} /\ ~Indexed(op)  BY <1>6 DEF Op, Indexed
  <2>. HIDE DEF reduced
  <2>4. ASSUME NEW v \in values, values = {v} PROVE v = reduced
    <3>1. v = lo /\ v = hi  BY <1>4, <2>4
    <3>. QED  BY <1>2, <1>3, <2>1, <3>1
  <2>5. lo <= reduced /\ reduced <= hi  BY <1>3, <2>1
  <2>. QED  BY <1>2, <2>2, <2>3, <2>4, <2>5 DEF ReductionKeepsColours, values, reduced
<1>7. CASE op = Op("1bppClipped", 1)
  <2>1. reduced = Clipped(S)  BY <1>7 DEF Reduced, Indexed, Mean, Op, S
  <2>2. OperationsAbove(op) = op  BY <1>7 DEF OperationsAbove, Op
  <2>3. op.name \notin {"8bpp", "24bpp", "cmyk", "colormapped"} /\ ~Indexed(op)  BY <1>7 DEF Op, Indexed
  <2>. HIDE DEF reduced
  <2>4. ASSUME NEW v \in values, values = {v} PROVE v = reduced
    <3>1. v = lo /\ v = hi  BY <1>4, <2>4
    <3>2. v \in 0..1  BY <1>0, <1>7, <3>1
    <3>. QED  BY <1>3, <2>1, <3>1, <3>2
  <2>. QED  BY <2>2, <2>3, <2>4 DEF ReductionKeepsColours, values, reduced
<1>. QED  BY <1>5, <1>6, <1>7

\* Amounts of ink, in steps of which k are as dark as 255: the light that they let
\* through, and the mean of them.
InkIs(bps, k) ==
    LET op == Op("cmyk", bps) IN
    /\ k \in {1, 17, 85, 255}
    /\ \A v \in Levels(op) : v \in Nat /\ Shown(op, v) = 255 - k * v
    /\ \A S, lo, hi \in Nat : 64 * lo <= S /\ S <= 64 * hi =>
           k * lo <= Mean(op, S) /\ Mean(op, S) <= k * hi /\ Mean(op, S) \in Nat

LEMMA InksAre ==
    ASSUME NEW bps \in {1, 2, 4, 8}
    PROVE  \E k \in Nat : InkIs(bps, k)
<1>. DEFINE op == Op("cmyk", bps)
<1>0. PICK n \in Nat : Levels(op) = 0..n /\ (bps = 1 => n = 1)  BY LevelsAre
<1>1. ASSUME NEW S \in Nat, NEW lo \in Nat, NEW hi \in Nat, 64 * lo <= S, S <= 64 * hi
      PROVE  MeansBetween(S, lo, hi)
  BY <1>1, MeansAre
<1>2. op.name = "cmyk" /\ op.bps = bps  BY DEF Op
<1>3. CASE bps = 8
  <2>1. ASSUME NEW v PROVE Shown(op, v) = 255 - v
    BY <1>2, <1>3 DEF Shown, CacheOf, CacheCMYK32, Cached
  <2>2. ASSUME NEW S PROVE Mean(op, S) = S \div 64  BY <1>2, <1>3 DEF Mean, MeanCMYK32
  <2>. HIDE DEF op
  <2>3. \A v \in Levels(op) : v \in Nat /\ Shown(op, v) = 255 - 1 * v  BY <1>0, <2>1
  <2>4. \A S, lo, hi \in Nat : 64 * lo <= S /\ S <= 64 * hi =>
            1 * lo <= Mean(op, S) /\ Mean(op, S) <= 1 * hi /\ Mean(op, S) \in Nat
    <3>. SUFFICES ASSUME NEW S \in Nat, NEW lo \in Nat, NEW hi \in Nat, 64 * lo <= S, S <= 64 * hi
                  PROVE  1 * lo <= Mean(op, S) /\ Mean(op, S) <= 1 * hi /\ Mean(op, S) \in Nat
      OBVIOUS
    <3>1. MeansBetween(S, lo, hi)  BY <1>1
    <3>. QED  BY <2>2, <3>1 DEF MeansBetween
  <2>5. InkIs(bps, 1)  BY <2>3, <2>4 DEF InkIs, op
  <2>. QED  BY <2>5
<1>4. CASE bps = 4
  <2>1. ASSUME NEW v PROVE Shown(op, v) = 255 - v * 17
    BY <1>2, <1>4 DEF Shown, CacheOf, CacheCMYK16, Cached
  <2>2. ASSUME NEW S PROVE Mean(op, S) = MeanCMYK16(S)  BY <1>2, <1>4 DEF Mean
  <2>. HIDE DEF op
  <2>3. \A v \in Levels(op) : v \in Nat /\ Shown(op, v) = 255 - 17 * v  BY <1>0, <2>1
  <2>4. \A S, lo, hi \in Nat : 64 * lo <= S /\ S <= 64 * hi =>
            17 * lo <= Mean(op, S) /\ Mean(op, S) <= 17 * hi /\ Mean(op, S) \in Nat
    <3>. SUFFICES ASSUME NEW S \in Nat, NEW lo \in Nat, NEW hi \in Nat, 64 * lo <= S, S <= 64 * hi
                  PROVE  17 * lo <= Mean(op, S) /\ Mean(op, S) <= 17 * hi /\ Mean(op, S) \in Nat
      OBVIOUS
    <3>1. MeansBetween(S, lo, hi)  BY <1>1
    <3>. QED  BY <2>2, <3>1 DEF MeansBetween
  <2>5. InkIs(bps, 17)  BY <2>3, <2>4 DEF InkIs, op
  <2>. QED  BY <2>5
<1>5. CASE bps = 2
  <2>1. ASSUME NEW v PROVE Shown(op, v) = 255 - v * 85
    BY <1>2, <1>5 DEF Shown, CacheOf, CacheCMYK8, Cached
  <2>2. ASSUME NEW S PROVE Mean(op, S) = MeanCMYK8(S)  BY <1>2, <1>5 DEF Mean
  <2>. HIDE DEF op
  <2>3. \A v \in Levels(op) : v \in Nat /\ Shown(op, v) = 255 - 85 * v  BY <1>0, <2>1
  <2>4. \A S, lo, hi \in Nat : 64 * lo <= S /\ S <= 64 * hi =>
            85 * lo <= Mean(op, S) /\ Mean(op, S) <= 85 * hi /\ Mean(op, S) \in Nat
    <3>. SUFFICES ASSUME NEW S \in Nat, NEW lo \in Nat, NEW hi \in Nat, 64 * lo <= S, S <= 64 * hi
                  PROVE  85 * lo <= Mean(op, S) /\ Mean(op, S) <= 85 * hi /\ Mean(op, S) \in Nat
      OBVIOUS
    <3>1. MeansBetween(S, lo, hi)  BY <1>1
    <3>. QED  BY <2>2, <3>1 DEF MeansBetween
  <2>5. InkIs(bps, 85)  BY <2>3, <2>4 DEF InkIs, op
  <2>. QED  BY <2>5
<1>6. CASE bps = 1
  <2>1. ASSUME NEW v PROVE Shown(op, v) = (v - 1) % 256
    BY <1>2, <1>6 DEF Shown, CacheOf, CacheCMYK4, Cached
  <2>2. ASSUME NEW S PROVE Mean(op, S) = (S * 255) \div 64  BY <1>2, <1>6 DEF Mean, MeanCMYK4
  <2>. HIDE DEF op
  <2>3. \A v \in Levels(op) : v \in Nat /\ Shown(op, v) = 255 - 255 * v
    <3>. SUFFICES ASSUME NEW v \in Levels(op) PROVE v \in Nat /\ Shown(op, v) = 255 - 255 * v  OBVIOUS
    <3>1. v \in 0..1  BY <1>0, <1>6
    <3>2. \A x \in -1..0 : x % 256 = 0 - 255 * x  OBVIOUS
    <3>3. v - 1 \in -1..0 /\ 0 - 255 * (v - 1) = 255 - 255 * v  BY <3>1
    <3>. QED  BY <2>1, <3>1, <3>2, <3>3
  <2>4. \A S, lo, hi \in Nat : 64 * lo <= S /\ S <= 64 * hi =>
            255 * lo <= Mean(op, S) /\ Mean(op, S) <= 255 * hi /\ Mean(op, S) \in Nat
    <3>. SUFFICES ASSUME NEW S \in Nat, NEW lo \in Nat, NEW hi \in Nat, 64 * lo <= S, S <= 64 * hi
                  PROVE  255 * lo <= Mean(op, S) /\ Mean(op, S) <= 255 * hi /\ Mean(op, S) \in Nat
      OBVIOUS
    <3>1. MeansBetween(S, lo, hi)  BY <1>1
    <3>. QED  BY <2>2, <3>1 DEF MeansBetween
  <2>5. InkIs(bps, 255)  BY <2>3, <2>4 DEF InkIs, op
  <2>. QED  BY <2>5
<1>. QED  BY <1>3, <1>4, <1>5, <1>6

\* The operations for inks: the mean lets through as much light as the inks it is of.
LEMMA InksStay ==
    ASSUME NEW bps \in {1, 2, 4, 8}, NEW op, op = Op("cmyk", bps),
           NEW lookup \in [Levels(op) -> Nat], PixelsCounted(lookup) = 64
    PROVE  ReductionKeepsColours(op, lookup)
<1>. DEFINE S == Sum(lookup)
            values == Occurring(lookup)
            reduced == Reduced(op, lookup)
            above == OperationsAbove(op)
<1>0. PICK n \in Nat : Levels(op) = 0..n  BY LevelsAre
<1>1. PICK lo \in Levels(op), hi \in Levels(op) : SumsTo64(lookup, lo, hi)
  <2>1. lookup \in [0..n -> Nat]  BY <1>0
  <2>2. \E lo, hi \in 0..n : SumsTo64(lookup, lo, hi)  BY <2>1, SumIsBetween
  <2>. QED  BY <1>0, <2>2, Zenon
<1>2. /\ lo \in values /\ hi \in values /\ lo \in Nat /\ hi \in Nat /\ S \in Nat
      /\ 64 * lo <= S /\ S <= 64 * hi
  BY <1>1 DEF SumsTo64
<1>3. PICK k \in Nat : InkIs(bps, k)  BY InksAre
<1>4. /\ above = Op("cmyk", 8) /\ op.name = "cmyk" /\ ~Indexed(op)
      /\ op.name \notin {"8bpp", "24bpp", "colormapped"}
  BY DEF OperationsAbove, Op, Indexed
<1>5. reduced = Mean(op, S)  BY <1>4 DEF Reduced
<1>6. ASSUME NEW v PROVE Shown(above, v) = 255 - v
  BY <1>4 DEF Shown, CacheOf, CacheCMYK32, Cached, Op
<1>. HIDE DEF S, values, reduced, above
<1>7. k * lo <= reduced /\ reduced <= k * hi /\ reduced \in Nat  BY <1>2, <1>3, <1>5 DEF InkIs
<1>8. Shown(op, lo) = 255 - k * lo /\ Shown(op, hi) = 255 - k * hi  BY <1>1, <1>3 DEF InkIs
<1>9. ASSUME NEW v \in values, values = {v} PROVE Shown(above, reduced) = Shown(op, v)
  <2>1. v = lo /\ v = hi  BY <1>2, <1>9
  <2>2. k * lo \in Nat /\ reduced = k * lo  BY <1>2, <1>7, <2>1
  <2>. QED  BY ZenonT(40), <1>6, <1>8, <2>1, <2>2
<1>10. Shown(op, lo) >= Shown(above, reduced) /\ Shown(above, reduced) >= Shown(op, hi)
  <2>1. k * lo \in Nat /\ k * hi \in Nat  BY <1>2
  <2>2. Shown(above, reduced) = 255 - reduced  BY <1>6
  <2>. QED  BY <1>7, <1>8, <2>1, <2>2
<1>. QED  BY <1>2, <1>4, <1>9, <1>10 DEF ReductionKeepsColours, values, reduced, above

\* The operations for indexed colours: two of them remain.
LEMMA PaletteStays ==
    ASSUME NEW bps \in {1, 2, 4, 8}, NEW op, op = Op("indexed", bps) \/ op = Op("colormapped", bps),
           NEW lookup \in [Levels(op) -> Nat], PixelsCounted(lookup) > 0
    PROVE  ReductionKeepsColours(op, lookup)
<1>. DEFINE values == Occurring(lookup)
            t == TopTwo(lookup)
            above == OperationsAbove(op)
<1>0. PICK n \in Nat \ {0} : Levels(op) = 0..n  BY LevelsAre
<1>1. lookup \in [0..n -> Nat] /\ DOMAIN lookup = 0..n  BY <1>0
<1>2. values # {}  BY <1>1, MeanBetween
<1>3. /\ t = <<t[1], t[2]>> /\ t[1] \in values /\ t[2] \in values
      /\ lookup[t[1]] >= lookup[t[2]]
      /\ \A w \in 0..n \ {t[1], t[2]} : lookup[w] <= lookup[t[2]]
      /\ t[1] = t[2] => values = {t[1]}
  <2>. HIDE DEF t
  <2>1. LET u == TopTwo(lookup) IN
           /\ u = <<u[1], u[2]>> /\ u[1] \in Occurring(lookup) /\ u[2] \in Occurring(lookup)
           /\ lookup[u[1]] >= lookup[u[2]]
           /\ \A w \in 0..n \ {u[1], u[2]} : lookup[w] <= lookup[u[2]]
           /\ u[1] = u[2] => Occurring(lookup) = {u[1]}
    BY <1>1, <1>2, TopTwoAre
  <2>. QED  BY <2>1 DEF t
<1>4. Reduced(op, lookup) = t /\ Indexed(op) /\ op.name \notin {"8bpp", "24bpp", "cmyk"}
  BY DEF Reduced, Indexed, Op
<1>5. above = Op("colormapped", bps)  BY DEF OperationsAbove, Op
<1>6. ASSUME NEW v
      PROVE  /\ Shown(above, <<v, v>>) = Parts([c \in {v} |-> 510])
             /\ op.name = "indexed" => Shown(op, v) = Parts([c \in {v} |-> 510])
             /\ op.name = "colormapped" => op = above
  <2>1. Shown(above, <<v, v>>) = Parts([c \in {v, v} |-> IF v = v THEN 510 ELSE 255])
    BY <1>5 DEF Shown, CacheOf, CacheColormapped, Cached, Op
  <2>2. {v, v} = {v}  OBVIOUS
  <2>3. op.name = "indexed" => Shown(op, v) = Parts([c \in {v} |-> 510])
    BY DEF Shown, CacheOf, CacheIndexed, Cached, Op
  <2>4. op.name = "colormapped" => op = above  BY <1>5 DEF Op
  <2>. QED  BY <2>1, <2>2, <2>3, <2>4
<1>7. op.name = "indexed" \/ op.name = "colormapped"  BY DEF Op
<1>. HIDE DEF t, values, above
<1>8. ASSUME NEW v \in values, values = {v}
      PROVE  Shown(above, t) = Shown(op, IF op.name = "colormapped" THEN <<v, v>> ELSE v)
  <2>1. t[1] = v /\ t[2] = v  BY <1>3, <1>8
  <2>2. t = <<v, v>>  BY <1>3, <2>1
  <2>3. CASE op.name = "indexed"  BY <1>6, <2>2, <2>3
  <2>4. CASE op.name = "colormapped"  BY <1>6, <2>2, <2>4
  <2>. QED  BY <1>7, <2>3, <2>4
<1>. QED  BY <1>1, <1>3, <1>4, <1>8 DEF ReductionKeepsColours, values, above

\* ReductionKeepsColours of every operation and all 64 pixels, whatever their values
\* are; of the operations for indexed colours, which count two colours for each pixel
\* once they have been reduced, for any number of pixels.
THEOREM ColoursStay ==
    ASSUME NEW op \in LayerOperations, NEW lookup \in [Levels(op) -> Nat],
           IF Indexed(op) THEN PixelsCounted(lookup) > 0 ELSE PixelsCounted(lookup) = 64
    PROVE  ReductionKeepsColours(op, lookup)
<1>1. CASE op = Op("1bpp", 1) \/ op = Op("8bpp", 8) \/ op = Op("24bpp", 8) \/ op = Op("1bppClipped", 1)
  <2>1. ~Indexed(op)  BY <1>1 DEF Indexed, Op
  <2>. QED  BY <1>1, <2>1, GreysStay
<1>2. ASSUME NEW bps \in {1, 2, 4, 8}, op = Op("indexed", bps) \/ op = Op("colormapped", bps)
      PROVE  ReductionKeepsColours(op, lookup)
  <2>1. Indexed(op)  BY <1>2 DEF Indexed, Op
  <2>. QED  BY <1>2, <2>1, PaletteStays
<1>3. ASSUME NEW bps \in {1, 2, 4, 8}, op = Op("cmyk", bps) PROVE ReductionKeepsColours(op, lookup)
  <2>1. ~Indexed(op)  BY <1>3 DEF Indexed, Op
  <2>. QED  BY <1>3, <2>1, InksStay
<1>. QED  BY <1>1, <1>2, <1>3, OperationsAre

-----------------------------------------------------------------------------
(* Ruler: rounding to the nearest pixel.                                  *)
LEMMA NearestIs ==
    ASSUME NEW v \in Int, NEW f \in Nat \ {0}
    PROVE  /\ rounded_divide_by(v, f) \in Int
           /\ 2 * (f * rounded_divide_by(v, f)) <= 2 * v + f
           /\ 2 * v - f <= 2 * (f * rounded_divide_by(v, f))
           /\ v >= 0 => 2 * v + f < 2 * (f * rounded_divide_by(v, f)) + 2 * f
           /\ v < 0 => 2 * (f * rounded_divide_by(v, f)) < 2 * v + f
<1>1. CASE v >= 0
  <2>. DEFINE q == (2 * v + f) \div (2 * f)
  <2>1. q \in Int /\ (2 * f) * q <= 2 * v + f /\ 2 * v + f < (2 * f) * q + 2 * f
    <3>1. 2 * v + f \in Int /\ 2 * f \in Nat \ {0}  OBVIOUS
    <3>. QED  BY <3>1, Division
  <2>2. rounded_divide_by(v, f) = q  BY <1>1 DEF rounded_divide_by
  <2>. HIDE DEF q
  <2>3. f * q \in Int /\ (2 * f) * q = 2 * (f * q)  BY <2>1
  <2>. QED  BY <1>1, <2>1, <2>2, <2>3
<1>2. CASE v < 0
  <2>. DEFINE q == (f - 2 * v) \div (2 * f)
  <2>1. q \in Int /\ (2 * f) * q <= f - 2 * v /\ f - 2 * v < (2 * f) * q + 2 * f
    <3>1. f - 2 * v \in Int /\ 2 * f \in Nat \ {0}  OBVIOUS
    <3>. QED  BY <3>1, Division
  <2>2. rounded_divide_by(v, f) = -q  BY <1>2 DEF rounded_divide_by
  <2>. HIDE DEF q
  <2>3. f * q \in Int /\ (2 * f) * q = 2 * (f * q) /\ f * (-q) = -(f * q) /\ -q \in Int  BY <2>1
  <2>. QED  BY <1>2, <2>1, <2>2, <2>3
<1>. QED  BY <1>1, <1>2

\* What is k times f apart is k apart when it is rounded, or more.
LEMMA RoundedApart ==
    ASSUME NEW v \in Int, NEW w \in Int, NEW f \in Nat \ {0}, NEW k \in Nat, v + f * k <= w
    PROVE  rounded_divide_by(v, f) + k <= rounded_divide_by(w, f)
<1>. DEFINE r == rounded_divide_by(v, f)
            s == rounded_divide_by(w, f)
<1>1. /\ r \in Int /\ 2 * (f * r) <= 2 * v + f /\ 2 * v - f <= 2 * (f * r)
      /\ v >= 0 => 2 * v + f < 2 * (f * r) + 2 * f
      /\ v < 0 => 2 * (f * r) < 2 * v + f
  BY NearestIs
<1>2. /\ s \in Int /\ 2 * (f * s) <= 2 * w + f /\ 2 * w - f <= 2 * (f * s)
      /\ w >= 0 => 2 * w + f < 2 * (f * s) + 2 * f
      /\ w < 0 => 2 * (f * s) < 2 * w + f
  BY NearestIs
<1>. HIDE DEF r, s
<1>. SUFFICES ASSUME s <= (r + k) - 1 PROVE FALSE  BY <1>1, <1>2 DEF r, s
<1>3. f * s \in Int /\ f * r \in Int /\ f * k \in Int  BY <1>1, <1>2
<1>4. f * s <= (f * r + f * k) - f
  <2>1. s * f <= ((r + k) - 1) * f  BY <1>1, <1>2, Products
  <2>2. ((r + k) - 1) * f = (f * r + f * k) - f  BY <1>1
  <2>3. s * f = f * s  BY <1>2
  <2>. QED  BY <2>1, <2>2, <2>3
<1>5. CASE w >= 0  BY <1>1, <1>2, <1>3, <1>4, <1>5
<1>6. CASE w < 0
  <2>1. v < 0
    <3>1. f * k >= 0  OBVIOUS
    <3>. QED  BY <1>3, <1>6, <3>1
  <2>. QED  BY <1>1, <1>2, <1>3, <1>4, <1>6, <2>1
<1>. QED  BY <1>5, <1>6

-----------------------------------------------------------------------------
(* Ruler: the intervals between ticks.                                     *)

LEMMA PowerIs ==
    /\ Power[0] = 1
    /\ \A n \in Nat : Power[n] \in Nat \ {0} /\ Power[n] > n /\ Power[n + 1] = 10 * Power[n]
<1>. DEFINE next == [x \in Nat |-> 10 * x]
            IsIt(f) == f = [n \in Nat |-> IF n = 0 THEN 1 ELSE 10 * f[n - 1]]
<1>1. \E f : IsIt(f)
  <2>1. PICK f : SequenceOf(f, Nat, 1, next)
    <3>1. next \in [Nat -> Nat] /\ 1 \in Nat  OBVIOUS
    <3>. HIDE DEF next
    <3>. QED  BY <3>1, SequenceExists
  <2>2. f \in [Nat -> Nat] /\ \A n \in Nat : f[n] = IF n = 0 THEN 1 ELSE next[f[n - 1]]
    BY <2>1 DEF SequenceOf
  <2>3. \A n \in Nat : f[n] = IF n = 0 THEN 1 ELSE 10 * f[n - 1]
    <3>1. \A n \in Nat : n # 0 => f[n - 1] \in Nat  BY <2>2
    <3>2. \A x \in Nat : next[x] = 10 * x  OBVIOUS
    <3>. HIDE DEF next
    <3>. QED  BY <2>2, <3>1, <3>2
  <2>4. f = [n \in Nat |-> f[n]]  BY <2>2
  <2>. HIDE DEF next
  <2>. QED  BY <2>3, <2>4
<1>2. IsIt(Power)  BY <1>1 DEF Power
<1>3. \A n \in Nat : Power[n] = IF n = 0 THEN 1 ELSE 10 * Power[n - 1]
  <2>. DEFINE g == [n \in Nat |-> IF n = 0 THEN 1 ELSE 10 * Power[n - 1]]
  <2>1. Power = g  BY <1>2
  <2>2. \A n \in Nat : g[n] = IF n = 0 THEN 1 ELSE 10 * Power[n - 1]  OBVIOUS
  <2>. QED  BY <2>1, <2>2
<1>4. ASSUME NEW n \in Nat PROVE Power[n + 1] = 10 * Power[n]
  <2>1. n + 1 \in Nat /\ n + 1 # 0 /\ (n + 1) - 1 = n  OBVIOUS
  <2>. QED  BY <1>3, <2>1
<1>. DEFINE T == {n \in Nat : Power[n] \in Nat \ {0} /\ Power[n] > n}
<1>5. Power[0] = 1  BY <1>3
<1>6. \A n \in Nat : n \in T
  <2>1. 0 \in T  BY <1>5
  <2>2. \A n \in Nat : n \in T => n + 1 \in T  BY <1>4
  <2>. HIDE DEF T
  <2>. QED  BY <2>1, <2>2, NatSets
<1>. QED  BY <1>4, <1>5, <1>6

\* The intervals come in fours.
LEMMA IntervalIs ==
    ASSUME NEW m \in Nat
    PROVE  /\ Interval(4 * m) = Power[m] /\ Interval(4 * m + 1) = 5 * Power[m]
           /\ Interval(4 * m + 2) = 10 * Power[m] /\ Interval(4 * m + 3) = 25 * Power[m]
<1>1. ASSUME NEW j \in 0..3 PROVE Interval(4 * m + j) = VALID_INTERVALS[j + 1] * Power[m]
  <2>1. (4 * m + j) % 4 = j /\ (4 * m + j) \div 4 = m  OBVIOUS
  <2>. QED  BY <2>1 DEF Interval
<1>2. Power[m] \in Nat  BY PowerIs
<1>. DEFINE p == Power[m]
<1>. HIDE DEF p
<1>3. /\ VALID_INTERVALS[0 + 1] * p = p /\ VALID_INTERVALS[1 + 1] * p = 5 * p
      /\ VALID_INTERVALS[2 + 1] * p = 10 * p /\ VALID_INTERVALS[3 + 1] * p = 25 * p
  BY <1>2 DEF VALID_INTERVALS, p
<1>4. 4 * m + 0 = 4 * m  OBVIOUS
<1>. QED  BY <1>1, <1>3, <1>4 DEF p

LEMMA InFours ==
    ASSUME NEW n \in Nat
    PROVE  \E m \in Nat : n = 4 * m \/ n = 4 * m + 1 \/ n = 4 * m + 2 \/ n = 4 * m + 3
<1>. DEFINE m == n \div 4
<1>1. m \in Int /\ 4 * m <= n /\ n < 4 * m + 4  BY Division
<1>. HIDE DEF m
<1>2. m \in Nat /\ (n = 4 * m \/ n = 4 * m + 1 \/ n = 4 * m + 2 \/ n = 4 * m + 3)  BY <1>1
<1>. QED  BY <1>2

LEMMA IntervalType ==
    ASSUME NEW n \in Nat
    PROVE  Interval(n) \in Nat \ {0}
<1>1. PICK m \in Nat : n = 4 * m \/ n = 4 * m + 1 \/ n = 4 * m + 2 \/ n = 4 * m + 3  BY InFours
<1>2. Power[m] \in Nat \ {0}  BY PowerIs
<1>. DEFINE p == Power[m]
<1>3. /\ Interval(4 * m) = p /\ Interval(4 * m + 1) = 5 * p
      /\ Interval(4 * m + 2) = 10 * p /\ Interval(4 * m + 3) = 25 * p
  BY IntervalIs
<1>4. p \in Nat \ {0}  BY <1>2
<1>. HIDE DEF p
<1>5. 5 * p \in Nat \ {0} /\ 10 * p \in Nat \ {0} /\ 25 * p \in Nat \ {0}  BY <1>4
<1>. QED  BY <1>1, <1>3, <1>4, <1>5, Zenon

\* Powers of 10 grow, by 10 times or more.
LEMMA PowersGrow ==
    ASSUME NEW m \in Nat, NEW d \in Nat
    PROVE  Power[m + 1 + d] >= 10 * Power[m]
<1>. DEFINE T == {e \in Nat : Power[m + 1 + e] >= 10 * Power[m]}
<1>1. 0 \in T
  <2>1. m + 1 + 0 = m + 1 /\ Power[m + 1] = 10 * Power[m] /\ Power[m] \in Nat  BY PowerIs
  <2>. QED  BY <2>1
<1>2. ASSUME NEW e \in Nat, e \in T PROVE e + 1 \in T
  <2>1. m + 1 + e \in Nat /\ m + 1 + (e + 1) = (m + 1 + e) + 1  OBVIOUS
  <2>2. Power[(m + 1 + e) + 1] = 10 * Power[m + 1 + e] /\ Power[m + 1 + e] \in Nat  BY <2>1, PowerIs
  <2>3. Power[m] \in Nat  BY PowerIs
  <2>. QED  BY <1>2, <2>1, <2>2, <2>3
<1>3. d \in T
  <2>. HIDE DEF T
  <2>. QED  BY <1>1, <1>2, NatSets
<1>. QED  BY <1>3

\* Every smaller interval was tried before: 10 of the next four comes after 25, but
\* it is the 10 that came before it.
LEMMA SmallerTriedBefore ==
    ASSUME NEW n \in Nat, NEW k \in Nat, Interval(k) < Interval(n)
    PROVE  \E i \in 0..n - 1 : Interval(i) = Interval(k)
<1>1. PICK a \in Nat : n = 4 * a \/ n = 4 * a + 1 \/ n = 4 * a + 2 \/ n = 4 * a + 3  BY InFours
<1>2. PICK b \in Nat : k = 4 * b \/ k = 4 * b + 1 \/ k = 4 * b + 2 \/ k = 4 * b + 3  BY InFours
<1>. DEFINE p == Power[a]
            q == Power[b]
<1>3. p \in Nat \ {0} /\ q \in Nat \ {0}  BY PowerIs
<1>4. /\ Interval(4 * a) = p /\ Interval(4 * a + 1) = 5 * p
      /\ Interval(4 * a + 2) = 10 * p /\ Interval(4 * a + 3) = 25 * p
  BY IntervalIs
<1>5. /\ Interval(4 * b) = q /\ Interval(4 * b + 1) = 5 * q
      /\ Interval(4 * b + 2) = 10 * q /\ Interval(4 * b + 3) = 25 * q
  BY IntervalIs
<1>6. CASE k < n
  <2>1. k \in 0..n - 1  BY <1>6
  <2>. QED  BY <2>1
<1>7. CASE n <= k
  <2>1. a <= b  BY <1>1, <1>2, <1>7
  <2>2. a # b
    <3>. SUFFICES ASSUME a = b PROVE FALSE  OBVIOUS
    <3>1. p = q  OBVIOUS
    <3>. HIDE DEF p, q
    <3>. QED  BY <1>1, <1>2, <1>3, <1>4, <1>5, <1>7, <3>1
  <2>3. b = a + 1
    <3>. SUFFICES ASSUME b >= a + 2 PROVE FALSE  BY <2>1, <2>2
    <3>1. PICK d \in Nat : b = (a + 1) + 1 + d
      <4>1. b - (a + 2) \in Nat /\ b = (a + 1) + 1 + (b - (a + 2))  OBVIOUS
      <4>. QED  BY <4>1
    <3>2. Power[(a + 1) + 1 + d] >= 10 * Power[a + 1] /\ Power[a + 1] = 10 * Power[a]
      <4>1. a + 1 \in Nat  OBVIOUS
      <4>. QED  BY <4>1, PowersGrow, PowerIs
    <3>3. q >= 100 * p  BY <1>3, <3>1, <3>2
    <3>. HIDE DEF p, q
    <3>. QED  BY <1>1, <1>2, <1>3, <1>4, <1>5, <3>3
  <2>4. q = 10 * p  BY <2>3, PowerIs
  <2>. HIDE DEF p, q
  <2>5. n = 4 * a + 3 /\ k = 4 * b  BY <1>1, <1>2, <1>3, <1>4, <1>5, <2>4
  <2>6. Interval(4 * a + 2) = Interval(k) /\ 4 * a + 2 \in 0..n - 1  BY <1>4, <1>5, <2>4, <2>5
  <2>. QED  BY <2>6
<1>. QED  BY <1>6, <1>7

-----------------------------------------------------------------------------
(* Ruler: the interval that is chosen.                                     *)
LEMMA SpacingIs ==
    ASSUME NEW interval \in Nat, NEW lower \in Int, NEW upper \in Int, lower < upper, NEW size \in Nat \ {0}
    PROVE  LET length  == upper - lower
               spacing == intervalPixelSpacing(interval, lower, upper, size)
           IN  /\ spacing \in Nat
               /\ length * spacing <= size * (interval * PerUnit)
               /\ size * (interval * PerUnit) < length * spacing + length
<1>. DEFINE length == upper - lower
            v == size * interval * PerUnit
            s == v \div length
<1>1. length \in Nat \ {0}  OBVIOUS
<1>2. v \in Nat /\ v = size * (interval * PerUnit)  BY PerUnitAssumption
<1>3. intervalPixelSpacing(interval, lower, upper, size) = s  BY DEF intervalPixelSpacing, floored_divide_by
<1>4. s \in Int /\ length * s <= v /\ v < length * s + length
  <2>1. v \in Int  BY <1>2
  <2>. HIDE DEF v, length
  <2>. QED  BY <1>1, <2>1, Division
<1>5. s >= 0
  <2>. SUFFICES ASSUME s <= -1 PROVE FALSE  BY <1>4
  <2>. HIDE DEF v, s, length
  <2>1. length * s <= -length
    <3>1. s * length <= (-1) * length  BY <1>1, <1>4, Products
    <3>. QED  BY <1>1, <1>4, <3>1
  <2>. QED  BY <1>1, <1>2, <1>4, <2>1
<1>. HIDE DEF s, v
<1>. QED  BY <1>1, <1>2, <1>3, <1>4, <1>5

\* calculateInterval() ends, with the first interval that leaves enough room.
LEMMA IntervalChosen ==
    ASSUME NEW lower \in Int, NEW upper \in Int, lower < upper, NEW size \in Nat \ {0}
    PROVE  \E n \in Nat :
              /\ calculateInterval(lower, upper, size) = Interval(n)
              /\ intervalPixelSpacing(Interval(n), lower, upper, size) >= MIN_SPACE_MAJORTICKS
              /\ \A k \in Nat :
                    Interval(k) < Interval(n)
                        => intervalPixelSpacing(Interval(k), lower, upper, size) < MIN_SPACE_MAJORTICKS
<1>. DEFINE S(n) == intervalPixelSpacing(Interval(n), lower, upper, size)
            HasRoom(n) == S(n) >= MIN_SPACE_MAJORTICKS
            IsTry(f) == f = [n \in Nat |-> IF HasRoom(n) THEN Interval(n) ELSE f[n + 1]]
            try == CHOOSE f : IsTry(f)
            good == [n \in Nat |-> HasRoom(n)]
            value == [n \in Nat |-> Interval(n)]
<1>1. calculateInterval(lower, upper, size) = try[0]  BY DEF calculateInterval
<1>2. \A f : IsTry(f) <=> SearchOf(f, good, value)
  <2>. TAKE f
  <2>1. \A n \in Nat : good[n] = HasRoom(n) /\ value[n] = Interval(n)  OBVIOUS
  <2>2. \A n \in Nat : (IF HasRoom(n) THEN Interval(n) ELSE f[n + 1]) = IF good[n] THEN value[n] ELSE f[n + 1]
    <3>. HIDE DEF good, value, HasRoom
    <3>. QED  BY <2>1
  <2>3. [n \in Nat |-> IF HasRoom(n) THEN Interval(n) ELSE f[n + 1]] = [n \in Nat |-> IF good[n] THEN value[n] ELSE f[n + 1]]
    <3>. HIDE DEF good, value, HasRoom
    <3>. QED  BY <2>2
  <2>. HIDE DEF good, value, HasRoom
  <2>. QED  BY <2>3 DEF SearchOf
<1>3. SearchOf(try, good, value)
  <2>1. \E f : SearchOf(f, good, value)  BY SearchExists
  <2>2. \E f : IsTry(f)
    <3>. HIDE DEF IsTry, good, value
    <3>. QED  BY <1>2, <2>1
  <2>3. IsTry(try)
    <3>. HIDE DEF IsTry
    <3>. QED  BY <2>2
  <2>. HIDE DEF IsTry, good, value, try
  <2>. QED  BY <1>2, <2>3
<1>4. \E last \in Nat : good[last]
  <2>. DEFINE length == upper - lower
              k == 80 * length
              p == Power[k]
  <2>1. length \in Nat \ {0} /\ k \in Nat  OBVIOUS
  <2>2. Interval(4 * k) = p /\ p \in Nat /\ p >= 80 * length
    <3>1. k = 80 * length  OBVIOUS
    <3>. HIDE DEF k, length
    <3>2. Interval(4 * k) = p  BY <2>1, IntervalIs
    <3>3. p \in Nat /\ p > k  BY <2>1, PowerIs
    <3>. HIDE DEF p
    <3>. QED  BY <2>1, <3>1, <3>2, <3>3
  <2>3. S(4 * k) \in Nat /\ size * (p * PerUnit) < length * S(4 * k) + length
    <3>. HIDE DEF k, p
    <3>. QED  BY <2>2, SpacingIs
  <2>. DEFINE s == S(4 * k)
  <2>. HIDE DEF p, length, k
  <2>4. s >= 80
    <3>. SUFFICES ASSUME s <= 79 PROVE FALSE  BY <2>3
    <3>. HIDE DEF s
    <3>0. s \in Nat /\ size * (p * PerUnit) < length * s + length  BY <2>3 DEF s
    <3>1. length * s + length <= 80 * length
      <4>1. s * length <= 79 * length  BY <2>1, <3>0, Products
      <4>. QED  BY <2>1, <3>0, <4>1
    <3>2. p * PerUnit \in Nat /\ p <= p * PerUnit
      <4>1. 1 * p <= PerUnit * p  BY <2>2, PerUnitAssumption, Products
      <4>. QED  BY <2>2, <4>1, PerUnitAssumption
    <3>. DEFINE pu == p * PerUnit
    <3>. HIDE DEF pu
    <3>3. pu <= size * pu
      <4>1. 1 * pu <= size * pu  BY <3>2, Products DEF pu
      <4>. QED  BY <3>2, <4>1 DEF pu
    <3>4. size * pu \in Nat  BY <3>2 DEF pu
    <3>. QED  BY <2>1, <2>2, <3>0, <3>1, <3>2, <3>3, <3>4 DEF pu
  <2>5. HasRoom(4 * k)  BY <2>4 DEF MIN_SPACE_MAJORTICKS
  <2>6. 4 * k \in Nat  BY <2>1
  <2>7. good[4 * k]
    <3>. HIDE DEF HasRoom
    <3>. QED  BY <2>5, <2>6
  <2>. HIDE DEF good
  <2>. QED  BY <2>6, <2>7
<1>5. PICK n \in Nat : good[n] /\ (\A k \in 0..n - 1 : ~good[k]) /\ try[0] = value[n]
  <2>. HIDE DEF good, value, try
  <2>. QED  BY <1>3, <1>4, SearchFinds
<1>6. HasRoom(n) /\ (\A k \in 0..n - 1 : ~HasRoom(k)) /\ try[0] = Interval(n)
  <2>1. \A k \in 0..n - 1 : k \in Nat  OBVIOUS
  <2>2. \A k \in Nat : good[k] = HasRoom(k) /\ value[k] = Interval(k)  OBVIOUS
  <2>. HIDE DEF good, value, HasRoom, try
  <2>. QED  BY <1>5, <2>1, <2>2
<1>7. ASSUME NEW k \in Nat, Interval(k) < Interval(n)
      PROVE  intervalPixelSpacing(Interval(k), lower, upper, size) < MIN_SPACE_MAJORTICKS
  <2>1. PICK i \in 0..n - 1 : Interval(i) = Interval(k)  BY <1>7, SmallerTriedBefore
  <2>2. ~HasRoom(i) /\ S(i) = intervalPixelSpacing(Interval(k), lower, upper, size)  BY <1>6, <2>1
  <2>3. S(i) \in Nat
    <3>1. i \in Nat  OBVIOUS
    <3>. QED  BY <3>1, IntervalType, SpacingIs
  <2>. QED  BY <2>2, <2>3 DEF MIN_SPACE_MAJORTICKS
<1>. HIDE DEF try, good, value
<1>. QED  BY <1>1, <1>6, <1>7

-----------------------------------------------------------------------------
(* Ruler: where the ticks are.                                             *)

\* Sub-ticks divide the room up to the next major tick in ten; the even ones are longer.
SubTick(at, spacing, m) == Tick(IF m \in {2, 4, 6, 8} THEN 1 ELSE 2, at + m * spacing, NoLabel)

LEMMA SubTicksAre ==
    ASSUME NEW at \in Int, NEW spacing \in Nat, spacing >= MIN_SPACE_MAJORTICKS, NEW size \in Nat,
           NEW s \in drawSubTicks(at, spacing, size)
    PROVE  \E m \in 1..9 : s = SubTick(at, spacing, m)
<1>. DEFINE fifth == (10 * spacing) \div SUBTICK_SEGMENTS[1]
            interval == <<fifth, fifth \div SUBTICK_SEGMENTS[2]>>
            places(depth, pos) ==
                {pos + k * interval[depth] : k \in {l \in 0..SUBTICK_SEGMENTS[depth] - 1 :
                                                      pos + l * interval[depth] < 10 * size}}
<1>1. SUBTICK_SEGMENTS[1] = 5 /\ SUBTICK_SEGMENTS[2] = 2  BY DEF SUBTICK_SEGMENTS
<1>2. interval[1] = 2 * spacing /\ interval[2] = spacing
  <2>1. (10 * spacing) \div 5 = 2 * spacing  OBVIOUS
  <2>2. (2 * spacing) \div 2 = spacing  OBVIOUS
  <2>. QED  BY <1>1, <2>1, <2>2
<1>3. \/ \E p \in places(1, at) \ {at} : s = Tick(1, p, NoLabel)
      \/ \E q \in places(1, at) : \E p \in places(2, q) \ {q} : s = Tick(2, p, NoLabel)
  BY DEF drawSubTicks
<1>. HIDE DEF interval
<1>4. \A p \in places(1, at) : \E k \in 0..4 : p = at + k * (2 * spacing)  BY <1>1, <1>2
<1>5. \A q \in Int : \A p \in places(2, q) : p = q \/ p = q + spacing
  <2>. SUFFICES ASSUME NEW q \in Int, NEW p \in places(2, q) PROVE p = q \/ p = q + spacing  OBVIOUS
  <2>1. PICK k \in 0..1 : p = q + k * spacing  BY <1>1, <1>2
  <2>2. k = 0 \/ k = 1  OBVIOUS
  <2>. QED  BY <2>1, <2>2
<1>. HIDE DEF places
<1>6. CASE \E p \in places(1, at) \ {at} : s = Tick(1, p, NoLabel)
  <2>1. PICK p \in places(1, at) \ {at} : s = Tick(1, p, NoLabel)  BY <1>6
  <2>2. PICK k \in 0..4 : p = at + k * (2 * spacing)  BY <1>4
  <2>3. k # 0  BY <2>2
  <2>4. 2 * k \in {2, 4, 6, 8} /\ p = at + (2 * k) * spacing  BY <2>2, <2>3
  <2>5. s = SubTick(at, spacing, 2 * k)  BY <2>1, <2>4 DEF SubTick
  <2>6. 2 * k \in 1..9  BY <2>4
  <2>. QED  BY <2>5, <2>6
<1>7. CASE \E q \in places(1, at) : \E p \in places(2, q) \ {q} : s = Tick(2, p, NoLabel)
  <2>1. PICK q \in places(1, at) : \E p \in places(2, q) \ {q} : s = Tick(2, p, NoLabel)  BY <1>7
  <2>2. PICK p \in places(2, q) \ {q} : s = Tick(2, p, NoLabel)  BY <2>1
  <2>3. PICK k \in 0..4 : q = at + k * (2 * spacing)  BY <1>4
  <2>4. q \in Int  BY <2>3
  <2>5. p = q + spacing  BY <1>5, <2>4
  <2>6. 2 * k + 1 \in 1..9 /\ 2 * k + 1 \notin {2, 4, 6, 8} /\ p = at + (2 * k + 1) * spacing
    <3>1. k = 0 \/ k = 1 \/ k = 2 \/ k = 3 \/ k = 4  OBVIOUS
    <3>. QED  BY <2>3, <2>5, <3>1
  <2>7. s = SubTick(at, spacing, 2 * k + 1)  BY <2>2, <2>6 DEF SubTick
  <2>. QED  BY <2>6, <2>7
<1>. QED  BY <1>3, <1>6, <1>7

\* A major tick comes at least the spacing after the one before it.
LEMMA PlacesApart ==
    ASSUME NEW lower \in Int, NEW upper \in Int, lower < upper, NEW size \in Nat \ {0},
           NEW interval \in Nat, NEW first \in Int, NEW j \in Nat, NEW k \in Nat, j < k
    PROVE  scaleToRange(first + j * interval, lower, upper, size) + intervalPixelSpacing(interval, lower, upper, size)
               <= scaleToRange(first + k * interval, lower, upper, size)
<1>. DEFINE length == upper - lower
            x == first + j * interval
            y == first + k * interval
            v == size * (x * PerUnit - lower)
            w == size * (y * PerUnit - lower)
            s == intervalPixelSpacing(interval, lower, upper, size)
            step == interval * PerUnit
<1>1. length \in Nat \ {0}  OBVIOUS
<1>2. s \in Nat /\ length * s <= size * step  BY SpacingIs
<1>3. step \in Nat /\ PerUnit \in Nat  BY PerUnitAssumption
<1>4. x \in Int /\ y \in Int /\ v \in Int /\ w \in Int  BY <1>3
<1>5. y * PerUnit >= x * PerUnit + step
  <2>1. y >= x + interval
    <3>1. (j + 1) * interval <= k * interval /\ (j + 1) * interval = j * interval + interval
      BY Products
    <3>2. j * interval \in Int /\ k * interval \in Int  OBVIOUS
    <3>. QED  BY <3>1, <3>2
  <2>. HIDE DEF x, y
  <2>2. (x + interval) * PerUnit <= y * PerUnit  BY <1>3, <1>4, <2>1, Products
  <2>3. (x + interval) * PerUnit = x * PerUnit + step  BY <1>3, <1>4
  <2>. QED  BY <2>2, <2>3
<1>6. v + length * s <= w
  <2>. DEFINE xp == x * PerUnit
              yp == y * PerUnit
  <2>1. xp \in Int /\ yp \in Int  BY <1>3, <1>4
  <2>. HIDE DEF x, y, xp, yp, step, s, length
  <2>2. (xp - lower + step) * size <= (yp - lower) * size  BY <1>3, <1>5, <2>1, Products DEF xp, yp
  <2>3. (xp - lower + step) * size = size * (xp - lower) + size * step  BY <1>3, <2>1
  <2>4. (yp - lower) * size = size * (yp - lower) /\ size * (xp - lower) \in Int /\ size * step \in Int /\ length * s \in Int
    BY <1>1, <1>2, <1>3, <2>1
  <2>5. v = size * (xp - lower) /\ w = size * (yp - lower)  BY DEF xp, yp
  <2>. QED  BY <1>2, <1>4, <2>2, <2>3, <2>4, <2>5
<1>7. rounded_divide_by(v, length) + s <= rounded_divide_by(w, length)
  <2>. HIDE DEF v, w, s, length
  <2>. QED  BY <1>1, <1>2, <1>4, <1>6, RoundedApart
<1>. QED  BY <1>7 DEF scaleToRange

\* ... and within half a pixel of where its value is.
LEMMA PlaceOfValue ==
    ASSUME NEW lower \in Int, NEW upper \in Int, lower < upper, NEW size \in Nat \ {0}, NEW x \in Int
    PROVE  LET r == scaleToRange(x, lower, upper, size)
               length == upper - lower
           IN  /\ r \in Int
               /\ 2 * (length * (10 * r) - 10 * size * (x * PerUnit - lower)) \in -10 * length..10 * length
<1>. DEFINE length == upper - lower
            d == x * PerUnit - lower
            v == size * d
            r == rounded_divide_by(v, length)
<1>1. length \in Nat \ {0} /\ d \in Int /\ v \in Int  BY PerUnitAssumption
<1>2. r \in Int /\ 2 * (length * r) <= 2 * v + length /\ 2 * v - length <= 2 * (length * r)
  <2>. HIDE DEF v, length
  <2>. QED  BY <1>1, NearestIs
<1>3. scaleToRange(x, lower, upper, size) = r  BY DEF scaleToRange
<1>. HIDE DEF r
<1>4. 10 * size * d = 10 * v
  <2>. HIDE DEF d
  <2>. QED  BY <1>1
<1>. HIDE DEF length, v
<1>5. length * (10 * r) = 10 * (length * r) /\ length * r \in Int  BY <1>1, <1>2
<1>6. 2 * (length * (10 * r) - 10 * v) \in -10 * length..10 * length  BY <1>1, <1>2, <1>5
<1>. QED  BY <1>2, <1>3, <1>4, <1>6 DEF length

\* The kth of the major ticks from first on, and the mth of what comes from there to
\* the next one.
MajorPlace(k, first, interval, lower, upper, size) == scaleToRange(first + k * interval, lower, upper, size)
TickFrom(k, m, first, interval, lower, upper, size, spacing) ==
    LET at == 10 * MajorPlace(k, first, interval, lower, upper, size)
    IN  IF m = 0 THEN Tick(0, at, first + k * interval) ELSE SubTick(at, spacing, m)

\* What drawTicks() draws: major ticks, and sub-ticks of them.
DrawnAre(ticks, first, interval, count, lower, upper, size, spacing) ==
    /\ \A k \in 0..count - 1 : TickFrom(k, 0, first, interval, lower, upper, size, spacing) \in ticks
    /\ \A t \in ticks : \E k \in 0..count - 1, m \in 0..9 :
          t = TickFrom(k, m, first, interval, lower, upper, size, spacing)

LEMMA TicksDrawn ==
    ASSUME NEW lower \in Int, NEW upper \in Int, lower < upper, NEW size \in Nat \ {0},
           NEW interval \in Nat \ {0}, interval = calculateInterval(lower, upper, size),
           NEW spacing, spacing = intervalPixelSpacing(interval, lower, upper, size),
           spacing >= MIN_SPACE_MAJORTICKS,
           NEW first, first = firstTick(lower, interval),
           NEW count, count = ceiled_divide_by(upper - first * PerUnit, interval * PerUnit)
    PROVE  /\ MajorTicks(lower, upper, size) = [interval |-> interval, spacing |-> spacing]
           /\ DrawnAre(drawTicks(lower, upper, size), first, interval, count, lower, upper, size, spacing)
<1>. DEFINE at(k) == 10 * scaleToRange(first + k * interval, lower, upper, size)
            ticks == UNION {{Tick(0, at(k), first + k * interval)} \cup drawSubTicks(at(k), spacing, size)
                               : k \in 0..count - 1}
            major == MajorTicks(lower, upper, size)
<1>1. major = [interval |-> interval, spacing |-> spacing]  BY DEF MajorTicks
<1>2. major.interval = interval /\ major.spacing = spacing
  <2>. HIDE DEF major
  <2>. QED  BY <1>1
<1>3. drawTicks(lower, upper, size) = ticks
  <2>. DEFINE M == major
  <2>1. drawTicks(lower, upper, size) =
            LET f == firstTick(lower, M.interval)
                c == ceiled_divide_by(upper - f * PerUnit, M.interval * PerUnit)
                a(k) == 10 * scaleToRange(f + k * M.interval, lower, upper, size)
            IN  UNION {{Tick(0, a(k), f + k * M.interval)} \cup drawSubTicks(a(k), M.spacing, size)
                          : k \in 0..c - 1}
    BY DEF drawTicks
  <2>2. M.interval = interval /\ M.spacing = spacing  BY <1>2
  <2>. HIDE DEF M
  <2>. QED  BY <2>1, <2>2
<1>4. first \in Int  BY Division DEF firstTick, floored_divide_by, PerUnitAssumption
<1>5. ASSUME NEW k \in Int PROVE at(k) \in Int
  <2>. DEFINE x == first + k * interval
  <2>1. x \in Int  BY <1>4
  <2>. HIDE DEF x
  <2>2. scaleToRange(x, lower, upper, size) \in Int  BY <2>1, PlaceOfValue
  <2>. QED  BY <2>2 DEF x
<1>6. ASSUME NEW k \in 0..count - 1
      PROVE  TickFrom(k, 0, first, interval, lower, upper, size, spacing) = Tick(0, at(k), first + k * interval)
  BY DEF TickFrom, MajorPlace
<1>7. ASSUME NEW k, NEW m \in 1..9
      PROVE  TickFrom(k, m, first, interval, lower, upper, size, spacing) = SubTick(at(k), spacing, m)
  BY DEF TickFrom, MajorPlace
<1>8. ASSUME NEW t \in ticks
      PROVE  \E k \in 0..count - 1, m \in 0..9 : t = TickFrom(k, m, first, interval, lower, upper, size, spacing)
  <2>1. PICK k \in 0..count - 1 : t = Tick(0, at(k), first + k * interval) \/ t \in drawSubTicks(at(k), spacing, size)
    OBVIOUS
  <2>2. CASE t = Tick(0, at(k), first + k * interval)
    <3>1. t = TickFrom(k, 0, first, interval, lower, upper, size, spacing)  BY <1>6, <2>2
    <3>2. 0 \in 0..9  OBVIOUS
    <3>. QED  BY <3>1, <3>2
  <2>3. CASE t \in drawSubTicks(at(k), spacing, size)
    <3>. DEFINE a == at(k)
    <3>1. a \in Int /\ size \in Nat /\ spacing \in Nat
      <4>1. k \in Int /\ interval \in Nat  OBVIOUS
      <4>. QED  BY <1>5, <4>1, SpacingIs
    <3>2. PICK m \in 1..9 : t = SubTick(a, spacing, m)
      <4>. HIDE DEF a
      <4>1. t \in drawSubTicks(a, spacing, size)  BY <2>3 DEF a
      <4>. QED  BY <3>1, <4>1, SubTicksAre
    <3>3. m \in 0..9 /\ t = TickFrom(k, m, first, interval, lower, upper, size, spacing)  BY <1>7, <3>2
    <3>. QED  BY <3>3
  <2>. QED  BY <2>1, <2>2, <2>3
<1>9. ASSUME NEW k \in 0..count - 1
      PROVE  TickFrom(k, 0, first, interval, lower, upper, size, spacing) \in ticks
  <2>1. Tick(0, at(k), first + k * interval) \in ticks  OBVIOUS
  <2>. QED  BY <1>6, <2>1
<1>. HIDE DEF ticks
<1>. QED  BY <1>1, <1>3, <1>8, <1>9 DEF DrawnAre

\* TicksFit for every range and every room: the major ticks are where their values
\* are, at the multiples of the smallest interval on offer that leaves them enough
\* room, and sub-ticks keep apart from them and from each other.
THEOREM TicksAreRight ==
    ASSUME NEW lower \in Int, NEW upper \in Int, lower < upper, NEW size \in Nat \ {0}
    PROVE  /\ TicksFit(lower, upper, size)
           /\ \A n \in Nat :
                 Interval(n) < calculateInterval(lower, upper, size)
                     => intervalPixelSpacing(Interval(n), lower, upper, size) < MIN_SPACE_MAJORTICKS
<1>. DEFINE interval == calculateInterval(lower, upper, size)
            spacing == intervalPixelSpacing(interval, lower, upper, size)
            fl == lower \div (interval * PerUnit)
            first == firstTick(lower, interval)
            count == ceiled_divide_by(upper - first * PerUnit, interval * PerUnit)
            ticks == drawTicks(lower, upper, size)
            major == MajorTicks(lower, upper, size)
            step == interval * PerUnit
            place(k) == MajorPlace(k, first, interval, lower, upper, size)
            tick(k, m) == TickFrom(k, m, first, interval, lower, upper, size, spacing)
            labels == {t \in ticks : t.level = 0}
<1>1. /\ interval \in Nat \ {0} /\ spacing \in Nat /\ spacing >= MIN_SPACE_MAJORTICKS
      /\ \A n \in Nat : Interval(n) < interval
            => intervalPixelSpacing(Interval(n), lower, upper, size) < MIN_SPACE_MAJORTICKS
  <2>1. PICK n \in Nat :
              /\ interval = Interval(n)
              /\ intervalPixelSpacing(Interval(n), lower, upper, size) >= MIN_SPACE_MAJORTICKS
              /\ \A k \in Nat :
                    Interval(k) < Interval(n)
                        => intervalPixelSpacing(Interval(k), lower, upper, size) < MIN_SPACE_MAJORTICKS
    BY IntervalChosen
  <2>2. interval \in Nat \ {0}  BY <2>1, IntervalType
  <2>. HIDE DEF interval
  <2>3. spacing \in Nat
    <3>1. interval \in Nat  BY <2>2
    <3>. QED  BY <3>1, SpacingIs
  <2>. QED  BY <2>1, <2>2, <2>3
<1>. HIDE DEF interval
<1>2. step \in Nat \ {0} /\ PerUnit \in Nat \ {0}  BY <1>1, PerUnitAssumption
<1>3. fl \in Int /\ step * fl <= lower /\ lower < step * fl + step
  <2>. HIDE DEF step
  <2>1. fl = lower \div step  BY DEF step
  <2>. QED  BY <1>2, <2>1, Division
<1>4. first = fl * interval  BY DEF firstTick, floored_divide_by
<1>5. first \in Int /\ first * PerUnit = step * fl
  <2>. HIDE DEF fl, first
  <2>. QED  BY <1>1, <1>2, <1>3, <1>4
<1>6. count \in Int /\ upper - first * PerUnit <= step * count
  <2>. DEFINE v == upper - first * PerUnit
              q == (-v) \div step
  <2>. HIDE DEF first, step
  <2>1. v \in Int /\ -v \in Int  BY <1>2, <1>5
  <2>. HIDE DEF v
  <2>2. q \in Int /\ step * q <= -v  BY <1>2, <2>1, Division
  <2>3. count = -q  BY DEF ceiled_divide_by, v, step
  <2>. HIDE DEF q, count
  <2>4. step * (-q) = -(step * q) /\ step * q \in Int  BY <1>2, <2>2
  <2>. QED  BY <2>1, <2>2, <2>3, <2>4 DEF v
<1>7. /\ major = [interval |-> interval, spacing |-> spacing]
      /\ DrawnAre(ticks, first, interval, count, lower, upper, size, spacing)
  BY <1>1, TicksDrawn DEF interval
<1>8. major.interval = interval /\ major.spacing = spacing
  <2>. HIDE DEF major, spacing
  <2>. QED  BY <1>7
<1>9. count >= 1
  <2>. HIDE DEF count, first, step, fl
  <2>. SUFFICES ASSUME count <= 0 PROVE FALSE  BY <1>6
  <2>1. step * count <= 0
    <3>1. count * step <= 0 * step  BY <1>2, <1>6, Products
    <3>. QED  BY <1>2, <1>6, <3>1
  <2>. QED  BY <1>2, <1>3, <1>5, <1>6, <2>1
<1>. HIDE DEF spacing, first, count, ticks, major
\* Ticks by their number.
<1>24. ASSUME NEW k \in Int, NEW m \in 0..9
       PROVE  /\ place(k) \in Int /\ tick(k, m).at = 10 * place(k) + m * spacing
              /\ tick(k, m).level = 0 <=> m = 0
              /\ m = 0 => tick(k, m).label = first + k * interval
  <2>. DEFINE t == tick(k, m)
              x == first + k * interval
              at == 10 * place(k)
  <2>1. x \in Int  BY <1>1, <1>5
  <2>2. place(k) \in Int
    <3>. HIDE DEF x
    <3>. QED  BY <2>1, PlaceOfValue DEF MajorPlace, x
  <2>3. at \in Int  BY <2>2
  <2>4. t = IF m = 0 THEN Tick(0, at, x) ELSE SubTick(at, spacing, m)  BY DEF TickFrom
  <2>. HIDE DEF at, x, t
  <2>5. CASE m = 0
    <3>1. t = Tick(0, at, x)  BY <2>4, <2>5
    <3>2. t.at = at /\ t.level = 0 /\ t.label = x  BY <3>1 DEF Tick
    <3>3. m * spacing = 0  BY <1>1, <2>5
    <3>. QED  BY <2>2, <2>3, <2>5, <3>2, <3>3 DEF at, x, t
  <2>6. CASE m # 0
    <3>1. t = SubTick(at, spacing, m)  BY <2>4, <2>6
    <3>2. t.at = at + m * spacing /\ t.level \in {1, 2}  BY <3>1 DEF SubTick, Tick
    <3>. QED  BY <2>2, <2>6, <3>2 DEF at, t
  <2>. QED  BY <2>5, <2>6
<1>10. ASSUME NEW t \in ticks
       PROVE  \E k \in 0..count - 1, m \in 0..9 :
                 /\ t = tick(k, m) /\ place(k) \in Int /\ t.at = 10 * place(k) + m * spacing
                 /\ t.level = 0 <=> m = 0
                 /\ m = 0 => t.label = first + k * interval
  <2>1. PICK k \in 0..count - 1, m \in 0..9 : t = tick(k, m)  BY <1>7 DEF DrawnAre
  <2>2. k \in Int  BY <1>6
  <2>3. /\ place(k) \in Int /\ t.at = 10 * place(k) + m * spacing
        /\ t.level = 0 <=> m = 0
        /\ m = 0 => t.label = first + k * interval
    <3>. HIDE DEF tick, place
    <3>. QED  BY <1>24, <2>1, <2>2
  <2>. QED  BY <2>1, <2>3
<1>11. ASSUME NEW k \in 0..count - 1
       PROVE  /\ tick(k, 0) \in labels /\ tick(k, 0).label = first + k * interval
  <2>1. tick(k, 0) \in ticks  BY <1>7 DEF DrawnAre
  <2>2. k \in Int /\ 0 \in 0..9  BY <1>6
  <2>3. tick(k, 0).level = 0 /\ tick(k, 0).label = first + k * interval
    <3>. HIDE DEF tick, place
    <3>. QED  BY <1>24, <2>2
  <2>. QED  BY <2>1, <2>3
<1>12. ASSUME NEW t \in labels
       PROVE  \E k \in 0..count - 1 :
                 t = tick(k, 0) /\ place(k) \in Int /\ t.at = 10 * place(k) /\ t.label = first + k * interval
  <2>1. PICK k \in 0..count - 1, m \in 0..9 :
                 /\ t = tick(k, m) /\ place(k) \in Int /\ t.at = 10 * place(k) + m * spacing
                 /\ t.level = 0 <=> m = 0
                 /\ m = 0 => t.label = first + k * interval
    BY <1>10
  <2>2. m = 0  BY <2>1
  <2>3. m * spacing = 0  BY <1>1, <2>2
  <2>. QED  BY <2>1, <2>2, <2>3
<1>13. ASSUME NEW j \in 0..count - 1, NEW k \in 0..count - 1, j < k
       PROVE  place(j) + spacing <= place(k)
  <2>1. interval \in Nat /\ j \in Nat /\ k \in Nat  BY <1>1, <1>6
  <2>. QED  BY <1>5, <1>13, <2>1, PlacesApart DEF MajorPlace, spacing
<1>14. ASSUME NEW k \in Int PROVE (first + k * interval) * PerUnit = step * (fl + k)
  <2>. HIDE DEF fl
  <2>1. (first + k * interval) * PerUnit = first * PerUnit + (k * interval) * PerUnit  BY <1>1, <1>2, <1>5
  <2>2. (k * interval) * PerUnit = step * k  BY <1>1, <1>2
  <2>. HIDE DEF step
  <2>3. step * (fl + k) = step * fl + step * k  BY <1>2, <1>3
  <2>. QED  BY <1>5, <2>1, <2>2, <2>3
<1>. HIDE DEF place, tick, labels, step, fl
\* The parts of TicksFit.
<1>15. ASSUME NEW v \in lower..upper - 1, v % step = 0 PROVE \E t \in labels : t.label * PerUnit = v
  <2>. DEFINE q == v \div step
              k == q - fl
  <2>1. q \in Int /\ v = step * q
    <3>1. v \in Int  OBVIOUS
    <3>. DEFINE r == v % step
    <3>2. q = v \div step /\ r = v % step  OBVIOUS
    <3>3. q \in Int  BY <1>2, <3>1, Division
    <3>4. r = 0  BY <1>15
    <3>. HIDE DEF q, r
    <3>5. v = step * q + r  BY <1>2, <3>1, <3>2, Remainder
    <3>. QED  BY <1>2, <3>3, <3>4, <3>5
  <2>. HIDE DEF q
  <2>2. k \in Int /\ step * k = v - step * fl
    <3>1. step * (q - fl) = step * q - step * fl  BY <1>2, <1>3, <2>1
    <3>. QED  BY <1>3, <2>1, <3>1
  <2>3. k >= 0
    <3>1. fl * step < (q + 1) * step
      <4>1. (q + 1) * step = step * q + step  BY <1>2, <2>1
      <4>2. fl * step = step * fl /\ step * fl \in Int /\ step * q \in Int  BY <1>2, <1>3, <2>1
      <4>. QED  BY <1>2, <1>3, <2>1, <4>1, <4>2
    <3>2. fl < q + 1  BY <1>2, <1>3, <2>1, <3>1, ProductsLess
    <3>. QED  BY <1>3, <2>1, <3>2
  <2>4. k < count
    <3>1. k * step < count * step
      <4>1. k * step = step * k /\ count * step = step * count /\ step * fl \in Int /\ step * count \in Int
        BY <1>2, <1>3, <1>6, <2>2
      <4>. QED  BY <1>5, <1>6, <2>2, <4>1
    <3>. QED  BY <1>2, <1>6, <2>2, <3>1, ProductsLess
  <2>5. k \in 0..count - 1  BY <1>6, <2>2, <2>3, <2>4
  <2>6. tick(k, 0) \in labels /\ tick(k, 0).label = first + k * interval  BY <1>11, <2>5
  <2>7. (first + k * interval) * PerUnit = step * (fl + k) /\ fl + k = q  BY <1>3, <1>14, <2>1, <2>2
  <2>8. tick(k, 0).label * PerUnit = v  BY <2>1, <2>6, <2>7
  <2>. QED  BY <2>6, <2>8
<1>16. \E t \in labels : t.label * PerUnit <= lower
  <2>1. 0 \in 0..count - 1  BY <1>6, <1>9
  <2>2. tick(0, 0) \in labels /\ tick(0, 0).label = first + 0 * interval  BY <1>11, <2>1
  <2>3. first + 0 * interval = first  BY <1>1, <1>5
  <2>. QED  BY <1>3, <1>5, <2>2, <2>3
<1>17. ASSUME NEW t \in labels
       PROVE  /\ t.label % interval = 0
              /\ 2 * ((upper - lower) * t.at - 10 * size * (t.label * PerUnit - lower))
                     \in -10 * (upper - lower)..10 * (upper - lower)
  <2>1. PICK k \in 0..count - 1 :
              t = tick(k, 0) /\ place(k) \in Int /\ t.at = 10 * place(k) /\ t.label = first + k * interval
    BY <1>12
  <2>. DEFINE x == first + k * interval
              length == upper - lower
  <2>2. k \in Int /\ x \in Int  BY <1>1, <1>5, <1>6
  <2>3. x = interval * (fl + k) + 0 /\ fl + k \in Int
    <3>1. k * interval \in Int /\ fl * interval \in Int /\ (fl + k) * interval = fl * interval + k * interval
      BY <1>1, <1>3, <2>2
    <3>2. first = fl * interval  BY <1>4
    <3>3. interval * (fl + k) = (fl + k) * interval  BY <1>1, <1>3, <2>2
    <3>. QED  BY <1>1, <1>3, <2>2, <3>1, <3>2, <3>3
  <2>4. (interval * (fl + k) + 0) % interval = 0
    <3>1. 0 \in Nat /\ 0 < interval  BY <1>1
    <3>. QED  BY <1>1, <2>3, <3>1, QuotientIs
  <2>5. x % interval = 0
    <3>. HIDE DEF x
    <3>. QED  BY <2>3, <2>4
  <2>6. place(k) = scaleToRange(x, lower, upper, size)  BY DEF place, MajorPlace
  <2>. HIDE DEF x
  <2>7. 2 * (length * (10 * place(k)) - 10 * size * (x * PerUnit - lower)) \in -10 * length..10 * length
    BY <2>2, <2>6, PlaceOfValue
  <2>8. t.label = x  BY <2>1 DEF x
  <2>. QED  BY <2>1, <2>5, <2>7, <2>8
<1>18. ASSUME NEW t \in labels, NEW u \in labels \ {t}
       PROVE  /\ u.label # t.label
              /\ u.at - t.at >= 10 * spacing \/ t.at - u.at >= 10 * spacing
  <2>1. PICK j \in 0..count - 1 :
              t = tick(j, 0) /\ place(j) \in Int /\ t.at = 10 * place(j) /\ t.label = first + j * interval
    BY <1>12
  <2>2. PICK k \in 0..count - 1 :
              u = tick(k, 0) /\ place(k) \in Int /\ u.at = 10 * place(k) /\ u.label = first + k * interval
    BY <1>12
  <2>3. j # k  BY <2>1, <2>2
  <2>4. j \in Int /\ k \in Int  BY <1>6
  <2>5. first + j * interval # first + k * interval
    <3>1. j * interval \in Int /\ k * interval \in Int  BY <1>1, <2>4
    <3>2. CASE j < k
      <4>1. (j + 1) * interval <= k * interval /\ (j + 1) * interval = j * interval + interval
        BY <1>1, <2>4, <3>2, Products
      <4>. QED  BY <1>1, <1>5, <3>1, <4>1
    <3>3. CASE k < j
      <4>1. (k + 1) * interval <= j * interval /\ (k + 1) * interval = k * interval + interval
        BY <1>1, <2>4, <3>3, Products
      <4>. QED  BY <1>1, <1>5, <3>1, <4>1
    <3>. QED  BY <2>3, <2>4, <3>2, <3>3
  <2>6. place(j) + spacing <= place(k) \/ place(k) + spacing <= place(j)
    <3>1. j < k \/ k < j  BY <2>3, <2>4
    <3>. QED  BY <1>13, <3>1
  <2>. QED  BY <1>1, <2>1, <2>2, <2>5, <2>6
<1>19. ASSUME NEW t \in labels, NEW u \in labels, NEW s \in drawSubTicks(t.at, spacing, size)
       PROVE  s.at < u.at \/ u.at <= t.at
  <2>1. PICK j \in 0..count - 1 : place(j) \in Int /\ t.at = 10 * place(j)  BY <1>12
  <2>2. PICK k \in 0..count - 1 : place(k) \in Int /\ u.at = 10 * place(k)  BY <1>12
  <2>3. PICK m \in 1..9 : s = SubTick(t.at, spacing, m)
    <3>1. t.at \in Int /\ size \in Nat  BY <2>1
    <3>. QED  BY <1>1, <3>1, SubTicksAre
  <2>4. s.at = t.at + m * spacing  BY <2>3 DEF SubTick, Tick
  <2>5. CASE t = u  BY <2>1, <2>5
  <2>6. CASE t # u
    <3>1. u.at - t.at >= 10 * spacing \/ t.at - u.at >= 10 * spacing  BY <1>18, <2>6
    <3>2. m * spacing \in Int /\ m * spacing <= 9 * spacing  BY <1>1, Products
    <3>3. spacing > 0  BY <1>1 DEF MIN_SPACE_MAJORTICKS
    <3>. QED  BY <1>1, <2>1, <2>2, <2>4, <3>1, <3>2, <3>3
  <2>. QED  BY <2>5, <2>6
<1>20. ASSUME NEW s \in ticks, NEW t \in ticks, s # t PROVE s.at - t.at >= 50 \/ t.at - s.at >= 50
  <2>1. PICK j \in 0..count - 1, m \in 0..9 : s = tick(j, m) /\ place(j) \in Int /\ s.at = 10 * place(j) + m * spacing
    BY <1>10
  <2>2. PICK k \in 0..count - 1, n \in 0..9 : t = tick(k, n) /\ place(k) \in Int /\ t.at = 10 * place(k) + n * spacing
    BY <1>10
  <2>3. j \in Int /\ k \in Int  BY <1>6
  <2>4. /\ m * spacing \in Int /\ 0 <= m * spacing /\ m * spacing <= 9 * spacing
        /\ n * spacing \in Int /\ 0 <= n * spacing /\ n * spacing <= 9 * spacing
    <3>1. 0 * spacing <= m * spacing /\ m * spacing <= 9 * spacing /\ m * spacing \in Int  BY <1>1, Products
    <3>2. 0 * spacing <= n * spacing /\ n * spacing <= 9 * spacing /\ n * spacing \in Int  BY <1>1, Products
    <3>. QED  BY <1>1, <3>1, <3>2
  <2>5. spacing >= 80  BY <1>1 DEF MIN_SPACE_MAJORTICKS
  <2>6. CASE j = k
    <3>1. m # n  BY <1>20, <2>1, <2>2, <2>6
    <3>2. CASE m < n
      <4>1. (m + 1) * spacing <= n * spacing /\ (m + 1) * spacing = m * spacing + spacing
        BY <1>1, <3>2, Products
      <4>. QED  BY <1>1, <2>1, <2>2, <2>4, <2>5, <2>6, <4>1
    <3>3. CASE n < m
      <4>1. (n + 1) * spacing <= m * spacing /\ (n + 1) * spacing = n * spacing + spacing
        BY <1>1, <3>3, Products
      <4>. QED  BY <1>1, <2>1, <2>2, <2>4, <2>5, <2>6, <4>1
    <3>. QED  BY <3>1, <3>2, <3>3
  <2>7. CASE j < k
    <3>1. place(j) + spacing <= place(k)  BY <1>13, <2>7
    <3>. QED  BY <1>1, <2>1, <2>2, <2>4, <2>5, <3>1
  <2>8. CASE k < j
    <3>1. place(k) + spacing <= place(j)  BY <1>13, <2>8
    <3>. QED  BY <1>1, <2>1, <2>2, <2>4, <2>5, <3>1
  <2>. QED  BY <2>3, <2>6, <2>7, <2>8
<1>21. TicksFit(lower, upper, size) <=>
          /\ \A v \in lower..upper - 1 : v % step = 0 => \E t \in labels : t.label * PerUnit = v
          /\ \E t \in labels : t.label * PerUnit <= lower
          /\ \A t \in labels :
                /\ t.label % interval = 0
                /\ 2 * ((upper - lower) * t.at - 10 * size * (t.label * PerUnit - lower))
                       \in -10 * (upper - lower)..10 * (upper - lower)
                /\ \A u \in labels \ {t} : u.label # t.label
                       /\ (u.at - t.at >= 10 * spacing \/ t.at - u.at >= 10 * spacing)
                /\ \A u \in labels, s \in drawSubTicks(t.at, spacing, size) : s.at < u.at \/ u.at <= t.at
          /\ spacing >= MIN_SPACE_MAJORTICKS
          /\ \A n \in 0..15 :
                Interval(n) < interval
                    => intervalPixelSpacing(Interval(n), lower, upper, size) < MIN_SPACE_MAJORTICKS
          /\ \A s, t \in ticks : s # t => s.at - t.at >= 50 \/ t.at - s.at >= 50
  <2>. DEFINE Fit(M, D) ==
          LET L == {t \in D : t.level = 0}
          IN  /\ \A v \in lower..upper - 1 : v % (M.interval * PerUnit) = 0 => \E t \in L : t.label * PerUnit = v
              /\ \E t \in L : t.label * PerUnit <= lower
              /\ \A t \in L :
                    /\ t.label % M.interval = 0
                    /\ 2 * ((upper - lower) * t.at - 10 * size * (t.label * PerUnit - lower))
                           \in -10 * (upper - lower)..10 * (upper - lower)
                    /\ \A u \in L \ {t} : u.label # t.label
                           /\ (u.at - t.at >= 10 * M.spacing \/ t.at - u.at >= 10 * M.spacing)
                    /\ \A u \in L, s \in drawSubTicks(t.at, M.spacing, size) : s.at < u.at \/ u.at <= t.at
              /\ M.spacing >= MIN_SPACE_MAJORTICKS
              /\ \A n \in 0..15 :
                    Interval(n) < M.interval
                        => intervalPixelSpacing(Interval(n), lower, upper, size) < MIN_SPACE_MAJORTICKS
              /\ \A s, t \in D : s # t => s.at - t.at >= 50 \/ t.at - s.at >= 50
  <2>1. TicksFit(lower, upper, size) = Fit(MajorTicks(lower, upper, size), drawTicks(lower, upper, size))
    BY DEF TicksFit
  <2>2. TicksFit(lower, upper, size) = Fit(major, ticks)  BY <2>1 DEF major, ticks
  <2>. QED  BY <1>8, <2>2 DEF labels, step
<1>22. \A n \in 0..15 : n \in Nat  OBVIOUS
<1>23. TicksFit(lower, upper, size)
  BY <1>1, <1>15, <1>16, <1>17, <1>18, <1>19, <1>20, <1>21, <1>22
<1>. QED  BY <1>1, <1>23 DEF interval

\* RulersAgree for every size: the vertical ruler is the horizontal one turned over.
THEOREM RulersAreAlike ==
    ASSUME NEW w \in Int, NEW h \in Int, NEW at \in Int, NEW n \in Int
    PROVE  RulersAgree(w, h, at, n)
<1>. DEFINE Swap(p) == Point(p.y, p.x)
            Over(l) == <<Swap(l[1]), Swap(l[2])>>
            Turned(lines) == {<<Swap(l[1]), Swap(l[2])>> : l \in lines}
<1>1. \A x1, y1, x2, y2 : Over(Line(x1, y1, x2, y2)) = Line(y1, x1, y2, x2)
  BY DEF Line, Point
<1>2. ASSUME NEW a, NEW b, NEW c PROVE Turned({a, b, c}) = {Over(a), Over(b), Over(c)}
  OBVIOUS
<1>3. ASSUME NEW a PROVE Turned({a}) = {Over(a)}
  OBVIOUS
<1>. HIDE DEF Over, Turned
<1>4. VerticalOutline(w, h) = Turned(HorizontalOutline(h, w))
  <2>1. HorizontalOutline(h, w) =
          {Line(Half, 0, Half, 2 * w), Line(2 * h - Half, 0, 2 * h - Half, 2 * w), Line(0, 2 * w - Half, 2 * h, 2 * w - Half)}
    BY DEF HorizontalOutline
  <2>2. VerticalOutline(w, h) =
          {Line(0, Half, 2 * w, Half), Line(0, 2 * h - Half, 2 * w, 2 * h - Half), Line(2 * w - Half, 0, 2 * w - Half, 2 * h)}
    BY DEF VerticalOutline
  <2>. QED  BY <1>1, <1>2, <2>1, <2>2
<1>5. {VerticalTickLine(w, h, at, n)} = Turned({HorizontalTickLine(h, w, at, n)})
  BY <1>1, <1>3 DEF VerticalTickLine, HorizontalTickLine
<1>6. VerticalTickText(w, h, at, n, n + 1) = Swap(HorizontalTickText(h, w, at, -n, n + 1))
  <2>1. at - n = at + (-n)  OBVIOUS
  <2>. QED  BY <2>1 DEF VerticalTickText, HorizontalTickText, Point
<1>7. VerticalSize(w, h) = HorizontalSize(h, w)  BY DEF VerticalSize, HorizontalSize
<1>. QED  BY <1>4, <1>5, <1>6, <1>7 DEF RulersAgree, Turned

-----------------------------------------------------------------------------
(* The inputs of the run Calculations                                      *)

\* The inputs of each kind are among those that the theorems are about.
InputsFit ==
    /\ Is("segments") => input \in [s : Segments, t : Segments, v : Int]
    /\ Is("rectangles") => input \in [r : Rectangles, q : Rectangles]
    /\ Is("layers") => input \in [w : Lengths, h : Lengths]
    /\ Is("redraw") => input \in [w : Lengths, h : Lengths, area : Rectangles, zoom : Int]
    /\ Is("averages") => input \in [w : Lengths, h : Lengths, area : Rectangles]
    /\ Is("format") => input \in [tags : AllTags, files : SUBSET AllFiles]
    /\ Is("rows") => input \in [tags : AllTags, again : AllTags, tile : {8, 16}]
    /\ Is("monochrome") => input \in [n : Nat \ {0, 1}, inverted : BOOLEAN, transparent : BOOLEAN, color : AllColours]
    /\ Is("samples") =>
           /\ input.bits \in {8, 16} /\ input.bps \in {1, 2, 4, 8}
           /\ input.n \in 0..2 * (input.bits \div input.bps) - 1 /\ input.value \in 0..2 ^ input.bps - 1
    /\ Is("reduce") => input \in [op : LayerOperations, x : 0..7, y : 0..7, i : 0..Side \div 8 - 1, j : 0..Side \div 8 - 1]
    /\ Is("draw") =>
           /\ input.op \in LayerOperations /\ input.zoom \in Drawable /\ input.part \in Coordinates
           /\ input.view \in Views(input.zoom) /\ input.p \in PixelsOfTile /\ input.fine \in Nat \ {0}
    /\ Is("area") => input \in [size : Nat, i : Nat, j : Nat, channels : Nat \ {0}, bps : {1, 2, 4, 8}]
    /\ Is("values") =>
           /\ input.op \in LayerOperations /\ input.lookup \in [Levels(input.op) -> Nat]
           /\ PixelsCounted(input.lookup) = 64
    /\ Is("ticks") =>
           /\ input.lower \in Int /\ input.upper \in Int /\ input.lower < input.upper
           /\ input.size \in Nat \ {0}
    /\ Is("lines") => input \in [w : Int, h : Int, at : Int, n : Int]

\* The small segments are segments, and the small rectangles rectangles.
LEMMA SmallOnes == SmallSegments \subseteq Segments /\ SmallRects \subseteq Rectangles
<1>1. SmallSegments \subseteq Segments
  <2>. SUFFICES ASSUME NEW s \in SmallSegments PROVE s \in Segments  OBVIOUS
  <2>1. PICK a \in -2..2, n \in -2..2 : s = Segment(a, n)  BY DEF SmallSegments
  <2>. QED  BY <2>1, SegmentType
<1>2. SmallRects \subseteq Rectangles
  <2>. SUFFICES ASSUME NEW r \in SmallRects PROVE r \in Rectangles  OBVIOUS
  <2>1. PICK h \in {Segment(a, n) : a \in 0..1, n \in {-2, 0, 1, 2}},
             v \in {Segment(a, n) : a \in 0..1, n \in 0..2} : r = Rectangle(h, v)
    BY DEF SmallRects
  <2>2. h \in Segments
    <3>1. PICK a \in 0..1, n \in {-2, 0, 1, 2} : h = Segment(a, n)  OBVIOUS
    <3>. QED  BY <3>1, SegmentType
  <2>3. v \in Segments
    <3>1. PICK a \in 0..1, n \in 0..2 : v = Segment(a, n)  OBVIOUS
    <3>2. a \in Int /\ n \in Int  OBVIOUS
    <3>. QED  BY <3>1, <3>2, SegmentType
  <2>. QED  BY <2>1, <2>2, <2>3, IsRectangle
<1>. QED  BY <1>1, <1>2

\* So are the areas; and the sizes fit in an int.
LEMMA AreasAre == Areas \subseteq Rectangles
<1>. SUFFICES ASSUME NEW r \in Areas PROVE r \in Rectangles  OBVIOUS
<1>1. PICK x \in {-3, 0, 1, 16, 17}, w \in {0, 1, 9, 32, 35}, y \in {-1, 0, 15}, h \in {2, 3, 18} :
          r = Rectangle(Segment(x, w), Segment(y, h))
  BY DEF Areas
<1>2. Segment(x, w) \in Segments  BY SegmentType
<1>3. Segment(y, h) \in Segments  BY SegmentType
<1>. QED  BY <1>1, <1>2, <1>3, IsRectangle

LEMMA SmallLengths == 1..140 \subseteq Lengths
<1>. DEFINE m == 2 ^ 31 - 1
<1>1. 140 <= m /\ m \in Int  BY SMT
<1>2. Lengths = 1..m  BY DEF Lengths
<1>. HIDE DEF m
<1>. QED  BY <1>1, <1>2

\* So are the files and the colours.
LEMMA SomeOfAll ==
    /\ Tags \subseteq AllTags
    /\ {{}, SomeFiles} \subseteq SUBSET AllFiles
    /\ \A r, g, b \in 0..1 : Colour(r, g, b, 1) \in AllColours
<1>1. Tags \subseteq AllTags  BY DEF Tags, AllTags
<1>2. SomeFiles \subseteq AllFiles  BY DEF SomeFiles, AllFiles
<1>3. \A r, g, b \in 0..1 : Colour(r, g, b, 1) \in AllColours  BY DEF Colour, AllColours, Channels
<1>. QED  BY <1>1, <1>2, <1>3

\* So are the samples and the pixels.
LEMMA SomeSamples ==
    ASSUME NEW bits \in {8, 16}, NEW bps \in {1, 2, 4, 8}, NEW n \in 0..17, n < 2 * (bits \div bps),
           NEW v \in {0, 1, 2 ^ bps - 1}
    PROVE  n \in 0..2 * (bits \div bps) - 1 /\ v \in 0..2 ^ bps - 1
<1>. DEFINE top == 2 ^ bps
            room == bits \div bps
            less == bps - 1
            half == 2 ^ less
<1>1. less \in 0..15 /\ less \in 0..16 /\ less + 1 = bps  OBVIOUS
<1>2. 2 ^ (less + 1) = 2 * 2 ^ less /\ 2 ^ less \in Nat \ {0}
  <2>. HIDE DEF less
  <2>. QED  BY <1>1, PowersOfTwo
<1>3. top = 2 * half /\ half \in Nat \ {0}  BY <1>1, <1>2
<1>4. v \in {0, 1, top - 1} /\ room \in Nat /\ n < 2 * room  BY WordsAre
<1>. HIDE DEF top, room, half
<1>5. n \in 0..2 * room - 1 /\ v \in 0..top - 1  BY <1>3, <1>4
<1>. QED  BY <1>5 DEF top, room

LEMMA SomePixels ==
    /\ {0, 1, 7} \subseteq 0..Side \div 8 - 1
    /\ {[x |-> 4, y |-> 5], [x |-> 63, y |-> 8]} \subseteq PixelsOfTile
<1>1. PICK u \in Nat \ {0} : Side = 64 * u  BY SideIs
<1>2. Side \div 8 = 8 * u  BY <1>1
<1>. QED  BY <1>1, <1>2 DEF PixelsOfTile

LEMMA SomeViews ==
    ASSUME NEW zoom \in Drawable, NEW v \in {[x |-> 0, y |-> 320], [x |-> 192, y |-> 0]}
    PROVE  v \in Views(zoom)
<1>1. 2 ^ 1 = 2 /\ 2 ^ 2 = 4 /\ 2 ^ 3 = 8 /\ 2 ^ 4 = 16 /\ 2 ^ 5 = 32  BY SMT
<1>2. v \in Coordinates /\ v.x \in {0, 192} /\ v.y \in {0, 320}  BY DEF Coordinates
<1>3. CASE zoom > 0
  <2>. DEFINE m == 2 ^ zoom
  <2>1. zoom = 1 \/ zoom = 2 \/ zoom = 3 \/ zoom = 4 \/ zoom = 5  BY <1>3 DEF Drawable
  <2>2. m \in {2, 4, 8, 16, 32}  BY <1>1, <2>1, Zenon
  <2>. HIDE DEF m
  <2>3. \A d \in {2, 4, 8, 16, 32} : 0 % d = 0 /\ 192 % d = 0 /\ 320 % d = 0  OBVIOUS
  <2>4. v.x % m = 0 /\ v.y % m = 0  BY <1>2, <2>2, <2>3
  <2>. QED  BY <1>2, <2>4 DEF Views, m
<1>4. CASE ~(zoom > 0)  BY <1>2, <1>4 DEF Views, Drawable
<1>. QED  BY <1>3, <1>4

\* So many pixels of each of three values, which may be the same.
Share(v, a, i) == IF v = a THEN i ELSE 0

ThreeShares(lookup, n, a, i, b, j, c, k) ==
    lookup = [v \in 0..n |-> (Share(v, a, i) + Share(v, b, j)) + Share(v, c, k)]
IsCountOf(lookup, n, pixels) == lookup \in [0..n -> Nat] /\ PixelsCounted(lookup) = pixels
CountsOne(g, t, D, a, i) ==
    /\ g \in [D -> Int] /\ \A v \in D : g[v] = Share(v, a, i) /\ g[v] \in Nat
    /\ TotalsOf(t, D, g) /\ t[D] = i

LEMMA ThreeColours ==
    ASSUME NEW n \in Nat, NEW a \in 0..n, NEW b \in 0..n, NEW c \in 0..n,
           NEW i \in Nat, NEW j \in Nat, NEW k \in Nat,
           NEW lookup, ThreeShares(lookup, n, a, i, b, j, c, k)
    PROVE  IsCountOf(lookup, n, (i + j) + k)
<1>1. PICK D : D = 0..n  OBVIOUS
<1>2. IsFiniteSet(D)  BY <1>1, FS_Interval
<1>3. ASSUME NEW d \in D, NEW m \in Nat
      PROVE  \E g, t : CountsOne(g, t, D, d, m)
  <2>1. PICK g : g = [v \in D |-> Share(v, d, m)]  OBVIOUS
  <2>2. g \in [D -> Int] /\ g[d] = m
        /\ \A v \in D : g[v] = Share(v, d, m) /\ g[v] \in Nat /\ (v # d => g[v] = 0)
    BY <2>1 DEF Share
  <2>3. PICK t : TotalsOf(t, D, g)  BY <1>2, <2>2, TotalsExist
  <2>4. t[D] = m
    <3>1. \A x \in D \ {d} : g[x] = 0  BY <2>2
    <3>2. g \in [D -> Int] /\ d \in D  BY <2>2
    <3>3. t[D] = g[d]  BY ONLY <1>2, <2>3, <3>1, <3>2, TotalOfOne
    <3>. QED  BY <2>2, <3>3
  <2>. QED  BY <2>2, <2>3, <2>4 DEF CountsOne
<1>4. a \in D /\ b \in D /\ c \in D  BY <1>1
<1>5. PICK f, r : CountsOne(f, r, D, a, i)  BY <1>3, <1>4
<1>6. PICK g, s : CountsOne(g, s, D, b, j)  BY <1>3, <1>4
<1>7. PICK h, t : CountsOne(h, t, D, c, k)  BY <1>3, <1>4
<1>8. PICK fg, rs : AreAdded(fg, rs, D, f, r, g, s)  BY DEF AreAdded
<1>9. fg \in [D -> Int] /\ TotalsOf(rs, D, fg)
  <2>1. TotalsOf(r, D, f) /\ TotalsOf(s, D, g) /\ f \in [D -> Int] /\ g \in [D -> Int]
    BY <1>5, <1>6 DEF CountsOne
  <2>. QED  BY ONLY <1>8, <2>1, AddedTotals
<1>10. PICK all, total : AreAdded(all, total, D, fg, rs, h, t)  BY DEF AreAdded
<1>11. all \in [D -> Int] /\ TotalsOf(total, D, all)
  <2>1. TotalsOf(t, D, h) /\ h \in [D -> Int]  BY <1>7 DEF CountsOne
  <2>. QED  BY ONLY <1>9, <1>10, <2>1, AddedTotals
<1>12. ASSUME NEW v \in D
       PROVE  all[v] = (Share(v, a, i) + Share(v, b, j)) + Share(v, c, k) /\ all[v] \in Nat
  <2>1. all[v] = fg[v] + h[v] /\ fg[v] = f[v] + g[v]  BY <1>8, <1>10 DEF AreAdded
  <2>2. /\ f[v] = Share(v, a, i) /\ f[v] \in Nat /\ g[v] = Share(v, b, j) /\ g[v] \in Nat
        /\ h[v] = Share(v, c, k) /\ h[v] \in Nat
    BY <1>5, <1>6, <1>7 DEF CountsOne
  <2>. QED  BY <2>1, <2>2
<1>13. lookup = all /\ lookup \in [D -> Nat]
  <2>1. all = [v \in D |-> all[v]]  BY <1>11
  <2>2. all = lookup  BY <1>1, <1>12, <2>1 DEF ThreeShares
  <2>. QED  BY <1>11, <1>12, <2>2
<1>14. total[D] = (i + j) + k
  <2>1. D \in SUBSET D  OBVIOUS
  <2>2. total[D] = rs[D] + t[D] /\ rs[D] = r[D] + s[D]  BY <1>8, <1>10, <2>1 DEF AreAdded
  <2>. QED  BY <1>5, <1>6, <1>7, <2>2 DEF CountsOne
<1>15. PixelsCounted(lookup) = total[D]
  <2>1. TotalsOf(total, 0..n, lookup) /\ lookup \in [0..n -> Nat]  BY <1>1, <1>11, <1>13
  <2>. QED  BY <1>1, <2>1, PixelsCountedIs
<1>. QED  BY <1>1, <1>13, <1>14, <1>15 DEF IsCountOf

\* So are the counts: all are of 64 pixels.
IsInputOf(lookup, op, a, b, c, n) ==
    lookup = [v \in 0..2 ^ op.bps - 1 |->
                 (IF v = a THEN n[1] ELSE 0) + (IF v = b THEN n[2] ELSE 0) + (IF v = c THEN n[3] ELSE 0)]

LEMMA SomeCounts ==
    ASSUME NEW op \in LayerOperations, NEW a \in Levels(op), NEW b \in Levels(op), NEW c \in Levels(op),
           NEW n \in {<<0, 0, 64>>, <<31, 33, 0>>, <<32, 32, 0>>, <<20, 21, 23>>, <<1, 62, 1>>},
           NEW lookup, IsInputOf(lookup, op, a, b, c, n)
    PROVE  lookup \in [Levels(op) -> Nat] /\ PixelsCounted(lookup) = 64
<1>1. PICK m \in Nat \ {0} : Levels(op) = 0..m
  <2>1. \E name : \E bps \in {1, 2, 4, 8} : op = Op(name, bps)
    <3>1. 1 \in {1, 2, 4, 8} /\ 8 \in {1, 2, 4, 8}  OBVIOUS
    <3>. QED  BY <3>1, OperationsAre
  <2>. QED  BY <2>1, LevelsAre
<1>2. n[1] \in Nat /\ n[2] \in Nat /\ n[3] \in Nat /\ (n[1] + n[2]) + n[3] = 64  OBVIOUS
<1>3. lookup = [v \in Levels(op) |-> (Share(v, a, n[1]) + Share(v, b, n[2])) + Share(v, c, n[3])]
  BY Zenon DEF Share, Levels, IsInputOf
<1>4. lookup = [v \in 0..m |-> (Share(v, a, n[1]) + Share(v, b, n[2])) + Share(v, c, n[3])]
  BY <1>1, <1>3, Zenon
<1>5. a \in 0..m /\ b \in 0..m /\ c \in 0..m  BY <1>1
<1>6. lookup \in [0..m -> Nat] /\ PixelsCounted(lookup) = (n[1] + n[2]) + n[3]
  <2>1. PICK x, y, z : x = n[1] /\ y = n[2] /\ z = n[3]  OBVIOUS
  <2>2. x \in Nat /\ y \in Nat /\ z \in Nat  BY <1>2, <2>1
  <2>3. ThreeShares(lookup, m, a, x, b, y, c, z)  BY <1>4, <2>1, Zenon DEF ThreeShares
  <2>4. m \in Nat  OBVIOUS
  <2>5. IsCountOf(lookup, m, (x + y) + z)
    BY ONLY <2>4, <1>5, <2>2, <2>3, ThreeColours
  <2>. QED  BY <2>1, <2>5 DEF IsCountOf
<1>. QED  BY <1>1, <1>2, <1>6

LEMMA SomeLevels ==
    ASSUME NEW op \in LayerOperations, NEW a \in {v \in {0, 1, 2, 14, 254, 255} : v < 2 ^ op.bps}
    PROVE  a \in Levels(op)
<1>. DEFINE top == 2 ^ op.bps
<1>1. top \in Nat
  <2>1. op.bps \in 0..16  BY OperationsAre DEF Op
  <2>. QED  BY <2>1, PowersOfTwo
<1>2. a \in Nat /\ a < top  OBVIOUS
<1>3. Levels(op) = 0..top - 1  BY DEF Levels
<1>. HIDE DEF top
<1>. QED  BY <1>1, <1>2, <1>3

\* Whatever is given, fits.
LEMMA InputsFitStep == InputsFit /\ [Next]_<<kind, input>> => InputsFit'
<1>. SUFFICES ASSUME InputsFit, [Next]_<<kind, input>> PROVE InputsFit'  OBVIOUS
<1>1. CASE UNCHANGED <<kind, input>>
  BY <1>1 DEF InputsFit, Is
<1>2. CASE Next
  <2>0. kind' = kind  BY <1>2 DEF Next
  <2>1. CASE Segmented
    <3>1. PICK s \in SmallSegments, t \in SmallSegments, v \in -3..3 :
              kind = "segments" /\ input' = [s |-> s, t |-> t, v |-> v]
      BY <2>1 DEF Segmented, Given
    <3>2. s \in Segments /\ t \in Segments /\ v \in Int  BY SmallOnes
    <3>. QED  BY <2>0, <3>1, <3>2 DEF InputsFit, Is
  <2>2. CASE Framed
    <3>1. PICK r \in SmallRects, q \in SmallRects :
              kind = "rectangles" /\ input' = [r |-> r, q |-> q]
      BY <2>2 DEF Framed, Given
    <3>2. r \in Rectangles /\ q \in Rectangles  BY SmallOnes
    <3>. QED  BY <2>0, <3>1, <3>2 DEF InputsFit, Is
  <2>3. CASE Opened
    <3>1. PICK t \in Tags, f \in {{}, SomeFiles} : kind = "format" /\ input' = [tags |-> t, files |-> f]
      BY <2>3 DEF Opened, Given
    <3>2. t \in AllTags /\ f \in SUBSET AllFiles  BY SomeOfAll
    <3>. QED  BY <2>0, <3>1, <3>2 DEF InputsFit, Is
  <2>4. CASE Rowed
    <3>1. PICK t \in Tags, u \in Tags, tile \in {8, 16} :
              kind = "rows" /\ input' = [tags |-> t, again |-> u, tile |-> tile]
      BY <2>4 DEF Rowed, Given
    <3>2. t \in AllTags /\ u \in AllTags  BY SomeOfAll
    <3>. QED  BY <2>0, <3>1, <3>2 DEF InputsFit, Is
  <2>5. CASE Inked
    <3>1. PICK n \in {2, 4, 16}, inv \in BOOLEAN, t \in BOOLEAN, r \in 0..1, g \in 0..1, b \in 0..1 :
              kind = "monochrome" /\
              input' = [n |-> n, inverted |-> inv, transparent |-> t, color |-> Colour(r, g, b, 1)]
      BY <2>5 DEF Inked, Given
    <3>2. Colour(r, g, b, 1) \in AllColours  BY SomeOfAll
    <3>. QED  BY <2>0, <3>1, <3>2 DEF InputsFit, Is
  <2>7. CASE Layered
    <3>1. PICK w \in 1..140, h \in {1, 3, 9, 64, 65} : kind = "layers" /\ input' = [w |-> w, h |-> h]
      BY <2>7 DEF Layered, Given
    <3>2. w \in Lengths /\ h \in Lengths  BY SmallLengths
    <3>. QED  BY <2>0, <3>1, <3>2 DEF InputsFit, Is
  <2>8. CASE Redrawn
    <3>1. PICK w \in {3, 16, 17, 20}, h \in {3, 8, 10}, a \in Areas, z \in {-7, -4, -3, -2, 0, 1} :
              kind = "redraw" /\ input' = [w |-> w, h |-> h, area |-> a, zoom |-> z]
      BY <2>8 DEF Redrawn, Given
    <3>2. w \in Lengths /\ h \in Lengths  BY SmallLengths
    <3>3. a \in Rectangles /\ z \in Int  BY AreasAre
    <3>. QED  BY <2>0, <3>1, <3>2, <3>3 DEF InputsFit, Is
  <2>9. CASE Averaged
    <3>1. PICK w \in {7, 17}, h \in {3, 9}, a \in Areas :
              kind = "averages" /\ input' = [w |-> w, h |-> h, area |-> a]
      BY <2>9 DEF Averaged, Given
    <3>2. w \in Lengths /\ h \in Lengths  BY SmallLengths
    <3>3. a \in Rectangles  BY AreasAre
    <3>. QED  BY <2>0, <3>1, <3>2, <3>3 DEF InputsFit, Is
  <2>10. CASE Sampled
    <3>1. PICK b \in {8, 16}, bps \in {1, 2, 4, 8}, n \in 0..17 :
              \E v \in {0, 1, 2 ^ bps - 1} :
                  n < 2 * (b \div bps) /\ kind = "samples"
                  /\ input' = [bits |-> b, bps |-> bps, n |-> n, value |-> v]
      BY ZenonT(40), <2>10 DEF Sampled, Given
    <3>2. PICK v \in {0, 1, 2 ^ bps - 1} :
              n < 2 * (b \div bps) /\ kind = "samples" /\ input' = [bits |-> b, bps |-> bps, n |-> n, value |-> v]
      BY <3>1
    <3>3. n \in 0..2 * (b \div bps) - 1 /\ v \in 0..2 ^ bps - 1  BY <3>2, SomeSamples
    <3>4. /\ input'.bits = b /\ input'.bps = bps /\ input'.n = n /\ input'.value = v
      BY <3>2
    <3>5. /\ input'.bits \in {8, 16} /\ input'.bps \in {1, 2, 4, 8}
          /\ input'.n \in 0..2 * (input'.bits \div input'.bps) - 1 /\ input'.value \in 0..2 ^ input'.bps - 1
      BY <3>3, <3>4, Zenon
    <3>6. kind' = "samples"  BY <2>0, <3>2
    <3>. QED  BY <3>5, <3>6 DEF InputsFit, Is
  <2>11. CASE Placed
    <3>1. PICK op \in LayerOperations, x \in {0, 1, 2, 7}, y \in {0, 1, 2, 7}, i \in {0, 1, 7}, j \in {0, 1, 7} :
              kind = "reduce" /\ input' = [op |-> op, x |-> x, y |-> y, i |-> i, j |-> j]
      BY <2>11 DEF Placed, Given
    <3>2. x \in 0..7 /\ y \in 0..7  OBVIOUS
    <3>3. i \in 0..Side \div 8 - 1 /\ j \in 0..Side \div 8 - 1  BY SomePixels, Zenon
    <3>4. input' \in [op : LayerOperations, x : 0..7, y : 0..7, i : 0..Side \div 8 - 1, j : 0..Side \div 8 - 1]
      BY <3>1, <3>2, <3>3
    <3>. QED  BY <2>0, <3>1, <3>4 DEF InputsFit, Is
  <2>12. CASE Drawn
    <3>1. PICK op \in LayerOperations, z \in -4..5, part \in {[x |-> 0, y |-> 0], [x |-> 3, y |-> 10]},
               view \in {[x |-> 0, y |-> 320], [x |-> 192, y |-> 0]}, p \in {[x |-> 4, y |-> 5], [x |-> 63, y |-> 8]} :
              kind = "draw" /\
              input' = [op |-> op, zoom |-> z, part |-> part, view |-> view, p |-> p, fine |-> 2]
      BY <2>12 DEF Drawn, Given
    <3>2. part \in Coordinates  BY DEF Coordinates
    <3>0. z \in Drawable  BY DEF Drawable
    <3>3. view \in Views(z)  BY <3>0, SomeViews
    <3>4. p \in PixelsOfTile  BY SomePixels, Zenon
    <3>5. 2 \in Nat \ {0}  OBVIOUS
    <3>6. /\ input'.op = op /\ input'.zoom = z /\ input'.part = part
          /\ input'.view = view /\ input'.p = p /\ input'.fine = 2
      BY <3>1
    <3>7. /\ input'.op \in LayerOperations /\ input'.zoom \in Drawable /\ input'.part \in Coordinates
          /\ input'.view \in Views(input'.zoom) /\ input'.p \in PixelsOfTile /\ input'.fine \in Nat \ {0}
      BY <3>0, <3>2, <3>3, <3>4, <3>5, <3>6, Zenon
    <3>8. kind' = "draw"  BY <2>0, <3>1
    <3>. QED  BY <3>7, <3>8 DEF InputsFit, Is
  <2>13. CASE Summed
    <3>1. PICK ps \in {1, 2, 4}, i \in {0, 1, 5, 15}, j \in {0, 3}, c \in {3, 4}, bps \in {1, 2, 4, 8} :
              kind = "area" /\ input' = [size |-> ps, i |-> i, j |-> j, channels |-> c, bps |-> bps]
      BY <2>13 DEF Summed, Given
    <3>2. ps \in Nat /\ i \in Nat /\ j \in Nat /\ c \in Nat \ {0}  OBVIOUS
    <3>. QED  BY <2>0, <3>1, <3>2 DEF InputsFit, Is
  <2>14. CASE Valued
    <3>1. PICK op \in LayerOperations :
              \E a, b, c \in {v \in {0, 1, 2, 14, 254, 255} : v < 2 ^ op.bps},
                 n \in {<<0, 0, 64>>, <<31, 33, 0>>, <<32, 32, 0>>, <<20, 21, 23>>, <<1, 62, 1>>} :
                  Given("values", [op |-> op, lookup |-> [v \in 0..2 ^ op.bps - 1 |->
                      (IF v = a THEN n[1] ELSE 0) + (IF v = b THEN n[2] ELSE 0) + (IF v = c THEN n[3] ELSE 0)]])
      BY <2>14 DEF Valued
    <3>2. PICK a \in {v \in {0, 1, 2, 14, 254, 255} : v < 2 ^ op.bps},
               b \in {v \in {0, 1, 2, 14, 254, 255} : v < 2 ^ op.bps},
               c \in {v \in {0, 1, 2, 14, 254, 255} : v < 2 ^ op.bps},
               n \in {<<0, 0, 64>>, <<31, 33, 0>>, <<32, 32, 0>>, <<20, 21, 23>>, <<1, 62, 1>>} :
                  Given("values", [op |-> op, lookup |-> [v \in 0..2 ^ op.bps - 1 |->
                      (IF v = a THEN n[1] ELSE 0) + (IF v = b THEN n[2] ELSE 0) + (IF v = c THEN n[3] ELSE 0)]])
      BY <3>1
    <3>3. PICK lookup : lookup = [v \in 0..2 ^ op.bps - 1 |->
                      (IF v = a THEN n[1] ELSE 0) + (IF v = b THEN n[2] ELSE 0) + (IF v = c THEN n[3] ELSE 0)]
      OBVIOUS
    <3>4. Given("values", [op |-> op, lookup |-> lookup])  BY <3>2, <3>3, Zenon
    <3>5. a \in Levels(op) /\ b \in Levels(op) /\ c \in Levels(op)  BY SomeLevels
    <3>6. lookup \in [Levels(op) -> Nat] /\ PixelsCounted(lookup) = 64
      <4>1. IsInputOf(lookup, op, a, b, c, n)  BY <3>3, Zenon DEF IsInputOf
      <4>. QED  BY ONLY <3>5, <4>1, SomeCounts
    <3>7. kind = "values" /\ input'.op = op /\ input'.lookup = lookup  BY <3>4 DEF Given
    <3>8. /\ input'.op \in LayerOperations /\ input'.lookup \in [Levels(input'.op) -> Nat]
          /\ PixelsCounted(input'.lookup) = 64
      BY <3>6, <3>7, Zenon
    <3>. QED  BY <2>0, <3>7, <3>8 DEF InputsFit, Is
  <2>15. CASE Ruled
    <3>1. PICK lower \in {-31, -3, 0, 7}, length \in {2, 5, 20, 46, 200, 1001}, size \in {1, 79, 80, 160, 331} :
              kind = "ticks" /\ input' = [lower |-> lower, upper |-> lower + length, size |-> size]
      BY <2>15 DEF Ruled, Given
    <3>2. /\ lower \in Int /\ lower + length \in Int /\ lower < lower + length /\ size \in Nat \ {0}
      OBVIOUS
    <3>3. input'.lower = lower /\ input'.upper = lower + length /\ input'.size = size  BY <3>1
    <3>. QED  BY <2>0, <3>1, <3>2, <3>3 DEF InputsFit, Is
  <2>16. CASE Lined
    <3>1. PICK w \in {0, 4, 50}, h \in {0, 4, 50, 51}, at \in {0, 3}, n \in {-2, 3} :
              kind = "lines" /\ input' = [w |-> w, h |-> h, at |-> at, n |-> n]
      BY <2>16 DEF Lined, Given
    <3>2. w \in Int /\ h \in Int /\ at \in Int /\ n \in Int  OBVIOUS
    <3>. QED  BY <2>0, <3>1, <3>2 DEF InputsFit, Is
  <2>. QED
    BY <1>2, <2>1, <2>2, <2>3, <2>4, <2>5, <2>7, <2>8, <2>9,
       <2>10, <2>11, <2>12, <2>13, <2>14, <2>15, <2>16 DEF Next
<1>. QED  BY <1>1, <1>2 DEF Next

\* The inputs always fit.
LEMMA InputsAlwaysFit == Spec => []InputsFit
<1>1. Init => InputsFit
  BY DEF Init, InputsFit, Is
<1>. QED  BY <1>1, InputsFitStep, PTL DEF Spec

\* GeometryOfSets of every input: linearsegment.hh and rectangle.hh compute with
\* sets of points.
THEOREM GeometryIsRight == Spec => []GeometryOfSets
<1>1. InputsFit => GeometryOfSets
  <2>. SUFFICES ASSUME InputsFit PROVE GeometryOfSets  OBVIOUS
  <2>1. ASSUME Is("segments") PROVE SegmentsAreSets(input.s, input.t, input.v)
    <3>1. input.s \in Segments /\ input.t \in Segments /\ input.v \in Int  BY <2>1 DEF InputsFit
    <3>. QED  BY <3>1, SegmentOperations
  <2>2. ASSUME Is("rectangles") PROVE RectanglesAreSets(input.r, input.q)
    <3>1. input.r \in Rectangles /\ input.q \in Rectangles  BY <2>2 DEF InputsFit
    <3>. QED  BY <3>1, RectangleOperations
  <2>. QED  BY <2>1, <2>2 DEF GeometryOfSets
<1>. QED  BY <1>1, InputsAlwaysFit, PTL

\* BitmapIsTiled of every input: tiles cover their layer and fit in the next one,
\* redraw() draws each requested pixel once, in its place, and getPixelAverages()
\* counts each pixel of its area once.
THEOREM BitmapIsRight == Spec => []BitmapIsTiled
<1>1. InputsFit => BitmapIsTiled
  <2>. SUFFICES ASSUME InputsFit PROVE BitmapIsTiled  OBVIOUS
  <2>1. ASSUME Is("layers") PROVE LayersFit(input.w, input.h)
    <3>1. input.w \in Lengths /\ input.h \in Lengths  BY <2>1 DEF InputsFit
    <3>. QED  BY <3>1, LayersAreTiled
  <2>2. ASSUME Is("redraw") PROVE RedrawsEverything(input.w, input.h, input.area, input.zoom)
    <3>1. /\ input.w \in Lengths /\ input.h \in Lengths /\ input.area \in Rectangles
          /\ input.zoom \in Int
      BY <2>2 DEF InputsFit
    <3>. QED  BY <3>1, RedrawIsComplete
  <2>3. ASSUME Is("averages") PROVE AveragesOverArea(input.w, input.h, input.area)
    <3>1. input.w \in Lengths /\ input.h \in Lengths /\ input.area \in Rectangles  BY <2>3 DEF InputsFit
    <3>2. input.w \in Nat \ {0} /\ input.h \in Nat \ {0}  BY <3>1 DEF Lengths
    <3>. QED  BY <3>1, <3>2, AveragesAreOfArea
  <2>. QED  BY <2>1, <2>2, <2>3 DEF BitmapIsTiled
<1>. QED  BY <1>1, InputsAlwaysFit, PTL

\* PixelsStayInPlace of every input: samples do not disturb each other, and reduce(),
\* cache(), draw(), cacheZoom() and sumPixelValues() look at the pixels they are for,
\* and put the outcome where it belongs.
THEOREM PixelsAreInPlace == Spec => []PixelsStayInPlace
<1>1. InputsFit => PixelsStayInPlace
  <2>. SUFFICES ASSUME InputsFit PROVE PixelsStayInPlace  OBVIOUS
  <2>1. ASSUME Is("samples") PROVE SamplesStayApart(input.bits, input.bps, input.n, input.value)
    <3>1. /\ input.bits \in {8, 16} /\ input.bps \in {1, 2, 4, 8}
          /\ input.n \in 0..2 * (input.bits \div input.bps) - 1 /\ input.value \in 0..2 ^ input.bps - 1
      BY <2>1 DEF InputsFit
    <3>. QED  BY <3>1, SamplesKeepApart
  <2>2. ASSUME Is("reduce") PROVE ReducesInPlace(input.op, input.x, input.y, input.i, input.j)
    <3>1. input \in [op : LayerOperations, x : 0..7, y : 0..7, i : 0..Side \div 8 - 1, j : 0..Side \div 8 - 1]
      BY <2>2 DEF InputsFit
    <3>. QED  BY <3>1, ReductionsStayInPlace
  <2>3. ASSUME Is("draw")
        PROVE  DrawsInPlace(input.op, input.zoom, input.part, input.view, input.p, input.fine)
    <3>1. /\ input.op \in LayerOperations /\ input.zoom \in Drawable /\ input.part \in Coordinates
          /\ input.view \in Views(input.zoom) /\ input.p \in PixelsOfTile /\ input.fine \in Nat \ {0}
      BY <2>3 DEF InputsFit
    <3>. QED  BY <3>1, DrawingStaysInPlace
  <2>4. ASSUME Is("area") PROVE SamplesOfArea(input.size, input.i, input.j, input.channels, input.bps)
    <3>1. input \in [size : Nat, i : Nat, j : Nat, channels : Nat \ {0}, bps : {1, 2, 4, 8}]
      BY <2>4 DEF InputsFit
    <3>2. /\ input.size \in Nat /\ input.i \in Nat /\ input.j \in Nat
          /\ input.channels \in Nat \ {0} /\ input.bps \in {1, 2, 4, 8}
      BY <3>1
    <3>. QED  BY <3>2, SamplesAreOfTheArea
  <2>. QED  BY <2>1, <2>2, <2>3, <2>4 DEF PixelsStayInPlace
<1>. QED  BY <1>1, InputsAlwaysFit, PTL

\* ColoursSurviveReduction of every input: areas of one colour keep it, means lie
\* between the values they are of, and the most frequent indexed colours remain.
THEOREM ColoursSurvive == Spec => []ColoursSurviveReduction
<1>1. InputsFit => ColoursSurviveReduction
  <2>. SUFFICES ASSUME InputsFit, Is("values") PROVE ReductionKeepsColours(input.op, input.lookup)
    BY DEF ColoursSurviveReduction
  <2>1. /\ input.op \in LayerOperations /\ input.lookup \in [Levels(input.op) -> Nat]
        /\ PixelsCounted(input.lookup) = 64
    BY DEF InputsFit
  <2>2. PixelsCounted(input.lookup) > 0  BY <2>1
  <2>. QED  BY <2>1, <2>2, ColoursStay
<1>. QED  BY <1>1, InputsAlwaysFit, PTL

\* FormatsFit of every input: the tiff plugin, LayerSpecForBitmap() and the colour
\* maps get along for all files, since those of the run are among them.
THEOREM FormatsAreRight == Spec => []FormatsFit
<1>1. InputsFit => FormatsFit
  <2>. SUFFICES ASSUME InputsFit PROVE FormatsFit  OBVIOUS
  <2>1. ASSUME Is("format") PROVE LayersMatchFormat(input.tags, input.files)
    <3>1. input.tags \in AllTags /\ input.files \in SUBSET AllFiles  BY <2>1 DEF InputsFit
    <3>. QED  BY <3>1, SupportedFilesGetLayers
  <2>2. ASSUME Is("rows") PROVE RowsFitTiles(input.tags, input.again, input.tile)
    <3>1. input.tags \in AllTags /\ input.again \in AllTags /\ input.tile \in {8, 16}  BY <2>2 DEF InputsFit
    <3>2. input.tile \in Nat \ {0} /\ input.tile % 8 = 0  BY <3>1
    <3>. QED  BY <3>1, <3>2, RowsAreCut
  <2>3. ASSUME Is("monochrome") PROVE InkAndPaper(input.n, input.inverted, input.color, input.transparent)
    <3>1. /\ input.n \in Nat \ {0, 1} /\ input.inverted \in BOOLEAN /\ input.transparent \in BOOLEAN
          /\ input.color \in AllColours
      BY <2>3 DEF InputsFit
    <3>. QED  BY <3>1, InkStays
  <2>. QED  BY <2>1, <2>2, <2>3 DEF FormatsFit
<1>. QED  BY <1>1, InputsAlwaysFit, PTL

\* RulersFit of every input: ticks are where their values are, as close together as
\* allowed and no closer, and the vertical ruler is the horizontal one turned over.
THEOREM RulersAreRight == Spec => []RulersFit
<1>1. InputsFit => RulersFit
  <2>. SUFFICES ASSUME InputsFit PROVE RulersFit  OBVIOUS
  <2>1. ASSUME Is("ticks") PROVE TicksFit(input.lower, input.upper, input.size)
    <3>1. /\ input.lower \in Int /\ input.upper \in Int /\ input.lower < input.upper
          /\ input.size \in Nat \ {0}
      BY <2>1 DEF InputsFit
    <3>. QED  BY <3>1, TicksAreRight
  <2>2. ASSUME Is("lines") PROVE RulersAgree(input.w, input.h, input.at, input.n)
    <3>1. input.w \in Int /\ input.h \in Int /\ input.at \in Int /\ input.n \in Int  BY <2>2 DEF InputsFit
    <3>. QED  BY <3>1, RulersAreAlike
  <2>. QED  BY <2>1, <2>2 DEF RulersFit
<1>. QED  BY <1>1, InputsAlwaysFit, PTL
=============================================================================
