---------------------------- MODULE Calculations ----------------------------
(***************************************************************************)
(* The calculations of Geometry, Tiling, Pixels, Formats and Rulers, over  *)
(* bounded inputs.  A behaviour takes one kind of calculation and gives it *)
(* one input; the invariants say what is right about the outcome.          *)
(***************************************************************************)
EXTENDS Tiling, Formats, Rulers

VARIABLES kind, input

NoInput == <<>>
Kinds == {"segments", "rectangles", "layers", "redraw", "averages", "samples", "reduce", "draw", "area",
          "values", "format", "rows", "monochrome", "ticks", "lines"}

Init == kind \in Kinds /\ input = NoInput

Given(k, record) == kind = k /\ input' = record

-----------------------------------------------------------------------------
(* The inputs.  Segments that lie apart, touch, overlap and contain each   *)
(* other; rectangles that are empty, or were given backwards.              *)
SmallSegments == {Segment(a, n) : a \in -2..2, n \in -2..2}
SmallRects == {Rectangle(h, v) : h \in {Segment(a, n) : a \in 0..1, n \in {-2, 0, 1, 2}},
                                 v \in {Segment(a, n) : a \in 0..1, n \in 0..2}}
Segmented == \E s, t \in SmallSegments, v \in -3..3 : Given("segments", [s |-> s, t |-> t, v |-> v])
Framed    == \E r, q \in SmallRects : Given("rectangles", [r |-> r, q |-> q])

\* Bitmaps of one tile and of more, up to three layers; areas that begin and end
\* inside and outside of the bitmap, of a tile and of a pixel.
Areas == {Rectangle(Segment(x, w), Segment(y, h)) : x \in {-3, 0, 1, 16, 17}, w \in {0, 1, 9, 32, 35},
                                                    y \in {-1, 0, 15}, h \in {2, 3, 18}}
Layered  == \E w \in 1..140, h \in {1, 3, 9, 64, 65} : Given("layers", [w |-> w, h |-> h])
Redrawn  == \E w \in {3, 16, 17, 20}, h \in {3, 8, 10}, a \in Areas, z \in {-7, -4, -3, -2, 0, 1} :
                Given("redraw", [w |-> w, h |-> h, area |-> a, zoom |-> z])
Averaged == \E w \in {7, 17}, h \in {3, 9}, a \in Areas : Given("averages", [w |-> w, h |-> h, area |-> a])

\* Bytes and words of two bytes, of any size of sample; all layer operations;
\* tiles at any of four places in their target; pixels of few and of many colours.
Sampled == \E b \in {8, 16}, bps \in {1, 2, 4, 8}, n \in 0..17 : \E v \in {0, 1, 2 ^ bps - 1} :
               n < 2 * (b \div bps) /\ Given("samples", [bits |-> b, bps |-> bps, n |-> n, value |-> v])
Placed  == \E op \in LayerOperations, x, y \in {0, 1, 2, 7}, i, j \in {0, 1, 7} :
               Given("reduce", [op |-> op, x |-> x, y |-> y, i |-> i, j |-> j])
Drawn   == \E op \in LayerOperations, z \in -4..5, part \in {[x |-> 0, y |-> 0], [x |-> 3, y |-> 10]},
              view \in {[x |-> 0, y |-> 320], [x |-> 192, y |-> 0]}, p \in {[x |-> 4, y |-> 5], [x |-> 63, y |-> 8]} :
               Given("draw", [op |-> op, zoom |-> z, part |-> part, view |-> view, p |-> p, fine |-> 2])
Summed  == \E ps \in {1, 2, 4}, i \in {0, 1, 5, 15}, j \in {0, 3}, c \in {3, 4}, bps \in {1, 2, 4, 8} :
               Given("area", [size |-> ps, i |-> i, j |-> j, channels |-> c, bps |-> bps])
Valued  == \E op \in LayerOperations : \E a, b, c \in {v \in {0, 1, 2, 14, 254, 255} : v < 2 ^ op.bps},
              n \in {<<0, 0, 64>>, <<31, 33, 0>>, <<32, 32, 0>>, <<20, 21, 23>>, <<1, 62, 1>>} :
               Given("values", [op |-> op, lookup |-> [v \in 0..2 ^ op.bps - 1 |->
                   (IF v = a THEN n[1] ELSE 0) + (IF v = b THEN n[2] ELSE 0) + (IF v = c THEN n[3] ELSE 0)]])

\* Files with and without each tag, supported or not, whose rows end at, before
\* and after the end of a byte and of a tile; palettes of several sizes.
Tags == [readable : BOOLEAN, spp : {Missing, 1, 2, 3, 4}, bps : {Missing, 1, 2, 4, 8, 16},
         width : {Missing, 1, 9, 31}, height : {Missing, 1}, photometric : Photometrics \cup {Missing}]
SomeFiles == {[header |-> h, count |-> c, entries |-> e] : h \in BOOLEAN, c \in {0, 2, 4, 16, 300}, e \in {2, 15, 256}}
Opened == \E t \in Tags, f \in {{}, SomeFiles} : Given("format", [tags |-> t, files |-> f])
Rowed  == \E t, u \in Tags, tile \in {8, 16} :
              /\ t.readable /\ t.spp = u.spp /\ Missing \notin {t.bps, t.height, u.height}
              /\ t.photometric \in {"MINISBLACK", "RGB", "SEPARATED"}
              /\ Given("rows", [tags |-> t, again |-> u, tile |-> tile])
Inked  == \E n \in {2, 4, 16}, inv, t \in BOOLEAN, r, g, b \in 0..1 :
              Given("monochrome", [n |-> n, inverted |-> inv, transparent |-> t, color |-> Colour(r, g, b, 1)])

\* Ranges of a pixel or more, whole and in parts, on both sides of 0; rulers that
\* have room for one tick and for many.
Ruled == \E lower \in {-31, -3, 0, 7}, length \in {2, 5, 20, 46, 200, 1001}, size \in {1, 79, 80, 160, 331} :
             Given("ticks", [lower |-> lower, upper |-> lower + length, size |-> size])
Lined == \E w \in {0, 4, 50}, h \in {0, 4, 50, 51}, at \in {0, 3}, n \in {-2, 3} :
             Given("lines", [w |-> w, h |-> h, at |-> at, n |-> n])

Next ==
    /\ input = NoInput
    /\ \/ Segmented \/ Framed \/ Layered \/ Redrawn \/ Averaged \/ Sampled \/ Placed \/ Drawn
       \/ Summed \/ Valued \/ Opened \/ Rowed \/ Inked \/ Ruled \/ Lined
    /\ UNCHANGED kind

Spec == Init /\ [][Next]_<<kind, input>>

-----------------------------------------------------------------------------
Is(k) == kind = k /\ input # NoInput

\* linearsegment.hh and rectangle.hh: the operations on segments and rectangles
\* are those on the sets of their points, and the border painted around a
\* presentation is all that was asked for and is not in it.
GeometryOfSets ==
    /\ Is("segments") => SegmentsAreSets(input.s, input.t, input.v)
    /\ Is("rectangles") => RectanglesAreSets(input.r, input.q)

\* TiledBitmap: tiles cover their layer and fit in the next one; redraw() draws
\* each requested pixel once, in its place; getPixelAverages() counts each pixel
\* of its area once.
BitmapIsTiled ==
    /\ Is("layers") => LayersFit(input.w, input.h)
    /\ Is("redraw") => RedrawsEverything(input.w, input.h, input.area, input.zoom)
    /\ Is("averages") => AveragesOverArea(input.w, input.h, input.area)

\* The layer operations and SampleIterator: samples that are next to each other do
\* not disturb each other; reduce(), cache(), draw() and sumPixelValues() look at
\* the pixels they are for, and put the outcome where it belongs.
PixelsStayInPlace ==
    /\ Is("samples") => SamplesStayApart(input.bits, input.bps, input.n, input.value)
    /\ Is("reduce") => ReducesInPlace(input.op, input.x, input.y, input.i, input.j)
    /\ Is("draw") => DrawsInPlace(input.op, input.zoom, input.part, input.view, input.p, input.fine)
    /\ Is("area") => SamplesOfArea(input.size, input.i, input.j, input.channels, input.bps)

\* The layer operations: an area of one colour has that colour in every layer, a
\* mean lies between the values it is of, and of indexed colours the two that
\* occur most often remain.
ColoursSurviveReduction == Is("values") => ReductionKeepsColours(input.op, input.lookup)

\* The tiff plugin and LayerSpecForBitmap(): every supported file gets layer
\* operations that fit its pixels, each other and every colour map on offer; its
\* rows, if they have the samples of a pixel together, fit its tiles; and setting the monochrome colour leaves the paper alone.
FormatsFit ==
    /\ Is("format") => LayersMatchFormat(input.tags, input.files)
    /\ Is("rows") => RowsFitTiles(input.tags, input.again, input.tile)
    /\ Is("monochrome") => InkAndPaper(input.n, input.inverted, input.color, input.transparent)

\* Ruler: the labels are where the values are, as close together as allowed and no
\* closer, without sub-ticks on top of them; both orientations draw the same.
RulersFit ==
    /\ Is("ticks") => TicksFit(input.lower, input.upper, input.size)
    /\ Is("lines") => RulersAgree(input.w, input.h, input.at, input.n)
=============================================================================
