------------------------------- MODULE Tiling -------------------------------
(***************************************************************************)
(* libs/tiled-bitmap: how a bitmap is cut into tiles and layers, which     *)
(* tile is reduced into which, where redraw() puts the tiles it draws, and *)
(* which pixels getPixelAverages() sums.                                   *)
(*                                                                         *)
(* Each layer is the one below it reduced eight times.  Areas that the     *)
(* code computes in doubles are here in units of 1/Unit pixel of the       *)
(* bottom layer: where redraw() divides an area by 8, the area keeps its   *)
(* number of units and a pixel of the layer becomes eight times as large.  *)
(***************************************************************************)
EXTENDS Geometry, FiniteSetsExt, Sequences

CONSTANTS
    TileSize,  \* TILESIZE
    Unit       \* units in which the requested areas are given, per pixel

ASSUME TileSizeAssumption == TileSize \in Nat \ {0} /\ TileSize % 8 = 0
ASSUME UnitAssumption     == Unit \in Nat \ {0}

-----------------------------------------------------------------------------
(* Layers *)

\* TiledBitmap::initialize(): the lengths of a side of the successive layers.
Length(length, n) ==
    LET reduced[i \in Nat] == IF i = 0 THEN length ELSE (reduced[i - 1] + 7) \div 8
    IN  reduced[n]
\* ... which it adds until one is small enough.
LayerCount(w, h) ==
    CHOOSE n \in 1..20 :
        /\ Largest(Length(w, n), Length(h, n)) <= TileSize \div 4
        /\ \A m \in 1..n - 1 : Largest(Length(w, m), Length(h, m)) > TileSize \div 4

Layer(w, h, n) == [width |-> Length(w, n), height |-> Length(h, n)]
TileCount(length) == (length + TileSize - 1) \div TileSize
LayerRect(layer) == Rectangle(Segment(0, layer.width), Segment(0, layer.height))
OutOfBounds == <<-1, -1>>
GetTile(layer, i, j) ==
    IF i \in 0..TileCount(layer.width) - 1 /\ j \in 0..TileCount(layer.height) - 1
    THEN <<i, j>> ELSE OutOfBounds

\* connect(): the tile that a tile is reduced into, and its place in there.
Target(i, j)   == <<i \div 8, j \div 8>>
Offset(i, j)   == <<i % 8, j % 8>>

-----------------------------------------------------------------------------
(* TiledBitmap::redraw() *)

TileArea(i, j) == RectScaled(RectMoved(Rectangle(Segment(0, 1), Segment(0, 1)), Point(i, j)), TileSize)

LayerFor(zoom, count) == IF zoom > -3 THEN 0 ELSE Smallest(count - 1, (-zoom) \div 3)
PixelOf(layerNr) == Unit * 8 ^ layerNr

\* A mutation: the last tile that is partly visible is left out.
WrongNeededTiles(requested, pixel) ==
    [imin |-> Largest(0, Truncated(Truncated(requested.h.start, pixel), TileSize)),
     imax |-> Truncated(Truncated(End(requested.h), pixel), TileSize),
     jmin |-> Largest(0, Truncated(Truncated(requested.v.start, pixel), TileSize)),
     jmax |-> Truncated(Truncated(End(requested.v), pixel) + TileSize - 1, TileSize)]

\* The tiles that are needed, as setNeededTiles() is told.
NeededTiles(requested, pixel) ==
    [imin |-> Largest(0, Truncated(Truncated(requested.h.start, pixel), TileSize)),
     imax |-> Truncated(Truncated(End(requested.h), pixel) + TileSize - 1, TileSize),
     jmin |-> Largest(0, Truncated(Truncated(requested.v.start, pixel), TileSize)),
     jmax |-> Truncated(Truncated(End(requested.v), pixel) + TileSize - 1, TileSize)]

\* Everything redraw() draws: of which tile, which part of that tile, and where
\* in the view, before the scaling with the size of a pixel.
Redraw(w, h, requested, zoom) ==
    LET layerNr == LayerFor(zoom, LayerCount(w, h))
        layer   == Layer(w, h, layerNr)
        pixel   == PixelOf(layerNr)
        valid   == Overlap(requested, RectScaled(LayerRect(layer), pixel))
        clipped == LeftOf(Above(requested, End(valid.v)), End(valid.h))
        needed  == NeededTiles(requested, pixel)
        Part(i, j) ==
            LET area    == RectScaled(TileArea(i, j), pixel)
                visible == Overlap(area, clipped)
            IN  [tile |-> GetTile(layer, i, j),
                 part |-> RectMoved(visible, Minus(Point(0, 0), TopLeft(area))),
                 view |-> RectMoved(visible, Minus(Point(0, 0), TopLeft(clipped)))]
    IN  {Part(i, j) : i \in needed.imin..needed.imax - 1, j \in needed.jmin..needed.jmax - 1}

-----------------------------------------------------------------------------
(* TiledBitmapPresentation::getPixelAverages() *)

\* Sums per colour component; a pipette colour without components is <<>>.
sumPipetteColors(lhs, rhs) ==
    IF lhs = <<>> THEN rhs ELSE [c \in DOMAIN rhs |-> rhs[c] + lhs[c]]
\* Division leaves a fraction of a double: both of its parts are kept.
dividePipetteColors(sums, divisor) == [c \in DOMAIN sums |-> [sum |-> sums[c], of |-> divisor]]

\* sumPixelValues() of the layer operations, over part of a tile.
sumPixelValues(value, tile, part) ==
    [c \in {"count", "x", "y"} |->
        FoldSet(LAMBDA p, sum : sum + value[c][tile[1] * TileSize + p.x][tile[2] * TileSize + p.y],
                0, RectPoints(part))]

SummedTiles(area) ==
    LET first(s) == Truncated(s.start, TileSize)
        last(s)  == Truncated(End(s) - 1, TileSize)
    IN  {<<i, j>> : i \in first(area.h)..last(area.h), j \in first(area.v)..last(area.v)}

PixelArea(w, h, area) ==
    LET r == RectRoundedOut(Overlap(area, RectScaled(LayerRect([width |-> w, height |-> h]), Unit)), Unit)
    IN  Rectangle(Segment(r.h.start \div Unit, r.h.size \div Unit), Segment(r.v.start \div Unit, r.v.size \div Unit))

GetPixelAverages(w, h, area, value) ==
    LET pixels == PixelArea(w, h, area)
        total  == pixels.h.size * pixels.v.size
        Part(t) == RectMoved(Overlap(TileArea(t[1], t[2]), pixels), Point(-t[1] * TileSize, -t[2] * TileSize))
    IN  IF total = 0 THEN <<>>
        ELSE dividePipetteColors(
                 FoldSet(LAMBDA t, sums : sumPipetteColors(sums, sumPixelValues(value, t, Part(t))),
                         <<>>, SummedTiles(pixels)),
                 total)

-----------------------------------------------------------------------------
(* What is right about it *)

\* The tiles of each layer cover it without one to spare; each tile has a target
\* in the layer above it, and its pixels, reduced, fall inside that target and
\* inside that layer; the top layer is small enough to be drawn at once.
LayersFit(w, h) ==
    /\ \A n \in 0..LayerCount(w, h) - 1 :
        LET layer == Layer(w, h, n)
        IN  /\ layer.width \in (TileCount(layer.width) - 1) * TileSize + 1 .. TileCount(layer.width) * TileSize
            /\ layer.height \in (TileCount(layer.height) - 1) * TileSize + 1 .. TileCount(layer.height) * TileSize
            /\ n + 1 < LayerCount(w, h) =>
                LET above == Layer(w, h, n + 1)
                IN  \A i \in 0..TileCount(layer.width) - 1, j \in 0..TileCount(layer.height) - 1 :
                        LET target == Target(i, j)
                            place  == RectMoved(TileArea(target[1], target[2]), Point(0, 0))
                            block  == RectMoved(Rectangle(Segment(0, TileSize \div 8), Segment(0, TileSize \div 8)),
                                                Plus(TopLeft(place), Point(Offset(i, j)[1] * (TileSize \div 8),
                                                                           Offset(i, j)[2] * (TileSize \div 8))))
                        IN  /\ GetTile(above, target[1], target[2]) = target
                            /\ Overlap(block, place) = block
                            /\ \A p \in RectPoints(Overlap(TileArea(i, j), LayerRect(layer))) :
                                   RectContains(block, Point(p.x \div 8, p.y \div 8))
    /\ LET top == Layer(w, h, LayerCount(w, h) - 1) IN Largest(top.width, top.height) <= 2 * TileSize

\* Whatever part of the bitmap is requested at whatever zoom, redraw() draws
\* every whole pixel of it that exists once, at its place, from the tile that has
\* it, and nothing else.
\* (A pixel at the right or bottom edge of which only a part was requested is left
\* out when a tile begins there: the code truncates before it rounds up.)
RedrawsEverything(w, h, requested, zoom) ==
    LET layerNr == LayerFor(zoom, LayerCount(w, h))
        layer   == Layer(w, h, layerNr)
        pixel   == PixelOf(layerNr)
        wanted  == Overlap(requested, RectScaled(LayerRect(layer), pixel))
        whole   == LeftOf(Above(wanted, pixel * Truncated(End(requested.v), pixel)),
                          pixel * Truncated(End(requested.h), pixel))
        drawn   == {d \in Redraw(w, h, requested, zoom) : ~RectEmpty(d.part)}
        Source(d) == RectMoved(d.part, Point(d.tile[1] * TileSize * pixel, d.tile[2] * TileSize * pixel))
    IN  /\ \A d \in drawn :
              /\ d.tile # OutOfBounds
              /\ Overlap(Source(d), wanted) = Source(d)
              /\ Source(d) = RectMoved(d.view, TopLeft(requested))
              /\ \A e \in drawn \ {d} : ~RectIntersects(Source(d), Source(e))
        /\ \A x \in Points(whole.h), y \in Points(whole.v) :
              \E d \in drawn : RectContains(Source(d), Point(x, y))

\* The averages are taken over exactly the pixels that the area touches, each
\* counted once, whichever tiles they are in.  (An area without width inside a
\* pixel is rounded out to that pixel.)
AveragesOverArea(w, h, area) ==
    LET value  == [count |-> [x \in 0..w - 1 |-> [y \in 0..h - 1 |-> 1]],
                   x     |-> [x \in 0..w - 1 |-> [y \in 0..h - 1 |-> 2 ^ x]],
                   y     |-> [x \in 0..w - 1 |-> [y \in 0..h - 1 |-> 2 ^ y]]]
        touched == {p \in (0..w - 1) \X (0..h - 1) :
                       RectIntersects(Rectangle(Segment(p[1] * Unit, Unit), Segment(p[2] * Unit, Unit)), area)}
    IN  ~RectEmpty(area) => GetPixelAverages(w, h, area, value) =
            IF touched = {} THEN <<>>
            ELSE [c \in {"count", "x", "y"} |->
                     [sum |-> FoldSet(LAMBDA p, s : s + value[c][p[1]][p[2]], 0, touched),
                      of  |-> Cardinality(touched)]]
=============================================================================
