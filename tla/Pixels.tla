------------------------------- MODULE Pixels -------------------------------
(***************************************************************************)
(* libs/tiled-bitmap and libs/scroom: the samples of a tile in memory      *)
(* (SampleIterator), and what the layer operations do with them: which     *)
(* pixels reduce() reads and writes, which value it computes, and which    *)
(* colour cache() shows for a value.                                       *)
(*                                                                         *)
(* Addresses are counted as the code counts them: in bytes, with integer   *)
(* division from left to right, and within bytes in samples.               *)
(***************************************************************************)
EXTENDS Geometry, Sequences, FiniteSetsExt, Functions

CONSTANT Side   \* width and height of a tile: TILESIZE

ASSUME SideAssumption == Side \in Nat \ {0} /\ Side % 64 = 0

-----------------------------------------------------------------------------
(* SampleIterator: a position in an array of words (the Base), each of     *)
(* which has room for some samples, the first in its most significant bits *)

SampleIterator(bits, bps, offset) ==
    LET n == bits \div bps IN
    [bps |-> bps, samplesPerBase |-> n, base |-> offset \div n, off |-> n - 1 - (offset % n)]

Mask(it)  == 2 ^ it.bps
Shift(it) == 2 ^ (it.off * it.bps)
Get(mem, it) == (mem[it.base] \div Shift(it)) % Mask(it)
\* set() does not mask the value it is given.
Set(mem, it, value) ==
    [mem EXCEPT ![it.base] = @ - Shift(it) * Get(mem, it) + Shift(it) * value]
Succ(it) ==
    IF it.off = 0 THEN [it EXCEPT !.off = it.samplesPerBase - 1, !.base = @ + 1]
    ELSE [it EXCEPT !.off = @ - 1]
Advance(it, x) ==
    LET offset == it.samplesPerBase - 1 - it.off + x IN
    [it EXCEPT !.base = @ + offset \div it.samplesPerBase,
               !.off = it.samplesPerBase - 1 - (offset % it.samplesPerBase)]

-----------------------------------------------------------------------------
(* The layer operations.  What reduce() of each of them uses: the bits per *)
(* pixel of its tiles and of the tiles they are reduced into, the strides, *)
(* what sourcePtr advances by for each pixel of the target, and where the  *)
(* place of the tile in its target begins; all of these in bytes.          *)

Op(name, bps) == [name |-> name, bps |-> bps]
LayerOperations ==
    {Op("1bpp", 1), Op("8bpp", 8), Op("24bpp", 8), Op("1bppClipped", 1)}
        \cup {Op("indexed", b) : b \in {1, 2, 4, 8}} \cup {Op("colormapped", b) : b \in {1, 2, 4, 8}}
        \cup {Op("cmyk", b) : b \in {1, 2, 4, 8}}

PixelsPerByte(bps) == 8 \div bps
Place == [x : 0..7, y : 0..7]

Reduce1bpp ==
    [bpp |-> 1, into |-> 8, stride |-> Side \div 8, step |-> 1, targetStride |-> Side,
     base |-> [at \in Place |-> (Side * at.y * Side) \div 8 + (Side * at.x) \div 8]]
Reduce8bpp ==
    [bpp |-> 8, into |-> 8, stride |-> Side, step |-> 8, targetStride |-> Side,
     base |-> [at \in Place |-> (Side * at.y * Side) \div 8 + (Side * at.x) \div 8]]
\* A mutation: the place in the target counts pixels, not bytes.
WrongReduce24bpp ==
    [bpp |-> 24, into |-> 24, stride |-> 3 * Side, step |-> 8 * 3, targetStride |-> 3 * Side,
     base |-> [at \in Place |-> (Side * at.y * 3 * Side) \div 8 + (Side * at.x) \div 8]]
Reduce24bpp ==
    [bpp |-> 24, into |-> 24, stride |-> 3 * Side, step |-> 8 * 3, targetStride |-> 3 * Side,
     base |-> [at \in Place |-> (Side * at.y * 3 * Side) \div 8 + (3 * Side * at.x) \div 8]]
ReduceIndexed(bps) ==
    LET ppb == PixelsPerByte(bps)
        targetStride == (2 * Side) \div ppb
    IN  [bpp |-> bps, into |-> 2 * bps, stride |-> Side \div ppb, step |-> 8 \div ppb, targetStride |-> targetStride,
         base |-> [at \in Place |-> (Side * targetStride * at.y) \div 8 + ((2 * Side * at.x) \div 8) \div ppb]]
ReduceColormapped(bps) ==
    LET ppb == PixelsPerByte(bps)
        stride == (2 * Side) \div ppb
    IN  [bpp |-> 2 * bps, into |-> 2 * bps, stride |-> stride, step |-> (8 * 2) \div ppb, targetStride |-> stride,
         base |-> [at \in Place |-> (Side * at.y * stride) \div 8 + ((2 * Side * at.x) \div 8) \div ppb]]
Reduce1bppClipped ==
    [bpp |-> 1, into |-> 1, stride |-> Side \div 8, step |-> 1, targetStride |-> Side \div 8,
     base |-> [at \in Place |-> (Side * at.y * (Side \div 8)) \div 8 + ((Side * at.x) \div 8) \div 8]]
\* All CMYK tiles are reduced into tiles of 32 bits per pixel.
PlaceInCMYK32 == [at \in Place |-> ((Side * at.y + at.x) * ((8 * Side) \div 2)) \div 8]
ReduceCMYK32 ==
    [bpp |-> 32, into |-> 32, stride |-> (8 * Side) \div 2, step |-> 8 * 4, targetStride |-> (8 * Side) \div 2, base |-> PlaceInCMYK32]
ReduceCMYK16 ==
    [bpp |-> 16, into |-> 32, stride |-> (4 * Side) \div 2, step |-> 4 * 4, targetStride |-> (8 * Side) \div 2, base |-> PlaceInCMYK32]
ReduceCMYK8 ==
    [bpp |-> 8, into |-> 32, stride |-> Side, step |-> 2 * 4, targetStride |-> (8 * Side) \div 2, base |-> PlaceInCMYK32]
ReduceCMYK4 ==
    [bpp |-> 4, into |-> 32, stride |-> Side \div 2, step |-> 4, targetStride |-> (8 * Side) \div 2, base |-> PlaceInCMYK32]

ReductionOf(op) ==
    CASE op.name = "1bpp" -> Reduce1bpp [] op.name = "8bpp" -> Reduce8bpp [] op.name = "24bpp" -> Reduce24bpp
      [] op.name = "indexed" -> ReduceIndexed(op.bps) [] op.name = "colormapped" -> ReduceColormapped(op.bps)
      [] op.name = "1bppClipped" -> Reduce1bppClipped
      [] op.name = "cmyk" -> CASE op.bps = 8 -> ReduceCMYK32 [] op.bps = 4 -> ReduceCMYK16
                               [] op.bps = 2 -> ReduceCMYK8 [] op.bps = 1 -> ReduceCMYK4
GetBpp(op)    == ReductionOf(op).bpp
TargetBpp(op) == ReductionOf(op).into

\* A pixel, given the address of a byte, the number of a pixel from there on and
\* the size of pixels.  The bits of a byte that is no pixel's first are nobody's.
PixelAt(address, n, bpp) ==
    LET index == (8 * address) \div bpp + n IN <<index % Side, index \div Side>>
OnPixel(address, bpp) == (8 * address) % bpp = 0

\* The pixels from which the target's pixel (i, j) of a tile is computed, and
\* which pixel of the target is set, when the tile's place there is (x, y).
SourcePixels(op, i, j) ==
    LET r == ReductionOf(op)
        base(k) == (8 * j + k) * r.stride + i * r.step
    IN  {PixelAt(base(k), l, r.bpp) : k \in 0..7, l \in 0..7}
TargetRow(op, x, y, j) == LET r == ReductionOf(op) IN r.base[[x |-> x, y |-> y]] + j * r.targetStride
TargetPixel(op, x, y, i, j) == PixelAt(TargetRow(op, x, y, j), i, TargetBpp(op))

-----------------------------------------------------------------------------
(* The values: a sample is an index into the colour map, a brightness or   *)
(* an amount of ink.  Lookup gives the number of times each value occurs   *)
(* among the 64 pixels (128 for two colours per pixel).                    *)

Levels(op) == 0..2 ^ op.bps - 1
Occurring(lookup) == {v \in DOMAIN lookup : lookup[v] > 0}
Sum(lookup) == FoldSet(LAMBDA v, sum : sum + v * lookup[v], 0, Occurring(lookup))

\* A mutation: a second colour is kept even when there is none.
WrongTopTwo(lookup) ==
    LET first == CHOOSE v \in DOMAIN lookup : \A w \in DOMAIN lookup : lookup[v] >= lookup[w]
        second == CHOOSE v \in DOMAIN lookup \ {first} : \A w \in DOMAIN lookup \ {first} : lookup[v] >= lookup[w]
    IN  <<first, second>>
\* The two most frequent values, as reduce() of Operations and of
\* OperationsColormapped finds them in one pass.  A value that does not occur
\* changes nothing and is passed over.
TopTwo(lookup) ==
    LET start == IF lookup[1] > lookup[0] THEN <<1, 0>> ELSE <<0, 1>>
        best[c \in Nat] ==
            IF c < 2 THEN start
            ELSE LET b == best[Max({0} \cup {v \in Occurring(lookup) : v < c})] IN
                 IF lookup[c] > lookup[b[1]] THEN <<c, b[1]>>
                 ELSE IF lookup[c] > lookup[b[2]] THEN <<b[1], c>> ELSE b
        found == best[Cardinality(DOMAIN lookup) - 1]
    IN  IF lookup[found[2]] = 0 THEN <<found[1], found[1]>> ELSE found

Mean1bpp(sum)    == (sum * 255) \div 64
Mean8bpp(sum)    == sum \div 64
Mean24bpp(sum)   == sum \div 64
Clipped(sum)     == IF sum > 0 THEN 1 ELSE 0
MeanCMYK32(sum)  == sum \div 64
MeanCMYK16(sum)  == (sum * 255) \div (15 * 64)
MeanCMYK8(sum)   == (sum * 255) \div 192
MeanCMYK4(sum)   == (sum * 255) \div 64
Mean(op, sum) ==
    CASE op.name = "1bpp" -> Mean1bpp(sum) [] op.name = "8bpp" -> Mean8bpp(sum) [] op.name = "24bpp" -> Mean24bpp(sum)
      [] op.name = "1bppClipped" -> Clipped(sum)
      [] op.name = "cmyk" -> CASE op.bps = 8 -> MeanCMYK32(sum) [] op.bps = 4 -> MeanCMYK16(sum)
                               [] op.bps = 2 -> MeanCMYK8(sum) [] op.bps = 1 -> MeanCMYK4(sum)

Indexed(op) == op.name \in {"indexed", "colormapped"}
Reduced(op, lookup) == IF Indexed(op) THEN TopTwo(lookup) ELSE Mean(op, Sum(lookup))

\* The operations that the reduced tile is drawn with.
OperationsAbove(op) ==
    CASE op.name = "1bpp" -> Op("8bpp", 8)
      [] op.name = "indexed" -> Op("colormapped", op.bps)
      [] op.name = "cmyk" -> Op("cmyk", 8)
      [] OTHER -> op

\* cache(): the address of row j, and the colour that is shown for the value of a
\* pixel: how much of each colour of the colour map (in parts of 510), or how much
\* light one ink lets through.
Parts(weights) == [c \in 0..255 |-> IF c \in DOMAIN weights THEN weights[c] ELSE 0]
Cached(row, shown) == [row |-> row, shown |-> shown]
Cache1bpp(j, v)    == Cached((j * Side) \div 8, Parts([c \in {v} |-> 510]))
Cache8bpp(j, v)    == Cached(j * Side, Parts([c \in {0, 1} |-> 2 * (IF c = 1 THEN v ELSE 255 - v)]))
Cache24bpp(j, v)   == Cached(3 * j * Side, v)
CacheIndexed(bps, j, v) == Cached((j * Side) \div PixelsPerByte(bps), Parts([c \in {v} |-> 510]))
CacheColormapped(bps, j, v) ==
    Cached((2 * j * Side) \div PixelsPerByte(bps), Parts([c \in {v[1], v[2]} |-> IF v[1] = v[2] THEN 510 ELSE 255]))
CacheCMYK32(j, v)  == Cached(4 * Side * j, 255 - v)
CacheCMYK16(j, v)  == Cached(2 * Side * j, 255 - v * 17)
CacheCMYK8(j, v)   == Cached(Side * j, 255 - v * 85)
CacheCMYK4(j, v)   == Cached((Side * j) \div 2, (v - 1) % 256)
CacheOf(op, j, v) ==
    CASE op.name \in {"1bpp", "1bppClipped"} -> Cache1bpp(j, v)
      [] op.name = "8bpp" -> Cache8bpp(j, v) [] op.name = "24bpp" -> Cache24bpp(j, v)
      [] op.name = "indexed" -> CacheIndexed(op.bps, j, v)
      [] op.name = "colormapped" -> CacheColormapped(op.bps, j, v)
      [] op.name = "cmyk" -> CASE op.bps = 8 -> CacheCMYK32(j, v) [] op.bps = 4 -> CacheCMYK16(j, v)
                               [] op.bps = 2 -> CacheCMYK8(j, v) [] op.bps = 1 -> CacheCMYK4(j, v)
Shown(op, v) == CacheOf(op, 0, v).shown
CachedPixel(op, i, j) ==
    PixelAt(CacheOf(op, j, IF op.name = "colormapped" THEN <<0, 0>> ELSE 0).row, i, GetBpp(op))

-----------------------------------------------------------------------------
(* Operations1bppClipped::cacheZoom(): the bits it looks at for a pixel of *)
(* size pixelSize; and the samples that sumPixelValues() adds up, of tiles *)
(* with some channels.                                                     *)
ZoomedBits(pixelSize, i, j) ==
    LET row(y) == ((j * pixelSize + y) * Side) \div 8 + ((pixelSize * i) \div 8)
        it(x)  == Advance(SampleIterator(8, 1, (pixelSize * i) % 8), x)
    IN  {8 * (row(y) + it(x).base) + 7 - it(x).off : x \in 0..pixelSize - 1, y \in 0..pixelSize - 1}

SummedSamples(channels, bps, left, top, width, height) ==
    LET offset == channels * (top * Side + left)
        stride == channels * (Side - width)
        start[y \in Nat] ==
            IF y = 0 THEN Advance(SampleIterator(8, bps, 0), offset)
            ELSE Advance(start[y - 1], channels * width + stride)
        index(it) == it.base * it.samplesPerBase + it.samplesPerBase - 1 - it.off
    IN  {index(Advance(start[y], n)) : y \in 0..height - 1, n \in 0..channels * width - 1}

-----------------------------------------------------------------------------
(* Drawing.  Coordinates in a tile are in units of 1/Fine pixel, those in  *)
(* the view in units of 1/(Grain * Fine), so fine that a division by the   *)
(* size of a pixel leaves nothing out.                                     *)
Grain(zoom) == IF zoom < -2 THEN 2 ^ (-zoom) ELSE 4

\* CommonOperations::draw(): where pixel p of the tile is painted, when the part
\* of the tile that begins at "part" goes to "view".  For a zoom below 0 the
\* surface was made smaller by cacheZoom().
Painted(zoom, part, view, p, fine) ==
    LET g == Grain(zoom) IN
    IF zoom > 0
    THEN LET m == 2 ^ zoom
             origin == [c \in {"x", "y"} |-> view[c] \div m - g * part[c]]   \* cairo_scale(m)
         IN  [c \in {"x", "y"} |-> m * (origin[c] + g * fine * p[c])]
    ELSE LET d == 2 ^ (-zoom)
             origin == [c \in {"x", "y"} |-> view[c] - (g * part[c]) \div d]
         IN  [c \in {"x", "y"} |-> origin[c] + (g * fine * p[c]) \div d]

\* The values that are printed at zoom 5: which pixel the one in column x and row
\* y is of, and where its square begins, in whole pixels of the view.
Printed(op, part, view, x, y, fine) ==
    LET m == 2 ^ 5
        first == [c \in {"x", "y"} |-> part[c] \div fine]
        at == [c \in {"x", "y"} |-> view[c] + (first[c] * fine - part[c]) * 4 * m]
    IN  [pixel |-> PixelAt((first.y + y) * ReductionOf(op).stride, first.x + x, GetBpp(op)),
         x |-> Truncated(at.x + m * x * 4 * fine, 4 * fine),
         y |-> Truncated(at.y + m * y * 4 * fine, 4 * fine)]

-----------------------------------------------------------------------------
(* What is right about it *)

\* A SampleIterator finds the samples that were put in, in their order, and
\* setting one leaves the others alone.
SamplesStayApart(bits, bps, n, value) ==
    LET it      == SampleIterator(bits, bps, n)
        words   == 0..2
        mem     == [w \in words |-> 2 ^ bits - 1]
        written == Set(mem, it, value)
        step[m \in Nat] == IF m = 0 THEN SampleIterator(bits, bps, 0) ELSE Succ(step[m - 1])
    IN  /\ step[n] = it
        /\ Advance(SampleIterator(bits, bps, 0), n) = it
        /\ \A m \in 0..n : Advance(step[m], n - m) = it
        /\ Get(written, it) = value
        /\ \A m \in 0..2 * (bits \div bps) :
               m # n => Get(written, SampleIterator(bits, bps, m)) = Get(mem, SampleIterator(bits, bps, m))

\* reduce() of a tile reads the 8*8 pixels that a pixel of the target stands for,
\* and writes that pixel: those of one source never touch the place of another.
ReducesInPlace(op, x, y, i, j) ==
    /\ SourcePixels(op, i, j) = {<<8 * i + l, 8 * j + k>> : k \in 0..7, l \in 0..7}
    /\ TargetPixel(op, x, y, i, j) = <<x * (Side \div 8) + i, y * (Side \div 8) + j>>
    /\ OnPixel(TargetRow(op, x, y, j), TargetBpp(op))
    /\ Indexed(op) => TargetRow(op, x, y, j) % 2 = 0

\* The zoomed cache and the averages of the pipette look at exactly the samples
\* of the pixels they are about.
SamplesOfArea(pixelSize, i, j, channels, bps) ==
    /\ ZoomedBits(pixelSize, i, j) =
           {(j * pixelSize + y) * Side + i * pixelSize + x : x \in 0..pixelSize - 1, y \in 0..pixelSize - 1}
    /\ SummedSamples(channels, bps, i, j, pixelSize, pixelSize + 1) =
           {channels * ((j + y) * Side + i + x) + c :
               c \in 0..channels - 1, x \in 0..pixelSize - 1, y \in 0..pixelSize}

\* How many units of a view one unit of a tile is.
Scale(zoom) == IF zoom < -2 THEN 1 ELSE 2 ^ (zoom + 2)

\* A pixel is painted where the part of the tile that it is in was asked for, at
\* every zoom; and the value printed in a square is that of the pixel painted there.
DrawsInPlace(op, zoom, part, view, p, fine) ==
    LET painted == Painted(zoom, part, view, p, fine)
        n == [c \in {"x", "y"} |-> p[c] - part[c] \div fine]
        printed == Printed(op, part, view, n.x, n.y, fine)
    IN  /\ CachedPixel(op, p.x, p.y) = <<p.x, p.y>>
        /\ painted = [c \in {"x", "y"} |-> view[c] + Scale(zoom) * (fine * p[c] - part[c])]
        /\ zoom = 5 /\ op.name \in {"1bpp", "8bpp", "indexed"} =>
               /\ printed.pixel = <<p.x, p.y>>
               /\ \A c \in {"x", "y"} : painted[c] - printed[c] * 4 * fine \in 1 - 4 * fine..4 * fine - 1

\* What is seen of an area does not change when it is reduced: pixels of one
\* colour keep that colour; a mean lies between its smallest and its largest value
\* (up to rounding); and of more than one indexed colour the two that occur most
\* often remain.
ReductionKeepsColours(op, lookup) ==
    LET values == Occurring(lookup)
        reduced == Reduced(op, lookup)
        counts(v) == \A w \in DOMAIN lookup \ {reduced[1], reduced[2]} : lookup[w] <= lookup[v]
    IN  /\ \A v \in values :
              values = {v} => Shown(OperationsAbove(op), reduced) =
                  Shown(op, IF op.name = "colormapped" THEN <<v, v>> ELSE v)
        /\ op.name \in {"8bpp", "24bpp"} =>
              \E v, w \in values : v <= reduced /\ reduced <= w
        /\ op.name = "cmyk" => \E v, w \in values :
              Shown(op, v) >= Shown(OperationsAbove(op), reduced) /\ Shown(OperationsAbove(op), reduced) >= Shown(op, w)
        /\ Indexed(op) =>
              /\ {reduced[1], reduced[2]} \subseteq values
              /\ lookup[reduced[1]] >= lookup[reduced[2]] /\ counts(reduced[2])
              /\ reduced[1] = reduced[2] => values = {reduced[1]}
=============================================================================
