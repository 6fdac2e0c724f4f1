------------------------------ MODULE Formats ------------------------------
(***************************************************************************)
(* From a file to the layers of a presentation: what the tiff plugin makes *)
(* of the tags of a file, how its rows are cut into tiles, which layer     *)
(* operations LayerSpecForBitmap() chooses, which colours they draw with   *)
(* and which colour maps the user can choose instead.                      *)
(*                                                                         *)
(* libtiff is taken for what the plugin asks of it: the values of tags,    *)
(* some of which a file may lack, and rows of bytes.                       *)
(***************************************************************************)
EXTENDS Pixels

CONSTANT Missing   \* the value of a tag that the file does not have

Photometrics == {"MINISBLACK", "MINISWHITE", "PALETTE", "RGB", "SEPARATED", "OTHER"}

ASSUME MissingAssumption == Missing \notin Nat \cup Photometrics

Nothing == [type |-> "none"]   \* what open() returns when it fails

-----------------------------------------------------------------------------
(* Colour maps.  A colour is the four channels of Color, in units of which *)
(* Full make 1.0.                                                          *)
Colour(r, g, b, alpha) == [red |-> r, green |-> g, blue |-> b, alpha |-> alpha]
Channels == {"red", "green", "blue", "alpha"}
Gray(v, full)  == Colour(v, v, v, full)
\* mix(a, b, part/whole), in units that are whole times as small.
Mix(a, b, part, whole) == [ch \in Channels |-> a[ch] * part + b[ch] * (whole - part)]
\* setAlpha() multiplies all channels.
WithAlpha(c, alpha) == [ch \in Channels |-> c[ch] * alpha]

\* Colormap::createDefault() and createDefaultInverted(): n - 1 units make 1.0.
DefaultMap(n, inverted) ==
    [i \in 0..n - 1 |-> Gray(IF inverted THEN n - 1 - i ELSE i, n - 1)]

\* MonochromeColormapHelper: both ends of its map, whether the paper is
\* transparent; and the map it generates from them.
Monochrome(n, inverted) ==
    [n |-> n, inverted |-> inverted, blackish |-> Gray(IF inverted THEN 1 ELSE 0, 1),
     whitish |-> Gray(IF inverted THEN 0 ELSE 1, 1), transparent |-> FALSE]
\* A mutation: the ink of an inverted map is set as if it were not inverted.
WrongSetMonochromeColor(m, c) == [m EXCEPT !.blackish = c]
SetMonochromeColor(m, c) == IF m.inverted THEN [m EXCEPT !.whitish = c] ELSE [m EXCEPT !.blackish = c]
GetMonochromeColor(m)    == IF m.inverted THEN m.whitish ELSE m.blackish
SetTransparent(m, on)    == [m EXCEPT !.transparent = on]
Regenerated(m) ==
    LET w == IF m.transparent /\ ~m.inverted THEN WithAlpha(m.whitish, 0) ELSE m.whitish
        b == IF m.transparent /\ m.inverted THEN WithAlpha(m.blackish, 0) ELSE m.blackish
    IN  [i \in 0..m.n - 1 |-> Mix(w, b, i, m.n - 1)]

\* A ColormapHelper or a MonochromeColormapHelper, by its number of colours.
NoHelper          == [kind |-> "none", colors |-> 0]
MonoHelper(n)     == [kind |-> "monochrome", colors |-> n]
MapHelper(n)      == [kind |-> "colormap", colors |-> n]

\* Colormaps::load(): a palette file that says how many colours it has, and has
\* some entries.  A file that cannot be parsed gives no colour map.
Loads(file) == file.header /\ file.count > 0 /\ file.entries >= file.count
\* ColormapProvider: the maps it offers for a presentation.  The size of each.
Offered(helper, files) ==
    {helper.colors} \cup {f.count : f \in {g \in files : Loads(g) /\ g.count >= helper.colors}}

-----------------------------------------------------------------------------
(* Scroom::Tiff::open() *)

Or(value, default) == IF value = Missing THEN default ELSE value

\* The colour map that the file itself has, if any, is only for palettes.
ColormapHelperFor(tags, bps) ==
    CASE tags.photometric \in {"MINISBLACK", "MINISWHITE"} -> MonoHelper(IF bps \in {2, 4} THEN 2 ^ bps ELSE 2)
      [] tags.photometric = "PALETTE" -> MapHelper(2 ^ bps)
      [] OTHER -> NoHelper

OpenTiff(tags) ==
    LET spp == Or(tags.spp, 1)
        bps == Or(tags.bps, IF spp = 1 THEN 1 ELSE 8)
    IN  IF \/ ~tags.readable
           \/ tags.width = Missing \/ tags.height = Missing \/ tags.photometric \in {Missing, "OTHER"}
           \/ bps \notin {1, 2, 4, 8}
           \/ spp \notin {1, 3, 4}
           \/ spp = 3 /\ bps # 8
        THEN Nothing
        ELSE [type |-> CASE spp = 4 -> "CMYK" [] spp = 3 -> "RGB"
                         [] spp = 1 -> IF tags.photometric = "PALETTE" THEN "Colormapped" ELSE "Greyscale",
              spp |-> spp, bps |-> bps, width |-> tags.width, height |-> tags.height,
              helper |-> ColormapHelperFor(tags, bps)]

\* approx(), and reset() when the file has been closed since: it is opened again,
\* and only used when it is still like the one that the layers are for.
SameKind(bmd, other) ==
    /\ \A f \in {"type", "bps", "spp", "width", "height"} : bmd[f] = other[f]
    /\ (bmd.helper.kind = "none") = (other.helper.kind = "none")
Reset(preOpened, tags, bmd) ==
    IF preOpened THEN bmd
    ELSE IF OpenTiff(tags) # Nothing /\ SameKind(OpenTiff(tags), bmd) THEN OpenTiff(tags) ELSE Nothing

\* fillTiles(): the bytes of a row, with the samples of each pixel together, and which
\* of them are copied to each tile.
ScanlineSize(bmd)     == (bmd.width * bmd.spp * bmd.bps + 7) \div 8
TileStride(tile, bmd) == (tile * bmd.spp * bmd.bps) \div 8
CopiedBytes(tile, bmd, tileCount, n) ==
    LET first == n * TileStride(tile, bmd)
        size  == IF n < tileCount - 1 THEN TileStride(tile, bmd) ELSE ScanlineSize(bmd) - first
    IN  first..first + size - 1

-----------------------------------------------------------------------------
(* LayerSpecForBitmap(): the four functions, of which the last that has an *)
(* answer decides.  "Broken" is a require() that fails.                    *)

NoSpec     == [ls |-> <<>>, helper |-> NoHelper]
LayerSpec(ls, helper) == [ls |-> ls, helper |-> helper]
Broken     == LayerSpec(<<Op("broken", 0)>>, NoHelper)

RGBBitmap(bmd) ==
    IF bmd.type # "RGB" THEN NoSpec
    ELSE IF bmd.spp # 3 \/ bmd.helper # NoHelper THEN Broken
    ELSE IF bmd.bps # 8 THEN NoSpec
    ELSE LayerSpec(<<Op("24bpp", 8)>>, NoHelper)

CMYKBitmap(bmd) ==
    IF bmd.type # "CMYK" THEN NoSpec
    ELSE IF bmd.spp # 4 \/ bmd.helper # NoHelper THEN Broken
    ELSE CASE bmd.bps = 8 -> LayerSpec(<<Op("cmyk", 8)>>, NoHelper)
           [] bmd.bps \in {1, 2, 4} -> LayerSpec(<<Op("cmyk", bmd.bps), Op("cmyk", 8)>>, NoHelper)
           [] OTHER -> NoSpec

GreyscaleBitmap(bmd) ==
    LET helper == IF bmd.helper = NoHelper THEN MonoHelper(2) ELSE bmd.helper IN
    IF bmd.type # "Greyscale" THEN NoSpec
    ELSE IF bmd.spp # 1 THEN Broken
    ELSE CASE bmd.bps \in {2, 4} -> LayerSpec(<<Op("indexed", bmd.bps), Op("colormapped", bmd.bps)>>, helper)
           [] bmd.bps = 1 -> LayerSpec(<<Op("1bpp", 1), Op("8bpp", 8)>>, helper)
           [] bmd.bps = 8 -> LayerSpec(<<Op("8bpp", 8)>>, helper)
           [] OTHER -> NoSpec

ColormappedBitmap(bmd) ==
    IF bmd.type # "Colormapped" THEN NoSpec
    ELSE IF bmd.spp # 1 \/ bmd.helper = NoHelper THEN Broken
    ELSE IF bmd.bps \notin {1, 2, 4, 8} THEN NoSpec
    ELSE LayerSpec(<<Op("indexed", bmd.bps), Op("colormapped", bmd.bps)>>, bmd.helper)

LayerSpecForBitmap(bmd) ==
    LET answers == <<ColormappedBitmap(bmd), GreyscaleBitmap(bmd), CMYKBitmap(bmd), RGBBitmap(bmd)>>
        given   == {n \in DOMAIN answers : answers[n] # NoSpec}
    IN  IF given = {} THEN NoSpec ELSE answers[Min(given)]

LayerOp(ls, n) == ls[IF n + 1 <= Len(ls) THEN n + 1 ELSE Len(ls)]

\* OpenTiledBitmapAsPresentation::open().
Presentation(tags) ==
    LET bmd  == OpenTiff(tags)
        spec == LayerSpecForBitmap(bmd)
    IN  IF bmd = Nothing \/ spec = NoSpec THEN Nothing
        ELSE [type |-> bmd.type, bmd |-> bmd, spec |-> spec, bottomBpp |-> bmd.spp * bmd.bps,
              pipette |-> spec.ls[1].name \in {"24bpp", "cmyk"}]

-----------------------------------------------------------------------------
(* What is right about it *)

\* The tags of a file say the same thing about the number of channels.
Consistent(tags) ==
    CASE tags.photometric = "RGB" -> Or(tags.spp, 1) = 3
      [] tags.photometric = "SEPARATED" -> Or(tags.spp, 1) = 4
      [] OTHER -> Or(tags.spp, 1) = 1

\* Every supported file gets layers that fit together: each layer's operations
\* work on what the ones below reduce into, the bottom layer's on what is read
\* from the file, and there are as many colours as the values in the tiles ask
\* for, whichever of the colour maps on offer the user selects.
LayersMatchFormat(tags, files) ==
    LET p         == Presentation(tags)
        ls        == IF p = Nothing THEN <<>> ELSE p.spec.ls
        supported == /\ tags.readable /\ Missing \notin {tags.width, tags.height, tags.photometric}
                     /\ tags.photometric # "OTHER"
                     /\ Or(tags.bps, IF ls = <<>> THEN 0 ELSE p.bmd.bps) \in (IF tags.spp = 3 THEN {8} ELSE {1, 2, 4, 8})
        Sizes     == IF p.spec.helper.kind = "colormap" THEN Offered(p.spec.helper, files) ELSE {p.spec.helper.colors}
    IN  Consistent(tags) =>
          /\ supported = (p # Nothing)
          /\ p # Nothing =>
               /\ p.spec # Broken
               /\ p.bottomBpp = GetBpp(ls[1])
               /\ p.pipette <=> p.bmd.spp > 1
               /\ \A n \in 0..3 :
                     LET op == LayerOp(ls, n) IN
                     /\ TargetBpp(op) = GetBpp(LayerOp(ls, n + 1))
                     /\ OperationsAbove(op) = LayerOp(ls, n + 1)
                     /\ \A size \in Sizes : /\ Indexed(op) => size >= 2 ^ op.bps
                                            /\ op.name \in {"1bpp", "8bpp"} => size >= 2

\* Each byte of a row goes to one tile, in its place, and no tile gets more than
\* it has room for; also after the file was opened for the second time.
RowsFitTiles(tags, again, tile) ==
    LET bmd    == OpenTiff(tags)
        now    == Reset(FALSE, again, bmd)
        tiles  == (bmd.width + tile - 1) \div tile
    IN  bmd # Nothing /\ now # Nothing =>
          /\ UNION {CopiedBytes(tile, now, tiles, n) : n \in 0..tiles - 1} = 0..ScanlineSize(now) - 1
          /\ \A n \in 0..tiles - 1 :
                CopiedBytes(tile, now, tiles, n) \subseteq
                    n * TileStride(tile, bmd) .. (n + 1) * TileStride(tile, bmd) - 1

\* What is printed in the monochrome colour stays so whatever is set, black or
\* white; only the paper becomes transparent; and setting what was there already
\* gives the map the presentation began with.
InkAndPaper(n, inverted, c, transparent) ==
    LET m     == SetTransparent(SetMonochromeColor(Monochrome(n, inverted), c), transparent)
        ink   == IF inverted THEN n - 1 ELSE 0
        paper == n - 1 - ink
    IN  /\ Regenerated(Monochrome(n, inverted)) = DefaultMap(n, inverted)
        /\ Regenerated(m)[ink] = WithAlpha(GetMonochromeColor(m), n - 1)
        /\ Regenerated(m)[paper] = WithAlpha(Gray(1, 1), IF transparent THEN 0 ELSE n - 1)
        /\ GetMonochromeColor(m) = c
=============================================================================
