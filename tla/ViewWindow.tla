------------------------------ MODULE ViewWindow ------------------------------
(***************************************************************************)
(* The position of a view (gui/src/view.cc): the drawing area, the scroll  *)
(* bars, the text boxes, the zoom box and the rulers of one window, which  *)
(* tell each other of every change by means of signals.                    *)
(*                                                                         *)
(* GTK calls a handler before the call that caused it returns, so a user's *)
(* event is one action, and the handlers are operators that call each      *)
(* other, from a window to what becomes of it.  Coordinates in the         *)
(* presentation are in 64ths of a pixel: with MaxZoom 5 all the divisions  *)
(* of the code are exact.                                                  *)
(***************************************************************************)
EXTENDS Geometry

CONSTANTS
    ViewPresentations, \* what may be shown: [rect, aspect], rect in pixels
    NoPresentation,    \* nullptr
    WindowSizes,       \* sizes of the drawing area
    MousePoints,       \* points of the drawing area
    Typed,             \* numbers a user may enter
    Junk,              \* something that is not a number
    ChosenZooms,       \* levels a user may choose from those in the zoom box
    ScrolledTo,        \* where a user may drag a scroll bar to, besides its ends
    MaxEvents          \* bound on the number of events

Coordinates == [x : Int, y : Int]
AspectRatios == [x : Nat \ {0}, y : Nat \ {0}]
MaxInt == 2147483647
Sides == [start : Int, size : 0..MaxInt]

ASSUME PresentationsAssumption ==
    /\ NoPresentation \notin ViewPresentations
    /\ \A p \in ViewPresentations :
        /\ p.aspect \in AspectRatios
        /\ p.rect.h \in Sides /\ p.rect.v \in Sides
ASSUME MouseAssumption == WindowSizes \subseteq [x : Nat, y : Nat] /\ MousePoints \subseteq Coordinates
ASSUME TypedAssumption == Typed \subseteq Int /\ Junk \notin Int
ASSUME MaxEventsAssumption == MaxEvents \in Nat

VARIABLES
    window,  \* the View
    event,   \* the last event: what it was, with the place of the mouse
    events   \* the number of events

viewVars == <<window, event, events>>

MaxZoom == 5
Factors == 36
Fine == 64

\* 1 / pixelSizeFromZoom(), in 64ths.
PerPixel(zoom) == IF zoom <= 6 THEN 2^(6 - zoom) ELSE 0

Axes == {"x", "y"}
Twice(n) == Point(n, n)
Scale(p, n) == Times(p, Twice(n))
HalfOf(p) == Point(p.x \div 2, p.y \div 2)

\* The size of what is visible.
Extent(v) == Scale(v.size, PerPixel(v.zoom))

HasPresentation(v) == v.shown # NoPresentation

Zooms == MaxZoom + 1 - Factors .. MaxZoom
Adjustments == [value : Int, lower : Int, last : Int, page : Int]
Selections == [start : Coordinates, end : Coordinates]
Windows ==
    [shown : ViewPresentations \cup {NoPresentation},
     rect : [x : Sides, y : Sides], aspect : AspectRatios,
     zoom : Zooms, zooms : SUBSET Zooms, size : [x : Nat, y : Nat],
     position : Coordinates, frozen : Int,
     bar : [Axes -> Adjustments], text : [Axes -> Int \cup {Junk}],
     ruler : [Axes -> [from : Int, to : Int, by : Nat \ {0}]],
     dragged : BOOLEAN, cached : Coordinates,
     selecting : BOOLEAN, selection : Selections, pixels : Selections, grid : Selections]

\* What a signal asks for: a position, from one of the sources of a change.
Calls == [window : Windows, position : Coordinates, source : {"SCROLLBAR", "TEXTBOX", "OTHER"}]

-----------------------------------------------------------------------------
(* The tweakers.                                                           *)

tweakedPosition(v) == RoundedTo(v.position, Scale(v.aspect, PerPixel(v.zoom)))

\* In 64ths of a pixel times the aspect ratio.
tweakRulers(v) ==
    [a \in Axes |-> [from |-> tweakedPosition(v)[a], to |-> tweakedPosition(v)[a] + Extent(v)[a],
                     by |-> v.aspect[a]]]

\* "{:.0f}" rounds halves to even.
HalfEven(n, d) ==
    LET q == n \div d
        r == n % d
    IN IF 2 * r < d \/ (2 * r = d /\ q % 2 = 0) THEN q ELSE q + 1

Display(v) ==
    LET centre == Plus(v.position, HalfOf(Extent(v)))
    IN [a \in Axes |-> HalfEven(centre[a], Fine * v.aspect[a])]

Parse(v) ==
    Minus(Scale(Times(Point(v.text["x"], v.text["y"]), v.aspect), Fine), HalfOf(Extent(v)))

\* TweakSelection, with what is to be made of the selection: the corner where the selection started stays the start.
Tweaked(selection, r) ==
    LET original == Corners(selection.start, selection.end)
        atStart(seg, p) == ~(2 * seg.start + seg.size < 2 * p)   \* the closest end
        ends(seg, p, s) == IF atStart(seg, p) THEN <<s.start, End(s)>> ELSE <<End(s), s.start>>
        h == ends(original.h, selection.start.x, r.h)
        w == ends(original.v, selection.start.y, r.v)
    IN [start |-> Point(h[1], w[1]), end |-> Point(h[2], w[2])]

TweakGridSelection(v, s) ==
    Tweaked(s, roundCorners(Corners(s.start, s.end), Scale(v.aspect, Fine)))

TweakPixelSelection(v, s) ==
    LET r == Corners(s.start, s.end)
    IN Tweaked(s, Rectangle(RoundedOut(r.h, Fine * v.aspect.x), RoundedOut(r.v, Fine * v.aspect.y)))

-----------------------------------------------------------------------------
(* Freezable: an assignment to a frozen position is ignored.               *)
Moves(v, p)  == IF v.frozen > 0 THEN v ELSE [v EXCEPT !.position = p]
Frozen(v)    == [v EXCEPT !.frozen = @ + 1]
Unfrozen(v)  == [v EXCEPT !.frozen = @ - 1]

-----------------------------------------------------------------------------
(* The handlers.                                                           *)

\* updateXY() and what it calls have this parameter: what becomes of a window when a
\* signal asks for a position while its handlers run.

\* updateScrollbar(): gtk_adjustment_configure() clamps the value, and tells of
\* a value that is another one.
Adjustment(v, a) ==
    LET half  == Extent(v)[a] \div 2
        lower == Fine * v.rect[a].start - half
        last  == Fine * End(v.rect[a]) - half       \* upper - page_size
    IN [value |-> Largest(Smallest(v.position[a], last), lower), lower |-> lower, last |-> last,
        page |-> Extent(v)[a]]

Call(v, p, source) == [window |-> v, position |-> p, source |-> source]

OnScrollbarValueChanged(signal, v, a) ==
    signal[Call(v, [v.position EXCEPT ![a] = v.bar[a].value], "SCROLLBAR")]

UpdateScrollbar(signal, v, a) ==
    LET w == [v EXCEPT !.bar[a] = Adjustment(v, a)]
    IN IF w.bar[a].value = v.bar[a].value THEN w ELSE OnScrollbarValueChanged(signal, w, a)

UpdateRulers(v) == [v EXCEPT !.ruler = tweakRulers(v)]

UpdateScrollbars(signal, v) ==
    IF HasPresentation(v)
    THEN UpdateRulers(UpdateScrollbar(signal, UpdateScrollbar(signal, v, "x"), "y"))
    ELSE v

\* Text that is not a number is ignored.
OnTextboxValueChanged(signal, v) ==
    IF Junk \in {v.text[a] : a \in Axes} THEN v ELSE signal[Call(v, Parse(v), "TEXTBOX")]

SetText(signal, v, a, text) ==
    IF v.text[a] = text THEN v ELSE OnTextboxValueChanged(signal, [v EXCEPT !.text[a] = text])

UpdateTextbox(signal, v) ==
    LET text == Display(v)
    IN IF HasPresentation(v)
       THEN SetText(signal, SetText(signal, v, "x", text["x"]), "y", text["y"])
       ELSE v

WrongUpdateXY(signal, v, p, source) ==  \* the position is not protected
    LET moved == Moves(v, p)
        bars  == IF source # "SCROLLBAR" THEN UpdateScrollbars(signal, moved) ELSE UpdateRulers(moved)
        texts == IF source # "TEXTBOX" THEN UpdateTextbox(signal, bars) ELSE bars
    IN IF v.position = p THEN v ELSE texts

UpdateXY(signal, v, p, source) ==
    LET moved == Frozen(Moves(v, p))
        bars  == IF source # "SCROLLBAR" THEN UpdateScrollbars(signal, moved) ELSE UpdateRulers(moved)
        texts == IF source # "TEXTBOX" THEN UpdateTextbox(signal, bars) ELSE bars
    IN IF v.position = p THEN v ELSE Unfrozen(texts)

\* A handler runs within another one only for a scroll bar or a text that has just
\* become right, so that at most four are within the first: deeper than that the
\* model leaves a window that is wrong.
TooDeep == [c \in Calls |-> [c.window EXCEPT !.frozen = -1]]
Within(signal) == [c \in Calls |-> UpdateXY(signal, c.window, c.position, c.source)]
Signals == Within(Within(Within(Within(Within(TooDeep)))))

\* The number of times the presentation has to be halved to fit in half a window.
MinZoom(v) ==
    CHOOSE n \in 0..31 :
        /\ \A a \in Axes : v.rect[a].size \div 2^n <= v.size[a] \div 2
        /\ \A m \in 0..(n - 1) : \E a \in Axes : v.rect[a].size \div 2^m > v.size[a] \div 2

WrongUpdateZoom(v) ==  \* does not add the zoom level the view has
    [v EXCEPT !.zooms = IF HasPresentation(v)
                        THEN {MaxZoom - z : z \in 0..Smallest(MaxZoom + MinZoom(v), Factors) - 1}
                        ELSE {MaxZoom}]

\* updateZoom(): the levels of the zoom box.  That the box is cleared, and that the
\* current level is chosen again, changes nothing.
UpdateZoom(v) ==
    [v EXCEPT !.zooms =
        IF HasPresentation(v)
        THEN {MaxZoom - z : z \in 0..Smallest(Largest(MaxZoom + MinZoom(v), 1 + MaxZoom - v.zoom),
                                              Factors) - 1}
        ELSE {MaxZoom}]

\* on_zoombox_changed(): the point under the mouse stays there.
ZoomTo(v, zoom, mouse) ==
    LET from  == Moves(v, Plus(v.position, Scale(mouse, PerPixel(v.zoom))))
        moved == Moves(from, Minus(from.position, Scale(mouse, PerPixel(zoom))))
    IN IF zoom = v.zoom THEN v
       ELSE Unfrozen(UpdateTextbox(Signals, UpdateScrollbars(Signals, [Frozen(moved) EXCEPT !.zoom = zoom])))

\* In halves of a window pixel, since the centre may be between two.
ZoomAtCentre(v, zoom) ==
    LET shift == HalfOf(Minus(Extent(v), Extent([v EXCEPT !.zoom = zoom])))
    IN IF zoom = v.zoom THEN v
       ELSE Unfrozen(UpdateTextbox(Signals, UpdateScrollbars(Signals,
                [Frozen(Moves(v, Plus(v.position, shift))) EXCEPT !.zoom = zoom])))

-----------------------------------------------------------------------------
(* The events.                                                             *)

NoPoint == Point(0, 0)
NoBar == [value |-> 0, lower |-> 0, last |-> 0, page |-> 0]
NoSelection == [start |-> NoPoint, end |-> NoPoint]

ViewInit ==
    /\ window = [shown |-> NoPresentation, rect |-> Point(Segment(0, 0), Segment(0, 0)),
                 aspect |-> Twice(1), zoom |-> 0, zooms |-> {MaxZoom}, size |-> Twice(0),
                 position |-> NoPoint, frozen |-> 0, bar |-> [a \in Axes |-> NoBar],
                 text |-> [a \in Axes |-> Junk],
                 ruler |-> [a \in Axes |-> [from |-> 0, to |-> 0, by |-> 1]],
                 dragged |-> FALSE, cached |-> NoPoint,
                 selecting |-> FALSE, selection |-> NoSelection,
                 pixels |-> NoSelection, grid |-> NoSelection]
    /\ event = [kind |-> "none", at |-> NoPoint]
    /\ events = 0

Happens(kind, at, v) ==
    /\ events < MaxEvents
    /\ events' = events + 1
    /\ event' = [kind |-> kind, at |-> at]
    /\ window' = v

\* setPresentation(); position is not protected while everything is updated.
SetPresentation(p) ==
    LET opened == IF p = NoPresentation THEN [window EXCEPT !.shown = p]
                  ELSE [window EXCEPT !.shown = p, !.aspect = p.aspect,
                                      !.rect = Point(p.rect.h, p.rect.v)]
        zoomed == [opened EXCEPT !.zoom = 0]
        moved  == Moves(zoomed, Minus(NoPoint, HalfOf(Extent(zoomed))))
    IN Happens("open", NoPoint, UpdateTextbox(Signals, UpdateScrollbars(Signals, UpdateZoom(moved))))

\* on_configure(), on_window_size_changed().
Resize(size) ==
    LET moved == Moves(window, Plus(window.position,
                            HalfOf(Scale(Minus(window.size, size), PerPixel(window.zoom)))))
    IN /\ size # window.size
       /\ Happens("resize", size,
                  Unfrozen(UpdateScrollbars(Signals, UpdateZoom([Frozen(moved) EXCEPT !.size = size]))))

\* on_scrollwheel(); the choice in the zoom box then is what it already was.
ScrollWheel(mouse, up) ==
    LET zoom == Smallest(MaxZoom, IF up THEN window.zoom + 1 ELSE window.zoom - 1)
    IN /\ zoom \in window.zooms
       /\ Happens("wheel", mouse, ZoomAtCentre(ZoomTo(window, zoom, mouse), zoom))

ChooseZoom(zoom) ==
    /\ HasPresentation(window)
    /\ zoom \in window.zooms \ {window.zoom}
    /\ Happens("zoombox", NoPoint, ZoomAtCentre(window, zoom))

TypeText(a, text) ==
    /\ HasPresentation(window)
    /\ text # window.text[a]
    /\ Happens("type", NoPoint, OnTextboxValueChanged(Signals, [window EXCEPT !.text[a] = text]))

\* The user drags a scroll bar.
Scroll(a, value) ==
    /\ HasPresentation(window)
    /\ value \in window.bar[a].lower .. window.bar[a].last
    /\ value # window.bar[a].value
    /\ Happens("scroll", NoPoint, OnScrollbarValueChanged(Signals, [window EXCEPT !.bar[a].value = value], a))

WindowPoint(v, p) == Plus(tweakedPosition(v), Scale(p, PerPixel(v.zoom)))

\* Each listener is told of the pixels or of the grid between them.
Selects(v, s) ==
    [v EXCEPT !.selection = s, !.pixels = TweakPixelSelection(v, s), !.grid = TweakGridSelection(v, s)]

\* on_buttonPress(), button 1 and button 3.
StartDrag(mouse) ==
    /\ ~window.dragged
    /\ Happens("press", mouse, [window EXCEPT !.dragged = TRUE, !.cached = mouse])

StartSelection(mouse) ==
    LET p == WindowPoint(window, mouse)
    IN Happens("press", mouse, [Selects(window, [start |-> p, end |-> p]) EXCEPT !.selecting = TRUE])

\* on_motion_notify(), with button 1 or button 3 down.
Drag(mouse) ==
    LET p == Minus(window.position, Scale(Minus(mouse, window.cached), PerPixel(window.zoom)))
    IN /\ window.dragged
       /\ Happens("drag", mouse, UpdateXY(Signals, [window EXCEPT !.cached = mouse], p, "OTHER"))

Extended(mouse) == Selects(window, [window.selection EXCEPT !.end = WindowPoint(window, mouse)])

ExtendSelection(mouse) == window.selecting /\ Happens("select", mouse, Extended(mouse))

\* on_buttonRelease(), button 1 and button 3.
EndDrag ==
    /\ window.dragged
    /\ Happens("release", NoPoint, [window EXCEPT !.dragged = FALSE, !.cached = NoPoint])

EndSelection(mouse) ==
    /\ window.selecting
    /\ Happens("release", mouse, [Extended(mouse) EXCEPT !.selecting = FALSE])

ViewNext ==
    \/ \E p \in ViewPresentations \cup {NoPresentation} : SetPresentation(p)
    \/ \E size \in WindowSizes : Resize(size)
    \/ \E mouse \in MousePoints, up \in BOOLEAN : ScrollWheel(mouse, up)
    \/ \E zoom \in ChosenZooms : ChooseZoom(zoom)
    \/ \E a \in Axes, text \in Typed \cup {Junk} : TypeText(a, text)
    \/ \E a \in Axes : \E value \in ScrolledTo \cup {window.bar[a].lower, window.bar[a].last} : Scroll(a, value)
    \/ \E mouse \in MousePoints :
          \/ StartDrag(mouse) \/ Drag(mouse)
          \/ StartSelection(mouse) \/ ExtendSelection(mouse) \/ EndSelection(mouse)
    \/ EndDrag

ViewSpec == ViewInit /\ [][ViewNext]_viewVars

-----------------------------------------------------------------------------
(* Properties.                                                             *)

\* Once all handlers are done, the position can be changed again; the scroll bars
\* have the position, or what is nearest to it in their range; the rulers have
\* what is visible; the text is what the user typed or the position in whole
\* pixels; and the zoom box has the zoom level of the view.
ViewAgrees(v) ==
    /\ v.frozen = 0
    /\ HasPresentation(v) =>
        /\ v.zoom \in v.zooms
        /\ v.ruler = tweakRulers(v)
        /\ \A a \in Axes : v.bar[a] = Adjustment(v, a)
        /\ Junk \in {v.text[a] : a \in Axes} \/ v.text = Display(v)

\* A selection listener is told of whole pixels, of which all of the selection is
\* part, from the corner where the user started to the one where the mouse is, and
\* no more of them than that takes, or of the lines between pixels that are nearest.
\* A pixel is as wide and high as the aspect ratio of the presentation says.
Aspects == {Twice(1)} \cup {p.aspect : p \in ViewPresentations}

Covered(s, t, g) ==
    LET ordered(a, p, q) == IF s.start[a] <= s.end[a] THEN p[a] <= q[a] ELSE q[a] <= p[a]
        near(p, q, unit) == p % unit = 0 /\ p - q \in -unit .. unit
        nearest(p, q, unit) == p % unit = 0 /\ 2 * p - 2 * q \in -unit .. unit
    IN \E aspect \in Aspects : \A a \in Axes :
         /\ ordered(a, t.start, s.start) /\ ordered(a, s.end, t.end)
         /\ near(t.start[a], s.start[a], Fine * aspect[a]) /\ near(t.end[a], s.end[a], Fine * aspect[a])
         /\ nearest(g.start[a], s.start[a], Fine * aspect[a])
         /\ nearest(g.end[a], s.end[a], Fine * aspect[a])

SelectionIsCovered(v) == Covered(v.selection, v.pixels, v.grid)

\* A window is right in both respects after every event.
WindowIsRight == ViewAgrees(window) /\ SelectionIsCovered(window)

\* What is at a point of the drawing area, and in the middle of it.
Under(p, v) == Plus(v.position, Scale(p, PerPixel(v.zoom)))
Centre(v)   == Plus(v.position, HalfOf(Extent(v)))

\* What the user holds on to is where it was.
HoldStays ==
    HasPresentation(window') =>
        /\ event'.kind = "wheel" => Under(event'.at, window') = Under(event'.at, window)
        /\ event'.kind = "drag" => Under(event'.at, window') = Under(window.cached, window)
        /\ event'.kind \in {"resize", "zoombox"} => Centre(window') = Centre(window)
        /\ (event'.kind = "type" /\ Junk \notin {window'.text[a] : a \in Axes}) =>
                window'.position = Parse(window')

\* What the user holds on to stays where it is: what is under the mouse when
\* zooming with the wheel or dragging, the centre when the window changes size or
\* a zoom level is chosen.  Text moves the view to exactly what it says.
PointStays == [][HoldStays]_viewVars
=============================================================================
