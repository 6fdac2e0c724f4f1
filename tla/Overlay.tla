-------------------------------- MODULE Overlay --------------------------------
(***************************************************************************)
(* The transparent overlay (plugins/transparent-overlay): a presentation   *)
(* that shows other presentations on top of each other, in any number of   *)
(* views.  Each of its views opens a ChildView in each of its children,    *)
(* and the SizeDeterminer tells the resizable ones how large they are.     *)
(*                                                                         *)
(* Everything happens on the UI thread; a call is an action.  Of the areas *)
(* of presentations there is one axis: the other is treated likewise.      *)
(***************************************************************************)
EXTENDS Integers, Sequences, FiniteSetsExt, SequencesExt

CONSTANTS
    Layers,         \* the presentations that may be added
    Stretching,     \* those that are resizable
    AreaOf,         \* the area of each layer: <<left, right>>
    Coloured,       \* those with a monochrome colour, that can be set
    Seethrough,     \* those of which the background can be made transparent
    Palette,        \* the colours to choose from, in order
    Black,          \* the colour a layer has at first
    OverlayViews,   \* the views that may show the overlay
    MaxLayers       \* bound on the number of layers

ASSUME AreaAssumption   == /\ AreaOf \in [Layers -> Int \X Int]
                           /\ \A p \in Layers : AreaOf[p][1] <= AreaOf[p][2]
ASSUME ColourAssumption == Palette \in Seq(Range(Palette)) /\ Black \notin Range(Palette)
ASSUME ViewsAssumption  == IsFiniteSet(OverlayViews) /\ MaxLayers \in Nat

VARIABLES
    stack,       \* TransparentOverlayPresentation::children
    ink,         \* the monochrome colour of each layer
    clear,       \* whether its background is transparent
    childViews,  \* of each view: [state, the ChildView of each layer, children, shown]
    openedIn,    \* the ChildViews each layer has been opened for, and not closed
    sizedFor,    \* PresentationData::views of each layer
    told,        \* the area each ChildView has been told of last
    painted      \* what each view painted last: layers, and with which background

overlayVars == <<stack, ink, clear, childViews, openedIn, sizedFor, told, painted>>

\* A ChildView is known by its view and its number there; 0 is none.
NoView == 0
ChildViewIds == OverlayViews \X (1..MaxLayers)

Empty == <<0, 0>>

OverlayInit ==
    /\ stack = <<>>
    /\ ink = [p \in Layers |-> Black]
    /\ clear = [p \in Layers |-> FALSE]
    /\ childViews = [v \in OverlayViews |-> [state |-> "new", of |-> [p \in Layers |-> NoView],
                                             children |-> <<>>, shown |-> <<>>]]
    /\ openedIn = [p \in Layers |-> {}]
    /\ sizedFor = [p \in Layers |-> {}]
    /\ told = [c \in ChildViewIds |-> Empty]
    /\ painted = [v \in OverlayViews |-> <<>>]

-----------------------------------------------------------------------------
(* SizeDeterminer.                                                         *)

\* min() of double is the smallest positive number, rather than the lowest.
DetermineSize(layers) ==
    <<Min({AreaOf[p][1] : p \in layers}), Max({AreaOf[p][2] : p \in layers} \cup {0})>>

\* getRect(), when the presentations added are these.
RectOf(layers) ==
    LET fixed == layers \ Stretching
    IN IF layers = {} THEN Empty ELSE DetermineSize(IF fixed = {} THEN layers ELSE fixed)

\* sendUpdates(): setRect() for each view of each resizable layer.
SendUpdates(sent, views, layers) ==
    [c \in ChildViewIds |->
        IF \E p \in layers \cap Stretching : c \in views[p] THEN RectOf(layers) ELSE sent[c]]

-----------------------------------------------------------------------------
(* TransparentOverlayPresentation and TransparentOverlayViewInfo.          *)

\* setOptimalColor(): a colour of the palette that less children have than the
\* layer's own, and of those the first of which there are least.
Users(c) == Cardinality({i \in DOMAIN stack : stack[i] \in Coloured /\ ink[stack[i]] = c})

OptimalColor(p) ==
    LET better == {i \in DOMAIN Palette : Users(Palette[i]) < Users(ink[p])}
        best   == {i \in better : \A j \in better : Users(Palette[i]) <= Users(Palette[j])}
    IN IF better = {} THEN ink[p] ELSE Palette[Min(best)]

\* addChild(), to a view that is open: [info, opened, sized, sent].
AddChild(u, v, p, layers) ==
    LET n == Len(u.info[v].children) + 1
    IN [info   |-> [u.info EXCEPT ![v].of[p] = n, ![v].children = Append(@, p),
                                  ![v].shown = Append(@, TRUE)],
        opened |-> [u.opened EXCEPT ![p] = @ \cup {<<v, n>>}],
        sized  |-> IF p \in Stretching THEN [u.sized EXCEPT ![p] = @ \cup {<<v, n>>}] ELSE u.sized,
        sent   |-> IF p \in Stretching THEN [u.sent EXCEPT ![<<v, n>>] = RectOf(layers)] ELSE u.sent]

\* addChild() to all of these views; addChildren(), in their order.
AddToAll(u, views, p, layers) == FoldSet(LAMBDA v, w : AddChild(w, v, p, layers), u, views)
AddChildren(u, v, layers) == FoldLeft(LAMBDA w, p : AddChild(w, v, p, Range(layers)), u, layers)

Become(u) == childViews' = u.info /\ openedIn' = u.opened /\ sizedFor' = u.sized /\ told' = u.sent

OpenOverlays == {v \in OverlayViews : childViews[v].state = "open"}

\* addPresentation(), at the creation of the overlay or while it is shown.
AddPresentation(p) ==
    LET layers == Range(stack) \cup {p}
        start  == [info |-> childViews, opened |-> openedIn, sized |-> sizedFor,
                   sent |-> SendUpdates(told, sizedFor, layers)]
    IN /\ Len(stack) < MaxLayers
       /\ ink' = IF p \in Coloured THEN [ink EXCEPT ![p] = OptimalColor(p)] ELSE ink
       /\ stack' = Append(stack, p)
       /\ Become(AddToAll(start, OpenOverlays, p, layers))
       /\ UNCHANGED <<clear, painted>>

\* viewAdded(): all the children are added to the view.
OpenOverlay(v) ==
    LET start == [info |-> [childViews EXCEPT ![v].state = "open"], opened |-> openedIn,
                  sized |-> sizedFor, sent |-> told]
    IN /\ childViews[v].state = "new"
       /\ Become(AddChildren(start, v, stack))
       /\ UNCHANGED <<stack, ink, clear, painted>>

WrongCloseOverlay(v) ==  \* forgets sizeDeterminer->close()
    LET closes(p) == <<v, childViews[v].of[p]>>
    IN /\ childViews[v].state = "open"
       /\ openedIn' = [p \in Layers |-> openedIn[p] \ {closes(p)}]
       /\ childViews' = [childViews EXCEPT ![v] = [state |-> "closed", of |-> [p \in Layers |-> NoView],
                                                   children |-> <<>>, shown |-> <<>>]]
       /\ UNCHANGED <<stack, ink, clear, sizedFor, told, painted>>

\* viewRemoved(): of each layer, the ChildView it has now is closed.
CloseOverlay(v) ==
    LET closes(p) == <<v, childViews[v].of[p]>>
    IN /\ childViews[v].state = "open"
       /\ sizedFor' = [p \in Layers |-> sizedFor[p] \ {closes(p)}]
       /\ openedIn' = [p \in Layers |-> openedIn[p] \ {closes(p)}]
       /\ childViews' = [childViews EXCEPT ![v] = [state |-> "closed", of |-> [p \in Layers |-> NoView],
                                                   children |-> <<>>, shown |-> <<>>]]
       /\ UNCHANGED <<stack, ink, clear, told, painted>>

\* One of the buttons.
ToggleLayer(v, i) ==
    /\ i \in DOMAIN childViews[v].shown
    /\ childViews' = [childViews EXCEPT ![v].shown[i] = ~@]
    /\ UNCHANGED <<stack, ink, clear, openedIn, sizedFor, told, painted>>

\* redraw(), up to and including layer i: [count, clear, painted].  The background
\* of a layer is set just before it is drawn; a layer that has one, counts.
Painted(v, i, p, d) ==
    LET sees == p \in Seethrough
        bg   == IF sees THEN d.count > 0 ELSE d.clear[p]
    IN IF ~childViews[v].shown[i] THEN d
       ELSE [count   |-> IF sees /\ bg THEN d.count ELSE d.count + 1,
             clear   |-> [d.clear EXCEPT ![p] = bg],
             painted |-> Append(d.painted, [layer |-> i, clear |-> bg])]

PaintedAll(v, layers) ==
    FoldLeftDomain(LAMBDA d, i : Painted(v, i, layers[i], d),
                   [count |-> 0, clear |-> clear, painted |-> <<>>], layers)

DrawOverlay(v) ==
    LET d == PaintedAll(v, childViews[v].children)
    IN /\ childViews[v].state = "open"
       /\ clear' = d.clear
       /\ painted' = [painted EXCEPT ![v] = d.painted]
       /\ UNCHANGED <<stack, ink, childViews, openedIn, sizedFor, told>>

OverlayNext ==
    \/ \E p \in Layers : AddPresentation(p)
    \/ \E v \in OverlayViews :
          \/ OpenOverlay(v) \/ CloseOverlay(v) \/ DrawOverlay(v)
          \/ \E i \in 1..MaxLayers : ToggleLayer(v, i)

OverlaySpec == OverlayInit /\ [][OverlayNext]_overlayVars

-----------------------------------------------------------------------------
(* Properties.                                                             *)

Once(p) == Cardinality({i \in DOMAIN stack : stack[i] = p}) <= 1

\* Every open view shows all layers, with a button for each, and has a ChildView
\* open in each of them; and a layer that was added once is not left open for a
\* view that is closed, neither with the layer nor with the SizeDeterminer, which
\* require()s to be told of every view once.
ViewsHaveAllLayers ==
    /\ \A v \in OpenOverlays :
          /\ childViews[v].children = stack
          /\ Len(childViews[v].shown) = Len(stack)
          /\ \A p \in Range(stack) : <<v, childViews[v].of[p]>> \in openedIn[p]
    /\ \A p \in Layers :
          /\ Once(p) => openedIn[p] = {<<v, childViews[v].of[p]>> : v \in OpenOverlays} \ (OverlayViews \X {NoView})
          /\ sizedFor[p] = IF p \in Stretching THEN openedIn[p] ELSE {}

\* Resizable layers know the area of the overlay in every view: that of all the
\* layers that have a size of their own.
LayersFit ==
    \A v \in OpenOverlays : \A p \in Range(stack) \cap Stretching :
        LET area  == told[<<v, childViews[v].of[p]>>]
            fixed == Range(stack) \ Stretching
            fits  == IF fixed = {} THEN Range(stack) ELSE fixed
        IN (\A q \in fits : AreaOf[q][2] >= 0) =>
              /\ \A q \in fits : area[1] <= AreaOf[q][1] /\ AreaOf[q][2] <= area[2]
              /\ \E q \in fits : AreaOf[q][1] = area[1]
              /\ \E q \in fits : AreaOf[q][2] = area[2]

\* Layers do not have the same colour as long as there is one in the palette that
\* is not used.
ColoursDiffer ==
    \A p, q \in Range(stack) \cap Coloured :
        (p # q /\ ink[p] = ink[q] /\ \A r \in Layers : Once(r)) =>
            \A i \in DOMAIN Palette : Users(Palette[i]) > 0

\* The layer at the bottom is painted with its background, and what is on top of
\* it without, so that it remains visible.
BottomIsVisible ==
    \A v \in OverlayViews : \A i \in DOMAIN painted[v] :
        LET p == painted[v][i]
        IN (p.layer \in DOMAIN stack /\ stack[p.layer] \in Seethrough) => p.clear = (i > 1)

OverlayIsRight == ViewsHaveAllLayers /\ LayersFit /\ ColoursDiffer /\ BottomIsVisible
=============================================================================
