---------------------------- MODULE WindowsProofs ----------------------------
(***************************************************************************)
(* Proofs about what users have on their screens: Overlay, for any layers, *)
(* views and palette, Application, for any plugins, files, windows and     *)
(* presentations, and ViewWindow, for any sizes, places and numbers.       *)
(***************************************************************************)
EXTENDS ViewWindow, Overlay, Application, Induction

-----------------------------------------------------------------------------
(***************************************************************************)
(* Overlay: every open view has all layers, in one order, knows their size *)
(* and paints them, and no two layers have one colour if there are enough. *)
(* The invariant OverlayInv says what addPresentation() and open() do to a *)
(* view one child at a time: its children, and what each was told.         *)
(***************************************************************************)

-----------------------------------------------------------------------------
(* Areas.                                                                  *)
Areas == Int \X Int

\* The layers of a stack are finitely many.
LEMMA LayersFinite ==
    ASSUME NEW s \in Seq(Layers)
    PROVE  Range(s) \subseteq Layers /\ IsFiniteSet(Range(s))
<1>1. DOMAIN s = 1..Len(s) /\ Len(s) \in Nat  OBVIOUS
<1>2. Range(s) \subseteq Layers  BY <1>1 DEF Range
<1>3. s \in Surjection(DOMAIN s, Range(s))  BY <1>1 DEF Surjection, Range
<1>4. IsFiniteSet(DOMAIN s)  BY <1>1, FS_Interval
<1>5. IsFiniteSet(Range(s))  BY <1>3, <1>4, FS_Surjection
<1>. QED  BY <1>2, <1>5

\* DetermineSize() is the smallest area that has all of them, and 0.
Spans(a, layers) ==
    /\ a \in Areas
    /\ \A q \in layers : a[1] <= AreaOf[q][1] /\ AreaOf[q][2] <= a[2]
    /\ \E q \in layers : AreaOf[q][1] = a[1]
    /\ a[2] = 0 \/ \E q \in layers : AreaOf[q][2] = a[2]
    /\ a[2] >= 0

\* Which area that is, of finitely many layers.
LEMMA DetermineSizeIs ==
    ASSUME NEW layers, layers \subseteq Layers, IsFiniteSet(layers), layers # {}
    PROVE  Spans(DetermineSize(layers), layers)
<1>. DEFINE lefts  == {AreaOf[p][1] : p \in layers}
            rights == {AreaOf[p][2] : p \in layers}
            f == [p \in layers |-> AreaOf[p][1]]
            g == [p \in layers |-> AreaOf[p][2]]
            l == Min(lefts)
            r == Max(rights \cup {0})
<1>0. \A p \in layers : AreaOf[p][1] \in Int /\ AreaOf[p][2] \in Int  BY AreaAssumption
<1>1. lefts \subseteq Int /\ lefts # {} /\ rights \subseteq Int  BY <1>0
<1>2. IsFiniteSet(lefts) /\ IsFiniteSet(rights)
  <2>1. f \in Surjection(layers, lefts) /\ g \in Surjection(layers, rights)  BY DEF Surjection
  <2>. HIDE DEF f, g, lefts, rights
  <2>. QED  BY <2>1, FS_Surjection
<1>3. IsFiniteSet(rights \cup {0}) /\ rights \cup {0} \subseteq Int /\ rights \cup {0} # {}
  <2>. HIDE DEF rights
  <2>. QED  BY <1>1, <1>2, FS_AddElement
<1>4. l \in lefts /\ \A y \in lefts : l <= y
  <2>. HIDE DEF lefts
  <2>. QED  BY <1>1, <1>2, MinIs
<1>5. r \in rights \cup {0} /\ \A y \in rights \cup {0} : r >= y
  <2>. HIDE DEF rights
  <2>. QED  BY <1>3, MaxIs
<1>6. DetermineSize(layers) = <<l, r>>  BY DEF DetermineSize
<1>7. l \in Int /\ r \in Int  BY <1>1, <1>4, <1>5
<1>8. \A q \in layers : l <= AreaOf[q][1] /\ AreaOf[q][2] <= r
  <2>. SUFFICES ASSUME NEW q \in layers PROVE l <= AreaOf[q][1] /\ AreaOf[q][2] <= r  OBVIOUS
  <2>1. AreaOf[q][1] \in lefts /\ AreaOf[q][2] \in rights  OBVIOUS
  <2>2. r >= AreaOf[q][2]  BY <1>5, <2>1
  <2>. HIDE DEF l, r
  <2>. QED  BY <1>0, <1>4, <1>7, <2>1, <2>2
<1>9. /\ \E q \in layers : AreaOf[q][1] = l
      /\ r = 0 \/ \E q \in layers : AreaOf[q][2] = r
      /\ r >= 0
  BY <1>4, <1>5
<1>. HIDE DEF l, r
<1>. QED  BY <1>6, <1>7, <1>8, <1>9 DEF Spans, Areas

\* The area that stretching layers are told: that of the others, if there are
\* others.
LEMMA RectIs ==
    ASSUME NEW layers, layers \subseteq Layers, IsFiniteSet(layers)
    PROVE  /\ RectOf(layers) \in Areas
           /\ layers # {} => Spans(RectOf(layers), IF layers \subseteq Stretching THEN layers
                                                   ELSE layers \ Stretching)
<1>1. CASE layers = {}  BY <1>1 DEF RectOf, Empty, Areas
<1>2. CASE layers # {}
  <2>. DEFINE fits == IF layers \subseteq Stretching THEN layers ELSE layers \ Stretching
  <2>1. fits \subseteq Layers /\ IsFiniteSet(fits) /\ fits # {}  BY <1>2, FS_Subset
  <2>2. RectOf(layers) = DetermineSize(fits)  BY <1>2 DEF RectOf
  <2>3. Spans(RectOf(layers), fits)
    <3>. HIDE DEF fits
    <3>. QED  BY <2>1, <2>2, DetermineSizeIs
  <2>. QED  BY <2>3 DEF Spans
<1>. QED  BY <1>1, <1>2

-----------------------------------------------------------------------------
(* A child is added to a view.                                             *)
Infos  == [OverlayViews -> [state : {"new", "open", "closed"}, of : [Layers -> Nat],
                            children : Seq(Layers), shown : Seq(BOOLEAN)]]
Opens  == [Layers -> SUBSET (OverlayViews \X Nat)]
Worlds == [info : Infos, opened : Opens, sized : Opens, sent : [ChildViewIds -> Areas]]

\* What addChild() makes of the world.
Added(u, t, v, p, layers) ==
    LET n == Len(u.info[v].children) + 1
    IN /\ t \in Worlds
       /\ \A w \in OverlayViews \ {v} : t.info[w] = u.info[w]
       /\ t.info[v].state = u.info[v].state
       /\ t.info[v].of = [u.info[v].of EXCEPT ![p] = n]
       /\ t.info[v].children = Append(u.info[v].children, p)
       /\ t.info[v].shown = Append(u.info[v].shown, TRUE)
       /\ \A q \in Layers : t.opened[q] = u.opened[q] \cup {c \in {<<v, n>>} : q = p}
       /\ \A q \in Layers : t.sized[q] = u.sized[q] \cup {c \in {<<v, n>>} : q = p /\ q \in Stretching}
       /\ \A c \in ChildViewIds :
             t.sent[c] = IF c = <<v, n>> /\ p \in Stretching THEN RectOf(layers) ELSE u.sent[c]

\* A child is added to one view: to its layers, its known children, and what it
\* is told.
LEMMA AddChildIs ==
    ASSUME NEW u \in Worlds, NEW v \in OverlayViews, NEW p \in Layers, NEW layers, RectOf(layers) \in Areas
    PROVE  Added(u, AddChild(u, v, p, layers), v, p, layers)
<1>. DEFINE t == AddChild(u, v, p, layers)
            n == Len(u.info[v].children) + 1
            view == [state |-> u.info[v].state, of |-> [u.info[v].of EXCEPT ![p] = n],
                     children |-> Append(u.info[v].children, p), shown |-> Append(u.info[v].shown, TRUE)]
            Views == [state : {"new", "open", "closed"}, of : [Layers -> Nat],
                            children : Seq(Layers), shown : Seq(BOOLEAN)]
<1>0. u.info \in [OverlayViews -> Views] /\ u.opened \in Opens /\ u.sized \in Opens /\ u.sent \in [ChildViewIds -> Areas]
  BY DEF Worlds, Infos
<1>1. u.info[v] \in Views  BY <1>0
<1>2. n \in Nat  BY <1>1
<1>3. view \in Views  BY <1>1, <1>2
<1>4. t.info = [u.info EXCEPT ![v] = view]
  <2>1. t.info = [u.info EXCEPT ![v].of[p] = n, ![v].children = Append(@, p),
                                  ![v].shown = Append(@, TRUE)]
    BY DEF AddChild
  <2>. HIDE DEF t
  <2>. QED  BY <2>1, <1>0, <1>1
<1>5. t.info \in Infos /\ t.info[v] = view /\ \A w \in OverlayViews \ {v} : t.info[w] = u.info[w]
  <2>. HIDE DEF t, view
  <2>. QED  BY <1>0, <1>3, <1>4 DEF Infos
<1>6. /\ t.opened \in Opens
      /\ \A q \in Layers : t.opened[q] = u.opened[q] \cup {c \in {<<v, n>>} : q = p}
  <2>1. t.opened = [u.opened EXCEPT ![p] = @ \cup {<<v, n>>}]  BY DEF AddChild
  <2>. HIDE DEF t, n
  <2>. QED  BY <1>0, <1>2, <2>1 DEF Opens
<1>7. /\ t.sized \in Opens
      /\ \A q \in Layers : t.sized[q] = u.sized[q] \cup {c \in {<<v, n>>} : q = p /\ q \in Stretching}
  <2>1. t.sized = IF p \in Stretching THEN [u.sized EXCEPT ![p] = @ \cup {<<v, n>>}] ELSE u.sized
    BY DEF AddChild
  <2>. HIDE DEF t, n
  <2>2. CASE p \in Stretching  BY <1>0, <1>2, <2>1, <2>2 DEF Opens
  <2>3. CASE p \notin Stretching  BY <1>0, <1>2, <2>1, <2>3 DEF Opens
  <2>. QED  BY <2>2, <2>3
<1>8. /\ t.sent \in [ChildViewIds -> Areas]
      /\ \A c \in ChildViewIds :
             t.sent[c] = IF c = <<v, n>> /\ p \in Stretching THEN RectOf(layers) ELSE u.sent[c]
  <2>1. t.sent = IF p \in Stretching THEN [u.sent EXCEPT ![<<v, n>>] = RectOf(layers)] ELSE u.sent
    BY DEF AddChild
  <2>. HIDE DEF t, n
  <2>. QED  BY <1>0, <2>1
<1>9. t = [info |-> t.info, opened |-> t.opened, sized |-> t.sized, sent |-> t.sent]  BY DEF AddChild
<1>10. t \in Worlds
  <2>. HIDE DEF t
  <2>. QED  BY <1>5, <1>6, <1>7, <1>8, <1>9 DEF Worlds
<1>11. Added(u, t, v, p, layers)
  <2>1. /\ t.info[v].state = u.info[v].state /\ t.info[v].of = [u.info[v].of EXCEPT ![p] = n]
        /\ t.info[v].children = Append(u.info[v].children, p)
        /\ t.info[v].shown = Append(u.info[v].shown, TRUE)
    <3>1. /\ view.state = u.info[v].state /\ view.of = [u.info[v].of EXCEPT ![p] = n]
          /\ view.children = Append(u.info[v].children, p)
          /\ view.shown = Append(u.info[v].shown, TRUE)
      OBVIOUS
    <3>. HIDE DEF t, view, n
    <3>. QED  BY <1>5, <3>1
  <2>. HIDE DEF t, view
  <2>. QED  BY <1>5, <1>6, <1>7, <1>8, <1>10, <2>1 DEF Added
<1>. QED  BY <1>11

-----------------------------------------------------------------------------
(* The invariant.                                                          *)
Paints == Seq([layer : Nat, clear : BOOLEAN])

OverlayTypes ==
    /\ stack \in Seq(Layers) /\ Len(stack) <= MaxLayers
    /\ DOMAIN ink = Layers
    /\ clear \in [Layers -> BOOLEAN]
    /\ childViews \in Infos
    /\ openedIn \in Opens /\ sizedFor \in Opens
    /\ told \in [ChildViewIds -> Areas]
    /\ painted \in [OverlayViews -> Paints]

\* The number of the ChildView of layer p that a view has, if these are its layers.
Numbered(of, layers) ==
    \A p \in Layers : \/ of[p] \in 1..Len(layers) /\ layers[of[p]] = p
                      \/ of[p] = NoView /\ \A i \in 1..Len(layers) : layers[i] # p

ViewsFit ==
    \A v \in OverlayViews :
        IF childViews[v].state = "open"
        THEN /\ childViews[v].children = stack
             /\ Len(childViews[v].shown) = Len(stack)
             /\ Numbered(childViews[v].of, stack)
        ELSE /\ childViews[v].shown = <<>> /\ childViews[v].children = <<>>
             /\ \A p \in Layers : childViews[v].of[p] = NoView

\* The ChildView that view v has for layer p is open.
OpenedFit ==
    /\ \A p \in Layers, v \in OpenOverlays :
          childViews[v].of[p] # NoView => <<v, childViews[v].of[p]>> \in openedIn[p]
    /\ \A p \in Layers : \A c \in openedIn[p] :
          /\ c[2] # NoView
          /\ Once(p) => c[1] \in OpenOverlays /\ c[2] = childViews[c[1]].of[p]

SizedFit == \A p \in Layers : sizedFor[p] = IF p \in Stretching THEN openedIn[p] ELSE {}

ToldFit ==
    \A v \in OpenOverlays : \A p \in Range(stack) \cap Stretching :
        told[<<v, childViews[v].of[p]>>] = RectOf(Range(stack))

PaintedFit ==
    \A v \in OverlayViews : \A i \in DOMAIN painted[v] :
        /\ painted[v][i].layer \in DOMAIN stack
        /\ stack[painted[v][i].layer] \in Seethrough => painted[v][i].clear = (i > 1)

OverlayInv ==
    OverlayTypes /\ ViewsFit /\ OpenedFit /\ SizedFit /\ ToldFit /\ PaintedFit /\ ColoursDiffer

\* No layers, no views: nothing to keep.
LEMMA OverlayInitially == OverlayInit => OverlayInv
<1>. SUFFICES ASSUME OverlayInit PROVE OverlayInv  OBVIOUS
<1>1. stack = <<>> /\ DOMAIN stack = {} /\ Len(stack) = 0 /\ Range(stack) = {}  BY DEF OverlayInit, Range
<1>2. OverlayTypes
  <2>1. <<>> \in Seq(Layers) /\ <<>> \in Seq(BOOLEAN) /\ <<>> \in Paints /\ 0 <= MaxLayers /\ NoView \in Nat
    BY ViewsAssumption DEF Paints, NoView
  <2>2. childViews \in Infos  BY <2>1 DEF OverlayInit, Infos
  <2>3. told \in [ChildViewIds -> Areas]  BY DEF OverlayInit, Empty, Areas
  <2>4. painted \in [OverlayViews -> Paints]  BY <2>1 DEF OverlayInit
  <2>5. stack \in Seq(Layers)  BY <2>1 DEF OverlayInit
  <2>. QED  BY <1>1, <2>1, <2>2, <2>3, <2>4, <2>5 DEF OverlayInit, OverlayTypes, Opens
<1>3. OpenOverlays = {}  BY DEF OverlayInit, OpenOverlays
<1>4. ViewsFit  BY DEF OverlayInit, ViewsFit
<1>5. OpenedFit /\ SizedFit  BY <1>3 DEF OverlayInit, OpenedFit, SizedFit
<1>6. ToldFit /\ ColoursDiffer  BY <1>1, <1>3 DEF ToldFit, ColoursDiffer
<1>7. PaintedFit  BY DEF OverlayInit, PaintedFit
<1>. QED  BY <1>2, <1>4, <1>5, <1>6, <1>7 DEF OverlayInv

\* What it says of what users see.
LEMMA OverlayInvShows == OverlayInv => OverlayIsRight
<1>. SUFFICES ASSUME OverlayInv PROVE OverlayIsRight  OBVIOUS
<1>0. /\ stack \in Seq(Layers) /\ DOMAIN stack = 1..Len(stack) /\ Len(stack) \in Nat
      /\ OpenOverlays \subseteq OverlayViews
      /\ \A v \in OpenOverlays : \A p \in Layers : childViews[v].of[p] \in Nat
  BY DEF OverlayInv, OverlayTypes, OpenOverlays, Infos
<1>1. ASSUME NEW v \in OpenOverlays
      PROVE  /\ childViews[v].children = stack /\ Len(childViews[v].shown) = Len(stack)
             /\ \A p \in Range(stack) : childViews[v].of[p] # NoView /\ <<v, childViews[v].of[p]>> \in openedIn[p]
  <2>1. ViewsFit /\ OpenedFit /\ v \in OverlayViews /\ childViews[v].state = "open"
    BY DEF OverlayInv, OpenOverlays
  <2>2. Numbered(childViews[v].of, stack)  BY <2>1 DEF ViewsFit
  <2>3. ASSUME NEW p \in Range(stack) PROVE p \in Layers /\ childViews[v].of[p] # NoView
    <3>1. PICK i \in 1..Len(stack) : stack[i] = p  BY <1>0 DEF Range
    <3>2. p \in Layers  BY <1>0, <3>1
    <3>. QED  BY <2>2, <3>1, <3>2 DEF Numbered, NoView
  <2>. QED  BY <2>1, <2>3 DEF ViewsFit, OpenedFit
<1>2. ViewsHaveAllLayers
  <2>1. ASSUME NEW p \in Layers, Once(p)
        PROVE  openedIn[p] = {<<v, childViews[v].of[p]>> : v \in OpenOverlays} \ (OverlayViews \X {NoView})
    <3>1. openedIn[p] \subseteq OverlayViews \X Nat  BY DEF OverlayInv, OverlayTypes, Opens
    <3>2. ASSUME NEW c \in openedIn[p]
          PROVE  c \in {<<v, childViews[v].of[p]>> : v \in OpenOverlays} \ (OverlayViews \X {NoView})
      BY <2>1, <3>1, <3>2 DEF OverlayInv, OpenedFit
    <3>3. ASSUME NEW v \in OpenOverlays, <<v, childViews[v].of[p]>> \notin OverlayViews \X {NoView}
          PROVE  <<v, childViews[v].of[p]>> \in openedIn[p]
      BY <1>0, <3>3 DEF OverlayInv, OpenedFit
    <3>. QED  BY <3>2, <3>3
  <2>. QED  BY <1>1, <2>1 DEF ViewsHaveAllLayers, OverlayInv, SizedFit
<1>3. LayersFit
  <2>. SUFFICES ASSUME NEW v \in OpenOverlays, NEW p \in Range(stack) \cap Stretching
                PROVE  LET area  == told[<<v, childViews[v].of[p]>>]
                           fixed == Range(stack) \ Stretching
                           fits  == IF fixed = {} THEN Range(stack) ELSE fixed
                       IN (\A q \in fits : AreaOf[q][2] >= 0) =>
                             /\ \A q \in fits : area[1] <= AreaOf[q][1] /\ AreaOf[q][2] <= area[2]
                             /\ \E q \in fits : AreaOf[q][1] = area[1]
                             /\ \E q \in fits : AreaOf[q][2] = area[2]
    BY DEF LayersFit
  <2>. DEFINE area == told[<<v, childViews[v].of[p]>>]
              fits == IF Range(stack) \ Stretching = {} THEN Range(stack) ELSE Range(stack) \ Stretching
  <2>1. area = RectOf(Range(stack))  BY DEF OverlayInv, ToldFit
  <2>2. Range(stack) \subseteq Layers /\ IsFiniteSet(Range(stack)) /\ Range(stack) # {}  BY <1>0, LayersFinite
  <2>3. fits = IF Range(stack) \subseteq Stretching THEN Range(stack) ELSE Range(stack) \ Stretching
    OBVIOUS
  <2>4. fits \subseteq Layers /\ fits # {}  BY <2>2
  <2>. HIDE DEF fits, area
  <2>5. Spans(area, fits)  BY <2>1, <2>2, <2>3, RectIs
  <2>6. ASSUME \A q \in fits : AreaOf[q][2] >= 0 PROVE \E q \in fits : AreaOf[q][2] = area[2]
    <3>1. \A q \in fits : AreaOf[q][2] \in Int  BY <2>4, AreaAssumption
    <3>2. PICK q \in fits : TRUE  BY <2>4
    <3>3. area[2] \in Int  BY <2>5 DEF Spans, Areas
    <3>. QED  BY <2>5, <2>6, <3>1, <3>2, <3>3 DEF Spans
  <2>. QED  BY <2>5, <2>6 DEF Spans, area, fits
<1>4. BottomIsVisible  BY DEF BottomIsVisible, OverlayInv, PaintedFit
<1>. QED  BY <1>2, <1>3, <1>4 DEF OverlayIsRight, OverlayInv

-----------------------------------------------------------------------------
(* A layer is added to every open view.                                    *)
Ids(u, s) == {<<v, Len(u.info[v].children) + 1>> : v \in s}

AddedToAll(u, t, s, p, layers) ==
    /\ \A w \in OverlayViews \ s : t.info[w] = u.info[w]
    /\ \A w \in s :
          /\ t.info[w].state = u.info[w].state
          /\ t.info[w].of = [u.info[w].of EXCEPT ![p] = Len(u.info[w].children) + 1]
          /\ t.info[w].children = Append(u.info[w].children, p)
          /\ t.info[w].shown = Append(u.info[w].shown, TRUE)
    /\ \A q \in Layers : t.opened[q] = u.opened[q] \cup {c \in Ids(u, s) : q = p}
    /\ \A q \in Layers : t.sized[q] = u.sized[q] \cup {c \in Ids(u, s) : q = p /\ q \in Stretching}
    /\ \A c \in ChildViewIds :
          t.sent[c] = IF c \in Ids(u, s) /\ p \in Stretching THEN RectOf(layers) ELSE u.sent[c]

\* A view more of those that addPresentation() goes through.
LEMMA AddedToOneMore ==
    ASSUME NEW u \in Worlds, NEW t \in Worlds, NEW s \in SUBSET OverlayViews, NEW x \in s,
           NEW p \in Layers, NEW layers, RectOf(layers) \in Areas,
           AddedToAll(u, t, s \ {x}, p, layers)
    PROVE  LET r == AddChild(t, x, p, layers) IN r \in Worlds /\ AddedToAll(u, r, s, p, layers)
<1>. DEFINE r == AddChild(t, x, p, layers)
            n == Len(u.info[x].children) + 1
<1>0. x \in OverlayViews  OBVIOUS
<1>1. Added(t, r, x, p, layers)  BY <1>0, AddChildIs
<1>. HIDE DEF r
<1>2. t.info[x] = u.info[x]  BY <1>0 DEF AddedToAll
<1>3. Ids(u, s) = Ids(u, s \ {x}) \cup {<<x, n>>}  BY DEF Ids
<1>4. \A w \in OverlayViews \ s : r.info[w] = u.info[w]  BY <1>1 DEF Added, AddedToAll
<1>5. ASSUME NEW w \in s
      PROVE  /\ r.info[w].state = u.info[w].state
             /\ r.info[w].of = [u.info[w].of EXCEPT ![p] = Len(u.info[w].children) + 1]
             /\ r.info[w].children = Append(u.info[w].children, p)
             /\ r.info[w].shown = Append(u.info[w].shown, TRUE)
  <2>1. CASE w = x  BY <1>1, <1>2, <2>1 DEF Added
  <2>2. CASE w # x
    <3>1. r.info[w] = t.info[w]  BY <1>1, <2>2 DEF Added
    <3>. QED  BY <2>2, <3>1 DEF AddedToAll
  <2>. QED  BY <2>1, <2>2
<1>6. \A q \in Layers : /\ r.opened[q] = t.opened[q] \cup {c \in {<<x, n>>} : q = p}
                        /\ r.sized[q] = t.sized[q] \cup {c \in {<<x, n>>} : q = p /\ q \in Stretching}
  BY <1>1, <1>2 DEF Added
<1>7. \A q \in Layers : r.opened[q] = u.opened[q] \cup {c \in Ids(u, s) : q = p}
  <2>. SUFFICES ASSUME NEW q \in Layers
                PROVE  r.opened[q] = u.opened[q] \cup {c \in Ids(u, s) : q = p}
    OBVIOUS
  <2>. HIDE DEF n
  <2>1. t.opened[q] = u.opened[q] \cup {c \in Ids(u, s \ {x}) : q = p}  BY DEF AddedToAll
  <2>2. r.opened[q] = t.opened[q] \cup {c \in {<<x, n>>} : q = p}  BY <1>6
  <2>3. {c \in Ids(u, s) : q = p} = {c \in Ids(u, s \ {x}) : q = p} \cup {c \in {<<x, n>>} : q = p}
    BY <1>3
  <2>. QED  BY <2>1, <2>2, <2>3
<1>8. \A q \in Layers : r.sized[q] = u.sized[q] \cup {c \in Ids(u, s) : q = p /\ q \in Stretching}
  <2>. SUFFICES ASSUME NEW q \in Layers
                PROVE  r.sized[q] = u.sized[q] \cup {c \in Ids(u, s) : q = p /\ q \in Stretching}
    OBVIOUS
  <2>. HIDE DEF n
  <2>. DEFINE yes == q = p /\ q \in Stretching
  <2>1. t.sized[q] = u.sized[q] \cup {c \in Ids(u, s \ {x}) : yes}  BY DEF AddedToAll
  <2>2. r.sized[q] = t.sized[q] \cup {c \in {<<x, n>>} : yes}  BY <1>6
  <2>3. {c \in Ids(u, s) : yes} = {c \in Ids(u, s \ {x}) : yes} \cup {c \in {<<x, n>>} : yes}
    <3>. HIDE DEF yes
    <3>. QED  BY <1>3
  <2>. QED  BY <2>1, <2>2, <2>3
<1>9. \A c \in ChildViewIds :
          r.sent[c] = IF c \in Ids(u, s) /\ p \in Stretching THEN RectOf(layers) ELSE u.sent[c]
  <2>1. \A c \in ChildViewIds :
            t.sent[c] = IF c \in Ids(u, s \ {x}) /\ p \in Stretching THEN RectOf(layers) ELSE u.sent[c]
    BY DEF AddedToAll
  <2>2. \A c \in ChildViewIds :
            r.sent[c] = IF c = <<x, n>> /\ p \in Stretching THEN RectOf(layers) ELSE t.sent[c]
    BY <1>1, <1>2 DEF Added
  <2>. HIDE DEF n
  <2>. QED  BY <1>3, <2>1, <2>2
<1>10. r \in Worlds  BY <1>1 DEF Added
<1>11. AddedToAll(u, r, s, p, layers)  BY <1>4, <1>5, <1>7, <1>8, <1>9 DEF AddedToAll
<1>. QED  BY <1>10, <1>11 DEF r

\* addPresentation(): all open views have the new layer, the others are as
\* before.
LEMMA AddToAllIs ==
    ASSUME NEW u \in Worlds, NEW S \in SUBSET OverlayViews, NEW p \in Layers, NEW layers,
           RectOf(layers) \in Areas
    PROVE  LET t == AddToAll(u, S, p, layers) IN t \in Worlds /\ AddedToAll(u, t, S, p, layers)
<1>. DEFINE pick == [s \in SUBSET S |-> CHOOSE x \in s : TRUE]
            step == [z \in (SUBSET S) \X Worlds |-> AddChild(z[2], pick[z[1]], p, layers)]
            G == [s \in SUBSET S |-> {t \in Worlds : AddedToAll(u, t, s, p, layers)}]
<1>0. IsFiniteSet(S)  BY ViewsAssumption, FS_Subset
<1>1. \A s \in SUBSET S : s # {} => pick[s] \in s  OBVIOUS
<1>2. u \in G[{}]
  <2>1. Ids(u, {}) = {}  BY DEF Ids
  <2>2. AddedToAll(u, u, {}, p, layers)  BY <2>1 DEF AddedToAll
  <2>. QED  BY <2>2
<1>3. ASSUME NEW s \in SUBSET S, s # {}, NEW t \in G[s \ {pick[s]}]
      PROVE  AddChild(t, pick[s], p, layers) \in G[s]
  <2>. DEFINE x == pick[s]
  <2>1. x \in s  BY <1>1, <1>3
  <2>2. t \in Worlds /\ AddedToAll(u, t, s \ {x}, p, layers)
    <3>. HIDE DEF pick
    <3>1. s \ {pick[s]} \in SUBSET S  OBVIOUS
    <3>2. G[s \ {pick[s]}] = {y \in Worlds : AddedToAll(u, y, s \ {pick[s]}, p, layers)}  BY <3>1
    <3>. HIDE DEF G
    <3>. QED  BY <1>3, <3>2
  <2>. HIDE DEF x, pick
  <2>3. s \in SUBSET OverlayViews  OBVIOUS
  <2>4. /\ AddChild(t, x, p, layers) \in Worlds
        /\ AddedToAll(u, AddChild(t, x, p, layers), s, p, layers)
    BY <2>1, <2>2, <2>3, AddedToOneMore
  <2>. QED  BY <2>4 DEF x
<1>4. \A s \in SUBSET S : G[s] \subseteq Worlds  OBVIOUS
<1>5. PICK f : FoldOf(f, S, pick, u, step) /\ \A s \in SUBSET S : f[s] \in G[s]
  <2>1. ASSUME NEW s \in SUBSET S, s # {}, NEW t \in G[s \ {pick[s]}] PROVE step[<<s, t>>] \in G[s]
    <3>1. t \in Worlds  BY <1>4, <2>1
    <3>2. step[<<s, t>>] = AddChild(t, pick[s], p, layers)
      <4>. HIDE DEF pick
      <4>. QED  BY <3>1
    <3>3. AddChild(t, pick[s], p, layers) \in G[s]
      <4>. HIDE DEF G, pick
      <4>. QED  BY <1>3, <2>1
    <3>. HIDE DEF G, step, pick
    <3>. QED  BY <3>2, <3>3
  <2>2. \A s \in SUBSET S : s # {} => \A t \in G[s \ {pick[s]}] : step[<<s, t>>] \in G[s]  BY <2>1
  <2>. HIDE DEF pick, step, G
  <2>. QED  BY <1>0, <1>1, <1>2, <2>2, FoldLeads
<1>. DEFINE Fits(g) == g = [s \in SUBSET S |-> IF s = {} THEN u
                             ELSE AddChild(g[s \ {CHOOSE x \in s : TRUE}], CHOOSE x \in s : TRUE, p, layers)]
            it == CHOOSE g : Fits(g)
<1>6. AddToAll(u, S, p, layers) = it[S]  BY DEF AddToAll, FoldSet, MapThenFoldSet
<1>7. Fits(f)
  <2>1. ASSUME NEW s \in SUBSET S
        PROVE  f[s] = IF s = {} THEN u
                      ELSE AddChild(f[s \ {CHOOSE x \in s : TRUE}], CHOOSE x \in s : TRUE, p, layers)
    <3>1. f[s] = IF s = {} THEN u ELSE step[<<s, f[s \ {pick[s]}]>>]  BY <1>5 DEF FoldOf
    <3>2. f[s \ {pick[s]}] \in Worlds
      <4>1. s \ {pick[s]} \in SUBSET S  OBVIOUS
      <4>. HIDE DEF G, pick
      <4>. QED  BY <1>4, <1>5, <4>1
    <3>3. pick[s] = CHOOSE x \in s : TRUE  OBVIOUS
    <3>4. step[<<s, f[s \ {pick[s]}]>>] = AddChild(f[s \ {pick[s]}], pick[s], p, layers)
      <4>. HIDE DEF pick
      <4>. QED  BY <3>2
    <3>. HIDE DEF step, pick
    <3>. QED  BY <3>1, <3>3, <3>4
  <2>2. f = [s \in SUBSET S |-> f[s]]  BY <1>5 DEF FoldOf
  <2>. QED  BY <2>1, <2>2
<1>8. Fits(it)  BY <1>7
<1>9. \A s \in SUBSET S : it[s] = IF s = {} THEN u
                    ELSE AddChild(it[s \ {CHOOSE x \in s : TRUE}], CHOOSE x \in s : TRUE, p, layers)
  BY <1>8
<1>. HIDE DEF it, Fits
<1>10. \A s \in SUBSET S : s # {} /\ it[s \ {pick[s]}] \in G[s \ {pick[s]}] => it[s] \in G[s]
  <2>. SUFFICES ASSUME NEW s \in SUBSET S, s # {}, it[s \ {pick[s]}] \in G[s \ {pick[s]}]
                PROVE  it[s] \in G[s]
    OBVIOUS
  <2>1. it[s] = AddChild(it[s \ {pick[s]}], pick[s], p, layers)
    <3>1. pick[s] = CHOOSE x \in s : TRUE  OBVIOUS
    <3>. HIDE DEF G, pick
    <3>. QED  BY <1>9, <3>1
  <2>. HIDE DEF G, pick
  <2>. QED  BY <1>3, <2>1
<1>11. it[{}] \in G[{}]
  <2>. HIDE DEF G
  <2>. QED  BY <1>2, <1>9
<1>13. it[S] \in G[S]
  <2>. HIDE DEF G, pick
  <2>. QED  BY ONLY <1>0, <1>1, <1>10, <1>11, FoldStays
<1>14. G[S] = {t \in Worlds : AddedToAll(u, t, S, p, layers)}  OBVIOUS
<1>. HIDE DEF G
<1>. QED  BY <1>6, <1>13, <1>14

-----------------------------------------------------------------------------
(* All layers are added to a view.                                         *)
Filled(u, t, v, s, k) ==
    /\ \A w \in OverlayViews \ {v} : t.info[w] = u.info[w]
    /\ t.info[v].state = u.info[v].state
    /\ Len(t.info[v].children) = k /\ \A i \in 1..k : t.info[v].children[i] = s[i]
    /\ Len(t.info[v].shown) = k
    /\ \A p \in Layers : \/ t.info[v].of[p] \in 1..k /\ s[t.info[v].of[p]] = p
                         \/ t.info[v].of[p] = NoView /\ \A i \in 1..k : s[i] # p
    /\ \A q \in Layers : t.opened[q] = u.opened[q] \cup {c \in {v} \X (1..k) : s[c[2]] = q}
    /\ \A q \in Layers : t.sized[q] = u.sized[q] \cup {c \in {v} \X (1..k) : s[c[2]] = q /\ q \in Stretching}
    /\ \A c \in ChildViewIds :
          t.sent[c] = IF c[1] = v /\ c[2] \in 1..k /\ s[c[2]] \in Stretching THEN RectOf(Range(s)) ELSE u.sent[c]

\* A layer more of those that addChildren() goes through.
LEMMA FilledOneMore ==
    ASSUME NEW u \in Worlds, NEW t \in Worlds, NEW v \in OverlayViews, NEW s \in Seq(Layers),
           NEW k \in 1..Len(s), Filled(u, t, v, s, k - 1)
    PROVE  LET r == AddChild(t, v, s[k], Range(s)) IN r \in Worlds /\ Filled(u, r, v, s, k)
<1>. DEFINE r == AddChild(t, v, s[k], Range(s))
            p == s[k]
<1>0. p \in Layers /\ RectOf(Range(s)) \in Areas /\ Len(s) \in Nat /\ k \in Nat /\ k - 1 \in Nat
  <2>1. Range(s) \subseteq Layers /\ IsFiniteSet(Range(s))  BY LayersFinite
  <2>2. RectOf(Range(s)) \in Areas  BY <2>1, RectIs
  <2>. QED  BY <2>2
<1>1. Added(t, r, v, p, Range(s))  BY <1>0, AddChildIs
<1>. HIDE DEF r
<1>2. Len(t.info[v].children) + 1 = k  BY <1>0 DEF Filled
<1>3. t.info[v].children \in Seq(Layers) /\ t.info[v].shown \in Seq(BOOLEAN) /\ t.info[v].of \in [Layers -> Nat]
  BY DEF Worlds, Infos
<1>4. \A w \in OverlayViews \ {v} : r.info[w] = u.info[w]  BY <1>1 DEF Added, Filled
<1>5. r.info[v].state = u.info[v].state  BY <1>1 DEF Added, Filled
<1>6. Len(r.info[v].children) = k /\ \A i \in 1..k : r.info[v].children[i] = s[i]
  <2>1. r.info[v].children = Append(t.info[v].children, p)  BY <1>1 DEF Added
  <2>2. Len(t.info[v].children) = k - 1 /\ \A i \in 1..(k - 1) : t.info[v].children[i] = s[i]
    BY DEF Filled
  <2>3. Len(r.info[v].children) = k /\ r.info[v].children[k] = p
    <3>1. \A q \in Seq(Layers) : Len(Append(q, p)) = Len(q) + 1 /\ Append(q, p)[Len(q) + 1] = p  BY <1>0
    <3>2. Len(r.info[v].children) = (k - 1) + 1 /\ r.info[v].children[(k - 1) + 1] = p
      BY <1>3, <2>1, <2>2, <3>1
    <3>. QED  BY <1>0, <3>2
  <2>4. \A i \in 1..(k - 1) : r.info[v].children[i] = t.info[v].children[i]
    BY <1>0, <1>3, <2>1, <2>2
  <2>5. \A i \in 1..k : i = k \/ i \in 1..(k - 1)  BY <1>0
  <2>. QED  BY <2>2, <2>3, <2>4, <2>5
<1>7. Len(r.info[v].shown) = k
  <2>1. r.info[v].shown = Append(t.info[v].shown, TRUE)  BY <1>1 DEF Added
  <2>2. Len(t.info[v].shown) = k - 1  BY DEF Filled
  <2>. QED  BY <1>0, <1>3, <2>1, <2>2
<1>8. \A q \in Layers : \/ r.info[v].of[q] \in 1..k /\ s[r.info[v].of[q]] = q
                        \/ r.info[v].of[q] = NoView /\ \A i \in 1..k : s[i] # q
  <2>1. r.info[v].of = [t.info[v].of EXCEPT ![p] = k]  BY <1>1, <1>2 DEF Added
  <2>2. \A q \in Layers : \/ t.info[v].of[q] \in 1..(k - 1) /\ s[t.info[v].of[q]] = q
                          \/ t.info[v].of[q] = NoView /\ \A i \in 1..(k - 1) : s[i] # q
    BY DEF Filled
  <2>3. SUFFICES ASSUME NEW q \in Layers
                 PROVE  \/ r.info[v].of[q] \in 1..k /\ s[r.info[v].of[q]] = q
                        \/ r.info[v].of[q] = NoView /\ \A i \in 1..k : s[i] # q
    OBVIOUS
  <2>4. CASE q = p
    <3>1. r.info[v].of[q] = k  BY <1>0, <1>3, <2>1, <2>4
    <3>. QED  BY <1>0, <2>4, <3>1
  <2>5. CASE q # p
    <3>1. r.info[v].of[q] = t.info[v].of[q]  BY <1>3, <2>1, <2>5
    <3>. QED  BY <1>0, <2>2, <2>5, <3>1
  <2>. QED  BY <2>4, <2>5
<1>9. \A q \in Layers : /\ r.opened[q] = t.opened[q] \cup {c \in {<<v, k>>} : q = p}
                        /\ r.sized[q] = t.sized[q] \cup {c \in {<<v, k>>} : q = p /\ q \in Stretching}
  BY <1>1, <1>2 DEF Added
<1>10. \A q \in Layers : r.opened[q] = u.opened[q] \cup {c \in {v} \X (1..k) : s[c[2]] = q}
  <2>1. \A q \in Layers : t.opened[q] = u.opened[q] \cup {c \in {v} \X (1..(k - 1)) : s[c[2]] = q}  BY DEF Filled
  <2>2. \A q \in Layers : {c \in {v} \X (1..k) : s[c[2]] = q}
                            = {c \in {v} \X (1..(k - 1)) : s[c[2]] = q} \cup {c \in {<<v, k>>} : q = p}
    BY <1>0
  <2>. QED  BY <1>9, <2>1, <2>2
<1>11. \A q \in Layers : r.sized[q] = u.sized[q] \cup {c \in {v} \X (1..k) : s[c[2]] = q /\ q \in Stretching}
  <2>1. \A q \in Layers : t.sized[q] = u.sized[q] \cup {c \in {v} \X (1..(k - 1)) : s[c[2]] = q /\ q \in Stretching}
    BY DEF Filled
  <2>2. \A q \in Layers : {c \in {v} \X (1..k) : s[c[2]] = q /\ q \in Stretching}
                            = {c \in {v} \X (1..(k - 1)) : s[c[2]] = q /\ q \in Stretching}
                                \cup {c \in {<<v, k>>} : q = p /\ q \in Stretching}
    BY <1>0
  <2>. QED  BY <1>9, <2>1, <2>2
<1>12. \A c \in ChildViewIds :
          r.sent[c] = IF c[1] = v /\ c[2] \in 1..k /\ s[c[2]] \in Stretching THEN RectOf(Range(s)) ELSE u.sent[c]
  <2>. SUFFICES ASSUME NEW c \in ChildViewIds
                PROVE  r.sent[c] = IF c[1] = v /\ c[2] \in 1..k /\ s[c[2]] \in Stretching
                                   THEN RectOf(Range(s)) ELSE u.sent[c]
    OBVIOUS
  <2>1. t.sent[c] = IF c[1] = v /\ c[2] \in 1..(k - 1) /\ s[c[2]] \in Stretching
                    THEN RectOf(Range(s)) ELSE u.sent[c]
    BY DEF Filled
  <2>2. r.sent[c] = IF c = <<v, k>> /\ p \in Stretching THEN RectOf(Range(s)) ELSE t.sent[c]
    BY <1>1, <1>2 DEF Added
  <2>3. c = <<v, k>> <=> c[1] = v /\ c[2] = k  BY DEF ChildViewIds
  <2>. HIDE DEF ChildViewIds
  <2>. QED  BY <1>0, <2>1, <2>2, <2>3
<1>13. r \in Worlds  BY <1>1 DEF Added
<1>14. Filled(u, r, v, s, k)  BY <1>4, <1>5, <1>6, <1>7, <1>8, <1>10, <1>11, <1>12 DEF Filled
<1>. QED  BY <1>13, <1>14 DEF r

\* addChildren(): the view has all layers, in their order.
LEMMA AddChildrenIs ==
    ASSUME NEW u \in Worlds, NEW v \in OverlayViews, NEW s \in Seq(Layers),
           u.info[v].children = <<>>, u.info[v].shown = <<>>, \A p \in Layers : u.info[v].of[p] = NoView
    PROVE  LET t == AddChildren(u, v, s) IN t \in Worlds /\ Filled(u, t, v, s, Len(s))
<1>. DEFINE n == Len(s)
            step == [z \in (1..n) \X Worlds |-> AddChild(z[2], v, s[z[1]], Range(s))]
            G == [k \in 0..n |-> {t \in Worlds : Filled(u, t, v, s, k)}]
<1>0. n \in Nat /\ DOMAIN s = 1..n /\ RectOf(Range(s)) \in Areas
  <2>1. Range(s) \subseteq Layers /\ IsFiniteSet(Range(s))  BY LayersFinite
  <2>2. RectOf(Range(s)) \in Areas  BY <2>1, RectIs
  <2>. QED  BY <2>2
<1>. HIDE DEF n
<1>1. \A i \in 1..n : \A t \in Worlds : AddChild(t, v, s[i], Range(s)) \in Worlds
  <2>. SUFFICES ASSUME NEW i \in 1..n, NEW t \in Worlds PROVE AddChild(t, v, s[i], Range(s)) \in Worlds  OBVIOUS
  <2>1. s[i] \in Layers  BY <1>0 DEF n
  <2>. QED  BY <1>0, <2>1, AddChildIs DEF Added
<1>2. \A i \in 1..n : \A t \in Worlds : step[<<i, t>>] = AddChild(t, v, s[i], Range(s))  OBVIOUS
<1>3. u \in G[0]
  <2>1. Filled(u, u, v, s, 0)  BY DEF Filled
  <2>. QED  BY <1>0, <2>1
<1>4. \A k \in 1..n : \A t \in Worlds : t \in G[k - 1] => step[<<k, t>>] \in G[k]
  <2>. SUFFICES ASSUME NEW k \in 1..n, NEW t \in Worlds, t \in G[k - 1] PROVE step[<<k, t>>] \in G[k]  OBVIOUS
  <2>1. Filled(u, t, v, s, k - 1) /\ k \in 1..Len(s)  BY <1>0 DEF n
  <2>2. LET r == AddChild(t, v, s[k], Range(s)) IN r \in Worlds /\ Filled(u, r, v, s, k)
    BY <2>1, FilledOneMore
  <2>3. k \in 0..n  BY <1>0
  <2>. HIDE DEF step
  <2>. QED  BY <1>2, <2>2, <2>3
<1>5. PICK f : /\ LoopOf(f, n, u, step)
               /\ \A r \in SUBSET (1..n) : f[r] \in Worlds
               /\ f[1..n] \in G[n]
  <2>1. \A i \in 1..n : \A t \in Worlds : step[<<i, t>>] \in Worlds  BY <1>1, <1>2
  <2>. HIDE DEF step, G
  <2>. QED  BY <1>0, <1>3, <1>4, <2>1, LeftLeads
<1>. DEFINE Fits(g) == g = [r \in SUBSET (1..n) |-> IF r = {} THEN u
                                ELSE AddChild(g[r \ {Max(r)}], v, s[Max(r)], Range(s))]
            it == CHOOSE g : Fits(g)
<1>6. AddChildren(u, v, s) = it[1..n]  BY <1>0 DEF AddChildren, FoldLeft, MapThenFoldSet
<1>7. \A r \in SUBSET (1..n) : r # {} => Max(r) \in 1..n /\ r \ {Max(r)} \in SUBSET (1..n)
  <2>. SUFFICES ASSUME NEW r \in SUBSET (1..n), r # {} PROVE Max(r) \in r  OBVIOUS
  <2>1. IsFiniteSet(1..n) /\ 1..n \subseteq Int  BY <1>0, FS_Interval
  <2>2. IsFiniteSet(r) /\ r \subseteq Int  BY <2>1, FS_Subset
  <2>. QED  BY <2>2, MaxIs
<1>8. \A r \in SUBSET (1..n) : f[r] = IF r = {} THEN u ELSE AddChild(f[r \ {Max(r)}], v, s[Max(r)], Range(s))
  <2>1. \A r \in SUBSET (1..n) : f[r] = IF r = {} THEN u ELSE step[<<Max(r), f[r \ {Max(r)}]>>]
    BY <1>5 DEF LoopOf
  <2>. HIDE DEF step
  <2>. QED  BY <1>2, <1>5, <1>7, <2>1
<1>9. Fits(f)
  <2>1. f = [r \in SUBSET (1..n) |-> f[r]]  BY <1>5 DEF LoopOf
  <2>. QED  BY <1>8, <2>1
<1>10. Fits(it)  BY <1>9
<1>11. \A r \in SUBSET (1..n) : it[r] = IF r = {} THEN u ELSE AddChild(it[r \ {Max(r)}], v, s[Max(r)], Range(s))
  BY <1>10
<1>12. OnSubsets(it, n)
  <2>1. it = [r \in SUBSET (1..n) |-> it[r]]  BY <1>10
  <2>. HIDE DEF it, Fits
  <2>. QED  BY <2>1 DEF OnSubsets
<1>. HIDE DEF it, Fits
<1>13. it = f
  <2>1. OnSubsets(f, n)  BY <1>5 DEF LoopOf, OnSubsets
  <2>2. it[{}] = f[{}]  BY <1>8, <1>11
  <2>3. \A r \in SUBSET (1..n) : r # {} /\ it[r \ {Max(r)}] = f[r \ {Max(r)}] => it[r] = f[r]
    BY <1>8, <1>11
  <2>4. n \in Nat  BY <1>0
  <2>. HIDE DEF step, G
  <2>. QED  BY <2>4, <1>12, <2>1, <2>2, <2>3, LeftOnly
<1>14. G[n] = {t \in Worlds : Filled(u, t, v, s, n)}  BY <1>0
<1>. HIDE DEF G
<1>. QED  BY <1>5, <1>6, <1>13, <1>14 DEF n

-----------------------------------------------------------------------------
(* A view is drawn.                                                        *)

\* There is something below as soon as a layer has been painted.
Drawings(layers) ==
    {d \in [count : Nat, clear : [Layers -> BOOLEAN],
            painted : Seq([layer : 1..Len(layers), clear : BOOLEAN])] :
        /\ d.count > 0 <=> d.painted # <<>>
        /\ \A i \in DOMAIN d.painted :
              layers[d.painted[i].layer] \in Seethrough => d.painted[i].clear = (i > 1)}

\* One layer is painted, or skipped if it is hidden.
LEMMA PaintedIs ==
    ASSUME NEW v, NEW layers \in Seq(Layers), NEW d \in Drawings(layers), NEW i \in 1..Len(layers)
    PROVE  Painted(v, i, layers[i], d) \in Drawings(layers)
<1>. DEFINE p == layers[i]
            sees == p \in Seethrough
            bg == IF sees THEN d.count > 0 ELSE d.clear[p]
            r == [count   |-> IF sees /\ bg THEN d.count ELSE d.count + 1,
                  clear   |-> [d.clear EXCEPT ![p] = bg],
                  painted |-> Append(d.painted, [layer |-> i, clear |-> bg])]
            Entries == [layer : 1..Len(layers), clear : BOOLEAN]
<1>0. /\ d.count \in Nat /\ d.clear \in [Layers -> BOOLEAN] /\ d.painted \in Seq(Entries)
      /\ d.count > 0 <=> d.painted # <<>>
      /\ \A j \in DOMAIN d.painted :
              layers[d.painted[j].layer] \in Seethrough => d.painted[j].clear = (j > 1)
      /\ p \in Layers
  BY DEF Drawings
<1>1. CASE ~childViews[v].shown[i]  BY <1>1 DEF Painted
<1>2. CASE childViews[v].shown[i]
  <2>1. Painted(v, i, layers[i], d) = r  BY <1>2 DEF Painted
  <2>2. bg \in BOOLEAN
    <3>1. (d.count > 0) \in BOOLEAN  OBVIOUS
    <3>2. d.clear[p] \in BOOLEAN  BY <1>0
    <3>. QED  BY <3>1, <3>2, Zenon
  <2>3. [layer |-> i, clear |-> bg] \in Entries  BY <2>2
  <2>. DEFINE e == [layer |-> i, clear |-> bg]
              n == Len(d.painted)
  <2>4. e.layer = i /\ e.clear = bg  OBVIOUS
  <2>5. r.count = (IF sees /\ bg THEN d.count ELSE d.count + 1) /\ r.painted = Append(d.painted, e)
    OBVIOUS
  <2>6. r.clear \in [Layers -> BOOLEAN]
    <3>1. r.clear = [d.clear EXCEPT ![p] = bg]  OBVIOUS
    <3>. HIDE DEF bg, p, r
    <3>. QED  BY <1>0, <2>2, <3>1
  <2>7. r = [count |-> r.count, clear |-> r.clear, painted |-> r.painted]  OBVIOUS
  <2>8. n \in Nat /\ (d.painted = <<>> <=> n = 0) /\ DOMAIN d.painted = 1..n  BY <1>0
  <2>9. sees => bg = (d.count > 0)  OBVIOUS
  <2>. HIDE DEF r, bg, e, sees
  <2>10. r.count \in Nat /\ r.count > 0
    <3>1. CASE sees /\ bg  BY <1>0, <2>5, <2>9, <3>1
    <3>2. CASE ~(sees /\ bg)  BY <1>0, <2>5, <3>2
    <3>. QED  BY <3>1, <3>2
  <2>11. /\ r.painted \in Seq(Entries) /\ DOMAIN r.painted = 1..(n + 1)
         /\ \A j \in 1..n : r.painted[j] = d.painted[j]
         /\ r.painted[n + 1] = e /\ r.painted # <<>>
    <3>1. e \in Entries  BY <2>3 DEF e
    <3>. QED  BY <1>0, <2>5, <2>8, <3>1
  <2>12. ASSUME NEW j \in 1..(n + 1), layers[r.painted[j].layer] \in Seethrough
         PROVE  r.painted[j].clear = (j > 1)
    <3>1. CASE j \in 1..n  BY <1>0, <2>8, <2>11, <2>12, <3>1
    <3>2. CASE j = n + 1
      <4>1. r.painted[j] = e /\ sees  BY <2>4, <2>11, <2>12, <3>2 DEF sees
      <4>2. r.painted[j].clear = (d.count > 0)  BY <2>4, <2>9, <4>1
      <4>3. d.count > 0 <=> n > 0  BY <1>0, <2>8
      <4>4. (d.count > 0) = (j > 1)  BY <1>0, <2>8, <3>2, <4>3
      <4>. QED  BY <4>2, <4>4
    <3>. QED  BY <2>8, <3>1, <3>2
  <2>13. r \in Drawings(layers)  BY <2>6, <2>7, <2>10, <2>11, <2>12 DEF Drawings
  <2>. QED  BY <2>1, <2>13
<1>. QED  BY <1>1, <1>2

\* redraw(): the layers shown are painted, and which of them clear the canvas
\* first.
LEMMA PaintedAllIs ==
    ASSUME NEW v, NEW s \in Seq(Layers), clear \in [Layers -> BOOLEAN]
    PROVE  PaintedAll(v, s) \in Drawings(s)
<1>. DEFINE n == Len(s)
            base == [count |-> 0, clear |-> clear, painted |-> <<>>]
            step == [z \in (1..n) \X Drawings(s) |-> Painted(v, z[1], s[z[1]], z[2])]
            G == [k \in 0..n |-> Drawings(s)]
            ids == [i \in DOMAIN s |-> i]
<1>0. n \in Nat /\ DOMAIN s = 1..n  OBVIOUS
<1>1. base \in Drawings(s)
  <2>1. base.count = 0 /\ base.clear = clear /\ base.painted = <<>>  OBVIOUS
  <2>2. <<>> \in Seq([layer : 1..Len(s), clear : BOOLEAN]) /\ DOMAIN <<>> = {}  OBVIOUS
  <2>3. base = [count |-> base.count, clear |-> base.clear, painted |-> base.painted]  OBVIOUS
  <2>. HIDE DEF base
  <2>4. base \in [count : Nat, clear : [Layers -> BOOLEAN],
                  painted : Seq([layer : 1..Len(s), clear : BOOLEAN])]
    <3>. DEFINE Entries == [layer : 1..Len(s), clear : BOOLEAN]
    <3>1. base.count \in Nat /\ base.clear \in [Layers -> BOOLEAN] /\ base.painted \in Seq(Entries)
      BY <2>1, <2>2
    <3>. HIDE DEF Entries
    <3>2. base \in [count : Nat, clear : [Layers -> BOOLEAN], painted : Seq(Entries)]  BY <2>3, <3>1
    <3>. QED  BY <3>2 DEF Entries
  <2>5. DOMAIN base.painted = {} /\ ~(base.count > 0)  BY <2>1, <2>2
  <2>. QED  BY <2>1, <2>4, <2>5 DEF Drawings
<1>2. \A i \in 1..n : \A d \in Drawings(s) : /\ step[<<i, d>>] = Painted(v, i, s[i], d)
                                             /\ step[<<i, d>>] \in Drawings(s)
  BY PaintedIs
<1>. HIDE DEF n, step, base
<1>3. PICK f : /\ LoopOf(f, n, base, step)
               /\ \A r \in SUBSET (1..n) : f[r] \in Drawings(s)
               /\ f[1..n] \in G[n]
  <2>1. base \in G[0]  BY <1>0, <1>1
  <2>2. \A k \in 1..n : \A d \in Drawings(s) : d \in G[k - 1] => step[<<k, d>>] \in G[k]
    BY <1>0, <1>2
  <2>3. \A i \in 1..n : \A d \in Drawings(s) : step[<<i, d>>] \in Drawings(s)  BY <1>2
  <2>. HIDE DEF G
  <2>. QED  BY <1>0, <1>1, <2>1, <2>2, <2>3, LeftLeads
<1>. DEFINE Fits(g) == g = [r \in SUBSET (1..n) |-> IF r = {} THEN base
                                ELSE Painted(v, ids[Max(r)], s[ids[Max(r)]], g[r \ {Max(r)}])]
            it == CHOOSE g : Fits(g)
<1>4. PaintedAll(v, s) = it[1..n]
  <2>1. DOMAIN ids = 1..n  BY <1>0
  <2>. QED  BY <1>0, <2>1 DEF PaintedAll, FoldLeftDomain, FoldLeft, MapThenFoldSet, base
<1>5. \A r \in SUBSET (1..n) : r # {} => Max(r) \in 1..n /\ r \ {Max(r)} \in SUBSET (1..n)
  <2>. SUFFICES ASSUME NEW r \in SUBSET (1..n), r # {} PROVE Max(r) \in r  OBVIOUS
  <2>1. IsFiniteSet(1..n) /\ 1..n \subseteq Int  BY <1>0, FS_Interval
  <2>2. IsFiniteSet(r) /\ r \subseteq Int  BY <2>1, FS_Subset
  <2>. QED  BY <2>2, MaxIs
<1>6. \A r \in SUBSET (1..n) : r # {} => ids[Max(r)] = Max(r)  BY <1>0, <1>5
<1>. HIDE DEF ids
<1>7. \A r \in SUBSET (1..n) : f[r] = IF r = {} THEN base
                                      ELSE Painted(v, ids[Max(r)], s[ids[Max(r)]], f[r \ {Max(r)}])
  <2>1. \A r \in SUBSET (1..n) : f[r] = IF r = {} THEN base ELSE step[<<Max(r), f[r \ {Max(r)}]>>]
    BY <1>3 DEF LoopOf
  <2>. SUFFICES ASSUME NEW r \in SUBSET (1..n), r # {}
                PROVE  step[<<Max(r), f[r \ {Max(r)}]>>]
                         = Painted(v, ids[Max(r)], s[ids[Max(r)]], f[r \ {Max(r)}])
    BY <2>1
  <2>2. Max(r) \in 1..n /\ f[r \ {Max(r)}] \in Drawings(s) /\ ids[Max(r)] = Max(r)  BY <1>3, <1>5, <1>6
  <2>. QED  BY <1>2, <2>2
<1>8. Fits(f)
  <2>1. f = [r \in SUBSET (1..n) |-> f[r]]  BY <1>3 DEF LoopOf
  <2>. QED  BY <1>7, <2>1
<1>9. Fits(it)  BY <1>8
<1>10. \A r \in SUBSET (1..n) : it[r] = IF r = {} THEN base
                                        ELSE Painted(v, ids[Max(r)], s[ids[Max(r)]], it[r \ {Max(r)}])
  BY <1>9
<1>11. OnSubsets(it, n) /\ OnSubsets(f, n)
  <2>1. it = [r \in SUBSET (1..n) |-> it[r]]  BY <1>9
  <2>. HIDE DEF it, Fits
  <2>. QED  BY <1>3, <2>1 DEF OnSubsets, LoopOf
<1>. HIDE DEF it, Fits
<1>12. it = f
  <2>1. it[{}] = f[{}]  BY <1>7, <1>10
  <2>2. \A r \in SUBSET (1..n) : r # {} /\ it[r \ {Max(r)}] = f[r \ {Max(r)}] => it[r] = f[r]
    BY <1>7, <1>10
  <2>. QED  BY <1>0, <1>11, <2>1, <2>2, LeftOnly
<1>. QED  BY <1>0, <1>3, <1>4, <1>12
-----------------------------------------------------------------------------
(* Layers that are there once.                                             *)
OnceIn(s, p) == Cardinality({i \in DOMAIN s : s[i] = p}) <= 1

\* Two places of something that is there once are the same place.
LEMMA OnlyOne ==
    ASSUME NEW s \in Seq(Layers), NEW p, OnceIn(s, p), NEW i \in DOMAIN s, NEW j \in DOMAIN s,
           s[i] = p, s[j] = p
    PROVE  i = j
<1>. SUFFICES ASSUME i # j PROVE FALSE  OBVIOUS
<1>. DEFINE I == {k \in DOMAIN s : s[k] = p}
<1>1. IsFiniteSet(I)
  <2>1. DOMAIN s = 1..Len(s) /\ Len(s) \in Nat  OBVIOUS
  <2>2. IsFiniteSet(DOMAIN s)  BY <2>1, FS_Interval
  <2>3. I \subseteq DOMAIN s  OBVIOUS
  <2>. HIDE DEF I
  <2>. QED  BY <2>2, <2>3, FS_Subset
<1>2. i \in I /\ j \in I  OBVIOUS
<1>3. Cardinality(I) <= 1  BY DEF OnceIn
<1>. HIDE DEF I
<1>4. Cardinality(I) \in Nat /\ Cardinality(I \ {i}) = Cardinality(I) - 1 /\ IsFiniteSet(I \ {i})
  BY <1>1, <1>2, FS_CardinalityType, FS_RemoveElement
<1>5. Cardinality(I \ {i}) = 0  BY <1>3, <1>4, FS_CardinalityType
<1>6. I \ {i} = {}  BY <1>4, <1>5, FS_EmptySet
<1>. QED  BY <1>2, <1>6

\* What is there once after a layer is appended, was before, unless it is that
\* layer.
LEMMA OnceBefore ==
    ASSUME NEW s \in Seq(Layers), NEW p \in Layers, NEW q \in Layers, OnceIn(Append(s, p), q)
    PROVE  OnceIn(s, q) /\ (q = p => p \notin Range(s))
<1>. DEFINE t == Append(s, p)
            I == {k \in DOMAIN s : s[k] = q}
            J == {k \in DOMAIN t : t[k] = q}
<1>1. /\ t \in Seq(Layers) /\ Len(s) \in Nat /\ DOMAIN s = 1..Len(s) /\ DOMAIN t = 1..(Len(s) + 1)
      /\ t[Len(s) + 1] = p /\ \A k \in 1..Len(s) : t[k] = s[k]
  OBVIOUS
<1>. HIDE DEF t
<1>2. I \subseteq J  BY <1>1
<1>3. IsFiniteSet(J)
  <2>1. Len(s) + 1 \in Int /\ 1 \in Int /\ DOMAIN t = 1..(Len(s) + 1)  BY <1>1
  <2>2. IsFiniteSet(DOMAIN t)  BY ONLY <2>1, FS_Interval
  <2>3. J \subseteq DOMAIN t  OBVIOUS
  <2>. HIDE DEF J
  <2>. QED  BY <2>2, <2>3, FS_Subset
<1>4. OnceIn(s, q)
  <2>1. Cardinality(J) <= 1  BY DEF OnceIn, t
  <2>. HIDE DEF I, J
  <2>2. IsFiniteSet(I) /\ Cardinality(I) <= Cardinality(J)  BY <1>2, <1>3, FS_Subset
  <2>3. Cardinality(I) \in Nat /\ Cardinality(J) \in Nat  BY <1>3, <2>2, FS_CardinalityType
  <2>4. Cardinality(I) <= 1  BY <2>1, <2>2, <2>3
  <2>. QED  BY <2>4 DEF OnceIn, I
<1>5. ASSUME q = p, p \in Range(s) PROVE FALSE
  <2>1. PICK k \in 1..Len(s) : s[k] = p  BY <1>1, <1>5 DEF Range
  <2>2. k \in DOMAIN t /\ Len(s) + 1 \in DOMAIN t /\ t[k] = q /\ t[Len(s) + 1] = q  BY <1>1, <1>5, <2>1
  <2>3. OnceIn(t, q)  BY DEF t
  <2>4. k = Len(s) + 1  BY <1>1, <2>2, <2>3, OnlyOne
  <2>. QED  BY <1>1, <2>4
<1>. QED  BY <1>4, <1>5

-----------------------------------------------------------------------------
(* The colours.                                                            *)
Inked(s, k, c) == {i \in DOMAIN s : s[i] \in Coloured /\ k[s[i]] = c}

\* The layers of one colour are finitely many.
LEMMA InkedFinite ==
    ASSUME NEW s \in Seq(Layers), NEW k, NEW c
    PROVE  IsFiniteSet(Inked(s, k, c)) /\ Cardinality(Inked(s, k, c)) \in Nat
<1>1. IsFiniteSet(DOMAIN s)
  <2>1. DOMAIN s = 1..Len(s) /\ Len(s) \in Nat  OBVIOUS
  <2>. QED  BY <2>1, FS_Interval
<1>2. Inked(s, k, c) \subseteq DOMAIN s  BY DEF Inked
<1>. QED  BY <1>1, <1>2, FS_Subset, FS_CardinalityType

\* No colour of the palette has less users than the optimal one.
LEMMA OptimalColorIs ==
    ASSUME stack \in Seq(Layers), NEW p
    PROVE  \A i \in DOMAIN Palette : Users(OptimalColor(p)) <= Users(Palette[i])
<1>. DEFINE U == [c \in {ink[p]} \cup Range(Palette) |-> Users(c)]
            better == {i \in DOMAIN Palette : Users(Palette[i]) < Users(ink[p])}
            best   == {i \in better : \A j \in better : Users(Palette[i]) <= Users(Palette[j])}
            counts == {Users(Palette[i]) : i \in better}
<1>1. \A c : Users(c) \in Nat
  <2>1. \A c : Users(c) = Cardinality(Inked(stack, ink, c))  BY DEF Users, Inked
  <2>. QED  BY <2>1, InkedFinite
<1>2. DOMAIN Palette = 1..Len(Palette) /\ Len(Palette) \in Nat  BY ColourAssumption
<1>3. IsFiniteSet(better) /\ IsFiniteSet(best)
  <2>1. IsFiniteSet(DOMAIN Palette)  BY <1>2, FS_Interval
  <2>2. better \subseteq DOMAIN Palette /\ best \subseteq better  OBVIOUS
  <2>. HIDE DEF better, best
  <2>3. IsFiniteSet(better)  BY <2>1, <2>2, FS_Subset
  <2>. QED  BY <2>2, <2>3, FS_Subset
<1>4. CASE better = {}
  <2>1. OptimalColor(p) = ink[p]  BY <1>4 DEF OptimalColor
  <2>2. \A i \in DOMAIN Palette : ~ (Users(Palette[i]) < Users(ink[p]))  BY <1>4
  <2>. QED  BY <1>1, <2>1, <2>2
<1>5. CASE better # {}
  <2>1. counts \subseteq Int /\ counts # {} /\ IsFiniteSet(counts)
    <3>. DEFINE f == [i \in better |-> Users(Palette[i])]
    <3>1. f \in Surjection(better, counts)  BY DEF Surjection
    <3>2. counts \subseteq Int /\ counts # {}  BY <1>1, <1>5
    <3>. HIDE DEF f, counts, better
    <3>. QED  BY <1>3, <3>1, <3>2, FS_Surjection
  <2>2. Min(counts) \in counts /\ \A n \in counts : Min(counts) <= n
    <3>. HIDE DEF counts
    <3>. QED  BY <2>1, MinIs
  <2>3. PICK i \in better : Min(counts) = Users(Palette[i])  BY <2>2
  <2>4. i \in best  BY <2>2, <2>3
  <2>5. Min(best) \in best
    <3>1. best \subseteq Int /\ best # {}  BY <1>2, <2>4
    <3>. HIDE DEF best
    <3>. QED  BY <1>3, <3>1, MinIs
  <2>6. OptimalColor(p) = Palette[Min(best)]  BY <1>5 DEF OptimalColor
  <2>. DEFINE m == Min(best)
  <2>7. m \in better /\ \A j \in better : Users(Palette[m]) <= Users(Palette[j])  BY <2>5
  <2>8. \A j \in DOMAIN Palette : j \notin better => Users(ink[p]) <= Users(Palette[j])  BY <1>1
  <2>9. Users(Palette[m]) < Users(ink[p])  BY <2>7
  <2>. HIDE DEF better, m
  <2>. QED  BY <1>1, <2>6, <2>7, <2>8, <2>9 DEF m
<1>. QED  BY <1>4, <1>5

\* A new layer leaves the users of each colour, if it is not there yet.
LEMMA UsersStay ==
    ASSUME stack \in Seq(Layers), NEW p \in Layers, p \notin Range(stack), NEW k, NEW c,
           \A q \in Range(stack) : k[q] = ink[q]
    PROVE  Cardinality(Inked(stack, ink, c)) <= Cardinality(Inked(Append(stack, p), k, c))
<1>. DEFINE t == Append(stack, p)
<1>1. /\ t \in Seq(Layers) /\ Len(stack) \in Nat /\ DOMAIN stack = 1..Len(stack)
      /\ DOMAIN t = 1..(Len(stack) + 1) /\ \A i \in 1..Len(stack) : t[i] = stack[i]
  OBVIOUS
<1>. HIDE DEF t
<1>2. \A i \in DOMAIN stack : stack[i] \in Range(stack)  BY DEF Range
<1>3. Inked(stack, ink, c) \subseteq Inked(t, k, c)  BY <1>1, <1>2 DEF Inked
<1>4. IsFiniteSet(Inked(t, k, c))  BY <1>1, InkedFinite
<1>. QED  BY <1>3, <1>4, FS_Subset DEF t

\* The colour of the new layer is one that no other layer has, as long as there
\* is one.
LEMMA AddPresentationColours ==
    ASSUME OverlayInv, NEW p \in Layers, AddPresentation(p)
    PROVE  ColoursDiffer'
<1>. SUFFICES ASSUME NEW a \in (Range(stack) \cap Coloured)', NEW b \in (Range(stack) \cap Coloured)',
                     a # b, ink'[a] = ink'[b], \A r \in Layers : Once(r)',
                     NEW i \in DOMAIN Palette
              PROVE  Users(Palette[i])' > 0
  BY DEF ColoursDiffer
<1>. DEFINE c == Palette[i]
<1>0. /\ stack \in Seq(Layers) /\ DOMAIN ink = Layers
      /\ stack' = Append(stack, p)
      /\ ink' = IF p \in Coloured THEN [ink EXCEPT ![p] = OptimalColor(p)] ELSE ink
  BY DEF OverlayInv, OverlayTypes, AddPresentation
<1>1. \A r \in Layers : Once(r) /\ (r = p => p \notin Range(stack))
  <2>1. \A r \in Layers : OnceIn(Append(stack, p), r)  BY <1>0 DEF Once, OnceIn
  <2>2. \A r \in Layers : OnceIn(stack, r) /\ (r = p => p \notin Range(stack))
    BY <1>0, <2>1, OnceBefore
  <2>. QED  BY <2>2 DEF Once, OnceIn
<1>2. Range(stack') = Range(stack) \cup {p} /\ Range(stack) \subseteq Layers
  <2>1. /\ Len(stack) \in Nat /\ DOMAIN stack = 1..Len(stack)
        /\ DOMAIN stack' = 1..(Len(stack) + 1) /\ stack'[Len(stack) + 1] = p
        /\ \A j \in 1..Len(stack) : stack'[j] = stack[j]
    BY <1>0
  <2>2. \A j \in 1..(Len(stack) + 1) : j \in 1..Len(stack) \/ j = Len(stack) + 1  BY <2>1
  <2>. QED  BY <1>0, <2>1, <2>2, LayersFinite DEF Range
<1>3. \A q \in Range(stack) : ink'[q] = ink[q]  BY <1>0, <1>1, <1>2
<1>4. Users(c) <= Users(c)' /\ Users(c) \in Nat /\ Users(c)' \in Nat
  <2>1. Users(c) = Cardinality(Inked(stack, ink, c)) /\ Users(c)' = Cardinality(Inked(stack', ink', c))
    BY DEF Users, Inked
  <2>2. Cardinality(Inked(stack, ink, c)) <= Cardinality(Inked(stack', ink', c))
    BY <1>0, <1>1, <1>3, UsersStay
  <2>3. stack' \in Seq(Layers)  BY <1>0
  <2>. QED  BY <1>0, <2>1, <2>2, <2>3, InkedFinite
<1>5. ASSUME NEW x \in Range(stack) \cap Coloured, ink[x] = ink'[p], p \in Coloured PROVE Users(c) > 0
  <2>1. ink'[p] = OptimalColor(p)  BY <1>0, <1>5
  <2>2. Users(ink[x]) <= Users(c)  BY <1>0, <1>5, <2>1, OptimalColorIs
  <2>3. Users(ink[x]) \in Nat /\ Users(ink[x]) # 0
    <3>0. Users(ink[x]) = Cardinality(Inked(stack, ink, ink[x]))  BY DEF Users, Inked
    <3>1. IsFiniteSet(Inked(stack, ink, ink[x]))  BY <1>0, InkedFinite
    <3>2. Inked(stack, ink, ink[x]) # {}  BY DEF Inked, Range
    <3>. QED  BY <3>0, <3>1, <3>2, FS_EmptySet, FS_CardinalityType
  <2>. QED  BY <1>4, <2>2, <2>3
<1>6. CASE a # p /\ b # p
  <2>1. a \in Range(stack) \cap Coloured /\ b \in Range(stack) \cap Coloured /\ ink[a] = ink[b]
    BY <1>2, <1>3, <1>6
  <2>2. Users(c) > 0  BY <1>1, <2>1 DEF OverlayInv, ColoursDiffer
  <2>. QED  BY <1>4, <2>2
<1>7. CASE a = p
  <2>1. b \in Range(stack) \cap Coloured /\ ink[b] = ink'[p] /\ p \in Coloured  BY <1>2, <1>3, <1>7
  <2>2. Users(c) > 0  BY <1>5, <2>1
  <2>. QED  BY <1>4, <2>2
<1>8. CASE b = p
  <2>1. a \in Range(stack) \cap Coloured /\ ink[a] = ink'[p] /\ p \in Coloured  BY <1>2, <1>3, <1>8
  <2>2. Users(c) > 0  BY <1>5, <2>1
  <2>. QED  BY <1>4, <2>2
<1>. QED  BY <1>6, <1>7, <1>8

-----------------------------------------------------------------------------
(* The steps.                                                              *)

\* What the steps need of the invariant.
LEMMA OverlayFacts ==
    ASSUME OverlayInv
    PROVE  /\ stack \in Seq(Layers) /\ Len(stack) \in Nat /\ DOMAIN stack = 1..Len(stack)
           /\ Len(stack) <= MaxLayers /\ MaxLayers \in Nat
           /\ Range(stack) \subseteq Layers /\ RectOf(Range(stack)) \in Areas
           /\ OpenOverlays \subseteq OverlayViews
           /\ \A v \in OverlayViews :
                 /\ childViews[v].of \in [Layers -> Nat] /\ childViews[v].children \in Seq(Layers)
                 /\ childViews[v].shown \in Seq(BOOLEAN)
           /\ [info |-> childViews, opened |-> openedIn, sized |-> sizedFor, sent |-> told] \in Worlds
<1>1. stack \in Seq(Layers) /\ Len(stack) <= MaxLayers  BY DEF OverlayInv, OverlayTypes
<1>2. Range(stack) \subseteq Layers /\ RectOf(Range(stack)) \in Areas  BY <1>1, LayersFinite, RectIs
<1>3. \A v \in OverlayViews : /\ childViews[v].of \in [Layers -> Nat] /\ childViews[v].children \in Seq(Layers)
                              /\ childViews[v].shown \in Seq(BOOLEAN)
  BY DEF OverlayInv, OverlayTypes, Infos
<1>4. [info |-> childViews, opened |-> openedIn, sized |-> sizedFor, sent |-> told] \in Worlds
  BY DEF OverlayInv, OverlayTypes, Worlds
<1>. QED  BY <1>1, <1>2, <1>3, <1>4, ViewsAssumption DEF OpenOverlays

\* The ChildView that an open view has for a layer of the stack.
LEMMA ChildViewOf ==
    ASSUME OverlayInv, NEW v \in OpenOverlays, NEW p \in Range(stack)
    PROVE  /\ p \in Layers /\ childViews[v].of[p] \in 1..Len(stack) /\ stack[childViews[v].of[p]] = p
           /\ <<v, childViews[v].of[p]>> \in openedIn[p] /\ <<v, childViews[v].of[p]>> \in ChildViewIds
<1>1. Numbered(childViews[v].of, stack)  BY DEF OverlayInv, ViewsFit, OpenOverlays
<1>2. PICK i \in 1..Len(stack) : stack[i] = p  BY OverlayFacts DEF Range
<1>3. p \in Layers  BY OverlayFacts
<1>4. childViews[v].of[p] \in 1..Len(stack) /\ stack[childViews[v].of[p]] = p  BY <1>1, <1>2, <1>3 DEF Numbered
<1>5. childViews[v].of[p] # NoView  BY <1>4, OverlayFacts DEF NoView
<1>6. <<v, childViews[v].of[p]>> \in openedIn[p]  BY <1>3, <1>5 DEF OverlayInv, OpenedFit
<1>7. <<v, childViews[v].of[p]>> \in ChildViewIds  BY <1>4, OverlayFacts DEF ChildViewIds
<1>. QED  BY <1>3, <1>4, <1>6, <1>7

\* addPresentation().
LEMMA AddPresentationKeeps ==
    ASSUME OverlayInv, NEW p \in Layers, AddPresentation(p)
    PROVE  OverlayInv'
<1>. DEFINE layers == Range(stack) \cup {p}
            start  == [info |-> childViews, opened |-> openedIn, sized |-> sizedFor,
                       sent |-> SendUpdates(told, sizedFor, layers)]
            t == AddToAll(start, OpenOverlays, p, layers)
            n == Len(stack) + 1
            new == {<<v, n>> : v \in OpenOverlays}
<1>0. /\ stack \in Seq(Layers) /\ Len(stack) \in Nat /\ DOMAIN stack = 1..Len(stack)
      /\ MaxLayers \in Nat /\ Range(stack) \subseteq Layers
      /\ OpenOverlays \subseteq OverlayViews
      /\ OverlayTypes
  BY OverlayFacts DEF OverlayInv
<1>1. /\ n \in 1..MaxLayers
      /\ ink' = IF p \in Coloured THEN [ink EXCEPT ![p] = OptimalColor(p)] ELSE ink
      /\ stack' = Append(stack, p) /\ UNCHANGED <<clear, painted>>
  BY <1>0 DEF AddPresentation
<1>2. childViews' = t.info /\ openedIn' = t.opened /\ sizedFor' = t.sized /\ told' = t.sent
  BY DEF AddPresentation, Become
<1>3. IsFiniteSet(layers) /\ layers \subseteq Layers /\ RectOf(layers) \in Areas
  <2>1. IsFiniteSet(Range(stack))  BY <1>0, LayersFinite
  <2>2. IsFiniteSet(layers) /\ layers \subseteq Layers  BY <1>0, <2>1, FS_AddElement
  <2>. HIDE DEF layers
  <2>. QED  BY <2>2, RectIs
<1>4. start \in Worlds
  <2>1. SendUpdates(told, sizedFor, layers) \in [ChildViewIds -> Areas]
    <3>. HIDE DEF layers
    <3>. QED  BY <1>0, <1>3 DEF SendUpdates, OverlayTypes
  <2>. HIDE DEF layers
  <2>. QED  BY <1>0, <2>1 DEF Worlds, OverlayTypes
<1>5. t \in Worlds /\ AddedToAll(start, t, OpenOverlays, p, layers)
  <2>. HIDE DEF layers, start
  <2>. QED  BY <1>0, <1>3, <1>4, AddToAllIs
<1>6. start.info = childViews /\ start.opened = openedIn /\ start.sized = sizedFor
  OBVIOUS
<1>7. \A c \in ChildViewIds :
          start.sent[c] = IF \E q \in layers \cap Stretching : c \in sizedFor[q] THEN RectOf(layers) ELSE told[c]
  BY DEF SendUpdates
<1>. HIDE DEF start, t
<1>8. Ids(start, OpenOverlays) = new
  <2>1. \A v \in OpenOverlays : childViews[v].children = stack  BY DEF OverlayInv, ViewsFit, OpenOverlays
  <2>. QED  BY <1>6, <2>1 DEF Ids
<1>9. /\ \A v \in OverlayViews \ OpenOverlays : childViews'[v] = childViews[v]
      /\ \A v \in OpenOverlays :
            /\ childViews'[v].state = childViews[v].state
            /\ childViews'[v].of = [childViews[v].of EXCEPT ![p] = n]
            /\ childViews'[v].children = Append(stack, p)
            /\ childViews'[v].shown = Append(childViews[v].shown, TRUE)
  <2>1. \A v \in OpenOverlays : childViews[v].children = stack  BY DEF OverlayInv, ViewsFit, OpenOverlays
  <2>. QED  BY <1>2, <1>5, <1>6, <2>1 DEF AddedToAll
<1>10. \A q \in Layers : openedIn'[q] = openedIn[q] \cup {c \in new : q = p}
  BY <1>2, <1>5, <1>6, <1>8 DEF AddedToAll
<1>11. \A q \in Layers : sizedFor'[q] = sizedFor[q] \cup {c \in new : q = p /\ q \in Stretching}
  BY <1>2, <1>5, <1>6, <1>8 DEF AddedToAll
<1>12. \A c \in ChildViewIds :
          told'[c] = IF c \in new /\ p \in Stretching THEN RectOf(layers) ELSE start.sent[c]
  BY <1>2, <1>5, <1>8 DEF AddedToAll
<1>13. /\ stack' \in Seq(Layers) /\ Len(stack') = n /\ DOMAIN stack' = 1..n
       /\ stack'[n] = p /\ \A i \in 1..Len(stack) : stack'[i] = stack[i]
       /\ Range(stack') = layers
  <2>1. /\ stack' \in Seq(Layers) /\ Len(stack') = n /\ DOMAIN stack' = 1..n
        /\ stack'[n] = p /\ \A i \in 1..Len(stack) : stack'[i] = stack[i]
    BY <1>0, <1>1
  <2>2. \A i \in 1..n : i \in 1..Len(stack) \/ i = n  BY <1>0
  <2>3. \A i \in 1..Len(stack) : i \in 1..n  BY <1>0
  <2>4. n \in 1..n  BY <1>0
  <2>. HIDE DEF n
  <2>. QED  BY <1>0, <2>1, <2>2, <2>3, <2>4 DEF Range
<1>14. OverlayTypes'
  <2>1. childViews' \in Infos /\ openedIn' \in Opens /\ sizedFor' \in Opens /\ told' \in [ChildViewIds -> Areas]
    BY <1>2, <1>5 DEF Worlds
  <2>2. DOMAIN ink' = Layers  BY <1>0, <1>1 DEF OverlayTypes
  <2>3. Len(stack') <= MaxLayers  BY <1>1, <1>13
  <2>. QED  BY <1>0, <1>1, <1>13, <2>1, <2>2, <2>3 DEF OverlayTypes
<1>15. OpenOverlays' = OpenOverlays  BY <1>0, <1>9 DEF OpenOverlays
<1>16. \A v \in OpenOverlays : /\ childViews[v].of \in [Layers -> Nat] /\ childViews[v].shown \in Seq(BOOLEAN)
                               /\ Len(childViews[v].shown) = Len(stack) /\ Numbered(childViews[v].of, stack)
                               /\ childViews'[v].of[p] = n
                               /\ \A q \in Layers \ {p} : childViews'[v].of[q] = childViews[v].of[q]
  <2>. SUFFICES ASSUME NEW v \in OpenOverlays
                PROVE  /\ childViews[v].of \in [Layers -> Nat] /\ childViews[v].shown \in Seq(BOOLEAN)
                       /\ Len(childViews[v].shown) = Len(stack) /\ Numbered(childViews[v].of, stack)
                       /\ childViews'[v].of[p] = n
                       /\ \A q \in Layers \ {p} : childViews'[v].of[q] = childViews[v].of[q]
    OBVIOUS
  <2>1. childViews[v].of \in [Layers -> Nat] /\ childViews[v].shown \in Seq(BOOLEAN)  BY <1>0, OverlayFacts
  <2>2. childViews'[v].of = [childViews[v].of EXCEPT ![p] = n]  BY <1>9
  <2>3. Len(childViews[v].shown) = Len(stack) /\ Numbered(childViews[v].of, stack)
    BY DEF OverlayInv, ViewsFit, OpenOverlays
  <2>. HIDE DEF n
  <2>. QED  BY <2>1, <2>2, <2>3
<1>17. ViewsFit'
  <2>. SUFFICES ASSUME NEW v \in OverlayViews
                PROVE  IF childViews'[v].state = "open"
                       THEN /\ childViews'[v].children = stack'
                            /\ Len(childViews'[v].shown) = Len(stack')
                            /\ Numbered(childViews'[v].of, stack')
                       ELSE /\ childViews'[v].shown = <<>> /\ childViews'[v].children = <<>>
                            /\ \A q \in Layers : childViews'[v].of[q] = NoView
    BY DEF ViewsFit, Numbered
  <2>1. CASE v \in OpenOverlays
    <3>1. childViews'[v].state = "open"  BY <1>9, <2>1 DEF OpenOverlays
    <3>2. childViews'[v].children = stack'
      <4>1. childViews'[v].children = Append(stack, p)  BY <1>9, <2>1
      <4>. QED  BY <1>1, <4>1
    <3>3. Len(childViews'[v].shown) = Len(stack')
      <4>1. childViews'[v].shown = Append(childViews[v].shown, TRUE)  BY <1>9, <2>1
      <4>. QED  BY <1>0, <1>13, <1>16, <2>1, <4>1
    <3>4. ASSUME NEW q \in Layers
          PROVE  \/ childViews'[v].of[q] \in 1..Len(stack') /\ stack'[childViews'[v].of[q]] = q
                 \/ childViews'[v].of[q] = NoView /\ \A i \in 1..Len(stack') : stack'[i] # q
      <4>1. CASE q = p  BY <1>0, <1>13, <1>16, <2>1, <4>1
      <4>2. CASE q # p
        <5>1. childViews'[v].of[q] = childViews[v].of[q]  BY <1>16, <2>1, <4>2
        <5>2. \/ childViews[v].of[q] \in 1..Len(stack) /\ stack[childViews[v].of[q]] = q
              \/ childViews[v].of[q] = NoView /\ \A i \in 1..Len(stack) : stack[i] # q
          BY <1>16, <2>1 DEF Numbered
        <5>3. \A i \in 1..n : i \in 1..Len(stack) \/ i = n  BY <1>0
        <5>4. \A i \in 1..Len(stack) : i \in 1..n  BY <1>0
        <5>. HIDE DEF n
        <5>. QED  BY <1>13, <4>2, <5>1, <5>2, <5>3, <5>4
      <4>. QED  BY <4>1, <4>2
    <3>. QED  BY <3>1, <3>2, <3>3, <3>4 DEF Numbered
  <2>2. CASE v \notin OpenOverlays
    <3>1. childViews'[v] = childViews[v] /\ childViews[v].state # "open"  BY <1>9, <2>2 DEF OpenOverlays
    <3>. QED  BY <3>1 DEF OverlayInv, ViewsFit
  <2>. QED  BY <2>1, <2>2
<1>18. \A q \in Layers : Once(q)' => Once(q) /\ (q = p => p \notin Range(stack))
  <2>. SUFFICES ASSUME NEW q \in Layers, Once(q)' PROVE Once(q) /\ (q = p => p \notin Range(stack))  OBVIOUS
  <2>1. OnceIn(Append(stack, p), q)  BY <1>1 DEF Once, OnceIn
  <2>2. OnceIn(stack, q) /\ (q = p => p \notin Range(stack))  BY <1>0, <2>1, OnceBefore
  <2>. QED  BY <2>2 DEF Once, OnceIn
<1>19. OpenedFit'
  <2>1. ASSUME NEW q \in Layers, NEW v \in OpenOverlays, childViews'[v].of[q] # NoView
        PROVE  <<v, childViews'[v].of[q]>> \in openedIn'[q]
    <3>1. CASE q = p
      <4>1. <<v, childViews'[v].of[q]>> \in new  BY <1>16, <3>1
      <4>. HIDE DEF new
      <4>. QED  BY <1>10, <3>1, <4>1
    <3>2. CASE q # p
      <4>1. childViews'[v].of[q] = childViews[v].of[q]  BY <1>16, <3>2
      <4>2. <<v, childViews[v].of[q]>> \in openedIn[q]  BY <2>1, <4>1 DEF OverlayInv, OpenedFit
      <4>. HIDE DEF new
      <4>. QED  BY <1>10, <4>1, <4>2
    <3>. QED  BY <3>1, <3>2
  <2>2. ASSUME NEW q \in Layers, NEW c \in openedIn'[q]
        PROVE  /\ c[2] # NoView
               /\ Once(q)' => c[1] \in OpenOverlays /\ c[2] = childViews'[c[1]].of[q]
    <3>1. CASE c \in openedIn[q]
      <4>1. c[2] # NoView /\ (Once(q) => c[1] \in OpenOverlays /\ c[2] = childViews[c[1]].of[q])
        BY <3>1 DEF OverlayInv, OpenedFit
      <4>2. ASSUME Once(q)' PROVE c[1] \in OpenOverlays /\ c[2] = childViews'[c[1]].of[q]
        <5>1. c[1] \in OpenOverlays /\ c[2] = childViews[c[1]].of[q]  BY <1>18, <4>1, <4>2
        <5>2. CASE q = p
          <6>1. p \notin Range(stack)  BY <1>18, <4>2, <5>2
          <6>2. \A i \in 1..Len(stack) : stack[i] # p  BY <1>0, <6>1 DEF Range
          <6>3. childViews[c[1]].of[p] = NoView  BY <1>16, <5>1, <6>2 DEF Numbered
          <6>. QED  BY <4>1, <5>1, <5>2, <6>3
        <5>3. CASE q # p  BY <1>16, <5>1, <5>3
        <5>. QED  BY <5>2, <5>3
      <4>. QED  BY <4>1, <4>2
    <3>2. CASE c \notin openedIn[q]
      <4>1. c \in new /\ q = p
        <5>. HIDE DEF new
        <5>. QED  BY <1>10, <2>2, <3>2
      <4>2. PICK v \in OpenOverlays : c = <<v, n>>  BY <4>1
      <4>3. n # NoView  BY <1>0 DEF NoView
      <4>4. c[1] = v /\ c[2] = n  BY <4>2
      <4>. HIDE DEF n, new
      <4>. QED  BY <1>16, <4>1, <4>3, <4>4
    <3>. QED  BY <3>1, <3>2
  <2>. HIDE DEF n, new
  <2>. QED  BY <1>15, <2>1, <2>2 DEF OpenedFit
<1>20. SizedFit'
  <2>1. \A q \in Layers : sizedFor[q] = IF q \in Stretching THEN openedIn[q] ELSE {}
    BY DEF OverlayInv, SizedFit
  <2>. HIDE DEF new
  <2>2. ASSUME NEW q \in Layers PROVE sizedFor'[q] = IF q \in Stretching THEN openedIn'[q] ELSE {}
    <3>1. openedIn'[q] = openedIn[q] \cup {c \in new : q = p}  BY <1>10
    <3>2. sizedFor'[q] = sizedFor[q] \cup {c \in new : q = p /\ q \in Stretching}  BY <1>11
    <3>3. CASE q \in Stretching
      <4>1. {c \in new : q = p /\ q \in Stretching} = {c \in new : q = p}  BY <3>3
      <4>. QED  BY <2>1, <3>1, <3>2, <3>3, <4>1
    <3>4. CASE q \notin Stretching
      <4>1. {c \in new : q = p /\ q \in Stretching} = {}  BY <3>4
      <4>. QED  BY <2>1, <3>2, <3>4, <4>1
    <3>. QED  BY <3>3, <3>4
  <2>. QED  BY <2>2 DEF SizedFit
<1>21. ToldFit'
  <2>0. RectOf(Range(stack))' = RectOf(layers)  BY <1>13 DEF RectOf, DetermineSize
  <2>. SUFFICES ASSUME NEW v \in OpenOverlays, NEW q \in layers \cap Stretching
                PROVE  told'[<<v, childViews'[v].of[q]>>] = RectOf(layers)
    BY <1>13, <1>15, <2>0 DEF ToldFit
  <2>1. CASE q = p
    <3>1. childViews'[v].of[q] = n /\ <<v, n>> \in new  BY <1>16, <2>1
    <3>2. <<v, n>> \in ChildViewIds  BY <1>0, <1>1 DEF ChildViewIds
    <3>. HIDE DEF new, n, layers
    <3>. QED  BY <1>12, <2>1, <3>1, <3>2
  <2>2. CASE q # p
    <3>1. q \in Range(stack)  BY <2>2
    <3>2. <<v, childViews[v].of[q]>> \in openedIn[q] /\ <<v, childViews[v].of[q]>> \in ChildViewIds /\ q \in Layers
      BY <3>1, ChildViewOf
    <3>3. <<v, childViews[v].of[q]>> \in sizedFor[q]  BY <3>2 DEF OverlayInv, SizedFit
    <3>4. start.sent[<<v, childViews[v].of[q]>>] = RectOf(layers)  BY <1>7, <3>2, <3>3
    <3>5. childViews'[v].of[q] = childViews[v].of[q]  BY <1>16, <2>2, <3>2
    <3>. HIDE DEF new, layers
    <3>. QED  BY <1>12, <3>2, <3>4, <3>5
  <2>. QED  BY <2>1, <2>2
<1>22. PaintedFit'
  <2>1. painted' = painted  BY <1>1
  <2>2. \A i \in DOMAIN stack : i \in DOMAIN stack' /\ stack'[i] = stack[i]  BY <1>0, <1>13
  <2>. HIDE DEF n
  <2>. QED  BY <2>1, <2>2 DEF OverlayInv, PaintedFit
<1>23. ColoursDiffer'  BY AddPresentationColours
<1>. QED  BY <1>14, <1>17, <1>19, <1>20, <1>21, <1>22, <1>23 DEF OverlayInv

\* open().
LEMMA OpenOverlayKeeps ==
    ASSUME OverlayInv, NEW v \in OverlayViews, OpenOverlay(v)
    PROVE  OverlayInv'
<1>. DEFINE start == [info |-> [childViews EXCEPT ![v].state = "open"], opened |-> openedIn,
                      sized |-> sizedFor, sent |-> told]
            t == AddChildren(start, v, stack)
            L == Len(stack)
<1>0. /\ stack \in Seq(Layers) /\ L \in Nat /\ DOMAIN stack = 1..L
      /\ MaxLayers \in Nat /\ L <= MaxLayers /\ Range(stack) \subseteq Layers
      /\ OpenOverlays \subseteq OverlayViews
      /\ OverlayTypes
  BY OverlayFacts DEF OverlayInv
<1>1. /\ childViews[v].state = "new" /\ UNCHANGED <<stack, ink, clear, painted>>
      /\ childViews' = t.info /\ openedIn' = t.opened /\ sizedFor' = t.sized /\ told' = t.sent
  BY DEF OpenOverlay, Become
<1>2. /\ \A w \in OverlayViews \ {v} : start.info[w] = childViews[w]
      /\ start.info[v].state = "open" /\ start.info[v].children = <<>> /\ start.info[v].shown = <<>>
      /\ \A p \in Layers : start.info[v].of[p] = NoView
      /\ start.opened = openedIn /\ start.sized = sizedFor /\ start.sent = told
      /\ start \in Worlds
  <2>1. childViews[v].shown = <<>> /\ childViews[v].children = <<>> /\ \A p \in Layers : childViews[v].of[p] = NoView
    BY <1>1 DEF OverlayInv, ViewsFit
  <2>2. [childViews EXCEPT ![v].state = "open"] \in Infos
    <3>. DEFINE R == [state : {"new", "open", "closed"}, of : [Layers -> Nat],
                      children : Seq(Layers), shown : Seq(BOOLEAN)]
    <3>1. childViews \in [OverlayViews -> R] /\ v \in OverlayViews  BY <1>0 DEF OverlayTypes, Infos
    <3>2. [childViews[v] EXCEPT !.state = "open"] \in R
      <4>1. childViews[v] \in R  BY <3>1
      <4>. QED  BY <4>1
    <3>. HIDE DEF R
    <3>3. [childViews EXCEPT ![v] = [childViews[v] EXCEPT !.state = "open"]] \in [OverlayViews -> R]
      BY <3>1, <3>2
    <3>. QED  BY <3>3 DEF R, Infos
  <2>3. start \in Worlds  BY <1>0, <2>2 DEF OverlayTypes, Worlds
  <2>4. /\ \A w \in OverlayViews \ {v} : start.info[w] = childViews[w]
        /\ start.info[v] = [childViews[v] EXCEPT !.state = "open"]
    BY <1>0 DEF OverlayTypes, Infos
  <2>5. start.opened = openedIn /\ start.sized = sizedFor /\ start.sent = told  OBVIOUS
  <2>6. childViews[v] \in [state : {"new", "open", "closed"}, of : [Layers -> Nat],
                            children : Seq(Layers), shown : Seq(BOOLEAN)]
    BY <1>0 DEF OverlayTypes, Infos
  <2>. HIDE DEF start
  <2>7. /\ start.info[v].state = "open" /\ start.info[v].children = childViews[v].children
        /\ start.info[v].shown = childViews[v].shown /\ start.info[v].of = childViews[v].of
    BY <2>4, <2>6
  <2>. QED  BY <2>1, <2>3, <2>4, <2>5, <2>7
<1>3. t \in Worlds /\ Filled(start, t, v, stack, L)
  <2>. HIDE DEF start
  <2>. QED  BY <1>0, <1>2, AddChildrenIs
<1>. HIDE DEF start, t
<1>4. /\ \A w \in OverlayViews \ {v} : childViews'[w] = childViews[w]
      /\ childViews'[v].state = "open" /\ Len(childViews'[v].shown) = L
      /\ Len(childViews'[v].children) = L /\ \A i \in 1..L : childViews'[v].children[i] = stack[i]
      /\ Numbered(childViews'[v].of, stack)
  BY <1>1, <1>2, <1>3 DEF Filled, Numbered
<1>5. \A q \in Layers : openedIn'[q] = openedIn[q] \cup {c \in {v} \X (1..L) : stack[c[2]] = q}
  BY <1>1, <1>2, <1>3 DEF Filled
<1>6. \A q \in Layers : sizedFor'[q] = sizedFor[q] \cup {c \in {v} \X (1..L) : stack[c[2]] = q /\ q \in Stretching}
  BY <1>1, <1>2, <1>3 DEF Filled
<1>7. \A c \in ChildViewIds :
          told'[c] = IF c[1] = v /\ c[2] \in 1..L /\ stack[c[2]] \in Stretching THEN RectOf(Range(stack)) ELSE told[c]
  BY <1>1, <1>2, <1>3 DEF Filled
<1>8. childViews' \in Infos /\ openedIn' \in Opens /\ sizedFor' \in Opens /\ told' \in [ChildViewIds -> Areas]
  BY <1>1, <1>3 DEF Worlds
<1>9. OverlayTypes'  BY <1>0, <1>1, <1>8 DEF OverlayTypes
<1>. HIDE DEF L
<1>10. OpenOverlays' = OpenOverlays \cup {v} /\ v \notin OpenOverlays  BY <1>0, <1>1, <1>4 DEF OpenOverlays
<1>11. ViewsFit'
  <2>1. childViews'[v].children = stack
    <3>1. childViews'[v].children \in Seq(Layers)  BY <1>8 DEF Infos
    <3>. QED  BY <1>0, <1>4, <3>1 DEF L
  <2>2. stack' = stack  BY <1>1
  <2>. SUFFICES ASSUME NEW w \in OverlayViews
                PROVE  IF childViews'[w].state = "open"
                       THEN /\ childViews'[w].children = stack
                            /\ Len(childViews'[w].shown) = Len(stack)
                            /\ Numbered(childViews'[w].of, stack)
                       ELSE /\ childViews'[w].shown = <<>> /\ childViews'[w].children = <<>>
                            /\ \A q \in Layers : childViews'[w].of[q] = NoView
    BY <2>2 DEF ViewsFit, Numbered
  <2>3. CASE w = v  BY <1>4, <2>1, <2>3 DEF L
  <2>4. CASE w # v
    <3>1. childViews'[w] = childViews[w]  BY <1>4, <2>4
    <3>. QED  BY <3>1 DEF OverlayInv, ViewsFit
  <2>. QED  BY <2>3, <2>4
<1>12. \A q \in Layers : Once(q)' = Once(q)  BY <1>1 DEF Once
<1>13. OpenedFit'
  <2>1. ASSUME NEW q \in Layers, NEW w \in OpenOverlays \cup {v}, childViews'[w].of[q] # NoView
        PROVE  <<w, childViews'[w].of[q]>> \in openedIn'[q]
    <3>1. CASE w = v
      <4>1. childViews'[v].of[q] \in 1..L /\ stack[childViews'[v].of[q]] = q  BY <1>4, <2>1, <3>1 DEF Numbered, L
      <4>. QED  BY <1>5, <3>1, <4>1
    <3>2. CASE w # v
      <4>1. childViews'[w] = childViews[w] /\ w \in OpenOverlays  BY <1>0, <1>4, <2>1, <3>2
      <4>2. <<w, childViews[w].of[q]>> \in openedIn[q]  BY <2>1, <4>1 DEF OverlayInv, OpenedFit
      <4>. QED  BY <1>5, <4>1, <4>2
    <3>. QED  BY <3>1, <3>2
  <2>2. ASSUME NEW q \in Layers, NEW c \in openedIn'[q]
        PROVE  /\ c[2] # NoView
               /\ Once(q) => c[1] \in OpenOverlays \cup {v} /\ c[2] = childViews'[c[1]].of[q]
    <3>1. CASE c \in openedIn[q]
      <4>1. c[2] # NoView /\ (Once(q) => c[1] \in OpenOverlays /\ c[2] = childViews[c[1]].of[q])
        BY <3>1 DEF OverlayInv, OpenedFit
      <4>2. \A w \in OpenOverlays : childViews'[w] = childViews[w]  BY <1>0, <1>4, <1>10
      <4>. QED  BY <4>1, <4>2
    <3>2. CASE c \notin openedIn[q]
      <4>1. PICK i \in 1..L : c = <<v, i>> /\ stack[i] = q  BY <1>5, <2>2, <3>2
      <4>2. c[2] # NoView  BY <1>0, <4>1 DEF NoView
      <4>3. ASSUME Once(q) PROVE c[2] = childViews'[v].of[q]
        <5>1. childViews'[v].of[q] \in 1..L /\ stack[childViews'[v].of[q]] = q
          BY <1>4, <4>1 DEF Numbered, L
        <5>2. OnceIn(stack, q)  BY <4>3 DEF Once, OnceIn
        <5>3. childViews'[v].of[q] = i  BY <1>0, <4>1, <5>1, <5>2, OnlyOne
        <5>. QED  BY <4>1, <5>3
      <4>. QED  BY <4>1, <4>2, <4>3
    <3>. QED  BY <3>1, <3>2
  <2>. QED  BY <1>10, <1>12, <2>1, <2>2 DEF OpenedFit
<1>14. SizedFit'
  <2>. SUFFICES ASSUME NEW q \in Layers PROVE sizedFor'[q] = IF q \in Stretching THEN openedIn'[q] ELSE {}
    BY DEF SizedFit
  <2>1. sizedFor[q] = IF q \in Stretching THEN openedIn[q] ELSE {}  BY DEF OverlayInv, SizedFit
  <2>2. CASE q \in Stretching  BY <1>5, <1>6, <2>1, <2>2
  <2>3. CASE q \notin Stretching  BY <1>6, <2>1, <2>3
  <2>. QED  BY <2>2, <2>3
<1>15. ToldFit'
  <2>. SUFFICES ASSUME NEW w \in OpenOverlays \cup {v}, NEW q \in Range(stack) \cap Stretching
                PROVE  told'[<<w, childViews'[w].of[q]>>] = RectOf(Range(stack))
    BY <1>1, <1>10 DEF ToldFit, RectOf, DetermineSize
  <2>1. CASE w = v
    <3>1. \E i \in 1..L : stack[i] = q  BY <1>0 DEF Range
    <3>2. q \in Layers  BY <1>0
    <3>3. childViews'[v].of[q] \in 1..L /\ stack[childViews'[v].of[q]] = q  BY <1>4, <3>1, <3>2 DEF Numbered, L
    <3>4. <<v, childViews'[v].of[q]>> \in ChildViewIds  BY <1>0, <3>3 DEF ChildViewIds
    <3>. QED  BY <1>7, <2>1, <3>3, <3>4
  <2>2. CASE w # v
    <3>1. w \in OpenOverlays /\ childViews'[w] = childViews[w]  BY <1>0, <1>4, <2>2
    <3>2. <<w, childViews[w].of[q]>> \in ChildViewIds  BY <3>1, ChildViewOf
    <3>3. told[<<w, childViews[w].of[q]>>] = RectOf(Range(stack))  BY <3>1 DEF OverlayInv, ToldFit
    <3>. QED  BY <1>7, <2>2, <3>1, <3>2, <3>3
  <2>. QED  BY <2>1, <2>2
<1>16. PaintedFit' /\ ColoursDiffer'
  BY <1>1, <1>12 DEF OverlayInv, PaintedFit, ColoursDiffer, Users
<1>. QED  BY <1>9, <1>11, <1>13, <1>14, <1>15, <1>16 DEF OverlayInv

\* close().
LEMMA CloseOverlayKeeps ==
    ASSUME OverlayInv, NEW v \in OverlayViews, CloseOverlay(v)
    PROVE  OverlayInv'
<1>. DEFINE closed == [state |-> "closed", of |-> [p \in Layers |-> NoView], children |-> <<>>, shown |-> <<>>]
<1>0. OverlayTypes /\ OpenOverlays \subseteq OverlayViews  BY DEF OverlayInv, OpenOverlays
<1>1. /\ childViews[v].state = "open" /\ UNCHANGED <<stack, ink, clear, told, painted>>
      /\ sizedFor' = [p \in Layers |-> sizedFor[p] \ {<<v, childViews[v].of[p]>>}]
      /\ openedIn' = [p \in Layers |-> openedIn[p] \ {<<v, childViews[v].of[p]>>}]
      /\ childViews' = [childViews EXCEPT ![v] = closed]
  BY DEF CloseOverlay
<1>2. /\ \A w \in OverlayViews \ {v} : childViews'[w] = childViews[w]
      /\ childViews'[v] = closed
  BY <1>0, <1>1 DEF OverlayTypes, Infos
<1>3. closed.state = "closed" /\ closed.children = <<>> /\ closed.shown = <<>> /\ \A p \in Layers : closed.of[p] = NoView
  OBVIOUS
<1>4. OverlayTypes'
  <2>1. closed \in [state : {"new", "open", "closed"}, of : [Layers -> Nat],
                    children : Seq(Layers), shown : Seq(BOOLEAN)]
    BY DEF NoView
  <2>. HIDE DEF closed
  <2>2. childViews' \in Infos  BY <1>0, <1>1, <2>1 DEF OverlayTypes, Infos
  <2>3. openedIn' \in Opens /\ sizedFor' \in Opens  BY <1>0, <1>1 DEF OverlayTypes, Opens
  <2>. QED  BY <1>0, <1>1, <2>2, <2>3 DEF OverlayTypes
<1>. HIDE DEF closed
<1>5. OpenOverlays' = OpenOverlays \ {v}  BY <1>0, <1>2, <1>3 DEF OpenOverlays
<1>6. ViewsFit'
  <2>. SUFFICES ASSUME NEW w \in OverlayViews
                PROVE  IF childViews'[w].state = "open"
                       THEN /\ childViews'[w].children = stack
                            /\ Len(childViews'[w].shown) = Len(stack)
                            /\ Numbered(childViews'[w].of, stack)
                       ELSE /\ childViews'[w].shown = <<>> /\ childViews'[w].children = <<>>
                            /\ \A q \in Layers : childViews'[w].of[q] = NoView
    BY <1>1 DEF ViewsFit, Numbered
  <2>1. CASE w = v  BY <1>2, <1>3, <2>1
  <2>2. CASE w # v
    <3>1. childViews'[w] = childViews[w]  BY <1>2, <2>2
    <3>. QED  BY <3>1 DEF OverlayInv, ViewsFit
  <2>. QED  BY <2>1, <2>2
<1>7. OpenedFit'
  <2>1. ASSUME NEW q \in Layers, NEW w \in OpenOverlays \ {v}, childViews'[w].of[q] # NoView
        PROVE  <<w, childViews'[w].of[q]>> \in openedIn'[q]
    <3>1. childViews'[w] = childViews[w]  BY <1>0, <1>2
    <3>2. <<w, childViews[w].of[q]>> \in openedIn[q]  BY <2>1, <3>1 DEF OverlayInv, OpenedFit
    <3>. QED  BY <1>1, <3>1, <3>2
  <2>2. ASSUME NEW q \in Layers, NEW c \in openedIn'[q]
        PROVE  /\ c[2] # NoView
               /\ Once(q) => c[1] \in OpenOverlays \ {v} /\ c[2] = childViews'[c[1]].of[q]
    <3>1. c \in openedIn[q] /\ c # <<v, childViews[v].of[q]>>  BY <1>1
    <3>2. c[2] # NoView /\ (Once(q) => c[1] \in OpenOverlays /\ c[2] = childViews[c[1]].of[q])
      BY <3>1 DEF OverlayInv, OpenedFit
    <3>3. c = <<c[1], c[2]>>  BY <1>0, <3>1 DEF OverlayTypes, Opens
    <3>4. \A w \in OpenOverlays \ {v} : childViews'[w] = childViews[w]  BY <1>0, <1>2
    <3>. QED  BY <3>1, <3>2, <3>3, <3>4
  <2>3. \A q \in Layers : Once(q)' = Once(q)  BY <1>1 DEF Once
  <2>. QED  BY <1>5, <2>1, <2>2, <2>3 DEF OpenedFit
<1>8. SizedFit'
  <2>1. \A q \in Layers : sizedFor[q] = IF q \in Stretching THEN openedIn[q] ELSE {}
    BY DEF OverlayInv, SizedFit
  <2>. QED  BY <1>1, <2>1 DEF SizedFit
<1>9. ToldFit'
  <2>. SUFFICES ASSUME NEW w \in OpenOverlays \ {v}, NEW q \in Range(stack) \cap Stretching
                PROVE  told[<<w, childViews'[w].of[q]>>] = RectOf(Range(stack))
    BY <1>1, <1>5 DEF ToldFit, RectOf, DetermineSize
  <2>1. childViews'[w] = childViews[w]  BY <1>0, <1>2
  <2>. QED  BY <2>1 DEF OverlayInv, ToldFit
<1>10. PaintedFit' /\ ColoursDiffer'  BY <1>1 DEF OverlayInv, PaintedFit, ColoursDiffer, Users, Once
<1>. QED  BY <1>4, <1>6, <1>7, <1>8, <1>9, <1>10 DEF OverlayInv

\* toggle().
LEMMA ToggleLayerKeeps ==
    ASSUME OverlayInv, NEW v \in OverlayViews, NEW i, ToggleLayer(v, i)
    PROVE  OverlayInv'
<1>. DEFINE view == [childViews[v] EXCEPT !.shown[i] = ~@]
<1>0. OverlayTypes /\ OpenOverlays \subseteq OverlayViews  BY DEF OverlayInv, OpenOverlays
<1>1. /\ i \in DOMAIN childViews[v].shown /\ UNCHANGED <<stack, ink, clear, openedIn, sizedFor, told, painted>>
      /\ childViews' = [childViews EXCEPT ![v].shown[i] = ~@]
  BY DEF ToggleLayer
<1>2. childViews[v] \in [state : {"new", "open", "closed"}, of : [Layers -> Nat],
                         children : Seq(Layers), shown : Seq(BOOLEAN)]
  BY <1>0 DEF OverlayTypes, Infos
<1>3. /\ view.state = childViews[v].state /\ view.of = childViews[v].of
      /\ view.children = childViews[v].children
      /\ view.shown \in Seq(BOOLEAN) /\ Len(view.shown) = Len(childViews[v].shown)
      /\ view = [state |-> view.state, of |-> view.of, children |-> view.children, shown |-> view.shown]
  BY <1>1, <1>2
<1>4. /\ \A w \in OverlayViews \ {v} : childViews'[w] = childViews[w]
      /\ childViews'[v] = view /\ childViews' = [childViews EXCEPT ![v] = view]
  BY <1>0, <1>1 DEF OverlayTypes, Infos
<1>. HIDE DEF view
<1>5. OverlayTypes'
  <2>1. view \in [state : {"new", "open", "closed"}, of : [Layers -> Nat],
                  children : Seq(Layers), shown : Seq(BOOLEAN)]
    BY <1>2, <1>3
  <2>2. childViews' \in Infos  BY <1>0, <1>4, <2>1 DEF OverlayTypes, Infos
  <2>. QED  BY <1>0, <1>1, <2>2 DEF OverlayTypes
<1>6. \A w \in OverlayViews : /\ childViews'[w].state = childViews[w].state /\ childViews'[w].of = childViews[w].of
                              /\ childViews'[w].children = childViews[w].children
                              /\ Len(childViews'[w].shown) = Len(childViews[w].shown)
  BY <1>3, <1>4
<1>7. OpenOverlays' = OpenOverlays  BY <1>6 DEF OpenOverlays
<1>8. ViewsFit'
  <2>. SUFFICES ASSUME NEW w \in OverlayViews
                PROVE  IF childViews'[w].state = "open"
                       THEN /\ childViews'[w].children = stack
                            /\ Len(childViews'[w].shown) = Len(stack)
                            /\ Numbered(childViews'[w].of, stack)
                       ELSE /\ childViews'[w].shown = <<>> /\ childViews'[w].children = <<>>
                            /\ \A q \in Layers : childViews'[w].of[q] = NoView
    BY <1>1 DEF ViewsFit, Numbered
  <2>1. CASE childViews[w].state = "open"
    <3>1. childViews[w].children = stack /\ Len(childViews[w].shown) = Len(stack) /\ Numbered(childViews[w].of, stack)
      BY <2>1 DEF OverlayInv, ViewsFit
    <3>. QED  BY <1>6, <2>1, <3>1
  <2>2. CASE childViews[w].state # "open"
    <3>1. /\ childViews[w].shown = <<>> /\ childViews[w].children = <<>>
          /\ \A q \in Layers : childViews[w].of[q] = NoView
      BY <2>2 DEF OverlayInv, ViewsFit
    <3>2. w # v  BY <1>1, <3>1
    <3>. QED  BY <1>4, <2>2, <3>1, <3>2
  <2>. QED  BY <2>1, <2>2
<1>9. OpenedFit' /\ ToldFit'
  <2>1. \A w \in OpenOverlays : childViews'[w].of = childViews[w].of  BY <1>0, <1>6
  <2>2. OpenedFit'
    <3>1. \A q \in Layers : Once(q)' = Once(q)  BY <1>1 DEF Once
    <3>2. openedIn' = openedIn  BY <1>1
    <3>. QED  BY <1>7, <2>1, <3>1, <3>2 DEF OverlayInv, OpenedFit
  <2>3. ToldFit'
    <3>1. told' = told /\ stack' = stack  BY <1>1
    <3>2. \A w \in OpenOverlays : \A q \in Range(stack) \cap Stretching :
              told[<<w, childViews[w].of[q]>>] = RectOf(Range(stack))
      BY DEF OverlayInv, ToldFit
    <3>. QED  BY <1>7, <2>1, <3>1, <3>2 DEF ToldFit, RectOf, DetermineSize
  <2>. QED  BY <2>2, <2>3
<1>10. SizedFit' /\ PaintedFit' /\ ColoursDiffer'
  BY <1>1 DEF OverlayInv, SizedFit, PaintedFit, ColoursDiffer, Users, Once
<1>. QED  BY <1>5, <1>8, <1>9, <1>10 DEF OverlayInv

\* redraw().
LEMMA DrawOverlayKeeps ==
    ASSUME OverlayInv, NEW v \in OverlayViews, DrawOverlay(v)
    PROVE  OverlayInv'
<1>. DEFINE d == PaintedAll(v, childViews[v].children)
<1>0. OverlayTypes /\ stack \in Seq(Layers) /\ DOMAIN stack = 1..Len(stack) /\ Len(stack) \in Nat
  BY OverlayFacts DEF OverlayInv
<1>1. /\ childViews[v].state = "open" /\ UNCHANGED <<stack, ink, childViews, openedIn, sizedFor, told>>
      /\ clear' = d.clear /\ painted' = [painted EXCEPT ![v] = d.painted]
  BY DEF DrawOverlay
<1>2. d \in Drawings(stack)
  <2>1. childViews[v].children = stack  BY <1>1 DEF OverlayInv, ViewsFit
  <2>2. clear \in [Layers -> BOOLEAN]  BY <1>0 DEF OverlayTypes
  <2>. QED  BY <1>0, <2>1, <2>2, PaintedAllIs
<1>. HIDE DEF d
<1>3. /\ d.clear \in [Layers -> BOOLEAN] /\ d.painted \in Seq([layer : 1..Len(stack), clear : BOOLEAN])
      /\ \A i \in DOMAIN d.painted : stack[d.painted[i].layer] \in Seethrough => d.painted[i].clear = (i > 1)
  BY <1>2 DEF Drawings
<1>4. d.painted \in Paints
  <2>. DEFINE Entries == [layer : 1..Len(stack), clear : BOOLEAN]
              Wider == [layer : Nat, clear : BOOLEAN]
  <2>1. Entries \subseteq Wider  BY <1>0
  <2>2. d.painted \in Seq(Entries)  BY <1>3
  <2>. HIDE DEF Entries, Wider
  <2>3. d.painted \in Seq(Wider)  BY <2>1, <2>2
  <2>. QED  BY <2>3 DEF Paints, Wider
<1>5. OverlayTypes'  BY <1>0, <1>1, <1>3, <1>4 DEF OverlayTypes
<1>6. PaintedFit'
  <2>. SUFFICES ASSUME NEW w \in OverlayViews, NEW i \in DOMAIN painted'[w]
                PROVE  /\ painted'[w][i].layer \in DOMAIN stack
                       /\ stack[painted'[w][i].layer] \in Seethrough => painted'[w][i].clear = (i > 1)
    BY <1>1 DEF PaintedFit
  <2>1. CASE w = v
    <3>1. painted'[w] = d.painted  BY <1>0, <1>1, <2>1 DEF OverlayTypes
    <3>2. painted'[w][i] \in [layer : 1..Len(stack), clear : BOOLEAN]
      <4>. DEFINE Entries == [layer : 1..Len(stack), clear : BOOLEAN]
      <4>1. d.painted \in Seq(Entries) /\ i \in DOMAIN d.painted  BY <1>3, <3>1
      <4>. HIDE DEF Entries
      <4>2. d.painted[i] \in Entries  BY <4>1
      <4>. QED  BY <3>1, <4>2 DEF Entries
    <3>. QED  BY <1>0, <1>3, <3>1, <3>2
  <2>2. CASE w # v
    <3>1. painted'[w] = painted[w]  BY <1>0, <1>1, <2>2 DEF OverlayTypes
    <3>. QED  BY <3>1 DEF OverlayInv, PaintedFit
  <2>. QED  BY <2>1, <2>2
<1>7. OpenOverlays' = OpenOverlays /\ \A q \in Layers : Once(q)' = Once(q)  BY <1>1 DEF OpenOverlays, Once
<1>8. ViewsFit' /\ OpenedFit' /\ SizedFit'
  BY <1>1, <1>7 DEF OverlayInv, ViewsFit, Numbered, OpenedFit, SizedFit
<1>9. ToldFit' /\ ColoursDiffer'
  BY <1>1, <1>7 DEF OverlayInv, ToldFit, RectOf, DetermineSize, ColoursDiffer, Users
<1>. QED  BY <1>5, <1>6, <1>8, <1>9 DEF OverlayInv

\* Every step keeps the invariant.
LEMMA OverlayStep == OverlayInv /\ [OverlayNext]_overlayVars => OverlayInv'
<1>. SUFFICES ASSUME OverlayInv, [OverlayNext]_overlayVars PROVE OverlayInv'  OBVIOUS
<1>1. ASSUME NEW p \in Layers, AddPresentation(p) PROVE OverlayInv'  BY <1>1, AddPresentationKeeps
<1>2. ASSUME NEW v \in OverlayViews, OpenOverlay(v) PROVE OverlayInv'  BY <1>2, OpenOverlayKeeps
<1>3. ASSUME NEW v \in OverlayViews, CloseOverlay(v) PROVE OverlayInv'  BY <1>3, CloseOverlayKeeps
<1>4. ASSUME NEW v \in OverlayViews, DrawOverlay(v) PROVE OverlayInv'  BY <1>4, DrawOverlayKeeps
<1>5. ASSUME NEW v \in OverlayViews, NEW i \in 1..MaxLayers, ToggleLayer(v, i) PROVE OverlayInv'
  BY <1>5, ToggleLayerKeeps
<1>6. CASE UNCHANGED overlayVars
  <2>1. OpenOverlays' = OpenOverlays /\ \A q : Once(q)' = Once(q)  BY <1>6 DEF overlayVars, OpenOverlays, Once
  <2>2. OverlayTypes' /\ ViewsFit' /\ OpenedFit' /\ SizedFit'
    BY <1>6, <2>1 DEF overlayVars, OverlayInv, OverlayTypes, ViewsFit, Numbered, OpenedFit, SizedFit
  <2>3. ToldFit' /\ PaintedFit' /\ ColoursDiffer'
    BY <1>6, <2>1 DEF overlayVars, OverlayInv, ToldFit, RectOf, DetermineSize, PaintedFit, ColoursDiffer, Users
  <2>. QED  BY <2>2, <2>3 DEF OverlayInv
<1>. QED  BY <1>1, <1>2, <1>3, <1>4, <1>5, <1>6 DEF OverlayNext

\* In all behaviours, whatever the layers, the palette and the views: open views
\* have all layers and tell the stretching ones how large they are, colours differ
\* as long as they can, and the bottom of a stack is painted with its background.
THEOREM OverlayStaysRight == OverlaySpec => []OverlayIsRight
<1>1. OverlaySpec => []OverlayInv  BY OverlayInitially, OverlayStep, PTL DEF OverlaySpec
<1>. QED  BY <1>1, OverlayInvShows, PTL

-----------------------------------------------------------------------------
(***************************************************************************)
(* Application: windows and presentations are in order.  A handler of the  *)
(* code is many steps, of which each leaves something to be done: InOrder is*)
(* what holds between them, of a world in which some presentations have been*)
(* made and the others not been told of them yet.                          *)
(***************************************************************************)

NoTools   == [t \in ToolPlugins |-> 0]
NoWidgets == [o \in Colouring |-> 0]

AppWorlds ==
    [views : SUBSET WindowIds, created : Nat,
     presentations : SUBSET PresentationIds, opened : Nat,
     shown : [WindowIds -> {NullId} \cup PresentationIds],
     newMenu : [WindowIds -> SUBSET Makers],
     windowMenu : [WindowIds -> SUBSET PresentationIds],
     tools : [WindowIds -> [ToolPlugins -> Nat]],
     widgets : [WindowIds -> [Colouring -> Nat]],
     children : [PresentationIds -> SUBSET PresentationIds],
     providers : [PresentationIds -> [Colouring -> Nat]],
     loadedPresentations : [Images -> {NullId} \cup PresentationIds],
     local : SUBSET PresentationIds]

\* Every tool that is registered adds a button to the window.
LEMMA AddToolsIs ==
    ASSUME NEW u \in AppWorlds, NEW v \in WindowIds
    PROVE  LET t == AddTools(u, v)
           IN /\ t \in AppWorlds
              /\ t.views = u.views /\ t.created = u.created
              /\ t.presentations = u.presentations /\ t.opened = u.opened
              /\ t.shown = u.shown /\ t.newMenu = u.newMenu /\ t.windowMenu = u.windowMenu
              /\ t.widgets = u.widgets /\ t.children = u.children /\ t.providers = u.providers
              /\ t.loadedPresentations = u.loadedPresentations /\ t.local = u.local
              /\ \A w \in WindowIds \ {v} : t.tools[w] = u.tools[w]
              /\ \A x \in ToolPlugins : t.tools[v][x] = u.tools[v][x] + IF x \in registered THEN 1 ELSE 0
<1>. DEFINE t == AddTools(u, v)
            more == [x \in ToolPlugins |-> u.tools[v][x] + IF x \in registered THEN 1 ELSE 0]
<1>1. more \in [ToolPlugins -> Nat]  BY DEF AppWorlds
<1>2. t = [u EXCEPT !.tools = [u.tools EXCEPT ![v] = more]]  BY DEF AddTools, AppWorlds
<1>3. [u.tools EXCEPT ![v] = more] \in [WindowIds -> [ToolPlugins -> Nat]]
  <2>. HIDE DEF more
  <2>. QED  BY <1>1 DEF AppWorlds
<1>4. u.tools \in [WindowIds -> [ToolPlugins -> Nat]]  BY DEF AppWorlds
<1>. HIDE DEF t, more
<1>5. t \in AppWorlds  BY <1>2, <1>3 DEF AppWorlds
<1>6. /\ t.views = u.views /\ t.created = u.created
      /\ t.presentations = u.presentations /\ t.opened = u.opened
      /\ t.shown = u.shown /\ t.newMenu = u.newMenu /\ t.windowMenu = u.windowMenu
      /\ t.widgets = u.widgets /\ t.children = u.children /\ t.providers = u.providers
      /\ t.loadedPresentations = u.loadedPresentations /\ t.local = u.local
      /\ t.tools = [u.tools EXCEPT ![v] = more]
  BY <1>2 DEF AppWorlds
<1>7. /\ \A w \in WindowIds \ {v} : t.tools[w] = u.tools[w]
      /\ \A x \in ToolPlugins : t.tools[v][x] = u.tools[v][x] + IF x \in registered THEN 1 ELSE 0
  BY <1>4, <1>6 DEF more
<1>. QED  BY <1>5, <1>6, <1>7 DEF t

-----------------------------------------------------------------------------
(* Worlds that are in order, while a handler runs: pend are the presentations *)
(* that it has made and not told of yet.                                   *)
Roots(u, kept) == ({u.shown[v] : v \in u.views} \cup kept \cup u.local) \ {NullId}

CountsFit(u, kept) ==
    /\ u.created \in 0..MaxWindows /\ u.opened \in 0..MaxPresentations
    /\ u.views \subseteq 1..u.created
    /\ u.presentations \subseteq 1..u.opened /\ u.local \subseteq 1..u.opened /\ kept \subseteq 1..u.opened
    /\ \A v \in u.views : u.shown[v] \in u.presentations \cup {NullId}
    /\ \A p \in PresentationIds : /\ u.children[p] \subseteq 1..u.opened
                                  /\ p > u.opened => u.children[p] = {}
    /\ \A f \in Images : u.loadedPresentations[f] \in 0..u.opened

FamiliesFit(u, pend) ==
    /\ \A p \in PresentationIds : \A c \in u.children[p] : u.children[c] = {} /\ c \notin pend
    /\ \A f \in Images : u.loadedPresentations[f] # NullId =>
          u.children[u.loadedPresentations[f]] = {} /\ u.loadedPresentations[f] \notin pend

KnownFit(u, kept, pend) ==
    /\ Alive(u, kept) \subseteq u.presentations \cup pend
    /\ pend \subseteq u.local /\ pend \cap (u.presentations \cup kept) = {}

MenusFit(u, kept, reg, pend) ==
    \A v \in u.views : /\ u.windowMenu[v] \subseteq u.presentations
                       /\ Alive(u, kept) \ pend \subseteq u.windowMenu[v]
                       /\ u.newMenu[v] = Makers \cap reg

ToolsFit(u, reg) ==
    \A v \in WindowIds, t \in ToolPlugins :
        u.tools[v][t] = IF v \in u.views /\ u.shown[v] # NullId /\ t \in reg THEN 1 ELSE 0

ListsFit(u, pend) ==
    /\ \A v \in u.views, o \in Colouring :
          u.widgets[v][o] = IF u.shown[v] = NullId THEN 0 ELSE u.providers[u.shown[v]][o]
    /\ \A p \in PresentationIds, o \in Colouring :
          u.providers[p][o] <= 1 /\ (p \in pend \/ p > u.opened => u.providers[p][o] = 0)

InOrder(u, kept, reg, pend) ==
    /\ u \in AppWorlds /\ CountsFit(u, kept) /\ FamiliesFit(u, pend) /\ KnownFit(u, kept, pend)
    /\ MenusFit(u, kept, reg, pend) /\ ToolsFit(u, reg) /\ ListsFit(u, pend)

\* What is alive: the roots, and the children of the roots.
LEMMA AliveIs ==
    ASSUME NEW u, NEW kept
    PROVE  Alive(u, kept) = Roots(u, kept) \cup UNION {u.children[p] : p \in Roots(u, kept)}
BY DEF Alive, Roots

\* ... which depends on nothing else.
LEMMA AliveStays ==
    ASSUME NEW u, NEW t, NEW kept,
           t.shown = u.shown, t.views = u.views, t.children = u.children, t.local = u.local
    PROVE  Alive(t, kept) = Alive(u, kept)
BY DEF Alive

\* What is alive is a presentation that has been made.
LEMMA AliveFits ==
    ASSUME NEW u \in AppWorlds, NEW kept, CountsFit(u, kept)
    PROVE  /\ Roots(u, kept) \subseteq 1..u.opened /\ Roots(u, kept) \subseteq PresentationIds
           /\ Alive(u, kept) \subseteq 1..u.opened /\ Alive(u, kept) \subseteq PresentationIds
           /\ 1..u.opened \subseteq PresentationIds /\ NullId \notin Alive(u, kept)
<1>1. 1..u.opened \subseteq PresentationIds /\ NullId \notin 1..u.opened
  BY BoundsAssumption DEF CountsFit, PresentationIds, NullId
<1>2. Roots(u, kept) \subseteq 1..u.opened
  <2>. SUFFICES ASSUME NEW x \in Roots(u, kept) PROVE x \in 1..u.opened  OBVIOUS
  <2>1. CASE x \in kept \cup u.local  BY <2>1 DEF CountsFit
  <2>2. CASE x \notin kept \cup u.local
    <3>1. PICK v \in u.views : x = u.shown[v] /\ x # NullId  BY <2>2 DEF Roots
    <3>. QED  BY <3>1 DEF CountsFit
  <2>. QED  BY <2>1, <2>2
<1>3. \A p \in PresentationIds : u.children[p] \subseteq 1..u.opened  BY DEF CountsFit
<1>4. Alive(u, kept) \subseteq 1..u.opened  BY <1>1, <1>2, <1>3, AliveIs
<1>. QED  BY <1>1, <1>2, <1>4

\* A presentation that is alive is told of.
LEMMA PresentationCreatedIs ==
    ASSUME NEW u, NEW pend, NEW p \in pend, InOrder(u, held, registered, pend)
    PROVE  LET t == PresentationCreated(u, p)
           IN /\ InOrder(t, held, registered, pend \ {p})
              /\ t.views = u.views /\ t.created = u.created /\ t.opened = u.opened
              /\ t.presentations = u.presentations \cup {p}
              /\ t.shown = u.shown /\ t.children = u.children /\ t.local = u.local
              /\ t.loadedPresentations = u.loadedPresentations
<1>. DEFINE t == PresentationCreated(u, p)
            a == [u EXCEPT !.presentations = @ \cup {p}]
            menus == [v \in WindowIds |->
                        IF v \in u.views THEN (u.windowMenu[v] \cup {p}) \cap Alive(u, held) ELSE u.windowMenu[v]]
            list == [o \in Colouring |-> u.providers[p][o] + IF o \in registered THEN 1 ELSE 0]
            lists == [u.providers EXCEPT ![p] = list]
<1>0. u \in AppWorlds /\ CountsFit(u, held) /\ p \in u.local /\ p \in 1..u.opened /\ p \in PresentationIds
  <2>1. u \in AppWorlds /\ CountsFit(u, held) /\ p \in u.local  BY DEF InOrder, KnownFit
  <2>. QED  BY <2>1, AliveFits DEF CountsFit
<1>1. a \in AppWorlds /\ a.shown = u.shown /\ a.views = u.views /\ a.children = u.children /\ a.local = u.local
      /\ a.windowMenu = u.windowMenu /\ a.providers = u.providers
  BY <1>0 DEF AppWorlds
<1>2. Alive(a, held) = Alive(u, held)  BY <1>1, AliveStays
<1>3. UpdateMenus(a, {p}) = [a EXCEPT !.windowMenu = menus]
  <2>. HIDE DEF a
  <2>. QED  BY <1>1, <1>2 DEF UpdateMenus
<1>4. t = [u EXCEPT !.presentations = u.presentations \cup {p}, !.windowMenu = menus, !.providers = lists]
  <2>1. t = [[a EXCEPT !.windowMenu = menus] EXCEPT !.providers[p] =
                [o \in Colouring |-> @[o] + IF o \in registered THEN 1 ELSE 0]]
    <3>. HIDE DEF menus, a
    <3>. QED  BY <1>3 DEF PresentationCreated, a
  <2>. HIDE DEF menus, t
  <2>. QED  BY <1>0, <2>1 DEF AppWorlds
<1>5. menus \in [WindowIds -> SUBSET PresentationIds]  BY <1>0 DEF AppWorlds
<1>6. list \in [Colouring -> Nat]  BY <1>0 DEF AppWorlds
<1>7. lists \in [PresentationIds -> [Colouring -> Nat]] /\ lists[p] = list
      /\ \A q \in PresentationIds \ {p} : lists[q] = u.providers[q]
  <2>. HIDE DEF list
  <2>. QED  BY <1>0, <1>6 DEF AppWorlds
<1>. HIDE DEF t, menus, lists, a
<1>8. /\ t \in AppWorlds
      /\ t.views = u.views /\ t.created = u.created /\ t.opened = u.opened
      /\ t.presentations = u.presentations \cup {p}
      /\ t.shown = u.shown /\ t.children = u.children /\ t.local = u.local
      /\ t.loadedPresentations = u.loadedPresentations
      /\ t.newMenu = u.newMenu /\ t.windowMenu = menus /\ t.tools = u.tools
      /\ t.widgets = u.widgets /\ t.providers = lists
  BY <1>0, <1>4, <1>5, <1>7 DEF AppWorlds
<1>9. Alive(t, held) = Alive(u, held)  BY <1>8, AliveStays
<1>10. CountsFit(t, held)  BY <1>0, <1>8 DEF CountsFit
<1>11. FamiliesFit(t, pend \ {p})  BY <1>8 DEF InOrder, FamiliesFit
<1>12. KnownFit(t, held, pend \ {p})  BY <1>8, <1>9 DEF InOrder, KnownFit
<1>13. MenusFit(t, held, registered, pend \ {p})
  <2>. SUFFICES ASSUME NEW v \in u.views
                PROVE  /\ menus[v] \subseteq u.presentations \cup {p}
                       /\ Alive(u, held) \ (pend \ {p}) \subseteq menus[v]
                       /\ u.newMenu[v] = Makers \cap registered
    BY <1>8, <1>9 DEF MenusFit
  <2>1. menus[v] = (u.windowMenu[v] \cup {p}) \cap Alive(u, held)
    <3>1. v \in WindowIds  BY <1>0 DEF AppWorlds
    <3>. QED  BY <3>1 DEF menus
  <2>2. /\ u.windowMenu[v] \subseteq u.presentations /\ Alive(u, held) \ pend \subseteq u.windowMenu[v]
        /\ u.newMenu[v] = Makers \cap registered
    BY DEF InOrder, MenusFit
  <2>. QED  BY <2>1, <2>2
<1>14. ToolsFit(t, registered)  BY <1>8 DEF InOrder, ToolsFit
<1>15. ListsFit(t, pend \ {p})
  <2>1. \A v \in u.views : u.shown[v] # NullId => u.shown[v] \in PresentationIds \ {p}
    <3>1. \A v \in u.views : u.shown[v] \in u.presentations \cup {NullId}  BY <1>0 DEF CountsFit
    <3>2. p \notin u.presentations  BY DEF InOrder, KnownFit
    <3>3. u.presentations \subseteq PresentationIds  BY <1>0 DEF AppWorlds
    <3>. QED  BY <3>1, <3>2, <3>3
  <2>2. \A v \in u.views, o \in Colouring :
          u.widgets[v][o] = IF u.shown[v] = NullId THEN 0 ELSE u.providers[u.shown[v]][o]
    BY DEF InOrder, ListsFit
  <2>3. \A q \in PresentationIds, o \in Colouring :
          u.providers[q][o] <= 1 /\ (q \in pend \/ q > u.opened => u.providers[q][o] = 0)
    BY DEF InOrder, ListsFit
  <2>4. \A v \in t.views, o \in Colouring :
          t.widgets[v][o] = IF t.shown[v] = NullId THEN 0 ELSE t.providers[t.shown[v]][o]
    BY <1>7, <1>8, <2>1, <2>2
  <2>5. ASSUME NEW q \in PresentationIds, NEW o \in Colouring
        PROVE  lists[q][o] <= 1 /\ (q \in pend \ {p} \/ q > u.opened => lists[q][o] = 0)
    <3>1. CASE q = p
      <4>1. u.providers[p][o] = 0  BY <1>0, <2>3
      <4>2. list[o] = u.providers[p][o] + IF o \in registered THEN 1 ELSE 0  OBVIOUS
      <4>3. lists[q][o] = list[o]
        <5>. HIDE DEF list
        <5>1. lists[q] = list  BY <1>7, <3>1
        <5>. QED  BY <5>1
      <4>4. ~(q > u.opened)
        <5>. HIDE DEF list
        <5>1. u.opened \in Nat /\ q \in 1..u.opened  BY <1>0, <3>1 DEF CountsFit
        <5>. QED  BY <5>1
      <4>. HIDE DEF list
      <4>. QED  BY <3>1, <4>1, <4>2, <4>3, <4>4
    <3>2. CASE q # p  BY <1>7, <2>3, <3>2
    <3>. QED  BY <3>1, <3>2
  <2>. QED  BY <1>8, <2>4, <2>5 DEF ListsFit
<1>16. InOrder(t, held, registered, pend \ {p})
  BY <1>8, <1>10, <1>11, <1>12, <1>13, <1>14, <1>15 DEF InOrder
<1>. QED  BY <1>8, <1>16 DEF t

\* A presentation is made.
LEMMA CreateIs ==
    ASSUME NEW u, NEW pend, InOrder(u, held, registered, pend), u.opened < MaxPresentations
    PROVE  LET t == Create(u)
               p == u.opened + 1
           IN /\ InOrder(t, held, registered, pend \cup {p}) /\ p \in PresentationIds
              /\ t.views = u.views /\ t.created = u.created /\ t.opened = p
              /\ t.presentations = u.presentations /\ t.shown = u.shown
              /\ t.children = u.children /\ t.local = u.local \cup {p}
              /\ t.loadedPresentations = u.loadedPresentations
<1>. DEFINE t == Create(u)
            p == u.opened + 1
<1>0. u \in AppWorlds /\ CountsFit(u, held) /\ u.opened \in Nat  BY DEF InOrder, CountsFit
<1>1. p \in PresentationIds /\ p \in Nat /\ p \in 0..MaxPresentations
  BY <1>0, BoundsAssumption DEF PresentationIds
<1>2. /\ t \in AppWorlds
      /\ t.views = u.views /\ t.created = u.created /\ t.opened = p
      /\ t.presentations = u.presentations /\ t.shown = u.shown
      /\ t.children = u.children /\ t.local = u.local \cup {p}
      /\ t.loadedPresentations = u.loadedPresentations
      /\ t.newMenu = u.newMenu /\ t.windowMenu = u.windowMenu /\ t.tools = u.tools
      /\ t.widgets = u.widgets /\ t.providers = u.providers
  <2>1. t = [u EXCEPT !.opened = p, !.local = u.local \cup {p}]  BY <1>0 DEF Create, AppWorlds
  <2>. HIDE DEF t, p
  <2>. QED  BY <1>0, <1>1, <2>1 DEF AppWorlds
<1>3. 1..p = (1..u.opened) \cup {p} /\ p \notin 1..u.opened /\ p # NullId  BY <1>0 DEF NullId
<1>4. CountsFit(t, held)
  <2>1. /\ t.created \in 0..MaxWindows /\ t.views \subseteq 1..t.created
        /\ \A v \in t.views : t.shown[v] \in t.presentations \cup {NullId}
    BY <1>0, <1>2 DEF CountsFit
  <2>2. t.opened \in 0..MaxPresentations  BY <1>1, <1>2
  <2>3. t.presentations \subseteq 1..t.opened /\ t.local \subseteq 1..t.opened /\ held \subseteq 1..t.opened
    BY <1>0, <1>2, <1>3 DEF CountsFit
  <2>4. \A q \in PresentationIds : /\ t.children[q] \subseteq 1..t.opened
                                   /\ q > t.opened => t.children[q] = {}
    <3>1. \A q \in PresentationIds : q > p => q > u.opened  BY <1>0 DEF PresentationIds
    <3>. HIDE DEF p
    <3>. QED  BY <1>0, <1>2, <1>3, <3>1 DEF CountsFit
  <2>5. \A f \in Images : t.loadedPresentations[f] \in 0..t.opened  BY <1>0, <1>2 DEF CountsFit
  <2>. QED  BY <2>1, <2>2, <2>3, <2>4, <2>5 DEF CountsFit
<1>5. Alive(t, held) = Alive(u, held) \cup {p}
  <2>1. Roots(t, held) = Roots(u, held) \cup {p}  BY <1>2, <1>3 DEF Roots
  <2>2. t.children[p] = {}  BY <1>0, <1>1, <1>2 DEF CountsFit
  <2>. HIDE DEF t, p
  <2>. QED  BY <1>2, <2>1, <2>2, AliveIs
<1>6. \A q \in PresentationIds : u.children[q] \subseteq 1..u.opened  BY <1>0 DEF CountsFit
<1>. HIDE DEF t, p
<1>7. FamiliesFit(t, pend \cup {p})
  <2>1. \A f \in Images : u.loadedPresentations[f] # p
    <3>1. \A f \in Images : u.loadedPresentations[f] \in 0..u.opened  BY <1>0 DEF CountsFit
    <3>. QED  BY <1>0, <3>1 DEF p
  <2>. QED  BY <1>2, <1>3, <1>6, <2>1 DEF InOrder, FamiliesFit
<1>8. KnownFit(t, held, pend \cup {p})
  <2>1. p \notin u.presentations \cup held  BY <1>0, <1>3 DEF CountsFit
  <2>. QED  BY <1>2, <1>5, <2>1 DEF InOrder, KnownFit
<1>9. MenusFit(t, held, registered, pend \cup {p})  BY <1>2, <1>5 DEF InOrder, MenusFit
<1>10. ToolsFit(t, registered)  BY <1>2 DEF InOrder, ToolsFit
<1>11. ListsFit(t, pend \cup {p})
  <2>1. \A q \in PresentationIds : q > p \/ q = p => q > u.opened  BY <1>0 DEF PresentationIds, p
  <2>. QED  BY <1>2, <2>1 DEF InOrder, ListsFit
<1>12. InOrder(t, held, registered, pend \cup {p})
  BY <1>2, <1>4, <1>7, <1>8, <1>9, <1>10, <1>11 DEF InOrder
<1>. QED  BY <1>1, <1>2, <1>12 DEF t, p

\* The handler returns: what it has not told of is gone.
LEMMA ReleaseIs ==
    ASSUME NEW u, NEW pend, InOrder(u, held, registered, pend)
    PROVE  LET t == Release(u)
           IN /\ InOrder(t, held, registered, {})
              /\ t.views = u.views /\ t.created = u.created /\ t.opened = u.opened
              /\ t.presentations = u.presentations /\ t.shown = u.shown
              /\ t.children = u.children /\ t.local = {}
              /\ t.loadedPresentations = u.loadedPresentations
<1>. DEFINE t == Release(u)
<1>0. u \in AppWorlds /\ CountsFit(u, held)  BY DEF InOrder
<1>1. /\ t \in AppWorlds
      /\ t.views = u.views /\ t.created = u.created /\ t.opened = u.opened
      /\ t.presentations = u.presentations /\ t.shown = u.shown
      /\ t.children = u.children /\ t.local = {}
      /\ t.loadedPresentations = u.loadedPresentations
      /\ t.newMenu = u.newMenu /\ t.windowMenu = u.windowMenu /\ t.tools = u.tools
      /\ t.widgets = u.widgets /\ t.providers = u.providers
  BY <1>0 DEF Release, AppWorlds
<1>. HIDE DEF t
<1>2. CountsFit(t, held)
  <2>1. {} \subseteq 1..u.opened  OBVIOUS
  <2>. QED  BY <1>0, <1>1, <2>1 DEF CountsFit
<1>3. Roots(t, held) \subseteq Roots(u, held)  BY <1>1 DEF Roots
<1>4. Alive(t, held) \subseteq Alive(u, held)  BY <1>1, <1>3, AliveIs
<1>5. Alive(t, held) \cap pend = {}
  <2>1. Roots(t, held) \cap pend = {}
    <3>1. \A v \in u.views : u.shown[v] \in u.presentations \cup {NullId}  BY <1>0 DEF CountsFit
    <3>2. pend \cap (u.presentations \cup held) = {}  BY DEF InOrder, KnownFit
    <3>. QED  BY <1>1, <3>1, <3>2 DEF Roots
  <2>2. \A q \in PresentationIds : t.children[q] \cap pend = {}  BY <1>1 DEF InOrder, FamiliesFit
  <2>3. Roots(t, held) \subseteq PresentationIds  BY <1>1, <1>2, AliveFits
  <2>. QED  BY <2>1, <2>2, <2>3, AliveIs
<1>6. FamiliesFit(t, {})  BY <1>1 DEF InOrder, FamiliesFit
<1>7. KnownFit(t, held, {})  BY <1>1, <1>4, <1>5 DEF InOrder, KnownFit
<1>8. MenusFit(t, held, registered, {})  BY <1>1, <1>4, <1>5 DEF InOrder, MenusFit
<1>9. ToolsFit(t, registered)  BY <1>1 DEF InOrder, ToolsFit
<1>10. ListsFit(t, {})  BY <1>1 DEF InOrder, ListsFit
<1>11. InOrder(t, held, registered, {})
  BY <1>1, <1>2, <1>6, <1>7, <1>8, <1>9, <1>10 DEF InOrder
<1>. QED  BY <1>1, <1>11 DEF t

\* What is gone is removed from the menus and from the presentations.
LEMMA PossiblyDestroyedIs ==
    ASSUME NEW u, InOrder(u, held, registered, {})
    PROVE  LET t == PossiblyDestroyed(u)
           IN /\ InOrder(t, held, registered, {})
              /\ t.views = u.views /\ t.created = u.created /\ t.opened = u.opened
              /\ t.presentations \subseteq Alive(t, held) /\ t.shown = u.shown
              /\ t.children = u.children /\ t.local = u.local
              /\ t.loadedPresentations = u.loadedPresentations
<1>. DEFINE t == PossiblyDestroyed(u)
            a == [u EXCEPT !.presentations = @ \cap Alive(u, held)]
            menus == [v \in WindowIds |->
                        IF v \in u.views THEN (u.windowMenu[v] \cup {}) \cap Alive(u, held) ELSE u.windowMenu[v]]
<1>0. u \in AppWorlds /\ CountsFit(u, held)  BY DEF InOrder
<1>1. CASE u.presentations \subseteq Alive(u, held)
  <2>1. t = u  BY <1>1 DEF PossiblyDestroyed
  <2>. QED  BY <1>1, <2>1
<1>2. CASE ~(u.presentations \subseteq Alive(u, held))
  <2>1. t = UpdateMenus(a, {})  BY <1>2 DEF PossiblyDestroyed
  <2>2. a \in AppWorlds /\ a.shown = u.shown /\ a.views = u.views /\ a.children = u.children /\ a.local = u.local
        /\ a.windowMenu = u.windowMenu
    BY <1>0 DEF AppWorlds
  <2>3. Alive(a, held) = Alive(u, held)  BY <2>2, AliveStays
  <2>4. t = [a EXCEPT !.windowMenu = menus]
    <3>. HIDE DEF a, t
    <3>. QED  BY <2>1, <2>2, <2>3 DEF UpdateMenus
  <2>5. t = [u EXCEPT !.presentations = u.presentations \cap Alive(u, held), !.windowMenu = menus]
    <3>. HIDE DEF menus, t
    <3>. QED  BY <1>0, <2>4 DEF AppWorlds
  <2>6. menus \in [WindowIds -> SUBSET PresentationIds]  BY <1>0 DEF AppWorlds
  <2>. HIDE DEF t, menus, a
  <2>7. /\ t \in AppWorlds
        /\ t.views = u.views /\ t.created = u.created /\ t.opened = u.opened
        /\ t.presentations = u.presentations \cap Alive(u, held)
        /\ t.shown = u.shown /\ t.children = u.children /\ t.local = u.local
        /\ t.loadedPresentations = u.loadedPresentations
        /\ t.newMenu = u.newMenu /\ t.windowMenu = menus /\ t.tools = u.tools
        /\ t.widgets = u.widgets /\ t.providers = u.providers
    BY <1>0, <2>5, <2>6 DEF AppWorlds
  <2>8. Alive(t, held) = Alive(u, held)  BY <2>7, AliveStays
  <2>9. CountsFit(t, held)
    <3>1. \A v \in u.views : u.shown[v] # NullId => u.shown[v] \in Alive(u, held)
      BY AliveIs DEF Roots
    <3>2. \A v \in t.views : t.shown[v] \in t.presentations \cup {NullId}
      BY <1>0, <2>7, <3>1 DEF CountsFit
    <3>3. t.presentations \subseteq 1..t.opened  BY <1>0, <2>7 DEF CountsFit
    <3>. QED  BY <1>0, <2>7, <3>2, <3>3 DEF CountsFit
  <2>10. FamiliesFit(t, {})  BY <2>7 DEF InOrder, FamiliesFit
  <2>11. KnownFit(t, held, {})  BY <2>7, <2>8 DEF InOrder, KnownFit
  <2>12. MenusFit(t, held, registered, {})
    <3>. SUFFICES ASSUME NEW v \in u.views
                  PROVE  /\ menus[v] \subseteq u.presentations \cap Alive(u, held)
                         /\ Alive(u, held) \ {} \subseteq menus[v]
                         /\ u.newMenu[v] = Makers \cap registered
      BY <2>7, <2>8 DEF MenusFit
    <3>1. menus[v] = u.windowMenu[v] \cap Alive(u, held)
      <4>1. v \in WindowIds  BY <1>0 DEF AppWorlds
      <4>. QED  BY <4>1 DEF menus
    <3>2. /\ u.windowMenu[v] \subseteq u.presentations /\ Alive(u, held) \ {} \subseteq u.windowMenu[v]
          /\ u.newMenu[v] = Makers \cap registered
      BY DEF InOrder, MenusFit
    <3>. QED  BY <3>1, <3>2
  <2>13. ToolsFit(t, registered)  BY <2>7 DEF InOrder, ToolsFit
  <2>14. ListsFit(t, {})  BY <2>7 DEF InOrder, ListsFit
  <2>15. InOrder(t, held, registered, {})
    BY <2>7, <2>9, <2>10, <2>11, <2>12, <2>13, <2>14 DEF InOrder
  <2>. QED  BY <2>7, <2>8, <2>15 DEF t
<1>. QED  BY <1>1, <1>2

-----------------------------------------------------------------------------
(* A presentation is shown.                                                *)

\* A view that shows what is alive keeps alive nothing else.
LEMMA ShownToo ==
    ASSUME NEW u \in AppWorlds, NEW t, NEW p \in Alive(u, held), CountsFit(u, held), FamiliesFit(u, {}),
           t.children = u.children, Roots(t, held) = Roots(u, held) \cup {p}
    PROVE  Alive(t, held) = Alive(u, held)
<1>1. Roots(u, held) \subseteq PresentationIds  BY AliveFits
<1>2. CASE p \in Roots(u, held)
  <2>1. Roots(t, held) = Roots(u, held)  BY <1>2
  <2>. QED  BY <2>1, AliveIs
<1>3. CASE p \notin Roots(u, held)
  <2>1. PICK q \in Roots(u, held) : p \in u.children[q]  BY <1>3, AliveIs
  <2>2. u.children[p] = {}  BY <1>1, <2>1 DEF FamiliesFit
  <2>. QED  BY <2>2, AliveIs
<1>. QED  BY <1>2, <1>3

\* What is to be shown, and what comes of it.
Shows(u, t, p) ==
    /\ InOrder(t, held, registered, {})
    /\ t.created \in u.created..(u.created + 1) /\ t.opened = u.opened
    /\ t.presentations = u.presentations /\ t.children = u.children /\ t.local = u.local
    /\ t.loadedPresentations = u.loadedPresentations
    /\ Alive(t, held) = Alive(u, held)
    /\ u.views \subseteq t.views
    /\ \E v \in t.views : /\ t.shown[v] = p
                          /\ \A w \in t.views \ {v} : w \in u.views /\ t.shown[w] = u.shown[w]

\* A presentation that is alive is shown in an empty window.
LEMMA ShownInEmptyView ==
    ASSUME NEW u, InOrder(u, held, registered, {}), NEW p \in u.presentations, p \in Alive(u, held),
           NEW v \in u.views, u.shown[v] = NullId
    PROVE  Shows(u, AddTools(PresentIn(u, v, p), v), p)
<1>. DEFINE a == PresentIn(u, v, p)
            t == AddTools(a, v)
<1>0. /\ u \in AppWorlds /\ CountsFit(u, held) /\ FamiliesFit(u, {}) /\ v \in WindowIds /\ p \in PresentationIds
      /\ u.shown \in [WindowIds -> {NullId} \cup PresentationIds]
      /\ u.widgets \in [WindowIds -> [Colouring -> Nat]] /\ u.providers[p] \in [Colouring -> Nat]
      /\ u.views \subseteq WindowIds
  BY DEF InOrder, AppWorlds
<1>1. /\ a \in AppWorlds
      /\ a.views = u.views /\ a.created = u.created /\ a.opened = u.opened
      /\ a.presentations = u.presentations
      /\ a.shown = [u.shown EXCEPT ![v] = p] /\ a.children = u.children /\ a.local = u.local
      /\ a.loadedPresentations = u.loadedPresentations
      /\ a.newMenu = u.newMenu /\ a.windowMenu = u.windowMenu /\ a.tools = u.tools
      /\ a.widgets = [u.widgets EXCEPT ![v] = u.providers[p]] /\ a.providers = u.providers
  BY <1>0 DEF PresentIn, AppWorlds
<1>. HIDE DEF a
<1>2. /\ t \in AppWorlds
      /\ t.views = u.views /\ t.created = u.created /\ t.opened = u.opened
      /\ t.presentations = u.presentations
      /\ t.shown = [u.shown EXCEPT ![v] = p] /\ t.children = u.children /\ t.local = u.local
      /\ t.loadedPresentations = u.loadedPresentations
      /\ t.newMenu = u.newMenu /\ t.windowMenu = u.windowMenu
      /\ t.widgets = [u.widgets EXCEPT ![v] = u.providers[p]] /\ t.providers = u.providers
      /\ \A w \in WindowIds \ {v} : t.tools[w] = u.tools[w]
      /\ \A x \in ToolPlugins : t.tools[v][x] = u.tools[v][x] + IF x \in registered THEN 1 ELSE 0
  BY <1>0, <1>1, AddToolsIs
<1>. HIDE DEF t
<1>3. /\ t.shown[v] = p /\ \A w \in WindowIds \ {v} : t.shown[w] = u.shown[w]
      /\ t.widgets[v] = u.providers[p] /\ \A w \in WindowIds \ {v} : t.widgets[w] = u.widgets[w]
  BY <1>0, <1>2
<1>4. p # NullId  BY <1>0 DEF PresentationIds, NullId
<1>5. Roots(t, held) = Roots(u, held) \cup {p}
  <2>1. {t.shown[w] : w \in t.views} = {u.shown[w] : w \in u.views \ {v}} \cup {p}  BY <1>0, <1>2, <1>3
  <2>2. {u.shown[w] : w \in u.views} = {u.shown[w] : w \in u.views \ {v}} \cup {NullId}  OBVIOUS
  <2>. QED  BY <1>2, <1>4, <2>1, <2>2 DEF Roots
<1>6. Alive(t, held) = Alive(u, held)  BY <1>0, <1>2, <1>5, ShownToo
<1>7. CountsFit(t, held)
  <2>1. \A w \in t.views : t.shown[w] \in t.presentations \cup {NullId}  BY <1>0, <1>2, <1>3 DEF CountsFit
  <2>. QED  BY <1>0, <1>2, <2>1 DEF CountsFit
<1>8. FamiliesFit(t, {})  BY <1>0, <1>2 DEF FamiliesFit
<1>9. KnownFit(t, held, {})  BY <1>2, <1>6 DEF InOrder, KnownFit
<1>10. MenusFit(t, held, registered, {})  BY <1>2, <1>6 DEF InOrder, MenusFit
<1>11. ToolsFit(t, registered)
  <2>1. \A w \in WindowIds, x \in ToolPlugins :
          u.tools[w][x] = IF w \in u.views /\ u.shown[w] # NullId /\ x \in registered THEN 1 ELSE 0
    BY DEF InOrder, ToolsFit
  <2>2. ASSUME NEW w \in WindowIds, NEW x \in ToolPlugins
        PROVE  t.tools[w][x] = IF w \in t.views /\ t.shown[w] # NullId /\ x \in registered THEN 1 ELSE 0
    <3>1. CASE w = v
      <4>1. u.tools[v][x] = 0  BY <1>0, <2>1
      <4>2. t.tools[v][x] = IF x \in registered THEN 1 ELSE 0  BY <1>2, <4>1
      <4>. QED  BY <1>2, <1>3, <1>4, <3>1, <4>2
    <3>2. CASE w # v  BY <1>2, <1>3, <2>1, <3>2
    <3>. QED  BY <3>1, <3>2
  <2>. QED  BY <2>2 DEF ToolsFit
<1>12. ListsFit(t, {})
  <2>1. \A w \in u.views, o \in Colouring :
          u.widgets[w][o] = IF u.shown[w] = NullId THEN 0 ELSE u.providers[u.shown[w]][o]
    BY DEF InOrder, ListsFit
  <2>2. ASSUME NEW w \in u.views, NEW o \in Colouring
        PROVE  t.widgets[w][o] = IF t.shown[w] = NullId THEN 0 ELSE u.providers[t.shown[w]][o]
    <3>1. CASE w = v  BY <1>3, <1>4, <3>1
    <3>2. CASE w # v  BY <1>0, <1>3, <2>1, <3>2
    <3>. QED  BY <3>1, <3>2
  <2>. QED  BY <1>2, <2>2 DEF InOrder, ListsFit
<1>13. InOrder(t, held, registered, {})
  BY <1>2, <1>7, <1>8, <1>9, <1>10, <1>11, <1>12 DEF InOrder
<1>14. \E x \in t.views : /\ t.shown[x] = p
                          /\ \A w \in t.views \ {x} : w \in u.views /\ t.shown[w] = u.shown[w]
  BY <1>0, <1>2, <1>3
<1>15. t.created \in u.created..(u.created + 1)  BY <1>0, <1>2 DEF CountsFit
<1>. QED  BY <1>2, <1>6, <1>13, <1>14, <1>15 DEF Shows, t, a

\* A presentation that is alive is shown in a new window.
LEMMA ShownInNewView ==
    ASSUME NEW u, InOrder(u, held, registered, {}), NEW p \in u.presentations, p \in Alive(u, held),
           u.created < MaxWindows
    PROVE  Shows(u, CreateScroom(u, p), p)
<1>. DEFINE v == u.created + 1
            fresh == [u EXCEPT !.created = v, !.newMenu[v] = Makers \cap registered]
            view == PresentIn(fresh, v, p)
            seen == [view EXCEPT !.views = @ \cup {v}]
            menu == (u.windowMenu[v] \cup u.presentations) \cap Alive(seen, held)
            a == UpdateNewWindowMenu(seen, v, u.presentations)
            t == AddTools(a, v)
<1>0. /\ u \in AppWorlds /\ CountsFit(u, held) /\ FamiliesFit(u, {}) /\ p \in PresentationIds
      /\ u.shown \in [WindowIds -> {NullId} \cup PresentationIds]
      /\ u.newMenu \in [WindowIds -> SUBSET Makers] /\ u.windowMenu \in [WindowIds -> SUBSET PresentationIds]
      /\ u.widgets \in [WindowIds -> [Colouring -> Nat]] /\ u.providers[p] \in [Colouring -> Nat]
      /\ u.views \subseteq WindowIds /\ u.created \in Nat /\ u.presentations \subseteq PresentationIds
  BY DEF InOrder, AppWorlds
<1>1. v \in WindowIds /\ v \in Nat /\ v \notin u.views /\ v \in 0..MaxWindows
  BY <1>0, BoundsAssumption DEF CountsFit, WindowIds
<1>2. CreateScroom(u, p) = t
  <2>1. p # NullId  BY <1>0 DEF PresentationIds, NullId
  <2>. QED  BY <2>1 DEF CreateScroom, CreateView
<1>3. /\ fresh \in AppWorlds
      /\ fresh.views = u.views /\ fresh.created = v /\ fresh.opened = u.opened
      /\ fresh.presentations = u.presentations
      /\ fresh.shown = u.shown /\ fresh.children = u.children /\ fresh.local = u.local
      /\ fresh.loadedPresentations = u.loadedPresentations
      /\ fresh.newMenu = [u.newMenu EXCEPT ![v] = Makers \cap registered]
      /\ fresh.windowMenu = u.windowMenu /\ fresh.tools = u.tools
      /\ fresh.widgets = u.widgets /\ fresh.providers = u.providers
  <2>. HIDE DEF v
  <2>. QED  BY <1>0, <1>1 DEF AppWorlds
<1>. HIDE DEF fresh, v
<1>4. /\ view \in AppWorlds
      /\ view.views = u.views /\ view.created = v /\ view.opened = u.opened
      /\ view.presentations = u.presentations
      /\ view.shown = [u.shown EXCEPT ![v] = p] /\ view.children = u.children /\ view.local = u.local
      /\ view.loadedPresentations = u.loadedPresentations
      /\ view.newMenu = [u.newMenu EXCEPT ![v] = Makers \cap registered]
      /\ view.windowMenu = u.windowMenu /\ view.tools = u.tools
      /\ view.widgets = [u.widgets EXCEPT ![v] = u.providers[p]] /\ view.providers = u.providers
  BY <1>0, <1>1, <1>3 DEF PresentIn, AppWorlds
<1>. HIDE DEF view
<1>5. /\ seen \in AppWorlds
      /\ seen.views = u.views \cup {v} /\ seen.created = v /\ seen.opened = u.opened
      /\ seen.presentations = u.presentations
      /\ seen.shown = [u.shown EXCEPT ![v] = p] /\ seen.children = u.children /\ seen.local = u.local
      /\ seen.loadedPresentations = u.loadedPresentations
      /\ seen.newMenu = [u.newMenu EXCEPT ![v] = Makers \cap registered]
      /\ seen.windowMenu = u.windowMenu /\ seen.tools = u.tools
      /\ seen.widgets = [u.widgets EXCEPT ![v] = u.providers[p]] /\ seen.providers = u.providers
  BY <1>0, <1>1, <1>4 DEF AppWorlds
<1>. HIDE DEF seen
<1>6. /\ a \in AppWorlds
      /\ a.views = u.views \cup {v} /\ a.created = v /\ a.opened = u.opened
      /\ a.presentations = u.presentations
      /\ a.shown = [u.shown EXCEPT ![v] = p] /\ a.children = u.children /\ a.local = u.local
      /\ a.loadedPresentations = u.loadedPresentations
      /\ a.newMenu = [u.newMenu EXCEPT ![v] = Makers \cap registered]
      /\ a.windowMenu = [u.windowMenu EXCEPT ![v] = menu] /\ a.tools = u.tools
      /\ a.widgets = [u.widgets EXCEPT ![v] = u.providers[p]] /\ a.providers = u.providers
  <2>1. a = [seen EXCEPT !.windowMenu = [u.windowMenu EXCEPT ![v] = menu]]
    BY <1>5 DEF UpdateNewWindowMenu, AppWorlds
  <2>2. menu \subseteq PresentationIds  BY <1>0, <1>1
  <2>. HIDE DEF a, menu
  <2>. QED  BY <1>0, <1>1, <1>5, <2>1, <2>2 DEF AppWorlds
<1>. HIDE DEF a, menu
<1>7. /\ t \in AppWorlds
      /\ t.views = u.views \cup {v} /\ t.created = v /\ t.opened = u.opened
      /\ t.presentations = u.presentations
      /\ t.shown = [u.shown EXCEPT ![v] = p] /\ t.children = u.children /\ t.local = u.local
      /\ t.loadedPresentations = u.loadedPresentations
      /\ t.newMenu = [u.newMenu EXCEPT ![v] = Makers \cap registered]
      /\ t.windowMenu = [u.windowMenu EXCEPT ![v] = menu]
      /\ t.widgets = [u.widgets EXCEPT ![v] = u.providers[p]] /\ t.providers = u.providers
      /\ \A w \in WindowIds \ {v} : t.tools[w] = u.tools[w]
      /\ \A x \in ToolPlugins : t.tools[v][x] = u.tools[v][x] + IF x \in registered THEN 1 ELSE 0
  BY <1>1, <1>6, AddToolsIs
<1>. HIDE DEF t
<1>8. /\ t.shown[v] = p /\ \A w \in WindowIds \ {v} : t.shown[w] = u.shown[w]
      /\ t.widgets[v] = u.providers[p] /\ \A w \in WindowIds \ {v} : t.widgets[w] = u.widgets[w]
      /\ t.newMenu[v] = Makers \cap registered /\ \A w \in WindowIds \ {v} : t.newMenu[w] = u.newMenu[w]
      /\ t.windowMenu[v] = menu /\ \A w \in WindowIds \ {v} : t.windowMenu[w] = u.windowMenu[w]
  BY <1>0, <1>1, <1>7
<1>9. p # NullId  BY <1>0 DEF PresentationIds, NullId
<1>10. \A w \in u.views : w \in WindowIds \ {v}  BY <1>0, <1>1
<1>11. Roots(t, held) = Roots(u, held) \cup {p}
  <2>1. {t.shown[w] : w \in t.views} = {u.shown[w] : w \in u.views} \cup {p}  BY <1>7, <1>8, <1>10
  <2>. QED  BY <1>7, <1>9, <2>1 DEF Roots
<1>12. Alive(t, held) = Alive(u, held)  BY <1>0, <1>7, <1>11, ShownToo
<1>13. Alive(seen, held) = Alive(u, held)
  <2>1. t.shown = seen.shown /\ t.views = seen.views /\ t.children = seen.children /\ t.local = seen.local
    BY <1>5, <1>7
  <2>2. Alive(t, held) = Alive(seen, held)  BY <2>1, AliveStays
  <2>. QED  BY <1>12, <2>2
<1>14. CountsFit(t, held)
  <2>1. \A w \in t.views : t.shown[w] \in t.presentations \cup {NullId}  BY <1>0, <1>7, <1>8, <1>10 DEF CountsFit
  <2>2. t.views \subseteq 1..t.created
    <3>1. u.views \subseteq 1..u.created  BY <1>0 DEF CountsFit
    <3>2. v = u.created + 1  BY DEF v
    <3>. QED  BY <1>0, <1>7, <3>1, <3>2
  <2>3. t.created \in 0..MaxWindows /\ t.opened = u.opened /\ t.presentations = u.presentations
        /\ t.local = u.local /\ t.children = u.children /\ t.loadedPresentations = u.loadedPresentations
    BY <1>1, <1>7
  <2>4. t.presentations \subseteq 1..t.opened /\ t.local \subseteq 1..t.opened /\ held \subseteq 1..t.opened
        /\ t.opened \in 0..MaxPresentations
    BY <1>0, <2>3 DEF CountsFit
  <2>5. \A q \in PresentationIds : t.children[q] \subseteq 1..t.opened /\ (q > t.opened => t.children[q] = {})
    BY <1>0, <2>3 DEF CountsFit
  <2>6. \A f \in Images : t.loadedPresentations[f] \in 0..t.opened  BY <1>0, <2>3 DEF CountsFit
  <2>7. t.created \in 0..MaxWindows /\ t.opened \in 0..MaxPresentations  BY <2>3, <2>4
  <2>8. t.presentations \subseteq 1..t.opened /\ t.local \subseteq 1..t.opened /\ held \subseteq 1..t.opened
    BY <2>4
  <2>. QED  BY ONLY <2>1, <2>2, <2>5, <2>6, <2>7, <2>8, Zenon DEF CountsFit
<1>15. FamiliesFit(t, {})
  <2>1. t.children = u.children /\ t.loadedPresentations = u.loadedPresentations  BY <1>7
  <2>2. FamiliesFit(u, {})  BY <1>0
  <2>. QED  BY ONLY <2>1, <2>2 DEF FamiliesFit
<1>16. KnownFit(t, held, {})  BY <1>7, <1>12 DEF InOrder, KnownFit
<1>17. MenusFit(t, held, registered, {})
  <2>1. Alive(u, held) \subseteq u.presentations  BY DEF InOrder, KnownFit
  <2>2. menu \subseteq u.presentations /\ Alive(u, held) \subseteq menu  BY <1>13, <2>1 DEF menu
  <2>3. \A w \in u.views : /\ u.windowMenu[w] \subseteq u.presentations
                           /\ Alive(u, held) \ {} \subseteq u.windowMenu[w]
                           /\ u.newMenu[w] = Makers \cap registered
    BY DEF InOrder, MenusFit
  <2>4. ASSUME NEW w \in t.views
        PROVE  /\ t.windowMenu[w] \subseteq u.presentations /\ Alive(u, held) \ {} \subseteq t.windowMenu[w]
               /\ t.newMenu[w] = Makers \cap registered
    <3>1. CASE w = v  BY <1>8, <2>2, <3>1
    <3>2. CASE w # v
      <4>1. w \in u.views  BY <1>7, <3>2
      <4>. QED  BY <1>8, <1>10, <2>3, <4>1
    <3>. QED  BY <3>1, <3>2
  <2>. QED  BY <1>7, <1>12, <2>4 DEF MenusFit
<1>18. ToolsFit(t, registered)
  <2>1. \A w \in WindowIds, x \in ToolPlugins :
          u.tools[w][x] = IF w \in u.views /\ u.shown[w] # NullId /\ x \in registered THEN 1 ELSE 0
    BY DEF InOrder, ToolsFit
  <2>2. ASSUME NEW w \in WindowIds, NEW x \in ToolPlugins
        PROVE  t.tools[w][x] = IF w \in t.views /\ t.shown[w] # NullId /\ x \in registered THEN 1 ELSE 0
    <3>1. CASE w = v
      <4>1. u.tools[v][x] = 0  BY <1>1, <2>1
      <4>2. t.tools[v][x] = IF x \in registered THEN 1 ELSE 0  BY <1>7, <4>1
      <4>. QED  BY <1>7, <1>8, <1>9, <3>1, <4>2
    <3>2. CASE w # v  BY <1>7, <1>8, <2>1, <3>2
    <3>. QED  BY <3>1, <3>2
  <2>. QED  BY <2>2 DEF ToolsFit
<1>19. ListsFit(t, {})
  <2>1. \A w \in u.views, o \in Colouring :
          u.widgets[w][o] = IF u.shown[w] = NullId THEN 0 ELSE u.providers[u.shown[w]][o]
    BY DEF InOrder, ListsFit
  <2>2. ASSUME NEW w \in t.views, NEW o \in Colouring
        PROVE  t.widgets[w][o] = IF t.shown[w] = NullId THEN 0 ELSE u.providers[t.shown[w]][o]
    <3>1. CASE w = v  BY <1>8, <1>9, <3>1
    <3>2. CASE w # v
      <4>1. w \in u.views  BY <1>7, <3>2
      <4>. QED  BY <1>8, <1>10, <2>1, <4>1
    <3>. QED  BY <3>1, <3>2
  <2>. QED  BY <1>7, <2>2 DEF InOrder, ListsFit
<1>20. InOrder(t, held, registered, {})
  BY <1>7, <1>14, <1>15, <1>16, <1>17, <1>18, <1>19 DEF InOrder
<1>21. \E x \in t.views : /\ t.shown[x] = p
                          /\ \A w \in t.views \ {x} : w \in u.views /\ t.shown[w] = u.shown[w]
  BY <1>7, <1>8, <1>10
<1>22. t.created \in u.created..(u.created + 1)  BY <1>0, <1>7 DEF v
<1>. QED  BY <1>2, <1>7, <1>12, <1>20, <1>21, <1>22 DEF Shows

\* The window it is shown in: an empty one, or a new one.
LEMMA FindOrCreateIs ==
    ASSUME NEW u, InOrder(u, held, registered, {}), NEW p \in u.presentations, p \in Alive(u, held),
           u.created < MaxWindows
    PROVE  Shows(u, FindOrCreateScroom(u, p), p)
<1>1. CASE \E v \in u.views : u.shown[v] = NullId
  <2>. DEFINE v == CHOOSE v \in u.views : u.shown[v] = NullId
  <2>1. v \in u.views /\ u.shown[v] = NullId  BY <1>1
  <2>2. FindOrCreateScroom(u, p) = AddTools(PresentIn(u, v, p), v)  BY <1>1 DEF FindOrCreateScroom
  <2>. HIDE DEF v
  <2>. QED  BY <2>1, <2>2, ShownInEmptyView
<1>2. CASE ~ \E v \in u.views : u.shown[v] = NullId
  <2>1. FindOrCreateScroom(u, p) = CreateScroom(u, p)  BY <1>2 DEF FindOrCreateScroom
  <2>. QED  BY <2>1, ShownInNewView
<1>. QED  BY <1>1, <1>2

-----------------------------------------------------------------------------
(* What a handler leaves behind that has made no more than n presentations. *)
NoFiles == [regular |-> <<>>, overlay |-> <<>>]

Cared(u)   == u.presentations \subseteq Alive(u, held) \cup late
NoEmpty(u) == \A v \in u.views : u.shown[v] # NullId

LeavesBehind(u, t, n) ==
    /\ InOrder(t, held, registered, {}) /\ t.local = {}
    /\ t.opened <= u.opened + n /\ t.created <= u.created + n
    /\ u.views \subseteq t.views
    /\ (Cared(u) => Cared(t)) /\ (NoEmpty(u) => NoEmpty(t))

\* What is alive stays so when more is held.
LEMMA AliveGrows ==
    ASSUME NEW u, NEW t, Roots(u, held) \subseteq Roots(t, held), t.children = u.children
    PROVE  Alive(u, held) \subseteq Alive(t, held) /\ Roots(t, held) \subseteq Alive(t, held)
BY AliveIs

\* Every handler that makes a presentation ends with this.
LEMMA MadeIsShown ==
    ASSUME NEW u, NEW p, InOrder(u, held, registered, {p}), u.local \subseteq {p} \cup u.children[p],
           u.created < MaxWindows
    PROVE  LET t == Release(FindOrCreateScroom(PresentationCreated(u, p), p))
           IN /\ InOrder(t, held, registered, {}) /\ t.local = {}
              /\ t.opened = u.opened /\ t.created \in u.created..(u.created + 1)
              /\ u.views \subseteq t.views
              /\ (Cared(u) => Cared(t)) /\ (NoEmpty(u) => NoEmpty(t))
<1>. DEFINE a == PresentationCreated(u, p)
            b == FindOrCreateScroom(a, p)
            t == Release(b)
<1>0. p \in {p} /\ {p} \ {p} = {}  OBVIOUS
<1>1. /\ InOrder(a, held, registered, {})
      /\ a.views = u.views /\ a.created = u.created /\ a.opened = u.opened
      /\ a.presentations = u.presentations \cup {p}
      /\ a.shown = u.shown /\ a.children = u.children /\ a.local = u.local
  <2>1. /\ InOrder(a, held, registered, {p} \ {p})
        /\ a.views = u.views /\ a.created = u.created /\ a.opened = u.opened
        /\ a.presentations = u.presentations \cup {p}
        /\ a.shown = u.shown /\ a.children = u.children /\ a.local = u.local
    <3>1. \A q \in {p} :
            LET r == PresentationCreated(u, q)
            IN /\ InOrder(r, held, registered, {p} \ {q})
               /\ r.views = u.views /\ r.created = u.created /\ r.opened = u.opened
               /\ r.presentations = u.presentations \cup {q}
               /\ r.shown = u.shown /\ r.children = u.children /\ r.local = u.local
      BY PresentationCreatedIs
    <3>. QED  BY <1>0, <3>1
  <2>. HIDE DEF a
  <2>. QED  BY <1>0, <2>1
<1>. HIDE DEF a
<1>2. u \in AppWorlds /\ CountsFit(u, held) /\ p \in u.local /\ p \in PresentationIds /\ p # NullId
  <2>1. u \in AppWorlds /\ CountsFit(u, held) /\ p \in u.local  BY DEF InOrder, KnownFit
  <2>2. p \in PresentationIds  BY <2>1 DEF AppWorlds
  <2>. QED  BY <2>1, <2>2 DEF PresentationIds, NullId
<1>3. Alive(a, held) = Alive(u, held)  BY <1>1, AliveStays
<1>4. p \in Alive(u, held)  BY <1>2, AliveIs DEF Roots
<1>5. Shows(a, b, p)  BY <1>1, <1>3, <1>4, FindOrCreateIs
<1>. HIDE DEF b
<1>6. /\ InOrder(b, held, registered, {})
      /\ b.created \in u.created..(u.created + 1) /\ b.opened = u.opened
      /\ b.presentations = u.presentations \cup {p} /\ b.children = u.children /\ b.local = u.local
      /\ Alive(b, held) = Alive(u, held) /\ u.views \subseteq b.views
  BY <1>1, <1>3, <1>5 DEF Shows
<1>7. PICK v \in b.views : b.shown[v] = p /\ \A w \in b.views \ {v} : w \in u.views /\ b.shown[w] = u.shown[w]
  BY <1>1, <1>5 DEF Shows
<1>8. /\ InOrder(t, held, registered, {})
      /\ t.views = b.views /\ t.created = b.created /\ t.opened = b.opened
      /\ t.presentations = b.presentations /\ t.shown = b.shown
      /\ t.children = b.children /\ t.local = {}
  BY <1>6, ReleaseIs
<1>. HIDE DEF t
<1>9. Alive(u, held) \subseteq Alive(t, held)
  <2>1. p \in Roots(t, held)  BY <1>2, <1>7, <1>8 DEF Roots
  <2>2. Roots(b, held) \subseteq Roots(t, held) \cup {p} \cup u.children[p]  BY <1>6, <1>8 DEF Roots
  <2>3. u.children[p] \subseteq Alive(t, held)  BY <1>6, <1>8, <2>1, AliveIs
  <2>4. \A c \in u.children[p] : u.children[c] = {}  BY <1>2 DEF InOrder, FamiliesFit
  <2>5. ASSUME NEW x \in Alive(b, held) PROVE x \in Alive(t, held)
    <3>1. CASE x \in Roots(b, held)  BY <2>1, <2>2, <2>3, <3>1, AliveIs
    <3>2. CASE x \notin Roots(b, held)
      <4>1. PICK q \in Roots(b, held) : x \in b.children[q]  BY <3>2, AliveIs
      <4>2. q \in Roots(t, held)  BY <1>6, <2>1, <2>2, <2>4, <4>1
      <4>. QED  BY <1>8, <4>1, <4>2, AliveIs
    <3>. QED  BY <3>1, <3>2
  <2>. QED  BY <1>6, <2>5
<1>10. Cared(u) => Cared(t)  BY <1>4, <1>6, <1>8, <1>9 DEF Cared
<1>11. NoEmpty(u) => NoEmpty(t)  BY <1>2, <1>7, <1>8 DEF NoEmpty
<1>. QED  BY <1>6, <1>8, <1>10, <1>11 DEF t, b, a

\* A presentation is made, told of and shown.
LEMMA MakeAndShow ==
    ASSUME NEW u, InOrder(u, held, registered, {}), u.local = {},
           u.opened < MaxPresentations, u.created < MaxWindows
    PROVE  LET p == u.opened + 1
           IN LeavesBehind(u, Release(FindOrCreateScroom(PresentationCreated(Create(u), p), p)), 1)
<1>. DEFINE p == u.opened + 1
            a == Create(u)
            t == Release(FindOrCreateScroom(PresentationCreated(a, p), p))
<1>1. /\ InOrder(a, held, registered, {} \cup {p})
      /\ a.views = u.views /\ a.created = u.created /\ a.opened = p
      /\ a.presentations = u.presentations /\ a.shown = u.shown
      /\ a.children = u.children /\ a.local = u.local \cup {p}
  <2>. HIDE DEF a, p
  <2>. QED  BY CreateIs DEF a, p
<1>. HIDE DEF a, p
<1>2. {} \cup {p} = {p} /\ a.local \subseteq {p} \cup a.children[p]  BY <1>1
<1>3. /\ InOrder(t, held, registered, {}) /\ t.local = {}
      /\ t.opened = a.opened /\ t.created \in a.created..(a.created + 1)
      /\ a.views \subseteq t.views
      /\ (Cared(a) => Cared(t)) /\ (NoEmpty(a) => NoEmpty(t))
  <2>1. InOrder(a, held, registered, {p}) /\ a.created < MaxWindows  BY <1>1, <1>2
  <2>. QED  BY <1>2, <2>1, MadeIsShown
<1>4. Cared(u) => Cared(a)
  <2>1. Roots(u, held) \subseteq Roots(a, held)  BY <1>1 DEF Roots
  <2>2. Alive(u, held) \subseteq Alive(a, held)  BY <1>1, <2>1, AliveGrows
  <2>. QED  BY <1>1, <2>2 DEF Cared
<1>5. NoEmpty(u) => NoEmpty(a)  BY <1>1 DEF NoEmpty
<1>6. u.opened \in Nat /\ u.created \in Nat  BY DEF InOrder, CountsFit
<1>. HIDE DEF t
<1>7. t.opened <= u.opened + 1 /\ t.created <= u.created + 1  BY <1>1, <1>3, <1>6 DEF p
<1>8. LeavesBehind(u, t, 1)  BY <1>1, <1>3, <1>4, <1>5, <1>7 DEF LeavesBehind
<1>. QED  BY <1>8 DEF t, a, p

\* load() of one file of the command line.
LEMMA LoadFileIs ==
    ASSUME NEW u, NEW f, InOrder(u, held, registered, {}), u.local = {},
           u.opened < MaxPresentations, u.created < MaxWindows
    PROVE  LeavesBehind(u, LoadFile(u, f), 1)
<1>1. CASE CanOpen(f)
  <2>1. LoadFile(u, f) = Release(FindOrCreateScroom(PresentationCreated(Create(u), u.opened + 1), u.opened + 1))
    BY <1>1 DEF LoadFile
  <2>. QED  BY <2>1, MakeAndShow
<1>2. CASE ~CanOpen(f)
  <2>. DEFINE t == PossiblyDestroyed(u)
  <2>1. LoadFile(u, f) = t  BY <1>2 DEF LoadFile
  <2>2. /\ InOrder(t, held, registered, {})
        /\ t.views = u.views /\ t.created = u.created /\ t.opened = u.opened
        /\ t.presentations \subseteq Alive(t, held) /\ t.shown = u.shown /\ t.local = u.local
    BY PossiblyDestroyedIs
  <2>. HIDE DEF t
  <2>3. u.opened \in Nat /\ u.created \in Nat  BY DEF InOrder, CountsFit
  <2>4. t.opened <= u.opened + 1 /\ t.created <= u.created + 1  BY <2>2, <2>3
  <2>5. (Cared(u) => Cared(t)) /\ (NoEmpty(u) => NoEmpty(t))  BY <2>2 DEF Cared, NoEmpty
  <2>. QED  BY <2>1, <2>2, <2>4, <2>5 DEF LeavesBehind
<1>. QED  BY <1>1, <1>2

-----------------------------------------------------------------------------
(* The files of the command line.                                          *)

\* One handler after the other.
LEMMA OneMoreFile ==
    ASSUME NEW u, NEW t, NEW f, NEW k \in Nat, InOrder(u, held, registered, {}),
           u.opened + k < MaxPresentations, u.created + k < MaxWindows, LeavesBehind(u, t, k)
    PROVE  LoadFile(t, f) \in AppWorlds /\ LeavesBehind(u, LoadFile(t, f), k + 1)
<1>. DEFINE r == LoadFile(t, f)
<1>1. /\ u.opened \in Nat /\ u.created \in Nat
      /\ t.opened \in Nat /\ t.created \in Nat /\ InOrder(t, held, registered, {}) /\ t.local = {}
      /\ t.opened <= u.opened + k /\ t.created <= u.created + k /\ u.views \subseteq t.views
  BY DEF LeavesBehind, InOrder, CountsFit
<1>2. t.opened < MaxPresentations /\ t.created < MaxWindows
  BY <1>1, BoundsAssumption
<1>3. LeavesBehind(t, r, 1)  BY <1>1, <1>2, LoadFileIs
<1>. HIDE DEF r
<1>4. /\ InOrder(r, held, registered, {}) /\ r.local = {} /\ r \in AppWorlds
      /\ r.opened <= t.opened + 1 /\ r.created <= t.created + 1 /\ t.views \subseteq r.views
      /\ r.opened \in Nat /\ r.created \in Nat
  BY <1>3 DEF LeavesBehind, InOrder, CountsFit
<1>5. r.opened <= u.opened + (k + 1) /\ r.created <= u.created + (k + 1)  BY <1>1, <1>4
<1>6. (Cared(u) => Cared(r)) /\ (NoEmpty(u) => NoEmpty(r))  BY <1>3 DEF LeavesBehind
<1>. QED  BY <1>1, <1>4, <1>5, <1>6 DEF LeavesBehind, r

\* Where there is room for n, there is room for one more than fewer.
LEMMA LessThanAll ==
    ASSUME NEW a \in Nat, NEW k \in Nat, NEW n \in Nat, NEW m \in Nat, k < n, a + n <= m
    PROVE  a + k < m
OBVIOUS

\* The files of the command line, one after the other.
LEMMA LoadFilesIs ==
    ASSUME NEW u, NEW files \in Seq(Images \cup OtherFiles),
           InOrder(u, held, registered, {}), u.local = {},
           u.opened + Len(files) <= MaxPresentations, u.created + Len(files) <= MaxWindows
    PROVE  LET t == LoadFiles(u, files) IN t \in AppWorlds /\ LeavesBehind(u, t, Len(files))
<1>. DEFINE n == Len(files)
            S == 1..n
            pick == [s \in SUBSET S |-> Max(s)]
            step == [z \in (SUBSET S) \X AppWorlds |-> LoadFile(z[2], files[Max(z[1])])]
            G == [s \in SUBSET S |-> {t \in AppWorlds : LeavesBehind(u, t, Cardinality(s))}]
<1>0. n \in Nat /\ DOMAIN files = S /\ IsFiniteSet(S) /\ S \subseteq Int /\ u \in AppWorlds
  <2>1. n \in Nat /\ DOMAIN files = S /\ S \subseteq Int  OBVIOUS
  <2>2. IsFiniteSet(S)  BY <2>1, FS_Interval
  <2>3. u \in AppWorlds  BY DEF InOrder
  <2>. QED  BY <2>1, <2>2, <2>3
<1>1. \A s \in SUBSET S : /\ IsFiniteSet(s) /\ Cardinality(s) \in Nat /\ Cardinality(s) <= n
                          /\ s # {} => /\ Max(s) \in s /\ s \ {Max(s)} \in SUBSET S
                                       /\ Cardinality(s \ {Max(s)}) = Cardinality(s) - 1
  <2>. SUFFICES ASSUME NEW s \in SUBSET S
                PROVE  /\ IsFiniteSet(s) /\ Cardinality(s) \in Nat /\ Cardinality(s) <= n
                       /\ s # {} => /\ Max(s) \in s /\ s \ {Max(s)} \in SUBSET S
                                    /\ Cardinality(s \ {Max(s)}) = Cardinality(s) - 1
    OBVIOUS
  <2>1. IsFiniteSet(s) /\ Cardinality(s) \in Nat
    <3>. HIDE DEF S
    <3>. QED  BY <1>0, FewerWithout
  <2>2. Cardinality(s) <= n
    <3>1. Cardinality(S) = n
      <4>. HIDE DEF n
      <4>. QED  BY <1>0, FS_Interval
    <3>2. Cardinality(s) <= Cardinality(S)
      <4>. HIDE DEF S
      <4>. QED  BY <1>0, FS_Subset
    <3>. QED  BY <3>1, <3>2
  <2>3. s # {} => Max(s) \in s
    <3>1. s \subseteq Int  BY <1>0
    <3>. QED  BY <2>1, <3>1, MaxIs
  <2>4. s # {} => Cardinality(s \ {Max(s)}) = Cardinality(s) - 1
    <3>. HIDE DEF S
    <3>. QED  BY <1>0, <2>3, FewerWithout
  <2>. QED  BY <2>1, <2>2, <2>3, <2>4
<1>. HIDE DEF S
<1>2. \A s \in SUBSET S : s # {} => pick[s] \in s  BY <1>1
<1>3. u \in G[{}]
  <2>1. Cardinality({}) = 0  BY FS_EmptySet
  <2>2. LeavesBehind(u, u, 0)  
    <3>1. u.opened \in Nat /\ u.created \in Nat  BY DEF InOrder, CountsFit
    <3>. QED  BY <3>1 DEF LeavesBehind
  <2>. QED  BY <1>0, <2>1, <2>2
<1>4. ASSUME NEW s \in SUBSET S, s # {}, NEW t \in G[s \ {pick[s]}]
      PROVE  LoadFile(t, files[Max(s)]) \in G[s]
  <2>. DEFINE r == LoadFile(t, files[Max(s)])
              k == Cardinality(s) - 1
  <2>1. /\ pick[s] = Max(s) /\ s \ {Max(s)} \in SUBSET S /\ Cardinality(s \ {Max(s)}) = k
        /\ k \in Nat /\ k < n /\ k + 1 = Cardinality(s) /\ Max(s) \in DOMAIN files
    <3>1. pick[s] = Max(s)  OBVIOUS
    <3>2. Cardinality(s) \in Nat /\ Cardinality(s) <= n /\ Max(s) \in s /\ Max(s) \in DOMAIN files
          /\ s \ {Max(s)} \in SUBSET S /\ Cardinality(s \ {Max(s)}) = Cardinality(s) - 1
      BY <1>0, <1>1, <1>4
    <3>3. Cardinality(s) # 0
      <4>1. IsFiniteSet(s)  BY <1>1
      <4>. QED  BY <1>4, <4>1, FS_EmptySet
    <3>. HIDE DEF pick
    <3>. QED  BY <1>0, <3>1, <3>2, <3>3
  <2>. HIDE DEF r, k, pick
  <2>2. t \in AppWorlds /\ LeavesBehind(u, t, k)
    <3>1. G[s \ {pick[s]}] = {x \in AppWorlds : LeavesBehind(u, x, k)}  BY <2>1
    <3>. HIDE DEF G
    <3>. QED  BY <1>4, <3>1
  <2>3. u.opened + k < MaxPresentations /\ u.created + k < MaxWindows
    <3>1. u.opened \in Nat /\ u.created \in Nat  BY DEF InOrder, CountsFit
    <3>2. u.opened + n <= MaxPresentations /\ u.created + n <= MaxWindows  OBVIOUS
    <3>3. k \in Nat /\ n \in Nat /\ k < n /\ MaxPresentations \in Nat /\ MaxWindows \in Nat
      BY <1>0, <2>1, BoundsAssumption
    <3>. HIDE DEF n
    <3>4. u.opened + k < MaxPresentations  BY ONLY <3>1, <3>2, <3>3, LessThanAll
    <3>5. u.created + k < MaxWindows  BY ONLY <3>1, <3>2, <3>3, LessThanAll
    <3>. QED  BY ONLY <3>4, <3>5
  <2>4. r \in AppWorlds /\ LeavesBehind(u, r, k + 1)  BY <2>1, <2>2, <2>3, OneMoreFile DEF r
  <2>5. k + 1 = Cardinality(s)  BY <2>1
  <2>6. G[s] = {x \in AppWorlds : LeavesBehind(u, x, Cardinality(s))}  OBVIOUS
  <2>7. LeavesBehind(u, r, Cardinality(s))
    <3>. HIDE DEF G
    <3>. QED  BY ONLY <2>4, <2>5
  <2>8. r \in {x \in AppWorlds : LeavesBehind(u, x, Cardinality(s))}  BY ONLY <2>4, <2>7
  <2>. HIDE DEF G
  <2>9. r \in G[s]  BY ONLY <2>6, <2>8, Zenon
  <2>. QED  BY ONLY <2>9 DEF r
<1>5. \A s \in SUBSET S : G[s] \subseteq AppWorlds  OBVIOUS
<1>6. PICK f : FoldOf(f, S, pick, u, step) /\ \A s \in SUBSET S : f[s] \in G[s]
  <2>1. ASSUME NEW s \in SUBSET S, s # {}, NEW t \in G[s \ {pick[s]}] PROVE step[<<s, t>>] \in G[s]
    <3>1. t \in AppWorlds
      <4>1. s \ {pick[s]} \in SUBSET S  OBVIOUS
      <4>. HIDE DEF G, pick
      <4>. QED  BY <1>5, <2>1, <4>1
    <3>2. step[<<s, t>>] = LoadFile(t, files[Max(s)])  BY <3>1
    <3>. HIDE DEF G, step, pick
    <3>. QED  BY <1>4, <2>1, <3>2
  <2>2. \A s \in SUBSET S : s # {} => \A t \in G[s \ {pick[s]}] : step[<<s, t>>] \in G[s]  BY <2>1
  <2>. HIDE DEF pick, step, G
  <2>. QED  BY <1>0, <1>2, <1>3, <2>2, FoldLeads
<1>. DEFINE Fits(g) == g = [s \in SUBSET S |-> IF s = {} THEN u ELSE LoadFile(g[s \ {Max(s)}], files[Max(s)])]
            it == CHOOSE g : Fits(g)
<1>7. LoadFiles(u, files) = it[S]  BY <1>0 DEF LoadFiles, FoldLeft, MapThenFoldSet
<1>8. Fits(f)
  <2>1. ASSUME NEW s \in SUBSET S
        PROVE  f[s] = IF s = {} THEN u ELSE LoadFile(f[s \ {Max(s)}], files[Max(s)])
    <3>1. f[s] = IF s = {} THEN u ELSE step[<<s, f[s \ {pick[s]}]>>]  BY <1>6 DEF FoldOf
    <3>2. pick[s] = Max(s)  OBVIOUS
    <3>3. f[s \ {Max(s)}] \in AppWorlds
      <4>1. s \ {Max(s)} \in SUBSET S  OBVIOUS
      <4>. HIDE DEF G, pick
      <4>. QED  BY <1>5, <1>6, <4>1
    <3>4. step[<<s, f[s \ {Max(s)}]>>] = LoadFile(f[s \ {Max(s)}], files[Max(s)])  BY <3>3
    <3>. HIDE DEF step, pick
    <3>. QED  BY <3>1, <3>2, <3>4
  <2>2. f = [s \in SUBSET S |-> f[s]]  BY <1>6 DEF FoldOf
  <2>. QED  BY <2>1, <2>2
<1>9. Fits(it)  BY <1>8
<1>10. \A s \in SUBSET S : it[s] = IF s = {} THEN u ELSE LoadFile(it[s \ {Max(s)}], files[Max(s)])
  BY <1>9
<1>. HIDE DEF it, Fits
<1>11. \A s \in SUBSET S : s # {} /\ it[s \ {pick[s]}] \in G[s \ {pick[s]}] => it[s] \in G[s]
  <2>. SUFFICES ASSUME NEW s \in SUBSET S, s # {}, it[s \ {pick[s]}] \in G[s \ {pick[s]}]
                PROVE  it[s] \in G[s]
    OBVIOUS
  <2>1. pick[s] = Max(s)  OBVIOUS
  <2>2. it[s] = LoadFile(it[s \ {Max(s)}], files[Max(s)])  BY <1>10
  <2>. HIDE DEF G, pick
  <2>. QED  BY <1>4, <2>1, <2>2
<1>12. it[{}] \in G[{}]
  <2>. HIDE DEF G
  <2>. QED  BY <1>3, <1>10
<1>13. IsFiniteSet(S)  BY <1>0
<1>14. it[S] \in G[S]
  <2>. HIDE DEF G, pick
  <2>. QED  BY ONLY <1>13, <1>2, <1>11, <1>12, FoldStays
<1>15. G[S] = {t \in AppWorlds : LeavesBehind(u, t, n)}
  <2>1. Cardinality(S) = n
    <3>. HIDE DEF G, n
    <3>1. n \in Nat /\ S = 1..n  BY <1>0 DEF S
    <3>2. Cardinality(1..n) = IF 1 > n THEN 0 ELSE n - 1 + 1  BY <3>1, FS_Interval
    <3>. QED  BY <3>1, <3>2
  <2>2. G[S] = {t \in AppWorlds : LeavesBehind(u, t, Cardinality(S))}  OBVIOUS
  <2>. HIDE DEF G, n
  <2>. QED  BY ONLY <2>1, <2>2
<1>. HIDE DEF G, n
<1>16. it[S] \in AppWorlds /\ LeavesBehind(u, it[S], n)  BY <1>14, <1>15
<1>. QED  BY <1>7, <1>16 DEF n

-----------------------------------------------------------------------------
(* An aggregate, and its children.                                         *)

\* A file that is loaded, or that was, becomes a child: its presentation is
\* told of.
LEMMA LoadPresentationIs ==
    ASSUME NEW u, NEW a, NEW f \in Images, InOrder(u, held, registered, {a}), u.opened < MaxPresentations
    PROVE  LET t == LoadPresentation(u, f)
           IN /\ InOrder(t, held, registered, {a})
              /\ t.views = u.views /\ t.created = u.created /\ t.shown = u.shown
              /\ t.children = u.children /\ t.opened <= u.opened + 1
              /\ t.local \subseteq u.local \cup {t.loadedPresentations[f]}
              /\ t.loadedPresentations[f] \in Alive(t, held)
              /\ (Cared(u) => Cared(t))
<1>. DEFINE t == LoadPresentation(u, f)
            p == u.opened + 1
            b == Create(u)
            c == PresentationCreated(b, p)
<1>0. u \in AppWorlds /\ CountsFit(u, held) /\ u.opened \in Nat /\ a \in u.local /\ a \in 1..u.opened
  BY DEF InOrder, CountsFit, KnownFit
<1>1. CASE u.loadedPresentations[f] \in Alive(u, held)
  <2>1. t = u  BY <1>1 DEF LoadPresentation
  <2>. QED  BY <1>0, <1>1, <2>1
<1>2. CASE u.loadedPresentations[f] \notin Alive(u, held)
  <2>1. t = [c EXCEPT !.loadedPresentations[f] = p]  BY <1>2 DEF LoadPresentation
  <2>2. /\ InOrder(b, held, registered, {a} \cup {p}) /\ p \in PresentationIds
        /\ b.views = u.views /\ b.created = u.created /\ b.opened = p
        /\ b.presentations = u.presentations /\ b.shown = u.shown
        /\ b.children = u.children /\ b.local = u.local \cup {p}
        /\ b.loadedPresentations = u.loadedPresentations
    <3>. HIDE DEF b, p
    <3>. QED  BY CreateIs DEF b, p
  <2>3. p # a /\ ({a} \cup {p}) \ {p} = {a} /\ p \in {a} \cup {p} /\ p \notin 1..u.opened /\ p # NullId
    BY <1>0 DEF NullId
  <2>4. u.children[p] = {}  BY <1>0, <2>2 DEF CountsFit
  <2>. HIDE DEF t, b, p
  <2>5. /\ InOrder(c, held, registered, ({a} \cup {p}) \ {p})
        /\ c.views = b.views /\ c.created = b.created /\ c.opened = b.opened
        /\ c.presentations = b.presentations \cup {p}
        /\ c.shown = b.shown /\ c.children = b.children /\ c.local = b.local
        /\ c.loadedPresentations = b.loadedPresentations
    <3>. DEFINE both == {a} \cup {p}
    <3>1. InOrder(b, held, registered, both) /\ p \in both  BY <2>2
    <3>2. /\ InOrder(c, held, registered, both \ {p})
          /\ c.views = b.views /\ c.created = b.created /\ c.opened = b.opened
          /\ c.presentations = b.presentations \cup {p}
          /\ c.shown = b.shown /\ c.children = b.children /\ c.local = b.local
          /\ c.loadedPresentations = b.loadedPresentations
      <4>. HIDE DEF both
      <4>. QED  BY <3>1, PresentationCreatedIs
    <3>. QED  BY <3>2
  <2>. HIDE DEF c
  <2>6. /\ InOrder(c, held, registered, {a}) /\ c \in AppWorlds
        /\ c.views = u.views /\ c.created = u.created /\ c.opened = p
        /\ c.presentations = u.presentations \cup {p}
        /\ c.shown = u.shown /\ c.children = u.children /\ c.local = u.local \cup {p}
        /\ c.loadedPresentations = u.loadedPresentations
    <3>1. InOrder(c, held, registered, {a})  BY <2>3, <2>5
    <3>2. c \in AppWorlds  BY <3>1 DEF InOrder
    <3>. QED  BY <2>2, <2>5, <3>1, <3>2
  <2>7. /\ t \in AppWorlds
        /\ t.views = c.views /\ t.created = c.created /\ t.opened = c.opened
        /\ t.presentations = c.presentations /\ t.shown = c.shown
        /\ t.children = c.children /\ t.local = c.local
        /\ t.loadedPresentations = [c.loadedPresentations EXCEPT ![f] = p]
        /\ t.newMenu = c.newMenu /\ t.windowMenu = c.windowMenu /\ t.tools = c.tools
        /\ t.widgets = c.widgets /\ t.providers = c.providers
    BY <2>1, <2>2, <2>6 DEF AppWorlds
  <2>8. t.loadedPresentations[f] = p /\ \A g \in Images \ {f} : t.loadedPresentations[g] = c.loadedPresentations[g]
    <3>1. c.loadedPresentations \in [Images -> {NullId} \cup PresentationIds]  BY <2>6 DEF AppWorlds
    <3>. QED  BY <2>7, <3>1
  <2>9. Alive(t, held) = Alive(c, held)  BY <2>7, AliveStays
  <2>10. CountsFit(t, held)
    <3>1. CountsFit(c, held) /\ p \in 0..c.opened  BY <1>0, <2>6 DEF InOrder, p
    <3>2. \A g \in Images : t.loadedPresentations[g] \in 0..c.opened  BY <2>8, <3>1 DEF CountsFit
    <3>. QED  BY <2>7, <3>1, <3>2 DEF CountsFit
  <2>11. FamiliesFit(t, {a})
    <3>1. FamiliesFit(c, {a})  BY <2>6 DEF InOrder
    <3>2. \A g \in Images : t.loadedPresentations[g] # NullId =>
             t.children[t.loadedPresentations[g]] = {} /\ t.loadedPresentations[g] \notin {a}
      <4>1. t.children[p] = {} /\ p \notin {a}  BY <2>3, <2>4, <2>6, <2>7
      <4>. QED  BY <2>7, <2>8, <3>1, <4>1 DEF FamiliesFit
    <3>. QED  BY <2>7, <3>1, <3>2 DEF FamiliesFit
  <2>12. KnownFit(t, held, {a})  BY <2>6, <2>7, <2>9 DEF InOrder, KnownFit
  <2>13. MenusFit(t, held, registered, {a})  BY <2>6, <2>7, <2>9 DEF InOrder, MenusFit
  <2>14. ToolsFit(t, registered)  BY <2>6, <2>7 DEF InOrder, ToolsFit
  <2>15. ListsFit(t, {a})  BY <2>6, <2>7 DEF InOrder, ListsFit
  <2>16. InOrder(t, held, registered, {a})
    BY <2>7, <2>10, <2>11, <2>12, <2>13, <2>14, <2>15 DEF InOrder
  <2>17. p \in Roots(t, held) /\ Roots(u, held) \subseteq Roots(t, held)  BY <2>3, <2>6, <2>7 DEF Roots
  <2>18. Alive(u, held) \subseteq Alive(t, held) /\ p \in Alive(t, held)
    <3>1. t.children = u.children  BY <2>6, <2>7
    <3>. QED  BY <2>17, <3>1, AliveGrows
  <2>19. Cared(u) => Cared(t)  BY <2>6, <2>7, <2>18 DEF Cared
  <2>20. t.opened <= u.opened + 1  BY <1>0, <2>6, <2>7 DEF p
  <2>. QED  BY <2>6, <2>7, <2>8, <2>16, <2>18, <2>19, <2>20 DEF t
<1>. QED  BY <1>1, <1>2

\* What has come of an aggregate when it has had no more than n children.
Raised(u, t, a, n) ==
    /\ InOrder(t, held, registered, {a}) /\ t.local \subseteq {a} \cup t.children[a]
    /\ t.views = u.views /\ t.created = u.created /\ t.shown = u.shown
    /\ t.opened <= u.opened + n
    /\ (Cared(u) => Cared(t))

\* One child more for the aggregate.
LEMMA AddChildOfIs ==
    ASSUME NEW u, NEW a, NEW f \in Images, InOrder(u, held, registered, {a}), u.opened < MaxPresentations,
           u.local \subseteq {a} \cup u.children[a]
    PROVE  Raised(u, AddChildOf(u, a, f), a, 1)
<1>. DEFINE b == LoadPresentation(u, f)
            c == b.loadedPresentations[f]
            t == AddChildOf(u, a, f)
<1>1. /\ InOrder(b, held, registered, {a})
      /\ b.views = u.views /\ b.created = u.created /\ b.shown = u.shown
      /\ b.children = u.children /\ b.opened <= u.opened + 1
      /\ b.local \subseteq u.local \cup {c}
      /\ c \in Alive(b, held)
      /\ (Cared(u) => Cared(b))
  BY LoadPresentationIs
<1>2. t = [b EXCEPT !.children[a] = @ \cup {c}]  BY DEF AddChildOf
<1>. HIDE DEF b, c, t
<1>3. b \in AppWorlds /\ CountsFit(b, held) /\ FamiliesFit(b, {a}) /\ a \in b.local /\ a \in PresentationIds
      /\ a # NullId /\ a \in 1..b.opened
  <2>1. b \in AppWorlds /\ CountsFit(b, held) /\ FamiliesFit(b, {a}) /\ a \in b.local
    BY <1>1 DEF InOrder, KnownFit
  <2>. QED  BY <2>1 DEF CountsFit, AppWorlds, PresentationIds, NullId
<1>4. c \in PresentationIds /\ c \in 1..b.opened /\ c # NullId  BY <1>1, <1>3, AliveFits
<1>5. b.children[c] = {} /\ c # a
  BY <1>3, <1>4 DEF FamiliesFit, c
<1>6. /\ t \in AppWorlds
      /\ t.views = b.views /\ t.created = b.created /\ t.opened = b.opened
      /\ t.presentations = b.presentations /\ t.shown = b.shown
      /\ t.children = [b.children EXCEPT ![a] = b.children[a] \cup {c}] /\ t.local = b.local
      /\ t.loadedPresentations = b.loadedPresentations
      /\ t.newMenu = b.newMenu /\ t.windowMenu = b.windowMenu /\ t.tools = b.tools
      /\ t.widgets = b.widgets /\ t.providers = b.providers
  <2>1. [b.children EXCEPT ![a] = b.children[a] \cup {c}] \in [PresentationIds -> SUBSET PresentationIds]
    BY <1>3, <1>4 DEF AppWorlds
  <2>2. t = [b EXCEPT !.children = [b.children EXCEPT ![a] = b.children[a] \cup {c}]]  BY <1>2, <1>3 DEF AppWorlds
  <2>. QED  BY <1>3, <2>1, <2>2 DEF AppWorlds
<1>7. t.children[a] = b.children[a] \cup {c} /\ \A q \in PresentationIds \ {a} : t.children[q] = b.children[q]
  <2>1. b.children \in [PresentationIds -> SUBSET PresentationIds]  BY <1>3 DEF AppWorlds
  <2>. QED  BY <1>3, <1>6, <2>1
<1>8. Alive(t, held) = Alive(b, held)
  <2>1. Roots(t, held) = Roots(b, held) /\ a \in Roots(b, held)  BY <1>3, <1>6 DEF Roots
  <2>2. Roots(b, held) \subseteq PresentationIds  BY <1>3, AliveFits
  <2>3. ASSUME NEW x PROVE x \in Alive(t, held) <=> x \in Alive(b, held)
    <3>1. x \in Alive(t, held) <=> x \in Roots(b, held) \/ \E q \in Roots(b, held) : x \in t.children[q]
      BY <2>1, AliveIs
    <3>2. x \in Alive(b, held) <=> x \in Roots(b, held) \/ \E q \in Roots(b, held) : x \in b.children[q]
      BY AliveIs
    <3>3. CASE x = c
      <4>1. x \in Alive(t, held)  BY <1>7, <2>1, <3>1, <3>3
      <4>. QED  BY <1>1, <3>3, <4>1
    <3>4. CASE x # c
      <4>1. \A q \in Roots(b, held) : x \in t.children[q] <=> x \in b.children[q]  BY <1>7, <2>2, <3>4
      <4>. QED  BY <3>1, <3>2, <4>1
    <3>. QED  BY <3>3, <3>4
  <2>. QED  BY <2>3
<1>9. CountsFit(t, held)
  <2>1. \A q \in PresentationIds : t.children[q] \subseteq 1..b.opened /\ (q > b.opened => t.children[q] = {})
    <3>. SUFFICES ASSUME NEW q \in PresentationIds
                  PROVE  t.children[q] \subseteq 1..b.opened /\ (q > b.opened => t.children[q] = {})
      OBVIOUS
    <3>1. CASE q = a
      <4>1. b.opened \in Nat /\ b.children[a] \subseteq 1..b.opened  BY <1>3 DEF CountsFit
      <4>2. ~(a > b.opened)  BY <1>3, <4>1
      <4>. QED  BY <1>4, <1>7, <3>1, <4>1, <4>2
    <3>2. CASE q # a  BY <1>3, <1>7, <3>2 DEF CountsFit
    <3>. QED  BY <3>1, <3>2
  <2>. QED  BY <1>3, <1>6, <2>1 DEF CountsFit
<1>10. FamiliesFit(t, {a})
  <2>1. \A q \in PresentationIds : \A x \in t.children[q] : t.children[x] = {} /\ x \notin {a}
    <3>. SUFFICES ASSUME NEW q \in PresentationIds, NEW x \in t.children[q]
                  PROVE  t.children[x] = {} /\ x # a
      OBVIOUS
    <3>1. b.children[x] = {} /\ x # a
      <4>1. CASE x = c  BY <1>5, <4>1
      <4>2. CASE x # c
        <5>1. x \in b.children[q]  BY <1>7, <4>2
        <5>. QED  BY <1>3, <5>1 DEF FamiliesFit
      <4>. QED  BY <4>1, <4>2
    <3>2. x \in PresentationIds  BY <1>6 DEF AppWorlds
    <3>. QED  BY <1>7, <3>1, <3>2
  <2>2. \A g \in Images : t.loadedPresentations[g] # NullId =>
             t.children[t.loadedPresentations[g]] = {} /\ t.loadedPresentations[g] \notin {a}
    <3>. SUFFICES ASSUME NEW g \in Images, t.loadedPresentations[g] # NullId
                  PROVE  t.children[t.loadedPresentations[g]] = {} /\ t.loadedPresentations[g] # a
      OBVIOUS
    <3>1. b.children[b.loadedPresentations[g]] = {} /\ b.loadedPresentations[g] # a
      BY <1>3, <1>6 DEF FamiliesFit
    <3>2. b.loadedPresentations[g] \in PresentationIds  BY <1>3, <1>6 DEF AppWorlds
    <3>. QED  BY <1>6, <1>7, <3>1, <3>2
  <2>. QED  BY <2>1, <2>2 DEF FamiliesFit
<1>11. KnownFit(t, held, {a})  BY <1>1, <1>6, <1>8 DEF InOrder, KnownFit
<1>12. MenusFit(t, held, registered, {a})  BY <1>1, <1>6, <1>8 DEF InOrder, MenusFit
<1>13. ToolsFit(t, registered)  BY <1>1, <1>6 DEF InOrder, ToolsFit
<1>14. ListsFit(t, {a})  BY <1>1, <1>6 DEF InOrder, ListsFit
<1>15. InOrder(t, held, registered, {a})
  BY <1>6, <1>9, <1>10, <1>11, <1>12, <1>13, <1>14 DEF InOrder
<1>16. t.local \subseteq {a} \cup t.children[a]  BY <1>1, <1>6, <1>7
<1>17. Cared(u) => Cared(t)  BY <1>1, <1>6, <1>8 DEF Cared
<1>. QED  BY <1>1, <1>6, <1>15, <1>16, <1>17 DEF Raised, t

\* One child after the other.
LEMMA OneMoreChild ==
    ASSUME NEW u, NEW t, NEW a, NEW f \in Images, NEW k \in Nat, u.opened \in Nat,
           u.opened + k < MaxPresentations, Raised(u, t, a, k)
    PROVE  AddChildOf(t, a, f) \in AppWorlds /\ Raised(u, AddChildOf(t, a, f), a, k + 1)
<1>. DEFINE r == AddChildOf(t, a, f)
<1>1. /\ t.opened \in Nat /\ InOrder(t, held, registered, {a}) /\ t.local \subseteq {a} \cup t.children[a]
      /\ t.opened <= u.opened + k
  BY DEF Raised, InOrder, CountsFit
<1>2. t.opened < MaxPresentations  BY <1>1, BoundsAssumption
<1>3. Raised(t, r, a, 1)  BY <1>1, <1>2, AddChildOfIs
<1>. HIDE DEF r
<1>4. r \in AppWorlds /\ r.opened \in Nat /\ r.opened <= t.opened + 1  BY <1>3 DEF Raised, InOrder, CountsFit
<1>5. r.opened <= u.opened + (k + 1)  BY <1>1, <1>4
<1>6. Raised(u, r, a, k + 1)  BY <1>3, <1>5 DEF Raised
<1>. QED  BY <1>4, <1>6 DEF r

\* All children of an aggregate.
LEMMA AddChildrenOfIs ==
    ASSUME NEW u, NEW a, NEW files \in Seq(Images),
           InOrder(u, held, registered, {a}), u.local \subseteq {a} \cup u.children[a],
           u.opened + Len(files) <= MaxPresentations
    PROVE  LET t == AddChildrenOf(u, a, files) IN t \in AppWorlds /\ Raised(u, t, a, Len(files))
<1>. DEFINE n == Len(files)
            S == 1..n
            pick == [s \in SUBSET S |-> Max(s)]
            step == [z \in (SUBSET S) \X AppWorlds |-> AddChildOf(z[2], a, files[Max(z[1])])]
            G == [s \in SUBSET S |-> {t \in AppWorlds : Raised(u, t, a, Cardinality(s))}]
<1>0. n \in Nat /\ DOMAIN files = S /\ IsFiniteSet(S) /\ S \subseteq Int /\ u \in AppWorlds
  <2>1. n \in Nat /\ DOMAIN files = S /\ S \subseteq Int  OBVIOUS
  <2>2. IsFiniteSet(S)  BY <2>1, FS_Interval
  <2>3. u \in AppWorlds  BY DEF InOrder
  <2>. QED  BY <2>1, <2>2, <2>3
<1>1. \A s \in SUBSET S : /\ IsFiniteSet(s) /\ Cardinality(s) \in Nat /\ Cardinality(s) <= n
                          /\ s # {} => /\ Max(s) \in s /\ s \ {Max(s)} \in SUBSET S
                                       /\ Cardinality(s \ {Max(s)}) = Cardinality(s) - 1
  <2>. SUFFICES ASSUME NEW s \in SUBSET S
                PROVE  /\ IsFiniteSet(s) /\ Cardinality(s) \in Nat /\ Cardinality(s) <= n
                       /\ s # {} => /\ Max(s) \in s /\ s \ {Max(s)} \in SUBSET S
                                    /\ Cardinality(s \ {Max(s)}) = Cardinality(s) - 1
    OBVIOUS
  <2>1. IsFiniteSet(s) /\ Cardinality(s) \in Nat
    <3>. HIDE DEF S
    <3>. QED  BY <1>0, FewerWithout
  <2>2. Cardinality(s) <= n
    <3>1. Cardinality(S) = n
      <4>. HIDE DEF n
      <4>. QED  BY <1>0, FS_Interval
    <3>2. Cardinality(s) <= Cardinality(S)
      <4>. HIDE DEF S
      <4>. QED  BY <1>0, FS_Subset
    <3>. QED  BY <3>1, <3>2
  <2>3. s # {} => Max(s) \in s
    <3>1. s \subseteq Int  BY <1>0
    <3>. QED  BY <2>1, <3>1, MaxIs
  <2>4. s # {} => Cardinality(s \ {Max(s)}) = Cardinality(s) - 1
    <3>. HIDE DEF S
    <3>. QED  BY <1>0, <2>3, FewerWithout
  <2>. QED  BY <2>1, <2>2, <2>3, <2>4
<1>. HIDE DEF S
<1>2. \A s \in SUBSET S : s # {} => pick[s] \in s  BY <1>1
<1>3. u \in G[{}]
  <2>1. Cardinality({}) = 0  BY FS_EmptySet
  <2>2. Raised(u, u, a, 0)  
    <3>1. u.opened \in Nat  BY DEF InOrder, CountsFit
    <3>. QED  BY <3>1 DEF Raised
  <2>. QED  BY <1>0, <2>1, <2>2
<1>4. ASSUME NEW s \in SUBSET S, s # {}, NEW t \in G[s \ {pick[s]}]
      PROVE  AddChildOf(t, a, files[Max(s)]) \in G[s]
  <2>. DEFINE r == AddChildOf(t, a, files[Max(s)])
              k == Cardinality(s) - 1
  <2>1. /\ pick[s] = Max(s) /\ s \ {Max(s)} \in SUBSET S /\ Cardinality(s \ {Max(s)}) = k
        /\ k \in Nat /\ k < n /\ k + 1 = Cardinality(s) /\ Max(s) \in DOMAIN files
    <3>1. pick[s] = Max(s)  OBVIOUS
    <3>2. Cardinality(s) \in Nat /\ Cardinality(s) <= n /\ Max(s) \in s /\ Max(s) \in DOMAIN files
          /\ s \ {Max(s)} \in SUBSET S /\ Cardinality(s \ {Max(s)}) = Cardinality(s) - 1
      BY <1>0, <1>1, <1>4
    <3>3. Cardinality(s) # 0
      <4>1. IsFiniteSet(s)  BY <1>1
      <4>. QED  BY <1>4, <4>1, FS_EmptySet
    <3>. HIDE DEF pick
    <3>. QED  BY <1>0, <3>1, <3>2, <3>3
  <2>. HIDE DEF r, k, pick
  <2>2. t \in AppWorlds /\ Raised(u, t, a, k)
    <3>1. G[s \ {pick[s]}] = {x \in AppWorlds : Raised(u, x, a, k)}  BY <2>1
    <3>. HIDE DEF G
    <3>. QED  BY <1>4, <3>1
  <2>3. u.opened \in Nat /\ u.opened + k < MaxPresentations
    <3>1. u.opened \in Nat  BY DEF InOrder, CountsFit
    <3>2. u.opened + n <= MaxPresentations  OBVIOUS
    <3>. HIDE DEF n
    <3>. QED  BY <1>0, <2>1, <3>1, <3>2, BoundsAssumption
  <2>4. r \in AppWorlds /\ Raised(u, r, a, k + 1)
    <3>1. files[Max(s)] \in Images  BY <2>1
    <3>. QED  BY <2>1, <2>2, <2>3, <3>1, OneMoreChild DEF r
  <2>. QED  BY <2>1, <2>4 DEF r
<1>5. \A s \in SUBSET S : G[s] \subseteq AppWorlds  OBVIOUS
<1>6. PICK f : FoldOf(f, S, pick, u, step) /\ \A s \in SUBSET S : f[s] \in G[s]
  <2>1. ASSUME NEW s \in SUBSET S, s # {}, NEW t \in G[s \ {pick[s]}] PROVE step[<<s, t>>] \in G[s]
    <3>1. t \in AppWorlds
      <4>1. s \ {pick[s]} \in SUBSET S  OBVIOUS
      <4>. HIDE DEF G, pick
      <4>. QED  BY <1>5, <2>1, <4>1
    <3>2. step[<<s, t>>] = AddChildOf(t, a, files[Max(s)])  BY <3>1
    <3>. HIDE DEF G, step, pick
    <3>. QED  BY <1>4, <2>1, <3>2
  <2>2. \A s \in SUBSET S : s # {} => \A t \in G[s \ {pick[s]}] : step[<<s, t>>] \in G[s]  BY <2>1
  <2>. HIDE DEF pick, step, G
  <2>. QED  BY <1>0, <1>2, <1>3, <2>2, FoldLeads
<1>. DEFINE Fits(g) == g = [s \in SUBSET S |-> IF s = {} THEN u ELSE AddChildOf(g[s \ {Max(s)}], a, files[Max(s)])]
            it == CHOOSE g : Fits(g)
<1>7. AddChildrenOf(u, a, files) = it[S]  BY <1>0 DEF AddChildrenOf, FoldLeft, MapThenFoldSet
<1>8. Fits(f)
  <2>1. ASSUME NEW s \in SUBSET S
        PROVE  f[s] = IF s = {} THEN u ELSE AddChildOf(f[s \ {Max(s)}], a, files[Max(s)])
    <3>1. f[s] = IF s = {} THEN u ELSE step[<<s, f[s \ {pick[s]}]>>]  BY <1>6 DEF FoldOf
    <3>2. pick[s] = Max(s)  OBVIOUS
    <3>3. f[s \ {Max(s)}] \in AppWorlds
      <4>1. s \ {Max(s)} \in SUBSET S  OBVIOUS
      <4>. HIDE DEF G, pick
      <4>. QED  BY <1>5, <1>6, <4>1
    <3>4. step[<<s, f[s \ {Max(s)}]>>] = AddChildOf(f[s \ {Max(s)}], a, files[Max(s)])  BY <3>3
    <3>. HIDE DEF step, pick
    <3>. QED  BY <3>1, <3>2, <3>4
  <2>2. f = [s \in SUBSET S |-> f[s]]  BY <1>6 DEF FoldOf
  <2>. QED  BY <2>1, <2>2
<1>9. Fits(it)  BY <1>8
<1>10. \A s \in SUBSET S : it[s] = IF s = {} THEN u ELSE AddChildOf(it[s \ {Max(s)}], a, files[Max(s)])
  BY <1>9
<1>. HIDE DEF it, Fits
<1>11. \A s \in SUBSET S : s # {} /\ it[s \ {pick[s]}] \in G[s \ {pick[s]}] => it[s] \in G[s]
  <2>. SUFFICES ASSUME NEW s \in SUBSET S, s # {}, it[s \ {pick[s]}] \in G[s \ {pick[s]}]
                PROVE  it[s] \in G[s]
    OBVIOUS
  <2>1. pick[s] = Max(s)  OBVIOUS
  <2>2. it[s] = AddChildOf(it[s \ {Max(s)}], a, files[Max(s)])  BY <1>10
  <2>. HIDE DEF G, pick
  <2>. QED  BY <1>4, <2>1, <2>2
<1>12. it[{}] \in G[{}]
  <2>. HIDE DEF G
  <2>. QED  BY <1>3, <1>10
<1>13. IsFiniteSet(S)  BY <1>0
<1>14. it[S] \in G[S]
  <2>. HIDE DEF G, pick
  <2>. QED  BY ONLY <1>13, <1>2, <1>11, <1>12, FoldStays
<1>15. G[S] = {t \in AppWorlds : Raised(u, t, a, n)}
  <2>1. Cardinality(S) = n
    <3>. HIDE DEF G, n
    <3>1. n \in Nat /\ S = 1..n  BY <1>0 DEF S
    <3>2. Cardinality(1..n) = IF 1 > n THEN 0 ELSE n - 1 + 1  BY <3>1, FS_Interval
    <3>. QED  BY <3>1, <3>2
  <2>2. S \in SUBSET S  OBVIOUS
  <2>. QED  BY <2>1, <2>2
<1>. HIDE DEF G, n
<1>16. it[S] \in AppWorlds /\ Raised(u, it[S], a, n)  BY <1>14, <1>15
<1>. QED  BY <1>7, <1>16 DEF n

\* The files up to the first that cannot be loaded.
LEMMA GoodFilesAre ==
    ASSUME NEW files \in Seq(Images \cup OtherFiles)
    PROVE  LET good == SelectInSeq(files, LAMBDA f : ~CanOpen(f))
               some == IF good = 0 THEN files ELSE SubSeq(files, 1, good - 1)
           IN some \in Seq(Images) /\ Len(some) <= Len(files)
<1>. DEFINE I == {i \in 1..Len(files) : ~CanOpen(files[i])}
            good == SelectInSeq(files, LAMBDA f : ~CanOpen(f))
<1>0. Len(files) \in Nat /\ files \in [1..Len(files) -> Images \cup OtherFiles]  OBVIOUS
<1>1. good = IF I # {} THEN Min(I) ELSE 0  BY DEF SelectInSeq
<1>. HIDE DEF good
<1>2. CASE I = {}
  <2>1. good = 0  BY <1>1, <1>2
  <2>2. \A i \in 1..Len(files) : files[i] \in Images  BY <1>2 DEF CanOpen
  <2>3. files \in Seq(Images)
    <3>1. files \in [1..Len(files) -> Images]  BY <1>0, <2>2
    <3>. QED  BY <1>0, <3>1
  <2>. QED  BY <1>0, <2>1, <2>3 DEF good
<1>3. CASE I # {}
  <2>1. Min(I) \in I /\ \A i \in I : Min(I) <= i
    <3>1. IsFiniteSet(1..Len(files))  BY <1>0, FS_Interval
    <3>2. IsFiniteSet(I)  BY <3>1, FS_Subset
    <3>3. I \subseteq Int  OBVIOUS
    <3>. HIDE DEF I
    <3>. QED  BY <1>3, <3>2, <3>3, MinIs
  <2>2. good \in 1..Len(files) /\ \A i \in 1..(good - 1) : files[i] \in Images
    <3>1. good \in 1..Len(files) /\ \A i \in I : good <= i  BY <1>1, <1>3, <2>1
    <3>2. ASSUME NEW i \in 1..(good - 1) PROVE files[i] \in Images
      <4>1. i \in 1..Len(files) /\ i < good  BY <1>0, <3>1
      <4>2. i \notin I  BY <3>1, <4>1
      <4>. QED  BY <4>1, <4>2 DEF CanOpen
    <3>. QED  BY <3>1, <3>2
  <2>. HIDE DEF I
  <2>. DEFINE some == SubSeq(files, 1, good - 1)
  <2>3. Len(some) = good - 1 /\ some \in Seq(Images \cup OtherFiles)  BY <1>0, <2>2
  <2>4. \A i \in 1..(good - 1) : some[i] = files[i]  BY <1>0, <2>2
  <2>5. some \in [1..(good - 1) -> Images]
    <3>1. some = [i \in 1..(good - 1) |-> some[i]]  BY <2>3
    <3>. HIDE DEF some
    <3>. QED  BY <2>2, <2>4, <3>1
  <2>6. some \in Seq(Images)
    <3>1. good - 1 \in Nat  BY <1>0, <2>2
    <3>. HIDE DEF some
    <3>. QED  BY <2>5, <3>1
  <2>. HIDE DEF some
  <2>7. good # 0 /\ Len(some) <= Len(files)  BY <1>0, <2>2, <2>3
  <2>. QED  BY <2>6, <2>7 DEF good, some
<1>. QED  BY <1>2, <1>3

\* The aggregate that the command line asks for, with its children, is shown.
LEMMA LoadAggregateIs ==
    ASSUME NEW u, NEW files \in Seq(Images \cup OtherFiles),
           InOrder(u, held, registered, {}), u.local = {},
           u.opened + Len(files) < MaxPresentations, u.created < MaxWindows
    PROVE  LeavesBehind(u, LoadAggregate(u, files), Len(files) + 1)
<1>. DEFINE a == u.opened + 1
            good == SelectInSeq(files, LAMBDA f : ~CanOpen(f))
            some == IF good = 0 THEN files ELSE SubSeq(files, 1, good - 1)
            b == Create(u)
            c == AddChildrenOf(b, a, some)
            t == LoadAggregate(u, files)
<1>0. /\ u.opened \in Nat /\ u.created \in Nat /\ Len(files) \in Nat /\ u \in AppWorlds
      /\ CountsFit(u, held)
  BY DEF InOrder, CountsFit
<1>1. CASE files = <<>> \/ Aggregators \cap registered = {}
  <2>1. t = u  BY <1>1 DEF LoadAggregate
  <2>2. u.opened <= u.opened + (Len(files) + 1) /\ u.created <= u.created + (Len(files) + 1)  BY <1>0
  <2>3. LeavesBehind(u, u, Len(files) + 1)  BY <2>2 DEF LeavesBehind
  <2>. QED  BY <2>1, <2>3
<1>2. CASE ~(files = <<>> \/ Aggregators \cap registered = {})
  <2>1. t = IF good # 0 THEN PossiblyDestroyed(Release(c))
            ELSE Release(FindOrCreateScroom(PresentationCreated(c, a), a))
    BY <1>2 DEF LoadAggregate
  <2>2. some \in Seq(Images) /\ Len(some) <= Len(files) /\ Len(some) \in Nat
    <3>1. some \in Seq(Images) /\ Len(some) <= Len(files)  BY GoodFilesAre
    <3>. HIDE DEF some
    <3>. QED  BY <3>1
  <2>. HIDE DEF good, some
  <2>3. u.opened < MaxPresentations  BY <1>0, BoundsAssumption
  <2>4. /\ InOrder(b, held, registered, {} \cup {a}) /\ a \in PresentationIds
        /\ b.views = u.views /\ b.created = u.created /\ b.opened = a
        /\ b.presentations = u.presentations /\ b.shown = u.shown
        /\ b.children = u.children /\ b.local = u.local \cup {a}
    <3>. HIDE DEF b, a
    <3>. QED  BY <2>3, CreateIs DEF b, a
  <2>5. a \in Nat /\ a > u.opened /\ a + Len(some) <= MaxPresentations
    BY <1>0, <2>2, BoundsAssumption
  <2>. HIDE DEF a, b, c
  <2>6. InOrder(b, held, registered, {a}) /\ b.local \subseteq {a} \cup b.children[a]
    <3>1. {} \cup {a} = {a}  OBVIOUS
    <3>. QED  BY <2>4, <3>1
  <2>7. c \in AppWorlds /\ Raised(b, c, a, Len(some))  BY <2>2, <2>4, <2>5, <2>6, AddChildrenOfIs DEF c
  <2>8. /\ InOrder(c, held, registered, {a}) /\ c.local \subseteq {a} \cup c.children[a]
        /\ c.views = u.views /\ c.created = u.created /\ c.shown = u.shown
        /\ c.opened <= a + Len(some) /\ (Cared(b) => Cared(c)) /\ c.opened \in Nat
    BY <2>4, <2>7 DEF Raised, InOrder, CountsFit
  <2>9. c.opened <= u.opened + (Len(files) + 1)  BY <1>0, <2>2, <2>8 DEF a
  <2>10. Cared(u) => Cared(b)
    <3>1. Roots(u, held) \subseteq Roots(b, held)  BY <2>4 DEF Roots
    <3>2. Alive(u, held) \subseteq Alive(b, held)  BY <2>4, <3>1, AliveGrows
    <3>. QED  BY <2>4, <3>2 DEF Cared
  <2>11. NoEmpty(u) => NoEmpty(c)  BY <2>8 DEF NoEmpty
  <2>12. CASE good # 0
    <3>. DEFINE d == Release(c)
                e == PossiblyDestroyed(d)
    <3>1. /\ InOrder(d, held, registered, {})
          /\ d.views = c.views /\ d.created = c.created /\ d.opened = c.opened
          /\ d.shown = c.shown /\ d.local = {}
      BY <2>8, ReleaseIs
    <3>. HIDE DEF d
    <3>2. /\ InOrder(e, held, registered, {})
          /\ e.views = d.views /\ e.created = d.created /\ e.opened = d.opened
          /\ e.presentations \subseteq Alive(e, held) /\ e.shown = d.shown /\ e.local = d.local
      BY <3>1, PossiblyDestroyedIs
    <3>3. t = e  BY <2>1, <2>12 DEF d
    <3>. HIDE DEF e, t
    <3>4. u.created <= u.created + (Len(files) + 1)  BY <1>0
    <3>5. (Cared(u) => Cared(e)) /\ (NoEmpty(u) => NoEmpty(e))  BY <2>8, <3>1, <3>2 DEF Cared, NoEmpty
    <3>6. LeavesBehind(u, e, Len(files) + 1)  BY <2>8, <2>9, <3>1, <3>2, <3>4, <3>5 DEF LeavesBehind
    <3>. QED  BY <3>3, <3>6 DEF t
  <2>13. CASE good = 0
    <3>. DEFINE e == Release(FindOrCreateScroom(PresentationCreated(c, a), a))
    <3>1. /\ InOrder(e, held, registered, {}) /\ e.local = {}
          /\ e.opened = c.opened /\ e.created \in c.created..(c.created + 1)
          /\ c.views \subseteq e.views
          /\ (Cared(c) => Cared(e)) /\ (NoEmpty(c) => NoEmpty(e))
      <4>1. c.created < MaxWindows  BY <2>8
      <4>. QED  BY <2>8, <4>1, MadeIsShown
    <3>2. t = e  BY <2>1, <2>13
    <3>. HIDE DEF e, t
    <3>3. e.created <= u.created + (Len(files) + 1)  BY <1>0, <2>8, <3>1
    <3>4. LeavesBehind(u, e, Len(files) + 1)  BY <2>8, <2>9, <2>10, <2>11, <3>1, <3>3 DEF LeavesBehind
    <3>. QED  BY <3>2, <3>4 DEF t
  <2>. QED  BY <2>12, <2>13
<1>. QED  BY <1>1, <1>2

-----------------------------------------------------------------------------
(* Windows are closed.                                                     *)

\* The views S are gone.
Without(u, t, S) ==
    /\ InOrder(t, held, registered, {})
    /\ t.views = u.views \ S /\ t.opened = u.opened /\ t.created = u.created /\ t.local = u.local
    /\ (Cared(u) => Cared(t))

\* A window is closed, and with it what only it kept alive.
LEMMA ViewDestroyedIs ==
    ASSUME NEW u, NEW v \in u.views, InOrder(u, held, registered, {})
    PROVE  Without(u, ViewDestroyed(u, v), {v})
<1>. DEFINE a == [u EXCEPT !.views = @ \ {v}, !.shown[v] = NullId,
                  !.newMenu[v] = {}, !.windowMenu[v] = {},
                  !.tools[v] = [t \in ToolPlugins |-> 0],
                  !.widgets[v] = [o \in Colouring |-> 0]]
            t == ViewDestroyed(u, v)
<1>0. /\ u \in AppWorlds /\ CountsFit(u, held) /\ v \in WindowIds /\ u.views \subseteq WindowIds
      /\ u.shown \in [WindowIds -> {NullId} \cup PresentationIds]
      /\ u.newMenu \in [WindowIds -> SUBSET Makers] /\ u.windowMenu \in [WindowIds -> SUBSET PresentationIds]
      /\ u.tools \in [WindowIds -> [ToolPlugins -> Nat]] /\ u.widgets \in [WindowIds -> [Colouring -> Nat]]
  BY DEF InOrder, AppWorlds
<1>1. t = PossiblyDestroyed(a)  BY DEF ViewDestroyed
<1>2. a = [u EXCEPT !.views = u.views \ {v}, !.shown = [u.shown EXCEPT ![v] = NullId],
                    !.newMenu = [u.newMenu EXCEPT ![v] = {}], !.windowMenu = [u.windowMenu EXCEPT ![v] = {}],
                    !.tools = [u.tools EXCEPT ![v] = NoTools], !.widgets = [u.widgets EXCEPT ![v] = NoWidgets]]
  BY <1>0 DEF AppWorlds, NoTools, NoWidgets
<1>3. NoTools \in [ToolPlugins -> Nat] /\ NoWidgets \in [Colouring -> Nat]  BY DEF NoTools, NoWidgets
<1>. HIDE DEF a, t
<1>4. /\ a \in AppWorlds
      /\ a.views = u.views \ {v} /\ a.created = u.created /\ a.opened = u.opened
      /\ a.presentations = u.presentations
      /\ a.shown = [u.shown EXCEPT ![v] = NullId] /\ a.children = u.children /\ a.local = u.local
      /\ a.loadedPresentations = u.loadedPresentations
      /\ a.newMenu = [u.newMenu EXCEPT ![v] = {}] /\ a.windowMenu = [u.windowMenu EXCEPT ![v] = {}]
      /\ a.tools = [u.tools EXCEPT ![v] = NoTools] /\ a.widgets = [u.widgets EXCEPT ![v] = NoWidgets]
      /\ a.providers = u.providers
  <2>1. /\ [u.shown EXCEPT ![v] = NullId] \in [WindowIds -> {NullId} \cup PresentationIds]
        /\ [u.newMenu EXCEPT ![v] = {}] \in [WindowIds -> SUBSET Makers]
        /\ [u.windowMenu EXCEPT ![v] = {}] \in [WindowIds -> SUBSET PresentationIds]
        /\ [u.tools EXCEPT ![v] = NoTools] \in [WindowIds -> [ToolPlugins -> Nat]]
        /\ [u.widgets EXCEPT ![v] = NoWidgets] \in [WindowIds -> [Colouring -> Nat]]
    BY <1>0, <1>3
  <2>2. u.views \ {v} \in SUBSET WindowIds  BY <1>0
  <2>. QED  BY <1>0, <1>2, <2>1, <2>2 DEF AppWorlds
<1>5. /\ \A w \in WindowIds \ {v} : /\ a.shown[w] = u.shown[w] /\ a.newMenu[w] = u.newMenu[w]
                                    /\ a.windowMenu[w] = u.windowMenu[w]
                                    /\ a.tools[w] = u.tools[w] /\ a.widgets[w] = u.widgets[w]
      /\ a.tools[v] = NoTools
  BY <1>0, <1>4
<1>6. \A w \in a.views : w \in u.views /\ w \in WindowIds \ {v}  BY <1>0, <1>4
<1>7. Alive(a, held) \subseteq Alive(u, held)
  <2>1. Roots(a, held) \subseteq Roots(u, held)  BY <1>4, <1>5, <1>6 DEF Roots
  <2>. QED  BY <1>4, <2>1, AliveIs
<1>8. CountsFit(a, held)
  <2>1. \A w \in a.views : a.shown[w] \in a.presentations \cup {NullId}  BY <1>0, <1>4, <1>5, <1>6 DEF CountsFit
  <2>. QED  BY <1>0, <1>4, <1>6, <2>1 DEF CountsFit
<1>9. FamiliesFit(a, {})  BY <1>4 DEF InOrder, FamiliesFit
<1>10. KnownFit(a, held, {})  BY <1>4, <1>7 DEF InOrder, KnownFit
<1>11. MenusFit(a, held, registered, {})
  <2>1. \A w \in u.views : /\ u.windowMenu[w] \subseteq u.presentations
                           /\ Alive(u, held) \ {} \subseteq u.windowMenu[w]
                           /\ u.newMenu[w] = Makers \cap registered
    BY DEF InOrder, MenusFit
  <2>. QED  BY <1>4, <1>5, <1>6, <1>7, <2>1 DEF MenusFit
<1>12. ToolsFit(a, registered)
  <2>1. \A w \in WindowIds, x \in ToolPlugins :
          u.tools[w][x] = IF w \in u.views /\ u.shown[w] # NullId /\ x \in registered THEN 1 ELSE 0
    BY DEF InOrder, ToolsFit
  <2>2. ASSUME NEW w \in WindowIds, NEW x \in ToolPlugins
        PROVE  a.tools[w][x] = IF w \in a.views /\ a.shown[w] # NullId /\ x \in registered THEN 1 ELSE 0
    <3>1. CASE w = v  BY <1>4, <1>5, <3>1 DEF NoTools
    <3>2. CASE w # v
      <4>1. w \in a.views <=> w \in u.views  BY <1>4, <3>2
      <4>. QED  BY <1>5, <2>1, <3>2, <4>1
    <3>. QED  BY <3>1, <3>2
  <2>. QED  BY <2>2 DEF ToolsFit
<1>13. ListsFit(a, {})  BY <1>4, <1>5, <1>6 DEF InOrder, ListsFit
<1>14. InOrder(a, held, registered, {})
  BY <1>4, <1>8, <1>9, <1>10, <1>11, <1>12, <1>13 DEF InOrder
<1>15. /\ InOrder(t, held, registered, {})
       /\ t.views = a.views /\ t.created = a.created /\ t.opened = a.opened
       /\ t.presentations \subseteq Alive(t, held) /\ t.local = a.local
  BY <1>1, <1>14, PossiblyDestroyedIs
<1>16. Cared(t)  BY <1>15 DEF Cared
<1>. QED  BY <1>4, <1>15, <1>16 DEF Without, t

\* All windows are closed, one after the other.
LEMMA ViewsDestroyedIs ==
    ASSUME NEW u, NEW S \in SUBSET u.views, InOrder(u, held, registered, {})
    PROVE  Without(u, ViewsDestroyed(u, S), S)
<1>. DEFINE pick == [s \in SUBSET S |-> CHOOSE x \in s : TRUE]
            step == [z \in (SUBSET S) \X AppWorlds |-> ViewDestroyed(z[2], pick[z[1]])]
            G == [s \in SUBSET S |-> {t \in AppWorlds : Without(u, t, s)}]
<1>0. IsFiniteSet(S)
  <2>1. S \subseteq 1..MaxWindows  BY DEF InOrder, AppWorlds, WindowIds
  <2>2. IsFiniteSet(1..MaxWindows)  BY BoundsAssumption, FS_Interval
  <2>. QED  BY <2>1, <2>2, FS_Subset
<1>1. \A s \in SUBSET S : s # {} => pick[s] \in s  OBVIOUS
<1>2. u \in G[{}]
  <2>1. u \in AppWorlds  BY DEF InOrder
  <2>2. Without(u, u, {})  BY DEF Without
  <2>. QED  BY <2>1, <2>2
<1>3. ASSUME NEW s \in SUBSET S, s # {}, NEW t \in G[s \ {pick[s]}]
      PROVE  ViewDestroyed(t, pick[s]) \in G[s]
  <2>. DEFINE x == pick[s]
              r == ViewDestroyed(t, x)
  <2>1. x \in s  BY <1>1, <1>3
  <2>2. t \in AppWorlds /\ Without(u, t, s \ {x})
    <3>. HIDE DEF pick
    <3>1. s \ {pick[s]} \in SUBSET S  OBVIOUS
    <3>2. G[s \ {pick[s]}] = {y \in AppWorlds : Without(u, y, s \ {pick[s]})}  BY <3>1
    <3>. HIDE DEF G
    <3>. QED  BY <1>3, <3>2
  <2>. HIDE DEF x, pick, r, G
  <2>3. x \in t.views /\ InOrder(t, held, registered, {})  BY <2>1, <2>2 DEF Without
  <2>4. Without(t, r, {x})  BY <2>3, ViewDestroyedIs DEF r
  <2>5. Without(u, r, s)  BY <2>1, <2>2, <2>4 DEF Without
  <2>6. r \in AppWorlds  BY <2>4 DEF Without, InOrder
  <2>. QED  BY <2>5, <2>6 DEF r, x, G
<1>4. \A s \in SUBSET S : G[s] \subseteq AppWorlds  OBVIOUS
<1>5. PICK f : FoldOf(f, S, pick, u, step) /\ \A s \in SUBSET S : f[s] \in G[s]
  <2>1. ASSUME NEW s \in SUBSET S, s # {}, NEW t \in G[s \ {pick[s]}] PROVE step[<<s, t>>] \in G[s]
    <3>1. t \in AppWorlds
      <4>1. s \ {pick[s]} \in SUBSET S  OBVIOUS
      <4>. HIDE DEF G, pick
      <4>. QED  BY <1>4, <2>1, <4>1
    <3>2. step[<<s, t>>] = ViewDestroyed(t, pick[s])
      <4>. HIDE DEF pick
      <4>. QED  BY <3>1
    <3>3. ViewDestroyed(t, pick[s]) \in G[s]
      <4>. HIDE DEF G, pick
      <4>. QED  BY <1>3, <2>1
    <3>. HIDE DEF G, step, pick
    <3>. QED  BY <3>2, <3>3
  <2>2. \A s \in SUBSET S : s # {} => \A t \in G[s \ {pick[s]}] : step[<<s, t>>] \in G[s]  BY <2>1
  <2>. HIDE DEF pick, step, G
  <2>. QED  BY <1>0, <1>1, <1>2, <2>2, FoldLeads
<1>. DEFINE Fits(g) == g = [s \in SUBSET S |-> IF s = {} THEN u
                             ELSE ViewDestroyed(g[s \ {CHOOSE x \in s : TRUE}], CHOOSE x \in s : TRUE)]
            it == CHOOSE g : Fits(g)
<1>6. ViewsDestroyed(u, S) = it[S]  BY DEF ViewsDestroyed, FoldSet, MapThenFoldSet
<1>7. Fits(f)
  <2>1. ASSUME NEW s \in SUBSET S
        PROVE  f[s] = IF s = {} THEN u
                      ELSE ViewDestroyed(f[s \ {CHOOSE x \in s : TRUE}], CHOOSE x \in s : TRUE)
    <3>1. f[s] = IF s = {} THEN u ELSE step[<<s, f[s \ {pick[s]}]>>]  BY <1>5 DEF FoldOf
    <3>2. f[s \ {pick[s]}] \in AppWorlds
      <4>1. s \ {pick[s]} \in SUBSET S  OBVIOUS
      <4>. HIDE DEF G, pick
      <4>. QED  BY <1>4, <1>5, <4>1
    <3>3. pick[s] = CHOOSE x \in s : TRUE  OBVIOUS
    <3>4. step[<<s, f[s \ {pick[s]}]>>] = ViewDestroyed(f[s \ {pick[s]}], pick[s])
      <4>. HIDE DEF pick
      <4>. QED  BY <3>2
    <3>. HIDE DEF step, pick
    <3>. QED  BY <3>1, <3>3, <3>4
  <2>2. f = [s \in SUBSET S |-> f[s]]  BY <1>5 DEF FoldOf
  <2>. QED  BY <2>1, <2>2
<1>8. Fits(it)  BY <1>7
<1>9. \A s \in SUBSET S : it[s] = IF s = {} THEN u
                    ELSE ViewDestroyed(it[s \ {CHOOSE x \in s : TRUE}], CHOOSE x \in s : TRUE)
  BY <1>8
<1>. HIDE DEF it, Fits
<1>10. \A s \in SUBSET S : s # {} /\ it[s \ {pick[s]}] \in G[s \ {pick[s]}] => it[s] \in G[s]
  <2>. SUFFICES ASSUME NEW s \in SUBSET S, s # {}, it[s \ {pick[s]}] \in G[s \ {pick[s]}]
                PROVE  it[s] \in G[s]
    OBVIOUS
  <2>1. it[s] = ViewDestroyed(it[s \ {pick[s]}], pick[s])
    <3>1. pick[s] = CHOOSE x \in s : TRUE  OBVIOUS
    <3>. HIDE DEF G, pick
    <3>. QED  BY <1>9, <3>1
  <2>. HIDE DEF G, pick
  <2>. QED  BY <1>3, <2>1
<1>11. it[{}] \in G[{}]
  <2>. HIDE DEF G
  <2>. QED  BY <1>2, <1>9
<1>12. it[S] \in G[S]
  <2>. HIDE DEF G, pick
  <2>. QED  BY ONLY <1>0, <1>1, <1>10, <1>11, FoldStays
<1>13. G[S] = {t \in AppWorlds : Without(u, t, S)}  OBVIOUS
<1>. HIDE DEF G
<1>. QED  BY <1>6, <1>12, <1>13

-----------------------------------------------------------------------------
(* The invariant.                                                          *)

\* Until its files have been loaded, the application that was given some has
\* nothing else.
AwaitsFiles ==
    filenames # NoFiles => /\ phase # "stopped" /\ app.views = {}
                           /\ app.created = 0 /\ app.opened = 0 /\ held = {} /\ late = {}

PluginsFit ==
    /\ toLoad \cap registered = {}
    /\ phase \in {"FINDING_DIRECTORIES", "SCANNING_DIRECTORIES"} => registered = {}
    /\ phase = "stopped" => filenames = NoFiles

WindowsFit ==
    /\ quit => app.views = {}
    /\ filenames = NoFiles /\ ~quit => app.views # {}

AppInv ==
    /\ filenames \in CommandLines \cup {NoFiles}
    /\ InOrder(app, held, registered, {}) /\ app.local = {} /\ Cared(app)
    /\ AwaitsFiles /\ PluginsFit /\ WindowsFit

\* What the invariant says of what users see.
LEMMA AppInvIsRight == AppInv => ApplicationIsRight
<1>. SUFFICES ASSUME AppInv PROVE ApplicationIsRight  OBVIOUS
<1>0. /\ app \in AppWorlds /\ CountsFit(app, held) /\ KnownFit(app, held, {})
      /\ MenusFit(app, held, registered, {}) /\ ToolsFit(app, registered) /\ ListsFit(app, {})
  BY DEF AppInv, InOrder
<1>1. app.views \subseteq WindowIds  BY <1>0 DEF AppWorlds
<1>2. EachToolOnce  BY <1>0, <1>1 DEF ToolsFit, EachToolOnce
<1>3. MenusAreCurrent  BY <1>0 DEF AppInv, Cared, MenusFit, MenusAreCurrent
<1>4. OneColormapList
  <2>. SUFFICES ASSUME NEW v \in app.views, NEW o \in Colouring
                PROVE  /\ app.widgets[v][o] = (IF app.shown[v] = NullId THEN 0 ELSE app.providers[app.shown[v]][o])
                       /\ app.widgets[v][o] <= 1
    BY DEF OneColormapList
  <2>1. app.widgets[v][o] = (IF app.shown[v] = NullId THEN 0 ELSE app.providers[app.shown[v]][o])
    BY <1>0 DEF ListsFit
  <2>2. CASE app.shown[v] = NullId  BY <2>1, <2>2
  <2>3. CASE app.shown[v] # NullId
    <3>1. app.shown[v] \in PresentationIds  BY <1>0, <1>1, <2>3 DEF AppWorlds
    <3>. QED  BY <1>0, <2>1, <2>3, <3>1 DEF ListsFit
  <2>. QED  BY <2>2, <2>3
<1>5. EndsWithItsWindows  BY DEF AppInv, PluginsFit, WindowsFit, EndsWithItsWindows
<1>. QED  BY <1>2, <1>3, <1>4, <1>5 DEF ApplicationIsRight

\* No windows and no presentations: all is in order.
LEMMA AppInitially == AppInit => AppInv
<1>. SUFFICES ASSUME AppInit PROVE AppInv  OBVIOUS
<1>0. filenames \in CommandLines /\ held = {} /\ late = {} /\ registered = {} /\ toLoad = {} /\ quit = FALSE
      /\ phase = "FINDING_DIRECTORIES"
  BY DEF AppInit
<1>1. filenames = NoFiles <=> filenames.regular = <<>> /\ filenames.overlay = <<>>
  <2>1. filenames = [regular |-> filenames.regular, overlay |-> filenames.overlay]
    BY <1>0, CommandLinesAssumption
  <2>. QED  BY <2>1 DEF NoFiles
<1>2. app.views = IF filenames = NoFiles THEN {1} ELSE {}  BY <1>1 DEF AppInit, InitialApp
<1>3. app.created = IF filenames = NoFiles THEN 1 ELSE 0  BY <1>1 DEF AppInit, InitialApp
<1>4. /\ app.presentations = {} /\ app.opened = 0
      /\ app.shown = [v \in WindowIds |-> NullId]
      /\ app.newMenu = [v \in WindowIds |-> {}]
      /\ app.windowMenu = [v \in WindowIds |-> {}]
      /\ app.tools = [v \in WindowIds |-> [t \in ToolPlugins |-> 0]]
      /\ app.widgets = [v \in WindowIds |-> [o \in Colouring |-> 0]]
      /\ app.children = [p \in PresentationIds |-> {}]
      /\ app.providers = [p \in PresentationIds |-> [o \in Colouring |-> 0]]
      /\ app.loadedPresentations = [f \in Images |-> NullId]
      /\ app.local = {}
  BY DEF AppInit, InitialApp
<1>5. 1 \in WindowIds /\ 1 \in 0..MaxWindows  BY BoundsAssumption DEF WindowIds
<1>6. app \in AppWorlds
  <2>1. /\ app.views \in SUBSET WindowIds /\ app.created \in Nat
        /\ app.presentations \in SUBSET PresentationIds /\ app.opened \in Nat
    BY <1>2, <1>3, <1>4, <1>5
  <2>2. /\ app.shown \in [WindowIds -> {NullId} \cup PresentationIds]
        /\ app.newMenu \in [WindowIds -> SUBSET Makers]
        /\ app.windowMenu \in [WindowIds -> SUBSET PresentationIds]
    BY <1>4
  <2>3. /\ app.tools \in [WindowIds -> [ToolPlugins -> Nat]]
        /\ app.widgets \in [WindowIds -> [Colouring -> Nat]]
        /\ app.providers \in [PresentationIds -> [Colouring -> Nat]]
    BY <1>4
  <2>4. /\ app.children \in [PresentationIds -> SUBSET PresentationIds]
        /\ app.loadedPresentations \in [Images -> {NullId} \cup PresentationIds]
        /\ app.local \in SUBSET PresentationIds
    BY <1>4
  <2>5. app = [views |-> app.views, created |-> app.created, presentations |-> app.presentations,
               opened |-> app.opened, shown |-> app.shown, newMenu |-> app.newMenu,
               windowMenu |-> app.windowMenu, tools |-> app.tools, widgets |-> app.widgets,
               children |-> app.children, providers |-> app.providers,
               loadedPresentations |-> app.loadedPresentations, local |-> app.local]
    BY DEF AppInit, InitialApp
  <2>. QED  BY <2>1, <2>2, <2>3, <2>4, <2>5 DEF AppWorlds
<1>7. \A v \in app.views : v \in WindowIds /\ app.shown[v] = NullId  BY <1>2, <1>4, <1>5
<1>8. Roots(app, held) = {}  BY <1>0, <1>4, <1>7 DEF Roots
<1>9. Alive(app, held) = {}  BY <1>8, AliveIs
<1>10. CountsFit(app, held)
  <2>1. app.created \in 0..MaxWindows /\ app.opened \in 0..MaxPresentations
        /\ app.views \subseteq 1..app.created
    BY <1>2, <1>3, <1>4, BoundsAssumption
  <2>2. app.presentations \subseteq 1..app.opened /\ app.local \subseteq 1..app.opened /\ held \subseteq 1..app.opened
    BY <1>0, <1>4
  <2>3. \A v \in app.views : app.shown[v] \in app.presentations \cup {NullId}  BY <1>7
  <2>4. \A p \in PresentationIds : app.children[p] = {}  BY <1>4
  <2>5. \A f \in Images : app.loadedPresentations[f] \in 0..app.opened  BY <1>4 DEF NullId
  <2>. QED  BY <2>1, <2>2, <2>3, <2>4, <2>5 DEF CountsFit
<1>11. FamiliesFit(app, {})  BY <1>4 DEF FamiliesFit
<1>12. KnownFit(app, held, {})  BY <1>0, <1>4, <1>9 DEF KnownFit
<1>13. MenusFit(app, held, registered, {})  BY <1>0, <1>4, <1>7, <1>9 DEF MenusFit
<1>14. ToolsFit(app, registered)  BY <1>0, <1>4 DEF ToolsFit
<1>15. ListsFit(app, {})  BY <1>4, <1>7 DEF ListsFit
<1>16. InOrder(app, held, registered, {})
  BY <1>6, <1>10, <1>11, <1>12, <1>13, <1>14, <1>15 DEF InOrder
<1>17. AwaitsFiles  BY <1>0, <1>2, <1>3, <1>4 DEF AwaitsFiles
<1>18. PluginsFit /\ WindowsFit  BY <1>0, <1>2 DEF PluginsFit, WindowsFit
<1>. QED  BY <1>0, <1>4, <1>16, <1>17, <1>18 DEF AppInv, Cared

-----------------------------------------------------------------------------
(* Each step.                                                              *)

\* A plugin registers: it is told of the views there are, and they of what it
\* can make.
LEMMA RegisteredIs ==
    ASSUME NEW u, NEW plugin, InOrder(u, held, registered, {}), plugin \notin registered
    PROVE  LET t == Registered(u, plugin)
           IN /\ InOrder(t, held, registered \cup {plugin}, {})
              /\ t.views = u.views /\ t.created = u.created /\ t.opened = u.opened
              /\ t.presentations = u.presentations /\ t.shown = u.shown
              /\ t.children = u.children /\ t.local = u.local
<1>. DEFINE reg == registered \cup {plugin}
            a == IF plugin \in ToolPlugins THEN NewViewObserver(u, plugin) ELSE u
            t == Registered(u, plugin)
            more == [v \in WindowIds |-> IF v \in u.views /\ u.shown[v] # NullId
                                         THEN [u.tools[v] EXCEPT ![plugin] = @ + 1] ELSE u.tools[v]]
            menus == [v \in WindowIds |-> IF v \in u.views THEN (Makers \cap registered) \cup {plugin} ELSE {}]
<1>0. /\ u \in AppWorlds /\ u.views \subseteq WindowIds
      /\ u.tools \in [WindowIds -> [ToolPlugins -> Nat]] /\ u.newMenu \in [WindowIds -> SUBSET Makers]
  BY DEF InOrder, AppWorlds
<1>1. /\ a \in AppWorlds
      /\ a.views = u.views /\ a.created = u.created /\ a.opened = u.opened
      /\ a.presentations = u.presentations /\ a.shown = u.shown
      /\ a.children = u.children /\ a.local = u.local
      /\ a.loadedPresentations = u.loadedPresentations
      /\ a.newMenu = u.newMenu /\ a.windowMenu = u.windowMenu
      /\ a.tools = (IF plugin \in ToolPlugins THEN more ELSE u.tools)
      /\ a.widgets = u.widgets /\ a.providers = u.providers
  <2>1. CASE plugin \in ToolPlugins
    <3>1. more \in [WindowIds -> [ToolPlugins -> Nat]]
      <4>1. ASSUME NEW v \in WindowIds PROVE [u.tools[v] EXCEPT ![plugin] = @ + 1] \in [ToolPlugins -> Nat]
        BY <1>0, <2>1
      <4>. QED  BY <1>0, <4>1
    <3>2. a = [u EXCEPT !.tools = more]
      <4>1. a = NewViewObserver(u, plugin)  BY <2>1
      <4>2. NewViewObserver(u, plugin) = [u EXCEPT !.tools = more]  BY DEF NewViewObserver
      <4>. HIDE DEF a, more
      <4>. QED  BY <4>1, <4>2
    <3>. HIDE DEF more, a
    <3>. QED  BY <1>0, <2>1, <3>1, <3>2 DEF AppWorlds
  <2>2. CASE plugin \notin ToolPlugins  BY <1>0, <2>2
  <2>. QED  BY <2>1, <2>2
<1>2. t = IF plugin \in Makers THEN NewPresentationInterfacesUpdate(a, plugin) ELSE a
  BY DEF Registered
<1>. HIDE DEF a, t
<1>3. /\ t \in AppWorlds
      /\ t.views = u.views /\ t.created = u.created /\ t.opened = u.opened
      /\ t.presentations = u.presentations /\ t.shown = u.shown
      /\ t.children = u.children /\ t.local = u.local
      /\ t.loadedPresentations = u.loadedPresentations
      /\ t.newMenu = (IF plugin \in Makers THEN menus ELSE u.newMenu) /\ t.windowMenu = u.windowMenu
      /\ t.tools = (IF plugin \in ToolPlugins THEN more ELSE u.tools)
      /\ t.widgets = u.widgets /\ t.providers = u.providers
  <2>. HIDE DEF more
  <2>1. CASE plugin \in Makers
    <3>1. menus \in [WindowIds -> SUBSET Makers]  BY <2>1
    <3>2. t = [a EXCEPT !.newMenu = menus]  BY <1>1, <1>2, <2>1 DEF NewPresentationInterfacesUpdate
    <3>. HIDE DEF menus
    <3>. QED  BY <1>1, <2>1, <3>1, <3>2 DEF AppWorlds
  <2>2. CASE plugin \notin Makers  BY <1>1, <1>2, <2>2
  <2>. QED  BY <2>1, <2>2
<1>4. Alive(t, held) = Alive(u, held)  BY <1>3, AliveStays
<1>. HIDE DEF more, menus
<1>5. CountsFit(t, held)  BY <1>3 DEF InOrder, CountsFit
<1>6. FamiliesFit(t, {}) /\ KnownFit(t, held, {})  BY <1>3, <1>4 DEF InOrder, FamiliesFit, KnownFit
<1>7. MenusFit(t, held, reg, {})
  <2>1. \A v \in u.views : /\ u.windowMenu[v] \subseteq u.presentations
                           /\ Alive(u, held) \ {} \subseteq u.windowMenu[v]
                           /\ u.newMenu[v] = Makers \cap registered
    BY DEF InOrder, MenusFit
  <2>2. ASSUME NEW v \in u.views PROVE t.newMenu[v] = Makers \cap reg
    <3>1. v \in WindowIds  BY <1>0
    <3>2. CASE plugin \in Makers
      <4>1. menus[v] = (Makers \cap registered) \cup {plugin}  BY <3>1 DEF menus
      <4>. QED  BY <1>3, <3>2, <4>1
    <3>3. CASE plugin \notin Makers  BY <1>3, <2>1, <3>3
    <3>. QED  BY <3>2, <3>3
  <2>. HIDE DEF reg
  <2>. QED  BY <1>3, <1>4, <2>1, <2>2 DEF MenusFit
<1>8. ToolsFit(t, reg)
  <2>1. \A v \in WindowIds, x \in ToolPlugins :
          u.tools[v][x] = IF v \in u.views /\ u.shown[v] # NullId /\ x \in registered THEN 1 ELSE 0
    BY DEF InOrder, ToolsFit
  <2>2. ASSUME NEW v \in WindowIds, NEW x \in ToolPlugins
        PROVE  t.tools[v][x] = IF v \in u.views /\ u.shown[v] # NullId /\ x \in reg THEN 1 ELSE 0
    <3>1. CASE x = plugin
      <4>1. u.tools[v][x] = 0  BY <2>1, <3>1
      <4>2. t.tools[v] = IF v \in u.views /\ u.shown[v] # NullId
                         THEN [u.tools[v] EXCEPT ![plugin] = @ + 1] ELSE u.tools[v]
        BY <1>3, <3>1 DEF more
      <4>3. u.tools[v] \in [ToolPlugins -> Nat]  BY <1>0
      <4>4. CASE v \in u.views /\ u.shown[v] # NullId
        <5>1. t.tools[v][x] = u.tools[v][x] + 1  BY <3>1, <4>2, <4>3, <4>4
        <5>. QED  BY <3>1, <4>1, <4>4, <5>1
      <4>5. CASE ~(v \in u.views /\ u.shown[v] # NullId)  BY <4>1, <4>2, <4>5
      <4>. QED  BY <4>4, <4>5
    <3>2. CASE x # plugin
      <4>1. t.tools[v][x] = u.tools[v][x]
        <5>1. CASE plugin \in ToolPlugins
          <6>1. t.tools[v] = IF v \in u.views /\ u.shown[v] # NullId
                             THEN [u.tools[v] EXCEPT ![plugin] = @ + 1] ELSE u.tools[v]
            BY <1>3, <5>1 DEF more
          <6>2. u.tools[v] \in [ToolPlugins -> Nat]  BY <1>0
          <6>. QED  BY <3>2, <6>1, <6>2
        <5>2. CASE plugin \notin ToolPlugins  BY <1>3, <5>2
        <5>. QED  BY <5>1, <5>2
      <4>. QED  BY <2>1, <3>2, <4>1
    <3>. QED  BY <3>1, <3>2
  <2>. HIDE DEF reg
  <2>. QED  BY <1>3, <2>2 DEF ToolsFit
<1>9. ListsFit(t, {})  BY <1>3 DEF InOrder, ListsFit
<1>10. InOrder(t, held, reg, {})
  <2>. HIDE DEF reg
  <2>. QED  BY <1>3, <1>5, <1>6, <1>7, <1>8, <1>9 DEF InOrder
<1>. QED  BY <1>3, <1>10 DEF t

\* Where there are windows, there are no files to be loaded any more.
LEMMA NoFilesAreLeft ==
    ASSUME AppInv, app.views # {}
    PROVE  filenames = NoFiles
BY DEF AppInv, AwaitsFiles

\* Looking for plugins in directories.
LEMMA PluginsKeep ==
    ASSUME AppInv, FindDirectories \/ ScanDirectory \/ AllLoaded
    PROVE  AppInv'
<1>0. UNCHANGED <<registered, filenames, app, held, late, quit>>
  BY DEF FindDirectories, ScanDirectory, AllLoaded
<1>1. phase \in {"FINDING_DIRECTORIES", "SCANNING_DIRECTORIES"} => registered = {}  BY DEF AppInv, PluginsFit
<1>2. PluginsFit'
  <2>1. CASE FindDirectories  BY <2>1, <1>0 DEF FindDirectories, AppInv, PluginsFit
  <2>2. CASE ScanDirectory  BY <2>2, <1>0 DEF ScanDirectory, AppInv, PluginsFit
  <2>3. CASE AllLoaded  BY <2>3, <1>0 DEF AllLoaded, AppInv, PluginsFit
  <2>. QED  BY <2>1, <2>2, <2>3
<1>3. phase' # "stopped"  BY DEF FindDirectories, ScanDirectory, AllLoaded
<1>4. AwaitsFiles'  BY <1>0, <1>3 DEF AppInv, AwaitsFiles
<1>5. WindowsFit'  BY <1>0 DEF AppInv, WindowsFit
<1>. QED  BY <1>0, <1>2, <1>4, <1>5 DEF AppInv, Cared

\* A plugin of a directory is loaded.
LEMMA LoadPluginKeeps ==
    ASSUME AppInv, NEW plugin, LoadPlugin(plugin)
    PROVE  AppInv'
<1>0. /\ phase = "LOADING_FILES" /\ plugin \in toLoad /\ toLoad' = toLoad \ {plugin}
      /\ UNCHANGED <<phase, filenames, held, late, quit>>
  BY DEF LoadPlugin
<1>1. CASE UNCHANGED <<registered, app>>
  <2>1. PluginsFit'  BY <1>0, <1>1 DEF AppInv, PluginsFit
  <2>. QED  BY <1>0, <1>1, <2>1 DEF AppInv, AwaitsFiles, WindowsFit, Cared
<1>2. CASE registered' = registered \cup {plugin} /\ app' = Registered(app, plugin)
  <2>1. InOrder(app, held, registered, {}) /\ plugin \notin registered  BY <1>0 DEF AppInv, PluginsFit
  <2>2. /\ InOrder(app', held, registered', {})
        /\ app'.views = app.views /\ app'.created = app.created /\ app'.opened = app.opened
        /\ app'.presentations = app.presentations /\ app'.shown = app.shown
        /\ app'.children = app.children /\ app'.local = app.local
    BY <1>2, <2>1, RegisteredIs
  <2>3. Alive(app', held) = Alive(app, held)  BY <2>2, AliveStays
  <2>4. PluginsFit'  BY <1>0, <1>2 DEF AppInv, PluginsFit
  <2>5. AwaitsFiles' /\ WindowsFit'  BY <1>0, <2>2 DEF AppInv, AwaitsFiles, WindowsFit
  <2>6. Cared(app)'  BY <1>0, <2>2, <2>3 DEF AppInv, Cared
  <2>. QED  BY <1>0, <2>2, <2>4, <2>5, <2>6 DEF AppInv
<1>. QED  BY <1>1, <1>2 DEF LoadPlugin

\* on_done_loading_plugins().
LEMMA DoneLoadingKeeps ==
    ASSUME AppInv, ~quit, DoneLoadingPlugins
    PROVE  AppInv'
<1>. DEFINE first == LoadFiles(app, filenames.regular)
            next  == LoadAggregate(first, filenames.overlay)
<1>0. /\ phase' = "stopped" /\ filenames' = NoFiles /\ app' = next
      /\ quit' = (filenames # filenames' /\ app'.presentations = {})
      /\ UNCHANGED <<directory, toLoad, registered, held, late>>
  BY DEF DoneLoadingPlugins, NoFiles
<1>1. /\ InOrder(app, held, registered, {}) /\ app.local = {} /\ Cared(app)
      /\ app.opened \in 0..MaxPresentations /\ app.created \in 0..MaxWindows
  BY DEF AppInv, InOrder, CountsFit
<1>2. /\ InOrder(next, held, registered, {}) /\ next.local = {} /\ Cared(next)
      /\ app.views \subseteq next.views /\ (NoEmpty(app) => NoEmpty(next))
  <2>1. CASE filenames = NoFiles
    <3>1. filenames.regular = <<>> /\ filenames.overlay = <<>>  BY <2>1 DEF NoFiles
    <3>2. next = first  BY <3>1 DEF LoadAggregate
    <3>3. LeavesBehind(app, first, Len(filenames.regular))
      <4>1. <<>> \in Seq(Images \cup OtherFiles) /\ Len(<<>>) = 0  OBVIOUS
      <4>2. app.opened + 0 <= MaxPresentations /\ app.created + 0 <= MaxWindows  BY <1>1, BoundsAssumption
      <4>. HIDE DEF first
      <4>. QED  BY <1>1, <3>1, <4>1, <4>2, LoadFilesIs DEF first
    <3>. QED  BY <1>1, <3>2, <3>3 DEF LeavesBehind
  <2>2. CASE filenames # NoFiles
    <3>. DEFINE r == filenames.regular
                o == filenames.overlay
    <3>1. /\ r \in Seq(Images \cup OtherFiles) /\ o \in Seq(Images \cup OtherFiles)
          /\ Len(r) < MaxWindows /\ Len(r) + Len(o) < MaxPresentations
          /\ app.opened = 0 /\ app.created = 0
      <4>1. filenames \in CommandLines  BY <2>2 DEF AppInv
      <4>. QED  BY <2>2, <4>1, CommandLinesAssumption DEF AppInv, AwaitsFiles
    <3>. HIDE DEF r, o
    <3>2. Len(r) \in Nat /\ Len(o) \in Nat  BY <3>1
    <3>3. app.opened + Len(r) <= MaxPresentations /\ app.created + Len(r) <= MaxWindows
      BY <3>1, <3>2, BoundsAssumption
    <3>4. LeavesBehind(app, first, Len(r))  BY <1>1, <3>1, <3>3, LoadFilesIs DEF r
    <3>. HIDE DEF first
    <3>5. /\ InOrder(first, held, registered, {}) /\ first.local = {}
          /\ first.opened <= Len(r) /\ first.created <= Len(r)
          /\ first.opened \in Nat /\ first.created \in Nat
      BY <3>1, <3>2, <3>4 DEF LeavesBehind, InOrder, CountsFit
    <3>6. first.opened + Len(o) < MaxPresentations /\ first.created < MaxWindows
      BY <3>1, <3>2, <3>5, BoundsAssumption
    <3>7. LeavesBehind(first, next, Len(o) + 1)  BY <3>1, <3>5, <3>6, LoadAggregateIs DEF o
    <3>. HIDE DEF next
    <3>. QED  BY <1>1, <3>4, <3>7 DEF LeavesBehind
  <2>. QED  BY <2>1, <2>2
<1>. HIDE DEF first, next
<1>3. WindowsFit'
  <2>1. CASE filenames = NoFiles
    <3>1. app.views # {} /\ quit' = FALSE  BY <1>0, <2>1 DEF AppInv, WindowsFit
    <3>. QED  BY <1>0, <1>2, <3>1 DEF WindowsFit
  <2>2. CASE filenames # NoFiles
    <3>1. app.views = {} /\ held = {} /\ late = {}  BY <2>2 DEF AppInv, AwaitsFiles
    <3>2. NoEmpty(next)  BY <1>2, <3>1 DEF NoEmpty
    <3>3. \A v \in next.views : next.shown[v] \in next.presentations
      BY <1>2, <3>2 DEF InOrder, CountsFit, NoEmpty
    <3>4. next.presentations \subseteq Alive(next, held)  BY <1>2, <3>1 DEF Cared
    <3>5. next.views = {} => Alive(next, held) = {}
      <4>1. next.views = {} => Roots(next, held) = {}  BY <1>2, <3>1 DEF Roots
      <4>. QED  BY <4>1, AliveIs
    <3>6. quit' = (next.presentations = {})  BY <1>0, <2>2
    <3>7. quit' => next.views = {}  BY <3>3, <3>6
    <3>8. ~quit' => next.views # {}  BY <3>4, <3>5, <3>6
    <3>. QED  BY <1>0, <3>7, <3>8 DEF WindowsFit
  <2>. QED  BY <2>1, <2>2
<1>4. AwaitsFiles' /\ PluginsFit'  BY <1>0 DEF AppInv, AwaitsFiles, PluginsFit
<1>. QED  BY <1>0, <1>2, <1>3, <1>4 DEF AppInv, Cared

\* What the user does, as long as the program has windows.
LEMMA UIKeeps ==
    ASSUME AppInv, ~quit, app.views # {}, UIOnly,
           InOrder(app', held, registered, {}), app'.local = {}, app.views \subseteq app'.views,
           Cared(app) => app'.presentations \subseteq Alive(app', held) \cup late
    PROVE  AppInv'
<1>1. filenames = NoFiles  BY NoFilesAreLeft
<1>2. UNCHANGED <<phase, directory, toLoad, registered, filenames, held, late, quit>>  BY DEF UIOnly
<1>3. AwaitsFiles' /\ PluginsFit'  BY <1>1, <1>2 DEF AppInv, AwaitsFiles, PluginsFit
<1>4. WindowsFit'  BY <1>2 DEF WindowsFit
<1>5. Cared(app)'  BY <1>2 DEF AppInv, Cared
<1>. QED  BY <1>1, <1>2, <1>3, <1>4, <1>5 DEF AppInv

\* There is room for one presentation and one window more.
LEMMA RoomIs ==
    ASSUME AppInv, Room(1)
    PROVE  app.opened < MaxPresentations /\ app.created < MaxWindows
<1>1. app.opened \in Nat /\ app.created \in Nat  BY DEF AppInv, InOrder, CountsFit
<1>. QED  BY <1>1, BoundsAssumption DEF Room

\* The user opens a file.
LEMMA OpenKeeps ==
    ASSUME AppInv, ~quit, NEW f, Open(f)
    PROVE  AppInv'
<1>1. app.views # {} /\ Room(1) /\ app' = LoadFile(app, f) /\ UIOnly  BY DEF Open
<1>2. InOrder(app, held, registered, {}) /\ app.local = {}  BY DEF AppInv
<1>3. LeavesBehind(app, app', 1)  BY <1>1, <1>2, RoomIs, LoadFileIs
<1>. QED  BY <1>1, <1>3, UIKeeps DEF LeavesBehind, Cared

\* The user asks for a new presentation.
LEMMA NewKeeps ==
    ASSUME AppInv, ~quit, NEW v, NEW plugin, New(v, plugin)
    PROVE  AppInv'
<1>1. /\ app.views # {} /\ Room(1) /\ UIOnly
      /\ app' = Release(FindOrCreateScroom(PresentationCreated(Create(app), app.opened + 1), app.opened + 1))
  BY DEF New
<1>2. InOrder(app, held, registered, {}) /\ app.local = {}  BY DEF AppInv
<1>3. LeavesBehind(app, app', 1)  BY <1>1, <1>2, RoomIs, MakeAndShow
<1>. QED  BY <1>1, <1>3, UIKeeps DEF LeavesBehind, Cared

\* The user opens a window for a presentation that has one.
LEMMA NewWindowKeeps ==
    ASSUME AppInv, ~quit, NEW v, NEW p, NewWindow(v, p)
    PROVE  AppInv'
<1>1. /\ app.views # {} /\ app.created < MaxWindows /\ p \in Alive(app, held)
      /\ app' = FindOrCreateScroom(app, p) /\ UIOnly
  BY DEF NewWindow
<1>2. InOrder(app, held, registered, {}) /\ app.local = {}  BY DEF AppInv
<1>3. p \in app.presentations  BY <1>1, <1>2 DEF InOrder, KnownFit
<1>4. Shows(app, app', p)  BY <1>1, <1>2, <1>3, FindOrCreateIs
<1>. QED  BY <1>1, <1>2, <1>4, UIKeeps DEF Shows, Cared

\* The user closes a window.
LEMMA CloseKeeps ==
    ASSUME AppInv, ~quit, NEW S \in SUBSET app.views, app.views # {}, Without(app, app', S),
           quit' = (app'.views = {}),
           UNCHANGED <<phase, directory, toLoad, registered, filenames, held, late>>
    PROVE  AppInv'
<1>1. filenames = NoFiles  BY NoFilesAreLeft
<1>2. AwaitsFiles' /\ PluginsFit'  BY <1>1 DEF AppInv, AwaitsFiles, PluginsFit
<1>3. WindowsFit'  BY DEF WindowsFit
<1>. QED  BY <1>1, <1>2, <1>3 DEF AppInv, Without, Cared

\* A job holds on to a presentation.
LEMMA JobHoldsKeeps ==
    ASSUME AppInv, NEW v, JobHolds(v)
    PROVE  AppInv'
<1>. DEFINE p == app.shown[v]
<1>0. /\ v \in app.views /\ p \notin held \cup {NullId} /\ held' = held \cup {p}
      /\ UNCHANGED <<phase, directory, toLoad, registered, filenames, app, late, quit>>
  BY DEF JobHolds
<1>1. Roots(app, held') = Roots(app, held)  BY <1>0 DEF Roots
<1>2. Alive(app, held') = Alive(app, held)  BY <1>1, AliveIs
<1>3. /\ app \in AppWorlds /\ CountsFit(app, held) /\ FamiliesFit(app, {}) /\ KnownFit(app, held, {})
      /\ MenusFit(app, held, registered, {}) /\ ToolsFit(app, registered) /\ ListsFit(app, {})
  BY DEF AppInv, InOrder
<1>4. p \in 1..app.opened  BY <1>0, <1>3 DEF CountsFit
<1>. HIDE DEF p
<1>5. CountsFit(app, held')
  <2>1. held' \subseteq 1..app.opened  BY <1>0, <1>3, <1>4 DEF CountsFit
  <2>. QED  BY <1>3, <2>1 DEF CountsFit
<1>6. KnownFit(app, held', {}) /\ MenusFit(app, held', registered, {})  BY <1>2, <1>3 DEF KnownFit, MenusFit
<1>7. InOrder(app, held', registered, {})  BY <1>3, <1>5, <1>6 DEF InOrder
<1>8. filenames = NoFiles  BY <1>0, NoFilesAreLeft
<1>9. AwaitsFiles' /\ PluginsFit' /\ WindowsFit'
  BY <1>0, <1>8 DEF AppInv, AwaitsFiles, PluginsFit, WindowsFit
<1>10. Cared(app)'  BY <1>0, <1>2 DEF AppInv, Cared
<1>. QED  BY <1>0, <1>7, <1>8, <1>9, <1>10 DEF AppInv

\* A job lets go of a presentation.
LEMMA JobLetsGoKeeps ==
    ASSUME AppInv, NEW p, JobLetsGo(p)
    PROVE  AppInv'
<1>0. /\ p \in held /\ held' = held \ {p}
      /\ late' = late \cup (Alive(app, held) \ Alive(app, held'))
      /\ UNCHANGED <<phase, directory, toLoad, registered, filenames, app, quit>>
  BY DEF JobLetsGo
<1>1. Roots(app, held') \subseteq Roots(app, held)  BY <1>0 DEF Roots
<1>2. Alive(app, held') \subseteq Alive(app, held)  BY <1>1, AliveIs
<1>3. /\ app \in AppWorlds /\ CountsFit(app, held) /\ FamiliesFit(app, {}) /\ KnownFit(app, held, {})
      /\ MenusFit(app, held, registered, {}) /\ ToolsFit(app, registered) /\ ListsFit(app, {})
  BY DEF AppInv, InOrder
<1>4. CountsFit(app, held')  BY <1>0, <1>3 DEF CountsFit
<1>5. KnownFit(app, held', {}) /\ MenusFit(app, held', registered, {})  BY <1>2, <1>3 DEF KnownFit, MenusFit
<1>6. InOrder(app, held', registered, {})  BY <1>3, <1>4, <1>5 DEF InOrder
<1>7. filenames = NoFiles  BY <1>0 DEF AppInv, AwaitsFiles
<1>8. AwaitsFiles' /\ PluginsFit' /\ WindowsFit'
  BY <1>0, <1>7 DEF AppInv, AwaitsFiles, PluginsFit, WindowsFit
<1>9. Cared(app)'  BY <1>0 DEF AppInv, Cared
<1>. QED  BY <1>0, <1>6, <1>7, <1>8, <1>9 DEF AppInv

\* Every step keeps the invariant.
LEMMA AppStep == AppInv /\ [AppNext]_appVars => AppInv'
<1>. SUFFICES ASSUME AppInv, [AppNext]_appVars PROVE AppInv'  OBVIOUS
<1>1. CASE UNCHANGED appVars
  <2>1. UNCHANGED <<phase, toLoad, registered, filenames, app, held, late, quit>>  BY <1>1 DEF appVars
  <2>2. AwaitsFiles' /\ PluginsFit' /\ WindowsFit'
    BY <2>1 DEF AppInv, AwaitsFiles, PluginsFit, WindowsFit
  <2>. QED  BY <2>1, <2>2 DEF AppInv, Cared
<1>2. CASE ~quit /\ MainLoop
  <2>0. InOrder(app, held, registered, {})  BY DEF AppInv
  <2>1. CASE FindDirectories \/ ScanDirectory \/ AllLoaded  BY <2>1, PluginsKeep
  <2>2. CASE DoneLoadingPlugins  BY <1>2, <2>2, DoneLoadingKeeps
  <2>3. CASE \E plugin \in AllPlugins : LoadPlugin(plugin)  BY <2>3, LoadPluginKeeps
  <2>4. CASE \E f \in Images \cup OtherFiles : Open(f)  BY <1>2, <2>4, OpenKeeps
  <2>5. CASE \E v \in WindowIds, plugin \in Makers : New(v, plugin)  BY <1>2, <2>5, NewKeeps
  <2>6. CASE \E v \in WindowIds, p \in PresentationIds : NewWindow(v, p)  BY <1>2, <2>6, NewWindowKeeps
  <2>7. CASE \E v \in WindowIds : Close(v)
    <3>1. PICK v \in WindowIds : Close(v)  BY <2>7
    <3>2. /\ v \in app.views /\ app' = ViewDestroyed(app, v) /\ quit' = (app'.views = {})
          /\ UNCHANGED <<phase, directory, toLoad, registered, filenames, held, late>>
      BY <3>1 DEF Close
    <3>3. Without(app, app', {v})  BY <2>0, <3>2, ViewDestroyedIs
    <3>4. {v} \in SUBSET app.views /\ app.views # {}  BY <3>2
    <3>. QED  BY <1>2, <3>2, <3>3, <3>4, CloseKeeps
  <2>8. CASE Quit
    <3>1. /\ app.views # {} /\ app' = ViewsDestroyed(app, app.views) /\ quit' = TRUE
          /\ UNCHANGED <<phase, directory, toLoad, registered, filenames, held, late>>
      BY <2>8 DEF Quit
    <3>2. app.views \in SUBSET app.views  OBVIOUS
    <3>3. Without(app, app', app.views)  BY <2>0, <3>1, <3>2, ViewsDestroyedIs
    <3>4. app'.views = {}  BY <3>3 DEF Without
    <3>5. quit' = (app'.views = {})  BY <3>1, <3>4
    <3>. QED  BY <1>2, <3>1, <3>2, <3>3, <3>5, CloseKeeps
  <2>. QED  BY <1>2, <2>1, <2>2, <2>3, <2>4, <2>5, <2>6, <2>7, <2>8 DEF MainLoop
<1>3. CASE \E v \in WindowIds : JobHolds(v)  BY <1>3, JobHoldsKeeps
<1>4. CASE \E p \in PresentationIds : JobLetsGo(p)  BY <1>4, JobLetsGoKeeps
<1>. QED  BY <1>1, <1>2, <1>3, <1>4 DEF AppNext

\* Each window has the tools, the menus and the colour map lists that go with
\* the plugins and the presentations there are, in whatever order these came
\* (callbacks.cc, view.cc, colormapprovider.cc); and the program ends with its
\* last window, and not before.
THEOREM ApplicationStaysRight == AppSpec => []ApplicationIsRight
<1>1. AppInit => AppInv  BY AppInitially
<1>2. AppInv /\ [AppNext]_appVars => AppInv'  BY AppStep
<1>3. AppInv => ApplicationIsRight  BY AppInvIsRight
<1>. QED  BY <1>1, <1>2, <1>3, PTL DEF AppSpec

-----------------------------------------------------------------------------
(***************************************************************************)
(* ViewWindow: what shows the position of a view agrees with it, and what  *)
(* the user holds on to stays where it is.  Handlers call each other: Quiet*)
(* is what they may do while the position is frozen, and Off counts what   *)
(* is wrong, of which a handler puts one thing right before it calls others.*)
(***************************************************************************)

-----------------------------------------------------------------------------
(* Points and zoom levels.                                                 *)

\* Points are calculated with one axis at a time.
LEMMA PointsAre ==
    /\ \A x \in Int, y \in Int : Point(x, y) \in Coordinates /\ Point(x, y).x = x /\ Point(x, y).y = y
    /\ \A p \in Coordinates : p.x \in Int /\ p.y \in Int /\ p["x"] = p.x /\ p["y"] = p.y
    /\ \A p \in Coordinates, q \in Coordinates :
        /\ Plus(p, q) \in Coordinates /\ Minus(p, q) \in Coordinates /\ Times(p, q) \in Coordinates
        /\ p.x = q.x /\ p.y = q.y => p = q
BY DEF Point, Coordinates, Plus, Minus, Times

\* Along an axis, operations on points are those on numbers.
LEMMA AxisOf ==
    ASSUME NEW p \in Coordinates, NEW q \in Coordinates, NEW a \in Axes
    PROVE  /\ p[a] \in Int
           /\ Plus(p, q)[a] = p[a] + q[a] /\ Minus(p, q)[a] = p[a] - q[a]
           /\ Times(p, q)[a] = p[a] * q[a]
BY DEF Point, Coordinates, Plus, Minus, Times, Axes

\* Two points are the same if they are so along both axes.
LEMMA SamePoint ==
    ASSUME NEW p \in Coordinates, NEW q \in Coordinates, \A a \in Axes : p[a] = q[a]
    PROVE  p = q
BY DEF Coordinates, Axes

\* A point is scaled along both axes.
LEMMA ScaleIs ==
    ASSUME NEW p \in Coordinates, NEW n \in Int
    PROVE  /\ Scale(p, n) \in Coordinates
           /\ \A a \in Axes : Scale(p, n)[a] = p[a] * n
BY DEF Point, Coordinates, Times, Scale, Twice, Axes

\* A point is halved along both axes.
LEMMA HalfIs ==
    ASSUME NEW p \in Coordinates
    PROVE  /\ HalfOf(p) \in Coordinates
           /\ \A a \in Axes : HalfOf(p)[a] = p[a] \div 2
BY DEF Point, Coordinates, HalfOf, Axes

\* The powers of two that zoom levels and sizes take.
LEMMA PowersOfTwo == \A e \in 0..36 : 2^e \in Nat /\ 2^e > 0 /\ (e > 0 => 2^e = 2 * (2^e \div 2))
<1>. DEFINE T == {e \in Nat : 2^e \in Nat /\ 2^e > 0 /\ (e > 0 => 2^e = 2 * (2^e \div 2))}
<1>1. /\ 0 \in T /\ 1 \in T /\ 2 \in T /\ 3 \in T /\ 4 \in T /\ 5 \in T /\ 6 \in T /\ 7 \in T
      /\ 8 \in T /\ 9 \in T /\ 10 \in T /\ 11 \in T
  OBVIOUS
<1>2. /\ 12 \in T /\ 13 \in T /\ 14 \in T /\ 15 \in T /\ 16 \in T /\ 17 \in T /\ 18 \in T
      /\ 19 \in T /\ 20 \in T /\ 21 \in T /\ 22 \in T /\ 23 \in T
  OBVIOUS
<1>3. /\ 24 \in T /\ 25 \in T /\ 26 \in T /\ 27 \in T /\ 28 \in T /\ 29 \in T /\ 30 \in T
      /\ 31 \in T /\ 32 \in T /\ 33 \in T /\ 34 \in T /\ 35 \in T /\ 36 \in T
  OBVIOUS
<1>. SUFFICES ASSUME NEW e \in 0..36 PROVE e \in T  OBVIOUS
<1>. HIDE DEF T
<1>4. e \in 0..11 => e \in T  BY <1>1
<1>5. e \in 12..23 => e \in T  BY <1>2
<1>6. e \in 24..36 => e \in T  BY <1>3
<1>. QED  BY <1>4, <1>5, <1>6

\* At every zoom level half a pixel of the window is a whole number of units.
LEMMA PerPixelIs ==
    ASSUME NEW z \in Zooms
    PROVE  \E h \in Nat \ {0} : PerPixel(z) = 2 * h
<1>1. 6 - z \in 0..36 /\ 6 - z > 0 /\ z <= 6  BY DEF Zooms, MaxZoom, Factors
<1>2. PerPixel(z) = 2^(6 - z)  BY <1>1 DEF PerPixel
<1>3. 2^(6 - z) = 2 * (2^(6 - z) \div 2) /\ 2^(6 - z) \in Nat /\ 2^(6 - z) > 0
  BY <1>1, PowersOfTwo
<1>. DEFINE n == 2^(6 - z)
<1>4. n \in Nat /\ n > 0 /\ n = 2 * (n \div 2)  BY <1>3
<1>. HIDE DEF n
<1>5. n \div 2 \in Nat \ {0}  BY <1>4
<1>6. PerPixel(z) = n  BY <1>2 DEF n
<1>. QED  BY <1>4, <1>5, <1>6

-----------------------------------------------------------------------------
(* Windows.                                                                *)

\* What no handler changes but the one whose task it is.
Kept(w, v) ==
    /\ w \in Windows
    /\ w.shown = v.shown /\ w.rect = v.rect /\ w.aspect = v.aspect
    /\ w.zoom = v.zoom /\ w.zooms = v.zooms /\ w.size = v.size
    /\ w.dragged = v.dragged /\ w.cached = v.cached
    /\ w.selecting = v.selecting /\ w.selection = v.selection
    /\ w.pixels = v.pixels /\ w.grid = v.grid

\* What two steps keep, both keep together.
LEMMA KeptTwice ==
    ASSUME NEW v, NEW w, NEW u, Kept(w, v), Kept(u, w)
    PROVE  Kept(u, v)
BY Zenon DEF Kept

\* The types of the fields of a window.
LEMMA WindowIs ==
    ASSUME NEW v \in Windows
    PROVE  /\ v.rect.x \in Sides /\ v.rect.y \in Sides /\ v.aspect \in AspectRatios
           /\ v.aspect \in Coordinates /\ v.zoom \in Zooms /\ v.size \in Coordinates
           /\ v.size.x \in Nat /\ v.size.y \in Nat /\ v.position \in Coordinates /\ v.frozen \in Int
           /\ v.bar \in [Axes -> Adjustments] /\ v.text \in [Axes -> Int \cup {Junk}]
           /\ v.cached \in Coordinates
           /\ v.selection \in Selections /\ v.pixels \in Selections /\ v.grid \in Selections
BY DEF Windows, Coordinates, AspectRatios

\* An assignment to one of the fields.
LEMMA PositionSet ==
    ASSUME NEW v \in Windows, NEW p \in Coordinates
    PROVE  LET w == [v EXCEPT !.position = p] IN
           Kept(w, v) /\ w.position = p /\ w.frozen = v.frozen /\ w.bar = v.bar /\ w.text = v.text /\ w.ruler = v.ruler
BY DEF Windows, Kept

\* Freezing and thawing changes nothing else.
LEMMA FrozenSet ==
    ASSUME NEW v \in Windows, NEW n \in Int
    PROVE  LET w == [v EXCEPT !.frozen = n] IN
           Kept(w, v) /\ w.position = v.position /\ w.frozen = n /\ w.bar = v.bar /\ w.text = v.text /\ w.ruler = v.ruler
BY DEF Windows, Kept

\* A scroll bar is configured, and the other one is not.
LEMMA BarSet ==
    ASSUME NEW v \in Windows, NEW a \in Axes, NEW b \in Adjustments
    PROVE  LET w == [v EXCEPT !.bar[a] = b] IN
           /\ Kept(w, v) /\ w.position = v.position /\ w.frozen = v.frozen /\ w.text = v.text /\ w.ruler = v.ruler
           /\ w.bar = [v.bar EXCEPT ![a] = b]
BY DEF Windows, Kept

\* A text box gets another text, and the other one does not.
LEMMA TextSet ==
    ASSUME NEW v \in Windows, NEW a \in Axes, NEW b \in Int \cup {Junk}
    PROVE  LET w == [v EXCEPT !.text[a] = b] IN
           /\ Kept(w, v) /\ w.position = v.position /\ w.frozen = v.frozen /\ w.bar = v.bar /\ w.ruler = v.ruler
           /\ w.text = [v.text EXCEPT ![a] = b]
BY DEF Windows, Kept

-----------------------------------------------------------------------------
(* Rounding.                                                               *)

\* Division rounds down, for negative numbers too.
LEMMA DivisionIs ==
    ASSUME NEW v \in Int, NEW f \in Nat \ {0}
    PROVE  /\ v \div f \in Int
           /\ f * (v \div f) <= v
           /\ v < f * (v \div f) + f
OBVIOUS

\* Multiplying keeps the order.
LEMMA Larger ==
    ASSUME NEW a \in Int, NEW b \in Int, NEW f \in Nat, a <= b
    PROVE  f * a \in Int /\ f * b \in Int /\ f * a <= f * b
<1>1. PICK d \in Nat : b = a + d
  <2>1. b - a \in Nat /\ b = a + (b - a)  OBVIOUS
  <2>. QED  BY <2>1
<1>2. f * d \in Nat /\ f * a \in Int /\ f * b = f * a + f * d  BY <1>1
<1>. QED  BY <1>2

\* A multiple leaves nothing.
LEMMA NothingLeft ==
    ASSUME NEW k \in Int, NEW f \in Nat \ {0}
    PROVE  (f * k) % f = 0
<1>. DEFINE v == f * k
            q == v \div f
<1>1. v \in Int /\ v = f * k  OBVIOUS
<1>. HIDE DEF v
<1>2. q \in Int /\ f * q <= v /\ v < f * q + f  BY <1>1, DivisionIs
<1>3. v % f = v - f * q  BY <1>1
<1>. HIDE DEF q
<1>4. q <= k
  <2>. SUFFICES ASSUME k + 1 <= q PROVE FALSE  BY <1>2
  <2>1. f * (k + 1) <= f * q  BY <1>2, Larger
  <2>2. f * (k + 1) = v + f  BY <1>1
  <2>. QED  BY <1>1, <1>2, <2>1, <2>2
<1>5. k <= q
  <2>. SUFFICES ASSUME q + 1 <= k PROVE FALSE  BY <1>2
  <2>1. f * (q + 1) <= f * k  BY <1>2, Larger
  <2>2. f * (q + 1) = f * q + f  BY <1>2
  <2>. QED  BY <1>1, <1>2, <2>1, <2>2
<1>6. q = k  BY <1>2, <1>4, <1>5
<1>7. v % f = 0  BY <1>1, <1>3, <1>6
<1>. QED  BY <1>7 DEF v

\* To the nearest multiple.
LEMMA NearestOf ==
    ASSUME NEW v \in Int, NEW f \in Nat \ {0}
    PROVE  /\ rounded_divide_by(v, f) \in Int
           /\ round_to_multiple_of(v, f) \in Int
           /\ 2 * round_to_multiple_of(v, f) - 2 * v \in -f .. f
           /\ round_to_multiple_of(v, f) % f = 0
           /\ v >= 0 => 2 * v + f < 2 * round_to_multiple_of(v, f) + 2 * f
           /\ v < 0 => 2 * round_to_multiple_of(v, f) < 2 * v + f
<1>. DEFINE r == rounded_divide_by(v, f)
<1>1. /\ r \in Int
      /\ f * r \in Int /\ 2 * (f * r) <= 2 * v + f /\ 2 * v - f <= 2 * (f * r)
      /\ v >= 0 => 2 * v + f < 2 * (f * r) + 2 * f
      /\ v < 0 => 2 * (f * r) < 2 * v + f
  <2>1. CASE v >= 0
    <3>. DEFINE q == (2 * v + f) \div (2 * f)
    <3>1. q \in Int /\ (2 * f) * q <= 2 * v + f /\ 2 * v + f < (2 * f) * q + 2 * f
      <4>1. 2 * v + f \in Int /\ 2 * f \in Nat \ {0}  OBVIOUS
      <4>. QED  BY <4>1, DivisionIs
    <3>2. r = q  BY <2>1 DEF rounded_divide_by
    <3>. HIDE DEF q, r
    <3>3. f * q \in Int /\ (2 * f) * q = 2 * (f * q)  BY <3>1
    <3>. QED  BY <2>1, <3>1, <3>2, <3>3
  <2>2. CASE v < 0
    <3>. DEFINE q == (f - 2 * v) \div (2 * f)
    <3>1. q \in Int /\ (2 * f) * q <= f - 2 * v /\ f - 2 * v < (2 * f) * q + 2 * f
      <4>1. f - 2 * v \in Int /\ 2 * f \in Nat \ {0}  OBVIOUS
      <4>. QED  BY <4>1, DivisionIs
    <3>2. r = -q  BY <2>2 DEF rounded_divide_by
    <3>. HIDE DEF q, r
    <3>3. f * q \in Int /\ (2 * f) * q = 2 * (f * q) /\ f * (-q) = -(f * q) /\ -q \in Int  BY <3>1
    <3>. QED  BY <2>2, <3>1, <3>2, <3>3
  <2>. QED  BY <2>1, <2>2
<1>2. round_to_multiple_of(v, f) = f * r  BY DEF round_to_multiple_of
<1>. HIDE DEF r
<1>3. (f * r) % f = 0  BY <1>1, NothingLeft
<1>4. 2 * (f * r) - 2 * v \in -f .. f  BY <1>1
<1>5. r \in Int  BY <1>1
<1>. QED  BY <1>1, <1>2, <1>3, <1>4, <1>5 DEF r

\* Rounding keeps the order.
LEMMA NearestKeepsOrder ==
    ASSUME NEW v \in Int, NEW w \in Int, NEW f \in Nat \ {0}, v <= w
    PROVE  round_to_multiple_of(v, f) <= round_to_multiple_of(w, f)
<1>. DEFINE r == rounded_divide_by(v, f)
            s == rounded_divide_by(w, f)
            m == round_to_multiple_of(v, f)
            n == round_to_multiple_of(w, f)
<1>0. m = f * r /\ n = f * s  BY DEF round_to_multiple_of
<1>a. /\ r \in Int /\ m \in Int /\ 2 * m - 2 * v \in -f .. f
      /\ v >= 0 => 2 * v + f < 2 * m + 2 * f
      /\ v < 0 => 2 * m < 2 * v + f
  BY NearestOf
<1>b. /\ s \in Int /\ n \in Int /\ 2 * n - 2 * w \in -f .. f
      /\ w >= 0 => 2 * w + f < 2 * n + 2 * f
      /\ w < 0 => 2 * n < 2 * w + f
  BY NearestOf
<1>1. /\ r \in Int /\ 2 * (f * r) <= 2 * v + f
      /\ v >= 0 => 2 * v + f < 2 * (f * r) + 2 * f
      /\ v < 0 => 2 * (f * r) < 2 * v + f
  <2>. HIDE DEF r, s, m, n
  <2>1. 2 * m <= 2 * v + f  BY <1>a
  <2>. QED  BY <1>0, <1>a, <2>1
<1>2. /\ s \in Int /\ 2 * w - f <= 2 * (f * s)
      /\ w >= 0 => 2 * w + f < 2 * (f * s) + 2 * f
      /\ w < 0 => 2 * (f * s) < 2 * w + f
  <2>. HIDE DEF r, s, m, n
  <2>1. 2 * w - f <= 2 * n  BY <1>b
  <2>. QED  BY <1>0, <1>b, <2>1
<1>3. f * r <= f * s
  <2>. HIDE DEF r, s
  <2>1. CASE r <= s  BY <1>1, <1>2, <2>1, Larger
  <2>2. CASE s + 1 <= r
    <3>1. f * (s + 1) <= f * r /\ f * s \in Int /\ f * r \in Int  BY <1>1, <1>2, <2>2, Larger
    <3>2. f * (s + 1) = f * s + f  BY <1>2
    <3>3. 2 * (f * s) + 2 * f <= 2 * (f * r)  BY <3>1, <3>2
    <3>4. CASE w >= 0  BY <1>1, <1>2, <3>1, <3>3, <3>4
    <3>5. CASE w < 0  BY <1>1, <1>2, <3>1, <3>3, <3>5
    <3>. QED  BY <3>4, <3>5
  <2>. QED  BY <1>1, <1>2, <2>1, <2>2
<1>. QED  BY <1>3 DEF round_to_multiple_of

\* Outwards.
LEMMA OutwardsOf ==
    ASSUME NEW v \in Int, NEW f \in Nat \ {0}
    PROVE  /\ round_down_to_multiple_of(v, f) \in Int /\ round_up_to_multiple_of(v, f) \in Int
           /\ v - round_down_to_multiple_of(v, f) \in 0..f
           /\ round_up_to_multiple_of(v, f) - v \in 0..f
           /\ round_down_to_multiple_of(v, f) % f = 0 /\ round_up_to_multiple_of(v, f) % f = 0
<1>. DEFINE r == v \div f
            s == (-v) \div f
<1>1. r \in Int /\ f * r \in Int /\ f * r <= v /\ v < f * r + f  BY DivisionIs
<1>2. s \in Int /\ f * s \in Int /\ f * s <= -v /\ -v < f * s + f  BY DivisionIs
<1>3. round_down_to_multiple_of(v, f) = f * r
  BY DEF round_down_to_multiple_of, floored_divide_by
<1>4. round_up_to_multiple_of(v, f) = f * (-s)
  BY DEF round_up_to_multiple_of, ceiled_divide_by
<1>. HIDE DEF r, s
<1>5. f * (-s) = -(f * s) /\ -s \in Int  BY <1>2
<1>6. (f * r) % f = 0 /\ (f * (-s)) % f = 0  BY <1>1, <1>5, NothingLeft
<1>7. v - f * r \in 0..f  BY <1>1
<1>8. f * (-s) - v \in 0..f /\ f * (-s) \in Int  BY <1>2, <1>5
<1>. QED  BY <1>1, <1>3, <1>4, <1>6, <1>7, <1>8

-----------------------------------------------------------------------------
(* What a window shows of its position.                                    *)

\* The size of what is visible, and half of it.
LEMMA ExtentIs ==
    ASSUME NEW v \in Windows
    PROVE  \E h \in Nat \ {0} :
              /\ PerPixel(v.zoom) = 2 * h
              /\ Extent(v) \in Coordinates /\ HalfOf(Extent(v)) \in Coordinates
              /\ \A a \in Axes : /\ Extent(v)[a] = v.size[a] * (2 * h) /\ Extent(v)[a] \in Nat
                                 /\ HalfOf(Extent(v))[a] = v.size[a] * h
                                 /\ HalfOf(Extent(v))[a] = Extent(v)[a] \div 2
<1>1. /\ v.zoom \in Zooms /\ v.size \in Coordinates /\ v.size.x \in Nat /\ v.size.y \in Nat  BY WindowIs
<1>2. PICK h \in Nat \ {0} : PerPixel(v.zoom) = 2 * h  BY <1>1, PerPixelIs
<1>3. \A a \in Axes : v.size[a] \in Nat  BY <1>1 DEF Axes
<1>4. Extent(v) \in Coordinates /\ \A a \in Axes : Extent(v)[a] = v.size[a] * (2 * h)
  <2>. DEFINE k == 2 * h
  <2>1. k \in Int /\ PerPixel(v.zoom) = k  BY <1>2
  <2>2. \A a \in Axes : v.size[a] * (2 * h) = v.size[a] * k  OBVIOUS
  <2>. HIDE DEF k
  <2>3. Extent(v) = Scale(v.size, k)  BY <2>1, Zenon DEF Extent
  <2>4. Scale(v.size, k) \in Coordinates /\ \A a \in Axes : Scale(v.size, k)[a] = v.size[a] * k
    BY <1>1, <2>1, ScaleIs
  <2>. QED  BY <2>2, <2>3, <2>4
<1>5. HalfOf(Extent(v)) \in Coordinates /\ \A a \in Axes : HalfOf(Extent(v))[a] = Extent(v)[a] \div 2
  BY <1>4, HalfIs
<1>6. ASSUME NEW a \in Axes
      PROVE  /\ v.size[a] * (2 * h) \in Nat /\ (v.size[a] * (2 * h)) \div 2 = v.size[a] * h
  <2>. DEFINE n == v.size[a] * h
  <2>1. n \in Nat /\ v.size[a] * (2 * h) = 2 * n  BY <1>3
  <2>. HIDE DEF n
  <2>2. (2 * n) \div 2 = n  BY <2>1
  <2>3. (v.size[a] * (2 * h)) \div 2 = n /\ v.size[a] * (2 * h) \in Nat  BY <2>1, <2>2
  <2>. QED  BY <2>3 DEF n
<1>7. \A a \in Axes : /\ Extent(v)[a] \in Nat /\ HalfOf(Extent(v))[a] = v.size[a] * h
  BY <1>4, <1>5, <1>6
<1>. QED  BY <1>2, <1>4, <1>5, <1>7

\* What the position determines, two windows with one position agree on.
LEMMA SameShown ==
    ASSUME NEW v, NEW w, Kept(w, v)
    PROVE  /\ Extent(w) = Extent(v) /\ (HasPresentation(w) <=> HasPresentation(v))
           /\ w.text = v.text => Parse(w) = Parse(v)
           /\ w.position = v.position =>
                /\ \A a \in Axes : Adjustment(w, a) = Adjustment(v, a)
                /\ Display(w) = Display(v) /\ tweakRulers(w) = tweakRulers(v)
<1>1. Extent(w) = Extent(v)  BY Zenon DEF Kept, Extent
<1>2. HasPresentation(w) <=> HasPresentation(v)  BY Zenon DEF Kept, HasPresentation
<1>3. ASSUME w.text = v.text PROVE Parse(w) = Parse(v)  BY <1>1, <1>3, Zenon DEF Kept, Parse
<1>4. ASSUME w.position = v.position
      PROVE  /\ \A a \in Axes : Adjustment(w, a) = Adjustment(v, a)
             /\ Display(w) = Display(v) /\ tweakRulers(w) = tweakRulers(v)
  <2>1. \A a \in Axes : Adjustment(w, a) = Adjustment(v, a)  BY <1>1, <1>4, Zenon DEF Kept, Adjustment
  <2>2. Display(w) = Display(v)  BY <1>1, <1>4, Zenon DEF Kept, Display
  <2>3. tweakedPosition(w) = tweakedPosition(v)  BY <1>4, Zenon DEF Kept, tweakedPosition
  <2>4. tweakRulers(w) = tweakRulers(v)  BY <1>1, <2>3, Zenon DEF Kept, tweakRulers
  <2>. QED  BY <2>1, <2>2, <2>4
<1>. QED  BY <1>1, <1>2, <1>3, <1>4

\* gtk_adjustment_configure(): the nearest value in the range.
LEMMA AdjustmentIs ==
    ASSUME NEW v \in Windows, NEW a \in Axes
    PROVE  /\ Adjustment(v, a) \in Adjustments
           /\ Adjustment(v, a).value \in Adjustment(v, a).lower .. Adjustment(v, a).last
           /\ Adjustment(v, a).lower <= Adjustment(v, a).last
           /\ v.position[a] \in Adjustment(v, a).lower .. Adjustment(v, a).last
                => Adjustment(v, a).value = v.position[a]
<1>1. v.rect[a] \in Sides /\ v.position[a] \in Int  BY WindowIs DEF Axes, Coordinates
<1>2. Extent(v)[a] \in Nat  BY ExtentIs
<1>. DEFINE half  == Extent(v)[a] \div 2
            lower == Fine * v.rect[a].start - half
            last  == Fine * End(v.rect[a]) - half
            p == v.position[a]
<1>3. half \in Int  BY <1>2
<1>4. lower \in Int /\ last \in Int /\ lower <= last
  <2>1. v.rect[a].start \in Int /\ v.rect[a].size \in Nat  BY <1>1 DEF Sides
  <2>. HIDE DEF half
  <2>. QED  BY <1>3, <2>1 DEF Fine, End
<1>5. Adjustment(v, a) = [value |-> Largest(Smallest(p, last), lower), lower |-> lower, last |-> last,
                          page |-> Extent(v)[a]]
  BY DEF Adjustment
<1>. HIDE DEF half, lower, last, p
<1>6. p \in Int /\ p = v.position[a]  BY <1>1 DEF p
<1>7. Largest(Smallest(p, last), lower) \in lower .. last
      /\ (p \in lower .. last => Largest(Smallest(p, last), lower) = p)
  BY <1>4, <1>6 DEF Largest, Smallest
<1>. QED  BY <1>2, <1>4, <1>5, <1>6, <1>7 DEF Adjustments

\* Its range does not depend on the position.
LEMMA SameRange ==
    ASSUME NEW v \in Windows, NEW w, Kept(w, v), NEW a \in Axes
    PROVE  /\ Adjustment(w, a).lower = Adjustment(v, a).lower
           /\ Adjustment(w, a).last = Adjustment(v, a).last
           /\ Adjustment(w, a).page = Adjustment(v, a).page
           /\ w.position[a] = v.position[a] => Adjustment(w, a) = Adjustment(v, a)
<1>1. Extent(w) = Extent(v)  BY SameShown
<1>2. w.rect = v.rect  BY DEF Kept
<1>. QED  BY <1>1, <1>2 DEF Adjustment

\* "{:.0f}" of a whole number is that number.
LEMMA HalfEvenIs ==
    ASSUME NEW n \in Int, NEW d \in Nat \ {0}
    PROVE  /\ HalfEven(n, d) \in Int
           /\ \A k \in Int : n = d * k => HalfEven(n, d) = k
<1>1. n \div d \in Int  BY DivisionIs
<1>2. HalfEven(n, d) \in Int  BY <1>1 DEF HalfEven
<1>3. ASSUME NEW k \in Int, n = d * k PROVE HalfEven(n, d) = k
  <2>1. n % d = 0  BY <1>3, NothingLeft
  <2>2. n \div d = k
    <3>. DEFINE q == n \div d
    <3>1. q \in Int /\ d * q <= n /\ n < d * q + d  BY DivisionIs
    <3>. HIDE DEF q
    <3>2. ~ k + 1 <= q
      <4>. SUFFICES ASSUME k + 1 <= q PROVE FALSE  OBVIOUS
      <4>1. d * (k + 1) <= d * q /\ d * q \in Int  BY <3>1, Larger
      <4>2. d * (k + 1) = n + d  BY <1>3
      <4>. QED  BY <3>1, <4>1, <4>2
    <3>3. ~ q + 1 <= k
      <4>. SUFFICES ASSUME q + 1 <= k PROVE FALSE  OBVIOUS
      <4>1. d * (q + 1) <= d * k /\ d * q \in Int  BY <3>1, Larger
      <4>2. d * (q + 1) = d * q + d  BY <3>1
      <4>. QED  BY <1>3, <3>1, <4>1, <4>2
    <3>4. q = k  BY <3>1, <3>2, <3>3
    <3>. QED  BY <3>4 DEF q
  <2>3. 2 * 0 < d  OBVIOUS
  <2>. QED  BY <2>1, <2>2, <2>3, Zenon DEF HalfEven
<1>. QED  BY <1>2, <1>3

\* A pixel of a presentation.
LEMMA UnitIs ==
    ASSUME NEW v \in Windows, NEW a \in Axes
    PROVE  v.aspect[a] \in Nat \ {0} /\ Fine * v.aspect[a] \in Nat \ {0}
<1>1. v.aspect[a] \in Nat \ {0}  BY WindowIs DEF AspectRatios, Axes
<1>. QED  BY <1>1 DEF Fine

\* What a window displays are numbers.
LEMMA DisplayIs ==
    ASSUME NEW v \in Windows
    PROVE  /\ Display(v) \in [Axes -> Int]
           /\ tweakRulers(v) \in [Axes -> [from : Int, to : Int, by : Nat \ {0}]]
           /\ tweakedPosition(v) \in Coordinates
<1>1. Extent(v) \in Coordinates /\ HalfOf(Extent(v)) \in Coordinates  BY ExtentIs
<1>2. v.position \in Coordinates /\ v.aspect \in Coordinates /\ v.zoom \in Zooms  BY WindowIs
<1>3. Plus(v.position, HalfOf(Extent(v))) \in Coordinates  BY <1>1, <1>2, PointsAre
<1>4. \A a \in Axes : Plus(v.position, HalfOf(Extent(v)))[a] \in Int  BY <1>3 DEF Coordinates, Axes
<1>5. \A a \in Axes : HalfEven(Plus(v.position, HalfOf(Extent(v)))[a], Fine * v.aspect[a]) \in Int
  BY <1>4, UnitIs, HalfEvenIs
<1>6. Display(v) \in [Axes -> Int]  BY <1>5, Zenon DEF Display
<1>7. PICK h \in Nat \ {0} : PerPixel(v.zoom) = 2 * h  BY <1>2, PerPixelIs
<1>. DEFINE s == Scale(v.aspect, PerPixel(v.zoom))
<1>8. s.x \in Nat \ {0} /\ s.y \in Nat \ {0}
  <2>1. 2 * h \in Int  OBVIOUS
  <2>2. \A a \in Axes : s[a] = v.aspect[a] * (2 * h)  BY <1>2, <1>7, <2>1, ScaleIs
  <2>3. \A a \in Axes : v.aspect[a] * (2 * h) \in Nat \ {0}  BY UnitIs
  <2>4. \A a \in Axes : s[a] \in Nat \ {0}  BY <2>2, <2>3
  <2>. QED  BY <2>4 DEF Axes
<1>9. tweakedPosition(v) \in Coordinates
  <2>1. v.position.x \in Int /\ v.position.y \in Int  BY <1>2 DEF Coordinates
  <2>. HIDE DEF s
  <2>2. round_to_multiple_of(v.position.x, s.x) \in Int /\ round_to_multiple_of(v.position.y, s.y) \in Int
    BY <1>8, <2>1, NearestOf
  <2>3. RoundedTo(v.position, s) \in Coordinates  BY <2>2, PointsAre DEF RoundedTo
  <2>. QED  BY <2>3 DEF tweakedPosition, s
<1>10. \A a \in Axes : tweakedPosition(v)[a] \in Int /\ Extent(v)[a] \in Int
  BY <1>1, <1>9 DEF Coordinates, Axes
<1>11. tweakRulers(v) \in [Axes -> [from : Int, to : Int, by : Nat \ {0}]]
  BY <1>10, UnitIs DEF tweakRulers
<1>. QED  BY <1>6, <1>9, <1>11

\* A position that was typed is shown as it was typed.
LEMMA ParseIs ==
    ASSUME NEW v \in Windows, v.text \in [Axes -> Int]
    PROVE  /\ Parse(v) \in Coordinates
           /\ v.position = Parse(v) => Display(v) = v.text
<1>1. Extent(v) \in Coordinates /\ HalfOf(Extent(v)) \in Coordinates  BY ExtentIs
<1>2. v.position \in Coordinates /\ v.aspect \in Coordinates  BY WindowIs
<1>. DEFINE t == Point(v.text["x"], v.text["y"])
            s == Scale(Times(t, v.aspect), Fine)
<1>3. t \in Coordinates /\ \A a \in Axes : t[a] = v.text[a] /\ v.text[a] \in Int
  <2>1. v.text["x"] \in Int /\ v.text["y"] \in Int  BY DEF Axes
  <2>2. t.x = v.text["x"] /\ t.y = v.text["y"] /\ t \in Coordinates  BY <2>1, PointsAre
  <2>3. \A a \in Axes : t[a] = v.text[a]  BY <2>2 DEF Axes, Coordinates
  <2>. QED  BY <2>2, <2>3
<1>. HIDE DEF t
<1>4. Times(t, v.aspect) \in Coordinates  BY <1>2, <1>3, PointsAre, Zenon
<1>5. s \in Coordinates /\ \A a \in Axes : s[a] = (t[a] * v.aspect[a]) * Fine
  <2>1. \A a \in Axes : Times(t, v.aspect)[a] = t[a] * v.aspect[a]  BY <1>2, <1>3, AxisOf, Zenon
  <2>2. Fine \in Int  BY DEF Fine
  <2>3. s \in Coordinates /\ \A a \in Axes : s[a] = Times(t, v.aspect)[a] * Fine
    BY <1>4, <2>2, ScaleIs
  <2>. QED  BY <2>1, <2>3, Zenon
<1>6. Parse(v) = Minus(s, HalfOf(Extent(v)))  BY DEF Parse, t
<1>. HIDE DEF s
<1>7. Parse(v) \in Coordinates  BY <1>1, <1>5, <1>6, PointsAre
<1>8. ASSUME v.position = Parse(v) PROVE Display(v) = v.text
  <2>1. ASSUME NEW a \in Axes
        PROVE  HalfEven(Plus(v.position, HalfOf(Extent(v)))[a], Fine * v.aspect[a]) = v.text[a]
    <3>1. Plus(v.position, HalfOf(Extent(v)))[a] = v.position[a] + HalfOf(Extent(v))[a]
      BY <1>1, <1>2, AxisOf
    <3>2. v.position[a] = s[a] - HalfOf(Extent(v))[a]  BY <1>1, <1>5, <1>6, <1>8, AxisOf
    <3>3. s[a] \in Int /\ HalfOf(Extent(v))[a] \in Int  BY <1>1, <1>5 DEF Coordinates, Axes
    <3>4. Plus(v.position, HalfOf(Extent(v)))[a] = s[a]  BY <3>1, <3>2, <3>3
    <3>5. (t[a] * v.aspect[a]) * Fine = (Fine * v.aspect[a]) * t[a]  BY <1>3, UnitIs DEF Fine
    <3>6. s[a] = (Fine * v.aspect[a]) * v.text[a]  BY <1>3, <1>5, <3>5
    <3>. QED  BY <1>3, <3>3, <3>4, <3>6, UnitIs, HalfEvenIs
  <2>2. Display(v) = [a \in Axes |-> HalfEven(Plus(v.position, HalfOf(Extent(v)))[a], Fine * v.aspect[a])]
    BY DEF Display
  <2>3. v.text = [a \in Axes |-> v.text[a]]  OBVIOUS
  <2>. QED  BY <2>1, <2>2, <2>3
<1>. QED  BY <1>7, <1>8

-----------------------------------------------------------------------------
(* Handlers while the position is frozen: they make scroll bars, texts and *)
(* rulers right, and touch nothing else.  The number of those that are     *)
(* wrong bounds how deep the handlers nest.                                *)

Quiet(w, v) ==
    /\ Kept(w, v) /\ w.position = v.position /\ w.frozen = v.frozen
    /\ \A a \in Axes : w.bar[a] \in {v.bar[a], Adjustment(v, a)}
    /\ w.text \in {v.text, Display(v)}
    /\ w.ruler \in {v.ruler, tweakRulers(v)}

\* Two quiet steps are a quiet one.
LEMMA QuietTwice ==
    ASSUME NEW v, NEW w, NEW u, Quiet(w, v), Quiet(u, w)
    PROVE  Quiet(u, v)
<1>1. Kept(w, v) /\ w.position = v.position  BY DEF Quiet
<1>2. /\ \A a \in Axes : Adjustment(w, a) = Adjustment(v, a)
      /\ Display(w) = Display(v) /\ tweakRulers(w) = tweakRulers(v)
  BY <1>1, SameShown
<1>3. Kept(u, v)  BY KeptTwice DEF Quiet
<1>4. u.position = v.position /\ u.frozen = v.frozen  BY DEF Quiet
<1>5. ASSUME NEW a \in Axes PROVE u.bar[a] \in {v.bar[a], Adjustment(v, a)}
  <2>1. u.bar[a] \in {w.bar[a], Adjustment(w, a)} /\ w.bar[a] \in {v.bar[a], Adjustment(v, a)}  BY DEF Quiet
  <2>. QED  BY <1>2, <2>1
<1>6. u.text \in {v.text, Display(v)} /\ u.ruler \in {v.ruler, tweakRulers(v)}  BY <1>2 DEF Quiet
<1>. QED  BY <1>3, <1>4, <1>5, <1>6 DEF Quiet

\* Nothing is a quiet step.
LEMMA QuietItself ==
    ASSUME NEW v \in Windows
    PROVE  Quiet(v, v)
BY DEF Quiet, Kept

WrongBar(v, a) == v.bar[a].value # Adjustment(v, a).value
WrongText(v, a) == v.text[a] # Display(v)[a]
One(wrong) == IF wrong THEN 1 ELSE 0
Off(v) == One(WrongBar(v, "x")) + One(WrongBar(v, "y")) + One(WrongText(v, "x")) + One(WrongText(v, "y"))

\* At most four things are wrong, and a quiet step makes none wrong.
LEMMA OffIs ==
    ASSUME NEW v, NEW w, \A a \in Axes : (WrongBar(w, a) => WrongBar(v, a)) /\ (WrongText(w, a) => WrongText(v, a))
    PROVE  /\ Off(v) \in 0..4 /\ Off(w) \in 0..4 /\ Off(w) <= Off(v)
           /\ \A a \in Axes : WrongBar(v, a) /\ ~WrongBar(w, a) => Off(w) < Off(v)
           /\ \A a \in Axes : WrongText(v, a) /\ ~WrongText(w, a) => Off(w) < Off(v)
BY DEF Off, One, Axes

Handles(f, n) ==
    \A c \in Calls : c.window.frozen > 0 /\ Off(c.window) < n => Quiet(f[c], c.window)

\* A signal asks for a point, of a window.
LEMMA CallIs ==
    ASSUME NEW v \in Windows, NEW p \in Coordinates, NEW s \in {"SCROLLBAR", "TEXTBOX", "OTHER"}
    PROVE  /\ Call(v, p, s) \in Calls /\ Call(v, p, s).window = v /\ Call(v, p, s).position = p
           /\ Call(v, p, s).source = s
BY DEF Call, Calls

\* A position with one of its coordinates changed.
LEMMA PointWith ==
    ASSUME NEW p \in Coordinates, NEW a \in Axes, NEW n \in Int
    PROVE  /\ [p EXCEPT ![a] = n] \in Coordinates /\ [p EXCEPT ![a] = n][a] = n
           /\ \A b \in Axes : b # a => [p EXCEPT ![a] = n][b] = p[b]
BY DEF Coordinates, Axes

\* updateScrollbar() makes its scroll bar right; the value it reports was the one that was wrong.
LEMMA ScrollbarQuiet ==
    ASSUME NEW n \in Nat, NEW f, Handles(f, n), NEW v \in Windows, v.frozen > 0, Off(v) <= n,
           NEW a \in Axes
    PROVE  /\ Quiet(UpdateScrollbar(f, v, a), v)
           /\ UpdateScrollbar(f, v, a).bar[a] = Adjustment(v, a)
<1>. DEFINE u == [v EXCEPT !.bar[a] = Adjustment(v, a)]
<1>1. Adjustment(v, a) \in Adjustments  BY AdjustmentIs
<1>2. /\ Kept(u, v) /\ u.position = v.position /\ u.frozen = v.frozen /\ u.text = v.text /\ u.ruler = v.ruler
      /\ u.bar = [v.bar EXCEPT ![a] = Adjustment(v, a)]
  BY <1>1, BarSet
<1>3. v.bar \in [Axes -> Adjustments]  BY WindowIs
<1>4. u.bar[a] = Adjustment(v, a) /\ \A b \in Axes : u.bar[b] \in {v.bar[b], Adjustment(v, b)}
  BY <1>2, <1>3
<1>5. UpdateScrollbar(f, v, a)
        = IF u.bar[a].value = v.bar[a].value THEN u ELSE OnScrollbarValueChanged(f, u, a)
  BY DEF UpdateScrollbar
<1>. HIDE DEF u
<1>6. Quiet(u, v)  BY <1>2, <1>4 DEF Quiet
<1>7. u \in Windows  BY <1>2 DEF Kept
<1>8. CASE u.bar[a].value = v.bar[a].value  BY <1>4, <1>5, <1>6, <1>8
<1>9. CASE u.bar[a].value # v.bar[a].value
  <2>. DEFINE p == [u.position EXCEPT ![a] = u.bar[a].value]
              c == Call(u, p, "SCROLLBAR")
  <2>1. u.position \in Coordinates /\ u.bar[a].value \in Int  BY <1>1, <1>4, <1>7, WindowIs DEF Adjustments
  <2>2. p \in Coordinates  BY <2>1, PointWith
  <2>3. c \in Calls /\ c.window = u  BY <1>7, <2>2, CallIs
  <2>4. UpdateScrollbar(f, v, a) = f[c]  BY <1>5, <1>9 DEF OnScrollbarValueChanged
  <2>. HIDE DEF c, p
  <2>5. /\ \A b \in Axes : Adjustment(u, b) = Adjustment(v, b)
        /\ Display(u) = Display(v)
    BY <1>2, SameShown
  <2>6. WrongBar(v, a) /\ ~WrongBar(u, a)  BY <1>4, <1>9, <2>5 DEF WrongBar
  <2>7. \A b \in Axes : (WrongBar(u, b) => WrongBar(v, b)) /\ (WrongText(u, b) => WrongText(v, b))
    BY <1>2, <1>4, <2>5 DEF WrongBar, WrongText
  <2>8. Off(u) < Off(v) /\ Off(u) \in 0..4 /\ Off(v) \in 0..4  BY <2>6, <2>7, OffIs
  <2>9. Off(u) < n /\ u.frozen > 0  BY <1>2, <2>8
  <2>10. Quiet(f[c], u)  BY <2>3, <2>9 DEF Handles
  <2>11. f[c].bar[a] = Adjustment(v, a)  BY <1>4, <2>5, <2>10 DEF Quiet
  <2>. QED  BY <1>6, <2>4, <2>10, <2>11, QuietTwice
<1>. QED  BY <1>8, <1>9

\* Fewer are wrong after it, and what is right stays right.
LEMMA QuietOff ==
    ASSUME NEW v, NEW w, Quiet(w, v)
    PROVE  /\ Off(w) <= Off(v) /\ Off(w) \in 0..4 /\ Off(v) \in 0..4
           /\ w \in Windows /\ w.frozen = v.frozen
           /\ (HasPresentation(w) <=> HasPresentation(v))
           /\ \A a \in Axes : Adjustment(w, a) = Adjustment(v, a)
           /\ Display(w) = Display(v) /\ tweakRulers(w) = tweakRulers(v)
<1>1. Kept(w, v) /\ w.position = v.position /\ w.frozen = v.frozen /\ w \in Windows  BY DEF Quiet, Kept
<1>2. /\ \A a \in Axes : Adjustment(w, a) = Adjustment(v, a)
      /\ Display(w) = Display(v) /\ tweakRulers(w) = tweakRulers(v)
      /\ (HasPresentation(w) <=> HasPresentation(v))
  BY <1>1, SameShown
<1>3. \A a \in Axes : WrongBar(w, a) => WrongBar(v, a)  BY <1>2 DEF WrongBar, Quiet
<1>4. \A a \in Axes : WrongText(w, a) => WrongText(v, a)  BY <1>2 DEF WrongText, Quiet
<1>. QED  BY <1>1, <1>2, <1>3, <1>4, OffIs

\* updateRulers() makes the rulers right.
LEMMA RulersQuiet ==
    ASSUME NEW v \in Windows
    PROVE  Quiet(UpdateRulers(v), v) /\ UpdateRulers(v).ruler = tweakRulers(v) /\ UpdateRulers(v).bar = v.bar
           /\ UpdateRulers(v).text = v.text
<1>. DEFINE u == [v EXCEPT !.ruler = tweakRulers(v)]
<1>1. tweakRulers(v) \in [Axes -> [from : Int, to : Int, by : Nat \ {0}]]  BY DisplayIs
<1>2. /\ Kept(u, v) /\ u.position = v.position /\ u.frozen = v.frozen /\ u.text = v.text /\ u.bar = v.bar
      /\ u.ruler = tweakRulers(v)
  BY <1>1 DEF Windows, Kept
<1>3. UpdateRulers(v) = u  BY DEF UpdateRulers
<1>. HIDE DEF u
<1>. QED  BY <1>2, <1>3 DEF Quiet

\* updateScrollbars() makes both scroll bars and the rulers right.
LEMMA ScrollbarsQuiet ==
    ASSUME NEW n \in Nat, NEW f, Handles(f, n), NEW v \in Windows, v.frozen > 0, Off(v) <= n
    PROVE  /\ Quiet(UpdateScrollbars(f, v), v)
           /\ HasPresentation(v) =>
                /\ \A a \in Axes : UpdateScrollbars(f, v).bar[a] = Adjustment(v, a)
                /\ UpdateScrollbars(f, v).ruler = tweakRulers(v)
<1>1. CASE ~HasPresentation(v)  BY <1>1, QuietItself DEF UpdateScrollbars
<1>2. CASE HasPresentation(v)
  <2>. DEFINE u == UpdateScrollbar(f, v, "x")
              w == UpdateScrollbar(f, u, "y")
              z == UpdateRulers(w)
  <2>0. "x" \in Axes /\ "y" \in Axes  BY DEF Axes
  <2>1. Quiet(u, v) /\ u.bar["x"] = Adjustment(v, "x")  BY <2>0, ScrollbarQuiet
  <2>2. UpdateScrollbars(f, v) = z  BY <1>2 DEF UpdateScrollbars
  <2>. HIDE DEF u
  <2>3. /\ u \in Windows /\ u.frozen > 0 /\ Off(u) <= n
        /\ \A a \in Axes : Adjustment(u, a) = Adjustment(v, a)
        /\ tweakRulers(u) = tweakRulers(v)
    BY <2>1, QuietOff
  <2>4. Quiet(w, u) /\ w.bar["y"] = Adjustment(u, "y")  BY <2>0, <2>3, ScrollbarQuiet
  <2>. HIDE DEF w
  <2>5. w.bar["x"] = Adjustment(v, "x") /\ w.bar["y"] = Adjustment(v, "y")
    BY <2>0, <2>1, <2>3, <2>4 DEF Quiet
  <2>6. w \in Windows /\ tweakRulers(w) = tweakRulers(v)  BY <2>3, <2>4, QuietOff
  <2>7. Quiet(z, w) /\ z.ruler = tweakRulers(w) /\ z.bar = w.bar  BY <2>6, RulersQuiet
  <2>. HIDE DEF z
  <2>8. Quiet(z, v)  BY <2>1, <2>4, <2>7, QuietTwice
  <2>9. \A a \in Axes : z.bar[a] = Adjustment(v, a)  BY <2>5, <2>7 DEF Axes
  <2>. QED  BY <2>2, <2>6, <2>7, <2>8, <2>9
<1>. QED  BY <1>1, <1>2

\* One of the two texts is set before the other.
Partly(w, v) ==
    /\ Kept(w, v) /\ w.position = v.position /\ w.frozen = v.frozen
    /\ \A a \in Axes : w.bar[a] \in {v.bar[a], Adjustment(v, a)}
    /\ \A a \in Axes : w.text[a] \in {v.text[a], Display(v)[a]}
    /\ w.ruler \in {v.ruler, tweakRulers(v)}

\* Setting the text of one axis makes nothing wrong.
LEMMA PartlyOff ==
    ASSUME NEW v, NEW w, Partly(w, v)
    PROVE  /\ Off(w) <= Off(v) /\ Off(w) \in 0..4 /\ Off(v) \in 0..4
           /\ \A a \in Axes : WrongText(v, a) /\ ~WrongText(w, a) => Off(w) < Off(v)
           /\ w \in Windows /\ w.frozen = v.frozen
           /\ (HasPresentation(w) <=> HasPresentation(v))
           /\ \A a \in Axes : Adjustment(w, a) = Adjustment(v, a)
           /\ Display(w) = Display(v) /\ tweakRulers(w) = tweakRulers(v)
<1>1. Kept(w, v) /\ w.position = v.position /\ w.frozen = v.frozen /\ w \in Windows  BY DEF Partly, Kept
<1>2. /\ \A a \in Axes : Adjustment(w, a) = Adjustment(v, a)
      /\ Display(w) = Display(v) /\ tweakRulers(w) = tweakRulers(v)
      /\ (HasPresentation(w) <=> HasPresentation(v))
  BY <1>1, SameShown
<1>3. \A a \in Axes : WrongBar(w, a) => WrongBar(v, a)  BY <1>2 DEF WrongBar, Partly
<1>4. \A a \in Axes : WrongText(w, a) => WrongText(v, a)  BY <1>2 DEF WrongText, Partly
<1>. QED  BY <1>1, <1>2, <1>3, <1>4, OffIs

\* Texts that are set one after the other.
LEMMA PartlyTwice ==
    ASSUME NEW v, NEW w, NEW u, Partly(w, v), Partly(u, w)
    PROVE  Partly(u, v)
<1>1. /\ \A a \in Axes : Adjustment(w, a) = Adjustment(v, a)
      /\ Display(w) = Display(v) /\ tweakRulers(w) = tweakRulers(v)
  BY PartlyOff
<1>2. Kept(u, v)  BY KeptTwice DEF Partly
<1>3. u.position = v.position /\ u.frozen = v.frozen  BY DEF Partly
<1>4. ASSUME NEW a \in Axes
      PROVE  u.bar[a] \in {v.bar[a], Adjustment(v, a)} /\ u.text[a] \in {v.text[a], Display(v)[a]}
  <2>1. u.bar[a] \in {w.bar[a], Adjustment(w, a)} /\ w.bar[a] \in {v.bar[a], Adjustment(v, a)}  BY DEF Partly
  <2>2. u.text[a] \in {w.text[a], Display(w)[a]} /\ w.text[a] \in {v.text[a], Display(v)[a]}  BY DEF Partly
  <2>. QED  BY <1>1, <2>1, <2>2
<1>5. u.ruler \in {v.ruler, tweakRulers(v)}  BY <1>1 DEF Partly
<1>. QED  BY <1>2, <1>3, <1>4, <1>5 DEF Partly

\* A quiet step sets texts of both axes or of none.
LEMMA QuietIsPartly ==
    ASSUME NEW v, NEW w, Quiet(w, v)
    PROVE  Partly(w, v)
BY DEF Quiet, Partly

\* Setting a text makes it right; the handler it calls has one thing less to do.
LEMMA SetTextPartly ==
    ASSUME NEW n \in Nat, NEW f, Handles(f, n), NEW v \in Windows, v.frozen > 0, Off(v) <= n,
           NEW a \in Axes, NEW text, text = Display(v)[a]
    PROVE  Partly(SetText(f, v, a, text), v) /\ SetText(f, v, a, text).text[a] = Display(v)[a]
<1>. DEFINE u == [v EXCEPT !.text[a] = text]
<1>1. Display(v) \in [Axes -> Int] /\ v.text \in [Axes -> Int \cup {Junk}]  BY DisplayIs, WindowIs
<1>2. text \in Int  BY <1>1
<1>3. /\ Kept(u, v) /\ u.position = v.position /\ u.frozen = v.frozen /\ u.bar = v.bar /\ u.ruler = v.ruler
      /\ u.text = [v.text EXCEPT ![a] = text]
  BY <1>2, TextSet
<1>4. u.text[a] = text /\ \A b \in Axes : u.text[b] \in {v.text[b], Display(v)[b]}  BY <1>1, <1>3
<1>5. SetText(f, v, a, text) = IF v.text[a] = text THEN v ELSE OnTextboxValueChanged(f, u)
  BY DEF SetText
<1>. HIDE DEF u
<1>6. Partly(u, v)  BY <1>3, <1>4 DEF Partly
<1>7. CASE v.text[a] = text
  <2>1. Partly(v, v)  BY QuietItself, QuietIsPartly
  <2>. QED  BY <1>5, <1>7, <2>1
<1>8. CASE v.text[a] # text
  <2>1. u \in Windows /\ Display(u) = Display(v)  BY <1>6, PartlyOff
  <2>2. WrongText(v, a) /\ ~WrongText(u, a)  BY <1>4, <1>8, <2>1 DEF WrongText
  <2>3. Off(u) < n /\ u.frozen > 0
    <3>1. Off(u) < Off(v) /\ Off(u) \in 0..4 /\ Off(v) \in 0..4  BY <1>6, <2>2, PartlyOff
    <3>. QED  BY <1>3, <3>1
  <2>4. CASE Junk \in {u.text[b] : b \in Axes}
    BY <1>4, <1>5, <1>6, <1>8, <2>4 DEF OnTextboxValueChanged
  <2>5. CASE Junk \notin {u.text[b] : b \in Axes}
    <3>. DEFINE c == Call(u, Parse(u), "TEXTBOX")
    <3>1. u.text \in [Axes -> Int]
      <4>1. u.text \in [Axes -> Int \cup {Junk}]  BY <2>1, WindowIs
      <4>2. \A b \in Axes : u.text[b] \in Int  BY <2>5, <4>1
      <4>. QED  BY <4>1, <4>2
    <3>2. Parse(u) \in Coordinates  BY <2>1, <3>1, ParseIs
    <3>3. c \in Calls /\ c.window = u  BY <2>1, <3>2, CallIs
    <3>4. SetText(f, v, a, text) = f[c]  BY <1>5, <1>8, <2>5 DEF OnTextboxValueChanged
    <3>. HIDE DEF c
    <3>5. Quiet(f[c], u)  BY <2>3, <3>3 DEF Handles
    <3>6. f[c].text[a] = Display(v)[a]  BY <1>4, <2>1, <3>5 DEF Quiet
    <3>. QED  BY <1>6, <3>4, <3>5, <3>6, QuietIsPartly, PartlyTwice
  <2>. QED  BY <2>4, <2>5
<1>. QED  BY <1>7, <1>8

\* updateTextbox() makes both texts right.
LEMMA TextboxQuiet ==
    ASSUME NEW n \in Nat, NEW f, Handles(f, n), NEW v \in Windows, v.frozen > 0, Off(v) <= n
    PROVE  /\ Quiet(UpdateTextbox(f, v), v)
           /\ HasPresentation(v) => UpdateTextbox(f, v).text = Display(v)
<1>1. CASE ~HasPresentation(v)  BY <1>1, QuietItself DEF UpdateTextbox
<1>2. CASE HasPresentation(v)
  <2>. DEFINE u == SetText(f, v, "x", Display(v)["x"])
              w == SetText(f, u, "y", Display(v)["y"])
  <2>0. "x" \in Axes /\ "y" \in Axes /\ \A a \in Axes : a = "x" \/ a = "y"  BY DEF Axes
  <2>1. Partly(u, v) /\ u.text["x"] = Display(v)["x"]  BY <2>0, SetTextPartly
  <2>2. UpdateTextbox(f, v) = w  BY <1>2 DEF UpdateTextbox
  <2>. HIDE DEF u
  <2>3. u \in Windows /\ u.frozen > 0 /\ Off(u) <= n /\ Display(u) = Display(v)
    BY <2>1, PartlyOff
  <2>4. Partly(w, u) /\ w.text["y"] = Display(v)["y"]  BY <2>0, <2>3, SetTextPartly
  <2>. HIDE DEF w
  <2>5. Partly(w, v) /\ w \in Windows  BY <2>1, <2>4, PartlyTwice, PartlyOff
  <2>6. w.text["x"] = Display(v)["x"]  BY <2>0, <2>1, <2>3, <2>4 DEF Partly
  <2>7. w.text = Display(v)
    <3>1. w.text \in [Axes -> Int \cup {Junk}] /\ Display(v) \in [Axes -> Int]  BY <2>5, WindowIs, DisplayIs
    <3>2. \A a \in Axes : w.text[a] = Display(v)[a]  BY <2>0, <2>4, <2>6
    <3>. QED  BY <3>1, <3>2
  <2>8. Quiet(w, v)  BY <2>5, <2>7 DEF Quiet, Partly
  <2>. QED  BY <2>2, <2>7, <2>8
<1>. QED  BY <1>1, <1>2

\* Everything updateXY() does within the lock.
LEMMA UpdatesQuiet ==
    ASSUME NEW n \in Nat, NEW f, Handles(f, n), NEW v \in Windows, v.frozen > 0, Off(v) <= n, NEW source,
           NEW bars, bars = IF source # "SCROLLBAR" THEN UpdateScrollbars(f, v) ELSE UpdateRulers(v),
           NEW texts, texts = IF source # "TEXTBOX" THEN UpdateTextbox(f, bars) ELSE bars
    PROVE  /\ Quiet(texts, v)
           /\ HasPresentation(v) =>
                /\ source # "SCROLLBAR" => \A a \in Axes : texts.bar[a] = Adjustment(v, a)
                /\ texts.ruler = tweakRulers(v)
                /\ source # "TEXTBOX" => texts.text = Display(v)
<1>1. /\ Quiet(bars, v)
      /\ HasPresentation(v) =>
            /\ source # "SCROLLBAR" => \A a \in Axes : bars.bar[a] = Adjustment(v, a)
            /\ bars.ruler = tweakRulers(v)
  <2>1. CASE source # "SCROLLBAR"  BY <2>1, ScrollbarsQuiet
  <2>2. CASE source = "SCROLLBAR"  BY <2>2, RulersQuiet
  <2>. QED  BY <2>1, <2>2
<1>2. /\ bars \in Windows /\ bars.frozen > 0 /\ Off(bars) <= n /\ (HasPresentation(bars) <=> HasPresentation(v))
      /\ \A a \in Axes : Adjustment(bars, a) = Adjustment(v, a)
      /\ Display(bars) = Display(v) /\ tweakRulers(bars) = tweakRulers(v)
  BY <1>1, QuietOff
<1>3. Quiet(texts, bars) /\ (HasPresentation(v) /\ source # "TEXTBOX" => texts.text = Display(v))
  <2>1. CASE source # "TEXTBOX"  BY <1>2, <2>1, TextboxQuiet
  <2>2. CASE source = "TEXTBOX"  BY <1>2, <2>2, QuietItself
  <2>. QED  BY <2>1, <2>2
<1>4. Quiet(texts, v)  BY <1>1, <1>3, QuietTwice
<1>5. ASSUME HasPresentation(v), source # "SCROLLBAR", NEW a \in Axes PROVE texts.bar[a] = Adjustment(v, a)
  BY <1>1, <1>2, <1>3, <1>5 DEF Quiet
<1>6. ASSUME HasPresentation(v) PROVE texts.ruler = tweakRulers(v)
  BY <1>1, <1>2, <1>3, <1>6 DEF Quiet
<1>. QED  BY <1>3, <1>4, <1>5, <1>6

\* The lock and what is done within it.
LEMMA LockIs ==
    ASSUME NEW v \in Windows
    PROVE  /\ Kept(Frozen(v), v) /\ Frozen(v).position = v.position /\ Frozen(v).frozen = v.frozen + 1
           /\ Frozen(v).bar = v.bar /\ Frozen(v).text = v.text /\ Frozen(v).ruler = v.ruler
           /\ Kept(Unfrozen(v), v) /\ Unfrozen(v).position = v.position /\ Unfrozen(v).frozen = v.frozen - 1
           /\ Unfrozen(v).bar = v.bar /\ Unfrozen(v).text = v.text /\ Unfrozen(v).ruler = v.ruler
<1>1. v.frozen \in Int /\ v.frozen + 1 \in Int /\ v.frozen - 1 \in Int  BY WindowIs
<1>2. Frozen(v) = [v EXCEPT !.frozen = v.frozen + 1] /\ Unfrozen(v) = [v EXCEPT !.frozen = v.frozen - 1]
  BY DEF Frozen, Unfrozen
<1>. QED  BY <1>1, <1>2, FrozenSet

\* Within the lock a window is as wrong as it was.
LEMMA LockedOff ==
    ASSUME NEW v \in Windows
    PROVE  /\ Frozen(v) \in Windows /\ Off(Frozen(v)) <= Off(v) /\ Off(v) \in 0..4 /\ Off(Frozen(v)) \in 0..4
           /\ (HasPresentation(Frozen(v)) <=> HasPresentation(v))
           /\ \A a \in Axes : Adjustment(Frozen(v), a) = Adjustment(v, a)
           /\ Display(Frozen(v)) = Display(v) /\ tweakRulers(Frozen(v)) = tweakRulers(v)
<1>. DEFINE w == Frozen(v)
<1>1. Kept(w, v) /\ w.position = v.position /\ w.bar = v.bar /\ w.text = v.text  BY LockIs
<1>. HIDE DEF w
<1>2. /\ \A a \in Axes : Adjustment(w, a) = Adjustment(v, a)
      /\ Display(w) = Display(v) /\ tweakRulers(w) = tweakRulers(v)
      /\ (HasPresentation(w) <=> HasPresentation(v))
  BY <1>1, SameShown
<1>3. \A a \in Axes : (WrongBar(w, a) => WrongBar(v, a)) /\ (WrongText(w, a) => WrongText(v, a))
  BY <1>1, <1>2 DEF WrongBar, WrongText
<1>4. Off(w) <= Off(v) /\ Off(v) \in 0..4 /\ Off(w) \in 0..4  BY <1>3, OffIs
<1>5. w \in Windows  BY <1>1 DEF Kept
<1>. QED  BY <1>2, <1>4, <1>5 DEF w

\* What was quiet within the lock is quiet without it.
LEMMA Unlocked ==
    ASSUME NEW v \in Windows, NEW w, Quiet(w, Frozen(v))
    PROVE  /\ Quiet(Unfrozen(w), v)
           /\ Unfrozen(w).bar = w.bar /\ Unfrozen(w).text = w.text /\ Unfrozen(w).ruler = w.ruler
<1>1. w \in Windows /\ Kept(w, Frozen(v)) /\ w.position = Frozen(v).position /\ w.frozen = Frozen(v).frozen
  BY DEF Quiet, Kept
<1>2. /\ Kept(Unfrozen(w), w) /\ Unfrozen(w).position = w.position /\ Unfrozen(w).frozen = w.frozen - 1
      /\ Unfrozen(w).bar = w.bar /\ Unfrozen(w).text = w.text /\ Unfrozen(w).ruler = w.ruler
  BY <1>1, LockIs
<1>3. /\ Kept(Frozen(v), v) /\ Frozen(v).position = v.position /\ Frozen(v).frozen = v.frozen + 1
      /\ Frozen(v).bar = v.bar /\ Frozen(v).text = v.text /\ Frozen(v).ruler = v.ruler
  BY LockIs
<1>4. Kept(Unfrozen(w), v)  BY <1>1, <1>2, <1>3, KeptTwice
<1>5. Unfrozen(w).position = v.position /\ Unfrozen(w).frozen = v.frozen
  <2>1. v.frozen \in Int  BY WindowIs
  <2>. QED  BY <1>1, <1>2, <1>3, <2>1
<1>6. /\ \A a \in Axes : w.bar[a] \in {v.bar[a], Adjustment(v, a)}
      /\ w.text \in {v.text, Display(v)} /\ w.ruler \in {v.ruler, tweakRulers(v)}
  BY <1>3, LockedOff DEF Quiet
<1>7. Quiet(Unfrozen(w), v)  BY <1>2, <1>4, <1>5, <1>6 DEF Quiet
<1>. QED  BY <1>2, <1>7

\* updateXY() when the position is where it should be already, and when the lock is taken
\* on a window that is m.
LEMMA UpdateXYIs ==
    ASSUME NEW n \in Nat, NEW f, Handles(f, n), NEW v \in Windows, NEW p, NEW source,
           NEW m, m = Moves(v, p), m \in Windows, m.frozen >= 0, Off(m) <= n, v.position # p,
           NEW w, w = UpdateXY(f, v, p, source)
    PROVE  /\ Quiet(w, m)
           /\ HasPresentation(m) =>
                /\ source # "SCROLLBAR" => \A a \in Axes : w.bar[a] = Adjustment(m, a)
                /\ w.ruler = tweakRulers(m)
                /\ source # "TEXTBOX" => w.text = Display(m)
<1>. DEFINE u == Frozen(m)
            bars == IF source # "SCROLLBAR" THEN UpdateScrollbars(f, u) ELSE UpdateRulers(u)
            texts == IF source # "TEXTBOX" THEN UpdateTextbox(f, bars) ELSE bars
<1>1. w = Unfrozen(texts)  BY DEF UpdateXY
<1>2. u \in Windows /\ u.frozen > 0 /\ Off(u) <= n
  <2>1. m.frozen \in Int /\ u.frozen = m.frozen + 1  BY WindowIs, LockIs
  <2>. QED  BY <2>1, LockedOff
<1>3. /\ Quiet(texts, u)
      /\ HasPresentation(u) =>
            /\ source # "SCROLLBAR" => \A a \in Axes : texts.bar[a] = Adjustment(u, a)
            /\ texts.ruler = tweakRulers(u)
            /\ source # "TEXTBOX" => texts.text = Display(u)
  <2>. HIDE DEF u
  <2>. QED  BY <1>2, UpdatesQuiet
<1>. HIDE DEF texts
<1>4. Quiet(w, m) /\ w.bar = texts.bar /\ w.text = texts.text /\ w.ruler = texts.ruler
  BY <1>1, <1>3, Unlocked
<1>. QED  BY <1>3, <1>4, LockedOff

\* A handler that has n things to put right calls only handlers that have fewer.
LEMMA WithinHandles ==
    ASSUME NEW n \in Nat, NEW f, Handles(f, n)
    PROVE  Handles(Within(f), n + 1)
<1>. SUFFICES ASSUME NEW c \in Calls, c.window.frozen > 0, Off(c.window) < n + 1
              PROVE  Quiet(Within(f)[c], c.window)
  BY DEF Handles
<1>. DEFINE v == c.window
            w == UpdateXY(f, v, c.position, c.source)
<1>1. v \in Windows  BY DEF Calls
<1>2. Within(f)[c] = w  BY DEF Within
<1>3. Moves(v, c.position) = v  BY DEF Moves
<1>4. v.frozen >= 0 /\ v.frozen \in Int  BY <1>1, WindowIs
<1>5. Off(v) <= n  BY <1>1, LockedOff
<1>6. CASE v.position = c.position
  <2>1. w = v  BY <1>6 DEF UpdateXY
  <2>. HIDE DEF w
  <2>. QED  BY <1>1, <1>2, <2>1, QuietItself
<1>7. CASE v.position # c.position
  <2>. HIDE DEF v
  <2>1. Quiet(w, v)  BY <1>1, <1>3, <1>4, <1>5, <1>7, UpdateXYIs
  <2>. QED  BY <1>2, <2>1 DEF v
<1>. QED  BY <1>6, <1>7

Four == Within(Within(Within(Within(TooDeep))))

\* There are four things to put right, so that handlers nest no deeper than the model allows.
LEMMA SignalsHandle ==
    /\ Handles(Four, 4) /\ Handles(Signals, 4)
    /\ \A c \in Calls : Signals[c] = UpdateXY(Four, c.window, c.position, c.source)
<1>1. Handles(TooDeep, 0)
  <2>1. ASSUME NEW c \in Calls PROVE Off(c.window) \in 0..4
    <3>1. c.window \in Windows  BY DEF Calls
    <3>. QED  BY <3>1, LockedOff
  <2>. QED  BY <2>1 DEF Handles
<1>2. 0 + 1 = 1 /\ 1 + 1 = 2 /\ 2 + 1 = 3 /\ 3 + 1 = 4 /\ 4 + 1 = 5  OBVIOUS
<1>3. Handles(Within(TooDeep), 1)  BY <1>1, <1>2, WithinHandles
<1>4. Handles(Within(Within(TooDeep)), 2)  BY <1>2, <1>3, WithinHandles
<1>5. Handles(Within(Within(Within(TooDeep))), 3)  BY <1>2, <1>4, WithinHandles
<1>6. Handles(Four, 4)  BY <1>2, <1>5, WithinHandles DEF Four
<1>7. Handles(Within(Four), 5)  BY <1>2, <1>6, WithinHandles
<1>8. Signals = Within(Four)  BY DEF Signals, Four
<1>9. Handles(Signals, 4)
  <2>. SUFFICES ASSUME NEW c \in Calls, c.window.frozen > 0, Off(c.window) < 4 PROVE Quiet(Signals[c], c.window)
    BY DEF Handles
  <2>1. c.window \in Windows  BY DEF Calls
  <2>2. Off(c.window) < 5  BY <2>1, LockedOff
  <2>. QED  BY <1>7, <1>8, <2>2 DEF Handles
<1>10. \A c \in Calls : Within(Four)[c] = UpdateXY(Four, c.window, c.position, c.source)  BY DEF Within
<1>. QED  BY <1>6, <1>8, <1>9, <1>10

-----------------------------------------------------------------------------
(* Handlers while the position is free: it moves once, and what shows it   *)
(* follows.                                                                *)

\* An assignment to the position while it is free.
LEMMA MoveIs ==
    ASSUME NEW v \in Windows, v.frozen = 0, NEW p \in Coordinates
    PROVE  /\ Kept(Moves(v, p), v) /\ Moves(v, p) \in Windows
           /\ Moves(v, p).position = p /\ Moves(v, p).frozen = 0
           /\ Moves(v, p).bar = v.bar /\ Moves(v, p).text = v.text /\ Moves(v, p).ruler = v.ruler
<1>1. Moves(v, p) = [v EXCEPT !.position = p]  BY DEF Moves
<1>2. /\ Kept(Moves(v, p), v) /\ Moves(v, p).position = p /\ Moves(v, p).frozen = v.frozen
      /\ Moves(v, p).bar = v.bar /\ Moves(v, p).text = v.text /\ Moves(v, p).ruler = v.ruler
  BY <1>1, PositionSet
<1>3. Moves(v, p) \in Windows  BY <1>2 DEF Kept
<1>. QED  BY <1>2, <1>3

\* What has to be right when updateXY() has moved a window to m.
Follows(w, m, source) ==
    /\ Quiet(w, m)
    /\ HasPresentation(m) =>
        /\ source # "SCROLLBAR" => \A a \in Axes : w.bar[a] = Adjustment(m, a)
        /\ w.ruler = tweakRulers(m)
        /\ source # "TEXTBOX" => w.text = Display(m)

\* updateXY() moves a window, and all that shows its position follows.
LEMMA MovesTo ==
    ASSUME NEW f, Handles(f, 4), NEW v \in Windows, v.frozen = 0, NEW p \in Coordinates, v.position # p, NEW source
    PROVE  Follows(UpdateXY(f, v, p, source), Moves(v, p), source)
<1>. DEFINE m == Moves(v, p)
            w == UpdateXY(f, v, p, source)
<1>1. m \in Windows /\ m.frozen = 0 /\ m.frozen >= 0 /\ 4 \in Nat  BY MoveIs
<1>2. Off(m) <= 4  BY <1>1, LockedOff
<1>3. m = Moves(v, p) /\ w = UpdateXY(f, v, p, source)  OBVIOUS
<1>. HIDE DEF m, w
<1>4. Follows(w, m, source)  BY <1>1, <1>2, <1>3, UpdateXYIs DEF Follows
<1>. QED  BY <1>3, <1>4

\* A signal of a scroll bar or a text box.
LEMMA SignalMovesTo ==
    ASSUME NEW v \in Windows, v.frozen = 0, NEW p \in Coordinates,
           NEW source \in {"SCROLLBAR", "TEXTBOX", "OTHER"}
    PROVE  /\ v.position = p => Signals[Call(v, p, source)] = v
           /\ v.position # p => Follows(Signals[Call(v, p, source)], Moves(v, p), source)
<1>1. Signals[Call(v, p, source)] = UpdateXY(Four, v, p, source)  BY CallIs, SignalsHandle
<1>2. v.position = p => UpdateXY(Four, v, p, source) = v  BY DEF UpdateXY
<1>3. v.position # p => Follows(UpdateXY(Four, v, p, source), Moves(v, p), source)
  BY SignalsHandle, MovesTo
<1>. QED  BY <1>1, <1>2, <1>3

BarsRight(v) == \A a \in Axes : v.bar[a] = Adjustment(v, a)
RulersRight(v) == v.ruler = tweakRulers(v)

\* What Follows() says of the window it ends with.
LEMMA FollowsIs ==
    ASSUME NEW m \in Windows, NEW w, NEW source, Follows(w, m, source)
    PROVE  /\ Kept(w, m) /\ w \in Windows /\ w.position = m.position /\ w.frozen = m.frozen
           /\ \A a \in Axes : w.bar[a] \in {m.bar[a], Adjustment(w, a)} /\ Adjustment(w, a) = Adjustment(m, a)
           /\ w.text \in {m.text, Display(w)} /\ Display(w) = Display(m)
           /\ (HasPresentation(w) <=> HasPresentation(m))
           /\ HasPresentation(m) =>
                /\ source # "SCROLLBAR" => BarsRight(w)
                /\ RulersRight(w)
                /\ source # "TEXTBOX" => w.text = Display(w)
<1>1. Quiet(w, m)  BY DEF Follows
<1>2. /\ w \in Windows /\ w.frozen = m.frozen /\ (HasPresentation(w) <=> HasPresentation(m))
      /\ \A a \in Axes : Adjustment(w, a) = Adjustment(m, a)
      /\ Display(w) = Display(m) /\ tweakRulers(w) = tweakRulers(m)
  BY <1>1, QuietOff
<1>3. /\ Kept(w, m) /\ w.position = m.position
      /\ \A a \in Axes : w.bar[a] \in {m.bar[a], Adjustment(m, a)}
      /\ w.text \in {m.text, Display(m)}
  BY <1>1 DEF Quiet
<1>4. \A a \in Axes : w.bar[a] \in {m.bar[a], Adjustment(w, a)}  BY <1>2, <1>3
<1>5. ASSUME HasPresentation(m)
      PROVE  /\ source # "SCROLLBAR" => BarsRight(w)
             /\ RulersRight(w)
             /\ source # "TEXTBOX" => w.text = Display(w)
  BY <1>2, <1>5 DEF Follows, BarsRight, RulersRight
<1>. QED  BY <1>2, <1>3, <1>4, <1>5

\* updateScrollbar(): the position becomes the value of the scroll bar, if that is clamped.
LEMMA ScrollbarFree ==
    ASSUME NEW v \in Windows, v.frozen = 0, NEW a \in Axes, NEW w, w = UpdateScrollbar(Signals, v, a)
    PROVE  /\ Kept(w, v) /\ w.frozen = 0
           /\ w.bar[a] = Adjustment(w, a)
           /\ \A b \in Axes : b # a => w.position[b] = v.position[b] /\ w.bar[b] \in {v.bar[b], Adjustment(v, b)}
<1>. DEFINE u == [v EXCEPT !.bar[a] = Adjustment(v, a)]
<1>1. Adjustment(v, a) \in Adjustments /\ Adjustment(v, a).value \in Int  BY AdjustmentIs DEF Adjustments
<1>2. /\ Kept(u, v) /\ u.position = v.position /\ u.frozen = 0
      /\ u.bar = [v.bar EXCEPT ![a] = Adjustment(v, a)]
  BY <1>1, BarSet
<1>3. v.bar \in [Axes -> Adjustments] /\ v.position \in Coordinates  BY WindowIs
<1>4. u.bar[a] = Adjustment(v, a) /\ \A b \in Axes : b # a => u.bar[b] = v.bar[b]  BY <1>2, <1>3
<1>5. w = IF u.bar[a].value = v.bar[a].value THEN u ELSE OnScrollbarValueChanged(Signals, u, a)
  BY DEF UpdateScrollbar
<1>. HIDE DEF u
<1>6. u \in Windows /\ \A b \in Axes : Adjustment(u, b) = Adjustment(v, b)  BY <1>2, SameShown DEF Kept
<1>7. ASSUME w = u
      PROVE  /\ Kept(w, v) /\ w.frozen = 0 /\ w.bar[a] = Adjustment(w, a)
             /\ \A b \in Axes : b # a => w.position[b] = v.position[b] /\ w.bar[b] \in {v.bar[b], Adjustment(v, b)}
  BY <1>2, <1>4, <1>6, <1>7
<1>8. CASE u.bar[a].value = v.bar[a].value
  <2>1. w = u  BY <1>5, <1>8
  <2>. QED  BY <1>7, <2>1
<1>9. CASE u.bar[a].value # v.bar[a].value
  <2>. DEFINE p == [u.position EXCEPT ![a] = u.bar[a].value]
              m == Moves(u, p)
  <2>1. p \in Coordinates /\ p[a] = Adjustment(v, a).value /\ \A b \in Axes : b # a => p[b] = v.position[b]
    BY <1>1, <1>2, <1>3, <1>4, PointWith
  <2>2. w = Signals[Call(u, p, "SCROLLBAR")]  BY <1>5, <1>9 DEF OnScrollbarValueChanged
  <2>. HIDE DEF p
  <2>3. CASE u.position = p
    <3>1. w = u  BY <1>2, <1>6, <2>1, <2>2, <2>3, SignalMovesTo
    <3>. QED  BY <1>7, <3>1
  <2>4. CASE u.position # p
    <3>1. Follows(w, m, "SCROLLBAR")  BY <1>2, <1>6, <2>1, <2>2, <2>4, SignalMovesTo
    <3>2. Kept(m, u) /\ m \in Windows /\ m.position = p /\ m.frozen = 0 /\ m.bar = u.bar
      BY <1>2, <1>6, <2>1, MoveIs
    <3>. HIDE DEF m
    <3>3. /\ Kept(w, m) /\ w.position = m.position /\ w.frozen = m.frozen /\ w \in Windows
          /\ \A b \in Axes : w.bar[b] \in {m.bar[b], Adjustment(w, b)}
      BY <3>1, <3>2, FollowsIs
    <3>4. Kept(w, v)  BY <1>2, <3>2, <3>3, KeptTwice
    <3>5. w.position[a] = Adjustment(v, a).value  BY <2>1, <3>2, <3>3
    <3>6. Adjustment(w, a) = Adjustment(v, a)
      <4>1. /\ Adjustment(w, a).lower = Adjustment(v, a).lower /\ Adjustment(w, a).last = Adjustment(v, a).last
            /\ Adjustment(w, a).page = Adjustment(v, a).page
        BY <3>4, SameRange
      <4>2. Adjustment(w, a) \in Adjustments /\ Adjustment(w, a).value = Adjustment(v, a).value
        <5>1. Adjustment(v, a).value \in Adjustment(v, a).lower .. Adjustment(v, a).last  BY AdjustmentIs
        <5>2. w.position[a] \in Adjustment(w, a).lower .. Adjustment(w, a).last  BY <3>5, <4>1, <5>1
        <5>. QED  BY <3>3, <3>5, <5>2, AdjustmentIs
      <4>. QED  BY <1>1, <4>1, <4>2 DEF Adjustments
    <3>7. w.bar[a] = Adjustment(w, a)  BY <1>4, <3>2, <3>3, <3>6
    <3>8. ASSUME NEW b \in Axes, b # a
          PROVE  w.position[b] = v.position[b] /\ w.bar[b] \in {v.bar[b], Adjustment(v, b)}
      <4>1. w.position[b] = v.position[b]  BY <2>1, <3>2, <3>3, <3>8
      <4>2. Adjustment(w, b) = Adjustment(v, b)  BY <3>4, <4>1, SameRange
      <4>3. m.bar[b] = v.bar[b]  BY <1>4, <3>2, <3>8
      <4>. QED  BY <3>3, <4>1, <4>2, <4>3
    <3>. QED  BY <3>2, <3>3, <3>4, <3>7, <3>8
  <2>. QED  BY <2>3, <2>4
<1>. QED  BY <1>8, <1>9

\* updateScrollbars() of a window that is not frozen: what its scroll bars say is where it then is.
LEMMA ScrollbarsFree ==
    ASSUME NEW v \in Windows, v.frozen = 0, NEW w, w = UpdateScrollbars(Signals, v)
    PROVE  Kept(w, v) /\ w.frozen = 0 /\ (HasPresentation(v) => BarsRight(w) /\ RulersRight(w))
<1>1. CASE ~HasPresentation(v)
  <2>1. w = v  BY <1>1 DEF UpdateScrollbars
  <2>. QED  BY <1>1, <2>1 DEF Kept
<1>2. CASE HasPresentation(v)
  <2>. DEFINE u == UpdateScrollbar(Signals, v, "x")
              t == UpdateScrollbar(Signals, u, "y")
  <2>0. "x" \in Axes /\ "y" \in Axes /\ "x" # "y" /\ \A a \in Axes : a = "x" \/ a = "y"  BY DEF Axes
  <2>1. w = UpdateRulers(t)  BY <1>2 DEF UpdateScrollbars
  <2>2. Kept(u, v) /\ u.frozen = 0 /\ u.bar["x"] = Adjustment(u, "x")  BY <2>0, ScrollbarFree
  <2>. HIDE DEF u
  <2>3. u \in Windows  BY <2>2 DEF Kept
  <2>4. /\ Kept(t, u) /\ t.frozen = 0 /\ t.bar["y"] = Adjustment(t, "y")
        /\ t.position["x"] = u.position["x"] /\ t.bar["x"] \in {u.bar["x"], Adjustment(u, "x")}
    BY <2>0, <2>2, <2>3, ScrollbarFree
  <2>. HIDE DEF t
  <2>5. t \in Windows  BY <2>4 DEF Kept
  <2>6. Adjustment(t, "x") = Adjustment(u, "x")  BY <2>0, <2>3, <2>4, SameRange
  <2>7. \A a \in Axes : t.bar[a] = Adjustment(t, a)  BY <2>0, <2>2, <2>4, <2>6
  <2>8. Quiet(w, t) /\ w.ruler = tweakRulers(t) /\ w.bar = t.bar  BY <2>1, <2>5, RulersQuiet
  <2>9. /\ \A a \in Axes : Adjustment(w, a) = Adjustment(t, a)
        /\ tweakRulers(w) = tweakRulers(t) /\ w.frozen = 0
    BY <2>4, <2>8, QuietOff
  <2>10. Kept(w, v)  BY <2>2, <2>4, <2>8, KeptTwice DEF Quiet
  <2>. QED  BY <2>7, <2>8, <2>9, <2>10 DEF BarsRight, RulersRight
<1>. QED  BY <1>1, <1>2

\* A text that the user or the view itself changed.
LEMMA TextboxChanged ==
    ASSUME NEW v \in Windows, v.frozen = 0, NEW w, w = OnTextboxValueChanged(Signals, v)
    PROVE  /\ Kept(w, v) /\ w.frozen = 0 /\ w.text = v.text
           /\ HasPresentation(v) /\ BarsRight(v) /\ RulersRight(v) => BarsRight(w) /\ RulersRight(w)
           /\ IF Junk \in {v.text[a] : a \in Axes} THEN w = v
              ELSE w.text \in [Axes -> Int] /\ w.position = Parse(w)
<1>1. CASE Junk \in {v.text[a] : a \in Axes}
  <2>1. w = v  BY <1>1 DEF OnTextboxValueChanged
  <2>. QED  BY <1>1, <2>1 DEF Kept
<1>2. CASE Junk \notin {v.text[a] : a \in Axes}
  <2>. DEFINE p == Parse(v)
              m == Moves(v, p)
  <2>1. v.text \in [Axes -> Int]
    <3>1. v.text \in [Axes -> Int \cup {Junk}]  BY WindowIs
    <3>2. \A b \in Axes : v.text[b] \in Int  BY <1>2, <3>1
    <3>. QED  BY <3>1, <3>2
  <2>2. p \in Coordinates  BY <2>1, ParseIs
  <2>3. w = Signals[Call(v, p, "TEXTBOX")]  BY <1>2 DEF OnTextboxValueChanged
  <2>4. CASE v.position = p
    <3>1. w = v  BY <2>2, <2>3, <2>4, SignalMovesTo
    <3>. QED  BY <1>2, <2>1, <2>4, <3>1 DEF Kept
  <2>5. CASE v.position # p
    <3>1. Follows(w, m, "TEXTBOX")  BY <2>2, <2>3, <2>5, SignalMovesTo
    <3>2. /\ Kept(m, v) /\ m \in Windows /\ m.position = p /\ m.frozen = 0 /\ m.text = v.text
      BY <2>2, MoveIs
    <3>. HIDE DEF m
    <3>3. Parse(m) = Parse(v)  BY <3>2, SameShown
    <3>4. Display(m) = m.text  BY <2>1, <3>2, <3>3, ParseIs
    <3>5. /\ Kept(w, m) /\ w.position = m.position /\ w.frozen = m.frozen
          /\ w.text \in {m.text, Display(w)} /\ Display(w) = Display(m)
          /\ HasPresentation(m) => BarsRight(w) /\ RulersRight(w)
      BY <3>1, <3>2, FollowsIs
    <3>6. w.text = v.text  BY <3>2, <3>4, <3>5
    <3>7. Kept(w, v)  BY <3>2, <3>5, KeptTwice
    <3>8. Parse(w) = Parse(v)  BY <3>6, <3>7, SameShown
    <3>9. HasPresentation(m) <=> HasPresentation(v)  BY <3>2, SameShown
    <3>. QED  BY <1>2, <2>1, <3>2, <3>5, <3>6, <3>7, <3>8, <3>9
  <2>. QED  BY <2>4, <2>5
<1>. QED  BY <1>1, <1>2

\* updateTextbox(): the position becomes what the texts say, if one of them changes.
LEMMA TextboxFree ==
    ASSUME NEW v \in Windows, v.frozen = 0, NEW w, w = UpdateTextbox(Signals, v),
           HasPresentation(v) => BarsRight(v) /\ RulersRight(v)
    PROVE  /\ Kept(w, v) /\ w.frozen = 0
           /\ HasPresentation(v) => BarsRight(w) /\ RulersRight(w) /\ w.text = Display(w)
<1>1. CASE ~HasPresentation(v)
  <2>1. w = v  BY <1>1 DEF UpdateTextbox
  <2>. QED  BY <1>1, <2>1 DEF Kept
<1>2. CASE HasPresentation(v)
  <2>0. "x" \in Axes /\ "y" \in Axes /\ "x" # "y" /\ \A a \in Axes : a = "x" \/ a = "y"  BY DEF Axes
  <2>1. ASSUME NEW t \in Windows, t.frozen = 0, HasPresentation(t), BarsRight(t), RulersRight(t),
               NEW a \in Axes, NEW text \in Int, NEW r, r = SetText(Signals, t, a, text)
        PROVE  /\ Kept(r, t) /\ r.frozen = 0 /\ BarsRight(r) /\ RulersRight(r)
               /\ r.text = [t.text EXCEPT ![a] = text]
               /\ r = t \/ Junk \in {r.text[b] : b \in Axes} \/ r.position = Parse(r)
    <3>1. t.text \in [Axes -> Int \cup {Junk}]  BY <2>1, WindowIs
    <3>2. CASE t.text[a] = text
      <4>1. r = t  BY <2>1, <3>2 DEF SetText
      <4>. QED  BY <2>1, <3>1, <3>2, <4>1 DEF Kept
    <3>3. CASE t.text[a] # text
      <4>. DEFINE u == [t EXCEPT !.text[a] = text]
      <4>1. r = OnTextboxValueChanged(Signals, u)  BY <2>1, <3>3 DEF SetText
      <4>2. /\ Kept(u, t) /\ u.position = t.position /\ u.frozen = 0 /\ u.bar = t.bar /\ u.ruler = t.ruler
            /\ u.text = [t.text EXCEPT ![a] = text]
        BY <2>1, TextSet
      <4>. HIDE DEF u
      <4>3. u \in Windows  BY <4>2 DEF Kept
      <4>4. HasPresentation(u) /\ BarsRight(u) /\ RulersRight(u)
        BY <2>1, <4>2, SameShown DEF BarsRight, RulersRight
      <4>5. /\ Kept(r, u) /\ r.frozen = 0 /\ r.text = u.text /\ BarsRight(r) /\ RulersRight(r)
            /\ IF Junk \in {u.text[b] : b \in Axes} THEN r = u
               ELSE r.text \in [Axes -> Int] /\ r.position = Parse(r)
        BY <4>1, <4>2, <4>3, <4>4, TextboxChanged
      <4>6. Kept(r, t)  BY <4>2, <4>5, KeptTwice
      <4>. QED  BY <4>2, <4>5, <4>6
    <3>. QED  BY <3>2, <3>3
  <2>. DEFINE d == Display(v)
              u == SetText(Signals, v, "x", d["x"])
  <2>2. w = SetText(Signals, u, "y", d["y"])  BY <1>2 DEF UpdateTextbox
  <2>3. d \in [Axes -> Int] /\ d["x"] \in Int /\ d["y"] \in Int  BY <2>0, DisplayIs
  <2>4. /\ Kept(u, v) /\ u.frozen = 0 /\ BarsRight(u) /\ RulersRight(u)
        /\ u.text = [v.text EXCEPT !["x"] = d["x"]]
        /\ u = v \/ Junk \in {u.text[b] : b \in Axes} \/ u.position = Parse(u)
    BY <1>2, <2>0, <2>1, <2>3
  <2>. HIDE DEF u, d
  <2>5. u \in Windows /\ HasPresentation(u)  BY <1>2, <2>4, SameShown DEF Kept
  <2>6. /\ Kept(w, u) /\ w.frozen = 0 /\ BarsRight(w) /\ RulersRight(w)
        /\ w.text = [u.text EXCEPT !["y"] = d["y"]]
        /\ w = u \/ Junk \in {w.text[b] : b \in Axes} \/ w.position = Parse(w)
    <3>1. /\ u \in Windows /\ u.frozen = 0 /\ HasPresentation(u) /\ BarsRight(u) /\ RulersRight(u)
          /\ "y" \in Axes /\ d["y"] \in Int
      BY <2>0, <2>3, <2>4, <2>5
    <3>. QED  BY ONLY <2>1, <2>2, <3>1
  <2>7. w \in Windows /\ Kept(w, v)  BY <2>4, <2>6, KeptTwice DEF Kept
  <2>8. w.text = d
    <3>1. v.text \in [Axes -> Int \cup {Junk}] /\ u.text \in [Axes -> Int \cup {Junk}]  BY <2>5, WindowIs
    <3>2. u.text["x"] = d["x"]  BY <2>0, <2>4, <3>1
    <3>3. w.text["x"] = d["x"] /\ w.text["y"] = d["y"]  BY <2>0, <2>6, <3>1, <3>2
    <3>4. w.text \in [Axes -> Int \cup {Junk}]  BY <2>7, WindowIs
    <3>. QED  BY <2>0, <2>3, <3>3, <3>4
  <2>9. Junk \notin {w.text[b] : b \in Axes}  BY <2>3, <2>8, TypedAssumption
  <2>10. CASE w.position = Parse(w)  BY <2>3, <2>6, <2>7, <2>8, <2>10, ParseIs
  <2>11. CASE w = v
    <3>1. w.text = Display(w)  BY <2>8, <2>11 DEF d
    <3>. QED  BY <2>6, <2>7, <3>1
  <2>12. w.position = Parse(w) \/ w = v  BY <2>4, <2>6, <2>9
  <2>. QED  BY <2>10, <2>11, <2>12
<1>. QED  BY <1>1, <1>2

-----------------------------------------------------------------------------
(* All handlers of one event, while the position is frozen.                *)

\* updateScrollbars() of a frozen window.
LEMMA LockedBars ==
    ASSUME NEW u \in Windows, u.frozen = 1, NEW w, w = Unfrozen(UpdateScrollbars(Signals, u))
    PROVE  /\ Kept(w, u) /\ w.position = u.position /\ w.frozen = 0 /\ w.text \in {u.text, Display(w)}
           /\ Display(w) = Display(u)
           /\ HasPresentation(u) => BarsRight(w) /\ RulersRight(w)
<1>. DEFINE b == UpdateScrollbars(Signals, u)
<1>1. u.frozen > 0 /\ Off(u) <= 4 /\ 4 \in Nat  BY LockedOff
<1>2. /\ Quiet(b, u)
      /\ HasPresentation(u) => (\A a \in Axes : b.bar[a] = Adjustment(u, a)) /\ b.ruler = tweakRulers(u)
  BY <1>1, SignalsHandle, ScrollbarsQuiet
<1>. HIDE DEF b
<1>3. b \in Windows /\ Kept(b, u) /\ b.position = u.position /\ b.frozen = 1 /\ b.text \in {u.text, Display(u)}
  BY <1>2 DEF Quiet, Kept
<1>4. w = Unfrozen(b)  BY DEF b
<1>5. /\ Kept(w, b) /\ w.position = b.position /\ w.frozen = 0
      /\ w.bar = b.bar /\ w.text = b.text /\ w.ruler = b.ruler
  BY <1>3, <1>4, LockIs
<1>6. Kept(w, u) /\ w.position = u.position  BY <1>3, <1>5, KeptTwice
<1>7. /\ \A a \in Axes : Adjustment(w, a) = Adjustment(u, a)
      /\ Display(w) = Display(u) /\ tweakRulers(w) = tweakRulers(u)
  BY <1>6, SameShown
<1>8. HasPresentation(u) => BarsRight(w) /\ RulersRight(w)  BY <1>2, <1>5, <1>7 DEF BarsRight, RulersRight
<1>. QED  BY <1>3, <1>5, <1>6, <1>7, <1>8

\* updateScrollbars() and updateTextbox() of a frozen window.
LEMMA LockedAll ==
    ASSUME NEW u \in Windows, u.frozen = 1,
           NEW w, w = Unfrozen(UpdateTextbox(Signals, UpdateScrollbars(Signals, u)))
    PROVE  /\ Kept(w, u) /\ w.position = u.position /\ w.frozen = 0
           /\ HasPresentation(u) => BarsRight(w) /\ RulersRight(w) /\ w.text = Display(w)
<1>. DEFINE b == UpdateScrollbars(Signals, u)
            t == UpdateTextbox(Signals, b)
<1>1. u.frozen > 0 /\ Off(u) <= 4 /\ 4 \in Nat  BY LockedOff
<1>2. /\ Quiet(b, u)
      /\ HasPresentation(u) => (\A a \in Axes : b.bar[a] = Adjustment(u, a)) /\ b.ruler = tweakRulers(u)
  BY <1>1, SignalsHandle, ScrollbarsQuiet
<1>. HIDE DEF b
<1>3. /\ b \in Windows /\ b.frozen = 1 /\ Off(b) <= 4
      /\ \A a \in Axes : Adjustment(b, a) = Adjustment(u, a)
      /\ Display(b) = Display(u) /\ tweakRulers(b) = tweakRulers(u)
      /\ (HasPresentation(b) <=> HasPresentation(u))
  BY <1>2, QuietOff
<1>4. b.frozen > 0  BY <1>3
<1>5. Quiet(t, b) /\ (HasPresentation(b) => t.text = Display(b))  BY <1>1, <1>3, <1>4, SignalsHandle, TextboxQuiet
<1>. HIDE DEF t
<1>6. Quiet(t, u)  BY <1>2, <1>5, QuietTwice
<1>7. HasPresentation(u) =>
        /\ \A a \in Axes : t.bar[a] = Adjustment(u, a)
        /\ t.ruler = tweakRulers(u) /\ t.text = Display(u)
  BY <1>2, <1>3, <1>5 DEF Quiet
<1>8. t \in Windows /\ Kept(t, u) /\ t.position = u.position /\ t.frozen = 1  BY <1>6 DEF Quiet, Kept
<1>9. w = Unfrozen(t)  BY DEF b, t
<1>10. /\ Kept(w, t) /\ w.position = t.position /\ w.frozen = 0
       /\ w.bar = t.bar /\ w.text = t.text /\ w.ruler = t.ruler
  BY <1>8, <1>9, LockIs
<1>11. Kept(w, u) /\ w.position = u.position  BY <1>8, <1>10, KeptTwice
<1>12. /\ \A a \in Axes : Adjustment(w, a) = Adjustment(u, a)
       /\ Display(w) = Display(u) /\ tweakRulers(w) = tweakRulers(u)
  BY <1>11, SameShown
<1>13. HasPresentation(u) => BarsRight(w) /\ RulersRight(w) /\ w.text = Display(w)
  BY <1>7, <1>10, <1>12 DEF BarsRight, RulersRight
<1>. QED  BY <1>10, <1>11, <1>13

-----------------------------------------------------------------------------
(* Zoom levels.                                                            *)

\* A property of numbers that has an example has a first one.
LEMMA FirstOne ==
    ASSUME NEW T \in SUBSET Nat, NEW last \in T
    PROVE  \E m \in T : m <= last /\ \A k \in 0..m - 1 : k \notin T
<1>. DEFINE good == [n \in Nat |-> n \in T]
            value == [n \in Nat |-> n]
<1>1. PICK f : SearchOf(f, good, value)  BY SearchExists
<1>2. last \in Nat /\ good[last]  OBVIOUS
<1>3. PICK m \in Nat : good[m] /\ \A k \in 0..m - 1 : ~good[k]
  <2>. HIDE DEF good, value
  <2>. QED  BY <1>1, <1>2, SearchFinds
<1>4. m \in T /\ \A k \in 0..m - 1 : k \notin T  BY <1>3
<1>5. m <= last  BY <1>2, <1>4
<1>. QED  BY <1>4, <1>5

\* updateZoom() halves the presentation until it fits.
LEMMA MinZoomIs ==
    ASSUME NEW v \in Windows
    PROVE  MinZoom(v) \in 0..31
<1>. DEFINE Fits(n) == \A a \in Axes : v.rect[a].size \div 2^n <= v.size[a] \div 2
            T == {n \in Nat : Fits(n)}
<1>1. \A a \in Axes : v.rect[a].size \in 0..MaxInt /\ v.size[a] \in Nat
  BY WindowIs DEF Sides, Axes
<1>2. 31 \in T
  <2>1. 2^31 = MaxInt + 1 /\ MaxInt + 1 \in Nat \ {0} /\ MaxInt \in Nat  BY SMT DEF MaxInt
  <2>2. ASSUME NEW a \in Axes PROVE v.rect[a].size \div 2^31 <= v.size[a] \div 2
    <3>. DEFINE n == v.rect[a].size
                d == MaxInt + 1
    <3>1. n \in Nat /\ n < d /\ d \in Nat \ {0}  BY <1>1, <2>1
    <3>. HIDE DEF n, d
    <3>2. n \div d = 0
      <4>. DEFINE q == n \div d
      <4>1. q \in Int /\ d * q <= n /\ n < d * q + d  BY <3>1, DivisionIs
      <4>. HIDE DEF q
      <4>2. q >= 0
        <5>. SUFFICES ASSUME q <= -1 PROVE FALSE  BY <4>1
        <5>1. d * q <= d * (-1)  BY <3>1, <4>1, Larger
        <5>. QED  BY <3>1, <4>1, <5>1
      <4>3. q <= 0
        <5>. SUFFICES ASSUME 1 <= q PROVE FALSE  BY <4>1
        <5>1. d * 1 <= d * q  BY <3>1, <4>1, Larger
        <5>. QED  BY <3>1, <4>1, <5>1
      <4>4. q = 0  BY <4>1, <4>2, <4>3
      <4>. QED  BY <4>4 DEF q
    <3>3. v.size[a] \div 2 >= 0  BY <1>1
    <3>4. v.rect[a].size \div 2^31 = n \div d  BY <2>1 DEF n, d
    <3>. QED  BY <3>2, <3>3, <3>4
  <2>. QED  BY <2>2
<1>3. T \in SUBSET Nat  OBVIOUS
<1>4. PICK m \in T : m <= 31 /\ \A k \in 0..m - 1 : k \notin T
  <2>. HIDE DEF T
  <2>. QED  BY <1>2, <1>3, FirstOne
<1>5. m \in 0..31 /\ Fits(m)  BY <1>4
<1>6. \A k \in 0..m - 1 : ~Fits(k)  BY <1>4, <1>5
<1>7. \A k \in 0..m - 1 : \E a \in Axes : v.rect[a].size \div 2^k > v.size[a] \div 2
  <2>. SUFFICES ASSUME NEW k \in 0..m - 1 PROVE \E a \in Axes : v.rect[a].size \div 2^k > v.size[a] \div 2
    OBVIOUS
  <2>1. PICK a \in Axes : ~(v.rect[a].size \div 2^k <= v.size[a] \div 2)  BY <1>6
  <2>2. k \in 0..36
    <3>1. m \in 0..31  BY <1>5
    <3>. HIDE DEF Fits, T
    <3>. QED  BY <3>1
  <2>3. 2^k \in Nat \ {0}
    <3>. HIDE DEF Fits, T
    <3>1. 2^k \in Nat /\ 2^k > 0  BY <2>2, PowersOfTwo
    <3>. QED  BY <3>1
  <2>4. v.rect[a].size \in Int  BY <1>1
  <2>. DEFINE d == 2^k
  <2>5. d \in Nat \ {0}  BY <2>3
  <2>. HIDE DEF d
  <2>6. v.rect[a].size \div d \in Int  BY <2>4, <2>5, DivisionIs
  <2>7. v.rect[a].size \div 2^k \in Int  BY <2>6 DEF d
  <2>8. v.size[a] \div 2 \in Int  BY <1>1
  <2>. QED  BY <2>1, <2>7, <2>8
<1>. HIDE DEF Fits
<1>8. MinZoom(v) = CHOOSE n \in 0..31 : /\ Fits(n)
                                        /\ \A k \in 0..(n - 1) : \E a \in Axes : v.rect[a].size \div 2^k > v.size[a] \div 2
  BY DEF MinZoom, Fits
<1>. QED  BY <1>5, <1>7, <1>8

\* What the events that are not about the position do not change.
Carried(w, v) ==
    /\ w \in Windows
    /\ w.shown = v.shown /\ w.rect = v.rect /\ w.aspect = v.aspect
    /\ w.dragged = v.dragged /\ w.cached = v.cached
    /\ w.selecting = v.selecting /\ w.selection = v.selection
    /\ w.pixels = v.pixels /\ w.grid = v.grid
    /\ w.bar = v.bar /\ w.text = v.text /\ w.ruler = v.ruler
    /\ w.position = v.position /\ w.frozen = v.frozen

\* The zoom box is filled.
LEMMA ZoomsSet ==
    ASSUME NEW v \in Windows, NEW z \in SUBSET Zooms
    PROVE  LET w == [v EXCEPT !.zooms = z] IN
           Carried(w, v) /\ w.zooms = z /\ w.zoom = v.zoom /\ w.size = v.size
BY DEF Windows, Carried

\* Another zoom level, and all else as it was.
LEMMA ZoomSet ==
    ASSUME NEW v \in Windows, NEW z \in Zooms
    PROVE  LET w == [v EXCEPT !.zoom = z] IN
           Carried(w, v) /\ w.zoom = z /\ w.zooms = v.zooms /\ w.size = v.size
BY DEF Windows, Carried

\* Another size, and all else as it was.
LEMMA SizeSet ==
    ASSUME NEW v \in Windows, NEW s \in [x : Nat, y : Nat]
    PROVE  LET w == [v EXCEPT !.size = s] IN
           Carried(w, v) /\ w.size = s /\ w.zoom = v.zoom /\ w.zooms = v.zooms
BY DEF Windows, Carried

\* updateZoom() offers zoom levels that exist, the one of the window among them.
LEMMA UpdateZoomIs ==
    ASSUME NEW v \in Windows, NEW w, w = UpdateZoom(v)
    PROVE  /\ Carried(w, v) /\ w.zoom = v.zoom /\ w.size = v.size
           /\ HasPresentation(v) => v.zoom \in w.zooms
<1>. DEFINE n == Smallest(Largest(MaxZoom + MinZoom(v), 1 + MaxZoom - v.zoom), Factors)
            Z == IF HasPresentation(v) THEN {MaxZoom - z : z \in 0..n - 1} ELSE {MaxZoom}
<1>1. MinZoom(v) \in 0..31 /\ v.zoom \in -30..5
  BY MinZoomIs, WindowIs DEF Zooms, MaxZoom, Factors
<1>2. n \in 1..36 /\ 5 - v.zoom \in 0..n - 1  BY <1>1 DEF Smallest, Largest, MaxZoom, Factors
<1>3. w = [v EXCEPT !.zooms = Z]  BY DEF UpdateZoom
<1>. HIDE DEF n
<1>4. {MaxZoom - z : z \in 0..n - 1} \in SUBSET Zooms
  <2>. SUFFICES ASSUME NEW z \in 0..n - 1 PROVE MaxZoom - z \in Zooms  OBVIOUS
  <2>. QED  BY <1>2 DEF Zooms, MaxZoom, Factors
<1>5. {MaxZoom} \in SUBSET Zooms  BY DEF Zooms, MaxZoom, Factors
<1>6. HasPresentation(v) => v.zoom \in Z
  <2>1. v.zoom = MaxZoom - (5 - v.zoom)  BY <1>1 DEF MaxZoom
  <2>. QED  BY <1>2, <2>1
<1>7. Z \in SUBSET Zooms  BY <1>4, <1>5
<1>. HIDE DEF Z
<1>8. Carried(w, v) /\ w.zooms = Z /\ w.zoom = v.zoom /\ w.size = v.size  BY <1>3, <1>7, ZoomsSet
<1>. QED  BY <1>6, <1>8

-----------------------------------------------------------------------------
(* Selections.                                                             *)

\* A segment from one number to another, whichever is first.
LEMMA SegmentIs ==
    ASSUME NEW p \in Int, NEW q \in Int
    PROVE  /\ FromTo(p, q).start = Smallest(p, q) /\ End(FromTo(p, q)) = Largest(p, q)
           /\ FromTo(p, q).size = Largest(p, q) - Smallest(p, q)
BY DEF FromTo, Segment, End, Smallest, Largest

\* TweakSelection: the end of a selection that was where it started.
EndsOf(seg, p, s) ==
    IF ~(2 * seg.start + seg.size < 2 * p) THEN <<s.start, End(s)>> ELSE <<End(s), s.start>>

\* The first of the two is the end where the selection started.
LEMMA EndsAre ==
    ASSUME NEW p \in Int, NEW q \in Int, NEW lo \in Int, NEW hi \in Int, lo <= hi
    PROVE  /\ p <= q => EndsOf(FromTo(p, q), p, FromTo(lo, hi)) = <<lo, hi>>
           /\ ~(p <= q) => EndsOf(FromTo(p, q), p, FromTo(lo, hi)) = <<hi, lo>>
<1>. DEFINE seg == FromTo(p, q)
            s == FromTo(lo, hi)
<1>1. s.start = lo /\ End(s) = hi
  <2>1. s.start = Smallest(lo, hi) /\ End(s) = Largest(lo, hi)  BY SegmentIs
  <2>2. Smallest(lo, hi) = lo /\ Largest(lo, hi) = hi  BY DEF Smallest, Largest
  <2>. QED  BY <2>1, <2>2
<1>2. seg.start = Smallest(p, q) /\ seg.size = Largest(p, q) - Smallest(p, q)  BY SegmentIs
<1>. HIDE DEF s, seg
<1>3. 2 * seg.start + seg.size < 2 * p <=> ~(p <= q)  BY <1>2 DEF Smallest, Largest
<1>4. /\ p <= q => EndsOf(seg, p, s) = <<lo, hi>>
      /\ ~(p <= q) => EndsOf(seg, p, s) = <<hi, lo>>
  BY <1>1, <1>3 DEF EndsOf
<1>. QED  BY <1>4 DEF s, seg

\* A selection that becomes a rectangle keeps the direction it was made in.
LEMMA TweakedIs ==
    ASSUME NEW s \in Selections, NEW lo \in Coordinates, NEW hi \in Coordinates,
           \A a \in Axes : lo[a] <= hi[a],
           NEW t, t = Tweaked(s, Corners(lo, hi))
    PROVE  /\ t \in Selections
           /\ \A a \in Axes : /\ t.start[a] = IF s.start[a] <= s.end[a] THEN lo[a] ELSE hi[a]
                              /\ t.end[a] = IF s.start[a] <= s.end[a] THEN hi[a] ELSE lo[a]
<1>1. /\ s.start \in Coordinates /\ s.end \in Coordinates
      /\ s.start.x \in Int /\ s.start.y \in Int /\ s.end.x \in Int /\ s.end.y \in Int
      /\ lo.x \in Int /\ lo.y \in Int /\ hi.x \in Int /\ hi.y \in Int
      /\ lo.x <= hi.x /\ lo.y <= hi.y
  BY DEF Selections, Coordinates, Axes
<1>. DEFINE h == EndsOf(FromTo(s.start.x, s.end.x), s.start.x, FromTo(lo.x, hi.x))
            w == EndsOf(FromTo(s.start.y, s.end.y), s.start.y, FromTo(lo.y, hi.y))
<1>2. t = [start |-> Point(h[1], w[1]), end |-> Point(h[2], w[2])]
  BY Zenon DEF Tweaked, EndsOf, Corners, Rectangle
<1>3. /\ s.start.x <= s.end.x => h = <<lo.x, hi.x>>
      /\ ~(s.start.x <= s.end.x) => h = <<hi.x, lo.x>>
  <2>. DEFINE p == s.start.x
              q == s.end.x
              l == lo.x
              r == hi.x
  <2>1. p \in Int /\ q \in Int /\ l \in Int /\ r \in Int /\ l <= r  BY <1>1
  <2>2. h = EndsOf(FromTo(p, q), p, FromTo(l, r))  OBVIOUS
  <2>. HIDE DEF h, p, q, l, r
  <2>3. (p <= q => h = <<l, r>>) /\ (~(p <= q) => h = <<r, l>>)  BY <2>1, <2>2, EndsAre
  <2>. QED  BY <2>3 DEF p, q, l, r
<1>3b. /\ s.start.y <= s.end.y => w = <<lo.y, hi.y>>
       /\ ~(s.start.y <= s.end.y) => w = <<hi.y, lo.y>>
  <2>. DEFINE p == s.start.y
              q == s.end.y
              l == lo.y
              r == hi.y
  <2>1. p \in Int /\ q \in Int /\ l \in Int /\ r \in Int /\ l <= r  BY <1>1
  <2>2. w = EndsOf(FromTo(p, q), p, FromTo(l, r))  OBVIOUS
  <2>. HIDE DEF w, p, q, l, r
  <2>3. (p <= q => w = <<l, r>>) /\ (~(p <= q) => w = <<r, l>>)  BY <2>1, <2>2, EndsAre
  <2>. QED  BY <2>3 DEF p, q, l, r
<1>. HIDE DEF h, w
<1>4. /\ h[1] = IF s.start.x <= s.end.x THEN lo.x ELSE hi.x
      /\ h[2] = IF s.start.x <= s.end.x THEN hi.x ELSE lo.x
      /\ w[1] = IF s.start.y <= s.end.y THEN lo.y ELSE hi.y
      /\ w[2] = IF s.start.y <= s.end.y THEN hi.y ELSE lo.y
  BY <1>1, <1>3, <1>3b
<1>5. h[1] \in Int /\ h[2] \in Int /\ w[1] \in Int /\ w[2] \in Int  BY <1>1, <1>4
<1>6. t.start = Point(h[1], w[1]) /\ t.end = Point(h[2], w[2])  BY <1>2
<1>7. t.start \in Coordinates /\ t.end \in Coordinates  BY <1>5, <1>6 DEF Point, Coordinates
<1>8. t \in Selections  BY <1>2, <1>6, <1>7 DEF Selections
<1>9. /\ t.start.x = h[1] /\ t.start.y = w[1] /\ t.end.x = h[2] /\ t.end.y = w[2]
  BY <1>6 DEF Point
<1>10. /\ t.start["x"] = h[1] /\ t.start["y"] = w[1] /\ t.end["x"] = h[2] /\ t.end["y"] = w[2]
       /\ s.start["x"] = s.start.x /\ s.start["y"] = s.start.y
       /\ s.end["x"] = s.end.x /\ s.end["y"] = s.end.y
       /\ lo["x"] = lo.x /\ lo["y"] = lo.y /\ hi["x"] = hi.x /\ hi["y"] = hi.y
  BY <1>1, <1>7, <1>9, PointsAre
<1>. QED  BY <1>4, <1>8, <1>10 DEF Axes

\* The corners of a selection, in order.
LEMMA CornersAre ==
    ASSUME NEW s \in Selections, NEW r, r = Corners(s.start, s.end)
    PROVE  /\ TopLeft(r) \in Coordinates /\ BottomRight(r) \in Coordinates
           /\ r.h.start = TopLeft(r).x /\ r.v.start = TopLeft(r).y
           /\ End(r.h) = BottomRight(r).x /\ End(r.v) = BottomRight(r).y
           /\ \A a \in Axes : /\ TopLeft(r)[a] = Smallest(s.start[a], s.end[a])
                              /\ BottomRight(r)[a] = Largest(s.start[a], s.end[a])
<1>1. s.start.x \in Int /\ s.start.y \in Int /\ s.end.x \in Int /\ s.end.y \in Int
  BY DEF Selections, Coordinates
<1>2. r.h = FromTo(s.start.x, s.end.x) /\ r.v = FromTo(s.start.y, s.end.y)  BY DEF Corners, Rectangle
<1>3. /\ r.h.start = Smallest(s.start.x, s.end.x) /\ End(r.h) = Largest(s.start.x, s.end.x)
      /\ r.v.start = Smallest(s.start.y, s.end.y) /\ End(r.v) = Largest(s.start.y, s.end.y)
  BY <1>1, <1>2, SegmentIs
<1>4. r.h.start \in Int /\ End(r.h) \in Int /\ r.v.start \in Int /\ End(r.v) \in Int
  BY <1>1, <1>3 DEF Smallest, Largest
<1>5. /\ TopLeft(r) \in Coordinates /\ BottomRight(r) \in Coordinates
      /\ TopLeft(r).x = r.h.start /\ TopLeft(r).y = r.v.start
      /\ BottomRight(r).x = End(r.h) /\ BottomRight(r).y = End(r.v)
  BY <1>4, PointsAre DEF TopLeft, BottomRight
<1>6. /\ TopLeft(r)["x"] = TopLeft(r).x /\ TopLeft(r)["y"] = TopLeft(r).y
      /\ BottomRight(r)["x"] = BottomRight(r).x /\ BottomRight(r)["y"] = BottomRight(r).y
      /\ s.start["x"] = s.start.x /\ s.start["y"] = s.start.y
      /\ s.end["x"] = s.end.x /\ s.end["y"] = s.end.y
  BY <1>5, PointsAre DEF Selections
<1>. QED  BY <1>3, <1>5, <1>6 DEF Axes

\* Whole pixels cover what was selected.
LEMMA PixelsCover ==
    ASSUME NEW v \in Windows, NEW s \in Selections, NEW t, t = TweakPixelSelection(v, s)
    PROVE  /\ t \in Selections
           /\ \A a \in Axes :
                LET unit == Fine * v.aspect[a] IN
                /\ IF s.start[a] <= s.end[a] THEN t.start[a] <= s.start[a] /\ s.end[a] <= t.end[a]
                   ELSE s.start[a] <= t.start[a] /\ t.end[a] <= s.end[a]
                /\ t.start[a] % unit = 0 /\ t.start[a] - s.start[a] \in -unit .. unit
                /\ t.end[a] % unit = 0 /\ t.end[a] - s.end[a] \in -unit .. unit
<1>. DEFINE r == Corners(s.start, s.end)
            f == Point(Fine * v.aspect.x, Fine * v.aspect.y)
            p == TopLeft(r)
            q == BottomRight(r)
            lo == Point(round_down_to_multiple_of(p.x, f.x), round_down_to_multiple_of(p.y, f.y))
            hi == Point(round_up_to_multiple_of(q.x, f.x), round_up_to_multiple_of(q.y, f.y))
<1>1. /\ p \in Coordinates /\ q \in Coordinates
      /\ r.h.start = p.x /\ r.v.start = p.y /\ End(r.h) = q.x /\ End(r.v) = q.y
      /\ \A a \in Axes : p[a] = Smallest(s.start[a], s.end[a]) /\ q[a] = Largest(s.start[a], s.end[a])
  BY CornersAre
<1>2. /\ "x" \in Axes /\ "y" \in Axes /\ v.aspect["x"] = v.aspect.x /\ v.aspect["y"] = v.aspect.y
      /\ \A a \in Axes : a = "x" \/ a = "y"
  BY WindowIs, PointsAre DEF Axes
<1>3. Fine * v.aspect.x \in Nat \ {0} /\ Fine * v.aspect.y \in Nat \ {0}
  BY <1>2, UnitIs
<1>4. /\ f \in Coordinates /\ f.x \in Nat \ {0} /\ f.y \in Nat \ {0}
      /\ f.x = Fine * v.aspect.x /\ f.y = Fine * v.aspect.y
  BY <1>3 DEF Point, Coordinates
<1>5. \A a \in Axes : f[a] = Fine * v.aspect[a] /\ f[a] \in Nat \ {0}  BY <1>2, <1>4, PointsAre
<1>6. t = Tweaked(s, Corners(lo, hi))
  <2>1. t = Tweaked(s, Rectangle(RoundedOut(r.h, f.x), RoundedOut(r.v, f.y)))
    BY <1>4, Zenon DEF TweakPixelSelection
  <2>2. lo.x = round_down_to_multiple_of(p.x, f.x) /\ lo.y = round_down_to_multiple_of(p.y, f.y)
        /\ hi.x = round_up_to_multiple_of(q.x, f.x) /\ hi.y = round_up_to_multiple_of(q.y, f.y)
    BY DEF Point
  <2>3. RoundedOut(r.h, f.x) = FromTo(lo.x, hi.x) /\ RoundedOut(r.v, f.y) = FromTo(lo.y, hi.y)
    BY <1>1, <2>2, Zenon DEF RoundedOut
  <2>. QED  BY <2>1, <2>3, Zenon DEF Corners
<1>. HIDE DEF r, f, p, q
<1>7. p.x \in Int /\ p.y \in Int /\ q.x \in Int /\ q.y \in Int  BY <1>1, PointsAre
<1>8. /\ lo \in Coordinates /\ hi \in Coordinates
      /\ lo.x = round_down_to_multiple_of(p.x, f.x) /\ lo.y = round_down_to_multiple_of(p.y, f.y)
      /\ hi.x = round_up_to_multiple_of(q.x, f.x) /\ hi.y = round_up_to_multiple_of(q.y, f.y)
  <2>1. /\ round_down_to_multiple_of(p.x, f.x) \in Int /\ round_up_to_multiple_of(q.x, f.x) \in Int
        /\ round_down_to_multiple_of(p.y, f.y) \in Int /\ round_up_to_multiple_of(q.y, f.y) \in Int
    BY <1>4, <1>7, OutwardsOf
  <2>. QED  BY <2>1 DEF Point, Coordinates
<1>9. \A a \in Axes : /\ lo[a] = round_down_to_multiple_of(p[a], f[a])
                      /\ hi[a] = round_up_to_multiple_of(q[a], f[a])
  BY <1>1, <1>2, <1>4, <1>8, PointsAre
<1>. HIDE DEF lo, hi
<1>10. ASSUME NEW a \in Axes
       PROVE  /\ p[a] \in Int /\ q[a] \in Int /\ lo[a] \in Int /\ hi[a] \in Int
              /\ p[a] - lo[a] \in 0..f[a] /\ hi[a] - q[a] \in 0..f[a]
              /\ lo[a] % f[a] = 0 /\ hi[a] % f[a] = 0
              /\ s.start[a] \in Int /\ s.end[a] \in Int
              /\ lo[a] <= p[a] /\ p[a] <= q[a] /\ q[a] <= hi[a]
  <2>1. p[a] \in Int /\ q[a] \in Int /\ s.start[a] \in Int /\ s.end[a] \in Int
    BY <1>1 DEF Coordinates, Axes, Selections
  <2>2. f[a] \in Nat \ {0}  BY <1>5
  <2>3. /\ lo[a] \in Int /\ p[a] - lo[a] \in 0..f[a] /\ lo[a] % f[a] = 0
        /\ hi[a] \in Int /\ hi[a] - q[a] \in 0..f[a] /\ hi[a] % f[a] = 0
    BY <1>9, <2>1, <2>2, OutwardsOf
  <2>4. p[a] <= q[a]  BY <1>1, <2>1 DEF Smallest, Largest
  <2>5. lo[a] <= p[a] /\ q[a] <= hi[a]  BY <2>1, <2>2, <2>3
  <2>. QED  BY <2>1, <2>3, <2>4, <2>5
<1>11. \A a \in Axes : lo[a] <= hi[a]  BY <1>10
<1>12. /\ t \in Selections
       /\ \A a \in Axes : /\ t.start[a] = IF s.start[a] <= s.end[a] THEN lo[a] ELSE hi[a]
                          /\ t.end[a] = IF s.start[a] <= s.end[a] THEN hi[a] ELSE lo[a]
  BY <1>6, <1>8, <1>11, TweakedIs
<1>13. ASSUME NEW a \in Axes
       PROVE  /\ IF s.start[a] <= s.end[a] THEN t.start[a] <= s.start[a] /\ s.end[a] <= t.end[a]
                 ELSE s.start[a] <= t.start[a] /\ t.end[a] <= s.end[a]
              /\ t.start[a] % f[a] = 0 /\ t.start[a] - s.start[a] \in -f[a] .. f[a]
              /\ t.end[a] % f[a] = 0 /\ t.end[a] - s.end[a] \in -f[a] .. f[a]
  <2>. DEFINE m == f[a]
              sa == s.start[a]
              sb == s.end[a]
              l == lo[a]
              h == hi[a]
  <2>1. m \in Nat \ {0} /\ sa \in Int /\ sb \in Int /\ l \in Int /\ h \in Int  BY <1>5, <1>10
  <2>2. Smallest(sa, sb) - l \in 0..m /\ h - Largest(sa, sb) \in 0..m /\ l % m = 0 /\ h % m = 0
    BY <1>1, <1>10
  <2>3. t.start[a] = (IF sa <= sb THEN l ELSE h) /\ t.end[a] = (IF sa <= sb THEN h ELSE l)  BY <1>12
  <2>. HIDE DEF m, sa, sb, l, h
  <2>4. CASE sa <= sb
    <3>1. sa - l \in 0..m /\ h - sb \in 0..m  BY <2>1, <2>2, <2>4 DEF Smallest, Largest
    <3>2. t.start[a] = l /\ t.end[a] = h  BY <2>3, <2>4
    <3>3. l <= sa /\ sb <= h /\ l - sa \in -m..m /\ h - sb \in -m..m  BY <2>1, <3>1
    <3>. QED  BY <2>2, <2>4, <3>2, <3>3 DEF m, sa, sb
  <2>5. CASE ~(sa <= sb)
    <3>1. sb - l \in 0..m /\ h - sa \in 0..m  BY <2>1, <2>2, <2>5 DEF Smallest, Largest
    <3>2. t.start[a] = h /\ t.end[a] = l  BY <2>3, <2>5
    <3>3. l <= sb /\ sa <= h /\ l - sb \in -m..m /\ h - sa \in -m..m  BY <2>1, <3>1
    <3>. QED  BY <2>2, <2>5, <3>2, <3>3 DEF m, sa, sb
  <2>. QED  BY <2>4, <2>5
<1>. QED  BY <1>5, <1>12, <1>13

\* The lines between pixels are the nearest ones.
LEMMA GridIsNear ==
    ASSUME NEW v \in Windows, NEW s \in Selections, NEW t, t = TweakGridSelection(v, s)
    PROVE  /\ t \in Selections
           /\ \A a \in Axes :
                LET unit == Fine * v.aspect[a] IN
                /\ t.start[a] % unit = 0 /\ 2 * t.start[a] - 2 * s.start[a] \in -unit .. unit
                /\ t.end[a] % unit = 0 /\ 2 * t.end[a] - 2 * s.end[a] \in -unit .. unit
<1>. DEFINE r == Corners(s.start, s.end)
            f == Scale(v.aspect, Fine)
            p == TopLeft(r)
            q == BottomRight(r)
            lo == RoundedTo(p, f)
            hi == RoundedTo(q, f)
<1>1. /\ p \in Coordinates /\ q \in Coordinates
      /\ \A a \in Axes : p[a] = Smallest(s.start[a], s.end[a]) /\ q[a] = Largest(s.start[a], s.end[a])
  BY CornersAre
<1>2. Fine \in Int  BY DEF Fine
<1>3. f \in Coordinates /\ \A a \in Axes : f[a] = v.aspect[a] * Fine  BY <1>2, WindowIs, ScaleIs
<1>4. \A a \in Axes : f[a] = Fine * v.aspect[a] /\ f[a] \in Nat \ {0}
  <2>. SUFFICES ASSUME NEW a \in Axes PROVE f[a] = Fine * v.aspect[a] /\ f[a] \in Nat \ {0}  OBVIOUS
  <2>1. v.aspect[a] \in Nat \ {0} /\ Fine * v.aspect[a] \in Nat \ {0}  BY UnitIs
  <2>2. v.aspect[a] * Fine = Fine * v.aspect[a]  BY <1>2, <2>1
  <2>. QED  BY <1>3, <2>1, <2>2
<1>5. t = Tweaked(s, Corners(lo, hi))  BY Zenon DEF TweakGridSelection, roundCorners
<1>. HIDE DEF r, f, p, q
<1>6. /\ "x" \in Axes /\ "y" \in Axes /\ \A a \in Axes : a = "x" \/ a = "y"  BY DEF Axes
<1>7. /\ p.x \in Int /\ p.y \in Int /\ q.x \in Int /\ q.y \in Int
      /\ p["x"] = p.x /\ p["y"] = p.y /\ q["x"] = q.x /\ q["y"] = q.y
      /\ f["x"] = f.x /\ f["y"] = f.y
  BY <1>1, <1>3, PointsAre
<1>8. f.x \in Nat \ {0} /\ f.y \in Nat \ {0}  BY <1>4, <1>6, <1>7
<1>9. /\ round_to_multiple_of(p.x, f.x) \in Int /\ round_to_multiple_of(p.y, f.y) \in Int
      /\ round_to_multiple_of(q.x, f.x) \in Int /\ round_to_multiple_of(q.y, f.y) \in Int
  BY <1>7, <1>8, NearestOf
<1>10. /\ lo \in Coordinates /\ hi \in Coordinates
       /\ lo.x = round_to_multiple_of(p.x, f.x) /\ lo.y = round_to_multiple_of(p.y, f.y)
       /\ hi.x = round_to_multiple_of(q.x, f.x) /\ hi.y = round_to_multiple_of(q.y, f.y)
  BY <1>9, PointsAre DEF RoundedTo
<1>11. \A a \in Axes : /\ lo[a] = round_to_multiple_of(p[a], f[a])
                       /\ hi[a] = round_to_multiple_of(q[a], f[a])
  BY <1>6, <1>7, <1>10, PointsAre
<1>. HIDE DEF lo, hi
<1>12. ASSUME NEW a \in Axes
       PROVE  /\ lo[a] \in Int /\ hi[a] \in Int /\ lo[a] <= hi[a]
              /\ 2 * lo[a] - 2 * p[a] \in -f[a]..f[a] /\ 2 * hi[a] - 2 * q[a] \in -f[a]..f[a]
              /\ lo[a] % f[a] = 0 /\ hi[a] % f[a] = 0
  <2>1. p[a] \in Int /\ q[a] \in Int /\ s.start[a] \in Int /\ s.end[a] \in Int
    BY <1>1 DEF Coordinates, Axes, Selections
  <2>2. f[a] \in Nat \ {0}  BY <1>4
  <2>3. p[a] <= q[a]  BY <1>1, <2>1 DEF Smallest, Largest
  <2>4. /\ lo[a] \in Int /\ 2 * lo[a] - 2 * p[a] \in -f[a]..f[a] /\ lo[a] % f[a] = 0
        /\ hi[a] \in Int /\ 2 * hi[a] - 2 * q[a] \in -f[a]..f[a] /\ hi[a] % f[a] = 0
    BY <1>11, <2>1, <2>2, NearestOf
  <2>5. lo[a] <= hi[a]  BY <1>11, <2>1, <2>2, <2>3, NearestKeepsOrder
  <2>. QED  BY <2>4, <2>5
<1>13. \A a \in Axes : lo[a] <= hi[a]  BY <1>12
<1>14. /\ t \in Selections
       /\ \A a \in Axes : /\ t.start[a] = IF s.start[a] <= s.end[a] THEN lo[a] ELSE hi[a]
                          /\ t.end[a] = IF s.start[a] <= s.end[a] THEN hi[a] ELSE lo[a]
  BY <1>5, <1>10, <1>13, TweakedIs
<1>15. ASSUME NEW a \in Axes
       PROVE  /\ t.start[a] % f[a] = 0 /\ 2 * t.start[a] - 2 * s.start[a] \in -f[a] .. f[a]
              /\ t.end[a] % f[a] = 0 /\ 2 * t.end[a] - 2 * s.end[a] \in -f[a] .. f[a]
  <2>1. s.start[a] \in Int /\ s.end[a] \in Int  BY DEF Coordinates, Axes, Selections
  <2>2. CASE s.start[a] <= s.end[a]
    <3>1. t.start[a] = lo[a] /\ t.end[a] = hi[a] /\ p[a] = s.start[a] /\ q[a] = s.end[a]
      BY <1>1, <1>14, <2>1, <2>2 DEF Smallest, Largest
    <3>. QED  BY <1>12, <3>1
  <2>3. CASE ~(s.start[a] <= s.end[a])
    <3>1. t.start[a] = hi[a] /\ t.end[a] = lo[a] /\ q[a] = s.start[a] /\ p[a] = s.end[a]
      BY <1>1, <1>14, <2>1, <2>3 DEF Smallest, Largest
    <3>. QED  BY <1>12, <3>1
  <2>. QED  BY <2>2, <2>3
<1>. QED  BY <1>4, <1>14, <1>15

-----------------------------------------------------------------------------
(* The windows that are right.                                             *)

Sound(v) == v \in Windows /\ v.aspect \in Aspects /\ ViewAgrees(v) /\ SelectionIsCovered(v)

\* What a selection is not about.
Held(w, v) ==
    /\ w \in Windows
    /\ w.shown = v.shown /\ w.rect = v.rect /\ w.aspect = v.aspect
    /\ w.zoom = v.zoom /\ w.zooms = v.zooms /\ w.size = v.size
    /\ w.position = v.position /\ w.frozen = v.frozen
    /\ w.bar = v.bar /\ w.text = v.text /\ w.ruler = v.ruler

\* What a move is not about.
Selected(w, v) == w.selection = v.selection /\ w.pixels = v.pixels /\ w.grid = v.grid

\* Whether a selection is covered is about the selection alone.
LEMMA SelectedCovers ==
    ASSUME NEW v, NEW w, Selected(w, v), SelectionIsCovered(v)
    PROVE  SelectionIsCovered(w)
BY DEF Selected, SelectionIsCovered

\* Whether a window agrees with its position is not about the selection.
LEMMA HeldAgrees ==
    ASSUME NEW v, NEW w, Held(w, v), ViewAgrees(v)
    PROVE  ViewAgrees(w)
<1>1. Extent(w) = Extent(v)  BY Zenon DEF Held, Extent
<1>2. HasPresentation(w) <=> HasPresentation(v)  BY Zenon DEF Held, HasPresentation
<1>3. \A a \in Axes : Adjustment(w, a) = Adjustment(v, a)  BY <1>1, Zenon DEF Held, Adjustment
<1>4. Display(w) = Display(v)  BY <1>1, Zenon DEF Held, Display
<1>5. tweakedPosition(w) = tweakedPosition(v)  BY Zenon DEF Held, tweakedPosition
<1>6. tweakRulers(w) = tweakRulers(v)  BY <1>1, <1>5, Zenon DEF Held, tweakRulers
<1>. QED  BY <1>2, <1>3, <1>4, <1>6, Zenon DEF Held, ViewAgrees

\* When a window has become right.
LEMMA BecomesSound ==
    ASSUME NEW v, Sound(v), NEW w \in Windows, w.aspect \in Aspects, Selected(w, v), w.frozen = 0,
           HasPresentation(w) =>
                /\ w.zoom \in w.zooms /\ BarsRight(w) /\ RulersRight(w)
                /\ Junk \in {w.text[a] : a \in Axes} \/ w.text = Display(w)
    PROVE  Sound(w)
<1>1. SelectionIsCovered(w)  BY SelectedCovers DEF Sound
<1>2. ViewAgrees(w)  BY Zenon DEF ViewAgrees, BarsRight, RulersRight
<1>. QED  BY <1>1, <1>2 DEF Sound

\* A drag starts or ends.
LEMMA DragSet ==
    ASSUME NEW v \in Windows, NEW d \in BOOLEAN, NEW c \in Coordinates
    PROVE  LET w == [v EXCEPT !.dragged = d, !.cached = c] IN
           Held(w, v) /\ Selected(w, v) /\ w.cached = c
BY DEF Windows, Held, Selected

\* The mouse was here.
LEMMA CachedSet ==
    ASSUME NEW v \in Windows, NEW c \in Coordinates
    PROVE  LET w == [v EXCEPT !.cached = c] IN
           Held(w, v) /\ Selected(w, v) /\ w.cached = c
BY DEF Windows, Held, Selected

\* A selection starts or ends.
LEMMA SelectingSet ==
    ASSUME NEW v \in Windows, NEW d \in BOOLEAN
    PROVE  LET w == [v EXCEPT !.selecting = d] IN Held(w, v) /\ Selected(w, v)
BY DEF Windows, Held, Selected

\* What is neither about the position nor about the selection leaves a window right.
LEMMA HeldSound ==
    ASSUME NEW v, Sound(v), NEW w, Held(w, v), Selected(w, v)
    PROVE  Sound(w)
<1>1. ViewAgrees(w) /\ SelectionIsCovered(w)  BY HeldAgrees, SelectedCovers DEF Sound
<1>. QED  BY <1>1 DEF Sound, Held

\* Whatever is selected, the listeners are told of pixels that cover it.
LEMMA SelectsIs ==
    ASSUME NEW v, Sound(v), NEW s \in Selections, NEW w, w = Selects(v, s)
    PROVE  Sound(w)
<1>1. v \in Windows /\ v.aspect \in Aspects /\ ViewAgrees(v)  BY DEF Sound
<1>. DEFINE t == TweakPixelSelection(v, s)
            g == TweakGridSelection(v, s)
<1>2. /\ t \in Selections
      /\ \A a \in Axes :
           LET unit == Fine * v.aspect[a] IN
           /\ IF s.start[a] <= s.end[a] THEN t.start[a] <= s.start[a] /\ s.end[a] <= t.end[a]
              ELSE s.start[a] <= t.start[a] /\ t.end[a] <= s.end[a]
           /\ t.start[a] % unit = 0 /\ t.start[a] - s.start[a] \in -unit .. unit
           /\ t.end[a] % unit = 0 /\ t.end[a] - s.end[a] \in -unit .. unit
  BY <1>1, PixelsCover
<1>3. /\ g \in Selections
      /\ \A a \in Axes :
           LET unit == Fine * v.aspect[a] IN
           /\ g.start[a] % unit = 0 /\ 2 * g.start[a] - 2 * s.start[a] \in -unit .. unit
           /\ g.end[a] % unit = 0 /\ 2 * g.end[a] - 2 * s.end[a] \in -unit .. unit
  BY <1>1, GridIsNear
<1>4. w = [v EXCEPT !.selection = s, !.pixels = t, !.grid = g]  BY DEF Selects
<1>. HIDE DEF t, g
<1>5. Held(w, v) /\ w.selection = s /\ w.pixels = t /\ w.grid = g
  <2>1. v \in Windows /\ t \in Selections /\ g \in Selections  BY <1>1, <1>2, <1>3
  <2>2. w \in Windows  BY <1>4, <2>1 DEF Windows
  <2>3. w.selection = s /\ w.pixels = t /\ w.grid = g  BY <1>4, <2>1 DEF Windows
  <2>4. /\ w.shown = v.shown /\ w.rect = v.rect /\ w.aspect = v.aspect
        /\ w.zoom = v.zoom /\ w.zooms = v.zooms /\ w.size = v.size
        /\ w.position = v.position /\ w.frozen = v.frozen
        /\ w.bar = v.bar /\ w.text = v.text /\ w.ruler = v.ruler
    BY <1>4, <2>1 DEF Windows
  <2>. QED  BY <2>2, <2>3, <2>4 DEF Held
<1>6. SelectionIsCovered(w)
  <2>1. Covered(s, t, g)  BY <1>1, <1>2, <1>3, Zenon DEF Covered
  <2>. QED  BY <1>5, <2>1 DEF SelectionIsCovered
<1>7. ViewAgrees(w) /\ w \in Windows /\ w.aspect = v.aspect  BY <1>1, <1>5, HeldAgrees DEF Held
<1>. QED  BY <1>1, <1>6, <1>7 DEF Sound

\* The mouse is at a point of the presentation.
LEMMA WindowPointIs ==
    ASSUME NEW v \in Windows, NEW p \in Coordinates
    PROVE  WindowPoint(v, p) \in Coordinates
<1>1. tweakedPosition(v) \in Coordinates  BY DisplayIs
<1>2. PICK h \in Nat \ {0} : PerPixel(v.zoom) = 2 * h  BY WindowIs, PerPixelIs
<1>3. PerPixel(v.zoom) \in Int  BY <1>2
<1>4. Scale(p, PerPixel(v.zoom)) \in Coordinates  BY <1>3, ScaleIs
<1>. QED  BY <1>1, <1>4, PointsAre DEF WindowPoint

\* A button is pressed.
LEMMA SelectionStarts ==
    ASSUME NEW v, Sound(v), NEW mouse \in Coordinates, NEW p, p = WindowPoint(v, mouse)
    PROVE  Sound([Selects(v, [start |-> p, end |-> p]) EXCEPT !.selecting = TRUE])
<1>. DEFINE s == [start |-> p, end |-> p]
            w == Selects(v, s)
<1>1. s \in Selections  BY WindowPointIs DEF Sound, Selections
<1>2. Sound(w)  BY <1>1, SelectsIs
<1>. HIDE DEF w
<1>3. w \in Windows  BY <1>2 DEF Sound
<1>4. Sound([w EXCEPT !.selecting = TRUE])  BY <1>2, <1>3, SelectingSet, HeldSound
<1>. QED  BY <1>4 DEF w

\* The mouse moves with the button down, and the button is released.
LEMMA SelectionExtends ==
    ASSUME NEW v, Sound(v), NEW mouse \in Coordinates, NEW p, p = WindowPoint(v, mouse),
           NEW w, w = Selects(v, [v.selection EXCEPT !.end = p])
    PROVE  Sound(w) /\ Sound([w EXCEPT !.selecting = FALSE])
<1>1. v.selection \in Selections /\ p \in Coordinates  BY WindowIs, WindowPointIs DEF Sound
<1>2. [v.selection EXCEPT !.end = p] \in Selections  BY <1>1 DEF Selections
<1>3. Sound(w)  BY <1>2, SelectsIs
<1>4. w \in Windows  BY <1>3 DEF Sound
<1>. QED  BY <1>3, <1>4, SelectingSet, HeldSound

-----------------------------------------------------------------------------
(* Where things are.                                                       *)

\* The centre is half a window from the position, which is exact.
LEMMA CentreIs ==
    ASSUME NEW v \in Windows
    PROVE  /\ Centre(v) \in Coordinates
           /\ \E h \in Nat \ {0} :
                /\ PerPixel(v.zoom) = 2 * h
                /\ \A a \in Axes : Centre(v)[a] = v.position[a] + v.size[a] * h
<1>1. PICK h \in Nat \ {0} :
              /\ PerPixel(v.zoom) = 2 * h
              /\ Extent(v) \in Coordinates /\ HalfOf(Extent(v)) \in Coordinates
              /\ \A a \in Axes : HalfOf(Extent(v))[a] = v.size[a] * h
  BY ExtentIs
<1>2. v.position \in Coordinates  BY WindowIs
<1>3. Centre(v) \in Coordinates  BY <1>1, <1>2, PointsAre DEF Centre
<1>4. \A a \in Axes : Centre(v)[a] = v.position[a] + HalfOf(Extent(v))[a]  BY <1>1, <1>2, AxisOf DEF Centre
<1>5. \A a \in Axes : Centre(v)[a] = v.position[a] + v.size[a] * h  BY <1>1, <1>4
<1>. QED  BY <1>1, <1>3, <1>5

\* The text is about the centre.
LEMMA SameDisplay ==
    ASSUME NEW v, NEW w, Centre(w) = Centre(v), w.aspect = v.aspect
    PROVE  Display(w) = Display(v)
<1>1. /\ Display(v) = [a \in Axes |-> HalfEven(Centre(v)[a], Fine * v.aspect[a])]
      /\ Display(w) = [a \in Axes |-> HalfEven(Centre(w)[a], Fine * w.aspect[a])]
  BY Zenon DEF Display, Centre
<1>. QED  BY <1>1, Zenon

\* What is under the mouse.
LEMMA UnderIs ==
    ASSUME NEW v \in Windows, NEW p \in Coordinates
    PROVE  /\ PerPixel(v.zoom) \in Int
           /\ Under(p, v) \in Coordinates
           /\ \A a \in Axes : Under(p, v)[a] = v.position[a] + p[a] * PerPixel(v.zoom)
<1>1. PICK h \in Nat \ {0} : PerPixel(v.zoom) = 2 * h  BY WindowIs, PerPixelIs
<1>2. PerPixel(v.zoom) \in Int  BY <1>1
<1>. DEFINE s == Scale(p, PerPixel(v.zoom))
<1>3. s \in Coordinates /\ \A a \in Axes : s[a] = p[a] * PerPixel(v.zoom)  BY <1>2, ScaleIs
<1>. HIDE DEF s
<1>4. v.position \in Coordinates  BY WindowIs
<1>5. Under(p, v) = Plus(v.position, s)  BY DEF Under, s
<1>6. Under(p, v) \in Coordinates
  <2>1. Plus(v.position, s) \in Coordinates  BY <1>3, <1>4, PointsAre
  <2>. QED  BY <1>5, <2>1
<1>7. \A a \in Axes : Under(p, v)[a] = v.position[a] + s[a]  BY <1>3, <1>4, <1>5, AxisOf
<1>. QED  BY <1>2, <1>3, <1>6, <1>7

-----------------------------------------------------------------------------
(* The events.                                                             *)

\* setPresentation(), the presentation itself.
Opened(v, p) ==
    IF p = NoPresentation THEN [v EXCEPT !.shown = p]
    ELSE [v EXCEPT !.shown = p, !.aspect = p.aspect, !.rect = Point(p.rect.h, p.rect.v)]

\* Another presentation is a window's, or none.
LEMMA OpenedSet ==
    ASSUME NEW v \in Windows, NEW p \in ViewPresentations \cup {NoPresentation},
           NEW w, w = Opened(v, p), v.aspect \in Aspects
    PROVE  /\ w \in Windows /\ w.aspect \in Aspects /\ Selected(w, v) /\ w.frozen = v.frozen
<1>1. CASE p = NoPresentation
  <2>1. w = [v EXCEPT !.shown = p]  BY <1>1 DEF Opened
  <2>. QED  BY <2>1 DEF Windows, Selected
<1>2. CASE p # NoPresentation
  <2>1. p \in ViewPresentations  BY <1>2
  <2>. DEFINE aspect == p.aspect
              rect == Point(p.rect.h, p.rect.v)
  <2>2. p.rect.h \in Sides /\ p.rect.v \in Sides /\ aspect \in AspectRatios
    BY <2>1, PresentationsAssumption
  <2>3. rect \in [x : Sides, y : Sides]  BY <2>2 DEF Point
  <2>4. aspect \in Aspects  BY <2>1 DEF Aspects
  <2>5. w = [v EXCEPT !.shown = p, !.aspect = aspect, !.rect = rect]  BY <1>2 DEF Opened
  <2>. HIDE DEF aspect, rect
  <2>6. w \in Windows /\ w.aspect = aspect /\ w.frozen = v.frozen /\ Selected(w, v)
    <3>. DEFINE u == [v EXCEPT !.shown = p]
                t == [u EXCEPT !.aspect = aspect]
    <3>4. u \in Windows  BY DEF Windows
    <3>. HIDE DEF u
    <3>5. t \in Windows  BY <2>2, <3>4 DEF Windows
    <3>6. [t EXCEPT !.rect = rect] \in Windows
      <4>. HIDE DEF t
      <4>. QED  BY <2>3, <3>5 DEF Windows
    <3>7. w = [t EXCEPT !.rect = rect]  BY <2>5 DEF u
    <3>1. w \in Windows  BY <3>6, <3>7, Zenon
    <3>2. w.aspect = aspect /\ w.frozen = v.frozen  BY <2>5 DEF Windows
    <3>3. w.selection = v.selection /\ w.pixels = v.pixels /\ w.grid = v.grid  BY <2>5 DEF Windows
    <3>. QED  BY <3>1, <3>2, <3>3 DEF Selected
  <2>. QED  BY <2>4, <2>6
<1>. QED  BY <1>1, <1>2

\* setPresentation() leaves a window right.
LEMMA OpenIs ==
    ASSUME NEW v, Sound(v), NEW p \in ViewPresentations \cup {NoPresentation},
           NEW o, o = Opened(v, p),
           NEW z, z = [o EXCEPT !.zoom = 0],
           NEW m, m = Moves(z, Minus(NoPoint, HalfOf(Extent(z))))
    PROVE  Sound(UpdateTextbox(Signals, UpdateScrollbars(Signals, UpdateZoom(m))))
<1>. DEFINE u == UpdateZoom(m)
            b == UpdateScrollbars(Signals, u)
            w == UpdateTextbox(Signals, b)
<1>1. v \in Windows /\ v.aspect \in Aspects /\ v.frozen = 0  BY DEF Sound, ViewAgrees
<1>2. o \in Windows /\ o.aspect \in Aspects /\ Selected(o, v) /\ o.frozen = 0  BY <1>1, OpenedSet
<1>3. 0 \in Zooms  BY DEF Zooms, MaxZoom, Factors
<1>4. z \in Windows /\ z.aspect \in Aspects /\ Selected(z, v) /\ z.frozen = 0
  <2>1. Carried(z, o)  BY <1>2, <1>3, ZoomSet
  <2>. QED  BY <1>2, <2>1 DEF Carried, Selected
<1>5. m \in Windows /\ m.aspect \in Aspects /\ Selected(m, v) /\ m.frozen = 0
  <2>1. HalfOf(Extent(z)) \in Coordinates  BY <1>4, ExtentIs
  <2>2. NoPoint \in Coordinates  BY DEF NoPoint, Point, Coordinates
  <2>3. Minus(NoPoint, HalfOf(Extent(z))) \in Coordinates  BY <2>1, <2>2, PointsAre
  <2>4. Kept(m, z) /\ m.frozen = 0  BY <1>4, <2>3, MoveIs
  <2>. QED  BY <1>4, <2>4 DEF Kept, Selected
<1>6. u \in Windows /\ u.aspect \in Aspects /\ Selected(u, v) /\ u.frozen = 0
      /\ (HasPresentation(u) => u.zoom \in u.zooms)
  <2>1. Carried(u, m) /\ u.zoom = m.zoom /\ (HasPresentation(m) => m.zoom \in u.zooms)
    BY <1>5, UpdateZoomIs
  <2>2. HasPresentation(u) <=> HasPresentation(m)  BY <2>1 DEF Carried, HasPresentation
  <2>. QED  BY <1>5, <2>1, <2>2 DEF Carried, Selected
<1>. HIDE DEF u
<1>7. Kept(b, u) /\ b.frozen = 0 /\ (HasPresentation(u) => BarsRight(b) /\ RulersRight(b))
  BY <1>6, ScrollbarsFree
<1>. HIDE DEF b
<1>8. b \in Windows /\ (HasPresentation(b) <=> HasPresentation(u))  BY <1>7 DEF Kept, HasPresentation
<1>9. Kept(w, b) /\ w.frozen = 0 /\ (HasPresentation(b) => BarsRight(w) /\ RulersRight(w) /\ w.text = Display(w))
  BY <1>7, <1>8, TextboxFree
<1>. HIDE DEF w
<1>10. Kept(w, u)  BY <1>7, <1>9, KeptTwice
<1>11. /\ w \in Windows /\ w.aspect \in Aspects /\ Selected(w, v)
       /\ w.zoom = u.zoom /\ w.zooms = u.zooms /\ (HasPresentation(w) <=> HasPresentation(u))
  BY <1>6, <1>10 DEF Kept, Selected, HasPresentation
<1>12. Sound(w)  BY <1>6, <1>8, <1>9, <1>11, BecomesSound
<1>. QED  BY <1>12 DEF w, b, u

\* A window that changes size keeps its centre, and with it its text.
LEMMA ResizeIs ==
    ASSUME NEW v, Sound(v), NEW size \in [x : Nat, y : Nat],
           NEW m, m = Moves(v, Plus(v.position, HalfOf(Scale(Minus(v.size, size), PerPixel(v.zoom))))),
           NEW w, w = Unfrozen(UpdateScrollbars(Signals, UpdateZoom([Frozen(m) EXCEPT !.size = size])))
    PROVE  Sound(w) /\ Centre(w) = Centre(v)
<1>1. v \in Windows /\ v.aspect \in Aspects /\ v.frozen = 0  BY DEF Sound, ViewAgrees
<1>. DEFINE d == Minus(v.size, size)
            s == HalfOf(Scale(d, PerPixel(v.zoom)))
            p == Plus(v.position, s)
            f == Frozen(m)
            g == [f EXCEPT !.size = size]
            u == UpdateZoom(g)
<1>2. size \in Coordinates /\ v.size \in Coordinates /\ v.position \in Coordinates
  BY <1>1, WindowIs DEF Coordinates
<1>3. PICK h \in Nat \ {0} :
          PerPixel(v.zoom) = 2 * h /\ \A a \in Axes : Centre(v)[a] = v.position[a] + v.size[a] * h
  BY <1>1, CentreIs
<1>4. d \in Coordinates /\ \A a \in Axes : d[a] = v.size[a] - size[a]
  <2>1. d \in Coordinates  BY <1>2, PointsAre
  <2>2. \A a \in Axes : d[a] = v.size[a] - size[a]  BY <1>2, AxisOf
  <2>. QED  BY <2>1, <2>2
<1>5. s \in Coordinates /\ \A a \in Axes : s[a] = d[a] * h
  <2>. DEFINE q == Scale(d, 2 * h)
  <2>. HIDE DEF d
  <2>1. 2 * h \in Int  OBVIOUS
  <2>2. q \in Coordinates /\ \A a \in Axes : q[a] = d[a] * (2 * h)  BY <1>4, <2>1, ScaleIs
  <2>3. s = HalfOf(q)  BY <1>3
  <2>. HIDE DEF q
  <2>4. HalfOf(q) \in Coordinates /\ \A a \in Axes : HalfOf(q)[a] = q[a] \div 2  BY <2>2, HalfIs
  <2>5. ASSUME NEW a \in Axes PROVE (d[a] * (2 * h)) \div 2 = d[a] * h
    <3>1. d[a] \in Int  BY <1>4 DEF Coordinates, Axes
    <3>2. d[a] * (2 * h) = 2 * (d[a] * h) /\ d[a] * h \in Int  BY <3>1
    <3>. DEFINE e == d[a] * h
    <3>. HIDE DEF e
    <3>3. (2 * e) \div 2 = e  BY <3>2 DEF e
    <3>. QED  BY <3>2, <3>3 DEF e
  <2>. HIDE DEF s
  <2>. QED  BY <2>2, <2>3, <2>4, <2>5
<1>. HIDE DEF d, s
<1>6. p \in Coordinates /\ \A a \in Axes : p[a] = v.position[a] + s[a]
  <2>1. p \in Coordinates  BY <1>2, <1>5, PointsAre
  <2>2. \A a \in Axes : p[a] = v.position[a] + s[a]  BY <1>2, <1>5, AxisOf
  <2>. QED  BY <2>1, <2>2
<1>7. m = Moves(v, p)  BY DEF d, s
<1>. HIDE DEF p
<1>8. Kept(m, v) /\ m \in Windows /\ m.position = p /\ m.frozen = 0 /\ m.text = v.text
  BY <1>1, <1>6, <1>7, MoveIs
<1>9. Kept(f, m) /\ f.position = p /\ f.frozen = 1 /\ f.text = v.text  BY <1>8, LockIs
<1>. HIDE DEF f
<1>10. f \in Windows  BY <1>9 DEF Kept
<1>11. Carried(g, f) /\ g.size = size /\ g.zoom = f.zoom  BY <1>10, SizeSet
<1>. HIDE DEF g
<1>12. g \in Windows  BY <1>11 DEF Carried
<1>13. Carried(u, g) /\ u.zoom = g.zoom /\ u.size = size /\ (HasPresentation(g) => g.zoom \in u.zooms)
  BY <1>11, <1>12, UpdateZoomIs
<1>14. w = Unfrozen(UpdateScrollbars(Signals, u))  BY DEF u, g, f
<1>. HIDE DEF u
<1>15. /\ u \in Windows /\ u.frozen = 1 /\ u.position = p /\ u.text = v.text /\ u.aspect = v.aspect
       /\ u.size = size /\ u.zoom = v.zoom /\ u.shown = v.shown /\ Selected(u, v)
       /\ HasPresentation(u) => u.zoom \in u.zooms
  BY <1>8, <1>9, <1>11, <1>13 DEF Carried, Kept, Selected, HasPresentation
<1>16. /\ Kept(w, u) /\ w.position = u.position /\ w.frozen = 0 /\ w.text \in {u.text, Display(w)}
       /\ HasPresentation(u) => BarsRight(w) /\ RulersRight(w)
  BY <1>14, <1>15, LockedBars
<1>17. /\ w \in Windows /\ w.aspect = v.aspect /\ w.zoom = v.zoom /\ w.zooms = u.zooms /\ w.size = size
       /\ w.shown = v.shown /\ Selected(w, v) /\ w.position = p /\ w.text \in {v.text, Display(w)}
  BY <1>15, <1>16 DEF Kept, Selected
<1>18. Centre(w) = Centre(v)
  <2>1. PICK k \in Nat \ {0} :
            PerPixel(w.zoom) = 2 * k /\ \A a \in Axes : Centre(w)[a] = w.position[a] + w.size[a] * k
    BY <1>17, CentreIs
  <2>2. k = h  BY <1>3, <1>17, <2>1
  <2>3. ASSUME NEW a \in Axes PROVE Centre(w)[a] = Centre(v)[a]
    <3>1. v.position[a] \in Int /\ v.size[a] \in Int /\ size[a] \in Int  BY <1>2 DEF Coordinates, Axes
    <3>2. Centre(w)[a] = p[a] + size[a] * h /\ p[a] = v.position[a] + (v.size[a] - size[a]) * h
      BY <1>4, <1>5, <1>6, <1>17, <2>1, <2>2
    <3>3. (v.size[a] - size[a]) * h = v.size[a] * h - size[a] * h
          /\ v.size[a] * h \in Int /\ size[a] * h \in Int
      BY <3>1
    <3>4. Centre(w)[a] = v.position[a] + v.size[a] * h  BY <3>1, <3>2, <3>3
    <3>. QED  BY <1>3, <3>4
  <2>. QED  BY <1>1, <1>17, <2>3, CentreIs, SamePoint
<1>19. Display(w) = Display(v)  BY <1>17, <1>18, SameDisplay
<1>20. HasPresentation(w) =>
          /\ w.zoom \in w.zooms /\ BarsRight(w) /\ RulersRight(w)
          /\ Junk \in {w.text[a] : a \in Axes} \/ w.text = Display(w)
  <2>. SUFFICES ASSUME HasPresentation(w)
                PROVE  /\ w.zoom \in w.zooms /\ BarsRight(w) /\ RulersRight(w)
                       /\ Junk \in {w.text[a] : a \in Axes} \/ w.text = Display(w)
    OBVIOUS
  <2>1. HasPresentation(u) /\ HasPresentation(v)  BY <1>15, <1>17 DEF HasPresentation
  <2>2. Junk \in {v.text[a] : a \in Axes} \/ v.text = Display(v)  BY <2>1 DEF Sound, ViewAgrees
  <2>3. Junk \in {w.text[a] : a \in Axes} \/ w.text = Display(w)  BY <1>17, <1>19, <2>2, Zenon
  <2>. QED  BY <1>15, <1>16, <1>17, <2>1, <2>3
<1>21. Sound(w)  BY <1>1, <1>16, <1>17, <1>20, BecomesSound
<1>. QED  BY <1>18, <1>21

\* Both ways of zooming: the position and the zoom level change, and then all is updated.
LEMMA ZoomedIs ==
    ASSUME NEW v, Sound(v), NEW p \in Coordinates, NEW zoom \in v.zooms,
           NEW m, Kept(m, v), m.position = p, m.frozen = 0,
           NEW w, w = Unfrozen(UpdateTextbox(Signals, UpdateScrollbars(Signals, [Frozen(m) EXCEPT !.zoom = zoom])))
    PROVE  /\ Sound(w) /\ w.position = p /\ w.zoom = zoom /\ w.size = v.size
<1>1. v \in Windows /\ v.aspect \in Aspects /\ v.frozen = 0 /\ zoom \in Zooms
  BY DEF Sound, ViewAgrees, Windows
<1>. DEFINE f == Frozen(m)
            u == [f EXCEPT !.zoom = zoom]
<1>2. m \in Windows  BY DEF Kept
<1>3. Kept(f, m) /\ f.position = p /\ f.frozen = 1  BY <1>2, LockIs
<1>. HIDE DEF f
<1>4. f \in Windows  BY <1>3 DEF Kept
<1>5. Carried(u, f) /\ u.zoom = zoom /\ u.zooms = f.zooms /\ u.size = f.size  BY <1>1, <1>4, ZoomSet
<1>6. w = Unfrozen(UpdateTextbox(Signals, UpdateScrollbars(Signals, u)))  BY DEF u, f
<1>. HIDE DEF u
<1>7. /\ u \in Windows /\ u.frozen = 1 /\ u.position = p /\ u.aspect = v.aspect /\ u.size = v.size
      /\ u.zoom = zoom /\ u.zooms = v.zooms /\ Selected(u, v)
  BY <1>3, <1>5 DEF Carried, Kept, Selected
<1>8. /\ Kept(w, u) /\ w.position = u.position /\ w.frozen = 0
      /\ HasPresentation(u) => BarsRight(w) /\ RulersRight(w) /\ w.text = Display(w)
  BY <1>6, <1>7, LockedAll
<1>9. /\ w \in Windows /\ w.aspect = v.aspect /\ w.zoom = zoom /\ w.zooms = v.zooms /\ w.size = v.size
      /\ Selected(w, v) /\ w.position = p /\ (HasPresentation(w) <=> HasPresentation(u))
  BY <1>7, <1>8 DEF Kept, Selected, HasPresentation
<1>10. HasPresentation(w) => w.zoom \in w.zooms /\ BarsRight(w) /\ RulersRight(w) /\ w.text = Display(w)
  BY <1>8, <1>9
<1>11. Sound(w)  BY <1>1, <1>8, <1>9, <1>10, BecomesSound
<1>. QED  BY <1>9, <1>11

\* The wheel.
LEMMA WheelIs ==
    ASSUME NEW v, Sound(v), NEW zoom \in v.zooms, NEW mouse \in Coordinates,
           NEW w, w = ZoomTo(v, zoom, mouse)
    PROVE  Sound(w) /\ w.zoom = zoom /\ Under(mouse, w) = Under(mouse, v)
<1>1. v \in Windows /\ v.frozen = 0 /\ zoom \in Zooms  BY DEF Sound, ViewAgrees, Windows
<1>2. CASE zoom = v.zoom
  <2>1. w = v  BY <1>2 DEF ZoomTo
  <2>. QED  BY <1>2, <2>1
<1>3. CASE zoom # v.zoom
  <2>. DEFINE j == PerPixel(v.zoom)
              k == PerPixel(zoom)
              sj == Scale(mouse, j)
              sk == Scale(mouse, k)
              p == Plus(v.position, sj)
              from == Moves(v, p)
              q == Minus(p, sk)
              m == Moves(from, q)
  <2>1. j \in Int /\ k \in Int
    <3>1. \A z \in Zooms : PerPixel(z) \in Int
      <4>. SUFFICES ASSUME NEW z \in Zooms PROVE PerPixel(z) \in Int  OBVIOUS
      <4>1. PICK h \in Nat \ {0} : PerPixel(z) = 2 * h  BY PerPixelIs
      <4>. QED  BY <4>1
    <3>. QED  BY <1>1, <3>1, WindowIs
  <2>2. /\ sj \in Coordinates /\ \A a \in Axes : sj[a] = mouse[a] * j
        /\ sk \in Coordinates /\ \A a \in Axes : sk[a] = mouse[a] * k
    <3>. HIDE DEF j, k
    <3>. QED  BY <2>1, ScaleIs
  <2>3. v.position \in Coordinates  BY <1>1, WindowIs
  <2>. HIDE DEF sj, sk
  <2>4. p \in Coordinates /\ \A a \in Axes : p[a] = v.position[a] + sj[a]
    <3>1. p \in Coordinates  BY <2>2, <2>3, PointsAre
    <3>2. \A a \in Axes : p[a] = v.position[a] + sj[a]  BY <2>2, <2>3, AxisOf
    <3>. QED  BY <3>1, <3>2
  <2>5. w = Unfrozen(UpdateTextbox(Signals, UpdateScrollbars(Signals, [Frozen(Moves(from, Minus(from.position, sk))) EXCEPT !.zoom = zoom])))
    BY <1>3 DEF ZoomTo, sj, sk
  <2>. HIDE DEF p
  <2>6. Kept(from, v) /\ from \in Windows /\ from.position = p /\ from.frozen = 0  BY <1>1, <2>4, MoveIs
  <2>. HIDE DEF from
  <2>7. q \in Coordinates /\ \A a \in Axes : q[a] = p[a] - sk[a]
    <3>1. q \in Coordinates  BY <2>2, <2>4, PointsAre
    <3>2. \A a \in Axes : q[a] = p[a] - sk[a]  BY <2>2, <2>4, AxisOf
    <3>. QED  BY <3>1, <3>2
  <2>8. w = Unfrozen(UpdateTextbox(Signals, UpdateScrollbars(Signals, [Frozen(m) EXCEPT !.zoom = zoom])))
    BY <2>5, <2>6
  <2>. HIDE DEF q
  <2>9. Kept(m, v) /\ m.position = q /\ m.frozen = 0
    <3>1. Kept(m, from) /\ m.position = q /\ m.frozen = 0  BY <2>6, <2>7, MoveIs
    <3>. QED  BY <2>6, <3>1, KeptTwice
  <2>. HIDE DEF m
  <2>10. Sound(w) /\ w.position = q /\ w.zoom = zoom  BY <2>7, <2>8, <2>9, ZoomedIs
  <2>11. w \in Windows  BY <2>10 DEF Sound
  <2>12. ASSUME NEW a \in Axes PROVE Under(mouse, w)[a] = Under(mouse, v)[a]
    <3>1. Under(mouse, w)[a] = q[a] + mouse[a] * k /\ Under(mouse, v)[a] = v.position[a] + mouse[a] * j
      BY <1>1, <2>10, <2>11, UnderIs DEF j, k
    <3>2. v.position[a] \in Int /\ mouse[a] * j \in Int /\ mouse[a] * k \in Int
      <4>. HIDE DEF j, k
      <4>1. v.position[a] \in Int /\ mouse[a] \in Int  BY <2>3 DEF Coordinates, Axes
      <4>. QED  BY <2>1, <4>1
    <3>. HIDE DEF j, k
    <3>3. sj[a] = mouse[a] * j /\ sk[a] = mouse[a] * k  BY <2>2
    <3>4. p[a] = v.position[a] + mouse[a] * j  BY <2>4, <3>3
    <3>5. q[a] = p[a] - mouse[a] * k  BY <2>7, <3>3
    <3>. QED  BY <3>1, <3>2, <3>4, <3>5
  <2>13. Under(mouse, w) \in Coordinates /\ Under(mouse, v) \in Coordinates  BY <1>1, <2>11, UnderIs
  <2>14. Under(mouse, w) = Under(mouse, v)  BY <2>12, <2>13, SamePoint
  <2>. QED  BY <2>10, <2>14
<1>. QED  BY <1>2, <1>3

\* The zoom box.
LEMMA ChoiceIs ==
    ASSUME NEW v, Sound(v), NEW zoom \in v.zooms, zoom # v.zoom, NEW w, w = ZoomAtCentre(v, zoom)
    PROVE  Sound(w) /\ Centre(w) = Centre(v)
<1>1. v \in Windows /\ v.frozen = 0 /\ zoom \in Zooms  BY DEF Sound, ViewAgrees, Windows
<1>. DEFINE z == [v EXCEPT !.zoom = zoom]
            d == Minus(Extent(v), Extent(z))
            s == HalfOf(d)
            p == Plus(v.position, s)
            m == Moves(v, p)
<1>2. z \in Windows /\ z.zoom = zoom /\ z.size = v.size
  <2>1. Carried(z, v) /\ z.zoom = zoom /\ z.size = v.size  BY <1>1, ZoomSet
  <2>. QED  BY <2>1 DEF Carried
<1>3. w = Unfrozen(UpdateTextbox(Signals, UpdateScrollbars(Signals, [Frozen(m) EXCEPT !.zoom = zoom])))
  BY DEF ZoomAtCentre
<1>. HIDE DEF z
<1>4. PICK h \in Nat \ {0} :
          /\ PerPixel(v.zoom) = 2 * h /\ Extent(v) \in Coordinates
          /\ \A a \in Axes : Extent(v)[a] = v.size[a] * (2 * h)
  BY <1>1, ExtentIs
<1>5. PICK k \in Nat \ {0} :
          /\ PerPixel(zoom) = 2 * k /\ Extent(z) \in Coordinates
          /\ \A a \in Axes : Extent(z)[a] = v.size[a] * (2 * k)
  BY <1>2, ExtentIs
<1>6. v.position \in Coordinates /\ v.size \in Coordinates  BY <1>1, WindowIs
<1>7. d \in Coordinates /\ \A a \in Axes : d[a] = v.size[a] * (2 * h) - v.size[a] * (2 * k)
  <2>1. d \in Coordinates  BY <1>4, <1>5, PointsAre
  <2>2. \A a \in Axes : d[a] = Extent(v)[a] - Extent(z)[a]  BY <1>4, <1>5, AxisOf
  <2>. QED  BY <1>4, <1>5, <2>1, <2>2
<1>. HIDE DEF d
<1>8. s \in Coordinates /\ \A a \in Axes : s[a] = v.size[a] * h - v.size[a] * k
  <2>1. s \in Coordinates /\ \A a \in Axes : s[a] = d[a] \div 2  BY <1>7, HalfIs
  <2>2. ASSUME NEW a \in Axes PROVE d[a] \div 2 = v.size[a] * h - v.size[a] * k
    <3>. DEFINE x == v.size[a] * h
                y == v.size[a] * k
    <3>1. v.size[a] \in Int  BY <1>6 DEF Coordinates, Axes
    <3>2. x \in Int /\ y \in Int /\ v.size[a] * (2 * h) = 2 * x /\ v.size[a] * (2 * k) = 2 * y  BY <3>1
    <3>. HIDE DEF x, y
    <3>3. d[a] = 2 * (x - y)  BY <1>7, <3>2
    <3>4. d[a] \div 2 = x - y  BY <3>2, <3>3
    <3>. QED  BY <3>4 DEF x, y
  <2>. HIDE DEF s
  <2>. QED  BY <2>1, <2>2
<1>. HIDE DEF s
<1>9. p \in Coordinates /\ \A a \in Axes : p[a] = v.position[a] + s[a]
  <2>1. p \in Coordinates  BY <1>6, <1>8, PointsAre
  <2>2. \A a \in Axes : p[a] = v.position[a] + s[a]  BY <1>6, <1>8, AxisOf
  <2>. QED  BY <2>1, <2>2
<1>. HIDE DEF p
<1>10. Kept(m, v) /\ m.position = p /\ m.frozen = 0  BY <1>1, <1>9, MoveIs
<1>. HIDE DEF m
<1>11. Sound(w) /\ w.position = p /\ w.zoom = zoom /\ w.size = v.size  BY <1>3, <1>9, <1>10, ZoomedIs
<1>12. w \in Windows  BY <1>11 DEF Sound
<1>13. PICK i \in Nat \ {0} :
           PerPixel(w.zoom) = 2 * i /\ \A a \in Axes : Centre(w)[a] = w.position[a] + w.size[a] * i
  BY <1>12, CentreIs
<1>14. PICK j \in Nat \ {0} :
           PerPixel(v.zoom) = 2 * j /\ \A a \in Axes : Centre(v)[a] = v.position[a] + v.size[a] * j
  BY <1>1, CentreIs
<1>15. i = k /\ j = h  BY <1>4, <1>5, <1>11, <1>13, <1>14
<1>16. ASSUME NEW a \in Axes PROVE Centre(w)[a] = Centre(v)[a]
  <2>1. v.position[a] \in Int /\ v.size[a] * h \in Int /\ v.size[a] * k \in Int
    <3>1. v.position[a] \in Int /\ v.size[a] \in Int  BY <1>6 DEF Coordinates, Axes
    <3>. QED  BY <3>1
  <2>2. Centre(w)[a] = p[a] + v.size[a] * k /\ Centre(v)[a] = v.position[a] + v.size[a] * h
    BY <1>11, <1>13, <1>14, <1>15
  <2>3. p[a] = v.position[a] + (v.size[a] * h - v.size[a] * k)  BY <1>8, <1>9
  <2>. QED  BY <2>1, <2>2, <2>3
<1>17. Centre(w) = Centre(v)  BY <1>1, <1>12, <1>16, CentreIs, SamePoint
<1>. QED  BY <1>11, <1>17

\* Text moves the view.
LEMMA TypeIs ==
    ASSUME NEW v, Sound(v), NEW a \in Axes, NEW text \in Int \cup {Junk},
           NEW u, u = [v EXCEPT !.text[a] = text],
           NEW w, w = OnTextboxValueChanged(Signals, u)
    PROVE  /\ Sound(w)
           /\ Junk \notin {w.text[b] : b \in Axes} => w.position = Parse(w)
<1>1. v \in Windows /\ v.aspect \in Aspects /\ v.frozen = 0  BY DEF Sound, ViewAgrees
<1>2. /\ Kept(u, v) /\ u.position = v.position /\ u.frozen = 0 /\ u.bar = v.bar /\ u.ruler = v.ruler
  BY <1>1, TextSet
<1>3. u \in Windows /\ Selected(u, v) /\ (HasPresentation(u) <=> HasPresentation(v))
  BY <1>2 DEF Kept, Selected, HasPresentation
<1>4. HasPresentation(v) => BarsRight(u) /\ RulersRight(u)
  <2>1. /\ \A b \in Axes : Adjustment(u, b) = Adjustment(v, b)
        /\ tweakRulers(u) = tweakRulers(v)
    BY <1>2, SameShown
  <2>2. HasPresentation(v) => (\A b \in Axes : v.bar[b] = Adjustment(v, b)) /\ v.ruler = tweakRulers(v)
    BY DEF Sound, ViewAgrees
  <2>. QED  BY <1>2, <2>1, <2>2, Zenon DEF BarsRight, RulersRight
<1>5. /\ Kept(w, u) /\ w.frozen = 0 /\ w.text = u.text
      /\ HasPresentation(u) /\ BarsRight(u) /\ RulersRight(u) => BarsRight(w) /\ RulersRight(w)
      /\ IF Junk \in {u.text[b] : b \in Axes} THEN w = u
         ELSE w.text \in [Axes -> Int] /\ w.position = Parse(w)
  BY <1>2, <1>3, TextboxChanged
<1>6. /\ w \in Windows /\ w.aspect \in Aspects /\ Selected(w, v) /\ w.zoom = v.zoom /\ w.zooms = v.zooms
      /\ (HasPresentation(w) <=> HasPresentation(v))
  BY <1>1, <1>2, <1>3, <1>5 DEF Kept, Selected, HasPresentation
<1>7. Junk \in {w.text[b] : b \in Axes} \/ w.text = Display(w)
  <2>1. CASE Junk \in {u.text[b] : b \in Axes}
    BY <1>5, <2>1, Zenon
  <2>2. CASE Junk \notin {u.text[b] : b \in Axes}
    <3>1. w.text \in [Axes -> Int] /\ w.position = Parse(w)  BY <1>5, <2>2
    <3>. QED  BY <1>6, <3>1, ParseIs
  <2>. QED  BY <2>1, <2>2
<1>8. HasPresentation(v) => w.zoom \in w.zooms  BY <1>6 DEF Sound, ViewAgrees
<1>9. Sound(w)  BY <1>3, <1>4, <1>5, <1>6, <1>7, <1>8, BecomesSound
<1>10. Junk \notin {w.text[b] : b \in Axes} => w.position = Parse(w)  BY <1>5, Zenon
<1>. QED  BY <1>9, <1>10

\* A scroll bar at one of its ends.
LEMMA ScrollIs ==
    ASSUME NEW v, Sound(v), HasPresentation(v), NEW a \in Axes,
           NEW value \in v.bar[a].lower .. v.bar[a].last, value # v.bar[a].value,
           NEW u, u = [v EXCEPT !.bar[a].value = value],
           NEW w, w = OnScrollbarValueChanged(Signals, u, a)
    PROVE  Sound(w)
<1>1. v \in Windows /\ v.aspect \in Aspects /\ v.frozen = 0  BY DEF Sound, ViewAgrees
<1>. DEFINE A == Adjustment(v, a)
            b == [A EXCEPT !.value = value]
            p == [v.position EXCEPT ![a] = value]
            m == Moves(u, p)
<1>2. /\ BarsRight(v) /\ RulersRight(v) /\ v.zoom \in v.zooms
      /\ Junk \in {v.text[i] : i \in Axes} \/ v.text = Display(v)
  BY DEF Sound, ViewAgrees, BarsRight, RulersRight
<1>3. v.bar[a] = A  BY <1>2 DEF BarsRight
<1>4. /\ A \in Adjustments /\ A.lower <= A.last
      /\ (v.position[a] \in A.lower .. A.last => A.value = v.position[a])
  BY <1>1, AdjustmentIs
<1>5. v.bar \in [Axes -> Adjustments] /\ v.position \in Coordinates  BY <1>1, WindowIs
<1>. HIDE DEF A
<1>6. value \in Int /\ value \in A.lower .. A.last /\ value # A.value
  <2>1. A.lower \in Int /\ A.last \in Int  BY <1>4 DEF Adjustments
  <2>2. value \in A.lower .. A.last /\ value # A.value  BY <1>3
  <2>. QED  BY <1>4, <2>1, <2>2
<1>7. b \in Adjustments /\ b.value = value /\ b.lower = A.lower /\ b.last = A.last /\ b.page = A.page
  BY <1>4, <1>6 DEF Adjustments
<1>8. u = [v EXCEPT !.bar[a] = b]  BY <1>3
<1>. HIDE DEF b
<1>9. /\ Kept(u, v) /\ u.position = v.position /\ u.frozen = 0 /\ u.text = v.text /\ u.ruler = v.ruler
      /\ u.bar = [v.bar EXCEPT ![a] = b]
  <2>1. b \in Adjustments  BY <1>7
  <2>2. v.frozen = 0  BY <1>1
  <2>. DEFINE x == [v EXCEPT !.bar[a] = b]
  <2>3. /\ Kept(x, v) /\ x.position = v.position /\ x.frozen = v.frozen /\ x.text = v.text /\ x.ruler = v.ruler
        /\ x.bar = [v.bar EXCEPT ![a] = b]
    BY <1>1, <2>1, BarSet
  <2>4. u = x  BY <1>8
  <2>. HIDE DEF x
  <2>. QED  BY <2>2, <2>3, <2>4
<1>10. u \in Windows  BY <1>9 DEF Kept
<1>11. u.bar[a] = b /\ \A c \in Axes : c # a => u.bar[c] = v.bar[c]  BY <1>5, <1>9
<1>12. /\ p \in Coordinates /\ p[a] = value /\ \A c \in Axes : c # a => p[c] = v.position[c]
  BY <1>5, <1>6 DEF Coordinates, Axes
<1>13. p # u.position
  <2>. SUFFICES ASSUME p = u.position PROVE FALSE  OBVIOUS
  <2>1. v.position[a] = value  BY <1>9, <1>12
  <2>. QED  BY <1>4, <1>6, <2>1
<1>14. w = Signals[Call(u, p, "SCROLLBAR")]
  <2>1. u.bar[a].value = value  BY <1>7, <1>11
  <2>. QED  BY <1>9, <2>1 DEF OnScrollbarValueChanged
<1>. HIDE DEF p
<1>15. Follows(w, m, "SCROLLBAR")  BY <1>9, <1>10, <1>12, <1>13, <1>14, SignalMovesTo
<1>16. /\ Kept(m, u) /\ m \in Windows /\ m.position = p /\ m.frozen = 0
       /\ m.bar = u.bar /\ m.text = u.text /\ m.ruler = u.ruler
  BY <1>9, <1>10, <1>12, MoveIs
<1>. HIDE DEF m
<1>17. /\ Kept(w, m) /\ w \in Windows /\ w.position = p /\ w.frozen = 0
       /\ \A c \in Axes : w.bar[c] \in {m.bar[c], Adjustment(w, c)}
       /\ (HasPresentation(w) <=> HasPresentation(m))
       /\ HasPresentation(m) => RulersRight(w) /\ w.text = Display(w)
  <2>1. m \in Windows /\ m.position = p /\ m.frozen = 0  BY <1>16
  <2>2. "SCROLLBAR" # "TEXTBOX"  OBVIOUS
  <2>3. /\ Kept(w, m) /\ w \in Windows /\ w.position = m.position /\ w.frozen = m.frozen
        /\ \A c \in Axes : w.bar[c] \in {m.bar[c], Adjustment(w, c)} /\ Adjustment(w, c) = Adjustment(m, c)
        /\ w.text \in {m.text, Display(w)} /\ Display(w) = Display(m)
        /\ (HasPresentation(w) <=> HasPresentation(m))
        /\ HasPresentation(m) =>
             /\ "SCROLLBAR" # "SCROLLBAR" => BarsRight(w)
             /\ RulersRight(w)
             /\ "SCROLLBAR" # "TEXTBOX" => w.text = Display(w)
    BY <1>15, <2>1, FollowsIs
  <2>4. \A c \in Axes : w.bar[c] \in {m.bar[c], Adjustment(w, c)}  BY <2>3
  <2>5. HasPresentation(m) => RulersRight(w) /\ w.text = Display(w)  BY <2>2, <2>3
  <2>6. w \in Windows /\ w.position = p /\ w.frozen = 0  BY <2>1, <2>3
  <2>. QED  BY <2>3, <2>4, <2>5, <2>6
<1>18. Kept(w, v)  BY <1>9, <1>16, <1>17, KeptTwice
<1>19. /\ w.aspect \in Aspects /\ Selected(w, v) /\ w.zoom = v.zoom /\ w.zooms = v.zooms /\ HasPresentation(m)
  BY <1>1, <1>9, <1>16, <1>18 DEF Kept, Selected, HasPresentation
<1>20. ASSUME NEW c \in Axes PROVE w.bar[c] = Adjustment(w, c)
  <2>1. CASE c # a
    <3>1. m.bar[c] = Adjustment(v, c)  BY <1>2, <1>11, <1>16, <2>1 DEF BarsRight
    <3>2. Adjustment(w, c) = Adjustment(v, c)  BY <1>1, <1>12, <1>17, <1>18, <2>1, SameRange
    <3>. QED  BY <1>17, <3>1, <3>2
  <2>2. CASE c = a
    <3>. DEFINE B == Adjustment(w, a)
    <3>1. B.lower = A.lower /\ B.last = A.last /\ B.page = A.page  BY <1>1, <1>18, SameRange DEF A
    <3>2. B \in Adjustments /\ (w.position[a] \in B.lower .. B.last => B.value = w.position[a])
      BY <1>17, AdjustmentIs
    <3>. HIDE DEF B
    <3>3. B.value = value  BY <1>6, <1>12, <1>17, <3>1, <3>2
    <3>4. B = b  BY <1>7, <3>1, <3>2, <3>3 DEF Adjustments
    <3>5. m.bar[a] = b  BY <1>11, <1>16
    <3>6. w.bar[a] \in {m.bar[a], B}  BY <1>17 DEF B
    <3>7. w.bar[a] = B  BY <3>4, <3>5, <3>6
    <3>. QED  BY <2>2, <3>7 DEF B
  <2>. QED  BY <2>1, <2>2
<1>21. BarsRight(w)  BY <1>20 DEF BarsRight
<1>. QED  BY <1>2, <1>17, <1>19, <1>21, BecomesSound

\* The mouse drags the view along.
LEMMA DragIs ==
    ASSUME NEW v, Sound(v), NEW mouse \in Coordinates,
           NEW p, p = Minus(v.position, Scale(Minus(mouse, v.cached), PerPixel(v.zoom))),
           NEW u, u = [v EXCEPT !.cached = mouse],
           NEW w, w = UpdateXY(Signals, u, p, "OTHER")
    PROVE  Sound(w) /\ Under(mouse, w) = Under(v.cached, v)
<1>1. v \in Windows /\ v.aspect \in Aspects /\ v.frozen = 0  BY DEF Sound, ViewAgrees
<1>2. v.position \in Coordinates /\ v.cached \in Coordinates  BY <1>1, WindowIs
<1>3. PerPixel(v.zoom) \in Int  BY <1>1, <1>2, UnderIs
<1>. DEFINE k == PerPixel(v.zoom)
            d == Minus(mouse, v.cached)
            s == Scale(d, k)
<1>4. d \in Coordinates /\ \A a \in Axes : d[a] = mouse[a] - v.cached[a]
  <2>1. d \in Coordinates  BY <1>2, PointsAre
  <2>2. \A a \in Axes : d[a] = mouse[a] - v.cached[a]  BY <1>2, AxisOf
  <2>. QED  BY <2>1, <2>2
<1>. HIDE DEF d
<1>5. k \in Int  BY <1>3
<1>6. s \in Coordinates /\ \A a \in Axes : s[a] = d[a] * k
  <2>. HIDE DEF k
  <2>. QED  BY <1>4, <1>5, ScaleIs
<1>7. p = Minus(v.position, s)  BY DEF d
<1>. HIDE DEF s
<1>8. p \in Coordinates /\ \A a \in Axes : p[a] = v.position[a] - s[a]
  <2>1. Minus(v.position, s) \in Coordinates  BY <1>2, <1>6, PointsAre
  <2>2. \A a \in Axes : Minus(v.position, s)[a] = v.position[a] - s[a]  BY <1>2, <1>6, AxisOf
  <2>. QED  BY <1>7, <2>1, <2>2
<1>9. Held(u, v) /\ Selected(u, v)  BY <1>1, CachedSet
<1>10. Sound(u)  BY <1>9, HeldSound
<1>11. u \in Windows /\ u.frozen = 0 /\ u.aspect \in Aspects  BY <1>10 DEF Sound, ViewAgrees
<1>12. Sound(w) /\ w.position = p /\ w.zoom = v.zoom
  <2>1. CASE u.position = p
    <3>1. w = u  BY <2>1 DEF UpdateXY
    <3>. QED  BY <1>9, <1>10, <2>1, <3>1 DEF Held
  <2>2. CASE u.position # p
    <3>. DEFINE m == Moves(u, p)
    <3>1. Follows(w, m, "OTHER")  BY <1>8, <1>11, <2>2, SignalsHandle, MovesTo
    <3>2. Kept(m, u) /\ m \in Windows /\ m.position = p /\ m.frozen = 0  BY <1>8, <1>11, MoveIs
    <3>. HIDE DEF m
    <3>3. /\ Kept(w, m) /\ w \in Windows /\ w.position = p /\ w.frozen = 0
          /\ (HasPresentation(w) <=> HasPresentation(m))
          /\ HasPresentation(m) => BarsRight(w) /\ RulersRight(w) /\ w.text = Display(w)
      BY <3>1, <3>2, FollowsIs
    <3>4. Kept(w, u)  BY <3>2, <3>3, KeptTwice
    <3>5. /\ w.aspect \in Aspects /\ Selected(w, u) /\ w.zoom = u.zoom /\ w.zooms = u.zooms
          /\ (HasPresentation(w) <=> HasPresentation(u))
      BY <1>11, <3>4 DEF Kept, Selected, HasPresentation
    <3>6. HasPresentation(w) => w.zoom \in w.zooms /\ BarsRight(w) /\ RulersRight(w) /\ w.text = Display(w)
      BY <1>10, <3>3, <3>5 DEF Sound, ViewAgrees
    <3>7. Sound(w)  BY <1>10, <3>3, <3>5, <3>6, BecomesSound
    <3>. QED  BY <1>9, <3>3, <3>5, <3>7 DEF Held
  <2>. QED  BY <2>1, <2>2
<1>13. w \in Windows  BY <1>12 DEF Sound
<1>14. ASSUME NEW a \in Axes PROVE Under(mouse, w)[a] = Under(v.cached, v)[a]
  <2>1. Under(mouse, w)[a] = p[a] + mouse[a] * k /\ Under(v.cached, v)[a] = v.position[a] + v.cached[a] * k
    BY <1>1, <1>2, <1>12, <1>13, UnderIs
  <2>2. v.position[a] \in Int /\ v.cached[a] \in Int /\ mouse[a] \in Int  BY <1>2 DEF Coordinates, Axes
  <2>. HIDE DEF k
  <2>3. d[a] = mouse[a] - v.cached[a] /\ s[a] = d[a] * k /\ p[a] = v.position[a] - s[a]  BY <1>4, <1>6, <1>8
  <2>4. d[a] * k = mouse[a] * k - v.cached[a] * k /\ mouse[a] * k \in Int /\ v.cached[a] * k \in Int
    BY <1>5, <2>2, <2>3
  <2>5. p[a] = v.position[a] - (mouse[a] * k - v.cached[a] * k)  BY <2>3, <2>4
  <2>. QED  BY <2>1, <2>2, <2>4, <2>5
<1>15. Under(mouse, w) \in Coordinates /\ Under(v.cached, v) \in Coordinates  BY <1>1, <1>2, <1>13, UnderIs
<1>. QED  BY <1>12, <1>14, <1>15, SamePoint

-----------------------------------------------------------------------------
(* The view.                                                               *)

\* Nothing is shown yet.
LEMMA InitSound ==
    ASSUME ViewInit
    PROVE  Sound(window)
<1>. DEFINE w == window
<1>1. /\ w.shown = NoPresentation /\ w.aspect = Twice(1) /\ w.frozen = 0
      /\ w.selection = NoSelection /\ w.pixels = NoSelection /\ w.grid = NoSelection
  BY DEF ViewInit
<1>2. NoPoint \in Coordinates /\ NoSelection \in Selections
  BY DEF NoPoint, NoSelection, Point, Coordinates, Selections
<1>3. w \in Windows
  <2>1. 0 \in 0..MaxInt
    <3>1. MaxInt \in Nat  BY SMT DEF MaxInt
    <3>. QED  BY <3>1
  <2>2. Point(Segment(0, 0), Segment(0, 0)) \in [x : Sides, y : Sides]
    BY <2>1 DEF Point, Segment, Sides
  <2>3. Twice(1) \in AspectRatios /\ Twice(0) \in [x : Nat, y : Nat]  BY DEF Twice, Point, AspectRatios
  <2>4. 0 \in Zooms /\ {MaxZoom} \in SUBSET Zooms  BY DEF Zooms, MaxZoom, Factors
  <2>5. NoBar \in Adjustments  BY DEF NoBar, Adjustments
  <2>6. [a \in Axes |-> NoBar] \in [Axes -> Adjustments] /\ [a \in Axes |-> Junk] \in [Axes -> Int \cup {Junk}]
    BY <2>5
  <2>7. [from |-> 0, to |-> 0, by |-> 1] \in [from : Int, to : Int, by : Nat \ {0}]  OBVIOUS
  <2>8. [a \in Axes |-> [from |-> 0, to |-> 0, by |-> 1]] \in [Axes -> [from : Int, to : Int, by : Nat \ {0}]]
    BY <2>7
  <2>. DEFINE rect == Point(Segment(0, 0), Segment(0, 0))
              aspect == Twice(1)
              size == Twice(0)
              bar == [a \in Axes |-> NoBar]
              text == [a \in Axes |-> Junk]
              ruler == [a \in Axes |-> [from |-> 0, to |-> 0, by |-> 1]]
              zooms == {MaxZoom}
  <2>9. w = [shown |-> NoPresentation, rect |-> rect, aspect |-> aspect, zoom |-> 0, zooms |-> zooms, size |-> size,
             position |-> NoPoint, frozen |-> 0, bar |-> bar, text |-> text, ruler |-> ruler,
             dragged |-> FALSE, cached |-> NoPoint,
             selecting |-> FALSE, selection |-> NoSelection, pixels |-> NoSelection, grid |-> NoSelection]
    BY DEF ViewInit
  <2>. HIDE DEF rect, aspect, size, bar, text, ruler, zooms, w
  <2>10. /\ rect \in [x : Sides, y : Sides] /\ aspect \in AspectRatios /\ size \in [x : Nat, y : Nat]
         /\ zooms \in SUBSET Zooms /\ bar \in [Axes -> Adjustments] /\ text \in [Axes -> Int \cup {Junk}]
         /\ ruler \in [Axes -> [from : Int, to : Int, by : Nat \ {0}]]
    BY <2>2, <2>3, <2>4, <2>6, <2>8 DEF rect, aspect, size, bar, text, ruler, zooms
  <2>. QED  BY <1>2, <2>4, <2>9, <2>10 DEF Windows
<1>4. w.aspect \in Aspects  BY <1>1 DEF Aspects
<1>5. ViewAgrees(w)  BY <1>1 DEF ViewAgrees, HasPresentation
<1>6. SelectionIsCovered(w)
  <2>. DEFINE unit == Fine * 1
              zero == NoPoint
  <2>1. unit \in Nat \ {0} /\ 0 % unit = 0 /\ 0 - 0 \in -unit .. unit /\ 2 * 0 - 2 * 0 \in -unit .. unit
    BY DEF Fine
  <2>2. \A a \in Axes : Twice(1)[a] = 1 /\ NoPoint[a] = 0  BY DEF Axes, Twice, Point, NoPoint
  <2>3. NoSelection.start = NoPoint /\ NoSelection.end = NoPoint  BY DEF NoSelection
  <2>4. Twice(1) \in Aspects  BY DEF Aspects
  <2>. HIDE DEF unit, w
  <2>5. ASSUME NEW a \in Axes
        PROVE  LET s == w.selection
                   t == w.pixels
                   g == w.grid
                   ordered(b, p, q) == IF s.start[b] <= s.end[b] THEN p[b] <= q[b] ELSE q[b] <= p[b]
                   near(p, q, n) == p % n = 0 /\ p - q \in -n .. n
                   nearest(p, q, n) == p % n = 0 /\ 2 * p - 2 * q \in -n .. n
               IN /\ ordered(a, t.start, s.start) /\ ordered(a, s.end, t.end)
                  /\ near(t.start[a], s.start[a], Fine * Twice(1)[a]) /\ near(t.end[a], s.end[a], Fine * Twice(1)[a])
                  /\ nearest(g.start[a], s.start[a], Fine * Twice(1)[a])
                  /\ nearest(g.end[a], s.end[a], Fine * Twice(1)[a])
    <3>1. /\ w.selection.start[a] = 0 /\ w.selection.end[a] = 0
          /\ w.pixels.start[a] = 0 /\ w.pixels.end[a] = 0
          /\ w.grid.start[a] = 0 /\ w.grid.end[a] = 0
      BY <1>1, <2>2, <2>3
    <3>2. Fine * Twice(1)[a] = unit  BY <2>2 DEF unit
    <3>3. 0 <= 0  OBVIOUS
    <3>. QED  BY <2>1, <3>1, <3>2, <3>3
  <2>. QED  BY <2>4, <2>5 DEF SelectionIsCovered, Covered
<1>. QED  BY <1>3, <1>4, <1>5, <1>6 DEF Sound

\* Every event leaves a window that is right, and what the user holds on to where it was.
LEMMA ViewSteps ==
    ASSUME Sound(window), ViewNext
    PROVE  Sound(window') /\ HoldStays
<1>. DEFINE v == window
<1>0. v \in Windows /\ v.frozen = 0 /\ v.zooms \in SUBSET Zooms /\ v.cached \in Coordinates
  BY DEF Sound, ViewAgrees, Windows
<1>1. ASSUME NEW p \in ViewPresentations \cup {NoPresentation}, SetPresentation(p)
      PROVE  Sound(window') /\ HoldStays
  <2>. DEFINE o == Opened(v, p)
              z == [o EXCEPT !.zoom = 0]
              m == Moves(z, Minus(NoPoint, HalfOf(Extent(z))))
              w == UpdateTextbox(Signals, UpdateScrollbars(Signals, UpdateZoom(m)))
  <2>1. window' = w /\ event'.kind = "open"  BY <1>1, Zenon DEF SetPresentation, Happens, Opened
  <2>2. Sound(w)  BY OpenIs
  <2>. HIDE DEF w
  <2>. QED  BY <2>1, <2>2 DEF HoldStays
<1>2. ASSUME NEW size \in WindowSizes, Resize(size)
      PROVE  Sound(window') /\ HoldStays
  <2>. DEFINE m == Moves(v, Plus(v.position, HalfOf(Scale(Minus(v.size, size), PerPixel(v.zoom)))))
              w == Unfrozen(UpdateScrollbars(Signals, UpdateZoom([Frozen(m) EXCEPT !.size = size])))
  <2>1. window' = w /\ event'.kind = "resize"  BY <1>2, Zenon DEF Resize, Happens
  <2>2. size \in [x : Nat, y : Nat]  BY MouseAssumption
  <2>3. Sound(w) /\ Centre(w) = Centre(v)  BY <2>2, ResizeIs
  <2>. HIDE DEF w
  <2>. QED  BY <2>1, <2>3 DEF HoldStays
<1>3. ASSUME NEW mouse \in MousePoints, NEW up \in BOOLEAN, ScrollWheel(mouse, up)
      PROVE  Sound(window') /\ HoldStays
  <2>. DEFINE zoom == Smallest(MaxZoom, IF up THEN window.zoom + 1 ELSE window.zoom - 1)
              w == ZoomTo(v, zoom, mouse)
  <2>1. window' = ZoomAtCentre(w, zoom) /\ event' = [kind |-> "wheel", at |-> mouse] /\ zoom \in v.zooms
    BY <1>3, Zenon DEF ScrollWheel, Happens
  <2>. HIDE DEF zoom
  <2>2. mouse \in Coordinates  BY MouseAssumption
  <2>3. Sound(w) /\ w.zoom = zoom /\ Under(mouse, w) = Under(mouse, v)  BY <2>1, <2>2, WheelIs
  <2>. HIDE DEF w
  <2>4. window' = w  BY <2>1, <2>3 DEF ZoomAtCentre
  <2>5. event'.kind = "wheel" /\ event'.at = mouse  BY <2>1
  <2>. QED  BY <2>3, <2>4, <2>5 DEF HoldStays
<1>4. ASSUME NEW zoom, ChooseZoom(zoom)
      PROVE  Sound(window') /\ HoldStays
  <2>. DEFINE w == ZoomAtCentre(v, zoom)
  <2>1. window' = w /\ event'.kind = "zoombox" /\ zoom \in v.zooms /\ zoom # v.zoom
    BY <1>4, Zenon DEF ChooseZoom, Happens
  <2>2. Sound(w) /\ Centre(w) = Centre(v)  BY <2>1, ChoiceIs
  <2>. HIDE DEF w
  <2>. QED  BY <2>1, <2>2 DEF HoldStays
<1>5. ASSUME NEW a \in Axes, NEW text \in Typed \cup {Junk}, TypeText(a, text)
      PROVE  Sound(window') /\ HoldStays
  <2>. DEFINE u == [v EXCEPT !.text[a] = text]
              w == OnTextboxValueChanged(Signals, u)
  <2>1. window' = w /\ event'.kind = "type"  BY <1>5, Zenon DEF TypeText, Happens
  <2>2. text \in Int \cup {Junk}  BY TypedAssumption
  <2>3. Sound(w) /\ (Junk \notin {w.text[b] : b \in Axes} => w.position = Parse(w))  BY <2>2, TypeIs
  <2>. HIDE DEF w
  <2>. QED  BY <2>1, <2>3 DEF HoldStays
<1>6. ASSUME NEW a \in Axes, NEW value, Scroll(a, value)
      PROVE  Sound(window') /\ HoldStays
  <2>. DEFINE u == [v EXCEPT !.bar[a].value = value]
              w == OnScrollbarValueChanged(Signals, u, a)
  <2>1. window' = w /\ event'.kind = "scroll" /\ HasPresentation(v) /\ value # v.bar[a].value
        /\ value \in v.bar[a].lower .. v.bar[a].last
    BY <1>6, Zenon DEF Scroll, Happens
  <2>2. Sound(w)  BY <2>1, ScrollIs
  <2>. HIDE DEF w
  <2>. QED  BY <2>1, <2>2 DEF HoldStays
<1>7. ASSUME NEW mouse \in MousePoints, StartDrag(mouse)
      PROVE  Sound(window') /\ HoldStays
  <2>1. window' = [v EXCEPT !.dragged = TRUE, !.cached = mouse] /\ event'.kind = "press"
    BY <1>7, Zenon DEF StartDrag, Happens
  <2>2. mouse \in Coordinates  BY MouseAssumption
  <2>3. Held(window', v) /\ Selected(window', v)  BY <1>0, <2>1, <2>2, DragSet
  <2>. QED  BY <2>1, <2>3, HeldSound DEF HoldStays
<1>8. ASSUME NEW mouse \in MousePoints, Drag(mouse)
      PROVE  Sound(window') /\ HoldStays
  <2>. DEFINE p == Minus(v.position, Scale(Minus(mouse, v.cached), PerPixel(v.zoom)))
              u == [v EXCEPT !.cached = mouse]
              w == UpdateXY(Signals, u, p, "OTHER")
  <2>1. window' = w /\ event' = [kind |-> "drag", at |-> mouse]  BY <1>8, Zenon DEF Drag, Happens
  <2>2. mouse \in Coordinates  BY MouseAssumption
  <2>3. Sound(w) /\ Under(mouse, w) = Under(v.cached, v)  BY <2>2, DragIs
  <2>. HIDE DEF w
  <2>4. event'.kind = "drag" /\ event'.at = mouse  BY <2>1
  <2>. QED  BY <2>1, <2>3, <2>4 DEF HoldStays
<1>9. ASSUME NEW mouse \in MousePoints, StartSelection(mouse)
      PROVE  Sound(window') /\ HoldStays
  <2>. DEFINE p == WindowPoint(v, mouse)
              w == [Selects(v, [start |-> p, end |-> p]) EXCEPT !.selecting = TRUE]
  <2>1. window' = w /\ event'.kind = "press"  BY <1>9, Zenon DEF StartSelection, Happens
  <2>2. mouse \in Coordinates  BY MouseAssumption
  <2>3. Sound(w)  BY <2>2, SelectionStarts
  <2>. HIDE DEF w
  <2>. QED  BY <2>1, <2>3 DEF HoldStays
<1>10. ASSUME NEW mouse \in MousePoints, ExtendSelection(mouse) \/ EndSelection(mouse)
       PROVE  Sound(window') /\ HoldStays
  <2>. DEFINE p == WindowPoint(v, mouse)
              w == Selects(v, [v.selection EXCEPT !.end = p])
  <2>1. /\ window' = w \/ window' = [w EXCEPT !.selecting = FALSE]
        /\ event' = [kind |-> "select", at |-> mouse] \/ event' = [kind |-> "release", at |-> mouse]
    <3>1. CASE ExtendSelection(mouse)  BY <3>1, Zenon DEF ExtendSelection, Extended, Happens
    <3>2. CASE EndSelection(mouse)  BY <3>2, Zenon DEF EndSelection, Extended, Happens
    <3>. QED  BY <1>10, <3>1, <3>2
  <2>2. mouse \in Coordinates  BY MouseAssumption
  <2>3. Sound(w) /\ Sound([w EXCEPT !.selecting = FALSE])  BY <2>2, SelectionExtends
  <2>. HIDE DEF w
  <2>4. event'.kind = "select" \/ event'.kind = "release"  BY <2>1
  <2>5. Sound(window')  BY <2>1, <2>3
  <2>. QED  BY <2>4, <2>5 DEF HoldStays
<1>11. ASSUME EndDrag
       PROVE  Sound(window') /\ HoldStays
  <2>1. window' = [v EXCEPT !.dragged = FALSE, !.cached = NoPoint] /\ event'.kind = "release"
    BY <1>11, Zenon DEF EndDrag, Happens
  <2>2. NoPoint \in Coordinates  BY DEF NoPoint, Point, Coordinates
  <2>3. Held(window', v) /\ Selected(window', v)  BY <1>0, <2>1, <2>2, DragSet
  <2>. QED  BY <2>1, <2>3, HeldSound DEF HoldStays
<1>. QED  BY <1>1, <1>2, <1>3, <1>4, <1>5, <1>6, <1>7, <1>8, <1>9, <1>10, <1>11 DEF ViewNext

\* The invariant of the view.
LEMMA SoundStays == ViewSpec => []Sound(window)
<1>1. ViewInit => Sound(window)  BY InitSound
<1>2. Sound(window) /\ [ViewNext]_viewVars => Sound(window)'
  <2>. SUFFICES ASSUME Sound(window), [ViewNext]_viewVars PROVE Sound(window)'  OBVIOUS
  <2>1. CASE ViewNext  BY <2>1, ViewSteps, Zenon
  <2>2. CASE UNCHANGED viewVars
    <3>1. window' = window  BY <2>2 DEF viewVars
    <3>. QED  BY <3>1, Zenon
  <2>. QED  BY <2>1, <2>2
<1>. QED  BY <1>1, <1>2, PTL DEF ViewSpec

\* After every event the scroll bars, the rulers, the text boxes and the zoom box of a
\* window tell of the same position, however the handlers nested (view.cc), and what a
\* selection listener was told covers what was selected.
THEOREM WindowStaysRight == ViewSpec => []WindowIsRight
<1>1. Sound(window) => WindowIsRight  BY DEF Sound, WindowIsRight
<1>. QED  BY <1>1, SoundStays, PTL

\* What is under the mouse stays there when zooming with the wheel or dragging, and the
\* centre when the window changes size or a zoom level is chosen; text that is typed
\* is the position (view.cc).
THEOREM PointsStay == ViewSpec => PointStays
<1>1. Sound(window) /\ [ViewNext]_viewVars => [HoldStays]_viewVars
  BY ViewSteps, Zenon
<1>. QED  BY <1>1, SoundStays, PTL DEF ViewSpec, PointStays
=============================================================================
