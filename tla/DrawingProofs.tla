--------------------------- MODULE DrawingProofs ----------------------------
(***************************************************************************)
(* Proofs about what is on the screen: Redraw, for any set of tiles, areas,*)
(* zoom levels and workers; Progress, for any number of bitmaps and windows;*)
(* and Tools, for any selections and any number of jobs that wait.         *)
(***************************************************************************)
EXTENDS Redraw, Progress, Tools, Induction

-----------------------------------------------------------------------------
(***************************************************************************)
(* Redraw: which tiles a view asks for, keeps and draws.                   *)
(***************************************************************************)

-----------------------------------------------------------------------------
(* The inductive invariant.  Its parts say what is known in each phase of  *)
(* a redraw: RedrawIsRight only speaks of the phases "idle" and "draw".    *)

UITypes ==
    /\ ui \in [pc : {"idle", "setNeeded", "swap", "setViewData", "splice", "unpend", "invalidate",
                     "draw"},
              todo : SUBSET ViewTiles]
    /\ after \in {"unpend", "invalidate"}

\* A worker reports one tile at a time.
WorkersFit ==
    \A w \in Drawers : IF drawer[w].pc = "idle" THEN drawer[w].todo = {}
                       ELSE \E t \in ViewTiles : drawer[w].todo = {t}

\* setNeededTiles() is asking for what the view is to show.
Asking == ui.pc \in {"swap", "setViewData", "splice", "unpend"} /\ after = "unpend"

\* What is needed, and what is to be shown.
WantIsNeeded ==
    /\ ui.pc # "idle" => shownView.state = "open"
    /\ ui.pc = "unpend" => after = "unpend"
    /\ ui.pc \notin {"setViewData", "draw"} => ui.todo = {}
    /\ (ui.pc \in {"setNeeded", "draw"} \/ Asking) => ~shownView.dirty
    /\ Asking => needed = shownView.want
    /\ ui.pc = "draw" => ui.todo \subseteq shownView.want.tiles
    /\ (ui.pc = "draw" \/ (ui.pc = "idle" /\ shownView.state = "open" /\ ~shownView.dirty))
          => shownView.want.tiles \subseteq needed.tiles

\* In which list the tiles are.
ListsFit ==
    /\ shownView.state # "closed" =>
        /\ ui.pc \in {"idle", "setNeeded", "unpend", "invalidate", "draw"}
              => observed = needed.tiles /\ kept = needed.tiles
        /\ ui.pc = "setViewData"
              => /\ observed = {} /\ ui.todo \subseteq needed.tiles
                 /\ kept = needed.tiles \ ui.todo /\ newStuff = kept
        /\ ui.pc = "splice"
              => observed = {} /\ kept = needed.tiles /\ newStuff = kept
    /\ ui.pc \notin {"setViewData", "splice"} => newStuff = {}

\* A tile of which the view keeps the image has been asked for one.
KeptIsAsked == \A t \in kept : viewTile[t].image # "none"

Steady == ui.pc \in {"idle", "draw"} /\ shownView.state = "open"

PendingIsOrdered == (Steady /\ pending) => RedrawOrdered

\* What has been drawn without an image will be redrawn.
DrawnIsNotMissed ==
    (Steady /\ ~RedrawOrdered) =>
        \A t \in shownView.want.tiles \ (shownView.shown \cup ui.todo) :
            \/ viewTile[t].image \in {"working", "computed"}
            \/ \E w \in Drawers : t \in drawer[w].todo

RTypes == RedrawTypeOK /\ UITypes
RInv == RTypes /\ WorkersFit /\ WantIsNeeded /\ ListsFit /\ KeptIsAsked /\ PendingIsOrdered /\ DrawnIsNotMissed

-----------------------------------------------------------------------------
LEMMA RestartedTiles ==
    ASSUME RTypes, NEW S \in SUBSET ViewTiles, NEW b \in BOOLEAN
    PROVE  /\ Restarted(S, b) \in [ViewTiles -> [zoom : ViewZooms \cup {0},
                                                image : {"none", "working", "computed", "ready"}]]
           /\ \A t \in ViewTiles : t \notin S => Restarted(S, b)[t] = viewTile[t]
           /\ \A t \in ViewTiles : /\ Restarted(S, b)[t].zoom = viewTile[t].zoom
                                   /\ (t \in S /\ b /\ viewTile[t].image # "none")
                                        => Restarted(S, b)[t].image = "working"
                                   /\ (t \in S /\ ~(b /\ viewTile[t].image # "none"))
                                        => Restarted(S, b)[t].image = "none"
BY DEF Restarted, RTypes, RedrawTypeOK

LEMMA TypesStep ==
    ASSUME RTypes, RedrawNext
    PROVE  RTypes'
<1>1. CASE RunAsync
  <2>1. asyncs' \in Nat
    BY <1>1 DEF RunAsync, RTypes, RedrawTypeOK
  <2>. QED
    BY <1>1, <2>1 DEF RunAsync, lists, RTypes, RedrawTypeOK, UITypes
<1>2. CASE StartRedraw
  BY <1>2, AreasAssumption DEF StartRedraw, At, lists, RTypes, RedrawTypeOK, UITypes
<1>3. CASE SetNeededTiles
  BY <1>3, AreasAssumption DEF SetNeededTiles, At, lists, RTypes, RedrawTypeOK, UITypes
<1>4. CASE PutAside
  BY <1>4, AreasAssumption DEF PutAside, At, lists, RTypes, RedrawTypeOK, UITypes
<1>5. ASSUME NEW t \in ViewTiles, AskTile(t) PROVE RTypes'
  BY <1>5, AreasAssumption DEF AskTile, At, IsFirst, Started, AtZoom, lists, RTypes, RedrawTypeOK, UITypes
<1>6. CASE DropOld
  BY <1>6, AreasAssumption, RestartedTiles DEF DropOld, At, lists, RTypes, RedrawTypeOK, UITypes
<1>7. CASE Splice
  BY <1>7, AreasAssumption DEF Splice, At, lists, RTypes, RedrawTypeOK, UITypes
<1>8. CASE Unpend
  BY <1>8, AreasAssumption DEF Unpend, At, lists, RTypes, RedrawTypeOK, UITypes
<1>9. ASSUME NEW t \in ViewTiles, DrawTile(t) PROVE RTypes'
  BY <1>9, AreasAssumption DEF DrawTile, At, IsFirst, Idle, HasImage, lists, RTypes, RedrawTypeOK, UITypes
<1>10. CASE InvalidateView
  BY <1>10, AreasAssumption DEF InvalidateView, Idle, At, lists, RTypes, RedrawTypeOK, UITypes
<1>11. CASE OpenBitmap
  <2>1. requests' \in 0..MaxRequests
    BY <1>11, RequestsAssumption DEF OpenBitmap, Request, RTypes, RedrawTypeOK
  <2>2. shownView' \in [state : {"new", "open", "closed"},
                       want : [tiles : ViewAreas \cup {{}}, zoom : ViewZooms \cup {0}],
                       shown : SUBSET ViewTiles, dirty : BOOLEAN]
    <3>1. PICK a \in ViewAreas, z \in ViewZooms : shownView' = [shownView EXCEPT !.state = "open", !.want = [tiles |-> a, zoom |-> z],
                                                  !.dirty = TRUE]
      BY <1>11 DEF OpenBitmap
    <3>. QED
      BY <3>1 DEF RTypes, RedrawTypeOK
  <2>. QED
    BY <1>11, <2>1, <2>2 DEF OpenBitmap, lists, RTypes, RedrawTypeOK, UITypes
<1>12. CASE LookElsewhere
  <2>1. requests' \in 0..MaxRequests
    BY <1>12, RequestsAssumption DEF LookElsewhere, Request, RTypes, RedrawTypeOK
  <2>2. shownView' \in [state : {"new", "open", "closed"},
                       want : [tiles : ViewAreas \cup {{}}, zoom : ViewZooms \cup {0}],
                       shown : SUBSET ViewTiles, dirty : BOOLEAN]
    <3>1. PICK a \in ViewAreas, z \in ViewZooms : shownView' = [shownView EXCEPT !.want = [tiles |-> a, zoom |-> z], !.dirty = TRUE,
                                                  !.shown = {}]
      BY <1>12 DEF LookElsewhere
    <3>. QED
      BY <3>1 DEF RTypes, RedrawTypeOK
  <2>. QED
    BY <1>12, <2>1, <2>2 DEF LookElsewhere, lists, RTypes, RedrawTypeOK, UITypes
<1>13. CASE ClearVolatileStuff
  <2>1. requests' \in 0..MaxRequests
    BY <1>13, RequestsAssumption DEF ClearVolatileStuff, Request, RTypes, RedrawTypeOK
  <2>. QED
    BY <1>13, <2>1, RestartedTiles DEF ClearVolatileStuff, At, lists, RTypes, RedrawTypeOK, UITypes
<1>14. CASE CloseBitmap
  BY <1>14, AreasAssumption DEF CloseBitmap, lists, RTypes, RedrawTypeOK, UITypes
<1>15. CASE DestroyViewData
  BY <1>15, AreasAssumption, RestartedTiles, ZenonT(60) DEF DestroyViewData, Telling, lists, RTypes, RedrawTypeOK, UITypes
<1>16. ASSUME NEW t \in ViewTiles, Compute(t) PROVE RTypes'
  BY <1>16, AreasAssumption DEF Compute, lists, RTypes, RedrawTypeOK, UITypes
<1>17. ASSUME NEW w \in Drawers, NEW t \in ViewTiles, Report(w, t) PROVE RTypes'
  BY <1>17, AreasAssumption DEF Report, At, lists, RTypes, RedrawTypeOK, UITypes
<1>18. ASSUME NEW w \in Drawers, GetObservers(w) PROVE RTypes'
  BY <1>18, AreasAssumption DEF GetObservers, Idle, At, lists, RTypes, RedrawTypeOK, UITypes
<1>19. ASSUME NEW w \in Drawers, TileLoaded(w) PROVE RTypes'
  BY <1>19, AreasAssumption DEF TileLoaded, Idle, At, Telling, lists, RTypes, RedrawTypeOK, UITypes
<1>20. ASSUME NEW t \in ViewTiles, ForgetTile(t) PROVE RTypes'
  BY <1>20, AreasAssumption DEF ForgetTile, lists, RTypes, RedrawTypeOK, UITypes
<1>. QED
  BY <1>1, <1>2, <1>3, <1>4, <1>5, <1>6, <1>7, <1>8, <1>9, <1>10, <1>11, <1>12, <1>13, <1>14, <1>15, <1>16, <1>17, <1>18, <1>19, <1>20
  DEF RedrawNext, RedrawUI, RedrawWorker

LEMMA WorkersStep ==
    ASSUME RInv, RedrawNext
    PROVE  WorkersFit'
<1>1. CASE UNCHANGED drawer
  BY <1>1 DEF RInv, WorkersFit
<1>2. ASSUME NEW w \in Drawers, NEW t \in ViewTiles, Report(w, t) PROVE WorkersFit'
  BY <1>2 DEF Report, At, RInv, RTypes, RedrawTypeOK, WorkersFit
<1>3. ASSUME NEW w \in Drawers, GetObservers(w) PROVE WorkersFit'
  BY <1>3 DEF GetObservers, Idle, At, RInv, RTypes, RedrawTypeOK, WorkersFit
<1>4. ASSUME NEW w \in Drawers, TileLoaded(w) PROVE WorkersFit'
  BY <1>4 DEF TileLoaded, Idle, At, RInv, RTypes, RedrawTypeOK, WorkersFit
<1>. QED
  BY <1>1, <1>2, <1>3, <1>4
  DEF RedrawNext, RedrawUI, RedrawWorker, RunAsync, StartRedraw, SetNeededTiles, PutAside, AskTile,
      DrawTile, DropOld, Splice, Unpend, InvalidateView, OpenBitmap, LookElsewhere,
      ClearVolatileStuff, CloseBitmap, DestroyViewData, Compute, ForgetTile

LEMMA AskedStep ==
    ASSUME RInv, RedrawNext
    PROVE  KeptIsAsked'
<1>1. CASE UNCHANGED <<kept, viewTile>>
  BY <1>1 DEF RInv, KeptIsAsked
<1>2. CASE PutAside
  BY <1>2 DEF PutAside, KeptIsAsked
<1>3. ASSUME NEW t \in ViewTiles, AskTile(t) PROVE KeptIsAsked'
  BY <1>3 DEF AskTile, Started, AtZoom, RInv, RTypes, RedrawTypeOK, KeptIsAsked
<1>4. CASE DropOld
  <2>1. oldVolatile \ kept \in SUBSET ViewTiles /\ kept \subseteq ViewTiles
    BY DEF RInv, RTypes, RedrawTypeOK
  <2>2. \A t \in kept : viewTile'[t] = viewTile[t]
    <3>1. \A t \in ViewTiles : t \notin oldVolatile \ kept
                                  => Restarted(oldVolatile \ kept, TRUE)[t] = viewTile[t]
      BY <2>1, RestartedTiles DEF RInv
    <3>. QED
      BY <1>4, <2>1, <3>1 DEF DropOld
  <2>. QED
    BY <1>4, <2>2 DEF DropOld, RInv, KeptIsAsked
<1>5. CASE ClearVolatileStuff \/ DestroyViewData
  BY <1>5 DEF ClearVolatileStuff, DestroyViewData, KeptIsAsked
<1>6. ASSUME NEW t \in ViewTiles, Compute(t) PROVE KeptIsAsked'
  BY <1>6 DEF Compute, lists, RInv, RTypes, RedrawTypeOK, KeptIsAsked
<1>7. ASSUME NEW w \in Drawers, NEW t \in ViewTiles, Report(w, t) PROVE KeptIsAsked'
  BY <1>7 DEF Report, lists, RInv, RTypes, RedrawTypeOK, KeptIsAsked
<1>8. ASSUME NEW t \in ViewTiles, ForgetTile(t) PROVE KeptIsAsked'
  BY <1>8 DEF ForgetTile, lists, RInv, RTypes, RedrawTypeOK, KeptIsAsked
<1>. QED
  BY <1>1, <1>2, <1>3, <1>4, <1>5, <1>6, <1>7, <1>8
  DEF RedrawNext, RedrawUI, RedrawWorker, RunAsync, StartRedraw, SetNeededTiles, DrawTile, Splice,
      Unpend, InvalidateView, OpenBitmap, LookElsewhere, CloseBitmap, GetObservers, TileLoaded, lists

LEMMA WantStep ==
    ASSUME RInv, RedrawNext
    PROVE  WantIsNeeded'
<1>1. CASE UNCHANGED <<ui, after, shownView, needed>>
  BY <1>1 DEF RInv, WantIsNeeded, Asking
<1>2. CASE RunAsync
  BY <1>2 DEF RunAsync, lists, RInv, RTypes, RedrawTypeOK, UITypes, WantIsNeeded, Asking
<1>3. CASE StartRedraw
  BY <1>3 DEF StartRedraw, At, lists, RInv, RTypes, RedrawTypeOK, UITypes, WantIsNeeded, Asking
<1>4. CASE SetNeededTiles
  BY <1>4 DEF SetNeededTiles, At, lists, RInv, RTypes, RedrawTypeOK, UITypes, WantIsNeeded, Asking
<1>5. CASE PutAside
  BY <1>5 DEF PutAside, At, lists, RInv, RTypes, RedrawTypeOK, UITypes, WantIsNeeded, Asking
<1>6. ASSUME NEW t \in ViewTiles, AskTile(t) PROVE WantIsNeeded'
  BY <1>6 DEF AskTile, IsFirst, lists, RInv, RTypes, RedrawTypeOK, UITypes, WantIsNeeded, Asking
<1>7. CASE DropOld
  BY <1>7 DEF DropOld, At, lists, RInv, RTypes, RedrawTypeOK, UITypes, WantIsNeeded, Asking
<1>8. CASE Splice
  BY <1>8 DEF Splice, At, lists, RInv, RTypes, RedrawTypeOK, UITypes, WantIsNeeded, Asking
<1>9. CASE Unpend
  BY <1>9 DEF Unpend, At, lists, RInv, RTypes, RedrawTypeOK, UITypes, WantIsNeeded, Asking
<1>10. ASSUME NEW t \in ViewTiles, DrawTile(t) PROVE WantIsNeeded'
  BY <1>10 DEF DrawTile, Idle, At, IsFirst, lists, RInv, RTypes, RedrawTypeOK, UITypes, WantIsNeeded, Asking
<1>11. CASE InvalidateView
  BY <1>11 DEF InvalidateView, Idle, At, lists, RInv, RTypes, RedrawTypeOK, UITypes, WantIsNeeded, Asking
<1>12. CASE OpenBitmap
  BY <1>12 DEF OpenBitmap, Request, lists, RInv, RTypes, RedrawTypeOK, UITypes, WantIsNeeded, Asking
<1>13. CASE LookElsewhere
  BY <1>13 DEF LookElsewhere, Request, lists, RInv, RTypes, RedrawTypeOK, UITypes, WantIsNeeded, Asking
<1>14. CASE ClearVolatileStuff
  BY <1>14 DEF ClearVolatileStuff, Request, At, lists, RInv, RTypes, RedrawTypeOK, UITypes, WantIsNeeded, Asking
<1>15. CASE CloseBitmap
  BY <1>15 DEF CloseBitmap, lists, RInv, RTypes, RedrawTypeOK, UITypes, WantIsNeeded, Asking
<1>. QED
  BY <1>1, <1>2, <1>3, <1>4, <1>5, <1>6, <1>7, <1>8, <1>9, <1>10, <1>11, <1>12, <1>13, <1>14, <1>15
  DEF RedrawNext, RedrawUI, RedrawWorker, lists, DestroyViewData, Compute, Report, GetObservers, TileLoaded, ForgetTile

LEMMA ListsStep ==
    ASSUME RInv, RedrawNext
    PROVE  ListsFit'
<1>1. CASE UNCHANGED <<ui, shownView, needed, observed, kept, newStuff>>
  BY <1>1 DEF RInv, ListsFit, WantIsNeeded
<1>2. CASE RunAsync
  BY <1>2 DEF RunAsync, lists, RInv, RTypes, RedrawTypeOK, UITypes, ListsFit, WantIsNeeded
<1>3. CASE StartRedraw
  BY <1>3 DEF StartRedraw, At, lists, RInv, RTypes, RedrawTypeOK, UITypes, ListsFit, WantIsNeeded
<1>4. CASE SetNeededTiles
  BY <1>4 DEF SetNeededTiles, At, lists, RInv, RTypes, RedrawTypeOK, UITypes, ListsFit, WantIsNeeded
<1>5. CASE PutAside
  BY <1>5 DEF PutAside, At, lists, RInv, RTypes, RedrawTypeOK, UITypes, ListsFit, WantIsNeeded
<1>6. ASSUME NEW t \in ViewTiles, AskTile(t) PROVE ListsFit'
  BY <1>6 DEF AskTile, IsFirst, lists, RInv, RTypes, RedrawTypeOK, UITypes, ListsFit, WantIsNeeded
<1>7. CASE DropOld
  BY <1>7 DEF DropOld, At, lists, RInv, RTypes, RedrawTypeOK, UITypes, ListsFit, WantIsNeeded
<1>8. CASE Splice
  BY <1>8 DEF Splice, At, lists, RInv, RTypes, RedrawTypeOK, UITypes, ListsFit, WantIsNeeded
<1>9. CASE Unpend
  BY <1>9 DEF Unpend, At, lists, RInv, RTypes, RedrawTypeOK, UITypes, ListsFit, WantIsNeeded
<1>10. ASSUME NEW t \in ViewTiles, DrawTile(t) PROVE ListsFit'
  BY <1>10 DEF DrawTile, Idle, At, IsFirst, lists, RInv, RTypes, RedrawTypeOK, UITypes, ListsFit, WantIsNeeded
<1>11. CASE InvalidateView
  BY <1>11 DEF InvalidateView, Idle, At, lists, RInv, RTypes, RedrawTypeOK, UITypes, ListsFit, WantIsNeeded
<1>12. CASE OpenBitmap
  BY <1>12 DEF OpenBitmap, Request, lists, RInv, RTypes, RedrawTypeOK, UITypes, ListsFit, WantIsNeeded
<1>13. CASE LookElsewhere
  BY <1>13 DEF LookElsewhere, Request, lists, RInv, RTypes, RedrawTypeOK, UITypes, ListsFit, WantIsNeeded
<1>14. CASE ClearVolatileStuff
  BY <1>14 DEF ClearVolatileStuff, Request, At, lists, RInv, RTypes, RedrawTypeOK, UITypes, ListsFit, WantIsNeeded
<1>15. CASE CloseBitmap
  BY <1>15 DEF CloseBitmap, lists, RInv, RTypes, RedrawTypeOK, UITypes, ListsFit, WantIsNeeded
<1>16. CASE DestroyViewData
  BY <1>16 DEF DestroyViewData, lists, RInv, RTypes, RedrawTypeOK, UITypes, ListsFit, WantIsNeeded
<1>. QED
  BY <1>1, <1>2, <1>3, <1>4, <1>5, <1>6, <1>7, <1>8, <1>9, <1>10, <1>11, <1>12, <1>13, <1>14, <1>15, <1>16
  DEF RedrawNext, RedrawUI, RedrawWorker, lists, Compute, Report, GetObservers, TileLoaded, ForgetTile

\* What the phases that draw nothing do to the two: they are not steady, or
\* they have ordered a redraw.
LEMMA OrderedStep ==
    ASSUME RInv, RedrawNext
    PROVE  PendingIsOrdered' /\ DrawnIsNotMissed'
<1>. USE DEF RInv, PendingIsOrdered, DrawnIsNotMissed, Steady, RedrawOrdered
<1>1. CASE UNCHANGED <<shownView, pending, viewTile, ui, drawer, asyncs>>
  BY <1>1
<1>2. CASE RunAsync \/ LookElsewhere \/ OpenBitmap
  BY <1>2 DEF RunAsync, LookElsewhere, OpenBitmap, RTypes, RedrawTypeOK
<1>3. CASE InvalidateView
  BY <1>3 DEF InvalidateView, RTypes, RedrawTypeOK
<1>4. ASSUME StartRedraw \/ PutAside \/ DropOld \/ ClearVolatileStuff PROVE ~Steady'
  <2>1. StartRedraw => ~Steady'
    BY DEF StartRedraw, At
  <2>2. PutAside => ~Steady'
    BY DEF PutAside, At
  <2>3. DropOld => ~Steady'
    BY DEF DropOld, At
  <2>4. ClearVolatileStuff => ~Steady'
    BY DEF ClearVolatileStuff, At
  <2>. QED
    BY <1>4, <2>1, <2>2, <2>3, <2>4
<1>5. ASSUME NEW t \in ViewTiles, AskTile(t) PROVE ~Steady'
  BY <1>5 DEF AskTile, RTypes, UITypes
<1>6. CASE Splice
  BY <1>6 DEF Splice, At, RTypes, UITypes
<1>7. CASE SetNeededTiles
  BY <1>7 DEF SetNeededTiles, At
<1>8. CASE Unpend
  BY <1>8 DEF Unpend, At
<1>9. CASE CloseBitmap
  BY <1>9 DEF CloseBitmap, RTypes, RedrawTypeOK
<1>10. CASE DestroyViewData
  BY <1>10 DEF DestroyViewData, RTypes, RedrawTypeOK
<1>11. ASSUME NEW t \in ViewTiles, DrawTile(t)
       PROVE  PendingIsOrdered' /\ DrawnIsNotMissed'
  <2>1. Steady /\ UNCHANGED <<pending, viewTile, drawer, asyncs>>
    BY <1>11, WantStep DEF DrawTile, WantIsNeeded
  <2>2. /\ shownView'.want = shownView.want /\ shownView'.dirty = shownView.dirty
        /\ shownView'.shown = IF HasImage(t) THEN shownView.shown \cup {t} ELSE shownView.shown
        /\ ui'.todo = ui.todo \ {t}
    BY <1>11 DEF DrawTile, Idle, At, RTypes, RedrawTypeOK, UITypes
  <2>3. viewTile[t].image # "none"
    BY <1>11 DEF DrawTile, IsFirst, WantIsNeeded, ListsFit, KeptIsAsked
  <2>4. HasImage(t) \/ viewTile[t].image = "working"
    BY <2>3 DEF HasImage, RTypes, RedrawTypeOK
  <2>. QED
    BY <2>1, <2>2, <2>4
<1>12. ASSUME NEW t \in ViewTiles, Compute(t)
       PROVE  PendingIsOrdered' /\ DrawnIsNotMissed'
  BY <1>12 DEF Compute, RTypes, RedrawTypeOK
<1>13. ASSUME NEW w \in Drawers, NEW t \in ViewTiles, Report(w, t)
       PROVE  PendingIsOrdered' /\ DrawnIsNotMissed'
  <2>1. \A s \in ViewTiles : s # t => viewTile'[s] = viewTile[s]
    BY <1>13 DEF Report, RTypes, RedrawTypeOK
  <2>2. /\ drawer'[w].todo = {t} /\ drawer[w].todo = {}
        /\ \A v \in Drawers : v # w => drawer'[v] = drawer[v]
    BY <1>13 DEF Report, At, WorkersFit, RTypes, RedrawTypeOK
  <2>3. \A s \in ViewTiles :
           (\E v \in Drawers : s \in drawer[v].todo) => \E v \in Drawers : s \in drawer'[v].todo
    BY <2>2
  <2>4. \E v \in Drawers : t \in drawer'[v].todo
    BY <2>2
  <2>5. shownView.want.tiles \subseteq ViewTiles
    BY AreasAssumption DEF RTypes, RedrawTypeOK
  <2>6. UNCHANGED <<shownView, pending, ui, asyncs>>
    BY <1>13 DEF Report
  <2>. QED
    BY <2>1, <2>3, <2>4, <2>5, <2>6
<1>14. ASSUME NEW w \in Drawers, GetObservers(w)
       PROVE  PendingIsOrdered' /\ DrawnIsNotMissed'
  <2>1. /\ drawer'[w].todo # drawer[w].todo => ~(drawer[w].todo \subseteq observed)
        /\ \A v \in Drawers : v # w => drawer'[v] = drawer[v]
    BY <1>14 DEF GetObservers, Idle, At, RTypes, RedrawTypeOK
  <2>2. PICK t \in ViewTiles : drawer[w].todo = {t}
    BY <1>14 DEF GetObservers, WorkersFit
  <2>3. (Steady /\ ~RedrawOrdered) => shownView.want.tiles \subseteq observed
    BY DEF WantIsNeeded, ListsFit
  <2>. QED
    BY <1>14, <2>1, <2>2, <2>3 DEF GetObservers
<1>15. ASSUME NEW w \in Drawers, TileLoaded(w)
       PROVE  PendingIsOrdered' /\ DrawnIsNotMissed'
  <2>1. Steady => RedrawOrdered'
    BY <1>15 DEF TileLoaded, RTypes, RedrawTypeOK
  <2>. QED
    BY <1>15, <2>1 DEF TileLoaded
<1>16. ASSUME NEW t \in ViewTiles, ForgetTile(t)
       PROVE  PendingIsOrdered' /\ DrawnIsNotMissed'
  <2>1. (Steady /\ ~RedrawOrdered) => t \notin shownView.want.tiles
    BY <1>16 DEF ForgetTile, WantIsNeeded, ListsFit
  <2>2. \A s \in ViewTiles : s # t => viewTile'[s] = viewTile[s]
    BY <1>16 DEF ForgetTile, RTypes, RedrawTypeOK
  <2>3. shownView.want.tiles \subseteq ViewTiles
    BY AreasAssumption DEF RTypes, RedrawTypeOK
  <2>. QED
    BY <1>16, <2>1, <2>2, <2>3 DEF ForgetTile, lists
<1>. QED
  BY <1>1, <1>2, <1>3, <1>4, <1>5, <1>6, <1>7, <1>8, <1>9, <1>10, <1>11, <1>12, <1>13, <1>14, <1>15, <1>16
  DEF RedrawNext, RedrawUI, RedrawWorker

-----------------------------------------------------------------------------
(* What follows.                                                           *)

LEMMA InvariantHolds == RedrawSpec => []RInv
<1>1. RedrawInit => RInv
  <2>. SUFFICES ASSUME RedrawInit PROVE RInv
    OBVIOUS
  <2>1. RTypes
    <3>1. 0 \in 0..MaxRequests
      BY RequestsAssumption
    <3>2. viewTile \in [ViewTiles -> [zoom : ViewZooms \cup {0},
                                     image : {"none", "working", "computed", "ready"}]]
      BY DEF RedrawInit
    <3>3. drawer \in [Drawers -> [pc : {"idle", "report", "tell"}, todo : SUBSET ViewTiles]]
      BY DEF RedrawInit, Idle, At
    <3>. QED
      BY <3>1, <3>2, <3>3 DEF RedrawInit, Nothing, Idle, At, RTypes, RedrawTypeOK, UITypes
  <2>2. WorkersFit /\ WantIsNeeded /\ KeptIsAsked
    BY DEF RedrawInit, Nothing, Idle, At, WorkersFit, WantIsNeeded, Asking, KeptIsAsked
  <2>3. ListsFit
    BY DEF RedrawInit, Nothing, Idle, At, ListsFit
  <2>4. PendingIsOrdered /\ DrawnIsNotMissed
    BY DEF RedrawInit, Nothing, Idle, At, PendingIsOrdered, DrawnIsNotMissed, Steady
  <2>. QED
    BY <2>1, <2>2, <2>3, <2>4 DEF RInv
<1>2. ASSUME RInv, [RedrawNext]_redrawVars PROVE RInv'
  <2>1. CASE RedrawNext
    BY <1>2, <2>1, TypesStep, WorkersStep, AskedStep, WantStep, ListsStep, OrderedStep DEF RInv
  <2>2. CASE UNCHANGED redrawVars
    BY <1>2, <2>2
    DEF redrawVars, lists, RInv, RTypes, RedrawTypeOK, UITypes, WorkersFit, WantIsNeeded,
        Asking, ListsFit, KeptIsAsked, PendingIsOrdered, DrawnIsNotMissed, Steady, RedrawOrdered
  <2>. QED
    BY <1>2, <2>1, <2>2
<1>. QED
  BY <1>1, <1>2, PTL DEF RedrawSpec

\* While the view is not being drawn: redrawPending is set only if a redraw
\* has been ordered; a tile finished after it was drawn is about to be
\* reported, unless a redraw has been ordered; what the view shows it needs,
\* observes and keeps.  (tiledbitmapviewdata.cc and TiledBitmap::redraw())
THEOREM RedrawIsSound == RedrawSpec => []RedrawIsRight
<1>1. RInv => RedrawIsRight
  <2>. SUFFICES ASSUME RInv PROVE RedrawIsRight
    OBVIOUS
  <2>1. RedrawTypeOK /\ PendingIsTrue
    BY DEF RInv, RTypes, PendingIsTrue, PendingIsOrdered, Steady
  <2>2. NoTileIsMissed
    BY DEF RInv, NoTileIsMissed, DrawnIsNotMissed, Steady, WantIsNeeded
  <2>3. NeededIsKept
    BY DEF RInv, NeededIsKept, ListsFit, WantIsNeeded
  <2>. QED
    BY <2>1, <2>2, <2>3 DEF RedrawIsRight
<1>. QED
  BY <1>1, InvariantHolds, PTL

\* resetNeededTiles() throws away no image that the view still needs: when
\* oldVolatileStuff is cleared, volatileStuff has every needed tile again.
THEOREM ImagesAreKept == RedrawSpec => PreparedIsKept
<1>1. ASSUME RInv, [RedrawNext]_redrawVars,
             NEW t \in ViewTiles, HasImage(t), viewTile'[t].image = "working", ui.pc # "idle",
             viewTile' # viewTile
      PROVE  t \notin needed.tiles \/ viewTile'[t].zoom # viewTile[t].zoom
  <2>1. ASSUME NEW s \in ViewTiles, AskTile(s)
        PROVE  viewTile'[t].zoom # viewTile[t].zoom
    BY <1>1, <2>1 DEF AskTile, Started, AtZoom, HasImage, RInv, RTypes, RedrawTypeOK
  <2>2. CASE DropOld
    <3>1. oldVolatile \ kept \in SUBSET ViewTiles
      BY <1>1 DEF RInv, RTypes, RedrawTypeOK
    <3>2. \A s \in ViewTiles : s \notin oldVolatile \ kept
                                  => Restarted(oldVolatile \ kept, TRUE)[s] = viewTile[s]
      BY <1>1, <3>1, RestartedTiles DEF RInv
    <3>3. t \notin kept
      BY <1>1, <2>2, <3>2 DEF DropOld, HasImage
    <3>. QED
      BY <1>1, <2>2, <3>3 DEF DropOld, RInv, ListsFit, WantIsNeeded
  <2>3. ~(ClearVolatileStuff \/ DestroyViewData)
    BY <1>1 DEF ClearVolatileStuff, Request, DestroyViewData, RInv, WantIsNeeded
  <2>4. ASSUME NEW s \in ViewTiles, Compute(s) \/ ForgetTile(s) PROVE FALSE
    BY <1>1, <2>4, SMTT(60) DEF Compute, ForgetTile, HasImage, RInv, RTypes, RedrawTypeOK
  <2>5. ASSUME NEW w \in Drawers, NEW s \in ViewTiles, Report(w, s) PROVE FALSE
    BY <1>1, <2>5 DEF Report, HasImage, RInv, RTypes, RedrawTypeOK
  <2>. QED
    BY <1>1, <2>1, <2>2, <2>3, <2>4, <2>5
    DEF RedrawNext, RedrawUI, RedrawWorker, redrawVars, RunAsync, StartRedraw, SetNeededTiles,
        PutAside, DrawTile, Splice, Unpend, InvalidateView, OpenBitmap, LookElsewhere,
        CloseBitmap, GetObservers, TileLoaded
<1>2. RInv /\ [RedrawNext]_redrawVars =>
        [\A t \in ViewTiles :
          (/\ HasImage(t) /\ viewTile'[t].image = "working"
           /\ ui.pc # "idle")
             => \/ t \notin needed.tiles
                \/ viewTile'[t].zoom # viewTile[t].zoom]_redrawVars
  BY <1>1 DEF HasImage
<1>. QED
  BY <1>2, InvariantHolds, PTL DEF RedrawSpec, PreparedIsKept

-----------------------------------------------------------------------------
(***************************************************************************)
(* Progress: the bars of the windows.                                      *)
(***************************************************************************)

\* The fold takes the elements one by one.
LEMMA TotalDoneIs ==
    ASSUME NEW d \in [Bitmaps -> BitmapStates]
    PROVE  /\ TotalDone(d, {}) = 0
           /\ \A bs \in SUBSET Bitmaps :
                 /\ TotalDone(d, bs) \in Nat
                 /\ bs # {} => TotalDone(d, bs) = TotalDone(d, bs \ {Chosen(bs)}) + d[Chosen(bs)].done
<1>. DEFINE pick == [s \in SUBSET Bitmaps |-> Chosen(s)]
            step == [z \in (SUBSET Bitmaps) \X Nat |-> z[2] + d[Chosen(z[1])].done]
            G == [s \in SUBSET Bitmaps |-> Nat]
<1>0. \A s \in SUBSET Bitmaps : s # {} => Chosen(s) \in s /\ d[Chosen(s)].done \in Nat
  BY BitmapsAssumption DEF Chosen, BitmapStates
<1>1. PICK f : FoldOf(f, Bitmaps, pick, 0, step) /\ \A s \in SUBSET Bitmaps : f[s] \in G[s]
  <2>1. \A s \in SUBSET Bitmaps : s # {} => pick[s] \in s  BY <1>0
  <2>2. 0 \in G[{}]  OBVIOUS
  <2>3. \A s \in SUBSET Bitmaps : s # {} => \A y \in G[s \ {pick[s]}] : step[<<s, y>>] \in G[s]
    BY <1>0
  <2>. HIDE DEF pick, step, G
  <2>. QED  BY <2>1, <2>2, <2>3, BitmapsAssumption, FoldLeads
<1>2. \A s \in SUBSET Bitmaps :
          f[s] \in Nat /\ f[s] = IF s = {} THEN 0 ELSE f[s \ {Chosen(s)}] + d[Chosen(s)].done
  <2>. SUFFICES ASSUME NEW s \in SUBSET Bitmaps
                PROVE  f[s] \in Nat /\ f[s] = IF s = {} THEN 0 ELSE f[s \ {Chosen(s)}] + d[Chosen(s)].done
    OBVIOUS
  <2>1. f[s] \in Nat /\ f[s \ {Chosen(s)}] \in Nat  BY <1>1
  <2>2. f[s] = IF s = {} THEN 0 ELSE step[<<s, f[s \ {pick[s]}]>>]  BY <1>1 DEF FoldOf
  <2>. QED  BY <2>1, <2>2
<1>3. ASSUME NEW bs \in SUBSET Bitmaps PROVE TotalDone(d, bs) = f[bs]
  <2>. DEFINE Fits(g) == g = [s \in SUBSET bs |->
                                  IF s = {} THEN 0 ELSE g[s \ {Chosen(s)}] + d[Chosen(s)].done]
              it == CHOOSE g : Fits(g)
  <2>1. TotalDone(d, bs) = it[bs]  BY DEF TotalDone, FoldSet, MapThenFoldSet, Chosen
  <2>2. Fits([s \in SUBSET bs |-> f[s]])
    <3>. DEFINE g == [s \in SUBSET bs |-> f[s]]
    <3>1. \A s \in SUBSET bs : f[s] = IF s = {} THEN 0 ELSE g[s \ {Chosen(s)}] + d[Chosen(s)].done
      BY <1>2
    <3>. QED  BY <3>1
  <2>3. Fits(it)  BY <2>2
  <2>4. \A s \in SUBSET bs : it[s] = IF s = {} THEN 0 ELSE it[s \ {Chosen(s)}] + d[Chosen(s)].done
    BY <2>3
  <2>. HIDE DEF it, Fits
  <2>. DEFINE T == {s \in SUBSET bs : it[s] = f[s]}
              chosen == [s \in SUBSET bs |-> Chosen(s)]
  <2>5. {} \in T  BY <1>2, <2>4
  <2>6. \A s \in SUBSET bs : s # {} /\ s \ {chosen[s]} \in T => s \in T  BY <1>2, <2>4
  <2>7. \A s \in SUBSET bs : s # {} => chosen[s] \in s  BY <1>0
  <2>8. IsFiniteSet(bs)  BY BitmapsAssumption, FS_Subset
  <2>9. \A s \in SUBSET bs : s \in T
    <3>. HIDE DEF T, chosen
    <3>. QED  BY <2>5, <2>6, <2>7, <2>8, OneByOne
  <2>. QED  BY <2>1, <2>9
<1>. QED  BY <1>0, <1>2, <1>3

\* The order does not matter.
LEMMA TotalDoneWithout ==
    ASSUME NEW d \in [Bitmaps -> BitmapStates], NEW bs \in SUBSET Bitmaps, NEW b \in bs
    PROVE  TotalDone(d, bs) = TotalDone(d, bs \ {b}) + d[b].done
<1>. DEFINE T == {s \in SUBSET Bitmaps : \A c \in s : TotalDone(d, s) = TotalDone(d, s \ {c}) + d[c].done}
<1>0. \A c \in Bitmaps : d[c].done \in Nat  BY BitmapsAssumption DEF BitmapStates
<1>1. ASSUME NEW s \in SUBSET Bitmaps, NEW c \in s,
             \A r \in SUBSET Bitmaps : Cardinality(r) < Cardinality(s) => r \in T
      PROVE  TotalDone(d, s) = TotalDone(d, s \ {c}) + d[c].done
  <2>. DEFINE x == Chosen(s)
  <2>1. x \in s  BY DEF Chosen
  <2>. HIDE DEF x
  <2>2. TotalDone(d, s) = TotalDone(d, s \ {x}) + d[x].done  BY TotalDoneIs DEF x
  <2>3. CASE x = c  BY <2>2, <2>3
  <2>4. CASE x # c
    <3>1. /\ s \ {x} \in SUBSET Bitmaps /\ Cardinality(s \ {x}) < Cardinality(s)
          /\ s \ {c} \in SUBSET Bitmaps /\ Cardinality(s \ {c}) < Cardinality(s)
      BY <2>1, BitmapsAssumption, FewerWithout
    <3>2. TotalDone(d, s \ {x}) = TotalDone(d, (s \ {x}) \ {c}) + d[c].done
      <4>1. s \ {x} \in T /\ c \in s \ {x}  BY <1>1, <2>4, <3>1
      <4>. QED  BY <4>1
    <3>3. TotalDone(d, s \ {c}) = TotalDone(d, (s \ {c}) \ {x}) + d[x].done
      <4>1. s \ {c} \in T /\ x \in s \ {c}  BY <1>1, <2>1, <2>4, <3>1
      <4>. QED  BY <4>1
    <3>4. (s \ {c}) \ {x} = (s \ {x}) \ {c}  OBVIOUS
    <3>5. TotalDone(d, (s \ {x}) \ {c}) \in Nat  BY TotalDoneIs
    <3>6. d[x].done \in Nat /\ d[c].done \in Nat  BY <1>0, <2>1
    <3>7. TotalDone(d, s \ {c}) = TotalDone(d, (s \ {x}) \ {c}) + d[x].done  BY <3>3, <3>4
    <3>. HIDE DEF T
    <3>. QED  BY ONLY <2>2, <3>2, <3>5, <3>6, <3>7
  <2>. QED  BY <2>3, <2>4
<1>2. \A s \in SUBSET Bitmaps :
          (\A r \in SUBSET Bitmaps : Cardinality(r) < Cardinality(s) => r \in T) => s \in T
  BY <1>1
<1>3. \A s \in SUBSET Bitmaps : s \in T
  <2>. HIDE DEF T
  <2>. QED  BY <1>2, BitmapsAssumption, BySize
<1>. QED  BY <1>3

\* Bitmaps of which nothing is done do not count, nor does what is not added.
LEMMA TotalDoneSame ==
    ASSUME NEW d \in [Bitmaps -> BitmapStates], NEW e \in [Bitmaps -> BitmapStates],
           NEW bs \in SUBSET Bitmaps, NEW cs \in SUBSET bs,
           \A b \in cs : d[b].done = e[b].done, \A b \in bs \ cs : d[b].done = 0
    PROVE  TotalDone(d, bs) = TotalDone(e, cs)
<1>. DEFINE T == {s \in SUBSET bs : TotalDone(d, s) = TotalDone(e, s \cap cs)}
            pick == [s \in SUBSET bs |-> Chosen(s)]
<1>1. {} \in T
  <2>1. {} \cap cs = {}  OBVIOUS
  <2>. QED  BY <2>1, TotalDoneIs
<1>2. ASSUME NEW s \in SUBSET bs, s # {}, s \ {Chosen(s)} \in T PROVE s \in T
  <2>. DEFINE x == Chosen(s)
  <2>0. x \in s  BY <1>2 DEF Chosen
  <2>. HIDE DEF x
  <2>1. TotalDone(d, s) = TotalDone(d, s \ {x}) + d[x].done  BY <2>0, TotalDoneWithout
  <2>2. TotalDone(d, s \ {x}) = TotalDone(e, (s \ {x}) \cap cs)  BY <1>2 DEF x
  <2>3. CASE x \in cs
    <3>1. TotalDone(e, s \cap cs) = TotalDone(e, (s \cap cs) \ {x}) + e[x].done
      BY <2>0, <2>3, TotalDoneWithout
    <3>2. (s \cap cs) \ {x} = (s \ {x}) \cap cs  OBVIOUS
    <3>. QED  BY <2>0, <2>1, <2>2, <2>3, <3>1, <3>2
  <2>4. CASE x \notin cs
    <3>1. (s \ {x}) \cap cs = s \cap cs  BY <2>4
    <3>2. TotalDone(d, s \ {x}) \in Nat  BY TotalDoneIs
    <3>3. d[x].done = 0  BY <2>0, <2>4
    <3>5. TotalDone(d, s) = TotalDone(d, s \ {x})  BY ONLY <2>1, <3>2, <3>3
    <3>6. TotalDone(e, (s \ {x}) \cap cs) = TotalDone(e, s \cap cs)  BY ONLY <3>1
    <3>4. TotalDone(d, s) = TotalDone(e, s \cap cs)  BY ONLY <2>2, <3>5, <3>6
    <3>. QED  BY <3>4
  <2>. QED  BY <2>3, <2>4
<1>3. \A s \in SUBSET bs : s # {} /\ s \ {pick[s]} \in T => s \in T  BY <1>2
<1>4. \A s \in SUBSET bs : s # {} => pick[s] \in s  BY DEF Chosen
<1>5. IsFiniteSet(bs)  BY BitmapsAssumption, FS_Subset
<1>6. \A s \in SUBSET bs : s \in T
  <2>. HIDE DEF T, pick
  <2>. QED  BY <1>1, <1>3, <1>4, <1>5, OneByOne
<1>7. bs \cap cs = cs  OBVIOUS
<1>. QED  BY <1>6, <1>7

\* Of each bitmap at most all its tiles are done.
LEMMA TotalDoneFits ==
    ASSUME NEW d \in [Bitmaps -> BitmapStates], NEW bs \in SUBSET Bitmaps
    PROVE  /\ TotalDone(d, bs) \in Nat /\ Cardinality(bs) \in Nat
           /\ TotalDone(d, bs) <= BitmapTiles * Cardinality(bs)
<1>. DEFINE T == {s \in SUBSET bs : TotalDone(d, s) <= BitmapTiles * Cardinality(s)}
            pick == [s \in SUBSET bs |-> Chosen(s)]
<1>0. IsFiniteSet(bs)  BY BitmapsAssumption, FS_Subset
<1>1. {} \in T
  <2>1. Cardinality({}) = 0  BY FS_EmptySet
  <2>. QED  BY <2>1, TotalDoneIs, BitmapsAssumption
<1>2. ASSUME NEW s \in SUBSET bs, s # {}, s \ {Chosen(s)} \in T PROVE s \in T
  <2>. DEFINE x == Chosen(s)
              n == Cardinality(s \ {x})
  <2>0. x \in s  BY <1>2 DEF Chosen
  <2>. HIDE DEF x
  <2>1. TotalDone(d, s) = TotalDone(d, s \ {x}) + d[x].done  BY <2>0, TotalDoneWithout
  <2>2. TotalDone(d, s \ {x}) <= BitmapTiles * n  BY <1>2 DEF x
  <2>3. n \in Nat /\ Cardinality(s) = n + 1
    <3>1. Cardinality(s) \in Nat /\ n = Cardinality(s) - 1  BY <1>0, <2>0, FewerWithout
    <3>2. n \in Nat  BY <1>0, FewerWithout
    <3>. QED  BY <3>1, <3>2
  <2>4. TotalDone(d, s \ {x}) \in Nat  BY TotalDoneIs
  <2>5. d[x].done \in Nat /\ d[x].done <= BitmapTiles  BY <2>0, BitmapsAssumption DEF BitmapStates
  <2>. HIDE DEF n
  <2>6. BitmapTiles * (n + 1) = BitmapTiles * n + BitmapTiles /\ BitmapTiles * n \in Nat
    BY <2>3, BitmapsAssumption
  <2>7. TotalDone(d, s) <= BitmapTiles * Cardinality(s)
    BY <2>1, <2>2, <2>3, <2>4, <2>5, <2>6, BitmapsAssumption
  <2>. QED  BY <2>7
<1>3. \A s \in SUBSET bs : s # {} /\ s \ {pick[s]} \in T => s \in T  BY <1>2
<1>4. \A s \in SUBSET bs : s # {} => pick[s] \in s  BY DEF Chosen
<1>6. \A s \in SUBSET bs : s \in T
  <2>. HIDE DEF T, pick
  <2>. QED  BY <1>0, <1>1, <1>3, <1>4, OneByOne
<1>. QED  BY <1>0, <1>6, TotalDoneIs, FS_CardinalityType

-----------------------------------------------------------------------------
(* The screen: what SetProgress does to the bar of one window.             *)
Fractions == {f \in Nat \X Nat : f[1] <= f[2] /\ f[2] > 0}
Places    == Windows \cup {NoWindow}
Screens   == [waiting : SUBSET Windows, fraction : [Windows -> Fractions],
              bars : Seq(Places), current : Nat]
Datas     == [OverlayWindows -> [Bitmaps -> BitmapStates]]
States    == {"idle", "waiting", "working", "finished", "gone"}

\* A window that waits is in the list once, and no other is.
Listed(queued, bars) ==
    /\ \A i, j \in 1..Len(bars) : bars[i] = bars[j] /\ bars[i] # NoWindow => i = j
    /\ \A w \in Windows : w \in queued <=> \E i \in 1..Len(bars) : bars[i] = w

InList(bars, current) == current <= Len(bars)

Usable(s) == s \in Screens /\ Listed(s.waiting, s.bars) /\ InList(s.bars, s.current)

\* The outcome for a window, and nothing else.
Showing(s, t, w, state, f) ==
    /\ Usable(t) /\ Len(t.bars) >= Len(s.bars)
    /\ t.waiting = IF state = "waiting" THEN s.waiting \cup {w} ELSE s.waiting \ {w}
    /\ t.fraction = IF state = "waiting" THEN s.fraction
                    ELSE [s.fraction EXCEPT ![w] = IF state = "working" THEN f ELSE Zero]

\* An empty bar.
LEMMA ZeroFraction == Zero \in Fractions
BY DEF Zero, Fractions

\* startWaiting(): the window is in the list, and all others stay where they are.
LEMMA StartWaitingIs ==
    ASSUME NEW s, Usable(s), NEW w \in Windows, NEW f
    PROVE  Showing(s, StartWaiting(s, w), w, "waiting", f)
<1>. DEFINE t == StartWaiting(s, w)
<1>0. s \in Screens /\ Listed(s.waiting, s.bars) /\ InList(s.bars, s.current)  BY DEF Usable
<1>1. CASE w \in s.waiting
  <2>1. t = s /\ s.waiting \cup {w} = s.waiting  BY <1>1 DEF StartWaiting
  <2>2. Len(s.bars) \in Nat  BY <1>0 DEF Screens
  <2>. QED  BY <2>1, <2>2 DEF Showing
<1>2. CASE w \notin s.waiting
  <2>. DEFINE bars == Append(s.bars, w)
              current == IF s.bars = <<>> THEN 1 ELSE s.current
  <2>1. t = [s EXCEPT !.waiting = @ \cup {w}, !.bars = bars, !.current = current]
    BY <1>2 DEF StartWaiting
  <2>2. s.bars \in Seq(Places) /\ w \in Places /\ s.waiting \subseteq Windows /\ s.current \in Nat
    BY <1>0 DEF Screens, Places
  <2>3. /\ bars \in Seq(Places) /\ Len(bars) = Len(s.bars) + 1 /\ Len(s.bars) \in Nat
        /\ \A i \in 1..Len(s.bars) : bars[i] = s.bars[i]
        /\ bars[Len(s.bars) + 1] = w
    BY <2>2
  <2>4. s.bars = <<>> \/ current = s.current  OBVIOUS
  <2>5. InList(bars, current)
    <3>1. CASE s.bars = <<>>  BY <2>3, <3>1 DEF InList
    <3>2. CASE s.bars # <<>>
      <4>1. current = s.current /\ s.current <= Len(s.bars)  BY <1>0, <3>2 DEF InList
      <4>. HIDE DEF current, bars
      <4>. QED  BY <2>2, <2>3, <4>1 DEF InList
    <3>. QED  BY <3>1, <3>2
  <2>. HIDE DEF bars, current
  <2>6. Listed(s.waiting \cup {w}, bars)
    <3>1. \A i \in 1..Len(s.bars) : s.bars[i] # w  BY <1>0, <1>2 DEF Listed
    <3>2. \A i \in 1..Len(bars) : i \in 1..Len(s.bars) \/ i = Len(s.bars) + 1  BY <2>3
    <3>3. \A i, j \in 1..Len(bars) : bars[i] = bars[j] /\ bars[i] # NoWindow => i = j
      BY <1>0, <2>3, <3>1, <3>2 DEF Listed
    <3>4. ASSUME NEW v \in Windows
          PROVE  v \in s.waiting \cup {w} <=> \E i \in 1..Len(bars) : bars[i] = v
      <4>1. Len(s.bars) + 1 \in 1..Len(bars) /\ \A i \in 1..Len(s.bars) : i \in 1..Len(bars)  BY <2>3
      <4>2. v \in s.waiting <=> \E i \in 1..Len(s.bars) : s.bars[i] = v  BY <1>0 DEF Listed
      <4>. QED  BY <2>3, <3>2, <4>1, <4>2
    <3>. QED  BY <3>3, <3>4 DEF Listed
  <2>7. t \in Screens /\ t.waiting = s.waiting \cup {w} /\ t.bars = bars /\ t.current = current
        /\ t.fraction = s.fraction
    <3>1. current \in Nat  BY <2>2 DEF current
    <3>2. s.waiting \cup {w} \in SUBSET Windows /\ bars \in Seq(Places)  BY <2>2, <2>3
    <3>3. t.waiting = s.waiting \cup {w} /\ t.bars = bars /\ t.current = current /\ t.fraction = s.fraction
      BY <1>0, <2>1 DEF Screens
    <3>. QED  BY <1>0, <2>1, <3>1, <3>2, <3>3 DEF Screens
  <2>. HIDE DEF t
  <2>8. Usable(t)  BY <2>5, <2>6, <2>7 DEF Usable
  <2>9. Len(t.bars) >= Len(s.bars)  BY <2>3, <2>7
  <2>10. Showing(s, t, w, "waiting", f)  BY <2>7, <2>8, <2>9 DEF Showing
  <2>. QED  BY <2>10 DEF t
<1>. QED  BY <1>1, <1>2

\* stopWaiting(): it is in the list no more.
LEMMA StopWaitingIs ==
    ASSUME NEW s, Usable(s), NEW w \in Windows
    PROVE  LET t == StopWaiting(s, w)
           IN  /\ Usable(t) /\ Len(t.bars) = Len(s.bars)
               /\ t.waiting = s.waiting \ {w} /\ t.fraction = s.fraction
<1>. DEFINE t == StopWaiting(s, w)
<1>0. s \in Screens /\ Listed(s.waiting, s.bars) /\ InList(s.bars, s.current)  BY DEF Usable
<1>1. CASE w \notin s.waiting
  <2>1. t = s /\ s.waiting \ {w} = s.waiting  BY <1>1 DEF StopWaiting
  <2>. QED  BY <2>1
<1>2. CASE w \in s.waiting
  <2>. DEFINE bars == [i \in DOMAIN s.bars |-> IF s.bars[i] = w THEN NoWindow ELSE s.bars[i]]
  <2>1. t = [s EXCEPT !.waiting = @ \ {w}, !.bars = bars]  BY <1>2 DEF StopWaiting
  <2>2. s.bars \in Seq(Places) /\ DOMAIN s.bars = 1..Len(s.bars) /\ Len(s.bars) \in Nat
    BY <1>0 DEF Screens
  <2>3. bars \in Seq(Places) /\ Len(bars) = Len(s.bars)
    <3>1. \A i \in 1..Len(s.bars) : bars[i] \in Places  BY <2>2 DEF Places
    <3>2. bars \in [1..Len(s.bars) -> Places]  BY <2>2, <3>1
    <3>. HIDE DEF bars
    <3>. QED  BY <2>2, <3>2
  <2>4. \A i \in 1..Len(s.bars) : bars[i] = IF s.bars[i] = w THEN NoWindow ELSE s.bars[i]  BY <2>2
  <2>5. (bars = <<>>) <=> (s.bars = <<>>)
    <3>1. (bars = <<>>) <=> Len(bars) = 0  BY <2>3
    <3>2. (s.bars = <<>>) <=> Len(s.bars) = 0  BY <2>2
    <3>. QED  BY <2>3, <3>1, <3>2
  <2>. HIDE DEF bars
  <2>6. Listed(s.waiting \ {w}, bars)
    <3>1. \A i, j \in 1..Len(bars) : bars[i] = bars[j] /\ bars[i] # NoWindow => i = j
      BY <1>0, <2>3, <2>4 DEF Listed
    <3>2. ASSUME NEW v \in Windows
          PROVE  v \in s.waiting \ {w} <=> \E i \in 1..Len(bars) : bars[i] = v
      <4>1. v \in s.waiting <=> \E i \in 1..Len(s.bars) : s.bars[i] = v  BY <1>0 DEF Listed
      <4>2. v # NoWindow  BY WindowsAssumption
      <4>. QED  BY <2>3, <2>4, <4>1, <4>2
    <3>. QED  BY <3>1, <3>2 DEF Listed
  <2>7. /\ t \in Screens /\ t.waiting = s.waiting \ {w} /\ t.bars = bars /\ t.current = s.current
        /\ t.fraction = s.fraction
    BY <1>0, <2>1, <2>3 DEF Screens
  <2>8. InList(bars, s.current)  BY <1>0, <2>3, <2>5 DEF InList
  <2>. HIDE DEF t
  <2>9. /\ Usable(t) /\ Len(t.bars) = Len(s.bars)
        /\ t.waiting = s.waiting \ {w} /\ t.fraction = s.fraction
    BY <2>3, <2>6, <2>7, <2>8 DEF Usable
  <2>. QED  BY <2>9 DEF t
<1>. QED  BY <1>1, <1>2

\* setIdle() ... setFinished() on a window.
LEMMA SetProgressIs ==
    ASSUME NEW s, Usable(s), NEW w \in Windows, NEW state, NEW f, state = "working" => f \in Fractions
    PROVE  Showing(s, SetProgress(s, w, state, f), w, state, f)
<1>1. CASE state = "waiting"  BY <1>1, StartWaitingIs DEF SetProgress
<1>2. CASE state # "waiting"
  <2>. DEFINE r == StopWaiting(s, w)
              g == IF state = "working" THEN f ELSE Zero
              t == [r EXCEPT !.fraction[w] = g]
  <2>1. SetProgress(s, w, state, f) = t  BY <1>2 DEF SetProgress, SetWorking
  <2>2. /\ Usable(r) /\ Len(r.bars) = Len(s.bars)
        /\ r.waiting = s.waiting \ {w} /\ r.fraction = s.fraction
    BY StopWaitingIs
  <2>3. g \in Fractions  BY ZeroFraction
  <2>4. r \in Screens /\ Len(r.bars) \in Nat  BY <2>2 DEF Usable, Screens
  <2>. HIDE DEF g, r
  <2>5. /\ t \in Screens /\ t.waiting = r.waiting /\ t.bars = r.bars /\ t.current = r.current
        /\ t.fraction = [r.fraction EXCEPT ![w] = g]
    BY <2>3, <2>4 DEF Screens
  <2>. HIDE DEF t
  <2>6. Usable(t)  BY <2>2, <2>5 DEF Usable
  <2>. QED  BY <1>2, <2>1, <2>2, <2>4, <2>5, <2>6 DEF Showing, g
<1>. QED  BY <1>1, <1>2

-----------------------------------------------------------------------------
(* What windows do with the progress of a bitmap.                          *)
Shown == {v \in [screen : Screens, data : Datas] : Usable(v.screen)}

PlainBar(s, p, w) ==
    /\ w \in s.waiting <=> p.state = "waiting"
    /\ p.state = "working" => s.fraction[w] = <<p.done, BitmapTiles>>
    /\ p.state \notin {"waiting", "working"} => s.fraction[w] = Zero

OverlayBar(s, children, w) ==
    /\ w \in s.waiting <=> Overall(children) = "waiting"
    /\ Overall(children) = "working" => s.fraction[w] = Average(children)
    /\ Overall(children) \notin {"waiting", "working"} => s.fraction[w] = Zero

\* Nothing has changed for window w.
Same(u, v, w) ==
    /\ w \in v.screen.waiting <=> w \in u.screen.waiting
    /\ v.screen.fraction[w] = u.screen.fraction[w]
    /\ w \in OverlayWindows => v.data[w] = u.data[w]

\* It shows progress p of bitmap b.
Has(u, v, w, b, p) ==
    IF w \in PlainWindows THEN PlainBar(v.screen, p, w)
    ELSE /\ v.data[w] = Cleared([u.data[w] EXCEPT ![b] = p])
         /\ OverlayBar(v.screen, v.data[w], w)

\* The mean of the children is a fraction.
LEMMA AverageIsFraction ==
    ASSUME NEW children \in [Bitmaps -> BitmapStates], Overall(children) = "working"
    PROVE  Average(children) \in Fractions
<1>1. Active(children) \in SUBSET Bitmaps /\ Active(children) # {}
  <2>1. Some(children, "working")  BY DEF Overall
  <2>. QED  BY <2>1 DEF Some, Active
<1>2. /\ TotalDone(children, Active(children)) \in Nat /\ Cardinality(Active(children)) \in Nat
      /\ TotalDone(children, Active(children)) <= BitmapTiles * Cardinality(Active(children))
  BY <1>1, TotalDoneFits
<1>3. Cardinality(Active(children)) # 0
  <2>1. IsFiniteSet(Active(children))  BY <1>1, BitmapsAssumption, FS_Subset
  <2>. QED  BY <1>1, <2>1, FS_EmptySet
<1>. DEFINE n == Cardinality(Active(children))
            t == TotalDone(children, Active(children))
<1>4. Average(children) = <<t, BitmapTiles * n>>  BY DEF Average
<1>. HIDE DEF n, t
<1>5. n \in Nat /\ n > 0 /\ t \in Nat /\ t <= BitmapTiles * n  BY <1>2, <1>3 DEF n, t
<1>6. BitmapTiles * n \in Nat /\ BitmapTiles * n > 0  BY <1>5, BitmapsAssumption
<1>. QED  BY <1>4, <1>5, <1>6 DEF Fractions

\* clearFinished() on all children.
LEMMA ClearedIs ==
    ASSUME NEW children \in [Bitmaps -> BitmapStates]
    PROVE  /\ Cleared(children) \in [Bitmaps -> BitmapStates]
           /\ Overall(children) # "finished" => Cleared(children) = children
           /\ Overall(children) = "finished" => Overall(Cleared(children)) = "idle"
<1>1. IdleState \in BitmapStates  BY BitmapsAssumption DEF IdleState, State, BitmapStates
<1>2. IdleState.state = "idle"  BY DEF IdleState, State
<1>3. CASE Overall(children) # "finished"  BY <1>3 DEF Cleared
<1>4. CASE Overall(children) = "finished"
  <2>0. Overall(children) # "working" /\ Overall(children) # "waiting"  BY <1>4
  <2>1. ~Some(children, "working") /\ ~Some(children, "waiting")
    <3>1. ~Some(children, "working")  BY <2>0 DEF Overall
    <3>2. ~Some(children, "waiting")  BY <2>0, <3>1 DEF Overall
    <3>. QED  BY <3>1, <3>2
  <2>. DEFINE c == Cleared(children)
  <2>2. c = [b \in Bitmaps |-> IF children[b].state = "finished" THEN IdleState ELSE children[b]]
    BY <1>4 DEF Cleared
  <2>3. c \in [Bitmaps -> BitmapStates]  BY <1>1, <2>2
  <2>4. ~Some(c, "working") /\ ~Some(c, "waiting") /\ ~Some(c, "finished")
    BY <1>2, <2>1, <2>2 DEF Some
  <2>5. Overall(c) = "idle"  BY <2>4 DEF Overall
  <2>. QED  BY <1>4, <2>3, <2>5
<1>. QED  BY <1>3, <1>4

\* updateProgressState() shows what the children are at.
LEMMA UpdatedIs ==
    ASSUME NEW u \in Shown, NEW w \in OverlayWindows, NEW children \in [Bitmaps -> BitmapStates]
    PROVE  LET v == Updated(u, w, children)
           IN  /\ v \in Shown /\ Len(v.screen.bars) >= Len(u.screen.bars)
               /\ \A x \in Windows \ {w} : Same(u, v, x)
               /\ v.data[w] = Cleared(children)
               /\ OverlayBar(v.screen, v.data[w], w)
<1>. DEFINE s == SetProgress(u.screen, w, Overall(children), Average(children))
            d == [u.data EXCEPT ![w] = Cleared(children)]
            v == Updated(u, w, children)
<1>0. w \in Windows /\ Usable(u.screen) /\ u.data \in Datas /\ u.screen \in Screens
  BY DEF Windows, Shown
<1>1. Showing(u.screen, s, w, Overall(children), Average(children))
  BY <1>0, AverageIsFraction, SetProgressIs
<1>2. v = [screen |-> s, data |-> d]  BY DEF Updated
<1>3. d \in Datas  BY <1>0, ClearedIs DEF Datas
<1>4. Usable(s) /\ s \in Screens  BY <1>1 DEF Showing, Usable
<1>5. Cleared(children) = d[w] /\ \A x \in OverlayWindows \ {w} : d[x] = u.data[x]
  BY <1>0 DEF Datas
<1>. HIDE DEF s, d
<1>6. v \in Shown /\ Len(v.screen.bars) >= Len(u.screen.bars)  BY <1>1, <1>2, <1>3, <1>4 DEF Shown, Showing
<1>7. \A x \in Windows \ {w} : Same(u, v, x)
  BY <1>0, <1>1, <1>2, <1>5 DEF Same, Showing, Screens
<1>8. OverlayBar(s, Cleared(children), w)
  <2>1. u.screen.fraction \in [Windows -> Fractions]  BY <1>0 DEF Screens
  <2>2. CASE Overall(children) = "waiting"
    <3>1. w \in s.waiting  BY <1>1, <2>2 DEF Showing
    <3>. QED  BY <2>2, <3>1, ClearedIs DEF OverlayBar
  <2>3. CASE Overall(children) # "waiting"
    <3>1. w \notin s.waiting
          /\ s.fraction[w] = IF Overall(children) = "working" THEN Average(children) ELSE Zero
      BY <1>0, <1>1, <2>1, <2>3 DEF Showing
    <3>2. CASE Overall(children) = "finished"
      <4>1. Overall(Cleared(children)) = "idle"  BY <3>2, ClearedIs
      <4>. QED  BY <3>1, <3>2, <4>1 DEF OverlayBar
    <3>3. CASE Overall(children) # "finished"
      <4>1. Cleared(children) = children  BY <3>3, ClearedIs
      <4>. QED  BY <2>3, <3>1, <4>1 DEF OverlayBar
    <3>. QED  BY <3>2, <3>3
  <2>. QED  BY <2>2, <2>3
<1>. HIDE DEF v
<1>9. /\ v \in Shown /\ Len(v.screen.bars) >= Len(u.screen.bars)
      /\ \A x \in Windows \ {w} : Same(u, v, x)
      /\ v.data[w] = Cleared(children)
      /\ OverlayBar(v.screen, v.data[w], w)
  BY <1>2, <1>5, <1>6, <1>7, <1>8
<1>. QED  BY <1>9 DEF v

\* A window that is told of the progress of a bitmap shows it.
LEMMA ReceivesIs ==
    ASSUME NEW u \in Shown, NEW w \in Windows, NEW b \in Bitmaps, NEW p \in BitmapStates
    PROVE  LET v == Receives(u, w, b, p)
           IN  /\ v \in Shown /\ Len(v.screen.bars) >= Len(u.screen.bars)
               /\ \A x \in Windows \ {w} : Same(u, v, x)
               /\ Has(u, v, w, b, p)
<1>. DEFINE v == Receives(u, w, b, p)
<1>0. Usable(u.screen) /\ u.data \in Datas /\ u.screen \in Screens  BY DEF Shown
<1>1. CASE w \in PlainWindows
  <2>. DEFINE f == <<p.done, BitmapTiles>>
              s == SetProgress(u.screen, w, p.state, f)
  <2>1. v = [u EXCEPT !.screen = s]  BY <1>1 DEF Receives
  <2>2. f \in Fractions  BY BitmapsAssumption DEF BitmapStates, Fractions
  <2>. HIDE DEF f
  <2>3. Showing(u.screen, s, w, p.state, f)  BY <1>0, <2>2, SetProgressIs
  <2>. HIDE DEF s
  <2>4. Usable(s) /\ s \in Screens  BY <2>3 DEF Showing, Usable
  <2>5. v = [screen |-> s, data |-> u.data]  BY <2>1 DEF Shown
  <2>. HIDE DEF v
  <2>6. v \in Shown /\ Len(v.screen.bars) >= Len(u.screen.bars)
    BY <1>0, <2>3, <2>4, <2>5 DEF Shown, Showing
  <2>7. \A x \in Windows \ {w} : Same(u, v, x)  BY <1>0, <2>3, <2>5 DEF Same, Showing, Screens
  <2>8. PlainBar(s, p, w)
    <3>1. u.screen.fraction \in [Windows -> Fractions]  BY <1>0 DEF Screens
    <3>. QED  BY <2>3, <3>1 DEF PlainBar, Showing, f
  <2>9. Has(u, v, w, b, p)  BY <1>1, <2>5, <2>8 DEF Has
  <2>. QED  BY <2>6, <2>7, <2>9 DEF v
<1>2. CASE w \notin PlainWindows
  <2>. DEFINE children == [u.data[w] EXCEPT ![b] = p]
  <2>1. w \in OverlayWindows /\ v = Updated(u, w, children)  BY <1>2 DEF Receives, Windows
  <2>2. children \in [Bitmaps -> BitmapStates]  BY <1>0, <2>1 DEF Datas
  <2>. HIDE DEF children, v
  <2>3. /\ v \in Shown /\ Len(v.screen.bars) >= Len(u.screen.bars)
        /\ \A x \in Windows \ {w} : Same(u, v, x)
        /\ v.data[w] = Cleared(children)
        /\ OverlayBar(v.screen, v.data[w], w)
    BY <2>1, <2>2, UpdatedIs
  <2>4. Has(u, v, w, b, p)  BY <1>2, <2>3 DEF Has, children
  <2>. QED  BY <2>3, <2>4 DEF v
<1>. QED  BY <1>1, <1>2

\* Every subscriber has it, in whatever order they are told.
LEMMA ToldIs ==
    ASSUME subscribed \in [Bitmaps -> SUBSET Windows],
           NEW u \in Shown, NEW b \in Bitmaps, NEW p \in BitmapStates
    PROVE  LET v == Told(u, b, p)
           IN  /\ v \in Shown /\ Len(v.screen.bars) >= Len(u.screen.bars)
               /\ \A w \in Windows : IF w \in subscribed[b] THEN Has(u, v, w, b, p) ELSE Same(u, v, w)
<1>. DEFINE S == subscribed[b]
            pick == [s \in SUBSET S |-> Chosen(s)]
            step == [z \in (SUBSET S) \X Shown |-> Receives(z[2], Chosen(z[1]), b, p)]
            Good(s, v) == /\ Len(v.screen.bars) >= Len(u.screen.bars)
                          /\ \A w \in Windows : IF w \in s THEN Has(u, v, w, b, p) ELSE Same(u, v, w)
            G == [s \in SUBSET S |-> {v \in Shown : Good(s, v)}]
<1>0. S \subseteq Windows /\ IsFiniteSet(S)  BY WindowsAssumption, FS_Subset
<1>. HIDE DEF S
<1>1. \A s \in SUBSET S : s # {} => Chosen(s) \in s  BY DEF Chosen
<1>2. u \in G[{}]
  <2>1. Len(u.screen.bars) \in Nat  BY DEF Shown, Screens
  <2>. QED  BY <2>1 DEF Same
<1>3. ASSUME NEW s \in SUBSET S, s # {}, NEW v \in G[s \ {Chosen(s)}]
      PROVE  Receives(v, Chosen(s), b, p) \in G[s]
  <2>. DEFINE x == Chosen(s)
              r == Receives(v, x, b, p)
  <2>1. x \in s /\ x \in Windows  BY <1>0, <1>1, <1>3
  <2>. HIDE DEF x
  <2>2. v \in Shown /\ Good(s \ {x}, v)  BY <1>3 DEF x
  <2>3. /\ r \in Shown /\ Len(r.screen.bars) >= Len(v.screen.bars)
        /\ \A w \in Windows \ {x} : Same(v, r, w)
        /\ Has(v, r, x, b, p)
    BY <2>1, <2>2, ReceivesIs
  <2>. HIDE DEF r
  <2>4. Len(u.screen.bars) \in Nat /\ Len(v.screen.bars) \in Nat /\ Len(r.screen.bars) \in Nat
    BY <2>2, <2>3 DEF Shown, Screens
  <2>5. Len(r.screen.bars) >= Len(u.screen.bars)  BY <2>2, <2>3, <2>4
  <2>6. Has(u, r, x, b, p)
    <3>1. Same(u, v, x)  BY <2>1, <2>2
    <3>. QED  BY <2>1, <2>3, <3>1 DEF Has, Same, Windows
  <2>7. ASSUME NEW w \in Windows \ {x}
        PROVE  IF w \in s THEN Has(u, r, w, b, p) ELSE Same(u, r, w)
    <3>1. Same(v, r, w)  BY <2>3
    <3>2. CASE w \in s
      <4>1. Has(u, v, w, b, p)  BY <2>2, <3>2
      <4>2. CASE w \in PlainWindows
        <5>1. PlainBar(v.screen, p, w)  BY <4>1, <4>2 DEF Has
        <5>2. PlainBar(r.screen, p, w)  BY <3>1, <5>1 DEF PlainBar, Same
        <5>. QED  BY <3>2, <4>2, <5>2 DEF Has
      <4>3. CASE w \notin PlainWindows
        <5>1. w \in OverlayWindows  BY <4>3 DEF Windows
        <5>2. r.data[w] = v.data[w] /\ v.data[w] = Cleared([u.data[w] EXCEPT ![b] = p])
              /\ OverlayBar(v.screen, v.data[w], w)
          BY <3>1, <4>1, <4>3, <5>1 DEF Has, Same
        <5>3. OverlayBar(r.screen, v.data[w], w)  BY <3>1, <5>2 DEF OverlayBar, Same
        <5>. QED  BY <3>2, <4>3, <5>2, <5>3 DEF Has
      <4>. QED  BY <4>2, <4>3
    <3>3. CASE w \notin s
      <4>1. Same(u, v, w)  BY <2>2, <3>3
      <4>2. Same(u, r, w)  BY <3>1, <4>1 DEF Same
      <4>. QED  BY <3>3, <4>2
    <3>. QED  BY <3>2, <3>3
  <2>8. Good(s, r)
    <3>1. \A w \in Windows : IF w \in s THEN Has(u, r, w, b, p) ELSE Same(u, r, w)
      BY <2>1, <2>6, <2>7
    <3>. QED  BY <2>5, <3>1
  <2>9. r \in G[s]  BY <2>3, <2>8
  <2>. QED  BY <2>9 DEF r, x
<1>4. \A s \in SUBSET S : G[s] \subseteq Shown  OBVIOUS
<1>5. PICK f : FoldOf(f, S, pick, u, step) /\ \A s \in SUBSET S : f[s] \in G[s]
  <2>1. \A s \in SUBSET S : s # {} => pick[s] \in s  BY <1>1
  <2>2. ASSUME NEW s \in SUBSET S, s # {}, NEW v \in G[s \ {pick[s]}] PROVE step[<<s, v>>] \in G[s]
    <3>1. pick[s] = Chosen(s)  OBVIOUS
    <3>2. v \in Shown  BY <1>4, <2>2
    <3>3. step[<<s, v>>] = Receives(v, Chosen(s), b, p)  BY <3>2
    <3>4. v \in G[s \ {Chosen(s)}]  BY <2>2, <3>1
    <3>. HIDE DEF G, step, pick
    <3>. QED  BY <1>3, <2>2, <3>3, <3>4
  <2>3. \A s \in SUBSET S : s # {} => \A v \in G[s \ {pick[s]}] : step[<<s, v>>] \in G[s]  BY <2>2
  <2>. HIDE DEF pick, step, G
  <2>. QED  BY <1>0, <1>2, <2>1, <2>3, FoldLeads
<1>. DEFINE Fits(g) == g = [s \in SUBSET S |-> IF s = {} THEN u ELSE Receives(g[s \ {Chosen(s)}], Chosen(s), b, p)]
            it == CHOOSE g : Fits(g)
<1>6. Told(u, b, p) = it[S]  BY DEF Told, FoldSet, MapThenFoldSet, Chosen, S
<1>7. Fits(f)
  <2>1. ASSUME NEW s \in SUBSET S
        PROVE  f[s] = IF s = {} THEN u ELSE Receives(f[s \ {Chosen(s)}], Chosen(s), b, p)
    <3>1. f[s] = IF s = {} THEN u ELSE step[<<s, f[s \ {pick[s]}]>>]  BY <1>5 DEF FoldOf
    <3>2. f[s \ {Chosen(s)}] \in Shown
      <4>1. s \ {Chosen(s)} \in SUBSET S  OBVIOUS
      <4>. HIDE DEF G
      <4>. QED  BY <1>4, <1>5, <4>1
    <3>3. pick[s] = Chosen(s)  OBVIOUS
    <3>4. step[<<s, f[s \ {Chosen(s)}]>>] = Receives(f[s \ {Chosen(s)}], Chosen(s), b, p)  BY <3>2
    <3>. HIDE DEF step, pick
    <3>. QED  BY <3>1, <3>3, <3>4
  <2>2. f = [s \in SUBSET S |-> f[s]]  BY <1>5 DEF FoldOf
  <2>. QED  BY <2>1, <2>2
<1>8. Fits(it)  BY <1>7
<1>9. \A s \in SUBSET S : it[s] = IF s = {} THEN u ELSE Receives(it[s \ {Chosen(s)}], Chosen(s), b, p)
  BY <1>8
<1>. HIDE DEF it, Fits
<1>. DEFINE T == {s \in SUBSET S : it[s] \in G[s]}
<1>10. \A s \in SUBSET S : s # {} /\ s \ {pick[s]} \in T => s \in T
  <2>. SUFFICES ASSUME NEW s \in SUBSET S, s # {}, s \ {pick[s]} \in T PROVE it[s] \in G[s]  OBVIOUS
  <2>1. it[s \ {Chosen(s)}] \in G[s \ {Chosen(s)}]  OBVIOUS
  <2>. HIDE DEF G
  <2>. QED  BY <1>3, <1>9, <2>1
<1>11. {} \in T
  <2>. HIDE DEF G
  <2>. QED  BY <1>2, <1>9
<1>12. \A s \in SUBSET S : s \in T
  <2>1. \A s \in SUBSET S : s # {} => pick[s] \in s  BY <1>1
  <2>. HIDE DEF T, pick
  <2>. QED  BY <1>0, <1>10, <1>11, <2>1, OneByOne
<1>13. it[S] \in G[S]
  <2>. HIDE DEF G
  <2>. QED  BY <1>12
<1>. QED  BY <1>6, <1>13 DEF S

-----------------------------------------------------------------------------
(* The loop of the pulser.                                                 *)
\* erase() from the list of the pulser.
LEMMA RemoveAtIs ==
    ASSUME NEW V, NEW seq \in Seq(V), NEW k \in 1..Len(seq)
    PROVE  /\ RemoveAt(seq, k) \in Seq(V) /\ Len(RemoveAt(seq, k)) = Len(seq) - 1
           /\ \A i \in 1..Len(seq) - 1 : RemoveAt(seq, k)[i] = IF i < k THEN seq[i] ELSE seq[i + 1]
<1>. DEFINE a == SubSeq(seq, 1, k - 1)
            z == SubSeq(seq, k + 1, Len(seq))
<1>1. Len(seq) \in Nat /\ k \in Nat /\ 1 <= k /\ k <= Len(seq)  OBVIOUS
<1>2. a \in Seq(V) /\ Len(a) = k - 1 /\ \A i \in 1..k - 1 : a[i] = seq[i]  BY <1>1
<1>3. z \in Seq(V) /\ Len(z) = Len(seq) - k /\ \A i \in 1..Len(seq) - k : z[i] = seq[k + i]  BY <1>1
<1>4. RemoveAt(seq, k) = a \o z  BY DEF RemoveAt
<1>. HIDE DEF a, z
<1>5. a \o z \in Seq(V) /\ Len(a \o z) = Len(seq) - 1  BY <1>1, <1>2, <1>3
<1>6. ASSUME NEW i \in 1..Len(seq) - 1 PROVE (a \o z)[i] = IF i < k THEN seq[i] ELSE seq[i + 1]
  <2>1. CASE i < k  BY <1>1, <1>2, <1>3, <2>1
  <2>2. CASE ~(i < k)
    <3>1. (a \o z)[i] = z[i - (k - 1)]  BY <1>1, <1>2, <1>3, <2>2
    <3>2. i - (k - 1) \in 1..Len(seq) - k /\ k + (i - (k - 1)) = i + 1  BY <1>1, <2>2
    <3>. QED  BY <1>3, <2>2, <3>1, <3>2
  <2>. QED  BY <2>1, <2>2
<1>. QED  BY <1>4, <1>5, <1>6

\* Without what was stopped, the list is still right.
LEMMA ErasedIs ==
    ASSUME NEW queued, NEW bars \in Seq(Places), Listed(queued, bars),
           NEW k \in 1..Len(bars), bars[k] = NoWindow
    PROVE  Listed(queued, RemoveAt(bars, k))
<1>. DEFINE t == RemoveAt(bars, k)
            n == Len(bars)
            from == [i \in 1..n - 1 |-> IF i < k THEN i ELSE i + 1]
<1>1. t \in Seq(Places) /\ Len(t) = n - 1 /\ \A i \in 1..n - 1 : t[i] = bars[from[i]]
  BY RemoveAtIs
<1>. HIDE DEF t
<1>2. n \in Nat /\ k \in 1..n  OBVIOUS
<1>3. \A i, j \in 1..n - 1 : from[i] \in 1..n /\ (from[i] = from[j] => i = j)  BY <1>2
<1>4. \A i \in 1..n : i # k => \E j \in 1..n - 1 : from[j] = i
  <2>. SUFFICES ASSUME NEW i \in 1..n, i # k PROVE \E j \in 1..n - 1 : from[j] = i  OBVIOUS
  <2>1. CASE i < k
    <3>1. i \in 1..n - 1 /\ from[i] = i  BY <1>2, <2>1
    <3>. QED  BY <3>1
  <2>2. CASE ~(i < k)
    <3>1. i - 1 \in 1..n - 1 /\ ~(i - 1 < k) /\ (i - 1) + 1 = i  BY <1>2, <2>2
    <3>2. from[i - 1] = i  BY <3>1
    <3>. QED  BY <3>1, <3>2
  <2>. QED  BY <2>1, <2>2
<1>. HIDE DEF from
<1>5. \A i, j \in 1..Len(t) : t[i] = t[j] /\ t[i] # NoWindow => i = j
  <2>. SUFFICES ASSUME NEW i \in 1..n - 1, NEW j \in 1..n - 1, t[i] = t[j], t[i] # NoWindow PROVE i = j
    BY <1>1
  <2>1. from[i] \in 1..n /\ from[j] \in 1..n /\ bars[from[i]] = bars[from[j]] /\ bars[from[i]] # NoWindow
    BY <1>1, <1>3
  <2>2. from[i] = from[j]  BY <2>1 DEF Listed
  <2>. QED  BY <1>3, <2>2
<1>6. ASSUME NEW w \in Windows PROVE w \in queued <=> \E i \in 1..Len(t) : t[i] = w
  <2>1. w \in queued <=> \E i \in 1..n : bars[i] = w  BY DEF Listed
  <2>2. w # NoWindow  BY WindowsAssumption
  <2>3. ASSUME NEW i \in 1..n, bars[i] = w PROVE \E j \in 1..n - 1 : t[j] = w
    <3>1. PICK j \in 1..n - 1 : from[j] = i  BY <1>4, <2>2, <2>3
    <3>. QED  BY <1>1, <2>3, <3>1
  <2>4. ASSUME NEW j \in 1..n - 1, t[j] = w PROVE \E i \in 1..n : bars[i] = w
    BY <1>1, <1>3, <2>4
  <2>. QED  BY <1>1, <2>1, <2>3, <2>4
<1>7. Listed(queued, t)  BY <1>5, <1>6 DEF Listed
<1>. QED  BY <1>7 DEF t

\* doWork() skips to a bar to pulse, if one is left, and loses no window that waits.
LEMMA SkippedIs ==
    ASSUME NEW x \in BarLists, NEW queued, Listed(queued, x.bars)
    PROVE  LET t == Skipped[x]
           IN  /\ t \in BarLists /\ Listed(queued, t.bars)
               /\ t.bars # <<>> => t.current # AtEnd /\ t.bars[t.current] # NoWindow
<1>. DEFINE stop == {y \in BarLists : y.bars = <<>> \/ (y.current # AtEnd /\ y.bars[y.current] # NoWindow)}
            next == [y \in BarLists |-> IF y.current = AtEnd THEN [y EXCEPT !.current = 1]
                                        ELSE Erased(y.bars, y.current)]
            size == [y \in BarLists |-> IF y.current = AtEnd THEN 2 * Len(y.bars) + 1 ELSE 2 * Len(y.bars)]
            Right(y) == Listed(queued, y.bars)
<1>0. \A y \in BarLists : /\ y.bars \in Seq(Places) /\ Len(y.bars) \in Nat /\ y.current \in 0..Len(y.bars)
                          /\ (y.bars = <<>>) <=> Len(y.bars) = 0
  <2>. SUFFICES ASSUME NEW y \in BarLists
                PROVE  /\ y.bars \in Seq(Places) /\ Len(y.bars) \in Nat /\ y.current \in 0..Len(y.bars)
                       /\ (y.bars = <<>>) <=> Len(y.bars) = 0
    OBVIOUS
  <2>1. y.bars \in Seq(Places) /\ y.current \in Nat /\ y.current <= Len(y.bars)  BY DEF BarLists, Places
  <2>. QED  BY <2>1
<1>1. size \in [BarLists -> Nat]
  <2>1. \A y \in BarLists : 2 * Len(y.bars) + 1 \in Nat /\ 2 * Len(y.bars) \in Nat  BY <1>0
  <2>. QED  BY <2>1
<1>2. ASSUME NEW y \in BarLists \ stop
      PROVE  /\ next[y] \in BarLists /\ size[next[y]] < size[y]
             /\ Right(y) => Right(next[y])
  <2>1. y.bars # <<>> /\ Len(y.bars) > 0  BY <1>0
  <2>2. CASE y.current = AtEnd
    <3>1. next[y] = [y EXCEPT !.current = 1]  BY <2>2
    <3>2. next[y] \in BarLists /\ next[y].bars = y.bars /\ next[y].current = 1  BY <1>0, <2>1, <3>1 DEF BarLists
    <3>3. size[next[y]] = 2 * Len(y.bars) /\ size[y] = 2 * Len(y.bars) + 1
      <4>1. 1 # AtEnd  BY DEF AtEnd
      <4>2. size[next[y]] = 2 * Len(y.bars)  BY <3>2, <4>1
      <4>. HIDE DEF next
      <4>. QED  BY <1>0, <2>2, <4>2
    <3>. HIDE DEF next, size
    <3>4. size[next[y]] < size[y]  BY <1>0, <3>3
    <3>. QED  BY <3>2, <3>4
  <2>3. CASE y.current # AtEnd
    <3>0. y.current \in 1..Len(y.bars) /\ y.bars[y.current] = NoWindow  BY <1>0, <2>1, <2>3 DEF AtEnd
    <3>. DEFINE r == RemoveAt(y.bars, y.current)
                c == IF y.current < Len(y.bars) THEN y.current ELSE AtEnd
    <3>1. next[y] = [bars |-> r, current |-> c]  BY <2>3 DEF Erased
    <3>2. r \in Seq(Places) /\ Len(r) = Len(y.bars) - 1  BY <1>0, <3>0, RemoveAtIs
    <3>3. Right(y) => Listed(queued, r)  BY <1>0, <3>0, ErasedIs
    <3>. HIDE DEF r
    <3>3a. c \in Nat /\ c <= Len(r)  BY <1>0, <3>0, <3>2 DEF AtEnd
    <3>. HIDE DEF c
    <3>4. next[y] \in BarLists /\ next[y].bars = r
      BY <3>1, <3>2, <3>3a DEF BarLists, Places
    <3>. HIDE DEF next
    <3>5. size[y] = 2 * Len(y.bars)  BY <2>3
    <3>6. size[next[y]] = 2 * Len(r) \/ size[next[y]] = 2 * Len(r) + 1  BY <3>4
    <3>. HIDE DEF size
    <3>7. size[next[y]] < size[y]  BY <1>0, <1>1, <3>2, <3>4, <3>5, <3>6
    <3>. QED  BY <3>3, <3>4, <3>7
  <2>. QED  BY <2>2, <2>3
<1>3. PICK f : RunOf(f, BarLists, stop, next)
  <2>1. \A y \in BarLists \ stop : next[y] \in BarLists /\ size[next[y]] < size[y]  BY <1>2
  <2>. HIDE DEF stop, next, size
  <2>. QED  BY <1>1, <2>1, RunExists
<1>4. \A y \in BarLists : f[y] = IF y \in stop THEN y ELSE f[next[y]]  BY <1>3 DEF RunOf
<1>. DEFINE Body(g, y) == IF y.bars = <<>> THEN y
                           ELSE IF y.current = AtEnd THEN g[[y EXCEPT !.current = 1]]
                           ELSE IF y.bars[y.current] = NoWindow THEN g[Erased(y.bars, y.current)]
                           ELSE y
            Fits(g) == g = [y \in BarLists |-> Body(g, y)]
<1>5. \A g : \A y \in BarLists : Body(g, y) = IF y \in stop THEN y ELSE g[next[y]]
  <2>. SUFFICES ASSUME NEW g, NEW y \in BarLists
                PROVE  Body(g, y) = IF y \in stop THEN y ELSE g[next[y]]
    OBVIOUS
  <2>1. CASE y.bars = <<>>  BY <2>1
  <2>2. CASE y.bars # <<>> /\ y.current = AtEnd
    <3>1. y \notin stop /\ next[y] = [y EXCEPT !.current = 1]  BY <2>2
    <3>2. Body(g, y) = g[[y EXCEPT !.current = 1]]  BY <2>2
    <3>. QED  BY <3>1, <3>2
  <2>3. CASE y.bars # <<>> /\ y.current # AtEnd /\ y.bars[y.current] = NoWindow
    <3>1. y \notin stop /\ next[y] = Erased(y.bars, y.current)  BY <2>3
    <3>2. Body(g, y) = g[Erased(y.bars, y.current)]  BY <2>3
    <3>. QED  BY <3>1, <3>2
  <2>4. CASE y.bars # <<>> /\ y.current # AtEnd /\ y.bars[y.current] # NoWindow
    <3>1. y \in stop  BY <1>0, <2>4
    <3>2. Body(g, y) = y  BY <2>4
    <3>. QED  BY <3>1, <3>2
  <2>. QED  BY <2>1, <2>2, <2>3, <2>4
<1>6. Fits(f)
  <2>1. \A y \in BarLists : f[y] = Body(f, y)
    <3>. HIDE DEF stop, next, Body
    <3>. QED  BY <1>4, <1>5
  <2>2. f = [y \in BarLists |-> f[y]]  BY <1>3 DEF RunOf
  <2>. HIDE DEF Body
  <2>. QED  BY <2>1, <2>2
<1>7. Skipped = CHOOSE g : Fits(g)  BY DEF Skipped
<1>8. Fits(Skipped)  
  <2>. HIDE DEF Fits
  <2>. QED  BY <1>6, <1>7
<1>9. \A y \in BarLists : Skipped[y] = IF y \in stop THEN y ELSE Skipped[next[y]]
  <2>1. \A y \in BarLists : Skipped[y] = Body(Skipped, y)
    <3>. HIDE DEF Body
    <3>. QED  BY <1>8
  <2>. HIDE DEF stop, next, Body
  <2>. QED  BY <1>5, <2>1
<1>. HIDE DEF Fits, Body
<1>. DEFINE N == {n \in Nat : \A y \in BarLists : size[y] <= n /\ Right(y) =>
                                  Skipped[y] \in stop /\ Right(Skipped[y])}
<1>10. 0 \in N
  <2>. SUFFICES ASSUME NEW y \in BarLists, size[y] <= 0, Right(y)
                PROVE  Skipped[y] \in stop /\ Right(Skipped[y])
    OBVIOUS
  <2>1. y \in stop
    <3>. SUFFICES ASSUME y \notin stop PROVE FALSE  OBVIOUS
    <3>1. next[y] \in BarLists /\ size[next[y]] < size[y]  BY <1>2
    <3>. HIDE DEF size, next
    <3>. QED  BY <1>1, <3>1
  <2>2. Skipped[y] = y  BY <1>9, <2>1
  <2>. QED  BY <2>1, <2>2
<1>11. ASSUME NEW n \in Nat, n \in N PROVE n + 1 \in N
  <2>. SUFFICES ASSUME NEW y \in BarLists, size[y] <= n + 1, Right(y)
                PROVE  Skipped[y] \in stop /\ Right(Skipped[y])
    <3>. HIDE DEF size, stop, Right
    <3>. QED  OBVIOUS
  <2>1. CASE y \in stop
    <3>1. Skipped[y] = y  BY <1>9, <2>1
    <3>. QED  BY <2>1, <3>1
  <2>2. CASE y \notin stop
    <3>1. next[y] \in BarLists /\ size[next[y]] < size[y] /\ Right(next[y])  BY <1>2, <2>2
    <3>2. Skipped[y] = Skipped[next[y]]  BY <1>9, <2>2
    <3>3. size[next[y]] <= n
      <4>. HIDE DEF size, next
      <4>. QED  BY <1>1, <3>1
    <3>4. Skipped[next[y]] \in stop /\ Right(Skipped[next[y]])
      <4>. HIDE DEF size, next, stop, Right
      <4>. QED  BY <1>11, <3>1, <3>3
    <3>. QED  BY <3>2, <3>4
  <2>. QED  BY <2>1, <2>2
<1>12. \A n \in Nat : n \in N
  <2>. HIDE DEF N
  <2>. QED  BY <1>10, <1>11, NatSets
<1>13. Skipped[x] \in stop /\ Right(Skipped[x])
  <2>1. size[x] \in N  BY <1>1, <1>12
  <2>2. size[x] <= size[x]
    <3>. HIDE DEF size
    <3>. QED  BY <1>1
  <2>. HIDE DEF stop, size
  <2>. QED  BY <2>1, <2>2
<1>. HIDE DEF size, next, N
<1>. QED  BY <1>13

-----------------------------------------------------------------------------
(* The inductive invariant.                                                *)

\* An overlay knows the progress of what it shows, or has cleared it.
Knows(children, prog, subs, w) ==
    \A b \in Bitmaps :
        IF w \in subs[b]
        THEN children[b] = prog[b] \/ (prog[b].state = "finished" /\ children[b] = IdleState)
        ELSE children[b] = Gone

BarIsRight(s, d, prog, subs, w) ==
    IF w \in PlainWindows
    THEN \A b \in Bitmaps : w \in subs[b] => PlainBar(s, prog[b], w)
    ELSE OverlayBar(s, d[w], w) /\ Knows(d[w], prog, subs, w)

Reached(p) ==
    /\ p \in BitmapStates /\ p.state # "gone"
    /\ p.state \in {"idle", "waiting"} => p.done = 0
    /\ p.state = "working" => p.done < BitmapTiles

ProgressInv ==
    /\ progress \in [Bitmaps -> BitmapStates] /\ \A b \in Bitmaps : Reached(progress[b])
    /\ subscribed \in [Bitmaps -> SUBSET Windows]
    /\ \A b \in Bitmaps : subscribed[b] # {} => progress[b].state # "idle"
    /\ \A w \in PlainWindows : \A b, c \in Bitmaps : w \in subscribed[b] /\ w \in subscribed[c] => b = c
    /\ Now \in Shown
    /\ timer = IF screen.bars = <<>> THEN 0 ELSE 1
    /\ pulsed \in Places
    /\ \A w \in Windows : BarIsRight(screen, childData, progress, subscribed, w)

\* At the start nothing is shown.
LEMMA ProgressInitially == ProgressInit => ProgressInv
<1>. SUFFICES ASSUME ProgressInit PROVE ProgressInv  OBVIOUS
<1>. USE DEF ProgressInit
<1>1. IdleState \in BitmapStates /\ Gone \in BitmapStates /\ Reached(IdleState)
  BY BitmapsAssumption DEF IdleState, Gone, State, BitmapStates, Reached
<1>2. progress \in [Bitmaps -> BitmapStates] /\ \A b \in Bitmaps : Reached(progress[b])  BY <1>1
<1>3. subscribed \in [Bitmaps -> SUBSET Windows] /\ \A b \in Bitmaps : subscribed[b] = {}  OBVIOUS
<1>4. screen.bars = <<>> /\ screen.waiting = {} /\ screen.current = 0
      /\ screen.fraction = [w \in Windows |-> Zero]
  BY DEF AtEnd
<1>5. <<>> \in Seq(Places) /\ Len(<<>>) = 0  OBVIOUS
<1>6. screen \in Screens
  <2>1. screen.fraction \in [Windows -> Fractions]  BY <1>4, ZeroFraction
  <2>2. screen.waiting \in SUBSET Windows /\ screen.bars \in Seq(Places) /\ screen.current \in Nat
    BY <1>4, <1>5
  <2>3. screen = [waiting |-> screen.waiting, fraction |-> screen.fraction, bars |-> screen.bars,
                  current |-> screen.current]
    OBVIOUS
  <2>. QED  BY ONLY <2>1, <2>2, <2>3 DEF Screens
<1>7. Usable(screen)
  <2>1. Listed(screen.waiting, screen.bars)  BY <1>4, <1>5 DEF Listed
  <2>2. InList(screen.bars, screen.current)  BY <1>4, <1>5 DEF InList
  <2>. QED  BY <1>6, <2>1, <2>2 DEF Usable
<1>8. childData \in Datas  BY <1>1 DEF Datas
<1>9. Now \in Shown  BY <1>6, <1>7, <1>8 DEF Now, Shown
<1>10. timer = IF screen.bars = <<>> THEN 0 ELSE 1  BY <1>4
<1>11. pulsed \in Places  BY DEF Places
<1>12. ASSUME NEW w \in Windows PROVE BarIsRight(screen, childData, progress, subscribed, w)
  <2>1. CASE w \in PlainWindows  BY <1>3, <2>1 DEF BarIsRight
  <2>2. CASE w \notin PlainWindows
    <3>1. w \in OverlayWindows /\ \A b \in Bitmaps : childData[w][b] = Gone /\ childData[w][b].state = "gone"
      BY <2>2 DEF Windows, Gone, State
    <3>2. Overall(childData[w]) = "idle"  BY <3>1 DEF Overall, Some
    <3>3. w \notin screen.waiting /\ screen.fraction[w] = Zero  BY <1>4
    <3>4. OverlayBar(screen, childData[w], w)  BY <3>2, <3>3 DEF OverlayBar
    <3>5. Knows(childData[w], progress, subscribed, w)  BY <1>3, <3>1 DEF Knows
    <3>. QED  BY <2>2, <3>4, <3>5 DEF BarIsRight
  <2>. QED  BY <2>1, <2>2
<1>. QED  BY <1>2, <1>3, <1>9, <1>10, <1>11, <1>12 DEF ProgressInv

\* What is left of a step that changes what is shown.
LEMMA BecomesIs ==
    ASSUME ProgressInv, NEW v \in Shown, Len(v.screen.bars) >= Len(screen.bars), Becomes(v)
    PROVE  /\ Now' = v /\ Now' \in Shown
           /\ screen' = v.screen /\ childData' = v.data
           /\ timer' = IF screen'.bars = <<>> THEN 0 ELSE 1
           /\ pulsed' \in Places
<1>1. screen' = v.screen /\ childData' = v.data /\ Timers /\ pulsed' \in Places  BY DEF Becomes, Places
<1>2. Now' = v  BY <1>1 DEF Now, Shown
<1>3. screen.bars \in Seq(Places) /\ v.screen.bars \in Seq(Places)
  BY DEF ProgressInv, Shown, Now, Screens
<1>4. ((screen.bars = <<>>) <=> Len(screen.bars) = 0) /\ ((v.screen.bars = <<>>) <=> Len(v.screen.bars) = 0)
      /\ Len(screen.bars) \in Nat /\ Len(v.screen.bars) \in Nat
  BY <1>3
<1>5. v.screen.bars = <<>> => screen.bars = <<>>  BY <1>4
<1>6. timer = IF screen.bars = <<>> THEN 0 ELSE 1  BY DEF ProgressInv
<1>7. timer' = IF screen.bars = <<>> /\ screen'.bars # <<>> THEN timer + 1 ELSE timer  BY <1>1 DEF Timers
<1>8. timer' = IF screen'.bars = <<>> THEN 0 ELSE 1  BY ONLY <1>1, <1>5, <1>6, <1>7
<1>. QED  BY <1>1, <1>2, <1>8

LEMMA ClearedKnows ==
    ASSUME NEW children \in [Bitmaps -> BitmapStates], NEW prog, NEW subs, NEW w,
           Knows(children, prog, subs, w)
    PROVE  Knows(Cleared(children), prog, subs, w)
<1>1. IdleState.state = "idle" /\ Gone.state = "gone"  BY DEF IdleState, Gone, State
<1>. QED  BY <1>1 DEF Knows, Cleared

\* Everybody is told of the progress of a bitmap, and nothing else changes.
LEMMA ReportedStep ==
    ASSUME ProgressInv, NEW b \in Bitmaps, NEW p, Reached(p), p.state # "idle", progress[b].state # "finished",
           NEW v \in Shown, Len(v.screen.bars) >= Len(screen.bars), Becomes(v),
           \A w \in Windows : IF w \in subscribed[b] THEN Has(Now, v, w, b, p) ELSE Same(Now, v, w),
           progress' = [progress EXCEPT ![b] = p], UNCHANGED subscribed
    PROVE  ProgressInv'
<1>1. Now' \in Shown /\ screen' = v.screen /\ childData' = v.data
      /\ timer' = (IF screen'.bars = <<>> THEN 0 ELSE 1) /\ pulsed' \in Places
  BY BecomesIs
<1>2. progress' \in [Bitmaps -> BitmapStates] /\ \A c \in Bitmaps : Reached(progress'[c])
  BY DEF ProgressInv, Reached
<1>3. \A c \in Bitmaps : subscribed'[c] # {} => progress'[c].state # "idle"  BY DEF ProgressInv
<1>4. Now.screen = screen /\ Now.data = childData  BY DEF Now
<1>5. ASSUME NEW w \in Windows PROVE BarIsRight(v.screen, v.data, progress', subscribed, w)
  <2>1. CASE w \in PlainWindows
    <3>. SUFFICES ASSUME NEW c \in Bitmaps, w \in subscribed[c] PROVE PlainBar(v.screen, progress'[c], w)
      BY <2>1 DEF BarIsRight
    <3>1. CASE c = b
      <4>1. Has(Now, v, w, b, p) /\ progress'[c] = p  BY <3>1 DEF ProgressInv
      <4>. QED  BY <2>1, <4>1 DEF Has
    <3>2. CASE c # b
      <4>1. w \notin subscribed[b]  BY <2>1, <3>2 DEF ProgressInv
      <4>2. Same(Now, v, w) /\ progress'[c] = progress[c]  BY <3>2, <4>1 DEF ProgressInv
      <4>3. PlainBar(screen, progress[c], w)  BY <2>1 DEF ProgressInv, BarIsRight
      <4>. QED  BY <1>4, <4>2, <4>3 DEF PlainBar, Same
    <3>. QED  BY <3>1, <3>2
  <2>2. CASE w \notin PlainWindows
    <3>1. w \in OverlayWindows /\ childData[w] \in [Bitmaps -> BitmapStates]
      <4>1. w \in OverlayWindows  BY <2>2 DEF Windows
      <4>2. childData \in Datas  BY <1>4 DEF ProgressInv, Shown
      <4>. QED  BY <4>1, <4>2 DEF Datas
    <3>2. OverlayBar(screen, childData[w], w) /\ Knows(childData[w], progress, subscribed, w)
      BY <2>2 DEF ProgressInv, BarIsRight
    <3>3. CASE w \in subscribed[b]
      <4>. DEFINE children == [childData[w] EXCEPT ![b] = p]
      <4>1. Has(Now, v, w, b, p)  BY <3>3
      <4>2. v.data[w] = Cleared(children) /\ OverlayBar(v.screen, v.data[w], w)
        BY <1>4, <2>2, <4>1 DEF Has
      <4>3. children \in [Bitmaps -> BitmapStates]  BY <3>1 DEF Reached
      <4>4. Knows(children, progress', subscribed, w)
        <5>. SUFFICES ASSUME NEW c \in Bitmaps
                      PROVE  IF w \in subscribed[c]
                             THEN \/ children[c] = progress'[c]
                                  \/ progress'[c].state = "finished" /\ children[c] = IdleState
                             ELSE children[c] = Gone
          BY DEF Knows
        <5>1. CASE c = b
          <6>1. children[c] = p /\ progress'[c] = p  BY <3>1, <5>1 DEF ProgressInv
          <6>. QED  BY <3>3, <5>1, <6>1
        <5>2. CASE c # b
          <6>1. children[c] = childData[w][c] /\ progress'[c] = progress[c]  BY <3>1, <5>2 DEF ProgressInv
          <6>. QED  BY <3>2, <6>1 DEF Knows
        <5>. QED  BY <5>1, <5>2
      <4>. HIDE DEF children
      <4>5. Knows(v.data[w], progress', subscribed, w)  BY <4>2, <4>3, <4>4, ClearedKnows
      <4>. QED  BY <2>2, <4>2, <4>5 DEF BarIsRight
    <3>4. CASE w \notin subscribed[b]
      <4>1. Same(Now, v, w)  BY <3>4
      <4>2. v.data[w] = childData[w]  BY <1>4, <3>1, <4>1 DEF Same
      <4>3. OverlayBar(v.screen, childData[w], w)  BY <1>4, <3>2, <4>1 DEF OverlayBar, Same
      <4>4. Knows(childData[w], progress', subscribed, w)
        <5>1. \A c \in Bitmaps : w \in subscribed[c] => progress'[c] = progress[c]
          BY <3>4 DEF ProgressInv
        <5>. QED  BY <3>2, <5>1 DEF Knows
      <4>. QED  BY <2>2, <4>2, <4>3, <4>4 DEF BarIsRight
    <3>. QED  BY <3>3, <3>4
  <2>. QED  BY <2>1, <2>2
<1>6. \A w \in Windows : BarIsRight(screen', childData', progress', subscribed', w)  BY <1>1, <1>5
<1>. QED  BY <1>1, <1>2, <1>3, <1>6 DEF ProgressInv

\* The progress of a bitmap goes to all of its windows.
LEMMA BroadcastStep ==
    ASSUME ProgressInv, NEW b \in Bitmaps, NEW p, Reached(p), p.state # "idle", progress[b].state # "finished",
           Broadcast(b, p)
    PROVE  ProgressInv'
<1>. DEFINE v == Told(Now, b, p)
<1>1. /\ v \in Shown /\ Len(v.screen.bars) >= Len(Now.screen.bars)
      /\ \A w \in Windows : IF w \in subscribed[b] THEN Has(Now, v, w, b, p) ELSE Same(Now, v, w)
  BY ToldIs DEF ProgressInv, Reached
<1>2. Now.screen = screen  BY DEF Now
<1>3. Becomes(v) /\ progress' = [progress EXCEPT ![b] = p] /\ UNCHANGED subscribed
  BY DEF Broadcast
<1>. HIDE DEF v
<1>. QED  BY <1>1, <1>2, <1>3, ReportedStep

\* setWaiting() and setWorking(), when a bitmap is scheduled and when it starts.
LEMMA StartStep ==
    ASSUME ProgressInv, NEW b \in Bitmaps, StartLoad(b) \/ StartTiles(b)
    PROVE  ProgressInv'
<1>1. Reached(State("waiting", 0)) /\ State("waiting", 0).state # "idle"
  BY BitmapsAssumption DEF Reached, State, BitmapStates
<1>2. Reached(State("working", 0)) /\ State("working", 0).state # "idle"
  BY BitmapsAssumption DEF Reached, State, BitmapStates
<1>3. CASE StartLoad(b)
  <2>1. progress[b].state # "finished" /\ Broadcast(b, State("waiting", 0))  BY <1>3 DEF StartLoad
  <2>. QED  BY <1>1, <2>1, BroadcastStep
<1>4. CASE StartTiles(b)
  <2>1. progress[b].state # "finished" /\ Broadcast(b, State("working", 0))  BY <1>4 DEF StartTiles
  <2>. QED  BY <1>2, <2>1, BroadcastStep
<1>. QED  BY <1>3, <1>4

\* setWorking() and, after the last tile, setFinished().
LEMMA TileFinishedStep ==
    ASSUME ProgressInv, NEW b \in Bitmaps, TileFinished(b)
    PROVE  ProgressInv'
<1>. DEFINE p == State("working", progress[b].done + 1)
            last == State("finished", BitmapTiles)
<1>0. progress[b].state = "working" /\ progress[b] \in BitmapStates  BY DEF TileFinished, ProgressInv
<1>1. progress[b].state # "finished"  BY <1>0
<1>2. p.state = "working" /\ p.done = progress[b].done + 1 /\ p.done \in Nat
      /\ last.state = "finished" /\ last.done = BitmapTiles
  BY <1>0, BitmapsAssumption DEF State, BitmapStates
<1>3. Reached(last) /\ last \in BitmapStates
  BY BitmapsAssumption DEF Reached, State, BitmapStates
<1>4. CASE p.done < BitmapTiles
  <2>1. Broadcast(b, p)  BY <1>4 DEF TileFinished
  <2>2. Reached(p)  BY <1>2, <1>4, BitmapsAssumption DEF Reached, State, BitmapStates
  <2>3. p.state # "idle"  BY <1>2
  <2>. HIDE DEF p
  <2>. QED  BY <1>1, <2>1, <2>2, <2>3, BroadcastStep
<1>5. CASE ~(p.done < BitmapTiles)
  <2>. DEFINE u == Told(Now, b, p)
              v == Told(u, b, last)
  <2>1. /\ progress' = [progress EXCEPT ![b] = last] /\ Becomes(v)
        /\ UNCHANGED subscribed
    BY <1>5 DEF TileFinished
  <2>2. p \in BitmapStates
    <3>1. p.done \in 0..BitmapTiles  BY <1>0, <1>2, BitmapsAssumption DEF ProgressInv, Reached, BitmapStates
    <3>. QED  BY <1>2, <3>1 DEF State, BitmapStates
  <2>. HIDE DEF p, last
  <2>3. /\ u \in Shown /\ Len(u.screen.bars) >= Len(Now.screen.bars)
        /\ \A w \in Windows : IF w \in subscribed[b] THEN Has(Now, u, w, b, p) ELSE Same(Now, u, w)
    BY <2>2, ToldIs DEF ProgressInv
  <2>. HIDE DEF u
  <2>4. /\ v \in Shown /\ Len(v.screen.bars) >= Len(u.screen.bars)
        /\ \A w \in Windows : IF w \in subscribed[b] THEN Has(u, v, w, b, last) ELSE Same(u, v, w)
    BY <1>3, <2>3, ToldIs DEF ProgressInv
  <2>. HIDE DEF v
  <2>5. Len(v.screen.bars) >= Len(screen.bars)
    <3>1. Len(screen.bars) \in Nat /\ Len(u.screen.bars) \in Nat /\ Len(v.screen.bars) \in Nat
      BY <2>3, <2>4 DEF ProgressInv, Now, Shown, Screens
    <3>2. Now.screen = screen  BY DEF Now
    <3>. QED  BY <2>3, <2>4, <3>1, <3>2
  <2>6. ASSUME NEW w \in Windows
        PROVE  IF w \in subscribed[b] THEN Has(Now, v, w, b, last) ELSE Same(Now, v, w)
    <3>1. CASE w \in subscribed[b]
      <4>1. Has(Now, u, w, b, p) /\ Has(u, v, w, b, last)  BY <2>3, <2>4, <3>1
      <4>2. CASE w \in PlainWindows  BY <3>1, <4>1, <4>2 DEF Has
      <4>3. CASE w \notin PlainWindows
        <5>1. w \in OverlayWindows /\ Now.data[w] \in [Bitmaps -> BitmapStates]
          <6>1. w \in OverlayWindows /\ Now.data \in Datas  BY <4>3 DEF Windows, ProgressInv, Shown
          <6>. QED  BY <6>1 DEF Datas
        <5>. DEFINE c == [Now.data[w] EXCEPT ![b] = p]
        <5>2. u.data[w] = Cleared(c)  BY <4>1, <4>3 DEF Has
        <5>3. Overall(c) = "working"
          <6>1. c[b].state = "working"  BY <1>2, <5>1
          <6>. QED  BY <6>1 DEF Overall, Some
        <5>4. Cleared(c) = c  BY <5>3 DEF Cleared
        <5>5. [u.data[w] EXCEPT ![b] = last] = [Now.data[w] EXCEPT ![b] = last]  BY <5>1, <5>2, <5>4
        <5>. QED  BY <3>1, <4>1, <4>3, <5>5 DEF Has
      <4>. QED  BY <4>2, <4>3
    <3>2. CASE w \notin subscribed[b]
      <4>1. Same(Now, u, w) /\ Same(u, v, w)  BY <2>3, <2>4, <3>2
      <4>. QED  BY <3>2, <4>1 DEF Same
    <3>. QED  BY <3>1, <3>2
  <2>7. last.state # "idle"  BY <1>2 DEF last
  <2>. QED  BY <1>1, <1>3, <2>1, <2>4, <2>5, <2>6, <2>7, ReportedStep DEF last
<1>. QED  BY <1>4, <1>5

\* A window that shows one more bitmap is told of its progress.
LEMMA SubscribeStep ==
    ASSUME ProgressInv, NEW b \in Bitmaps, NEW w \in Windows, Subscribe(w, b)
    PROVE  ProgressInv'
<1>. DEFINE p == progress[b]
            v == Receives(Now, w, b, p)
<1>0. p \in BitmapStates /\ p.state # "idle" /\ Now \in Shown /\ Now.screen = screen /\ Now.data = childData
  BY DEF ProgressInv, Subscribe, Now
<1>1. /\ v \in Shown /\ Len(v.screen.bars) >= Len(screen.bars)
      /\ \A x \in Windows \ {w} : Same(Now, v, x)
      /\ Has(Now, v, w, b, p)
  BY <1>0, ReceivesIs
<1>2. Becomes(v) /\ subscribed' = [subscribed EXCEPT ![b] = @ \cup {w}] /\ UNCHANGED progress
      /\ \A c \in Bitmaps : w \in subscribed[c] => w \in OverlayWindows /\ c # b
  BY DEF Subscribe
<1>. HIDE DEF v
<1>3. Now' \in Shown /\ screen' = v.screen /\ childData' = v.data
      /\ timer' = (IF screen'.bars = <<>> THEN 0 ELSE 1) /\ pulsed' \in Places
  BY <1>1, <1>2, BecomesIs
<1>4. \A c \in Bitmaps, x \in Windows : x \in subscribed'[c] <=> x \in subscribed[c] \/ (x = w /\ c = b)
  BY <1>2 DEF ProgressInv
<1>5. subscribed' \in [Bitmaps -> SUBSET Windows]  BY <1>2 DEF ProgressInv
<1>6. \A c \in Bitmaps : subscribed'[c] # {} => progress'[c].state # "idle"
  BY <1>0, <1>2 DEF ProgressInv
<1>7. \A x \in PlainWindows : \A c, d \in Bitmaps : x \in subscribed'[c] /\ x \in subscribed'[d] => c = d
  <2>1. PlainWindows \cap OverlayWindows = {} /\ PlainWindows \subseteq Windows
    BY WindowsAssumption DEF Windows
  <2>. QED  BY <1>2, <1>4, <2>1 DEF ProgressInv
<1>8. ASSUME NEW x \in Windows PROVE BarIsRight(v.screen, v.data, progress, subscribed', x)
  <2>0. BarIsRight(screen, childData, progress, subscribed, x)  BY DEF ProgressInv
  <2>1. CASE x # w
    <3>1. Same(Now, v, x) /\ \A c \in Bitmaps : x \in subscribed'[c] <=> x \in subscribed[c]
      BY <1>1, <1>4, <2>1
    <3>2. CASE x \in PlainWindows  BY <1>0, <2>0, <3>1, <3>2 DEF BarIsRight, PlainBar, Same
    <3>3. CASE x \notin PlainWindows
      <4>1. x \in OverlayWindows  BY <3>3 DEF Windows
      <4>2. v.data[x] = childData[x]  BY <1>0, <3>1, <4>1 DEF Same
      <4>3. OverlayBar(v.screen, childData[x], x)  BY <1>0, <2>0, <3>1, <3>3 DEF BarIsRight, OverlayBar, Same
      <4>4. Knows(childData[x], progress, subscribed', x)  BY <2>0, <3>1, <3>3 DEF BarIsRight, Knows
      <4>. QED  BY <3>3, <4>2, <4>3, <4>4 DEF BarIsRight
    <3>. QED  BY <3>2, <3>3
  <2>2. CASE x = w /\ w \in PlainWindows
    <3>1. PlainBar(v.screen, p, w)  BY <1>1, <2>2 DEF Has
    <3>2. \A c \in Bitmaps : w \in subscribed'[c] => c = b
      <4>1. PlainWindows \cap OverlayWindows = {}  BY WindowsAssumption
      <4>. QED  BY <1>2, <1>4, <2>2, <4>1
    <3>. QED  BY <2>2, <3>1, <3>2 DEF BarIsRight
  <2>3. CASE x = w /\ w \notin PlainWindows
    <3>. DEFINE children == [childData[w] EXCEPT ![b] = p]
    <3>1. w \in OverlayWindows /\ childData[w] \in [Bitmaps -> BitmapStates]
      <4>1. w \in OverlayWindows /\ childData \in Datas  BY <1>0, <2>3 DEF Windows, Shown
      <4>. QED  BY <4>1 DEF Datas
    <3>2. v.data[w] = Cleared(children) /\ OverlayBar(v.screen, v.data[w], w)
      BY <1>0, <1>1, <2>3 DEF Has
    <3>3. children \in [Bitmaps -> BitmapStates]  BY <1>0, <3>1
    <3>4. Knows(children, progress, subscribed', w)
      <4>. SUFFICES ASSUME NEW c \in Bitmaps
                    PROVE  IF w \in subscribed'[c]
                           THEN \/ children[c] = progress[c]
                                \/ progress[c].state = "finished" /\ children[c] = IdleState
                           ELSE children[c] = Gone
        BY DEF Knows
      <4>1. CASE c = b
        <5>1. children[c] = progress[c] /\ w \in subscribed'[c]  BY <1>4, <3>1, <4>1
        <5>. QED  BY <5>1
      <4>2. CASE c # b
        <5>1. children[c] = childData[w][c] /\ (w \in subscribed'[c] <=> w \in subscribed[c])
          BY <1>4, <3>1, <4>2
        <5>2. Knows(childData[w], progress, subscribed, w)  BY <2>0, <2>3 DEF BarIsRight
        <5>. QED  BY <5>1, <5>2 DEF Knows
      <4>. QED  BY <4>1, <4>2
    <3>. HIDE DEF children
    <3>5. Knows(v.data[w], progress, subscribed', w)  BY <3>2, <3>3, <3>4, ClearedKnows
    <3>. QED  BY <2>3, <3>2, <3>5 DEF BarIsRight
  <2>. QED  BY <2>1, <2>2, <2>3
<1>9. \A x \in Windows : BarIsRight(screen', childData', progress', subscribed', x)
  BY <1>2, <1>3, <1>8
<1>. QED  BY <1>2, <1>3, <1>5, <1>6, <1>7, <1>9 DEF ProgressInv

\* A window that shows it no longer forgets about it.
LEMMA UnsubscribeStep ==
    ASSUME ProgressInv, NEW b \in Bitmaps, NEW w \in Windows, Unsubscribe(w, b)
    PROVE  ProgressInv'
<1>. DEFINE children == [childData[w] EXCEPT ![b] = Gone]
            v == IF w \in PlainWindows THEN Now ELSE Updated(Now, w, children)
<1>0. Now \in Shown /\ Now.screen = screen /\ Now.data = childData  BY DEF ProgressInv, Now
<1>1. Becomes(v) /\ subscribed' = [subscribed EXCEPT ![b] = @ \ {w}] /\ UNCHANGED progress
  BY DEF Unsubscribe
<1>2. \A c \in Bitmaps, x \in Windows : x \in subscribed'[c] <=> x \in subscribed[c] /\ ~(x = w /\ c = b)
  BY <1>1 DEF ProgressInv
<1>3. subscribed' \in [Bitmaps -> SUBSET Windows]  BY <1>1 DEF ProgressInv
<1>4. \A c \in Bitmaps : subscribed'[c] # {} => progress'[c].state # "idle"  BY <1>1 DEF ProgressInv
<1>5. \A x \in PlainWindows : \A c, d \in Bitmaps : x \in subscribed'[c] /\ x \in subscribed'[d] => c = d
  <2>1. PlainWindows \subseteq Windows  BY DEF Windows
  <2>. QED  BY <1>2, <2>1 DEF ProgressInv
<1>6. w \notin PlainWindows => w \in OverlayWindows /\ childData[w] \in [Bitmaps -> BitmapStates]
  <2>. SUFFICES ASSUME w \notin PlainWindows PROVE w \in OverlayWindows /\ childData[w] \in [Bitmaps -> BitmapStates]
    OBVIOUS
  <2>1. w \in OverlayWindows /\ childData \in Datas  BY <1>0 DEF Windows, Shown
  <2>. QED  BY <2>1 DEF Datas
<1>7. w \notin PlainWindows => children \in [Bitmaps -> BitmapStates]
  <2>1. Gone \in BitmapStates  BY BitmapsAssumption DEF Gone, State, BitmapStates
  <2>. QED  BY <1>6, <2>1
<1>8. /\ v \in Shown /\ Len(v.screen.bars) >= Len(screen.bars)
      /\ \A x \in Windows \ {w} : Same(Now, v, x)
      /\ w \notin PlainWindows => v.data[w] = Cleared(children) /\ OverlayBar(v.screen, v.data[w], w)
      /\ w \in PlainWindows => v = Now
  <2>1. CASE w \in PlainWindows
    <3>1. v = Now  BY <2>1
    <3>2. Len(screen.bars) \in Nat  BY <1>0 DEF Shown, Screens
    <3>. HIDE DEF v
    <3>. QED  BY <1>0, <2>1, <3>1, <3>2 DEF Same
  <2>2. CASE w \notin PlainWindows
    <3>1. v = Updated(Now, w, children)  BY <2>2
    <3>. HIDE DEF v, children
    <3>. QED  BY <1>0, <1>6, <1>7, <2>2, <3>1, UpdatedIs
  <2>. QED  BY <2>1, <2>2
<1>. HIDE DEF v
<1>9. Now' \in Shown /\ screen' = v.screen /\ childData' = v.data
      /\ timer' = (IF screen'.bars = <<>> THEN 0 ELSE 1) /\ pulsed' \in Places
  BY <1>1, <1>8, BecomesIs
<1>10. ASSUME NEW x \in Windows PROVE BarIsRight(v.screen, v.data, progress, subscribed', x)
  <2>0. BarIsRight(screen, childData, progress, subscribed, x)  BY DEF ProgressInv
  <2>1. CASE x # w
    <3>1. Same(Now, v, x) /\ \A c \in Bitmaps : x \in subscribed'[c] <=> x \in subscribed[c]
      BY <1>2, <1>8, <2>1
    <3>2. CASE x \in PlainWindows  BY <1>0, <2>0, <3>1, <3>2 DEF BarIsRight, PlainBar, Same
    <3>3. CASE x \notin PlainWindows
      <4>1. x \in OverlayWindows  BY <3>3 DEF Windows
      <4>2. v.data[x] = childData[x]  BY <1>0, <3>1, <4>1 DEF Same
      <4>3. OverlayBar(v.screen, childData[x], x)  BY <1>0, <2>0, <3>1, <3>3 DEF BarIsRight, OverlayBar, Same
      <4>4. Knows(childData[x], progress, subscribed', x)  BY <2>0, <3>1, <3>3 DEF BarIsRight, Knows
      <4>. QED  BY <3>3, <4>2, <4>3, <4>4 DEF BarIsRight
    <3>. QED  BY <3>2, <3>3
  <2>2. CASE x = w /\ w \in PlainWindows
    <3>1. v.screen = screen  BY <1>0, <1>8, <2>2
    <3>. QED  BY <1>2, <2>0, <2>2, <3>1 DEF BarIsRight
  <2>3. CASE x = w /\ w \notin PlainWindows
    <3>1. Knows(children, progress, subscribed', w)
      <4>. SUFFICES ASSUME NEW c \in Bitmaps
                    PROVE  IF w \in subscribed'[c]
                           THEN \/ children[c] = progress[c]
                                \/ progress[c].state = "finished" /\ children[c] = IdleState
                           ELSE children[c] = Gone
        BY DEF Knows
      <4>1. CASE c = b
        <5>1. children[c] = Gone /\ w \notin subscribed'[c]  BY <1>2, <1>6, <2>3, <4>1
        <5>. QED  BY <5>1
      <4>2. CASE c # b
        <5>1. children[c] = childData[w][c] /\ (w \in subscribed'[c] <=> w \in subscribed[c])
          BY <1>2, <1>6, <2>3, <4>2
        <5>2. Knows(childData[w], progress, subscribed, w)  BY <2>0, <2>3 DEF BarIsRight
        <5>. QED  BY <5>1, <5>2 DEF Knows
      <4>. QED  BY <4>1, <4>2
    <3>. HIDE DEF children
    <3>2. Knows(v.data[w], progress, subscribed', w)  BY <1>7, <1>8, <2>3, <3>1, ClearedKnows
    <3>. QED  BY <1>8, <2>3, <3>2 DEF BarIsRight
  <2>. QED  BY <2>1, <2>2, <2>3
<1>11. \A x \in Windows : BarIsRight(screen', childData', progress', subscribed', x)
  BY <1>1, <1>9, <1>10
<1>12. progress' \in [Bitmaps -> BitmapStates] /\ (\A c \in Bitmaps : Reached(progress'[c]))
  BY <1>1 DEF ProgressInv
<1>. QED  BY <1>3, <1>4, <1>5, <1>9, <1>11, <1>12 DEF ProgressInv

\* The pulser removes from its list what waits no longer.
LEMMA PulseStep ==
    ASSUME ProgressInv, Pulse
    PROVE  ProgressInv'
<1>. DEFINE x == [bars |-> screen.bars, current |-> screen.current]
            s == Skipped[x]
<1>0. Usable(screen) /\ screen \in Screens /\ childData \in Datas /\ Now = [screen |-> screen, data |-> childData]
  BY DEF ProgressInv, Now, Shown
<1>1. x \in BarLists /\ x.bars = screen.bars  BY <1>0 DEF Screens, BarLists, Places, Usable, InList
<1>2. Listed(screen.waiting, x.bars)  BY <1>0, <1>1 DEF Usable
<1>. HIDE DEF x
<1>3. /\ s \in BarLists /\ Listed(screen.waiting, s.bars)
      /\ s.bars # <<>> => s.current # AtEnd /\ s.bars[s.current] # NoWindow
  BY <1>1, <1>2, SkippedIs
<1>4. /\ timer > 0
      /\ screen' = [screen EXCEPT !.bars = s.bars, !.current = IF s.current < Len(s.bars) THEN s.current + 1 ELSE AtEnd]
      /\ timer' = IF s.bars = <<>> THEN timer - 1 ELSE timer
      /\ pulsed' = IF s.bars = <<>> THEN NoWindow ELSE s.bars[s.current]
      /\ UNCHANGED <<progress, subscribed, childData>>
  BY DEF Pulse, x
<1>. HIDE DEF s
<1>. DEFINE at == IF s.current < Len(s.bars) THEN s.current + 1 ELSE AtEnd
<1>5. s.bars \in Seq(Places) /\ s.current \in Nat /\ s.current <= Len(s.bars) /\ Len(s.bars) \in Nat
  BY <1>3 DEF BarLists, Places
<1>5a. at \in Nat /\ at <= Len(s.bars)  BY <1>5 DEF AtEnd
<1>5b. screen' = [screen EXCEPT !.bars = s.bars, !.current = at]  BY <1>4
<1>. HIDE DEF at
<1>6. /\ screen' \in Screens /\ screen'.bars = s.bars /\ screen'.current = at
      /\ screen'.waiting = screen.waiting /\ screen'.fraction = screen.fraction
  BY <1>0, <1>5, <1>5a, <1>5b DEF Screens
<1>7. InList(screen'.bars, screen'.current)  BY <1>5a, <1>6 DEF InList
<1>8. Usable(screen')  BY <1>3, <1>6, <1>7 DEF Usable
<1>9. Now' \in Shown  BY <1>0, <1>4, <1>6, <1>8 DEF Now, Shown
<1>10. timer' = IF screen'.bars = <<>> THEN 0 ELSE 1
  <2>1. timer = IF screen.bars = <<>> THEN 0 ELSE 1  BY DEF ProgressInv
  <2>2. timer = 1  BY <1>4, <2>1
  <2>. QED  BY <1>4, <1>6, <2>2
<1>11. pulsed' \in Places
  <2>1. CASE s.bars = <<>>  BY <1>4, <2>1 DEF Places
  <2>2. CASE s.bars # <<>>
    <3>1. s.current \in 1..Len(s.bars)  BY <1>3, <1>5, <2>2 DEF AtEnd
    <3>. QED  BY <1>4, <1>5, <2>2, <3>1
  <2>. QED  BY <2>1, <2>2
<1>12. \A w \in Windows : BarIsRight(screen', childData', progress', subscribed', w)
  <2>. SUFFICES ASSUME NEW w \in Windows PROVE BarIsRight(screen', childData, progress, subscribed, w)
    BY <1>4
  <2>1. BarIsRight(screen, childData, progress, subscribed, w)  BY DEF ProgressInv
  <2>. QED  BY <1>6, <2>1 DEF BarIsRight, PlainBar, OverlayBar
<1>13. /\ progress' \in [Bitmaps -> BitmapStates] /\ \A c \in Bitmaps : Reached(progress'[c])
       /\ subscribed' \in [Bitmaps -> SUBSET Windows]
       /\ \A c \in Bitmaps : subscribed'[c] # {} => progress'[c].state # "idle"
       /\ \A w \in PlainWindows : \A c, d \in Bitmaps : w \in subscribed'[c] /\ w \in subscribed'[d] => c = d
  BY <1>4 DEF ProgressInv
<1>. QED  BY <1>9, <1>10, <1>11, <1>12, <1>13 DEF ProgressInv

\* All of these steps keep the invariant.
LEMMA ProgressStep == ProgressInv /\ [ProgressNext]_progressVars => ProgressInv'
<1>. SUFFICES ASSUME ProgressInv, [ProgressNext]_progressVars PROVE ProgressInv'  OBVIOUS
<1>1. CASE Pulse  BY <1>1, PulseStep
<1>2. CASE \E b \in Bitmaps : StartLoad(b) \/ StartTiles(b)  BY <1>2, StartStep
<1>3. CASE \E b \in Bitmaps : TileFinished(b)  BY <1>3, TileFinishedStep
<1>4. CASE \E b \in Bitmaps : \E w \in Windows : Subscribe(w, b)  BY <1>4, SubscribeStep
<1>5. CASE \E b \in Bitmaps : \E w \in Windows : Unsubscribe(w, b)  BY <1>5, UnsubscribeStep
<1>6. CASE UNCHANGED progressVars  BY <1>6 DEF progressVars, ProgressInv, Now
<1>. QED  BY <1>1, <1>2, <1>3, <1>4, <1>5, <1>6 DEF ProgressNext

-----------------------------------------------------------------------------
(* What the invariant says of what is shown.                               *)
\* A window is in the list once if it waits, and not at all otherwise.
LEMMA OneBar ==
    ASSUME NEW bars \in Seq(Places), NEW queued, Listed(queued, bars), NEW w \in Windows
    PROVE  Cardinality({i \in DOMAIN bars : bars[i] = w}) = IF w \in queued THEN 1 ELSE 0
<1>. DEFINE at == {i \in DOMAIN bars : bars[i] = w}
<1>0. DOMAIN bars = 1..Len(bars) /\ w # NoWindow  BY WindowsAssumption
<1>1. CASE w \in queued
  <2>1. PICK i \in 1..Len(bars) : bars[i] = w  BY <1>1 DEF Listed
  <2>2. at = {i}  BY <1>0, <2>1 DEF Listed
  <2>3. Cardinality(at) = 1
    <3>. HIDE DEF at
    <3>. QED  BY <2>2, FS_Singleton
  <2>. QED  BY <1>1, <2>3
<1>2. CASE w \notin queued
  <2>1. at = {}  BY <1>0, <1>2 DEF Listed
  <2>2. Cardinality(at) = 0
    <3>. HIDE DEF at
    <3>. QED  BY <2>1, FS_EmptySet
  <2>. QED  BY <1>2, <2>2
<1>. QED  BY <1>1, <1>2

\* The bar of a window with one bitmap.
LEMMA PlainBarShows ==
    ASSUME ProgressInv, NEW w \in PlainWindows
    PROVE  LET working == {b \in ShownIn(w) : progress[b].state = "working"}
               queued == {b \in ShownIn(w) : progress[b].state = "waiting"}
               done    == {b \in ShownIn(w) : /\ progress[b].state = "finished"
                                              /\ w \in OverlayWindows => childData[w][b] # IdleState}
               total   == TotalDone(progress, working \cup done)
               workers == Cardinality(working \cup queued \cup done)
               shown   == screen.fraction[w]
           IN  /\ ShownIn(w) # {} => (w \in screen.waiting <=> working = {} /\ queued # {})
               /\ working # {} => shown[1] * workers * BitmapTiles = total * shown[2]
               /\ (ShownIn(w) # {} /\ working \cup queued = {}) => shown = Zero
<1>. DEFINE working == {b \in ShownIn(w) : progress[b].state = "working"}
            queued == {b \in ShownIn(w) : progress[b].state = "waiting"}
            done    == {b \in ShownIn(w) : /\ progress[b].state = "finished"
                                           /\ w \in OverlayWindows => childData[w][b] # IdleState}
            total   == TotalDone(progress, working \cup done)
            workers == Cardinality(working \cup queued \cup done)
            shown   == screen.fraction[w]
<1>0. w \in Windows  BY DEF Windows
<1>1. CASE ShownIn(w) = {}
  <2>1. working = {}  BY <1>1
  <2>. QED  BY <1>1, <2>1
<1>2. CASE ShownIn(w) # {}
  <2>1. PICK b \in Bitmaps : w \in subscribed[b]  BY <1>2 DEF ShownIn
  <2>2. ShownIn(w) = {b}  BY <2>1 DEF ShownIn, ProgressInv
  <2>3. BarIsRight(screen, childData, progress, subscribed, w)  BY <1>0 DEF ProgressInv
  <2>4. PlainBar(screen, progress[b], w)  BY <2>1, <2>3 DEF BarIsRight
  <2>5. w \in screen.waiting <=> working = {} /\ queued # {}
    <3>1. working = {} /\ queued # {} <=> progress[b].state = "waiting"  BY <2>2
    <3>. QED  BY <2>4, <3>1 DEF PlainBar
  <2>6. ASSUME working # {} PROVE shown[1] * workers * BitmapTiles = total * shown[2]
    <3>1. progress[b].state = "working"  BY <2>2, <2>6
    <3>2. working \cup done = {b} /\ working \cup queued \cup done = {b}  BY <2>2, <3>1
    <3>3. workers = 1
      <4>. HIDE DEF working, done, queued
      <4>. QED  BY <3>2, FS_Singleton
    <3>4. shown = <<progress[b].done, BitmapTiles>>  BY <2>4, <3>1 DEF PlainBar
    <3>5. progress[b].done \in Nat  BY BitmapsAssumption DEF ProgressInv, BitmapStates
    <3>6. total = progress[b].done
      <4>1. progress \in [Bitmaps -> BitmapStates] /\ {b} \in SUBSET Bitmaps /\ b \in {b}  BY DEF ProgressInv
      <4>2. TotalDone(progress, {b}) = TotalDone(progress, {b} \ {b}) + progress[b].done
        BY <4>1, TotalDoneWithout
      <4>3. {b} \ {b} = {}  OBVIOUS
      <4>4. TotalDone(progress, {b}) = 0 + progress[b].done  BY <4>1, <4>2, <4>3, TotalDoneIs
      <4>5. total = TotalDone(progress, {b})
        <5>. HIDE DEF working, done
        <5>. QED  BY <3>2
      <4>. HIDE DEF total
      <4>. QED  BY <3>5, <4>4, <4>5
    <3>. HIDE DEF total, workers, shown
    <3>. QED  BY <3>3, <3>4, <3>5, <3>6, BitmapsAssumption
  <2>7. ASSUME working \cup queued = {} PROVE shown = Zero
    <3>1. progress[b].state \notin {"waiting", "working"}  BY <2>2, <2>7
    <3>. QED  BY <2>4, <3>1 DEF PlainBar
  <2>. QED  BY <2>5, <2>6, <2>7
<1>. QED  BY <1>1, <1>2

\* The bar of an overlay: the mean of those that are busy or done.
LEMMA OverlayBarShows ==
    ASSUME ProgressInv, NEW w \in OverlayWindows
    PROVE  LET working == {b \in ShownIn(w) : progress[b].state = "working"}
               queued == {b \in ShownIn(w) : progress[b].state = "waiting"}
               done    == {b \in ShownIn(w) : /\ progress[b].state = "finished"
                                              /\ w \in OverlayWindows => childData[w][b] # IdleState}
               total   == TotalDone(progress, working \cup done)
               workers == Cardinality(working \cup queued \cup done)
               shown   == screen.fraction[w]
           IN  /\ ShownIn(w) # {} => (w \in screen.waiting <=> working = {} /\ queued # {})
               /\ working # {} => shown[1] * workers * BitmapTiles = total * shown[2]
               /\ (ShownIn(w) # {} /\ working \cup queued = {}) => shown = Zero
<1>. DEFINE working == {b \in ShownIn(w) : progress[b].state = "working"}
            queued == {b \in ShownIn(w) : progress[b].state = "waiting"}
            done    == {b \in ShownIn(w) : /\ progress[b].state = "finished"
                                           /\ w \in OverlayWindows => childData[w][b] # IdleState}
            total   == TotalDone(progress, working \cup done)
            workers == Cardinality(working \cup queued \cup done)
            shown   == screen.fraction[w]
            c       == childData[w]
<1>0. w \in Windows /\ w \notin PlainWindows  BY WindowsAssumption DEF Windows
<1>1. OverlayBar(screen, c, w) /\ Knows(c, progress, subscribed, w)
  BY <1>0 DEF ProgressInv, BarIsRight
<1>2. c \in [Bitmaps -> BitmapStates] /\ progress \in [Bitmaps -> BitmapStates]
  BY DEF ProgressInv, Now, Shown, Datas
<1>3. IdleState.state = "idle" /\ Gone.state = "gone"  BY DEF IdleState, Gone, State
<1>. HIDE DEF c
<1>4. ASSUME NEW b \in Bitmaps
      PROVE  /\ b \in working <=> c[b].state = "working"
             /\ b \in queued <=> c[b].state = "waiting"
             /\ b \in done <=> c[b].state = "finished"
             /\ b \in working \cup queued \cup done => c[b] = progress[b]
             /\ c[b].state \in States
  <2>1. b \in ShownIn(w) <=> w \in subscribed[b]  BY DEF ShownIn
  <2>2. progress[b].state \in States /\ c[b].state \in States /\ progress[b].state # "gone"
        /\ (w \in subscribed[b] => progress[b].state # "idle")
    BY <1>2 DEF ProgressInv, BitmapStates, States, Reached
  <2>3. IF w \in subscribed[b]
        THEN c[b] = progress[b] \/ (progress[b].state = "finished" /\ c[b] = IdleState)
        ELSE c[b] = Gone
    BY <1>1 DEF Knows
  <2>. QED  BY <1>3, <2>1, <2>2, <2>3 DEF c
<1>5. working \subseteq Bitmaps /\ queued \subseteq Bitmaps /\ done \subseteq Bitmaps  BY DEF ShownIn
<1>. HIDE DEF working, queued, done
<1>6. /\ Some(c, "working") <=> working # {}
      /\ Some(c, "waiting") <=> queued # {}
  BY <1>4, <1>5 DEF Some
<1>7. Active(c) = working \cup queued \cup done
  <2>1. \A b \in Bitmaps : b \in Active(c) <=> b \in working \cup queued \cup done
    BY <1>4 DEF Active, States
  <2>. QED  BY <1>5, <2>1 DEF Active
<1>8. w \in screen.waiting <=> working = {} /\ queued # {}
  <2>1. Overall(c) = "waiting" <=> working = {} /\ queued # {}  BY <1>6 DEF Overall
  <2>. QED  BY <1>1, <2>1 DEF OverlayBar
<1>9. ASSUME working # {} PROVE shown[1] * workers * BitmapTiles = total * shown[2]
  <2>. DEFINE n == Cardinality(Active(c))
              t == TotalDone(c, Active(c))
  <2>1. shown = <<t, BitmapTiles * n>>
    <3>1. Overall(c) = "working"  BY <1>6, <1>9 DEF Overall
    <3>. QED  BY <1>1, <3>1 DEF OverlayBar, Average
  <2>2. n \in Nat /\ t \in Nat
    <3>1. Active(c) \in SUBSET Bitmaps  BY DEF Active
    <3>. QED  BY <1>2, <3>1, TotalDoneFits
  <2>3. workers = n  BY <1>7
  <2>4. total = t
    <3>1. working \cup done \in SUBSET Active(c) /\ Active(c) \in SUBSET Bitmaps  BY <1>5, <1>7
    <3>2. \A b \in working \cup done : c[b].done = progress[b].done  BY <1>4, <1>5
    <3>3. \A b \in Active(c) \ (working \cup done) : c[b].done = 0
      <4>. SUFFICES ASSUME NEW b \in Active(c) \ (working \cup done) PROVE c[b].done = 0  OBVIOUS
      <4>1. b \in queued /\ b \in Bitmaps  BY <1>5, <1>7
      <4>2. c[b] = progress[b] /\ c[b].state = "waiting"  BY <1>4, <4>1
      <4>. QED  BY <4>1, <4>2 DEF ProgressInv, Reached
    <3>. QED  BY <1>2, <3>1, <3>2, <3>3, TotalDoneSame
  <2>. HIDE DEF shown, workers, total, n, t
  <2>. QED  BY <2>1, <2>2, <2>3, <2>4, BitmapsAssumption
<1>10. ASSUME working \cup queued = {} PROVE shown = Zero
  <2>1. ~Some(c, "working") /\ ~Some(c, "waiting")  BY <1>6, <1>10
  <2>2. Overall(c) \notin {"waiting", "working"}  BY <2>1 DEF Overall
  <2>. QED  BY <1>1, <2>2 DEF OverlayBar
<1>. HIDE DEF shown, workers, total
<1>11. /\ ShownIn(w) # {} => (w \in screen.waiting <=> working = {} /\ queued # {})
       /\ working # {} => shown[1] * workers * BitmapTiles = total * shown[2]
       /\ (ShownIn(w) # {} /\ working \cup queued = {}) => shown = Zero
  BY <1>8, <1>9, <1>10
<1>. QED  BY <1>11 DEF working, queued, done, shown, workers, total

\* All bars.
LEMMA ProgressInvShows == ProgressInv => ProgressIsShown
<1>. SUFFICES ASSUME ProgressInv PROVE ProgressIsShown  OBVIOUS
<1>1. screen \in Screens /\ Usable(screen) /\ childData \in Datas  BY DEF ProgressInv, Now, Shown
<1>2. ProgressTypeOK
  BY <1>1 DEF ProgressInv, ProgressTypeOK, Screens, Datas, Places
<1>3. BarsAreRight
  <2>. SUFFICES ASSUME NEW w \in Windows
                PROVE  LET working == {b \in ShownIn(w) : progress[b].state = "working"}
                           queued == {b \in ShownIn(w) : progress[b].state = "waiting"}
                           done    == {b \in ShownIn(w) : /\ progress[b].state = "finished"
                                                          /\ w \in OverlayWindows => childData[w][b] # IdleState}
                           total   == TotalDone(progress, working \cup done)
                           workers == Cardinality(working \cup queued \cup done)
                           shown   == screen.fraction[w]
                       IN  /\ shown[1] <= shown[2] /\ shown[2] > 0
                           /\ ShownIn(w) # {} => (w \in screen.waiting <=> working = {} /\ queued # {})
                           /\ working # {} => shown[1] * workers * BitmapTiles = total * shown[2]
                           /\ (ShownIn(w) # {} /\ working \cup queued = {}) => shown = Zero
    BY DEF BarsAreRight
  <2>1. screen.fraction[w] \in Fractions  BY <1>1 DEF Screens
  <2>2. screen.fraction[w][1] <= screen.fraction[w][2] /\ screen.fraction[w][2] > 0
    BY <2>1 DEF Fractions
  <2>3. CASE w \in PlainWindows  BY <2>2, <2>3, PlainBarShows
  <2>4. CASE w \in OverlayWindows  BY <2>2, <2>4, OverlayBarShows
  <2>. QED  BY <2>3, <2>4 DEF Windows
<1>4. PulserIsRight
  <2>1. timer = IF screen.bars = <<>> THEN 0 ELSE 1  BY DEF ProgressInv
  <2>2. screen.current \in {AtEnd} \cup DOMAIN screen.bars
    <3>1. screen.current \in 0..Len(screen.bars) /\ DOMAIN screen.bars = 1..Len(screen.bars)
      BY <1>1 DEF Usable, InList, Screens
    <3>. QED  BY <3>1 DEF AtEnd
  <2>3. \A w \in Windows : Cardinality({i \in DOMAIN screen.bars : screen.bars[i] = w})
                               = IF w \in screen.waiting THEN 1 ELSE 0
    <3>1. screen.bars \in Seq(Places) /\ Listed(screen.waiting, screen.bars)  BY <1>1 DEF Usable, Screens
    <3>. QED  BY <3>1, OneBar
  <2>. QED  BY <2>1, <2>2, <2>3 DEF PulserIsRight
<1>. QED  BY <1>2, <1>3, <1>4 DEF ProgressIsShown

\* The bars of all windows show how far their bitmaps are, whatever is loaded, and
\* opened and closed, in whatever order (progressinterfacehelpers.cc,
\* progressbarmanager.cc).
THEOREM ProgressAlwaysShown == ProgressSpec => []ProgressIsShown
<1>1. ProgressInit => ProgressInv  BY ProgressInitially
<1>2. ProgressInv /\ [ProgressNext]_progressVars => ProgressInv'  BY ProgressStep
<1>3. ProgressInv => ProgressIsShown  BY ProgressInvShows
<1>. QED  BY <1>1, <1>2, <1>3, PTL DEF ProgressSpec

-----------------------------------------------------------------------------
(***************************************************************************)
(* Tools: the buttons and the job of the pipette.                          *)
(***************************************************************************)

ToolsTypes ==
    /\ button \in [AllTools -> {"none", "on", "off"}]
    /\ enabled \in [AllTools -> BOOLEAN]
    /\ DOMAIN mark = AllTools
    /\ wasDisabled \in BOOLEAN
    /\ waiting \in Seq(Selections)
    /\ job \in [pc : {"idle", "compute", "test", "display", "clear", "unlock"},
               mark : Selections \cup {NoMark}, on : BOOLEAN]

\* A job that does not know yet whether to display its result finds out when the
\* tool has been switched off since it started.
JobIsTold ==
    (job.pc \in {"compute", "test"} /\ job.on /\ ~enabled[Pipette]) => wasDisabled

ToolsInv == ToolsTypes /\ ToolsAgree

-----------------------------------------------------------------------------
LEMMA ToolsInitially == ToolsInit => ToolsInv /\ JobIsTold
<1>. SUFFICES ASSUME ToolsInit PROVE ToolsInv /\ JobIsTold  OBVIOUS
<1>1. ToolsTypes
  <2>1. button \in [AllTools -> {"none", "on", "off"}] /\ enabled \in [AllTools -> BOOLEAN] /\ DOMAIN mark = AllTools
    BY DEF ToolsInit
  <2>2. waiting \in Seq(Selections) /\ wasDisabled \in BOOLEAN
    <3>1. waiting = <<>>  BY DEF ToolsInit
    <3>2. <<>> \in Seq(Selections)  OBVIOUS
    <3>3. wasDisabled \in BOOLEAN  BY DEF ToolsInit
    <3>4. waiting \in Seq(Selections)  BY <3>1, <3>2, Zenon
    <3>. QED  BY <3>3, <3>4
  <2>3. job = [pc |-> "idle", mark |-> NoMark, on |-> FALSE]  BY DEF ToolsInit, NoJob
  <2>. QED  BY <2>1, <2>2, <2>3 DEF ToolsTypes
<1>2. ToolsAgree  BY DEF ToolsInit, ToolsAgree, AllTools
<1>3. JobIsTold  BY DEF ToolsInit, JobIsTold, NoJob
<1>. QED  BY <1>1, <1>2, <1>3 DEF ToolsInv

LEMMA SwitchTypes ==
    ASSUME ToolsTypes, NEW t \in AllTools, NEW off \in SUBSET AllTools, Switch(t, off)
    PROVE  /\ enabled' \in [AllTools -> BOOLEAN]
           /\ DOMAIN mark' = AllTools
           /\ wasDisabled' \in BOOLEAN
BY DEF Switch, StaysEnabled, ToolsTypes

LEMMA AddToolButtonStep ==
    ASSUME ToolsInv, NEW t \in AllTools, AddToolButton(t)
    PROVE  ToolsInv'
<1>1. CASE \A s \in AllTools : button[s] = "none"
  <2>1. button' = [button EXCEPT ![t] = "on"] /\ Switch(t, {})  BY <1>1 DEF AddToolButton
  <2>2. ToolsTypes'
    <3>1. UNCHANGED <<waiting, job>>  BY DEF AddToolButton, Click
    <3>2. {} \in SUBSET AllTools  OBVIOUS
    <3>. QED  BY <2>1, <3>1, <3>2, SwitchTypes DEF ToolsInv, ToolsTypes
  <2>3. \A s \in AllTools : ~enabled[s] /\ mark[s] = NoMark
    BY <1>1 DEF ToolsInv, ToolsAgree
  <2>4. \A s \in AllTools : (enabled'[s] <=> s = t) /\ mark'[s] = NoMark
    BY <2>1, <2>3 DEF Switch, StaysEnabled
  <2>5. \A s \in AllTools : button'[s] = "on" <=> s = t
    BY <1>1, <2>1 DEF ToolsInv, ToolsTypes
  <2>. QED  BY <2>2, <2>4, <2>5, ToolsAssumption DEF ToolsInv, ToolsAgree, AllTools
<1>2. CASE ~\A s \in AllTools : button[s] = "none"
  <2>1. /\ button' = [button EXCEPT ![t] = "off"] /\ button[t] = "none"
        /\ UNCHANGED <<enabled, mark, wasDisabled, waiting, job>>
    BY <1>2 DEF AddToolButton, Click
  <2>. QED  BY <1>2, <2>1 DEF ToolsInv, ToolsTypes, ToolsAgree
<1>. QED  BY <1>1, <1>2

LEMMA ToggleToolStep ==
    ASSUME ToolsInv, NEW t \in AllTools, ToggleTool(t)
    PROVE  ToolsInv'
<1>. DEFINE off == {s \in AllTools \ {t} : button[s] = "on"}
<1>1. /\ button' = [s \in AllTools |-> IF s = t THEN "on" ELSE IF s \in off THEN "off" ELSE button[s]]
      /\ Switch(t, off)
  BY DEF ToggleTool
<1>2. ToolsTypes'
  <2>1. UNCHANGED <<waiting, job>>  BY DEF ToggleTool, Click
  <2>2. off \in SUBSET AllTools  OBVIOUS
  <2>3. button' \in [AllTools -> {"none", "on", "off"}]  BY <1>1 DEF ToolsInv, ToolsTypes
  <2>. HIDE DEF off
  <2>. QED  BY <1>1, <2>1, <2>2, <2>3, SwitchTypes DEF ToolsInv, ToolsTypes
<1>3. \A s \in AllTools : /\ enabled'[s] <=> s = t
                          /\ button'[s] = "on" <=> s = t
  BY <1>1 DEF Switch, StaysEnabled, ToolsInv, ToolsAgree
<1>4. \A s \in AllTools : s # t => mark'[s] = NoMark
  BY <1>1 DEF Switch, StaysEnabled, ToolsInv, ToolsAgree
<1>. QED  BY <1>2, <1>3, <1>4, ToolsAssumption DEF ToolsInv, ToolsAgree, AllTools

LEMMA SelectStep ==
    ASSUME ToolsInv, NEW m \in Selections, NEW ends \in BOOLEAN, Select(m, ends)
    PROVE  ToolsInv'
<1>1. UNCHANGED <<button, enabled, wasDisabled, job>> /\ DOMAIN mark' = AllTools  BY DEF Select, Click
<1>3. waiting' \in Seq(Selections)  BY DEF Select, ToolsInv, ToolsTypes
<1>2. \A t \in AllTools : ~enabled[t] => mark'[t] = mark[t]  BY DEF Select, Listens
<1>. QED  BY <1>1, <1>2, <1>3 DEF ToolsInv, ToolsTypes, ToolsAgree

\* What the steps of a job do to the job, and to the flag.
LEMMA JobSteps ==
    ASSUME ToolsInv, JobStep
    PROVE  /\ UNCHANGED <<button, enabled, mark>>
           /\ wasDisabled' \in BOOLEAN
           /\ waiting' \in Seq(Selections)
           /\ job' \in [pc : {"idle", "compute", "test", "display", "clear", "unlock"},
                        mark : Selections \cup {NoMark}, on : BOOLEAN]
           /\ job'.pc = "compute" => job.pc = "idle" /\ job'.on = enabled[Pipette]
           /\ job'.pc = "test" => /\ job.pc = "compute" /\ job'.on = job.on
                                 /\ wasDisabled' = wasDisabled
           /\ job'.pc = "display" => job.pc = "test" /\ ~wasDisabled
<1>. USE DEF ToolsInv, ToolsTypes
<1>1. CASE StartJob
  <2>1. /\ waiting # <<>> /\ waiting' = Tail(waiting)
        /\ job' = [pc |-> "compute", mark |-> Head(waiting), on |-> enabled[Pipette]]
        /\ UNCHANGED <<button, enabled, mark, wasDisabled>> /\ job.pc = "idle"
    BY <1>1 DEF StartJob, Works
  <2>2. Head(waiting) \in Selections /\ Tail(waiting) \in Seq(Selections)  BY <2>1
  <2>3. enabled[Pipette] \in BOOLEAN  BY DEF AllTools
  <2>. QED  BY <2>1, <2>2, <2>3
<1>2. CASE ComputeValues
  <2>1. /\ job' = [job EXCEPT !.pc = "test"] \/ job' = [job EXCEPT !.pc = "unlock"]
        /\ UNCHANGED <<button, enabled, mark, wasDisabled, waiting>> /\ job.pc = "compute"
    BY <1>2, Zenon DEF ComputeValues, Works
  <2>. QED  BY <2>1
<1>3. CASE TestDisabled
  <2>1. /\ \/ job' = [job EXCEPT !.pc = "clear"]
           \/ job' = [job EXCEPT !.pc = "display"] /\ ~wasDisabled
        /\ UNCHANGED <<button, enabled, mark, waiting>> /\ wasDisabled' = TRUE /\ job.pc = "test"
    BY <1>3, Zenon DEF TestDisabled, Works
  <2>. QED  BY <2>1
<1>4. CASE DisplayValues \/ ClearDisabled
  BY <1>4 DEF DisplayValues, ClearDisabled, Works
<1>5. CASE UnlockJob
  BY <1>5 DEF UnlockJob, Works, NoJob
<1>. QED  BY <1>1, <1>2, <1>3, <1>4, <1>5 DEF JobStep

LEMMA JobStepKeeps ==
    ASSUME ToolsInv, JobStep
    PROVE  ToolsInv'
BY JobSteps DEF ToolsInv, ToolsTypes, ToolsAgree

LEMMA ToolsStep == ToolsInv /\ [ToolsNext]_toolVars => ToolsInv'
<1>. SUFFICES ASSUME ToolsInv, [ToolsNext]_toolVars PROVE ToolsInv'  OBVIOUS
<1>1. CASE UNCHANGED toolVars
  BY <1>1 DEF toolVars, ToolsInv, ToolsTypes, ToolsAgree
<1>2. CASE CloseWindow \/ ShowMessage
  BY <1>2 DEF CloseWindow, ShowMessage, ToolsInv, ToolsTypes, ToolsAgree
<1>. QED
  BY <1>1, <1>2, AddToolButtonStep, ToggleToolStep, SelectStep, JobStepKeeps DEF ToolsNext

\* The tools of a view and their buttons agree (view.cc, toolButtonToggled()):
\* whatever the user and the jobs do, one tool is on, and no other has a selection.
THEOREM ToolsAlwaysAgree == ToolsSpec => []ToolsAgree
<1>1. ToolsInv => ToolsAgree  BY DEF ToolsInv
<1>. QED  BY <1>1, ToolsInitially, ToolsStep, PTL DEF ToolsSpec

-----------------------------------------------------------------------------
LEMMA SwitchTells ==
    ASSUME ToolsInv, JobIsTold, NEW t \in AllTools, NEW off \in SUBSET AllTools, Switch(t, off), UNCHANGED job
    PROVE  JobIsTold'
<1>1. SUFFICES ASSUME job.pc \in {"compute", "test"}, job.on, ~enabled'[Pipette]
               PROVE  wasDisabled'
  BY DEF JobIsTold
<1>2. Pipette # t  BY <1>1 DEF Switch, StaysEnabled, AllTools
<1>3. CASE Pipette \in off  BY <1>3 DEF Switch, StaysEnabled
<1>4. CASE Pipette \notin off
  <2>1. ~enabled[Pipette]  BY <1>1, <1>4 DEF Switch, StaysEnabled, AllTools
  <2>2. wasDisabled  BY <1>1, <2>1 DEF JobIsTold
  <2>. QED  BY <1>2, <2>2 DEF Switch, StaysEnabled
<1>. QED  BY <1>3, <1>4

LEMMA JobIsToldStep == ToolsInv /\ JobIsTold /\ [ToolsNext]_toolVars => JobIsTold'
<1>. SUFFICES ASSUME ToolsInv, JobIsTold, [ToolsNext]_toolVars PROVE JobIsTold'  OBVIOUS
<1>1. CASE UNCHANGED toolVars
  BY <1>1 DEF toolVars, JobIsTold
<1>2. ASSUME NEW t \in AllTools, AddToolButton(t) PROVE JobIsTold'
  <2>1. UNCHANGED job  BY <1>2 DEF AddToolButton, Click
  <2>2. Switch(t, {}) \/ UNCHANGED <<enabled, wasDisabled>>  BY <1>2 DEF AddToolButton
  <2>. QED  BY <2>1, <2>2, SwitchTells DEF JobIsTold
<1>3. ASSUME NEW t \in AllTools, ToggleTool(t) PROVE JobIsTold'
  <2>1. UNCHANGED job  BY <1>3 DEF ToggleTool, Click
  <2>2. Switch(t, {s \in AllTools \ {t} : button[s] = "on"})  BY <1>3 DEF ToggleTool
  <2>. QED  BY <2>1, <2>2, SwitchTells
<1>4. ASSUME NEW m \in Selections, NEW ends \in BOOLEAN, Select(m, ends) PROVE JobIsTold'
  BY <1>4 DEF Select, Click, JobIsTold
<1>5. CASE CloseWindow \/ ShowMessage
  BY <1>5 DEF CloseWindow, ShowMessage, JobIsTold
<1>6. CASE JobStep
  <2>. SUFFICES ASSUME job'.pc \in {"compute", "test"}, job'.on, ~enabled'[Pipette] PROVE wasDisabled'
    BY DEF JobIsTold
  <2>1. enabled' = enabled  BY <1>6, JobSteps
  <2>2. job'.pc = "test"  BY <1>6, <2>1, JobSteps
  <2>. QED  BY <1>6, <2>1, <2>2, JobSteps DEF JobIsTold
<1>. QED
  BY <1>1, <1>2, <1>3, <1>4, <1>5, <1>6 DEF ToolsNext

LEMMA TestedIsOn ==
    ToolsInv /\ JobIsTold /\ [ToolsNext]_toolVars
        => [(job.pc = "test" /\ job'.pc = "display" /\ job.on) => enabled[Pipette]]_toolVars
<1>. SUFFICES ASSUME ToolsInv, JobIsTold, [ToolsNext]_toolVars, job.pc = "test", job'.pc = "display", job.on
              PROVE  enabled[Pipette] \/ UNCHANGED toolVars
  OBVIOUS
<1>1. JobStep \/ UNCHANGED job
  BY DEF ToolsNext, AddToolButton, ToggleTool, Select, Click, CloseWindow, ShowMessage, toolVars
<1>2. JobStep  BY <1>1
<1>. QED  BY <1>2, JobSteps DEF JobIsTold

\* PipetteHandler::computeValues() ignores the result of a job during which the
\* pipette was switched off (pipette.cc:83).
THEOREM ResultIsIgnored == ToolsSpec => SwitchedOffIsIgnored
BY ToolsInitially, ToolsStep, JobIsToldStep, TestedIsOn, PTL DEF ToolsSpec, SwitchedOffIsIgnored
=============================================================================
