------------------------------- MODULE Redraw -------------------------------
(***************************************************************************)
(* Redrawing a view of a tiled bitmap (libs/tiled-bitmap:                  *)
(* tiledbitmapviewdata.cc, and TiledBitmap::redraw(), open(), close() and  *)
(* clearCaches() in tiled-bitmap.cc).                                      *)
(*                                                                         *)
(* A redraw, on the UI thread, first tells the view data which tiles it    *)
(* needs, and then draws what the tiles of the view have prepared.  Tiles  *)
(* that are not ready call tileLoaded() from a worker when they are, upon  *)
(* which the view data has the view redrawn.  The flag redrawPending keeps *)
(* it from asking for that again and again.                                *)
(*                                                                         *)
(* The tile of the view is represented by its promise (tileviewstate.hh):  *)
(* once asked to, it gets "ready" and then tells its observers.            *)
(***************************************************************************)
EXTENDS Naturals

CONSTANTS
    ViewTiles,    \* the tiles of the bitmap, numbered
    ViewAreas,    \* the areas the view may show, as sets of tiles
    ViewZooms,    \* the zoom levels it may have
    Drawers,      \* the threads of CpuBound()
    MaxRequests   \* bound on the number of times the user does something

ASSUME TilesAssumption    == ViewTiles \subseteq Nat
ASSUME AreasAssumption    == ViewAreas \subseteq SUBSET ViewTiles
ASSUME RequestsAssumption == MaxRequests \in Nat

VARIABLES
    shownView,   \* the view: "new", "open" or "closed"; what it has to show,
                 \* which tiles are on the screen, is it to be redrawn
    needed,      \* TiledBitmapViewData: imin..jmax, as a set, and zoom
    pending,     \* redrawPending
    observed,    \* the tiles in stuff, with a registration,
    oldStuff,    \* ... in oldStuff, which still has the old tiles,
    newStuff,    \* ... in newStuff, which gets the new ones
    kept,        \* the tiles of which volatileStuff keeps what was prepared,
    oldVolatile, \* ... and those of oldVolatileStuff
    viewTile,    \* of each tile: the zoom level and what is prepared of it
    ui,          \* what the UI thread is doing, and the tiles left to do
    after,       \* what it does after resetNeededTiles()
    drawer,      \* what each worker is doing, and for which tile
    asyncs,      \* invalidations that the UI thread has still to do
    requests     \* number of times the user has done something

redrawVars == <<shownView, needed, pending, observed, oldStuff, newStuff, kept, oldVolatile,
                viewTile, ui, after, drawer, asyncs, requests>>

lists == <<observed, oldStuff, newStuff, kept, oldVolatile>>

At(pc, todo) == [pc |-> pc, todo |-> todo]
Idle == At("idle", {})

\* The loops over i and j take the tiles in order.
IsFirst(t, tiles) == t \in tiles /\ \A s \in tiles : t <= s

Nothing == [tiles |-> {}, zoom |-> 0]

RedrawInit ==
    /\ shownView = [state |-> "new", want |-> Nothing, shown |-> {}, dirty |-> FALSE]
    /\ needed = Nothing
    /\ pending = FALSE
    /\ observed = {} /\ oldStuff = {} /\ newStuff = {}
    /\ kept = {} /\ oldVolatile = {}
    /\ viewTile = [t \in ViewTiles |-> [zoom |-> 0, image |-> "none"]]
    /\ ui = Idle
    /\ after = "unpend"
    /\ drawer = [w \in Drawers |-> Idle]
    /\ asyncs = 0
    /\ requests = 0

-----------------------------------------------------------------------------
(* The tile of a view.                                                     *)

Started(s) == IF s.image = "none" THEN [s EXCEPT !.image = "working"] ELSE s

\* setZoom(): an image at another zoom level is of no use.
AtZoom(s, z) == IF s.zoom = z THEN s ELSE [zoom |-> z, image |-> "working"]

\* clear(), when the last reference to the token of the tile goes: kick()
\* starts over if the view data still exists.
Restarted(tiles, exists) ==
    [t \in ViewTiles |->
        IF t \in tiles
        THEN [viewTile[t] EXCEPT !.image = IF exists /\ @ # "none" THEN "working" ELSE "none"]
        ELSE viewTile[t]]

\* What can be drawn: getCacheResult() has something.
HasImage(t) == viewTile[t].image \in {"computed", "ready"}

-----------------------------------------------------------------------------
(* The UI thread.                                                          *)

Request ==
    /\ ui.pc = "idle"
    /\ requests < MaxRequests
    /\ requests' = requests + 1

\* TiledBitmap::open(), for a view that has yet to be drawn.
OpenBitmap ==
    /\ Request
    /\ shownView.state = "new"
    /\ \E a \in ViewAreas, z \in ViewZooms :
          shownView' = [shownView EXCEPT !.state = "open", !.want = [tiles |-> a, zoom |-> z],
                                         !.dirty = TRUE]
    /\ UNCHANGED <<after, needed, pending, lists, viewTile, ui, drawer, asyncs>>

\* The user scrolls or zooms: the view is to show something else.
LookElsewhere ==
    /\ Request
    /\ shownView.state = "open"
    /\ \E a \in ViewAreas, z \in ViewZooms :
          shownView' = [shownView EXCEPT !.want = [tiles |-> a, zoom |-> z], !.dirty = TRUE,
                                         !.shown = {}]
    /\ UNCHANGED <<after, needed, pending, lists, viewTile, ui, drawer, asyncs>>

\* The invalidation of tileLoaded() is executed.  (It may come when the view data
\* to which it refers is gone; what it does then to the view is left out.)
RunAsync ==
    /\ ui.pc = "idle"
    /\ asyncs > 0
    /\ asyncs' = asyncs - 1
    /\ shownView' = [shownView EXCEPT !.dirty = TRUE]
    /\ UNCHANGED <<after, needed, pending, lists, viewTile, ui, drawer, requests>>

\* The view is drawn from nothing.
StartRedraw ==
    /\ ui.pc = "idle"
    /\ shownView.state = "open" /\ shownView.dirty
    /\ shownView' = [shownView EXCEPT !.dirty = FALSE, !.shown = {}]
    /\ ui' = At("setNeeded", {})
    /\ UNCHANGED <<after, needed, pending, lists, viewTile, drawer, asyncs, requests>>

WrongSetNeededTiles ==  \* redrawPending stays as it was if there is nothing to do
    LET want == shownView.want
        same == want.zoom = needed.zoom /\ want.tiles \subseteq needed.tiles
    IN /\ ui.pc = "setNeeded"
       /\ needed' = IF same THEN needed ELSE want
       /\ pending' = IF same THEN pending ELSE TRUE
       /\ ui' = IF same THEN At("draw", want.tiles) ELSE At("swap", {})
       /\ after' = "unpend"
       /\ UNCHANGED <<shownView, lists, viewTile, drawer, asyncs, requests>>

\* setNeededTiles(), until it unlocks.
SetNeededTiles ==
    LET want == shownView.want
        same == want.zoom = needed.zoom /\ want.tiles \subseteq needed.tiles
    IN /\ ui.pc = "setNeeded"
       /\ needed' = IF same THEN needed ELSE want
       /\ pending' = ~same
       /\ ui' = IF same THEN At("draw", want.tiles) ELSE At("swap", {})
       /\ after' = "unpend"
       /\ UNCHANGED <<shownView, lists, viewTile, drawer, asyncs, requests>>

WrongPutAside ==  \* volatileStuff is cleared at once
    /\ ui.pc = "swap"
    /\ oldStuff' = observed /\ observed' = {}
    /\ kept' = {}
    /\ viewTile' = Restarted(kept, TRUE)
    /\ ui' = At("setViewData", needed.tiles)
    /\ UNCHANGED <<after, shownView, needed, pending, newStuff, oldVolatile, drawer, asyncs,
                   requests>>

\* resetNeededTiles(): what there was is put aside ...
PutAside ==
    /\ ui.pc = "swap"
    /\ oldStuff' = observed /\ observed' = {}
    /\ oldVolatile' = kept /\ kept' = {}
    /\ ui' = At("setViewData", needed.tiles)
    /\ UNCHANGED <<after, shownView, needed, pending, newStuff, viewTile, drawer, asyncs, requests>>

\* ... the tiles are asked for what is needed: setViewData() with
\* storeVolatileStuff(), and setZoom(), and are registered with ...
AskTile(t) ==
    /\ ui.pc = "setViewData"
    /\ IsFirst(t, ui.todo)
    /\ viewTile' = [viewTile EXCEPT ![t] = Started(AtZoom(Started(@), needed.zoom))]
    /\ kept' = kept \cup {t}
    /\ newStuff' = newStuff \cup {t}
    /\ ui' = [ui EXCEPT !.todo = @ \ {t}]
    /\ UNCHANGED <<after, shownView, needed, pending, observed, oldStuff, oldVolatile, drawer, asyncs,
                   requests>>

\* ... oldStuff and oldVolatileStuff are cleared ...
DropOld ==
    /\ ui.pc = "setViewData"
    /\ ui.todo = {}
    /\ oldStuff' = {}
    /\ oldVolatile' = {}
    /\ viewTile' = Restarted(oldVolatile \ kept, TRUE)
    /\ ui' = At("splice", {})
    /\ UNCHANGED <<after, shownView, needed, pending, observed, newStuff, kept, drawer, asyncs, requests>>

\* ... and newStuff is added to stuff.
Splice ==
    /\ ui.pc = "splice"
    /\ observed' = observed \cup newStuff
    /\ newStuff' = {}
    /\ ui' = At(after, {})
    /\ UNCHANGED <<after, shownView, needed, pending, oldStuff, kept, oldVolatile, viewTile, drawer,
                   asyncs, requests>>

\* The end of setNeededTiles().
Unpend ==
    /\ ui.pc = "unpend"
    /\ pending' = FALSE
    /\ ui' = At("draw", shownView.want.tiles)
    /\ UNCHANGED <<after, shownView, needed, lists, viewTile, drawer, asyncs, requests>>

\* What the tile has prepared is drawn; if there is nothing, its state.
DrawTile(t) ==
    /\ ui.pc = "draw"
    /\ IsFirst(t, ui.todo)
    /\ shownView' = [shownView EXCEPT !.shown = IF HasImage(t) THEN @ \cup {t} ELSE @]
    /\ ui' = IF ui.todo = {t} THEN Idle ELSE [ui EXCEPT !.todo = @ \ {t}]
    /\ UNCHANGED <<after, needed, pending, lists, viewTile, drawer, asyncs, requests>>

\* TiledBitmapPresentation::clearCaches(), when the colours change:
\* clearVolatileStuff() ...
ClearVolatileStuff ==
    /\ Request
    /\ shownView.state = "open"
    /\ kept' = {}
    /\ viewTile' = Restarted(kept, TRUE)
    /\ ui' = At("swap", {})
    /\ after' = "invalidate"
    /\ UNCHANGED <<shownView, needed, pending, observed, oldStuff, newStuff, oldVolatile, drawer,
                   asyncs>>

\* ... after which the view is invalidated.  What it shows is outdated.
InvalidateView ==
    /\ ui.pc = "invalidate"
    /\ shownView' = [shownView EXCEPT !.dirty = TRUE, !.shown = {}]
    /\ ui' = Idle
    /\ UNCHANGED <<after, needed, pending, lists, viewTile, drawer, asyncs, requests>>

\* TiledBitmap::close(): the view data is forgotten ...
CloseBitmap ==
    /\ ui.pc = "idle"
    /\ shownView.state = "open"
    /\ shownView' = [shownView EXCEPT !.state = "closed"]
    /\ UNCHANGED <<after, needed, pending, lists, viewTile, ui, drawer, asyncs, requests>>

Telling(w) == drawer[w].pc = "tell"

\* ... and destroyed with everything it keeps, unless a worker uses it.
DestroyViewData ==
    /\ shownView.state = "closed"
    /\ observed \cup kept # {}
    /\ \A w \in Drawers : ~Telling(w)
    /\ viewTile' = Restarted(kept, FALSE)
    /\ observed' = {} /\ kept' = {}
    /\ UNCHANGED <<after, shownView, needed, pending, oldStuff, newStuff, oldVolatile, ui, drawer,
                   asyncs, requests>>

-----------------------------------------------------------------------------
(* The workers.                                                            *)

\* The image of a tile gets ready, and is there to be drawn ...
Compute(t) ==
    /\ viewTile[t].image = "working"
    /\ viewTile' = [viewTile EXCEPT ![t].image = "computed"]
    /\ UNCHANGED <<after, shownView, needed, pending, lists, ui, drawer, asyncs, requests>>

\* ... which is reported: reportDone() ...
Report(w, t) ==
    /\ drawer[w].pc = "idle"
    /\ viewTile[t].image = "computed"
    /\ viewTile' = [viewTile EXCEPT ![t].image = "ready"]
    /\ drawer' = [drawer EXCEPT ![w] = At("report", {t})]
    /\ UNCHANGED <<after, shownView, needed, pending, lists, ui, asyncs, requests>>

\* ... gets the observers ...
GetObservers(w) ==
    /\ drawer[w].pc = "report"
    /\ drawer' = [drawer EXCEPT ![w] =
          IF @.todo \subseteq observed \cup oldStuff \cup newStuff THEN [@ EXCEPT !.pc = "tell"]
          ELSE Idle]
    /\ UNCHANGED <<after, shownView, needed, pending, lists, viewTile, ui, asyncs, requests>>

WrongTileLoaded(w) ==  \* forgets to ask for a redraw
    /\ Telling(w)
    /\ asyncs' = asyncs
    /\ pending' = TRUE
    /\ drawer' = [drawer EXCEPT ![w] = Idle]
    /\ UNCHANGED <<after, shownView, needed, lists, viewTile, ui, requests>>

\* ... and calls their tileLoaded().
TileLoaded(w) ==
    /\ Telling(w)
    /\ asyncs' = IF pending THEN asyncs ELSE asyncs + 1
    /\ pending' = TRUE
    /\ drawer' = [drawer EXCEPT ![w] = Idle]
    /\ UNCHANGED <<after, shownView, needed, lists, viewTile, ui, requests>>

\* A tile of the view nobody refers to is destroyed.
ForgetTile(t) ==
    /\ t \notin observed \cup oldStuff \cup newStuff \cup kept \cup oldVolatile
    /\ viewTile[t].image = "ready"
    /\ \A w \in Drawers : t \notin drawer[w].todo
    /\ viewTile' = [viewTile EXCEPT ![t] = [zoom |-> 0, image |-> "none"]]
    /\ UNCHANGED <<after, shownView, needed, pending, lists, ui, drawer, asyncs, requests>>

-----------------------------------------------------------------------------
RedrawUI ==
    \/ RunAsync \/ StartRedraw \/ SetNeededTiles \/ PutAside
    \/ \E t \in ViewTiles : AskTile(t) \/ DrawTile(t)
    \/ DropOld \/ Splice \/ Unpend \/ InvalidateView

RedrawWorker ==
    \/ \E t \in ViewTiles : Compute(t)
    \/ \E w \in Drawers :
          \/ \E t \in ViewTiles : Report(w, t)
          \/ GetObservers(w) \/ TileLoaded(w)

RedrawNext ==
    \/ RedrawUI \/ RedrawWorker
    \/ OpenBitmap \/ LookElsewhere \/ ClearVolatileStuff
    \/ CloseBitmap \/ DestroyViewData
    \/ \E t \in ViewTiles : ForgetTile(t)

\* The UI thread and the workers go on with what they are doing.
RedrawFairness ==
    /\ WF_redrawVars(RedrawUI)
    /\ WF_redrawVars(\E t \in ViewTiles : Compute(t))
    /\ \A w \in Drawers : WF_redrawVars(GetObservers(w) \/ TileLoaded(w)
                                          \/ \E t \in ViewTiles : Report(w, t))

RedrawSpec == RedrawInit /\ [][RedrawNext]_redrawVars /\ RedrawFairness

-----------------------------------------------------------------------------
(* Properties.                                                             *)

RedrawTypeOK ==
    /\ shownView \in [state : {"new", "open", "closed"},
                      want : [tiles : ViewAreas \cup {{}}, zoom : ViewZooms \cup {0}],
                      shown : SUBSET ViewTiles, dirty : BOOLEAN]
    /\ needed \in [tiles : ViewAreas \cup {{}}, zoom : ViewZooms \cup {0}]
    /\ pending \in BOOLEAN
    /\ observed \cup oldStuff \cup newStuff \cup kept \cup oldVolatile \subseteq ViewTiles
    /\ viewTile \in [ViewTiles -> [zoom : ViewZooms \cup {0},
                                   image : {"none", "working", "computed", "ready"}]]
    /\ drawer \in [Drawers -> [pc : {"idle", "report", "tell"}, todo : SUBSET ViewTiles]]
    /\ asyncs \in Nat
    /\ requests \in 0..MaxRequests

\* The view will be redrawn without the user doing anything.
RedrawOrdered == shownView.dirty \/ asyncs > 0

\* Between redraws, redrawPending says that a redraw has been ordered.
PendingIsTrue == (ui.pc = "idle" /\ shownView.state = "open" /\ pending) => RedrawOrdered

\* A tile the view should show, and that was finished after it was drawn, is
\* not forgotten: either a redraw has been ordered or a worker is about to
\* call tileLoaded(), whatever the UI thread was doing in between.
NoTileIsMissed ==
    (ui.pc = "idle" /\ shownView.state = "open" /\ ~RedrawOrdered) =>
        \A t \in shownView.want.tiles \ shownView.shown :
            \/ viewTile[t].image \in {"working", "computed"}
            \/ \E w \in Drawers : t \in drawer[w].todo

\* What the view shows it needs; what it needs it observes and keeps.
NeededIsKept ==
    (ui.pc \in {"idle", "draw"} /\ shownView.state = "open") =>
        /\ observed = needed.tiles
        /\ kept = needed.tiles
        /\ ~shownView.dirty => shownView.want.tiles \subseteq needed.tiles

\* clear() hits a tile that the view still needs only if the user asked for it:
\* scrolling does not throw away what has been prepared at this zoom level.
PreparedIsKept ==
    [][\A t \in ViewTiles :
          (/\ HasImage(t) /\ viewTile'[t].image = "working"
           /\ ui.pc # "idle")
             => \/ t \notin needed.tiles
                \/ viewTile'[t].zoom # viewTile[t].zoom]_redrawVars

RedrawIsRight == RedrawTypeOK /\ PendingIsTrue /\ NoTileIsMissed /\ NeededIsKept

\* In the end the view shows what it should.
EverythingIsShown ==
    (shownView.state = "open") ~>
        (shownView.shown = shownView.want.tiles \/ shownView.state = "closed")
=============================================================================
