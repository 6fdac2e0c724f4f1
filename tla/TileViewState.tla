--------------------------- MODULE TileViewState ---------------------------
(***************************************************************************)
(* A tile in a view (libs/tiled-bitmap, tileviewstate.cc): a state machine *)
(* that draws the tile in advance, at the zoom level of the view, in jobs  *)
(* on CpuBound().                                                          *)
(*                                                                         *)
(* A new job gets a queue of its own.  Whatever makes the work in progress *)
(* useless gives up the queue, so that the job, once it is done, finds     *)
(* that its queue is no longer weakQueue.                                  *)
(*                                                                         *)
(* In the code nothing is ever assigned to the member weakQueue: in kick() *)
(* the capture "weakQueue = queue->getWeak()" is a variable of the lambda. *)
(* That is StoresWeakQueue = FALSE, under which no job does anything.      *)
(* With StoresWeakQueue = TRUE kick() assigns the member as well, to check *)
(* the rest of the machine.                                                *)
(***************************************************************************)
EXTENDS Naturals

CONSTANTS
    Zoomers,          \* threads of CpuBound()
    Zooms,            \* the zoom levels, positive numbers
    MaxEvents,        \* bound on the number of times the tile is loaded, and
                      \* the user does something
    StoresWeakQueue,  \* see above
    NoWorker          \* not a worker

ASSUME ZoomsAssumption == Zooms \subseteq Nat \ {0}
ASSUME EventsAssumption == MaxEvents \in Nat
ASSUME StoresAssumption == StoresWeakQueue \in BOOLEAN
ASSUME NoWorkerAssumption == NoWorker \notin Zoomers

Viewer == "ui"
ViewThreads == Zoomers \cup {Viewer}

\* The UI thread is not one of CpuBound().
ASSUME ViewerAssumption == Viewer \notin Zoomers

\* TileViewState::State
INIT == 0
LOADED == 1
COMPUTING_BASE == 2
BASE_COMPUTED == 3
COMPUTING_ZOOM == 4
ZOOM_COMPUTED == 5
DONE == 6

VARIABLES
    tvs,        \* the members of TileViewState that mut protects
    mut,        \* the thread that has locked mut for more than one step, or NoWorker
    processes,  \* the queues of the scheduled process() jobs
    doing,      \* what each thread is doing
    next,       \* what it does after that
    job,        \* of each worker: the queue of the process() it executes, and
                \* the values that the computation has captured
    view,       \* TiledBitmapViewData: "none" until setViewData(), then
                \* "open" until the user closes the view
    holds,      \* the threads that have a strong reference to the view data
    events      \* number of events so far

tileViewVars == <<tvs, mut, processes, doing, next, job, view, holds, events>>

NoImage == [tile |-> 0, zoom |-> 0]
NoJob   == [queue |-> 0, tile |-> 0, base |-> 0, zoom |-> 0]

\* Queues are numbered; 0 is none.  A base cache is represented by the version
\* of the tile it was computed from, a zoom cache by that and its zoom level.
TileViewInit ==
    /\ tvs = [state |-> INIT, desired |-> LOADED, queue |-> 0, weakQueue |-> 0, tile |-> 0,
              zoom |-> 0, base |-> 0, image |-> NoImage, life |-> FALSE, made |-> 0]
    /\ mut = NoWorker
    /\ processes = {}
    /\ doing = [t \in ViewThreads |-> "idle"]
    /\ next = [t \in ViewThreads |-> "idle"]
    /\ job = [w \in Zoomers |-> NoJob]
    /\ view = "none"
    /\ holds = {}
    /\ events = 0

-----------------------------------------------------------------------------
(* What is done under mut.                                                 *)

\* tbvd.lock() succeeds.
ViewExists == view = "open" \/ holds # {}

\* kick(): start process() on a new queue, if there is something to do.
Kicked(s, exists) ==
    IF s.state >= LOADED /\ s.desired >= s.state /\ s.queue = 0 /\ exists
    THEN [s EXCEPT !.queue = s.made + 1, !.made = s.made + 1,
                   !.weakQueue = IF StoresWeakQueue THEN s.made + 1 ELSE 0]
    ELSE s

\* The new process() job of kick().
Kicks == processes' = IF tvs'.made # tvs.made THEN processes \cup {tvs'.made} ELSE processes

QueueGivenUp(s) == [s EXCEPT !.queue = 0, !.weakQueue = 0]

Aborted(s) == [QueueGivenUp(s) EXCEPT !.image = NoImage]

Loaded(s, version) ==
    [(IF s.state > LOADED THEN Aborted(s) ELSE s) EXCEPT !.tile = version, !.state = LOADED]

Zoomed(s, z) ==
    IF s.desired = DONE /\ s.zoom = z THEN s
    ELSE [(IF s.state >= BASE_COMPUTED THEN [Aborted(s) EXCEPT !.state = BASE_COMPUTED] ELSE s)
             EXCEPT !.zoom = z, !.desired = DONE]

Cleared(s) ==
    [Aborted(s) EXCEPT !.state = IF s.state >= LOADED THEN LOADED ELSE s.state,
                       !.life = FALSE, !.base = 0]

-----------------------------------------------------------------------------
(* References to the view data.  Destroying it destroys its volatileStuff, *)
(* which calls clear(), on the thread that had the last reference.         *)

\* t still has its reference, and drops it.
LastReference(t) == holds = {t} /\ view # "open"

AfterDrop(t, then) == IF LastReference(t) /\ tvs.life THEN "clear" ELSE then

\* The end of kick() and of the critical section in which it is called.
\* Unlocking comes after the references are dropped.
Unlock(w) ==
    /\ doing[w] = "kicked"
    /\ holds' = holds \ {w}
    /\ doing' = [doing EXCEPT ![w] = AfterDrop(w, next[w])]
    /\ mut' = IF AfterDrop(w, next[w]) = "clear" THEN mut ELSE NoWorker
    /\ UNCHANGED <<tvs, processes, next, job, view, events>>

\* clear(), for the user or in the destructor of the view data.
Clear(t) ==
    /\ doing[t] = "clear"
    /\ mut = NoWorker
    /\ tvs' = Kicked(Cleared(tvs), ViewExists)
    /\ Kicks
    /\ doing' = [doing EXCEPT ![t] = next[t]]
    /\ UNCHANGED <<mut, next, job, view, holds, events>>

Event == events < MaxEvents /\ events' = events + 1

-----------------------------------------------------------------------------
(* The UI thread.  It keeps the view data alive while it uses it.          *)

\* resetNeededTiles(): setViewData() ...
SetViewData ==
    /\ doing[Viewer] = "idle" /\ view # "closed"
    /\ Event
    /\ mut = NoWorker
    /\ view' = "open"
    /\ tvs' = Kicked([tvs EXCEPT !.life = TRUE], TRUE)
    /\ Kicks
    /\ doing' = [doing EXCEPT ![Viewer] = "set"]
    /\ UNCHANGED <<mut, next, job, holds>>

\* ... and setZoom().
SetZoom(z) ==
    /\ doing[Viewer] = "set"
    /\ mut = NoWorker
    /\ tvs' = IF Zoomed(tvs, z) = tvs THEN tvs ELSE Kicked(Zoomed(tvs, z), TRUE)
    /\ Kicks
    /\ doing' = [doing EXCEPT ![Viewer] = "idle"]
    /\ UNCHANGED <<mut, next, job, view, holds, events>>

\* The volatile stuff of the view goes, on request or because the tile is no
\* longer needed.
ClearCaches ==
    /\ doing[Viewer] = "idle" /\ view = "open" /\ tvs.life
    /\ Event
    /\ doing' = [doing EXCEPT ![Viewer] = "clear"]
    /\ UNCHANGED <<tvs, mut, processes, next, job, view, holds>>

\* TiledBitmap::close().
Close ==
    /\ doing[Viewer] = "idle" /\ view = "open"
    /\ view' = "closed"
    /\ doing' = [doing EXCEPT ![Viewer] = IF holds = {} /\ tvs.life THEN "clear" ELSE "idle"]
    /\ UNCHANGED <<tvs, mut, processes, next, job, holds, events>>

-----------------------------------------------------------------------------
(* The workers.                                                            *)

\* The reference to the view data that is taken under mut.
Locks(w) ==
    /\ mut' = w
    /\ holds' = IF ViewExists THEN holds \cup {w} ELSE holds

\* The tile has been loaded, or loaded again.
TileLoaded(w) ==
    /\ doing[w] = "idle"
    /\ Event
    /\ mut = NoWorker
    /\ Locks(w)
    /\ tvs' = Kicked(Loaded(tvs, events'), ViewExists)
    /\ Kicks
    /\ doing' = [doing EXCEPT ![w] = "kicked"]
    /\ next' = [next EXCEPT ![w] = "idle"]
    /\ UNCHANGED <<job, view>>

\* process() is not executed if its queue is gone.
StartProcess(w, q) ==
    /\ doing[w] = "idle"
    /\ q \in processes
    /\ processes' = processes \ {q}
    /\ IF q = tvs.queue
       THEN /\ job' = [job EXCEPT ![w] = [NoJob EXCEPT !.queue = q]]
            /\ doing' = [doing EXCEPT ![w] = "loop"]
       ELSE UNCHANGED <<job, doing>>
    /\ UNCHANGED <<tvs, mut, next, view, holds, events>>

\* An iteration of the loop of process() that has something to do.
Iterates(w) ==
    /\ doing[w] = "loop"
    /\ mut = NoWorker
    /\ job[w].queue = tvs.weakQueue
    /\ tvs.state < tvs.desired

StartBase(w) ==
    /\ Iterates(w) /\ tvs.state = LOADED
    /\ tvs' = [tvs EXCEPT !.state = COMPUTING_BASE]
    /\ job' = [job EXCEPT ![w].tile = tvs.tile]
    /\ doing' = [doing EXCEPT ![w] = "base"]
    /\ UNCHANGED <<mut, processes, next, view, holds, events>>

StartZoom(w) ==
    /\ Iterates(w) /\ tvs.state = BASE_COMPUTED
    /\ tvs' = [tvs EXCEPT !.state = COMPUTING_ZOOM]
    /\ job' = [job EXCEPT ![w].tile = tvs.tile, ![w].base = tvs.base, ![w].zoom = tvs.zoom]
    /\ doing' = [doing EXCEPT ![w] = "zoom"]
    /\ UNCHANGED <<mut, processes, next, view, holds, events>>

\* reportDone() gets references to the observers, hence to the view data.
StartReport(w) ==
    /\ Iterates(w) /\ tvs.state = ZOOM_COMPUTED
    /\ tvs' = [tvs EXCEPT !.state = DONE]
    /\ holds' = IF ViewExists THEN holds \cup {w} ELSE holds
    /\ doing' = [doing EXCEPT ![w] = "report"]
    /\ UNCHANGED <<mut, processes, next, job, view, events>>

\* "PANIC: Don't know what to do in state": process() returns.
Panic(w) ==
    /\ Iterates(w) /\ tvs.state \notin {LOADED, BASE_COMPUTED, ZOOM_COMPUTED}
    /\ doing' = [doing EXCEPT ![w] = "idle"]
    /\ UNCHANGED <<tvs, mut, processes, next, job, view, holds, events>>

ReportDone(w) ==
    /\ doing[w] = "report"
    /\ holds' = holds \ {w}
    /\ doing' = [doing EXCEPT ![w] = AfterDrop(w, "loop")]
    /\ next' = [next EXCEPT ![w] = "loop"]
    /\ UNCHANGED <<tvs, mut, processes, job, view, events>>

WrongStillWanted(w) ==  \* looks at the zoom level, not at the queue
    ViewExists /\ job[w].zoom \in {0, tvs.zoom}

\* The view still wants what w has computed.
StillWanted(w) == ViewExists /\ tvs.weakQueue = job[w].queue

ComputeBase(w) ==
    /\ doing[w] = "base"
    /\ mut = NoWorker
    /\ Locks(w)
    /\ tvs' = IF StillWanted(w) /\ tvs.desired >= BASE_COMPUTED
              THEN [tvs EXCEPT !.base = job[w].tile, !.state = BASE_COMPUTED]
              ELSE tvs
    /\ doing' = [doing EXCEPT ![w] = "kicked"]
    /\ next' = [next EXCEPT ![w] = "loop"]
    /\ UNCHANGED <<processes, job, view, events>>

ComputeZoom(w) ==
    /\ doing[w] = "zoom"
    /\ mut = NoWorker
    /\ Locks(w)
    /\ tvs' = IF StillWanted(w) /\ tvs.desired >= ZOOM_COMPUTED /\ tvs.zoom = job[w].zoom
              THEN [tvs EXCEPT !.image = [tile |-> job[w].base, zoom |-> job[w].zoom],
                               !.state = ZOOM_COMPUTED]
              ELSE tvs
    /\ doing' = [doing EXCEPT ![w] = "kicked"]
    /\ next' = [next EXCEPT ![w] = "loop"]
    /\ UNCHANGED <<processes, job, view, events>>

\* Nothing to do: the loop ends.
Leave(w) ==
    /\ doing[w] = "loop"
    /\ mut = NoWorker
    /\ ~Iterates(w)
    /\ doing' = [doing EXCEPT ![w] = "leave"]
    /\ UNCHANGED <<tvs, mut, processes, next, job, view, holds, events>>

\* mut is locked again, to give up the queue.
Finish(w) ==
    /\ doing[w] = "leave"
    /\ mut = NoWorker
    /\ tvs' = IF job[w].queue = tvs.weakQueue THEN QueueGivenUp(tvs) ELSE tvs
    /\ doing' = [doing EXCEPT ![w] = "idle"]
    /\ UNCHANGED <<mut, processes, next, job, view, holds, events>>

-----------------------------------------------------------------------------
ViewerStep == Clear(Viewer) \/ \E z \in Zooms : SetZoom(z)

ZoomerStep(w) ==
    \/ Unlock(w) \/ Clear(w)
    \/ StartBase(w) \/ StartZoom(w) \/ StartReport(w) \/ Panic(w)
    \/ ComputeBase(w) \/ ComputeZoom(w) \/ ReportDone(w)
    \/ Leave(w) \/ Finish(w)

TileViewNext ==
    \/ ViewerStep
    \/ SetViewData \/ ClearCaches \/ Close
    \/ \E w \in Zoomers :
          \/ ZoomerStep(w)
          \/ TileLoaded(w)
          \/ \E q \in processes : StartProcess(w, q)

TileViewSpec == TileViewInit /\ [][TileViewNext]_tileViewVars

\* Threads go on with what they are doing: MaxEvents bounds how often they can
\* be kept from mut.  Workers execute the scheduled jobs.
TileViewFairness ==
    /\ WF_tileViewVars(ViewerStep)
    /\ \A w \in Zoomers : WF_tileViewVars(ZoomerStep(w))
    /\ WF_tileViewVars(\E w \in Zoomers, q \in processes : StartProcess(w, q))

TileViewFairSpec == TileViewSpec /\ TileViewFairness

-----------------------------------------------------------------------------
(* Properties.                                                             *)

Versions == 0..MaxEvents

TileViewTypeOK ==
    /\ tvs \in [state : INIT..DONE, desired : {LOADED, DONE}, queue : Versions \cup {tvs.made},
                weakQueue : {0, tvs.made}, tile : Versions, zoom : Zooms \cup {0},
                base : Versions, image : [tile : Versions, zoom : Zooms \cup {0}],
                life : BOOLEAN, made : 0..(2 * MaxEvents + 1)]
    /\ mut \in Zoomers \cup {NoWorker}
    /\ processes \subseteq 1..tvs.made
    /\ doing \in [ViewThreads -> {"idle", "set", "clear", "kicked", "loop", "base", "zoom", "report", "leave"}]
    /\ next \in [ViewThreads -> {"idle", "loop"}]
    /\ \A w \in Zoomers : job[w].queue \in 0..tvs.made
    /\ view \in {"none", "open", "closed"}
    /\ holds \subseteq Zoomers
    /\ events \in Versions

\* What is drawn in advance is the tile as it was last loaded, at the zoom
\* level the view was last set to, and the states promise what is there: no
\* computation that was overtaken by a reload, a zoom or a clear leaves its
\* result behind.
ResultsAreCurrent ==
    /\ tvs.image # NoImage => tvs.image = [tile |-> tvs.tile, zoom |-> tvs.zoom]
    /\ tvs.state \in {BASE_COMPUTED, COMPUTING_ZOOM} => tvs.base = tvs.tile
    /\ tvs.state \in {ZOOM_COMPUTED, DONE} => tvs.image # NoImage

\* The states of a tile of a view and what was computed for it agree
\* (tileviewstate.cc, computeBase(), computeZoom() and the events).
TileViewIsRight == TileViewTypeOK /\ ResultsAreCurrent

\* A worker that destroys the view data in kick(), computeBase() or
\* computeZoom() still has mut, which clear() locks: it waits for itself.
SelfDeadlock == \E w \in Zoomers : doing[w] = "clear" /\ mut = w

\* A loaded tile of an open view gets drawn in advance: kick() and process()
\* "make the state machine progress" (tileviewstate.hh).
GetsDone ==
    []~SelfDeadlock =>
        ((tvs.state >= LOADED /\ tvs.desired = DONE /\ view = "open")
            ~> (tvs.state = DONE \/ view = "closed"))
=============================================================================
