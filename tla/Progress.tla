------------------------------ MODULE Progress ------------------------------
(***************************************************************************)
(* How the progress of loading gets on the screen: the broadcaster of each *)
(* bitmap and the multiplexer of each overlay                              *)
(* (libs/util/src/progressinterfacehelpers.cc), and the manager of each    *)
(* progress bar with the pulser that makes the bars of the windows that    *)
(* wait move (gui/src/progressbarmanager.cc).                              *)
(*                                                                         *)
(* All of it is called on the UI thread: TiledBitmap::tileFinished() and   *)
(* scheduleLoadingBitmap() use sync_on_ui_thread(), and subscribing is     *)
(* part of opening a view.  A call is an action.                           *)
(***************************************************************************)
EXTENDS Naturals, Sequences, FiniteSetsExt, SequencesExt

CONSTANTS
    Bitmaps,         \* the bitmaps that are loaded
    BitmapTiles,     \* the number of tiles of each
    PlainWindows,    \* windows that show one bitmap
    OverlayWindows,  \* windows that show any number of bitmaps
    NoWindow,        \* nullptr
    MaxBars          \* bound on the length of the list of the pulser

Windows == PlainWindows \cup OverlayWindows

ASSUME BitmapsAssumption == IsFiniteSet(Bitmaps) /\ BitmapTiles \in Nat \ {0}
ASSUME WindowsAssumption == /\ IsFiniteSet(Windows) /\ NoWindow \notin Windows
                            /\ PlainWindows \cap OverlayWindows = {}

VARIABLES
    progress,     \* of each bitmap: ProgressStore, with the tiles that are done
    subscribed,   \* of each bitmap: the windows among the children of its broadcaster
    childData,    \* of each overlay and bitmap: ProgressInterfaceMultiplexer::ChildData
    screen,       \* the progress bars: which managers are waiting, the fractions
                  \* they show, and the list of the pulser and its place in it
    timer,        \* the number of timers that call doWork()
    pulsed        \* the window of which the bar was pulsed by the last step, if it was
                  \* one of the pulser

progressVars == <<progress, subscribed, childData, screen, timer, pulsed>>

State(s, done) == [state |-> s, done |-> done]
Gone == State("gone", 0)
IdleState == State("idle", 0)

\* current is end(), which is no bar's place, and stays end() when a bar is added.
AtEnd == 0

\* A fraction is a numerator and a denominator.
Zero == <<0, 1>>

ProgressInit ==
    /\ progress = [b \in Bitmaps |-> IdleState]
    /\ subscribed = [b \in Bitmaps |-> {}]
    /\ childData = [w \in OverlayWindows |-> [b \in Bitmaps |-> Gone]]
    /\ screen = [waiting |-> {}, fraction |-> [w \in Windows |-> Zero], bars |-> <<>>, current |-> AtEnd]
    /\ timer = 0
    /\ pulsed = NoWindow

-----------------------------------------------------------------------------
(* ProgressBarManager and ProgressBarPulser.                               *)

StartWaiting(s, w) ==
    IF w \in s.waiting THEN s
    ELSE [s EXCEPT !.waiting = @ \cup {w}, !.bars = Append(@, w),
                   !.current = IF s.bars = <<>> THEN 1 ELSE @]

\* stop() leaves a nullptr in the list.
StopWaiting(s, w) ==
    IF w \notin s.waiting THEN s
    ELSE [s EXCEPT !.waiting = @ \ {w},
                   !.bars = [i \in DOMAIN @ |-> IF @[i] = w THEN NoWindow ELSE @[i]]]

SetWorking(s, w, f) == [StopWaiting(s, w) EXCEPT !.fraction[w] = f]

\* setIdle(), setWaiting(), setWorking() and setFinished().
SetProgress(s, w, state, f) ==
    CASE state = "waiting" -> StartWaiting(s, w)
      [] state = "working" -> SetWorking(s, w, f)
      [] OTHER             -> SetWorking(s, w, Zero)

WrongTimers ==  \* starts when there are two
    timer' = IF Len(screen.bars) < 2 /\ Len(screen'.bars) >= 2 THEN timer + 1 ELSE timer

\* start() starts a timer when its bar is the only one in the list.
Timers == timer' = IF screen.bars = <<>> /\ screen'.bars # <<>> THEN timer + 1 ELSE timer

\* erase() returns the iterator to the next bar.
Erased(bars, i) == [bars |-> RemoveAt(bars, i), current |-> IF i < Len(bars) THEN i ELSE AtEnd]

BarLists == {s \in [bars : Seq(Windows \cup {NoWindow}), current : Nat] : s.current <= Len(s.bars)}

\* The loop of doWork(): past the end, and past what was stopped.
Skipped[s \in BarLists] ==
    IF s.bars = <<>> THEN s
    ELSE IF s.current = AtEnd THEN Skipped[[s EXCEPT !.current = 1]]
    ELSE IF s.bars[s.current] = NoWindow THEN Skipped[Erased(s.bars, s.current)]
    ELSE s

\* doWork(), which ends the timer by returning false.
Pulse ==
    /\ timer > 0
    /\ LET s == Skipped[[bars |-> screen.bars, current |-> screen.current]]
       IN /\ screen' = [screen EXCEPT !.bars = s.bars,
                                      !.current = IF s.current < Len(s.bars) THEN s.current + 1 ELSE AtEnd]
          /\ timer' = IF s.bars = <<>> THEN timer - 1 ELSE timer
          /\ pulsed' = IF s.bars = <<>> THEN NoWindow ELSE s.bars[s.current]
    /\ UNCHANGED <<progress, subscribed, childData>>

-----------------------------------------------------------------------------
(* ProgressInterfaceMultiplexer.                                           *)

Active(children) == {b \in Bitmaps : children[b].state \notin {"gone", "idle"}}

Some(children, state) == \E b \in Bitmaps : children[b].state = state

WrongOverall(children) ==  \* done as soon as one is
    IF Some(children, "finished") THEN "finished"
    ELSE IF Some(children, "working") THEN "working"
    ELSE IF Some(children, "waiting") THEN "waiting" ELSE "idle"

\* updateProgressState(): the state ...
Overall(children) ==
    IF Some(children, "working") THEN "working"
    ELSE IF Some(children, "waiting") THEN "waiting"
    ELSE IF Some(children, "finished") THEN "finished" ELSE "idle"

TotalDone(data, bs) == FoldSet(LAMBDA b, sum : sum + data[b].done, 0, bs)

\* ... and progress / workers, 0 / 0 if nobody works.
Average(children) ==
    <<TotalDone(children, Active(children)), BitmapTiles * Cardinality(Active(children))>>

\* clearFinished() is called for each child once all are done.
Cleared(children) ==
    IF Overall(children) = "finished"
    THEN [b \in Bitmaps |-> IF children[b].state = "finished" THEN IdleState ELSE children[b]]
    ELSE children

\* A set of windows, and what each knows of the bitmaps: [screen, data].
Updated(u, w, children) ==
    [screen |-> SetProgress(u.screen, w, Overall(children), Average(children)),
     data   |-> [u.data EXCEPT ![w] = Cleared(children)]]

\* What window w does with the progress p of bitmap b.
Receives(u, w, b, p) ==
    IF w \in PlainWindows
    THEN [u EXCEPT !.screen = SetProgress(@, w, p.state, <<p.done, BitmapTiles>>)]
    ELSE Updated(u, w, [u.data[w] EXCEPT ![b] = p])

Now == [screen |-> screen, data |-> childData]
Becomes(u) == screen' = u.screen /\ childData' = u.data /\ Timers /\ pulsed' = NoWindow

-----------------------------------------------------------------------------
(* ProgressInterfaceBroadcaster.                                           *)

Told(u, b, p) == FoldSet(LAMBDA w, v : Receives(v, w, b, p), u, subscribed[b])

\* The store is one of the children.
Broadcast(b, p) ==
    /\ progress' = [progress EXCEPT ![b] = p]
    /\ Becomes(Told(Now, b, p))
    /\ UNCHANGED subscribed

\* scheduleLoadingBitmap(), and its job.
StartLoad(b) ==
    /\ progress[b].state = "idle"
    /\ Broadcast(b, State("waiting", 0))

StartTiles(b) ==
    /\ progress[b].state = "waiting"
    /\ Broadcast(b, State("working", 0))

\* TiledBitmap::tileFinished() reports the last tile as such, and then that
\* the bitmap is finished.
TileFinished(b) ==
    /\ progress[b].state = "working"
    /\ LET p == State("working", progress[b].done + 1)
           last == State("finished", BitmapTiles)
       IN IF p.done < BitmapTiles THEN Broadcast(b, p)
          ELSE /\ progress' = [progress EXCEPT ![b] = last]
               /\ Becomes(Told(Told(Now, b, p), b, last))
               /\ UNCHANGED subscribed

\* TiledBitmap::open(): the bitmap is shown in a window, when it is being loaded
\* or later.
Subscribe(w, b) ==
    /\ progress[b].state # "idle"
    /\ Len(screen.bars) < MaxBars
    /\ \A c \in Bitmaps : w \in subscribed[c] => w \in OverlayWindows /\ c # b
    /\ Becomes(Receives(Now, w, b, progress[b]))
    /\ subscribed' = [subscribed EXCEPT ![b] = @ \cup {w}]
    /\ UNCHANGED progress

\* TiledBitmap::close().  The overlay forgets its child, in ~Child(); the bar of
\* a window without overlay stays as it is.
Unsubscribe(w, b) ==
    /\ w \in subscribed[b]
    /\ subscribed' = [subscribed EXCEPT ![b] = @ \ {w}]
    /\ Becomes(IF w \in PlainWindows THEN Now ELSE Updated(Now, w, [childData[w] EXCEPT ![b] = Gone]))
    /\ UNCHANGED progress

ProgressNext ==
    \/ Pulse
    \/ \E b \in Bitmaps :
          \/ StartLoad(b) \/ StartTiles(b) \/ TileFinished(b)
          \/ \E w \in Windows : Subscribe(w, b) \/ Unsubscribe(w, b)

\* The timer goes off.
ProgressFairness == WF_progressVars(Pulse)

ProgressSpec == ProgressInit /\ [][ProgressNext]_progressVars /\ ProgressFairness

-----------------------------------------------------------------------------
(* Properties.                                                             *)

BitmapStates == [state : {"idle", "waiting", "working", "finished", "gone"}, done : 0..BitmapTiles]

ProgressTypeOK ==
    /\ progress \in [Bitmaps -> BitmapStates]
    /\ subscribed \in [Bitmaps -> SUBSET Windows]
    /\ childData \in [OverlayWindows -> [Bitmaps -> BitmapStates]]
    /\ screen.waiting \subseteq Windows
    /\ screen.bars \in Seq(Windows \cup {NoWindow})
    /\ timer \in {0, 1}
    /\ pulsed \in Windows \cup {NoWindow}

ShownIn(w) == {b \in Bitmaps : w \in subscribed[b]}

\* The bar of a window shows how far its bitmaps are, those included that were
\* opened when they were half loaded.  That of an overlay pulses as long as no
\* bitmap is further than waiting, and forgets those that are done when all are.
BarsAreRight ==
    \A w \in Windows :
        LET working == {b \in ShownIn(w) : progress[b].state = "working"}
            waiting == {b \in ShownIn(w) : progress[b].state = "waiting"}
            done    == {b \in ShownIn(w) : /\ progress[b].state = "finished"
                                           /\ w \in OverlayWindows => childData[w][b] # IdleState}
            total   == TotalDone(progress, working \cup done)
            workers == Cardinality(working \cup waiting \cup done)
            shown   == screen.fraction[w]
        IN /\ shown[1] <= shown[2] /\ shown[2] > 0
           /\ ShownIn(w) # {} => (w \in screen.waiting <=> working = {} /\ waiting # {})
           /\ working # {} => shown[1] * workers * BitmapTiles = total * shown[2]
           /\ (ShownIn(w) # {} /\ working \cup waiting = {}) => shown = Zero

\* A timer runs exactly as long as there is a bar to pulse or a nullptr to
\* clean up; current is in the list or its end, and each window that waits is in
\* the list once.
PulserIsRight ==
    /\ timer = IF screen.bars = <<>> THEN 0 ELSE 1
    /\ screen.current \in {AtEnd} \cup DOMAIN screen.bars
    /\ \A w \in Windows : Cardinality({i \in DOMAIN screen.bars : screen.bars[i] = w})
                              = IF w \in screen.waiting THEN 1 ELSE 0

ProgressIsShown == ProgressTypeOK /\ BarsAreRight /\ PulserIsRight

\* The bar of every window that waits gets pulsed, each time it begins to wait.
EveryBarIsPulsed ==
    \A w \in Windows : w \in screen.waiting ~> (w \notin screen.waiting \/ pulsed = w)
=============================================================================
