# Scroom: a verification development

Scroom is a viewer for very large bitmaps.  It reads a bitmap row by row,
keeps its tiles compressed in memory, scales them down into a pyramid of
layers, and draws what a view shows, all in jobs on a thread pool.  Much of
what can go wrong in it is a matter of timing: a queue is deleted while its
jobs are being taken, a tile is unloaded while it is being loaded again, a
view is closed while its tiles are being drawn.  The rest is a matter of
numbers (which tile, which byte, which colour) and of the order of events in
the user interface.  This directory has TLA+ models of all three, TLC
configurations that check them, and TLAPS proofs of what holds for every
instance.

Paths such as `layer.cc:237` are to the source files of this repository;
`PROJECT.json` maps every definition of the models to the lines it stands for,
some 7100 of the about 20 000 lines of the implementation.

## 1. Inventory

### How the parts interact

    GUI (UI thread)                              threads of CpuBound()
    ---------------                              ---------------------
    main --> callbacks, PluginManager
               |  windows, plugins, files
               v
    View --> presentation (or an overlay of several)
               |  redraw                          ThreadPool <---- Sequentially()
               v                                      ^                  |
             TiledBitmapViewData                      |                  | setSource()
               |  getViewState()                      |                  v
               v              registerObserver()      |            DataFetcher (rows)
             TileViewState  <-----------------------> | <--------- QueueJumper
               |  kick(), process()                   |                  | initialize(), getTileSync(),
               v                                      |                  v reportFinished()
             ConstTile  <-- CompressedTile -----------+------ LayerCoordinator (reduction)
                               |  load(), unload()                       | reportFinished()
                               v                                         v
                            Blob --> PageProvider             TiledBitmap --> progress bars

    tools: View --> Pipette (a job on Sequentially(), messages back), Measure

Everything that registers with something else (a `LayerCoordinator` with a
`CompressedTile`, a `TileViewState` with a tile, a `TiledBitmapViewData` with a
`TileViewState`) does so through `Observable`, which is built on
`Bookkeeping::Map`.  Lifetimes are those of `shared_ptr`s.  A destructor runs on
whichever thread drops the last reference, with whatever mutexes that thread
has locked: most of the defects found so far come from that.

### The components

| Component (source) | State | Operations | What is hard | What makes it correct |
|---|---|---|---|---|
| **ThreadPool**, `Queue`, `WeakQueue` (`threadpoolimpl.cc`, `queue.cc`) | the map of jobs by priority, `jobcount`, `alive`; per queue `count` and `isDeleted` | `schedule`, `add`, work loop, destruction; `Queue::create`, `createAsync`, `~Queue` | claiming and popping a job are two critical sections; queues are deleted meanwhile, also by their own jobs; the pool is destroyed with work left | a claim always finds a job; no wakeup is lost; once `~Queue()` has returned no job of it runs; every deletion returns; `completeAllJobsBeforeDestruction` means all |
| **QueueJumper**, **Semaphore** (`threadpoolimpl.cc:416-447`, `semaphore.hh`) | `inQueue`, `isSet`, the work; the count | `setWork`, execution; `P`, `V` | `setWork()` races with the execution | the work is done once, by one of the two |
| **Blob**, **PageProvider** (`memoryblobs.cc`, `blob-compression.cc`, `swapbasedblockallocator.cc`) | state, buffer, `refcount`, pages; free pages | `get`, `getConst`, `initialize`, `unload`, `compress` | `unload()` comes after `weakData` has expired; `compress()` jobs go stale | readers see what was last written, in a buffer that exists; pages have one owner; idle buffers go |
| **CompressedTile** (`compressedtile.cc`) | state, queue, weak pointers to `Tile` and `ConstTile` | `initialize`, `getTileSync`, `getConstTileSync`, `observerAdded`, `reportFinished`, `do_load` | loads by several threads at once, cancelled and started again; locks released half-way | whoever waits for a tile gets it; the UI thread is not blocked for ever |
| **TileViewState** (`tileviewstate.cc`) | its state, desired state, queue, caches | `tileLoaded`, `setZoom`, `setViewData`, `clear`, `process` | computations run unlocked on captured values | no stale drawing; every visible tile is drawn |
| **TiledBitmapViewData** and redrawing (`tiledbitmapviewdata.cc`, `tiled-bitmap.cc`) | needed area, `stuff`, `volatileStuff`, `redrawPending` | `setNeededTiles`, `resetNeededTiles`, `clearVolatileStuff`, `tileLoaded`; `open`, `close`, `redraw` | unlocks in the middle, while tiles get ready | a loaded tile is redrawn; nothing that is needed is thrown away |
| **Loading**: `TiledBitmap::setSource`, `DataFetcher` (`tiled-bitmap.cc`, `layer.cc`) | per bitmap a semaphore, a queue, the current row | start, read a row, report, abort | closing at any time; three threads decide who reads the next row | rows in order, once; bounded memory; the next bitmap has its turn |
| **Reduction**: `LayerCoordinator`, `TiledBitmap::connect`, `tileFinished` | `unfinishedSourceTiles`, `targetTileData`; `tileFinishedCount` | a tile finishes; a source is reduced | many jobs for one target; a data race | a target is reported once, complete; the progress bar finishes once |
| **Bookkeeping**, **Observable** (`bookkeepingimpl.hh`, `observable.hh`) | map of weak pointers; tokens that keep values alive | `reReserve`, drop a token, `registerObserver` | the destructor of a token races with a new registration | a registration stands until its token goes, and then it goes |
| **Progress helpers** and progress bars (`progressinterfacehelpers.cc`, `progressbarmanager.cc`) | state and progress of each child; the pulser's list, iterator and timer | `set...`, subscribe, unsubscribe; `start`, `stop`, `doWork` | windows that come late; several bitmaps in one window; an iterator in a list that changes | the bar shows how far its bitmaps are; one timer runs as long as a bar waits |
| **Pipette**, **Measure** and the tool buttons (`pipette.cc`, `measure.cc`, `view.cc`) | `enabled`, `wasDisabled`, `jobMutex`, selections, jobs | select, switch, compute, display | switching off while computing; a job that waits for the UI thread | the buttons and the tools agree; results of a tool that was switched off are not shown |
| **Transparent overlay** (`plugins/transparent-overlay`) | presentations, views, sizes, colours | add, open, close, show or hide, draw | layers are added while views are open | every view has every layer; resizable ones know the size of the whole; the bottom layer is visible |
| **View** (`view.cc`) | position, zoom, size; scroll bars, text boxes, zoom box, rulers, selection | resize, zoom, scroll, type, drag, select | handlers that call each other | all of these agree; what the user holds on to stays in place |
| **Application** (`callbacks.cc`, `pluginmanager.cc`, `loader.cc`, `main.cc`) | registries of views, presentations and plugins; menus | load plugins and files, open, new window, close, quit | plugins, windows and presentations come in any order and go at any time | every window has every tool once, and offers what exists; the program ends with its windows |
| **Geometry** (`rectangle.hh`, `linearsegment.hh`, `point.hh`, `rounding.hh`, `cairo-helpers.cc`) | none | intersect, split, round, ... | empty and backward segments, coordinates below 0 | the operations are those on sets of points |
| **Tiled bitmap**: layers, redraw, averages (`tiled-bitmap.cc`, `layer.cc`, `tiledbitmappresentation.cc`) | none beyond the above | cut into tiles and layers, draw an area, average | integer division of coordinates that were rounded | each pixel is drawn, or counted, once |
| **Layer operations** (`layeroperations.cc`, `cmyklayeroperations.cc`, `bitmap-helpers.hh`) | tiles in memory | `reduce`, `cache`, `cacheZoom`, `draw`, `sumPixelValues` | addresses in bytes of pixels that are not | every pixel in its place; colours survive |
| **Formats**: TIFF source, layer specs, colour maps (`plugins/tiff`, `layerspecforbitmap.cc`, `colormap*.cc`) | the open file | `open`, `reset`, `fillTiles`; choose operations and colours | tags that are missing, rows that end inside a byte | layers, rows and colours fit the file |
| **Ruler** (`gui/ruler`) | range, interval | update, draw | rounding, ranges below 0 | ticks are at their values, not too close |
| Example and metadata plugins, plugin interfaces, `FunctionAdditor`, measuring programs, GTK and cairo helpers | - | I/O and glue | - | - |

## 2. The modules

| Module | Models | Promise it is held to |
|---|---|---|
| `ThreadPool` | the pool, the queues, their deletion | `JobContract` (a refinement, `KeepsContract`) |
| `MemoryBlobs` | `Blob` and `PageProvider` | |
| `CompressedTile` | one tile, the UI thread, the workers that load it | |
| `TileViewState` | one tile in one view | |
| `Bookkeeping` | `Map`, and `registerObserver()` on top of it | |
| `Loading` | `Sequentially()`, `DataFetcher`, `QueueJumper`, `Semaphore` | `LoadContract` (a refinement, `ImplementsContract`) |
| `Reduction` | all coordinators of a bitmap, and its count of tiles | |
| `Redraw` | redrawing a view of a bitmap | uses the promise of `TileViewState` |
| `Progress` | broadcaster, multiplexer, progress bars, pulser | |
| `Tools` | tool buttons, pipette, measure | |
| `ViewWindow` | the position of a view and all that shows it | |
| `Overlay` | the transparent overlay | |
| `Application` | windows, presentations, plugins, files | |
| `Geometry` | segments, rectangles, rounding | sets of points |
| `Tiling` | layers, tiles, `redraw()`, averages | sets of pixels |
| `Pixels` | `SampleIterator`, layer operations | sets of pixels |
| `Formats` | TIFF files, layer specs, colour maps | |
| `Rulers` | ticks and their lines | |
| `Calculations` | the five above, over bounded inputs | |
| `ThreadPoolProofs`, `MemoryBlobsProofs` | theorems about the module of that name | |
| `LayersProofs` | theorems about `Loading` and `Reduction` | |
| `DrawingProofs` | theorems about `Redraw`, `Progress` and `Tools` | |
| `TilesProofs` | theorems about `CompressedTile`, `TileViewState` and `Bookkeeping` | |
| `WindowsProofs` | theorems about `Overlay`, `Application` and `ViewWindow` | |
| `CalculationsProofs` | theorems about `Geometry`, `Tiling`, `Pixels`, `Formats`, `Rulers` and `Calculations` | |
| `Induction` | induction over numbers and finite sets, folds, sums, loops | |

`MC<Module>` instantiates a module for TLC.  Four of these put several components
in one module, in order to have them checked by one run: `MCTiles`
(`CompressedTile`, `TileViewState`, `Bookkeeping`), `MCLayers` (`Loading`,
`Reduction`), `MCDrawing` (`Redraw`, `Progress`, `Tools`) and `MCWindows`
(`ViewWindow`, `Overlay`, `Application`).  In each behaviour *one* of them works,
chosen in the initial state (`part`), and the others stay in their initial
state: the states of such a run are the sum of those of its components, not
the product.  No interaction between them is lost, because they have no
variables in common; where components do interact, one module has both sides
(the view's tiles and the workers in `Redraw`, the buttons and the tools in
`Tools`), or one is held to a contract that the other relies on.

The modules are composed by contract.  `JobContract` says what a pool promises to
those who schedule jobs on it, and the modules above it take jobs to be just
that (started in order of priority, at most once, not on a deleted queue),
instead of repeating workers and condition variables.  `Redraw` relies on what
`tileviewstate.hh` promises of a tile in a view: that it gets ready, and then
tells.  The finding `TileViewState_no_progress` is that the code does not keep
that promise, so that `Redraw` says what holds once it does.

Some conventions hold throughout.  **One action is one critical section**, or
the code between two of them; `pc` or `task` says where a thread is, and a
variable `mut` or `lock` appears only where a mutex stays locked for longer than
one step.  What happens on the UI thread alone is one action per handler.
**References are explicit** where dropping one runs a destructor.  Definitions
called `Wrong...` are not part of a model: each is a plausible mistake in the
definition that follows it, and a property rejects it.  Components that are
put together have names of their own for what they share with others
(`toolVars`, `RedrawNext`, `Zoomers`, ...).

### ThreadPool

`pending` is `PrivateData::jobs` flattened: a job's number is its order of
scheduling, and `IsFirst` picks the first job of the lowest priority number, as the
map of queues does.  `Claim` is the decrement of `jobcount` (`work`, 280-284 and
296-301), `Pop` the separate critical section in `do_one`.  `JobStarted` and
`JobFinished` are the constructor and destructor of `QueueLock`; `DestroyJob` is
the end of the local `job`, after `QueueLock`, where the closure may drop the
last reference to its queue; `ReleaseInBody` does so in the body itself, which
is legal only for queues made by `createAsync()` and shows as a self-deadlock
for others.  `DropRef` starts a deletion: on the same thread, which blocks, or
in `condemned`, the list of the thread that runs `AsyncDeleter`s.  `DiscardJob`
is the destruction of `PrivateData` with jobs left in it.  The environment
(`Schedule`, `ReleaseQueue`, `DestroyPool`, `AddThread`) may do anything at any
time that a user of the class can.

Not modelled: the `future`s of `schedule<R>()`, and exceptions from jobs (which end
the program).

### MemoryBlobs

A client holds a buffer, and perhaps writes to it; `Drop` is the moment the last
`shared_ptr` goes (`weakData` expires) and `Unload` the deleter's call of `unload()`,
later.  `heap` has the contents of each buffer, `disk` those of each page, so
that a buffer freed too early or a page used twice shows as wrong contents
(`ReadsBack`).  zlib is modelled by what it does: `Compressed` writes a value in
`PagesFor[v]` pages, `Holds` says that it can be read from exactly those.
`last` is a ghost: what the users of a blob have written.  Where the code takes
any free page, or `malloc()` any memory, the model takes a certain one (`Taken`,
`Malloc`): which one makes no difference to anybody, and what it contained before
is still arbitrary.

### CompressedTile

The UI thread goes through `observerAdded()` in four steps, because `constTile`
and `queue` are read without a lock (216-219).  A worker goes through
`do_load()`; between its two halves `stateData` is unlocked and the blob is loaded
(`GetConst`).  Temporary references (`temp`, `snapshot`) are modelled because
they can turn out to be the last ones.

### TileViewState

The constant `StoresWeakQueue` chooses between the code as it is (`FALSE`, where no
job ever recognises its queue: see Findings) and the code with the one
assignment that `kick()` lacks (`TRUE`), to check the rest of the machine.  A base
cache is represented by the version of the tile it was computed from, a zoom
cache by that and its zoom level.

### Bookkeeping

`refs` has the threads that hold a token, including `remove()`'s temporary
reference `t_orig`.  `registerObserver()` gets and sets the registration in
separate critical sections.  Tokens and values that were created are never
reused, so that a stale entry stays visible.

### Loading

A `DataFetcher` is a job `fetch` for a row; it schedules the `jump` job of the row
among the reductions first, reads (`FillTiles`), reports each tile (which
schedules a `reduce`), and then hands the next row to the jumper or schedules it
itself (`Successor`).  `via` tells a fetch in the place of a jumper from one that
has a job of its own.  `late` is a history variable: rows read after closing.

### Reduction

`Parent` gives the pyramid; a tile without sources is one of the bottom layer.  The
data race on `targetTileData` (72-75, before the lock at 80) is modelled by
reading and writing the pointer in separate steps (`GetTarget`, `AssignTarget`);
`leaked` counts the references that are overwritten without being released.

### Redraw

The UI thread goes through `redraw()` as `ui.pc` says: `SetNeededTiles` until the
mutex is unlocked, `PutAside`, `AskTile` and `DropOld` for `resetNeededTiles()`,
which unlocks several times, `Splice`, `Unpend`, and `DrawTile`.  The lists are sets
of tiles: `observed` is `stuff`, `kept` is `volatileStuff`, with `oldStuff`,
`newStuff` and `oldVolatile` for the local ones.  A tile of the view is `none`,
`working`, `computed` (there is something to draw, of which nobody has been told)
or `ready`; `Restarted` is what happens to it when the last token goes.  A worker
goes through `reportDone()`, `getObservers()` and `tileLoaded()`; `asyncs` counts the
messages it leaves for the UI thread.  Closing and destroying the view data are
separate, because a worker may keep it alive for the length of a call.

Left out: the pixels (`Tiling`), and that a message can come when the view data
it refers to is gone (an observation below).

### Progress

A call is an action, since all calls come on the UI thread.  `Broadcast` folds
`Receives` over the windows of a bitmap; for an overlay that is `Updated`, which
combines the children (`Overall`, `Average`) and clears the finished ones.  The
list of the pulser keeps a `nullptr` for a bar that stopped, as in the code;
`Skipped` is the loop that passes over these, and `timer` counts the timers, of
which there must not be two.  The iterator is a place in the list or `AtEnd`, which
stays `end()` when a bar is added.  `pulsed` is the window whose bar the last step
pulsed, so that each wait needs a pulse of its own.

### Tools

`AddToolButton` and `ToggleTool` are the toolbar of `view.cc`, `Switch` what the
handlers make of it, `Select` the selection listeners.  The job of the pipette
holds `jobMutex` from `StartJob` to `UnlockJob`, posts its messages and waits for
them (`message`).  `wasDisabled` is the flag by which the UI thread tells it that
the tool was switched off.

### ViewWindow

GTK calls a handler before the call that caused it returns, so that a user's
event is one action, and the handlers (`UpdateXY`, `UpdateScrollbar`, `SetText`,
...) are operators from a window to a window.  They call each other through GTK's
signals: a handler is given `signal`, the function from what a signal asks for
(`Calls`) to what becomes of the window.  `Signals` is `updateXY()` five times within
itself.  It never gets deeper: a handler that changes a scroll bar or a text makes
it right first and signals then, the position it signals is protected from
assignment (`frozen`, the counter of `Freezable`), and there are two scroll bars and
two texts to make right.  If it did get deeper, `TooDeep` would leave a window that
violates `WindowIsRight`, which therefore also says that the handlers come to an end.
Coordinates are in 64ths of a pixel, in which all divisions at zoom levels up to 5
are exact.  The user may choose any of `ChosenZooms` in the zoom box, and moves a
scroll bar to one of its ends or to a place in `ScrolledTo`.

### Overlay

A `ChildView` is known by its view and its number there.  `AddChild`,
`OpenOverlay` and `CloseOverlay` tell the layer and the `SizeDeterminer`; `told` is
the rectangle that each `ChildView` was given last.  `DetermineSize` has the
smallest positive `double` where the code has it, as 0.  The loops of the code are
folds: `AddToAll` over the views to which `addPresentation()` adds a layer,
`AddChildren` over the layers of a view that is opened, `PaintedAll` over those that
are drawn, of which only the first is asked for a background.

### Application

`app` has the registries and what each window has; `LoadFile` and `LoadAggregate`
are what happens to a file, from `callbacks.cc` to `loader.cc`; `PossiblyDestroyed`
the clean-up when a presentation may have gone.  Plugins are loaded one at a time
when the main loop is idle (`FindDirectories` to `DoneLoadingPlugins`), while the
user already works.  `LoadFiles`, `AddChildrenOf` and `ViewsDestroyed` are the loops
over the files of a command line, over those of an overlay, and over the windows
when the application quits.  `Alive` computes which presentations somebody refers to:
`held` those of a job of the pipette, `local` those of the running handler.

### Geometry, Tiling, Pixels, Formats, Rulers

Pure calculations, as operators with the names of the functions.  Doubles are
integers in a fixed fraction of a pixel; integer division is that of C++
(`Truncated`) where the code divides integers, and rounds as the code says
elsewhere.  Each module ends with what is right about it, stated as sets of
points, pixels, bytes or colours, never as another calculation.  The tiles of
`Tiling` are of 8 pixels, those of `Pixels` of 64, instead of 4096: both keep the
factor 8 between layers and whole bytes in rows.  `Pixels` computes addresses as
the code does, in bytes with divisions from left to right, and says which pixel
they are of (`PixelAt`).  `Formats` is about files that keep the samples of a pixel
together, the only ones whose rows `fillTiles()` can cut: `open()` does not ask for
the planar configuration, so that one with separate planes would be accepted too.

## 3. The runs

| Run | Instance | What it shows |
|---|---|---|
| `ThreadPool_safety` | 2 workers, 2 priorities, 1 synchronous and 1 asynchronous queue, 3 jobs; 1 064 258 states | accounting of claims, exact queue counters, no job on a gone queue, no lost wakeup; implements `JobContract` |
| `ThreadPool_liveness` | 1 worker, 1 added later, 2 jobs, `CompleteAll`; 113 324 states | no job is left behind; jobs, deletions and threads end |
| `MemoryBlobs` | 2 blobs, 2 clients, 2 values of 1 and 2 pages, 2 buffers; 1 713 439 states | contents, buffers, `refcount` and pages are right; idle buffers go |
| `Tiles` | a tile with 2 observers, 2 workers that load, fill and get, and 2 queues; a tile in a view with 2 workers, 2 zoom levels, 5 events and `StoresWeakQueue`; a map with 3 threads, 2 keys, 4 tokens and 3 values; 3 746 219 states | "All will be well" is true whenever it is relied on; no result of an overtaken computation stays; registrations stand, and none is left behind |
| `CompressedTile_liveness` | 2 observers, 2 workers that load and fill, 2 queues; 103 631 states | views that stay get their tile; the UI thread goes on |
| `CompressedTile_self_deadlock` | as in `Tiles`; violation | a load job deletes the queue it runs on |
| `TileViewState_no_progress` | the code as it is, 4 events; violation | no tile is ever drawn in advance |
| `Bookkeeping_self_deadlock` | 2 threads, 1 key; violation | `remove()` waits for its own mutex |
| `Layers` | 2 workers, bitmaps of 3x1 and 1x2 tiles; 2 workers, layers of 4, 2 and 1 tiles; 384 960 states | rows in order, bounded memory, turns, `LoadContract`; targets are complete when reported, reported once, and let go of |
| `Drawing` | a bitmap of 2 tiles, 3 areas, 2 zoom levels, 1 worker, 3 requests; 2 bitmaps of 2 tiles, a plain and an overlay window; 2 tools, 2 selections, 2 waiting jobs, 6 clicks; 166 137 states | a view shows all it should in the end, and throws nothing away that is needed; bars are right and pulse; tools agree, and the pipette gets done |
| `Windows` | 2 presentations, 2 sizes, 2 places of the mouse, 5 events; 3 layers, 2 views; 5 plugins in 2 directories, 6 command lines, 3 windows, 5 presentations; 693 992 states | position, bars, text, rulers and zoom box agree after every event; every overlay has its layers, sizes and colours; windows, menus and tools agree |
| `Calculations` | 237 428 states: 15 kinds of calculation, each over all combinations of chosen inputs | geometry, tiling, addresses, colours, formats and rulers are right for each |

The properties, by what they relate:

* *The pool*: `ClaimsAccounted` (claims against jobs in the map), `QueueCounts`,
  `NothingRunsOnGoneQueue`, `NoLostWakeup`, `CompletesAll`, `KeepsContract`,
  `EverythingEnds`.
* *Memory*: `DataRetained` (what a reader sees against what was last written),
  `MemoryAccounted` (references and pages), `IdleBuffersGo`.
* *Tiles*: `TileIsRight` (`AllWillBeWell`: a state that promises a load against the
  jobs and workers that will do it), `TileGetsThere`, `TileViewIsRight` (results
  against the tile and the zoom level they were computed for),
  `RegistrationHolds` and `MapIsClean` (entries against tokens).
* *Layers*: `LoadingInOrder`, `ImplementsContract`, `LoadingEnds`;
  `ReductionIsRight` (a report against the sources in it, the progress bar against
  the reports, targets against references), `ReductionsStay`,
  `ReductionGetsFinished`.
* *Drawing*: `RedrawIsRight` (`redrawPending` against redraws that were ordered, and
  what is on the screen against what got ready, was reported, or will be),
  `PreparedIsKept`, `EverythingIsShown`; `ProgressIsShown` (bars against bitmaps, the
  timer against the list), `EveryBarIsPulsed`; `ToolsAgree`,
  `SwitchedOffIsIgnored`, `PipetteGetsDone`.
* *Windows*: `WindowIsRight`, `PointStays`; `OverlayIsRight`; `ApplicationIsRight`.
* *Calculations*: `GeometryOfSets`, `BitmapIsTiled`, `PixelsStayInPlace`,
  `ColoursSurviveReduction`, `FormatsFit`, `RulersFit`.

Each of them is broken by a `Wrong...` variant of a definition of the code.

### Bounds, and why they are enough

*Threads.*  Two workers reach every pair of critical sections.  What a third does
is not explored, except where it is known to matter: `Bookkeeping` has three
threads (one drops the old token, one registers, one drops the new token), and
the safety properties of the pool are proved for any number of threads.  `MaxJobs` = 3 in the pool is the
first number at which a job is overtaken by one of another priority while two
claims are outstanding.  *Blobs.*  Two blobs compete for pages, of which the free
ones run out in the middle of a compression (`BlockCount` = 2, a value takes 1
or 2); two buffers are enough for a blob to be loaded again while the old buffer
is not yet freed.  *Tiles.*  With two observers one can leave, and cancel the
load, while the other arrives; the second queue is that of the load that
follows.  The liveness run leaves out the workers that only ask for the tile
(`Getters`), which add states and no ways to lose a load: `Tiles` has them.
*Loading.*  Three rows are the first case in which a jumper has both a
predecessor and a successor; the second bitmap shows that the first gives up its
turn.  *Reduction.*  Three layers have a target that is a source; two sources per
target make the race and the counting.  *Events.*  `TileViewState` needs three
events to be drawn at all (load, view, zoom), and two more to be overtaken by a
reload, a zoom, a clear or a close.

*Redraw.*  Two tiles and three areas give scrolling to what is partly there,
wholly there and not there; with three requests the user opens, scrolls or zooms,
and changes the colours or scrolls back.  One worker is enough to race with the
UI thread, and its safety is proved for any number.  *Progress.*  Two bitmaps make
a mean, and two windows a list; `MaxBars` bounds the list, which has a `nullptr`
for each bar that stopped since the timer came by.  *Tools.*  Two jobs can wait
behind the running one; six clicks add both tools, select, switch off, on and
select again.  *ViewWindow.*  Five events open, resize, zoom, move and select;
the zoom box offers -5 to 5, a scroll bar goes to its ends and to 100; one presentation has oblong pixels and does not begin at the origin.  *Overlay.*
Three layers: one resizable, two that compete for a colour.  *Application.*
Three windows and five presentations: the command line names up to four files,
and an overlay is one presentation more.  *Calculations.*  The inputs are named in
the module; they lie at, before and after each boundary that the code has (of a
byte, a tile, a layer, a pixel, the origin).

All bounds are in guards of actions of the environment (`MaxJobs`, `MaxEvents`,
`MaxRequests`, `MaxClicks`, `Room`, the finite sets of tokens, values, queues and
observers) or stand for memory (`MaxBuffers`).  `CHECK_DEADLOCK FALSE` is set where
the environment can have done everything that the bounds allow, so that the
system stops; `MemoryBlobs` never stops, and there deadlock is checked.

### Fairness

*Weak fairness of each thread*, because the operating system runs every thread that
can run: `ThreadPool!Progress(w)`, `Worker(w)` in `Loading`, `ReducerStep(w)` in
`Reduction`, `Step(t)` in `Bookkeeping`, `WorkerStep(w)`, `ZoomerStep(w)`,
`ViewerStep` and `UIStep` elsewhere.  It includes the end of a job's body, since
jobs are finite computations.  *Strong fairness* in `CompressedTile` of locking
`stateData` (`LockState`, `CheckState`), which other threads lock and unlock again
and again, and of taking a scheduled load from the pool, which
`ThreadPool!EveryJobEnds` justifies.  The deleter thread is fair for the same
reason as a worker.  In `TileViewState` the pool is fair to the set of scheduled
jobs as a whole.

In `Redraw` the UI thread goes on with what it is doing and handles its messages
(`RedrawUI`), the workers report (`GetObservers`, `TileLoaded`, `Report`), and the
tiles get ready (`Compute`), which is the promise of the tile.  In `Progress` the
timer goes off (`Pulse`).  In `Tools` the UI thread shows messages
(`ShowMessage`) and the thread of `Sequentially()` works (`JobStep`).  In the
modules that combine components the fairness of a component that does not work
must not make it: `MCLayers` guards that of `Reduction` with `part`, and the other
fair actions are not enabled in an initial state.

*Nothing* is assumed of users: they need not schedule, zoom, click, drop or close.

`EveryObserverIsTold` and `UIUnblocks` are stated for behaviours in which no load
job deletes its own queue, because the code has that defect, and
`TileViewState!GetsDone` for those without the self-deadlock described below.

## 4. Findings

Each is shown by a run that violates what the repository itself says.

1. **No tile is drawn in advance** (`tileviewstate.cc:124`,
   `TileViewState_no_progress`).  The member `weakQueue` is compared with and reset,
   but never assigned: `weakQueue = queue->getWeak()` in `kick()` is a variable of
   the lambda.  So `process()` never recognises its queue, leaves at once, and
   leaves `queue` set, which keeps `kick()` from starting another job.
2. **A load job can wait for itself** (`compressedtile.cc:240`,
   `CompressedTile_self_deadlock`).  The load queue is made by `create()`, and the
   job takes temporary strong references to it, or to observers whose tokens have
   it.  If the view lets go meanwhile, `~Queue()` waits, in the job, for the job.
3. **`Map::remove()` can wait for itself** (`bookkeepingimpl.hh:269`,
   `Bookkeeping_self_deadlock`).  It takes a strong reference to the newer token of
   its key with the mutex locked.  If that becomes the last one, its destructor
   calls `remove()`, which locks the same mutex.

Observations made while modelling, without a run of their own:

* `tileviewstate.cc:117`: `kick()`, `computeBase()` and `computeZoom()` hold a
  temporary reference to the view data with `mut` locked.  If the user closes the
  view then, the view data is destroyed there; the deleter of `volatileStuff`
  calls `clear()`, which locks `mut`: a self-deadlock (`SelfDeadlock` in the module).
* `tileviewstate.cc:172`: even with the missing assignment `GetsDone` fails:
  `process()` decides that there is nothing to do and unlocks; a `setZoom()` before
  it locks again finds a queue, and starts no job.
* `layercoordinator.cc:72-75`: the race on `targetTileData` can lose a reference to
  a `Tile`, which then stays in memory although `tiledbitmaplayer.hh:94-95` says
  that it is "loaded and unloaded as needed".  `TargetsAreUnloaded` bounds the
  loss by the number of sources that raced.
* `tiledbitmaplayer.hh:195-196` says that an uninitialised tile gives "an empty
  reference"; `do_load()` (`compressedtile.cc:50`) never looks for that state,
  returns a blank tile, and makes the state normal, so that the tile is no longer
  initialised afterwards.
* `threadpool.hh:592-594`: `Sequentially()` is meant for one large bitmap at a time.
  Closing one that is being loaded frees it while up to two of its rows are still
  to be read, next to those of the following bitmap.
* `threadpool.hh:526-528`: a `QueueJumper` is meant to keep "only two batches" in
  memory.  It waits until earlier reductions have *started*; one that is still
  running makes a third.
* `memoryblobs.cc:89`: a blob that is loaded while the `unload()` of its previous
  users is still to come overwrites `data`: the old buffer is never freed.
  (`HeapWith` recycles it, so that the model stays finite.)
* `threadpool.hh:215` says of `completeAllJobsBeforeDestruction` that the pool
  "completes all jobs before being destroyed".  One that was made with 0 threads, as
  tests do, and to which none is added, drops them: jobs are completed by threads.
* `semaphore.hh:66`: the timed `P()` computes its deadline from a clock of whole
  seconds, and can give up almost a second too early.  Only tests use it.
* `tiledbitmapviewdata.cc:152`: the message that `tileLoaded()` leaves for the UI
  thread captures `this`, and may come when the view data is gone.
* `pipette.cc:83`: a second job that starts when the tool is already off does not
  know it, because the first one has cleared `wasDisabled`: it displays its
  values.  `SwitchedOffIsIgnored` is about the jobs during which the tool is
  switched off (`job.on`).
* `view.cc:863`: the job of the pipette reads the pointer to the presentation while
  the UI thread may assign it: a data race.
* `view.cc:673`: while the zoom box is being rebuilt it has no active item, and
  `on_zoombox_changed()` looks at an iterator that was never given a value.
* `pluginmanager.cc:296`: unlike a new observer of views, a new observer of
  presentations is not told of the presentations there are; `LoadPlugin` has that.
* `callbacks.cc:681`: a loop that erases from the list of presentations moves its
  iterator before the beginning when the first one goes.
* `loader.cc:184`: an exception from `create()` is caught by nobody.
* `sizedeterminer.cc:22`: `numeric_limits<double>::min()` is the smallest positive
  number.  The union of presentations that lie left of or above the origin is
  wrong; `LayersFit` is stated for those with a right edge of 0 or more.
* A presentation that is in an overlay twice loses its first `ChildView`, which
  stays open (`AddChild`); `ViewsHaveAllLayers` is stated for those added once.
* `tiled-bitmap.cc:227`: a pixel at the right or bottom edge of the requested area,
  of which only part is asked for, is not drawn if a tile begins there.
* `ruler.cc:252` requires a range of at least 1, which a view of less than 32
  pixels at the largest zoom does not have.

## 5. The proofs

Each theorem holds for every value of the constants that satisfies the `ASSUME`s of
the module, which the runs check for theirs.

| Theorem | Property | Meaning |
|---|---|---|
| `ThreadPoolProofs!TypeCorrect` | `TypeOK` | every state is well typed; `QueueImpl::count` is never negative |
| `CountsExact` | `QueueCounts` | `count` is the number of threads inside `QueueLock` |
| `QueueDestructorIsFinal` | `NothingRunsOnGoneQueue` | after `~Queue()` has returned, no job of the queue runs |
| `ClaimsAreCovered` | `ClaimsAccounted` | every claim has a job in the map: `do_one()` never finds it empty |
| `JobsAreCompleted` | `CompletesAll` | with `completeAllJobsBeforeDestruction`, no job is left after the last thread |
| `WakeupsSuffice` | `NoLostWakeup` | one `notify_one()` per job leaves no job to a sleeping thread |
| `PoolKeepsContract` | `KeepsContract` | the pool implements `JobContract`, if one that completes its jobs was given a thread by its constructor |
| `MemoryBlobsProofs!DataIsRetained` | `DataRetained` | whoever holds a blob reads what was last written to it |
| `MemoryIsAccounted` | `MemoryAccounted` | `refcount` is the number of calls of `unload()` to come; a page is free or has one owner |
| `IdleBuffersGoAway` | `IdleBuffersGo` | a blob that nobody uses and that is in memory has a job that will compress it |
| `TilesProofs!AllIsWell` | `TileIsRight` | a tile that says it is being loaded is |
| `TileViewStaysRight` | `TileViewIsRight` | what is drawn in advance is of the tile and the zoom level there are now |
| `RegistrationsHold` | `RegistrationHolds` | a registration is in the map as long as its token lives, whichever older token goes late |
| `MapStaysClean` | `MapIsClean` | an entry without a live token is about to be removed |
| `LayersProofs!RowsComeInOrder` | `LoadingInOrder` | rows are read once, in order, by one worker at a time, and at most one row ahead of the reductions |
| `LoadingIsAsPromised` | `ImplementsContract` | `Loading` implements `LoadContract` |
| `ReductionStaysRight` | `ReductionIsRight` | a target is reported once, when all is in it; the bitmap's count and the references to the data are right |
| `ReductionsAreKept` | `ReductionsStay` | what has been reduced is never overwritten |
| `DrawingProofs!RedrawIsSound` | `RedrawIsRight` | a tile that gets ready after it was drawn is redrawn, and `redrawPending` never hides that it must be |
| `ImagesAreKept` | `PreparedIsKept` | no image of a needed tile at its zoom level is thrown away |
| `ToolsAlwaysAgree` | `ToolsAgree` | one tool is on, as its button says, and no other has a selection |
| `ResultIsIgnored` | `SwitchedOffIsIgnored` | the result of a job during which the pipette was switched off is ignored |
| `ProgressAlwaysShown` | `ProgressIsShown` | each bar shows how far the bitmaps of its window are; a window that waits is pulsed |
| `WindowsProofs!OverlayStaysRight` | `OverlayIsRight` | every open view has all layers, knows their size and paints them in order; layers have different colours while there are enough |
| `ApplicationStaysRight` | `ApplicationIsRight` | windows, menus, tools, lists of colour maps and presentations agree; no window is left when the program ends, and no program without windows |
| `WindowStaysRight` | `WindowIsRight` | after every event all that shows the position of a view agrees with it, and selections are told in whole pixels |
| `PointsStay` | `PointStays` | what the user holds on to stays exactly where it is |
| `CalculationsProofs!SegmentOperations` | | the operations on segments are those on sets of points |
| `RectangleOperations` | | those on rectangles too, and the border is what is outside |
| `GeometryIsRight` | `GeometryOfSets` | so the run checks instances of both |
| `LayersAreTiled` | | a bitmap of any size gets layers that its tiles cover, each tile with its place in the layer above |
| `RedrawIsComplete` | | of any area at any zoom level, `redraw()` draws each whole pixel once, in its place |
| `AveragesAreOfArea` | | the averages of any area are over its pixels, each once, however the tiles divide it |
| `BitmapIsRight` | `BitmapIsTiled` | so the run checks instances of the three |
| `SamplesKeepApart` | | of words of 8 and 16 bits: iterators get to the sample that is meant, and setting it leaves the others alone |
| `ReductionsStayInPlace` | | each layer operation reduces tiles of any size into their own place, pixel by pixel |
| `DrawingStaysInPlace` | | each pixel of any part of a tile is painted where it belongs, at each zoom level, with its own value |
| `SamplesAreOfTheArea` | | the zoomed cache and the averages look at exactly the samples of their pixels |
| `PixelsAreInPlace` | `PixelsStayInPlace` | so the run checks instances of the four |
| `ColoursStay` | | of any 64 pixels, each layer operation keeps the colour if there is one, a mean between the extremes otherwise, or the two most frequent indexed colours |
| `ColoursSurvive` | `ColoursSurviveReduction` | so the run checks instances of it |
| `TicksAreRight` | | for any range and room: major ticks at the multiples of the smallest interval that leaves enough room, each within half a pixel of its value; sub-ticks keep apart from them and from each other |
| `RulersAreAlike` | | the vertical ruler is the horizontal one turned over, for any size |
| `RulersAreRight` | `RulersFit` | so the run checks instances of both |
| `SupportedFilesGetLayers` | | a file that is accepted (and keeps the samples of a pixel together) gets layers, layer operations and, if it has few colours, the colour maps that fit |
| `RowsAreCut` | | rows of any width, with the samples of a pixel together, are cut into tiles of any size, each byte once, and the last tile is filled |
| `InkStays` | | a monochrome colour map of any size keeps the ink apart from the paper |
| `FormatsAreRight` | `FormatsFit` | so the run checks instances of the three |

**ThreadPool**, for any finite set of threads, any queues, priorities and number of
jobs, and both destruction policies.
`TypeOK` is not inductive by itself: `JobFinished` decrements `count`,
which stays in `Nat` only because the job was counted.  `IInv` is `TypeOK` and
`QueueCounts` together; each action has a lemma (`ScheduleInv` to `DiscardJobInv`)
that it preserves `IInv`, by counting a worker in or out of `Executing(q)`
(`CountIn`, `CountOut`) or by showing that the set is unchanged
(`ExecutingKept`).  `StepInv` combines them.  `NothingRunsOnGoneQueue` is inductive
relative to `IInv` (`GoneStep`): the only step to "gone" is `QueueGone`, which has
seen `count` = 0, hence nobody in `Executing(q)`; and the only step into a body is
`JobStarted`, which has seen that the deletion has not begun.

`ClaimsAccounted` is inductive with `IInv`: `ClaimsCases` reduces the actions to the
four ways in which they treat jobs and claims (nothing; one more job; a claim; a
pop), and each keeps the balance.  It is only meant while `PrivateData` exists
(`DataStaysGone`: it never comes back).  `CompletesAll` follows with one more
conjunct, that no thread has left while the pool is alive: the thread whose `Exit`
ends `PrivateData` has seen `jobcount` = 0, and nobody is left to hold a claim, so
the balance says that `pending` is empty.  `NoLostWakeup` needs that nobody sleeps in
a destroyed pool, because `Exit` is the one step that takes a thread from those
awake without a job.

`PoolKeepsContract` has a lemma for each action: it is a step of `JobContract`, or
it changes neither what users see of the jobs (`JobView`) nor of the queues
(`QueueView`).  `KInv` adds to the above that a job is in one place, in the map or
with one thread (`JobsApart`), so that it is started once; and that the deleter has
each queue once (`CondemnedFit`), so that a queue does not begin to close twice.  A
job that is dropped (`DestroyJob`, `DiscardJob`) has to have a reason: its queue is
going, or the pool is gone and was not asked to complete its jobs.  For `DiscardJob`
that reason is `CompletesAll` when the pool has had a thread, which one that was
started by the constructor is until it returns (`StartersStay`).  A pool that never
has one drops its jobs whatever it was asked (§4): hence the theorem's hypothesis
`CompleteAll => InitialWorkers # {}`, which is true in both runs.

**MemoryBlobs**, for any blobs, finite set of clients, values and page counts.  The
three properties need each other: a client reads what was written because no other
blob has its buffer, which is so because a buffer is freed only by a `compress()`
that found nobody, which it can tell from `refcount`.  `MInv` is the three of them
with, for each state of a blob, what is in its buffer (`BuffersFit`) and who is
going to free it (`BuffersGo`), and that the buffer that a blob has is allocated and
its own (`BuffersOwned`).  The invariant has to say `COMPRESSING => jobs > 0`: each
`compress()` job that finds the state changed leaves, and the argument is that the
last one does not.  References are counted with the cardinality of `Unloaders(b)`,
so that each action that makes or ends a client's interest in a blob adds or
removes one element (`OneMore`, `OneLess`).

**CompressedTile**, for any observers, queues and workers.  `CInv` is `AllWillBeWell`
with the places of the threads made precise: a load that was promised is among
`jobs`, or a worker has it that has not got to the first half of `do_load()`
(`AsyncHasLoad`); once the state says that the load has begun, a worker is between
there and the end of the second half (`SyncHasLoader`).

**TileViewState**, for any zooming threads and zoom levels, and for both values of
`StoresWeakQueue`.  `TInv` says in which states which results exist (`Consistent`),
what each job that is not stale works on (`JobFits`), and what of it is in process
(`InProcess`).  Stale jobs are those of another queue; that no two threads have a
job of one queue is the other half of `JobsFit`.  `QueuesBounded` bounds the number
of queues by what users did, which is what the type of `made` says.

**Bookkeeping**, for any threads, keys, tokens and values.  `LiveTokenHasEntry` is not
inductive: a thread in `remove()` compares the token in the map with its own and
erases afterwards.  `BInv` adds what a thread knows at each place of `remove()`
(`PlacesFit`): that it compares with the mutex locked (`ComparesLocked`), and that
the other token it compares with is alive, because the thread holds it.
`EntryHasOwner` ties a value to the last token of its key, and
`HoldersAreRegistered` says who may hold a token whose registration is gone.

**Loading**, for any number of workers and bitmaps of any size.  `LInv` has eleven parts,
around one idea: per bitmap there is at most one of a `fetch` on the queue
(`Waits`), a worker with it (`Reading`), and a jumper that was given the next row and
still has its turn to come (`Handed`), and each of these is for the row after those
that are `filled` (`OneFetch`, `OneJump`, `RowsFit`, `JumpersFit`).  From this follow
the order of rows and, with who has the turn (`TurnsFit`), that none is read when it
is another bitmap's turn.  `OrderFits` is about the queue of normal jobs: it is first
in, first out, so that a jumper comes after the reductions of earlier rows.
`LateFits` counts the rows that are read after closing: one that a worker is at, and
one of a jumper that has been started.  The refinement of `LoadContract` has a lemma
for each action that is not a stutter: `SetSource`, the loader's start, a row that
was read, the last tile reported, and closing.

**Reduction**, for any tree over any finite set of tiles and any workers.
A coordinator's `unfinishedSourceTiles` is the number of sources that are not
reduced, or whose worker has still to count (`CountFits`, as a cardinality); each
source is with one worker or waiting (`OneEach`, `WorkFits`, `TellFits`,
`WaitingFits`), so that the count reaches 0 once, and then all sources are in.
`TargetFits` is what survives the race on `targetTileData`: the pointer is set only if
some source has passed there, and fewer references were lost than have passed,
because the first to pass loses none.  `BitmapFits` bounds the bitmap's
count, with the calls to come, by the number of tiles reported.

**Redraw**, for any set of tiles (numbered, as the code's loops are), areas, zoom
levels and workers.  `RedrawIsRight` speaks of the moments between redraws; what
makes it true is what is known within one.  The invariant `RInv` adds, for each
phase, what is needed and wanted (`WantIsNeeded`), which list has which tiles
(`ListsFit`), that a tile that is kept has been asked (`KeptIsAsked`), that a worker
reports one tile (`WorkersFit`), and, while drawing, that what has been drawn
without an image is not forgotten (`DrawnIsNotMissed`: `NoTileIsMissed` without the
tiles yet to be drawn).  The step that matters is `GetObservers`: a worker that
finds no observer gives up, which is right because a tile that is wanted is
observed whenever the UI thread is not in the middle of `setNeededTiles()`.
`PreparedIsKept` follows from `RInv` and the step.

**Progress**, for any finite sets of bitmaps and windows and any number of tiles.
`ProgressInv` says, per window, what its bar shows: a window with one bitmap the
progress of that (`PlainBar`), an overlay what updateProgressState() makes of the
children it knows (`OverlayBar`), of which each is what the bitmap is at, or was
finished and has been cleared (`Knows`).  A window that waits is in the list of the
pulser once (`Listed`), and there is a timer if and only if that list is not empty.
What a broadcast does is a fold over the subscribers, in an order that
nobody knows: `ToldIs` shows that each gets the message and that nobody is changed
by what the others get.  The loop of the pulser is a recursive function, and
`SkippedIs` that it ends at a bar of a window that waits, if there is one.

**Overlay**, for any layers, finite set of views and palette.  `OverlayInv` has, besides
the types, one conjunct for each thing that two objects must agree on: the children
of a view and the layers of the overlay (`ViewsFit`), a layer and the views that it
was opened in (`OpenedFit`), the `SizeDeterminer` and those views (`SizedFit`), the size
a view was told and that of all layers (`ToldFit`), and what was painted
(`PaintedFit`).  `addPresentation()` adds the layer to one view after another and
`open()` one layer after another to the view; `AddToAllIs` and `AddChildrenIs` say what
has been done after the first n of them, and what each `ChildView` was told then.
The sizes need that `DetermineSize` is the smallest area with all layers in it
(`DetermineSizeIs`), so that those told earlier are told again only if it has grown.
Two layers have different colours because `getOptimalColor()` takes one that fewest
have: if every colour of the palette had a user, there would be as many layers as
colours (`OptimalColorIs`).

**Application**, for any plugins, files, command lines, windows and presentations.
`AppInv` is about the time between handlers.  Within one, presentations exist that
nobody has been told of: `InOrder(u, kept, reg, pend)` says what is right of a world
`u` in which those in `pend` are such, in six parts: what was created
(`CountsFit`), parents and children (`FamiliesFit`), who is known (`KnownFit`), the
menus, the tools and the lists of colours of each window (`MenusFit`, `ToolsFit`,
`ListsFit`).  Each operator from `callbacks.cc` and `loader.cc` has a lemma about what
it makes of a world in order (`LoadFileIs`, `LoadAggregateIs`, `ViewDestroyedIs`, ...),
and the loops one about what is so after the first n files or windows.  A
presentation is *alive* if a window, a job or the handler refers to it, or to an
overlay that has it; that `Alive` is computed in two steps is enough because no child
has children, which is part of `FamiliesFit`.

**ViewWindow**, for any presentations that an `int` can measure, any sizes of the
window, mouse points, typed numbers, chosen zoom levels, places of the scroll bars and
number of events.  The invariant `Sound` is
that the window is a `View` (`Windows`), that its aspect ratio is that of a presentation or
1, and both parts of `WindowIsRight`.  The handlers are the difficulty, since between
two of them nothing is right.  `Quiet(w, v)` is what they may make of a window `v`
whose position is protected: each scroll bar, text and ruler is what it was or what
it should be, and nothing else changes.  `Off(v)` counts the scroll bars and texts
that are wrong.  `Handles(f, n)` says that `f` is quiet wherever fewer than `n` are
wrong; `WithinHandles` that `updateXY()` with `f` for its signals then copes with one
more, because each handler puts one thing right before it signals.  So the
signals can handle all there can be to do (`SignalsHandle`).  While the position is free it
moves at most once, to what the signal asked for, and what shows it follows
(`Follows`, `MovesTo`).  Each event has a lemma (`OpenIs`, `ResizeIs`, `WheelIs`, ...)
that gives both theorems, since a view that ends up where it should is the larger
part of why it is right there.  `PixelsCover` and `GridIsNear` are about rounding a
selection outwards and to the nearest, whichever corner it started at.

**Induction.**  The library's induction theorems take an operator as a parameter.
`Induction` derives from the well-foundedness of `<` on `Nat` a form that says
"is in the set T" instead (`NatSets`, `BySize`, `OneByOne`), and with it that the
function which a fold applies exists (`FoldExists`), that what its
steps preserve holds of its result (`FoldLeads`), and the same for a loop that is
written as a recursive function (`RunExists`).  `LeftLeads` is the lemma for the folds
of `SequencesExt`, which go through a sequence from left to right: if each element
leads from what is true after n elements to what is true after n + 1, the result
has all.
`SequenceExists` gives the sequence that a recursive function computes, and
`EarlierExists` the function if it looks back further, `SearchExists` if it looks
ahead.  The sum of
numbers with names, over a finite set of names, is defined by what it is of a
set with one name more; `TotalsExist` shows that there is such a sum,
`TotalOfUnion` that it can be taken of the parts, and `SumIsTotal` that a fold over
the set computes it, in whatever order.

**Tools**, for any selections, number of jobs and clicks.  `ToolsInv` is the types and
`ToolsAgree`, which is inductive with them.  `SwitchedOffIsIgnored` needs
`JobIsTold`: a job that was started with the tool on, and has not yet tested the
flag, finds it set if the tool is off now.  The job itself clears it only after
the test, and `onEnable()` only when `jobMutex` is free, so that no job runs.

**Geometry**, for all integers.  Each operation is compared with that on sets of
points; the proofs split on empty segments and on the order of the ends.
Rounding rests on lemmas about `\div` and `%` by 1, 2 and 3.

**Tiling**, for any size of tile that is a multiple of 8, any zoom level, and bitmaps
whose sides an `int` can hold; for averages, of any size.  What
`redraw()` and `connect()` do is shown for one axis at a time (`VisibleIs`,
`BlockIs`) and put together.  Each layer is an eighth of the one below it, and
2^31 is too small to be divided by 8 more often than `LayerCount` looks for
a small enough layer.  A pixel is drawn because it is in
one tile, and once because tiles are apart.  For `AveragesAreOfArea`, what is summed
tile by tile is compared with the sum over all pixels: the parts of the
tiles have no pixel in common, and together they are the area.

**Pixels**, for tiles whose side is any multiple of 64, every pixel, and every layer
operation.  The code counts in bytes what the properties count in pixels: for each
operation `ReductionsFit` and `CacheFits` show that a row, a step and a place take as
many bytes as their pixels have, without a remainder, and `PixelFound` that such an
address is that of a pixel in its column and row.  The code draws with doubles, the
model with whole units; they agree because nothing is left over.  Where the view is
magnified, the window that is asked for begins at a multiple of the magnification
(`Views`); at zoom 0 and below, the unit is chosen so that what it is divided by
leaves nothing over (`Grain`), down to the zoom levels at which only the smallest
layer is drawn (`Drawable`).
An iterator is at sample k if it is at word k divided by the room in a word
(`IteratorAt`); steps and jumps preserve that (`SuccIs`, `AdvanceIs`).  What `set()`
adds to a word is a multiple of the weight of its sample and less than the weight of
the next, so that neither the samples below nor those above notice it
(`LowerSample`, `HigherSample`).

**Colours**, for any values of the 64 pixels that become one, and every layer
operation.  A mean is a sum over the values that occur, weighted by how often they
do.  `WeightedSum` compares it with the sums of as many times the smallest and as
many times the largest of them, and `MeansAre` follows that through the division
and the scaling of each operation.  For indexed colours the loop of `reduce()` is a
recursive function, which exists because each value is computed from that at an
earlier number (`EarlierExists`); `AreTopTwo` is its invariant: no value looked at so far
occurs more often than the second of the two.

**Rulers**, for any range and room.  `calculateInterval()` is a search without an end
in sight: `SearchExists` shows that the recursive function for it exists, and
`SearchFinds` that it finds the first that is good enough; there is one because
powers grow (`PowerIs`).  The intervals are not tried in the order of their size, 25 comes
before the next 10, but the 10 that is smaller was tried earlier (`SmallerTriedBefore`), so
that what is found is the smallest.  Rounding keeps ticks as far apart as the spacing
(`RoundedApart`), and sub-ticks divide the spacing, not the distance, by ten, so
that the last one comes before the next major tick.

**Formats**, for all tags, any set of colour map files and any size of tile that is a
multiple of 8.  `open()` lets through few combinations of tags; each gets a case, in
which the layer specification is computed (`SupportedFilesGetLayers`).  The rows are
about numbers: what `fillTiles()` copies from where is a partition of the row's bytes
because the first tile begins at 0 and each where the one before it ends.
`InkStays` needs that a colour map has at least two colours, as the program's have.

*The assumptions* on constants are those that the `ASSUME`s name: sets are what they
are sets of (`ZoomsAssumption`, `ParentAssumption`, ...), model values are not members
of the sets that they stand outside of (`NoWorkerAssumption`, `ViewerAssumption`,
`NoTileAssumption`), and what the code counts is finite (`ClientsAssumption`,
`TilesAssumption`).  `ValuesAssumption` says that there is a value, and that memory
that is free is none; `SizesAssumption` that each value takes at least a page.
`CommandLinesAssumption` says that the bounds on windows and presentations leave room
for what a command line asks for, since the code has no such bounds;
`TileSizeAssumption` says that the side of a tile is a multiple of 8, as `TILESIZE` is;
`SideAssumption` that the side of a tile in `Pixels` is a multiple of 64, so that
reduced tiles still begin at whole bytes; `UnitAssumption` that a pixel has units, and `MissingAssumption` that a tag that is not
there has no value.  `AreaAssumption` says that a layer's left edge is not right of its
right edge, and `ColourAssumption` that the colour a layer has at first is not in the
palette.  `PresentationsAssumption` says that the sides of a presentation fit in an
`int`, as `updateZoom()` assumes when it halves them, and that aspect ratios are
positive; `MouseAssumption` and `TypedAssumption` that windows have sizes, that points are
points and that numbers are numbers.

*Only model-checked:* liveness (`EverythingEnds`, `LoadingEnds`, `EverythingIsShown` and
the like), which needs fairness and `ENABLED`, and is out of the prover's reach.  Every
invariant and every action property that a passing run checks is a theorem.

## 6. What is not modelled, and why

* *What is external*: GTK, cairo, libtiff and zlib.  zlib appears as what it does to a
  value, libtiff as the tags and rows it returns, GTK as calls of handlers
  (`gtk_adjustment_configure()` as what it does to a value).
* *Messages to the UI thread*: `on_ui_thread()` and `sync_on_ui_thread()` are steps of
  the UI thread, or explicit messages where the caller can be overtaken (`Tools`,
  `Redraw`).
* *What only tests use*: `reserve()` and `at()` of `Map`, the timed `P()` and `try_P()`
  of `Semaphore`, `FunctionAdditor`.
* *Wording and layout*: titles, properties, metadata dialogs, fonts, the full-screen
  mode and the side bar of a view, logging.
* *Errors without a model*: exceptions from jobs and plugins (they end the program),
  failures of `dlopen` (the plugin is skipped, as `LoadPlugin` allows), a full disk.
* *Plugins without state*: the example plugin, the metadata dialog, the presentation
  that passes everything on, and the two measuring programs.
* `getState()` of a tile (a read), the out-of-bounds tile, and two `Tile` objects made
  by racing calls of `getTileSync()`.
* *TIFF files with separate planes*: `open()` accepts them, but the size of a row
  that `fillTiles()` gets is then that of one plane (hazard in `PROJECT.json`).
* *Floating point*: doubles are exact fractions in the models.  What rounding of the
  last bit does is not modelled; at the zoom levels of the runs all the
  coordinates are exact in a `double` too.

`PROJECT.json` lists each component with what its model leaves out.

## 7. Plan

Done: `ThreadPool` with `JobContract`; `MemoryBlobs`; `CompressedTile`;
`TileViewState`; `Bookkeeping`; `Loading` with `LoadContract`; `Reduction`; `Redraw`;
`Progress`; `Tools`; `ViewWindow`; `Overlay`; `Application`; the calculations; and a
theorem for each invariant, each action property and both contracts that the runs check.

Next models: an abstract specification of `Blob` (a register that is read and
written) for `MemoryBlobs` to implement, and one of a tile that both
`CompressedTile` and `Redraw` are held to.  Runs stay few: a small component joins
the run of its neighbours.
