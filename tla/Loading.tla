------------------------------ MODULE Loading ------------------------------
(***************************************************************************)
(* Loading bitmaps: TiledBitmap::scheduleLoadingBitmap() (tiled-bitmap.cc),*)
(* DataFetcher (layer.cc), QueueJumper (threadpoolimpl.cc) and Semaphore.  *)
(*                                                                         *)
(* Each bitmap has a job on Sequentially(), which starts a DataFetcher on  *)
(* CpuBound() and waits for a semaphore.  A DataFetcher reads one row of   *)
(* tiles.  Before that it schedules a QueueJumper among the reductions;    *)
(* after that, the next row is read when the QueueJumper's turn comes, or  *)
(* as soon as possible if its turn has passed.                             *)
(*                                                                         *)
(* CpuBound() is taken as what ThreadPool.tla shows it to be: the workers  *)
(* take jobs by priority, then in order, and skip those of deleted queues. *)
(***************************************************************************)
EXTENDS Naturals, FiniteSets, Sequences, SequencesExt

CONSTANTS
    Bitmaps,
    Rows,     \* of each bitmap: verTileCount of its bottom layer
    Columns,  \* of each bitmap: horTileCount
    Workers,  \* threads of CpuBound()
    None      \* not a bitmap

ASSUME RowsAssumption == Rows \in [Bitmaps -> Nat \ {0}]
ASSUME ColumnsAssumption == Columns \in [Bitmaps -> Nat \ {0}]
ASSUME NoneAssumption == None \notin Bitmaps

VARIABLES
    life,      \* of each bitmap: "new", "open" or "closed"
    waiting,   \* the bitmaps whose job on Sequentially() has not started
    loader,    \* the bitmap whose job is waiting for its semaphore
    sem,       \* count of the semaphores, wait_until_done
    deleted,   \* the bitmaps whose queue is gone
    high,      \* jobs at DATAFETCH_PRIO
    normal,    \* jobs at REDUCE_PRIO
    task,      \* of each worker: the job, where it is, and the tiles reported
    jumper,    \* of each row: its QueueJumper's inQueue and isSet
    filled,    \* the rows that fillTiles() has provided, in order
    reported,  \* the number of tiles for which reportFinished() was called
    done,      \* the number of calls of done()
    late       \* history: the number of rows read after closing the bitmap

bitmapVars == <<life, sem, deleted>>
sourceVars == <<filled, done, late>>
vars == <<life, waiting, loader, sem, deleted, high, normal, task, jumper,
          filled, reported, done, late>>

Job(kind, b, r) == [kind |-> kind, bitmap |-> b, row |-> r]
Fetch(b, r)  == Job("fetch", b, r)
Jump(b, r)   == Job("jump", b, r)
Reduce(b, r) == Job("reduce", b, r)

Idle == [job |-> Job("none", None, 0), at |-> "idle", tiles |-> 0, via |-> 0]

Init ==
    /\ life = [b \in Bitmaps |-> "new"]
    /\ waiting = <<>>
    /\ loader = None
    /\ sem = [b \in Bitmaps |-> 0]
    /\ deleted = {}
    /\ high = <<>>
    /\ normal = <<>>
    /\ task = [w \in Workers |-> Idle]
    /\ jumper = [b \in Bitmaps |-> [r \in 1..Rows[b] |-> [inQueue |-> TRUE, isSet |-> FALSE]]]
    /\ filled = [b \in Bitmaps |-> <<>>]
    /\ reported = [b \in Bitmaps |-> 0]
    /\ done = [b \in Bitmaps |-> 0]
    /\ late = [b \in Bitmaps |-> 0]

-----------------------------------------------------------------------------
(* The user, and Sequentially().                                           *)

\* setSource(): schedule the job, and register its abort function.
SetSource(b) ==
    /\ life[b] = "new"
    /\ life' = [life EXCEPT ![b] = "open"]
    /\ waiting' = Append(waiting, b)
    /\ UNCHANGED <<loader, sem, deleted, high, normal, task, jumper, sourceVars, reported>>

V(b) == [sem EXCEPT ![b] = @ + 1]

\* The bitmap is destroyed, and so is its registration: abort().  The queue is
\* one of createAsync(): nobody waits for the jobs that are being executed.
Close(b) ==
    /\ life[b] = "open"
    /\ life' = [life EXCEPT ![b] = "closed"]
    /\ deleted' = deleted \cup {b}
    /\ sem' = V(b)
    /\ UNCHANGED <<waiting, loader, high, normal, task, jumper, sourceVars, reported>>

\* The thread of Sequentially() starts its next job: fetchData().
StartLoading ==
    /\ loader = None
    /\ waiting # <<>>
    /\ loader' = Head(waiting)
    /\ waiting' = Tail(waiting)
    /\ high' = Append(high, Fetch(Head(waiting), 1))
    /\ UNCHANGED <<bitmapVars, normal, task, jumper, sourceVars, reported>>

\* ... and waits until it is done, or aborted.
P ==
    /\ loader # None
    /\ sem[loader] > 0
    /\ sem' = [sem EXCEPT ![loader] = @ - 1]
    /\ loader' = None
    /\ UNCHANGED <<life, deleted, waiting, high, normal, task, jumper, sourceVars, reported>>

-----------------------------------------------------------------------------
(* The threads of CpuBound().                                              *)

SetTask(w, t) == task' = [task EXCEPT ![w] = t]

\* do_one(): first pop a job ...
Take(w) ==
    /\ task[w] = Idle
    /\ \/ /\ high # <<>>
          /\ SetTask(w, [Idle EXCEPT !.job = Head(high), !.at = "popped"])
          /\ high' = Tail(high) /\ normal' = normal
       \/ /\ high = <<>> /\ normal # <<>>
          /\ SetTask(w, [Idle EXCEPT !.job = Head(normal), !.at = "popped"])
          /\ normal' = Tail(normal) /\ high' = high
    /\ UNCHANGED <<bitmapVars, waiting, loader, jumper, sourceVars, reported>>

WrongSkipped(j) ==  \* only looks at the queue when a job is scheduled
    FALSE

\* Reductions are on the pool's own queue, which is never deleted.
Skipped(j) == j.kind # "reduce" /\ j.bitmap \in deleted

\* ... then see whether its queue still exists.
Begin(w) ==
    /\ task[w].at = "popped"
    /\ SetTask(w, IF Skipped(task[w].job) THEN Idle ELSE [task[w] EXCEPT !.at = "start"])
    /\ UNCHANGED <<bitmapVars, waiting, loader, high, normal, jumper, sourceVars, reported>>

\* Worker w has executed task t: its turn is over for a QueueJumper, too.
Leave(w, t) ==
    /\ SetTask(w, Idle)
    /\ jumper' = IF t.via = 0 THEN jumper
                 ELSE [jumper EXCEPT ![t.job.bitmap][t.via].inQueue = FALSE]

\* QueueJumper::operator()(), from locking mut to the work that was set, if any.
\* The work is to read the next row.
RunJumper(w) ==
    LET j == task[w].job IN
    /\ task[w].at = "start" /\ j.kind = "jump"
    /\ IF jumper[j.bitmap][j.row].isSet
       THEN /\ SetTask(w, [task[w] EXCEPT !.job = Fetch(j.bitmap, j.row + 1), !.via = j.row])
            /\ UNCHANGED jumper
       ELSE Leave(w, [task[w] EXCEPT !.via = j.row])
    /\ UNCHANGED <<bitmapVars, waiting, loader, high, normal, sourceVars, reported>>

RunReduce(w) ==
    /\ task[w].at = "start" /\ task[w].job.kind = "reduce"
    /\ SetTask(w, Idle)
    /\ UNCHANGED <<bitmapVars, waiting, loader, high, normal, jumper, sourceVars, reported>>

\* The DataFetcher schedules its QueueJumper ...
StartFetch(w) ==
    LET j == task[w].job IN
    /\ task[w].at = "start" /\ j.kind = "fetch"
    /\ normal' = Append(normal, Jump(j.bitmap, j.row))
    /\ SetTask(w, [task[w] EXCEPT !.at = "fill"])
    /\ UNCHANGED <<bitmapVars, waiting, loader, high, jumper, sourceVars, reported>>

\* ... gets the data of a row of tiles from the source ...
FillTiles(w) ==
    LET b == task[w].job.bitmap IN
    /\ task[w].at = "fill"
    /\ filled' = [filled EXCEPT ![b] = Append(@, task[w].job.row)]
    /\ late' = IF life[b] = "closed" THEN [late EXCEPT ![b] = @ + 1] ELSE late
    /\ SetTask(w, [task[w] EXCEPT !.at = "report"])
    /\ UNCHANGED <<bitmapVars, waiting, loader, high, normal, jumper, reported, done>>

\* The LayerCoordinator lives as long as its bitmap, or one of its jobs.
CoordinatorLives(b) ==
    \/ life[b] # "closed"
    \/ \E i \in DOMAIN normal : normal[i].kind = "reduce" /\ normal[i].bitmap = b
    \/ \E w \in Workers : task[w].job.kind = "reduce" /\ task[w].job.bitmap = b

\* ... reports each of the tiles, which are then reduced ...
ReportFinished(w) ==
    LET j == task[w].job IN
    /\ task[w].at = "report"
    /\ task[w].tiles < Columns[j.bitmap]
    /\ SetTask(w, [task[w] EXCEPT !.tiles = @ + 1])
    /\ reported' = [reported EXCEPT ![j.bitmap] = @ + 1]
    /\ normal' = IF CoordinatorLives(j.bitmap)
                 THEN Append(normal, Reduce(j.bitmap, j.row)) ELSE normal
    /\ UNCHANGED <<bitmapVars, waiting, loader, high, jumper, sourceVars>>

WrongAccepts(q) ==  \* takes any work, also when its turn has passed
    TRUE

\* setWork(): inQueue is FALSE once the jumper's turn has passed.
Accepts(q) == q.inQueue

WrongNeedsSchedule(q) ==  \* does not look at what setWork() returns
    TRUE

NeedsSchedule(q) == ~Accepts(q)

\* ... and leaves the next row to its QueueJumper, or to a job of its own.
Successor(w) ==
    LET j == task[w].job
        q == jumper[j.bitmap][j.row]
        left == IF task[w].via = 0 THEN jumper
                ELSE [jumper EXCEPT ![j.bitmap][task[w].via].inQueue = FALSE]
    IN
    /\ task[w].at = "report" /\ task[w].tiles = Columns[j.bitmap]
    /\ j.row < Rows[j.bitmap]
    /\ high' = IF NeedsSchedule(q) THEN Append(high, Fetch(j.bitmap, j.row + 1)) ELSE high
    /\ jumper' = IF Accepts(q) THEN [left EXCEPT ![j.bitmap][j.row].isSet = TRUE] ELSE left
    /\ SetTask(w, Idle)
    /\ UNCHANGED <<bitmapVars, waiting, loader, normal, sourceVars, reported>>

\* The last row: done() and on_finished().
AllRead(w) ==
    LET b == task[w].job.bitmap IN
    /\ task[w].at = "report" /\ task[w].tiles = Columns[b]
    /\ task[w].job.row = Rows[b]
    /\ done' = [done EXCEPT ![b] = @ + 1]
    /\ sem' = [sem EXCEPT ![b] = @ + 1]
    /\ Leave(w, task[w])
    /\ UNCHANGED <<life, deleted, waiting, loader, high, normal, filled, late, reported>>

-----------------------------------------------------------------------------
User == \E b \in Bitmaps : SetSource(b) \/ Close(b)

SequentialThread == StartLoading \/ P

Worker(w) ==
    \/ Take(w)
    \/ Begin(w)
    \/ RunJumper(w)
    \/ RunReduce(w)
    \/ StartFetch(w)
    \/ FillTiles(w)
    \/ ReportFinished(w)
    \/ Successor(w)
    \/ AllRead(w)

Next == User \/ SequentialThread \/ \E w \in Workers : Worker(w)

Spec == Init /\ [][Next]_vars

\* The threads keep running, and a source provides its data some day.  The user
\* need not do anything.
FairSpec == Spec /\ WF_vars(SequentialThread) /\ \A w \in Workers : WF_vars(Worker(w))

-----------------------------------------------------------------------------
(* Properties.                                                             *)

Jobs ==
    UNION {[kind : {"fetch", "jump", "reduce"}, bitmap : {b}, row : 1..Rows[b]] : b \in Bitmaps}

TypeOK ==
    /\ life \in [Bitmaps -> {"new", "open", "closed"}]
    /\ waiting \in Seq(Bitmaps)
    /\ loader \in Bitmaps \cup {None}
    /\ sem \in [Bitmaps -> Nat]
    /\ deleted \subseteq Bitmaps
    /\ high \in Seq(Jobs)
    /\ normal \in Seq(Jobs)
    /\ \A w \in Workers :
         task[w] # Idle =>
            /\ task[w].job \in Jobs
            /\ task[w].at \in {"popped", "start", "fill", "report"}
            /\ task[w].tiles \in 0..Columns[task[w].job.bitmap]
            /\ task[w].via \in {0, task[w].job.row - 1}
    /\ \A b \in Bitmaps :
         /\ jumper[b] \in [1..Rows[b] -> [inQueue : BOOLEAN, isSet : BOOLEAN]]
         /\ filled[b] \in Seq(1..Rows[b])
         /\ reported[b] \in 0..(Rows[b] * Columns[b])
    /\ done \in [Bitmaps -> 0..1]
    /\ late \in [Bitmaps -> Nat]

Fetching(w, b) == task[w].job.kind = "fetch" /\ task[w].job.bitmap = b

\* A source is read by one thread at a time, row after row, and not after done():
\* the TIFF library reads one line after the other, and done() closes the file.
\* By then every tile has been reported, which is what the progress bar counts.
RowsInOrder ==
    \A b \in Bitmaps :
        /\ filled[b] = [i \in 1..Len(filled[b]) |-> i]
        /\ \A v, w \in Workers : Fetching(v, b) /\ Fetching(w, b) => v = w
        /\ done[b] > 0 => /\ Len(filled[b]) = Rows[b]
                          /\ reported[b] = Rows[b] * Columns[b]
                          /\ \A w \in Workers : ~Fetching(w, b)

\* "We need to have only two batches in memory: One that is currently being read
\* and one that is currently being scaled" (threadpool.hh): when a row is being
\* read, every reduction of the rows before the previous one has started.
TwoBatches ==
    \A w \in Workers, i \in DOMAIN normal :
        task[w].at = "fill" /\ normal[i].kind = "reduce"
            /\ normal[i].bitmap = task[w].job.bitmap
            => normal[i].row >= task[w].job.row - 1

\* A source is read in order, and no faster than it is scaled (layer.cc, threadpoolimpl.cc).
LoadingInOrder == TypeOK /\ RowsInOrder /\ TwoBatches

Contract == INSTANCE LoadContract WITH
    MaxLate <- 2,
    queue <- waiting,
    rows <- [b \in Bitmaps |-> Len(filled[b])],
    status <- [b \in Bitmaps |->
                 IF life[b] # "open" THEN life[b]
                 ELSE IF done[b] > 0 THEN "loaded"
                 ELSE IF loader = b THEN "loading"
                 ELSE "waiting"]

\* All this implements what setSource() promises.
ImplementsContract == Contract!Spec

\* Sequentially() is never stuck, so that every bitmap has its turn.
LoaderIsFreed == \A b \in Bitmaps : (loader = b) ~> (loader # b)

\* A bitmap that is not closed gets loaded: no row is lost between the
\* DataFetcher and its QueueJumper.
EveryBitmapIsLoaded == \A b \in Bitmaps : life[b] = "open" ~> (done[b] = 1 \/ life[b] = "closed")

\* Loading ends, for the loader as for each bitmap.
LoadingEnds == LoaderIsFreed /\ EveryBitmapIsLoaded
=============================================================================
