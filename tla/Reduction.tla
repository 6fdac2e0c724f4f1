----------------------------- MODULE Reduction -----------------------------
(***************************************************************************)
(* Scaling down a bitmap (libs/tiled-bitmap): a LayerCoordinator for every *)
(* tile of a higher layer reduces up to 64 tiles of the layer below into   *)
(* it, in jobs on CpuBound(), and reports its tile when all are in.        *)
(* TiledBitmap counts the tiles that are reported.                         *)
(*                                                                         *)
(* The coordinator's mutex protects the number of unfinished source tiles, *)
(* but not targetTileData, the pointer that keeps the Tile in memory: two  *)
(* jobs may both find it empty and assign it at the same time.  The        *)
(* assignment reads the old pointer, to release it later, and writes the   *)
(* new one; if both read before both write, one reference is never         *)
(* released.  (The workers have got the same Tile, from getTileSync().)    *)
(***************************************************************************)
EXTENDS Naturals, FiniteSets

CONSTANTS
    Tiles,      \* of all layers
    Parent,     \* the tile of the next layer, or NoTile
    Reducers,   \* threads of CpuBound()
    TheBitmap,  \* the observer of tiles that is not a coordinator
    NoTile      \* not a tile

ASSUME TilesAssumption == IsFiniteSet(Tiles)
ASSUME NoTileAssumption == NoTile \notin Tiles /\ TheBitmap \notin Tiles
ASSUME ParentAssumption == Parent \in [Tiles -> Tiles \cup {NoTile}]

Sources(p) == {t \in Tiles : Parent[t] = p}
Bottom     == {t \in Tiles : Sources(t) = {}}
Targets    == Tiles \ Bottom

VARIABLES
    open,                             \* the bitmap has not been closed
    reductions,                       \* the tiles with a reduceSourceTile() waiting
    reducing,                         \* of each worker: the tile it reads or reduces, and where it is
    tell,                             \* of each worker: the observers that it has yet to call
    initialized,                      \* the targets whose state is no longer TSI_UNINITIALIZED
    reduced,                          \* of each target: the tiles whose reduction is in its data
    unfinished,                       \* unfinishedSourceTiles of each coordinator
    mut,                              \* the worker that has locked its mutex, or NoTile
    target,                           \* targetTileData is not empty
    leaked,                           \* the number of references to its Tile that got lost
    reports,                          \* the number of times reportFinished() was called
    finishedCount, tooMany, finished  \* TiledBitmap: tileFinishedCount, the
                                      \* number of defects, and that of calls of setFinished()

dataVars  == <<initialized, reduced>>
coordVars == <<unfinished, mut, target, leaked>>
countVars == <<finishedCount, tooMany, finished>>
reductionVars == <<open, reductions, reducing, tell, dataVars, coordVars, reports, countVars>>

ReducerIdle == [tile |-> NoTile, at |-> "idle", old |-> FALSE]

ReductionInit ==
    /\ open = TRUE
    /\ reductions = {}
    /\ reducing = [w \in Reducers |-> ReducerIdle]
    /\ tell = [w \in Reducers |-> {}]
    /\ initialized = {}
    /\ reduced = [p \in Targets |-> {}]
    /\ unfinished = [p \in Targets |-> Cardinality(Sources(p))]
    /\ mut = [p \in Targets |-> NoTile]
    /\ target = [p \in Targets |-> FALSE]
    /\ leaked = [p \in Targets |-> 0]
    /\ reports = [t \in Tiles |-> 0]
    /\ finishedCount = 0
    /\ tooMany = 0
    /\ finished = 0

Goto(w, at) == reducing' = [reducing EXCEPT ![w].at = at]

At(w, at) == reducing[w].at = at

\* What worker w reduces into.
Into(w) == Parent[reducing[w].tile]

-----------------------------------------------------------------------------
(* Observers.  The bitmap is that of all tiles, a coordinator that of the  *)
(* sources of its target.                                                  *)

\* A coordinator lives as long as the bitmap, one of its jobs, or somebody who
\* is about to call it.
Lives(p) ==
    \/ open
    \/ reductions \cap Sources(p) # {}
    \/ \E w \in Reducers : \/ reducing[w].at \notin {"idle", "filled"} /\ Into(w) = p
                          \/ TheBitmap \in tell[w] \/ p \in tell[w]

BitmapLives == open \/ \E w \in Reducers : TheBitmap \in tell[w]

TileObservers(t) ==
    (IF BitmapLives THEN {TheBitmap} ELSE {})
        \cup (IF Parent[t] # NoTile /\ Lives(Parent[t]) THEN {Parent[t]} ELSE {})

\* reportFinished() of tile t, by worker w: collect the observers.
ReportTile(w, t) ==
    /\ reports' = [reports EXCEPT ![t] = @ + 1]
    /\ tell' = [tell EXCEPT ![w] = TileObservers(t)]

\* The tile that a worker is reporting.
Reported(w) == IF At(w, "reporting") THEN Into(w) ELSE reducing[w].tile

\* LayerCoordinator::tileFinished() schedules the reduction.
TellCoordinator(w) ==
    LET t == Reported(w) IN
    /\ tell[w] \cap Targets # {}
    /\ tell' = [tell EXCEPT ![w] = @ \ Targets]
    /\ reductions' = reductions \cup {t}
    /\ UNCHANGED <<open, reducing, dataVars, coordVars, reports, countVars>>

WrongNeverLast(n) ==  \* off by one, the other way
    n > Cardinality(Tiles)

IsLast(n) == n = Cardinality(Tiles)

\* TiledBitmap::tileFinished() counts.
TellBitmap(w) ==
    LET n == finishedCount + 1 IN
    /\ TheBitmap \in tell[w]
    /\ tell' = [tell EXCEPT ![w] = @ \ {TheBitmap}]
    /\ finishedCount' = n
    /\ tooMany' = IF n > Cardinality(Tiles) THEN tooMany + 1 ELSE tooMany
    /\ finished' = IF IsLast(n) THEN finished + 1 ELSE finished
    /\ UNCHANGED <<open, reductions, reducing, dataVars, coordVars, reports>>

-----------------------------------------------------------------------------
(* The bottom layer.                                                       *)

\* A DataFetcher has filled a tile, and reports it.  One does so at a time, maybe
\* even when the bitmap is gone.
FillTile(w, t) ==
    /\ reducing[w] = ReducerIdle
    /\ reports[t] = 0
    /\ \A v \in Reducers : ~At(v, "filled")
    /\ reducing' = [reducing EXCEPT ![w] = [ReducerIdle EXCEPT !.tile = t, !.at = "filled"]]
    /\ ReportTile(w, t)
    /\ UNCHANGED <<open, reductions, dataVars, coordVars, countVars>>

TileFilled(w) ==
    /\ At(w, "filled") /\ tell[w] = {}
    /\ reducing' = [reducing EXCEPT ![w] = ReducerIdle]
    /\ UNCHANGED <<open, reductions, tell, dataVars, coordVars, reports, countVars>>

\* The bitmap is destroyed, unless an observer list has a reference to it.
CloseLayers ==
    /\ open
    /\ open' = FALSE
    /\ UNCHANGED <<reductions, reducing, tell, dataVars, coordVars, reports, countVars>>

-----------------------------------------------------------------------------
(* LayerCoordinator::reduceSourceTile().                                   *)

StartReduce(w, t) ==
    /\ reducing[w] = ReducerIdle
    /\ t \in reductions
    /\ reductions' = reductions \ {t}
    /\ reducing' = [reducing EXCEPT ![w] = [ReducerIdle EXCEPT !.tile = t, !.at = "initialize"]]
    /\ UNCHANGED <<open, tell, dataVars, coordVars, reports, countVars>>

WrongMustInitialize(p) ==  \* does so for every source
    TRUE

MustInitialize(p) == p \notin initialized

\* CompressedTile::initialize(): the first one fills the target with zeroes.
Initialize(w) ==
    /\ At(w, "initialize")
    /\ initialized' = initialized \cup {Into(w)}
    /\ reduced' = IF MustInitialize(Into(w)) THEN [reduced EXCEPT ![Into(w)] = {}] ELSE reduced
    /\ Goto(w, "check")
    /\ UNCHANGED <<open, reductions, tell, coordVars, reports, countVars>>

\* if(!targetTileData), without a lock.
CheckTarget(w) ==
    /\ At(w, "check")
    /\ Goto(w, IF target[Into(w)] THEN "reduce" ELSE "get")
    /\ UNCHANGED <<open, reductions, tell, dataVars, coordVars, reports, countVars>>

\* targetTileData = targetTile->getTileSync(): reads the old pointer ...
GetTarget(w) ==
    /\ At(w, "get")
    /\ reducing' = [reducing EXCEPT ![w].old = target[Into(w)], ![w].at = "assign"]
    /\ UNCHANGED <<open, reductions, tell, dataVars, coordVars, reports, countVars>>

\* ... writes the new one, and releases the old: a pointer that was written in
\* between is overwritten, but not released.
AssignTarget(w) ==
    LET p == Into(w) IN
    /\ At(w, "assign")
    /\ target' = [target EXCEPT ![p] = TRUE]
    /\ leaked' = IF target[p] /\ ~reducing[w].old THEN [leaked EXCEPT ![p] = @ + 1] ELSE leaked
    /\ Goto(w, "reduce")
    /\ UNCHANGED <<open, reductions, tell, dataVars, unfinished, mut, reports, countVars>>

\* lo->reduce()
ReduceTile(w) ==
    /\ At(w, "reduce")
    /\ reduced' = [reduced EXCEPT ![Into(w)] = @ \cup {reducing[w].tile}]
    /\ Goto(w, "count")
    /\ UNCHANGED <<open, reductions, tell, initialized, coordVars, reports, countVars>>

WrongAllIn(n) ==  \* the last but one
    n <= 1

AllIn(n) == n = 0

\* targetTileData.reset()
AfterReport(p) == [target EXCEPT ![p] = FALSE]

\* Lock the mutex and count; the last source reports the target, with the mutex
\* locked.
Count(w) ==
    LET p == Into(w)
        n == unfinished[p] - 1
    IN
    /\ At(w, "count")
    /\ mut[p] = NoTile
    /\ unfinished' = [unfinished EXCEPT ![p] = n]
    /\ IF AllIn(n)
       THEN /\ mut' = [mut EXCEPT ![p] = w]
            /\ Goto(w, "reporting")
            /\ ReportTile(w, p)
       ELSE /\ reducing' = [reducing EXCEPT ![w] = ReducerIdle]
            /\ UNCHANGED <<mut, tell, reports>>
    /\ UNCHANGED <<open, reductions, dataVars, target, leaked, countVars>>

\* Nobody is left to call.
Finish(w) ==
    /\ At(w, "reporting") /\ tell[w] = {}
    /\ target' = AfterReport(Into(w))
    /\ mut' = [mut EXCEPT ![Into(w)] = NoTile]
    /\ reducing' = [reducing EXCEPT ![w] = ReducerIdle]
    /\ UNCHANGED <<open, reductions, tell, dataVars, unfinished, leaked, reports, countVars>>

-----------------------------------------------------------------------------
ReducerStep(w) ==
    \/ \E t \in Bottom : FillTile(w, t)
    \/ TileFilled(w)
    \/ TellCoordinator(w)
    \/ TellBitmap(w)
    \/ \E t \in Tiles : StartReduce(w, t)
    \/ Initialize(w)
    \/ CheckTarget(w)
    \/ GetTarget(w)
    \/ AssignTarget(w)
    \/ ReduceTile(w)
    \/ Count(w)
    \/ Finish(w)

ReductionNext == CloseLayers \/ \E w \in Reducers : ReducerStep(w)

ReductionSpec == ReductionInit /\ [][ReductionNext]_reductionVars

\* The workers keep running, and the bottom layer gets its data (Loading.tla).
ReductionFairSpec == ReductionSpec /\ \A w \in Reducers : WF_reductionVars(ReducerStep(w))

-----------------------------------------------------------------------------
(* Properties.                                                             *)

Places == {"filled", "initialize", "check", "get", "assign", "reduce", "count", "reporting"}

ReductionTypeOK ==
    /\ open \in BOOLEAN
    /\ reductions \subseteq {t \in Tiles : Parent[t] # NoTile}
    /\ reducing \in [Reducers -> {ReducerIdle} \cup [tile : Tiles, at : Places, old : BOOLEAN]]
    /\ tell \in [Reducers -> SUBSET (Targets \cup {TheBitmap})]
    /\ initialized \subseteq Targets
    /\ reduced \in [Targets -> SUBSET Tiles]
    /\ unfinished \in [Targets -> 0..Cardinality(Tiles)]
    /\ mut \in [Targets -> Reducers \cup {NoTile}]
    /\ target \in [Targets -> BOOLEAN]
    /\ leaked \in [Targets -> Nat]
    /\ reports \in [Tiles -> 0..1]
    /\ finishedCount \in Nat /\ tooMany \in Nat /\ finished \in Nat

\* A tile is reported, and from then on drawn and reduced itself, only when all
\* its source tiles are in, and nobody writes to it any more.
FinishedIsComplete ==
    \A p \in Targets :
        reports[p] > 0 =>
            /\ reduced[p] = Sources(p)
            /\ \A w \in Reducers :
                 reducing[w].at \in {"initialize", "check", "get", "assign", "reduce", "count"}
                    => Into(w) # p

\* What has been reduced stays: the zeroes come first.
ReductionsStay == [][\A p \in Targets : reduced[p] \subseteq reduced'[p]]_reductionVars

\* The progress bar is told that the bitmap is finished once, when it is; "ERROR:
\* Too many tiles are finished!" does not happen (tiled-bitmap.cc).
ProgressIsRight ==
    /\ tooMany = 0
    /\ finished <= 1
    /\ finished = 1 => \A t \in Tiles : reports[t] = 1

\* "The Tile itself (and associated bitmap data) will be loaded and unloaded as
\* needed" (tiledbitmaplayer.hh): the coordinator of a target that is finished does
\* not keep it in memory, apart from the references that were lost in a race, one
\* for each source that raced with another.
TargetsAreUnloaded ==
    \A p \in Targets :
        reports[p] > 0 /\ (\A w \in Reducers : ~(At(w, "reporting") /\ Into(w) = p))
            => ~target[p] /\ leaked[p] < Cardinality(Sources(p))

\* A layer is made from the one below it once, completely, and does not stay in
\* memory (layercoordinator.cc, tiled-bitmap.cc).
ReductionIsRight ==
    ReductionTypeOK /\ FinishedIsComplete /\ ProgressIsRight /\ TargetsAreUnloaded

\* Every tile of a bitmap that stays open is reported.
GetsFinished == <>(finished = 1 \/ ~open)
=============================================================================
