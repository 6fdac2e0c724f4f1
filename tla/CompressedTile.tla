-------------------------- MODULE CompressedTile --------------------------
(***************************************************************************)
(* One tile of libs/tiled-bitmap (compressedtile.cc): who has its data in  *)
(* memory, who is loading it, and which observers are told.                *)
(*                                                                         *)
(* An observer is a TileViewState: the UI thread creates it, which         *)
(* registers it with the tile, and drops it when the view scrolls away.    *)
(* Workers, threads of CpuBound(), load the tile for an observer, or       *)
(* synchronously for themselves, and one of them fills it with data.       *)
(*                                                                         *)
(* A step is what happens under stateData or tileData, or between two      *)
(* such critical sections.  do_load() goes                                 *)
(*                                                                         *)
(*   begin [-> cleaned] -> get -> finish [-> finishing] -> notify ->       *)
(*   notified -> loaded                                                    *)
(*                                                                         *)
(* where stateData is locked from finish (inclusive) to loaded.            *)
(***************************************************************************)
EXTENDS Naturals, FiniteSets

CONSTANTS
    Observers,   \* the TileViewStates that will ever be created
    Workers,
    Getters,     \* the workers that call getConstTileSync() as well
    Queues,      \* the load queues that will ever be created: positive numbers
    MaxJobs,     \* bound on the scheduled loads of one queue
    None         \* not a worker

ASSUME QueuesAssumption == Queues \subseteq Nat \ {0}
ASSUME JobsAssumption   == MaxJobs \in Nat \ {0}
ASSUME GettersAssumption == Getters \subseteq Workers
ASSUME NoneAssumption   == None \notin Workers

VARIABLES
    state,     \* CompressedTile::state
    queue,     \* CompressedTile::queue, a weak pointer; 0 at first
    jobs,      \* the scheduled, not yet started, loads of each queue
    deleted,   \* the queues of which the last reference is gone
    lock,      \* who has locked stateData for more than one step, or None
    fill,      \* progress of the fetch that fills this tile
    task,      \* why a worker is in do_load()
    pc,        \* where it is
    result,    \* the workers that have a strong reference to the ConstTile
    didLoad,   \* the workers that created it themselves
    temp,      \* the queue to which cleanupState() has a temporary reference
    snapshot,  \* the observers that notifyObservers() has references to
    waitq,     \* the queue whose deletion blocks a thread, or 0
    life,      \* of the observers
    told,      \* the observers that got tileLoaded(), and hence the ConstTile
    token,     \* the queue whose reference is in the observer's token, or 0
    ui         \* what the UI thread is doing, and its local variables

tileVars   == <<state, queue, jobs, deleted, fill>>
workerVars == <<task, pc, result, didLoad, temp, snapshot>>
obsVars    == <<life, told, token>>
vars       == <<tileVars, lock, workerVars, waitq, obsVars, ui>>

UI == "ui"
TileStates == {"UNINITIALIZED", "NORMAL", "LOADING_SYNC", "LOADING_ASYNC"}
UIIdle == [at |-> "idle", obs |-> {}, queue |-> 0, result |-> FALSE]

-----------------------------------------------------------------------------
Init ==
    /\ state = "UNINITIALIZED"
    /\ queue = 0
    /\ jobs = [q \in Queues |-> 0]
    /\ deleted = {}
    /\ lock = None
    /\ fill = "no"
    /\ task = [w \in Workers |-> [kind |-> "none", queue |-> 0]]
    /\ pc = [w \in Workers |-> "idle"]
    /\ result = {}
    /\ didLoad = {}
    /\ temp = [w \in Workers |-> 0]
    /\ snapshot = [w \in Workers |-> {}]
    /\ waitq = [t \in Workers \cup {UI} |-> 0]
    /\ life = [o \in Observers |-> "new"]
    /\ told = {}
    /\ token = [o \in Observers |-> 0]
    /\ ui = UIIdle

\* Observable<TileLoadingObserver>::getObservers(): those registered that live.
Registered == {o \in Observers : life[o] \in {"owned", "orphaned"}}

\* constTile.lock() succeeds.  An observer keeps what tileLoaded() gave it.
ConstAlive == result # {} \/ told \cap Registered # {} \/ ui.result

QueueAlive(q) == q # 0 /\ q \notin deleted

\* The threads and observers that have a strong reference to a queue.
QueueRefs(q) ==
    {o \in Registered : token[o] = q} \cup {w \in Workers : temp[w] = q}
        \cup (IF ui.queue = q THEN {UI} ELSE {})

Load(q)    == [kind |-> "load", queue |-> q]
Running(q) == {w \in Workers : task[w] = Load(q)}

\* A thread can go on unless it is waiting in ~Queue().
Runs(t) == waitq[t] = 0

-----------------------------------------------------------------------------
(* References to queues and observers.                                     *)

\* Thread t has dropped a reference to q; refs are the others.  Queues are of
\* the create() kind: the one who drops the last reference waits in ~Queue().
DropQueue(t, q, refs) ==
    IF q # 0 /\ refs = {}
    THEN /\ deleted' = deleted \cup {q}
         /\ waitq' = [waitq EXCEPT ![t] = q]
    ELSE UNCHANGED <<deleted, waitq>>

\* ~Queue() returns when no job of the queue is being executed.
DeletionDone(t) ==
    /\ waitq[t] # 0
    /\ Running(waitq[t]) = {}
    /\ waitq' = [waitq EXCEPT ![t] = 0]
    /\ UNCHANGED <<tileVars, lock, workerVars, obsVars, ui>>

\* Thread t drops a reference to observer o.  ~TileViewState() unregisters it
\* and destroys its token.
DropObserver(t, o, owner, snapshots) ==
    IF owner \/ \E w \in Workers : o \in snapshots[w]
    THEN /\ life' = [life EXCEPT ![o] = IF owner THEN "owned" ELSE "orphaned"]
         /\ UNCHANGED <<deleted, waitq>>
    ELSE /\ life' = [life EXCEPT ![o] = "gone"]
         /\ DropQueue(t, token[o], QueueRefs(token[o]) \ {o})

-----------------------------------------------------------------------------
(* The UI thread.                                                          *)

\* TileViewState::create(): registerObserver(), which calls observerAdded().
Create(o) ==
    /\ ui = UIIdle /\ Runs(UI)
    /\ life[o] = "new"
    /\ life' = [life EXCEPT ![o] = "owned"]
    /\ ui' = [ui EXCEPT !.at = "const", !.obs = {o}]
    /\ UNCHANGED <<tileVars, lock, workerVars, waitq, told, token>>

\* observerAdded() first reads constTile ...
ReadConst ==
    /\ ui.at = "const"
    /\ ui' = [ui EXCEPT !.at = "queue", !.result = ConstAlive]
    /\ UNCHANGED <<tileVars, lock, workerVars, waitq, obsVars>>

\* ... and then queue, both without locking anything.
ReadQueue ==
    /\ ui.at = "queue"
    /\ ui' = [ui EXCEPT !.at = IF ui.result THEN "add" ELSE "state",
                        !.queue = IF QueueAlive(queue) THEN queue ELSE 0]
    /\ UNCHANGED <<tileVars, lock, workerVars, waitq, obsVars>>

WrongCleanState ==  \* trusts that an asynchronous load is never cancelled
    state

\* cleanupState(): the load was cancelled if its queue is gone.
CleanState ==
    IF state = "LOADING_ASYNC" /\ ~QueueAlive(queue) THEN "NORMAL" ELSE state

WrongScheduled(q) ==  \* assumes that an existing queue has a load on it
    IF ui.queue = q THEN jobs[q] ELSE jobs[q] + 1

Scheduled(q) == jobs[q] + 1

\* Not loaded: schedule a load, unless somebody is loading or will.
CheckState ==
    /\ ui.at = "state"
    /\ lock = None
    /\ IF CleanState = "NORMAL"
       THEN LET q == IF ui.queue # 0 THEN ui.queue ELSE queue + 1 IN
            /\ q \in Queues
            /\ jobs[q] < MaxJobs
            /\ jobs' = [jobs EXCEPT ![q] = Scheduled(q)]
            /\ queue' = q
            /\ state' = "LOADING_ASYNC"
            /\ ui' = [ui EXCEPT !.at = "add", !.queue = q]
       ELSE /\ state' = CleanState
            /\ ui' = [ui EXCEPT !.at = "add"]
            /\ UNCHANGED <<jobs, queue>>
    /\ UNCHANGED <<deleted, fill, lock, workerVars, waitq, obsVars>>

\* The token keeps the load going; and tileLoaded() if there is no need for one.
AddToToken ==
    /\ ui.at = "add"
    /\ token' = [o \in Observers |-> IF o \in ui.obs THEN ui.queue ELSE token[o]]
    /\ told' = IF ui.result THEN told \cup ui.obs ELSE told
    /\ ui' = UIIdle
    /\ UNCHANGED <<tileVars, lock, workerVars, waitq, life>>

\* The view no longer needs the tile.
Release(o) ==
    /\ ui = UIIdle /\ Runs(UI)
    /\ life[o] = "owned"
    /\ DropObserver(UI, o, FALSE, snapshot)
    /\ UNCHANGED <<state, queue, jobs, fill, lock, workerVars, told, token, ui>>

-----------------------------------------------------------------------------
(* What workers come to the tile for.                                      *)

Begin(w, t, p) ==
    /\ task' = [task EXCEPT ![w] = t]
    /\ pc' = [pc EXCEPT ![w] = p]

Idle(w) == pc[w] = "idle" /\ Runs(w)

\* A scheduled load.  It is skipped if its queue was deleted.
StartLoad(w, q) ==
    /\ Idle(w)
    /\ jobs[q] > 0
    /\ jobs' = [jobs EXCEPT ![q] = @ - 1]
    /\ IF q \in deleted THEN UNCHANGED <<task, pc>> ELSE Begin(w, Load(q), "begin")
    /\ UNCHANGED <<state, queue, deleted, fill, lock, result, didLoad, temp, snapshot,
                   waitq, obsVars, ui>>

\* getConstTileSync(), for the reduction of the tile or for the pipette.
StartSync(w) ==
    /\ w \in Getters
    /\ Begin(w, [kind |-> "sync", queue |-> 0], IF ConstAlive THEN "loaded" ELSE "begin")
    /\ result' = IF ConstAlive THEN result \cup {w} ELSE result
    /\ UNCHANGED <<tileVars, lock, didLoad, temp, snapshot, waitq, obsVars, ui>>

\* DataFetcher: initialize(), and getTileSync(), which gets the ConstTile.
StartFill(w) ==
    /\ lock = None
    /\ fill = "no"
    /\ fill' = "initializing"
    /\ state' = IF state = "UNINITIALIZED" THEN "NORMAL" ELSE state
    /\ Begin(w, [kind |-> "fill", queue |-> 0], IF ConstAlive THEN "loaded" ELSE "begin")
    /\ result' = IF ConstAlive THEN result \cup {w} ELSE result
    /\ UNCHANGED <<queue, jobs, deleted, lock, didLoad, temp, snapshot, waitq, obsVars, ui>>

\* It writes to the Tile, and calls reportFinished(), which starts with do_load().
FillDone(w) ==
    /\ pc[w] = "filling"
    /\ fill' = "reporting"
    /\ pc' = [pc EXCEPT ![w] = "begin"]
    /\ UNCHANGED <<state, queue, jobs, deleted, lock, task, result, didLoad, temp, snapshot,
                   waitq, obsVars, ui>>

-----------------------------------------------------------------------------
(* do_load().                                                              *)

\* Lock stateData.  cleanupState() takes a reference to the queue, to see
\* whether there still is one.
LockState(w) ==
    /\ pc[w] \in {"begin", "finish"} /\ Runs(w)
    /\ lock = None
    /\ lock' = w
    /\ temp' = [temp EXCEPT ![w] = IF state = "LOADING_ASYNC" /\ QueueAlive(queue)
                                   THEN queue ELSE 0]
    /\ pc' = [pc EXCEPT ![w] = IF pc[w] = "begin" THEN "beginning" ELSE "finishing"]
    /\ UNCHANGED <<tileVars, task, result, didLoad, snapshot, waitq, obsVars, ui>>

\* It drops it again at once, but others may have dropped theirs meanwhile.
DropTemp(w) ==
    /\ temp[w] # 0
    /\ temp' = [temp EXCEPT ![w] = 0]
    /\ DropQueue(w, temp[w], QueueRefs(temp[w]) \ {w})
    /\ UNCHANGED <<state, queue, jobs, fill, lock, task, pc, result, didLoad, snapshot,
                   obsVars, ui>>

Unlocked(w) == None

MarkLoading(w) ==
    /\ pc[w] = "beginning" /\ Runs(w) /\ temp[w] = 0
    /\ state' = "LOADING_SYNC"
    /\ lock' = Unlocked(w)
    /\ pc' = [pc EXCEPT ![w] = "get"]
    /\ UNCHANGED <<queue, jobs, deleted, fill, task, result, didLoad, temp, snapshot,
                   waitq, obsVars, ui>>

\* Under tileData: use what somebody else loaded in the meantime, or load.
GetConst(w) ==
    /\ pc[w] = "get"
    /\ result' = result \cup {w}
    /\ didLoad' = IF ConstAlive THEN didLoad ELSE didLoad \cup {w}
    /\ pc' = [pc EXCEPT ![w] = "finish"]
    /\ UNCHANGED <<tileVars, lock, task, temp, snapshot, waitq, obsVars, ui>>

AfterLoad(w) == "NORMAL"

\* stateData is locked again: whoever loaded the tile tells the observers.
MarkLoaded(w) ==
    /\ pc[w] = "finishing" /\ Runs(w) /\ temp[w] = 0
    /\ state' = AfterLoad(w)
    /\ IF w \in didLoad
       THEN /\ snapshot' = [snapshot EXCEPT ![w] = Registered]
            /\ pc' = [pc EXCEPT ![w] = "notify"]
            /\ lock' = lock
       ELSE /\ pc' = [pc EXCEPT ![w] = "loaded"]
            /\ lock' = None
            /\ UNCHANGED snapshot
    /\ UNCHANGED <<queue, jobs, deleted, fill, task, result, didLoad, temp, waitq, obsVars, ui>>

\* tileLoaded() for all of them.
Notify(w) ==
    /\ pc[w] = "notify"
    /\ told' = told \cup snapshot[w]
    /\ pc' = [pc EXCEPT ![w] = "notified"]
    /\ UNCHANGED <<tileVars, lock, task, result, didLoad, temp, snapshot, waitq, life, token, ui>>

\* The list of observers goes away, one by one; some may have no other owner.
DropSnapshot(w) ==
    /\ pc[w] = "notified" /\ Runs(w)
    /\ \E o \in snapshot[w] :
          /\ snapshot' = [snapshot EXCEPT ![w] = @ \ {o}]
          /\ DropObserver(w, o, life[o] = "owned", snapshot')
    /\ UNCHANGED <<state, queue, jobs, fill, lock, task, pc, result, didLoad, temp,
                   told, token, ui>>

Notified(w) ==
    /\ pc[w] = "notified" /\ Runs(w) /\ snapshot[w] = {}
    /\ lock' = IF lock = w THEN None ELSE lock
    /\ didLoad' = didLoad \ {w}
    /\ pc' = [pc EXCEPT ![w] = "loaded"]
    /\ fill' = IF fill = "telling" /\ task[w].kind = "fill" THEN "done" ELSE fill
    /\ UNCHANGED <<state, queue, jobs, deleted, task, result, temp, snapshot, waitq, obsVars, ui>>

\* The end of a load job, or of the use of what getConstTileSync() returned.
End(w) ==
    /\ pc[w] = "loaded"
    /\ task[w].kind = "fill" => fill = "done"
    /\ pc' = [pc EXCEPT ![w] = "idle"]
    /\ task' = [task EXCEPT ![w] = [kind |-> "none", queue |-> 0]]
    /\ result' = result \ {w}
    /\ UNCHANGED <<tileVars, lock, didLoad, temp, snapshot, waitq, obsVars, ui>>

\* getTileSync() is done with the ConstTile.
Fill(w) ==
    /\ pc[w] = "loaded"
    /\ task[w].kind = "fill" /\ fill = "initializing"
    /\ fill' = "filling"
    /\ pc' = [pc EXCEPT ![w] = "filling"]
    /\ result' = result \ {w}
    /\ UNCHANGED <<state, queue, jobs, deleted, lock, task, didLoad, temp, snapshot,
                   waitq, obsVars, ui>>

\* reportFinished() tells the observers of the data, without locking anything.
Report(w) ==
    /\ pc[w] = "loaded"
    /\ task[w].kind = "fill" /\ fill = "reporting"
    /\ fill' = "telling"
    /\ snapshot' = [snapshot EXCEPT ![w] = Registered]
    /\ pc' = [pc EXCEPT ![w] = "notify"]
    /\ UNCHANGED <<state, queue, jobs, deleted, lock, task, result, didLoad, temp,
                   waitq, obsVars, ui>>

-----------------------------------------------------------------------------
UIStep == ReadConst \/ ReadQueue \/ CheckState \/ AddToToken \/ DeletionDone(UI)

WorkerStep(w) ==
    \/ LockState(w) \/ DropTemp(w) \/ MarkLoading(w) \/ GetConst(w) \/ MarkLoaded(w)
    \/ Notify(w) \/ DropSnapshot(w) \/ Notified(w)
    \/ End(w) \/ Fill(w) \/ FillDone(w) \/ Report(w)
    \/ DeletionDone(w)

Next ==
    \/ UIStep
    \/ \E o \in Observers : Create(o) \/ Release(o)
    \/ \E w \in Workers :
          \/ WorkerStep(w)
          \/ \E q \in Queues : StartLoad(w, q)
          \/ Idle(w) /\ (StartSync(w) \/ StartFill(w))

Spec == Init /\ [][Next]_vars

\* The UI thread goes on with what it is doing, and so do the workers: whoever
\* waits for a mutex that is free over and over gets it.  Workers run scheduled
\* jobs.  Nobody has to create or release an observer, fill the tile or ask for
\* it.
Fairness ==
    /\ WF_vars(UIStep) /\ SF_vars(CheckState)
    /\ \A w \in Workers : WF_vars(WorkerStep(w)) /\ SF_vars(LockState(w))
    /\ \A q \in Queues : SF_vars(\E w \in Workers : StartLoad(w, q))

FairSpec == Spec /\ Fairness

-----------------------------------------------------------------------------
(* Properties.                                                             *)

TypeOK ==
    /\ state \in TileStates
    /\ queue \in Queues \cup {0}
    /\ jobs \in [Queues -> 0..MaxJobs]
    /\ deleted \subseteq Queues
    /\ lock \in Workers \cup {None}
    /\ fill \in {"no", "initializing", "filling", "reporting", "telling", "done"}
    /\ \A w \in Workers : task[w].kind \in {"none", "load", "sync", "fill"}
    /\ pc \in [Workers -> {"idle", "begin", "beginning", "get", "finish", "finishing",
                           "notify", "notified", "loaded", "filling"}]
    /\ result \subseteq Workers /\ didLoad \subseteq Workers
    /\ temp \in [Workers -> Queues \cup {0}]
    /\ snapshot \in [Workers -> SUBSET Observers]
    /\ waitq \in [Workers \cup {UI} -> Queues \cup {0}]
    /\ life \in [Observers -> {"new", "owned", "orphaned", "gone"}]
    /\ told \subseteq Observers
    /\ token \in [Observers -> Queues \cup {0}]

\* "Need to do nothing. All will be well." (observerAdded): a tile that says it
\* is being loaded asynchronously, on a queue that still exists, has a load that
\* is scheduled or running, and one that says it is being loaded synchronously
\* has somebody between the two halves of do_load().
AllWillBeWell ==
    /\ state = "LOADING_ASYNC" /\ QueueAlive(queue) => jobs[queue] > 0 \/ Running(queue) # {}
    /\ state = "LOADING_SYNC" =>
          \E w \in Workers : pc[w] \in {"beginning", "get", "finish", "finishing"}

\* What there is and what is going to happen to the tile agree (compressedtile.cc,
\* observerAdded() and do_load()).
TileIsRight == TypeOK /\ AllWillBeWell

Jammed == \E w \in Workers : waitq[w] # 0

\* Once a tile is being filled, each observer that stays around is told of its
\* data, whatever is being loaded, cancelled and reloaded at the time.
EveryObserverIsTold ==
    \A o \in Observers :
        (life[o] = "owned" /\ fill # "no") ~> (o \in told \/ life[o] # "owned" \/ Jammed)

\* The UI thread does not stay in ~Queue() for ever.
UIUnblocks == (waitq[UI] # 0) ~> (waitq[UI] = 0 \/ Jammed)

\* Loading a tile gets somewhere, for the views as for the UI thread.
TileGetsThere == EveryObserverIsTold /\ UIUnblocks

\* "To avoid deadlock, you should make sure that jobs running on the
\* ThreadPool only have references to WeakQueue objects" (threadpool.hh): no
\* load job waits for the deletion of its own queue.
NoJobDeletesItsQueue ==
    \A w \in Workers : waitq[w] # 0 => task[w] # Load(waitq[w])
=============================================================================
