---------------------------- MODULE TilesProofs -----------------------------
(***************************************************************************)
(* Proofs about the tiles of a bitmap: CompressedTile, TileViewState and   *)
(* Bookkeeping, for any number of threads, observers, queues and values.   *)
(***************************************************************************)
EXTENDS CompressedTile, TileViewState, Bookkeeping, TLAPS

-----------------------------------------------------------------------------
(***************************************************************************)
(* CompressedTile.                                                         *)
(***************************************************************************)

Loaders == {"get", "finish", "finishing"}

UIStates ==
    [at : {"idle", "const", "queue", "state", "add"}, obs : SUBSET Observers,
     queue : Queues \cup {0}, result : BOOLEAN]

\* TypeOK, and what it leaves open: the tasks, and the UI thread's variables.
TileTypes ==
    /\ TypeOK
    /\ task \in [Workers -> [kind : {"none", "load", "sync", "fill"}, queue : Queues \cup {0}]]
    /\ ui \in UIStates

\* A load that has been promised is scheduled, or has not got to its first half.
AsyncHasLoad ==
    state = "LOADING_ASYNC" /\ QueueAlive(queue) =>
        \/ jobs[queue] > 0
        \/ \E w \in Workers : task[w] = Load(queue) /\ pc[w] \in {"begin", "beginning"}

\* A load that has started has not got to the end of its second half.
SyncHasLoader == state = "LOADING_SYNC" => \E w \in Workers : pc[w] \in Loaders

CInv == TileTypes /\ AsyncHasLoad /\ SyncHasLoader

LEMMA CInvInit == Init => CInv
<1>. SUFFICES ASSUME Init PROVE CInv  OBVIOUS
<1>1. TileTypes
  BY JobsAssumption DEF Init, TileTypes, TypeOK, TileStates, UIIdle, UIStates
<1>2. AsyncHasLoad /\ SyncHasLoader
  BY DEF Init, AsyncHasLoad, SyncHasLoader
<1>. QED  BY <1>1, <1>2 DEF CInv

\* What dropping references does to queues and observers.
LEMMA DropQueueTypes ==
    ASSUME TypeOK, NEW t \in Workers \cup {UI}, NEW q \in Queues \cup {0}, NEW others,
           DropQueue(t, q, others)
    PROVE  /\ deleted' \subseteq Queues /\ deleted \subseteq deleted'
           /\ waitq' \in [Workers \cup {UI} -> Queues \cup {0}]
<1>1. deleted \subseteq Queues /\ waitq \in [Workers \cup {UI} -> Queues \cup {0}]
  BY DEF TypeOK
<1>2. \/ /\ q \in Queues /\ deleted' = deleted \cup {q} /\ waitq' = [waitq EXCEPT ![t] = q]
      \/ UNCHANGED <<deleted, waitq>>
  BY DEF DropQueue
<1>. QED  BY <1>1, <1>2

LEMMA DropObserverTypes ==
    ASSUME TypeOK, NEW t \in Workers \cup {UI}, NEW o \in Observers, NEW owned, NEW snapshots,
           DropObserver(t, o, owned, snapshots)
    PROVE  /\ deleted' \subseteq Queues /\ deleted \subseteq deleted'
           /\ waitq' \in [Workers \cup {UI} -> Queues \cup {0}]
           /\ life' \in [Observers -> {"new", "owned", "orphaned", "gone"}]
<1>1. /\ life \in [Observers -> {"new", "owned", "orphaned", "gone"}]
      /\ deleted \subseteq Queues /\ waitq \in [Workers \cup {UI} -> Queues \cup {0}]
      /\ token[o] \in Queues \cup {0}
  BY DEF TypeOK
<1>2. \/ /\ life' = [life EXCEPT ![o] = IF owned THEN "owned" ELSE "orphaned"]
         /\ UNCHANGED <<deleted, waitq>>
      \/ /\ life' = [life EXCEPT ![o] = "gone"]
         /\ DropQueue(t, token[o], QueueRefs(token[o]) \ {o})
  BY DEF DropObserver
<1>3. CASE /\ life' = [life EXCEPT ![o] = IF owned THEN "owned" ELSE "orphaned"]
           /\ UNCHANGED <<deleted, waitq>>
  BY <1>1, <1>3
<1>4. CASE /\ life' = [life EXCEPT ![o] = "gone"]
           /\ DropQueue(t, token[o], QueueRefs(token[o]) \ {o})
  <2>1. life' \in [Observers -> {"new", "owned", "orphaned", "gone"}]  BY <1>1, <1>4
  <2>. QED  BY <1>1, <1>4, <2>1, DropQueueTypes
<1>. QED  BY <1>2, <1>3, <1>4

\* A step that does not touch the tile's state or loads, at most deletes queues,
\* and moves workers only within the two halves of do_load(), or outside them.
LEMMA LoadsKept ==
    ASSUME CInv, TileTypes', UNCHANGED <<state, queue, jobs>>, deleted \subseteq deleted',
           \A w \in Workers :
             /\ pc[w] \in {"begin", "beginning"} => pc'[w] \in {"begin", "beginning"} /\ task'[w] = task[w]
             /\ pc[w] \in Loaders => pc'[w] \in Loaders
    PROVE  CInv'
<1>1. AsyncHasLoad'
  <2>. SUFFICES ASSUME state' = "LOADING_ASYNC", QueueAlive(queue)'
                PROVE  \/ jobs'[queue'] > 0
                       \/ \E w \in Workers : task'[w] = Load(queue') /\ pc'[w] \in {"begin", "beginning"}
    BY DEF AsyncHasLoad, Load
  <2>1. QueueAlive(queue)  BY DEF QueueAlive
  <2>. QED  BY <2>1 DEF CInv, AsyncHasLoad
<1>2. SyncHasLoader'
  BY DEF CInv, SyncHasLoader
<1>. QED  BY <1>1, <1>2 DEF CInv

\* The UI thread's variables, one or two of which change.
LEMMA UIChanges ==
    ASSUME NEW u \in UIStates, NEW a \in {"idle", "const", "queue", "state", "add"},
           NEW s \in SUBSET Observers, NEW q \in Queues \cup {0}, NEW b \in BOOLEAN
    PROVE  /\ [u EXCEPT !.at = a] \in UIStates
           /\ [u EXCEPT !.at = a, !.obs = s] \in UIStates
           /\ [u EXCEPT !.at = a, !.result = b] \in UIStates
           /\ [u EXCEPT !.at = a, !.queue = q] \in UIStates
<1>1. u = [at |-> u.at, obs |-> u.obs, queue |-> u.queue, result |-> u.result]
      /\ u.obs \in SUBSET Observers /\ u.queue \in Queues \cup {0} /\ u.result \in BOOLEAN
  BY DEF UIStates
<1>2. PICK v : v = [u EXCEPT !.at = a]  OBVIOUS
<1>3. v = [at |-> a, obs |-> u.obs, queue |-> u.queue, result |-> u.result]
  BY <1>1, <1>2
<1>4. /\ [u EXCEPT !.at = a, !.obs = s] = [v EXCEPT !.obs = s]
      /\ [u EXCEPT !.at = a, !.result = b] = [v EXCEPT !.result = b]
      /\ [u EXCEPT !.at = a, !.queue = q] = [v EXCEPT !.queue = q]
  BY <1>2
<1>5. v \in UIStates  BY <1>1, <1>3 DEF UIStates
<1>6. /\ [v EXCEPT !.obs = s] \in UIStates
      /\ [v EXCEPT !.result = b] \in UIStates
      /\ [v EXCEPT !.queue = q] \in UIStates
  BY <1>5 DEF UIStates
<1>. QED  BY <1>2, <1>4, <1>5, <1>6

LEMMA UIIdleIs == UIIdle \in UIStates
BY DEF UIIdle, UIStates

-----------------------------------------------------------------------------
(* The UI thread.                                                          *)

LEMMA UIStepInv == ASSUME CInv, UIStep \/ \E o \in Observers : Create(o) \/ Release(o) PROVE CInv'
<1>. USE DEF tileVars, workerVars, obsVars
<1>. PICK u : u = ui  OBVIOUS
<1>1. TileTypes /\ TypeOK /\ ui \in UIStates  BY DEF CInv, TileTypes
<1>2. CASE UNCHANGED <<state, queue, jobs, deleted, task, pc>> /\ TileTypes'
  BY <1>2, LoadsKept
<1>3. ASSUME NEW o \in Observers, Create(o) PROVE CInv'
  <2>1. ui' \in UIStates
    <3>1. ui' = [ui EXCEPT !.at = "const", !.obs = {o}] /\ {o} \in SUBSET Observers
      BY <1>3 DEF Create
    <3>. QED  BY <1>1, <3>1, UIChanges
  <2>2. TileTypes'  BY <1>1, <1>3, <2>1 DEF Create, TileTypes, TypeOK
  <2>. QED  BY <1>2, <1>3, <2>2 DEF Create
<1>4. CASE ReadConst
  <2>1. ui' \in UIStates
    <3>1. ui' = [ui EXCEPT !.at = "queue", !.result = ConstAlive] /\ ConstAlive \in BOOLEAN
      BY <1>1, <1>4 DEF ReadConst, ConstAlive, UIStates
    <3>. QED  BY <1>1, <3>1, UIChanges
  <2>2. TileTypes'  BY <1>1, <1>4, <2>1 DEF ReadConst, TileTypes, TypeOK
  <2>. QED  BY <1>2, <1>4, <2>2 DEF ReadConst
<1>5. CASE ReadQueue
  <2>1. ui' \in UIStates
    <3>1. PICK a, q : /\ ui' = [ui EXCEPT !.at = a, !.queue = q]
                      /\ a \in {"add", "state"} /\ q \in Queues \cup {0}
      BY <1>1, <1>5 DEF ReadQueue, TypeOK
    <3>. QED  BY <1>1, <3>1, UIChanges
  <2>2. TileTypes'  BY <1>1, <1>5, <2>1 DEF ReadQueue, TileTypes, TypeOK
  <2>. QED  BY <1>2, <1>5, <2>2 DEF ReadQueue
<1>6. CASE CheckState
  <2>1. CASE CleanState = "NORMAL"
    <3>1. PICK q : /\ q \in Queues /\ jobs[q] < MaxJobs /\ jobs' = [jobs EXCEPT ![q] = jobs[q] + 1]
                   /\ queue' = q /\ state' = "LOADING_ASYNC"
                   /\ ui' = [ui EXCEPT !.at = "add", !.queue = q]
      BY <1>6, <2>1 DEF CheckState, Scheduled
    <3>2. ui' \in UIStates  BY <1>1, <3>1, UIChanges
    <3>3. jobs[q] \in Nat /\ jobs'[q] > 0 /\ jobs' \in [Queues -> 0..MaxJobs]
      BY <1>1, <3>1, JobsAssumption DEF TypeOK
    <3>4. TileTypes'
      BY <1>1, <1>6, <3>1, <3>2, <3>3 DEF CheckState, TileTypes, TypeOK, TileStates
    <3>. QED  BY <3>1, <3>3, <3>4 DEF CInv, AsyncHasLoad, SyncHasLoader
  <2>2. CASE CleanState # "NORMAL"
    <3>1. /\ state' = state /\ ui' = [ui EXCEPT !.at = "add"]
          /\ UNCHANGED <<queue, jobs, deleted, task, pc>>
      BY <1>6, <2>2 DEF CheckState, CleanState
    <3>2. ui' \in UIStates  BY <1>1, <3>1, UIChanges
    <3>3. TileTypes'  BY <1>1, <1>6, <3>1, <3>2 DEF CheckState, TileTypes, TypeOK
    <3>. QED  BY <1>2, <3>1, <3>3
  <2>. QED  BY <2>1, <2>2
<1>7. CASE AddToToken
  <2>1. ui' \in UIStates /\ ui.queue \in Queues \cup {0} /\ ui.obs \subseteq Observers
    BY <1>1, <1>7, UIIdleIs DEF AddToToken, UIStates
  <2>2. token' \in [Observers -> Queues \cup {0}] /\ told' \subseteq Observers
    BY <1>1, <1>7, <2>1 DEF AddToToken, TypeOK
  <2>3. TileTypes'  BY <1>1, <1>7, <2>1, <2>2 DEF AddToToken, TileTypes, TypeOK
  <2>. QED  BY <1>2, <1>7, <2>3 DEF AddToToken
<1>8. ASSUME NEW o \in Observers, Release(o) PROVE CInv'
  <2>1. DropObserver(UI, o, FALSE, snapshot)  BY <1>8 DEF Release
  <2>2. /\ deleted' \subseteq Queues /\ deleted \subseteq deleted'
        /\ waitq' \in [Workers \cup {UI} -> Queues \cup {0}]
        /\ life' \in [Observers -> {"new", "owned", "orphaned", "gone"}]
    BY <1>1, <2>1, DropObserverTypes
  <2>3. TileTypes'  BY <1>1, <1>8, <2>2 DEF Release, TileTypes, TypeOK
  <2>. QED  BY <1>8, <2>2, <2>3, LoadsKept DEF Release
<1>9. CASE DeletionDone(UI)
  <2>1. TileTypes'  BY <1>1, <1>9 DEF DeletionDone, TileTypes, TypeOK
  <2>. QED  BY <1>2, <1>9, <2>1 DEF DeletionDone
<1>. QED  BY <1>3, <1>4, <1>5, <1>6, <1>7, <1>8, <1>9 DEF UIStep

-----------------------------------------------------------------------------
(* The workers.                                                            *)

LEMMA StartInv ==
    ASSUME CInv, NEW w \in Workers, Idle(w),
           (\E q \in Queues : StartLoad(w, q)) \/ StartSync(w) \/ StartFill(w)
    PROVE  CInv'
<1>. USE DEF tileVars, workerVars, obsVars
<1>1. TileTypes /\ TypeOK /\ pc[w] = "idle"  BY DEF CInv, TileTypes, Idle
<1>2. ASSUME NEW q \in Queues, StartLoad(w, q) PROVE CInv'
  <2>1. /\ jobs[q] > 0 /\ jobs' = [jobs EXCEPT ![q] = jobs[q] - 1] /\ jobs \in [Queues -> 0..MaxJobs]
        /\ UNCHANGED <<state, queue, deleted>>
    BY <1>1, <1>2 DEF StartLoad, TypeOK
  <2>2. jobs' \in [Queues -> 0..MaxJobs] /\ \A p \in Queues \ {q} : jobs'[p] = jobs[p]
    BY <2>1, JobsAssumption
  <2>3. CASE q \in deleted
    <3>1. UNCHANGED <<task, pc>>  BY <1>2, <2>3 DEF StartLoad
    <3>2. TileTypes'  BY <1>1, <1>2, <2>2, <3>1 DEF StartLoad, TileTypes, TypeOK
    <3>3. AsyncHasLoad'
      <4>1. queue = q => ~QueueAlive(queue)  BY <2>3 DEF QueueAlive
      <4>2. queue \in Queues \cup {0}  BY <1>1 DEF TypeOK
      <4>3. QueueAlive(queue)' <=> QueueAlive(queue)  BY <2>1 DEF QueueAlive
      <4>. QED  BY <2>1, <2>2, <3>1, <4>1, <4>2, <4>3 DEF CInv, AsyncHasLoad, QueueAlive, Load
    <3>4. SyncHasLoader'  BY <2>1, <3>1 DEF CInv, SyncHasLoader
    <3>. QED  BY <3>2, <3>3, <3>4 DEF CInv
  <2>4. CASE q \notin deleted
    <3>1. task' = [task EXCEPT ![w] = Load(q)] /\ pc' = [pc EXCEPT ![w] = "begin"]
      BY <1>2, <2>4 DEF StartLoad, Begin
    <3>2. /\ task' \in [Workers -> [kind : {"none", "load", "sync", "fill"}, queue : Queues \cup {0}]]
          /\ task'[w] = Load(q) /\ pc'[w] = "begin"
          /\ \A v \in Workers \ {w} : task'[v] = task[v] /\ pc'[v] = pc[v]
      BY <1>1, <3>1 DEF TileTypes, TypeOK, Load
    <3>3. TileTypes'
      BY <1>1, <1>2, <2>2, <3>1, <3>2 DEF StartLoad, TileTypes, TypeOK
    <3>4. AsyncHasLoad'
      <4>1. queue \in Queues \cup {0}  BY <1>1 DEF TypeOK
      <4>2. QueueAlive(queue)' <=> QueueAlive(queue)  BY <2>1 DEF QueueAlive
      <4>. QED  BY <1>1, <2>1, <2>2, <3>2, <4>1, <4>2 DEF CInv, AsyncHasLoad, QueueAlive, Load
    <3>5. SyncHasLoader'  BY <1>1, <2>1, <3>2 DEF CInv, SyncHasLoader, Loaders
    <3>. QED  BY <3>3, <3>4, <3>5 DEF CInv
  <2>. QED  BY <2>3, <2>4
<1>3. ASSUME NEW k \in {"sync", "fill"}, NEW p \in {"loaded", "begin"},
             Begin(w, [kind |-> k, queue |-> 0], p)
      PROVE  /\ task' \in [Workers -> [kind : {"none", "load", "sync", "fill"}, queue : Queues \cup {0}]]
             /\ pc' = [pc EXCEPT ![w] = p]
             /\ pc'[w] = p
             /\ \A v \in Workers \ {w} : task'[v] = task[v] /\ pc'[v] = pc[v]
  BY <1>1, <1>3 DEF Begin, TileTypes, TypeOK
<1>4. CASE StartSync(w)
  <2>1. /\ task' \in [Workers -> [kind : {"none", "load", "sync", "fill"}, queue : Queues \cup {0}]]
        /\ (pc' = [pc EXCEPT ![w] = "loaded"] \/ pc' = [pc EXCEPT ![w] = "begin"])
        /\ \A v \in Workers \ {w} : task'[v] = task[v] /\ pc'[v] = pc[v]
    BY <1>3, <1>4 DEF StartSync
  <2>2. TileTypes'  BY <1>1, <1>4, <2>1 DEF StartSync, TileTypes, TypeOK
  <2>. QED  BY <1>1, <1>4, <2>1, <2>2, LoadsKept DEF StartSync, Loaders
<1>5. CASE StartFill(w)
  <2>1. /\ task' \in [Workers -> [kind : {"none", "load", "sync", "fill"}, queue : Queues \cup {0}]]
        /\ (pc' = [pc EXCEPT ![w] = "loaded"] \/ pc' = [pc EXCEPT ![w] = "begin"])
        /\ \A v \in Workers \ {w} : task'[v] = task[v] /\ pc'[v] = pc[v]
    BY <1>3, <1>5 DEF StartFill
  <2>2. TileTypes'  BY <1>1, <1>5, <2>1 DEF StartFill, TileTypes, TypeOK, TileStates
  <2>3. state' = "LOADING_ASYNC" => state = state'  BY <1>5 DEF StartFill
  <2>4. state' = "LOADING_SYNC" => state = state'  BY <1>5 DEF StartFill
  <2>5. UNCHANGED <<queue, jobs, deleted>>  BY <1>5 DEF StartFill
  <2>6. AsyncHasLoad'
    <3>1. QueueAlive(queue)' <=> QueueAlive(queue)  BY <2>5 DEF QueueAlive
    <3>. QED  BY <1>1, <2>1, <2>3, <2>5, <3>1 DEF CInv, AsyncHasLoad, Load
  <2>7. SyncHasLoader'  BY <1>1, <2>1, <2>4 DEF CInv, SyncHasLoader, Loaders
  <2>. QED  BY <2>2, <2>6, <2>7 DEF CInv
<1>. QED  BY <1>2, <1>4, <1>5

LEMMA WorkerStepInv == ASSUME CInv, NEW w \in Workers, WorkerStep(w) PROVE CInv'
<1>. USE DEF tileVars, workerVars, obsVars
<1>1. TileTypes /\ TypeOK  BY DEF CInv, TileTypes
<1>2. CASE LockState(w)
  <2>1. TileTypes'  BY <1>1, <1>2 DEF LockState, TileTypes, TypeOK
  <2>. QED  BY <1>1, <1>2, <2>1, LoadsKept DEF LockState, Loaders, TypeOK
<1>3. CASE DropTemp(w)
  <2>1. DropQueue(w, temp[w], QueueRefs(temp[w]) \ {w}) /\ temp[w] \in Queues \cup {0}
    BY <1>1, <1>3 DEF DropTemp, TypeOK
  <2>2. /\ deleted' \subseteq Queues /\ deleted \subseteq deleted'
        /\ waitq' \in [Workers \cup {UI} -> Queues \cup {0}]
    BY <1>1, <2>1, DropQueueTypes
  <2>3. TileTypes'  BY <1>1, <1>3, <2>2 DEF DropTemp, TileTypes, TypeOK
  <2>. QED  BY <1>1, <1>3, <2>2, <2>3, LoadsKept DEF DropTemp
<1>4. CASE MarkLoading(w)
  <2>1. TileTypes'  BY <1>1, <1>4 DEF MarkLoading, Unlocked, TileTypes, TypeOK, TileStates
  <2>2. state' = "LOADING_SYNC" /\ pc'[w] = "get"  BY <1>1, <1>4 DEF MarkLoading, TypeOK
  <2>. QED  BY <2>1, <2>2 DEF CInv, AsyncHasLoad, SyncHasLoader, Loaders
<1>5. CASE GetConst(w)
  <2>1. TileTypes'  BY <1>1, <1>5 DEF GetConst, TileTypes, TypeOK
  <2>. QED  BY <1>1, <1>5, <2>1, LoadsKept DEF GetConst, Loaders, TypeOK
<1>6. CASE MarkLoaded(w)
  <2>1. Registered \subseteq Observers  BY DEF Registered
  <2>2. TileTypes'
    BY <1>1, <1>6, <2>1 DEF MarkLoaded, AfterLoad, TileTypes, TypeOK, TileStates
  <2>3. state' = "NORMAL"  BY <1>6 DEF MarkLoaded, AfterLoad
  <2>. QED  BY <2>2, <2>3 DEF CInv, AsyncHasLoad, SyncHasLoader
<1>7. CASE Notify(w)
  <2>1. TileTypes'  BY <1>1, <1>7 DEF Notify, TileTypes, TypeOK
  <2>. QED  BY <1>1, <1>7, <2>1, LoadsKept DEF Notify, Loaders, TypeOK
<1>8. CASE DropSnapshot(w)
  <2>1. PICK o \in snapshot[w] :
          /\ snapshot' = [snapshot EXCEPT ![w] = snapshot[w] \ {o}]
          /\ DropObserver(w, o, life[o] = "owned", snapshot')
    BY <1>8 DEF DropSnapshot
  <2>2. o \in Observers  BY <1>1 DEF TypeOK
  <2>3. /\ deleted' \subseteq Queues /\ deleted \subseteq deleted'
        /\ waitq' \in [Workers \cup {UI} -> Queues \cup {0}]
        /\ life' \in [Observers -> {"new", "owned", "orphaned", "gone"}]
    BY <1>1, <2>1, <2>2, DropObserverTypes
  <2>4. TileTypes'  BY <1>1, <1>8, <2>1, <2>3 DEF DropSnapshot, TileTypes, TypeOK
  <2>. QED  BY <1>1, <1>8, <2>3, <2>4, LoadsKept DEF DropSnapshot
<1>9. CASE Notified(w)
  <2>1. TileTypes'  BY <1>1, <1>9 DEF Notified, TileTypes, TypeOK
  <2>. QED  BY <1>1, <1>9, <2>1, LoadsKept DEF Notified, Loaders, TypeOK
<1>10. CASE End(w)
  <2>1. TileTypes'  BY <1>1, <1>10 DEF End, TileTypes, TypeOK
  <2>. QED  BY <1>1, <1>10, <2>1, LoadsKept DEF End, Loaders, TypeOK
<1>11. CASE Fill(w)
  <2>1. TileTypes'  BY <1>1, <1>11 DEF Fill, TileTypes, TypeOK
  <2>. QED  BY <1>1, <1>11, <2>1, LoadsKept DEF Fill, Loaders, TypeOK
<1>12. CASE FillDone(w)
  <2>1. TileTypes'  BY <1>1, <1>12 DEF FillDone, TileTypes, TypeOK
  <2>. QED  BY <1>1, <1>12, <2>1, LoadsKept DEF FillDone, Loaders, TypeOK
<1>13. CASE Report(w)
  <2>1. Registered \subseteq Observers  BY DEF Registered
  <2>2. TileTypes'  BY <1>1, <1>13, <2>1 DEF Report, TileTypes, TypeOK
  <2>. QED  BY <1>1, <1>13, <2>2, LoadsKept DEF Report, Loaders, TypeOK
<1>14. CASE DeletionDone(w)
  <2>1. TileTypes'  BY <1>1, <1>14 DEF DeletionDone, TileTypes, TypeOK
  <2>. QED  BY <1>1, <1>14, <2>1, LoadsKept DEF DeletionDone
<1>. QED  BY <1>2, <1>3, <1>4, <1>5, <1>6, <1>7, <1>8, <1>9, <1>10, <1>11, <1>12, <1>13, <1>14
          DEF WorkerStep

LEMMA CInvNext == ASSUME CInv, [Next]_vars PROVE CInv'
<1>1. CASE UIStep \/ \E o \in Observers : Create(o) \/ Release(o)  BY <1>1, UIStepInv
<1>2. ASSUME NEW w \in Workers, WorkerStep(w) PROVE CInv'  BY <1>2, WorkerStepInv
<1>3. ASSUME NEW w \in Workers,
             (\E q \in Queues : StartLoad(w, q)) \/ (Idle(w) /\ (StartSync(w) \/ StartFill(w)))
      PROVE  CInv'
  <2>1. Idle(w)  BY <1>3 DEF StartLoad
  <2>. QED  BY <1>3, <2>1, StartInv
<1>4. CASE UNCHANGED vars
  <2>1. TileTypes'
    BY <1>4 DEF CInv, TileTypes, TypeOK, vars, tileVars, workerVars, obsVars
  <2>. QED  BY <1>4, <2>1, LoadsKept DEF vars, tileVars, workerVars
<1>. QED  BY <1>1, <1>2, <1>3, <1>4 DEF Next

\* While the state of a tile promises a load, there is one: an asynchronous one has
\* its job on a queue that somebody keeps alive or is between the two halves of
\* do_load(), a synchronous one has a thread that does it, whatever observers come
\* and go and whichever queue is thrown away meanwhile (observerAdded() and
\* do_load(), compressedtile.cc).
THEOREM AllIsWell == Spec => []TileIsRight
<1>1. CInv => TileIsRight
  <2>1. CInv => TypeOK  BY DEF CInv, TileTypes
  <2>2. CInv => AllWillBeWell
    BY DEF CInv, AsyncHasLoad, SyncHasLoader, Loaders, AllWillBeWell, Running
  <2>. QED  BY <2>1, <2>2 DEF TileIsRight
<1>2. Init => CInv  BY CInvInit
<1>3. CInv /\ [Next]_vars => CInv'  BY CInvNext
<1>. QED  BY <1>1, <1>2, <1>3, PTL DEF Spec

-----------------------------------------------------------------------------
(***************************************************************************)
(* TileViewState.                                                          *)
(***************************************************************************)

TileViews ==
    [state : INIT..DONE, desired : {LOADED, DONE}, queue : Nat, weakQueue : Nat,
     tile : Versions, zoom : Zooms \cup {0}, base : Versions,
     image : [tile : Versions, zoom : Zooms \cup {0}], life : BOOLEAN, made : Nat]

\* The members agree: the queue is the last that was made, or none; a state
\* promises the caches that come before it, and nothing else is left behind.
Consistent(s) ==
    /\ s \in TileViews
    /\ s.queue \in {0, s.made}
    /\ s.weakQueue = IF StoresWeakQueue THEN s.queue ELSE 0
    /\ s.state >= LOADED => s.tile # 0
    /\ s.state >= BASE_COMPUTED => s.base = s.tile
    /\ s.image = IF s.state >= ZOOM_COMPUTED THEN [tile |-> s.tile, zoom |-> s.zoom] ELSE NoImage

\* A change from s to r makes no difference to a computation that is wanted
\* after it.
Undisturbed(s, r) ==
    /\ r.made \in {s.made, s.made + 1}
    /\ r.weakQueue # 0 /\ r.weakQueue <= s.made
          => /\ r.weakQueue = s.weakQueue
             /\ s.state = COMPUTING_BASE => r.state = s.state /\ r.tile = s.tile
             /\ s.state = COMPUTING_ZOOM => /\ r.state = s.state /\ r.base = s.base
                                            /\ r.zoom = s.zoom

LEMMA KickedConsistent ==
    ASSUME NEW s, Consistent(s), NEW e
    PROVE  LET r == Kicked(s, e) IN
           /\ Consistent(r) /\ r.made \in {s.made, s.made + 1}
           /\ r.made = s.made => r = s
           /\ r.made = s.made + 1 => r.queue = r.made /\ e
           /\ r.weakQueue # 0 /\ r.weakQueue <= s.made => r = s
<1>. DEFINE wanted == s.state >= LOADED /\ s.desired >= s.state /\ s.queue = 0 /\ e
            r == [s EXCEPT !.queue = s.made + 1, !.made = s.made + 1,
                           !.weakQueue = IF StoresWeakQueue THEN s.made + 1 ELSE 0]
<1>1. Kicked(s, e) = IF wanted THEN r ELSE s
  BY DEF Kicked
<1>2. s \in TileViews /\ s.made \in Nat
  BY DEF Consistent, TileViews
<1>3. CASE ~wanted
  BY <1>1, <1>2, <1>3 DEF Consistent
<1>4. CASE wanted
  <2>1. r \in TileViews
    <3>1. s.made + 1 \in Nat /\ (IF StoresWeakQueue THEN s.made + 1 ELSE 0) \in Nat
      BY <1>2, StoresAssumption
    <3>. QED  BY <1>2, <3>1 DEF TileViews
  <2>2. /\ r.queue = s.made + 1 /\ r.made = s.made + 1
        /\ r.weakQueue = IF StoresWeakQueue THEN r.queue ELSE 0
        /\ r.state = s.state /\ r.tile = s.tile /\ r.base = s.base
        /\ r.zoom = s.zoom /\ r.image = s.image
    BY <1>2, StoresAssumption DEF TileViews
  <2>3. Consistent(r)
    BY <2>1, <2>2 DEF Consistent
  <2>4. r.weakQueue # 0 => r.weakQueue > s.made
    BY <1>2, <2>2
  <2>5. r.made # s.made
    BY <1>2, <2>2
  <2>. HIDE DEF r
  <2>. QED  BY <1>1, <1>2, <1>4, <2>2, <2>3, <2>4, <2>5
<1>. QED  BY <1>3, <1>4

LEMMA GivenUpConsistent ==
    ASSUME NEW s, Consistent(s)
    PROVE  LET r == QueueGivenUp(s) IN Consistent(r) /\ r.made = s.made /\ Undisturbed(s, r)
BY StoresAssumption DEF QueueGivenUp, Consistent, Undisturbed, TileViews, LOADED, DONE, INIT, BASE_COMPUTED, ZOOM_COMPUTED, COMPUTING_BASE, COMPUTING_ZOOM

\* Aborting and going back to an earlier state.
LEMMA AbortedConsistent ==
    ASSUME NEW s, Consistent(s), NEW st \in {INIT, LOADED, BASE_COMPUTED}, st <= s.state
    PROVE  LET r == [Aborted(s) EXCEPT !.state = st] IN
           /\ Consistent(r) /\ r.made = s.made /\ Undisturbed(s, r)
           /\ r.queue = 0 /\ r.weakQueue = 0 /\ r.state = st /\ r.image = NoImage
<1>. DEFINE r == [Aborted(s) EXCEPT !.state = st]
<1>1. NoImage \in [tile : Versions, zoom : Zooms \cup {0}]
  BY EventsAssumption DEF NoImage, Versions
<1>2. r \in TileViews
  <2>1. st \in INIT..DONE /\ 0 \in Nat
    BY DEF INIT, LOADED, BASE_COMPUTED, DONE
  <2>. QED  BY <1>1, <2>1 DEF Aborted, QueueGivenUp, Consistent, TileViews
<1>3. /\ r.queue = 0 /\ r.weakQueue = 0 /\ r.image = NoImage
      /\ r.state = st /\ r.tile = s.tile /\ r.base = s.base /\ r.made = s.made
  BY DEF Aborted, QueueGivenUp, Consistent, TileViews
<1>4. s.state \in INIT..DONE
  BY DEF Consistent, TileViews
<1>. HIDE DEF r
<1>5. Consistent(r)
  BY <1>2, <1>3, <1>4 DEF Consistent, LOADED, DONE, INIT, BASE_COMPUTED, ZOOM_COMPUTED, COMPUTING_BASE, COMPUTING_ZOOM
<1>6. Undisturbed(s, r)
  BY <1>3 DEF Undisturbed
<1>. QED  BY <1>3, <1>5, <1>6 DEF r
LEMMA LoadedConsistent ==
    ASSUME NEW s, Consistent(s), NEW v \in Versions \ {0}
    PROVE  LET r == Loaded(s, v) IN Consistent(r) /\ r.made = s.made /\ Undisturbed(s, r)
<1>. DEFINE a == IF s.state > LOADED THEN [Aborted(s) EXCEPT !.state = LOADED] ELSE s
            r == [a EXCEPT !.tile = v, !.state = LOADED]
<1>1. s \in TileViews /\ s.state \in INIT..DONE
  BY DEF Consistent, TileViews
<1>2. /\ Consistent(a) /\ a.made = s.made /\ a.image = NoImage
      /\ s.state > LOADED => a.weakQueue = 0
      /\ s.state <= LOADED => a = s
  <2>1. CASE s.state > LOADED
    <3>1. LOADED \in {INIT, LOADED, BASE_COMPUTED} /\ LOADED <= s.state /\ ~(s.state <= LOADED)
      BY <1>1, <2>1 DEF LOADED, DONE, INIT, BASE_COMPUTED, ZOOM_COMPUTED, COMPUTING_BASE, COMPUTING_ZOOM
    <3>. QED  BY <2>1, <3>1, AbortedConsistent
  <2>2. CASE ~(s.state > LOADED)
    BY <1>1, <2>2 DEF Consistent, LOADED, DONE, INIT, BASE_COMPUTED, ZOOM_COMPUTED, COMPUTING_BASE, COMPUTING_ZOOM
  <2>. QED  BY <2>1, <2>2
<1>3. Loaded(s, v) = r
  <2>1. CASE s.state > LOADED
    BY <2>1, <1>1 DEF Loaded, Aborted, QueueGivenUp, TileViews
  <2>2. CASE ~(s.state > LOADED)
    BY <2>2 DEF Loaded
  <2>. QED  BY <2>1, <2>2
<1>. HIDE DEF a
<1>4. r \in TileViews
  <2>1. LOADED \in INIT..DONE  BY DEF LOADED, DONE, INIT, BASE_COMPUTED, ZOOM_COMPUTED, COMPUTING_BASE, COMPUTING_ZOOM
  <2>. QED  BY <1>2, <2>1 DEF Consistent, TileViews
<1>5. /\ r.tile = v /\ r.state = LOADED /\ r.base = a.base /\ r.image = a.image /\ r.made = a.made
      /\ r.queue = a.queue /\ r.weakQueue = a.weakQueue
  BY <1>2 DEF Consistent, TileViews
<1>. HIDE DEF r
<1>6. Consistent(r)
  BY <1>2, <1>4, <1>5 DEF Consistent, LOADED, DONE, INIT, BASE_COMPUTED, ZOOM_COMPUTED, COMPUTING_BASE, COMPUTING_ZOOM
<1>7. Undisturbed(s, r)
  BY <1>1, <1>2, <1>5 DEF Undisturbed, LOADED, DONE, INIT, BASE_COMPUTED, ZOOM_COMPUTED, COMPUTING_BASE, COMPUTING_ZOOM
<1>. QED  BY <1>2, <1>3, <1>5, <1>6, <1>7

LEMMA ZoomedConsistent ==
    ASSUME NEW s, Consistent(s), NEW z \in Zooms
    PROVE  LET r == Zoomed(s, z) IN Consistent(r) /\ r.made = s.made /\ Undisturbed(s, r)
<1>1. s \in TileViews /\ s.state \in INIT..DONE /\ s.made \in Nat
  BY DEF Consistent, TileViews
<1>2. CASE s.desired = DONE /\ s.zoom = z
  BY <1>1, <1>2 DEF Zoomed, Undisturbed
<1>3. CASE ~(s.desired = DONE /\ s.zoom = z)
  <2>. DEFINE a == IF s.state >= BASE_COMPUTED THEN [Aborted(s) EXCEPT !.state = BASE_COMPUTED] ELSE s
              r == [a EXCEPT !.zoom = z, !.desired = DONE]
  <2>1. Zoomed(s, z) = r
    BY <1>3 DEF Zoomed
  <2>2. /\ Consistent(a) /\ a.made = s.made /\ a.image = NoImage /\ a.state <= BASE_COMPUTED
        /\ s.state >= BASE_COMPUTED => a.weakQueue = 0
        /\ s.state < BASE_COMPUTED => a = s
    <3>1. CASE s.state >= BASE_COMPUTED
      <4>1. BASE_COMPUTED \in {INIT, LOADED, BASE_COMPUTED} /\ BASE_COMPUTED <= s.state
            /\ BASE_COMPUTED <= BASE_COMPUTED /\ ~(s.state < BASE_COMPUTED)
        BY <1>1, <3>1 DEF LOADED, DONE, INIT, BASE_COMPUTED, ZOOM_COMPUTED, COMPUTING_BASE, COMPUTING_ZOOM
      <4>. QED  BY <3>1, <4>1, AbortedConsistent
    <3>2. CASE ~(s.state >= BASE_COMPUTED)
      BY <1>1, <3>2 DEF Consistent, LOADED, DONE, INIT, BASE_COMPUTED, ZOOM_COMPUTED, COMPUTING_BASE, COMPUTING_ZOOM
    <3>. QED  BY <3>1, <3>2
  <2>. HIDE DEF a
  <2>3. r \in TileViews
    BY <2>2 DEF Consistent, TileViews
  <2>4. /\ r.zoom = z /\ r.state = a.state /\ r.base = a.base /\ r.image = a.image /\ r.made = a.made
        /\ r.queue = a.queue /\ r.weakQueue = a.weakQueue /\ r.tile = a.tile
        /\ a.state \in INIT..DONE
    BY <2>2 DEF Consistent, TileViews
  <2>. HIDE DEF r
  <2>5. Consistent(r)
    BY <2>2, <2>3, <2>4 DEF Consistent, LOADED, DONE, INIT, BASE_COMPUTED, ZOOM_COMPUTED, COMPUTING_BASE, COMPUTING_ZOOM
  <2>6. Undisturbed(s, r)
    BY <1>1, <2>2, <2>4 DEF Undisturbed, LOADED, DONE, INIT, BASE_COMPUTED, ZOOM_COMPUTED, COMPUTING_BASE, COMPUTING_ZOOM
  <2>. QED  BY <2>1, <2>2, <2>4, <2>5, <2>6
<1>. QED  BY <1>2, <1>3

LEMMA ClearedConsistent ==
    ASSUME NEW s, Consistent(s)
    PROVE  LET r == Cleared(s) IN Consistent(r) /\ r.made = s.made /\ Undisturbed(s, r)
<1>. DEFINE st == IF s.state >= LOADED THEN LOADED ELSE s.state
            a == [Aborted(s) EXCEPT !.state = st]
            r == [a EXCEPT !.life = FALSE, !.base = 0]
<1>1. s \in TileViews /\ s.state \in INIT..DONE /\ s.made \in Nat
  BY DEF Consistent, TileViews
<1>2. Consistent(a) /\ a.made = s.made /\ a.state = st /\ a.weakQueue = 0 /\ a.image = NoImage
  <2>1. st \in {INIT, LOADED, BASE_COMPUTED} /\ st <= s.state
    BY <1>1 DEF LOADED, DONE, INIT, BASE_COMPUTED, ZOOM_COMPUTED, COMPUTING_BASE, COMPUTING_ZOOM
  <2>. HIDE DEF st
  <2>. QED  BY <2>1, AbortedConsistent
<1>3. Cleared(s) = r
  BY <1>1 DEF Cleared, Aborted, QueueGivenUp, TileViews
<1>. HIDE DEF a
<1>4. r \in TileViews
  <2>1. 0 \in Versions /\ FALSE \in BOOLEAN
    BY EventsAssumption DEF Versions
  <2>. QED  BY <1>2, <2>1 DEF Consistent, TileViews
<1>5. /\ r.tile = a.tile /\ r.state = a.state /\ r.image = a.image /\ r.made = a.made
      /\ r.queue = a.queue /\ r.weakQueue = a.weakQueue
  BY <1>2 DEF Consistent, TileViews
<1>. HIDE DEF r
<1>6. Consistent(r)
  BY <1>1, <1>2, <1>4, <1>5 DEF Consistent, LOADED, DONE, INIT, BASE_COMPUTED, ZOOM_COMPUTED, COMPUTING_BASE, COMPUTING_ZOOM
<1>. QED  BY <1>2, <1>3, <1>5, <1>6 DEF Undisturbed
-----------------------------------------------------------------------------
(* The invariant.                                                          *)

Places == {"idle", "set", "clear", "kicked", "loop", "base", "zoom", "report", "leave"}

ThreadTypes ==
    /\ mut \in Zoomers \cup {NoWorker}
    /\ processes \subseteq 1..tvs.made
    /\ doing \in [ViewThreads -> Places]
    /\ next \in [ViewThreads -> {"idle", "loop"}]
    /\ job \in [Zoomers -> [queue : Nat, tile : Versions, base : Versions, zoom : Zooms \cup {0}]]
    /\ view \in {"none", "open", "closed"}
    /\ holds \subseteq Zoomers
    /\ events \in Versions

InProcess(w) == doing[w] \in {"loop", "base", "zoom", "report", "leave"} \/ next[w] = "loop"

\* Each queue has one job, that is scheduled or was started by one worker.  If
\* the view still wants what a worker computes, nothing was changed since the
\* computation began.
JobFits(w) ==
    /\ job[w].queue <= tvs.made /\ job[w].queue \notin processes
    /\ InProcess(w) => job[w].queue # 0
    /\ doing[w] = "base" /\ job[w].queue = tvs.weakQueue
          => tvs.state = COMPUTING_BASE /\ job[w].tile = tvs.tile
    /\ doing[w] = "zoom" /\ job[w].queue = tvs.weakQueue
          => tvs.state = COMPUTING_ZOOM /\ job[w].base = tvs.base /\ job[w].zoom = tvs.zoom

JobsFit ==
    /\ \A w \in Zoomers : JobFits(w)
    /\ \A v, w \in Zoomers : v # w /\ job[v].queue = job[w].queue => job[w].queue = 0

\* What is cleared when the view data goes is not started again.
ClearsFit ==
    /\ view = "none" => holds = {}
    /\ \A t \in ViewThreads :
         doing[t] = "clear" =>
            \/ t = Viewer /\ view = "open"
            \/ view = "closed" /\ holds = {}

\* The user's requests, each for a queue or two, that kick() has yet to see.
ToKick == IF doing[Viewer] = "set" \/ (doing[Viewer] = "clear" /\ view = "open") THEN 1 ELSE 0

QueuesBounded == tvs.made + ToKick <= 2 * events

TInv == Consistent(tvs) /\ ThreadTypes /\ JobsFit /\ ClearsFit /\ QueuesBounded

-----------------------------------------------------------------------------
(* The jobs, in a step that starts or ends no computation.                 *)

LEMMA JobsKept ==
    ASSUME TInv, Consistent(tvs'), Undisturbed(tvs, tvs'), Kicks, UNCHANGED job,
           \A w \in Zoomers : /\ InProcess(w)' => InProcess(w)
                              /\ doing'[w] \in {"base", "zoom"} => doing'[w] = doing[w]
    PROVE  JobsFit' /\ processes' \subseteq 1..tvs'.made
<1>1. /\ tvs.made \in Nat /\ tvs.weakQueue \in Nat /\ tvs'.weakQueue \in Nat
      /\ tvs'.made \in {tvs.made, tvs.made + 1}
      /\ processes \subseteq 1..tvs.made
  BY DEF TInv, ThreadTypes, Consistent, TileViews, Undisturbed
<1>2. processes' \subseteq processes \cup {tvs'.made} /\ (tvs'.made = tvs.made => processes' = processes)
  BY DEF Kicks
<1>3. ASSUME NEW w \in Zoomers PROVE JobFits(w)'
  <2>1. job[w].queue \in Nat /\ job[w].queue <= tvs.made /\ job[w].queue \notin processes
    BY DEF TInv, ThreadTypes, JobsFit, JobFits
  <2>2. job'[w].queue <= tvs'.made /\ job'[w].queue \notin processes'
    BY <1>1, <1>2, <2>1
  <2>3. InProcess(w)' => job'[w].queue # 0
    BY DEF TInv, JobsFit, JobFits
  <2>4. ASSUME doing'[w] \in {"base", "zoom"}, job'[w].queue = tvs'.weakQueue
        PROVE  doing'[w] = doing[w] /\ tvs'.weakQueue # 0 /\ tvs'.weakQueue <= tvs.made
    BY <2>1, <2>3, <2>4 DEF InProcess
  <2>. QED  BY <2>2, <2>3, <2>4 DEF TInv, JobsFit, JobFits, Undisturbed
<1>4. JobsFit'
  BY <1>3 DEF TInv, JobsFit
<1>. QED  BY <1>1, <1>2, <1>4

LEMMA EventHappens == ASSUME TInv, Event
                      PROVE  events' = events + 1 /\ events \in Nat /\ events' \in Versions \ {0}
BY EventsAssumption DEF TInv, ThreadTypes, Event, Versions

\* A step that changes the members and then calls kick().
LEMMA KickStep ==
    ASSUME TInv, NEW s, NEW e, tvs' = Kicked(s, e), Consistent(s), s.made = tvs.made, Undisturbed(tvs, s)
    PROVE  /\ Consistent(tvs') /\ Undisturbed(tvs, tvs')
           /\ tvs'.made \in {tvs.made, tvs.made + 1} /\ (tvs'.made = tvs.made \/ e)
BY KickedConsistent DEF Undisturbed

-----------------------------------------------------------------------------
(* One lemma per action.                                                   *)

LEMMA ViewerIsNoZoomer == /\ Viewer \in ViewThreads
                 /\ \A w \in Zoomers : w \in ViewThreads /\ w # Viewer
BY ViewerAssumption DEF ViewThreads

\* The number of queues, without the record that it is a member of.
LEMMA Made == ASSUME TInv PROVE tvs.made \in Nat /\ events \in Nat /\ tvs \in TileViews
BY EventsAssumption DEF TInv, Consistent, TileViews, ThreadTypes, Versions

LEMMA UnlockInv == ASSUME TInv, NEW w \in Zoomers, Unlock(w) PROVE TInv'
<1>1. UNCHANGED <<tvs, processes, job>>
  BY DEF Unlock
<1>2. Consistent(tvs)' /\ Undisturbed(tvs, tvs') /\ Kicks
  BY <1>1 DEF TInv, Undisturbed, Kicks
<1>3. JobsFit' /\ processes' \subseteq 1..tvs'.made
  BY <1>1, <1>2, JobsKept, ViewerIsNoZoomer DEF Unlock, AfterDrop, InProcess, TInv, ThreadTypes, Places, ViewThreads
<1>4. ThreadTypes'
  BY <1>1, <1>3, ViewerIsNoZoomer, EventsAssumption DEF Unlock, AfterDrop, TInv, ThreadTypes, Places, ViewThreads, Versions
<1>5. ClearsFit'
  BY ViewerIsNoZoomer, NoWorkerAssumption DEF Unlock, AfterDrop, LastReference, ClearsFit, TInv, ThreadTypes, Places, ViewThreads
<1>6. QueuesBounded'
  BY <1>1, Made, ViewerIsNoZoomer DEF Unlock, AfterDrop, QueuesBounded, ToKick, TInv, ThreadTypes, Places, ViewThreads
<1>. QED  BY <1>2, <1>3, <1>4, <1>5, <1>6 DEF TInv

LEMMA ClearCachesInv == ASSUME TInv, ClearCaches PROVE TInv'
<1>1. UNCHANGED <<tvs, processes, job>>
  BY DEF ClearCaches
<1>2. Consistent(tvs)' /\ Undisturbed(tvs, tvs') /\ Kicks
  BY <1>1 DEF TInv, Undisturbed, Kicks
<1>3. JobsFit' /\ processes' \subseteq 1..tvs'.made
  BY <1>1, <1>2, JobsKept, ViewerIsNoZoomer DEF ClearCaches, Event, InProcess, TInv, ThreadTypes, Places, ViewThreads
<1>4. ThreadTypes'
  BY <1>1, <1>3, ViewerIsNoZoomer, EventsAssumption DEF ClearCaches, Event, TInv, ThreadTypes, Places, ViewThreads, Versions
<1>5. ClearsFit'
  <2>1. doing' = [doing EXCEPT ![Viewer] = "clear"] /\ view = "open" /\ UNCHANGED <<view, holds>>
    BY DEF ClearCaches
  <2>. QED  BY <2>1, ViewerIsNoZoomer DEF ClearsFit, TInv, ThreadTypes
<1>6. QueuesBounded'
  BY <1>1, Made, ViewerIsNoZoomer DEF ClearCaches, Event, QueuesBounded, ToKick, TInv, ThreadTypes, Places, ViewThreads
<1>. QED  BY <1>2, <1>3, <1>4, <1>5, <1>6 DEF TInv

LEMMA CloseInv == ASSUME TInv, Close PROVE TInv'
<1>1. UNCHANGED <<tvs, processes, job>>
  BY DEF Close
<1>2. Consistent(tvs)' /\ Undisturbed(tvs, tvs') /\ Kicks
  BY <1>1 DEF TInv, Undisturbed, Kicks
<1>3. JobsFit' /\ processes' \subseteq 1..tvs'.made
  BY <1>1, <1>2, JobsKept, ViewerIsNoZoomer DEF Close, AfterDrop, InProcess, TInv, ThreadTypes, Places, ViewThreads
<1>4. ThreadTypes'
  BY <1>1, <1>3, ViewerIsNoZoomer, EventsAssumption DEF Close, AfterDrop, TInv, ThreadTypes, Places, ViewThreads, Versions
<1>5. ClearsFit'
  BY ViewerIsNoZoomer, NoWorkerAssumption DEF Close, AfterDrop, LastReference, ClearsFit, TInv, ThreadTypes, Places, ViewThreads
<1>6. QueuesBounded'
  BY <1>1, Made, ViewerIsNoZoomer DEF Close, AfterDrop, QueuesBounded, ToKick, TInv, ThreadTypes, Places, ViewThreads
<1>. QED  BY <1>2, <1>3, <1>4, <1>5, <1>6 DEF TInv

LEMMA PanicInv == ASSUME TInv, NEW w \in Zoomers, Panic(w) PROVE TInv'
<1>1. UNCHANGED <<tvs, processes, job>>
  BY DEF Panic
<1>2. Consistent(tvs)' /\ Undisturbed(tvs, tvs') /\ Kicks
  BY <1>1 DEF TInv, Undisturbed, Kicks
<1>3. JobsFit' /\ processes' \subseteq 1..tvs'.made
  BY <1>1, <1>2, JobsKept, ViewerIsNoZoomer DEF Panic, Iterates, AfterDrop, InProcess, TInv, ThreadTypes, Places, ViewThreads
<1>4. ThreadTypes'
  BY <1>1, <1>3, ViewerIsNoZoomer, EventsAssumption DEF Panic, Iterates, AfterDrop, TInv, ThreadTypes, Places, ViewThreads, Versions
<1>5. ClearsFit'
  BY ViewerIsNoZoomer, NoWorkerAssumption DEF Panic, Iterates, AfterDrop, LastReference, ClearsFit, TInv, ThreadTypes, Places, ViewThreads
<1>6. QueuesBounded'
  BY <1>1, Made, ViewerIsNoZoomer DEF Panic, Iterates, AfterDrop, QueuesBounded, ToKick, TInv, ThreadTypes, Places, ViewThreads
<1>. QED  BY <1>2, <1>3, <1>4, <1>5, <1>6 DEF TInv

LEMMA ReportDoneInv == ASSUME TInv, NEW w \in Zoomers, ReportDone(w) PROVE TInv'
<1>1. UNCHANGED <<tvs, processes, job>>
  BY DEF ReportDone
<1>2. Consistent(tvs)' /\ Undisturbed(tvs, tvs') /\ Kicks
  BY <1>1 DEF TInv, Undisturbed, Kicks
<1>3. JobsFit' /\ processes' \subseteq 1..tvs'.made
  BY <1>1, <1>2, JobsKept, ViewerIsNoZoomer DEF ReportDone, AfterDrop, InProcess, TInv, ThreadTypes, Places, ViewThreads
<1>4. ThreadTypes'
  BY <1>1, <1>3, ViewerIsNoZoomer, EventsAssumption DEF ReportDone, AfterDrop, TInv, ThreadTypes, Places, ViewThreads, Versions
<1>5. ClearsFit'
  BY ViewerIsNoZoomer, NoWorkerAssumption DEF ReportDone, AfterDrop, LastReference, ClearsFit, TInv, ThreadTypes, Places, ViewThreads
<1>6. QueuesBounded'
  BY <1>1, Made, ViewerIsNoZoomer DEF ReportDone, AfterDrop, QueuesBounded, ToKick, TInv, ThreadTypes, Places, ViewThreads
<1>. QED  BY <1>2, <1>3, <1>4, <1>5, <1>6 DEF TInv

LEMMA LeaveInv == ASSUME TInv, NEW w \in Zoomers, Leave(w) PROVE TInv'
<1>1. UNCHANGED <<tvs, processes, job>>
  BY DEF Leave
<1>2. Consistent(tvs)' /\ Undisturbed(tvs, tvs') /\ Kicks
  BY <1>1 DEF TInv, Undisturbed, Kicks
<1>3. JobsFit' /\ processes' \subseteq 1..tvs'.made
  BY <1>1, <1>2, JobsKept, ViewerIsNoZoomer DEF Leave, AfterDrop, InProcess, TInv, ThreadTypes, Places, ViewThreads
<1>4. ThreadTypes'
  BY <1>1, <1>3, ViewerIsNoZoomer, EventsAssumption DEF Leave, AfterDrop, TInv, ThreadTypes, Places, ViewThreads, Versions
<1>5. ClearsFit'
  BY ViewerIsNoZoomer, NoWorkerAssumption DEF Leave, AfterDrop, LastReference, ClearsFit, TInv, ThreadTypes, Places, ViewThreads
<1>6. QueuesBounded'
  BY <1>1, Made, ViewerIsNoZoomer DEF Leave, AfterDrop, QueuesBounded, ToKick, TInv, ThreadTypes, Places, ViewThreads
<1>. QED  BY <1>2, <1>3, <1>4, <1>5, <1>6 DEF TInv

LEMMA SetViewDataInv == ASSUME TInv, SetViewData PROVE TInv'
<1>. DEFINE s == [tvs EXCEPT !.life = TRUE]
<1>1. tvs' = Kicked(s, TRUE) /\ Kicks /\ UNCHANGED job
  BY DEF SetViewData
<1>2. Consistent(s) /\ s.made = tvs.made /\ Undisturbed(tvs, s)
  BY Made DEF TInv, Consistent, Undisturbed, TileViews
<1>. HIDE DEF s
<1>3. /\ Consistent(tvs)' /\ Undisturbed(tvs, tvs')
      /\ tvs'.made \in {tvs.made, tvs.made + 1} /\ (tvs'.made = tvs.made \/ TRUE)
  BY <1>1, <1>2, KickStep
<1>4. JobsFit' /\ processes' \subseteq 1..tvs'.made
  BY <1>1, <1>3, JobsKept, ViewerIsNoZoomer DEF SetViewData, Event, InProcess, TInv, ThreadTypes, Places
<1>5. ThreadTypes'
  BY <1>1, <1>4, ViewerIsNoZoomer, EventHappens DEF SetViewData, TInv, ThreadTypes, Places, Versions
<1>6. ClearsFit'
  BY ViewerIsNoZoomer, NoWorkerAssumption DEF SetViewData, Event, ClearsFit, ViewExists, TInv, ThreadTypes, Places
<1>7. QueuesBounded'
  <2>1. ToKick = 0 /\ ToKick' = 1
    BY ViewerIsNoZoomer DEF SetViewData, ToKick, TInv, ThreadTypes
  <2>2. events' = events + 1
    BY EventHappens DEF SetViewData
  <2>. QED  BY <1>3, <2>1, <2>2, Made DEF QueuesBounded, TInv
<1>. QED  BY <1>3, <1>4, <1>5, <1>6, <1>7 DEF TInv

LEMMA ClearInv == ASSUME TInv, NEW t \in ViewThreads, Clear(t) PROVE TInv'
<1>. DEFINE s == Cleared(tvs)
<1>1. tvs' = Kicked(s, ViewExists) /\ Kicks /\ UNCHANGED job
  BY DEF Clear
<1>2. Consistent(s) /\ s.made = tvs.made /\ Undisturbed(tvs, s)
  BY ClearedConsistent DEF TInv
<1>. HIDE DEF s
<1>3. /\ Consistent(tvs)' /\ Undisturbed(tvs, tvs')
      /\ tvs'.made \in {tvs.made, tvs.made + 1} /\ (tvs'.made = tvs.made \/ ViewExists)
  BY <1>1, <1>2, KickStep
<1>4. JobsFit' /\ processes' \subseteq 1..tvs'.made
  BY <1>1, <1>3, JobsKept, ViewerIsNoZoomer DEF Clear, InProcess, TInv, ThreadTypes, Places
<1>5. ThreadTypes'
  BY <1>1, <1>4, ViewerIsNoZoomer, EventsAssumption DEF Clear, TInv, ThreadTypes, Places, Versions
<1>6. ClearsFit'
  BY ViewerIsNoZoomer, NoWorkerAssumption DEF Clear, ClearsFit, ViewExists, TInv, ThreadTypes, Places
<1>7. QueuesBounded'
  BY <1>1, <1>3, Made, ViewerIsNoZoomer DEF Clear, QueuesBounded, ToKick, ViewExists, ClearsFit, TInv, ThreadTypes, Places
<1>. QED  BY <1>3, <1>4, <1>5, <1>6, <1>7 DEF TInv

LEMMA TileLoadedInv == ASSUME TInv, NEW w \in Zoomers, TileLoaded(w) PROVE TInv'
<1>. DEFINE s == Loaded(tvs, events')
<1>1. tvs' = Kicked(s, ViewExists) /\ Kicks /\ UNCHANGED job
  BY DEF TileLoaded
<1>2. Consistent(s) /\ s.made = tvs.made /\ Undisturbed(tvs, s)
  BY LoadedConsistent, EventHappens DEF TInv, TileLoaded
<1>. HIDE DEF s
<1>3. /\ Consistent(tvs)' /\ Undisturbed(tvs, tvs')
      /\ tvs'.made \in {tvs.made, tvs.made + 1} /\ (tvs'.made = tvs.made \/ ViewExists)
  BY <1>1, <1>2, KickStep
<1>4. JobsFit' /\ processes' \subseteq 1..tvs'.made
  BY <1>1, <1>3, JobsKept, ViewerIsNoZoomer DEF TileLoaded, Event, Locks, InProcess, TInv, ThreadTypes, Places
<1>5. ThreadTypes'
  BY <1>1, <1>4, ViewerIsNoZoomer, EventHappens DEF TileLoaded, Locks, TInv, ThreadTypes, Places, Versions
<1>6. ClearsFit'
  BY ViewerIsNoZoomer, NoWorkerAssumption DEF TileLoaded, Locks, ClearsFit, ViewExists, TInv, ThreadTypes, Places
<1>7. QueuesBounded'
  BY <1>1, <1>3, Made, ViewerIsNoZoomer, EventHappens DEF TileLoaded, Locks, QueuesBounded, ToKick, ViewExists, ClearsFit, TInv, ThreadTypes, Places
<1>. QED  BY <1>3, <1>4, <1>5, <1>6, <1>7 DEF TInv

LEMMA SetZoomInv == ASSUME TInv, NEW z \in Zooms, SetZoom(z) PROVE TInv'
<1>1. /\ Consistent(tvs)' /\ Undisturbed(tvs, tvs')
      /\ tvs'.made \in {tvs.made, tvs.made + 1}
  <2>. DEFINE s == Zoomed(tvs, z)
  <2>1. Consistent(s) /\ s.made = tvs.made /\ Undisturbed(tvs, s)
    BY ZoomedConsistent DEF TInv
  <2>2. tvs' = (IF s = tvs THEN tvs ELSE Kicked(s, TRUE))
    BY DEF SetZoom
  <2>. HIDE DEF s
  <2>3. CASE s = tvs
    BY <2>1, <2>2, <2>3
  <2>4. CASE s # tvs
    BY <2>1, <2>2, <2>4, KickStep
  <2>. QED  BY <2>3, <2>4
<1>2. JobsFit' /\ processes' \subseteq 1..tvs'.made
  BY <1>1, JobsKept, ViewerIsNoZoomer DEF SetZoom, InProcess, TInv, ThreadTypes, Places
<1>3. ThreadTypes'
  BY <1>1, <1>2, ViewerIsNoZoomer DEF SetZoom, TInv, ThreadTypes, Places
<1>4. ClearsFit'
  BY ViewerIsNoZoomer DEF SetZoom, ClearsFit, TInv, ThreadTypes, Places
<1>5. QueuesBounded'
  <2>1. ToKick = 1 /\ ToKick' = 0 /\ events' = events
    BY ViewerIsNoZoomer DEF SetZoom, ToKick, TInv, ThreadTypes
  <2>. QED  BY <1>1, <2>1, Made DEF QueuesBounded, TInv
<1>. QED  BY <1>1, <1>2, <1>3, <1>4, <1>5 DEF TInv

LEMMA FinishInv == ASSUME TInv, NEW w \in Zoomers, Finish(w) PROVE TInv'
<1>1. /\ Consistent(tvs)' /\ Undisturbed(tvs, tvs') /\ tvs'.made = tvs.made /\ Kicks
  <2>. DEFINE s == QueueGivenUp(tvs)
  <2>1. Consistent(s) /\ s.made = tvs.made /\ Undisturbed(tvs, s)
    BY GivenUpConsistent DEF TInv
  <2>2. tvs' = (IF job[w].queue = tvs.weakQueue THEN s ELSE tvs) /\ processes' = processes
    BY DEF Finish
  <2>3. Consistent(tvs) /\ Undisturbed(tvs, tvs)
    BY DEF TInv, Undisturbed
  <2>. HIDE DEF s
  <2>. QED  BY <2>1, <2>2, <2>3 DEF Kicks
<1>2. JobsFit' /\ processes' \subseteq 1..tvs'.made
  BY <1>1, JobsKept, ViewerIsNoZoomer DEF Finish, InProcess, TInv, ThreadTypes, Places
<1>3. ThreadTypes'
  BY <1>1, <1>2, ViewerIsNoZoomer DEF Finish, TInv, ThreadTypes, Places
<1>4. ClearsFit'
  BY ViewerIsNoZoomer DEF Finish, ClearsFit, TInv, ThreadTypes, Places
<1>5. QueuesBounded'
  BY <1>1, Made, ViewerIsNoZoomer DEF Finish, QueuesBounded, ToKick, TInv, ThreadTypes, Places
<1>. QED  BY <1>1, <1>2, <1>3, <1>4, <1>5 DEF TInv

LEMMA StartProcessInv ==
    ASSUME TInv, NEW w \in Zoomers, NEW q \in processes, StartProcess(w, q) PROVE TInv'
<1>1. q \in Nat \ {0} /\ q <= tvs.made /\ UNCHANGED tvs
  BY Made DEF StartProcess, TInv, ThreadTypes
<1>2. Consistent(tvs)'
  BY <1>1 DEF TInv
<1>3. \/ job' = job /\ doing' = doing
      \/ job' = [job EXCEPT ![w] = [NoJob EXCEPT !.queue = q]] /\ doing' = [doing EXCEPT ![w] = "loop"]
  BY DEF StartProcess
<1>4. /\ job' \in [Zoomers -> [queue : Nat, tile : Versions, base : Versions, zoom : Zooms \cup {0}]]
      /\ \A v \in Zoomers : v # w => job'[v] = job[v]
      /\ job'[w] = job[w] \/ job'[w].queue = q
  <2>1. [NoJob EXCEPT !.queue = q] \in [queue : Nat, tile : Versions, base : Versions, zoom : Zooms \cup {0}]
    BY <1>1, EventsAssumption DEF NoJob, Versions
  <2>2. [NoJob EXCEPT !.queue = q].queue = q
    BY DEF NoJob
  <2>. QED  BY <1>3, <2>1, <2>2 DEF TInv, ThreadTypes
<1>5. ThreadTypes'
  BY <1>1, <1>3, <1>4, ViewerIsNoZoomer DEF StartProcess, TInv, ThreadTypes, Places
<1>6. JobsFit'
  <2>1. \A v \in Zoomers : job[v].queue # q /\ job[v].queue \notin processes
    BY DEF TInv, JobsFit, JobFits
  <2>2. processes' = processes \ {q}
    BY DEF StartProcess
  <2>3. \A u, v \in Zoomers : u # v /\ job'[u].queue = job'[v].queue => job'[v].queue = 0
    BY <1>4, <2>1 DEF TInv, JobsFit
  <2>4. ASSUME NEW v \in Zoomers, v # w PROVE JobFits(v)'
    <3>1. doing'[v] = doing[v] /\ next'[v] = next[v] /\ job'[v] = job[v]
      BY <1>3, <1>4, <2>4, ViewerIsNoZoomer DEF StartProcess, TInv, ThreadTypes
    <3>. QED  BY <1>1, <2>2, <3>1 DEF TInv, JobsFit, JobFits, InProcess
  <2>5. JobFits(w)'
    <3>1. CASE job' = job /\ doing' = doing
      BY <1>1, <2>2, <3>1 DEF StartProcess, TInv, JobsFit, JobFits, InProcess
    <3>2. CASE job'[w].queue = q /\ doing'[w] = "loop"
      BY <1>1, <2>2, <3>2 DEF JobFits, InProcess
    <3>. QED  BY <1>3, <1>4, <3>1, <3>2, ViewerIsNoZoomer DEF TInv, ThreadTypes, NoJob
  <2>. QED  BY <2>3, <2>4, <2>5 DEF JobsFit
<1>7. ClearsFit'
  BY <1>3, ViewerIsNoZoomer DEF StartProcess, ClearsFit, TInv, ThreadTypes, Places
<1>8. QueuesBounded'
  BY <1>1, <1>3, Made, ViewerIsNoZoomer DEF StartProcess, QueuesBounded, ToKick, TInv, ThreadTypes, Places
<1>. QED  BY <1>2, <1>5, <1>6, <1>7, <1>8 DEF TInv

\* In process(), a worker changes the members only as long as it has the queue,
\* so that what other workers compute is not wanted anyway.
LEMMA ProcessStep ==
    ASSUME TInv, NEW w \in Zoomers, InProcess(w),
           Consistent(tvs)', tvs'.made = tvs.made, tvs'.weakQueue = tvs.weakQueue,
           tvs' = tvs \/ tvs.weakQueue = job[w].queue,
           UNCHANGED processes,
           \A v \in Zoomers : v # w => UNCHANGED <<job[v], doing[v], next[v]>>,
           job'[w].queue = job[w].queue, JobFits(w)'
    PROVE  JobsFit'
<1>1. ASSUME NEW v \in Zoomers, v # w PROVE JobFits(v)'
  <2>1. JobFits(v) /\ UNCHANGED <<job[v], doing[v], next[v]>>
    BY <1>1 DEF TInv, JobsFit
  <2>2. tvs' # tvs => job[v].queue # tvs'.weakQueue
    BY <1>1 DEF TInv, JobsFit, JobFits
  <2>. QED  BY <2>1, <2>2 DEF JobFits, InProcess
<1>2. \A u, v \in Zoomers : u # v /\ job'[u].queue = job'[v].queue => job'[v].queue = 0
  BY DEF TInv, JobsFit
<1>. QED  BY <1>1, <1>2 DEF JobsFit

LEMMA StartBaseInv == ASSUME TInv, NEW w \in Zoomers, StartBase(w) PROVE TInv'
<1>1. /\ tvs.state = LOADED /\ job[w].queue = tvs.weakQueue /\ doing[w] = "loop"
      /\ tvs' = [tvs EXCEPT !.state = COMPUTING_BASE]
      /\ job' = [job EXCEPT ![w].tile = tvs.tile]
      /\ doing' = [doing EXCEPT ![w] = "base"]
      /\ UNCHANGED <<mut, processes, next, view, holds, events>>
  BY DEF StartBase, Iterates
<1>2. /\ tvs' \in TileViews /\ tvs'.state = COMPUTING_BASE
      /\ tvs'.tile = tvs.tile /\ tvs'.base = tvs.base /\ tvs'.zoom = tvs.zoom /\ tvs'.image = tvs.image
      /\ tvs'.queue = tvs.queue /\ tvs'.weakQueue = tvs.weakQueue /\ tvs'.made = tvs.made
  BY <1>1, Made DEF TileViews, LOADED, DONE, INIT, BASE_COMPUTED, ZOOM_COMPUTED, COMPUTING_BASE, COMPUTING_ZOOM
<1>3. Consistent(tvs)'
  BY <1>1, <1>2 DEF TInv, Consistent, LOADED, DONE, INIT, BASE_COMPUTED, ZOOM_COMPUTED, COMPUTING_BASE, COMPUTING_ZOOM
<1>4. /\ job' \in [Zoomers -> [queue : Nat, tile : Versions, base : Versions, zoom : Zooms \cup {0}]]
      /\ \A v \in Zoomers : v # w => job'[v] = job[v]
      /\ job'[w].queue = job[w].queue /\ job'[w].tile = tvs.tile
      /\ job'[w].base = job[w].base
  BY <1>1, Made DEF TInv, ThreadTypes, TileViews
<1>5. ThreadTypes'
  BY <1>1, <1>2, <1>4, ViewerIsNoZoomer DEF TInv, ThreadTypes, Places
<1>6. JobFits(w) /\ InProcess(w)
  BY <1>1 DEF InProcess, TInv, JobsFit
<1>7. JobFits(w)'
  BY <1>1, <1>2, <1>4, <1>6, ViewerIsNoZoomer DEF JobFits, InProcess, TInv, ThreadTypes
<1>8. JobsFit'
  BY <1>1, <1>2, <1>3, <1>4, <1>6, <1>7, ProcessStep, ViewerIsNoZoomer DEF TInv, ThreadTypes
<1>9. ClearsFit'
  BY <1>1, ViewerIsNoZoomer DEF ClearsFit, TInv, ThreadTypes, Places
<1>10. QueuesBounded'
  BY <1>1, <1>2, Made, ViewerIsNoZoomer DEF QueuesBounded, ToKick, TInv, ThreadTypes, Places
<1>. QED  BY <1>3, <1>5, <1>8, <1>9, <1>10 DEF TInv

LEMMA StartZoomInv == ASSUME TInv, NEW w \in Zoomers, StartZoom(w) PROVE TInv'
<1>1. /\ tvs.state = BASE_COMPUTED /\ job[w].queue = tvs.weakQueue /\ doing[w] = "loop"
      /\ tvs' = [tvs EXCEPT !.state = COMPUTING_ZOOM]
      /\ job' = [job EXCEPT ![w].tile = tvs.tile, ![w].base = tvs.base, ![w].zoom = tvs.zoom]
      /\ doing' = [doing EXCEPT ![w] = "zoom"]
      /\ UNCHANGED <<mut, processes, next, view, holds, events>>
  BY DEF StartZoom, Iterates
<1>2. /\ tvs' \in TileViews /\ tvs'.state = COMPUTING_ZOOM
      /\ tvs'.tile = tvs.tile /\ tvs'.base = tvs.base /\ tvs'.zoom = tvs.zoom /\ tvs'.image = tvs.image
      /\ tvs'.queue = tvs.queue /\ tvs'.weakQueue = tvs.weakQueue /\ tvs'.made = tvs.made
  BY <1>1, Made DEF TileViews, LOADED, DONE, INIT, BASE_COMPUTED, ZOOM_COMPUTED, COMPUTING_BASE, COMPUTING_ZOOM
<1>3. Consistent(tvs)'
  BY <1>1, <1>2 DEF TInv, Consistent, LOADED, DONE, INIT, BASE_COMPUTED, ZOOM_COMPUTED, COMPUTING_BASE, COMPUTING_ZOOM
<1>4. /\ job' \in [Zoomers -> [queue : Nat, tile : Versions, base : Versions, zoom : Zooms \cup {0}]]
      /\ \A v \in Zoomers : v # w => job'[v] = job[v]
      /\ job'[w].queue = job[w].queue /\ job'[w].tile = tvs.tile
      /\ job'[w].base = tvs.base /\ job'[w].zoom = tvs.zoom
  <2>. DEFINE j == [job[w] EXCEPT !.tile = tvs.tile, !.base = tvs.base, !.zoom = tvs.zoom]
  <2>1. job' = [job EXCEPT ![w] = j]
    BY <1>1 DEF TInv, ThreadTypes
  <2>2. /\ j \in [queue : Nat, tile : Versions, base : Versions, zoom : Zooms \cup {0}]
        /\ j.queue = job[w].queue /\ j.tile = tvs.tile /\ j.base = tvs.base /\ j.zoom = tvs.zoom
    <3>1. tvs.tile \in Versions /\ tvs.base \in Versions /\ tvs.zoom \in Zooms \cup {0}
      BY Made DEF TileViews
    <3>2. job[w] \in [queue : Nat, tile : Versions, base : Versions, zoom : Zooms \cup {0}]
      BY DEF TInv, ThreadTypes
    <3>. QED  BY <3>1, <3>2
  <2>. HIDE DEF j
  <2>. QED  BY <2>1, <2>2 DEF TInv, ThreadTypes
<1>5. ThreadTypes'
  BY <1>1, <1>2, <1>4, ViewerIsNoZoomer DEF TInv, ThreadTypes, Places
<1>6. JobFits(w) /\ InProcess(w)
  BY <1>1 DEF InProcess, TInv, JobsFit
<1>7. JobFits(w)'
  BY <1>1, <1>2, <1>4, <1>6, ViewerIsNoZoomer DEF JobFits, InProcess, TInv, ThreadTypes
<1>8. JobsFit'
  BY <1>1, <1>2, <1>3, <1>4, <1>6, <1>7, ProcessStep, ViewerIsNoZoomer DEF TInv, ThreadTypes
<1>9. ClearsFit'
  BY <1>1, ViewerIsNoZoomer DEF ClearsFit, TInv, ThreadTypes, Places
<1>10. QueuesBounded'
  BY <1>1, <1>2, Made, ViewerIsNoZoomer DEF QueuesBounded, ToKick, TInv, ThreadTypes, Places
<1>. QED  BY <1>3, <1>5, <1>8, <1>9, <1>10 DEF TInv

LEMMA StartReportInv == ASSUME TInv, NEW w \in Zoomers, StartReport(w) PROVE TInv'
<1>1. /\ tvs.state = ZOOM_COMPUTED /\ job[w].queue = tvs.weakQueue /\ doing[w] = "loop"
      /\ tvs' = [tvs EXCEPT !.state = DONE]
      /\ holds' = IF ViewExists THEN holds \cup {w} ELSE holds
      /\ doing' = [doing EXCEPT ![w] = "report"]
      /\ UNCHANGED <<mut, processes, next, job, view, events>>
  BY DEF StartReport, Iterates
<1>2. /\ tvs' \in TileViews /\ tvs'.state = DONE
      /\ tvs'.tile = tvs.tile /\ tvs'.base = tvs.base /\ tvs'.zoom = tvs.zoom /\ tvs'.image = tvs.image
      /\ tvs'.queue = tvs.queue /\ tvs'.weakQueue = tvs.weakQueue /\ tvs'.made = tvs.made
  BY <1>1, Made DEF TileViews, LOADED, DONE, INIT, BASE_COMPUTED, ZOOM_COMPUTED, COMPUTING_BASE, COMPUTING_ZOOM
<1>3. Consistent(tvs)'
  BY <1>1, <1>2 DEF TInv, Consistent, LOADED, DONE, INIT, BASE_COMPUTED, ZOOM_COMPUTED, COMPUTING_BASE, COMPUTING_ZOOM
<1>4. Undisturbed(tvs, tvs') /\ Kicks
  BY <1>1, <1>2 DEF Undisturbed, Kicks, LOADED, DONE, INIT, BASE_COMPUTED, ZOOM_COMPUTED, COMPUTING_BASE, COMPUTING_ZOOM
<1>5. JobsFit'
  BY <1>1, <1>3, <1>4, JobsKept, ViewerIsNoZoomer DEF InProcess, TInv, ThreadTypes, Places
<1>6. ThreadTypes'
  BY <1>1, <1>2, ViewerIsNoZoomer DEF TInv, ThreadTypes, Places
<1>7. ClearsFit'
  BY <1>1, ViewerIsNoZoomer DEF ClearsFit, ViewExists, TInv, ThreadTypes, Places
<1>8. QueuesBounded'
  BY <1>1, <1>2, Made, ViewerIsNoZoomer DEF QueuesBounded, ToKick, TInv, ThreadTypes, Places
<1>. QED  BY <1>3, <1>5, <1>6, <1>7, <1>8 DEF TInv

LEMMA ComputeBaseInv == ASSUME TInv, NEW w \in Zoomers, ComputeBase(w) PROVE TInv'
<1>1. /\ doing[w] = "base" /\ Locks(w)
      /\ doing' = [doing EXCEPT ![w] = "kicked"] /\ next' = [next EXCEPT ![w] = "loop"]
      /\ UNCHANGED <<processes, job, view, events>>
      /\ \/ tvs' = tvs
         \/ StillWanted(w) /\ tvs' = [tvs EXCEPT !.base = job[w].tile, !.state = BASE_COMPUTED]
  BY DEF ComputeBase
<1>2. JobFits(w) /\ InProcess(w)
  BY <1>1 DEF InProcess, TInv, JobsFit
<1>3. /\ Consistent(tvs)' /\ tvs'.made = tvs.made /\ tvs'.weakQueue = tvs.weakQueue
      /\ tvs' = tvs \/ tvs.weakQueue = job[w].queue
  <2>1. CASE tvs' = tvs
    BY <2>1 DEF TInv
  <2>2. CASE StillWanted(w) /\ tvs' = [tvs EXCEPT !.base = job[w].tile, !.state = BASE_COMPUTED]
    <3>1. /\ tvs.weakQueue = job[w].queue /\ tvs.state = COMPUTING_BASE
          /\ job[w].tile = tvs.tile
      BY <1>1, <1>2, <2>2 DEF JobFits, StillWanted
    <3>2. job[w].tile \in Versions /\ job[w].base \in Versions /\ job[w].zoom \in Zooms \cup {0}
      BY DEF TInv, ThreadTypes
    <3>3. /\ tvs' \in TileViews /\ tvs'.state = BASE_COMPUTED
          /\ tvs'.base = job[w].tile /\ tvs'.image = tvs.image
          /\ tvs'.tile = tvs.tile /\ tvs'.zoom = tvs.zoom
          /\ tvs'.queue = tvs.queue /\ tvs'.weakQueue = tvs.weakQueue /\ tvs'.made = tvs.made
      <4>1. BASE_COMPUTED \in INIT..DONE
        BY DEF INIT, BASE_COMPUTED, DONE
      <4>2. tvs \in TileViews
        BY Made
      <4>. QED  BY <2>2, <3>2, <4>1, <4>2 DEF TileViews
    <3>4. Consistent(tvs)'
      BY <3>1, <3>3 DEF TInv, Consistent, LOADED, DONE, INIT, BASE_COMPUTED, ZOOM_COMPUTED, COMPUTING_BASE, COMPUTING_ZOOM
    <3>. QED  BY <3>1, <3>3, <3>4
  <2>. QED  BY <1>1, <2>1, <2>2
<1>4. JobFits(w)'
  BY <1>1, <1>2, <1>3, ViewerIsNoZoomer DEF JobFits, InProcess, TInv, ThreadTypes
<1>5. JobsFit'
  BY <1>1, <1>2, <1>3, <1>4, ProcessStep, ViewerIsNoZoomer DEF TInv, ThreadTypes
<1>6. ThreadTypes'
  BY <1>1, <1>3, ViewerIsNoZoomer DEF Locks, TInv, ThreadTypes, Places
<1>7. ClearsFit'
  BY <1>1, ViewerIsNoZoomer DEF Locks, ClearsFit, ViewExists, TInv, ThreadTypes, Places
<1>8. QueuesBounded'
  BY <1>1, <1>3, Made, ViewerIsNoZoomer DEF QueuesBounded, ToKick, TInv, ThreadTypes, Places
<1>. QED  BY <1>3, <1>5, <1>6, <1>7, <1>8 DEF TInv

LEMMA ComputeZoomInv == ASSUME TInv, NEW w \in Zoomers, ComputeZoom(w) PROVE TInv'
<1>1. /\ doing[w] = "zoom" /\ Locks(w)
      /\ doing' = [doing EXCEPT ![w] = "kicked"] /\ next' = [next EXCEPT ![w] = "loop"]
      /\ UNCHANGED <<processes, job, view, events>>
      /\ \/ tvs' = tvs
         \/ StillWanted(w) /\ tvs' = [tvs EXCEPT !.image = [tile |-> job[w].base, zoom |-> job[w].zoom], !.state = ZOOM_COMPUTED]
  BY DEF ComputeZoom
<1>2. JobFits(w) /\ InProcess(w)
  BY <1>1 DEF InProcess, TInv, JobsFit
<1>3. /\ Consistent(tvs)' /\ tvs'.made = tvs.made /\ tvs'.weakQueue = tvs.weakQueue
      /\ tvs' = tvs \/ tvs.weakQueue = job[w].queue
  <2>1. CASE tvs' = tvs
    BY <2>1 DEF TInv
  <2>2. CASE StillWanted(w) /\ tvs' = [tvs EXCEPT !.image = [tile |-> job[w].base, zoom |-> job[w].zoom], !.state = ZOOM_COMPUTED]
    <3>1. /\ tvs.weakQueue = job[w].queue /\ tvs.state = COMPUTING_ZOOM
          /\ job[w].base = tvs.base /\ job[w].zoom = tvs.zoom
      BY <1>1, <1>2, <2>2 DEF JobFits, StillWanted
    <3>2. job[w].tile \in Versions /\ job[w].base \in Versions /\ job[w].zoom \in Zooms \cup {0}
      BY DEF TInv, ThreadTypes
    <3>3. /\ tvs' \in TileViews /\ tvs'.state = ZOOM_COMPUTED
          /\ tvs'.base = tvs.base /\ tvs'.image = [tile |-> job[w].base, zoom |-> job[w].zoom]
          /\ tvs'.tile = tvs.tile /\ tvs'.zoom = tvs.zoom
          /\ tvs'.queue = tvs.queue /\ tvs'.weakQueue = tvs.weakQueue /\ tvs'.made = tvs.made
      <4>1. ZOOM_COMPUTED \in INIT..DONE
        BY DEF INIT, ZOOM_COMPUTED, DONE
      <4>2. tvs \in TileViews
        BY Made
      <4>. QED  BY <2>2, <3>2, <4>1, <4>2 DEF TileViews
    <3>4. Consistent(tvs)'
      BY <3>1, <3>3 DEF TInv, Consistent, LOADED, DONE, INIT, BASE_COMPUTED, ZOOM_COMPUTED, COMPUTING_BASE, COMPUTING_ZOOM
    <3>. QED  BY <3>1, <3>3, <3>4
  <2>. QED  BY <1>1, <2>1, <2>2
<1>4. JobFits(w)'
  BY <1>1, <1>2, <1>3, ViewerIsNoZoomer DEF JobFits, InProcess, TInv, ThreadTypes
<1>5. JobsFit'
  BY <1>1, <1>2, <1>3, <1>4, ProcessStep, ViewerIsNoZoomer DEF TInv, ThreadTypes
<1>6. ThreadTypes'
  BY <1>1, <1>3, ViewerIsNoZoomer DEF Locks, TInv, ThreadTypes, Places
<1>7. ClearsFit'
  BY <1>1, ViewerIsNoZoomer DEF Locks, ClearsFit, ViewExists, TInv, ThreadTypes, Places
<1>8. QueuesBounded'
  BY <1>1, <1>3, Made, ViewerIsNoZoomer DEF QueuesBounded, ToKick, TInv, ThreadTypes, Places
<1>. QED  BY <1>3, <1>5, <1>6, <1>7, <1>8 DEF TInv

-----------------------------------------------------------------------------
(* What follows.                                                           *)

LEMMA TileViewInvariant == TileViewSpec => []TInv
<1>1. TileViewInit => TInv
  <2>. SUFFICES ASSUME TileViewInit PROVE TInv  OBVIOUS
  <2>1. 0 \in Versions /\ NoImage \in [tile : Versions, zoom : Zooms \cup {0}]
    BY EventsAssumption DEF Versions, NoImage
  <2>2. tvs \in TileViews
    BY <2>1 DEF TileViewInit, TileViews, INIT, LOADED, DONE
  <2>3. /\ tvs.state = INIT /\ tvs.queue = 0 /\ tvs.weakQueue = 0 /\ tvs.made = 0 /\ tvs.image = NoImage
    BY DEF TileViewInit
  <2>4. Consistent(tvs)
    BY <2>2, <2>3, StoresAssumption DEF Consistent, INIT, LOADED, BASE_COMPUTED, ZOOM_COMPUTED
  <2>5. ThreadTypes
    BY <2>1 DEF TileViewInit, ThreadTypes, Places, NoJob
  <2>6. JobsFit
    BY <2>3 DEF TileViewInit, JobsFit, JobFits, InProcess, NoJob, ViewThreads
  <2>7. ClearsFit /\ QueuesBounded
    BY <2>3, ViewerIsNoZoomer DEF TileViewInit, ClearsFit, QueuesBounded, ToKick
  <2>. QED  BY <2>4, <2>5, <2>6, <2>7 DEF TInv
<1>2. ASSUME TInv, [TileViewNext]_tileViewVars PROVE TInv'
  <2>1. CASE TileViewNext
    BY <1>2, <2>1, ViewerIsNoZoomer, UnlockInv, ClearCachesInv, CloseInv, PanicInv, ReportDoneInv, LeaveInv,
       SetViewDataInv, ClearInv, TileLoadedInv, SetZoomInv, FinishInv, StartProcessInv, StartBaseInv,
       StartZoomInv, StartReportInv, ComputeBaseInv, ComputeZoomInv
    DEF TileViewNext, ViewerStep, ZoomerStep
  <2>2. CASE UNCHANGED tileViewVars
    BY <1>2, <2>2
    DEF tileViewVars, TInv, Consistent, ThreadTypes, JobsFit, JobFits, InProcess, ClearsFit,
        QueuesBounded, ToKick
  <2>. QED  BY <1>2, <2>1, <2>2
<1>. QED  BY <1>1, <1>2, PTL DEF TileViewSpec

\* Whatever is drawn in advance is the tile as it was last loaded, at the zoom
\* level of the view, and the state of the machine promises no more than there
\* is, however loads, zooms, clears and closing interleave with the jobs that
\* were overtaken by them (computeBase() and computeZoom(), tileviewstate.cc).
THEOREM TileViewStaysRight == TileViewSpec => []TileViewIsRight
<1>1. TInv => TileViewIsRight
  <2>. SUFFICES ASSUME TInv PROVE TileViewIsRight  OBVIOUS
  <2>1. ResultsAreCurrent
    BY Made DEF TInv, Consistent, TileViews, ResultsAreCurrent, NoImage, INIT, LOADED, COMPUTING_BASE, BASE_COMPUTED,
       COMPUTING_ZOOM, ZOOM_COMPUTED, DONE
  <2>2. TileViewTypeOK
    <3>1. /\ tvs.queue \in {0, tvs.made} /\ tvs.weakQueue \in {0, tvs.made}
          /\ tvs.made \in 0..(2 * MaxEvents + 1) /\ 0 \in Versions
      BY Made, EventsAssumption
      DEF TInv, Consistent, ThreadTypes, QueuesBounded, ToKick, Versions
    <3>2. \A w \in Zoomers : job[w].queue \in 0..tvs.made
      <4>1. ASSUME NEW w \in Zoomers PROVE job[w].queue \in 0..tvs.made
        <5>1. job[w].queue \in Nat  BY DEF TInv, ThreadTypes
        <5>2. job[w].queue <= tvs.made  BY DEF TInv, JobsFit, JobFits
        <5>. QED  BY <5>1, <5>2, Made
      <4>. QED  BY <4>1
    <3>3. tvs \in [state : INIT..DONE, desired : {LOADED, DONE}, queue : Versions \cup {tvs.made},
                   weakQueue : {0, tvs.made}, tile : Versions, zoom : Zooms \cup {0},
                   base : Versions, image : [tile : Versions, zoom : Zooms \cup {0}],
                   life : BOOLEAN, made : 0..(2 * MaxEvents + 1)]
      BY <3>1, Made DEF TileViews
    <3>. QED  BY <3>2, <3>3 DEF TInv, ThreadTypes, Places, TileViewTypeOK
  <2>. QED  BY <2>1, <2>2 DEF TileViewIsRight
<1>. QED  BY <1>1, TileViewInvariant, PTL

-----------------------------------------------------------------------------
(***************************************************************************)
(* Bookkeeping.                                                            *)
(***************************************************************************)

\* The value in the map knows the last token that its key was given.
EntryHasOwner ==
    \A k \in Keys :
        entry[k] # Null => owner[entry[k]] \in Tokens /\ key[owner[entry[k]]] = k

\* Who works on a registration has a reference to its token; who destroys a
\* token does so after the last reference is gone.
PlacesFit ==
    \A t \in Threads :
        /\ where[t] # "idle" => tok[t] \in Tokens /\ key[tok[t]] # Null
        /\ where[t] \in {"get", "set"} => t \in refs[tok[t]]
        /\ where[t] \in {"removing", "comparing", "freeing", "stuck"} => refs[tok[t]] = {}

\* The token that thread t compares with its own.
Other(t) == owner[entry[key[tok[t]]]]

\* While a thread compares, it has the map locked and the other token alive.
ComparesLocked ==
    \A t \in Threads :
        where[t] = "comparing" =>
            mapMut = t /\ entry[key[tok[t]]] # Null /\ t \in refs[Other(t)]

\* Who has a reference to a token has a Registration with it, unless that is
\* what the thread is about to make, or it has the reference for comparing.
HoldersAreRegistered ==
    \A a \in Tokens, t \in Threads :
        t \in refs[a] =>
            \/ value[content[a]]
            \/ where[t] \in {"get", "set"} /\ tok[t] = a
            \/ where[t] = "comparing" /\ Other(t) = a

BInv ==
    /\ BookTypeOK /\ LiveTokenHasEntry /\ NoStaleEntries
    /\ EntryHasOwner /\ PlacesFit /\ ComparesLocked /\ HoldersAreRegistered

-----------------------------------------------------------------------------
LEMMA NewOnes == /\ \A a \in NewTokens : a \in Tokens /\ key[a] = Null
                 /\ \A v \in NewValues : v \in Values /\ owner[v] = Null
<1>1. ASSUME NEW S, NEW x \in OneOf(S) PROVE x \in S
  BY <1>1 DEF OneOf
<1>. QED  BY <1>1 DEF NewTokens, NewValues

\* A key of which the map has no live token is not the key of a live token.
LEMMA OnlyToken == ASSUME LiveTokenHasEntry, NEW k \in Keys,
                          LiveValue(entry[k]) => ~LiveToken(owner[entry[k]]),
                          NEW b \in Tokens, refs[b] # {}, b # Null, content[b] \in Values
                   PROVE  /\ key[b] # k
                          /\ LiveValue(entry[k]) => content[b] # entry[k]
BY DEF LiveTokenHasEntry, LiveValue, LiveToken

-----------------------------------------------------------------------------
(* One lemma per action.                                                   *)

LEMMA ReReserveOldKeeps == ASSUME BInv, NEW t \in Threads, NEW k \in Keys, ReReserveOld(t, k) PROVE BInv'
<1>1. BookTypeOK'
  BY NullAssumption DEF BInv, BookTypeOK, PlacesFit, ReReserveOld, Goto, LiveToken, LiveValue
<1>2. LiveTokenHasEntry'
  BY NullAssumption DEF BInv, LiveTokenHasEntry, PlacesFit, BookTypeOK, ReReserveOld, Goto, LiveToken, LiveValue
<1>3. NoStaleEntries'
  BY NullAssumption DEF BInv, NoStaleEntries, BookTypeOK, PlacesFit, EntryHasOwner, ReReserveOld, Goto, LiveToken, LiveValue
<1>4. EntryHasOwner'
  BY NullAssumption DEF BInv, EntryHasOwner, BookTypeOK, ReReserveOld, Goto, LiveToken, LiveValue
<1>5. PlacesFit'
  BY NullAssumption DEF BInv, LiveTokenHasEntry, EntryHasOwner, PlacesFit, BookTypeOK, ReReserveOld, Goto, LiveToken, LiveValue
<1>6. ComparesLocked'
  <2>1. \A s \in Threads : where[s] # "comparing"
    BY NullAssumption DEF BInv, ComparesLocked, ReReserveOld
  <2>. QED  BY <2>1 DEF BInv, ComparesLocked, BookTypeOK, ReReserveOld, Goto
<1>7. HoldersAreRegistered'
  BY NullAssumption DEF BInv, HoldersAreRegistered, BookTypeOK, LiveTokenHasEntry, PlacesFit, ReReserveOld, Goto, LiveToken, LiveValue, Other
<1>. QED  BY <1>1, <1>2, <1>3, <1>4, <1>5, <1>6, <1>7 DEF BInv

LEMMA GetRegistrationKeeps == ASSUME BInv, NEW t \in Threads, GetRegistration(t) PROVE BInv'
<1>1. BookTypeOK'
  BY NullAssumption DEF BInv, BookTypeOK, PlacesFit, GetRegistration, Goto, IsRegistered
<1>2. LiveTokenHasEntry'
  BY NullAssumption DEF BInv, LiveTokenHasEntry, PlacesFit, BookTypeOK, GetRegistration, Goto, IsRegistered
<1>3. NoStaleEntries'
  BY NullAssumption DEF BInv, NoStaleEntries, BookTypeOK, PlacesFit, EntryHasOwner, GetRegistration, Goto, IsRegistered
<1>4. EntryHasOwner'
  BY NullAssumption DEF BInv, EntryHasOwner, BookTypeOK, GetRegistration, Goto, IsRegistered
<1>5. PlacesFit'
  BY NullAssumption DEF BInv, PlacesFit, BookTypeOK, GetRegistration, Goto, IsRegistered
<1>6. ComparesLocked'
  BY NullAssumption DEF BInv, ComparesLocked, BookTypeOK, PlacesFit, GetRegistration, Goto, IsRegistered, Other
<1>7. HoldersAreRegistered'
  BY NullAssumption DEF BInv, HoldersAreRegistered, BookTypeOK, LiveTokenHasEntry, PlacesFit, GetRegistration, Goto, IsRegistered, Other
<1>. QED  BY <1>1, <1>2, <1>3, <1>4, <1>5, <1>6, <1>7 DEF BInv

LEMMA SetRegistrationKeeps == ASSUME BInv, NEW t \in Threads, SetRegistration(t) PROVE BInv'
<1>1. BookTypeOK'
  BY NullAssumption DEF BInv, BookTypeOK, PlacesFit, SetRegistration, Goto
<1>2. LiveTokenHasEntry'
  BY NullAssumption DEF BInv, LiveTokenHasEntry, PlacesFit, BookTypeOK, SetRegistration, Goto
<1>3. NoStaleEntries'
  BY NullAssumption DEF BInv, NoStaleEntries, BookTypeOK, PlacesFit, EntryHasOwner, SetRegistration, Goto
<1>4. EntryHasOwner'
  BY NullAssumption DEF BInv, EntryHasOwner, BookTypeOK, SetRegistration, Goto
<1>5. PlacesFit'
  BY NullAssumption DEF BInv, PlacesFit, BookTypeOK, SetRegistration, Goto
<1>6. ComparesLocked'
  BY NullAssumption DEF BInv, ComparesLocked, BookTypeOK, PlacesFit, SetRegistration, Goto, Other
<1>7. HoldersAreRegistered'
  BY NullAssumption DEF BInv, HoldersAreRegistered, BookTypeOK, LiveTokenHasEntry, PlacesFit, SetRegistration, Goto, Other
<1>. QED  BY <1>1, <1>2, <1>3, <1>4, <1>5, <1>6, <1>7 DEF BInv

LEMMA DropKeeps == ASSUME BInv, NEW t \in Threads, NEW a \in Tokens, Drop(t, a) PROVE BInv'
<1>1. BookTypeOK'
  BY NullAssumption DEF BInv, BookTypeOK, PlacesFit, Drop, Goto
<1>2. LiveTokenHasEntry'
  BY NullAssumption DEF BInv, LiveTokenHasEntry, PlacesFit, BookTypeOK, Drop, Goto
<1>3. NoStaleEntries'
  BY NullAssumption DEF BInv, NoStaleEntries, BookTypeOK, PlacesFit, EntryHasOwner, Drop, Goto
<1>4. EntryHasOwner'
  BY NullAssumption DEF BInv, EntryHasOwner, BookTypeOK, Drop, Goto
<1>5. PlacesFit'
  BY NullAssumption DEF BInv, LiveTokenHasEntry, PlacesFit, BookTypeOK, Drop, Goto
<1>6. ComparesLocked'
  BY NullAssumption DEF BInv, ComparesLocked, BookTypeOK, PlacesFit, Drop, Goto, Other
<1>7. HoldersAreRegistered'
  BY NullAssumption DEF BInv, HoldersAreRegistered, BookTypeOK, LiveTokenHasEntry, PlacesFit, Drop, Goto, Other
<1>. QED  BY <1>1, <1>2, <1>3, <1>4, <1>5, <1>6, <1>7 DEF BInv

LEMMA RemoveKeeps == ASSUME BInv, NEW t \in Threads, Remove(t) PROVE BInv'
<1>1. BookTypeOK'
  BY NullAssumption DEF BInv, BookTypeOK, PlacesFit, Remove, Goto, IsOther, Removed, LiveToken, LiveValue
<1>2. LiveTokenHasEntry'
  BY NullAssumption DEF BInv, LiveTokenHasEntry, PlacesFit, BookTypeOK, Remove, Goto, IsOther, Removed, LiveToken, LiveValue
<1>3. NoStaleEntries'
  BY NullAssumption DEF BInv, NoStaleEntries, BookTypeOK, PlacesFit, EntryHasOwner, Remove, Goto, IsOther, Removed, LiveToken, LiveValue
<1>4. EntryHasOwner'
  BY NullAssumption DEF BInv, EntryHasOwner, BookTypeOK, Remove, Goto, IsOther, Removed, LiveToken, LiveValue
<1>5. PlacesFit'
  BY NullAssumption DEF BInv, PlacesFit, BookTypeOK, Remove, Goto, IsOther, Removed, LiveToken, LiveValue
<1>6. ComparesLocked'
  BY NullAssumption, ZenonT(60) DEF BInv, ComparesLocked, BookTypeOK, PlacesFit, Remove, Goto, IsOther, Removed, LiveToken, LiveValue, Other
<1>7. HoldersAreRegistered'
  BY NullAssumption DEF BInv, ComparesLocked, HoldersAreRegistered, BookTypeOK, LiveTokenHasEntry, PlacesFit, Remove, Goto, IsOther, Removed, LiveToken, LiveValue, Other
<1>. QED  BY <1>1, <1>2, <1>3, <1>4, <1>5, <1>6, <1>7 DEF BInv

LEMMA KeepOtherKeeps == ASSUME BInv, NEW t \in Threads, KeepOther(t) PROVE BInv'
<1>1. BookTypeOK'
  BY NullAssumption DEF BInv, BookTypeOK, PlacesFit, KeepOther, Goto, IsOther, LiveToken, LiveValue
<1>2. LiveTokenHasEntry'
  BY NullAssumption DEF BInv, LiveTokenHasEntry, PlacesFit, BookTypeOK, KeepOther, Goto, IsOther, LiveToken, LiveValue
<1>3. NoStaleEntries'
  BY NullAssumption DEF BInv, NoStaleEntries, BookTypeOK, PlacesFit, EntryHasOwner, KeepOther, Goto, IsOther, LiveToken, LiveValue
<1>4. EntryHasOwner'
  BY NullAssumption DEF BInv, EntryHasOwner, BookTypeOK, KeepOther, Goto, IsOther, LiveToken, LiveValue
<1>5. PlacesFit'
  BY NullAssumption DEF BInv, PlacesFit, BookTypeOK, KeepOther, Goto, IsOther, LiveToken, LiveValue
<1>6. ComparesLocked'
  BY NullAssumption DEF BInv, ComparesLocked, BookTypeOK, PlacesFit, KeepOther, Goto, IsOther, LiveToken, LiveValue, Other
<1>7. HoldersAreRegistered'
  BY NullAssumption DEF BInv, HoldersAreRegistered, BookTypeOK, LiveTokenHasEntry, PlacesFit, KeepOther, Goto, IsOther, LiveToken, LiveValue, Other
<1>. QED  BY <1>1, <1>2, <1>3, <1>4, <1>5, <1>6, <1>7 DEF BInv

LEMMA DropOtherKeeps == ASSUME BInv, NEW t \in Threads, DropOther(t) PROVE BInv'
<1>1. BookTypeOK'
  <2>1. mapMut = t /\ tok[t] \in Tokens /\ Other(t) \in Tokens
    BY DEF BInv, ComparesLocked, PlacesFit, EntryHasOwner, BookTypeOK, DropOther, Other
  <2>2. CASE refs[Other(t)] = {t}
    BY <2>1, <2>2, NullAssumption DEF BInv, BookTypeOK, DropOther, Goto, Other
  <2>3. CASE refs[Other(t)] # {t}
    BY <2>1, <2>3, NullAssumption DEF BInv, BookTypeOK, DropOther, Goto, MapUnlocked, Other
  <2>. QED  BY <2>2, <2>3
<1>2. LiveTokenHasEntry'
  BY NullAssumption DEF BInv, LiveTokenHasEntry, PlacesFit, BookTypeOK, DropOther, Goto, MapUnlocked
<1>3. NoStaleEntries'
  BY NullAssumption DEF BInv, NoStaleEntries, BookTypeOK, PlacesFit, EntryHasOwner, DropOther, Goto, MapUnlocked
<1>4. EntryHasOwner'
  BY NullAssumption DEF BInv, EntryHasOwner, BookTypeOK, DropOther, Goto, MapUnlocked
<1>5. PlacesFit'
  BY NullAssumption DEF BInv, ComparesLocked, Other, EntryHasOwner, PlacesFit, BookTypeOK, DropOther, Goto, MapUnlocked
<1>6. ComparesLocked'
  BY NullAssumption DEF BInv, ComparesLocked, BookTypeOK, PlacesFit, DropOther, Goto, MapUnlocked, Other
<1>7. HoldersAreRegistered'
  BY NullAssumption DEF BInv, HoldersAreRegistered, BookTypeOK, LiveTokenHasEntry, PlacesFit, DropOther, Goto, MapUnlocked, Other
<1>. QED  BY <1>1, <1>2, <1>3, <1>4, <1>5, <1>6, <1>7 DEF BInv

LEMMA FreeKeeps == ASSUME BInv, NEW t \in Threads, Free(t) PROVE BInv'
<1>1. BookTypeOK'
  BY NullAssumption DEF BInv, BookTypeOK, PlacesFit, Free, Goto
<1>2. LiveTokenHasEntry'
  BY NullAssumption DEF BInv, LiveTokenHasEntry, PlacesFit, BookTypeOK, Free, Goto
<1>3. NoStaleEntries'
  BY NullAssumption DEF BInv, NoStaleEntries, BookTypeOK, PlacesFit, EntryHasOwner, Free, Goto
<1>4. EntryHasOwner'
  BY NullAssumption DEF BInv, EntryHasOwner, BookTypeOK, Free, Goto
<1>5. PlacesFit'
  BY NullAssumption DEF BInv, PlacesFit, BookTypeOK, Free, Goto
<1>6. ComparesLocked'
  BY NullAssumption DEF BInv, ComparesLocked, BookTypeOK, PlacesFit, Free, Goto, Other
<1>7. HoldersAreRegistered'
  BY NullAssumption DEF BInv, HoldersAreRegistered, BookTypeOK, LiveTokenHasEntry, PlacesFit, Free, Goto, Other
<1>. QED  BY <1>1, <1>2, <1>3, <1>4, <1>5, <1>6, <1>7 DEF BInv

LEMMA ReReserveNewKeeps == ASSUME BInv, NEW t \in Threads, NEW k \in Keys, ReReserveNew(t, k) PROVE BInv'
<1>1. PICK a \in NewTokens, v \in IF LiveValue(entry[k]) THEN {entry[k]} ELSE NewValues :
         /\ entry' = [entry EXCEPT ![k] = v]
         /\ owner' = [owner EXCEPT ![v] = a]
         /\ key' = [key EXCEPT ![a] = k]
         /\ content' = [content EXCEPT ![a] = v]
         /\ refs' = [refs EXCEPT ![a] = {t}]
         /\ Goto(t, "get", a)
  BY DEF ReReserveNew, Owned
<1>2. a \in Tokens /\ key[a] = Null /\ refs[a] = {}
  BY <1>1, NewOnes DEF BInv, LiveTokenHasEntry
<1>3. v \in Values /\ ((LiveValue(entry[k]) /\ v = entry[k]) \/ owner[v] = Null)
  BY <1>1, NewOnes DEF BInv, BookTypeOK, LiveValue
<1>4. /\ LiveValue(entry[k]) => ~LiveToken(owner[entry[k]])
      /\ where[t] = "idle" /\ mapMut = Null
      /\ UNCHANGED <<value, mapMut>>
  BY DEF ReReserveNew
<1>5. ASSUME NEW b \in Tokens, refs[b] # {} PROVE b # a /\ key[b] # k /\ content[b] # v
  <2>1. content[b] \in Values /\ b # Null /\ owner[content[b]] = b
    BY <1>5, NullAssumption DEF BInv, BookTypeOK, LiveTokenHasEntry
  <2>. QED  BY <1>2, <1>3, <1>4, <1>5, <2>1, OnlyToken, NullAssumption DEF BInv
<1>6. BookTypeOK'
  BY <1>1, <1>2, <1>3, <1>4, <1>5, NullAssumption DEF BInv, BookTypeOK, PlacesFit, Goto
<1>7. LiveTokenHasEntry'
  BY <1>1, <1>2, <1>3, <1>4, <1>5, NullAssumption DEF BInv, LiveTokenHasEntry, PlacesFit, BookTypeOK, Goto
<1>8. NoStaleEntries'
  <2>1. \A s \in Threads : where[s] # "idle" => tok[s] \in Tokens /\ tok[s] # a
    BY <1>2 DEF BInv, PlacesFit
  <2>2. ASSUME NEW k2 \in Keys, k2 # k, entry'[k2] # Null
        PROVE  \/ \E b \in Tokens : key'[b] = k2 /\ refs'[b] # {}
               \/ \E s \in Threads : where'[s] \in {"removing", "stuck"} /\ key'[tok'[s]] = k2
    <3>1. entry[k2] # Null
      BY <1>1, <2>2 DEF BInv, BookTypeOK
    <3>2. ASSUME NEW b \in Tokens, key[b] = k2, refs[b] # {}
          PROVE  key'[b] = k2 /\ refs'[b] # {}
      BY <1>1, <1>2, <3>2 DEF BInv, BookTypeOK
    <3>3. ASSUME NEW s \in Threads, where[s] \in {"removing", "stuck"}, key[tok[s]] = k2
          PROVE  where'[s] \in {"removing", "stuck"} /\ key'[tok'[s]] = k2
      BY <1>1, <1>2, <1>4, <2>1, <3>3 DEF BInv, BookTypeOK, Goto
    <3>. QED  BY <3>1, <3>2, <3>3 DEF BInv, NoStaleEntries
  <2>3. key'[a] = k /\ refs'[a] # {}
    BY <1>1, <1>2 DEF BInv, BookTypeOK
  <2>. QED  BY <1>2, <2>2, <2>3 DEF NoStaleEntries
<1>9. EntryHasOwner'
  BY <1>1, <1>2, <1>3, <1>4, <1>5, NullAssumption DEF BInv, EntryHasOwner, BookTypeOK, Goto
<1>10. PlacesFit'
  BY <1>1, <1>2, <1>3, <1>4, <1>5, NullAssumption DEF BInv, PlacesFit, BookTypeOK, Goto
<1>11. ComparesLocked'
  BY <1>1, <1>2, <1>3, <1>4, <1>5, NullAssumption DEF BInv, ComparesLocked, BookTypeOK, PlacesFit, Goto
<1>12. HoldersAreRegistered'
  BY <1>1, <1>2, <1>3, <1>4, <1>5, NullAssumption DEF BInv, HoldersAreRegistered, BookTypeOK, LiveTokenHasEntry, PlacesFit, ComparesLocked, Other, Goto
<1>. QED  BY <1>6, <1>7, <1>8, <1>9, <1>10, <1>11, <1>12 DEF BInv

-----------------------------------------------------------------------------
(* What follows.                                                           *)

LEMMA BookInvariant == BookSpec => []BInv
<1>1. BookInit => BInv
  BY DEF BookInit, BInv, BookTypeOK, LiveTokenHasEntry, NoStaleEntries, EntryHasOwner,
         PlacesFit, ComparesLocked, HoldersAreRegistered
<1>2. ASSUME BInv, [BookNext]_bookVars PROVE BInv'
  <2>1. CASE BookNext
    BY <1>2, <2>1, ReReserveOldKeeps, ReReserveNewKeeps, GetRegistrationKeeps,
       SetRegistrationKeeps, DropKeeps, RemoveKeeps, KeepOtherKeeps, DropOtherKeeps, FreeKeeps
    DEF BookNext, Step
  <2>2. CASE UNCHANGED bookVars
    BY <1>2, <2>2 DEF bookVars, BInv, BookTypeOK, LiveTokenHasEntry, NoStaleEntries,
       EntryHasOwner, PlacesFit, ComparesLocked, Other, HoldersAreRegistered
  <2>. QED  BY <1>2, <2>1, <2>2
<1>. QED  BY <1>1, <1>2, PTL DEF BookSpec

\* While somebody has the token of a registration, its key is in the map with the
\* value that the token keeps alive, and once registerObserver() has returned
\* that is a Registration: no destruction of an earlier token of the same key,
\* on any thread, takes it away (Map::remove(), bookkeepingimpl.hh).
THEOREM RegistrationsHold == BookSpec => []RegistrationHolds
<1>1. BInv => RegistrationHolds
  <2>. SUFFICES ASSUME BInv PROVE RegistrationHolds  OBVIOUS
  <2>1. RegisteredIsObserved
    BY DEF BInv, HoldersAreRegistered, LiveTokenHasEntry, RegisteredIsObserved
  <2>. QED  BY <2>1 DEF BInv, RegistrationHolds
<1>. QED  BY <1>1, BookInvariant, PTL

\* A key in the map has a live token, or one whose destruction will take it out
\* (~MapTokenImpl(), bookkeepingimpl.hh).
THEOREM MapStaysClean == BookSpec => []MapIsClean
<1>1. BInv => MapIsClean  BY DEF BInv, MapIsClean
<1>. QED  BY <1>1, BookInvariant, PTL
=============================================================================
