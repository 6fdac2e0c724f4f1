----------------------------- MODULE ThreadPool -----------------------------
(***************************************************************************)
(* The thread pool of libs/threadpool: the workers that execute jobs, the  *)
(* prioritised job map they take them from, the queues that jobs belong to *)
(* and whose deletion cancels them, and the destruction of the pool.       *)
(*                                                                         *)
(* Everything the code does while it holds ThreadPool::PrivateData::mut,   *)
(* or QueueImpl::mut, is one action.  A worker goes round                  *)
(*                                                                         *)
(*    work -> claimed -> start -> run|skip -> release [-> destroying]      *)
(*     ^  `-> wait                                            |            *)
(*     `------------------------------------------------------'            *)
(*                                                                         *)
(* and out to exit.  A worker first claims *some* job, by decrementing     *)
(* jobcount, and only later, under the mutex again, pops whichever job is  *)
(* first by then.                                                          *)
(***************************************************************************)
EXTENDS Integers, Sequences, FiniteSets

CONSTANTS
    Workers,        \* the threads that may come to work for this pool
    InitialWorkers, \* those the constructor starts; the others come by add()
    Queues,         \* the ThreadPool::Queue objects in existence
    AsyncQueues,    \* those made by Queue::createAsync()
    BodyReleased,   \* those whose owner's reference a job of theirs may reset
    Prios,          \* job priorities; a lower number goes first
    MaxJobs,        \* bound on the jobs scheduled in a behaviour
    CompleteAll     \* completeAllJobsBeforeDestruction

ASSUME WorkersAssumption == IsFiniteSet(Workers) /\ InitialWorkers \subseteq Workers
ASSUME QueuesAssumption  == AsyncQueues \subseteq Queues /\ BodyReleased \subseteq Queues
ASSUME JobsAssumption    == Prios \subseteq Int /\ MaxJobs \in Nat
ASSUME PolicyAssumption  == CompleteAll \in BOOLEAN

\* Definitions called Wrong... are not part of the model.  Each is a mistake
\* that could be made in the definition below it, and that a property rejects.

VARIABLES
    alive,     \* PrivateData::alive: the ThreadPool object exists
    jobcount,  \* PrivateData::jobcount: queued jobs that no worker claimed
    jobs,      \* every job ever scheduled, in the order of scheduling
    pending,   \* PrivateData::jobs: the jobs (by number) not yet popped
    pc,        \* where each thread is
    cur,       \* the job object local to do_one(), 0 for none
    owned,     \* queues to which somebody other than a job has a reference
    qstate,    \* life of the Queue object; isDeleted from "deleting" on
    count,     \* QueueImpl::count: jobs of the queue being executed
    condemned  \* async queues waiting for the deleter thread, oldest first

poolVars  == <<alive, jobcount, jobs, pending>>
queueVars == <<owned, qstate, condemned>>
vars      == <<alive, jobcount, jobs, pending, pc, cur, owned, qstate, count, condemned>>

WorkerStates == {"absent", "work", "wait", "claimed", "start", "run", "skip",
                 "resetting", "release", "destroying", "exit"}

QueueStates == {"live", "condemned", "deleting", "gone"}

\* A job: its priority, its queue, and whether its closure captured a strong
\* reference to that queue, which then dies with the closure.
Job == [prio : Prios, queue : Queues, holds : BOOLEAN]

QueueOf(j) == jobs[j].queue

\* The jobs whose closures exist: those in the map, and those in do_one().
Closures == pending \cup ({cur[w] : w \in {v \in Workers : pc[v] # "destroying"}} \ {0})

WrongIsDeleted(q) == qstate[q] = "gone"  \* set once the jobs have finished

IsDeleted(q) == qstate[q] \in {"deleting", "gone"}

\* std::map iterates by ascending priority, each std::queue is first-in
\* first-out, and numbers are given out in the order of scheduling.
IsFirst(j) ==
    \A k \in pending : \/ jobs[j].prio < jobs[k].prio
                       \/ jobs[j].prio = jobs[k].prio /\ j <= k

\* The workers that have decremented jobcount and have yet to pop a job.
Claimers == {w \in Workers : pc[w] = "claimed"}

\* The jobs of q between jobStarted() and jobFinished().
Executing(q) == {w \in Workers : pc[w] \in {"run", "skip", "resetting"} /\ QueueOf(cur[w]) = q}

\* PrivateData is shared by the ThreadPool object and its threads.
DataExists == alive \/ \E w \in Workers : pc[w] \notin {"absent", "exit"}

-----------------------------------------------------------------------------
Init ==
    /\ alive = TRUE
    /\ jobcount = 0
    /\ jobs = <<>>
    /\ pending = {}
    /\ pc = [w \in Workers |-> IF w \in InitialWorkers THEN "work" ELSE "absent"]
    /\ cur = [w \in Workers |-> 0]
    /\ owned = Queues
    /\ qstate = [q \in Queues |-> "live"]
    /\ count = [q \in Queues |-> 0]
    /\ condemned = <<>>

-----------------------------------------------------------------------------
(* Losing the last reference to a queue runs ~Queue(), on the spot for a   *)
(* queue made by create(), on the deleter's thread for createAsync().      *)

LastRef(q, owners, closures) ==
    q \notin owners /\ \A j \in closures : ~(jobs[j].holds /\ QueueOf(j) = q)

LoseQueue(q) ==
    IF q \in AsyncQueues
    THEN /\ qstate' = [qstate EXCEPT ![q] = "condemned"]
         /\ condemned' = Append(condemned, q)
    ELSE /\ qstate' = [qstate EXCEPT ![q] = "deleting"]
         /\ condemned' = condemned

\* The references left are `owners' and `closures': has q just lost its last?
DropRef(q, owners, closures) ==
    IF qstate[q] = "live" /\ LastRef(q, owners, closures)
    THEN LoseQueue(q)
    ELSE UNCHANGED <<qstate, condemned>>

\* Whoever drops the last reference to a create()d queue waits in ~Queue().
Blocks(q, owners, closures) ==
    q \notin AsyncQueues /\ qstate[q] = "live" /\ LastRef(q, owners, closures)

-----------------------------------------------------------------------------
(* Users of the pool: any thread, jobs included.                           *)

WrongNotifyOneIfIdle ==  \* only the first of several jobs wakes a worker
    IF jobcount = 0 /\ \E w \in Workers : pc[w] = "wait"
    THEN \E w \in Workers : pc[w] = "wait" /\ pc' = [pc EXCEPT ![w] = "work"]
    ELSE pc' = pc

\* cond.notify_one(): some waiter, if there is one, returns from its wait.
NotifyOne ==
    IF \E w \in Workers : pc[w] = "wait"
    THEN \E w \in Workers : pc[w] = "wait" /\ pc' = [pc EXCEPT ![w] = "work"]
    ELSE pc' = pc

NotifyAll == pc' = [w \in Workers |-> IF pc[w] = "wait" THEN "work" ELSE pc[w]]

\* schedule() on queue q.  A WeakQueue suffices for that, so q may have been
\* deleted; capturing a strong reference takes somebody who has one.  The
\* caller holds the ThreadPool, hence alive.
Schedule(p, q, h) ==
    /\ alive
    /\ Len(jobs) < MaxJobs
    /\ h => qstate[q] = "live"
    /\ jobs' = Append(jobs, [prio |-> p, queue |-> q, holds |-> h])
    /\ pending' = pending \cup {Len(jobs) + 1}
    /\ jobcount' = jobcount + 1
    /\ NotifyOne
    /\ UNCHANGED <<alive, cur, queueVars, count>>

\* add(): one more thread.
AddThread(w) ==
    /\ alive
    /\ pc[w] = "absent"
    /\ pc' = [pc EXCEPT ![w] = "work"]
    /\ UNCHANGED <<poolVars, cur, queueVars, count>>

\* The owners of q, none of them a job, drop their references.
ReleaseQueue(q) ==
    /\ q \in owned
    /\ owned' = owned \ {q}
    /\ DropRef(q, owned', Closures)
    /\ UNCHANGED <<poolVars, pc, cur, count>>

\* ~ThreadPool(): does not wait for the threads.
DestroyPool ==
    /\ alive
    /\ alive' = FALSE
    /\ NotifyAll
    /\ UNCHANGED <<jobcount, jobs, pending, cur, queueVars, count>>

-----------------------------------------------------------------------------
(* A worker.                                                               *)

WrongClaim(w) ==  \* checks jobcount, but leaves it to the pop to adjust it
    /\ pc[w] = "work"
    /\ alive \/ CompleteAll
    /\ jobcount > 0
    /\ pc' = [pc EXCEPT ![w] = "claimed"]
    /\ UNCHANGED <<poolVars, cur, queueVars, count>>

\* work(), at the top of either loop: claim a job ...
Claim(w) ==
    /\ pc[w] = "work"
    /\ alive \/ CompleteAll
    /\ jobcount > 0
    /\ jobcount' = jobcount - 1
    /\ pc' = [pc EXCEPT ![w] = "claimed"]
    /\ UNCHANGED <<alive, jobs, pending, cur, queueVars, count>>

\* ... or wait for one ...
Wait(w) ==
    /\ pc[w] = "work"
    /\ alive
    /\ jobcount = 0
    /\ pc' = [pc EXCEPT ![w] = "wait"]
    /\ UNCHANGED <<poolVars, cur, queueVars, count>>

WrongExit(w) ==  \* returns as soon as the pool is gone
    /\ pc[w] = "work"
    /\ ~alive
    /\ pc' = [pc EXCEPT ![w] = "exit"]
    /\ UNCHANGED <<poolVars, cur, queueVars, count>>

\* ... or return, which ends the thread.
Exit(w) ==
    /\ pc[w] = "work"
    /\ ~alive
    /\ CompleteAll => jobcount = 0
    /\ pc' = [pc EXCEPT ![w] = "exit"]
    /\ UNCHANGED <<poolVars, cur, queueVars, count>>

\* A condition variable may wake a thread for no reason.
SpuriousWakeup(w) ==
    /\ pc[w] = "wait"
    /\ pc' = [pc EXCEPT ![w] = "work"]
    /\ UNCHANGED <<poolVars, cur, queueVars, count>>

\* do_one(): pop the first job.  It is a defect if there is none.
Pop(w) ==
    /\ pc[w] = "claimed"
    /\ \E j \in pending :
          /\ IsFirst(j)
          /\ pending' = pending \ {j}
          /\ cur' = [cur EXCEPT ![w] = j]
    /\ pc' = [pc EXCEPT ![w] = "start"]
    /\ UNCHANGED <<alive, jobcount, jobs, queueVars, count>>

WrongJobStarted(w) ==  \* a job that will be skipped is not counted
    /\ pc[w] = "start"
    /\ LET q == QueueOf(cur[w]) IN
          /\ count' = [count EXCEPT ![q] = IF IsDeleted(q) THEN @ ELSE @ + 1]
          /\ pc' = [pc EXCEPT ![w] = IF IsDeleted(q) THEN "skip" ELSE "run"]
    /\ UNCHANGED <<poolVars, cur, queueVars>>

\* QueueLock(): the job counts as started, and is skipped if its queue has
\* been deleted.
JobStarted(w) ==
    /\ pc[w] = "start"
    /\ LET q == QueueOf(cur[w]) IN
          /\ count' = [count EXCEPT ![q] = @ + 1]
          /\ pc' = [pc EXCEPT ![w] = IF IsDeleted(q) THEN "skip" ELSE "run"]
    /\ UNCHANGED <<poolVars, cur, queueVars>>

\* The body of the job resets its owner's reference to the job's own queue,
\* as TileViewState::process() does.  If that is the last one to a create()d
\* queue, the thread waits for its own job to finish, and stays "resetting".
ReleaseInBody(w) ==
    /\ pc[w] = "run"
    /\ LET q == QueueOf(cur[w]) IN
          /\ q \in owned \cap BodyReleased
          /\ owned' = owned \ {q}
          /\ DropRef(q, owned', Closures)
          /\ pc' = [pc EXCEPT ![w] = IF Blocks(q, owned', Closures) THEN "resetting" ELSE "run"]
    /\ UNCHANGED <<poolVars, cur, count>>

WrongJobFinished(w) ==  \* a skipped job is not counted out again
    /\ pc[w] \in {"run", "skip"}
    /\ count' = [count EXCEPT ![QueueOf(cur[w])] = IF pc[w] = "run" THEN @ - 1 ELSE @]
    /\ pc' = [pc EXCEPT ![w] = "release"]
    /\ UNCHANGED <<poolVars, cur, queueVars>>

\* The body is done, or was skipped: ~QueueLock().
JobFinished(w) ==
    /\ pc[w] \in {"run", "skip"}
    /\ count' = [count EXCEPT ![QueueOf(cur[w])] = @ - 1]
    /\ pc' = [pc EXCEPT ![w] = "release"]
    /\ UNCHANGED <<poolVars, cur, queueVars>>

\* do_one() returns: its local job, and what the closure captured, go away.
DestroyJob(w) ==
    /\ pc[w] = "release"
    /\ LET q    == QueueOf(cur[w])
           left == Closures \ {cur[w]}
       IN IF jobs[cur[w]].holds /\ Blocks(q, owned, left)
          THEN /\ pc' = [pc EXCEPT ![w] = "destroying"]
               /\ LoseQueue(q)
               /\ cur' = cur
          ELSE /\ pc' = [pc EXCEPT ![w] = "work"]
               /\ cur' = [cur EXCEPT ![w] = 0]
               /\ IF jobs[cur[w]].holds
                  THEN DropRef(q, owned, left)
                  ELSE UNCHANGED <<qstate, condemned>>
    /\ UNCHANGED <<poolVars, owned, count>>

\* ~Queue() returned to the destructor of the job.
DestroyDone(w) ==
    /\ pc[w] = "destroying"
    /\ qstate[QueueOf(cur[w])] = "gone"
    /\ pc' = [pc EXCEPT ![w] = "work"]
    /\ cur' = [cur EXCEPT ![w] = 0]
    /\ UNCHANGED <<poolVars, queueVars, count>>

-----------------------------------------------------------------------------
(* What goes on without a worker of this pool.                             *)

WrongQueueGone(q) ==  \* does not wait
    /\ qstate[q] = "deleting"
    /\ qstate' = [qstate EXCEPT ![q] = "gone"]
    /\ UNCHANGED <<poolVars, pc, cur, owned, count, condemned>>

\* deletingQueue() sees that no job is being executed, and returns.
QueueGone(q) ==
    /\ qstate[q] = "deleting"
    /\ count[q] = 0
    /\ qstate' = [qstate EXCEPT ![q] = "gone"]
    /\ UNCHANGED <<poolVars, pc, cur, owned, count, condemned>>

\* The deleter, a pool of one thread, starts on its next deletion.
DeleteNext ==
    /\ condemned # <<>>
    /\ \A q \in AsyncQueues : qstate[q] # "deleting"
    /\ qstate' = [qstate EXCEPT ![Head(condemned)] = "deleting"]
    /\ condemned' = Tail(condemned)
    /\ UNCHANGED <<poolVars, pc, cur, owned, count>>

\* Once the pool and all its threads are gone, so is PrivateData, and with
\* it the jobs that remain, one by one.
DiscardJob ==
    /\ ~DataExists
    /\ \E j \in pending :
          /\ IsFirst(j)
          /\ pending' = pending \ {j}
          /\ IF jobs[j].holds
             THEN DropRef(QueueOf(j), owned, Closures \ {j})
             ELSE UNCHANGED <<qstate, condemned>>
    /\ UNCHANGED <<alive, jobcount, jobs, pc, cur, owned, count>>

-----------------------------------------------------------------------------
User ==
    \/ \E p \in Prios, q \in Queues, h \in BOOLEAN : Schedule(p, q, h)
    \/ \E w \in Workers : AddThread(w)
    \/ \E q \in Queues : ReleaseQueue(q)
    \/ DestroyPool

Progress(w) ==
    \/ Claim(w) \/ Wait(w) \/ Exit(w)
    \/ Pop(w)
    \/ JobStarted(w) \/ JobFinished(w)
    \/ DestroyJob(w) \/ DestroyDone(w)

Worker(w) == Progress(w) \/ SpuriousWakeup(w) \/ ReleaseInBody(w)

Background ==
    \/ \E q \in Queues : QueueGone(q)
    \/ DeleteNext
    \/ DiscardJob

Next == User \/ (\E w \in Workers : Worker(w)) \/ Background

Spec == Init /\ [][Next]_vars

\* Threads get to run, and job bodies end.  Nobody has to schedule a job,
\* release a queue or destroy the pool.
Fairness ==
    /\ \A w \in Workers : WF_vars(Progress(w))
    /\ \A q \in Queues : WF_vars(QueueGone(q))
    /\ WF_vars(DeleteNext)
    /\ WF_vars(DiscardJob)

FairSpec == Spec /\ Fairness

-----------------------------------------------------------------------------
(* Properties.                                                             *)

\* Every variable has its type; cur is a job exactly inside do_one().
TypeOK ==
    /\ alive \in BOOLEAN
    /\ jobcount \in Nat
    /\ jobs \in Seq(Job) /\ Len(jobs) <= MaxJobs
    /\ pending \subseteq DOMAIN jobs
    /\ pc \in [Workers -> WorkerStates]
    /\ cur \in [Workers -> Nat]
    /\ \A w \in Workers :
          IF pc[w] \in {"start", "run", "skip", "resetting", "release", "destroying"}
          THEN cur[w] \in DOMAIN jobs
          ELSE cur[w] = 0
    /\ owned \subseteq Queues
    /\ qstate \in [Queues -> QueueStates]
    /\ count \in [Queues -> Nat]
    /\ condemned \in Seq(AsyncQueues)

\* jobcount runs ahead of the job map by the claims in flight, and by nothing
\* else: a claim and the pop that follows it are two critical sections, and
\* jobs are added, claimed and popped by others in between.  So a claim always
\* finds a job, and do_one() never reaches
\* defect_message("JobQueue empty while it shouldn't be").
ClaimsAccounted ==
    DataExists => Cardinality(pending) = jobcount + Cardinality(Claimers)

\* QueueImpl::count is the number of jobs in QueueLock's scope, skipped ones
\* included.
QueueCounts == \A q \in Queues : count[q] = Cardinality(Executing(q))

\* The promise of ThreadPool::Queue: once its destructor has returned, no job
\* of the queue is running, whichever thread deleted it.
NothingRunsOnGoneQueue ==
    \A w \in Workers : pc[w] \in {"run", "resetting"} => qstate[QueueOf(cur[w])] # "gone"

\* No wakeup is lost: while a worker sleeps, each unclaimed job has a worker
\* of its own on its way to claim it.  notify_one() per job is enough.
NoLostWakeup ==
    (\E w \in Workers : pc[w] = "wait")
        => jobcount <= Cardinality({w \in Workers : pc[w] = "work"})

\* A pool told to complete its jobs leaves none behind: workers exit when
\* jobcount is 0, which it is too while others hold claims.
CompletesAll ==
    CompleteAll /\ ~DataExists /\ (\E w \in Workers : pc[w] = "exit") => pending = {}

\* Every scheduled job is eventually executed, skipped or discarded.
JobOver(j) == j \notin pending /\ \A w \in Workers : cur[w] # j
EveryJobEnds == \A j \in 1..MaxJobs : (Len(jobs) >= j) ~> JobOver(j)

\* Once no reference to a queue is left, ~Queue() is called and returns; for an
\* async queue the deleter gets round to it.
EveryDeletionEnds ==
    \A q \in Queues : LastRef(q, owned, Closures) ~> (qstate[q] = "gone")

\* Destroying the pool ends all its threads, also the sleeping ones: otherwise
\* ThreadList::wait() aborts the process.
EveryThreadEnds ==
    ~alive ~> \A w \in Workers : pc[w] \in {"absent", "exit"}

\* Jobs, queues and threads all come to their end (threadpoolimpl.cc).
EverythingEnds == EveryJobEnds /\ EveryDeletionEnds /\ EveryThreadEnds

-----------------------------------------------------------------------------
(* The pool keeps the contract its users rely on.                          *)

StatusOf(j) ==
    CASE j \in pending \/ (\E w \in Workers : cur[w] = j /\ pc[w] = "start") -> "waiting"
      [] \E w \in Workers : cur[w] = j /\ pc[w] \in {"run", "resetting"} -> "running"
      [] OTHER -> "over"

Contract == INSTANCE JobContract WITH
    job   <- [j \in DOMAIN jobs |-> [queue |-> QueueOf(j), status |-> StatusOf(j)]],
    queue <- [q \in Queues |-> CASE qstate[q] \in {"live", "condemned"} -> "open"
                                 [] qstate[q] = "deleting" -> "closing"
                                 [] qstate[q] = "gone" -> "gone"],
    open  <- alive

\* The detailed pool implements JobContract.
KeepsContract == Contract!Spec
=============================================================================
