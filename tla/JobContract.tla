---------------------------- MODULE JobContract ----------------------------
(***************************************************************************)
(* What ThreadPool promises to those who schedule jobs on it, without      *)
(* threads, priorities or counters.  The promises are those of the         *)
(* comments on ThreadPool, ThreadPool::Queue and ThreadPool::WeakQueue in  *)
(* threadpool.hh:                                                          *)
(*                                                                         *)
(*  - a job is executed at most once;                                      *)
(*  - no job starts once the deletion of its queue has begun, and the      *)
(*    deletion does not end while one is running;                          *)
(*  - a job is only dropped because its queue is being deleted, or because *)
(*    the pool is gone and was not asked to complete its jobs.             *)
(***************************************************************************)
EXTENDS Naturals, Sequences

CONSTANTS Queues, CompleteAll

VARIABLES
    job,    \* the jobs submitted so far: their queue and status
    queue,  \* whether a queue is open, being deleted, or gone
    open    \* the pool exists

vars == <<job, queue, open>>

Init ==
    /\ job = <<>>
    /\ queue = [q \in Queues |-> "open"]
    /\ open = TRUE

SetStatus(j, s) == job' = [job EXCEPT ![j].status = s]

\* A job may be submitted even if its queue has been deleted.
Submit(q) ==
    /\ open
    /\ job' = Append(job, [queue |-> q, status |-> "waiting"])
    /\ UNCHANGED <<queue, open>>

Start(j) ==
    /\ job[j].status = "waiting"
    /\ queue[job[j].queue] = "open"
    /\ SetStatus(j, "running")
    /\ UNCHANGED <<queue, open>>

Finish(j) ==
    /\ job[j].status = "running"
    /\ SetStatus(j, "over")
    /\ UNCHANGED <<queue, open>>

\* A job goes without having run.  It may take the last reference to its
\* queue with it.
Drop(j) ==
    LET q == job[j].queue IN
    /\ job[j].status = "waiting"
    /\ queue[q] # "open" \/ (~open /\ ~CompleteAll)
    /\ SetStatus(j, "over")
    /\ \/ queue' = queue
       \/ queue[q] = "open" /\ queue' = [queue EXCEPT ![q] = "closing"]
    /\ UNCHANGED open

StartDeletion(q) ==
    /\ queue[q] = "open"
    /\ queue' = [queue EXCEPT ![q] = "closing"]
    /\ UNCHANGED <<job, open>>

EndDeletion(q) ==
    /\ queue[q] = "closing"
    /\ \A j \in DOMAIN job : job[j].queue = q => job[j].status # "running"
    /\ queue' = [queue EXCEPT ![q] = "gone"]
    /\ UNCHANGED <<job, open>>

ClosePool ==
    /\ open
    /\ open' = FALSE
    /\ UNCHANGED <<job, queue>>

Next ==
    \/ \E q \in Queues : Submit(q) \/ StartDeletion(q) \/ EndDeletion(q)
    \/ \E j \in DOMAIN job : Start(j) \/ Finish(j) \/ Drop(j)
    \/ ClosePool

Spec == Init /\ [][Next]_vars
=============================================================================
