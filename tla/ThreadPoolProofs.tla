-------------------------- MODULE ThreadPoolProofs --------------------------
(***************************************************************************)
(* Proofs about ThreadPool, for any set of threads, queues and priorities, *)
(* any number of jobs, and both destruction policies.                      *)
(***************************************************************************)
EXTENDS ThreadPool, FiniteSetTheorems, SequenceTheorems, TLAPS

-----------------------------------------------------------------------------
(* QueueCounts is needed for the type of count: the decrement in           *)
(* jobFinished() stays in Nat because the job was counted when it started. *)

IInv == TypeOK /\ QueueCounts

\* A set of workers is finite.
LEMMA WorkersFinite == ASSUME NEW S, S \subseteq Workers
                       PROVE  IsFiniteSet(S) /\ Cardinality(S) \in Nat
BY WorkersAssumption, FS_Subset, FS_CardinalityType

\* Counting in a thread, and counting it out again.
LEMMA CountIn == ASSUME NEW S, S \subseteq Workers, NEW w \in Workers, w \notin S
                 PROVE  Cardinality(S \cup {w}) = Cardinality(S) + 1
BY WorkersFinite, FS_AddElement

LEMMA CountOut == ASSUME NEW S, S \subseteq Workers, NEW w \in S
                  PROVE  /\ Cardinality(S \ {w}) = Cardinality(S) - 1
                         /\ Cardinality(S) \in Nat \ {0}
<1>1. IsFiniteSet(S)  BY WorkersFinite
<1>2. Cardinality(S \ {w}) = Cardinality(S) - 1  BY <1>1, FS_RemoveElement
<1>3. Cardinality(S \ {w}) \in Nat /\ Cardinality(S) \in Nat  BY WorkersFinite
<1>. QED  BY <1>2, <1>3

\* Adding a job keeps the numbers of the others.
LEMMA AppendJob == ASSUME jobs \in Seq(Job), NEW x \in Job
                   PROVE  /\ Append(jobs, x) \in Seq(Job)
                          /\ Len(Append(jobs, x)) = Len(jobs) + 1
                          /\ Len(jobs) \in Nat
                          /\ DOMAIN Append(jobs, x) = 1..(Len(jobs) + 1)
                          /\ DOMAIN jobs = 1..Len(jobs)
                          /\ \A j \in DOMAIN jobs : Append(jobs, x)[j] = jobs[j]
OBVIOUS

\* The deletion of a queue begins.
LEMMA LoseQueueType == ASSUME TypeOK, NEW q \in Queues, LoseQueue(q)
                       PROVE  /\ qstate' \in [Queues -> QueueStates]
                              /\ condemned' \in Seq(AsyncQueues)
<1>1. qstate \in [Queues -> QueueStates] /\ condemned \in Seq(AsyncQueues)
  BY DEF TypeOK
<1>2. CASE q \in AsyncQueues
  <2>1. Append(condemned, q) \in Seq(AsyncQueues)  BY <1>1, <1>2
  <2>2. [qstate EXCEPT ![q] = "condemned"] \in [Queues -> QueueStates]
    BY <1>1 DEF QueueStates
  <2>. QED  BY <1>2, <2>1, <2>2 DEF LoseQueue
<1>3. CASE q \notin AsyncQueues
  BY <1>1, <1>3 DEF LoseQueue, QueueStates
<1>. QED  BY <1>2, <1>3

LEMMA DropRefType == ASSUME TypeOK, NEW q \in Queues, NEW owners, NEW closures,
                            DropRef(q, owners, closures)
                     PROVE  /\ qstate' \in [Queues -> QueueStates]
                            /\ condemned' \in Seq(AsyncQueues)
BY LoseQueueType DEF DropRef, TypeOK

LEMMA InitType == Init => TypeOK /\ QueueCounts
<1>. SUFFICES ASSUME Init PROVE TypeOK /\ QueueCounts  OBVIOUS
<1>1. jobs \in Seq(Job) /\ Len(jobs) = 0  BY DEF Init
<1>2. pc \in [Workers -> WorkerStates] /\ \A w \in Workers : pc[w] \in {"work", "absent"}
  BY DEF Init, WorkerStates
<1>3. qstate \in [Queues -> QueueStates]  BY DEF Init, QueueStates
<1>4. TypeOK  BY <1>1, <1>2, <1>3, JobsAssumption DEF Init, TypeOK
<1>5. ASSUME NEW q \in Queues PROVE count[q] = Cardinality(Executing(q))
  <2>1. Executing(q) = {}  BY <1>2 DEF Executing
  <2>. QED  BY <2>1, FS_EmptySet DEF Init
<1>. QED  BY <1>4, <1>5 DEF QueueCounts

-----------------------------------------------------------------------------
(* One lemma per action.                                                   *)

Busy == {"run", "skip", "resetting"}

\* Steps that no thread takes into, out of, or inside QueueLock's scope.
LEMMA ExecutingKept ==
    ASSUME IInv,
           \A v \in Workers : pc'[v] \in Busy <=> pc[v] \in Busy,
           \A v \in Workers : pc[v] \in Busy => cur'[v] = cur[v],
           \A j \in DOMAIN jobs : jobs'[j] = jobs[j],
           count' = count
    PROVE  QueueCounts'
<1>1. ASSUME NEW q \in Queues PROVE Executing(q)' = Executing(q)
  <2>1. \A v \in Workers : pc[v] \in Busy => cur[v] \in DOMAIN jobs
    BY DEF IInv, TypeOK, Busy
  <2>2. \A v \in Workers : pc[v] \in Busy => QueueOf(cur[v])' = QueueOf(cur[v])
    BY <2>1 DEF QueueOf
  <2>. QED  BY <2>2 DEF Executing, Busy
<1>. QED  BY <1>1 DEF IInv, QueueCounts

LEMMA ScheduleInv ==
    ASSUME IInv, NEW p \in Prios, NEW q \in Queues, NEW h \in BOOLEAN, Schedule(p, q, h)
    PROVE  IInv'
<1>. DEFINE x == [prio |-> p, queue |-> q, holds |-> h]
<1>1. x \in Job  BY DEF Job
<1>2. jobs \in Seq(Job)  BY DEF IInv, TypeOK
<1>3. jobs' = Append(jobs, x)  BY DEF Schedule
<1>4. /\ jobs' \in Seq(Job)
      /\ Len(jobs') = Len(jobs) + 1 /\ Len(jobs) \in Nat
      /\ DOMAIN jobs' = 1..(Len(jobs) + 1)
      /\ DOMAIN jobs = 1..Len(jobs)
      /\ \A j \in DOMAIN jobs : jobs'[j] = jobs[j]
  <2>. HIDE DEF x
  <2>. QED  BY <1>1, <1>2, <1>3, AppendJob
<1>5. /\ pc' \in [Workers -> WorkerStates]
      /\ \A v \in Workers : pc'[v] = pc[v] \/ (pc[v] = "wait" /\ pc'[v] = "work")
  BY DEF Schedule, NotifyOne, IInv, TypeOK, WorkerStates
<1>6. TypeOK'
  <2>1. Len(jobs') <= MaxJobs
    BY <1>4, JobsAssumption DEF Schedule
  <2>2. jobcount' \in Nat  BY DEF Schedule, IInv, TypeOK
  <2>3. pending' \subseteq DOMAIN jobs'
    BY <1>4 DEF Schedule, IInv, TypeOK
  <2>4. DOMAIN jobs \subseteq DOMAIN jobs'  BY <1>4
  <2>5. \A v \in Workers :
          IF pc'[v] \in {"start", "run", "skip", "resetting", "release", "destroying"}
          THEN cur'[v] \in DOMAIN jobs'
          ELSE cur'[v] = 0
    BY <1>5, <2>4 DEF Schedule, IInv, TypeOK
  <2>. QED  BY <1>4, <1>5, <2>1, <2>2, <2>3, <2>5 DEF Schedule, IInv, TypeOK, queueVars
<1>7. QueueCounts'
  BY <1>4, <1>5, ExecutingKept DEF Schedule, Busy
<1>. QED  BY <1>6, <1>7 DEF IInv

LEMMA AddThreadInv ==
    ASSUME IInv, NEW w \in Workers, AddThread(w) PROVE IInv'
<1>1. TypeOK'
  BY DEF AddThread, IInv, TypeOK, WorkerStates, poolVars, queueVars
<1>2. QueueCounts'
  BY ExecutingKept DEF AddThread, IInv, TypeOK, poolVars, queueVars, Busy
<1>. QED  BY <1>1, <1>2 DEF IInv

LEMMA ReleaseQueueInv ==
    ASSUME IInv, NEW q \in Queues, ReleaseQueue(q) PROVE IInv'
<1>1. qstate' \in [Queues -> QueueStates] /\ condemned' \in Seq(AsyncQueues)
  BY DropRefType DEF ReleaseQueue, IInv
<1>2. TypeOK'
  BY <1>1 DEF ReleaseQueue, IInv, TypeOK, poolVars
<1>3. QueueCounts'
  BY ExecutingKept DEF ReleaseQueue, poolVars, Busy
<1>. QED  BY <1>2, <1>3 DEF IInv

LEMMA DestroyPoolInv ==
    ASSUME IInv, DestroyPool PROVE IInv'
<1>1. pc' \in [Workers -> WorkerStates]
  BY DEF DestroyPool, NotifyAll, IInv, TypeOK, WorkerStates
<1>2. \A v \in Workers : pc'[v] = pc[v] \/ (pc[v] = "wait" /\ pc'[v] = "work")
  BY DEF DestroyPool, NotifyAll
<1>3. TypeOK'
  BY <1>1, <1>2 DEF DestroyPool, IInv, TypeOK, queueVars
<1>4. QueueCounts'
  BY <1>2, ExecutingKept DEF DestroyPool, Busy, queueVars
<1>. QED  BY <1>3, <1>4 DEF IInv

\* Claim, Wait, Exit and SpuriousWakeup only move a thread that has no job.
LEMMA IdleStepInv ==
    ASSUME IInv, NEW w \in Workers,
           Claim(w) \/ Wait(w) \/ Exit(w) \/ SpuriousWakeup(w)
    PROVE  IInv'
<1>1. /\ UNCHANGED <<alive, jobs, pending, cur, queueVars, count>>
      /\ jobcount' \in Nat
      /\ pc[w] \in {"work", "wait"}
      /\ \E s \in {"work", "wait", "claimed", "exit"} : pc' = [pc EXCEPT ![w] = s]
  BY DEF Claim, Wait, Exit, SpuriousWakeup, poolVars, IInv, TypeOK
<1>2. PICK s \in {"work", "wait", "claimed", "exit"} : pc' = [pc EXCEPT ![w] = s]
  BY <1>1
<1>3. TypeOK'
  BY <1>1, <1>2 DEF IInv, TypeOK, WorkerStates, queueVars
<1>4. QueueCounts'
  BY <1>1, <1>2, ExecutingKept DEF IInv, TypeOK, Busy
<1>. QED  BY <1>3, <1>4 DEF IInv

LEMMA PopInv ==
    ASSUME IInv, NEW w \in Workers, Pop(w) PROVE IInv'
<1>1. PICK j \in pending : pending' = pending \ {j} /\ cur' = [cur EXCEPT ![w] = j]
  BY DEF Pop
<1>2. DOMAIN jobs \subseteq Nat  BY DEF IInv, TypeOK
<1>3. TypeOK'
  BY <1>1, <1>2 DEF Pop, IInv, TypeOK, WorkerStates, queueVars
<1>4. QueueCounts'
  BY <1>1, ExecutingKept DEF Pop, IInv, TypeOK, Busy
<1>. QED  BY <1>3, <1>4 DEF IInv

\* The job w has is counted as executing on its queue, or not.
LEMMA CurrentQueue ==
    ASSUME IInv, NEW w \in Workers, pc[w] \in Busy \cup {"start", "release", "destroying"}
    PROVE  cur[w] \in DOMAIN jobs /\ QueueOf(cur[w]) \in Queues
<1>1. cur[w] \in DOMAIN jobs  BY DEF IInv, TypeOK, Busy
<1>2. jobs \in Seq(Job)  BY DEF IInv, TypeOK
<1>3. jobs[cur[w]] \in Job  BY <1>1, <1>2
<1>. QED  BY <1>1, <1>3 DEF QueueOf, Job

LEMMA JobStartedInv ==
    ASSUME IInv, NEW w \in Workers, JobStarted(w) PROVE IInv'
<1>. DEFINE q == QueueOf(cur[w])
<1>1. q \in Queues  BY CurrentQueue DEF JobStarted
<1>2. /\ count' = [count EXCEPT ![q] = @ + 1]
      /\ pc[w] = "start"
      /\ \E s \in {"run", "skip"} : pc' = [pc EXCEPT ![w] = s]
      /\ UNCHANGED <<poolVars, cur, queueVars>>
  BY DEF JobStarted
<1>. HIDE DEF q
<1>3. TypeOK'
  BY <1>1, <1>2 DEF IInv, TypeOK, WorkerStates, poolVars, queueVars
<1>4. ASSUME NEW r \in Queues PROVE count'[r] = Cardinality(Executing(r))'
  <2>1. Executing(r)' = IF r = q THEN Executing(r) \cup {w} ELSE Executing(r)
    BY <1>2 DEF Executing, QueueOf, q, IInv, TypeOK, poolVars
  <2>2. w \notin Executing(r) /\ Executing(r) \subseteq Workers
    BY <1>2 DEF Executing
  <2>3. count[r] = Cardinality(Executing(r))  BY DEF IInv, QueueCounts
  <2>. QED  BY <1>1, <1>2, <2>1, <2>2, <2>3, CountIn DEF IInv, TypeOK
<1>. QED  BY <1>3, <1>4 DEF IInv, QueueCounts

LEMMA ReleaseInBodyInv ==
    ASSUME IInv, NEW w \in Workers, ReleaseInBody(w) PROVE IInv'
<1>. DEFINE q == QueueOf(cur[w])
<1>1. q \in Queues  BY CurrentQueue DEF ReleaseInBody, Busy
<1>2. qstate' \in [Queues -> QueueStates] /\ condemned' \in Seq(AsyncQueues)
  BY <1>1, DropRefType DEF ReleaseInBody, IInv
<1>3. /\ pc[w] = "run"
      /\ \E s \in {"run", "resetting"} : pc' = [pc EXCEPT ![w] = s]
      /\ owned' \subseteq owned
      /\ UNCHANGED <<poolVars, cur, count>>
  BY DEF ReleaseInBody
<1>4. TypeOK'
  BY <1>2, <1>3 DEF IInv, TypeOK, WorkerStates, poolVars
<1>5. QueueCounts'
  BY <1>3, ExecutingKept DEF IInv, TypeOK, Busy, poolVars
<1>. QED  BY <1>4, <1>5 DEF IInv

LEMMA JobFinishedInv ==
    ASSUME IInv, NEW w \in Workers, JobFinished(w) PROVE IInv'
<1>. DEFINE q == QueueOf(cur[w])
<1>1. q \in Queues  BY CurrentQueue DEF JobFinished, Busy
<1>2. /\ count' = [count EXCEPT ![q] = @ - 1]
      /\ pc[w] \in {"run", "skip"}
      /\ pc' = [pc EXCEPT ![w] = "release"]
      /\ UNCHANGED <<poolVars, cur, queueVars>>
  BY DEF JobFinished
<1>3. ASSUME NEW r \in Queues
      PROVE  /\ count'[r] = Cardinality(Executing(r))'
             /\ count'[r] \in Nat
  <2>1. Executing(r)' = IF r = q THEN Executing(r) \ {w} ELSE Executing(r)
    BY <1>2 DEF Executing, QueueOf, IInv, TypeOK, poolVars
  <2>2. Executing(r) \subseteq Workers /\ (r = q => w \in Executing(r))
    BY <1>2 DEF Executing
  <2>3. count[r] = Cardinality(Executing(r)) /\ count[r] \in Nat
    BY DEF IInv, QueueCounts, TypeOK
  <2>4. CASE r = q
    <3>1. Cardinality(Executing(r) \ {w}) = count[r] - 1 /\ count[r] \in Nat \ {0}
      BY <2>2, <2>3, <2>4, CountOut
    <3>. QED  BY <1>1, <1>2, <2>1, <2>4, <3>1 DEF IInv, TypeOK
  <2>5. CASE r # q
    BY <1>1, <1>2, <2>1, <2>3, <2>5 DEF IInv, TypeOK
  <2>. QED  BY <2>4, <2>5
<1>. HIDE DEF q
<1>4. count' \in [Queues -> Nat]
  BY <1>1, <1>2, <1>3 DEF IInv, TypeOK
<1>5. TypeOK'
  BY <1>2, <1>4 DEF IInv, TypeOK, WorkerStates, poolVars, queueVars
<1>. QED  BY <1>3, <1>5 DEF IInv, QueueCounts

LEMMA DestroyJobInv ==
    ASSUME IInv, NEW w \in Workers, DestroyJob(w) PROVE IInv'
<1>. DEFINE q == QueueOf(cur[w])
<1>1. q \in Queues  BY CurrentQueue DEF DestroyJob
<1>2. qstate' \in [Queues -> QueueStates] /\ condemned' \in Seq(AsyncQueues)
  <2>1. TypeOK  BY DEF IInv
  <2>2. \/ LoseQueue(q)
        \/ DropRef(q, owned, Closures \ {cur[w]})
        \/ UNCHANGED <<qstate, condemned>>
    BY DEF DestroyJob
  <2>. QED  BY <1>1, <2>1, <2>2, LoseQueueType, DropRefType DEF TypeOK
<1>3. /\ pc[w] = "release"
      /\ UNCHANGED <<poolVars, owned, count>>
      /\ \/ pc' = [pc EXCEPT ![w] = "destroying"] /\ cur' = cur
         \/ pc' = [pc EXCEPT ![w] = "work"] /\ cur' = [cur EXCEPT ![w] = 0]
  BY DEF DestroyJob
<1>. HIDE DEF q
<1>4. TypeOK'
  <2>1. CASE pc' = [pc EXCEPT ![w] = "destroying"] /\ cur' = cur
    BY <1>2, <1>3, <2>1 DEF IInv, TypeOK, WorkerStates, poolVars
  <2>2. CASE pc' = [pc EXCEPT ![w] = "work"] /\ cur' = [cur EXCEPT ![w] = 0]
    BY <1>2, <1>3, <2>2 DEF IInv, TypeOK, WorkerStates, poolVars
  <2>. QED  BY <1>3, <2>1, <2>2
<1>5. QueueCounts'
  BY <1>3, ExecutingKept DEF IInv, TypeOK, Busy, poolVars
<1>. QED  BY <1>4, <1>5 DEF IInv

LEMMA DestroyDoneInv ==
    ASSUME IInv, NEW w \in Workers, DestroyDone(w) PROVE IInv'
<1>1. TypeOK'
  BY DEF DestroyDone, IInv, TypeOK, WorkerStates, poolVars, queueVars
<1>2. QueueCounts'
  BY ExecutingKept DEF DestroyDone, IInv, TypeOK, Busy, poolVars, queueVars
<1>. QED  BY <1>1, <1>2 DEF IInv

LEMMA QueueGoneInv ==
    ASSUME IInv, NEW q \in Queues, QueueGone(q) PROVE IInv'
<1>1. TypeOK'
  BY DEF QueueGone, IInv, TypeOK, QueueStates, poolVars
<1>2. QueueCounts'
  BY ExecutingKept DEF QueueGone, Busy, poolVars
<1>. QED  BY <1>1, <1>2 DEF IInv

LEMMA DeleteNextInv ==
    ASSUME IInv, DeleteNext PROVE IInv'
<1>1. condemned \in Seq(AsyncQueues) /\ condemned # <<>>
  BY DEF DeleteNext, IInv, TypeOK
<1>2. Tail(condemned) \in Seq(AsyncQueues)  BY <1>1
<1>3. TypeOK'
  BY <1>2 DEF DeleteNext, IInv, TypeOK, QueueStates, poolVars
<1>4. QueueCounts'
  BY ExecutingKept DEF DeleteNext, Busy, poolVars
<1>. QED  BY <1>3, <1>4 DEF IInv

LEMMA DiscardJobInv ==
    ASSUME IInv, DiscardJob PROVE IInv'
<1>1. PICK j \in pending :
        /\ pending' = pending \ {j}
        /\ \/ DropRef(QueueOf(j), owned, Closures \ {j})
           \/ UNCHANGED <<qstate, condemned>>
  BY DEF DiscardJob
<1>2. jobs[j] \in Job  BY DEF IInv, TypeOK
<1>3. QueueOf(j) \in Queues  BY <1>2 DEF QueueOf, Job
<1>4. qstate' \in [Queues -> QueueStates] /\ condemned' \in Seq(AsyncQueues)
  BY <1>1, <1>3, DropRefType DEF IInv, TypeOK
<1>5. TypeOK'
  BY <1>1, <1>4 DEF DiscardJob, IInv, TypeOK
<1>6. QueueCounts'
  BY ExecutingKept DEF DiscardJob, Busy
<1>. QED  BY <1>5, <1>6 DEF IInv

-----------------------------------------------------------------------------
(* The inductive invariant, and what follows from it.                      *)

LEMMA StepInv == IInv /\ [Next]_vars => IInv'
<1>. SUFFICES ASSUME IInv, [Next]_vars PROVE IInv'  OBVIOUS
<1>1. CASE User
  BY <1>1, ScheduleInv, AddThreadInv, ReleaseQueueInv, DestroyPoolInv DEF User
<1>2. CASE \E w \in Workers : Worker(w)
  BY <1>2, IdleStepInv, PopInv, JobStartedInv, ReleaseInBodyInv, JobFinishedInv,
     DestroyJobInv, DestroyDoneInv DEF Worker, Progress
<1>3. CASE Background
  BY <1>3, QueueGoneInv, DeleteNextInv, DiscardJobInv DEF Background
<1>4. CASE UNCHANGED vars
  <2>1. TypeOK'  BY <1>4 DEF IInv, TypeOK, vars
  <2>2. QueueCounts'  BY <1>4, ExecutingKept DEF vars
  <2>. QED  BY <2>1, <2>2 DEF IInv
<1>. QED  BY <1>1, <1>2, <1>3, <1>4 DEF Next

LEMMA Invariance == Spec => []IInv
<1>1. Init => IInv  BY InitType DEF IInv
<1>. QED  BY <1>1, StepInv, PTL DEF Spec

\* Type correctness.  That count stays a natural number, in particular, is
\* because every jobFinished() of queue.cc comes after a jobStarted().
THEOREM TypeCorrect == Spec => []TypeOK
BY Invariance, PTL DEF IInv

\* The counter of QueueImpl is exact, whatever the order in which jobs
\* start, finish and are skipped, and queues are deleted.
THEOREM CountsExact == Spec => []QueueCounts
BY Invariance, PTL DEF IInv

-----------------------------------------------------------------------------
(* The promise of Queue's destructor.  It rests on QueueCounts: deletion   *)
(* ends when count is 0, that is, when nothing is executing; and from then *)
(* on jobStarted() says no.                                                *)

LEMMA GoneStep == IInv /\ NothingRunsOnGoneQueue /\ [Next]_vars => NothingRunsOnGoneQueue'
<1>. SUFFICES ASSUME IInv, NothingRunsOnGoneQueue, [Next]_vars,
                     NEW v \in Workers, pc'[v] \in {"run", "resetting"}
              PROVE  qstate'[QueueOf(cur[v])'] # "gone"
  BY DEF NothingRunsOnGoneQueue
<1>. DEFINE r == QueueOf(cur[v])
<1>types. pc \in [Workers -> WorkerStates] /\ cur \in [Workers -> Nat]
  BY DEF IInv, TypeOK
<1>busy. ASSUME pc[v] \in {"run", "resetting"}
         PROVE  r \in Queues /\ qstate[r] # "gone" /\ cur[v] \in DOMAIN jobs
  BY <1>busy, CurrentQueue DEF NothingRunsOnGoneQueue, Busy
<1>qstate. qstate \in [Queues -> QueueStates]  BY DEF IInv, TypeOK
\* No step but QueueGone makes a queue gone.
<1>lose. ASSUME NEW q, NEW x \in Queues, NEW o, NEW c,
                LoseQueue(q) \/ DropRef(q, o, c) \/ UNCHANGED qstate, qstate[x] # "gone"
         PROVE  qstate'[x] # "gone"
  BY <1>lose, <1>qstate DEF LoseQueue, DropRef
\* Nor does any step change the queue of a job.
<1>jobs. ASSUME pc[v] \in {"run", "resetting"}, cur'[v] = cur[v] PROVE QueueOf(cur[v])' = r
  <2>1. CASE \E p \in Prios, q \in Queues, h \in BOOLEAN : Schedule(p, q, h)
    <3>1. PICK x \in Job : jobs' = Append(jobs, x)
      BY <2>1 DEF Schedule, Job
    <3>2. jobs'[cur[v]] = jobs[cur[v]]
      BY <1>busy, <1>jobs, <3>1, AppendJob DEF IInv, TypeOK
    <3>. QED  BY <1>jobs, <3>2 DEF QueueOf
  <2>2. CASE jobs' = jobs  BY <1>jobs, <2>2 DEF QueueOf
  <2>3. \/ jobs' = jobs
        \/ \E p \in Prios, q \in Queues, h \in BOOLEAN : Schedule(p, q, h)
    BY DEF Next, User, Worker, Progress, Background, AddThread, ReleaseQueue, DestroyPool,
       Claim, Wait, Exit, SpuriousWakeup, Pop, JobStarted, ReleaseInBody, JobFinished,
       DestroyJob, DestroyDone, QueueGone, DeleteNext, DiscardJob, poolVars, vars
  <2>. QED  BY <2>1, <2>2, <2>3
\* All that is left is to see what v did.
<1>kept. ASSUME pc[v] \in {"run", "resetting"}, cur'[v] = cur[v], NEW q, NEW o, NEW c,
                LoseQueue(q) \/ DropRef(q, o, c) \/ UNCHANGED qstate
         PROVE  qstate'[QueueOf(cur[v])'] # "gone"
  BY <1>busy, <1>lose, <1>jobs, <1>kept
<1>1. CASE User
  <2>1. pc[v] \in {"run", "resetting"} /\ cur' = cur
    BY <1>1, <1>types DEF User, Schedule, NotifyOne, AddThread, ReleaseQueue, DestroyPool, NotifyAll
  <2>2. \E q, o, c : DropRef(q, o, c) \/ UNCHANGED qstate
    BY <1>1 DEF User, Schedule, AddThread, ReleaseQueue, DestroyPool, queueVars
  <2>. QED  BY <2>1, <2>2, <1>kept
<1>2. ASSUME NEW w \in Workers, Worker(w) PROVE qstate'[QueueOf(cur[v])'] # "gone"
  <2>1. CASE JobStarted(w)
    <3>1. CASE v = w
      <4>1. qstate' = qstate /\ cur' = cur /\ jobs' = jobs
        BY <2>1 DEF JobStarted, poolVars, queueVars
      <4>2. ~IsDeleted(r)
        BY <2>1, <3>1, <1>types DEF JobStarted
      <4>. QED  BY <4>1, <4>2 DEF IsDeleted, QueueOf
    <3>2. CASE v # w
      BY <2>1, <3>2, <1>types, <1>kept DEF JobStarted, queueVars
    <3>. QED  BY <3>1, <3>2
  <2>2. CASE Claim(w) \/ Wait(w) \/ Exit(w) \/ SpuriousWakeup(w) \/ JobFinished(w) \/ DestroyDone(w)
    <3>1. pc[v] \in {"run", "resetting"} /\ cur'[v] = cur[v] /\ UNCHANGED qstate
      BY <2>2, <1>types DEF Claim, Wait, Exit, SpuriousWakeup, JobFinished, DestroyDone, queueVars
    <3>. QED  BY <3>1, <1>kept
  <2>3. CASE Pop(w)
    <3>1. pc[v] \in {"run", "resetting"} /\ cur'[v] = cur[v] /\ UNCHANGED qstate
      BY <2>3, <1>types DEF Pop, queueVars
    <3>. QED  BY <3>1, <1>kept
  <2>4. CASE ReleaseInBody(w)
    <3>1. pc[v] \in {"run", "resetting"} /\ cur'[v] = cur[v]
      BY <2>4, <1>types DEF ReleaseInBody
    <3>2. \E q, o, c : DropRef(q, o, c)  BY <2>4 DEF ReleaseInBody
    <3>. QED  BY <3>1, <3>2, <1>kept
  <2>5. CASE DestroyJob(w)
    <3>1. pc[v] \in {"run", "resetting"} /\ cur'[v] = cur[v]
      BY <2>5, <1>types DEF DestroyJob
    <3>2. \E q, o, c : LoseQueue(q) \/ DropRef(q, o, c) \/ UNCHANGED qstate
      BY <2>5 DEF DestroyJob
    <3>. QED  BY <3>1, <3>2, <1>kept
  <2>. QED  BY <1>2, <2>1, <2>2, <2>3, <2>4, <2>5 DEF Worker, Progress
<1>3. ASSUME NEW q \in Queues, QueueGone(q) PROVE qstate'[QueueOf(cur[v])'] # "gone"
  <2>1. /\ pc[v] \in {"run", "resetting"} /\ cur' = cur /\ jobs' = jobs
        /\ count[q] = 0 /\ qstate' = [qstate EXCEPT ![q] = "gone"]
    BY <1>3 DEF QueueGone, poolVars
  <2>2. r # q
    <3>1. SUFFICES ASSUME r = q PROVE FALSE  OBVIOUS
    <3>2. v \in Executing(q) /\ Executing(q) \subseteq Workers
      BY <2>1, <3>1 DEF Executing
    <3>3. Cardinality(Executing(q)) = 0
      BY <2>1 DEF IInv, QueueCounts
    <3>. QED  BY <3>2, <3>3, CountOut
  <2>3. QueueOf(cur[v])' = r  BY <2>1 DEF QueueOf
  <2>4. r \in Queues /\ qstate[r] # "gone"  BY <2>1, <1>busy
  <2>. HIDE DEF r
  <2>. QED  BY <2>1, <2>2, <2>3, <2>4, <1>qstate
<1>4. CASE DeleteNext
  <2>1. pc[v] \in {"run", "resetting"} /\ cur' = cur
    BY <1>4 DEF DeleteNext
  <2>2. QueueOf(cur[v])' = r  BY <2>1, <1>jobs
  <2>3. r \in Queues /\ qstate[r] # "gone"  BY <2>1, <1>busy
  <2>. HIDE DEF r
  <2>. QED  BY <1>4, <2>2, <2>3, <1>qstate DEF DeleteNext
<1>5. CASE DiscardJob
  BY <1>5, <1>kept DEF DiscardJob
<1>6. CASE UNCHANGED vars
  BY <1>6, <1>kept DEF vars
<1>. QED  BY <1>1, <1>2, <1>3, <1>4, <1>5, <1>6 DEF Next, Background

\* After the destructor of a Queue has returned, no job of the queue is
\* running, on any thread, and none will (threadpool.hh, on Queue).
THEOREM QueueDestructorIsFinal == Spec => []NothingRunsOnGoneQueue
<1>1. Init => NothingRunsOnGoneQueue
  BY DEF Init, NothingRunsOnGoneQueue
<1>. QED  BY <1>1, Invariance, GoneStep, PTL DEF Spec

-----------------------------------------------------------------------------
(* The claims of the workers.  A claim takes one from jobcount, a pop one   *)
(* from the map: the difference is always the number of claimers.          *)

LEMMA PendingFinite ==
    ASSUME IInv PROVE IsFiniteSet(pending) /\ Cardinality(pending) \in Nat
<1>1. DOMAIN jobs = 1..Len(jobs) /\ Len(jobs) \in Nat  BY DEF IInv, TypeOK
<1>2. IsFiniteSet(DOMAIN jobs)  BY <1>1, FS_Interval
<1>3. pending \in SUBSET DOMAIN jobs  BY DEF IInv, TypeOK
<1>. QED  BY <1>2, <1>3, FS_Subset, FS_CardinalityType

\* The four ways in which a step can treat the claims and the jobs.
LEMMA ClaimsCases ==
    ASSUME IInv, [Next]_vars
    PROVE  \/ /\ UNCHANGED <<jobcount, pending>>
              /\ Claimers' = Claimers
           \/ /\ alive
              /\ jobcount' = jobcount + 1
              /\ pending' = pending \cup {Len(jobs) + 1}
              /\ Claimers' = Claimers
           \/ \E w \in Workers :
                 /\ w \notin Claimers
                 /\ Claimers' = Claimers \cup {w}
                 /\ jobcount' = jobcount - 1
                 /\ pending' = pending
           \/ \E w \in Claimers, j \in pending :
                 /\ Claimers' = Claimers \ {w}
                 /\ pending' = pending \ {j}
                 /\ jobcount' = jobcount
           \/ ~DataExists /\ DiscardJob
<1>types. pc \in [Workers -> WorkerStates]  BY DEF IInv, TypeOK
<1>1. ASSUME NEW p \in Prios, NEW q \in Queues, NEW h \in BOOLEAN, Schedule(p, q, h)
      PROVE  /\ alive
             /\ jobcount' = jobcount + 1
             /\ pending' = pending \cup {Len(jobs) + 1}
             /\ Claimers' = Claimers
  BY <1>1, <1>types DEF Schedule, NotifyOne, Claimers
<1>2. CASE \/ \E w \in Workers : AddThread(w)
           \/ \E q \in Queues : ReleaseQueue(q)
           \/ DestroyPool
  <2>1. UNCHANGED <<jobcount, pending>>
    BY <1>2 DEF AddThread, ReleaseQueue, DestroyPool, poolVars
  <2>2. Claimers' = Claimers
    BY <1>2, <1>types DEF AddThread, ReleaseQueue, DestroyPool, NotifyAll, Claimers
  <2>. QED  BY <2>1, <2>2
<1>3. ASSUME NEW w \in Workers, Claim(w)
      PROVE  /\ w \notin Claimers
             /\ Claimers' = Claimers \cup {w}
             /\ jobcount' = jobcount - 1
             /\ pending' = pending
  BY <1>3, <1>types DEF Claim, Claimers
<1>4. ASSUME NEW w \in Workers, Pop(w)
      PROVE  /\ w \in Claimers
             /\ Claimers' = Claimers \ {w}
             /\ \E j \in pending : pending' = pending \ {j}
             /\ jobcount' = jobcount
  BY <1>4, <1>types DEF Pop, Claimers
<1>5. ASSUME NEW w \in Workers,
             \/ Wait(w) \/ Exit(w) \/ SpuriousWakeup(w) \/ JobStarted(w)
             \/ ReleaseInBody(w) \/ JobFinished(w) \/ DestroyJob(w) \/ DestroyDone(w)
      PROVE  UNCHANGED <<jobcount, pending>> /\ Claimers' = Claimers
  <2>1. UNCHANGED <<jobcount, pending>>
    BY <1>5 DEF Wait, Exit, SpuriousWakeup, JobStarted, ReleaseInBody, JobFinished,
                DestroyJob, DestroyDone, poolVars
  <2>2. pc[w] # "claimed" /\ \E s \in WorkerStates \ {"claimed"} : pc' = [pc EXCEPT ![w] = s]
    BY <1>5 DEF Wait, Exit, SpuriousWakeup, JobStarted, ReleaseInBody, JobFinished,
                DestroyJob, DestroyDone, WorkerStates
  <2>3. Claimers' = Claimers  BY <2>2, <1>types DEF Claimers
  <2>. QED  BY <2>1, <2>3
<1>6. CASE (\E q \in Queues : QueueGone(q)) \/ DeleteNext \/ UNCHANGED vars
  BY <1>6 DEF QueueGone, DeleteNext, poolVars, vars, Claimers
<1>7. CASE DiscardJob
  BY <1>7 DEF DiscardJob
<1>. QED  BY <1>1, <1>2, <1>3, <1>4, <1>5, <1>6, <1>7
          DEF Next, User, Worker, Progress, Background

\* Once PrivateData is gone it stays so, and no thread moves.
LEMMA DataStaysGone ==
    ASSUME IInv, [Next]_vars, ~DataExists
    PROVE  UNCHANGED <<alive, pc>> /\ pending' \subseteq pending /\ ~DataExists'
<1>1. ~alive /\ \A w \in Workers : pc[w] \in {"absent", "exit"}
  BY DEF DataExists
<1>2. \A w \in Workers : ~Worker(w)
  BY <1>1 DEF Worker, Progress, Claim, Wait, Exit, SpuriousWakeup, Pop, JobStarted,
              ReleaseInBody, JobFinished, DestroyJob, DestroyDone
<1>3. UNCHANGED <<alive, pc>> /\ pending' \subseteq pending
  BY <1>1, <1>2 DEF Next, User, Background, Schedule, AddThread, ReleaseQueue, DestroyPool,
                    QueueGone, DeleteNext, DiscardJob, poolVars, vars
<1>. QED  BY <1>3, <1>1 DEF DataExists

LEMMA ClaimsStep == IInv /\ ClaimsAccounted /\ [Next]_vars => ClaimsAccounted'
<1>. SUFFICES ASSUME IInv, ClaimsAccounted, [Next]_vars, DataExists'
              PROVE  Cardinality(pending') = jobcount' + Cardinality(Claimers')
  BY DEF ClaimsAccounted
<1>. DEFINE J == Cardinality(pending)
            C == Cardinality(Claimers)
<1>1. DataExists  BY DataStaysGone
<1>2. J = jobcount + C  BY <1>1 DEF ClaimsAccounted
<1>3. IsFiniteSet(pending) /\ J \in Nat  BY PendingFinite
<1>4. Claimers \subseteq Workers /\ C \in Nat  BY WorkersFinite DEF Claimers
<1>5. jobcount \in Nat  BY DEF IInv, TypeOK
<1>6. CASE jobcount' = jobcount + 1 /\ pending' = pending \cup {Len(jobs) + 1}
           /\ Claimers' = Claimers
  <2>1. Len(jobs) + 1 \notin pending  BY DEF IInv, TypeOK
  <2>2. Cardinality(pending') = J + 1  BY <1>3, <1>6, <2>1, FS_AddElement
  <2>. QED  BY <1>2, <1>3, <1>4, <1>5, <1>6, <2>2
<1>7. ASSUME NEW w \in Workers, w \notin Claimers, Claimers' = Claimers \cup {w},
             jobcount' = jobcount - 1, pending' = pending
      PROVE  Cardinality(pending') = jobcount' + Cardinality(Claimers')
  <2>1. Cardinality(Claimers') = C + 1  BY <1>4, <1>7, CountIn
  <2>. QED  BY <1>2, <1>3, <1>4, <1>5, <1>7, <2>1
<1>8. ASSUME NEW w \in Claimers, NEW j \in pending, Claimers' = Claimers \ {w},
             pending' = pending \ {j}, jobcount' = jobcount
      PROVE  Cardinality(pending') = jobcount' + Cardinality(Claimers')
  <2>1. Cardinality(Claimers') = C - 1  BY <1>4, <1>8, CountOut
  <2>2. Cardinality(pending') = J - 1  BY <1>3, <1>8, FS_RemoveElement
  <2>. QED  BY <1>2, <1>3, <1>4, <1>5, <1>8, <2>1, <2>2
<1>. QED  BY <1>1, <1>2, <1>6, <1>7, <1>8, ClaimsCases

LEMMA ClaimsInvariance == Spec => [](IInv /\ ClaimsAccounted)
<1>1. Init => ClaimsAccounted
  <2>. SUFFICES ASSUME Init PROVE ClaimsAccounted  OBVIOUS
  <2>1. Claimers = {} /\ pending = {} /\ jobcount = 0  BY DEF Init, Claimers
  <2>. QED  BY <2>1, FS_EmptySet DEF ClaimsAccounted
<1>. QED  BY <1>1, Invariance, ClaimsStep, PTL DEF Spec

\* However claims, pops and new jobs interleave, every claim has a job in the
\* map: do_one() never finds the map empty.
THEOREM ClaimsAreCovered == Spec => []ClaimsAccounted
BY ClaimsInvariance, PTL

-----------------------------------------------------------------------------
(* completeAllJobsBeforeDestruction.  Only the last thread to exit can end  *)
(* PrivateData with a thread in exit; it has seen jobcount = 0, and as      *)
(* nobody else is left to hold a claim, there is no job in the map either.  *)

NobodyExitsAlive == alive => \A w \in Workers : pc[w] # "exit"

LEMMA NobodyExitsStep == IInv /\ NobodyExitsAlive /\ [Next]_vars => NobodyExitsAlive'
<1>. SUFFICES ASSUME IInv, NobodyExitsAlive, [Next]_vars, alive',
                     NEW v \in Workers, pc'[v] = "exit"
              PROVE  FALSE
  BY DEF NobodyExitsAlive
<1>types. pc \in [Workers -> WorkerStates]  BY DEF IInv, TypeOK
<1>1. CASE User
  BY <1>1, <1>types DEF User, Schedule, NotifyOne, AddThread, ReleaseQueue, DestroyPool,
                        poolVars, NobodyExitsAlive
<1>2. ASSUME NEW w \in Workers, Worker(w) PROVE FALSE
  <2>1. alive' = alive
    BY <1>2 DEF Worker, Progress, Claim, Wait, Exit, SpuriousWakeup, Pop, JobStarted,
                ReleaseInBody, JobFinished, DestroyJob, DestroyDone, poolVars
  <2>2. ~Exit(w)  BY <2>1 DEF Exit
  <2>3. \E s \in WorkerStates \ {"exit"} : pc' = [pc EXCEPT ![w] = s]
    BY <1>2, <2>2 DEF Worker, Progress, Claim, Wait, SpuriousWakeup, Pop, JobStarted,
                ReleaseInBody, JobFinished, DestroyJob, DestroyDone, WorkerStates
  <2>. QED  BY <2>1, <2>3, <1>types DEF NobodyExitsAlive
<1>3. CASE Background \/ UNCHANGED vars
  BY <1>3 DEF Background, QueueGone, DeleteNext, DiscardJob, poolVars, vars, NobodyExitsAlive
<1>. QED  BY <1>1, <1>2, <1>3 DEF Next

LEMMA CompletesStep ==
    IInv /\ ClaimsAccounted /\ NobodyExitsAlive /\ CompletesAll /\ [Next]_vars => CompletesAll'
<1>. SUFFICES ASSUME IInv, ClaimsAccounted, NobodyExitsAlive, CompletesAll, [Next]_vars,
                     CompleteAll, ~DataExists', NEW x \in Workers, pc'[x] = "exit"
              PROVE  pending' = {}
  BY DEF CompletesAll
<1>types. pc \in [Workers -> WorkerStates]  BY DEF IInv, TypeOK
<1>gone. ~alive' /\ \A v \in Workers : pc'[v] \in {"absent", "exit"}
  BY DEF DataExists
<1>1. CASE ~DataExists
  BY <1>1, DataStaysGone DEF CompletesAll
<1>2. ASSUME DataExists, NEW w \in Workers, Exit(w) PROVE pending' = {}
  <2>1. ~alive /\ jobcount = 0 /\ pending' = pending /\ pc' = [pc EXCEPT ![w] = "exit"]
        /\ pc[w] = "work"
    BY <1>2 DEF Exit, poolVars
  <2>2. Claimers = {}  BY <1>gone, <1>types, <2>1 DEF Claimers
  <2>3. Cardinality(pending) = 0
    BY <1>2, <2>1, <2>2, FS_EmptySet DEF ClaimsAccounted
  <2>. QED  BY <2>1, <2>3, PendingFinite, FS_EmptySet
<1>3. ASSUME DataExists, NEW w \in Workers, Worker(w), ~Exit(w) PROVE FALSE
  <2>1. \E s \in WorkerStates \ {"absent", "exit"} : pc' = [pc EXCEPT ![w] = s]
    BY <1>3 DEF Worker, Progress, Claim, Wait, SpuriousWakeup, Pop, JobStarted,
                ReleaseInBody, JobFinished, DestroyJob, DestroyDone, WorkerStates
  <2>. QED  BY <2>1, <1>gone, <1>types
<1>4. ASSUME DataExists, DestroyPool PROVE FALSE
  BY <1>4, <1>types DEF DestroyPool, NotifyAll, NobodyExitsAlive
<1>5. ASSUME DataExists, User, ~DestroyPool PROVE FALSE
  <2>1. CASE (\E p \in Prios, q \in Queues, h \in BOOLEAN : Schedule(p, q, h))
             \/ \E w \in Workers : AddThread(w)
    <3>1. alive /\ alive' = alive
      BY <2>1 DEF Schedule, AddThread, poolVars
    <3>. QED  BY <1>gone, <3>1
  <2>2. CASE \E q \in Queues : ReleaseQueue(q)
    BY <1>5, <1>gone, <2>2 DEF ReleaseQueue, DataExists, poolVars
  <2>. QED  BY <1>5, <2>1, <2>2 DEF User
<1>6. ASSUME DataExists, Background \/ UNCHANGED vars PROVE FALSE
  BY <1>6, <1>gone DEF Background, QueueGone, DeleteNext, DiscardJob, DataExists, poolVars, vars
<1>. QED  BY <1>1, <1>2, <1>3, <1>4, <1>5, <1>6 DEF Next

\* With completeAllJobsBeforeDestruction, no job is left in the map when the
\* last thread has returned from work().
THEOREM JobsAreCompleted == Spec => []CompletesAll
<1>1. Init => NobodyExitsAlive /\ CompletesAll
  BY DEF Init, NobodyExitsAlive, CompletesAll
<1>. QED  BY <1>1, ClaimsInvariance, NobodyExitsStep, CompletesStep, PTL DEF Spec

-----------------------------------------------------------------------------
(* Wakeups.  A claim takes one job and one thread off the balance, and      *)
(* schedule() adds one of each while anybody sleeps.  The one step that     *)
(* takes a thread and no job is Exit, when nobody sleeps any more.          *)

Awake == {w \in Workers : pc[w] = "work"}

NobodySleepsWhenDestroyed == ~alive => \A w \in Workers : pc[w] # "wait"

LEMMA SleepStep == IInv /\ NobodySleepsWhenDestroyed /\ [Next]_vars => NobodySleepsWhenDestroyed'
<1>. SUFFICES ASSUME IInv, NobodySleepsWhenDestroyed, [Next]_vars, ~alive',
                     NEW v \in Workers, pc'[v] = "wait"
              PROVE  FALSE
  BY DEF NobodySleepsWhenDestroyed
<1>types. pc \in [Workers -> WorkerStates]  BY DEF IInv, TypeOK
<1>1. CASE User
  <2>1. ~DestroyPool  BY <1>types DEF DestroyPool, NotifyAll
  <2>2. pc[v] = "wait"
    BY <1>1, <2>1, <1>types DEF User, Schedule, NotifyOne, AddThread, ReleaseQueue
  <2>3. alive' = alive
    BY <1>1, <2>1 DEF User, Schedule, AddThread, ReleaseQueue, poolVars
  <2>. QED  BY <2>2, <2>3 DEF NobodySleepsWhenDestroyed
<1>2. ASSUME NEW w \in Workers, Worker(w) PROVE FALSE
  <2>1. alive' = alive
    BY <1>2 DEF Worker, Progress, Claim, Wait, Exit, SpuriousWakeup, Pop, JobStarted,
                ReleaseInBody, JobFinished, DestroyJob, DestroyDone, poolVars
  <2>2. ~Wait(w)
    <3>1. Wait(w) => alive  BY DEF Wait
    <3>. QED  BY <2>1, <3>1
  <2>3. \E s \in WorkerStates \ {"wait"} : pc' = [pc EXCEPT ![w] = s]
    BY <1>2, <2>2 DEF Worker, Progress, Claim, Exit, SpuriousWakeup, Pop, JobStarted,
                ReleaseInBody, JobFinished, DestroyJob, DestroyDone, WorkerStates
  <2>. QED  BY <2>1, <2>3, <1>types DEF NobodySleepsWhenDestroyed
<1>3. CASE Background \/ UNCHANGED vars
  BY <1>3 DEF Background, QueueGone, DeleteNext, DiscardJob, poolVars, vars,
              NobodySleepsWhenDestroyed
<1>. QED  BY <1>1, <1>2, <1>3 DEF Next

LEMMA WakeupStep ==
    IInv /\ NobodySleepsWhenDestroyed /\ NoLostWakeup /\ [Next]_vars => NoLostWakeup'
<1>. SUFFICES ASSUME IInv, NobodySleepsWhenDestroyed, NoLostWakeup, [Next]_vars,
                     NEW v \in Workers, pc'[v] = "wait"
              PROVE  jobcount' <= Cardinality(Awake')
  BY DEF NoLostWakeup, Awake
<1>. DEFINE A == Cardinality(Awake)
<1>types. pc \in [Workers -> WorkerStates] /\ jobcount \in Nat  BY DEF IInv, TypeOK
<1>awake. Awake \subseteq Workers /\ Awake' \subseteq Workers  BY DEF Awake
<1>card. A \in Nat /\ Cardinality(Awake') \in Nat  BY <1>awake, WorkersFinite
\* Whoever slept already, there were enough awake.
<1>enough. ASSUME NEW u \in Workers, pc[u] = "wait" PROVE jobcount <= A
  BY <1>enough DEF NoLostWakeup, Awake
\* It is enough that jobcount does not grow and nobody awake goes away.
<1>more. ASSUME NEW u \in Workers, pc[u] = "wait", jobcount' = jobcount, Awake \subseteq Awake'
         PROVE  jobcount' <= Cardinality(Awake')
  <2>1. A <= Cardinality(Awake')  BY <1>awake, <1>more, WorkersFinite, FS_Subset
  <2>. QED  BY <1>enough, <1>more, <1>types, <1>card, <2>1
<1>1. ASSUME NEW p \in Prios, NEW q \in Queues, NEW h \in BOOLEAN, Schedule(p, q, h)
      PROVE  jobcount' <= Cardinality(Awake')
  <2>1. PICK u \in Workers : pc[u] = "wait" /\ pc' = [pc EXCEPT ![u] = "work"]
    BY <1>1 DEF Schedule, NotifyOne
  <2>2. Awake' = Awake \cup {u} /\ u \notin Awake  BY <2>1, <1>types DEF Awake
  <2>3. Cardinality(Awake') = A + 1  BY <2>2, <1>awake, CountIn
  <2>4. jobcount' = jobcount + 1  BY <1>1 DEF Schedule
  <2>. QED  BY <2>1, <2>3, <2>4, <1>enough, <1>types, <1>card
<1>2. ASSUME \/ \E w \in Workers : AddThread(w)
             \/ \E q \in Queues : ReleaseQueue(q)
      PROVE  jobcount' <= Cardinality(Awake')
  <2>1. pc[v] = "wait" /\ jobcount' = jobcount /\ Awake \subseteq Awake'
    BY <1>2, <1>types DEF AddThread, ReleaseQueue, Awake, poolVars
  <2>. QED  BY <2>1, <1>more
<1>3. CASE DestroyPool
  BY <1>3, <1>types DEF DestroyPool, NotifyAll
<1>4. ASSUME NEW w \in Workers, Claim(w) PROVE jobcount' <= Cardinality(Awake')
  <2>1. w \in Awake /\ Awake' = Awake \ {w} /\ pc[v] = "wait" /\ jobcount' = jobcount - 1
    BY <1>4, <1>types DEF Claim, Awake
  <2>2. Cardinality(Awake') = A - 1  BY <2>1, <1>awake, CountOut
  <2>. QED  BY <2>1, <2>2, <1>enough, <1>types, <1>card
<1>5. ASSUME NEW w \in Workers, Wait(w) PROVE jobcount' <= Cardinality(Awake')
  <2>1. jobcount' = 0  BY <1>5 DEF Wait, poolVars
  <2>. QED  BY <2>1, <1>card
<1>6. ASSUME NEW w \in Workers, Exit(w) PROVE FALSE
  <2>1. ~alive /\ pc[v] = "wait"  BY <1>6, <1>types DEF Exit
  <2>. QED  BY <2>1 DEF NobodySleepsWhenDestroyed
<1>7. ASSUME NEW w \in Workers,
             \/ SpuriousWakeup(w) \/ Pop(w) \/ JobStarted(w) \/ ReleaseInBody(w)
             \/ JobFinished(w) \/ DestroyJob(w) \/ DestroyDone(w)
      PROVE  jobcount' <= Cardinality(Awake')
  <2>1. pc[w] # "work" /\ \E s \in WorkerStates \ {"wait"} : pc' = [pc EXCEPT ![w] = s]
    BY <1>7 DEF SpuriousWakeup, Pop, JobStarted, ReleaseInBody, JobFinished, DestroyJob,
                DestroyDone, WorkerStates
  <2>2. pc[v] = "wait" /\ Awake \subseteq Awake'  BY <2>1, <1>types DEF Awake
  <2>3. jobcount' = jobcount
    BY <1>7 DEF SpuriousWakeup, Pop, JobStarted, ReleaseInBody, JobFinished, DestroyJob,
                DestroyDone, poolVars
  <2>. QED  BY <2>2, <2>3, <1>more
<1>8. ASSUME Background \/ UNCHANGED vars PROVE jobcount' <= Cardinality(Awake')
  <2>1. UNCHANGED <<pc, jobcount>>
    BY <1>8 DEF Background, QueueGone, DeleteNext, DiscardJob, poolVars, vars
  <2>2. pc[v] = "wait" /\ Awake' = Awake  BY <2>1 DEF Awake
  <2>. QED  BY <2>1, <2>2, <1>more
<1>. QED  BY <1>1, <1>2, <1>3, <1>4, <1>5, <1>6, <1>7, <1>8
          DEF Next, User, Worker, Progress

\* One notify_one() per job is enough, whatever number of threads sleep, work,
\* are added or wake up for no reason: no job is left to a sleeping thread.
THEOREM WakeupsSuffice == Spec => []NoLostWakeup
<1>1. Init => NobodySleepsWhenDestroyed /\ NoLostWakeup
  BY DEF Init, NobodySleepsWhenDestroyed, NoLostWakeup
<1>. QED  BY <1>1, Invariance, SleepStep, WakeupStep, PTL DEF Spec

-----------------------------------------------------------------------------
(* The pool keeps JobContract.  What a user sees of a job is a matter of    *)
(* where it is, which is one place: in the map, or with one thread.  A      *)
(* queue made by createAsync() is open to its users until the deleter gets  *)
(* to it, which it does once.                                               *)

\* Each job is in one place.
JobsApart ==
    /\ \A w \in Workers : cur[w] \notin pending
    /\ \A v, w \in Workers : cur[v] = cur[w] /\ cur[v] # 0 => v = w

\* The deleter has each queue once, and nobody else deletes it.
CondemnedFit ==
    /\ \A i \in DOMAIN condemned : qstate[condemned[i]] = "condemned"
    /\ \A i, k \in DOMAIN condemned : condemned[i] = condemned[k] => i = k

\* The threads that the constructor starts are there until they return.
StartersStay == \A w \in InitialWorkers : pc[w] # "absent"

KInv == /\ IInv /\ ClaimsAccounted /\ NobodyExitsAlive /\ CompletesAll
        /\ JobsApart /\ CondemnedFit /\ StartersStay

\* Where the thread is that has a job, as far as the contract is concerned.
Starting(w) == pc[w] = "start"
Running(w)  == pc[w] \in {"run", "resetting"}

\* The deletion of a queue begins, or it is left to the deleter.
LEMMA LoseQueueFits ==
    ASSUME IInv, CondemnedFit, NEW q \in Queues, qstate[q] = "live", LoseQueue(q)
    PROVE  CondemnedFit'
<1>1. qstate \in [Queues -> QueueStates] /\ condemned \in Seq(AsyncQueues) /\ AsyncQueues \subseteq Queues
  BY QueuesAssumption DEF IInv, TypeOK
<1>2. \A i \in DOMAIN condemned : condemned[i] \in Queues /\ condemned[i] # q
  BY <1>1 DEF CondemnedFit
<1>3. CASE q \notin AsyncQueues
  BY <1>1, <1>2, <1>3 DEF LoseQueue, CondemnedFit
<1>4. CASE q \in AsyncQueues
  <2>1. condemned' = Append(condemned, q) /\ qstate' = [qstate EXCEPT ![q] = "condemned"]
    BY <1>4 DEF LoseQueue
  <2>2. /\ DOMAIN condemned' = DOMAIN condemned \cup {Len(condemned) + 1}
        /\ Len(condemned) + 1 \notin DOMAIN condemned
        /\ \A i \in DOMAIN condemned : condemned'[i] = condemned[i]
        /\ condemned'[Len(condemned) + 1] = q
    BY <1>1, <1>4, <2>1
  <2>3. \A i \in DOMAIN condemned : qstate'[condemned[i]] = "condemned"
    BY <1>1, <1>2, <2>1 DEF CondemnedFit
  <2>4. qstate'[q] = "condemned"  BY <1>1, <2>1
  <2>. QED  BY <1>2, <2>2, <2>3, <2>4 DEF CondemnedFit
<1>. QED  BY <1>3, <1>4

LEMMA DropRefFits ==
    ASSUME IInv, CondemnedFit, NEW q \in Queues, NEW owners, NEW closures,
           DropRef(q, owners, closures)
    PROVE  CondemnedFit'
BY LoseQueueFits DEF DropRef, CondemnedFit

\* The list of the deleter changes when a queue loses its last owner, and when the
\* deleter starts.
LEMMA CondemnedStep == IInv /\ CondemnedFit /\ [Next]_vars => CondemnedFit'
<1>. SUFFICES ASSUME IInv, CondemnedFit, [Next]_vars PROVE CondemnedFit'  OBVIOUS
<1>1. CASE UNCHANGED <<qstate, condemned>>
  BY <1>1 DEF CondemnedFit
<1>2. ASSUME NEW q \in Queues, ReleaseQueue(q) PROVE CondemnedFit'
  BY <1>2, DropRefFits DEF ReleaseQueue
<1>3. ASSUME NEW w \in Workers, ReleaseInBody(w) PROVE CondemnedFit'
  <2>1. QueueOf(cur[w]) \in Queues  BY <1>3, CurrentQueue DEF ReleaseInBody, Busy
  <2>. QED  BY <1>3, <2>1, DropRefFits DEF ReleaseInBody
<1>4. ASSUME NEW w \in Workers, DestroyJob(w) PROVE CondemnedFit'
  <2>1. QueueOf(cur[w]) \in Queues  BY <1>4, CurrentQueue DEF DestroyJob
  <2>2. CASE jobs[cur[w]].holds /\ Blocks(QueueOf(cur[w]), owned, Closures \ {cur[w]})
    BY <1>4, <2>1, <2>2, LoseQueueFits DEF DestroyJob, Blocks
  <2>3. CASE ~(jobs[cur[w]].holds /\ Blocks(QueueOf(cur[w]), owned, Closures \ {cur[w]}))
    <3>1. \/ DropRef(QueueOf(cur[w]), owned, Closures \ {cur[w]})
          \/ UNCHANGED <<qstate, condemned>>
      BY <1>4, <2>3 DEF DestroyJob
    <3>. QED  BY <1>1, <2>1, <3>1, DropRefFits
  <2>. QED  BY <2>2, <2>3
<1>5. ASSUME NEW q \in Queues, QueueGone(q) PROVE CondemnedFit'
  <2>1. qstate \in [Queues -> QueueStates] /\ condemned \in Seq(Queues)
    BY QueuesAssumption DEF IInv, TypeOK
  <2>. QED  BY <1>5, <2>1 DEF QueueGone, CondemnedFit
<1>6. CASE DeleteNext
  <2>1. qstate \in [Queues -> QueueStates] /\ condemned \in Seq(Queues) /\ condemned # <<>>
    BY <1>6, QueuesAssumption DEF IInv, TypeOK, DeleteNext
  <2>2. /\ 1 \in DOMAIN condemned /\ Head(condemned) = condemned[1]
        /\ \A i \in DOMAIN Tail(condemned) :
             i + 1 \in DOMAIN condemned /\ i + 1 # 1 /\ Tail(condemned)[i] = condemned[i + 1]
    BY <2>1
  <2>3. condemned' = Tail(condemned) /\ qstate' = [qstate EXCEPT ![condemned[1]] = "deleting"]
    BY <1>6, <2>2 DEF DeleteNext
  <2>4. \A i \in DOMAIN Tail(condemned) : qstate'[Tail(condemned)[i]] = "condemned"
    BY <2>1, <2>2, <2>3 DEF CondemnedFit
  <2>5. \A i, k \in DOMAIN Tail(condemned) :
          Tail(condemned)[i] = Tail(condemned)[k] => i = k
    <3>. SUFFICES ASSUME NEW i \in DOMAIN Tail(condemned), NEW k \in DOMAIN Tail(condemned),
                         Tail(condemned)[i] = Tail(condemned)[k]
                  PROVE  i = k
      OBVIOUS
    <3>1. i + 1 = k + 1  BY <2>2 DEF CondemnedFit
    <3>2. i \in Int /\ k \in Int  BY <2>1
    <3>. QED  BY <3>1, <3>2
  <2>. QED  BY <2>3, <2>4, <2>5 DEF CondemnedFit
<1>7. CASE DiscardJob
  <2>1. PICK j \in pending : \/ DropRef(QueueOf(j), owned, Closures \ {j})
                             \/ UNCHANGED <<qstate, condemned>>
    BY <1>7 DEF DiscardJob
  <2>2. QueueOf(j) \in Queues
    <3>1. j \in DOMAIN jobs /\ jobs \in Seq(Job)  BY DEF IInv, TypeOK
    <3>2. jobs[j] \in Job  BY <3>1
    <3>. QED  BY <3>2 DEF QueueOf, Job
  <2>. QED  BY <1>1, <2>1, <2>2, DropRefFits
<1>8. CASE (\E p \in Prios, q \in Queues, h \in BOOLEAN : Schedule(p, q, h))
           \/ (\E w \in Workers : AddThread(w)) \/ DestroyPool
           \/ (\E w \in Workers : \/ Claim(w) \/ Wait(w) \/ Exit(w) \/ SpuriousWakeup(w) \/ Pop(w)
                                  \/ JobStarted(w) \/ JobFinished(w) \/ DestroyDone(w))
           \/ UNCHANGED vars
  <2>1. UNCHANGED <<qstate, condemned>>
    BY <1>8 DEF Schedule, AddThread, DestroyPool, Claim, Wait, Exit, SpuriousWakeup, Pop,
                JobStarted, JobFinished, DestroyDone, queueVars, vars
  <2>. QED  BY <1>1, <2>1
<1>. QED  BY <1>2, <1>3, <1>4, <1>5, <1>6, <1>7, <1>8
          DEF Next, User, Worker, Progress, Background

LEMMA ApartStep == IInv /\ JobsApart /\ [Next]_vars => JobsApart'
<1>. SUFFICES ASSUME IInv, JobsApart, [Next]_vars PROVE JobsApart'  OBVIOUS
<1>types. cur \in [Workers -> Nat] /\ pending \subseteq DOMAIN jobs /\ DOMAIN jobs = 1..Len(jobs)
          /\ Len(jobs) \in Nat
  BY DEF IInv, TypeOK
<1>1. CASE cur' = cur /\ pending' \subseteq pending
  BY <1>1 DEF JobsApart
<1>2. ASSUME NEW p \in Prios, NEW q \in Queues, NEW h \in BOOLEAN, Schedule(p, q, h)
      PROVE  JobsApart'
  <2>1. cur' = cur /\ pending' = pending \cup {Len(jobs) + 1}  BY <1>2 DEF Schedule
  <2>2. \A w \in Workers : cur[w] # Len(jobs) + 1  BY <1>types DEF IInv, TypeOK
  <2>. QED  BY <2>1, <2>2 DEF JobsApart
<1>3. ASSUME NEW w \in Workers, Pop(w) PROVE JobsApart'
  <2>1. PICK j \in pending : pending' = pending \ {j} /\ cur' = [cur EXCEPT ![w] = j]
    BY <1>3 DEF Pop
  <2>. QED  BY <1>types, <2>1 DEF JobsApart
<1>4. ASSUME NEW w \in Workers, DestroyJob(w) \/ DestroyDone(w) PROVE JobsApart'
  <2>1. pending' = pending /\ (cur' = cur \/ cur' = [cur EXCEPT ![w] = 0])
    BY <1>4 DEF DestroyJob, DestroyDone, poolVars
  <2>2. 0 \notin pending  BY <1>types
  <2>. QED  BY <1>1, <1>types, <2>1, <2>2 DEF JobsApart
<1>5. CASE (\E w \in Workers : AddThread(w)) \/ (\E q \in Queues : ReleaseQueue(q)) \/ DestroyPool
           \/ (\E w \in Workers : \/ Claim(w) \/ Wait(w) \/ Exit(w) \/ SpuriousWakeup(w)
                                  \/ JobStarted(w) \/ ReleaseInBody(w) \/ JobFinished(w))
           \/ Background \/ UNCHANGED vars
  <2>1. cur' = cur /\ pending' \subseteq pending
    BY <1>5 DEF AddThread, ReleaseQueue, DestroyPool, Claim, Wait, Exit, SpuriousWakeup,
                JobStarted, ReleaseInBody, JobFinished, Background, QueueGone, DeleteNext,
                DiscardJob, poolVars, vars
  <2>. QED  BY <1>1, <2>1
<1>. QED  BY <1>2, <1>3, <1>4, <1>5 DEF Next, User, Worker, Progress

LEMMA StartersStep == IInv /\ StartersStay /\ [Next]_vars => StartersStay'
<1>. SUFFICES ASSUME IInv, StartersStay, [Next]_vars, NEW v \in InitialWorkers
              PROVE  pc'[v] # "absent"
  BY DEF StartersStay
<1>types. pc \in [Workers -> WorkerStates] /\ v \in Workers /\ pc[v] # "absent"
  BY WorkersAssumption DEF IInv, TypeOK, StartersStay
<1>1. ASSUME NEW p \in Prios, NEW q \in Queues, NEW h \in BOOLEAN, Schedule(p, q, h)
      PROVE  pc'[v] # "absent"
  BY <1>1, <1>types DEF Schedule, NotifyOne
<1>2. CASE (\E w \in Workers : AddThread(w)) \/ (\E q \in Queues : ReleaseQueue(q)) \/ DestroyPool
  BY <1>2, <1>types DEF AddThread, ReleaseQueue, DestroyPool, NotifyAll
<1>3. ASSUME NEW w \in Workers, Worker(w) PROVE pc'[v] # "absent"
  <2>1. \E s \in WorkerStates \ {"absent"} : pc' = [pc EXCEPT ![w] = s]
    BY <1>3 DEF Worker, Progress, Claim, Wait, Exit, SpuriousWakeup, Pop, JobStarted,
                ReleaseInBody, JobFinished, DestroyJob, DestroyDone, WorkerStates
  <2>. QED  BY <2>1, <1>types
<1>4. CASE Background \/ UNCHANGED vars
  BY <1>4, <1>types DEF Background, QueueGone, DeleteNext, DiscardJob, vars
<1>. QED  BY <1>1, <1>2, <1>3, <1>4 DEF Next, User

LEMMA KInvariance == Spec => []KInv
<1>1. Init => NobodyExitsAlive /\ CompletesAll /\ JobsApart /\ CondemnedFit /\ StartersStay
  BY WorkersAssumption DEF Init, NobodyExitsAlive, CompletesAll, JobsApart, CondemnedFit, StartersStay
<1>. QED  BY <1>1, ClaimsInvariance, NobodyExitsStep, CompletesStep, ApartStep, CondemnedStep,
             StartersStep, PTL DEF Spec, KInv

\* What the contract's variables stand for.
JobView    == [j \in DOMAIN jobs |-> [queue |-> QueueOf(j), status |-> StatusOf(j)]]
SeenAs(q)  == CASE qstate[q] \in {"live", "condemned"} -> "open"
                [] qstate[q] = "deleting" -> "closing"
                [] qstate[q] = "gone" -> "gone"
QueueView  == [q \in Queues |-> SeenAs(q)]

LEMMA ContractIs ==
    /\ Contract!Init <=> JobView = <<>> /\ QueueView = [q \in Queues |-> "open"] /\ alive = TRUE
    /\ UNCHANGED Contract!vars <=> UNCHANGED <<JobView, QueueView, alive>>
    /\ \A q : Contract!Submit(q) <=>
         /\ alive
         /\ JobView' = Append(JobView, [queue |-> q, status |-> "waiting"])
         /\ UNCHANGED <<QueueView, alive>>
    /\ \A j : Contract!Start(j) <=>
         /\ JobView[j].status = "waiting"
         /\ QueueView[JobView[j].queue] = "open"
         /\ JobView' = [JobView EXCEPT ![j].status = "running"]
         /\ UNCHANGED <<QueueView, alive>>
    /\ \A j : Contract!Finish(j) <=>
         /\ JobView[j].status = "running"
         /\ JobView' = [JobView EXCEPT ![j].status = "over"]
         /\ UNCHANGED <<QueueView, alive>>
    /\ \A q : Contract!StartDeletion(q) <=>
         /\ QueueView[q] = "open"
         /\ QueueView' = [QueueView EXCEPT ![q] = "closing"]
         /\ UNCHANGED <<JobView, alive>>
    /\ Contract!ClosePool <=> alive /\ alive' = FALSE /\ UNCHANGED <<JobView, QueueView>>
BY DEF Contract!Init, Contract!vars, Contract!Submit, Contract!Start, Contract!Finish,
       Contract!StartDeletion, Contract!ClosePool, Contract!SetStatus, JobView, QueueView, SeenAs

LEMMA DropIs ==
    ASSUME NEW j, NEW q, JobView[j].queue = q, JobView[j].status = "waiting",
           QueueView[q] # "open" \/ (~alive /\ ~CompleteAll),
           JobView' = [JobView EXCEPT ![j].status = "over"],
           \/ QueueView' = QueueView
           \/ QueueView[q] = "open" /\ QueueView' = [QueueView EXCEPT ![q] = "closing"],
           alive' = alive
    PROVE  Contract!Drop(j)
<1>. DEFINE r == JobView[j].queue
<1>1. /\ JobView[j].status = "waiting"
      /\ QueueView[r] # "open" \/ (~alive /\ ~CompleteAll)
      /\ JobView' = [JobView EXCEPT ![j].status = "over"]
      /\ \/ QueueView' = QueueView
         \/ QueueView[r] = "open" /\ QueueView' = [QueueView EXCEPT ![r] = "closing"]
      /\ alive' = alive
  OBVIOUS
<1>. QED  BY <1>1 DEF Contract!Drop, Contract!SetStatus, JobView, QueueView, SeenAs

LEMMA EndDeletionIs ==
    ASSUME NEW q, QueueView[q] = "closing",
           \A j \in DOMAIN JobView : JobView[j].queue = q => JobView[j].status # "running",
           QueueView' = [QueueView EXCEPT ![q] = "gone"], UNCHANGED <<JobView, alive>>
    PROVE  Contract!EndDeletion(q)
BY DEF Contract!EndDeletion, JobView, QueueView, SeenAs

LEMMA JobViewIs ==
    /\ DOMAIN JobView = DOMAIN jobs
    /\ \A j \in DOMAIN jobs : JobView[j].queue = QueueOf(j) /\ JobView[j].status = StatusOf(j)
BY DEF JobView

LEMMA QueueViewIs ==
    /\ \A q \in Queues : QueueView[q] = SeenAs(q) /\ QueueView'[q] = SeenAs(q)'
    /\ (\A q \in Queues : SeenAs(q)' = SeenAs(q)) => QueueView' = QueueView
    /\ \A q \in Queues : \A s :
         SeenAs(q)' = s /\ (\A r \in Queues : r # q => SeenAs(r)' = SeenAs(r))
            => QueueView' = [QueueView EXCEPT ![q] = s]
BY DEF QueueView

LEMMA SeenAsIs ==
    ASSUME IInv, NEW q \in Queues
    PROVE  /\ qstate[q] \in {"live", "condemned"} <=> SeenAs(q) = "open"
           /\ qstate[q] = "deleting" <=> SeenAs(q) = "closing"
           /\ qstate[q] = "gone" <=> SeenAs(q) = "gone"
<1>1. qstate[q] \in QueueStates  BY DEF IInv, TypeOK
<1>. QED  BY <1>1 DEF SeenAs, QueueStates

\* The step of a job from one state to the next, and no step.
LEMMA JobViewKept ==
    ASSUME jobs' = jobs, \A j \in DOMAIN jobs : StatusOf(j)' = StatusOf(j)
    PROVE  JobView' = JobView
BY DEF JobView, QueueOf

LEMMA JobViewStep ==
    ASSUME jobs' = jobs, NEW k \in DOMAIN jobs, NEW s, StatusOf(k)' = s,
           \A j \in DOMAIN jobs : j # k => StatusOf(j)' = StatusOf(j)
    PROVE  JobView' = [JobView EXCEPT ![k].status = s]
BY DEF JobView, QueueOf

\* Threads that do not have the job, or go on with it, make no difference to it.
LEMMA StatusKept ==
    ASSUME NEW j, j \in pending' <=> j \in pending,
           \A w \in Workers :
              /\ cur'[w] = j /\ Starting(w)' <=> cur[w] = j /\ Starting(w)
              /\ cur'[w] = j /\ Running(w)' <=> cur[w] = j /\ Running(w)
    PROVE  StatusOf(j)' = StatusOf(j)
BY DEF StatusOf, Starting, Running

\* The status of a job that a thread has.
LEMMA StatusIs ==
    ASSUME IInv, JobsApart, NEW w \in Workers, cur[w] # 0
    PROVE  StatusOf(cur[w]) = IF Starting(w) THEN "waiting"
                              ELSE IF Running(w) THEN "running" ELSE "over"
<1>1. cur[w] \notin pending /\ \A v \in Workers : cur[v] = cur[w] => v = w
  BY DEF JobsApart
<1>2. Starting(w) => ~Running(w)  BY DEF Starting, Running
<1>. QED  BY <1>1, <1>2 DEF StatusOf, Starting, Running

\* The owners of a queue lose it: it is being deleted, or left to the deleter.
LEMMA LoseQueueView ==
    ASSUME IInv, NEW q \in Queues, qstate[q] = "live", LoseQueue(q)
    PROVE  \/ QueueView' = QueueView
           \/ QueueView[q] = "open" /\ QueueView' = [QueueView EXCEPT ![q] = "closing"]
<1>1. qstate \in [Queues -> QueueStates]  BY DEF IInv, TypeOK
<1>2. PICK s \in {"condemned", "deleting"} : qstate' = [qstate EXCEPT ![q] = s]
  BY DEF LoseQueue
<1>3. \A r \in Queues : r # q => SeenAs(r)' = SeenAs(r)  BY <1>1, <1>2 DEF SeenAs
<1>4. SeenAs(q) = "open"  BY SeenAsIs
<1>5. CASE s = "condemned"
  <2>1. qstate'[q] = "condemned"  BY <1>1, <1>2, <1>5
  <2>2. SeenAs(q)' = "open"  BY <2>1 DEF SeenAs
  <2>. QED  BY <1>3, <1>4, <2>2, QueueViewIs
<1>6. CASE s = "deleting"
  <2>1. qstate'[q] = "deleting"  BY <1>1, <1>2, <1>6
  <2>2. SeenAs(q)' = "closing"  BY <2>1 DEF SeenAs
  <2>. QED  BY <1>3, <1>4, <2>2, QueueViewIs
<1>. QED  BY <1>5, <1>6

LEMMA DropRefView ==
    ASSUME IInv, NEW q \in Queues, NEW owners, NEW closures, DropRef(q, owners, closures)
    PROVE  \/ QueueView' = QueueView
           \/ QueueView[q] = "open" /\ QueueView' = [QueueView EXCEPT ![q] = "closing"]
<1>1. CASE UNCHANGED qstate
  BY <1>1, QueueViewIs DEF SeenAs
<1>2. CASE qstate[q] = "live" /\ LoseQueue(q)
  BY <1>2, LoseQueueView
<1>. QED  BY <1>1, <1>2 DEF DropRef

\* A reference to a queue goes, and no job does anything.
LEMMA LosesOnly ==
    ASSUME IInv, NEW q \in Queues, JobView' = JobView, alive' = alive,
           \/ QueueView' = QueueView
           \/ QueueView[q] = "open" /\ QueueView' = [QueueView EXCEPT ![q] = "closing"]
    PROVE  Contract!StartDeletion(q) \/ UNCHANGED Contract!vars
BY ContractIs

LEMMA InitContract == Init => Contract!Init
<1>. SUFFICES ASSUME Init PROVE Contract!Init  OBVIOUS
<1>1. jobs = <<>> /\ DOMAIN jobs = {} /\ alive = TRUE  BY DEF Init
<1>2. JobView = <<>>  BY <1>1 DEF JobView
<1>3. \A q \in Queues : SeenAs(q) = "open"  BY DEF Init, SeenAs
<1>4. QueueView = [q \in Queues |-> "open"]  BY <1>3 DEF QueueView
<1>. QED  BY <1>1, <1>2, <1>4, ContractIs

\* Users.
LEMMA ScheduleContract ==
    ASSUME KInv, NEW p \in Prios, NEW q \in Queues, NEW h \in BOOLEAN, Schedule(p, q, h)
    PROVE  Contract!Submit(q)
<1>. DEFINE x == [prio |-> p, queue |-> q, holds |-> h]
<1>n. PICK n : n = Len(jobs) + 1  OBVIOUS
<1>0. IInv  BY DEF KInv
<1>1. /\ alive /\ jobs' = Append(jobs, x) /\ pending' = pending \cup {n} /\ NotifyOne
      /\ UNCHANGED <<alive, cur, qstate>>
  BY <1>n DEF Schedule, queueVars
<1>2. /\ jobs \in Seq(Job) /\ x \in Job /\ pending \subseteq DOMAIN jobs
      /\ pc \in [Workers -> WorkerStates]
      /\ n \notin DOMAIN jobs /\ Len(jobs) \in Nat /\ DOMAIN jobs = 1..Len(jobs)
  BY <1>0, <1>n DEF IInv, TypeOK, Job
<1>3. /\ DOMAIN jobs' = 1..n
      /\ \A j \in DOMAIN jobs : QueueOf(j)' = QueueOf(j)
      /\ QueueOf(n)' = q
  <2>1. DOMAIN jobs' = 1..n /\ \A j \in DOMAIN jobs : jobs'[j] = jobs[j]
    BY <1>n, <1>1, <1>2, AppendJob
  <2>2. jobs'[n] = x  BY <1>n, <1>1, <1>2
  <2>. QED  BY <2>1, <2>2 DEF QueueOf
<1>4. \A w \in Workers : (Starting(w)' <=> Starting(w)) /\ (Running(w)' <=> Running(w))
  BY <1>1, <1>2 DEF NotifyOne, Starting, Running
<1>5. \A j \in DOMAIN jobs : StatusOf(j)' = StatusOf(j)
  <2>. SUFFICES ASSUME NEW j \in DOMAIN jobs PROVE StatusOf(j)' = StatusOf(j)  OBVIOUS
  <2>1. j # n  BY <1>2
  <2>. QED  BY <1>1, <1>4, <2>1, StatusKept
<1>6. StatusOf(n)' = "waiting"
  <2>1. \A w \in Workers : cur[w] # n  BY <1>0, <1>n, <1>2 DEF IInv, TypeOK
  <2>. QED  BY <1>1, <2>1 DEF StatusOf
<1>7. JobView' = Append(JobView, [queue |-> q, status |-> "waiting"])
  <2>. DEFINE V == [queue : {QueueOf(j) : j \in DOMAIN jobs} \cup {q},
                    status : {StatusOf(j) : j \in DOMAIN jobs} \cup {"waiting"}]
              y == [queue |-> q, status |-> "waiting"]
  <2>1. JobView \in [1..Len(jobs) -> V]  BY <1>2 DEF JobView
  <2>2. y \in V  OBVIOUS
  <2>3. JobView' = [j \in 1..n |-> IF j = n THEN y ELSE JobView[j]]
    <3>1. JobView' = [j \in 1..n |-> [queue |-> QueueOf(j)', status |-> StatusOf(j)']]
      BY <1>3 DEF JobView
    <3>2. \A j \in 1..n : j # n => j \in DOMAIN jobs  BY <1>n, <1>2
    <3>3. \A j \in 1..n : [queue |-> QueueOf(j)', status |-> StatusOf(j)']
                            = IF j = n THEN y ELSE JobView[j]
      <4>. SUFFICES ASSUME NEW j \in 1..n
                    PROVE  [queue |-> QueueOf(j)', status |-> StatusOf(j)']
                              = IF j = n THEN y ELSE JobView[j]
        OBVIOUS
      <4>1. CASE j = n
        BY <1>3, <1>6, <4>1
      <4>2. CASE j # n
        BY <1>3, <1>5, <3>2, <4>2 DEF JobView
      <4>. QED  BY <4>1, <4>2
    <3>. QED  BY <3>1, <3>3
  <2>. HIDE DEF V, y
  <2>4. JobView \in Seq(V) /\ Len(JobView) = Len(jobs)  BY <1>2, <2>1
  <2>5. Append(JobView, y) = [j \in 1..n |-> IF j = n THEN y ELSE JobView[j]]
    <3>. DEFINE a == Append(JobView, y)
    <3>1. a \in Seq(V) /\ Len(a) = n /\ a[n] = y /\ \A j \in 1..Len(jobs) : a[j] = JobView[j]
      BY <1>n, <2>2, <2>4, AppendProperties
    <3>2. a \in [1..n -> V]  BY <3>1, LenProperties
    <3>3. \A j \in 1..n : j # n => j \in 1..Len(jobs)  BY <1>n, <1>2
    <3>. HIDE DEF a
    <3>4. \A j \in 1..n : a[j] = IF j = n THEN y ELSE JobView[j]  BY <3>1, <3>3
    <3>5. a = [j \in 1..n |-> IF j = n THEN y ELSE JobView[j]]  BY <3>2, <3>4
    <3>. QED  BY <3>5 DEF a
  <2>. QED  BY <2>3, <2>5 DEF y
<1>8. UNCHANGED QueueView  BY <1>1 DEF QueueView, SeenAs
<1>. QED  BY <1>1, <1>7, <1>8, ContractIs

LEMMA ReleaseQueueContract ==
    ASSUME KInv, NEW q \in Queues, ReleaseQueue(q)
    PROVE  Contract!StartDeletion(q) \/ UNCHANGED Contract!vars
<1>1. UNCHANGED <<alive, jobs, pending, pc, cur>> /\ DropRef(q, owned', Closures)
  BY DEF ReleaseQueue, poolVars
<1>2. JobView' = JobView  BY <1>1 DEF JobView, QueueOf, StatusOf
<1>. QED  BY <1>1, <1>2, DropRefView, LosesOnly DEF KInv

LEMMA DestroyPoolContract == ASSUME KInv, DestroyPool PROVE Contract!ClosePool
<1>1. alive /\ alive' = FALSE /\ NotifyAll /\ UNCHANGED <<jobs, pending, cur, qstate>>
  BY DEF DestroyPool, queueVars
<1>2. \A w \in Workers : (Starting(w)' <=> Starting(w)) /\ (Running(w)' <=> Running(w))
  BY <1>1 DEF NotifyAll, Starting, Running
<1>3. \A j \in DOMAIN jobs : StatusOf(j)' = StatusOf(j)  BY <1>1, <1>2, StatusKept
<1>4. JobView' = JobView  BY <1>1, <1>3, JobViewKept
<1>5. UNCHANGED QueueView  BY <1>1 DEF QueueView, SeenAs
<1>. QED  BY <1>1, <1>4, <1>5, ContractIs

\* Threads.
LEMMA PopContract == ASSUME KInv, NEW w \in Workers, Pop(w) PROVE UNCHANGED Contract!vars
<1>0. /\ JobsApart /\ pc \in [Workers -> WorkerStates] /\ cur \in [Workers -> Nat]
      /\ 0 \notin DOMAIN jobs /\ pending \subseteq DOMAIN jobs
  BY DEF KInv, IInv, TypeOK
<1>free. cur[w] = 0  BY DEF Pop, KInv, IInv, TypeOK
<1>1. /\ pc' = [pc EXCEPT ![w] = "start"] /\ pc[w] = "claimed"
      /\ UNCHANGED <<alive, jobs, qstate>>
  BY DEF Pop, queueVars
<1>2. PICK k \in pending : pending' = pending \ {k} /\ cur' = [cur EXCEPT ![w] = k]
  BY DEF Pop
<1>3. StatusOf(k) = "waiting" /\ StatusOf(k)' = "waiting"
  <2>1. cur'[w] = k /\ pc'[w] = "start"  BY <1>0, <1>1, <1>2
  <2>2. \A v \in Workers : cur[v] # k /\ (v # w => cur'[v] # k)
    BY <1>0, <1>2 DEF JobsApart
  <2>. QED  BY <1>2, <2>1, <2>2 DEF StatusOf
<1>4. ASSUME NEW j \in DOMAIN jobs, j # k PROVE StatusOf(j)' = StatusOf(j)
  BY <1>0, <1>free, <1>1, <1>2, <1>4, StatusKept DEF Starting, Running
<1>5. JobView' = JobView  BY <1>1, <1>2, <1>0, <1>3, <1>4, JobViewKept
<1>6. UNCHANGED QueueView  BY <1>1 DEF QueueView, SeenAs
<1>. QED  BY <1>1, <1>5, <1>6, ContractIs

LEMMA JobStartedContract ==
    ASSUME KInv, NEW w \in Workers, JobStarted(w)
    PROVE  \E j \in DOMAIN jobs : Contract!Start(j) \/ Contract!Drop(j)
<1>k. PICK k, q : k = cur[w] /\ q = QueueOf(k)  OBVIOUS
<1>0. /\ IInv /\ JobsApart /\ k \in DOMAIN jobs /\ k # 0 /\ q \in Queues
      /\ pc \in [Workers -> WorkerStates]
  <2>1. pc[w] = "start" /\ IInv  BY DEF JobStarted, KInv
  <2>. QED  BY <1>k, <2>1, CurrentQueue DEF KInv, IInv, TypeOK
<1>1. /\ pc[w] = "start" /\ UNCHANGED <<alive, jobs, pending, cur, qstate>>
      /\ pc' = [pc EXCEPT ![w] = IF IsDeleted(q) THEN "skip" ELSE "run"]
  BY <1>k DEF JobStarted, poolVars, queueVars
<1>2. StatusOf(k) = "waiting"  BY <1>0, <1>k, <1>1, StatusIs DEF Starting
<1>3. ASSUME NEW j \in DOMAIN jobs, j # k PROVE StatusOf(j)' = StatusOf(j)
  BY <1>0, <1>k, <1>1, <1>3, StatusKept DEF Starting, Running
<1>4. UNCHANGED QueueView  BY <1>1 DEF QueueView, SeenAs
<1>5. JobView[k].status = "waiting" /\ JobView[k].queue = q /\ QueueView[q] = SeenAs(q)
  BY <1>0, <1>k, <1>2, JobViewIs, QueueViewIs
<1>apart. k \notin pending /\ \A v \in Workers : cur[v] = k => v = w
  BY <1>0, <1>k DEF JobsApart
<1>6. CASE IsDeleted(q)
  <2>1. pc'[w] = "skip"  BY <1>0, <1>1, <1>6
  <2>2. StatusOf(k)' = "over"  BY <1>apart, <1>1, <2>1 DEF StatusOf
  <2>3. JobView' = [JobView EXCEPT ![k].status = "over"]
    BY <1>0, <1>1, <1>3, <2>2, JobViewStep
  <2>4. SeenAs(q) # "open"
    <3>1. qstate[q] \notin {"live", "condemned"}  BY <1>6 DEF IsDeleted
    <3>. QED  BY <1>0, <3>1, SeenAsIs
  <2>5. Contract!Drop(k)  BY <1>1, <1>4, <1>5, <2>3, <2>4, DropIs
  <2>. QED  BY <1>0, <2>5
<1>7. CASE ~IsDeleted(q)
  <2>1. pc'[w] = "run" /\ cur'[w] = k  BY <1>0, <1>k, <1>1, <1>7
  <2>2. StatusOf(k)' = "running"  BY <1>apart, <1>1, <2>1 DEF StatusOf
  <2>3. JobView' = [JobView EXCEPT ![k].status = "running"]
    BY <1>0, <1>1, <1>3, <2>2, JobViewStep
  <2>4. SeenAs(q) = "open"
    <3>1. qstate[q] \in QueueStates  BY <1>0 DEF IInv, TypeOK
    <3>. QED  BY <1>0, <1>7, <3>1, SeenAsIs DEF IsDeleted, QueueStates
  <2>5. Contract!Start(k)  BY <1>1, <1>4, <1>5, <2>3, <2>4, ContractIs
  <2>. QED  BY <1>0, <2>5
<1>. QED  BY <1>6, <1>7

LEMMA JobFinishedContract ==
    ASSUME KInv, NEW w \in Workers, JobFinished(w)
    PROVE  (\E j \in DOMAIN jobs : Contract!Finish(j)) \/ UNCHANGED Contract!vars
<1>. DEFINE k == cur[w]
<1>0. IInv /\ JobsApart /\ k \in DOMAIN jobs /\ k # 0 /\ pc \in [Workers -> WorkerStates]
  <2>1. pc[w] \in {"run", "skip"} /\ IInv  BY DEF JobFinished, KInv
  <2>. QED  BY <2>1 DEF KInv, IInv, TypeOK
<1>1. /\ pc[w] \in {"run", "skip"} /\ pc' = [pc EXCEPT ![w] = "release"]
      /\ UNCHANGED <<alive, jobs, pending, cur, qstate>>
  BY DEF JobFinished, poolVars, queueVars
<1>2. ASSUME NEW j \in DOMAIN jobs, j # k PROVE StatusOf(j)' = StatusOf(j)
  BY <1>0, <1>1, <1>2, StatusKept DEF Starting, Running
<1>3. UNCHANGED QueueView  BY <1>1 DEF QueueView, SeenAs
<1>4. StatusOf(k)' = "over"
  <2>1. k \notin pending /\ \A v \in Workers : cur[v] = k => v = w
    BY <1>0 DEF JobsApart
  <2>2. pc'[w] = "release"  BY <1>0, <1>1
  <2>. QED  BY <1>1, <2>1, <2>2 DEF StatusOf
<1>5. CASE pc[w] = "run"
  <2>1. StatusOf(k) = "running"  BY <1>0, <1>5, StatusIs DEF Starting, Running
  <2>2. JobView[k].status = "running"  BY <1>0, <2>1, JobViewIs
  <2>3. JobView' = [JobView EXCEPT ![k].status = "over"]
    BY <1>0, <1>1, <1>2, <1>4, JobViewStep
  <2>4. Contract!Finish(k)  BY <1>1, <1>3, <2>2, <2>3, ContractIs
  <2>. QED  BY <1>0, <2>4
<1>6. CASE pc[w] = "skip"
  <2>1. StatusOf(k) = "over"  BY <1>0, <1>6, StatusIs DEF Starting, Running
  <2>2. JobView' = JobView  BY <1>1, <1>2, <1>4, <2>1, JobViewKept
  <2>. QED  BY <1>1, <1>3, <2>2, ContractIs
<1>. QED  BY <1>1, <1>5, <1>6

\* A thread that goes on, in the body of its job or without one.
LEMMA ThreadView ==
    ASSUME KInv, NEW w \in Workers, UNCHANGED <<alive, jobs, pending>>,
           \A v \in Workers \ {w} : pc'[v] = pc[v] /\ cur'[v] = cur[v],
           Starting(w)' <=> Starting(w), Running(w)' <=> Running(w),
           cur'[w] = cur[w] \/ ~(Starting(w) \/ Running(w))
    PROVE  JobView' = JobView
<1>1. \A v \in Workers \ {w} : (Starting(v)' <=> Starting(v)) /\ (Running(v)' <=> Running(v))
  BY DEF Starting, Running
<1>2. \A j \in DOMAIN jobs : StatusOf(j)' = StatusOf(j)  BY <1>1, StatusKept
<1>. QED  BY <1>2, JobViewKept

LEMMA ReleaseInBodyContract ==
    ASSUME KInv, NEW w \in Workers, ReleaseInBody(w)
    PROVE  (\E q \in Queues : Contract!StartDeletion(q)) \/ UNCHANGED Contract!vars
<1>. DEFINE q == QueueOf(cur[w])
<1>0. IInv /\ pc \in [Workers -> WorkerStates]  BY DEF KInv, IInv, TypeOK
<1>1. /\ pc[w] = "run" /\ UNCHANGED <<alive, jobs, pending, cur>>
      /\ DropRef(q, owned', Closures)
      /\ \E s \in {"run", "resetting"} : pc' = [pc EXCEPT ![w] = s]
  BY DEF ReleaseInBody, poolVars
<1>2. q \in Queues  BY <1>0, <1>1, CurrentQueue DEF Busy
<1>3. JobView' = JobView  BY <1>0, <1>1, ThreadView DEF Starting, Running
<1>. QED  BY <1>0, <1>1, <1>2, <1>3, DropRefView, LosesOnly

LEMMA DestroyJobContract ==
    ASSUME KInv, NEW w \in Workers, DestroyJob(w)
    PROVE  (\E q \in Queues : Contract!StartDeletion(q)) \/ UNCHANGED Contract!vars
<1>. DEFINE q == QueueOf(cur[w])
            left == Closures \ {cur[w]}
<1>0. IInv /\ pc \in [Workers -> WorkerStates] /\ cur \in [Workers -> Nat]
  BY DEF KInv, IInv, TypeOK
<1>1. /\ pc[w] = "release" /\ UNCHANGED <<alive, jobs, pending>>
      /\ \E s \in {"destroying", "work"} : pc' = [pc EXCEPT ![w] = s]
      /\ cur' = cur \/ cur' = [cur EXCEPT ![w] = 0]
      /\ \/ qstate[q] = "live" /\ LoseQueue(q)
         \/ DropRef(q, owned, left)
         \/ UNCHANGED qstate
  BY DEF DestroyJob, poolVars, Blocks
<1>2. q \in Queues  BY <1>0, <1>1, CurrentQueue
<1>3. JobView' = JobView  BY <1>0, <1>1, ThreadView DEF Starting, Running
<1>4. \/ QueueView' = QueueView
      \/ QueueView[q] = "open" /\ QueueView' = [QueueView EXCEPT ![q] = "closing"]
  <2>1. CASE UNCHANGED qstate
    BY <2>1 DEF QueueView, SeenAs
  <2>. QED  BY <1>0, <1>1, <1>2, <2>1, LoseQueueView, DropRefView
<1>. QED  BY <1>0, <1>1, <1>2, <1>3, <1>4, LosesOnly

LEMMA IdleContract ==
    ASSUME KInv, NEW w \in Workers,
           \/ AddThread(w) \/ Claim(w) \/ Wait(w) \/ Exit(w) \/ SpuriousWakeup(w) \/ DestroyDone(w)
    PROVE  UNCHANGED Contract!vars
<1>0. IInv /\ pc \in [Workers -> WorkerStates] /\ cur \in [Workers -> Nat]
  BY DEF KInv, IInv, TypeOK
<1>1. /\ UNCHANGED <<alive, jobs, pending, qstate>>
      /\ pc[w] \notin {"start", "run", "resetting"}
      /\ \E s \in WorkerStates \ {"start", "run", "resetting"} : pc' = [pc EXCEPT ![w] = s]
      /\ cur' = cur \/ cur' = [cur EXCEPT ![w] = 0]
  BY DEF AddThread, Claim, Wait, Exit, SpuriousWakeup, DestroyDone, poolVars, queueVars, WorkerStates
<1>2. JobView' = JobView  BY <1>0, <1>1, ThreadView DEF Starting, Running
<1>3. QueueView' = QueueView  BY <1>1 DEF QueueView, SeenAs
<1>. QED  BY <1>1, <1>2, <1>3, ContractIs

\* The background.
LEMMA QueueGoneContract ==
    ASSUME KInv, NEW q \in Queues, QueueGone(q) PROVE Contract!EndDeletion(q)
<1>0. IInv /\ JobsApart /\ qstate \in [Queues -> QueueStates] /\ count[q] = 0
      /\ pending \subseteq DOMAIN jobs
  BY DEF KInv, IInv, TypeOK, QueueGone
<1>1. /\ qstate[q] = "deleting" /\ qstate' = [qstate EXCEPT ![q] = "gone"]
      /\ UNCHANGED <<alive, jobs, pending, pc, cur>>
  BY DEF QueueGone, poolVars
<1>2. Executing(q) = {}
  <2>1. Executing(q) \subseteq Workers  BY DEF Executing
  <2>. QED  BY <1>0, <2>1, WorkersFinite, FS_EmptySet DEF IInv, QueueCounts
<1>3. ASSUME NEW j \in DOMAIN jobs, QueueOf(j) = q PROVE StatusOf(j) # "running"
  BY <1>2, <1>3 DEF StatusOf, Executing
<1>4. JobView' = JobView  BY <1>1 DEF JobView, QueueOf, StatusOf
<1>5. SeenAs(q) = "closing" /\ SeenAs(q)' = "gone"
  <2>1. qstate'[q] = "gone"  BY <1>0, <1>1
  <2>. QED  BY <1>1, <2>1 DEF SeenAs
<1>6. \A r \in Queues : r # q => SeenAs(r)' = SeenAs(r)  BY <1>0, <1>1 DEF SeenAs
<1>7. QueueView[q] = "closing" /\ QueueView' = [QueueView EXCEPT ![q] = "gone"]
  BY <1>5, <1>6, QueueViewIs
<1>8. \A j \in DOMAIN JobView : JobView[j].queue = q => JobView[j].status # "running"
  BY <1>3, JobViewIs
<1>. QED  BY <1>1, <1>4, <1>7, <1>8, EndDeletionIs

LEMMA DeleteNextContract ==
    ASSUME KInv, DeleteNext PROVE \E q \in Queues : Contract!StartDeletion(q)
<1>q. PICK q : q = Head(condemned)  OBVIOUS
<1>0. IInv /\ CondemnedFit /\ qstate \in [Queues -> QueueStates]
      /\ condemned \in Seq(AsyncQueues) /\ condemned # <<>>
  BY DEF KInv, IInv, TypeOK, DeleteNext
<1>1. q \in Queues /\ qstate[q] = "condemned"
  <2>1. 1 \in DOMAIN condemned /\ q = condemned[1] /\ condemned[1] \in AsyncQueues
    BY <1>q, <1>0
  <2>. QED  BY <1>0, <2>1, QueuesAssumption DEF CondemnedFit
<1>2. qstate' = [qstate EXCEPT ![q] = "deleting"] /\ UNCHANGED <<alive, jobs, pending, pc, cur>>
  BY <1>q DEF DeleteNext, poolVars
<1>3. SeenAs(q) = "open" /\ SeenAs(q)' = "closing"
  <2>1. qstate'[q] = "deleting"  BY <1>0, <1>1, <1>2
  <2>. QED  BY <1>1, <2>1 DEF SeenAs
<1>4. \A r \in Queues : r # q => SeenAs(r)' = SeenAs(r)  BY <1>0, <1>2 DEF SeenAs
<1>5. QueueView[q] = "open" /\ QueueView' = [QueueView EXCEPT ![q] = "closing"]
  BY <1>1, <1>3, <1>4, QueueViewIs
<1>6. JobView' = JobView  BY <1>2 DEF JobView, QueueOf, StatusOf
<1>. QED  BY <1>1, <1>2, <1>5, <1>6, ContractIs

LEMMA DiscardJobContract ==
    ASSUME KInv, CompleteAll => InitialWorkers # {}, DiscardJob
    PROVE  \E j \in DOMAIN jobs : Contract!Drop(j)
<1>0. IInv /\ JobsApart /\ ~DataExists /\ pending \subseteq DOMAIN jobs /\ jobs \in Seq(Job)
  BY DEF KInv, IInv, TypeOK, DiscardJob
<1>1. PICK k \in pending :
         /\ pending' = pending \ {k}
         /\ DropRef(QueueOf(k), owned, Closures \ {k}) \/ UNCHANGED qstate
  BY DEF DiscardJob
<1>2. UNCHANGED <<alive, jobs, pc, cur>> /\ ~alive  BY <1>0 DEF DiscardJob, DataExists
<1>3. ~CompleteAll
  <2>. SUFFICES ASSUME CompleteAll PROVE FALSE  OBVIOUS
  <2>1. PICK w \in InitialWorkers : TRUE  OBVIOUS
  <2>2. w \in Workers /\ pc[w] = "exit"
    BY <1>0, <2>1, WorkersAssumption DEF DataExists, KInv, StartersStay
  <2>. QED  BY <1>0, <1>1, <2>2 DEF KInv, CompletesAll
<1>4. k \in DOMAIN jobs /\ QueueOf(k) \in Queues
  <2>1. jobs[k] \in Job  BY <1>0, <1>1
  <2>. QED  BY <1>0, <1>1, <2>1 DEF QueueOf, Job
<1>5. StatusOf(k) = "waiting"  BY <1>0, <1>1 DEF StatusOf, JobsApart
<1>6. StatusOf(k)' = "over"
  <2>1. \A w \in Workers : cur[w] # k  BY <1>0 DEF JobsApart
  <2>. QED  BY <1>1, <1>2, <2>1 DEF StatusOf
<1>7. ASSUME NEW j \in DOMAIN jobs, j # k PROVE StatusOf(j)' = StatusOf(j)
  BY <1>1, <1>2, <1>7 DEF StatusOf
<1>8. /\ JobView' = [JobView EXCEPT ![k].status = "over"]
      /\ JobView[k].status = "waiting" /\ JobView[k].queue = QueueOf(k)
  BY <1>2, <1>4, <1>5, <1>6, <1>7, JobViewStep, JobViewIs
<1>9. \/ QueueView' = QueueView
      \/ /\ QueueView[QueueOf(k)] = "open"
         /\ QueueView' = [QueueView EXCEPT ![QueueOf(k)] = "closing"]
  <2>1. CASE UNCHANGED qstate
    BY <2>1 DEF QueueView, SeenAs
  <2>. QED  BY <1>0, <1>1, <1>4, <2>1, DropRefView
<1>10. Contract!Drop(k)  BY <1>2, <1>3, <1>8, <1>9, DropIs
<1>. QED  BY <1>4, <1>10

LEMMA StepContract ==
    ASSUME KInv, CompleteAll => InitialWorkers # {}, [Next]_vars
    PROVE  [Contract!Next]_(Contract!vars)
<1>1. ASSUME NEW q \in Queues, Contract!Submit(q) \/ Contract!StartDeletion(q) \/ Contract!EndDeletion(q)
      PROVE  Contract!Next
  BY <1>1 DEF Contract!Next
<1>2. ASSUME NEW j \in DOMAIN jobs, Contract!Start(j) \/ Contract!Finish(j) \/ Contract!Drop(j)
      PROVE  Contract!Next
  <2>1. j \in DOMAIN JobView  BY JobViewIs
  <2>. QED  BY <1>2, <2>1 DEF Contract!Next, JobView
<1>3. CASE User
  <2>1. CASE DestroyPool
    <3>1. Contract!ClosePool  BY <2>1, DestroyPoolContract
    <3>. QED  BY <3>1 DEF Contract!Next
  <2>2. ASSUME NEW p \in Prios, NEW q \in Queues, NEW h \in BOOLEAN, Schedule(p, q, h)
        PROVE  Contract!Next
    BY <1>1, <2>2, ScheduleContract
  <2>. QED  BY <1>1, <1>3, <2>1, <2>2, ReleaseQueueContract, IdleContract DEF User
<1>4. ASSUME NEW w \in Workers, Worker(w) PROVE [Contract!Next]_(Contract!vars)
  <2>1. CASE JobStarted(w)
    BY <1>2, <2>1, JobStartedContract
  <2>2. CASE JobFinished(w)
    BY <1>2, <2>2, JobFinishedContract
  <2>3. CASE ReleaseInBody(w) \/ DestroyJob(w)
    BY <1>1, <2>3, ReleaseInBodyContract, DestroyJobContract
  <2>4. CASE Pop(w) \/ Claim(w) \/ Wait(w) \/ Exit(w) \/ SpuriousWakeup(w) \/ DestroyDone(w)
    BY <2>4, PopContract, IdleContract
  <2>. QED  BY <1>4, <2>1, <2>2, <2>3, <2>4 DEF Worker, Progress
<1>5. CASE Background
  BY <1>1, <1>2, <1>5, QueueGoneContract, DeleteNextContract, DiscardJobContract DEF Background
<1>6. CASE UNCHANGED vars
  <2>1. UNCHANGED <<alive, jobs, pending, pc, cur, qstate>>  BY <1>6 DEF vars
  <2>2. JobView' = JobView /\ QueueView' = QueueView
    BY <2>1 DEF JobView, QueueOf, StatusOf, QueueView, SeenAs
  <2>. QED  BY <2>1, <2>2, ContractIs
<1>. QED  BY <1>3, <1>4, <1>5, <1>6 DEF Next

\* The pool implements JobContract: a job is run at most once, none is started once
\* the deletion of its queue has begun, which does not end while one is running, and
\* none is dropped but for that, or because the pool is gone and was not asked to
\* complete its jobs (PrivateData::work(), threadpoolimpl.cc; QueueImpl, queue.cc).
\* A pool that was asked to has to have been given a thread by its constructor:
\* one that never has any drops its jobs all the same.
THEOREM PoolKeepsContract ==
    ASSUME CompleteAll => InitialWorkers # {}
    PROVE  Spec => KeepsContract
<1>1. Init => Contract!Init  BY InitContract
<1>2. KInv /\ [Next]_vars => [Contract!Next]_(Contract!vars)  BY StepContract
<1>. QED  BY <1>1, <1>2, KInvariance, PTL DEF Spec, KeepsContract, Contract!Spec
=============================================================================
