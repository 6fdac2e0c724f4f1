---------------------------- MODULE LayersProofs ----------------------------
(***************************************************************************)
(* Proofs about the layers of bitmaps: Loading, for any number of workers  *)
(* and of bitmaps of any size, and Reduction, for any finite set of tiles, *)
(* any tree of layers over them, and any number of workers.                *)
(***************************************************************************)
EXTENDS Loading, Reduction, FiniteSetTheorems, TLAPS

-----------------------------------------------------------------------------
(***************************************************************************)
(* Loading: sources are read in order, one at a time and no faster than    *)
(* they are scaled, and closing one stops its reading.  The invariant      *)
(* LInv says where the one job is that will read the next row of a         *)
(* bitmap: on the queue, with a worker, or left to the QueueJumper of the  *)
(* row before it, which then is still on its queue.                        *)
(***************************************************************************)

\* Where a worker is in a job.
Stages == {"popped", "start", "fill", "report"}
Tasks  == {Idle} \cup [job : Jobs, at : Stages, tiles : Nat, via : Nat]

\* TypeOK, and that the variables are functions.
LoadTypes ==
    /\ TypeOK
    /\ task \in [Workers -> Tasks]
    /\ jumper = [b \in Bitmaps |-> jumper[b]]
    /\ filled = [b \in Bitmaps |-> filled[b]]
    /\ reported = [b \in Bitmaps |-> reported[b]]

\* The DataFetcher of a bitmap is on the queue, or with a worker.
Waits(b)   == \E i \in DOMAIN high : high[i].bitmap = b
Reading(b) == \E w \in Workers : Fetching(w, b)
\* The QueueJumper of a row is on its queue, or with a worker.
Pending(b, r) ==
    \/ \E i \in DOMAIN normal : normal[i] = Jump(b, r)
    \/ \E w \in Workers : task[w].job = Jump(b, r)
\* The next row was left to a QueueJumper.
Handed(b, r) == jumper[b][r].isSet /\ Pending(b, r)

\* Which jobs there are where.
JobsFit ==
    /\ \A i \in DOMAIN high : high[i].kind = "fetch"
    /\ \A i \in DOMAIN normal : normal[i].kind \in {"jump", "reduce"}
    /\ \A w \in Workers :
         /\ task[w].at \in {"fill", "report"} => task[w].job.kind = "fetch"
         /\ task[w].via # 0 => task[w].job.kind = "fetch"

\* Each bitmap has one DataFetcher, and each row one QueueJumper.
OneFetch ==
    /\ \A i, j \in DOMAIN high : high[i].bitmap = high[j].bitmap => i = j
    /\ \A v, w \in Workers, b \in Bitmaps : Fetching(v, b) /\ Fetching(w, b) => v = w
    /\ \A i \in DOMAIN high, w \in Workers : ~Fetching(w, high[i].bitmap)

OneJump ==
    /\ \A i, j \in DOMAIN normal : normal[i].kind = "jump" /\ normal[i] = normal[j] => i = j
    /\ \A v, w \in Workers : task[v].job.kind = "jump" /\ task[v].job = task[w].job => v = w
    /\ \A i \in DOMAIN normal, w \in Workers :
         task[w].job.kind = "jump" => normal[i] # task[w].job

\* The row that a DataFetcher reads is the first one that has not been read.
RowsFit ==
    /\ \A b \in Bitmaps : filled[b] = [i \in 1..Len(filled[b]) |-> i]
    /\ \A i \in DOMAIN high : Len(filled[high[i].bitmap]) = high[i].row - 1
    /\ \A w \in Workers, b \in Bitmaps : Fetching(w, b) =>
         Len(filled[b]) = IF task[w].at = "report" THEN task[w].job.row ELSE task[w].job.row - 1

\* A row that is being read.
Filling(b, r) ==
    \E w \in Workers : Fetching(w, b) /\ task[w].at = "fill" /\ task[w].job.row = r

\* A QueueJumper is scheduled when its row is being read.
JumpersFit ==
    \A b \in Bitmaps : \A r \in 1..Rows[b] :
        /\ Pending(b, r) \/ ~jumper[b][r].inQueue =>
             r <= Len(filled[b]) \/ Filling(b, r)
        /\ jumper[b][r].isSet => r <= Len(filled[b]) /\ r < Rows[b]
        /\ Handed(b, r) => r = Len(filled[b]) /\ ~Waits(b) /\ ~Reading(b)

\* Bitmaps have their turn one by one (Sequentially()), and in no turn but its own
\* is there anything to do for a bitmap that is open.
NotStarted(b) == life[b] = "new" \/ \E i \in DOMAIN waiting : waiting[i] = b

TurnsFit ==
    /\ \A b \in Bitmaps : NotStarted(b) =>
         Len(filled[b]) = 0 /\ ~Waits(b) /\ ~Reading(b) /\ done[b] = 0 /\ loader # b
    /\ \A i, j \in DOMAIN waiting : waiting[i] = waiting[j] => i = j
    /\ \A i \in DOMAIN waiting : life[waiting[i]] # "new"
    /\ \A b \in Bitmaps :
         /\ b \in deleted <=> life[b] = "closed"
         /\ sem[b] > 0 => done[b] > 0 \/ life[b] = "closed"
         /\ Waits(b) \/ Reading(b) \/ (\E r \in 1..Rows[b] : Handed(b, r))
              => loader = b \/ life[b] = "closed"

\* A bitmap is done when all of it was read, which its DataFetcher leaves it at.
DoneFits ==
    \A b \in Bitmaps : done[b] > 0 => Len(filled[b]) = Rows[b] /\ ~Waits(b) /\ ~Reading(b)

\* Which tiles have been reported.
TilesFit ==
    /\ \A w \in Workers : task[w].at # "report" => task[w].tiles = 0
    /\ \A b \in Bitmaps :
         /\ \A w \in Workers : Fetching(w, b) /\ task[w].at = "report"
              => reported[b] = (Len(filled[b]) - 1) * Columns[b] + task[w].tiles
         /\ (\A w \in Workers : ~(Fetching(w, b) /\ task[w].at = "report"))
              => reported[b] = Len(filled[b]) * Columns[b]

\* Which reductions are still waiting: the queue is first in, first out, so that the
\* QueueJumper of a row comes after the reductions of the rows before it, and what
\* it was given is not read before them.
OrderFits ==
    \A j \in DOMAIN normal : normal[j].kind = "reduce" =>
        /\ \A i \in DOMAIN high :
             high[i].bitmap = normal[j].bitmap => normal[j].row >= high[i].row - 1
        /\ \A w \in Workers :
             Fetching(w, normal[j].bitmap) => normal[j].row >= task[w].job.row - 1
        /\ \A i \in DOMAIN normal :
             normal[i].kind = "jump" /\ normal[i].bitmap = normal[j].bitmap /\ i < j
               => normal[j].row >= normal[i].row
        /\ \A w \in Workers :
             task[w].job.kind = "jump" /\ task[w].job.bitmap = normal[j].bitmap
               => normal[j].row >= task[w].job.row
        /\ \A r \in 1..Rows[normal[j].bitmap] :
             ~jumper[normal[j].bitmap][r].inQueue => normal[j].row >= r

\* How many rows are read after closing: the one that a worker is at, and the one of
\* a QueueJumper that was at work.
Jumping(v, b, r) == task[v].job = Jump(b, r) /\ task[v].at = "start"

LateFits ==
    \A b \in Bitmaps :
        /\ life[b] # "closed" => late[b] = 0
        /\ late[b] <= 2
        /\ \A w \in Workers : Fetching(w, b) /\ task[w].at \in {"start", "fill"} =>
             /\ late[b] <= 1
             /\ \A v \in Workers : Jumping(v, b, task[w].job.row) => late[b] = 0
        /\ \A v, w \in Workers : Fetching(w, b) /\ Jumping(v, b, task[w].job.row) => late[b] <= 1
        /\ \A v \in Workers, r \in 1..Rows[b] : Jumping(v, b, r) /\ jumper[b][r].isSet => late[b] <= 1

LInv == /\ LoadTypes /\ JobsFit /\ OneFetch /\ OneJump /\ RowsFit /\ JumpersFit
        /\ TurnsFit /\ DoneFits /\ TilesFit /\ OrderFits /\ LateFits

-----------------------------------------------------------------------------
(* Sequences, jobs and tasks.                                              *)

LEMMA AppendFacts ==
    ASSUME NEW S, NEW s \in Seq(S), NEW x \in S
    PROVE  /\ Append(s, x) \in Seq(S) /\ Len(Append(s, x)) = Len(s) + 1
           /\ DOMAIN Append(s, x) = DOMAIN s \cup {Len(s) + 1}
           /\ \A i \in DOMAIN s : i < Len(s) + 1 /\ Append(s, x)[i] = s[i]
           /\ Append(s, x)[Len(s) + 1] = x
           /\ Len(s) \in Nat /\ DOMAIN s = 1..Len(s)
OBVIOUS

LEMMA TailFacts ==
    ASSUME NEW S, NEW s \in Seq(S), s # <<>>
    PROVE  /\ Head(s) = s[1] /\ 1 \in DOMAIN s /\ s[1] \in S
           /\ Tail(s) \in Seq(S) /\ Len(Tail(s)) = Len(s) - 1
           /\ DOMAIN Tail(s) = 1..(Len(s) - 1) /\ DOMAIN s = 1..Len(s) /\ Len(s) \in Nat \ {0}
           /\ \A i \in DOMAIN Tail(s) : i \in Nat \ {0} /\ i + 1 \in DOMAIN s /\ Tail(s)[i] = s[i + 1]
OBVIOUS

LEMMA JobFacts ==
    /\ \A j \in Jobs : /\ j.kind \in {"fetch", "jump", "reduce"}
                       /\ j.bitmap \in Bitmaps /\ j.row \in 1..Rows[j.bitmap]
                       /\ j.row \in Nat \ {0} /\ Rows[j.bitmap] \in Nat \ {0}
                       /\ j = Job(j.kind, j.bitmap, j.row)
    /\ \A b \in Bitmaps : \A r \in 1..Rows[b] :
         Fetch(b, r) \in Jobs /\ Jump(b, r) \in Jobs /\ Reduce(b, r) \in Jobs
<1>1. ASSUME NEW j \in Jobs
      PROVE  /\ j.kind \in {"fetch", "jump", "reduce"}
             /\ j.bitmap \in Bitmaps /\ j.row \in 1..Rows[j.bitmap]
             /\ j.row \in Nat \ {0} /\ Rows[j.bitmap] \in Nat \ {0}
             /\ j = Job(j.kind, j.bitmap, j.row)
  <2>1. PICK b \in Bitmaps :
          j \in [kind : {"fetch", "jump", "reduce"}, bitmap : {b}, row : 1..Rows[b]]
    BY DEF Jobs
  <2>2. j.bitmap = b /\ j.kind \in {"fetch", "jump", "reduce"} /\ j.row \in 1..Rows[b]
    BY <2>1
  <2>. QED  BY <2>1, <2>2, RowsAssumption DEF Job
<1>2. ASSUME NEW b \in Bitmaps, NEW r \in 1..Rows[b]
      PROVE  Fetch(b, r) \in Jobs /\ Jump(b, r) \in Jobs /\ Reduce(b, r) \in Jobs
  <2>1. \A k \in {"fetch", "jump", "reduce"} :
          Job(k, b, r) \in [kind : {"fetch", "jump", "reduce"}, bitmap : {b}, row : 1..Rows[b]]
    BY DEF Job
  <2>. QED  BY <2>1 DEF Jobs, Fetch, Jump, Reduce
<1>. QED  BY <1>1, <1>2

LEMMA JobIs ==
    ASSUME NEW j, NEW b, NEW r
    PROVE  /\ j = Jump(b, r) => j.kind = "jump" /\ j.bitmap = b /\ j.row = r
           /\ j \in Jobs /\ j.kind = "jump" /\ j.bitmap = b /\ j.row = r => j = Jump(b, r)
           /\ Fetch(b, r).kind = "fetch" /\ Fetch(b, r).bitmap = b /\ Fetch(b, r).row = r
           /\ Jump(b, r).kind = "jump" /\ Jump(b, r).bitmap = b /\ Jump(b, r).row = r
           /\ Reduce(b, r).kind = "reduce" /\ Reduce(b, r).bitmap = b /\ Reduce(b, r).row = r
<1>1. j \in Jobs => j = Job(j.kind, j.bitmap, j.row)  BY JobFacts
<1>. QED  BY <1>1 DEF Job, Fetch, Jump, Reduce

LEMMA IdleFacts ==
    /\ Idle.job.kind = "none" /\ Idle.at = "idle" /\ Idle.tiles = 0 /\ Idle.via = 0
    /\ Idle \in Tasks
BY DEF Idle, Job, Tasks

\* What the type invariant says of a worker.
LEMMA WorkerFacts ==
    ASSUME LoadTypes, NEW w \in Workers
    PROVE  /\ task[w] = Idle <=> task[w].at = "idle"
           /\ task[w] = Idle <=> task[w].job.kind = "none"
           /\ task[w] # Idle =>
                /\ task[w].job \in Jobs /\ task[w].at \in Stages
                /\ task[w].job.kind \in {"fetch", "jump", "reduce"}
                /\ task[w].job.bitmap \in Bitmaps
                /\ task[w].job.row \in 1..Rows[task[w].job.bitmap]
                /\ task[w].job.row \in Nat \ {0} /\ Rows[task[w].job.bitmap] \in Nat
                /\ task[w].job = Job(task[w].job.kind, task[w].job.bitmap, task[w].job.row)
                /\ task[w].tiles \in 0..Columns[task[w].job.bitmap] /\ task[w].tiles \in Nat
                /\ task[w].via \in {0, task[w].job.row - 1} /\ task[w].via \in Nat
                /\ task[w] = [job |-> task[w].job, at |-> task[w].at,
                              tiles |-> task[w].tiles, via |-> task[w].via]
<1>1. CASE task[w] = Idle  BY <1>1, IdleFacts
<1>2. CASE task[w] # Idle
  <2>1. task[w] \in [job : Jobs, at : Stages, tiles : Nat, via : Nat]
    BY <1>2 DEF LoadTypes, Tasks
  <2>2. /\ task[w].tiles \in 0..Columns[task[w].job.bitmap]
        /\ task[w].via \in {0, task[w].job.row - 1}
    BY <1>2 DEF LoadTypes, TypeOK
  <2>3. /\ task[w].job \in Jobs /\ task[w].at \in Stages
        /\ task[w].tiles \in Nat /\ task[w].via \in Nat
        /\ task[w] = [job |-> task[w].job, at |-> task[w].at,
                      tiles |-> task[w].tiles, via |-> task[w].via]
    BY <2>1
  <2>4. /\ task[w].job.kind \in {"fetch", "jump", "reduce"}
        /\ task[w].job.bitmap \in Bitmaps
        /\ task[w].job.row \in 1..Rows[task[w].job.bitmap]
        /\ task[w].job.row \in Nat \ {0} /\ Rows[task[w].job.bitmap] \in Nat
        /\ task[w].job = Job(task[w].job.kind, task[w].job.bitmap, task[w].job.row)
    BY <2>3, JobFacts
  <2>. QED  BY <1>2, <2>2, <2>3, <2>4 DEF Stages
<1>. QED  BY <1>1, <1>2

\* A worker gets another task.
LEMMA TaskFacts ==
    ASSUME LoadTypes, NEW w \in Workers, NEW t \in Tasks, SetTask(w, t)
    PROVE  /\ task'[w] = t
           /\ \A v \in Workers \ {w} : task'[v] = task[v]
           /\ task' \in [Workers -> Tasks]
BY DEF LoadTypes, SetTask

\* The state of bitmaps and rows.
LEMMA BitmapFacts ==
    ASSUME LoadTypes
    PROVE  /\ DOMAIN filled = Bitmaps /\ DOMAIN reported = Bitmaps /\ DOMAIN jumper = Bitmaps
           /\ \A b \in Bitmaps :
                /\ filled[b] \in Seq(1..Rows[b]) /\ Len(filled[b]) \in Nat
                /\ reported[b] \in Nat /\ reported[b] <= Rows[b] * Columns[b]
                /\ Rows[b] \in Nat \ {0} /\ Columns[b] \in Nat \ {0}
                /\ jumper[b] \in [1..Rows[b] -> [inQueue : BOOLEAN, isSet : BOOLEAN]]
           /\ high \in Seq(Jobs) /\ normal \in Seq(Jobs)
           /\ \A i \in DOMAIN high : high[i] \in Jobs
           /\ \A i \in DOMAIN normal : normal[i] \in Jobs
<1>1. /\ filled = [b \in Bitmaps |-> filled[b]] /\ reported = [b \in Bitmaps |-> reported[b]]
      /\ jumper = [b \in Bitmaps |-> jumper[b]]
  BY DEF LoadTypes
<1>2. DOMAIN filled = Bitmaps /\ DOMAIN reported = Bitmaps /\ DOMAIN jumper = Bitmaps
  BY <1>1
<1>3. ASSUME NEW b \in Bitmaps
      PROVE  /\ filled[b] \in Seq(1..Rows[b]) /\ Len(filled[b]) \in Nat
             /\ reported[b] \in Nat /\ reported[b] <= Rows[b] * Columns[b]
             /\ Rows[b] \in Nat \ {0} /\ Columns[b] \in Nat \ {0}
             /\ jumper[b] \in [1..Rows[b] -> [inQueue : BOOLEAN, isSet : BOOLEAN]]
  <2>1. /\ filled[b] \in Seq(1..Rows[b])
        /\ reported[b] \in 0..(Rows[b] * Columns[b])
        /\ jumper[b] \in [1..Rows[b] -> [inQueue : BOOLEAN, isSet : BOOLEAN]]
    BY <1>3 DEF LoadTypes, TypeOK
  <2>2. Rows[b] \in Nat \ {0} /\ Columns[b] \in Nat \ {0}
    BY <1>3, RowsAssumption, ColumnsAssumption
  <2>3. Len(filled[b]) \in Nat  BY <2>1
  <2>4. reported[b] \in Nat /\ reported[b] <= Rows[b] * Columns[b]
    <3>1. Rows[b] * Columns[b] \in Nat  BY <2>2
    <3>. QED  BY <2>1, <3>1
  <2>. QED  BY <2>1, <2>2, <2>3, <2>4
<1>4. high \in Seq(Jobs) /\ normal \in Seq(Jobs)  BY DEF LoadTypes, TypeOK
<1>5. /\ \A i \in DOMAIN high : high[i] \in Jobs
      /\ \A i \in DOMAIN normal : normal[i] \in Jobs
  BY <1>4
<1>. QED  BY <1>2, <1>3, <1>4, <1>5

\* A QueueJumper leaves its queue, and gets work.
LeftQueue(f, b, r) == [f EXCEPT ![b][r].inQueue = FALSE]
WorkSet(f, b, r)   == [f EXCEPT ![b][r].isSet = TRUE]

LEMMA LeftQueueField ==
    ASSUME NEW q \in [inQueue : BOOLEAN, isSet : BOOLEAN], NEW p, p = [q EXCEPT !.inQueue = FALSE]
    PROVE  p \in [inQueue : BOOLEAN, isSet : BOOLEAN] /\ p.isSet = q.isSet
OBVIOUS

LEMMA WorkSetField ==
    ASSUME NEW q \in [inQueue : BOOLEAN, isSet : BOOLEAN], NEW p, p = [q EXCEPT !.isSet = TRUE]
    PROVE  p \in [inQueue : BOOLEAN, isSet : BOOLEAN] /\ p.inQueue = q.inQueue
OBVIOUS

\* What jumper is: of each row of each bitmap, its QueueJumper.
Jumpers(f) == /\ f = [c \in Bitmaps |-> f[c]]
              /\ \A c \in Bitmaps : f[c] \in [1..Rows[c] -> [inQueue : BOOLEAN, isSet : BOOLEAN]]

\* One row's QueueJumper changes.
With(f, b, r, p) == [f EXCEPT ![b] = [f[b] EXCEPT ![r] = p]]

LEMMA OneJumper ==
    ASSUME NEW f, Jumpers(f), NEW b \in Bitmaps, NEW r \in 1..Rows[b],
           NEW p \in [inQueue : BOOLEAN, isSet : BOOLEAN]
    PROVE  /\ Jumpers(With(f, b, r, p))
           /\ \A c \in Bitmaps : \A s \in 1..Rows[c] :
                With(f, b, r, p)[c][s] = IF c = b /\ s = r THEN p ELSE f[c][s]
<1>g. PICK g : g = [f EXCEPT ![b] = [f[b] EXCEPT ![r] = p]]  OBVIOUS
<1>1. /\ f = [c \in Bitmaps |-> f[c]]
      /\ \A c \in Bitmaps : f[c] \in [1..Rows[c] -> [inQueue : BOOLEAN, isSet : BOOLEAN]]
  BY DEF Jumpers
<1>2. /\ g = [c \in Bitmaps |-> g[c]]
      /\ \A c \in Bitmaps : g[c] \in [1..Rows[c] -> [inQueue : BOOLEAN, isSet : BOOLEAN]]
      /\ \A c \in Bitmaps : \A s \in 1..Rows[c] :
           g[c][s] = IF c = b /\ s = r THEN p ELSE f[c][s]
  BY <1>g, <1>1
<1>3. Jumpers(g)  BY <1>2 DEF Jumpers
<1>. QED  BY <1>g, <1>2, <1>3 DEF With

\* Two rows' QueueJumpers do not interfere.
LEMMA LeftQueueFacts ==
    ASSUME NEW f, Jumpers(f), NEW b \in Bitmaps, NEW r \in 1..Rows[b]
    PROVE  /\ Jumpers(LeftQueue(f, b, r))
           /\ \A c \in Bitmaps : \A s \in 1..Rows[c] :
                /\ LeftQueue(f, b, r)[c][s].isSet = f[c][s].isSet
                /\ ~LeftQueue(f, b, r)[c][s].inQueue => ~f[c][s].inQueue \/ (c = b /\ s = r)
<1>1. PICK q : q = f[b][r]  OBVIOUS
<1>2. PICK p : p = [q EXCEPT !.inQueue = FALSE]  OBVIOUS
<1>3. q \in [inQueue : BOOLEAN, isSet : BOOLEAN]  BY <1>1 DEF Jumpers
<1>4. p \in [inQueue : BOOLEAN, isSet : BOOLEAN] /\ p.isSet = q.isSet
  BY <1>3, <1>2, LeftQueueField
<1>5. LeftQueue(f, b, r) = With(f, b, r, p)
  BY <1>1, <1>2 DEF LeftQueue, With
<1>6. /\ Jumpers(With(f, b, r, p))
      /\ \A c \in Bitmaps : \A s \in 1..Rows[c] :
           With(f, b, r, p)[c][s] = IF c = b /\ s = r THEN p ELSE f[c][s]
  BY <1>4, OneJumper
<1>. QED  BY <1>4, <1>5, <1>6, <1>1

LEMMA WorkSetFacts ==
    ASSUME NEW f, Jumpers(f), NEW b \in Bitmaps, NEW r \in 1..Rows[b]
    PROVE  /\ Jumpers(WorkSet(f, b, r))
           /\ \A c \in Bitmaps : \A s \in 1..Rows[c] :
                /\ WorkSet(f, b, r)[c][s].inQueue = f[c][s].inQueue
                /\ WorkSet(f, b, r)[c][s].isSet => f[c][s].isSet \/ (c = b /\ s = r)
<1>1. PICK q : q = f[b][r]  OBVIOUS
<1>2. PICK p : p = [q EXCEPT !.isSet = TRUE]  OBVIOUS
<1>3. q \in [inQueue : BOOLEAN, isSet : BOOLEAN]  BY <1>1 DEF Jumpers
<1>4. p \in [inQueue : BOOLEAN, isSet : BOOLEAN] /\ p.inQueue = q.inQueue
  BY <1>3, <1>2, WorkSetField
<1>5. WorkSet(f, b, r) = With(f, b, r, p)
  BY <1>1, <1>2 DEF WorkSet, With
<1>6. /\ Jumpers(With(f, b, r, p))
      /\ \A c \in Bitmaps : \A s \in 1..Rows[c] :
           With(f, b, r, p)[c][s] = IF c = b /\ s = r THEN p ELSE f[c][s]
  BY <1>4, OneJumper
<1>. QED  BY <1>4, <1>5, <1>6, <1>1

\* A job that was popped.
Popped(j) == [job |-> j, at |-> "popped", tiles |-> 0, via |-> 0]

LEMMA PoppedIs ==
    ASSUME NEW j PROVE [Idle EXCEPT !.job = j, !.at = "popped"] = Popped(j)
<1>1. [Idle EXCEPT !.job = j, !.at = "popped"]
        = [[[job |-> Job("none", None, 0), at |-> "idle", tiles |-> 0, via |-> 0]
              EXCEPT !.job = j] EXCEPT !.at = "popped"]
  BY DEF Idle
<1>2. [[job |-> Job("none", None, 0), at |-> "idle", tiles |-> 0, via |-> 0] EXCEPT !.job = j]
        = [job |-> j, at |-> "idle", tiles |-> 0, via |-> 0]
  OBVIOUS
<1>3. [[job |-> j, at |-> "idle", tiles |-> 0, via |-> 0] EXCEPT !.at = "popped"]
        = [job |-> j, at |-> "popped", tiles |-> 0, via |-> 0]
  OBVIOUS
<1>. QED  BY <1>1, <1>2, <1>3 DEF Popped

LEMMA PoppedTask ==
    ASSUME NEW j \in Jobs
    PROVE  /\ Popped(j) \in Tasks
           /\ Popped(j).job = j /\ Popped(j).at = "popped"
           /\ Popped(j).tiles = 0 /\ Popped(j).via = 0
           /\ Popped(j).tiles \in 0..Columns[Popped(j).job.bitmap]
<1>1. Columns[j.bitmap] \in Nat  BY JobFacts, ColumnsAssumption
<1>. QED  BY <1>1 DEF Popped, Tasks, Stages

\* The type invariant, for the steps of the workers.
LEMMA TypesKept ==
    ASSUME LoadTypes, NEW w \in Workers, NEW t \in Tasks, SetTask(w, t),
           t # Idle => /\ t.tiles \in 0..Columns[t.job.bitmap]
                       /\ t.via \in {0, t.job.row - 1},
           high' \in Seq(Jobs), normal' \in Seq(Jobs),
           UNCHANGED <<life, waiting, loader, deleted>>,
           sem' \in [Bitmaps -> Nat], done' \in [Bitmaps -> 0..1], late' \in [Bitmaps -> Nat],
           jumper' = [b \in Bitmaps |-> jumper'[b]], filled' = [b \in Bitmaps |-> filled'[b]],
           reported' = [b \in Bitmaps |-> reported'[b]],
           \A b \in Bitmaps :
             /\ jumper'[b] \in [1..Rows[b] -> [inQueue : BOOLEAN, isSet : BOOLEAN]]
             /\ filled'[b] \in Seq(1..Rows[b])
             /\ reported'[b] \in 0..(Rows[b] * Columns[b])
    PROVE  LoadTypes'
<1>1. /\ task'[w] = t /\ task' \in [Workers -> Tasks]
      /\ \A v \in Workers \ {w} : task'[v] = task[v]
  BY TaskFacts
<1>2. ASSUME NEW v \in Workers, task'[v] # Idle
      PROVE  /\ task'[v].job \in Jobs
             /\ task'[v].at \in Stages
             /\ task'[v].tiles \in 0..Columns[task'[v].job.bitmap]
             /\ task'[v].via \in {0, task'[v].job.row - 1}
  <2>1. CASE v = w  BY <1>1, <1>2, <2>1 DEF Tasks
  <2>2. CASE v # w  BY <1>1, <1>2, <2>2, WorkerFacts
  <2>. QED  BY <2>1, <2>2
<1>3. TypeOK'
  BY <1>2 DEF LoadTypes, TypeOK, Stages
<1>. QED  BY <1>1, <1>3 DEF LoadTypes

-----------------------------------------------------------------------------
(* One lemma per action.                                                   *)

LEMMA InitInv == Init => LInv
<1>. SUFFICES ASSUME Init PROVE LInv  OBVIOUS
<1>1. /\ life = [b \in Bitmaps |-> "new"] /\ waiting = <<>> /\ loader = None
      /\ sem = [b \in Bitmaps |-> 0] /\ deleted = {} /\ high = <<>> /\ normal = <<>>
      /\ task = [w \in Workers |-> Idle]
      /\ jumper = [b \in Bitmaps |-> [r \in 1..Rows[b] |-> [inQueue |-> TRUE, isSet |-> FALSE]]]
      /\ filled = [b \in Bitmaps |-> <<>>] /\ reported = [b \in Bitmaps |-> 0]
      /\ done = [b \in Bitmaps |-> 0] /\ late = [b \in Bitmaps |-> 0]
  BY DEF Init
<1>2. \A w \in Workers : /\ task[w] = Idle /\ task[w].job.kind = "none" /\ task[w].at = "idle"
                         /\ task[w].tiles = 0 /\ task[w].via = 0
  BY <1>1, IdleFacts
<1>3. \A b \in Bitmaps : /\ ~Waits(b) /\ ~Reading(b)
                         /\ \A r \in 1..Rows[b] : ~Pending(b, r) /\ ~Handed(b, r)
  BY <1>1, <1>2, JobIs DEF Waits, Reading, Fetching, Pending, Handed
<1>4. TypeOK
  <2>1. ASSUME NEW b \in Bitmaps
        PROVE  /\ jumper[b] \in [1..Rows[b] -> [inQueue : BOOLEAN, isSet : BOOLEAN]]
               /\ filled[b] \in Seq(1..Rows[b])
               /\ reported[b] \in 0..(Rows[b] * Columns[b])
    <3>1. Rows[b] \in Nat /\ Columns[b] \in Nat  BY RowsAssumption, ColumnsAssumption
    <3>2. Rows[b] * Columns[b] \in Nat  BY <3>1
    <3>. QED  BY <1>1, <3>1, <3>2
  <2>. QED  BY <1>1, <1>2, <2>1 DEF TypeOK
<1>5. LoadTypes  BY <1>1, <1>4, IdleFacts DEF LoadTypes
<1>6. JobsFit /\ OneFetch /\ OneJump
  BY <1>1, <1>2 DEF JobsFit, OneFetch, OneJump, Fetching
<1>7. RowsFit
  BY <1>1, <1>2 DEF RowsFit, Fetching
<1>8. JumpersFit
  BY <1>1, <1>2, <1>3 DEF JumpersFit
<1>9. TurnsFit /\ DoneFits
  BY <1>1, <1>2, <1>3, NoneAssumption DEF TurnsFit, DoneFits, NotStarted
<1>10. TilesFit
  <2>1. \A b \in Bitmaps : Columns[b] \in Nat  BY ColumnsAssumption
  <2>. QED  BY <1>1, <1>2, <2>1 DEF TilesFit, Fetching
<1>11. OrderFits /\ LateFits
  BY <1>1, <1>2 DEF OrderFits, LateFits, Fetching, Jumping, Jump, Job
<1>. QED  BY <1>5, <1>6, <1>7, <1>8, <1>9, <1>10, <1>11 DEF LInv

\* What stays true as long as these are not changed.
LEMMA SameJobs ==
    ASSUME LInv, UNCHANGED <<high, normal, task, jumper, filled, reported>>
    PROVE  /\ JobsFit' /\ OneFetch' /\ OneJump' /\ RowsFit' /\ JumpersFit' /\ TilesFit' /\ OrderFits'
           /\ \A b \in Bitmaps : /\ Waits(b)' <=> Waits(b)
                                 /\ Reading(b)' <=> Reading(b)
                                 /\ \A r \in 1..Rows[b] : Handed(b, r)' <=> Handed(b, r)
<1>1. \A b \in Bitmaps : /\ Waits(b)' <=> Waits(b)
                         /\ Reading(b)' <=> Reading(b)
                         /\ \A r \in 1..Rows[b] : /\ Pending(b, r)' <=> Pending(b, r)
                                                  /\ Handed(b, r)' <=> Handed(b, r)
                                                  /\ Filling(b, r)' <=> Filling(b, r)
  BY DEF Waits, Reading, Fetching, Pending, Handed, Filling
<1>2. JobsFit' /\ OneFetch' /\ OneJump' /\ RowsFit'
  BY DEF LInv, JobsFit, OneFetch, OneJump, RowsFit, Fetching
<1>3. JumpersFit'
  BY <1>1 DEF LInv, JumpersFit
<1>4. TilesFit' /\ OrderFits'
  BY DEF LInv, TilesFit, OrderFits, Fetching
<1>. QED  BY <1>1, <1>2, <1>3, <1>4

LEMMA SetSourceInv == ASSUME LInv, NEW b \in Bitmaps, SetSource(b) PROVE LInv'
<1>1. /\ life[b] = "new" /\ life' = [life EXCEPT ![b] = "open"]
      /\ waiting' = Append(waiting, b)
      /\ UNCHANGED <<loader, sem, deleted, high, normal, task, jumper, filled, done, late, reported>>
      /\ waiting \in Seq(Bitmaps) /\ life \in [Bitmaps -> {"new", "open", "closed"}]
      /\ LoadTypes
  BY DEF SetSource, sourceVars, LInv, LoadTypes, TypeOK
<1>2. \A c \in Bitmaps : life'[c] = IF c = b THEN "open" ELSE life[c]
  BY <1>1
<1>3. /\ DOMAIN waiting' = DOMAIN waiting \cup {Len(waiting) + 1}
      /\ \A i \in DOMAIN waiting : waiting'[i] = waiting[i] /\ i # Len(waiting) + 1
      /\ waiting'[Len(waiting) + 1] = b /\ waiting' \in Seq(Bitmaps)
  BY <1>1, AppendFacts
<1>4. LoadTypes'
  BY <1>1, <1>3 DEF LoadTypes, TypeOK
<1>5. TurnsFit'
  <2>1. \A c \in Bitmaps : NotStarted(c)' => NotStarted(c)
    BY <1>1, <1>2, <1>3 DEF NotStarted
  <2>2. \A i \in DOMAIN waiting : waiting[i] # b /\ waiting[i] \in Bitmaps
    BY <1>1 DEF LInv, TurnsFit
  <2>3. \A c \in Bitmaps : life'[c] = "closed" <=> life[c] = "closed"
    BY <1>1, <1>2
  <2>4. /\ \A i, j \in DOMAIN waiting' : waiting'[i] = waiting'[j] => i = j
        /\ \A i \in DOMAIN waiting' : life'[waiting'[i]] # "new"
    BY <1>1, <1>2, <1>3, <2>2 DEF LInv, TurnsFit
  <2>5. \A c \in Bitmaps : NotStarted(c)' =>
          Len(filled[c]) = 0 /\ ~Waits(c)' /\ ~Reading(c)' /\ done[c] = 0 /\ loader # c
    BY <1>1, <2>1, SameJobs DEF LInv, TurnsFit
  <2>6. \A c \in Bitmaps :
          /\ c \in deleted <=> life'[c] = "closed"
          /\ sem[c] > 0 => done[c] > 0 \/ life'[c] = "closed"
          /\ Waits(c)' \/ Reading(c)' \/ (\E r \in 1..Rows[c] : Handed(c, r)')
               => loader = c \/ life'[c] = "closed"
    BY <1>1, <2>3, SameJobs DEF LInv, TurnsFit
  <2>. QED  BY <1>1, <2>4, <2>5, <2>6 DEF TurnsFit
<1>6. DoneFits'
  BY <1>1, SameJobs DEF LInv, DoneFits
<1>7. LateFits'
  BY <1>1, <1>2 DEF LInv, LateFits, Fetching, Jumping
<1>. QED  BY <1>1, <1>4, <1>5, <1>6, <1>7, SameJobs DEF LInv

LEMMA CloseInv == ASSUME LInv, NEW b \in Bitmaps, Close(b) PROVE LInv'
<1>1. /\ life[b] = "open" /\ life' = [life EXCEPT ![b] = "closed"]
      /\ deleted' = deleted \cup {b} /\ sem' = [sem EXCEPT ![b] = @ + 1]
      /\ UNCHANGED <<loader, waiting, high, normal, task, jumper, filled, done, late, reported>>
      /\ life \in [Bitmaps -> {"new", "open", "closed"}] /\ sem \in [Bitmaps -> Nat]
      /\ LoadTypes
  BY DEF Close, V, sourceVars, LInv, LoadTypes, TypeOK
<1>2. \A c \in Bitmaps : /\ life'[c] = IF c = b THEN "closed" ELSE life[c]
                         /\ sem'[c] = IF c = b THEN sem[c] + 1 ELSE sem[c]
  BY <1>1
<1>3. sem' \in [Bitmaps -> Nat] /\ life' \in [Bitmaps -> {"new", "open", "closed"}]
  BY <1>1
<1>4. LoadTypes'
  BY <1>1, <1>3 DEF LoadTypes, TypeOK
<1>5. TurnsFit'
  <2>1. \A c \in Bitmaps : NotStarted(c)' => NotStarted(c)
    BY <1>1, <1>2 DEF NotStarted
  <2>2. \A i \in DOMAIN waiting : waiting[i] \in Bitmaps
    BY <1>1 DEF LoadTypes, TypeOK
  <2>3. /\ \A i, j \in DOMAIN waiting' : waiting'[i] = waiting'[j] => i = j
        /\ \A i \in DOMAIN waiting' : life'[waiting'[i]] # "new"
    BY <1>1, <1>2, <2>2 DEF LInv, TurnsFit
  <2>4. \A c \in Bitmaps : NotStarted(c)' =>
          Len(filled[c]) = 0 /\ ~Waits(c)' /\ ~Reading(c)' /\ done[c] = 0 /\ loader # c
    BY <1>1, <2>1, SameJobs DEF LInv, TurnsFit
  <2>5. \A c \in Bitmaps :
          /\ c \in deleted' <=> life'[c] = "closed"
          /\ sem'[c] > 0 => done[c] > 0 \/ life'[c] = "closed"
          /\ Waits(c)' \/ Reading(c)' \/ (\E r \in 1..Rows[c] : Handed(c, r)')
               => loader = c \/ life'[c] = "closed"
    BY <1>1, <1>2, SameJobs DEF LInv, TurnsFit
  <2>. QED  BY <1>1, <2>3, <2>4, <2>5 DEF TurnsFit
<1>6. DoneFits'
  BY <1>1, SameJobs DEF LInv, DoneFits
<1>7. LateFits'
  BY <1>1, <1>2 DEF LInv, LateFits, Fetching, Jumping
<1>. QED  BY <1>1, <1>4, <1>5, <1>6, <1>7, SameJobs DEF LInv

LEMMA PInv == ASSUME LInv, P PROVE LInv'
<1>1. /\ loader # None /\ sem[loader] > 0 /\ loader' = None
      /\ sem' = [sem EXCEPT ![loader] = @ - 1]
      /\ UNCHANGED <<life, deleted, waiting, high, normal, task, jumper, filled, done, late, reported>>
      /\ sem \in [Bitmaps -> Nat] /\ loader \in Bitmaps
      /\ LoadTypes
  BY DEF P, sourceVars, LInv, LoadTypes, TypeOK
<1>2. \A c \in Bitmaps : sem'[c] = IF c = loader THEN sem[c] - 1 ELSE sem[c]
  BY <1>1
<1>3. sem' \in [Bitmaps -> Nat]
  BY <1>1
<1>4. LoadTypes'
  BY <1>1, <1>3 DEF LoadTypes, TypeOK
<1>5. TurnsFit'
  <2>1. \A c \in Bitmaps : NotStarted(c)' <=> NotStarted(c)
    BY <1>1 DEF NotStarted
  <2>2. ASSUME NEW c \in Bitmaps
        PROVE  Waits(c)' \/ Reading(c)' \/ (\E r \in 1..Rows[c] : Handed(c, r)')
                 => life[c] = "closed"
    <3>1. CASE c # loader  BY <1>1, <3>1, SameJobs DEF LInv, TurnsFit
    <3>2. CASE c = loader /\ done[c] > 0
      <4>1. Len(filled[c]) = Rows[c] /\ ~Waits(c) /\ ~Reading(c)
        BY <3>2 DEF LInv, DoneFits
      <4>2. Rows[c] \in Nat  BY RowsAssumption
      <4>3. \A r \in 1..Rows[c] : Handed(c, r) => r = Len(filled[c]) /\ r < Rows[c]
        BY DEF LInv, JumpersFit, Handed
      <4>. QED  BY <1>1, <4>1, <4>2, <4>3, SameJobs
    <3>3. CASE c = loader /\ ~(done[c] > 0)
      BY <1>1, <3>3 DEF LInv, TurnsFit
    <3>. QED  BY <3>1, <3>2, <3>3
  <2>3. \A c \in Bitmaps : NotStarted(c)' =>
          Len(filled[c]) = 0 /\ ~Waits(c)' /\ ~Reading(c)' /\ done[c] = 0 /\ loader' # c
    BY <1>1, <2>1, SameJobs, NoneAssumption DEF LInv, TurnsFit
  <2>4. \A c \in Bitmaps : sem'[c] > 0 => sem[c] > 0
    BY <1>1, <1>2
  <2>5. \A c \in Bitmaps : (c \in deleted <=> life[c] = "closed")
                           /\ (sem'[c] > 0 => done[c] > 0 \/ life[c] = "closed")
    BY <2>4 DEF LInv, TurnsFit
  <2>. QED  BY <1>1, <2>2, <2>3, <2>5 DEF LInv, TurnsFit
<1>6. DoneFits'
  BY <1>1, SameJobs DEF LInv, DoneFits
<1>7. LateFits'
  BY <1>1 DEF LInv, LateFits, Fetching, Jumping
<1>. QED  BY <1>1, <1>4, <1>5, <1>6, <1>7, SameJobs DEF LInv

LEMMA StartLoadingInv == ASSUME LInv, StartLoading PROVE LInv'
<1>. DEFINE b == waiting[1]
<1>1. /\ loader = None /\ loader' = b /\ b \in Bitmaps
      /\ waiting # <<>> /\ waiting' = Tail(waiting) /\ waiting' \in Seq(Bitmaps)
      /\ high' = Append(high, Fetch(b, 1))
      /\ UNCHANGED <<life, sem, deleted, normal, task, jumper, filled, done, late, reported>>
      /\ LoadTypes /\ waiting \in Seq(Bitmaps)
  BY TailFacts DEF StartLoading, bitmapVars, sourceVars, LInv, LoadTypes, TypeOK
<1>2. /\ 1 \in DOMAIN waiting
      /\ \A i \in DOMAIN waiting' :
           i \in Nat \ {0} /\ i + 1 \in DOMAIN waiting /\ waiting'[i] = waiting[i + 1]
  BY <1>1, TailFacts
<1>3. /\ Fetch(b, 1) \in Jobs /\ Fetch(b, 1).kind = "fetch"
      /\ Fetch(b, 1).bitmap = b /\ Fetch(b, 1).row = 1
  BY <1>1, JobFacts, JobIs, RowsAssumption
<1>4. /\ DOMAIN high' = DOMAIN high \cup {Len(high) + 1} /\ high' \in Seq(Jobs)
      /\ \A i \in DOMAIN high : high'[i] = high[i] /\ i # Len(high) + 1
      /\ high'[Len(high) + 1].kind = "fetch" /\ high'[Len(high) + 1].bitmap = b
      /\ high'[Len(high) + 1].row = 1
  <2>1. high \in Seq(Jobs)  BY <1>1, BitmapFacts
  <2>2. /\ DOMAIN high' = DOMAIN high \cup {Len(high) + 1} /\ high' \in Seq(Jobs)
        /\ \A i \in DOMAIN high : high'[i] = high[i] /\ i # Len(high) + 1
        /\ high'[Len(high) + 1] = Fetch(b, 1)
    BY <1>1, <1>3, <2>1, AppendFacts
  <2>. QED  BY <1>3, <2>2
<1>5. NotStarted(b)
  BY <1>2 DEF NotStarted
<1>6. Len(filled[b]) = 0 /\ ~Waits(b) /\ ~Reading(b) /\ done[b] = 0
  BY <1>1, <1>5 DEF LInv, TurnsFit
<1>7. \A c \in Bitmaps : /\ Waits(c)' <=> Waits(c) \/ c = b
                         /\ Reading(c)' <=> Reading(c)
                         /\ \A r \in 1..Rows[c] : /\ Pending(c, r)' <=> Pending(c, r)
                                                  /\ Handed(c, r)' <=> Handed(c, r)
                                                  /\ Filling(c, r)' <=> Filling(c, r)
  <2>1. \A c \in Bitmaps : Waits(c)' <=> Waits(c) \/ c = b
    BY <1>4 DEF Waits
  <2>. QED  BY <1>1, <2>1 DEF Reading, Fetching, Pending, Handed, Filling
<1>8. \A r \in 1..Rows[b] : ~Handed(b, r)
  BY <1>1, <1>6 DEF LInv, JumpersFit
<1>9. LoadTypes'
  BY <1>1, <1>4 DEF LoadTypes, TypeOK
<1>10. JobsFit'
  BY <1>1, <1>4 DEF LInv, JobsFit
<1>11. OneFetch'
  BY <1>1, <1>4, <1>6 DEF LInv, OneFetch, Waits, Reading, Fetching
<1>12. OneJump'
  BY <1>1 DEF LInv, OneJump
<1>13. RowsFit'
  BY <1>1, <1>4, <1>6 DEF LInv, RowsFit, Fetching
<1>14. JumpersFit'
  BY <1>1, <1>7, <1>8 DEF LInv, JumpersFit
<1>15. TurnsFit'
  <2>1. \A c \in Bitmaps : NotStarted(c)' => NotStarted(c) /\ c # b
    <3>1. \A i \in DOMAIN waiting' : waiting'[i] # b
      BY <1>2 DEF LInv, TurnsFit
    <3>2. life[b] # "new"  BY <1>2 DEF LInv, TurnsFit
    <3>. QED  BY <1>1, <1>2, <3>1, <3>2 DEF NotStarted
  <2>2. \A c \in Bitmaps : NotStarted(c)' =>
          Len(filled[c]) = 0 /\ ~Waits(c)' /\ ~Reading(c)' /\ done[c] = 0 /\ loader' # c
    BY <1>1, <1>7, <2>1 DEF LInv, TurnsFit
  <2>3. /\ \A i, j \in DOMAIN waiting' : waiting'[i] = waiting'[j] => i = j
        /\ \A i \in DOMAIN waiting' : life'[waiting'[i]] # "new"
    BY <1>1, <1>2 DEF LInv, TurnsFit
  <2>4. \A c \in Bitmaps :
          Waits(c)' \/ Reading(c)' \/ (\E r \in 1..Rows[c] : Handed(c, r)')
               => loader' = c \/ life[c] = "closed"
    BY <1>1, <1>7, NoneAssumption DEF LInv, TurnsFit
  <2>. QED  BY <1>1, <2>2, <2>3, <2>4 DEF LInv, TurnsFit
<1>16. DoneFits'
  BY <1>1, <1>6, <1>7 DEF LInv, DoneFits
<1>17. TilesFit'
  BY <1>1 DEF LInv, TilesFit, Fetching
<1>18. OrderFits'
  <2>1. ASSUME NEW j \in DOMAIN normal, normal[j].kind = "reduce", normal[j].bitmap = b
        PROVE  normal[j].row >= 0
    BY <1>1, BitmapFacts, JobFacts
  <2>. QED  BY <1>1, <1>4, <2>1 DEF LInv, OrderFits, Fetching
<1>19. LateFits'
  BY <1>1 DEF LInv, LateFits, Fetching, Jumping
<1>. QED  BY <1>9, <1>10, <1>11, <1>12, <1>13, <1>14, <1>15, <1>16, <1>17, <1>18, <1>19 DEF LInv

\* A worker takes a DataFetcher's job.
LEMMA TakeFetchInv ==
    ASSUME LInv, NEW w \in Workers, task[w] = Idle, high # <<>>,
           SetTask(w, Popped(Head(high))),
           high' = Tail(high),
           UNCHANGED <<life, sem, deleted, waiting, loader, normal, jumper, filled, done, late, reported>>
    PROVE  LInv'
<1>. DEFINE b == high[1].bitmap
<1>1. /\ LoadTypes /\ 1 \in DOMAIN high /\ high[1] \in Jobs /\ high[1].kind = "fetch"
      /\ b \in Bitmaps /\ Head(high) = high[1]
      /\ \A i \in DOMAIN high' :
           i \in Nat \ {0} /\ i + 1 \in DOMAIN high /\ high'[i] = high[i + 1]
      /\ high' \in Seq(Jobs)
  BY TailFacts, BitmapFacts, JobFacts DEF LInv, JobsFit
<1>2. /\ task'[w].job = high[1] /\ task'[w].at = "popped"
      /\ task'[w].tiles = 0 /\ task'[w].via = 0
      /\ \A v \in Workers \ {w} : task'[v] = task[v]
  BY <1>1, PoppedTask, TaskFacts
<1>3. LoadTypes'
  <2>1. /\ sem' \in [Bitmaps -> Nat] /\ done' \in [Bitmaps -> 0..1] /\ late' \in [Bitmaps -> Nat]
        /\ jumper' = [c \in Bitmaps |-> jumper'[c]] /\ filled' = [c \in Bitmaps |-> filled'[c]]
        /\ reported' = [c \in Bitmaps |-> reported'[c]] /\ high' \in Seq(Jobs) /\ normal' \in Seq(Jobs)
        /\ \A c \in Bitmaps :
             /\ jumper'[c] \in [1..Rows[c] -> [inQueue : BOOLEAN, isSet : BOOLEAN]]
             /\ filled'[c] \in Seq(1..Rows[c])
             /\ reported'[c] \in 0..(Rows[c] * Columns[c])
    BY <1>1 DEF LoadTypes, TypeOK
  <2>. QED  BY <1>1, <2>1, PoppedTask, TypesKept
<1>4. task[w].job.kind = "none" /\ task[w].at = "idle" /\ task[w].tiles = 0
  BY IdleFacts
<1>5. \A v \in Workers : \A c : Fetching(v, c)' <=> IF v = w THEN c = b ELSE Fetching(v, c)
  BY <1>1, <1>2 DEF Fetching
<1>6. \A c \in Bitmaps :
        /\ Waits(c)' => Waits(c) /\ c # b
        /\ Reading(c)' <=> Reading(c) \/ c = b
        /\ \A r \in 1..Rows[c] : /\ Pending(c, r)' <=> Pending(c, r)
                                 /\ Handed(c, r)' <=> Handed(c, r)
                                 /\ Filling(c, r)' <=> Filling(c, r)
  <2>1. \A c \in Bitmaps : Waits(c)' => Waits(c) /\ c # b
    BY <1>1 DEF LInv, OneFetch, Waits
  <2>2. \A c \in Bitmaps : Reading(c)' <=> Reading(c) \/ c = b
    <3>1. \A c \in Bitmaps : ~Fetching(w, c)  BY <1>4 DEF Fetching
    <3>. QED  BY <1>5, <3>1 DEF Reading
  <2>3. \A c, r : Pending(c, r)' <=> Pending(c, r)
    BY <1>1, <1>2, <1>4, JobIs DEF Pending
  <2>4. \A c, r : Filling(c, r)' <=> Filling(c, r)
    BY <1>2, <1>4, <1>5 DEF Filling, Fetching
  <2>. QED  BY <2>1, <2>2, <2>3, <2>4 DEF Handed
<1>7. Waits(b) /\ Len(filled[b]) = high[1].row - 1 /\ ~Reading(b)
  BY <1>1 DEF LInv, RowsFit, OneFetch, Waits, Reading
<1>8. JobsFit'
  BY <1>1, <1>2 DEF LInv, JobsFit
<1>9. OneFetch'
  <2>1. \A i, j \in DOMAIN high' : high'[i].bitmap = high'[j].bitmap => i = j
    BY <1>1 DEF LInv, OneFetch
  <2>2. \A i \in DOMAIN high' : high'[i].bitmap # b
    BY <1>1 DEF LInv, OneFetch
  <2>. QED  BY <1>1, <1>5, <1>7, <2>1, <2>2 DEF LInv, OneFetch, Reading
<1>10. OneJump'
  BY <1>1, <1>2 DEF LInv, OneJump
<1>11. RowsFit'
  BY <1>1, <1>2, <1>5, <1>7 DEF LInv, RowsFit
<1>12. JumpersFit'
  <2>1. \A r \in 1..Rows[b] : ~Handed(b, r)
    BY <1>1, <1>7 DEF LInv, JumpersFit
  <2>. QED  BY <1>1, <1>6, <2>1 DEF LInv, JumpersFit
<1>13. TurnsFit'
  BY <1>1, <1>6, <1>7 DEF LInv, TurnsFit, NotStarted
<1>14. DoneFits'
  BY <1>1, <1>6, <1>7 DEF LInv, DoneFits
<1>15. TilesFit'
  BY <1>2, <1>4, <1>5 DEF LInv, TilesFit
<1>16. OrderFits'
  <2>. SUFFICES ASSUME NEW j \in DOMAIN normal, normal[j].kind = "reduce"
                PROVE  /\ \A i \in DOMAIN high' :
                             high'[i].bitmap = normal[j].bitmap => normal[j].row >= high'[i].row - 1
                       /\ \A v \in Workers :
                             Fetching(v, normal[j].bitmap)' => normal[j].row >= task'[v].job.row - 1
                       /\ \A i \in DOMAIN normal :
                             normal[i].kind = "jump" /\ normal[i].bitmap = normal[j].bitmap /\ i < j
                               => normal[j].row >= normal[i].row
                       /\ \A v \in Workers :
                             task'[v].job.kind = "jump" /\ task'[v].job.bitmap = normal[j].bitmap
                               => normal[j].row >= task'[v].job.row
                       /\ \A r \in 1..Rows[normal[j].bitmap] :
                             ~jumper[normal[j].bitmap][r].inQueue => normal[j].row >= r
    BY DEF OrderFits, Fetching
  <2>1. /\ \A i \in DOMAIN high :
              high[i].bitmap = normal[j].bitmap => normal[j].row >= high[i].row - 1
        /\ \A v \in Workers :
              Fetching(v, normal[j].bitmap) => normal[j].row >= task[v].job.row - 1
        /\ \A i \in DOMAIN normal :
              normal[i].kind = "jump" /\ normal[i].bitmap = normal[j].bitmap /\ i < j
                => normal[j].row >= normal[i].row
        /\ \A v \in Workers :
              task[v].job.kind = "jump" /\ task[v].job.bitmap = normal[j].bitmap
                => normal[j].row >= task[v].job.row
        /\ \A r \in 1..Rows[normal[j].bitmap] :
              ~jumper[normal[j].bitmap][r].inQueue => normal[j].row >= r
    BY DEF LInv, OrderFits
  <2>2. \A i \in DOMAIN high' :
            high'[i].bitmap = normal[j].bitmap => normal[j].row >= high'[i].row - 1
    BY <1>1, <2>1
  <2>3. ASSUME NEW v \in Workers, Fetching(v, normal[j].bitmap)'
        PROVE  normal[j].row >= task'[v].job.row - 1
    <3>1. CASE v = w
      <4>1. normal[j].bitmap = b /\ task'[v].job = high[1]  BY <1>2, <1>5, <2>3, <3>1
      <4>. QED  BY <1>1, <2>1, <4>1
    <3>2. CASE v # w
      <4>1. Fetching(v, normal[j].bitmap) /\ task'[v] = task[v]  BY <1>2, <1>5, <2>3, <3>2
      <4>. QED  BY <2>1, <4>1
    <3>. QED  BY <3>1, <3>2
  <2>4. ASSUME NEW v \in Workers, task'[v].job.kind = "jump", task'[v].job.bitmap = normal[j].bitmap
        PROVE  normal[j].row >= task'[v].job.row
    <3>1. v # w  BY <1>1, <1>2, <2>4
    <3>2. task'[v] = task[v]  BY <1>2, <3>1
    <3>. QED  BY <2>1, <2>4, <3>2
  <2>. QED  BY <2>1, <2>2, <2>3, <2>4
<1>17. LateFits'
  <2>1. \A v \in Workers : \A c, r : Jumping(v, c, r)' => Jumping(v, c, r)
    BY <1>1, <1>2, JobIs DEF Jumping
  <2>2. \A v \in Workers : ~Jumping(v, b, high[1].row)
    <3>1. ~Pending(b, high[1].row)
      <4>1. high[1].row \in 1..Rows[b] /\ high[1].row \in Nat /\ ~Filling(b, high[1].row)
        BY <1>1, <1>7, JobFacts DEF Filling, Reading
      <4>2. Pending(b, high[1].row) => high[1].row <= Len(filled[b]) \/ Filling(b, high[1].row)
        BY <1>1, <4>1 DEF LInv, JumpersFit
      <4>. QED  BY <1>7, <4>1, <4>2
    <3>. QED  BY <3>1 DEF Jumping, Pending
  <2>3. ASSUME NEW c \in Bitmaps, NEW u \in Workers, Fetching(u, c)'
        PROVE  /\ u # w => Fetching(u, c) /\ task'[u] = task[u]
               /\ u = w => c = b /\ task'[u].at = "popped" /\ task'[u].job.row = high[1].row
    BY <1>2, <1>5, <2>3
  <2>. QED  BY <1>1, <1>2, <2>1, <2>2, <2>3 DEF LInv, LateFits
<1>. QED  BY <1>3, <1>8, <1>9, <1>10, <1>11, <1>12, <1>13, <1>14, <1>15, <1>16, <1>17 DEF LInv

\* A worker takes a QueueJumper or a reduction.
LEMMA TakeNormalInv ==
    ASSUME LInv, NEW w \in Workers, task[w] = Idle, normal # <<>>,
           SetTask(w, Popped(Head(normal))),
           normal' = Tail(normal),
           UNCHANGED <<life, sem, deleted, waiting, loader, high, jumper, filled, done, late, reported>>
    PROVE  LInv'
<1>1. /\ LoadTypes /\ 1 \in DOMAIN normal /\ normal[1] \in Jobs
      /\ normal[1].kind \in {"jump", "reduce"} /\ Head(normal) = normal[1]
      /\ \A i \in DOMAIN normal' :
           i \in Nat \ {0} /\ i + 1 \in DOMAIN normal /\ normal'[i] = normal[i + 1]
      /\ \A i \in DOMAIN normal : i = 1 \/ (i - 1 \in DOMAIN normal' /\ normal'[i - 1] = normal[i])
      /\ normal' \in Seq(Jobs)
  <2>1. normal \in Seq(Jobs) /\ LoadTypes  BY BitmapFacts DEF LInv
  <2>2. \A i \in DOMAIN normal : i = 1 \/ (i - 1 \in DOMAIN normal' /\ normal'[i - 1] = normal[i])
    BY <2>1
  <2>. QED  BY <2>1, <2>2, TailFacts DEF LInv, JobsFit
<1>4. /\ task'[w].job = normal[1] /\ task'[w].at = "popped"
      /\ task'[w].tiles = 0 /\ task'[w].via = 0
      /\ \A v \in Workers \ {w} : task'[v] = task[v]
  BY <1>1, PoppedTask, TaskFacts
<1>5. LoadTypes'
  <2>1. /\ sem' \in [Bitmaps -> Nat] /\ done' \in [Bitmaps -> 0..1] /\ late' \in [Bitmaps -> Nat]
        /\ jumper' = [c \in Bitmaps |-> jumper'[c]] /\ filled' = [c \in Bitmaps |-> filled'[c]]
        /\ reported' = [c \in Bitmaps |-> reported'[c]] /\ high' \in Seq(Jobs) /\ normal' \in Seq(Jobs)
        /\ \A c \in Bitmaps :
             /\ jumper'[c] \in [1..Rows[c] -> [inQueue : BOOLEAN, isSet : BOOLEAN]]
             /\ filled'[c] \in Seq(1..Rows[c])
             /\ reported'[c] \in 0..(Rows[c] * Columns[c])
    BY <1>1 DEF LoadTypes, TypeOK
  <2>. QED  BY <1>1, <2>1, PoppedTask, TypesKept
<1>6. task[w].job.kind = "none" /\ task[w].at = "idle" /\ task[w].tiles = 0
  BY IdleFacts
<1>7. \A v \in Workers : \A c : (Fetching(v, c)' <=> Fetching(v, c)) /\ (Fetching(v, c) => v # w)
  BY <1>1, <1>4, <1>6 DEF Fetching
<1>8. \A c \in Bitmaps :
        /\ Waits(c)' <=> Waits(c)
        /\ Reading(c)' <=> Reading(c)
        /\ \A r \in 1..Rows[c] : /\ Pending(c, r)' => Pending(c, r)
                                 /\ Handed(c, r)' => Handed(c, r)
                                 /\ Filling(c, r)' <=> Filling(c, r)
  <2>1. \A c \in Bitmaps : \A r : Pending(c, r)' => Pending(c, r)
    BY <1>1, <1>4 DEF Pending
  <2>2. \A c \in Bitmaps : \A r : Filling(c, r)' <=> Filling(c, r)
    BY <1>4, <1>6, <1>7 DEF Filling
  <2>. QED  BY <1>7, <2>1, <2>2 DEF Handed, Waits, Reading
<1>9. JobsFit'
  BY <1>1, <1>4 DEF LInv, JobsFit
<1>10. OneFetch'
  BY <1>7 DEF LInv, OneFetch
<1>11. OneJump'
  BY <1>1, <1>4 DEF LInv, OneJump
<1>12. RowsFit'
  BY <1>4, <1>6, <1>7 DEF LInv, RowsFit
<1>13. JumpersFit'
  BY <1>8 DEF LInv, JumpersFit
<1>14. TurnsFit'
  BY <1>8 DEF LInv, TurnsFit, NotStarted
<1>15. DoneFits'
  BY <1>8 DEF LInv, DoneFits
<1>16. TilesFit'
  BY <1>4, <1>6, <1>7 DEF LInv, TilesFit
<1>17. OrderFits'
  <2>1. ASSUME NEW j \in DOMAIN normal', normal'[j].kind = "reduce"
        PROVE  /\ \A i \in DOMAIN high' :
                     high'[i].bitmap = normal'[j].bitmap => normal'[j].row >= high'[i].row - 1
               /\ \A v \in Workers :
                     Fetching(v, normal[j].bitmap)' => normal'[j].row >= task'[v].job.row - 1
               /\ \A i \in DOMAIN normal' :
                     normal'[i].kind = "jump" /\ normal'[i].bitmap = normal'[j].bitmap /\ i < j
                       => normal'[j].row >= normal'[i].row
               /\ \A v \in Workers :
                     task'[v].job.kind = "jump" /\ task'[v].job.bitmap = normal'[j].bitmap
                       => normal'[j].row >= task'[v].job.row
               /\ \A r \in 1..Rows[normal'[j].bitmap] :
                     ~jumper'[normal'[j].bitmap][r].inQueue => normal'[j].row >= r
    <3>1. j + 1 \in DOMAIN normal /\ normal'[j] = normal[j + 1] /\ 1 < j + 1 /\ j \in Nat
      BY <1>1, <2>1
    <3>2. \A i \in DOMAIN normal' : i < j => i + 1 \in DOMAIN normal /\ i + 1 < j + 1 /\ normal'[i] = normal[i + 1]
      BY <1>1, <3>1
    <3>. DEFINE k == j + 1
    <3>3. /\ k \in DOMAIN normal /\ normal[k].kind = "reduce" /\ 1 < k
          /\ \A i \in DOMAIN high : high[i].bitmap = normal[k].bitmap => normal[k].row >= high[i].row - 1
          /\ \A v \in Workers : Fetching(v, normal[k].bitmap) => normal[k].row >= task[v].job.row - 1
          /\ \A i \in DOMAIN normal :
               normal[i].kind = "jump" /\ normal[i].bitmap = normal[k].bitmap /\ i < k
                 => normal[k].row >= normal[i].row
          /\ \A v \in Workers :
               task[v].job.kind = "jump" /\ task[v].job.bitmap = normal[k].bitmap
                 => normal[k].row >= task[v].job.row
          /\ \A r \in 1..Rows[normal[k].bitmap] :
               ~jumper[normal[k].bitmap][r].inQueue => normal[k].row >= r
      BY <2>1, <3>1 DEF LInv, OrderFits
    <3>. HIDE DEF k
    <3>4. normal'[j] = normal[k] /\ \A i \in DOMAIN normal' : i < j => i + 1 < k
      BY <3>1, <3>2 DEF k
    <3>5. \A v \in Workers : task'[v].job.kind = "jump" /\ task'[v].job.bitmap = normal[k].bitmap
                                => normal[k].row >= task'[v].job.row
      BY <1>1, <1>4, <1>7, <3>3
    <3>6. \A i \in DOMAIN normal' :
               normal'[i].kind = "jump" /\ normal'[i].bitmap = normal[k].bitmap /\ i < j
                 => normal[k].row >= normal'[i].row
      BY <3>2, <3>3, <3>4
    <3>7. ASSUME NEW v \in Workers, Fetching(v, normal[j].bitmap)'
          PROVE  normal[k].row >= task'[v].job.row - 1
      <4>1. Fetching(v, normal[k].bitmap) /\ v # w  BY <1>7, <3>4, <3>7 DEF Fetching
      <4>2. task'[v] = task[v]  BY <1>4, <4>1
      <4>. QED  BY <3>3, <4>1, <4>2
    <3>. QED  BY <1>1, <3>3, <3>4, <3>5, <3>6, <3>7
  <2>. QED  BY <2>1 DEF OrderFits
<1>18. LateFits'
  <2>1. \A v \in Workers : \A c, r : Jumping(v, c, r)' => Jumping(v, c, r)
    BY <1>1, <1>4 DEF Jumping
  <2>. QED  BY <1>1, <1>4, <1>7, <2>1 DEF LInv, LateFits
<1>. QED  BY <1>5, <1>9, <1>10, <1>11, <1>12, <1>13, <1>14, <1>15, <1>16, <1>17, <1>18 DEF LInv

\* A worker has executed a job that is not a DataFetcher's, or skipped it.
LEMMA DropInv ==
    ASSUME LInv, NEW w \in Workers, task[w] # Idle, task[w].at \in {"popped", "start"},
           task[w].at = "start" => task[w].job.kind = "reduce",
           task[w].job.kind # "reduce" => life[task[w].job.bitmap] = "closed",
           SetTask(w, Idle),
           UNCHANGED <<life, sem, deleted, waiting, loader, high, normal, jumper, filled, done, late,
                       reported>>
    PROVE  LInv'
<1>1. /\ task'[w] = Idle /\ task'[w].job.kind = "none" /\ task'[w].at = "idle"
      /\ task'[w].tiles = 0 /\ task'[w].via = 0
      /\ \A v \in Workers \ {w} : task'[v] = task[v]
  BY TaskFacts, IdleFacts DEF LInv
<1>2. LoadTypes'
  <2>1. LoadTypes  BY DEF LInv
  <2>. QED  BY <2>1, TypesKept, BitmapFacts, IdleFacts DEF LoadTypes, TypeOK
<1>3. \A v \in Workers : \A c : Fetching(v, c)' <=> v # w /\ Fetching(v, c)
  BY <1>1 DEF Fetching
<1>4. \A c \in Bitmaps :
        /\ Waits(c)' <=> Waits(c)
        /\ Reading(c)' => Reading(c)
        /\ \A r \in 1..Rows[c] : /\ Pending(c, r)' => Pending(c, r)
                                 /\ Handed(c, r)' => Handed(c, r)
                                 /\ Filling(c, r)' <=> Filling(c, r)
  <2>1. \A c \in Bitmaps : \A r : Pending(c, r)' => Pending(c, r)
    BY <1>1, JobIs DEF Pending
  <2>2. \A c \in Bitmaps : \A r : Filling(c, r)' <=> Filling(c, r)
    BY <1>1, <1>3 DEF Filling
  <2>. QED  BY <1>3, <2>1, <2>2 DEF Handed, Waits, Reading
<1>5. JobsFit'
  BY <1>1 DEF LInv, JobsFit
<1>6. OneFetch'
  BY <1>3 DEF LInv, OneFetch
<1>7. OneJump'
  BY <1>1 DEF LInv, OneJump
<1>8. RowsFit'
  BY <1>1, <1>3 DEF LInv, RowsFit
<1>9. JumpersFit'
  BY <1>4 DEF LInv, JumpersFit
<1>10. TurnsFit'
  BY <1>4 DEF LInv, TurnsFit, NotStarted
<1>11. DoneFits'
  BY <1>4 DEF LInv, DoneFits
<1>12. TilesFit'
  BY <1>1, <1>3 DEF LInv, TilesFit
<1>13. OrderFits'
  BY <1>1, <1>3 DEF LInv, OrderFits
<1>14. LateFits'
  BY <1>1, <1>3, IdleFacts, JobIs DEF LInv, LateFits, Jumping
<1>. QED  BY <1>2, <1>5, <1>6, <1>7, <1>8, <1>9, <1>10, <1>11, <1>12, <1>13, <1>14 DEF LInv

\* The variables that most steps of the workers leave alone have the right types.
LEMMA TypesNow ==
    ASSUME LoadTypes
    PROVE  /\ sem \in [Bitmaps -> Nat] /\ done \in [Bitmaps -> 0..1] /\ late \in [Bitmaps -> Nat]
           /\ jumper = [c \in Bitmaps |-> jumper[c]] /\ filled = [c \in Bitmaps |-> filled[c]]
           /\ reported = [c \in Bitmaps |-> reported[c]]
           /\ high \in Seq(Jobs) /\ normal \in Seq(Jobs)
           /\ \A c \in Bitmaps :
                /\ jumper[c] \in [1..Rows[c] -> [inQueue : BOOLEAN, isSet : BOOLEAN]]
                /\ filled[c] \in Seq(1..Rows[c])
                /\ reported[c] \in 0..(Rows[c] * Columns[c])
BY DEF LoadTypes, TypeOK

\* The queue of a worker's job still exists.
LEMMA BeginGoInv ==
    ASSUME LInv, NEW w \in Workers, task[w].at = "popped",
           ~Skipped(task[w].job), SetTask(w, [task[w] EXCEPT !.at = "start"]),
           UNCHANGED <<life, sem, deleted, waiting, loader, high, normal, jumper, filled, done, late,
                       reported>>
    PROVE  LInv'
<1>1. /\ LoadTypes /\ task[w] # Idle
      /\ [task[w] EXCEPT !.at = "start"] \in Tasks
      /\ [task[w] EXCEPT !.at = "start"].job = task[w].job
      /\ [task[w] EXCEPT !.at = "start"].at = "start"
      /\ [task[w] EXCEPT !.at = "start"].tiles = task[w].tiles
      /\ [task[w] EXCEPT !.at = "start"].via = task[w].via
      /\ task[w].tiles \in 0..Columns[task[w].job.bitmap] /\ task[w].via \in {0, task[w].job.row - 1}
      /\ task[w].job.bitmap \in Bitmaps
  <2>1. LoadTypes /\ task[w] # Idle  BY IdleFacts DEF LInv
  <2>2. /\ task[w].job \in Jobs /\ task[w].tiles \in Nat /\ task[w].via \in Nat
        /\ task[w] = [job |-> task[w].job, at |-> task[w].at,
                      tiles |-> task[w].tiles, via |-> task[w].via]
    BY <2>1, WorkerFacts
  <2>. QED  BY <2>1, <2>2, WorkerFacts DEF Tasks, Stages
<1>2. /\ task'[w].job = task[w].job /\ task'[w].at = "start"
      /\ task'[w].tiles = task[w].tiles /\ task'[w].via = task[w].via
      /\ \A v \in Workers \ {w} : task'[v] = task[v]
  BY <1>1, TaskFacts
<1>3. \A v \in Workers : task'[v].job = task[v].job /\ task'[v].via = task[v].via
                         /\ task'[v].tiles = task[v].tiles
  BY <1>2
<1>4. \A v \in Workers : \A c : Fetching(v, c)' <=> Fetching(v, c)
  BY <1>3 DEF Fetching
<1>5. task[w].job.kind = "reduce" \/ life[task[w].job.bitmap] # "closed"
  BY <1>1 DEF LInv, TurnsFit, Skipped
<1>6. \A c : /\ Waits(c)' <=> Waits(c)
             /\ Reading(c)' <=> Reading(c)
             /\ \A r : /\ Pending(c, r)' <=> Pending(c, r)
                       /\ Handed(c, r)' <=> Handed(c, r)
                       /\ Filling(c, r)' <=> Filling(c, r)
  <2>1. \A c, r : Pending(c, r)' <=> Pending(c, r)  BY <1>3 DEF Pending
  <2>2. \A c, r : Filling(c, r)' <=> Filling(c, r)  BY <1>2, <1>4 DEF Filling
  <2>. QED  BY <1>4, <2>1, <2>2 DEF Handed, Waits, Reading
<1>7. LoadTypes'
  BY <1>1, TypesKept, TypesNow DEF LInv
<1>8. JobsFit'
  BY <1>2 DEF LInv, JobsFit
<1>9. OneFetch'
  BY <1>4 DEF LInv, OneFetch
<1>10. OneJump'
  BY <1>3 DEF LInv, OneJump
<1>11. RowsFit'
  BY <1>2, <1>4 DEF LInv, RowsFit
<1>12. JumpersFit'
  BY <1>6 DEF LInv, JumpersFit
<1>13. TurnsFit'
  BY <1>6 DEF LInv, TurnsFit, NotStarted
<1>14. DoneFits'
  BY <1>6 DEF LInv, DoneFits
<1>15. TilesFit'
  BY <1>2, <1>4 DEF LInv, TilesFit
<1>16. OrderFits'
  BY <1>3, <1>4 DEF LInv, OrderFits
<1>17. LateFits'
  <2>1. ASSUME NEW c \in Bitmaps, life[c] = "closed"
        PROVE  /\ \A v \in Workers : Fetching(v, c) => v # w
               /\ \A v \in Workers : \A r : Jumping(v, c, r)' => Jumping(v, c, r) /\ v # w
    BY <1>2, <1>5, <2>1, JobIs DEF Fetching, Jumping
  <2>2. ASSUME NEW c \in Bitmaps, life[c] # "closed" PROVE late[c] = 0
    BY <2>2 DEF LInv, LateFits
  <2>. QED  BY <1>2, <1>4, <2>1, <2>2 DEF LInv, LateFits
<1>. QED  BY <1>7, <1>8, <1>9, <1>10, <1>11, <1>12, <1>13, <1>14, <1>15, <1>16, <1>17 DEF LInv

LEMMA BeginInv == ASSUME LInv, NEW w \in Workers, Begin(w) PROVE LInv'
<1>1. /\ task[w].at = "popped" /\ LoadTypes /\ task[w] # Idle /\ task[w].job.bitmap \in Bitmaps
      /\ UNCHANGED <<life, sem, deleted, waiting, loader, high, normal, jumper, filled, done, late,
                     reported>>
  BY WorkerFacts, IdleFacts DEF Begin, bitmapVars, sourceVars, LInv
<1>2. CASE Skipped(task[w].job)
  <2>1. SetTask(w, Idle)  BY <1>2 DEF Begin
  <2>2. task[w].job.kind # "reduce" => life[task[w].job.bitmap] = "closed"
    BY <1>1, <1>2 DEF Skipped, LInv, TurnsFit
  <2>. QED  BY <1>1, <2>1, <2>2, DropInv
<1>3. CASE ~Skipped(task[w].job)
  <2>1. SetTask(w, [task[w] EXCEPT !.at = "start"])  BY <1>3 DEF Begin
  <2>. QED  BY <1>1, <1>3, <2>1, BeginGoInv
<1>. QED  BY <1>2, <1>3

LEMMA RunReduceInv == ASSUME LInv, NEW w \in Workers, RunReduce(w) PROVE LInv'
BY DropInv, IdleFacts DEF RunReduce, bitmapVars, sourceVars

LEMMA TakeInv == ASSUME LInv, NEW w \in Workers, Take(w) PROVE LInv'
<1>1. /\ task[w] = Idle
      /\ UNCHANGED <<life, sem, deleted, waiting, loader, jumper, filled, done, late, reported>>
  BY DEF Take, bitmapVars, sourceVars
<1>2. CASE /\ high # <<>>
           /\ SetTask(w, [Idle EXCEPT !.job = Head(high), !.at = "popped"])
           /\ high' = Tail(high) /\ normal' = normal
  <2>1. SetTask(w, Popped(Head(high)))  BY <1>2, PoppedIs
  <2>2. high # <<>> /\ high' = Tail(high) /\ normal' = normal  BY <1>2
  <2>. QED  BY <1>1, <2>1, <2>2, TakeFetchInv
<1>3. CASE /\ high = <<>> /\ normal # <<>>
           /\ SetTask(w, [Idle EXCEPT !.job = Head(normal), !.at = "popped"])
           /\ normal' = Tail(normal) /\ high' = high
  <2>1. SetTask(w, Popped(Head(normal)))  BY <1>3, PoppedIs
  <2>2. normal # <<>> /\ normal' = Tail(normal) /\ high' = high  BY <1>3
  <2>. QED  BY <1>1, <2>1, <2>2, TakeNormalInv
<1>. QED  BY <1>2, <1>3 DEF Take

\* A QueueJumper reads the next row.
LEMMA JumpToNextInv ==
    ASSUME LInv, NEW w \in Workers, NEW b, NEW r, NEW t,
           task[w].at = "start", task[w].job = Jump(b, r), jumper[b][r].isSet,
           t = [job |-> Fetch(b, r + 1), at |-> "start", tiles |-> task[w].tiles, via |-> r],
           SetTask(w, t),
           UNCHANGED <<life, sem, deleted, waiting, loader, high, normal, jumper, filled, done, late,
                       reported>>
    PROVE  LInv'
<1>1. /\ LoadTypes /\ task[w] # Idle /\ b \in Bitmaps /\ r \in 1..Rows[b] /\ r \in Nat \ {0}
      /\ Rows[b] \in Nat /\ task[w].job.kind = "jump"
      /\ task[w].job.bitmap = b /\ task[w].job.row = r
      /\ task[w].tiles \in Nat /\ task[w].tiles \in 0..Columns[b]
  <2>1. LoadTypes /\ task[w] # Idle  BY IdleFacts DEF LInv
  <2>2. task[w].job.kind = "jump" /\ task[w].job.bitmap = b /\ task[w].job.row = r
    BY JobIs
  <2>. QED  BY <2>1, <2>2, WorkerFacts
<1>2. Handed(b, r)
  BY <1>1 DEF Handed, Pending
<1>3. /\ r < Rows[b] /\ r = Len(filled[b]) /\ ~Waits(b) /\ ~Reading(b)
  BY <1>1, <1>2 DEF LInv, JumpersFit
<1>4. r + 1 \in 1..Rows[b] /\ Fetch(b, r + 1) \in Jobs
  BY <1>1, <1>3, JobFacts
<1>5. t.job = Fetch(b, r + 1) /\ t.at = "start" /\ t.tiles = task[w].tiles /\ t.via = r
  OBVIOUS
<1>6. t \in Tasks
  BY <1>1, <1>4 DEF Tasks, Stages
<1>7. /\ task'[w].job = Fetch(b, r + 1) /\ task'[w].at = "start"
      /\ task'[w].tiles = task[w].tiles /\ task'[w].via = r
      /\ task'[w].job.kind = "fetch" /\ task'[w].job.bitmap = b /\ task'[w].job.row = r + 1
      /\ \A v \in Workers \ {w} : task'[v] = task[v]
  BY <1>1, <1>5, <1>6, TaskFacts, JobIs
<1>8. LoadTypes'
  <2>1. t.via \in {0, t.job.row - 1} /\ t.tiles \in 0..Columns[t.job.bitmap]
    BY <1>1, <1>5, JobIs
  <2>. QED  BY <1>1, <1>6, <2>1, TypesKept, TypesNow
<1>9. task[w].job.kind = "jump" /\ task[w].tiles = 0 /\ task[w].job = Jump(b, r)
  BY <1>1 DEF LInv, TilesFit
<1>10. \A v \in Workers : \A c : Fetching(v, c)' <=> IF v = w THEN c = b ELSE Fetching(v, c)
  BY <1>7 DEF Fetching
<1>11. \A v \in Workers : Fetching(v, b) => FALSE
  BY <1>3 DEF Reading
<1>12. /\ \A c : /\ Waits(c)' <=> Waits(c)
                 /\ Reading(c)' <=> Reading(c) \/ c = b
                 /\ \A s : /\ Pending(c, s)' => Pending(c, s)
                           /\ Handed(c, s)' => Handed(c, s)
                           /\ Filling(c, s)' <=> Filling(c, s)
       /\ ~Pending(b, r)'
  <2>1. \A c, s : Pending(c, s)' => Pending(c, s)
    BY <1>7, JobIs DEF Pending
  <2>2. \A c, s : Filling(c, s)' <=> Filling(c, s)
    BY <1>7, <1>9, <1>10 DEF Filling, Fetching
  <2>3. \A c : Reading(c)' <=> Reading(c) \/ c = b
    BY <1>9, <1>10 DEF Reading, Fetching
  <2>4. ~Pending(b, r)'
    BY <1>7, <1>9, JobIs DEF LInv, OneJump, Pending
  <2>. QED  BY <2>1, <2>2, <2>3, <2>4 DEF Handed, Waits
<1>13. JobsFit'
  BY <1>7 DEF LInv, JobsFit
<1>14. OneFetch'
  <2>1. \A i \in DOMAIN high : high[i].bitmap # b  BY <1>3 DEF Waits
  <2>. QED  BY <1>10, <1>11, <2>1 DEF LInv, OneFetch
<1>15. OneJump'
  BY <1>7 DEF LInv, OneJump
<1>16. RowsFit'
  <2>1. UNCHANGED filled /\ \A i \in DOMAIN high' : Len(filled[high'[i].bitmap]) = high'[i].row - 1
    BY <1>1, <1>7 DEF LInv, RowsFit
  <2>2. ASSUME NEW v \in Workers, NEW c \in Bitmaps, Fetching(v, c)'
        PROVE  Len(filled[c]) = IF task'[v].at = "report" THEN task'[v].job.row ELSE task'[v].job.row - 1
    BY <1>1, <1>3, <1>7, <1>10, <2>2 DEF LInv, RowsFit
  <2>. QED  BY <2>1, <2>2 DEF LInv, RowsFit
<1>17. JumpersFit'
  <2>1. ASSUME NEW s \in 1..Rows[b], Handed(b, s)' PROVE FALSE
    <3>1. s = Len(filled[b])  BY <1>1, <1>12, <2>1 DEF LInv, JumpersFit
    <3>. QED  BY <1>3, <1>12, <2>1, <3>1 DEF Handed
  <2>. QED  BY <1>12, <2>1 DEF LInv, JumpersFit
<1>18. TurnsFit'
  <2>1. ~NotStarted(b) /\ (loader = b \/ life[b] = "closed")
    BY <1>1, <1>2, <1>3 DEF LInv, TurnsFit
  <2>2. \A c : NotStarted(c)' <=> NotStarted(c)  BY DEF NotStarted
  <2>. QED  BY <1>12, <2>1, <2>2 DEF LInv, TurnsFit
<1>19. DoneFits'
  <2>1. ~(done[b] > 0)  BY <1>1, <1>3 DEF LInv, DoneFits
  <2>. QED  BY <1>12, <2>1 DEF LInv, DoneFits
<1>20. TilesFit'
  <2>1. \A v \in Workers : \A c : Fetching(v, c)' /\ task'[v].at = "report"
                                <=> Fetching(v, c) /\ task[v].at = "report"
    BY <1>7, <1>9, <1>10 DEF Fetching
  <2>. QED  BY <1>7, <1>9, <1>10, <2>1 DEF LInv, TilesFit
<1>21. OrderFits'
  <2>1. \A j \in DOMAIN normal : normal[j].kind = "reduce" /\ normal[j].bitmap = b => normal[j].row >= r
    BY <1>1 DEF LInv, OrderFits
  <2>. QED  BY <1>1, <1>7, <1>10, <2>1 DEF LInv, OrderFits
<1>22. LateFits'
  <2>1. \A v \in Workers : \A c, s : Jumping(v, c, s)' => Jumping(v, c, s) /\ v # w
    BY <1>7, JobIs DEF Jumping
  <2>2. late[b] <= 1
    BY <1>1, <1>9 DEF LInv, LateFits, Jumping
  <2>3. \A v \in Workers : ~Jumping(v, b, r + 1)
    <3>1. ~Pending(b, r + 1)
      BY <1>1, <1>3, <1>4, <1>11 DEF LInv, JumpersFit, Filling
    <3>. QED  BY <3>1 DEF Jumping, Pending
  <2>. QED  BY <1>1, <1>7, <1>10, <2>1, <2>2, <2>3 DEF LInv, LateFits
<1>. QED  BY <1>8, <1>13, <1>14, <1>15, <1>16, <1>17, <1>18, <1>19, <1>20, <1>21, <1>22 DEF LInv

\* A QueueJumper that has nothing to do.
LEMMA JumpPassedInv ==
    ASSUME LInv, NEW w \in Workers, NEW b, NEW r,
           task[w].at = "start", task[w].job = Jump(b, r),
           SetTask(w, Idle),
           jumper' = LeftQueue(jumper, b, r),
           UNCHANGED <<life, sem, deleted, waiting, loader, high, normal, filled, done, late, reported>>
    PROVE  LInv'
<1>1. /\ LoadTypes /\ task[w] # Idle /\ b \in Bitmaps /\ r \in 1..Rows[b]
      /\ task[w].job.kind = "jump" /\ task[w].job.bitmap = b /\ task[w].job.row = r
  <2>1. LoadTypes /\ task[w] # Idle  BY IdleFacts DEF LInv
  <2>2. task[w].job.kind = "jump" /\ task[w].job.bitmap = b /\ task[w].job.row = r
    BY JobIs
  <2>. QED  BY <2>1, <2>2, WorkerFacts
<1>2. /\ task'[w] = Idle /\ task'[w].job.kind = "none" /\ task'[w].at = "idle"
      /\ task'[w].tiles = 0 /\ task'[w].via = 0
      /\ \A v \in Workers \ {w} : task'[v] = task[v]
  BY <1>1, TaskFacts, IdleFacts
<1>3. /\ jumper' = [c \in Bitmaps |-> jumper'[c]]
      /\ \A c \in Bitmaps :
           /\ jumper'[c] \in [1..Rows[c] -> [inQueue : BOOLEAN, isSet : BOOLEAN]]
           /\ \A s \in 1..Rows[c] :
                /\ jumper'[c][s].isSet = jumper[c][s].isSet
                /\ ~jumper'[c][s].inQueue => ~jumper[c][s].inQueue \/ (c = b /\ s = r)
  <2>1. Jumpers(jumper)  BY <1>1, TypesNow DEF Jumpers
  <2>2. Jumpers(jumper')  BY <1>1, <2>1, LeftQueueFacts
  <2>. QED  BY <1>1, <2>1, <2>2, LeftQueueFacts DEF Jumpers
<1>4. LoadTypes'
  <2>1. \A c \in Bitmaps : filled'[c] \in Seq(1..Rows[c]) /\ reported'[c] \in 0..(Rows[c] * Columns[c])
    BY <1>1, TypesNow
  <2>2. /\ filled' = [c \in Bitmaps |-> filled'[c]] /\ reported' = [c \in Bitmaps |-> reported'[c]]
        /\ high' \in Seq(Jobs) /\ normal' \in Seq(Jobs)
        /\ sem' \in [Bitmaps -> Nat] /\ done' \in [Bitmaps -> 0..1] /\ late' \in [Bitmaps -> Nat]
    BY <1>1, TypesNow
  <2>3. SetTask(w, Idle) /\ Idle \in Tasks  BY IdleFacts
  <2>. QED  BY <1>1, <1>3, <2>1, <2>2, <2>3, TypesKept
<1>5. \A v \in Workers : \A c : (Fetching(v, c)' <=> Fetching(v, c)) /\ (Fetching(v, c) => v # w)
  BY <1>1, <1>2 DEF Fetching
<1>6. \A c \in Bitmaps :
        /\ Waits(c)' <=> Waits(c)
        /\ Reading(c)' <=> Reading(c)
        /\ \A s \in 1..Rows[c] : /\ Pending(c, s)' => Pending(c, s)
                                 /\ Handed(c, s)' => Handed(c, s)
                                 /\ Filling(c, s)' <=> Filling(c, s)
  <2>1. \A c, s : Pending(c, s)' => Pending(c, s)
    BY <1>2, JobIs DEF Pending
  <2>2. \A c, s : Filling(c, s)' <=> Filling(c, s)
    BY <1>2, <1>5 DEF Filling
  <2>. QED  BY <1>3, <1>5, <2>1, <2>2 DEF Handed, Waits, Reading
<1>7. JobsFit'
  BY <1>2 DEF LInv, JobsFit
<1>8. OneFetch'
  BY <1>5 DEF LInv, OneFetch
<1>9. OneJump'
  BY <1>2 DEF LInv, OneJump
<1>10. RowsFit'
  BY <1>2, <1>5 DEF LInv, RowsFit
<1>11. JumpersFit'
  <2>1. r <= Len(filled[b]) \/ Filling(b, r)
    BY <1>1 DEF LInv, JumpersFit, Pending
  <2>. QED  BY <1>3, <1>6, <2>1 DEF LInv, JumpersFit
<1>12. TurnsFit'
  BY <1>6 DEF LInv, TurnsFit, NotStarted
<1>13. DoneFits'
  BY <1>6 DEF LInv, DoneFits
<1>14. TilesFit'
  BY <1>2, <1>5 DEF LInv, TilesFit
<1>15. OrderFits'
  <2>1. \A j \in DOMAIN normal : normal[j].bitmap \in Bitmaps  BY <1>1, BitmapFacts, JobFacts
  <2>2. \A j \in DOMAIN normal : normal[j].kind = "reduce" /\ normal[j].bitmap = b => normal[j].row >= r
    BY <1>1 DEF LInv, OrderFits
  <2>. QED  BY <1>2, <1>3, <1>5, <2>1, <2>2 DEF LInv, OrderFits
<1>16. LateFits'
  <2>1. \A v \in Workers : \A c, s : Jumping(v, c, s)' => Jumping(v, c, s)
    BY <1>2, JobIs DEF Jumping
  <2>. QED  BY <1>2, <1>3, <1>5, <2>1 DEF LInv, LateFits
<1>. QED  BY <1>4, <1>7, <1>8, <1>9, <1>10, <1>11, <1>12, <1>13, <1>14, <1>15, <1>16 DEF LInv

LEMMA RunJumperInv == ASSUME LInv, NEW w \in Workers, RunJumper(w) PROVE LInv'
<1>b. PICK b, r : b = task[w].job.bitmap /\ r = task[w].job.row  OBVIOUS
<1>1. /\ task[w].at = "start" /\ task[w].job = Jump(b, r) /\ r # 0
      /\ LoadTypes /\ b \in Bitmaps /\ r \in 1..Rows[b]
      /\ task[w] = [job |-> task[w].job, at |-> task[w].at,
                    tiles |-> task[w].tiles, via |-> task[w].via]
      /\ UNCHANGED <<life, sem, deleted, waiting, loader, high, normal, filled, done, late, reported>>
  <2>1. task[w].at = "start" /\ task[w].job.kind = "jump"  BY DEF RunJumper
  <2>2. LoadTypes /\ task[w] # Idle  BY <2>1, IdleFacts DEF LInv
  <2>. QED  BY <1>b, <2>1, <2>2, WorkerFacts DEF RunJumper, bitmapVars, sourceVars, Jump
<1>2. CASE jumper[b][r].isSet
  <2>1. UNCHANGED jumper  BY <1>b, <1>2 DEF RunJumper
  <2>2. PICK k : k = Fetch(b, r + 1)  OBVIOUS
  <2>3. PICK t : t = [task[w] EXCEPT !.job = k]  OBVIOUS
  <2>4. SetTask(w, [t EXCEPT !.via = r])
    <3>1. SetTask(w, [task[w] EXCEPT !.job = k, !.via = r])  BY <1>b, <1>2, <2>2 DEF RunJumper
    <3>2. [task[w] EXCEPT !.job = k, !.via = r] = [t EXCEPT !.via = r]  BY <2>3
    <3>. QED  BY <3>1, <3>2
  <2>5. t = [job |-> k, at |-> "start", tiles |-> task[w].tiles, via |-> task[w].via]
    BY <1>1, <2>3
  <2>6. [t EXCEPT !.via = r] = [job |-> k, at |-> "start", tiles |-> task[w].tiles, via |-> r]
    BY <2>5
  <2>7. SetTask(w, [job |-> Fetch(b, r + 1), at |-> "start", tiles |-> task[w].tiles, via |-> r])
    BY <2>2, <2>4, <2>6
  <2>. QED  BY <1>1, <1>2, <2>1, <2>7, JumpToNextInv
<1>3. CASE ~jumper[b][r].isSet
  <2>1. Leave(w, [task[w] EXCEPT !.via = r])  BY <1>b, <1>3 DEF RunJumper
  <2>2. /\ [task[w] EXCEPT !.via = r].via = r
        /\ [task[w] EXCEPT !.via = r].job = task[w].job
    BY <1>1
  <2>3. SetTask(w, Idle) /\ jumper' = [jumper EXCEPT ![b][r].inQueue = FALSE]
    BY <1>b, <1>1, <2>1, <2>2 DEF Leave
  <2>4. jumper' = LeftQueue(jumper, b, r)  BY <2>3 DEF LeftQueue
  <2>5. SetTask(w, Idle)  BY <2>3
  <2>. QED  BY <1>1, <2>4, <2>5, JumpPassedInv
<1>. QED  BY <1>2, <1>3

LEMMA StartFetchInv == ASSUME LInv, NEW w \in Workers, StartFetch(w) PROVE LInv'
<1>b. PICK b, r : b = task[w].job.bitmap /\ r = task[w].job.row  OBVIOUS
<1>t. PICK t : t = [task[w] EXCEPT !.at = "fill"]  OBVIOUS
<1>1. /\ LoadTypes /\ task[w].at = "start" /\ task[w].job.kind = "fetch"
      /\ normal' = Append(normal, Jump(b, r)) /\ SetTask(w, t)
      /\ UNCHANGED <<life, sem, deleted, waiting, loader, high, jumper, filled, done, late, reported>>
  BY <1>b, <1>t DEF StartFetch, bitmapVars, sourceVars, LInv
<1>2. /\ task[w] # Idle /\ b \in Bitmaps /\ r \in 1..Rows[b] /\ r \in Nat /\ task[w].job \in Jobs
      /\ task[w].tiles \in 0..Columns[b] /\ task[w].via \in {0, r - 1}
      /\ task[w].tiles \in Nat /\ task[w].via \in Nat
      /\ task[w] = [job |-> task[w].job, at |-> task[w].at,
                    tiles |-> task[w].tiles, via |-> task[w].via]
  BY <1>b, <1>1, WorkerFacts, IdleFacts
<1>3. t = [job |-> task[w].job, at |-> "fill", tiles |-> task[w].tiles, via |-> task[w].via]
  BY <1>t, <1>2
<1>4. t \in Tasks
  BY <1>2, <1>3 DEF Tasks, Stages
<1>5. /\ task'[w].job = task[w].job /\ task'[w].at = "fill"
      /\ task'[w].tiles = task[w].tiles /\ task'[w].via = task[w].via
      /\ \A v \in Workers \ {w} : task'[v] = task[v]
  BY <1>1, <1>3, <1>4, TaskFacts
<1>6. \A v \in Workers : task'[v].job = task[v].job /\ task'[v].via = task[v].via
                         /\ task'[v].tiles = task[v].tiles
  BY <1>5
<1>7. /\ Jump(b, r) \in Jobs /\ Jump(b, r).kind = "jump" /\ Jump(b, r).bitmap = b /\ Jump(b, r).row = r
  BY <1>2, JobFacts, JobIs
<1>8. /\ DOMAIN normal' = DOMAIN normal \cup {Len(normal) + 1} /\ normal' \in Seq(Jobs)
      /\ \A i \in DOMAIN normal : normal'[i] = normal[i] /\ i < Len(normal) + 1
      /\ normal'[Len(normal) + 1] = Jump(b, r) /\ Len(normal) \in Nat
  BY <1>1, <1>7, AppendFacts, BitmapFacts
<1>9. Fetching(w, b) /\ \A v \in Workers : \A c : Fetching(v, c)' <=> Fetching(v, c)
  BY <1>b, <1>1, <1>6 DEF Fetching
<1>10. Len(filled[b]) = r - 1 /\ ~Filling(b, r)
  BY <1>b, <1>1, <1>2, <1>9 DEF LInv, RowsFit, OneFetch, Filling
<1>11. ~Pending(b, r) /\ ~jumper[b][r].isSet
  BY <1>1, <1>2, <1>10 DEF LInv, JumpersFit
<1>12. \A c : /\ Waits(c)' <=> Waits(c)
              /\ Reading(c)' <=> Reading(c)
              /\ \A s : /\ Pending(c, s)' => Pending(c, s) \/ (c = b /\ s = r)
                        /\ Handed(c, s)' => Handed(c, s)
                        /\ Filling(c, s) => Filling(c, s)'
  <2>1. \A c, s : Pending(c, s)' => Pending(c, s) \/ (c = b /\ s = r)
    <3>1. \A c, s : Jump(b, r) = Jump(c, s) => c = b /\ s = r  BY DEF Jump, Job
    <3>. QED  BY <1>6, <1>8, <3>1 DEF Pending
  <2>2. \A c, s : Filling(c, s) => Filling(c, s)'
    BY <1>1, <1>5, <1>9 DEF Filling
  <2>. QED  BY <1>1, <1>9, <1>11, <2>1, <2>2 DEF Handed, Waits, Reading
<1>13. LoadTypes'
  <2>1. t.tiles \in 0..Columns[t.job.bitmap] /\ t.via \in {0, t.job.row - 1}
    BY <1>b, <1>2, <1>3
  <2>. QED  BY <1>1, <1>4, <1>8, <2>1, TypesKept, TypesNow
<1>14. JobsFit'
  BY <1>1, <1>5, <1>7, <1>8 DEF LInv, JobsFit
<1>15. OneFetch'
  BY <1>1, <1>9 DEF LInv, OneFetch
<1>16. OneJump'
  BY <1>6, <1>7, <1>8, <1>11 DEF LInv, OneJump, Pending
<1>17. RowsFit'
  BY <1>1, <1>5, <1>9 DEF LInv, RowsFit
<1>18. JumpersFit'
  <2>1. Filling(b, r)'
    BY <1>b, <1>5, <1>9 DEF Filling
  <2>. QED  BY <1>1, <1>12, <2>1 DEF LInv, JumpersFit
<1>19. TurnsFit'
  BY <1>1, <1>12 DEF LInv, TurnsFit, NotStarted
<1>20. DoneFits'
  BY <1>1, <1>12 DEF LInv, DoneFits
<1>21. TilesFit'
  BY <1>1, <1>5, <1>9 DEF LInv, TilesFit
<1>22. OrderFits'
  <2>1. ASSUME NEW j \in DOMAIN normal', normal'[j].kind = "reduce"
        PROVE  /\ j \in DOMAIN normal /\ normal'[j] = normal[j]
               /\ \A i \in DOMAIN normal' : i < j => i \in DOMAIN normal /\ normal'[i] = normal[i]
    BY <1>7, <1>8, <2>1
  <2>. QED  BY <1>1, <1>6, <1>9, <2>1 DEF LInv, OrderFits
<1>23. LateFits'
  <2>1. \A v \in Workers : \A c, s : Jumping(v, c, s)' => Jumping(v, c, s)
    BY <1>5 DEF Jumping
  <2>. QED  BY <1>1, <1>5, <1>6, <1>9, <2>1 DEF LInv, LateFits
<1>. QED  BY <1>13, <1>14, <1>15, <1>16, <1>17, <1>18, <1>19, <1>20, <1>21, <1>22, <1>23 DEF LInv

\* A DataFetcher goes on with its row: the task that it gets.
LEMMA FetchTask ==
    ASSUME LInv, NEW w \in Workers, task[w].at \in {"fill", "report"}
    PROVE  /\ LoadTypes /\ task[w] # Idle /\ task[w].job.kind = "fetch"
           /\ task[w].job \in Jobs /\ task[w].job.bitmap \in Bitmaps
           /\ task[w].job.row \in 1..Rows[task[w].job.bitmap] /\ task[w].job.row \in Nat \ {0}
           /\ task[w].tiles \in 0..Columns[task[w].job.bitmap] /\ task[w].tiles \in Nat
           /\ task[w].via \in {0, task[w].job.row - 1} /\ task[w].via \in Nat
           /\ task[w] = [job |-> task[w].job, at |-> task[w].at,
                         tiles |-> task[w].tiles, via |-> task[w].via]
           /\ Fetching(w, task[w].job.bitmap)
           /\ \A v \in Workers : Fetching(v, task[w].job.bitmap) => v = w
           /\ ~Waits(task[w].job.bitmap) /\ Reading(task[w].job.bitmap)
           /\ \A r \in 1..Rows[task[w].job.bitmap] : ~Handed(task[w].job.bitmap, r)
           /\ ~NotStarted(task[w].job.bitmap) /\ ~(done[task[w].job.bitmap] > 0)
<1>1. LoadTypes /\ task[w] # Idle /\ task[w].job.kind = "fetch"
  BY IdleFacts DEF LInv, JobsFit
<1>2. task[w].job.bitmap \in Bitmaps /\ Fetching(w, task[w].job.bitmap)
  BY <1>1, WorkerFacts DEF Fetching
<1>3. Reading(task[w].job.bitmap)
  BY <1>2 DEF Reading
<1>4. ~Waits(task[w].job.bitmap) /\ \A v \in Workers : Fetching(v, task[w].job.bitmap) => v = w
  BY <1>2 DEF LInv, OneFetch, Waits
<1>5. \A r \in 1..Rows[task[w].job.bitmap] : ~Handed(task[w].job.bitmap, r)
  BY <1>2, <1>3 DEF LInv, JumpersFit
<1>6. ~NotStarted(task[w].job.bitmap) /\ ~(done[task[w].job.bitmap] > 0)
  BY <1>2, <1>3 DEF LInv, TurnsFit, DoneFits
<1>. QED  BY <1>1, <1>2, <1>3, <1>4, <1>5, <1>6, WorkerFacts

LEMMA FillTilesInv == ASSUME LInv, NEW w \in Workers, FillTiles(w) PROVE LInv'
<1>b. PICK b, r : b = task[w].job.bitmap /\ r = task[w].job.row  OBVIOUS
<1>t. PICK t : t = [task[w] EXCEPT !.at = "report"]  OBVIOUS
<1>1. /\ task[w].at = "fill" /\ SetTask(w, t)
      /\ filled' = [filled EXCEPT ![b] = Append(filled[b], r)]
      /\ late' = IF life[b] = "closed" THEN [late EXCEPT ![b] = late[b] + 1] ELSE late
      /\ UNCHANGED <<life, sem, deleted, waiting, loader, high, normal, jumper, reported, done>>
  BY <1>b, <1>t DEF FillTiles, bitmapVars
<1>2. /\ LoadTypes /\ task[w] # Idle /\ task[w].job.kind = "fetch" /\ task[w].job \in Jobs
      /\ b \in Bitmaps /\ r \in 1..Rows[b] /\ r \in Nat \ {0}
      /\ task[w].tiles \in 0..Columns[b] /\ task[w].via \in {0, r - 1}
      /\ task[w].tiles \in Nat /\ task[w].via \in Nat
      /\ task[w] = [job |-> task[w].job, at |-> task[w].at,
                    tiles |-> task[w].tiles, via |-> task[w].via]
      /\ Fetching(w, b) /\ \A v \in Workers : Fetching(v, b) => v = w
      /\ ~Waits(b) /\ Reading(b) /\ \A s \in 1..Rows[b] : ~Handed(b, s)
      /\ ~NotStarted(b) /\ ~(done[b] > 0)
  BY <1>b, <1>1, FetchTask
<1>3. t = [job |-> task[w].job, at |-> "report", tiles |-> task[w].tiles, via |-> task[w].via]
  BY <1>t, <1>2
<1>4. t \in Tasks
  BY <1>2, <1>3 DEF Tasks, Stages
<1>5. /\ task'[w].job = task[w].job /\ task'[w].at = "report"
      /\ task'[w].tiles = task[w].tiles /\ task'[w].via = task[w].via
      /\ \A v \in Workers \ {w} : task'[v] = task[v]
  BY <1>1, <1>2, <1>3, <1>4, TaskFacts
<1>6. \A v \in Workers : task'[v].job = task[v].job /\ task'[v].via = task[v].via
                         /\ task'[v].tiles = task[v].tiles
  BY <1>5
<1>7. \A v \in Workers : \A c : Fetching(v, c)' <=> Fetching(v, c)
  BY <1>6 DEF Fetching
<1>8. /\ Len(filled[b]) = r - 1 /\ Len(filled[b]) \in Nat
      /\ filled[b] = [i \in 1..Len(filled[b]) |-> i]
      /\ filled[b] \in Seq(1..Rows[b]) /\ DOMAIN filled = Bitmaps
  BY <1>b, <1>1, <1>2, BitmapFacts DEF LInv, RowsFit
<1>9. /\ filled'[b] = Append(filled[b], r) /\ Len(filled'[b]) = r
      /\ filled'[b] \in Seq(1..Rows[b])
      /\ \A c \in Bitmaps : c # b => filled'[c] = filled[c]
      /\ filled' = [c \in Bitmaps |-> filled'[c]]
  <2>1. /\ filled'[b] = Append(filled[b], r) /\ \A c \in Bitmaps : c # b => filled'[c] = filled[c]
        /\ DOMAIN filled' = Bitmaps /\ filled' = [c \in Bitmaps |-> filled'[c]]
    BY <1>1, <1>2, <1>8
  <2>2. Append(filled[b], r) \in Seq(1..Rows[b]) /\ Len(Append(filled[b], r)) = r
    BY <1>2, <1>8, AppendFacts
  <2>. QED  BY <2>1, <2>2
<1>93. /\ Len(filled[b]) \in Nat /\ r = Len(filled[b]) + 1 /\ Len(filled'[b]) = r
       /\ \A c \in Bitmaps : c # b => filled'[c] = filled[c]
  BY <1>2, <1>8, <1>9
<1>10. filled'[b] = [i \in 1..r |-> i]
  <2>1. filled[b] = [i \in 1..(r - 1) |-> i]  BY <1>8
  <2>2. Append([i \in 1..(r - 1) |-> i], r) = [i \in 1..r |-> i]
    <3>1. [i \in 1..(r - 1) |-> i] \in Seq(Nat) /\ Len([i \in 1..(r - 1) |-> i]) = r - 1
      BY <1>2
    <3>. QED  BY <1>2, <3>1
  <2>. QED  BY <1>9, <2>1, <2>2
<1>11. /\ late[b] \in Nat /\ late \in [Bitmaps -> Nat] /\ late' \in [Bitmaps -> Nat]
       /\ \A c \in Bitmaps : late'[c] = IF c = b /\ life[b] = "closed" THEN late[b] + 1 ELSE late[c]
  <2>1. late \in [Bitmaps -> Nat] /\ late[b] \in Nat  BY <1>2, TypesNow
  <2>2. CASE life[b] = "closed"
    <3>1. late' = [late EXCEPT ![b] = late[b] + 1]  BY <1>1, <2>2
    <3>. QED  BY <1>2, <2>1, <2>2, <3>1
  <2>3. CASE life[b] # "closed"
    <3>1. late' = late  BY <1>1, <2>3
    <3>. QED  BY <2>1, <2>3, <3>1
  <2>. QED  BY <2>2, <2>3
<1>12. \A c : /\ Waits(c)' <=> Waits(c)
              /\ Reading(c)' <=> Reading(c)
              /\ \A s : /\ Pending(c, s)' <=> Pending(c, s)
                        /\ Handed(c, s)' <=> Handed(c, s)
                        /\ Filling(c, s) => Filling(c, s)' \/ (c = b /\ s = r)
  <2>1. \A c, s : Pending(c, s)' <=> Pending(c, s)
    BY <1>1, <1>6 DEF Pending
  <2>2. \A c, s : Filling(c, s) => Filling(c, s)' \/ (c = b /\ s = r)
    BY <1>b, <1>5, <1>7 DEF Filling, Fetching
  <2>. QED  BY <1>1, <1>7, <2>1, <2>2 DEF Handed, Waits, Reading
<1>13. LoadTypes'
  <2>1. t.tiles \in 0..Columns[t.job.bitmap] /\ t.via \in {0, t.job.row - 1}
    BY <1>b, <1>2, <1>3
  <2>2. \A c \in Bitmaps : /\ jumper'[c] \in [1..Rows[c] -> [inQueue : BOOLEAN, isSet : BOOLEAN]]
                           /\ filled'[c] \in Seq(1..Rows[c])
                           /\ reported'[c] \in 0..(Rows[c] * Columns[c])
    BY <1>1, <1>2, <1>9, TypesNow
  <2>3. /\ jumper' = [c \in Bitmaps |-> jumper'[c]] /\ reported' = [c \in Bitmaps |-> reported'[c]]
        /\ high' \in Seq(Jobs) /\ normal' \in Seq(Jobs)
        /\ sem' \in [Bitmaps -> Nat] /\ done' \in [Bitmaps -> 0..1]
    BY <1>1, <1>2, TypesNow
  <2>. QED  BY <1>1, <1>2, <1>4, <1>9, <1>11, <2>1, <2>2, <2>3, TypesKept
<1>14. JobsFit'
  BY <1>1, <1>2, <1>5 DEF LInv, JobsFit
<1>15. OneFetch'
  BY <1>1, <1>7 DEF LInv, OneFetch
<1>16. OneJump'
  BY <1>1, <1>6 DEF LInv, OneJump
<1>17. RowsFit'
  <2>1. \A c \in Bitmaps : filled'[c] = [i \in 1..Len(filled'[c]) |-> i]
    BY <1>9, <1>10 DEF LInv, RowsFit
  <2>2. \A i \in DOMAIN high : high[i].bitmap \in Bitmaps /\ high[i].bitmap # b
    BY <1>2, BitmapFacts, JobFacts DEF Waits
  <2>3. \A i \in DOMAIN high' : Len(filled'[high'[i].bitmap]) = high'[i].row - 1
    BY <1>1, <1>9, <2>2 DEF LInv, RowsFit
  <2>4. ASSUME NEW v \in Workers, NEW c \in Bitmaps, Fetching(v, c)'
        PROVE  Len(filled'[c]) = IF task'[v].at = "report" THEN task'[v].job.row ELSE task'[v].job.row - 1
    <3>1. Fetching(v, c)  BY <1>7, <2>4
    <3>2. CASE v = w
      <4>1. c = b /\ task'[v].at = "report" /\ task'[v].job.row = r
        BY <1>b, <1>5, <3>1, <3>2 DEF Fetching
      <4>. QED  BY <1>93, <4>1
    <3>3. CASE v # w
      <4>1. c # b  BY <1>2, <3>1, <3>3
      <4>2. task'[v] = task[v] /\ filled'[c] = filled[c]  BY <1>5, <1>93, <3>3, <4>1
      <4>3. Len(filled[c]) = IF task[v].at = "report" THEN task[v].job.row ELSE task[v].job.row - 1
        BY <3>1 DEF LInv, RowsFit
      <4>. QED  BY <4>2, <4>3
    <3>. QED  BY <3>2, <3>3
  <2>. QED  BY <2>1, <2>3, <2>4 DEF RowsFit
<1>18. JumpersFit'
  <2>1. \A c \in Bitmaps : /\ Len(filled'[c]) \in Nat /\ Len(filled[c]) \in Nat
                           /\ Len(filled[c]) <= Len(filled'[c])
    <3>1. \A c \in Bitmaps : Len(filled[c]) \in Nat  BY <1>2, BitmapFacts
    <3>. QED  BY <1>93, <3>1
  <2>2. r <= Len(filled'[b])  BY <1>93
  <2>3. \A c \in Bitmaps : \A s \in 1..Rows[c] : s \in Nat
    BY RowsAssumption
  <2>4. ASSUME NEW c \in Bitmaps, NEW s \in 1..Rows[c]
        PROVE  /\ Pending(c, s)' \/ ~jumper[c][s].inQueue => s <= Len(filled'[c]) \/ Filling(c, s)'
               /\ jumper[c][s].isSet => s <= Len(filled'[c]) /\ s < Rows[c]
    <3>1. /\ Pending(c, s) \/ ~jumper[c][s].inQueue => s <= Len(filled[c]) \/ Filling(c, s)
          /\ jumper[c][s].isSet => s <= Len(filled[c]) /\ s < Rows[c]
      BY <2>4 DEF LInv, JumpersFit
    <3>2. Pending(c, s)' <=> Pending(c, s)  BY <1>12
    <3>3. Filling(c, s) => Filling(c, s)' \/ (c = b /\ s = r)  BY <1>12
    <3>. QED  BY <2>1, <2>2, <2>3, <3>1, <3>2, <3>3
  <2>5. ASSUME NEW c \in Bitmaps, NEW s \in 1..Rows[c], Handed(c, s)'
        PROVE  s = Len(filled'[c]) /\ ~Waits(c)' /\ ~Reading(c)'
    <3>1. Handed(c, s) /\ c # b  BY <1>2, <1>12, <2>5
    <3>. QED  BY <1>9, <1>12, <3>1 DEF LInv, JumpersFit
  <2>. QED  BY <1>1, <2>4, <2>5 DEF JumpersFit
<1>19. TurnsFit'
  <2>1. \A c : NotStarted(c)' <=> NotStarted(c)  BY <1>1 DEF NotStarted
  <2>. QED  BY <1>1, <1>2, <1>9, <1>12, <2>1 DEF LInv, TurnsFit
<1>20. DoneFits'
  BY <1>1, <1>2, <1>9, <1>12 DEF LInv, DoneFits
<1>21. TilesFit'
  <2>1. task[w].tiles = 0 /\ task'[w].tiles = 0  BY <1>1, <1>5 DEF LInv, TilesFit
  <2>2. reported[b] = (r - 1) * Columns[b]
    BY <1>1, <1>2, <1>8 DEF LInv, TilesFit
  <2>3. Columns[b] \in Nat /\ reported[b] \in Nat  BY <1>2, BitmapFacts
  <2>4. reported[b] = (Len(filled'[b]) - 1) * Columns[b] + 0
    BY <1>9, <2>2, <2>3
  <2>5. \A v \in Workers : task'[v].at # "report" => task'[v].tiles = 0
    BY <1>5, <2>1 DEF LInv, TilesFit
  <2>6. \A c \in Bitmaps : c # b =>
          /\ \A v \in Workers : Fetching(v, c)' /\ task'[v].at = "report"
               => reported'[c] = (Len(filled'[c]) - 1) * Columns[c] + task'[v].tiles
          /\ (\A v \in Workers : ~(Fetching(v, c)' /\ task'[v].at = "report"))
               => reported'[c] = Len(filled'[c]) * Columns[c]
    <3>1. \A c \in Bitmaps, v \in Workers : c # b /\ Fetching(v, c) => task'[v] = task[v]
      BY <1>2, <1>5 DEF Fetching
    <3>2. \A c \in Bitmaps : c # b => reported'[c] = reported[c] /\ filled'[c] = filled[c]
      BY <1>1, <1>9
    <3>. QED  BY <1>7, <3>1, <3>2 DEF LInv, TilesFit
  <2>7. \A v \in Workers : Fetching(v, b)' => v = w  BY <1>2, <1>7
  <2>8. Fetching(w, b)' /\ task'[w].at = "report"  BY <1>2, <1>5, <1>7
  <2>. QED  BY <1>1, <2>1, <2>4, <2>5, <2>6, <2>7, <2>8 DEF TilesFit
<1>22. OrderFits'
  BY <1>1, <1>6, <1>7 DEF LInv, OrderFits
<1>23. LateFits'
  <2>1. \A v \in Workers : \A c, s : Jumping(v, c, s)' => Jumping(v, c, s)
    BY <1>5 DEF Jumping
  <2>2. late[b] <= 1 /\ \A v \in Workers : Jumping(v, b, r) => late[b] = 0
    BY <1>b, <1>1, <1>2 DEF LInv, LateFits
  <2>3. \A v \in Workers, s \in 1..Rows[b] : ~(Jumping(v, b, s) /\ jumper[b][s].isSet)
    BY <1>2 DEF Jumping, Handed, Pending
  <2>4. late'[b] <= 2 /\ \A v \in Workers : Jumping(v, b, r) => late'[b] <= 1
    BY <1>2, <1>11, <2>2
  <2>5. ASSUME NEW c \in Bitmaps, c # b
        PROVE  late'[c] = late[c] /\ \A v \in Workers : Fetching(v, c) => task'[v] = task[v]
    BY <1>2, <1>5, <1>11, <2>5 DEF Fetching
  <2>6. \A v \in Workers : Fetching(v, b)' => task'[v].at = "report" /\ task'[v].job.row = r
    BY <1>b, <1>2, <1>5, <1>7
  <2>7. life[b] # "closed" => late'[b] = 0
    BY <1>2, <1>11 DEF LInv, LateFits
  <2>8. ASSUME NEW c \in Bitmaps, c # b
        PROVE  /\ life'[c] # "closed" => late'[c] = 0
               /\ late'[c] <= 2
               /\ \A u \in Workers : Fetching(u, c)' /\ task'[u].at \in {"start", "fill"} =>
                    /\ late'[c] <= 1
                    /\ \A v \in Workers : Jumping(v, c, task[u].job.row)' => late'[c] = 0
               /\ \A v, u \in Workers :
                    Fetching(u, c)' /\ Jumping(v, c, task[u].job.row)' => late'[c] <= 1
               /\ \A v \in Workers, s \in 1..Rows[c] :
                    Jumping(v, c, s)' /\ jumper'[c][s].isSet => late'[c] <= 1
    <3>1. \A v, u \in Workers : Fetching(u, c) /\ Jumping(v, c, task[u].job.row)'
             => Jumping(v, c, task[u].job.row)
      BY <1>5, <1>6, <2>1, <2>5, <2>8 DEF Jumping
    <3>. QED  BY <1>1, <1>7, <2>1, <2>5, <2>8, <3>1 DEF LInv, LateFits
  <2>9. /\ late'[b] <= 2
        /\ \A u \in Workers : ~(Fetching(u, b)' /\ task'[u].at \in {"start", "fill"})
        /\ \A v, u \in Workers :
             Fetching(u, b)' /\ Jumping(v, b, task[u].job.row)' => late'[b] <= 1
        /\ \A v \in Workers, s \in 1..Rows[b] : ~(Jumping(v, b, s)' /\ jumper'[b][s].isSet)
    <3>1. \A v, u \in Workers : Fetching(u, b)' /\ Jumping(v, b, task[u].job.row)' => Jumping(v, b, r)
      BY <1>b, <1>2, <1>5, <1>6, <1>7 DEF Jumping
    <3>. QED  BY <1>1, <2>1, <2>3, <2>4, <2>6, <3>1
  <2>. QED  BY <1>1, <2>7, <2>8, <2>9 DEF LateFits
<1>. QED  BY <1>13, <1>14, <1>15, <1>16, <1>17, <1>18, <1>19, <1>20, <1>21, <1>22, <1>23 DEF LInv

\* The tiles of the rows that were read before.
LEMMA TilesBound ==
    ASSUME NEW c \in Nat \ {0}, NEW n \in Nat \ {0}, NEW r \in 1..n, NEW t \in Nat, t < c
    PROVE  (r - 1) * c + t + 1 \in 0..(n * c)
<1>1. (r - 1) * c \in Nat /\ n * c \in Nat  OBVIOUS
<1>2. r * c = (r - 1) * c + c  OBVIOUS
<1>3. r * c <= n * c  OBVIOUS
<1>4. r * c \in Nat  OBVIOUS
<1>. QED  BY <1>1, <1>2, <1>3, <1>4

LEMMA ReportFinishedInv == ASSUME LInv, NEW w \in Workers, ReportFinished(w) PROVE LInv'
<1>b. PICK b, r : b = task[w].job.bitmap /\ r = task[w].job.row  OBVIOUS
<1>t. PICK t : t = [task[w] EXCEPT !.tiles = @ + 1]  OBVIOUS
<1>1. /\ task[w].at = "report" /\ SetTask(w, t) /\ task[w].tiles < Columns[b]
      /\ reported' = [reported EXCEPT ![b] = reported[b] + 1]
      /\ normal' = Append(normal, Reduce(b, r)) \/ normal' = normal
      /\ UNCHANGED <<life, sem, deleted, waiting, loader, high, jumper, filled, done, late>>
  BY <1>b, <1>t DEF ReportFinished, bitmapVars, sourceVars
<1>2. /\ LoadTypes /\ task[w] # Idle /\ task[w].job.kind = "fetch" /\ task[w].job \in Jobs
      /\ b \in Bitmaps /\ r \in 1..Rows[b] /\ r \in Nat \ {0}
      /\ task[w].tiles \in 0..Columns[b] /\ task[w].via \in {0, r - 1}
      /\ task[w].tiles \in Nat /\ task[w].via \in Nat
      /\ task[w] = [job |-> task[w].job, at |-> task[w].at,
                    tiles |-> task[w].tiles, via |-> task[w].via]
      /\ Fetching(w, b) /\ (\A v \in Workers : Fetching(v, b) => v = w)
      /\ ~Waits(b) /\ Reading(b) /\ Columns[b] \in Nat \ {0} /\ Rows[b] \in Nat \ {0}
  BY <1>b, <1>1, FetchTask, BitmapFacts
<1>3. t = [job |-> task[w].job, at |-> task[w].at, tiles |-> task[w].tiles + 1, via |-> task[w].via]
  BY <1>t, <1>2
<1>4. t \in Tasks /\ t.tiles \in 0..Columns[b]
  BY <1>1, <1>2, <1>3 DEF Tasks, Stages
<1>5. /\ task'[w].job = task[w].job /\ task'[w].at = "report"
      /\ task'[w].tiles = task[w].tiles + 1 /\ task'[w].via = task[w].via
      /\ \A v \in Workers \ {w} : task'[v] = task[v]
  BY <1>1, <1>2, <1>3, <1>4, TaskFacts
<1>6. \A v \in Workers : /\ task'[v].job = task[v].job /\ task'[v].via = task[v].via
                         /\ task'[v].at = task[v].at
  BY <1>1, <1>5
<1>7. \A v \in Workers : \A c : Fetching(v, c)' <=> Fetching(v, c)
  BY <1>6 DEF Fetching
<1>8. /\ Reduce(b, r) \in Jobs /\ Reduce(b, r).kind = "reduce"
      /\ Reduce(b, r).bitmap = b /\ Reduce(b, r).row = r
  BY <1>2, JobFacts, JobIs
<1>9. /\ normal' \in Seq(Jobs)
      /\ DOMAIN normal \subseteq DOMAIN normal'
      /\ \A i \in DOMAIN normal : normal'[i] = normal[i]
      /\ \A i \in DOMAIN normal' \ DOMAIN normal : normal'[i] = Reduce(b, r) /\ i = Len(normal) + 1
  <2>1. normal \in Seq(Jobs)  BY <1>2, BitmapFacts
  <2>2. CASE normal' = normal  BY <2>1, <2>2
  <2>3. CASE normal' = Append(normal, Reduce(b, r))
    BY <1>8, <2>1, <2>3, AppendFacts
  <2>. QED  BY <1>1, <2>2, <2>3
<1>10. /\ \A c \in Bitmaps : reported'[c] = IF c = b THEN reported[b] + 1 ELSE reported[c]
       /\ reported' = [c \in Bitmaps |-> reported'[c]]
       /\ Len(filled[b]) = r /\ reported[b] = (r - 1) * Columns[b] + task[w].tiles
       /\ reported[b] \in Nat
  <2>1. DOMAIN reported = Bitmaps /\ reported[b] \in Nat  BY <1>2, BitmapFacts
  <2>2. Len(filled[b]) = r  BY <1>b, <1>1, <1>2 DEF LInv, RowsFit
  <2>3. reported[b] = (r - 1) * Columns[b] + task[w].tiles
    BY <1>1, <1>2, <2>2 DEF LInv, TilesFit
  <2>. QED  BY <1>1, <1>2, <2>1, <2>2, <2>3
<1>11. \A c : /\ Waits(c)' <=> Waits(c)
              /\ Reading(c)' <=> Reading(c)
              /\ \A s : /\ Pending(c, s)' <=> Pending(c, s)
                        /\ Handed(c, s)' <=> Handed(c, s)
                        /\ Filling(c, s)' <=> Filling(c, s)
  <2>1. \A c, s : Reduce(b, r) # Jump(c, s)  BY DEF Reduce, Jump, Job
  <2>2. \A c, s : Pending(c, s)' <=> Pending(c, s)
    BY <1>6, <1>9, <2>1 DEF Pending
  <2>3. \A c, s : Filling(c, s)' <=> Filling(c, s)
    BY <1>6, <1>7 DEF Filling
  <2>. QED  BY <1>1, <1>7, <2>2, <2>3 DEF Handed, Waits, Reading
<1>12. LoadTypes'
  <2>1. t.tiles \in 0..Columns[t.job.bitmap] /\ t.via \in {0, t.job.row - 1}
    BY <1>b, <1>2, <1>3, <1>4
  <2>2. reported'[b] \in 0..(Rows[b] * Columns[b])
    <3>1. (r - 1) * Columns[b] + task[w].tiles + 1 \in 0..(Rows[b] * Columns[b])
      BY <1>1, <1>2, TilesBound
    <3>2. reported'[b] = (r - 1) * Columns[b] + task[w].tiles + 1
      BY <1>2, <1>10
    <3>. QED  BY <3>1, <3>2
  <2>3. \A c \in Bitmaps : /\ jumper'[c] \in [1..Rows[c] -> [inQueue : BOOLEAN, isSet : BOOLEAN]]
                           /\ filled'[c] \in Seq(1..Rows[c])
                           /\ reported'[c] \in 0..(Rows[c] * Columns[c])
    BY <1>1, <1>2, <1>10, <2>2, TypesNow
  <2>4. /\ jumper' = [c \in Bitmaps |-> jumper'[c]] /\ filled' = [c \in Bitmaps |-> filled'[c]]
        /\ high' \in Seq(Jobs) /\ late' \in [Bitmaps -> Nat]
        /\ sem' \in [Bitmaps -> Nat] /\ done' \in [Bitmaps -> 0..1]
    BY <1>1, <1>2, TypesNow
  <2>. QED  BY <1>1, <1>2, <1>4, <1>9, <1>10, <2>1, <2>3, <2>4, TypesKept
<1>13. JobsFit'
  BY <1>1, <1>6, <1>8, <1>9 DEF LInv, JobsFit
<1>14. OneFetch'
  BY <1>1, <1>7 DEF LInv, OneFetch
<1>15. OneJump'
  BY <1>6, <1>8, <1>9 DEF LInv, OneJump
<1>16. RowsFit'
  BY <1>1, <1>6, <1>7 DEF LInv, RowsFit
<1>17. JumpersFit'
  BY <1>1, <1>11 DEF LInv, JumpersFit
<1>18. TurnsFit'
  BY <1>1, <1>11 DEF LInv, TurnsFit, NotStarted
<1>19. DoneFits'
  BY <1>1, <1>11 DEF LInv, DoneFits
<1>20. TilesFit'
  <2>1. reported'[b] = (Len(filled'[b]) - 1) * Columns[b] + task'[w].tiles
    <3>1. (r - 1) * Columns[b] \in Nat  BY <1>2
    <3>. QED  BY <1>1, <1>2, <1>5, <1>10, <3>1
  <2>2. \A v \in Workers : task'[v].at # "report" => task'[v].tiles = 0
    BY <1>5 DEF LInv, TilesFit
  <2>3. \A c \in Bitmaps : c # b =>
          /\ \A v \in Workers : Fetching(v, c)' /\ task'[v].at = "report"
               => reported'[c] = (Len(filled'[c]) - 1) * Columns[c] + task'[v].tiles
          /\ (\A v \in Workers : ~(Fetching(v, c)' /\ task'[v].at = "report"))
               => reported'[c] = Len(filled'[c]) * Columns[c]
    <3>1. \A c \in Bitmaps, v \in Workers : c # b /\ Fetching(v, c) => task'[v] = task[v]
      BY <1>2, <1>5 DEF Fetching
    <3>2. \A c \in Bitmaps : c # b => reported'[c] = reported[c] /\ filled'[c] = filled[c]
      BY <1>1, <1>10
    <3>. QED  BY <1>7, <3>1, <3>2 DEF LInv, TilesFit
  <2>4. \A v \in Workers : Fetching(v, b)' => v = w  BY <1>2, <1>7
  <2>5. Fetching(w, b)' /\ task'[w].at = "report"  BY <1>2, <1>5, <1>7
  <2>. QED  BY <2>1, <2>2, <2>3, <2>4, <2>5 DEF TilesFit
<1>21. OrderFits'
  <2>1. ASSUME NEW j \in DOMAIN normal, normal'[j].kind = "reduce"
        PROVE  /\ normal'[j] = normal[j]
               /\ \A i \in DOMAIN normal' :
                     normal'[i].kind = "jump" /\ i < j => i \in DOMAIN normal /\ normal'[i] = normal[i]
    BY <1>8, <1>9
  <2>2. \A s \in 1..Rows[b] : Pending(b, s) \/ ~jumper[b][s].inQueue => s <= r
    <3>1. \A s \in 1..Rows[b] : ~Filling(b, s)  BY <1>1, <1>2 DEF Filling
    <3>. QED  BY <1>2, <1>10, <3>1 DEF LInv, JumpersFit
  <2>3. ASSUME NEW j \in DOMAIN normal' \ DOMAIN normal
        PROVE  /\ normal'[j].bitmap = b /\ normal'[j].row = r
               /\ \A i \in DOMAIN high : high[i].bitmap # b
               /\ \A v \in Workers : Fetching(v, b) => r >= task[v].job.row - 1
               /\ \A i \in DOMAIN normal' :
                    normal'[i].kind = "jump" /\ normal'[i].bitmap = b => r >= normal'[i].row
               /\ \A v \in Workers :
                    task[v].job.kind = "jump" /\ task[v].job.bitmap = b => r >= task[v].job.row
               /\ \A s \in 1..Rows[b] : ~jumper[b][s].inQueue => r >= s
    <3>1. normal'[j].bitmap = b /\ normal'[j].row = r  BY <1>8, <1>9
    <3>2. \A i \in DOMAIN high : high[i].bitmap # b  BY <1>2 DEF Waits
    <3>3. \A v \in Workers : Fetching(v, b) => r >= task[v].job.row - 1  BY <1>b, <1>2
    <3>4. ASSUME NEW i \in DOMAIN normal', normal'[i].kind = "jump", normal'[i].bitmap = b
          PROVE  r >= normal'[i].row
      <4>1. i \in DOMAIN normal /\ normal'[i] = normal[i]  BY <1>8, <1>9, <3>4
      <4>2. normal[i] \in Jobs  BY <1>2, <4>1, BitmapFacts
      <4>3. normal[i] = Jump(b, normal[i].row) /\ normal[i].row \in 1..Rows[b]
        BY <3>4, <4>1, <4>2, JobIs, JobFacts
      <4>4. Pending(b, normal[i].row)  BY <4>1, <4>3 DEF Pending
      <4>. QED  BY <1>2, <2>2, <4>1, <4>3, <4>4
    <3>5. ASSUME NEW v \in Workers, task[v].job.kind = "jump", task[v].job.bitmap = b
          PROVE  r >= task[v].job.row
      <4>1. task[v] # Idle  BY <3>5, IdleFacts
      <4>2. task[v].job = Jump(b, task[v].job.row) /\ task[v].job.row \in 1..Rows[b]
        BY <1>2, <3>5, <4>1, WorkerFacts DEF Jump
      <4>3. Pending(b, task[v].job.row)  BY <4>2 DEF Pending
      <4>. QED  BY <1>2, <2>2, <4>2, <4>3
    <3>6. \A s \in 1..Rows[b] : ~jumper[b][s].inQueue => r >= s  BY <1>2, <2>2
    <3>. QED  BY <3>1, <3>2, <3>3, <3>4, <3>5, <3>6
  <2>. QED  BY <1>1, <1>6, <1>7, <1>9, <2>1, <2>3 DEF LInv, OrderFits
<1>22. LateFits'
  <2>1. \A v \in Workers : \A c, s : Jumping(v, c, s)' <=> Jumping(v, c, s)
    BY <1>6 DEF Jumping
  <2>. QED  BY <1>1, <1>6, <1>7, <2>1 DEF LInv, LateFits
<1>. QED  BY <1>12, <1>13, <1>14, <1>15, <1>16, <1>17, <1>18, <1>19, <1>20, <1>21, <1>22 DEF LInv

\* The QueueJumpers, once a DataFetcher has left the next row to one of them.
LEMMA SuccessorJumpers ==
    ASSUME LInv, NEW w \in Workers, Successor(w), NEW b, NEW r, NEW via,
           b = task[w].job.bitmap, r = task[w].job.row, via = task[w].via
    PROVE  /\ jumper' = [c \in Bitmaps |-> jumper'[c]]
           /\ \A c \in Bitmaps : jumper'[c] \in [1..Rows[c] -> [inQueue : BOOLEAN, isSet : BOOLEAN]]
           /\ \A c \in Bitmaps : \A s \in 1..Rows[c] :
                /\ jumper'[c][s].isSet =>
                     jumper[c][s].isSet \/ (c = b /\ s = r /\ jumper[b][r].inQueue)
                /\ ~jumper'[c][s].inQueue => ~jumper[c][s].inQueue \/ (c = b /\ s = via)
           /\ via = 0 \/ via \in 1..Rows[b]
<1>l. PICK left : left = IF via = 0 THEN jumper ELSE LeftQueue(jumper, b, via)
  OBVIOUS
<1>1. /\ LoadTypes /\ b \in Bitmaps /\ r \in 1..Rows[b] /\ r \in Nat \ {0}
      /\ via \in {0, r - 1} /\ via \in Nat /\ Rows[b] \in Nat
  BY FetchTask, RowsAssumption DEF Successor
<1>2. via # 0 => via \in 1..Rows[b]
  BY <1>1
<1>3. /\ Jumpers(left)
      /\ \A c \in Bitmaps : \A s \in 1..Rows[c] :
           /\ left[c][s].isSet = jumper[c][s].isSet
           /\ ~left[c][s].inQueue => ~jumper[c][s].inQueue \/ (c = b /\ s = via)
  <2>1. Jumpers(jumper)  BY <1>1, TypesNow DEF Jumpers
  <2>2. CASE via = 0  BY <1>l, <2>1, <2>2
  <2>3. CASE via # 0
    <3>1. left = LeftQueue(jumper, b, via)  BY <1>l, <2>3
    <3>. QED  BY <1>1, <1>2, <2>1, <2>3, <3>1, LeftQueueFacts
  <2>. QED  BY <2>2, <2>3
<1>4. jumper' = IF jumper[b][r].inQueue THEN WorkSet(left, b, r) ELSE left
  <2>1. left = IF task[w].via = 0 THEN jumper
               ELSE [jumper EXCEPT ![task[w].job.bitmap][task[w].via].inQueue = FALSE]
    BY <1>l DEF LeftQueue
  <2>2. jumper' = IF jumper[task[w].job.bitmap][task[w].job.row].inQueue
                  THEN [left EXCEPT ![task[w].job.bitmap][task[w].job.row].isSet = TRUE] ELSE left
    BY <2>1 DEF Successor, Accepts
  <2>. QED  BY <2>2 DEF WorkSet
<1>5. CASE jumper[b][r].inQueue
  <2>1. jumper' = WorkSet(left, b, r)  BY <1>4, <1>5
  <2>2. Jumpers(jumper')  BY <1>1, <1>3, <2>1, WorkSetFacts
  <2>3. \A c \in Bitmaps : \A s \in 1..Rows[c] :
             /\ jumper'[c][s].inQueue = left[c][s].inQueue
             /\ jumper'[c][s].isSet => left[c][s].isSet \/ (c = b /\ s = r)
    BY <1>1, <1>3, <2>1, WorkSetFacts
  <2>. QED  BY <1>1, <1>2, <1>3, <1>5, <2>2, <2>3 DEF Jumpers
<1>6. CASE ~jumper[b][r].inQueue
  <2>1. jumper' = left  BY <1>4, <1>6
  <2>. QED  BY <1>1, <1>2, <1>3, <2>1 DEF Jumpers
<1>. QED  BY <1>5, <1>6

LEMMA SuccessorInv == ASSUME LInv, NEW w \in Workers, Successor(w) PROVE LInv'
<1>b. PICK b, r, via : b = task[w].job.bitmap /\ r = task[w].job.row /\ via = task[w].via  OBVIOUS
<1>1. /\ task[w].at = "report" /\ SetTask(w, Idle) /\ task[w].tiles = Columns[b] /\ r < Rows[b]
      /\ high' = IF jumper[b][r].inQueue THEN high ELSE Append(high, Fetch(b, r + 1))
      /\ UNCHANGED <<life, sem, deleted, waiting, loader, normal, reported, filled, done, late>>
  BY <1>b DEF Successor, bitmapVars, sourceVars, NeedsSchedule, Accepts
<1>2. /\ LoadTypes /\ task[w] # Idle /\ task[w].job.kind = "fetch" /\ task[w].job \in Jobs
      /\ b \in Bitmaps /\ r \in 1..Rows[b] /\ r \in Nat \ {0}
      /\ Fetching(w, b) /\ (\A v \in Workers : Fetching(v, b) => v = w)
      /\ ~Waits(b) /\ Reading(b) /\ (\A s \in 1..Rows[b] : ~Handed(b, s))
      /\ ~NotStarted(b) /\ ~(done[b] > 0)
      /\ Columns[b] \in Nat \ {0} /\ Rows[b] \in Nat \ {0} /\ via \in {0, r - 1}
  <2>1. task[w].at \in {"fill", "report"}  BY <1>1
  <2>2. via \in {0, r - 1}  BY <1>b, <2>1, FetchTask
  <2>3. LoadTypes /\ b \in Bitmaps  BY <1>b, <2>1, FetchTask
  <2>4. Columns[b] \in Nat \ {0} /\ Rows[b] \in Nat \ {0}  BY <2>3, BitmapFacts
  <2>. QED  BY <1>b, <2>1, <2>2, <2>4, FetchTask
<1>3. /\ task'[w] = Idle /\ task'[w].job.kind = "none" /\ task'[w].at = "idle"
      /\ task'[w].tiles = 0 /\ task'[w].via = 0
      /\ \A v \in Workers \ {w} : task'[v] = task[v]
  BY <1>1, <1>2, TaskFacts, IdleFacts
<1>4. /\ jumper' = [c \in Bitmaps |-> jumper'[c]]
      /\ \A c \in Bitmaps : jumper'[c] \in [1..Rows[c] -> [inQueue : BOOLEAN, isSet : BOOLEAN]]
      /\ \A c \in Bitmaps : \A s \in 1..Rows[c] :
           /\ jumper'[c][s].isSet => jumper[c][s].isSet \/ (c = b /\ s = r /\ jumper[b][r].inQueue)
           /\ ~jumper'[c][s].inQueue => ~jumper[c][s].inQueue \/ (c = b /\ s = via)
      /\ via = 0 \/ via \in 1..Rows[b]
  BY <1>b, SuccessorJumpers
<1>5. Fetch(b, r + 1) \in Jobs /\ Fetch(b, r + 1).kind = "fetch"
      /\ Fetch(b, r + 1).bitmap = b /\ Fetch(b, r + 1).row = r + 1
  <2>1. r + 1 \in 1..Rows[b]  BY <1>1, <1>2
  <2>. QED  BY <1>2, <2>1, JobFacts, JobIs
<1>6. /\ high' \in Seq(Jobs)
      /\ DOMAIN high \subseteq DOMAIN high' /\ \A i \in DOMAIN high : high'[i] = high[i]
      /\ \A i \in DOMAIN high' \ DOMAIN high :
           /\ high'[i].kind = "fetch" /\ high'[i].bitmap = b /\ high'[i].row = r + 1
           /\ i = Len(high) + 1 /\ ~jumper[b][r].inQueue
      /\ \A i \in DOMAIN high : high[i].bitmap # b
  <2>1. high \in Seq(Jobs) /\ \A i \in DOMAIN high : high[i].bitmap # b
    BY <1>2, BitmapFacts DEF Waits
  <2>2. CASE jumper[b][r].inQueue
    <3>1. high' = high  BY <1>1, <2>2
    <3>. QED  BY <2>1, <3>1
  <2>3. CASE ~jumper[b][r].inQueue
    <3>1. high' = Append(high, Fetch(b, r + 1))  BY <1>1, <2>3
    <3>. QED  BY <1>5, <2>1, <2>3, <3>1, AppendFacts
  <2>. QED  BY <2>2, <2>3
<1>7. \A v \in Workers : \A c : Fetching(v, c)' <=> v # w /\ Fetching(v, c)
  BY <1>3 DEF Fetching
<1>8. /\ Len(filled[b]) = r
      /\ reported[b] = (r - 1) * Columns[b] + Columns[b]
  <2>1. Len(filled[b]) = r  BY <1>b, <1>1, <1>2 DEF LInv, RowsFit
  <2>. QED  BY <1>1, <1>2, <2>1 DEF LInv, TilesFit
<1>9. \A c : /\ Waits(c)' => Waits(c) \/ (c = b /\ ~jumper[b][r].inQueue)
             /\ Reading(c)' <=> Reading(c) /\ c # b
             /\ \A s : /\ Pending(c, s)' <=> Pending(c, s)
                       /\ Filling(c, s)' <=> Filling(c, s)
  <2>1. \A c : Waits(c)' => Waits(c) \/ (c = b /\ ~jumper[b][r].inQueue)
    BY <1>6 DEF Waits
  <2>2. \A c : Reading(c)' <=> Reading(c) /\ c # b
    <3>1. \A c : Fetching(w, c) => c = b  BY <1>2 DEF Fetching
    <3>2. \A v \in Workers : Fetching(v, b) => v = w  BY <1>2
    <3>. QED  BY <1>7, <3>1, <3>2 DEF Reading
  <2>3. \A c, s : Pending(c, s)' <=> Pending(c, s)
    <3>1. \A c, s : task[w].job # Jump(c, s) /\ task'[w].job # Jump(c, s)
      BY <1>2, <1>3, JobIs
    <3>. QED  BY <1>1, <1>3, <3>1 DEF Pending
  <2>4. \A c, s : Filling(c, s)' <=> Filling(c, s)
    BY <1>1, <1>3, <1>7 DEF Filling
  <2>. QED  BY <2>1, <2>2, <2>3, <2>4
<1>10. \A c \in Bitmaps : \A s \in 1..Rows[c] :
         Handed(c, s)' => Handed(c, s) \/ (c = b /\ s = r /\ jumper[b][r].inQueue)
  BY <1>4, <1>9 DEF Handed
<1>11. LoadTypes'
  <2>1. \A c \in Bitmaps : /\ jumper'[c] \in [1..Rows[c] -> [inQueue : BOOLEAN, isSet : BOOLEAN]]
                           /\ filled'[c] \in Seq(1..Rows[c])
                           /\ reported'[c] \in 0..(Rows[c] * Columns[c])
    BY <1>1, <1>2, <1>4, TypesNow
  <2>2. /\ filled' = [c \in Bitmaps |-> filled'[c]] /\ reported' = [c \in Bitmaps |-> reported'[c]]
        /\ normal' \in Seq(Jobs) /\ late' \in [Bitmaps -> Nat]
        /\ sem' \in [Bitmaps -> Nat] /\ done' \in [Bitmaps -> 0..1]
    BY <1>1, <1>2, TypesNow
  <2>3. SetTask(w, Idle) /\ Idle \in Tasks  BY <1>1, IdleFacts
  <2>. QED  BY <1>1, <1>2, <1>4, <1>6, <2>1, <2>2, <2>3, TypesKept
<1>12. JobsFit'
  <2>1. \A i \in DOMAIN high' : high'[i].kind = "fetch"
    <3>1. \A i \in DOMAIN high : high[i].kind = "fetch"  BY DEF LInv, JobsFit
    <3>. QED  BY <1>6, <3>1
  <2>2. /\ \A i \in DOMAIN normal' : normal'[i].kind \in {"jump", "reduce"}
        /\ \A v \in Workers :
             /\ task'[v].at \in {"fill", "report"} => task'[v].job.kind = "fetch"
             /\ task'[v].via # 0 => task'[v].job.kind = "fetch"
    BY <1>1, <1>3 DEF LInv, JobsFit
  <2>. QED  BY <2>1, <2>2 DEF JobsFit
<1>13. OneFetch'
  <2>1. \A i, j \in DOMAIN high' : high'[i].bitmap = high'[j].bitmap => i = j
    BY <1>6 DEF LInv, OneFetch
  <2>2. \A u, v \in Workers, c \in Bitmaps : Fetching(u, c)' /\ Fetching(v, c)' => u = v
    BY <1>7 DEF LInv, OneFetch
  <2>3. \A i \in DOMAIN high', v \in Workers : ~Fetching(v, high[i].bitmap)'
    BY <1>2, <1>6, <1>7 DEF LInv, OneFetch
  <2>. QED  BY <2>1, <2>2, <2>3 DEF OneFetch
<1>14. OneJump'
  BY <1>1, <1>3 DEF LInv, OneJump
<1>15. RowsFit'
  <2>1. \A i \in DOMAIN high' : Len(filled[high'[i].bitmap]) = high'[i].row - 1
    <3>1. \A i \in DOMAIN high : Len(filled[high[i].bitmap]) = high[i].row - 1
      BY DEF LInv, RowsFit
    <3>2. ASSUME NEW i \in DOMAIN high' \ DOMAIN high
          PROVE  Len(filled[high'[i].bitmap]) = high'[i].row - 1
      <4>1. high'[i].bitmap = b /\ high'[i].row = r + 1  BY <1>6
      <4>. QED  BY <1>2, <1>8, <4>1
    <3>. QED  BY <1>6, <3>1, <3>2
  <2>2. \A v \in Workers, c \in Bitmaps : Fetching(v, c)' =>
          Len(filled[c]) = IF task'[v].at = "report" THEN task'[v].job.row ELSE task'[v].job.row - 1
    BY <1>3, <1>7 DEF LInv, RowsFit
  <2>3. \A c \in Bitmaps : filled[c] = [i \in 1..Len(filled[c]) |-> i]
    BY DEF LInv, RowsFit
  <2>. QED  BY <1>1, <2>1, <2>2, <2>3 DEF RowsFit
<1>16. JumpersFit'
  <2>1. \A s \in 1..Rows[b] : s = via => s <= Len(filled[b])
    BY <1>2, <1>8
  <2>2. ASSUME NEW c \in Bitmaps, NEW s \in 1..Rows[c]
        PROVE  /\ Pending(c, s)' \/ ~jumper'[c][s].inQueue => s <= Len(filled[c]) \/ Filling(c, s)'
               /\ jumper'[c][s].isSet => s <= Len(filled[c]) /\ s < Rows[c]
    <3>1. /\ Pending(c, s) \/ ~jumper[c][s].inQueue => s <= Len(filled[c]) \/ Filling(c, s)
          /\ jumper[c][s].isSet => s <= Len(filled[c]) /\ s < Rows[c]
      BY DEF LInv, JumpersFit
    <3>2. c = b /\ s = r => s <= Len(filled[c]) /\ s < Rows[c]  BY <1>1, <1>2, <1>8
    <3>3. c = b /\ s = via => s <= Len(filled[c])  BY <2>1
    <3>4. jumper'[c][s].isSet => jumper[c][s].isSet \/ (c = b /\ s = r)  BY <1>4
    <3>5. ~jumper'[c][s].inQueue => ~jumper[c][s].inQueue \/ (c = b /\ s = via)  BY <1>4
    <3>6. (Pending(c, s)' <=> Pending(c, s)) /\ (Filling(c, s)' <=> Filling(c, s))  BY <1>9
    <3>. QED  BY <3>1, <3>2, <3>3, <3>4, <3>5, <3>6
  <2>3. ASSUME NEW c \in Bitmaps, NEW s \in 1..Rows[c], Handed(c, s)'
        PROVE  s = Len(filled[c]) /\ ~Waits(c)' /\ ~Reading(c)'
    <3>1. CASE c # b
      BY <1>9, <1>10, <2>3, <3>1 DEF LInv, JumpersFit
    <3>2. CASE c = b
      <4>1. s = r /\ jumper[b][r].inQueue  BY <1>2, <1>10, <2>3, <3>2
      <4>. QED  BY <1>2, <1>8, <1>9, <3>2, <4>1
    <3>. QED  BY <3>1, <3>2
  <2>. QED  BY <1>1, <2>2, <2>3 DEF JumpersFit
<1>17. TurnsFit'
  <2>1. \A c : NotStarted(c)' <=> NotStarted(c)  BY <1>1 DEF NotStarted
  <2>2. loader = b \/ life[b] = "closed"
    BY <1>2 DEF LInv, TurnsFit
  <2>3. \A c \in Bitmaps : NotStarted(c) => c # b /\ ~Waits(c)' /\ ~Reading(c)'
    BY <1>2, <1>9 DEF LInv, TurnsFit
  <2>4. \A c \in Bitmaps : Waits(c)' \/ Reading(c)' \/ (\E s \in 1..Rows[c] : Handed(c, s)')
          => loader = c \/ life[c] = "closed"
    BY <1>9, <1>10, <2>2 DEF LInv, TurnsFit
  <2>. QED  BY <1>1, <2>1, <2>3, <2>4 DEF LInv, TurnsFit
<1>18. DoneFits'
  BY <1>1, <1>2, <1>9 DEF LInv, DoneFits
<1>19. TilesFit'
  <2>1. \A v \in Workers : task'[v].at # "report" => task'[v].tiles = 0
    BY <1>3 DEF LInv, TilesFit
  <2>2. \A c \in Bitmaps, v \in Workers : Fetching(v, c)' => task'[v] = task[v] /\ Fetching(v, c)
    BY <1>3, <1>7
  <2>3. \A c \in Bitmaps : c # b => \A v \in Workers : Fetching(v, c)' <=> Fetching(v, c)
    BY <1>2, <1>7 DEF Fetching
  <2>4. \A c \in Bitmaps : c # b =>
          /\ \A v \in Workers : Fetching(v, c)' /\ task'[v].at = "report"
               => reported[c] = (Len(filled[c]) - 1) * Columns[c] + task'[v].tiles
          /\ (\A v \in Workers : ~(Fetching(v, c)' /\ task'[v].at = "report"))
               => reported[c] = Len(filled[c]) * Columns[c]
    BY <2>2, <2>3 DEF LInv, TilesFit
  <2>5. reported[b] = Len(filled[b]) * Columns[b]
    <3>1. (r - 1) * Columns[b] + Columns[b] = r * Columns[b]  BY <1>2
    <3>. QED  BY <1>8, <3>1
  <2>6. \A v \in Workers : ~Fetching(v, b)'  BY <1>2, <1>7
  <2>. QED  BY <1>1, <2>1, <2>4, <2>5, <2>6 DEF TilesFit
<1>20. OrderFits'
  <2>1. \A j \in DOMAIN normal : normal[j].bitmap \in Bitmaps /\ normal[j].row \in Nat
    BY <1>2, BitmapFacts, JobFacts
  <2>2. ASSUME NEW j \in DOMAIN normal, normal[j].kind = "reduce", normal[j].bitmap = b
        PROVE  normal[j].row >= r - 1 /\ (~jumper[b][r].inQueue => normal[j].row >= r)
    BY <1>b, <1>2, <2>2 DEF LInv, OrderFits
  <2>3. ASSUME NEW j \in DOMAIN normal, normal[j].kind = "reduce"
        PROVE  /\ \A i \in DOMAIN high' :
                    high'[i].bitmap = normal[j].bitmap => normal[j].row >= high'[i].row - 1
               /\ \A s \in 1..Rows[normal[j].bitmap] :
                    ~jumper'[normal[j].bitmap][s].inQueue => normal[j].row >= s
    <3>1. \A i \in DOMAIN high' :
             high'[i].bitmap = normal[j].bitmap => normal[j].row >= high'[i].row - 1
      <4>1. \A i \in DOMAIN high : high[i].bitmap = normal[j].bitmap => normal[j].row >= high[i].row - 1
        BY <2>3 DEF LInv, OrderFits
      <4>2. ASSUME NEW i \in DOMAIN high', high'[i].bitmap = normal[j].bitmap, i \notin DOMAIN high
            PROVE  normal[j].row >= high'[i].row - 1
        BY <1>2, <1>6, <2>1, <2>2, <2>3, <4>2
      <4>. QED  BY <1>6, <4>1, <4>2
    <3>2. \A s \in 1..Rows[normal[j].bitmap] :
             ~jumper'[normal[j].bitmap][s].inQueue => normal[j].row >= s
      BY <1>2, <1>4, <2>1, <2>2, <2>3 DEF LInv, OrderFits
    <3>. QED  BY <3>1, <3>2
  <2>4. ASSUME NEW j \in DOMAIN normal, normal[j].kind = "reduce"
        PROVE  /\ \A v \in Workers :
                    Fetching(v, normal[j].bitmap)' => normal[j].row >= task'[v].job.row - 1
               /\ \A i \in DOMAIN normal :
                    normal[i].kind = "jump" /\ normal[i].bitmap = normal[j].bitmap /\ i < j
                      => normal[j].row >= normal[i].row
               /\ \A v \in Workers :
                    task'[v].job.kind = "jump" /\ task'[v].job.bitmap = normal[j].bitmap
                      => normal[j].row >= task'[v].job.row
    BY <1>1, <1>3, <1>7, <2>4 DEF LInv, OrderFits
  <2>. QED  BY <1>1, <2>3, <2>4 DEF OrderFits
<1>21. LateFits'
  <2>1. \A v \in Workers : \A c, s : Jumping(v, c, s)' => Jumping(v, c, s)
    BY <1>3, JobIs DEF Jumping
  <2>2. \A v \in Workers : Jumping(v, b, r) => late[b] <= 1
    BY <1>b, <1>2 DEF LInv, LateFits
  <2>. QED  BY <1>1, <1>3, <1>4, <1>7, <2>1, <2>2 DEF LInv, LateFits
<1>. QED  BY <1>11, <1>12, <1>13, <1>14, <1>15, <1>16, <1>17, <1>18, <1>19, <1>20, <1>21 DEF LInv

LEMMA AllReadInv == ASSUME LInv, NEW w \in Workers, AllRead(w) PROVE LInv'
<1>b. PICK b, r, via : b = task[w].job.bitmap /\ r = task[w].job.row /\ via = task[w].via  OBVIOUS
<1>1. /\ task[w].at = "report" /\ SetTask(w, Idle) /\ task[w].tiles = Columns[b] /\ r = Rows[b]
      /\ done' = [done EXCEPT ![b] = done[b] + 1] /\ sem' = [sem EXCEPT ![b] = sem[b] + 1]
      /\ jumper' = IF via = 0 THEN jumper ELSE LeftQueue(jumper, b, via)
      /\ UNCHANGED <<life, deleted, waiting, loader, high, normal, filled, late, reported>>
  BY <1>b DEF AllRead, Leave, LeftQueue
<1>2. /\ LoadTypes /\ task[w] # Idle /\ task[w].job.kind = "fetch" /\ task[w].job \in Jobs
      /\ b \in Bitmaps /\ r \in 1..Rows[b] /\ r \in Nat \ {0}
      /\ Fetching(w, b) /\ (\A v \in Workers : Fetching(v, b) => v = w)
      /\ ~Waits(b) /\ Reading(b) /\ (\A s \in 1..Rows[b] : ~Handed(b, s))
      /\ ~NotStarted(b) /\ ~(done[b] > 0)
      /\ Columns[b] \in Nat \ {0} /\ Rows[b] \in Nat \ {0} /\ via \in {0, r - 1}
  <2>1. task[w].at \in {"fill", "report"}  BY <1>1
  <2>2. via \in {0, r - 1}  BY <1>b, <2>1, FetchTask
  <2>3. LoadTypes /\ b \in Bitmaps  BY <1>b, <2>1, FetchTask
  <2>4. Columns[b] \in Nat \ {0} /\ Rows[b] \in Nat \ {0}  BY <2>3, BitmapFacts
  <2>. QED  BY <1>b, <2>1, <2>2, <2>4, FetchTask
<1>3. /\ task'[w] = Idle /\ task'[w].job.kind = "none" /\ task'[w].at = "idle"
      /\ task'[w].tiles = 0 /\ task'[w].via = 0
      /\ \A v \in Workers \ {w} : task'[v] = task[v]
  BY <1>1, <1>2, TaskFacts, IdleFacts
<1>4. /\ jumper' = [c \in Bitmaps |-> jumper'[c]]
      /\ \A c \in Bitmaps :
           /\ jumper'[c] \in [1..Rows[c] -> [inQueue : BOOLEAN, isSet : BOOLEAN]]
           /\ \A s \in 1..Rows[c] :
                /\ jumper'[c][s].isSet = jumper[c][s].isSet
                /\ ~jumper'[c][s].inQueue => ~jumper[c][s].inQueue \/ (c = b /\ s = via)
  <2>1. CASE via = 0
    <3>1. jumper' = jumper  BY <1>1, <2>1
    <3>. QED  BY <1>2, <3>1, TypesNow
  <2>2. CASE via # 0
    <3>1. jumper' = LeftQueue(jumper, b, via) /\ via \in 1..Rows[b]  BY <1>1, <1>2, <2>2
    <3>2. Jumpers(jumper)  BY <1>2, TypesNow DEF Jumpers
    <3>3. Jumpers(jumper')  BY <1>2, <3>1, <3>2, LeftQueueFacts
    <3>4. \A c \in Bitmaps : \A s \in 1..Rows[c] :
            /\ LeftQueue(jumper, b, via)[c][s].isSet = jumper[c][s].isSet
            /\ ~LeftQueue(jumper, b, via)[c][s].inQueue
                 => ~jumper[c][s].inQueue \/ (c = b /\ s = via)
      BY <1>2, <3>1, <3>2, LeftQueueFacts
    <3>. QED  BY <3>1, <3>3, <3>4 DEF Jumpers
  <2>. QED  BY <2>1, <2>2
<1>5. /\ done[b] = 0 /\ done'[b] = 1 /\ done' \in [Bitmaps -> 0..1] /\ sem' \in [Bitmaps -> Nat]
      /\ \A c \in Bitmaps : c # b => done'[c] = done[c] /\ sem'[c] = sem[c]
  <2>1. done \in [Bitmaps -> 0..1] /\ sem \in [Bitmaps -> Nat]  BY <1>2, TypesNow
  <2>2. done[b] = 0  BY <1>2, <2>1
  <2>. QED  BY <1>1, <1>2, <2>1, <2>2
<1>6. \A v \in Workers : \A c : Fetching(v, c)' <=> v # w /\ Fetching(v, c)
  BY <1>3 DEF Fetching
<1>7. /\ Len(filled[b]) = r /\ reported[b] = (r - 1) * Columns[b] + Columns[b]
  <2>1. Len(filled[b]) = r  BY <1>b, <1>1, <1>2 DEF LInv, RowsFit
  <2>. QED  BY <1>1, <1>2, <2>1 DEF LInv, TilesFit
<1>8. \A c \in Bitmaps :
        /\ Waits(c)' <=> Waits(c)
        /\ Reading(c)' <=> Reading(c) /\ c # b
        /\ \A s \in 1..Rows[c] : /\ Pending(c, s)' <=> Pending(c, s)
                                 /\ Handed(c, s)' <=> Handed(c, s)
                                 /\ Filling(c, s)' <=> Filling(c, s)
  <2>1. \A c : Reading(c)' <=> Reading(c) /\ c # b
    <3>1. \A c : Fetching(w, c) => c = b  BY <1>2 DEF Fetching
    <3>2. \A v \in Workers : Fetching(v, b) => v = w  BY <1>2
    <3>. QED  BY <1>6, <3>1, <3>2 DEF Reading
  <2>2. \A c, s : Pending(c, s)' <=> Pending(c, s)
    <3>1. \A c, s : task[w].job # Jump(c, s) /\ task'[w].job # Jump(c, s)
      BY <1>2, <1>3, JobIs
    <3>. QED  BY <1>1, <1>3, <3>1 DEF Pending
  <2>3. \A c, s : Filling(c, s)' <=> Filling(c, s)
    BY <1>1, <1>3, <1>6 DEF Filling
  <2>. QED  BY <1>1, <1>4, <2>1, <2>2, <2>3 DEF Handed, Waits
<1>9. LoadTypes'
  <2>1. \A c \in Bitmaps : /\ jumper'[c] \in [1..Rows[c] -> [inQueue : BOOLEAN, isSet : BOOLEAN]]
                           /\ filled'[c] \in Seq(1..Rows[c])
                           /\ reported'[c] \in 0..(Rows[c] * Columns[c])
    BY <1>1, <1>2, <1>4, TypesNow
  <2>2. /\ filled' = [c \in Bitmaps |-> filled'[c]] /\ reported' = [c \in Bitmaps |-> reported'[c]]
        /\ high' \in Seq(Jobs) /\ normal' \in Seq(Jobs) /\ late' \in [Bitmaps -> Nat]
    BY <1>1, <1>2, TypesNow
  <2>3. SetTask(w, Idle) /\ Idle \in Tasks  BY <1>1, IdleFacts
  <2>. QED  BY <1>1, <1>2, <1>4, <1>5, <2>1, <2>2, <2>3, TypesKept
<1>10. JobsFit'
  BY <1>1, <1>3 DEF LInv, JobsFit
<1>11. OneFetch'
  BY <1>1, <1>6 DEF LInv, OneFetch
<1>12. OneJump'
  BY <1>1, <1>3 DEF LInv, OneJump
<1>13. RowsFit'
  BY <1>1, <1>3, <1>6 DEF LInv, RowsFit
<1>14. JumpersFit'
  <2>1. \A s \in 1..Rows[b] : s = via => s <= Len(filled[b])
    BY <1>2, <1>7
  <2>. QED  BY <1>1, <1>4, <1>8, <2>1 DEF LInv, JumpersFit
<1>15. TurnsFit'
  <2>1. \A c : NotStarted(c)' <=> NotStarted(c)  BY <1>1 DEF NotStarted
  <2>2. \A c \in Bitmaps : sem'[c] > 0 => done'[c] > 0 \/ life[c] = "closed"
    BY <1>5 DEF LInv, TurnsFit
  <2>3. \A c \in Bitmaps : NotStarted(c) => done'[c] = 0
    BY <1>2, <1>5 DEF LInv, TurnsFit
  <2>. QED  BY <1>1, <1>8, <2>1, <2>2, <2>3 DEF LInv, TurnsFit
<1>16. DoneFits'
  BY <1>1, <1>2, <1>5, <1>7, <1>8 DEF LInv, DoneFits
<1>17. TilesFit'
  <2>1. \A v \in Workers : task'[v].at # "report" => task'[v].tiles = 0
    BY <1>3 DEF LInv, TilesFit
  <2>2. \A c \in Bitmaps, v \in Workers : Fetching(v, c)' => task'[v] = task[v] /\ Fetching(v, c)
    BY <1>3, <1>6
  <2>3. \A c \in Bitmaps : c # b => \A v \in Workers : Fetching(v, c)' <=> Fetching(v, c)
    BY <1>2, <1>6 DEF Fetching
  <2>4. \A c \in Bitmaps : c # b =>
          /\ \A v \in Workers : Fetching(v, c)' /\ task'[v].at = "report"
               => reported[c] = (Len(filled[c]) - 1) * Columns[c] + task'[v].tiles
          /\ (\A v \in Workers : ~(Fetching(v, c)' /\ task'[v].at = "report"))
               => reported[c] = Len(filled[c]) * Columns[c]
    BY <2>2, <2>3 DEF LInv, TilesFit
  <2>5. reported[b] = Len(filled[b]) * Columns[b]
    <3>1. (r - 1) * Columns[b] + Columns[b] = r * Columns[b]  BY <1>2
    <3>. QED  BY <1>7, <3>1
  <2>6. \A v \in Workers : ~Fetching(v, b)'  BY <1>2, <1>6
  <2>. QED  BY <1>1, <2>1, <2>4, <2>5, <2>6 DEF TilesFit
<1>18. OrderFits'
  <2>1. \A j \in DOMAIN normal : normal[j].bitmap \in Bitmaps /\ normal[j].row \in Nat
    BY <1>2, BitmapFacts, JobFacts
  <2>2. \A j \in DOMAIN normal : normal[j].kind = "reduce" /\ normal[j].bitmap = b
          => normal[j].row >= r - 1
    BY <1>b, <1>2 DEF LInv, OrderFits
  <2>3. ASSUME NEW j \in DOMAIN normal, normal[j].kind = "reduce"
        PROVE  \A s \in 1..Rows[normal[j].bitmap] :
                 ~jumper'[normal[j].bitmap][s].inQueue => normal[j].row >= s
    BY <1>2, <1>4, <2>1, <2>2, <2>3 DEF LInv, OrderFits
  <2>. QED  BY <1>1, <1>3, <1>6, <2>3 DEF LInv, OrderFits
<1>19. LateFits'
  <2>1. \A v \in Workers : \A c, s : Jumping(v, c, s)' => Jumping(v, c, s)
    BY <1>3, JobIs DEF Jumping
  <2>. QED  BY <1>1, <1>3, <1>4, <1>6, <2>1 DEF LInv, LateFits
<1>. QED  BY <1>9, <1>10, <1>11, <1>12, <1>13, <1>14, <1>15, <1>16, <1>17, <1>18, <1>19 DEF LInv

-----------------------------------------------------------------------------
(* The invariant, and what it says of sources.                             *)

LEMMA NextInv == ASSUME LInv, [Next]_vars PROVE LInv'
<1>1. ASSUME NEW b \in Bitmaps, SetSource(b) PROVE LInv'  BY <1>1, SetSourceInv
<1>2. ASSUME NEW b \in Bitmaps, Close(b) PROVE LInv'      BY <1>2, CloseInv
<1>3. CASE StartLoading  BY <1>3, StartLoadingInv
<1>4. CASE P             BY <1>4, PInv
<1>5. ASSUME NEW w \in Workers, Worker(w) PROVE LInv'
  <2>1. CASE Take(w)            BY <2>1, TakeInv
  <2>2. CASE Begin(w)           BY <2>2, BeginInv
  <2>3. CASE RunJumper(w)       BY <2>3, RunJumperInv
  <2>4. CASE RunReduce(w)       BY <2>4, RunReduceInv
  <2>5. CASE StartFetch(w)      BY <2>5, StartFetchInv
  <2>6. CASE FillTiles(w)       BY <2>6, FillTilesInv
  <2>7. CASE ReportFinished(w)  BY <2>7, ReportFinishedInv
  <2>8. CASE Successor(w)       BY <2>8, SuccessorInv
  <2>9. CASE AllRead(w)         BY <2>9, AllReadInv
  <2>. QED  BY <1>5, <2>1, <2>2, <2>3, <2>4, <2>5, <2>6, <2>7, <2>8, <2>9 DEF Worker
<1>6. CASE UNCHANGED vars
  <2>1. UNCHANGED <<life, waiting, loader, sem, deleted, high, normal, task, jumper, filled,
                    reported, done, late>>
    BY <1>6 DEF vars
  <2>2. \A v \in Workers : \A c : Fetching(v, c)' <=> Fetching(v, c)
    BY <2>1 DEF Fetching
  <2>3. \A v \in Workers : \A c, s : Jumping(v, c, s)' <=> Jumping(v, c, s)
    BY <2>1 DEF Jumping
  <2>4. \A c : /\ Waits(c)' <=> Waits(c)
               /\ Reading(c)' <=> Reading(c)
               /\ NotStarted(c)' <=> NotStarted(c)
               /\ \A s : /\ Pending(c, s)' <=> Pending(c, s)
                         /\ Handed(c, s)' <=> Handed(c, s)
                         /\ Filling(c, s)' <=> Filling(c, s)
    BY <2>1, <2>2 DEF Waits, Reading, NotStarted, Pending, Handed, Filling
  <2>5. LoadTypes'   BY <2>1 DEF LInv, LoadTypes, TypeOK
  <2>6. JobsFit'     BY <2>1 DEF LInv, JobsFit
  <2>7. OneFetch'    BY <2>1, <2>2 DEF LInv, OneFetch
  <2>8. OneJump'     BY <2>1 DEF LInv, OneJump
  <2>9. RowsFit'     BY <2>1, <2>2 DEF LInv, RowsFit
  <2>10. JumpersFit' BY <2>1, <2>4 DEF LInv, JumpersFit
  <2>11. TurnsFit'   BY <2>1, <2>4 DEF LInv, TurnsFit
  <2>12. DoneFits'   BY <2>1, <2>4 DEF LInv, DoneFits
  <2>13. TilesFit'   BY <2>1, <2>2 DEF LInv, TilesFit
  <2>14. OrderFits'  BY <2>1, <2>2 DEF LInv, OrderFits
  <2>15. LateFits'   BY <2>1, <2>2, <2>3 DEF LInv, LateFits
  <2>. QED  BY <2>5, <2>6, <2>7, <2>8, <2>9, <2>10, <2>11, <2>12, <2>13, <2>14, <2>15 DEF LInv
<1>. QED  BY <1>1, <1>2, <1>3, <1>4, <1>5, <1>6 DEF Next, User, SequentialThread

LEMMA InOrder == ASSUME LInv PROVE LoadingInOrder
<1>1. TypeOK  BY DEF LInv, LoadTypes
<1>2. RowsInOrder
  <2>1. ASSUME NEW b \in Bitmaps
        PROVE  /\ filled[b] = [i \in 1..Len(filled[b]) |-> i]
               /\ \A v, w \in Workers : Fetching(v, b) /\ Fetching(w, b) => v = w
    BY DEF LInv, RowsFit, OneFetch
  <2>2. ASSUME NEW b \in Bitmaps, done[b] > 0
        PROVE  /\ Len(filled[b]) = Rows[b]
               /\ reported[b] = Rows[b] * Columns[b]
               /\ \A w \in Workers : ~Fetching(w, b)
    <3>1. Len(filled[b]) = Rows[b] /\ \A w \in Workers : ~Fetching(w, b)
      BY <2>2 DEF LInv, DoneFits, Reading
    <3>2. reported[b] = Len(filled[b]) * Columns[b]
      BY <3>1 DEF LInv, TilesFit
    <3>. QED  BY <3>1, <3>2
  <2>. QED  BY <2>1, <2>2 DEF RowsInOrder
<1>3. TwoBatches
  <2>1. ASSUME NEW w \in Workers, NEW i \in DOMAIN normal, task[w].at = "fill",
               normal[i].kind = "reduce", normal[i].bitmap = task[w].job.bitmap
        PROVE  normal[i].row >= task[w].job.row - 1
    <3>1. Fetching(w, normal[i].bitmap)  BY <2>1, FetchTask
    <3>. QED  BY <2>1, <3>1 DEF LInv, OrderFits
  <2>. QED  BY <2>1 DEF TwoBatches
<1>. QED  BY <1>1, <1>2, <1>3 DEF LoadingInOrder

\* Wherever the DataFetcher and the QueueJumpers of a bitmap are, on a queue or with
\* a worker, they agree on the row that is next (DataFetcher::operator(), layer.cc;
\* QueueJumper, threadpoolimpl.cc).
THEOREM InvariantHolds == Spec => []LInv
<1>1. Init => LInv                 BY InitInv
<1>2. LInv /\ [Next]_vars => LInv'  BY NextInv
<1>. QED  BY <1>1, <1>2, PTL DEF Spec

\* The rows of a source are read once each, in order, by one worker at a time, and
\* a row is read only when the reductions of the rows before the previous one have
\* started, however many workers there are and in whichever order they take the
\* jobs (DataFetcher::operator(), layer.cc; the QueueJumper that it leaves the next
\* row to, threadpoolimpl.cc).
THEOREM RowsComeInOrder == Spec => []LoadingInOrder
<1>1. LInv => LoadingInOrder  BY InOrder
<1>. QED  BY <1>1, InvariantHolds, PTL

-----------------------------------------------------------------------------
(* Loading implements what setSource() promises.                           *)

\* The state of a bitmap, as a user of the bitmap sees it.
StatusOf(b) == IF life[b] # "open" THEN life[b]
               ELSE IF done[b] > 0 THEN "loaded"
               ELSE IF loader = b THEN "loading"
               ELSE "waiting"

\* What the contract's variables stand for.
Status  == [b \in Bitmaps |-> StatusOf(b)]
RowsOf  == [b \in Bitmaps |-> Len(filled[b])]

LEMMA ContractIs ==
    /\ Contract!Init <=> /\ Status = [b \in Bitmaps |-> "new"]
                         /\ waiting = <<>>
                         /\ RowsOf = [b \in Bitmaps |-> 0]
                         /\ late = [b \in Bitmaps |-> 0]
    /\ UNCHANGED Contract!vars <=> UNCHANGED <<Status, waiting, RowsOf, late>>
    /\ \A b : Contract!SetSource(b) <=>
         /\ Status[b] = "new"
         /\ Status' = [Status EXCEPT ![b] = "waiting"]
         /\ waiting' = Append(waiting, b)
         /\ UNCHANGED <<RowsOf, late>>
    /\ Contract!NextInLine <=>
         /\ waiting # <<>>
         /\ \A b \in Bitmaps : Status[b] # "loading"
         /\ waiting' = Tail(waiting)
         /\ IF Status[Head(waiting)] = "closed"
            THEN Status' = Status
            ELSE Status' = [Status EXCEPT ![Head(waiting)] = "loading"]
         /\ UNCHANGED <<RowsOf, late>>
    /\ \A b : Contract!Read(b) <=>
         /\ RowsOf[b] < Rows[b]
         /\ \/ Status[b] = "loading" /\ late' = late
            \/ /\ Status[b] = "closed" /\ late[b] < 2
               /\ late' = [late EXCEPT ![b] = @ + 1]
         /\ RowsOf' = [RowsOf EXCEPT ![b] = @ + 1]
         /\ UNCHANGED <<Status, waiting>>
    /\ \A b : Contract!Finish(b) <=>
         /\ Status[b] = "loading"
         /\ RowsOf[b] = Rows[b]
         /\ Status' = [Status EXCEPT ![b] = "loaded"]
         /\ UNCHANGED <<waiting, RowsOf, late>>
    /\ \A b : Contract!Close(b) <=>
         /\ Status[b] \notin {"new", "closed"}
         /\ Status' = [Status EXCEPT ![b] = "closed"]
         /\ UNCHANGED <<waiting, RowsOf, late>>
BY DEF Contract!Init, Contract!vars, Contract!SetSource, Contract!NextInLine, Contract!Read,
       Contract!Finish, Contract!Close, Contract!SetStatus, Status, StatusOf, RowsOf

\* The functions, by their values.
LEMMA StatusIs ==
    /\ \A b \in Bitmaps : Status[b] = StatusOf(b) /\ RowsOf[b] = Len(filled[b])
    /\ \A b \in Bitmaps : Status'[b] = StatusOf(b)' /\ RowsOf'[b] = Len(filled'[b])
    /\ (\A b \in Bitmaps : StatusOf(b)' = StatusOf(b)) => UNCHANGED Status
    /\ (\A b \in Bitmaps : Len(filled'[b]) = Len(filled[b])) => UNCHANGED RowsOf
    /\ \A b \in Bitmaps : \A s :
         StatusOf(b)' = s /\ (\A c \in Bitmaps : c # b => StatusOf(c)' = StatusOf(c))
           => Status' = [Status EXCEPT ![b] = s]
    /\ \A b \in Bitmaps :
         Len(filled'[b]) = Len(filled[b]) + 1
           /\ (\A c \in Bitmaps : c # b => Len(filled'[c]) = Len(filled[c]))
           => RowsOf' = [RowsOf EXCEPT ![b] = @ + 1]
BY DEF Status, RowsOf

\* A step that changes nothing of what the contract is about.
LEMMA Stutters ==
    ASSUME UNCHANGED <<waiting, late>>,
           \A c \in Bitmaps : StatusOf(c)' = StatusOf(c) /\ Len(filled'[c]) = Len(filled[c])
    PROVE  UNCHANGED Contract!vars
BY StatusIs, ContractIs

LEMMA InitContract == Init => Contract!Init
<1>. SUFFICES ASSUME Init PROVE Contract!Init  OBVIOUS
<1>1. \A b \in Bitmaps : StatusOf(b) = "new" /\ Len(filled[b]) = 0
  BY DEF Init, StatusOf
<1>2. Status = [b \in Bitmaps |-> "new"] /\ RowsOf = [b \in Bitmaps |-> 0]
  BY <1>1 DEF Status, RowsOf
<1>. QED  BY <1>2, ContractIs DEF Init

LEMMA SetSourceContract == ASSUME LInv, NEW b \in Bitmaps, SetSource(b) PROVE Contract!SetSource(b)
<1>1. /\ life[b] = "new" /\ life' = [life EXCEPT ![b] = "open"]
      /\ waiting' = Append(waiting, b) /\ UNCHANGED <<loader, filled, done, late>>
  BY DEF SetSource, sourceVars
<1>2. life \in [Bitmaps -> {"new", "open", "closed"}] /\ done[b] = 0 /\ loader # b
  BY <1>1 DEF LInv, LoadTypes, TypeOK, TurnsFit, NotStarted
<1>3. StatusOf(b) = "new" /\ StatusOf(b)' = "waiting"
  BY <1>1, <1>2 DEF StatusOf
<1>4. \A c \in Bitmaps : c # b => StatusOf(c)' = StatusOf(c)
  BY <1>1, <1>2 DEF StatusOf
<1>5. Status[b] = "new" /\ Status' = [Status EXCEPT ![b] = "waiting"] /\ UNCHANGED RowsOf
  BY <1>1, <1>3, <1>4, StatusIs
<1>. QED  BY <1>1, <1>5, ContractIs

LEMMA CloseContract == ASSUME LInv, NEW b \in Bitmaps, Close(b) PROVE Contract!Close(b)
<1>1. /\ life[b] = "open" /\ life' = [life EXCEPT ![b] = "closed"]
      /\ UNCHANGED <<waiting, loader, filled, done, late>>
  BY DEF Close, sourceVars
<1>2. life \in [Bitmaps -> {"new", "open", "closed"}]
  BY DEF LInv, LoadTypes, TypeOK
<1>3. StatusOf(b) \notin {"new", "closed"} /\ StatusOf(b)' = "closed"
  BY <1>1, <1>2 DEF StatusOf
<1>4. \A c \in Bitmaps : c # b => StatusOf(c)' = StatusOf(c)
  BY <1>1, <1>2 DEF StatusOf
<1>5. /\ Status[b] \notin {"new", "closed"}
      /\ Status' = [Status EXCEPT ![b] = "closed"] /\ UNCHANGED RowsOf
  BY <1>1, <1>3, <1>4, StatusIs
<1>. QED  BY <1>1, <1>5, ContractIs

LEMMA StartLoadingContract == ASSUME LInv, StartLoading PROVE Contract!NextInLine
<1>b. PICK b : b = Head(waiting)  OBVIOUS
<1>1. /\ loader = None /\ waiting # <<>> /\ loader' = b /\ waiting' = Tail(waiting)
      /\ UNCHANGED <<life, filled, done, late>>
  BY <1>b DEF StartLoading, sourceVars, bitmapVars
<1>2. waiting \in Seq(Bitmaps) /\ life \in [Bitmaps -> {"new", "open", "closed"}]
  BY DEF LInv, LoadTypes, TypeOK
<1>3. b \in Bitmaps /\ 1 \in DOMAIN waiting /\ waiting[1] = b
  BY <1>b, <1>1, <1>2
<1>4. life[b] # "new" /\ done[b] = 0
  BY <1>3 DEF LInv, TurnsFit, NotStarted
<1>5. \A c \in Bitmaps : StatusOf(c) # "loading"
  BY <1>1, <1>2, NoneAssumption DEF StatusOf
<1>6. \A c \in Bitmaps : c # b => StatusOf(c)' = StatusOf(c)
  BY <1>1, NoneAssumption DEF StatusOf
<1>7. \A c \in Bitmaps : Status[c] # "loading"
  BY <1>5, StatusIs
<1>8. IF Status[b] = "closed" THEN Status' = Status ELSE Status' = [Status EXCEPT ![b] = "loading"]
  <2>1. CASE life[b] = "closed"
    <3>1. StatusOf(b) = "closed" /\ StatusOf(b)' = "closed"  BY <1>1, <2>1 DEF StatusOf
    <3>. QED  BY <1>3, <1>6, <3>1, StatusIs
  <2>2. CASE life[b] = "open"
    <3>1. StatusOf(b) # "closed" /\ StatusOf(b)' = "loading"  BY <1>1, <1>4, <2>2 DEF StatusOf
    <3>. QED  BY <1>3, <1>6, <3>1, StatusIs
  <2>. QED  BY <1>2, <1>3, <1>4, <2>1, <2>2
<1>9. UNCHANGED RowsOf  BY <1>1, StatusIs
<1>. QED  BY <1>b, <1>1, <1>7, <1>8, <1>9, ContractIs

\* Waiting ends when the bitmap was loaded or closed.
LEMMA PContract == ASSUME LInv, P PROVE UNCHANGED Contract!vars
<1>1. /\ loader # None /\ sem[loader] > 0 /\ loader' = None
      /\ UNCHANGED <<life, waiting, filled, done, late>>
  BY DEF P, sourceVars
<1>2. loader \in Bitmaps  BY <1>1 DEF LInv, LoadTypes, TypeOK
<1>3. done[loader] > 0 \/ life[loader] = "closed"
  BY <1>1, <1>2 DEF LInv, TurnsFit
<1>4. \A c \in Bitmaps : StatusOf(c)' = StatusOf(c)
  BY <1>1, <1>3, NoneAssumption DEF StatusOf
<1>. QED  BY <1>1, <1>4, Stutters

\* What the contract says of a bitmap that is being read.
LEMMA ReadingStatus ==
    ASSUME LInv, NEW b \in Bitmaps, Reading(b)
    PROVE  StatusOf(b) = IF life[b] = "closed" THEN "closed" ELSE "loading"
<1>1. life \in [Bitmaps -> {"new", "open", "closed"}] /\ done \in [Bitmaps -> 0..1]
  BY DEF LInv, LoadTypes, TypeOK
<1>2. ~(done[b] > 0) /\ life[b] # "new" /\ (loader = b \/ life[b] = "closed")
  BY DEF LInv, DoneFits, TurnsFit, NotStarted
<1>. QED  BY <1>1, <1>2 DEF StatusOf

LEMMA FillTilesContract ==
    ASSUME LInv, NEW w \in Workers, FillTiles(w) PROVE \E b \in Bitmaps : Contract!Read(b)
<1>b. PICK b, r : b = task[w].job.bitmap /\ r = task[w].job.row  OBVIOUS
<1>1. /\ task[w].at = "fill" /\ filled' = [filled EXCEPT ![b] = Append(filled[b], r)]
      /\ late' = IF life[b] = "closed" THEN [late EXCEPT ![b] = @ + 1] ELSE late
      /\ UNCHANGED <<life, waiting, loader, done>>
  BY <1>b DEF FillTiles, bitmapVars
<1>2. /\ LoadTypes /\ b \in Bitmaps /\ r \in 1..Rows[b] /\ r \in Nat \ {0}
      /\ Fetching(w, b) /\ Reading(b)
  BY <1>b, <1>1, FetchTask
<1>3. /\ Len(filled[b]) = r - 1 /\ filled[b] \in Seq(1..Rows[b]) /\ DOMAIN filled = Bitmaps
      /\ Rows[b] \in Nat
  BY <1>b, <1>1, <1>2, BitmapFacts DEF LInv, RowsFit
<1>4. /\ Len(filled'[b]) = Len(filled[b]) + 1
      /\ \A c \in Bitmaps : c # b => Len(filled'[c]) = Len(filled[c])
  BY <1>1, <1>2, <1>3
<1>5. \A c \in Bitmaps : StatusOf(c)' = StatusOf(c)
  BY <1>1 DEF StatusOf
<1>6. late[b] < 2 /\ late[b] \in Nat
  BY <1>1, <1>2, TypesNow DEF LInv, LateFits
<1>7. /\ RowsOf[b] < Rows[b] /\ RowsOf' = [RowsOf EXCEPT ![b] = @ + 1]
      /\ UNCHANGED Status
  <2>1. RowsOf[b] = r - 1  BY <1>2, <1>3, StatusIs
  <2>2. RowsOf[b] < Rows[b]  BY <1>2, <1>3, <2>1
  <2>. QED  BY <1>2, <1>4, <1>5, <2>2, StatusIs
<1>8. \/ Status[b] = "loading" /\ late' = late
      \/ Status[b] = "closed" /\ late[b] < 2 /\ late' = [late EXCEPT ![b] = @ + 1]
  BY <1>1, <1>2, <1>6, ReadingStatus, StatusIs
<1>9. Contract!Read(b)  BY <1>1, <1>7, <1>8, ContractIs
<1>. QED  BY <1>2, <1>9

LEMMA AllReadContract ==
    ASSUME LInv, NEW w \in Workers, AllRead(w)
    PROVE  (\E b \in Bitmaps : Contract!Finish(b)) \/ UNCHANGED Contract!vars
<1>b. PICK b, r : b = task[w].job.bitmap /\ r = task[w].job.row  OBVIOUS
<1>1. /\ task[w].at = "report" /\ r = Rows[b] /\ done' = [done EXCEPT ![b] = done[b] + 1]
      /\ UNCHANGED <<life, waiting, loader, filled, late>>
  BY <1>b DEF AllRead
<1>2. LoadTypes /\ b \in Bitmaps /\ Fetching(w, b) /\ Reading(b) /\ ~(done[b] > 0)
  BY <1>b, <1>1, FetchTask
<1>3. /\ done \in [Bitmaps -> 0..1] /\ life \in [Bitmaps -> {"new", "open", "closed"}]
      /\ Len(filled[b]) = Rows[b]
  BY <1>b, <1>1, <1>2, TypesNow DEF LInv, RowsFit, LoadTypes, TypeOK
<1>4. done'[b] = 1 /\ \A c \in Bitmaps : c # b => done'[c] = done[c]
  BY <1>1, <1>2, <1>3
<1>5. \A c \in Bitmaps : c # b => StatusOf(c)' = StatusOf(c)
  BY <1>1, <1>4 DEF StatusOf
<1>6. UNCHANGED RowsOf /\ RowsOf[b] = Rows[b]
  BY <1>1, <1>2, <1>3, StatusIs
<1>7. CASE life[b] = "closed"
  <2>1. StatusOf(b)' = StatusOf(b)  BY <1>1, <1>7 DEF StatusOf
  <2>2. \A c \in Bitmaps : StatusOf(c)' = StatusOf(c)  BY <1>5, <2>1
  <2>. QED  BY <1>1, <2>2, Stutters
<1>8. CASE life[b] # "closed"
  <2>1. StatusOf(b) = "loading"  BY <1>2, <1>8, ReadingStatus
  <2>2. life[b] = "open"
    BY <1>2, <1>3, <1>8 DEF LInv, TurnsFit, NotStarted
  <2>3. StatusOf(b)' = "loaded"  BY <1>1, <1>4, <2>2 DEF StatusOf
  <2>4. Status[b] = "loading" /\ Status' = [Status EXCEPT ![b] = "loaded"]
    BY <1>2, <1>5, <2>1, <2>3, StatusIs
  <2>5. Contract!Finish(b)  BY <1>1, <1>6, <2>4, ContractIs
  <2>. QED  BY <1>2, <2>5
<1>. QED  BY <1>7, <1>8

LEMMA NextContract == ASSUME LInv, [Next]_vars PROVE [Contract!Next]_(Contract!vars)
<1>1. ASSUME NEW b \in Bitmaps, SetSource(b) \/ Close(b) PROVE Contract!Next
  BY <1>1, SetSourceContract, CloseContract DEF Contract!Next
<1>2. CASE StartLoading  BY <1>2, StartLoadingContract DEF Contract!Next
<1>3. CASE P             BY <1>3, PContract
<1>4. ASSUME NEW w \in Workers, Worker(w) PROVE Contract!Next \/ UNCHANGED Contract!vars
  <2>1. CASE FillTiles(w)  BY <2>1, FillTilesContract DEF Contract!Next
  <2>2. CASE AllRead(w)    BY <2>2, AllReadContract DEF Contract!Next
  <2>3. CASE \/ Take(w) \/ Begin(w) \/ RunJumper(w) \/ RunReduce(w) \/ StartFetch(w)
             \/ ReportFinished(w) \/ Successor(w)
    <3>1. UNCHANGED <<life, waiting, loader, filled, done, late>>
      BY <2>3 DEF Take, Begin, RunJumper, RunReduce, StartFetch, ReportFinished, Successor,
                  bitmapVars, sourceVars
    <3>2. \A c \in Bitmaps : StatusOf(c)' = StatusOf(c)  BY <3>1 DEF StatusOf
    <3>. QED  BY <3>1, <3>2, Stutters
  <2>. QED  BY <1>4, <2>1, <2>2, <2>3 DEF Worker
<1>5. CASE UNCHANGED vars
  <2>1. UNCHANGED <<life, waiting, loader, filled, done, late>>  BY <1>5 DEF vars
  <2>2. \A c \in Bitmaps : StatusOf(c)' = StatusOf(c)  BY <2>1 DEF StatusOf
  <2>. QED  BY <2>1, <2>2, Stutters
<1>. QED  BY <1>1, <1>2, <1>3, <1>4, <1>5 DEF Next, User, SequentialThread

\* Loading implements LoadContract: of the bitmaps that are opened one is loaded at a
\* time, in the order of setSource(), its rows in order, until all are there or it
\* is closed, after which at most two rows more are read (TiledBitmap::setSource()
\* and ~TiledBitmap(), tiled-bitmap.cc; Sequentially(), Semaphore).
THEOREM LoadingIsAsPromised == Spec => ImplementsContract
<1>1. Init => Contract!Init  BY InitContract
<1>2. LInv /\ [Next]_vars => [Contract!Next]_(Contract!vars)  BY NextContract
<1>. QED  BY <1>1, <1>2, InvariantHolds, PTL DEF Spec, ImplementsContract, Contract!Spec

-----------------------------------------------------------------------------
(***************************************************************************)
(* Reduction: each layer is made from the one below it once and            *)
(* completely. The invariant RInv follows a source tile from the layer     *)
(* below through its worker to the count of the coordinator, and a         *)
(* finished tile to the coordinator above it and to the bitmap.            *)
(***************************************************************************)

\* A worker has a source tile, and one in Before has not reduced it yet.
Reads(w)  == reducing[w].at \in
                {"initialize", "check", "get", "assign", "reduce", "count", "reporting"}
Before(w) == reducing[w].at \in {"initialize", "check", "get", "assign", "reduce"}

\* Each reduction is done by one worker, and one worker fills tiles.
OneEach ==
    \A v, w \in Reducers :
        /\ Reads(v) /\ Reads(w) /\ reducing[v].tile = reducing[w].tile => v = w
        /\ At(v, "filled") /\ At(w, "filled") => v = w

\* What is true of the tile that a worker has.
WorkFits ==
    \A w \in Reducers :
        /\ Reads(w) =>
             /\ Parent[reducing[w].tile] # NoTile
             /\ reports[reducing[w].tile] = 1
             /\ reducing[w].tile \notin reductions
             /\ Before(w) <=> reducing[w].tile \notin reduced[Into(w)]
             /\ At(w, "initialize") \/ Into(w) \in initialized
        /\ At(w, "reporting") => reports[Into(w)] = 1 /\ mut[Into(w)] = w
        /\ At(w, "filled") => reducing[w].tile \in Bottom /\ reports[reducing[w].tile] = 1

\* A coordinator that is about to be told of a tile has not been told before.
TellFits ==
    \A w \in Reducers :
        /\ tell[w] # {} => At(w, "filled") \/ At(w, "reporting")
        /\ \A p \in Targets \cap tell[w] :
             /\ p = Parent[Reported(w)]
             /\ Reported(w) \notin reductions
             /\ Reported(w) \notin reduced[p]
             /\ \A v \in Reducers : Reads(v) => reducing[v].tile # Reported(w)

\* What waits for its reduction has not been reduced.
WaitingFits ==
    \A t \in reductions : reports[t] = 1 /\ t \notin reduced[Parent[t]]

\* What has been reduced.
ReducedFits ==
    \A p \in Targets :
        /\ reduced[p] \subseteq Sources(p)
        /\ \A t \in reduced[p] : reports[t] = 1
        /\ p \notin initialized => reduced[p] = {}

\* The sources that a coordinator has not counted.
Uncounted(p) == {t \in Sources(p) :
    t \notin reduced[p] \/ \E w \in Reducers : At(w, "count") /\ reducing[w].tile = t}

CountFits ==
    \A p \in Targets :
        /\ unfinished[p] = Cardinality(Uncounted(p))
        /\ reports[p] = 1 => unfinished[p] = 0

\* The sources for which targetTileData is not needed or was assigned.
Past(p) == {t \in Sources(p) :
    t \in reduced[p] \/ \E w \in Reducers : At(w, "reduce") /\ reducing[w].tile = t}

TargetFits ==
    \A p \in Targets :
        /\ target[p] => Past(p) # {}
        /\ target[p] /\ reports[p] = 1 => \E w \in Reducers : At(w, "reporting") /\ Into(w) = p
        /\ leaked[p] = 0 \/ leaked[p] < Cardinality(Past(p))

\* The tiles of which the bitmap is told, and is about to be told.
AllReported == {t \in Tiles : reports[t] = 1}
ToCount == {t \in Tiles : \E w \in Reducers : TheBitmap \in tell[w] /\ Reported(w) = t}

BitmapFits ==
    /\ finishedCount + Cardinality(ToCount) <= Cardinality(AllReported)
    /\ tooMany = 0
    /\ finished = (IF finishedCount = Cardinality(Tiles) /\ finishedCount > 0 THEN 1 ELSE 0)

RInv == /\ ReductionTypeOK /\ OneEach /\ WorkFits /\ TellFits /\ WaitingFits /\ ReducedFits
        /\ CountFits /\ TargetFits /\ BitmapFits

-----------------------------------------------------------------------------
(* Tiles, and the tile that a worker has.                                  *)

LEMMA TilesFinite == ASSUME NEW S, S \subseteq Tiles
                     PROVE  /\ IsFiniteSet(S) /\ Cardinality(S) \in Nat
                            /\ Cardinality(S) <= Cardinality(Tiles)
                            /\ Cardinality(S) = Cardinality(Tiles) => S = Tiles
                            /\ Cardinality(S) = 0 <=> S = {}
BY TilesAssumption, FS_Subset, FS_CardinalityType, FS_EmptySet

LEMMA TileIn == ASSUME NEW S, S \subseteq Tiles, NEW t \in Tiles, t \notin S
                PROVE  Cardinality(S \cup {t}) = Cardinality(S) + 1
BY TilesFinite, FS_AddElement

LEMMA TileOut == ASSUME NEW S, S \subseteq Tiles, NEW t \in S
                 PROVE  /\ Cardinality(S \ {t}) = Cardinality(S) - 1
                        /\ Cardinality(S) \in Nat \ {0}
<1>1. IsFiniteSet(S)  BY TilesFinite
<1>2. Cardinality(S \ {t}) = Cardinality(S) - 1  BY <1>1, FS_RemoveElement
<1>3. Cardinality(S \ {t}) \in Nat /\ Cardinality(S) \in Nat  BY TilesFinite
<1>. QED  BY <1>2, <1>3

\* Bottom tiles and targets.
LEMMA TileKinds ==
    /\ Bottom \subseteq Tiles /\ Targets \subseteq Tiles /\ Bottom \cap Targets = {}
    /\ TheBitmap \notin Targets /\ NoTile \notin Targets
    /\ \A t \in Tiles : Parent[t] # NoTile => Parent[t] \in Targets /\ t \in Sources(Parent[t])
    /\ \A p : Sources(p) \subseteq Tiles /\ \A t \in Sources(p) : Parent[t] = p
    /\ \A p \in Targets : Sources(p) # {}
BY NoTileAssumption, ParentAssumption DEF Bottom, Targets, Sources

LEMMA RecordFacts ==
    ASSUME ReductionTypeOK, NEW w \in Reducers
    PROVE  /\ reducing[w] = ReducerIdle <=> reducing[w].at = "idle"
           /\ reducing[w] # ReducerIdle =>
                /\ reducing[w].tile \in Tiles /\ reducing[w].at \in Places
                /\ reducing[w].old \in BOOLEAN
           /\ Reads(w) => reducing[w].tile \in Tiles
BY DEF ReductionTypeOK, ReducerIdle, Places, Reads

\* A worker goes to another place.
LEMMA GotoFacts ==
    ASSUME ReductionTypeOK, NEW w \in Reducers, NEW a \in Places, reducing[w] # ReducerIdle,
           reducing' = [reducing EXCEPT ![w].at = a]
    PROVE  /\ reducing'[w].tile = reducing[w].tile /\ reducing'[w].at = a
           /\ \A v \in Reducers \ {w} : reducing'[v] = reducing[v]
           /\ reducing' \in [Reducers -> {ReducerIdle} \cup [tile : Tiles, at : Places, old : BOOLEAN]]
<1>1. reducing[w] \in [tile : Tiles, at : Places, old : BOOLEAN]  BY DEF ReductionTypeOK
<1>2. [reducing[w] EXCEPT !.at = a] \in [tile : Tiles, at : Places, old : BOOLEAN]  BY <1>1
<1>. QED  BY <1>1, <1>2 DEF ReductionTypeOK

LEMMA IdleReducer ==
    ASSUME ReductionTypeOK, NEW w \in Reducers,
           reducing' = [reducing EXCEPT ![w] = ReducerIdle]
    PROVE  /\ reducing'[w] = ReducerIdle /\ reducing'[w].at = "idle"
           /\ \A v \in Reducers \ {w} : reducing'[v] = reducing[v]
           /\ reducing' \in [Reducers -> {ReducerIdle} \cup [tile : Tiles, at : Places, old : BOOLEAN]]
BY DEF ReductionTypeOK, ReducerIdle

LEMMA BusyFacts ==
    ASSUME ReductionTypeOK, NEW w \in Reducers, NEW t \in Tiles, NEW a \in Places,
           reducing' = [reducing EXCEPT ![w] = [ReducerIdle EXCEPT !.tile = t, !.at = a]]
    PROVE  /\ reducing'[w].tile = t /\ reducing'[w].at = a
           /\ \A v \in Reducers \ {w} : reducing'[v] = reducing[v]
           /\ reducing' \in [Reducers -> {ReducerIdle} \cup [tile : Tiles, at : Places, old : BOOLEAN]]
BY DEF ReductionTypeOK, ReducerIdle

\* Two workers do not report the same tile.
LEMMA ReportedOnce ==
    ASSUME RInv, NEW v \in Reducers, NEW w \in Reducers, v # w,
           At(v, "filled") \/ At(v, "reporting"), At(w, "filled") \/ At(w, "reporting")
    PROVE  Reported(v) # Reported(w)
<1>1. CASE At(v, "filled") /\ At(w, "filled")
  BY <1>1 DEF RInv, OneEach
<1>2. CASE At(v, "reporting") /\ At(w, "reporting")
  BY <1>2 DEF RInv, WorkFits, Reported, At
<1>3. ASSUME NEW x \in Reducers, At(x, "filled") PROVE Reported(x) \in Bottom
  BY <1>3 DEF RInv, WorkFits, Reported, At
<1>4. ASSUME NEW x \in Reducers, At(x, "reporting") PROVE Reported(x) \in Targets
  <2>1. Reads(x)  BY <1>4 DEF Reads, At
  <2>2. reducing[x].tile \in Tiles /\ Parent[reducing[x].tile] # NoTile
    BY <2>1, RecordFacts DEF RInv, WorkFits
  <2>. QED  BY <1>4, <2>2, TileKinds DEF Reported, Into
<1>. QED  BY <1>1, <1>2, <1>3, <1>4, TileKinds

\* What the counts depend on.
LEMMA CountKept ==
    ASSUME RInv, \A p \in Targets : Uncounted(p)' = Uncounted(p),
           UNCHANGED <<unfinished, reports>>
    PROVE  CountFits'
BY DEF RInv, CountFits

LEMMA BitmapKept ==
    ASSUME RInv, AllReported' = AllReported, ToCount' = ToCount, UNCHANGED countVars
    PROVE  BitmapFits'
BY DEF RInv, BitmapFits, countVars

LEMMA TargetKept ==
    ASSUME RInv, \A p \in Targets : Past(p)' = Past(p),
           \A w \in Reducers : At(w, "reporting") => At(w, "reporting")' /\ Into(w)' = Into(w),
           UNCHANGED <<target, leaked, reports>>
    PROVE  TargetFits'
<1>1. ASSUME NEW p \in Targets, target[p], reports[p] = 1
      PROVE  \E w \in Reducers : At(w, "reporting")' /\ Into(w)' = p
  <2>1. PICK w \in Reducers : At(w, "reporting") /\ Into(w) = p
    BY <1>1 DEF RInv, TargetFits
  <2>. QED  BY <1>1, <2>1
<1>2. \A p \in Targets : /\ target[p] => Past(p)' # {}
                         /\ leaked[p] = 0 \/ leaked[p] < Cardinality(Past(p)')
  BY DEF RInv, TargetFits
<1>. QED  BY <1>1, <1>2 DEF TargetFits

\* Past(p) only grows.
LEMMA PastGrows ==
    ASSUME RInv, UNCHANGED <<target, leaked, reports>>,
           \A p \in Targets : Past(p) \subseteq Past(p)' /\ Past(p)' \subseteq Tiles,
           \A w \in Reducers : At(w, "reporting") => At(w, "reporting")' /\ Into(w)' = Into(w)
    PROVE  TargetFits'
<1>1. \A p \in Targets : /\ Cardinality(Past(p)) <= Cardinality(Past(p)')
                         /\ Cardinality(Past(p)) \in Nat /\ Cardinality(Past(p)') \in Nat
  BY TilesFinite, FS_Subset
<1>2. \A p \in Targets : leaked[p] \in Nat  BY DEF RInv, ReductionTypeOK
<1>. QED  BY <1>1, <1>2 DEF RInv, TargetFits

LEMMA CloseKeepsRInv == ASSUME RInv, CloseLayers PROVE RInv'
<1>1. /\ open' \in BOOLEAN /\ reductions' = reductions /\ reducing' = reducing /\ tell' = tell
      /\ UNCHANGED <<dataVars, coordVars, reports, countVars>>
      /\ UNCHANGED <<initialized, reduced, unfinished, mut, target, leaked>>
      /\ UNCHANGED <<finishedCount, tooMany, finished>>
  BY DEF CloseLayers, dataVars, coordVars, countVars
<1>2. ReductionTypeOK'
  BY <1>1, TileKinds DEF RInv, ReductionTypeOK, Places
<1>3. OneEach'
  BY <1>1, TileKinds DEF RInv, ReductionTypeOK, OneEach, Reads, At
<1>4. WorkFits'
  BY <1>1, TileKinds DEF RInv, ReductionTypeOK, WorkFits, Reads, Before, At, Into
<1>5. TellFits'
  BY <1>1, TileKinds DEF RInv, ReductionTypeOK, TellFits, Reported, Reads, At, Into
<1>6. WaitingFits'
  BY <1>1, TileKinds DEF RInv, ReductionTypeOK, WaitingFits
<1>7. ReducedFits'
  BY <1>1, TileKinds DEF RInv, ReductionTypeOK, ReducedFits
<1>8. CountFits'
  <2>1. \A p \in Targets : Uncounted(p)' = Uncounted(p)
    BY <1>1, TileKinds DEF RInv, WorkFits, Uncounted, At, Into, Reads, Before
  <2>. QED  BY <1>1, <2>1, CountKept
<1>9. TargetFits'
  <2>1. \A p \in Targets : Past(p)' = Past(p)
    BY <1>1, TileKinds DEF RInv, WorkFits, Past, At, Into, Reads, Before
  <2>. QED  BY <1>1, <2>1, TargetKept DEF At, Into
<1>10. BitmapFits'
  <2>1. AllReported' = AllReported  BY <1>1 DEF AllReported
  <2>2. ToCount' = ToCount
    BY <1>1 DEF ToCount, Reported, At, Into, RInv, TellFits
  <2>. QED  BY <1>1, <2>1, <2>2, BitmapKept DEF countVars
<1>. QED  BY <1>2, <1>3, <1>4, <1>5, <1>6, <1>7, <1>8, <1>9, <1>10 DEF RInv

LEMMA TellCoordinatorInv == ASSUME RInv, NEW w \in Reducers, TellCoordinator(w) PROVE RInv'
<1>1. /\ open' = open /\ reductions' = reductions \cup {Reported(w)} /\ reducing' = reducing
      /\ tell' = [tell EXCEPT ![w] = @ \ Targets] /\ tell[w] \cap Targets # {}
      /\ UNCHANGED <<initialized, reduced, unfinished, mut, target, leaked>>
      /\ UNCHANGED <<finishedCount, tooMany, finished, reports>>
      /\ UNCHANGED countVars
      /\ \A v \in Reducers \ {w} : tell'[v] = tell[v]
      /\ tell'[w] = tell[w] \ Targets
      /\ At(w, "filled") \/ At(w, "reporting")
      /\ Reported(w) \in Tiles /\ Parent[Reported(w)] \in tell[w] \cap Targets
      /\ reports[Reported(w)] = 1
      /\ \A v \in Reducers : Reads(v) => reducing[v].tile # Reported(w)
      /\ Reported(w) \notin reduced[Parent[Reported(w)]]
  BY RecordFacts, TileKinds DEF TellCoordinator, dataVars, coordVars, countVars, RInv, ReductionTypeOK,
     TellFits, WorkFits, Reported, At, Into, Reads
<1>2. ReductionTypeOK'
  BY <1>1, TileKinds DEF RInv, ReductionTypeOK, Places
<1>3. OneEach'
  BY <1>1, TileKinds DEF RInv, ReductionTypeOK, OneEach, Reads, At
<1>4. WorkFits'
  BY <1>1, TileKinds DEF RInv, ReductionTypeOK, WorkFits, Reads, Before, At, Into
<1>5. TellFits'
  <2>1. \A v \in Reducers \ {w} : tell[v] # {} => Reported(v) # Reported(w)
    BY <1>1, ReportedOnce DEF RInv, TellFits
  <2>2. \A v \in Reducers : Reported(v)' = Reported(v) /\ (Reads(v)' <=> Reads(v))
                         /\ (At(v, "filled")' <=> At(v, "filled"))
                         /\ (At(v, "reporting")' <=> At(v, "reporting"))
    BY <1>1 DEF Reported, Reads, At, Into
  <2>3. TellFits  BY DEF RInv
  <2>4. \A v \in Reducers : tell'[v] \subseteq tell[v] /\ (Targets \cap tell'[v] # {} => v # w)
    BY <1>1
  <2>. QED  BY <1>1, <2>1, <2>2, <2>3, <2>4 DEF TellFits
<1>6. WaitingFits'
  BY <1>1, TileKinds DEF RInv, ReductionTypeOK, WaitingFits
<1>7. ReducedFits'
  BY <1>1, TileKinds DEF RInv, ReductionTypeOK, ReducedFits
<1>8. CountFits'
  <2>1. \A p \in Targets : Uncounted(p)' = Uncounted(p)
    BY <1>1, TileKinds DEF RInv, WorkFits, Uncounted, At, Into, Reads, Before
  <2>. QED  BY <1>1, <2>1, CountKept
<1>9. TargetFits'
  <2>1. \A p \in Targets : Past(p)' = Past(p)
    BY <1>1, TileKinds DEF RInv, WorkFits, Past, At, Into, Reads, Before
  <2>. QED  BY <1>1, <2>1, TargetKept DEF At, Into
<1>10. BitmapFits'
  <2>1. AllReported' = AllReported  BY <1>1 DEF AllReported
  <2>2. ToCount' = ToCount
    BY <1>1, TileKinds DEF ToCount, Reported, At, Into
  <2>. QED  BY <1>1, <2>1, <2>2, BitmapKept DEF countVars
<1>. QED  BY <1>2, <1>3, <1>4, <1>5, <1>6, <1>7, <1>8, <1>9, <1>10 DEF RInv

LEMMA TellBitmapInv == ASSUME RInv, NEW w \in Reducers, TellBitmap(w) PROVE RInv'
<1>1. /\ open' = open /\ reductions' = reductions /\ reducing' = reducing
      /\ TheBitmap \in tell[w]
      /\ tell' = [tell EXCEPT ![w] = @ \ {TheBitmap}]
      /\ UNCHANGED <<initialized, reduced, unfinished, mut, target, leaked, reports>>
      /\ \A v \in Reducers \ {w} : tell'[v] = tell[v]
      /\ tell'[w] = tell[w] \ {TheBitmap}
      /\ At(w, "filled") \/ At(w, "reporting")
      /\ Reported(w) \in Tiles
      /\ finishedCount' = finishedCount + 1
      /\ tooMany' = (IF finishedCount + 1 > Cardinality(Tiles) THEN tooMany + 1 ELSE tooMany)
      /\ finished' = (IF finishedCount + 1 = Cardinality(Tiles) THEN finished + 1 ELSE finished)
      /\ reports[Reported(w)] = 1
  BY RecordFacts, TileKinds DEF TellBitmap, IsLast, dataVars, coordVars, countVars, RInv, ReductionTypeOK,
     TellFits, WorkFits, Reported, At, Into, Reads
<1>2. ReductionTypeOK'
  BY <1>1, TileKinds DEF RInv, ReductionTypeOK, Places
<1>3. OneEach'
  BY <1>1, TileKinds DEF RInv, ReductionTypeOK, OneEach, Reads, At
<1>4. WorkFits'
  BY <1>1, TileKinds DEF RInv, ReductionTypeOK, WorkFits, Reads, Before, At, Into
<1>5. TellFits'
  BY <1>1, TileKinds DEF RInv, ReductionTypeOK, TellFits, Reported, Reads, At, Into
<1>6. WaitingFits'
  BY <1>1, TileKinds DEF RInv, ReductionTypeOK, WaitingFits
<1>7. ReducedFits'
  BY <1>1, TileKinds DEF RInv, ReductionTypeOK, ReducedFits
<1>8. CountFits'
  <2>1. \A p \in Targets : Uncounted(p)' = Uncounted(p)
    BY <1>1, TileKinds DEF RInv, WorkFits, Uncounted, At, Into, Reads, Before
  <2>. QED  BY <1>1, <2>1, CountKept
<1>9. TargetFits'
  <2>1. \A p \in Targets : Past(p)' = Past(p)
    BY <1>1, TileKinds DEF RInv, WorkFits, Past, At, Into, Reads, Before
  <2>. QED  BY <1>1, <2>1, TargetKept DEF At, Into
<1>10. BitmapFits'
  <2>1. AllReported' = AllReported /\ AllReported \subseteq Tiles  BY <1>1 DEF AllReported
  <2>2. ToCount' = ToCount \ {Reported(w)}
    <3>1. ASSUME NEW v \in Reducers \ {w}, TheBitmap \in tell[v] PROVE Reported(v) # Reported(w)
      BY <1>1, <3>1, ReportedOnce DEF RInv, TellFits
    <3>. QED  BY <1>1, <3>1, TileKinds DEF ToCount, Reported, At, Into
  <2>3. Reported(w) \in ToCount /\ ToCount \subseteq Tiles
    BY <1>1 DEF ToCount
  <2>4. /\ Cardinality(ToCount)' = Cardinality(ToCount) - 1
        /\ Cardinality(ToCount) \in Nat \ {0}
    BY <2>2, <2>3, TileOut
  <2>5. /\ Cardinality(AllReported) <= Cardinality(Tiles)
        /\ Cardinality(AllReported) \in Nat /\ Cardinality(Tiles) \in Nat
    BY <2>1, TilesFinite
  <2>6. finishedCount \in Nat  BY DEF RInv, ReductionTypeOK
  <2>7. finishedCount + Cardinality(ToCount) <= Cardinality(AllReported)
        /\ tooMany = 0
        /\ finished = (IF finishedCount = Cardinality(Tiles) /\ finishedCount > 0 THEN 1 ELSE 0)
    BY DEF RInv, BitmapFits
  <2>8. finishedCount + 1 <= Cardinality(Tiles)  BY <2>4, <2>5, <2>6, <2>7
  <2>9. tooMany' = 0 /\ finished = 0  BY <1>1, <2>5, <2>6, <2>7, <2>8
  <2>10. finished' = (IF finishedCount' = Cardinality(Tiles) /\ finishedCount' > 0 THEN 1 ELSE 0)
    BY <1>1, <2>5, <2>6, <2>9
  <2>. QED  BY <1>1, <2>1, <2>4, <2>5, <2>6, <2>7, <2>9, <2>10 DEF BitmapFits
<1>. QED  BY <1>2, <1>3, <1>4, <1>5, <1>6, <1>7, <1>8, <1>9, <1>10 DEF RInv

LEMMA CheckInv == ASSUME RInv, NEW w \in Reducers, CheckTarget(w) PROVE RInv'
<1>1. /\ reducing'[w].tile = reducing[w].tile 
      /\ reducing'[w].at = (IF target[Into(w)] THEN "reduce" ELSE "get")
      /\ reducing[w].tile \in Tiles
      /\ \A v \in Reducers \ {w} : reducing'[v] = reducing[v]
      /\ reducing' \in [Reducers -> {ReducerIdle} \cup [tile : Tiles, at : Places, old : BOOLEAN]]
      /\ reducing[w].at = "check" /\ Reads(w) /\ Reads(w)' /\ Into(w)' = Into(w) /\ Into(w) \in Targets
      /\ \A v \in Reducers : Into(v)' = Into(v) /\ reducing'[v].tile = reducing[v].tile
      /\ UNCHANGED <<open, reductions, tell, initialized, reduced, unfinished, mut, target, leaked, reports>>
      /\ UNCHANGED <<finishedCount, tooMany, finished>>
      /\ UNCHANGED countVars
  <2>1. reducing[w].at = "check" /\ reducing[w] # ReducerIdle /\ Reads(w)
    BY DEF CheckTarget, At, Reads, ReducerIdle
  <2>2. /\ reducing[w].tile \in Tiles /\ Parent[reducing[w].tile] # NoTile
        /\ Into(w) \in Targets /\ reducing[w] \in [tile : Tiles, at : Places, old : BOOLEAN]
    BY <2>1, RecordFacts, TileKinds DEF RInv, WorkFits, Into, ReductionTypeOK
  <2>3. /\ reducing'[w].tile = reducing[w].tile /\ reducing'[w].at = (IF target[Into(w)] THEN "reduce" ELSE "get")
        /\ \A v \in Reducers \ {w} : reducing'[v] = reducing[v]
        /\ reducing' \in [Reducers -> {ReducerIdle} \cup [tile : Tiles, at : Places, old : BOOLEAN]]
    BY <2>1, GotoFacts DEF RInv, CheckTarget, Goto, Places
  <2>4. UNCHANGED <<open, reductions, tell, dataVars, coordVars, reports, countVars>>
    BY DEF CheckTarget
  <2>. QED  BY <2>1, <2>2, <2>3, <2>4 DEF Into, Reads, dataVars, coordVars, countVars
<1>2. ReductionTypeOK'
  BY <1>1, TileKinds DEF RInv, ReductionTypeOK, Places
<1>3. OneEach'
  BY <1>1, TileKinds DEF RInv, ReductionTypeOK, OneEach, Reads, At
<1>4. WorkFits'
  BY <1>1, TileKinds DEF RInv, ReductionTypeOK, WorkFits, Reads, Before, At, Into
<1>5. TellFits'
  BY <1>1, TileKinds DEF RInv, ReductionTypeOK, TellFits, Reported, Reads, At, Into
<1>6. WaitingFits'
  BY <1>1, TileKinds DEF RInv, ReductionTypeOK, WaitingFits
<1>7. ReducedFits'
  BY <1>1, TileKinds DEF RInv, ReductionTypeOK, ReducedFits
<1>8. CountFits'
  <2>1. \A p \in Targets : Uncounted(p)' = Uncounted(p)
    BY <1>1, TileKinds DEF RInv, WorkFits, Uncounted, At, Into, Reads, Before
  <2>. QED  BY <1>1, <2>1, CountKept
<1>9. TargetFits'
  <2>1. CASE ~target[Into(w)]
    <3>1. \A p \in Targets : Past(p)' = Past(p)
      BY <1>1, <2>1, TileKinds DEF RInv, WorkFits, Past, At, Into, Reads, Before
    <3>. QED  BY <1>1, <3>1, TargetKept DEF At, Into
  <2>2. CASE target[Into(w)]
    <3>1. \A p \in Targets : Past(p) \subseteq Past(p)'
      BY <1>1, <2>2, TileKinds DEF RInv, WorkFits, Past, At, Into, Reads, Before
    <3>2. \A p \in Targets : Past(p)' \subseteq Tiles
      BY TileKinds DEF Past
    <3>. QED  BY <1>1, <3>1, <3>2, PastGrows DEF At
  <2>. QED  BY <2>1, <2>2
<1>10. BitmapFits'
  <2>1. AllReported' = AllReported  BY <1>1 DEF AllReported
  <2>2. ToCount' = ToCount
    BY <1>1 DEF ToCount, Reported, At, Into, RInv, TellFits
  <2>. QED  BY <1>1, <2>1, <2>2, BitmapKept DEF countVars
<1>. QED  BY <1>2, <1>3, <1>4, <1>5, <1>6, <1>7, <1>8, <1>9, <1>10 DEF RInv

LEMMA GetTargetInv == ASSUME RInv, NEW w \in Reducers, GetTarget(w) PROVE RInv'
<1>1. /\ reducing'[w].tile = reducing[w].tile /\ reducing'[w].at = "assign"
      /\ reducing[w].tile \in Tiles
      /\ \A v \in Reducers \ {w} : reducing'[v] = reducing[v]
      /\ reducing' \in [Reducers -> {ReducerIdle} \cup [tile : Tiles, at : Places, old : BOOLEAN]]
      /\ reducing[w].at = "get" /\ Reads(w) /\ Reads(w)' /\ Into(w)' = Into(w) /\ Into(w) \in Targets
      /\ \A v \in Reducers : Into(v)' = Into(v) /\ reducing'[v].tile = reducing[v].tile
      /\ UNCHANGED <<open, reductions, tell, initialized, reduced, unfinished, mut, target, leaked, reports>>
      /\ UNCHANGED <<finishedCount, tooMany, finished>>
      /\ UNCHANGED countVars
  <2>1. reducing[w].at = "get" /\ reducing[w] # ReducerIdle /\ Reads(w)
    BY DEF GetTarget, At, Reads, ReducerIdle
  <2>2. /\ reducing[w].tile \in Tiles /\ Parent[reducing[w].tile] # NoTile
        /\ Into(w) \in Targets /\ reducing[w] \in [tile : Tiles, at : Places, old : BOOLEAN]
    BY <2>1, RecordFacts, TileKinds DEF RInv, WorkFits, Into, ReductionTypeOK
  <2>3. target[Into(w)] \in BOOLEAN  BY <2>2 DEF RInv, ReductionTypeOK
  <2>4. /\ reducing' = [reducing EXCEPT ![w] = [@ EXCEPT !.old = target[Into(w)], !.at = "assign"]]
        /\ UNCHANGED <<open, reductions, tell, dataVars, coordVars, reports, countVars>>
    BY DEF GetTarget
  <2>5. [reducing[w] EXCEPT !.old = target[Into(w)], !.at = "assign"]
            \in [tile : Tiles, at : Places, old : BOOLEAN]
    BY <2>2, <2>3 DEF Places
  <2>6. /\ reducing'[w].tile = reducing[w].tile /\ reducing'[w].at = "assign"
        /\ \A v \in Reducers \ {w} : reducing'[v] = reducing[v]
        /\ reducing' \in [Reducers -> {ReducerIdle} \cup [tile : Tiles, at : Places, old : BOOLEAN]]
    BY <2>2, <2>4, <2>5 DEF RInv, ReductionTypeOK
  <2>. QED  BY <2>1, <2>2, <2>4, <2>6 DEF Into, Reads, dataVars, coordVars, countVars
<1>2. ReductionTypeOK'
  BY <1>1, TileKinds DEF RInv, ReductionTypeOK, Places
<1>3. OneEach'
  BY <1>1, TileKinds DEF RInv, ReductionTypeOK, OneEach, Reads, At
<1>4. WorkFits'
  BY <1>1, TileKinds DEF RInv, ReductionTypeOK, WorkFits, Reads, Before, At, Into
<1>5. TellFits'
  <2>1. \A v \in Reducers : Reported(v)' = Reported(v) /\ Into(v)' = Into(v)
    BY <1>1 DEF Reported, At, Into
  <2>2. \A v \in Reducers : /\ Reads(v)' <=> Reads(v)
                            /\ At(v, "filled")' <=> At(v, "filled")
                            /\ At(v, "reporting")' <=> At(v, "reporting")
                            /\ reducing'[v].tile = reducing[v].tile
    BY <1>1 DEF Reads, At
  <2>. QED  BY <1>1, <2>1, <2>2 DEF RInv, TellFits
<1>6. WaitingFits'
  BY <1>1, TileKinds DEF RInv, ReductionTypeOK, WaitingFits
<1>7. ReducedFits'
  BY <1>1, TileKinds DEF RInv, ReductionTypeOK, ReducedFits
<1>8. CountFits'
  <2>1. \A p \in Targets : Uncounted(p)' = Uncounted(p)
    BY <1>1, TileKinds DEF RInv, WorkFits, Uncounted, At, Into, Reads, Before
  <2>. QED  BY <1>1, <2>1, CountKept
<1>9. TargetFits'
  <2>1. \A p \in Targets : Past(p)' = Past(p)
    BY <1>1, TileKinds DEF RInv, WorkFits, Past, At, Into, Reads, Before
  <2>. QED  BY <1>1, <2>1, TargetKept DEF At, Into
<1>10. BitmapFits'
  <2>1. AllReported' = AllReported  BY <1>1 DEF AllReported
  <2>2. ToCount' = ToCount
    BY <1>1 DEF ToCount, Reported, At, Into, RInv, TellFits
  <2>. QED  BY <1>1, <2>1, <2>2, BitmapKept DEF countVars
<1>. QED  BY <1>2, <1>3, <1>4, <1>5, <1>6, <1>7, <1>8, <1>9, <1>10 DEF RInv

LEMMA AssignInv == ASSUME RInv, NEW w \in Reducers, AssignTarget(w) PROVE RInv'
<1>1. /\ reducing'[w].tile = reducing[w].tile /\ reducing'[w].at = "reduce"
      /\ reducing[w].tile \in Tiles
      /\ \A v \in Reducers \ {w} : reducing'[v] = reducing[v]
      /\ reducing' \in [Reducers -> {ReducerIdle} \cup [tile : Tiles, at : Places, old : BOOLEAN]]
      /\ reducing[w].at = "assign" /\ Reads(w) /\ Reads(w)' /\ Into(w)' = Into(w) /\ Into(w) \in Targets
      /\ \A v \in Reducers : Into(v)' = Into(v) /\ reducing'[v].tile = reducing[v].tile
      /\ target' = [target EXCEPT ![Into(w)] = TRUE]
      /\ leaked' = (IF target[Into(w)] /\ ~reducing[w].old
                    THEN [leaked EXCEPT ![Into(w)] = @ + 1] ELSE leaked)
      /\ UNCHANGED <<open, reductions, tell, initialized, reduced, unfinished, mut, reports>>
      /\ UNCHANGED <<finishedCount, tooMany, finished>>
      /\ UNCHANGED countVars
  <2>1. reducing[w].at = "assign" /\ reducing[w] # ReducerIdle /\ Reads(w)
    BY DEF AssignTarget, At, Reads, ReducerIdle
  <2>2. /\ reducing[w].tile \in Tiles /\ Parent[reducing[w].tile] # NoTile
        /\ Into(w) \in Targets /\ reducing[w] \in [tile : Tiles, at : Places, old : BOOLEAN]
    BY <2>1, RecordFacts, TileKinds DEF RInv, WorkFits, Into, ReductionTypeOK
  <2>3. /\ reducing'[w].tile = reducing[w].tile /\ reducing'[w].at = "reduce"
        /\ \A v \in Reducers \ {w} : reducing'[v] = reducing[v]
        /\ reducing' \in [Reducers -> {ReducerIdle} \cup [tile : Tiles, at : Places, old : BOOLEAN]]
    BY <2>1, GotoFacts DEF RInv, AssignTarget, Goto, Places
  <2>4. /\ target' = [target EXCEPT ![Into(w)] = TRUE]
        /\ leaked' = (IF target[Into(w)] /\ ~reducing[w].old
                      THEN [leaked EXCEPT ![Into(w)] = @ + 1] ELSE leaked)
        /\ UNCHANGED <<open, reductions, tell, dataVars, unfinished, mut, reports, countVars>>
    BY DEF AssignTarget
  <2>. QED  BY <2>1, <2>2, <2>3, <2>4 DEF Into, Reads, dataVars, countVars
<1>2. ReductionTypeOK'
  BY <1>1, TileKinds DEF RInv, ReductionTypeOK, Places
<1>3. OneEach'
  BY <1>1, TileKinds DEF RInv, ReductionTypeOK, OneEach, Reads, At
<1>4. WorkFits'
  BY <1>1, TileKinds DEF RInv, ReductionTypeOK, WorkFits, Reads, Before, At, Into
<1>5. TellFits'
  <2>1. \A v \in Reducers : Reported(v)' = Reported(v) /\ Into(v)' = Into(v)
    BY <1>1 DEF Reported, At, Into
  <2>2. \A v \in Reducers : /\ Reads(v)' <=> Reads(v)
                            /\ At(v, "filled")' <=> At(v, "filled")
                            /\ At(v, "reporting")' <=> At(v, "reporting")
                            /\ reducing'[v].tile = reducing[v].tile
    BY <1>1 DEF Reads, At
  <2>. QED  BY <1>1, <2>1, <2>2 DEF RInv, TellFits
<1>6. WaitingFits'
  BY <1>1, TileKinds DEF RInv, ReductionTypeOK, WaitingFits
<1>7. ReducedFits'
  BY <1>1, TileKinds DEF RInv, ReductionTypeOK, ReducedFits
<1>8. CountFits'
  <2>1. \A p \in Targets : Uncounted(p)' = Uncounted(p)
    BY <1>1, TileKinds DEF RInv, WorkFits, Uncounted, At, Into, Reads, Before
  <2>. QED  BY <1>1, <2>1, CountKept
<1>9. TargetFits'
  <2>0. PICK q \in Targets, t \in Tiles : q = Into(w) /\ t = reducing[w].tile
    BY <1>1
  <2>1. t \in Sources(q) /\ t \notin Past(q) /\ reports[q] # 1
    <3>1. t \notin reduced[q] /\ t \in Sources(q)
      BY <1>1, <2>0, TileKinds DEF RInv, WorkFits, Before, Into
    <3>2. ASSUME NEW v \in Reducers, At(v, "reduce"), reducing[v].tile = t PROVE FALSE
      BY <1>1, <2>0, <3>2 DEF RInv, OneEach, Reads, At
    <3>3. t \in Uncounted(q) /\ Uncounted(q) \subseteq Tiles
      BY <3>1, TileKinds DEF Uncounted
    <3>4. Cardinality(Uncounted(q)) # 0  BY <3>3, TilesFinite
    <3>. QED  BY <1>1, <2>0, <3>1, <3>2, <3>4 DEF Past, RInv, CountFits
  <2>2. Past(q)' = Past(q) \cup {t}
    BY <1>1, <2>0, <2>1 DEF Past, At
  <2>3. \A p \in Targets \ {q} : Past(p)' = Past(p)
    BY <1>1, <2>0, TileKinds DEF Past, At, Into
  <2>4. Past(q) \subseteq Tiles /\ t \in Tiles  BY <1>1, <2>0, TileKinds DEF Past
  <2>5. /\ Cardinality(Past(q)') = Cardinality(Past(q)) + 1
        /\ Cardinality(Past(q)) \in Nat
        /\ Past(q) # {} => Cardinality(Past(q)) # 0
    BY <2>1, <2>2, <2>4, TileIn, TilesFinite
  <2>6. q \in Targets /\ leaked \in [Targets -> Nat] /\ target \in [Targets -> BOOLEAN]
    BY <1>1, <2>0 DEF RInv, ReductionTypeOK
  <2>7. leaked'[q] = 0 \/ leaked'[q] < Cardinality(Past(q)')
    <3>1. CASE target[q] /\ leaked' = [leaked EXCEPT ![q] = @ + 1]
      <4>1. Past(q) # {}  BY <2>6, <3>1 DEF RInv, TargetFits
      <4>2. leaked'[q] = leaked[q] + 1  BY <2>6, <3>1
      <4>3. leaked[q] = 0 \/ leaked[q] < Cardinality(Past(q))  BY <2>6 DEF RInv, TargetFits
      <4>. QED  BY <2>5, <2>6, <4>1, <4>2, <4>3
    <3>2. CASE leaked' = leaked
      <4>1. leaked[q] = 0 \/ leaked[q] < Cardinality(Past(q))  BY <2>6 DEF RInv, TargetFits
      <4>. QED  BY <2>5, <2>6, <3>2, <4>1
    <3>. QED  BY <1>1, <2>0, <3>1, <3>2
  <2>8. \A p \in Targets \ {q} : leaked'[p] = leaked[p] /\ target'[p] = target[p]
    BY <1>1, <2>0, <2>6
  <2>9. target'[q] => Past(q)' # {}  BY <2>2
  <2>10. q \in Targets /\ \A p \in Targets : reports'[p] = 1 => p # q /\ reports[p] = 1
    BY <1>1, <2>0, <2>1
  <2>11. \A v \in Reducers : At(v, "reporting") => At(v, "reporting")' /\ Into(v)' = Into(v)
    BY <1>1, <2>0 DEF At
  <2>12. \A p \in Targets \ {q} :
           /\ target'[p] => Past(p)' # {}
           /\ target'[p] /\ reports'[p] = 1
                => \E v \in Reducers : At(v, "reporting")' /\ Into(v)' = p
           /\ leaked'[p] = 0 \/ leaked'[p] < Cardinality(Past(p)')
    BY <2>3, <2>8, <2>10, <2>11 DEF RInv, TargetFits
  <2>13. ~(reports'[q] = 1)  BY <2>10
  <2>14. ASSUME NEW p \in Targets
         PROVE  /\ target'[p] => Past(p)' # {}
                /\ target'[p] /\ reports'[p] = 1
                     => \E v \in Reducers : At(v, "reporting")' /\ Into(v)' = p
                /\ leaked'[p] = 0 \/ leaked'[p] < Cardinality(Past(p)')
    <3>1. CASE p = q  BY <2>7, <2>9, <2>13, <3>1
    <3>2. CASE p # q  BY <2>12, <3>2
    <3>. QED  BY <3>1, <3>2
  <2>. QED  BY <2>14 DEF TargetFits
<1>10. BitmapFits'
  <2>1. AllReported' = AllReported  BY <1>1 DEF AllReported
  <2>2. ToCount' = ToCount
    BY <1>1 DEF ToCount, Reported, At, Into, RInv, TellFits
  <2>. QED  BY <1>1, <2>1, <2>2, BitmapKept DEF countVars
<1>. QED  BY <1>2, <1>3, <1>4, <1>5, <1>6, <1>7, <1>8, <1>9, <1>10 DEF RInv

LEMMA ReduceInv == ASSUME RInv, NEW w \in Reducers, ReduceTile(w) PROVE RInv'
<1>1. /\ reducing'[w].tile = reducing[w].tile /\ reducing'[w].at = "count"
      /\ reducing[w].tile \in Tiles
      /\ \A v \in Reducers \ {w} : reducing'[v] = reducing[v]
      /\ reducing' \in [Reducers -> {ReducerIdle} \cup [tile : Tiles, at : Places, old : BOOLEAN]]
      /\ reducing[w].at = "reduce" /\ Reads(w) /\ Reads(w)' /\ Into(w)' = Into(w) /\ Into(w) \in Targets
      /\ \A v \in Reducers : Into(v)' = Into(v) /\ reducing'[v].tile = reducing[v].tile
      /\ reduced' = [reduced EXCEPT ![Into(w)] = @ \cup {reducing[w].tile}]
      /\ reduced'[Into(w)] = reduced[Into(w)] \cup {reducing[w].tile}
      /\ \A p \in Targets \ {Into(w)} : reduced'[p] = reduced[p]
      /\ reduced' \in [Targets -> SUBSET Tiles]
      /\ Parent[reducing[w].tile] = Into(w)
      /\ reports[reducing[w].tile] = 1 /\ Into(w) \in initialized
      /\ reducing[w].tile \notin reductions
      /\ \A v \in Reducers \ {w} : Reads(v) => reducing[v].tile # reducing[w].tile
      /\ \A v \in Reducers : Reads(v)' <=> Reads(v)
      /\ UNCHANGED <<open, reductions, tell, initialized, unfinished, mut, target, leaked, reports>>
      /\ UNCHANGED <<finishedCount, tooMany, finished>>
      /\ UNCHANGED countVars
  <2>1. reducing[w].at = "reduce" /\ reducing[w] # ReducerIdle /\ Reads(w)
    BY DEF ReduceTile, At, Reads, ReducerIdle
  <2>2. /\ reducing[w].tile \in Tiles /\ Parent[reducing[w].tile] # NoTile
        /\ Into(w) \in Targets /\ reducing[w] \in [tile : Tiles, at : Places, old : BOOLEAN]
    BY <2>1, RecordFacts, TileKinds DEF RInv, WorkFits, Into, ReductionTypeOK
  <2>3. /\ reducing'[w].tile = reducing[w].tile /\ reducing'[w].at = "count"
        /\ \A v \in Reducers \ {w} : reducing'[v] = reducing[v]
        /\ reducing' \in [Reducers -> {ReducerIdle} \cup [tile : Tiles, at : Places, old : BOOLEAN]]
    BY <2>1, GotoFacts DEF RInv, ReduceTile, Goto, Places
  <2>4. /\ reduced' = [reduced EXCEPT ![Into(w)] = @ \cup {reducing[w].tile}]
        /\ UNCHANGED <<open, reductions, tell, initialized, coordVars, reports, countVars>>
    BY DEF ReduceTile
  <2>5. reduced \in [Targets -> SUBSET Tiles]  BY DEF RInv, ReductionTypeOK
  <2>6. /\ reduced'[Into(w)] = reduced[Into(w)] \cup {reducing[w].tile}
        /\ \A p \in Targets \ {Into(w)} : reduced'[p] = reduced[p]
        /\ reduced' \in [Targets -> SUBSET Tiles]
    BY <2>2, <2>4, <2>5
  <2>7. /\ reports[reducing[w].tile] = 1 /\ Into(w) \in initialized
        /\ reducing[w].tile \notin reductions
    BY <2>1 DEF RInv, WorkFits, At
  <2>8. \A v \in Reducers \ {w} : Reads(v) => reducing[v].tile # reducing[w].tile
    BY <2>1 DEF RInv, OneEach
  <2>9. \A v \in Reducers : Reads(v)' <=> Reads(v)
    BY <2>1, <2>3 DEF Reads
  <2>. QED  BY <2>1, <2>2, <2>3, <2>4, <2>6, <2>7, <2>8, <2>9 DEF Into, coordVars, countVars
<1>2. ReductionTypeOK'
  BY <1>1, TileKinds DEF RInv, ReductionTypeOK, Places
<1>3. OneEach'
  BY <1>1, TileKinds DEF RInv, ReductionTypeOK, OneEach, Reads, At
<1>4. WorkFits'
  <2>1. reducing[w].tile \in reduced'[Into(w)] /\ ~Before(w)'
    BY <1>1 DEF Before
  <2>2. ASSUME NEW v \in Reducers \ {w}, Reads(v)
        PROVE  /\ Before(v)' <=> Before(v)
               /\ reducing[v].tile \in reduced'[Into(v)] <=> reducing[v].tile \in reduced[Into(v)]
    <3>1. Into(v) \in Targets
      BY <2>2, RecordFacts, TileKinds DEF RInv, WorkFits, Into
    <3>. QED  BY <1>1, <2>2, <3>1 DEF Before
  <2>. QED  BY <1>1, <2>1, <2>2 DEF RInv, WorkFits, At
<1>5. TellFits'
  <2>1. \A v \in Reducers : Reported(v)' = Reported(v)
    BY <1>1 DEF Reported, At
  <2>2. \A v \in Reducers : /\ At(v, "filled")' <=> At(v, "filled")
                            /\ At(v, "reporting")' <=> At(v, "reporting")
    BY <1>1 DEF At
  <2>3. \A v \in Reducers, p \in Targets : p \in tell[v] => Reported(v) # reducing[w].tile
    BY <1>1 DEF RInv, TellFits
  <2>4. \A v \in Reducers, p \in Targets :
          p \in tell[v] /\ Reported(v) \notin reduced[p] => Reported(v) \notin reduced'[p]
    BY <1>1, <2>3
  <2>. QED  BY <1>1, <2>1, <2>2, <2>4 DEF RInv, TellFits
<1>6. WaitingFits'
  <2>1. \A t \in reductions : Parent[t] \in Targets /\ t # reducing[w].tile
    BY <1>1, TileKinds DEF RInv, ReductionTypeOK
  <2>. QED  BY <1>1, <2>1 DEF RInv, WaitingFits
<1>7. ReducedFits'
  <2>1. reducing[w].tile \in Sources(Into(w))  BY <1>1, TileKinds DEF Into
  <2>. QED  BY <1>1, <2>1 DEF RInv, ReducedFits
<1>8. CountFits'
  <2>1. ASSUME NEW p \in Targets PROVE Uncounted(p)' = Uncounted(p)
    <3>1. ASSUME NEW t \in Sources(p), t # reducing[w].tile
          PROVE  t \in Uncounted(p)' <=> t \in Uncounted(p)
      BY <1>1, <3>1 DEF Uncounted, At
    <3>2. reducing[w].tile \in Sources(p) => /\ p = Into(w)
                                             /\ reducing[w].tile \in Uncounted(p)
                                             /\ reducing[w].tile \in Uncounted(p)'
      BY <1>1, TileKinds DEF RInv, WorkFits, Before, Uncounted, At
    <3>3. Uncounted(p) \subseteq Sources(p) /\ Uncounted(p)' \subseteq Sources(p)
      BY DEF Uncounted
    <3>. QED  BY <3>1, <3>2, <3>3
  <2>. QED  BY <1>1, <2>1, CountKept
<1>9. TargetFits'
  <2>1. ASSUME NEW p \in Targets PROVE Past(p)' = Past(p)
    <3>1. ASSUME NEW t \in Sources(p), t # reducing[w].tile
          PROVE  t \in Past(p)' <=> t \in Past(p)
      BY <1>1, <3>1 DEF Past, At
    <3>2. reducing[w].tile \in Sources(p) => /\ p = Into(w)
                                             /\ reducing[w].tile \in Past(p)
                                             /\ reducing[w].tile \in Past(p)'
      BY <1>1, TileKinds DEF Past, At
    <3>3. Past(p) \subseteq Sources(p) /\ Past(p)' \subseteq Sources(p)
      BY DEF Past
    <3>. QED  BY <3>1, <3>2, <3>3
  <2>. QED  BY <1>1, <2>1, TargetKept DEF At, Into
<1>10. BitmapFits'
  <2>1. AllReported' = AllReported  BY <1>1 DEF AllReported
  <2>2. ToCount' = ToCount
    BY <1>1 DEF ToCount, Reported, At, Into, RInv, TellFits
  <2>. QED  BY <1>1, <2>1, <2>2, BitmapKept DEF countVars
<1>. QED  BY <1>2, <1>3, <1>4, <1>5, <1>6, <1>7, <1>8, <1>9, <1>10 DEF RInv

LEMMA InitializeInv == ASSUME RInv, NEW w \in Reducers, Initialize(w) PROVE RInv'
<1>1. /\ reducing'[w].tile = reducing[w].tile /\ reducing'[w].at = "check"
      /\ reducing[w].tile \in Tiles
      /\ \A v \in Reducers \ {w} : reducing'[v] = reducing[v]
      /\ reducing' \in [Reducers -> {ReducerIdle} \cup [tile : Tiles, at : Places, old : BOOLEAN]]
      /\ reducing[w].at = "initialize" /\ Reads(w) /\ Reads(w)' /\ Into(w)' = Into(w) /\ Into(w) \in Targets
      /\ \A v \in Reducers : Into(v)' = Into(v) /\ reducing'[v].tile = reducing[v].tile
      /\ initialized' = initialized \cup {Into(w)}
      /\ reduced' = reduced
      /\ UNCHANGED <<open, reductions, tell, unfinished, mut, target, leaked, reports>>
      /\ UNCHANGED <<finishedCount, tooMany, finished>>
      /\ UNCHANGED countVars
  <2>1. reducing[w].at = "initialize" /\ reducing[w] # ReducerIdle /\ Reads(w)
    BY DEF Initialize, At, Reads, ReducerIdle
  <2>2. /\ reducing[w].tile \in Tiles /\ Parent[reducing[w].tile] # NoTile
        /\ Into(w) \in Targets /\ reducing[w] \in [tile : Tiles, at : Places, old : BOOLEAN]
    BY <2>1, RecordFacts, TileKinds DEF RInv, WorkFits, Into, ReductionTypeOK
  <2>3. /\ reducing'[w].tile = reducing[w].tile /\ reducing'[w].at = "check"
        /\ \A v \in Reducers \ {w} : reducing'[v] = reducing[v]
        /\ reducing' \in [Reducers -> {ReducerIdle} \cup [tile : Tiles, at : Places, old : BOOLEAN]]
    BY <2>1, GotoFacts DEF RInv, Initialize, Goto, Places
  <2>4. /\ initialized' = initialized \cup {Into(w)}
        /\ UNCHANGED <<open, reductions, tell, coordVars, reports, countVars>>
    BY DEF Initialize
  <2>5. reduced' = reduced
    <3>1. CASE Into(w) \in initialized
      BY <3>1 DEF Initialize, MustInitialize
    <3>2. CASE Into(w) \notin initialized
      <4>1. reduced[Into(w)] = {} /\ reduced \in [Targets -> SUBSET Tiles]
        BY <2>2, <3>2 DEF RInv, ReducedFits, ReductionTypeOK
      <4>. QED  BY <2>2, <3>2, <4>1 DEF Initialize, MustInitialize
    <3>. QED  BY <3>1, <3>2
  <2>. QED  BY <2>1, <2>2, <2>3, <2>4, <2>5 DEF Into, Reads, coordVars, countVars
<1>2. ReductionTypeOK'
  BY <1>1, TileKinds DEF RInv, ReductionTypeOK, Places
<1>3. OneEach'
  BY <1>1, TileKinds DEF RInv, ReductionTypeOK, OneEach, Reads, At
<1>4. WorkFits'
  BY <1>1, TileKinds DEF RInv, ReductionTypeOK, WorkFits, Reads, Before, At, Into
<1>5. TellFits'
  <2>1. \A v \in Reducers : Reported(v)' = Reported(v) /\ Into(v)' = Into(v)
    BY <1>1 DEF Reported, At, Into
  <2>2. \A v \in Reducers : /\ Reads(v)' <=> Reads(v)
                            /\ At(v, "filled")' <=> At(v, "filled")
                            /\ At(v, "reporting")' <=> At(v, "reporting")
                            /\ reducing'[v].tile = reducing[v].tile
    BY <1>1 DEF Reads, At
  <2>. QED  BY <1>1, <2>1, <2>2 DEF RInv, TellFits
<1>6. WaitingFits'
  BY <1>1, TileKinds DEF RInv, ReductionTypeOK, WaitingFits
<1>7. ReducedFits'
  BY <1>1, TileKinds DEF RInv, ReductionTypeOK, ReducedFits
<1>8. CountFits'
  <2>1. \A p \in Targets : Uncounted(p)' = Uncounted(p)
    BY <1>1, TileKinds DEF RInv, WorkFits, Uncounted, At, Into, Reads, Before
  <2>. QED  BY <1>1, <2>1, CountKept
<1>9. TargetFits'
  <2>1. \A p \in Targets : Past(p)' = Past(p)
    BY <1>1, TileKinds DEF RInv, WorkFits, Past, At, Into, Reads, Before
  <2>. QED  BY <1>1, <2>1, TargetKept DEF At, Into
<1>10. BitmapFits'
  <2>1. AllReported' = AllReported  BY <1>1 DEF AllReported
  <2>2. ToCount' = ToCount
    BY <1>1 DEF ToCount, Reported, At, Into, RInv, TellFits
  <2>. QED  BY <1>1, <2>1, <2>2, BitmapKept DEF countVars
<1>. QED  BY <1>2, <1>3, <1>4, <1>5, <1>6, <1>7, <1>8, <1>9, <1>10 DEF RInv

LEMMA StartInv == ASSUME RInv, NEW w \in Reducers, NEW t \in Tiles, StartReduce(w, t) PROVE RInv'
<1>1. /\ reducing'[w].tile = t /\ reducing'[w].at = "initialize"
      /\ reducing[w] = ReducerIdle /\ reducing[w].at = "idle"
      /\ \A v \in Reducers \ {w} : reducing'[v] = reducing[v]
      /\ reducing' \in [Reducers -> {ReducerIdle} \cup [tile : Tiles, at : Places, old : BOOLEAN]]
      /\ t \in reductions /\ reductions' = reductions \ {t}
      /\ reports[t] = 1 /\ t \notin reduced[Parent[t]] /\ Parent[t] \in Targets
      /\ \A v \in Reducers : Reads(v) => reducing[v].tile # t
      /\ ~Reads(w) /\ tell[w] = {}
      /\ UNCHANGED <<open, tell, initialized, reduced, unfinished, mut, target, leaked, reports>>
      /\ UNCHANGED <<finishedCount, tooMany, finished>>
      /\ UNCHANGED countVars
  <2>1. /\ reducing[w] = ReducerIdle /\ t \in reductions /\ reductions' = reductions \ {t}
        /\ UNCHANGED <<open, tell, dataVars, coordVars, reports, countVars>>
        /\ reducing' = [reducing EXCEPT ![w] = [ReducerIdle EXCEPT !.tile = t, !.at = "initialize"]]
    BY DEF StartReduce
  <2>2. reducing[w].at = "idle" /\ ~Reads(w)  BY <2>1 DEF ReducerIdle, Reads
  <2>3. /\ reducing'[w].tile = t /\ reducing'[w].at = "initialize"
        /\ \A v \in Reducers \ {w} : reducing'[v] = reducing[v]
        /\ reducing' \in [Reducers -> {ReducerIdle} \cup [tile : Tiles, at : Places, old : BOOLEAN]]
    BY <2>1, BusyFacts DEF RInv, Places
  <2>4. tell[w] = {}  BY <2>2 DEF RInv, TellFits, At
  <2>5. reports[t] = 1 /\ t \notin reduced[Parent[t]]  BY <2>1 DEF RInv, WaitingFits
  <2>6. Parent[t] \in Targets  BY <2>1, TileKinds DEF RInv, ReductionTypeOK
  <2>7. \A v \in Reducers : Reads(v) => reducing[v].tile # t  BY <2>1 DEF RInv, WorkFits
  <2>. QED  BY <2>1, <2>2, <2>3, <2>4, <2>5, <2>6, <2>7 DEF dataVars, coordVars, countVars
<1>2. ReductionTypeOK'
  BY <1>1, TileKinds DEF RInv, ReductionTypeOK, Places
<1>3. OneEach'
  BY <1>1, TileKinds DEF RInv, ReductionTypeOK, OneEach, Reads, At
<1>4. WorkFits'
  BY <1>1, TileKinds DEF RInv, ReductionTypeOK, WorkFits, Reads, Before, At, Into
<1>5. TellFits'
  BY <1>1, TileKinds DEF RInv, ReductionTypeOK, TellFits, Reported, Reads, At, Into
<1>6. WaitingFits'
  BY <1>1, TileKinds DEF RInv, ReductionTypeOK, WaitingFits
<1>7. ReducedFits'
  BY <1>1, TileKinds DEF RInv, ReductionTypeOK, ReducedFits
<1>8. CountFits'
  <2>1. \A p \in Targets : Uncounted(p)' = Uncounted(p)
    BY <1>1, TileKinds DEF RInv, WorkFits, Uncounted, At, Into, Reads, Before
  <2>. QED  BY <1>1, <2>1, CountKept
<1>9. TargetFits'
  <2>1. \A p \in Targets : Past(p)' = Past(p)
    BY <1>1, TileKinds DEF RInv, WorkFits, Past, At, Into, Reads, Before
  <2>. QED  BY <1>1, <2>1, TargetKept DEF At, Into
<1>10. BitmapFits'
  <2>1. AllReported' = AllReported  BY <1>1 DEF AllReported
  <2>2. ToCount' = ToCount
    BY <1>1 DEF ToCount, Reported, At, Into, RInv, TellFits
  <2>. QED  BY <1>1, <2>1, <2>2, BitmapKept DEF countVars
<1>. QED  BY <1>2, <1>3, <1>4, <1>5, <1>6, <1>7, <1>8, <1>9, <1>10 DEF RInv

LEMMA FilledInv == ASSUME RInv, NEW w \in Reducers, TileFilled(w) PROVE RInv'
<1>1. /\ reducing'[w] = ReducerIdle /\ reducing'[w].at = "idle" /\ reducing[w].at = "filled"
      /\ \A v \in Reducers \ {w} : reducing'[v] = reducing[v]
      /\ reducing' \in [Reducers -> {ReducerIdle} \cup [tile : Tiles, at : Places, old : BOOLEAN]]
      /\ tell[w] = {}
      /\ UNCHANGED <<open, reductions, tell, initialized, reduced, unfinished, mut, target, leaked, reports>>
      /\ UNCHANGED <<finishedCount, tooMany, finished>>
      /\ UNCHANGED countVars
  BY RecordFacts, IdleReducer DEF TileFilled, dataVars, coordVars, countVars, RInv, ReductionTypeOK, Places, At, Into, ReducerIdle, Goto, Reads, Before, WorkFits
<1>2. ReductionTypeOK'
  BY <1>1, TileKinds DEF RInv, ReductionTypeOK, Places
<1>3. OneEach'
  BY <1>1, TileKinds DEF RInv, ReductionTypeOK, OneEach, Reads, At
<1>4. WorkFits'
  BY <1>1, TileKinds DEF RInv, ReductionTypeOK, WorkFits, Reads, Before, At, Into
<1>5. TellFits'
  BY <1>1, TileKinds, SMTT(60) DEF RInv, ReductionTypeOK, TellFits, Reported, Reads, At, Into
<1>6. WaitingFits'
  BY <1>1, TileKinds DEF RInv, ReductionTypeOK, WaitingFits
<1>7. ReducedFits'
  BY <1>1, TileKinds DEF RInv, ReductionTypeOK, ReducedFits
<1>8. CountFits'
  <2>1. \A p \in Targets : Uncounted(p)' = Uncounted(p)
    BY <1>1, TileKinds DEF RInv, WorkFits, Uncounted, At, Into, Reads, Before
  <2>. QED  BY <1>1, <2>1, CountKept
<1>9. TargetFits'
  <2>1. \A p \in Targets : Past(p)' = Past(p)
    BY <1>1, TileKinds DEF RInv, WorkFits, Past, At, Into, Reads, Before
  <2>. QED  BY <1>1, <2>1, TargetKept DEF At, Into
<1>10. BitmapFits'
  <2>1. AllReported' = AllReported  BY <1>1 DEF AllReported
  <2>2. ToCount' = ToCount
    BY <1>1 DEF ToCount, Reported, At, Into, RInv, TellFits
  <2>. QED  BY <1>1, <2>1, <2>2, BitmapKept DEF countVars
<1>. QED  BY <1>2, <1>3, <1>4, <1>5, <1>6, <1>7, <1>8, <1>9, <1>10 DEF RInv

LEMMA FinishInv == ASSUME RInv, NEW w \in Reducers, Finish(w) PROVE RInv'
<1>1. /\ reducing'[w] = ReducerIdle /\ reducing'[w].at = "idle" /\ reducing[w].at = "reporting"
      /\ \A v \in Reducers \ {w} : reducing'[v] = reducing[v]
      /\ reducing' \in [Reducers -> {ReducerIdle} \cup [tile : Tiles, at : Places, old : BOOLEAN]]
      /\ tell[w] = {} /\ Into(w) \in Targets /\ Reads(w)
      /\ target' = [target EXCEPT ![Into(w)] = FALSE]
      /\ mut' = [mut EXCEPT ![Into(w)] = NoTile]
      /\ \A v \in Reducers \ {w} : At(v, "reporting") => Into(v) # Into(w)
      /\ UNCHANGED <<open, reductions, tell, initialized, reduced, unfinished, leaked, reports>>
      /\ UNCHANGED <<finishedCount, tooMany, finished>>
      /\ UNCHANGED countVars
  BY RecordFacts, IdleReducer, TileKinds DEF Finish, AfterReport, dataVars, coordVars, countVars, RInv, ReductionTypeOK, Places, At, Into, ReducerIdle, Goto, Reads, Before, WorkFits
<1>2. ReductionTypeOK'
  BY <1>1, TileKinds DEF RInv, ReductionTypeOK, Places
<1>3. OneEach'
  BY <1>1, TileKinds DEF RInv, ReductionTypeOK, OneEach, Reads, At
<1>4. WorkFits'
  BY <1>1, TileKinds DEF RInv, ReductionTypeOK, WorkFits, Reads, Before, At, Into
<1>5. TellFits'
  <2>1. \A v \in Reducers \ {w} : Reported(v)' = Reported(v) /\ Into(v)' = Into(v)
    BY <1>1 DEF Reported, At, Into
  <2>2. ASSUME NEW v \in Reducers \ {w}
        PROVE  /\ Reads(v)' <=> Reads(v)
               /\ At(v, "filled")' <=> At(v, "filled")
               /\ At(v, "reporting")' <=> At(v, "reporting")
               /\ reducing'[v].tile = reducing[v].tile
    <3>1. reducing'[v] = reducing[v]  BY <1>1
    <3>. QED  BY <3>1 DEF Reads, At
  <2>3. ~Reads(w)'  BY <1>1 DEF Reads
  <2>. QED  BY <1>1, <2>1, <2>2, <2>3 DEF RInv, TellFits
<1>6. WaitingFits'
  BY <1>1, TileKinds DEF RInv, ReductionTypeOK, WaitingFits
<1>7. ReducedFits'
  BY <1>1, TileKinds DEF RInv, ReductionTypeOK, ReducedFits
<1>8. CountFits'
  <2>1. \A p \in Targets : Uncounted(p)' = Uncounted(p)
    BY <1>1, TileKinds DEF RInv, WorkFits, Uncounted, At, Into, Reads, Before
  <2>. QED  BY <1>1, <2>1, CountKept
<1>9. TargetFits'
  <2>1. \A p \in Targets : Past(p)' = Past(p)
    BY <1>1 DEF Past, At
  <2>2. target \in [Targets -> BOOLEAN]  BY DEF RInv, ReductionTypeOK
  <2>3. /\ ~target'[Into(w)]
        /\ \A p \in Targets \ {Into(w)} : target'[p] = target[p]
    BY <1>1, <2>2
  <2>4. ASSUME NEW p \in Targets \ {Into(w)}, target[p], reports[p] = 1
        PROVE  \E v \in Reducers : At(v, "reporting")' /\ Into(v)' = p
    <3>1. PICK v \in Reducers : At(v, "reporting") /\ Into(v) = p
      BY <2>4 DEF RInv, TargetFits
    <3>2. v # w  BY <3>1
    <3>. QED  BY <1>1, <3>1, <3>2 DEF At, Into
  <2>5. \A p \in Targets : /\ target[p] => Past(p) # {}
                           /\ leaked[p] = 0 \/ leaked[p] < Cardinality(Past(p))
    BY DEF RInv, TargetFits
  <2>. QED  BY <1>1, <2>1, <2>3, <2>4, <2>5 DEF TargetFits
<1>10. BitmapFits'
  <2>1. AllReported' = AllReported  BY <1>1 DEF AllReported
  <2>2. ToCount' = ToCount
    BY <1>1 DEF ToCount, Reported, At, Into, RInv, TellFits
  <2>. QED  BY <1>1, <2>1, <2>2, BitmapKept DEF countVars
<1>. QED  BY <1>2, <1>3, <1>4, <1>5, <1>6, <1>7, <1>8, <1>9, <1>10 DEF RInv

-----------------------------------------------------------------------------
(* Reporting a tile.                                                       *)

LEMMA ObserversFit ==
    ASSUME NEW t \in Tiles
    PROVE  /\ TileObservers(t) \subseteq Targets \cup {TheBitmap}
           /\ \A p \in Targets \cap TileObservers(t) : p = Parent[t]
BY TileKinds DEF TileObservers

\* Nobody has done anything yet with a tile that has not been reported.
LEMMA NotReported ==
    ASSUME RInv, NEW t \in Tiles, reports[t] = 0
    PROVE  /\ t \notin reductions
           /\ \A p \in Targets : t \notin reduced[p]
           /\ \A v \in Reducers : Reads(v) => reducing[v].tile # t
           /\ \A v \in Reducers : At(v, "reporting") => Into(v) # t
BY DEF RInv, WaitingFits, ReducedFits, WorkFits, At

LEMMA ReportsOne ==
    ASSUME RInv, NEW t \in Tiles, reports[t] = 0, reports' = [reports EXCEPT ![t] = @ + 1]
    PROVE  /\ reports' \in [Tiles -> 0..1] /\ reports'[t] = 1
           /\ \A x \in Tiles \ {t} : reports'[x] = reports[x]
           /\ AllReported' = AllReported \cup {t}
           /\ t \notin AllReported
<1>1. reports \in [Tiles -> 0..1]  BY DEF RInv, ReductionTypeOK
<1>2. /\ reports' \in [Tiles -> 0..1] /\ reports'[t] = 1
      /\ \A x \in Tiles \ {t} : reports'[x] = reports[x]
  BY <1>1
<1>. QED  BY <1>2 DEF AllReported

LEMMA OneMoreToCount ==
    ASSUME RInv, NEW t \in Tiles, reports[t] = 0, reports' = [reports EXCEPT ![t] = @ + 1],
           ToCount' \subseteq ToCount \cup {t}, UNCHANGED countVars
    PROVE  BitmapFits'
<1>1. AllReported' = AllReported \cup {t} /\ t \notin AllReported /\ AllReported \subseteq Tiles
  BY ReportsOne DEF AllReported
<1>2. ToCount \subseteq Tiles /\ ToCount \cup {t} \subseteq Tiles  BY DEF ToCount
<1>3. /\ Cardinality(AllReported') = Cardinality(AllReported) + 1
      /\ Cardinality(AllReported) \in Nat
  BY <1>1, TileIn, TilesFinite
<1>4. Cardinality(ToCount \cup {t}) <= Cardinality(ToCount) + 1 /\ Cardinality(ToCount) \in Nat
  <2>1. CASE t \in ToCount
    <3>1. ToCount \cup {t} = ToCount  BY <2>1
    <3>2. Cardinality(ToCount) \in Nat  BY <1>2, TilesFinite
    <3>. QED  BY <3>1, <3>2
  <2>2. CASE t \notin ToCount
    BY <1>2, <2>2, TileIn, TilesFinite
  <2>. QED  BY <2>1, <2>2
<1>5. Cardinality(ToCount') <= Cardinality(ToCount \cup {t}) /\ Cardinality(ToCount') \in Nat
      /\ Cardinality(ToCount \cup {t}) \in Nat
  <2>1. IsFiniteSet(ToCount \cup {t}) /\ Cardinality(ToCount \cup {t}) \in Nat
    BY <1>2, TilesFinite
  <2>2. ToCount' \subseteq Tiles  BY <1>2
  <2>3. Cardinality(ToCount') \in Nat  BY <2>2, TilesFinite
  <2>. QED  BY <2>1, <2>3, FS_Subset
<1>6. finishedCount \in Nat  BY DEF RInv, ReductionTypeOK
<1>7. finishedCount' + Cardinality(ToCount') <= Cardinality(AllReported')
  BY <1>3, <1>4, <1>5, <1>6 DEF RInv, BitmapFits, countVars
<1>. QED  BY <1>7 DEF RInv, BitmapFits, countVars

LEMMA FillInv == ASSUME RInv, NEW w \in Reducers, NEW t \in Bottom, FillTile(w, t) PROVE RInv'
<1>1. /\ reducing'[w].tile = t /\ reducing'[w].at = "filled"
      /\ reducing[w] = ReducerIdle /\ reducing[w].at = "idle"
      /\ \A v \in Reducers \ {w} : reducing'[v] = reducing[v]
      /\ reducing' \in [Reducers -> {ReducerIdle} \cup [tile : Tiles, at : Places, old : BOOLEAN]]
      /\ t \in Tiles /\ reports[t] = 0 /\ reports' = [reports EXCEPT ![t] = @ + 1]
      /\ reports' \in [Tiles -> 0..1] /\ reports'[t] = 1
      /\ \A x \in Tiles \ {t} : reports'[x] = reports[x]
      /\ \A v \in Reducers : ~At(v, "filled")
      /\ ~Reads(w) /\ ~Reads(w)' /\ tell[w] = {}
      /\ tell' = [tell EXCEPT ![w] = TileObservers(t)]
      /\ tell'[w] = TileObservers(t)
      /\ \A v \in Reducers \ {w} : tell'[v] = tell[v]
      /\ UNCHANGED <<open, reductions, initialized, reduced, unfinished, mut, target, leaked>>
      /\ UNCHANGED countVars /\ UNCHANGED <<finishedCount, tooMany, finished>>
  <2>1. /\ reducing[w] = ReducerIdle /\ reports[t] = 0
        /\ \A v \in Reducers : ~At(v, "filled")
        /\ reducing' = [reducing EXCEPT ![w] = [ReducerIdle EXCEPT !.tile = t, !.at = "filled"]]
        /\ reports' = [reports EXCEPT ![t] = @ + 1]
        /\ tell' = [tell EXCEPT ![w] = TileObservers(t)]
        /\ UNCHANGED <<open, reductions, dataVars, coordVars, countVars>>
    BY DEF FillTile, ReportTile
  <2>2. t \in Tiles  BY TileKinds
  <2>3. /\ reducing'[w].tile = t /\ reducing'[w].at = "filled"
        /\ \A v \in Reducers \ {w} : reducing'[v] = reducing[v]
        /\ reducing' \in [Reducers -> {ReducerIdle} \cup [tile : Tiles, at : Places, old : BOOLEAN]]
    BY <2>1, <2>2, BusyFacts DEF RInv, Places
  <2>4. reducing[w].at = "idle" /\ ~Reads(w) /\ ~Reads(w)'
    BY <2>1, <2>3 DEF ReducerIdle, Reads
  <2>5. tell[w] = {}  BY <2>4 DEF RInv, TellFits, At
  <2>6. tell \in [Reducers -> SUBSET (Targets \cup {TheBitmap})]  BY DEF RInv, ReductionTypeOK
  <2>. QED  BY <2>1, <2>2, <2>3, <2>4, <2>5, <2>6, ReportsOne, ZenonT(60) DEF dataVars, coordVars, countVars
<1>2. ReductionTypeOK'
  <2>1. TileObservers(t) \subseteq Targets \cup {TheBitmap}  BY <1>1, ObserversFit
  <2>. QED  BY <1>1, <2>1 DEF RInv, ReductionTypeOK
<1>3. OneEach'
  <2>1. \A v \in Reducers : Reads(v)' <=> Reads(v)  BY <1>1 DEF Reads
  <2>. QED  BY <1>1, <2>1 DEF RInv, OneEach, Reads, At
<1>4. WorkFits'
  <2>1. ASSUME NEW v \in Reducers, Reads(v)
        PROVE  reports'[reducing[v].tile] = 1
    BY <1>1, <2>1, RecordFacts DEF RInv, WorkFits
  <2>2. ASSUME NEW v \in Reducers, At(v, "reporting")
        PROVE  reports'[Into(v)] = 1
    BY <1>1, <2>2, RecordFacts, TileKinds DEF RInv, WorkFits, Reads, At, Into
  <2>3. ASSUME NEW v \in Reducers \ {w}
        PROVE  /\ Reads(v)' <=> Reads(v)
               /\ Before(v)' <=> Before(v)
               /\ \A a : At(v, a)' <=> At(v, a)
               /\ reducing'[v].tile = reducing[v].tile
               /\ Into(v)' = Into(v)
    <3>1. reducing'[v] = reducing[v]  BY <1>1
    <3>. QED  BY <3>1 DEF Reads, Before, At, Into
  <2>4. ~At(w, "reporting")' /\ ~Reads(w)'  BY <1>1 DEF At
  <2>. QED  BY <1>1, <2>1, <2>2, <2>3, <2>4 DEF RInv, WorkFits
<1>5. TellFits'
  <2>1. ASSUME NEW v \in Reducers \ {w}
        PROVE  /\ Reads(v)' <=> Reads(v)
               /\ \A a : At(v, a)' <=> At(v, a)
               /\ reducing'[v].tile = reducing[v].tile
               /\ Reported(v)' = Reported(v)
    <3>1. reducing'[v] = reducing[v]  BY <1>1
    <3>. QED  BY <3>1 DEF Reads, At, Into, Reported
  <2>2. Reported(w)' = t /\ At(w, "filled")' /\ ~Reads(w)'  BY <1>1 DEF Reported, At
  <2>3. \A p \in Targets \cap tell'[w] :
             /\ p = Parent[t] /\ t \notin reductions /\ t \notin reduced[p]
             /\ \A v \in Reducers : Reads(v) => reducing[v].tile # t
    BY <1>1, ObserversFit, NotReported
  <2>. QED  BY <1>1, <2>1, <2>2, <2>3 DEF RInv, TellFits
<1>6. WaitingFits'
  BY <1>1, NotReported, TileKinds DEF RInv, WaitingFits, ReductionTypeOK
<1>7. ReducedFits'
  BY <1>1, NotReported, TileKinds DEF RInv, ReducedFits, ReductionTypeOK
<1>8. CountFits'
  <2>1. \A p \in Targets : Uncounted(p)' = Uncounted(p)
    BY <1>1 DEF Uncounted, At
  <2>2. \A p \in Targets : reports'[p] = reports[p]
    BY <1>1, TileKinds
  <2>. QED  BY <1>1, <2>1, <2>2 DEF RInv, CountFits
<1>9. TargetFits'
  <2>1. \A p \in Targets : Past(p)' = Past(p)
    BY <1>1 DEF Past, At
  <2>2. \A p \in Targets : reports'[p] = reports[p]
    BY <1>1, TileKinds
  <2>3. ASSUME NEW p \in Targets, target[p], reports[p] = 1
        PROVE  \E v \in Reducers : At(v, "reporting")' /\ Into(v)' = p
    <3>1. PICK v \in Reducers : At(v, "reporting") /\ Into(v) = p
      BY <2>3 DEF RInv, TargetFits
    <3>2. v # w  BY <1>1, <3>1 DEF At
    <3>. QED  BY <1>1, <3>1, <3>2 DEF At, Into
  <2>. QED  BY <1>1, <2>1, <2>2, <2>3 DEF RInv, TargetFits
<1>10. BitmapFits'
  <2>1. \A v \in Reducers \ {w} : Reported(v)' = Reported(v) /\ tell'[v] = tell[v]
    BY <1>1 DEF Reported, At, Into
  <2>2. Reported(w)' = t  BY <1>1 DEF Reported, At
  <2>3. ToCount' \subseteq ToCount \cup {t}
    BY <2>1, <2>2 DEF ToCount
  <2>. QED  BY <1>1, <2>3, OneMoreToCount
<1>. QED  BY <1>2, <1>3, <1>4, <1>5, <1>6, <1>7, <1>8, <1>9, <1>10 DEF RInv

-----------------------------------------------------------------------------
(* Counting.                                                               *)

LEMMA CountsDown ==
    ASSUME RInv, NEW w \in Reducers, At(w, "count"), Into(w) \in Targets,
           reducing'[w].at # "count",
           \A v \in Reducers \ {w} : reducing'[v] = reducing[v],
           reduced' = reduced,
           unfinished' = [unfinished EXCEPT ![Into(w)] = unfinished[Into(w)] - 1]
    PROVE  /\ \A p \in Targets : unfinished'[p] = Cardinality(Uncounted(p)')
           /\ unfinished' \in [Targets -> 0..Cardinality(Tiles)]
           /\ \A p \in Targets \ {Into(w)} : unfinished'[p] = unfinished[p]
           /\ unfinished'[Into(w)] = unfinished[Into(w)] - 1
           /\ unfinished[Into(w)] # 0
<1>0. PICK q \in Targets, t \in Tiles : q = Into(w) /\ t = reducing[w].tile
  BY RecordFacts DEF RInv, Reads, At
<1>1. Reads(w) /\ ~Before(w)  BY DEF Reads, Before, At
<1>2. t \in Sources(q) /\ t \in reduced[q]
  BY <1>0, <1>1, TileKinds DEF RInv, WorkFits, Into
<1>3. ASSUME NEW v \in Reducers \ {w}, At(v, "count") PROVE reducing[v].tile # t
  BY <1>0, <1>1, <1>3 DEF RInv, OneEach, Reads, At
<1>4. t \in Uncounted(q)  BY <1>0, <1>2 DEF Uncounted
<1>5. Uncounted(q)' = Uncounted(q) \ {t}
  <2>1. \A x \in Sources(q) \ {t} : x \in Uncounted(q)' <=> x \in Uncounted(q)
    BY <1>0 DEF Uncounted, At
  <2>2. t \notin Uncounted(q)'
    BY <1>0, <1>2, <1>3 DEF Uncounted, At
  <2>3. Uncounted(q) \subseteq Sources(q) /\ Uncounted(q)' \subseteq Sources(q)
    BY DEF Uncounted
  <2>. QED  BY <2>1, <2>2, <2>3
<1>6. \A p \in Targets \ {q} : Uncounted(p)' = Uncounted(p)
  BY <1>0, <1>2, TileKinds DEF Uncounted, At
<1>7. unfinished \in [Targets -> 0..Cardinality(Tiles)]  BY DEF RInv, ReductionTypeOK
<1>8. \A p \in Targets : Uncounted(p) \subseteq Tiles  BY TileKinds DEF Uncounted
<1>9. /\ Cardinality(Uncounted(q) \ {t}) = Cardinality(Uncounted(q)) - 1
      /\ Cardinality(Uncounted(q)) \in Nat \ {0}
      /\ Cardinality(Uncounted(q)) <= Cardinality(Tiles)
      /\ Cardinality(Tiles) \in Nat
  BY <1>4, <1>8, TileOut, TilesFinite
<1>10. unfinished[q] = Cardinality(Uncounted(q))
       /\ \A p \in Targets : unfinished[p] = Cardinality(Uncounted(p))
  BY DEF RInv, CountFits
<1>11. /\ unfinished'[q] = unfinished[q] - 1
       /\ \A p \in Targets \ {q} : unfinished'[p] = unfinished[p]
       /\ unfinished' \in [Targets -> 0..Cardinality(Tiles)]
  BY <1>0, <1>7, <1>9, <1>10
<1>. QED  BY <1>0, <1>5, <1>6, <1>9, <1>10, <1>11, ZenonT(60)

LEMMA CountInv == ASSUME RInv, NEW w \in Reducers, Count(w) PROVE RInv'
<1>0. /\ reducing[w].at = "count" /\ reducing[w] # ReducerIdle /\ Reads(w) /\ ~Before(w)
      /\ reducing[w].tile \in Tiles /\ Parent[reducing[w].tile] # NoTile
      /\ Into(w) \in Targets /\ Into(w) \in Tiles
      /\ reducing[w].tile \in Sources(Into(w))
      /\ unfinished' = [unfinished EXCEPT ![Into(w)] = unfinished[Into(w)] - 1]
      /\ tell[w] = {}
      /\ UNCHANGED <<open, reductions, initialized, reduced, target, leaked>>
      /\ UNCHANGED countVars /\ UNCHANGED <<finishedCount, tooMany, finished>>
  <2>1. reducing[w].at = "count" /\ reducing[w] # ReducerIdle /\ Reads(w) /\ ~Before(w)
    BY DEF Count, At, Reads, Before, ReducerIdle
  <2>2. /\ reducing[w].tile \in Tiles /\ Parent[reducing[w].tile] # NoTile
        /\ Into(w) \in Targets
    BY <2>1, RecordFacts, TileKinds DEF RInv, WorkFits, Into
  <2>3. tell[w] = {}  BY <2>1 DEF RInv, TellFits, At
  <2>. QED  BY <2>1, <2>2, <2>3, TileKinds DEF Count, dataVars, countVars, Into
<1>. DEFINE last == unfinished[Into(w)] - 1 = 0
<1>1. /\ last => /\ mut' = [mut EXCEPT ![Into(w)] = w]
                 /\ reducing' = [reducing EXCEPT ![w].at = "reporting"]
                 /\ reports' = [reports EXCEPT ![Into(w)] = @ + 1]
                 /\ tell' = [tell EXCEPT ![w] = TileObservers(Into(w))]
      /\ ~last => /\ reducing' = [reducing EXCEPT ![w] = ReducerIdle]
                  /\ UNCHANGED <<mut, tell, reports>>
  BY DEF Count, AllIn, ReportTile, Goto
<1>2. /\ last => reducing'[w].tile = reducing[w].tile /\ reducing'[w].at = "reporting"
      /\ ~last => reducing'[w] = ReducerIdle
      /\ \A v \in Reducers \ {w} : reducing'[v] = reducing[v]
      /\ reducing' \in [Reducers -> {ReducerIdle} \cup [tile : Tiles, at : Places, old : BOOLEAN]]
      /\ reducing'[w].at # "count"
  <2>1. CASE last
    <3>1. reducing' = [reducing EXCEPT ![w].at = "reporting"] /\ "reporting" \in Places
      BY <1>1, <2>1 DEF Places
    <3>. QED  BY <1>0, <2>1, <3>1, GotoFacts DEF RInv
  <2>2. CASE ~last
    BY <1>1, <2>2, IdleReducer DEF RInv
  <2>. QED  BY <2>1, <2>2
<1>3. /\ \A p \in Targets : unfinished'[p] = Cardinality(Uncounted(p)')
      /\ unfinished' \in [Targets -> 0..Cardinality(Tiles)]
      /\ \A p \in Targets \ {Into(w)} : unfinished'[p] = unfinished[p]
      /\ unfinished'[Into(w)] = unfinished[Into(w)] - 1
      /\ unfinished[Into(w)] # 0
  BY <1>0, <1>2, CountsDown DEF At
<1>4. reports[Into(w)] = 0
  BY <1>0, <1>3 DEF RInv, CountFits, ReductionTypeOK
<1>5. \A p \in Targets : Past(p)' = Past(p)
  BY <1>0, <1>2 DEF Past, At, ReducerIdle
<1>6. ASSUME NEW v \in Reducers \ {w}
      PROVE  /\ Reads(v)' <=> Reads(v)
             /\ Before(v)' <=> Before(v)
             /\ \A a : At(v, a)' <=> At(v, a)
             /\ reducing'[v].tile = reducing[v].tile
             /\ Into(v)' = Into(v) /\ Reported(v)' = Reported(v)
  <2>1. reducing'[v] = reducing[v]  BY <1>2
  <2>. QED  BY <2>1 DEF Reads, Before, At, Into, Reported
<1>7. CASE ~last
  <2>1. /\ reducing'[w] = ReducerIdle /\ ~Reads(w)' /\ reducing'[w].at = "idle"
        /\ UNCHANGED <<mut, tell, reports>>
    BY <1>1, <1>2, <1>7 DEF Reads, ReducerIdle
  <2>2. ReductionTypeOK'  BY <1>0, <1>2, <1>3, <2>1 DEF RInv, ReductionTypeOK
  <2>3. OneEach'  BY <1>6, <2>1 DEF RInv, OneEach, At
  <2>4. WorkFits'  BY <1>0, <1>6, <2>1, SMTT(60) DEF RInv, WorkFits, At
  <2>5. TellFits'  BY <1>0, <1>6, <2>1 DEF RInv, TellFits
  <2>6. WaitingFits' /\ ReducedFits'  BY <1>0, <2>1 DEF RInv, WaitingFits, ReducedFits
  <2>7. CountFits'  BY <1>3, <1>4, <2>1 DEF RInv, CountFits
  <2>8. TargetFits'
    <3>1. \A v \in Reducers : At(v, "reporting") => v # w  BY <1>0 DEF At
    <3>. QED  BY <1>0, <1>5, <1>6, <2>1, <3>1, TargetKept
  <2>9. BitmapFits'
    <3>1. AllReported' = AllReported  BY <2>1 DEF AllReported
    <3>2. ToCount' = ToCount  BY <1>0, <1>6, <2>1 DEF ToCount
    <3>. QED  BY <1>0, <3>1, <3>2, BitmapKept
  <2>. QED  BY <2>2, <2>3, <2>4, <2>5, <2>6, <2>7, <2>8, <2>9 DEF RInv
<1>8. CASE last
  <2>0. PICK q \in Targets : q = Into(w)  BY <1>0
  <2>1. /\ reducing'[w].tile = reducing[w].tile /\ reducing'[w].at = "reporting"
        /\ Reads(w)' /\ ~Before(w)' /\ At(w, "reporting")' /\ Into(w)' = q /\ Reported(w)' = q
        /\ q \in Tiles /\ reports[q] = 0
    BY <1>0, <1>2, <1>4, <1>8, <2>0 DEF Reads, Before, At, Into, Reported
  <2>2. /\ mut' = [mut EXCEPT ![q] = w]
        /\ reports' = [reports EXCEPT ![q] = @ + 1]
        /\ tell' = [tell EXCEPT ![w] = TileObservers(q)]
    BY <1>1, <1>8, <2>0
  <2>3. /\ reports' \in [Tiles -> 0..1] /\ reports'[q] = 1
        /\ \A x \in Tiles \ {q} : reports'[x] = reports[x]
    BY <2>1, <2>2, ReportsOne
  <2>4. /\ tell' \in [Reducers -> SUBSET (Targets \cup {TheBitmap})]
        /\ tell'[w] = TileObservers(q)
        /\ \A v \in Reducers \ {w} : tell'[v] = tell[v]
    BY <2>1, <2>2, ObserversFit DEF RInv, ReductionTypeOK
  <2>5. /\ mut' \in [Targets -> Reducers \cup {NoTile}] /\ mut'[q] = w
        /\ \A p \in Targets \ {q} : mut'[p] = mut[p]
    BY <2>2 DEF RInv, ReductionTypeOK
  <2>6. ReductionTypeOK'  BY <1>0, <1>2, <1>3, <2>3, <2>4, <2>5 DEF RInv, ReductionTypeOK
  <2>7. OneEach'  BY <1>0, <1>6, <2>1 DEF RInv, OneEach, At
  <2>8. WorkFits'
    <3>1. ASSUME NEW v \in Reducers, Reads(v)
          PROVE  reports'[reducing[v].tile] = 1
      BY <2>1, <2>3, <3>1, RecordFacts DEF RInv, WorkFits
    <3>2. ASSUME NEW v \in Reducers, At(v, "reporting")
          PROVE  reports'[Into(v)] = 1 /\ Into(v) # q /\ Into(v) \in Targets
      BY <2>1, <2>3, <3>2, RecordFacts, TileKinds DEF RInv, WorkFits, Reads, At, Into
    <3>3. ~At(w, "filled")'  BY <2>1 DEF At
    <3>4. ASSUME NEW v \in Reducers, Reads(v)'
          PROVE  /\ Parent[reducing'[v].tile] # NoTile
                 /\ reports'[reducing'[v].tile] = 1
                 /\ reducing'[v].tile \notin reductions'
                 /\ Before(v)' <=> reducing'[v].tile \notin reduced'[Into(v)']
                 /\ At(v, "initialize")' \/ Into(v)' \in initialized'
      <4>1. CASE v = w
        <5>1. ~At(w, "initialize")  BY <1>0 DEF At
        <5>2. q \in initialized /\ reducing[w].tile \in reduced[q] /\ reducing[w].tile \notin reductions
          BY <1>0, <2>0, <5>1 DEF RInv, WorkFits
        <5>. QED  BY <1>0, <2>1, <3>1, <4>1, <5>2
      <4>2. CASE v # w  BY <1>0, <1>6, <3>1, <3>4, <4>2 DEF RInv, WorkFits
      <4>. QED  BY <4>1, <4>2
    <3>5. ASSUME NEW v \in Reducers, At(v, "reporting")'
          PROVE  reports'[Into(v)'] = 1 /\ mut'[Into(v)'] = v
      <4>1. CASE v = w  BY <2>1, <2>3, <2>5, <4>1
      <4>2. CASE v # w  BY <1>6, <2>5, <3>2, <3>5, <4>2 DEF RInv, WorkFits
      <4>. QED  BY <4>1, <4>2
    <3>6. ASSUME NEW v \in Reducers, At(v, "filled")'
          PROVE  reducing'[v].tile \in Bottom /\ reports'[reducing'[v].tile] = 1
      <4>1. v # w /\ At(v, "filled")  BY <1>6, <3>3, <3>6
      <4>2. reducing[v].tile \in Bottom /\ reports[reducing[v].tile] = 1
        BY <4>1 DEF RInv, WorkFits
      <4>. QED  BY <1>6, <2>1, <2>3, <4>1, <4>2, TileKinds
    <3>. QED  BY <3>4, <3>5, <3>6 DEF WorkFits
  <2>9. TellFits'
    <3>1. \A p \in Targets \cap tell'[w] :
             /\ p = Parent[q] /\ q \notin reductions /\ q \notin reduced[p]
             /\ \A v \in Reducers : Reads(v) => reducing[v].tile # q
      BY <2>1, <2>4, ObserversFit, NotReported
    <3>2. \A v \in Reducers : Reads(v)' => Reads(v) /\ reducing'[v].tile = reducing[v].tile
      BY <1>0, <1>6, <2>1
    <3>. QED  BY <1>0, <1>6, <2>1, <2>4, <3>1, <3>2 DEF RInv, TellFits
  <2>10. WaitingFits' /\ ReducedFits'
    BY <1>0, <2>1, <2>3, NotReported, TileKinds DEF RInv, WaitingFits, ReducedFits, ReductionTypeOK
  <2>11. CountFits'
    <3>1. unfinished'[q] = 0  BY <1>3, <1>8, <2>0
    <3>2. \A p \in Targets : reports'[p] = 1 => p = q \/ reports[p] = 1  BY <2>3, TileKinds
    <3>. QED  BY <1>3, <2>0, <3>1, <3>2 DEF RInv, CountFits
  <2>12. TargetFits'
    <3>1. ASSUME NEW p \in Targets, target'[p], reports'[p] = 1
          PROVE  \E v \in Reducers : At(v, "reporting")' /\ Into(v)' = p
      <4>1. CASE p = q  BY <2>1, <4>1
      <4>2. CASE p # q
        <5>1. reports[p] = 1 /\ target[p]  BY <1>0, <2>3, <3>1, <4>2, TileKinds
        <5>2. PICK v \in Reducers : At(v, "reporting") /\ Into(v) = p
          BY <5>1 DEF RInv, TargetFits
        <5>3. v # w  BY <1>0, <5>2 DEF At
        <5>. QED  BY <1>6, <5>2, <5>3
      <4>. QED  BY <4>1, <4>2
    <3>. QED  BY <1>0, <1>5, <3>1 DEF RInv, TargetFits
  <2>13. BitmapFits'
    <3>1. ToCount' \subseteq ToCount \cup {q}
      BY <1>6, <2>1, <2>4 DEF ToCount
    <3>. QED  BY <1>0, <2>1, <2>2, <3>1, OneMoreToCount
  <2>. QED  BY <2>6, <2>7, <2>8, <2>9, <2>10, <2>11, <2>12, <2>13 DEF RInv
<1>. QED  BY <1>7, <1>8

-----------------------------------------------------------------------------
(* The invariant, and what follows from it.                                *)

LEMMA ReductionInitInv == ReductionInit => RInv
<1>. SUFFICES ASSUME ReductionInit PROVE RInv  OBVIOUS
<1>1. \A w \in Reducers : /\ reducing[w] = ReducerIdle /\ reducing[w].at = "idle"
                          /\ ~Reads(w) /\ ~Before(w) /\ ~At(w, "filled") /\ ~At(w, "reporting")
                          /\ ~At(w, "count") /\ ~At(w, "reduce") /\ tell[w] = {}
  BY DEF ReductionInit, ReducerIdle, Reads, Before, At
<1>2. \A p \in Targets : /\ Sources(p) \subseteq Tiles
                         /\ Cardinality(Sources(p)) \in 0..Cardinality(Tiles)
  BY TileKinds, TilesFinite
<1>3. ReductionTypeOK
  BY <1>1, <1>2 DEF ReductionInit, ReductionTypeOK
<1>4. OneEach /\ WorkFits /\ TellFits /\ WaitingFits /\ ReducedFits
  BY <1>1 DEF ReductionInit, OneEach, WorkFits, TellFits, WaitingFits, ReducedFits
<1>5. \A p \in Targets : Uncounted(p) = Sources(p) /\ Past(p) = {}
  BY <1>1 DEF ReductionInit, Uncounted, Past
<1>6. \A t \in Tiles : reports[t] = 0  BY DEF ReductionInit
<1>7. CountFits /\ TargetFits
  BY <1>5, <1>6, TileKinds DEF ReductionInit, CountFits, TargetFits
<1>8. BitmapFits
  <2>1. AllReported = {} /\ ToCount = {}  BY <1>1, <1>6 DEF AllReported, ToCount
  <2>. QED  BY <2>1, FS_EmptySet DEF ReductionInit, BitmapFits
<1>. QED  BY <1>3, <1>4, <1>7, <1>8 DEF RInv

LEMMA ReductionStepInv == RInv /\ [ReductionNext]_reductionVars => RInv'
<1>. SUFFICES ASSUME RInv, [ReductionNext]_reductionVars PROVE RInv'  OBVIOUS
<1>1. CASE UNCHANGED reductionVars
  <2>1. /\ UNCHANGED <<open, reductions, reducing, tell, initialized, reduced, unfinished, mut>>
        /\ UNCHANGED <<target, leaked, reports, finishedCount, tooMany, finished, countVars>>
    BY <1>1 DEF reductionVars, dataVars, coordVars, countVars
  <2>2. ReductionTypeOK' /\ OneEach' /\ WaitingFits' /\ ReducedFits'
    BY <2>1 DEF RInv, ReductionTypeOK, OneEach, Reads, At, WaitingFits, ReducedFits
  <2>3. WorkFits'  BY <2>1 DEF RInv, WorkFits, Reads, Before, At, Into
  <2>4. TellFits'  BY <2>1 DEF RInv, TellFits, Reported, Reads, At, Into
  <2>5. CountFits'  BY <2>1, CountKept DEF Uncounted, At
  <2>6. TargetFits'  BY <2>1, TargetKept DEF Past, At, Into
  <2>7. BitmapFits'  BY <2>1, BitmapKept DEF AllReported, ToCount, Reported, At, Into
  <2>. QED  BY <2>2, <2>3, <2>4, <2>5, <2>6, <2>7 DEF RInv
<1>2. ASSUME NEW w \in Reducers, ReducerStep(w) PROVE RInv'
  BY <1>2, FillInv, FilledInv, TellCoordinatorInv, TellBitmapInv, StartInv, InitializeInv,
     CheckInv, GetTargetInv, AssignInv, ReduceInv, CountInv, FinishInv DEF ReducerStep
<1>. QED  BY <1>1, <1>2, CloseKeepsRInv DEF ReductionNext

LEMMA ReductionInvAlways == ReductionSpec => []RInv
BY ReductionInitInv, ReductionStepInv, PTL DEF ReductionSpec

LEMMA FinishedFollows == ASSUME RInv PROVE FinishedIsComplete
<1>. SUFFICES ASSUME NEW p \in Targets, reports[p] > 0
              PROVE  /\ reduced[p] = Sources(p)
                     /\ \A w \in Reducers :
                          reducing[w].at \in {"initialize", "check", "get", "assign", "reduce", "count"}
                            => Into(w) # p
  BY DEF FinishedIsComplete
<1>1. Uncounted(p) = {}
  <2>1. p \in Tiles /\ Uncounted(p) \subseteq Tiles  BY TileKinds DEF Uncounted
  <2>2. reports[p] = 1  BY <2>1 DEF RInv, ReductionTypeOK
  <2>3. Cardinality(Uncounted(p)) = 0  BY <2>2 DEF RInv, CountFits
  <2>. QED  BY <2>1, <2>3, TilesFinite
<1>2. reduced[p] = Sources(p)
  BY <1>1 DEF RInv, ReducedFits, Uncounted
<1>3. ASSUME NEW w \in Reducers, Into(w) = p,
             reducing[w].at \in {"initialize", "check", "get", "assign", "reduce", "count"}
      PROVE  FALSE
  <2>1. Reads(w)  BY <1>3 DEF Reads
  <2>2. reducing[w].tile \in Sources(p)
    BY <1>3, <2>1, RecordFacts, TileKinds DEF RInv, WorkFits, Into
  <2>3. ~Before(w)  BY <1>2, <1>3, <2>1, <2>2 DEF RInv, WorkFits
  <2>4. At(w, "count")  BY <1>3, <2>3 DEF Before, At
  <2>. QED  BY <1>1, <2>2, <2>4 DEF Uncounted
<1>. QED  BY <1>2, <1>3

LEMMA ProgressFollows == ASSUME RInv PROVE ProgressIsRight
<1>1. tooMany = 0 /\ finished \in 0..1  BY DEF RInv, BitmapFits
<1>2. ASSUME finished = 1, NEW t \in Tiles PROVE reports[t] = 1
  <2>1. AllReported \subseteq Tiles /\ ToCount \subseteq Tiles  BY DEF AllReported, ToCount
  <2>2. /\ Cardinality(AllReported) \in Nat /\ Cardinality(ToCount) \in Nat
        /\ Cardinality(AllReported) <= Cardinality(Tiles) /\ Cardinality(Tiles) \in Nat
    BY <2>1, TilesFinite
  <2>3. finishedCount = Cardinality(Tiles)  BY <1>2 DEF RInv, BitmapFits
  <2>4. finishedCount + Cardinality(ToCount) <= Cardinality(AllReported)  BY DEF RInv, BitmapFits
  <2>5. Cardinality(AllReported) = Cardinality(Tiles)  BY <2>2, <2>3, <2>4
  <2>6. AllReported = Tiles  BY <2>1, <2>5, TilesFinite
  <2>. QED  BY <2>6 DEF AllReported
<1>. QED  BY <1>1, <1>2 DEF ProgressIsRight

LEMMA UnloadedFollows == ASSUME RInv PROVE TargetsAreUnloaded
<1>. SUFFICES ASSUME NEW p \in Targets, reports[p] > 0,
                     \A w \in Reducers : ~(At(w, "reporting") /\ Into(w) = p)
              PROVE  ~target[p] /\ leaked[p] < Cardinality(Sources(p))
  BY DEF TargetsAreUnloaded
<1>1. p \in Tiles  BY TileKinds
<1>2. reports[p] = 1  BY <1>1 DEF RInv, ReductionTypeOK
<1>3. ~target[p]  BY <1>2 DEF RInv, TargetFits
<1>4. reduced[p] = Sources(p)  BY FinishedFollows DEF FinishedIsComplete
<1>5. Past(p) = Sources(p)  BY <1>4 DEF Past
<1>6. Cardinality(Sources(p)) \in Nat \ {0}  BY TileKinds, TilesFinite
<1>7. leaked[p] = 0 \/ leaked[p] < Cardinality(Past(p))  BY DEF RInv, TargetFits
<1>. QED  BY <1>3, <1>5, <1>6, <1>7

\* For every tree of layers and any number of workers: a tile is reported finished
\* when all of its sources have been reduced into it and no worker is writing to
\* it; the bitmap counts each tile once, so that finished() is called once, when
\* all are there, and "Too many tiles are finished" is not reached; and the
\* coordinator of a finished target has dropped its reference to the data, of which
\* races made it lose fewer than there are sources (reduceSourceTile(),
\* layercoordinator.cc; tileFinished(), tiled-bitmap.cc).
THEOREM ReductionStaysRight == ReductionSpec => []ReductionIsRight
<1>1. RInv => ReductionIsRight
  BY FinishedFollows, ProgressFollows, UnloadedFollows DEF RInv, ReductionIsRight
<1>. QED  BY <1>1, ReductionInvAlways, PTL

\* Only ReduceTile adds to what is reduced; Initialize comes before the first.
LEMMA ReducedOnlyGrows ==
    ASSUME RInv, [ReductionNext]_reductionVars
    PROVE  \A p \in Targets : reduced[p] \subseteq reduced'[p]
<1>1. \/ reduced' = reduced
      \/ \E w \in Reducers : Initialize(w) \/ ReduceTile(w)
  BY DEF ReductionNext, ReducerStep, reductionVars, dataVars, CloseLayers, FillTile, TileFilled,
         TellCoordinator, TellBitmap, StartReduce, CheckTarget, GetTarget, AssignTarget,
         Count, Finish
<1>2. reduced \in [Targets -> SUBSET Tiles]  BY DEF RInv, ReductionTypeOK
<1>3. ASSUME NEW w \in Reducers, Initialize(w)
      PROVE  \A p \in Targets : reduced[p] \subseteq reduced'[p]
  BY <1>2, <1>3 DEF Initialize, MustInitialize, RInv, ReducedFits
<1>4. ASSUME NEW w \in Reducers, ReduceTile(w)
      PROVE  \A p \in Targets : reduced[p] \subseteq reduced'[p]
  BY <1>2, <1>4 DEF ReduceTile
<1>. QED  BY <1>1, <1>3, <1>4

\* What has been reduced into a target stays in it: the zeroes of initialize() are
\* written before any source is reduced, although another worker does that
\* (reduce(), layercoordinator.cc).
THEOREM ReductionsAreKept == ReductionSpec => ReductionsStay
<1>1. RInv /\ [ReductionNext]_reductionVars
        => [\A p \in Targets : reduced[p] \subseteq reduced'[p]]_reductionVars
  BY ReducedOnlyGrows
<1>. QED  BY <1>1, ReductionInvAlways, PTL DEF ReductionSpec, ReductionsStay
=============================================================================
