---------------------------- MODULE MemoryBlobs ----------------------------
(***************************************************************************)
(* libs/memory-manager: the blobs that hold tile data, and the provider of *)
(* the pages they are compressed into.                                     *)
(*                                                                         *)
(* A blob's data is in a buffer while somebody uses it and in compressed   *)
(* pages when nobody does.  Users hold the buffer through a shared_ptr     *)
(* whose deleter calls unload().  Between the moment the last user lets go *)
(* (weakData expires) and the moment the deleter gets Blob::mut, other     *)
(* threads may use the blob again.  Every member function of Blob locks    *)
(* Blob::mut from beginning to end, and is one action.                     *)
(***************************************************************************)
EXTENDS Integers, Sequences, FiniteSets, FiniteSetsExt, SequencesExt

CONSTANTS
    Blobs, Clients,
    Values,      \* what a buffer may contain
    Free,        \* the contents of a buffer that is not allocated
    PagesFor,    \* the number of pages a value compresses into
    BlockCount,  \* pages that PageProvider allocates in one go
    MaxBuffers,  \* bound on the buffers malloc() can give
    MaxJobs      \* bound on the compress() jobs of one blob that are scheduled

ASSUME ClientsAssumption == IsFiniteSet(Clients)
ASSUME ValuesAssumption == Values # {} /\ Free \notin Values
ASSUME SizesAssumption == PagesFor \in [Values -> Nat \ {0}] /\ BlockCount \in Nat \ {0}
ASSUME BoundsAssumption == MaxBuffers \in Nat \ {0} /\ MaxJobs \in Nat \ {0}

VARIABLES
    state,     \* Blob::state
    data,      \* Blob::data: a buffer, or 0 for nullptr
    refcount,  \* Blob::refcount
    pages,     \* Blob::pages: a sequence of pages
    jobs,      \* number of scheduled jobs that will call compress()
    heap,      \* contents of each buffer, Free if it is not allocated
    disk,      \* contents of each page ever allocated, i.e. of allPages
    freePages, \* PageProvider::freePages
    client,    \* what each client holds: a buffer of a blob, or nothing
    last       \* ghost: what a blob contains according to its users

blobVars == <<state, data, refcount, pages, jobs>>
pageVars == <<disk, freePages>>
vars     == <<blobVars, heap, pageVars, client, last>>

States  == {"UNINITIALIZED", "CLEAN", "DIRTY", "COMPRESSING"}
Buffers == 1..MaxBuffers
AllPages == DOMAIN disk

\* A client has no pointer into a blob, or has one (perhaps to write through),
\* or has dropped the last one and is about to call unload().
Idle == [at |-> "idle"]
Holding(b, n, w) == [at |-> "holding", blob |-> b, buf |-> n, writable |-> w]
Unloading(b) == [at |-> "unloading", blob |-> b]
Handles == {Idle} \cup {Unloading(b) : b \in Blobs}
              \cup {Holding(b, n, w) : b \in Blobs, n \in Buffers, w \in BOOLEAN}

Init ==
    /\ state = [b \in Blobs |-> "UNINITIALIZED"]
    /\ data = [b \in Blobs |-> 0]
    /\ refcount = [b \in Blobs |-> 0]
    /\ pages = [b \in Blobs |-> <<>>]
    /\ jobs = [b \in Blobs |-> 0]
    /\ heap = [n \in Buffers |-> Free]
    /\ disk = <<>>
    /\ freePages = {}
    /\ client = [c \in Clients |-> Idle]
    /\ last = [b \in Blobs |-> CHOOSE v \in Values : TRUE]

-----------------------------------------------------------------------------
(* Pages.                                                                  *)

\* getFreePage(), k times: whole blocks are added when there are not enough.
\* Which of the free pages is taken makes no difference.
Missing(k)   == IF k <= Cardinality(freePages) THEN 0 ELSE k - Cardinality(freePages)
NewPages(k)  == BlockCount * ((Missing(k) + BlockCount - 1) \div BlockCount)
Available(k) == freePages \cup (Len(disk) + 1 .. Len(disk) + NewPages(k))
Taken(k)     == CHOOSE ps \in [1..k -> Available(k)] : IsInjective(ps)

\* deflate() puts the value's i-th part on the i-th page; inflate() needs
\* exactly these parts.
Part(v, i) == <<v, i>>

Compressed(v, ps, d) ==
    [p \in DOMAIN d |-> IF \E i \in DOMAIN ps : ps[i] = p
                        THEN Part(v, CHOOSE i \in DOMAIN ps : ps[i] = p)
                        ELSE d[p]]

Holds(ps, v) == Len(ps) = PagesFor[v] /\ \A i \in DOMAIN ps : disk[ps[i]] = Part(v, i)

-----------------------------------------------------------------------------
(* Buffers.                                                                *)

Holders(b)   == {c \in Clients : client[c].at = "holding" /\ client[c].blob = b}
Unloaders(b) == {c \in Clients : client[c] = Unloading(b)}
Expired(b)   == Holders(b) = {}
Unallocated  == {n \in Buffers : heap[n] = Free}
Malloc       == CHOOSE n \in Unallocated : TRUE

\* load(): the buffer it returns and what that contains.  Memory fresh from
\* malloc() may be anywhere, which makes no difference, and contain anything.
Loadable(b) ==
    CASE ~Expired(b) -> {<<client[c].buf, heap[client[c].buf]>> : c \in Holders(b)}
      [] Expired(b) /\ state[b] = "UNINITIALIZED" -> {<<Malloc, v>> : v \in Values}
      [] Expired(b) /\ state[b] = "CLEAN" ->
            {<<Malloc, v>> : v \in {u \in Values : Holds(pages[b], u)}}
      [] OTHER -> {<<data[b], heap[data[b]]>>}

Allocates(b) == Expired(b) /\ state[b] \in {"UNINITIALIZED", "CLEAN"}

\* If load() allocates while an unload() is still to come, nobody has the old
\* buffer any more: it leaks.  The model makes it available again.
HeapWith(b, n, v) ==
    [m \in Buffers |-> CASE m = n -> v
                         [] m # n /\ m = data[b] /\ Allocates(b) -> Free
                         [] OTHER -> heap[m]]

\* Each shared_ptr made from the raw buffer counts, its copies do not.
Counted(b) == IF Expired(b) THEN 1 ELSE 0

\* What load() does besides the changes to state and heap.
Load(c, b, n, w) ==
    /\ data' = [data EXCEPT ![b] = IF Expired(b) THEN n ELSE @]
    /\ refcount' = [refcount EXCEPT ![b] = @ + Counted(b)]
    /\ client' = [client EXCEPT ![c] = Holding(b, n, w)]
    /\ UNCHANGED <<pages, jobs, pageVars>>

CanLoad(c, b) == client[c] = Idle /\ (Allocates(b) => Unallocated # {})

-----------------------------------------------------------------------------
(* The users of blobs.                                                     *)

AfterGet(b) == "DIRTY"

\* get(): the buffer may be written to.
Get(c, b) ==
    /\ CanLoad(c, b)
    /\ \E l \in Loadable(b) :
          /\ Load(c, b, l[1], TRUE)
          /\ heap' = HeapWith(b, l[1], l[2])
          /\ last' = [last EXCEPT ![b] = IF state[b] = "UNINITIALIZED" THEN l[2] ELSE @]
    /\ state' = [state EXCEPT ![b] = AfterGet(b)]

\* initialize(v): and is filled with v.
Initialize(c, b, v) ==
    /\ CanLoad(c, b)
    /\ \E l \in Loadable(b) :
          /\ Load(c, b, l[1], TRUE)
          /\ heap' = HeapWith(b, l[1], v)
    /\ state' = [state EXCEPT ![b] = "DIRTY"]
    /\ last' = [last EXCEPT ![b] = v]

\* A compression that is still to come is aborted.
AfterGetConst(b) ==
    IF Expired(b) /\ state[b] = "COMPRESSING" THEN "DIRTY" ELSE state[b]

GetConst(c, b) ==
    /\ CanLoad(c, b)
    /\ \E l \in Loadable(b) :
          /\ Load(c, b, l[1], FALSE)
          /\ heap' = HeapWith(b, l[1], l[2])
    /\ state' = [state EXCEPT ![b] = AfterGetConst(b)]
    /\ last' = last

\* A client writes to the buffer that get() or initialize() gave it.
Write(c, v) ==
    /\ client[c].at = "holding"
    /\ client[c].writable
    /\ heap' = [heap EXCEPT ![client[c].buf] = v]
    /\ last' = [last EXCEPT ![client[c].blob] = v]
    /\ UNCHANGED <<blobVars, pageVars, client>>

\* A client drops its pointer.  If it was the last, the deleter is next.
Drop(c) ==
    /\ client[c].at = "holding"
    /\ LET b == client[c].blob IN
          client' = [client EXCEPT ![c] = IF Holders(b) = {c} THEN Unloading(b) ELSE Idle]
    /\ UNCHANGED <<blobVars, heap, pageVars, last>>

-----------------------------------------------------------------------------
(* Unloading and compressing.                                              *)

WrongUnused(b) ==  \* compares before it decrements
    refcount[b] = 0

\* unload() has brought refcount down to 0.
Unused(b) == refcount[b] = 1

\* unload(), which the deleter calls.
Unload(c) == \E b \in Blobs :
    /\ client[c] = Unloading(b)
    /\ refcount' = [refcount EXCEPT ![b] = @ - 1]
    /\ client' = [client EXCEPT ![c] = Idle]
    /\ \/ /\ Unused(b) /\ state[b] = "DIRTY"
          /\ jobs[b] < MaxJobs
          /\ state' = [state EXCEPT ![b] = "COMPRESSING"]
          /\ jobs' = [jobs EXCEPT ![b] = @ + 1]
          /\ UNCHANGED <<data, heap>>
       \/ /\ Unused(b) /\ state[b] # "DIRTY"
          /\ heap' = [n \in Buffers |-> IF n = data[b] THEN Free ELSE heap[n]]
          /\ data' = [data EXCEPT ![b] = 0]
          /\ UNCHANGED <<state, jobs>>
       \/ /\ ~Unused(b)
          /\ UNCHANGED <<state, data, jobs, heap>>
    /\ UNCHANGED <<pages, pageVars, last>>

WrongGivenBack(b) ==  \* the previous pages are forgotten
    {}

\* Assigning to pages drops the pages of the previous compression, after the
\* new ones were taken.
GivenBack(b) == ToSet(pages[b])

WrongMustCompress(b) ==  \* takes no notice of those who use the blob again
    data[b] # 0

\* A job that finds any other state has nothing to do.
MustCompress(b) == state[b] = "COMPRESSING"

\* A compress() job.
Compress(b) ==
    /\ jobs[b] > 0
    /\ jobs' = [jobs EXCEPT ![b] = @ - 1]
    /\ IF MustCompress(b)
       THEN LET v    == heap[data[b]]
                k    == PagesFor[v]
                more == disk \o [i \in 1..NewPages(k) |-> Part(v, 0)]
            IN /\ pages' = [pages EXCEPT ![b] = Taken(k)]
               /\ disk' = Compressed(v, Taken(k), more)
               /\ freePages' = (Available(k) \ ToSet(Taken(k))) \cup GivenBack(b)
               /\ heap' = [heap EXCEPT ![data[b]] = Free]
               /\ data' = [data EXCEPT ![b] = 0]
               /\ state' = [state EXCEPT ![b] = "CLEAN"]
       ELSE UNCHANGED <<state, data, pages, heap, pageVars>>
    /\ UNCHANGED <<refcount, client, last>>

-----------------------------------------------------------------------------
Use(c) ==
    \/ \E b \in Blobs : Get(c, b) \/ GetConst(c, b)
    \/ \E b \in Blobs, v \in Values : Initialize(c, b, v)
    \/ \E v \in Values : Write(c, v)
    \/ Drop(c)

Next ==
    \/ \E c \in Clients : Use(c) \/ Unload(c)
    \/ \E b \in Blobs : Compress(b)

Spec == Init /\ [][Next]_vars

-----------------------------------------------------------------------------
(* Properties.                                                             *)

TypeOK ==
    /\ state \in [Blobs -> States]
    /\ data \in [Blobs -> {0} \cup Buffers]
    /\ refcount \in [Blobs -> Nat]
    /\ \A b \in Blobs : pages[b] \in Seq(AllPages)
    /\ jobs \in [Blobs -> 0..MaxJobs]
    /\ heap \in [Buffers -> Values \cup {Free}]
    /\ freePages \subseteq AllPages
    /\ client \in [Clients -> Handles]
    /\ last \in [Blobs -> Values]

\* Nobody holds memory that has been freed, and all who hold the same blob
\* hold the same buffer: neither a late unload() nor a compress() job that
\* was scheduled before takes it away.
HeldBuffersExist ==
    \A b \in Blobs : \A c, d \in Holders(b) :
        heap[client[c].buf] # Free /\ client[c].buf = client[d].buf

\* Blobs retain their data (blob-tests.cc): who holds a blob sees what was
\* last written to it, through all compressions and their abortions.
ReadsBack ==
    \A b \in Blobs : state[b] # "UNINITIALIZED" =>
        \A c \in Holders(b) : heap[client[c].buf] = last[b]

\* A blob at rest can be decompressed, to what was last written, and nobody has
\* a buffer of it that may be written to: that one would not be compressed.
PagesIntact ==
    \A b \in Blobs : state[b] = "CLEAN" =>
        /\ Holds(pages[b], last[b])
        /\ \A c \in Holders(b) : ~client[c].writable

\* refcount is the number of unload() calls to come.  compress() requires
\* that it is 0, memoryblobs.cc:141.
RefcountExact ==
    \A b \in Blobs :
        /\ refcount[b] = Cardinality(Unloaders(b)) + (IF Expired(b) THEN 0 ELSE 1)
        /\ state[b] = "COMPRESSING" => refcount[b] = 0

\* Each page is free or belongs to one blob, once.
PagesAccounted ==
    /\ AllPages = freePages \cup UNION {ToSet(pages[b]) : b \in Blobs}
    /\ \A b \in Blobs :
          /\ IsInjective(pages[b])
          /\ ToSet(pages[b]) \cap freePages = {}
          /\ \A a \in Blobs \ {b} : ToSet(pages[a]) \cap ToSet(pages[b]) = {}

\* Blobs keep their data (blob-tests.cc), compressed or not.
DataRetained == HeldBuffersExist /\ ReadsBack /\ PagesIntact

\* References and pages are counted right (memoryblobs.cc, pageprovider.cc).
MemoryAccounted == TypeOK /\ RefcountExact /\ PagesAccounted

\* A blob that nobody uses any more is about to give its buffer back: a job that
\* will compress it is scheduled.
IdleBuffersGo ==
    \A b \in Blobs :
        Expired(b) /\ Unloaders(b) = {} /\ data[b] # 0
            => state[b] = "COMPRESSING" /\ jobs[b] > 0
=============================================================================
