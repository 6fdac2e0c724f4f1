-------------------------- MODULE MemoryBlobsProofs --------------------------
(***************************************************************************)
(* Proofs about MemoryBlobs: blobs keep what was written to them, and      *)
(* buffers and pages are accounted for, for any number of blobs, finite set *)
(* of clients, pages and values.  The invariant MInv says who has each     *)
(* buffer, what is in it in each state of its blob, and who is going to give *)
(* it back.                                                                *)
(***************************************************************************)
EXTENDS MemoryBlobs, FiniteSetTheorems, TLAPS

\* TypeOK, and what the blocks of data are.
Types ==
    /\ TypeOK
    /\ pages \in [Blobs -> Seq(Nat)]
    /\ disk \in Seq(Values \X Nat)

\* Each buffer that a blob has is allocated, and no other blob has it.
BuffersOwned ==
    \A b \in Blobs : data[b] # 0 =>
        /\ heap[data[b]] # Free
        /\ \A a \in Blobs \ {b} : data[a] # data[b]

\* Who holds a blob holds its buffer.
HoldersShare ==
    \A b \in Blobs : \A c \in Holders(b) :
        /\ data[b] # 0
        /\ client[c].buf = data[b]
        /\ client[c].writable => state[b] = "DIRTY"

\* What is in the buffer, in each state.
BuffersFit ==
    \A b \in Blobs :
        /\ state[b] \in {"DIRTY", "COMPRESSING"} => data[b] # 0 /\ heap[data[b]] = last[b]
        /\ state[b] = "CLEAN" /\ ~Expired(b) => heap[data[b]] = last[b]

\* Who will give it back.
BuffersGo ==
    \A b \in Blobs :
        /\ state[b] = "DIRTY" => refcount[b] # 0
        /\ state[b] = "COMPRESSING" => jobs[b] > 0
        /\ data[b] # 0 /\ refcount[b] = 0 => state[b] = "COMPRESSING"

\* The pages of a compressed blob hold what was written last.
PagesHold == \A b \in Blobs : state[b] = "CLEAN" => Holds(pages[b], last[b])

MInv == /\ Types /\ BuffersOwned /\ HoldersShare /\ BuffersFit /\ BuffersGo
        /\ PagesHold /\ RefcountExact /\ PagesAccounted

-----------------------------------------------------------------------------
(* Counting clients.                                                       *)

LEMMA ClientsFinite == ASSUME NEW S, S \subseteq Clients
                       PROVE  IsFiniteSet(S) /\ Cardinality(S) \in Nat
BY ClientsAssumption, FS_Subset, FS_CardinalityType

LEMMA OneMore == ASSUME NEW S, S \subseteq Clients, NEW c \in Clients, c \notin S
                 PROVE  Cardinality(S \cup {c}) = Cardinality(S) + 1
BY ClientsFinite, FS_AddElement

LEMMA OneLess == ASSUME NEW S, S \subseteq Clients, NEW c \in S
                 PROVE  /\ Cardinality(S \ {c}) = Cardinality(S) - 1
                        /\ Cardinality(S) \in Nat \ {0}
<1>1. IsFiniteSet(S)  BY ClientsFinite
<1>2. Cardinality(S \ {c}) = Cardinality(S) - 1  BY <1>1, FS_RemoveElement
<1>3. Cardinality(S \ {c}) \in Nat /\ Cardinality(S) \in Nat  BY ClientsFinite
<1>. QED  BY <1>2, <1>3

\* What a client may be.
LEMMA ClientKinds ==
    ASSUME Types, NEW c \in Clients
    PROVE  \/ client[c] = Idle
           \/ \E b \in Blobs : client[c] = Unloading(b)
           \/ /\ client[c].at = "holding"
              /\ client[c].blob \in Blobs /\ client[c].buf \in Buffers
              /\ client[c].writable \in BOOLEAN
              /\ client[c] = Holding(client[c].blob, client[c].buf, client[c].writable)
<1>1. client[c] \in Handles  BY DEF Types, TypeOK
<1>2. ASSUME NEW b \in Blobs, NEW n \in Buffers, NEW w \in BOOLEAN,
             client[c] = Holding(b, n, w)
      PROVE  /\ client[c].at = "holding" /\ client[c].blob = b
             /\ client[c].buf = n /\ client[c].writable = w
  BY <1>2 DEF Holding
<1>. QED  BY <1>1, <1>2 DEF Handles

\* Types' conjuncts one by one.
LEMMA TypesNext ==
    ASSUME Types,
           /\ state' \in [Blobs -> States]
           /\ data' \in [Blobs -> {0} \cup Buffers]
           /\ refcount' \in [Blobs -> Nat]
           /\ heap' \in [Buffers -> Values \cup {Free}]
           /\ client' \in [Clients -> Handles]
           /\ last' \in [Blobs -> Values],
           \/ UNCHANGED <<pages, jobs, pageVars>>
           \/ UNCHANGED <<pages, pageVars>> /\ jobs' \in [Blobs -> 0..MaxJobs]
           \/ /\ \A b \in Blobs : pages'[b] \in Seq(AllPages')
              /\ jobs' \in [Blobs -> 0..MaxJobs]
              /\ freePages' \subseteq AllPages'
              /\ pages' \in [Blobs -> Seq(Nat)]
              /\ disk' \in Seq(Values \X Nat)
    PROVE  Types'
<1>1. /\ \A b \in Blobs : pages'[b] \in Seq(AllPages')
      /\ jobs' \in [Blobs -> 0..MaxJobs]
      /\ freePages' \subseteq AllPages'
      /\ pages' \in [Blobs -> Seq(Nat)]
      /\ disk' \in Seq(Values \X Nat)
  BY DEF Types, TypeOK, pageVars, AllPages
<1>. QED  BY <1>1 DEF Types, TypeOK

LEMMA Kinds == \A b, n, w, a :
    /\ Idle.at = "idle" /\ Unloading(b).at = "unloading" /\ Holding(b, n, w).at = "holding"
    /\ Idle # Unloading(b) /\ Idle # Holding(b, n, w) /\ Unloading(a) # Holding(b, n, w)
    /\ Unloading(a) = Unloading(b) => a = b
    /\ Unloading(b).blob = b
    /\ Holding(b, n, w).blob = b /\ Holding(b, n, w).buf = n /\ Holding(b, n, w).writable = w
<1>. TAKE b, n, w, a
<1>1. Unloading(b).blob = b /\ Unloading(a).blob = a  BY DEF Unloading
<1>. QED  BY <1>1 DEF Idle, Unloading, Holding

-----------------------------------------------------------------------------
(* Loading.                                                                *)

LEMMA HoldsOne ==
    ASSUME Types, NEW ps \in Seq(Nat), NEW u \in Values, NEW v \in Values,
           Holds(ps, u), Holds(ps, v)
    PROVE  u = v
<1>1. PagesFor[u] \in Nat \ {0}  BY SizesAssumption
<1>2. 1 \in DOMAIN ps  BY <1>1 DEF Holds
<1>3. Part(u, 1) = Part(v, 1)  BY <1>2 DEF Holds
<1>. QED  BY <1>3 DEF Part

LEMMA LoadableCases ==
    ASSUME MInv, NEW b \in Blobs, Allocates(b) => Unallocated # {}, NEW l \in Loadable(b)
    PROVE  /\ l[1] \in Buffers /\ l[2] \in Values
           /\ Allocates(b) => heap[l[1]] = Free
           /\ ~Allocates(b) => data[b] # 0 /\ l[1] = data[b] /\ l[2] = heap[data[b]]
           /\ ~Expired(b) => l[1] = data[b]
           /\ state[b] # "UNINITIALIZED" => l[2] = last[b]
<1>1. /\ data[b] \in {0} \cup Buffers /\ state[b] \in States
      /\ heap \in [Buffers -> Values \cup {Free}] /\ last[b] \in Values
      /\ pages[b] \in Seq(Nat)
  BY DEF MInv, Types, TypeOK
<1>2. state[b] \in {"UNINITIALIZED", "CLEAN", "DIRTY", "COMPRESSING"}  BY <1>1 DEF States
<1>3. data[b] # 0 => heap[data[b]] \in Values  BY <1>1 DEF MInv, BuffersOwned
<1>4. CASE ~Expired(b)
  <2>1. PICK c \in Holders(b) : l = <<client[c].buf, heap[client[c].buf]>>
    BY <1>4 DEF Loadable
  <2>2. data[b] # 0 /\ client[c].buf = data[b]  BY DEF MInv, HoldersShare
  <2>3. ~Allocates(b)  BY <1>4 DEF Allocates
  <2>4. refcount[b] # 0
    <3>1. Cardinality(Unloaders(b)) \in Nat  BY ClientsFinite DEF Unloaders
    <3>. QED  BY <3>1, <1>4 DEF MInv, RefcountExact
  <2>5. state[b] # "UNINITIALIZED" => heap[data[b]] = last[b]
    BY <1>2, <1>4 DEF MInv, BuffersFit
  <2>. QED  BY <1>1, <1>3, <2>1, <2>2, <2>3, <2>5
<1>5. CASE Expired(b) /\ state[b] = "UNINITIALIZED"
  <2>1. Malloc \in Unallocated  BY <1>5 DEF Allocates, Malloc
  <2>2. PICK v \in Values : l = <<Malloc, v>>  BY <1>5 DEF Loadable
  <2>. QED  BY <2>1, <2>2, <1>5 DEF Unallocated, Allocates
<1>6. CASE Expired(b) /\ state[b] = "CLEAN"
  <2>1. Malloc \in Unallocated  BY <1>6 DEF Allocates, Malloc
  <2>2. PICK v \in Values : Holds(pages[b], v) /\ l = <<Malloc, v>>  BY <1>6 DEF Loadable
  <2>3. Holds(pages[b], last[b])  BY <1>6 DEF MInv, PagesHold
  <2>4. v = last[b]  BY <1>1, <2>2, <2>3, HoldsOne DEF MInv
  <2>. QED  BY <2>1, <2>2, <2>4, <1>6 DEF Unallocated, Allocates
<1>7. CASE Expired(b) /\ state[b] \in {"DIRTY", "COMPRESSING"}
  <2>1. l = <<data[b], heap[data[b]]>>  BY <1>7 DEF Loadable
  <2>2. data[b] # 0 /\ heap[data[b]] = last[b]  BY <1>7 DEF MInv, BuffersFit
  <2>. QED  BY <1>1, <1>3, <1>7, <2>1, <2>2 DEF Allocates
<1>. QED  BY <1>2, <1>4, <1>5, <1>6, <1>7

\* get(), initialize() and getConst() differ in the state they leave behind.
LoadStep(c, b, n, v, w, s, x) ==
    /\ Load(c, b, n, w)
    /\ heap' = HeapWith(b, n, v)
    /\ state' = [state EXCEPT ![b] = s]
    /\ last' = [last EXCEPT ![b] = x]

LEMMA LoadInv ==
    ASSUME MInv, NEW c \in Clients, NEW b \in Blobs, NEW n \in Buffers, NEW v \in Values,
           NEW w \in BOOLEAN, NEW s \in States, NEW x \in Values,
           client[c] = Idle, LoadStep(c, b, n, v, w, s, x),
           Allocates(b) => heap[n] = Free,
           ~Allocates(b) => data[b] # 0 /\ n = data[b],
           ~Expired(b) => n = data[b],
           w => s = "DIRTY",
           state[b] = "DIRTY" => s = "DIRTY",
           s # "UNINITIALIZED" => v = x,
           s # "COMPRESSING",
           s = "CLEAN" => state[b] = "CLEAN" /\ x = last[b]
    PROVE  MInv'
<1>1. /\ state \in [Blobs -> States] /\ data \in [Blobs -> {0} \cup Buffers]
      /\ refcount \in [Blobs -> Nat] /\ heap \in [Buffers -> Values \cup {Free}]
      /\ last \in [Blobs -> Values] /\ DOMAIN client = Clients /\ Free \notin Values
      /\ 0 \notin Buffers
  BY ValuesAssumption DEF MInv, Types, TypeOK, Buffers
<1>2. /\ data' = [data EXCEPT ![b] = n]
      /\ state'[b] = s /\ last'[b] = x /\ refcount'[b] = refcount[b] + Counted(b)
      /\ \A a \in Blobs \ {b} : /\ state'[a] = state[a] /\ last'[a] = last[a]
                                /\ refcount'[a] = refcount[a] /\ data'[a] = data[a]
      /\ data'[b] = n
  BY <1>1 DEF LoadStep, Load
<1>3. /\ client'[c] = Holding(b, n, w)
      /\ \A d \in Clients \ {c} : client'[d] = client[d]
      /\ DOMAIN client' = Clients
  BY <1>1 DEF LoadStep, Load
<1>4. /\ heap'[n] = v
      /\ \A a \in Blobs \ {b} : data[a] # 0 => heap'[data[a]] = heap[data[a]] /\ data[a] # n
  <2>1. heap' = HeapWith(b, n, v)  BY DEF LoadStep
  <2>2. ASSUME NEW a \in Blobs \ {b}, data[a] # 0 PROVE data[a] # n /\ data[a] # data[b]
    BY <2>2 DEF MInv, BuffersOwned
  <2>. QED  BY <1>1, <2>1, <2>2 DEF HeapWith
<1>5. /\ Holders(b)' = Holders(b) \cup {c} /\ c \notin Holders(b) /\ ~Expired(b)'
      /\ \A a \in Blobs \ {b} : Holders(a)' = Holders(a) /\ (Expired(a)' <=> Expired(a))
      /\ \A a \in Blobs : Unloaders(a)' = Unloaders(a)
  <2>1. \A a \in Blobs : c \notin Holders(a) /\ c \notin Unloaders(a)
    BY Kinds DEF Holders, Unloaders
  <2>2. /\ Holders(b)' = Holders(b) \cup {c}
        /\ \A a \in Blobs \ {b} : Holders(a)' = Holders(a)
    BY <1>3, <2>1, Kinds DEF Holders
  <2>3. \A a \in Blobs : Unloaders(a)' = Unloaders(a)
    BY <1>3, <2>1, Kinds DEF Unloaders
  <2>. QED  BY <2>1, <2>2, <2>3 DEF Expired
<1>6. disk' = disk /\ freePages' = freePages /\ pages' = pages /\ jobs' = jobs
  BY DEF LoadStep, Load, pageVars
<1>7. Types'
  <2>1. state' \in [Blobs -> States] /\ data' \in [Blobs -> {0} \cup Buffers]
        /\ last' \in [Blobs -> Values]
    BY <1>1, <1>2 DEF LoadStep
  <2>2. refcount' \in [Blobs -> Nat]
    BY <1>1 DEF LoadStep, Load, Counted
  <2>3. heap' \in [Buffers -> Values \cup {Free}]
    BY <1>1 DEF LoadStep, HeapWith
  <2>4. Holding(b, n, w) \in {Holding(a, m, u) : a \in Blobs, m \in Buffers, u \in BOOLEAN}
    OBVIOUS
  <2>5. client' \in [Clients -> Handles]
    <3>1. client \in [Clients -> Handles]  BY DEF MInv, Types, TypeOK
    <3>2. Holding(b, n, w) \in Handles  BY <2>4 DEF Handles
    <3>. QED  BY <3>1, <3>2 DEF LoadStep, Load
  <2>. QED  BY <1>6, <2>1, <2>2, <2>3, <2>5, TypesNext DEF MInv, pageVars
<1>8. BuffersOwned'
  BY <1>1, <1>2, <1>4 DEF MInv, BuffersOwned
<1>9. HoldersShare'
  <2>1. \A d \in Holders(b) : client'[d] = client[d] /\ client[d].buf = n /\ data[b] = n
    BY <1>3, <1>5 DEF MInv, HoldersShare, Expired, Holders
  <2>2. n # 0  BY <1>1
  <2>3. \A d \in Holders(b)' : data'[b] # 0 /\ client'[d].buf = data'[b]
              /\ (client'[d].writable => state'[b] = "DIRTY")
    BY <1>2, <1>3, <1>5, <2>1, <2>2, Kinds DEF MInv, HoldersShare
  <2>4. ASSUME NEW a \in Blobs \ {b}, NEW d \in Holders(a)
        PROVE  client'[d] = client[d] /\ state'[a] = state[a] /\ data'[a] = data[a]
    BY <1>2, <1>3, Kinds DEF Holders
  <2>. QED  BY <1>5, <2>3, <2>4 DEF MInv, HoldersShare
<1>10. BuffersFit'
  BY <1>1, <1>2, <1>4, <1>5 DEF MInv, BuffersFit, BuffersOwned, HoldersShare, Expired
<1>11. RefcountExact'
  <2>1. \A a \in Blobs : Cardinality(Unloaders(a)) \in Nat
    BY ClientsFinite DEF Unloaders
  <2>2. \A a \in Blobs \ {b} : RefcountExact =>
          /\ refcount'[a] = Cardinality(Unloaders(a))' + (IF Expired(a)' THEN 0 ELSE 1)
          /\ state'[a] = "COMPRESSING" => refcount'[a] = 0
    BY <1>2, <1>5 DEF RefcountExact
  <2>3. /\ refcount'[b] = Cardinality(Unloaders(b))' + (IF Expired(b)' THEN 0 ELSE 1)
        /\ state'[b] = "COMPRESSING" => refcount'[b] = 0
    BY <1>2, <1>5, <2>1 DEF MInv, RefcountExact, Counted
  <2>. QED  BY <2>2, <2>3 DEF MInv, RefcountExact
<1>12. BuffersGo'
  <2>1. refcount'[b] # 0
    <3>1. Cardinality(Unloaders(b))' \in Nat  BY <1>5, ClientsFinite DEF Unloaders
    <3>. QED  BY <1>5, <1>11, <3>1 DEF RefcountExact
  <2>. QED  BY <1>2, <1>6, <2>1 DEF MInv, BuffersGo
<1>13. PagesHold'
  BY <1>2, <1>6 DEF MInv, PagesHold, Holds
<1>14. PagesAccounted'
  BY <1>6 DEF MInv, PagesAccounted, AllPages
<1>. QED  BY <1>7, <1>8, <1>9, <1>10, <1>11, <1>12, <1>13, <1>14 DEF MInv

LEMMA GetInv == ASSUME MInv, NEW c \in Clients, NEW b \in Blobs, Get(c, b) PROVE MInv'
<1>1. PICK l \in Loadable(b) :
          /\ Load(c, b, l[1], TRUE)
          /\ heap' = HeapWith(b, l[1], l[2])
          /\ last' = [last EXCEPT ![b] = IF state[b] = "UNINITIALIZED" THEN l[2] ELSE @]
  BY DEF Get
<1>. DEFINE x == IF state[b] = "UNINITIALIZED" THEN l[2] ELSE last[b]
<1>2. client[c] = Idle /\ (Allocates(b) => Unallocated # {})  BY DEF Get, CanLoad
<1>3. /\ l[1] \in Buffers /\ l[2] \in Values
      /\ Allocates(b) => heap[l[1]] = Free
      /\ ~Allocates(b) => data[b] # 0 /\ l[1] = data[b] /\ l[2] = heap[data[b]]
      /\ ~Expired(b) => l[1] = data[b]
      /\ state[b] # "UNINITIALIZED" => l[2] = last[b]
  BY <1>2, LoadableCases
<1>4. x \in Values /\ l[2] = x  BY <1>3
<1>5. LoadStep(c, b, l[1], l[2], TRUE, "DIRTY", x)
  BY <1>1 DEF LoadStep, Get, AfterGet
<1>6. "DIRTY" \in States  BY DEF States
<1>. HIDE DEF x
<1>. QED  BY <1>2, <1>3, <1>4, <1>5, <1>6, LoadInv

LEMMA InitializeInv ==
    ASSUME MInv, NEW c \in Clients, NEW b \in Blobs, NEW v \in Values, Initialize(c, b, v)
    PROVE  MInv'
<1>1. PICK l \in Loadable(b) : /\ Load(c, b, l[1], TRUE)
                               /\ heap' = HeapWith(b, l[1], v)
  BY DEF Initialize
<1>2. client[c] = Idle /\ (Allocates(b) => Unallocated # {})  BY DEF Initialize, CanLoad
<1>3. /\ l[1] \in Buffers
      /\ Allocates(b) => heap[l[1]] = Free
      /\ ~Allocates(b) => data[b] # 0 /\ l[1] = data[b]
      /\ ~Expired(b) => l[1] = data[b]
  BY <1>2, LoadableCases
<1>4. LoadStep(c, b, l[1], v, TRUE, "DIRTY", v)
  BY <1>1 DEF LoadStep, Initialize
<1>5. "DIRTY" \in States  BY DEF States
<1>. QED  BY <1>2, <1>3, <1>4, <1>5, LoadInv

LEMMA GetConstInv == ASSUME MInv, NEW c \in Clients, NEW b \in Blobs, GetConst(c, b) PROVE MInv'
<1>1. PICK l \in Loadable(b) : /\ Load(c, b, l[1], FALSE)
                               /\ heap' = HeapWith(b, l[1], l[2])
  BY DEF GetConst
<1>. DEFINE s == AfterGetConst(b)
            x == IF state[b] = "UNINITIALIZED" THEN last[b] ELSE l[2]
<1>2. client[c] = Idle /\ (Allocates(b) => Unallocated # {})  BY DEF GetConst, CanLoad
<1>3. /\ l[1] \in Buffers /\ l[2] \in Values
      /\ Allocates(b) => heap[l[1]] = Free
      /\ ~Allocates(b) => data[b] # 0 /\ l[1] = data[b] /\ l[2] = heap[data[b]]
      /\ ~Expired(b) => l[1] = data[b]
      /\ state[b] # "UNINITIALIZED" => l[2] = last[b]
  BY <1>2, LoadableCases
<1>4. last \in [Blobs -> Values] /\ state[b] \in States  BY DEF MInv, Types, TypeOK
<1>5. x = last[b] /\ x \in Values  BY <1>3, <1>4
<1>6. s \in States /\ s # "COMPRESSING"
      /\ (s # state[b] => state[b] = "COMPRESSING" /\ s = "DIRTY")
  <2>1. ~Expired(b) => state[b] # "COMPRESSING"
    <3>1. Cardinality(Unloaders(b)) \in Nat  BY ClientsFinite DEF Unloaders
    <3>. QED  BY <3>1 DEF MInv, RefcountExact
  <2>. QED  BY <1>4, <2>1 DEF AfterGetConst, States
<1>7. LoadStep(c, b, l[1], l[2], FALSE, s, x)
  <2>1. last' = [last EXCEPT ![b] = x]  BY <1>4, <1>5 DEF GetConst
  <2>. QED  BY <1>1, <2>1 DEF LoadStep, GetConst
<1>8. s # "UNINITIALIZED" => l[2] = x
  BY <1>3, <1>5, <1>6
<1>9. /\ s = "CLEAN" => state[b] = "CLEAN" /\ x = last[b]
      /\ state[b] = "DIRTY" => s = "DIRTY"
  BY <1>5, <1>6
<1>10. FALSE \in BOOLEAN  OBVIOUS
<1>. HIDE DEF s, x
<1>. QED  BY <1>2, <1>3, <1>5, <1>6, <1>7, <1>8, <1>9, <1>10, LoadInv

-----------------------------------------------------------------------------
(* Using and letting go.                                                   *)

LEMMA WriteInv == ASSUME MInv, NEW c \in Clients, NEW v \in Values, Write(c, v) PROVE MInv'
<1>. DEFINE b == client[c].blob
<1>1. /\ client[c].at = "holding" /\ client[c].writable
      /\ heap' = [heap EXCEPT ![client[c].buf] = v]
      /\ last' = [last EXCEPT ![client[c].blob] = v]
      /\ state' = state /\ data' = data /\ refcount' = refcount /\ pages' = pages
      /\ jobs' = jobs /\ disk' = disk /\ freePages' = freePages /\ client' = client
  BY DEF Write, blobVars, pageVars
<1>2. b \in Blobs /\ client[c].buf \in Buffers
  BY <1>1, ClientKinds, Kinds DEF MInv
<1>3. c \in Holders(b)  BY <1>1, <1>2 DEF Holders
<1>4. data[b] # 0 /\ client[c].buf = data[b] /\ state[b] = "DIRTY"
  BY <1>1, <1>2, <1>3 DEF MInv, HoldersShare
<1>5. /\ heap \in [Buffers -> Values \cup {Free}] /\ last \in [Blobs -> Values]
      /\ Free \notin Values
  BY ValuesAssumption DEF MInv, Types, TypeOK
<1>6. /\ heap'[data[b]] = v /\ last'[b] = v
      /\ \A a \in Blobs \ {b} : /\ last'[a] = last[a]
                                /\ data[a] # 0 => heap'[data[a]] = heap[data[a]]
  <2>1. \A a \in Blobs \ {b} : data[a] # 0 => data[a] # data[b] /\ data[a] \in Buffers
    BY <1>2 DEF MInv, BuffersOwned, Types, TypeOK
  <2>. QED  BY <1>1, <1>2, <1>4, <1>5, <2>1
<1>7. \A a \in Blobs : /\ Holders(a)' = Holders(a) /\ Unloaders(a)' = Unloaders(a)
                       /\ Expired(a)' <=> Expired(a)
  BY <1>1 DEF Holders, Unloaders, Expired
<1>8. Types'
  <2>1. heap' \in [Buffers -> Values \cup {Free}] /\ last' \in [Blobs -> Values]
    BY <1>1, <1>5
  <2>2. Types  BY DEF MInv
  <2>. QED  BY <1>1, <2>1, <2>2 DEF Types, TypeOK, AllPages
<1>9. BuffersOwned'
  BY <1>1, <1>2, <1>5, <1>6 DEF MInv, BuffersOwned
<1>10. HoldersShare'
  BY <1>1, <1>7 DEF MInv, HoldersShare
<1>11. BuffersFit'
  <2>1. ASSUME NEW a \in Blobs \ {b}, state[a] = "CLEAN", ~Expired(a) PROVE data[a] # 0
    BY <2>1 DEF Expired, MInv, HoldersShare
  <2>. QED  BY <1>1, <1>2, <1>4, <1>6, <1>7, <2>1 DEF MInv, BuffersFit
<1>12. BuffersGo' /\ PagesAccounted' /\ RefcountExact'
  BY <1>1, <1>7 DEF MInv, BuffersGo, PagesAccounted, RefcountExact, AllPages
<1>13. PagesHold'
  BY <1>1, <1>2, <1>4, <1>6 DEF MInv, PagesHold, Holds
<1>. QED  BY <1>8, <1>9, <1>10, <1>11, <1>12, <1>13 DEF MInv

LEMMA DropInv == ASSUME MInv, NEW c \in Clients, Drop(c) PROVE MInv'
<1>0. PICK b : b = client[c].blob  OBVIOUS
<1>1. /\ client[c].at = "holding"
      /\ client' = [client EXCEPT ![c] = IF Holders(b) = {c} THEN Unloading(b) ELSE Idle]
      /\ state' = state /\ data' = data /\ refcount' = refcount /\ pages' = pages
      /\ jobs' = jobs /\ disk' = disk /\ freePages' = freePages
      /\ heap' = heap /\ last' = last
  BY <1>0 DEF Drop, blobVars, pageVars
<1>2. b \in Blobs /\ client[c] = Holding(b, client[c].buf, client[c].writable)
  BY <1>0, <1>1, ClientKinds, Kinds DEF MInv
<1>3. client \in [Clients -> Handles]  BY DEF MInv, Types, TypeOK
<1>4. c \in Holders(b) /\ \A a \in Blobs \ {b} : c \notin Holders(a)
  BY <1>0, <1>1, <1>2, Kinds DEF Holders
<1>5. \A a \in Blobs : c \notin Unloaders(a)
  BY <1>2, Kinds DEF Unloaders
<1>6. /\ client'[c] = IF Holders(b) = {c} THEN Unloading(b) ELSE Idle
      /\ \A d \in Clients \ {c} : client'[d] = client[d]
  BY <1>1, <1>3
<1>7. \A a \in Blobs : Holders(a)' = Holders(a) \ {c}
  BY <1>6, Kinds DEF Holders
<1>8. /\ Holders(b) = {c} => Unloaders(b)' = Unloaders(b) \cup {c}
      /\ Holders(b) # {c} => Unloaders(b)' = Unloaders(b)
      /\ \A a \in Blobs \ {b} : Unloaders(a)' = Unloaders(a)
  BY <1>2, <1>5, <1>6, Kinds DEF Unloaders
<1>9. /\ Expired(b)' <=> Holders(b) = {c}
      /\ ~Expired(b)
      /\ \A a \in Blobs \ {b} : Expired(a)' <=> Expired(a)
  <2>1. \A a \in Blobs \ {b} : Holders(a)' = Holders(a)  BY <1>4, <1>7
  <2>2. Holders(b)' = {} <=> Holders(b) = {c}  BY <1>2, <1>4, <1>7
  <2>. QED  BY <1>4, <2>1, <2>2 DEF Expired
<1>10. Types'
  <2>1. client' \in [Clients -> Handles]
    BY <1>1, <1>2, <1>3 DEF Handles
  <2>. QED  BY <1>1, <2>1 DEF MInv, Types, TypeOK, AllPages
<1>11. BuffersOwned' /\ BuffersGo' /\ PagesAccounted' /\ PagesHold'
  BY <1>1, SMTT(60) DEF MInv, BuffersOwned, BuffersGo, PagesAccounted, AllPages, PagesHold, Holds
<1>12. HoldersShare'
  <2>1. \A a \in Blobs : \A d \in Holders(a)' : d \in Holders(a) /\ client'[d] = client[d]
    BY <1>6, <1>7 DEF Holders
  <2>. QED  BY <1>1, <2>1 DEF MInv, HoldersShare
<1>13. BuffersFit'
  BY <1>1, <1>2, <1>9 DEF MInv, BuffersFit
<1>14. RefcountExact'
  <2>1. Cardinality(Unloaders(b) \cup {c}) = Cardinality(Unloaders(b)) + 1
    BY <1>2, <1>5, OneMore DEF Unloaders
  <2>2. Cardinality(Unloaders(b)) \in Nat  BY ClientsFinite DEF Unloaders
  <2>3. RefcountExact  BY DEF MInv
  <2>4. refcount[b] = Cardinality(Unloaders(b))' + (IF Expired(b)' THEN 0 ELSE 1)
    BY <1>2, <1>8, <1>9, <2>1, <2>2, <2>3 DEF RefcountExact
  <2>. QED  BY <1>1, <1>2, <1>8, <1>9, <2>3, <2>4 DEF RefcountExact
<1>. QED  BY <1>10, <1>11, <1>12, <1>13, <1>14 DEF MInv

LEMMA UnloadInv == ASSUME MInv, NEW c \in Clients, Unload(c) PROVE MInv'
<1>1. PICK b \in Blobs :
        /\ client[c] = Unloading(b)
        /\ refcount' = [refcount EXCEPT ![b] = @ - 1]
        /\ client' = [client EXCEPT ![c] = Idle]
        /\ \/ /\ refcount[b] = 1 /\ state[b] = "DIRTY"
              /\ jobs[b] < MaxJobs
              /\ state' = [state EXCEPT ![b] = "COMPRESSING"]
              /\ jobs' = [jobs EXCEPT ![b] = @ + 1]
              /\ UNCHANGED <<data, heap>>
           \/ /\ refcount[b] = 1 /\ state[b] # "DIRTY"
              /\ heap' = [n \in Buffers |-> IF n = data[b] THEN Free ELSE heap[n]]
              /\ data' = [data EXCEPT ![b] = 0]
              /\ UNCHANGED <<state, jobs>>
           \/ /\ refcount[b] # 1
              /\ UNCHANGED <<state, data, jobs, heap>>
        /\ UNCHANGED <<pages, pageVars, last>>
  BY DEF Unload, Unused
<1>2. /\ state \in [Blobs -> States] /\ data \in [Blobs -> {0} \cup Buffers]
      /\ refcount \in [Blobs -> Nat] /\ heap \in [Buffers -> Values \cup {Free}]
      /\ jobs \in [Blobs -> 0..MaxJobs] /\ client \in [Clients -> Handles]
      /\ last \in [Blobs -> Values] /\ Free \notin Values /\ 0 \notin Buffers
      /\ MaxJobs \in Nat
  BY ValuesAssumption, BoundsAssumption DEF MInv, Types, TypeOK, Buffers
<1>3. /\ c \in Unloaders(b) /\ \A a \in Blobs : c \notin Holders(a)
      /\ \A a \in Blobs \ {b} : c \notin Unloaders(a)
  BY <1>1, Kinds DEF Holders, Unloaders
<1>4. client'[c] = Idle /\ \A d \in Clients \ {c} : client'[d] = client[d]
  BY <1>1, <1>2
<1>5. \A a \in Blobs : Holders(a)' = Holders(a) /\ (Expired(a)' <=> Expired(a))
  <2>1. \A a \in Blobs : Holders(a)' = Holders(a)
    BY <1>3, <1>4, Kinds DEF Holders
  <2>. QED  BY <2>1 DEF Expired
<1>6. /\ Unloaders(b)' = Unloaders(b) \ {c}
      /\ \A a \in Blobs \ {b} : Unloaders(a)' = Unloaders(a)
  BY <1>3, <1>4, Kinds DEF Unloaders
<1>7. /\ Cardinality(Unloaders(b) \ {c}) = Cardinality(Unloaders(b)) - 1
      /\ Cardinality(Unloaders(b)) \in Nat \ {0}
  BY <1>3, OneLess DEF Unloaders
<1>8. /\ refcount[b] # 0 /\ state[b] # "COMPRESSING"
      /\ refcount[b] = 1 => Expired(b)
      /\ refcount'[b] = refcount[b] - 1
      /\ refcount[b] \in Nat
  BY <1>1, <1>2, <1>7 DEF MInv, RefcountExact
<1>9. disk' = disk /\ freePages' = freePages /\ pages' = pages /\ last' = last
  BY <1>1 DEF pageVars
<1>10. /\ client' \in [Clients -> Handles]
       /\ refcount' \in [Blobs -> Nat]
  BY <1>1, <1>2, <1>8 DEF Handles
<1>11. RefcountExact'
  <2>1. \A a \in Blobs \ {b} : state'[a] = state[a] /\ refcount'[a] = refcount[a]
    BY <1>1, <1>2
  <2>2. state'[b] = "COMPRESSING" => refcount[b] = 1
    BY <1>1, <1>2, <1>8
  <2>3. RefcountExact  BY DEF MInv
  <2>4. refcount[b] = Cardinality(Unloaders(b)) + (IF Expired(b) THEN 0 ELSE 1)
    BY <2>3 DEF RefcountExact
  <2>5. /\ refcount'[b] = Cardinality(Unloaders(b))' + (IF Expired(b)' THEN 0 ELSE 1)
        /\ state'[b] = "COMPRESSING" => refcount'[b] = 0
    BY <1>5, <1>6, <1>7, <1>8, <2>2, <2>4
  <2>. QED  BY <1>5, <1>6, <2>1, <2>3, <2>5 DEF RefcountExact
<1>12. HoldersShare' /\ PagesAccounted' /\ PagesHold'
  <2>1. HoldersShare'
    <3>1. \A a \in Blobs : \A d \in Holders(a) : client'[d] = client[d]
      BY <1>3, <1>4 DEF Holders
    <3>2. \A a \in Blobs : ~Expired(a) => data'[a] = data[a] /\ state'[a] = state[a]
      <4>1. ~Expired(b) => refcount[b] # 1  BY <1>8
      <4>. QED  BY <1>1, <1>2, <4>1
    <3>. QED  BY <1>5, <3>1, <3>2 DEF MInv, HoldersShare, Expired
  <2>2. PagesAccounted'
    BY <1>9 DEF MInv, PagesAccounted, AllPages
  <2>3. \A a \in Blobs : state'[a] = "CLEAN" => state[a] = "CLEAN"
    BY <1>1, <1>2
  <2>. QED  BY <1>9, <2>1, <2>2, <2>3 DEF MInv, PagesHold, Holds
<1>13. CASE refcount[b] = 1 /\ state[b] = "DIRTY"
  <2>1. /\ jobs[b] < MaxJobs
        /\ state' = [state EXCEPT ![b] = "COMPRESSING"]
        /\ jobs' = [jobs EXCEPT ![b] = @ + 1]
        /\ data' = data /\ heap' = heap
    BY <1>1, <1>13
  <2>2. state' \in [Blobs -> States] /\ jobs' \in [Blobs -> 0..MaxJobs]
    BY <1>2, <2>1 DEF States
  <2>3. Types'  BY <1>9, <1>10, <2>1, <2>2 DEF MInv, Types, TypeOK, AllPages
  <2>4. BuffersOwned'  BY <2>1 DEF MInv, BuffersOwned
  <2>5. BuffersFit'  BY <1>2, <1>5, <1>9, <1>13, <2>1 DEF MInv, BuffersFit
  <2>6. BuffersGo'  BY <1>1, <1>2, <1>8, <1>13, <2>1 DEF MInv, BuffersGo
  <2>. QED  BY <1>11, <1>12, <2>3, <2>4, <2>5, <2>6 DEF MInv
<1>14. CASE refcount[b] = 1 /\ state[b] # "DIRTY"
  <2>1. /\ heap' = [n \in Buffers |-> IF n = data[b] THEN Free ELSE heap[n]]
        /\ data' = [data EXCEPT ![b] = 0]
        /\ state' = state /\ jobs' = jobs
    BY <1>1, <1>14
  <2>2. heap' \in [Buffers -> Values \cup {Free}] /\ data' \in [Blobs -> {0} \cup Buffers]
    BY <1>2, <2>1
  <2>3. Types'  BY <1>9, <1>10, <2>1, <2>2 DEF MInv, Types, TypeOK, AllPages
  <2>4. \A a \in Blobs \ {b} : data'[a] = data[a] /\ (data[a] # 0 => heap'[data[a]] = heap[data[a]])
    BY <1>2, <2>1 DEF MInv, BuffersOwned
  <2>5. data'[b] = 0  BY <1>2, <2>1
  <2>6. BuffersOwned'  BY <2>4, <2>5 DEF MInv, BuffersOwned
  <2>7. BuffersFit'
    <3>1. ASSUME NEW a \in Blobs \ {b}, ~Expired(a) PROVE data[a] # 0
      BY <3>1 DEF Expired, MInv, HoldersShare
    <3>. QED  BY <1>5, <1>8, <1>9, <1>14, <2>1, <2>4, <3>1 DEF MInv, BuffersFit
  <2>8. BuffersGo'  BY <1>1, <1>2, <1>8, <1>14, <2>1, <2>4, <2>5 DEF MInv, BuffersGo
  <2>. QED  BY <1>11, <1>12, <2>3, <2>6, <2>7, <2>8 DEF MInv
<1>15. CASE refcount[b] # 1
  <2>1. state' = state /\ data' = data /\ jobs' = jobs /\ heap' = heap
    BY <1>1, <1>15
  <2>2. Types'  BY <1>9, <1>10, <2>1 DEF MInv, Types, TypeOK, AllPages
  <2>3. BuffersOwned' /\ BuffersFit'
    BY <1>5, <1>9, <2>1 DEF MInv, BuffersOwned, BuffersFit
  <2>4. refcount'[b] # 0  BY <1>8, <1>15
  <2>5. BuffersGo'  BY <1>1, <1>2, <1>8, <2>1, <2>4 DEF MInv, BuffersGo
  <2>. QED  BY <1>11, <1>12, <2>2, <2>3, <2>5 DEF MInv
<1>. QED  BY <1>13, <1>14, <1>15

-----------------------------------------------------------------------------
(* Pages.                                                                  *)

\* Whole blocks, and enough of them.
LEMMA Enough == ASSUME NEW m \in Nat
                PROVE  /\ BlockCount * ((m + BlockCount - 1) \div BlockCount) \in Nat
                       /\ BlockCount * ((m + BlockCount - 1) \div BlockCount) >= m
<1>. DEFINE n == m + BlockCount - 1
            q == n \div BlockCount
<1>1. BlockCount \in Nat \ {0} /\ n \in Nat  BY SizesAssumption
<1>2. q \in Nat /\ BlockCount * q <= n /\ n < BlockCount * q + BlockCount
  <2>. HIDE DEF n
  <2>. QED  BY <1>1
<1>3. BlockCount * q \in Nat  BY <1>1, <1>2
<1>. HIDE DEF q
<1>. QED  BY <1>1, <1>2, <1>3

LEMMA TakenPages ==
    ASSUME Types, NEW k \in Nat
    PROVE  /\ NewPages(k) \in Nat
           /\ Taken(k) \in [1..k -> Available(k)]
           /\ IsInjective(Taken(k))
<1>. DEFINE new == Len(disk) + 1 .. Len(disk) + NewPages(k)
<1>1. Len(disk) \in Nat /\ AllPages = 1..Len(disk) /\ freePages \subseteq 1..Len(disk)
  BY DEF Types, TypeOK, AllPages
<1>2. IsFiniteSet(freePages) /\ Cardinality(freePages) \in Nat
  <2>1. IsFiniteSet(1..Len(disk))  BY <1>1, FS_Interval
  <2>2. IsFiniteSet(freePages)  BY <1>1, <2>1, FS_Subset
  <2>. QED  BY <2>2, FS_CardinalityType
<1>3. Missing(k) \in Nat /\ Missing(k) + Cardinality(freePages) >= k
  BY <1>2 DEF Missing
<1>4. NewPages(k) \in Nat /\ NewPages(k) >= Missing(k)
  BY <1>3, Enough DEF NewPages
<1>5. IsFiniteSet(new) /\ Cardinality(new) = NewPages(k)
  <2>. DEFINE first == Len(disk) + 1
              end == Len(disk) + NewPages(k)
  <2>1. first \in Int /\ end \in Int /\ end = first + NewPages(k) - 1  BY <1>1, <1>4
  <2>. HIDE DEF first, end
  <2>2. /\ IsFiniteSet(first..end)
        /\ Cardinality(first..end) = IF first > end THEN 0 ELSE end - first + 1
    BY <2>1, FS_Interval
  <2>3. Cardinality(first..end) = NewPages(k)  BY <1>4, <2>1, <2>2
  <2>. QED  BY <2>2, <2>3 DEF first, end
<1>6. freePages \cap new = {}  BY <1>1, <1>4
<1>7. IsFiniteSet(Available(k)) /\ Cardinality(Available(k)) = Cardinality(freePages) + NewPages(k)
  <2>1. /\ IsFiniteSet(freePages \cup new)
        /\ Cardinality(freePages \cup new)
             = Cardinality(freePages) + Cardinality(new) - Cardinality(freePages \cap new)
    BY <1>2, <1>5, FS_Union
  <2>2. Cardinality(freePages \cap new) = 0  BY <1>6, FS_EmptySet
  <2>. QED  BY <1>2, <1>4, <1>5, <2>1, <2>2 DEF Available
<1>. DEFINE A == Available(k)
            n == Cardinality(A)
<1>8. n \in Nat /\ n >= k /\ ExistsBijection(1..n, A)
  BY <1>2, <1>3, <1>4, <1>7, FS_CardinalityType
<1>9. PICK f \in [1..n -> A] : IsInjective(f)
  BY <1>8 DEF ExistsBijection, Bijection, Injection
<1>. DEFINE g == [i \in 1..k |-> f[i]]
<1>10. g \in [1..k -> A] /\ IsInjective(g)
  BY <1>8, <1>9 DEF IsInjective
<1>11. \E ps \in [1..k -> Available(k)] : IsInjective(ps)
  <2>. HIDE DEF g
  <2>. QED  BY <1>10
<1>. QED  BY <1>4, <1>11 DEF Taken

\* Allocating adds pages behind those there are.
LEMMA MorePages ==
    ASSUME NEW m \in Nat, NEW n \in Nat, NEW F, F \subseteq 1..m
    PROVE  /\ F \cup (m + 1 .. m + n) \subseteq 1..(m + n)
           /\ F \cup (m + 1 .. m + n) \subseteq Nat
           /\ 1..m \subseteq 1..(m + n)
OBVIOUS

LEMMA CompressInv == ASSUME MInv, NEW b \in Blobs, Compress(b) PROVE MInv'
<1>1. /\ jobs[b] > 0 /\ jobs' = [jobs EXCEPT ![b] = @ - 1]
      /\ refcount' = refcount /\ client' = client /\ last' = last
  BY DEF Compress
<1>2. /\ state \in [Blobs -> States] /\ data \in [Blobs -> {0} \cup Buffers]
      /\ refcount \in [Blobs -> Nat] /\ heap \in [Buffers -> Values \cup {Free}]
      /\ jobs \in [Blobs -> 0..MaxJobs] /\ client \in [Clients -> Handles]
      /\ last \in [Blobs -> Values] /\ Free \notin Values /\ 0 \notin Buffers
      /\ MaxJobs \in Nat /\ pages \in [Blobs -> Seq(Nat)] /\ disk \in Seq(Values \X Nat)
  BY ValuesAssumption, BoundsAssumption DEF MInv, Types, TypeOK, Buffers
<1>3. jobs' \in [Blobs -> 0..MaxJobs] /\ \A a \in Blobs \ {b} : jobs'[a] = jobs[a]
  BY <1>1, <1>2
<1>4. \A a \in Blobs : /\ Holders(a)' = Holders(a) /\ Unloaders(a)' = Unloaders(a)
                       /\ Expired(a)' <=> Expired(a)
  BY <1>1 DEF Holders, Unloaders, Expired
<1>5. CASE state[b] # "COMPRESSING"
  <2>1. /\ state' = state /\ data' = data /\ heap' = heap
        /\ disk' = disk /\ freePages' = freePages /\ pages' = pages
    BY <1>5 DEF Compress, MustCompress, pageVars
  <2>2. Types'  BY <1>1, <1>3, <2>1 DEF MInv, Types, TypeOK, AllPages
  <2>3. BuffersOwned' /\ HoldersShare' /\ BuffersFit'
    BY <1>1, <1>4, <2>1 DEF MInv, BuffersOwned, HoldersShare, BuffersFit
  <2>4. BuffersGo'  BY <1>1, <1>3, <1>5, <2>1 DEF MInv, BuffersGo
  <2>5. PagesHold'
    BY <1>1, <2>1 DEF MInv, PagesHold, Holds
  <2>6. RefcountExact'
    BY <1>1, <1>4, <2>1 DEF MInv, RefcountExact
  <2>7. PagesAccounted'
    BY <2>1 DEF MInv, PagesAccounted, AllPages
  <2>. QED  BY <2>2, <2>3, <2>4, <2>5, <2>6, <2>7 DEF MInv
<1>6. CASE state[b] = "COMPRESSING"
  <2>. DEFINE v == heap[data[b]]
              k == PagesFor[v]
              N == NewPages(k)
              T == Taken(k)
              more == disk \o [i \in 1..N |-> Part(v, 0)]
  <2>1. data[b] \in Buffers /\ v = last[b] /\ v \in Values /\ data[b] # 0
    BY <1>2, <1>6 DEF MInv, BuffersFit
  <2>2. k \in Nat  BY <2>1, SizesAssumption
  <2>3. /\ pages' = [pages EXCEPT ![b] = T]
        /\ disk' = Compressed(v, T, more)
        /\ freePages' = (Available(k) \ ToSet(T)) \cup ToSet(pages[b])
        /\ heap' = [heap EXCEPT ![data[b]] = Free]
        /\ data' = [data EXCEPT ![b] = 0]
        /\ state' = [state EXCEPT ![b] = "CLEAN"]
    BY <1>6 DEF Compress, MustCompress, GivenBack
  <2>4. N \in Nat /\ T \in [1..k -> Available(k)] /\ IsInjective(T)
    BY <2>2, TakenPages DEF MInv
  <2>5. Available(k) = freePages \cup (Len(disk) + 1 .. Len(disk) + N)  BY DEF Available
  <2>6. PagesFor[v] = k  OBVIOUS
  <2>. HIDE DEF T, N, k
  <2>7. /\ Len(disk) \in Nat /\ DOMAIN disk = 1..Len(disk) /\ AllPages = 1..Len(disk)
        /\ freePages \subseteq 1..Len(disk)
    BY DEF MInv, Types, TypeOK, AllPages
  <2>8. /\ DOMAIN more = 1..(Len(disk) + N)
        /\ \A p \in 1..Len(disk) : more[p] = disk[p]
        /\ \A p \in 1..(Len(disk) + N) : more[p] \in Values \X Nat
    <3>. DEFINE new == [i \in 1..N |-> Part(v, 0)]
    <3>1. new \in Seq(Values \X Nat) /\ Len(new) = N /\ more = disk \o new
      <4>1. Part(v, 0) \in Values \X Nat  BY <2>1 DEF Part
      <4>. QED  BY <2>4, <4>1
    <3>. HIDE DEF new, more
    <3>2. more \in Seq(Values \X Nat) /\ Len(more) = Len(disk) + N
      <4>. DEFINE X == Values \X Nat
      <4>1. disk \in Seq(X) /\ new \in Seq(X)  BY <1>2, <3>1
      <4>. HIDE DEF X
      <4>2. disk \o new \in Seq(X) /\ Len(disk \o new) = Len(disk) + Len(new)  BY <4>1
      <4>. QED  BY <3>1, <4>2 DEF X
    <3>3. \A p \in 1..Len(disk) : more[p] = disk[p]
      BY <1>2, <3>1
    <3>. QED  BY <2>4, <2>7, <3>2, <3>3
  <2>. HIDE DEF more, v
  <2>13. Available(k) \subseteq 1..(Len(disk) + N) /\ 1..Len(disk) \subseteq 1..(Len(disk) + N)
    BY <2>4, <2>5, <2>7, MorePages
  <2>9. T \in Seq(Nat) /\ Len(T) = k /\ DOMAIN T = 1..k /\ ToSet(T) \subseteq Available(k)
        /\ \A p \in ToSet(T) : \E i \in 1..k : T[i] = p
    <3>1. Available(k) \subseteq Nat  BY <2>4, <2>5, <2>7, MorePages
    <3>2. T \in Seq(Nat) /\ Len(T) = k /\ DOMAIN T = 1..k  BY <2>2, <2>4, <3>1
    <3>. QED  BY <2>4, <3>2 DEF ToSet
  <2>10. /\ DOMAIN disk' = 1..(Len(disk) + N)
         /\ \A i \in 1..k : disk'[T[i]] = Part(v, i)
         /\ \A p \in 1..(Len(disk) + N) : p \notin ToSet(T) => disk'[p] = more[p]
         /\ disk' \in Seq(Values \X Nat)
    <3>1. \A i \in 1..k : T[i] \in 1..(Len(disk) + N)
      BY <2>4, <2>13
    <3>2. disk' = [p \in 1..(Len(disk) + N) |->
                    IF \E i \in 1..k : T[i] = p
                    THEN Part(v, CHOOSE i \in 1..k : T[i] = p)
                    ELSE more[p]]
      BY <2>3, <2>8, <2>9 DEF Compressed
    <3>3. \A i \in 1..k : (CHOOSE j \in 1..k : T[j] = T[i]) = i
      BY <2>4, <2>9 DEF IsInjective
    <3>4. \A i \in 1..k : disk'[T[i]] = Part(v, i)
      BY <3>1, <3>2, <3>3
    <3>5. \A p \in 1..(Len(disk) + N) : p \notin ToSet(T) => disk'[p] = more[p]
      BY <2>9, <3>2 DEF ToSet
    <3>6. \A p \in 1..(Len(disk) + N) : disk'[p] \in Values \X Nat
      <4>1. ASSUME NEW i \in 1..k PROVE Part(v, i) \in Values \X Nat
        BY <2>1, <2>2 DEF Part
      <4>2. ASSUME NEW p \in 1..(Len(disk) + N), p \in ToSet(T)
            PROVE  disk'[p] \in Values \X Nat
        BY <2>9, <3>4, <4>1, <4>2
      <4>. QED  BY <2>8, <3>5, <4>2
    <3>7. disk' \in [1..(Len(disk) + N) -> Values \X Nat]
      BY <3>2, <3>6
    <3>8. Len(disk) + N \in Nat  BY <2>4, <2>7
    <3>9. disk' \in Seq(Values \X Nat)  BY <3>7, <3>8
    <3>. QED  BY <3>2, <3>4, <3>5, <3>9
  <2>11. AllPages' = 1..(Len(disk) + N)  BY <2>10 DEF AllPages
  <2>12. \A a \in Blobs : pages[a] \in Seq(1..Len(disk)) /\ ToSet(pages[a]) \subseteq 1..Len(disk)
    <3>1. \A a \in Blobs : pages[a] \in Seq(1..Len(disk))
      BY <2>7 DEF MInv, Types, TypeOK
    <3>. QED  BY <3>1 DEF ToSet
  <2>14. /\ pages'[b] = T
         /\ \A a \in Blobs \ {b} : pages'[a] = pages[a]
         /\ state'[b] = "CLEAN" /\ data'[b] = 0
         /\ \A a \in Blobs \ {b} : state'[a] = state[a] /\ data'[a] = data[a]
         /\ \A a \in Blobs \ {b} : data[a] # 0 => heap'[data[a]] = heap[data[a]]
    BY <1>2, <2>3 DEF MInv, BuffersOwned
  <2>15. Holders(b) = {} /\ Expired(b)
    <3>1. Cardinality(Unloaders(b)) \in Nat  BY ClientsFinite DEF Unloaders
    <3>. QED  BY <1>6, <3>1 DEF MInv, RefcountExact, Expired
  <2>16. Types'
    <3>1. \A a \in Blobs : pages'[a] \in Seq(AllPages')
      <4>1. T \in Seq(AllPages')
        <5>1. T \in [1..k -> AllPages']  BY <2>4, <2>11, <2>13
        <5>. QED  BY <2>2, <5>1
      <4>2. ASSUME NEW a \in Blobs PROVE pages[a] \in Seq(AllPages')
        <5>1. pages[a] \in Seq(1..Len(disk)) /\ 1..Len(disk) \subseteq AllPages'
          BY <2>11, <2>12, <2>13
        <5>. HIDE DEF AllPages
        <5>. QED  BY <5>1
      <4>. QED  BY <2>14, <4>1, <4>2
    <3>2. freePages' \subseteq AllPages'
      BY <2>3, <2>11, <2>12, <2>13
    <3>3. pages' \in [Blobs -> Seq(Nat)]  BY <1>2, <2>3, <2>9
    <3>4. state' \in [Blobs -> States]  BY <1>2, <2>3 DEF States
    <3>5. data' \in [Blobs -> {0} \cup Buffers] /\ heap' \in [Buffers -> Values \cup {Free}]
      BY <1>2, <2>3
    <3>. QED  BY <1>1, <1>2, <1>3, <2>10, <3>1, <3>2, <3>3, <3>4, <3>5 DEF Types, TypeOK
  <2>17. BuffersOwned'
    BY <2>14 DEF MInv, BuffersOwned
  <2>18. HoldersShare'
    BY <1>1, <1>4, <2>14, <2>15 DEF MInv, HoldersShare
  <2>19. BuffersFit'
    <3>1. ASSUME NEW a \in Blobs, ~Expired(a) PROVE data[a] # 0
      BY <3>1 DEF Expired, MInv, HoldersShare
    <3>. QED  BY <1>1, <1>4, <2>14, <2>15, <3>1 DEF MInv, BuffersFit
  <2>20. BuffersGo'
    BY <1>1, <1>3, <2>14 DEF MInv, BuffersGo
  <2>21. RefcountExact'
    <3>1. \A a \in Blobs : state'[a] = "COMPRESSING" => state[a] = "COMPRESSING"
      BY <2>14
    <3>. QED  BY <1>1, <1>4, <3>1 DEF MInv, RefcountExact
  <2>22. \A a \in Blobs : ToSet(pages[a]) \cap Available(k) = {}
    BY <2>4, <2>5, <2>7, <2>12 DEF MInv, PagesAccounted
  <2>23. PagesHold'
    <3>1. Holds(pages[b], last[b])'
      BY <1>1, <2>1, <2>6, <2>9, <2>10, <2>14 DEF Holds
    <3>2. ASSUME NEW a \in Blobs \ {b}, Holds(pages[a], last[a])
          PROVE  Holds(pages[a], last[a])'
      <4>1. \A i \in DOMAIN pages[a] : pages[a][i] \in ToSet(pages[a])  BY DEF ToSet
      <4>2. \A p \in ToSet(pages[a]) : disk'[p] = disk[p]
        BY <2>8, <2>9, <2>10, <2>12, <2>13, <2>22
      <4>. QED  BY <1>1, <2>14, <3>2, <4>1, <4>2 DEF Holds
    <3>. QED  BY <2>14, <3>1, <3>2 DEF MInv, PagesHold
  <2>24. PagesAccounted'
    <3>1. AllPages' = freePages' \cup UNION {ToSet(pages'[a]) : a \in Blobs}
      <4>1. \A p \in AllPages' : p \in Available(k) \/ \E a \in Blobs : p \in ToSet(pages[a])
        BY <2>4, <2>5, <2>7, <2>11 DEF MInv, PagesAccounted
      <4>2. \A p \in AllPages' : p \in freePages' \/ \E a \in Blobs : p \in ToSet(pages'[a])
        BY <2>3, <2>14, <4>1
      <4>3. \A a \in Blobs : ToSet(pages'[a]) \subseteq AllPages'
        BY <2>9, <2>11, <2>12, <2>13, <2>14
      <4>4. freePages' \subseteq AllPages'  BY <2>16 DEF Types, TypeOK
      <4>. QED  BY <4>2, <4>3, <4>4
    <3>2. \A a \in Blobs : IsInjective(pages'[a])
      BY <2>4, <2>14 DEF MInv, PagesAccounted
    <3>3. \A a \in Blobs : ToSet(pages'[a]) \cap freePages' = {}
      BY <2>3, <2>9, <2>14, <2>22 DEF MInv, PagesAccounted
    <3>4. \A a \in Blobs : \A c \in Blobs \ {a} : ToSet(pages'[c]) \cap ToSet(pages'[a]) = {}
      BY <2>9, <2>14, <2>22 DEF MInv, PagesAccounted
    <3>. QED  BY <3>1, <3>2, <3>3, <3>4 DEF PagesAccounted
  <2>. QED  BY <2>16, <2>17, <2>18, <2>19, <2>20, <2>21, <2>23, <2>24 DEF MInv
<1>. QED  BY <1>5, <1>6

-----------------------------------------------------------------------------
(* The invariant, and what follows from it.                                *)

LEMMA InitInv == Init => MInv
<1>. SUFFICES ASSUME Init PROVE MInv  OBVIOUS
<1>1. \A b \in Blobs : Holders(b) = {} /\ Unloaders(b) = {} /\ Expired(b)
  BY Kinds DEF Init, Holders, Unloaders, Expired
<1>2. Types
  <2>1. disk = <<>> /\ AllPages = {} /\ disk \in Seq(Values \X Nat)  BY DEF Init, AllPages
  <2>2. <<>> \in Seq(Nat) /\ <<>> \in Seq(AllPages)  OBVIOUS
  <2>3. last \in [Blobs -> Values]  BY ValuesAssumption DEF Init
  <2>4. client \in [Clients -> Handles]  BY DEF Init, Handles
  <2>. QED  BY <2>1, <2>2, <2>3, <2>4, BoundsAssumption DEF Init, Types, TypeOK, States, AllPages
<1>3. BuffersOwned /\ HoldersShare /\ BuffersFit /\ BuffersGo /\ PagesHold
  BY <1>1 DEF Init, BuffersOwned, HoldersShare, BuffersFit, BuffersGo, PagesHold
<1>4. RefcountExact
  <2>1. \A b \in Blobs : refcount[b] = 0 /\ state[b] = "UNINITIALIZED"  BY DEF Init
  <2>2. \A b \in Blobs : Cardinality(Unloaders(b)) = 0  BY <1>1, FS_EmptySet
  <2>. QED  BY <1>1, <2>1, <2>2 DEF RefcountExact
<1>5. PagesAccounted
  <2>1. \A b \in Blobs : pages[b] = <<>> /\ ToSet(pages[b]) = {} /\ IsInjective(pages[b])
    BY DEF Init, ToSet, IsInjective
  <2>. QED  BY <2>1 DEF Init, PagesAccounted, AllPages
<1>. QED  BY <1>2, <1>3, <1>4, <1>5 DEF MInv

LEMMA StepInv == MInv /\ [Next]_vars => MInv'
<1>. SUFFICES ASSUME MInv, [Next]_vars PROVE MInv'  OBVIOUS
<1>1. CASE UNCHANGED vars
  <2>1. /\ state' = state /\ data' = data /\ refcount' = refcount /\ pages' = pages
        /\ jobs' = jobs /\ disk' = disk /\ freePages' = freePages
        /\ heap' = heap /\ last' = last /\ client' = client
    BY <1>1 DEF vars, blobVars, pageVars
  <2>2. \A a \in Blobs : /\ Holders(a)' = Holders(a) /\ Unloaders(a)' = Unloaders(a)
                         /\ Expired(a)' <=> Expired(a)
    BY <2>1 DEF Holders, Unloaders, Expired
  <2>3. Types'  BY <2>1 DEF MInv, Types, TypeOK, AllPages
  <2>7. PagesAccounted'  BY <2>1 DEF MInv, PagesAccounted, AllPages
  <2>8. BuffersOwned' /\ BuffersGo'  BY <2>1 DEF MInv, BuffersOwned, BuffersGo
  <2>4. HoldersShare' /\ BuffersFit'
    BY <2>1, <2>2 DEF MInv, HoldersShare, BuffersFit
  <2>5. RefcountExact'  BY <2>1, <2>2 DEF MInv, RefcountExact
  <2>6. PagesHold'  BY <2>1 DEF MInv, PagesHold, Holds
  <2>. QED  BY <2>3, <2>4, <2>5, <2>6, <2>7, <2>8 DEF MInv
<1>2. ASSUME NEW c \in Clients, Use(c) PROVE MInv'
  BY <1>2, GetInv, GetConstInv, InitializeInv, WriteInv, DropInv DEF Use
<1>3. ASSUME NEW c \in Clients, Unload(c) PROVE MInv'
  BY <1>3, UnloadInv
<1>4. ASSUME NEW b \in Blobs, Compress(b) PROVE MInv'
  BY <1>4, CompressInv
<1>. QED  BY <1>1, <1>2, <1>3, <1>4 DEF Next

LEMMA InvAlways == Spec => []MInv
BY InitInv, StepInv, PTL DEF Spec

LEMMA InvRetains == MInv => DataRetained
<1>. SUFFICES ASSUME MInv PROVE DataRetained  OBVIOUS
<1>1. HeldBuffersExist
  BY DEF MInv, BuffersOwned, HoldersShare, HeldBuffersExist
<1>2. ReadsBack
  <2>. SUFFICES ASSUME NEW b \in Blobs, state[b] # "UNINITIALIZED", NEW c \in Holders(b)
                PROVE  heap[client[c].buf] = last[b]
    BY DEF ReadsBack
  <2>1. ~Expired(b)  BY DEF Expired
  <2>2. client[c].buf = data[b]  BY DEF MInv, HoldersShare
  <2>3. state[b] \in {"CLEAN", "DIRTY", "COMPRESSING"}  BY DEF MInv, Types, TypeOK, States
  <2>. QED  BY <2>1, <2>2, <2>3 DEF MInv, BuffersFit
<1>3. PagesIntact
  <2>1. ASSUME NEW b \in Blobs, state[b] = "CLEAN", NEW c \in Holders(b)
        PROVE  ~client[c].writable
    BY <2>1 DEF MInv, HoldersShare
  <2>. QED  BY <2>1 DEF MInv, PagesHold, PagesIntact
<1>. QED  BY <1>1, <1>2, <1>3 DEF DataRetained

LEMMA InvGo == MInv => IdleBuffersGo
<1>. SUFFICES ASSUME MInv, NEW b \in Blobs, Expired(b), Unloaders(b) = {}, data[b] # 0
              PROVE  state[b] = "COMPRESSING" /\ jobs[b] > 0
  BY DEF IdleBuffersGo
<1>1. refcount[b] = 0  BY FS_EmptySet DEF MInv, RefcountExact
<1>. QED  BY <1>1 DEF MInv, BuffersGo

\* Whoever holds a blob finds in its buffer what was written last, whether or not
\* the blob was compressed, decompressed, or freed in between, and whatever other
\* blobs did to the heap and to the pages (Blob::load(), unload() and compress(),
\* memoryblobs.cc).
THEOREM DataIsRetained == Spec => []DataRetained
BY InvAlways, InvRetains, PTL

\* The reference count is the number of calls of unload() to come, so that
\* compress() finds 0 when it requires it; no page belongs to two blobs, or twice to
\* one, and a page that no blob has is free (Blob::get() and unload(),
\* memoryblobs.cc; pageprovider.cc).
THEOREM MemoryIsAccounted == Spec => []MemoryAccounted
<1>1. MInv => MemoryAccounted  BY DEF MInv, Types, MemoryAccounted
<1>. QED  BY <1>1, InvAlways, PTL

\* No interleaving of get(), unload() and compress() leaves a blob that nobody uses
\* in memory without a job that will compress it: a job that gives up because the
\* blob is in use again leaves it to the one that the next unload() schedules
\* (unload() and compress(), memoryblobs.cc).
THEOREM IdleBuffersGoAway == Spec => []IdleBuffersGo
BY InvAlways, InvGo, PTL
=============================================================================
