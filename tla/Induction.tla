------------------------------- MODULE Induction -------------------------------
(***************************************************************************)
(* Induction, and functions that are defined recursively, in a form that   *)
(* uses sets and functions instead of operators as parameters: what is to  *)
(* be shown of every element is that it is in a set.                       *)
(***************************************************************************)
EXTENDS Integers, FiniteSetTheorems, WellFoundedInduction, FiniteSetsExt, TLAPS

\* Induction over the natural numbers, with a set for the property.
LEMMA NatSets ==
    ASSUME NEW T, 0 \in T, \A n \in Nat : n \in T => n + 1 \in T
    PROVE  \A n \in Nat : n \in T
<1>. SUFFICES ASSUME NEW m \in Nat, m \notin T PROVE FALSE  OBVIOUS
<1>. DEFINE Bad == {n \in Nat : n \notin T}
<1>1. Bad \subseteq Nat /\ Bad # {}  OBVIOUS
<1>2. \E x \in Bad : \A y \in Bad : ~ (<<y, x>> \in OpToRel(<, Nat))
  <2>. HIDE DEF Bad
  <2>. QED  BY <1>1, NatLessThanWellFounded, WFMin
<1>3. PICK x \in Nat : x \notin T /\ \A y \in Nat : y \notin T => ~ (y < x)
  BY <1>2 DEF OpToRel
<1>4. x # 0  BY <1>3
<1>5. x - 1 \in Nat /\ x - 1 < x /\ (x - 1) + 1 = x  BY <1>4
<1>6. x - 1 \in T  BY <1>3, <1>5
<1>. QED  BY <1>3, <1>5, <1>6

\* A finite set has fewer elements without one of them.
LEMMA FewerWithout ==
    ASSUME NEW S, IsFiniteSet(S), NEW s \in SUBSET S
    PROVE  /\ IsFiniteSet(s) /\ Cardinality(s) \in Nat
           /\ \A x \in s : s \ {x} \in SUBSET S /\ Cardinality(s \ {x}) = Cardinality(s) - 1
<1>1. IsFiniteSet(s) /\ Cardinality(s) \in Nat  BY FS_Subset, FS_CardinalityType
<1>2. \A x \in s : Cardinality(s \ {x}) = Cardinality(s) - 1  BY <1>1, FS_RemoveElement
<1>. QED  BY <1>1, <1>2

\* What holds of a set of every size if it holds of the smaller ones.
LEMMA BySize ==
    ASSUME NEW S, IsFiniteSet(S), NEW T,
           \A s \in SUBSET S :
               (\A r \in SUBSET S : Cardinality(r) < Cardinality(s) => r \in T) => s \in T
    PROVE  \A s \in SUBSET S : s \in T
<1>. DEFINE N == {n \in Nat : \A s \in SUBSET S : Cardinality(s) < n => s \in T}
<1>0. \A s \in SUBSET S : Cardinality(s) \in Nat  BY FewerWithout
<1>1. 0 \in N  BY <1>0
<1>2. ASSUME NEW n \in Nat, n \in N PROVE n + 1 \in N
  <2>. SUFFICES ASSUME NEW s \in SUBSET S, Cardinality(s) < n + 1 PROVE s \in T  BY <1>2
  <2>1. \A r \in SUBSET S : Cardinality(r) < Cardinality(s) => r \in T  BY <1>0, <1>2
  <2>. QED  BY <2>1
<1>3. \A n \in Nat : n \in N
  <2>. HIDE DEF N
  <2>. QED  BY <1>1, <1>2, NatSets
<1>. SUFFICES ASSUME NEW s \in SUBSET S PROVE s \in T  OBVIOUS
<1>4. Cardinality(s) + 1 \in N  BY <1>0, <1>3
<1>. QED  BY <1>0, <1>4

\* What holds of the empty set, and of a set if it does without one of its elements.
LEMMA OneByOne ==
    ASSUME NEW S, IsFiniteSet(S), NEW pick, \A s \in SUBSET S : s # {} => pick[s] \in s,
           NEW T, {} \in T, \A s \in SUBSET S : s # {} /\ s \ {pick[s]} \in T => s \in T
    PROVE  \A s \in SUBSET S : s \in T
<1>1. ASSUME NEW s \in SUBSET S, \A r \in SUBSET S : Cardinality(r) < Cardinality(s) => r \in T
      PROVE  s \in T
  <2>1. CASE s = {}  BY <2>1
  <2>2. CASE s # {}
    <3>1. pick[s] \in s  BY <2>2
    <3>2. s \ {pick[s]} \in SUBSET S /\ Cardinality(s \ {pick[s]}) < Cardinality(s)
      BY <3>1, FewerWithout
    <3>. QED  BY <1>1, <2>2, <3>2
  <2>. QED  BY <2>1, <2>2
<1>2. \A s \in SUBSET S : (\A r \in SUBSET S : Cardinality(r) < Cardinality(s) => r \in T) => s \in T
  BY <1>1
<1>. QED  BY ONLY IsFiniteSet(S), <1>2, BySize

\* The function that a fold over a set is defined with exists, and each of its
\* values is where the steps lead: G[s] has the outcomes for the elements in s.
FoldOf(f, S, pick, base, step) ==
    /\ f = [s \in SUBSET S |-> f[s]]
    /\ \A s \in SUBSET S : f[s] = IF s = {} THEN base ELSE step[<<s, f[s \ {pick[s]}]>>]

\* There is such a function.
LEMMA FoldExists ==
    ASSUME NEW S, IsFiniteSet(S), NEW pick, \A s \in SUBSET S : s # {} => pick[s] \in s,
           NEW base, NEW step
    PROVE  \E f : FoldOf(f, S, pick, base, step)
<1>. DEFINE IsTable(f) == f = [s \in SUBSET S |-> f[s]]
            Fits(f, s) == f[s] = IF s = {} THEN base ELSE step[<<s, f[s \ {pick[s]}]>>]
            N == {n \in Nat : \E f : /\ IsTable(f)
                                     /\ \A s \in SUBSET S : Cardinality(s) <= n => Fits(f, s)}
<1>1. 0 \in N
  <2>. DEFINE g == [s \in SUBSET S |-> base]
  <2>1. ASSUME NEW s \in SUBSET S, Cardinality(s) <= 0 PROVE Fits(g, s)
    <3>1. IsFiniteSet(s) /\ Cardinality(s) \in Nat  BY FewerWithout
    <3>2. s = {}  BY <2>1, <3>1, FS_EmptySet
    <3>. QED  BY <3>2
  <2>2. IsTable(g)  OBVIOUS
  <2>. HIDE DEF g
  <2>. QED  BY <2>1, <2>2
<1>2. ASSUME NEW n \in Nat, n \in N PROVE n + 1 \in N
  <2>1. PICK f : \A s \in SUBSET S : Cardinality(s) <= n => Fits(f, s)  BY <1>2
  <2>. DEFINE g == [s \in SUBSET S |-> IF s = {} THEN base ELSE step[<<s, f[s \ {pick[s]}]>>]]
  <2>2. ASSUME NEW s \in SUBSET S, Cardinality(s) <= n + 1 PROVE Fits(g, s)
    <3>1. CASE s = {}  BY <3>1
    <3>2. CASE s # {}
      <4>. DEFINE r == s \ {pick[s]}
      <4>1. pick[s] \in s  BY <3>2
      <4>2. Cardinality(r) <= n /\ r \in SUBSET S  BY <2>2, <4>1, FewerWithout
      <4>3. f[r] = IF r = {} THEN base ELSE step[<<r, f[r \ {pick[r]}]>>]  BY <2>1, <4>2
      <4>4. g[r] = f[r]  BY <4>2, <4>3
      <4>. QED  BY <3>2, <4>4
    <3>. QED  BY <3>1, <3>2
  <2>3. IsTable(g)  OBVIOUS
  <2>4. \E h : /\ IsTable(h)
               /\ \A s \in SUBSET S : Cardinality(s) <= n + 1 => Fits(h, s)
    <3>. HIDE DEF g, Fits, IsTable
    <3>. QED  BY <2>2, <2>3
  <2>5. n + 1 \in Nat  OBVIOUS
  <2>. HIDE DEF g, Fits, IsTable
  <2>. QED  BY <2>4, <2>5
<1>3. \A n \in Nat : n \in N
  <2>. HIDE DEF N
  <2>. QED  BY <1>1, <1>2, NatSets
<1>4. Cardinality(S) \in N  BY <1>3, FS_CardinalityType
<1>5. PICK f : /\ IsTable(f)
               /\ \A s \in SUBSET S : Cardinality(s) <= Cardinality(S) => Fits(f, s)
  BY <1>4
<1>6. \A s \in SUBSET S : Cardinality(s) <= Cardinality(S)  BY FS_Subset
<1>7. \A s \in SUBSET S : Fits(f, s)  BY <1>5, <1>6
<1>. QED  BY <1>5, <1>7 DEF FoldOf

\* Where the steps lead, such a function leads.
LEMMA FoldLeads ==
    ASSUME NEW S, IsFiniteSet(S), NEW pick, \A s \in SUBSET S : s # {} => pick[s] \in s,
           NEW base, NEW step, NEW G, base \in G[{}],
           \A s \in SUBSET S : s # {} => \A y \in G[s \ {pick[s]}] : step[<<s, y>>] \in G[s]
    PROVE  \E f : FoldOf(f, S, pick, base, step) /\ \A s \in SUBSET S : f[s] \in G[s]
<1>1. PICK f : FoldOf(f, S, pick, base, step)  BY FoldExists
<1>2. \A s \in SUBSET S : f[s] = IF s = {} THEN base ELSE step[<<s, f[s \ {pick[s]}]>>]
  BY <1>1 DEF FoldOf
<1>. DEFINE T == {s \in SUBSET S : f[s] \in G[s]}
<1>3. {} \in T  BY <1>2
<1>4. ASSUME NEW s \in SUBSET S, s # {}, s \ {pick[s]} \in T PROVE s \in T
  <2>1. f[s] = step[<<s, f[s \ {pick[s]}]>>]  BY <1>2, <1>4
  <2>. QED  BY <1>4, <2>1
<1>5. \A s \in SUBSET S : s # {} /\ s \ {pick[s]} \in T => s \in T  BY <1>4
<1>6. \A s \in SUBSET S : s \in T
  <2>. HIDE DEF T
  <2>. QED  BY ONLY IsFiniteSet(S), \A s \in SUBSET S : s # {} => pick[s] \in s, <1>3, <1>5, OneByOne
<1>. QED  BY <1>1, <1>6

\* Where the steps lead, such a function stays.
LEMMA FoldStays ==
    ASSUME NEW S, IsFiniteSet(S), NEW pick, \A s \in SUBSET S : s # {} => pick[s] \in s,
           NEW it, NEW G, it[{}] \in G[{}],
           \A s \in SUBSET S : s # {} /\ it[s \ {pick[s]}] \in G[s \ {pick[s]}] => it[s] \in G[s]
    PROVE  it[S] \in G[S]
<1>. DEFINE T == {s \in SUBSET S : it[s] \in G[s]}
<1>1. {} \in T  OBVIOUS
<1>2. \A s \in SUBSET S : s # {} /\ s \ {pick[s]} \in T => s \in T  OBVIOUS
<1>3. \A s \in SUBSET S : s \in T
  <2>. HIDE DEF T
  <2>. QED  BY ONLY IsFiniteSet(S), \A s \in SUBSET S : s # {} => pick[s] \in s, <1>1, <1>2, OneByOne
<1>. QED  BY <1>3

\* A function that is defined by going on from next[x], which is smaller, until x
\* is among those to stop at, exists.
RunOf(f, D, stop, next) ==
    /\ f = [x \in D |-> f[x]]
    /\ \A x \in D : f[x] = IF x \in stop THEN x ELSE f[next[x]]

\* There is such a function.
LEMMA RunExists ==
    ASSUME NEW D, NEW stop, NEW next, NEW size \in [D -> Nat],
           \A x \in D \ stop : next[x] \in D /\ size[next[x]] < size[x]
    PROVE  \E f : RunOf(f, D, stop, next)
<1>. DEFINE IsTable(f) == f = [x \in D |-> f[x]]
            Fits(f, x) == f[x] = IF x \in stop THEN x ELSE f[next[x]]
            N == {n \in Nat : \E f : IsTable(f) /\ \A x \in D : size[x] <= n => Fits(f, x)}
<1>1. 0 \in N
  <2>. DEFINE g == [x \in D |-> x]
  <2>1. ASSUME NEW x \in D, size[x] <= 0 PROVE Fits(g, x)
    <3>1. x \in stop  BY <2>1
    <3>. QED  BY <3>1
  <2>2. IsTable(g)  OBVIOUS
  <2>. HIDE DEF g
  <2>. QED  BY <2>1, <2>2
<1>2. ASSUME NEW n \in Nat, n \in N PROVE n + 1 \in N
  <2>1. PICK f : \A x \in D : size[x] <= n => Fits(f, x)  BY <1>2
  <2>. DEFINE g == [x \in D |-> IF x \in stop THEN x ELSE f[next[x]]]
  <2>2. ASSUME NEW x \in D, size[x] <= n + 1 PROVE Fits(g, x)
    <3>1. CASE x \in stop  BY <3>1
    <3>2. CASE x \notin stop
      <4>1. next[x] \in D /\ size[next[x]] <= n  BY <2>2, <3>2
      <4>2. Fits(f, next[x])  BY <2>1, <4>1
      <4>3. g[next[x]] = f[next[x]]  BY <4>1, <4>2
      <4>. QED  BY <3>2, <4>3
    <3>. QED  BY <3>1, <3>2
  <2>3. IsTable(g)  OBVIOUS
  <2>. HIDE DEF g, Fits, IsTable
  <2>. QED  BY <2>2, <2>3
<1>3. \A n \in Nat : n \in N
  <2>. HIDE DEF N
  <2>. QED  BY <1>1, <1>2, NatSets
\* One function for all: the limit of those for each size.
<1>. DEFINE F == [n \in Nat |-> CHOOSE f : IsTable(f) /\ \A x \in D : size[x] <= n => Fits(f, x)]
            h == [x \in D |-> F[size[x]][x]]
<1>4. \A n \in Nat : IsTable(F[n]) /\ \A x \in D : size[x] <= n => Fits(F[n], x)
  <2>1. \A n \in Nat : \E f : IsTable(f) /\ \A x \in D : size[x] <= n => Fits(f, x)  BY <1>3
  <2>. HIDE DEF IsTable, Fits
  <2>. QED  BY <2>1
\* They agree.
<1>5. \A n \in Nat : \A x \in D : size[x] <= n => F[n][x] = h[x]
  <2>. DEFINE A == {m \in Nat : \A x \in D : size[x] <= m =>
                        \A n, k \in Nat : size[x] <= n /\ size[x] <= k => F[n][x] = F[k][x]}
  <2>. HIDE DEF F
  <2>1. 0 \in A
    <3>. SUFFICES ASSUME NEW x \in D, size[x] <= 0, NEW n \in Nat, NEW k \in Nat,
                         size[x] <= n, size[x] <= k
                  PROVE  F[n][x] = F[k][x]
      OBVIOUS
    <3>1. x \in stop  OBVIOUS
    <3>2. F[n][x] = x /\ F[k][x] = x  BY <1>4, <3>1
    <3>. QED  BY <3>2
  <2>2. ASSUME NEW m \in Nat, m \in A PROVE m + 1 \in A
    <3>. SUFFICES ASSUME NEW x \in D, size[x] <= m + 1, NEW n \in Nat, NEW k \in Nat,
                         size[x] <= n, size[x] <= k
                  PROVE  F[n][x] = F[k][x]
      OBVIOUS
    <3>0. Fits(F[n], x) /\ Fits(F[k], x)  BY <1>4
    <3>1. CASE x \in stop  BY <3>0, <3>1
    <3>2. CASE x \notin stop
      <4>1. /\ next[x] \in D /\ size[next[x]] <= m
            /\ size[next[x]] <= n /\ size[next[x]] <= k
        BY <3>2
      <4>2. F[n][next[x]] = F[k][next[x]]  BY <2>2, <4>1
      <4>. QED  BY <3>0, <3>2, <4>2
    <3>. QED  BY <3>1, <3>2
  <2>3. \A m \in Nat : m \in A
    <3>. HIDE DEF A
    <3>. QED  BY <2>1, <2>2, NatSets
  <2>. SUFFICES ASSUME NEW n \in Nat, NEW x \in D, size[x] <= n PROVE F[n][x] = F[size[x]][x]
    OBVIOUS
  <2>4. size[x] \in A  BY <2>3
  <2>. QED  BY <2>4
<1>6. ASSUME NEW x \in D PROVE Fits(h, x)
  <2>1. Fits(F[size[x]], x) /\ h[x] = F[size[x]][x]
    <3>1. Fits(F[size[x]], x)  BY <1>4
    <3>. QED  BY <3>1
  <2>. HIDE DEF F, h
  <2>2. CASE x \in stop  BY <2>1, <2>2
  <2>3. CASE x \notin stop
    <3>1. next[x] \in D /\ size[next[x]] <= size[x]  BY <2>3
    <3>2. F[size[x]][next[x]] = h[next[x]]  BY <1>5, <3>1
    <3>. QED  BY <2>1, <2>3, <3>2
  <2>. QED  BY <2>2, <2>3
<1>7. IsTable(h)  OBVIOUS
<1>. HIDE DEF h
<1>. QED  BY <1>6, <1>7 DEF RunOf

\* A function that is defined by going on from one number to the next exists.
SequenceOf(f, D, start, next) ==
    f \in [Nat -> D] /\ \A n \in Nat : f[n] = IF n = 0 THEN start ELSE next[f[n - 1]]

\* There is such a function.
LEMMA SequenceExists ==
    ASSUME NEW D, NEW next \in [D -> D], NEW start \in D
    PROVE  \E f : SequenceOf(f, D, start, next)
<1>. DEFINE Tasks == D \X Nat
            stop == {z \in Tasks : z[2] = 0}
            go   == [z \in Tasks |-> <<next[z[1]], z[2] - 1>>]
            size == [z \in Tasks |-> z[2]]
<1>1. size \in [Tasks -> Nat]  OBVIOUS
<1>2. ASSUME NEW z \in Tasks \ stop PROVE go[z] \in Tasks /\ size[go[z]] < size[z]
  <2>1. z[1] \in D /\ z[2] \in Nat \ {0}  OBVIOUS
  <2>2. next[z[1]] \in D /\ z[2] - 1 \in Nat  BY <2>1
  <2>3. go[z] = <<next[z[1]], z[2] - 1>>  OBVIOUS
  <2>4. go[z] \in Tasks /\ size[go[z]] = z[2] - 1  BY <2>2, <2>3
  <2>. QED  BY <2>1, <2>4
<1>3. PICK r : RunOf(r, Tasks, stop, go)
  <2>1. \A z \in Tasks \ stop : go[z] \in Tasks /\ size[go[z]] < size[z]  BY <1>2
  <2>. HIDE DEF Tasks, stop, go, size
  <2>. QED  BY <1>1, <2>1, RunExists
<1>4. \A d \in D : r[<<d, 0>>] = <<d, 0>>
  <2>1. ASSUME NEW d \in D PROVE r[<<d, 0>>] = <<d, 0>>
    <3>1. <<d, 0>> \in Tasks /\ <<d, 0>> \in stop  OBVIOUS
    <3>. HIDE DEF Tasks, stop, go
    <3>. QED  BY <1>3, <3>1 DEF RunOf
  <2>. QED  BY <2>1
<1>5. ASSUME NEW d \in D, NEW n \in Nat PROVE r[<<d, n + 1>>] = r[<<next[d], n>>]
  <2>1. <<d, n + 1>> \in Tasks /\ <<d, n + 1>> \notin stop /\ go[<<d, n + 1>>] = <<next[d], n>>  OBVIOUS
  <2>. HIDE DEF Tasks, stop, go
  <2>. QED  BY <1>3, <2>1 DEF RunOf
\* To take the first step first or the last one last makes no difference.
<1>. DEFINE Value(d, n) == r[<<d, n>>][1]
            T == {n \in Nat : \A d \in D : Value(d, n) \in D /\ Value(d, n + 1) = next[Value(d, n)]}
<1>6. 0 \in T
  <2>1. ASSUME NEW d \in D PROVE Value(d, 0) \in D /\ Value(d, 1) = next[Value(d, 0)]
    <3>1. next[d] \in D /\ r[<<d, 0 + 1>>] = r[<<next[d], 0>>]  BY <1>5
    <3>2. Value(d, 0) = d /\ Value(next[d], 0) = next[d]  BY <1>4, <3>1
    <3>. QED  BY <3>1, <3>2
  <2>. QED  BY <2>1
<1>7. ASSUME NEW n \in Nat, n \in T PROVE n + 1 \in T
  <2>1. ASSUME NEW d \in D PROVE Value(d, n + 1) \in D /\ Value(d, (n + 1) + 1) = next[Value(d, n + 1)]
    <3>1. next[d] \in D  OBVIOUS
    <3>2. r[<<d, n + 1>>] = r[<<next[d], n>>] /\ r[<<d, (n + 1) + 1>>] = r[<<next[d], n + 1>>]  BY <1>5, <3>1
    <3>3. Value(next[d], n) \in D /\ Value(next[d], n + 1) = next[Value(next[d], n)]  BY <1>7, <3>1
    <3>. QED  BY <3>2, <3>3
  <2>. QED  BY <2>1
<1>8. \A n \in Nat : n \in T
  <2>. HIDE DEF T
  <2>. QED  BY <1>6, <1>7, NatSets
<1>. DEFINE f == [n \in Nat |-> Value(start, n)]
<1>9. f \in [Nat -> D]
  <2>1. \A n \in Nat : Value(start, n) \in D  BY <1>8
  <2>. HIDE DEF Value
  <2>. QED  BY <2>1
<1>10. ASSUME NEW n \in Nat PROVE f[n] = IF n = 0 THEN start ELSE next[f[n - 1]]
  <2>1. CASE n = 0  BY <1>4, <2>1
  <2>2. CASE n # 0
    <3>1. n - 1 \in Nat /\ (n - 1) + 1 = n  BY <2>2
    <3>2. Value(start, (n - 1) + 1) = next[Value(start, n - 1)]  BY <1>8, <3>1
    <3>3. Value(start, n) = next[Value(start, n - 1)]  BY <3>1, <3>2
    <3>4. f[n] = Value(start, n) /\ f[n - 1] = Value(start, n - 1)  BY <3>1
    <3>. QED  BY <2>2, <3>3, <3>4
  <2>. QED  BY <2>1, <2>2
<1>. HIDE DEF f
<1>. QED  BY <1>9, <1>10 DEF SequenceOf

\* A function whose value at a number is computed from that at some earlier number.
FromEarlier(f, V, stop, base, prev, step) ==
    f \in [Nat -> V] /\ f = [n \in Nat |-> IF n \in stop THEN base ELSE step[<<n, f[prev[n]]>>]]

\* There is such a function: what a longer and longer sequence of approximations,
\* the kth of which is right below k, agrees on.
LEMMA EarlierExists ==
    ASSUME NEW V, NEW stop, NEW base \in V, NEW prev \in [Nat -> Nat], NEW step \in [Nat \X V -> V],
           \A n \in Nat : n \notin stop => prev[n] < n
    PROVE  \E f : FromEarlier(f, V, stop, base, prev, step)
<1>. DEFINE D == [Nat -> V]
            better == [t \in D |-> [n \in Nat |-> IF n \in stop THEN base ELSE step[<<n, t[prev[n]]>>]]]
            first == [n \in Nat |-> base]
<1>1. better \in [D -> D]
  <2>. SUFFICES ASSUME NEW t \in D, NEW n \in Nat
                PROVE  (IF n \in stop THEN base ELSE step[<<n, t[prev[n]]>>]) \in V
    OBVIOUS
  <2>1. t[prev[n]] \in V  OBVIOUS
  <2>. QED  BY <2>1
<1>2. PICK F : SequenceOf(F, D, first, better)
  <2>1. first \in D  OBVIOUS
  <2>. HIDE DEF D, better, first
  <2>. QED  BY <1>1, <2>1, SequenceExists
<1>3. ASSUME NEW k \in Nat, NEW n \in Nat
      PROVE  F[k + 1][n] = IF n \in stop THEN base ELSE step[<<n, F[k][prev[n]]>>]
  <2>1. F[k] \in D /\ F[k + 1] = better[F[k]]
    <3>1. k + 1 \in Nat /\ k + 1 # 0 /\ (k + 1) - 1 = k  OBVIOUS
    <3>. HIDE DEF D, better, first
    <3>. QED  BY <1>2, <3>1 DEF SequenceOf
  <2>. QED  BY <2>1
<1>. DEFINE T == {k \in Nat : \A n \in Nat, j \in Nat : n < k /\ k <= j => F[j][n] = F[k][n]}
<1>4. 0 \in T  OBVIOUS
<1>5. ASSUME NEW k \in Nat, k \in T PROVE k + 1 \in T
  <2>. SUFFICES ASSUME NEW n \in Nat, NEW j \in Nat, n < k + 1, k + 1 <= j PROVE F[j][n] = F[k + 1][n]
    OBVIOUS
  <2>1. j - 1 \in Nat /\ (j - 1) + 1 = j /\ k <= j - 1 /\ n <= k  OBVIOUS
  <2>2. F[j][n] = IF n \in stop THEN base ELSE step[<<n, F[j - 1][prev[n]]>>]
    <3>1. F[(j - 1) + 1][n] = IF n \in stop THEN base ELSE step[<<n, F[j - 1][prev[n]]>>]  BY ONLY <1>3, <2>1
    <3>. QED  BY <2>1, <3>1
  <2>3. F[k + 1][n] = IF n \in stop THEN base ELSE step[<<n, F[k][prev[n]]>>]  BY <1>3
  <2>4. CASE n \in stop  BY <2>2, <2>3, <2>4
  <2>5. CASE n \notin stop
    <3>1. prev[n] \in Nat /\ prev[n] < k  BY <2>1, <2>5
    <3>2. F[j - 1][prev[n]] = F[k][prev[n]]  BY <1>5, <2>1, <3>1
    <3>. QED  BY <2>2, <2>3, <2>5, <3>2
  <2>. QED  BY <2>4, <2>5
<1>6. \A k \in Nat : k \in T
  <2>. HIDE DEF T
  <2>. QED  BY <1>4, <1>5, NatSets
<1>. DEFINE f == [n \in Nat |-> F[n + 1][n]]
<1>7. ASSUME NEW n \in Nat PROVE f[n] \in V
  <2>1. F[n + 1] \in [Nat -> V]
    <3>1. n + 1 \in Nat  OBVIOUS
    <3>. HIDE DEF better, first
    <3>. QED  BY <1>2, <3>1 DEF SequenceOf
  <2>. QED  BY <2>1
<1>8. ASSUME NEW n \in Nat PROVE f[n] = IF n \in stop THEN base ELSE step[<<n, f[prev[n]]>>]
  <2>1. f[n] = IF n \in stop THEN base ELSE step[<<n, F[n][prev[n]]>>]  BY <1>3
  <2>2. CASE n \in stop  BY <2>1, <2>2
  <2>3. CASE n \notin stop
    <3>1. prev[n] \in Nat /\ prev[n] < n  BY <2>3
    <3>. DEFINE p == prev[n]
    <3>2. p + 1 \in T /\ p < p + 1 /\ p + 1 <= n /\ p + 1 \in Nat  BY <1>6, <3>1
    <3>3. F[n][p] = F[p + 1][p]  BY <3>1, <3>2
    <3>4. f[p] = F[p + 1][p]  BY <3>1
    <3>. QED  BY <2>1, <2>3, <3>3, <3>4
  <2>. QED  BY <2>2, <2>3
<1>9. f \in [Nat -> V]  BY <1>7
<1>10. f = [n \in Nat |-> IF n \in stop THEN base ELSE step[<<n, f[prev[n]]>>]]
  <2>1. f = [n \in Nat |-> f[n]]  OBVIOUS
  <2>. HIDE DEF f
  <2>. QED  BY <1>8, <2>1
<1>. HIDE DEF f
<1>. QED  BY <1>9, <1>10 DEF FromEarlier

\* A function that looks for the first number that is good enough.
SearchOf(f, good, value) == f = [n \in Nat |-> IF good[n] THEN value[n] ELSE f[n + 1]]

\* There is such a function.
LEMMA SearchExists ==
    ASSUME NEW good, NEW value
    PROVE  \E f : SearchOf(f, good, value)
<1>. DEFINE First(n, m) == m \in Nat /\ n <= m /\ good[m] /\ \A k \in n..m - 1 : ~good[k]
            found == [n \in Nat |-> CHOOSE m : First(n, m)]
            f == [n \in Nat |-> IF \E m : First(n, m) THEN value[CHOOSE m : First(n, m)] ELSE value[0]]
<1>1. ASSUME NEW n \in Nat PROVE f[n] = IF good[n] THEN value[n] ELSE f[n + 1]
  <2>1. CASE good[n]
    <3>1. First(n, n)  BY <2>1
    <3>2. \A m : First(n, m) => m = n
      <4>. SUFFICES ASSUME NEW m, First(n, m), m # n PROVE FALSE  OBVIOUS
      <4>1. m \in Nat /\ n \in n..m - 1  OBVIOUS
      <4>. QED  BY <2>1, <4>1
    <3>. HIDE DEF First
    <3>3. (CHOOSE m : First(n, m)) = n  BY <3>1, <3>2
    <3>. QED  BY <2>1, <3>1, <3>3
  <2>2. CASE ~good[n]
    <3>1. \A m : First(n, m) <=> First(n + 1, m)
      <4>. TAKE m
      <4>1. First(n, m) => First(n + 1, m)
        <5>. SUFFICES ASSUME First(n, m) PROVE First(n + 1, m)  OBVIOUS
        <5>1. m # n  BY <2>2
        <5>2. \A k \in n + 1..m - 1 : k \in n..m - 1  OBVIOUS
        <5>. QED  BY <5>1, <5>2
      <4>2. First(n + 1, m) => First(n, m)
        <5>. SUFFICES ASSUME First(n + 1, m) PROVE First(n, m)  OBVIOUS
        <5>1. \A k \in n..m - 1 : k = n \/ k \in n + 1..m - 1  OBVIOUS
        <5>. QED  BY <2>2, <5>1
      <4>. QED  BY <4>1, <4>2
    <3>2. (CHOOSE m : First(n, m)) = (CHOOSE m : First(n + 1, m))
      <4>. HIDE DEF First
      <4>. QED  BY <3>1
    <3>3. n + 1 \in Nat  OBVIOUS
    <3>. HIDE DEF First
    <3>. QED  BY <2>2, <3>1, <3>2, <3>3
  <2>. QED  BY <2>1, <2>2
<1>2. f = [n \in Nat |-> f[n]]  OBVIOUS
<1>. HIDE DEF f
<1>3. f = [n \in Nat |-> IF good[n] THEN value[n] ELSE f[n + 1]]  BY <1>1, <1>2
<1>. QED  BY <1>3 DEF SearchOf

\* ... and it finds the first one.
LEMMA SearchFinds ==
    ASSUME NEW good, NEW value, NEW f, SearchOf(f, good, value), NEW last \in Nat, good[last]
    PROVE  \E m \in Nat : good[m] /\ (\A k \in 0..m - 1 : ~good[k]) /\ f[0] = value[m]
<1>1. \E m \in Nat : good[m] /\ \A k \in 0..m - 1 : ~good[k]
  <2>. SUFFICES ASSUME \A m \in Nat : good[m] => \E k \in 0..m - 1 : good[k] PROVE FALSE  OBVIOUS
  <2>. DEFINE T == {n \in Nat : \A k \in 0..n : ~good[k]}
  <2>1. 0 \in T  OBVIOUS
  <2>2. ASSUME NEW n \in Nat, n \in T PROVE n + 1 \in T
    <3>1. \A k \in 0..n + 1 : k = n + 1 \/ k \in 0..n  OBVIOUS
    <3>2. 0..(n + 1) - 1 = 0..n /\ n + 1 \in Nat  OBVIOUS
    <3>3. ~good[n + 1]  BY <2>2, <3>2
    <3>. QED  BY <2>2, <3>1, <3>3
  <2>3. last \in T
    <3>. HIDE DEF T
    <3>. QED  BY <2>1, <2>2, NatSets
  <2>. QED  BY <2>3
<1>2. PICK m \in Nat : good[m] /\ \A k \in 0..m - 1 : ~good[k]  BY <1>1
<1>. DEFINE T == {n \in Nat : n <= m => f[m - n] = value[m]}
<1>3. \A n \in Nat : f[n] = IF good[n] THEN value[n] ELSE f[n + 1]
  <2>. DEFINE g == [n \in Nat |-> IF good[n] THEN value[n] ELSE f[n + 1]]
  <2>1. f = g  BY DEF SearchOf
  <2>2. \A n \in Nat : g[n] = IF good[n] THEN value[n] ELSE f[n + 1]  OBVIOUS
  <2>. QED  BY <2>1, <2>2
<1>4. 0 \in T
  <2>1. m - 0 = m  OBVIOUS
  <2>. QED  BY <1>2, <1>3, <2>1
<1>5. ASSUME NEW n \in Nat, n \in T PROVE n + 1 \in T
  <2>. SUFFICES ASSUME n + 1 <= m PROVE f[m - (n + 1)] = value[m]  OBVIOUS
  <2>1. m - (n + 1) \in Nat /\ m - (n + 1) \in 0..m - 1 /\ (m - (n + 1)) + 1 = m - n /\ n <= m  OBVIOUS
  <2>. QED  BY <1>2, <1>3, <1>5, <2>1
<1>6. m \in T
  <2>. HIDE DEF T
  <2>. QED  BY <1>4, <1>5, NatSets
<1>7. m - m = 0  OBVIOUS
<1>. QED  BY <1>2, <1>6, <1>7

-----------------------------------------------------------------------------
(* Sums over finite sets.                                                  *)

\* The element a fold over a set takes next.
Chosen(s) == CHOOSE x \in s : TRUE

\* The sums over the subsets of a set, whichever element is counted last.
TotalsOf(total, S, g) ==
    /\ total \in [SUBSET S -> Int] /\ total[{}] = 0
    /\ \A s \in SUBSET S : \A x \in s : total[s] = total[s \ {x}] + g[x]

\* The function that a sum is a fold with.
SumOf(f, S, g) == f = [s \in SUBSET S |-> IF s = {} THEN 0 ELSE f[s \ {Chosen(s)}] + g[Chosen(s)]]

\* There is such a function, and the order of the elements makes no difference.
LEMMA TotalsExist ==
    ASSUME NEW S, IsFiniteSet(S), NEW g \in [S -> Int]
    PROVE  \E f : SumOf(f, S, g) /\ TotalsOf(f, S, g)
<1>. DEFINE pick == [s \in SUBSET S |-> Chosen(s)]
            step == [z \in (SUBSET S) \X Int |-> z[2] + g[Chosen(z[1])]]
            G == [s \in SUBSET S |-> Int]
<1>0. \A s \in SUBSET S : s # {} => Chosen(s) \in s  BY DEF Chosen
<1>1. \A s \in SUBSET S : s # {} => pick[s] \in s  BY <1>0
<1>2. PICK f : FoldOf(f, S, pick, 0, step) /\ \A s \in SUBSET S : f[s] \in G[s]
  <2>1. 0 \in G[{}]  OBVIOUS
  <2>2. \A s \in SUBSET S : s # {} => \A y \in G[s \ {pick[s]}] : step[<<s, y>>] \in G[s]
    BY <1>0
  <2>. HIDE DEF pick, step, G
  <2>. QED  BY <1>1, <2>1, <2>2, FoldLeads
<1>3. ASSUME NEW s \in SUBSET S
      PROVE  f[s] \in Int /\ f[s] = IF s = {} THEN 0 ELSE f[s \ {Chosen(s)}] + g[Chosen(s)]
  <2>1. f[s] \in Int /\ f[s \ {Chosen(s)}] \in Int  BY <1>2
  <2>2. f[s] = IF s = {} THEN 0 ELSE step[<<s, f[s \ {pick[s]}]>>]  BY <1>2 DEF FoldOf
  <2>. QED  BY <2>1, <2>2
<1>4. f \in [SUBSET S -> Int] /\ f[{}] = 0 /\ SumOf(f, S, g)
  <2>1. f = [s \in SUBSET S |-> f[s]]  BY <1>2 DEF FoldOf
  <2>2. f \in [SUBSET S -> Int]  BY <1>3, <2>1
  <2>3. f = [s \in SUBSET S |-> IF s = {} THEN 0 ELSE f[s \ {Chosen(s)}] + g[Chosen(s)]]  BY <1>3, <2>1
  <2>. QED  BY <1>3, <2>2, <2>3 DEF SumOf
<1>. DEFINE T == {s \in SUBSET S : \A x \in s : f[s] = f[s \ {x}] + g[x]}
<1>5. ASSUME NEW s \in SUBSET S, \A r \in SUBSET S : Cardinality(r) < Cardinality(s) => r \in T
      PROVE  s \in T
  <2>. SUFFICES ASSUME NEW x \in s PROVE f[s] = f[s \ {x}] + g[x]  OBVIOUS
  <2>. DEFINE y == Chosen(s)
  <2>1. y \in s /\ f[s] = f[s \ {y}] + g[y]  BY <1>0, <1>3
  <2>. HIDE DEF y
  <2>2. CASE x = y  BY <2>1, <2>2
  <2>3. CASE x # y
    <3>1. /\ s \ {y} \in SUBSET S /\ Cardinality(s \ {y}) = Cardinality(s) - 1
          /\ s \ {x} \in SUBSET S /\ Cardinality(s \ {x}) = Cardinality(s) - 1
          /\ Cardinality(s) \in Nat
      BY <2>1, FewerWithout
    <3>2. s \ {y} \in T /\ s \ {x} \in T  BY <1>5, <3>1
    <3>3. x \in s \ {y} /\ y \in s \ {x}  BY <2>1, <2>3
    <3>4. f[s \ {y}] = f[(s \ {y}) \ {x}] + g[x] /\ f[s \ {x}] = f[(s \ {x}) \ {y}] + g[y]  BY <3>2, <3>3
    <3>5. (s \ {y}) \ {x} = (s \ {x}) \ {y} /\ (s \ {x}) \ {y} \in SUBSET S  OBVIOUS
    <3>6. f[(s \ {x}) \ {y}] \in Int /\ g[x] \in Int /\ g[y] \in Int  BY <1>3, <2>1, <3>5
    <3>7. f[s \ {y}] = f[(s \ {x}) \ {y}] + g[x]  BY <3>4, <3>5
    <3>. DEFINE both == f[(s \ {x}) \ {y}]
    <3>8. f[s] = (both + g[x]) + g[y] /\ f[s \ {x}] = both + g[y] /\ both \in Int
      BY <2>1, <3>4, <3>6, <3>7
    <3>. HIDE DEF both, T
    <3>. QED  BY <3>6, <3>8
  <2>. QED  BY <2>2, <2>3
<1>6. \A s \in SUBSET S : s \in T
  <2>1. \A s \in SUBSET S : (\A r \in SUBSET S : Cardinality(r) < Cardinality(s) => r \in T) => s \in T
    BY <1>5
  <2>. HIDE DEF T
  <2>. QED  BY ONLY IsFiniteSet(S), <2>1, BySize
<1>. QED  BY <1>4, <1>6 DEF TotalsOf

\* The sum over two sets that have nothing in common.
LEMMA TotalOfUnion ==
    ASSUME NEW S, IsFiniteSet(S), NEW g \in [S -> Int], NEW total, TotalsOf(total, S, g),
           NEW a \in SUBSET S, NEW b \in SUBSET S, a \cap b = {}
    PROVE  total[a \cup b] = total[a] + total[b]
<1>0. /\ \A s \in SUBSET S : total[s] \in Int
      /\ total[{}] = 0
      /\ \A s \in SUBSET S : \A x \in s : total[s] = total[s \ {x}] + g[x]
  BY DEF TotalsOf
<1>. DEFINE T == {r \in SUBSET b : total[a \cup r] = total[a] + total[r]}
            pick == [s \in SUBSET b |-> Chosen(s)]
<1>1. \A s \in SUBSET b : s # {} => pick[s] \in s  BY DEF Chosen
<1>2. {} \in T
  <2>1. a \cup {} = a  OBVIOUS
  <2>. QED  BY <1>0, <2>1
<1>3. ASSUME NEW s \in SUBSET b, s # {}, s \ {pick[s]} \in T PROVE s \in T
  <2>. DEFINE x == pick[s]
  <2>1. x \in s /\ x \in b /\ x \in S  BY <1>1, <1>3
  <2>2. total[a \cup (s \ {x})] = total[a] + total[s \ {x}]  BY <1>3
  <2>. HIDE DEF x, T
  <2>3. (a \cup s) \ {x} = a \cup (s \ {x}) /\ a \cup s \in SUBSET S /\ s \in SUBSET S /\ s \ {x} \in SUBSET S
    BY <2>1
  <2>4. total[a \cup s] = total[a \cup (s \ {x})] + g[x] /\ total[s] = total[s \ {x}] + g[x]  BY <1>0, <2>1, <2>3
  <2>5. total[a] \in Int /\ total[s \ {x}] \in Int /\ g[x] \in Int  BY <1>0, <2>1, <2>3
  <2>6. total[a \cup s] = total[a] + total[s]  BY <2>2, <2>4, <2>5
  <2>. QED  BY <2>6 DEF T
<1>4. \A s \in SUBSET b : s \in T
  <2>0. IsFiniteSet(b)  BY FS_Subset
  <2>1. \A s \in SUBSET b : s # {} /\ s \ {pick[s]} \in T => s \in T  BY <1>3
  <2>. HIDE DEF T, pick
  <2>. QED  BY ONLY <2>0, <1>1, <1>2, <2>1, OneByOne
<1>. QED  BY <1>4

\* A sum of smaller numbers is smaller.
LEMMA SmallerTotal ==
    ASSUME NEW S, IsFiniteSet(S), NEW g \in [S -> Int], NEW h \in [S -> Int],
           NEW few, TotalsOf(few, S, g), NEW many, TotalsOf(many, S, h),
           NEW r \in SUBSET S, \A x \in r : g[x] <= h[x]
    PROVE  few[r] <= many[r]
<1>. DEFINE T == {s \in SUBSET r : few[s] <= many[s]}
            pick == [s \in SUBSET r |-> Chosen(s)]
<1>0. /\ \A s \in SUBSET S : few[s] \in Int /\ many[s] \in Int
      /\ few[{}] = 0 /\ many[{}] = 0
      /\ \A s \in SUBSET S : \A x \in s : few[s] = few[s \ {x}] + g[x] /\ many[s] = many[s \ {x}] + h[x]
  BY DEF TotalsOf
<1>1. \A s \in SUBSET r : s # {} => pick[s] \in s  BY DEF Chosen
<1>2. {} \in T  BY <1>0
<1>3. ASSUME NEW s \in SUBSET r, s # {}, s \ {pick[s]} \in T PROVE s \in T
  <2>. DEFINE x == pick[s]
  <2>1. x \in s /\ x \in r /\ x \in S /\ s \in SUBSET S /\ s \ {x} \in SUBSET S  BY <1>1, <1>3
  <2>2. few[s \ {x}] <= many[s \ {x}]  BY <1>3
  <2>. HIDE DEF x, T
  <2>3. few[s] = few[s \ {x}] + g[x] /\ many[s] = many[s \ {x}] + h[x]  BY <1>0, <2>1
  <2>4. few[s \ {x}] \in Int /\ many[s \ {x}] \in Int /\ g[x] \in Int /\ h[x] \in Int  BY <1>0, <2>1
  <2>5. g[x] <= h[x]  BY <2>1
  <2>6. few[s] <= many[s]  BY <2>2, <2>3, <2>4, <2>5
  <2>. QED  BY <2>6 DEF T
<1>4. \A s \in SUBSET r : s \in T
  <2>0. IsFiniteSet(r)  BY FS_Subset
  <2>1. \A s \in SUBSET r : s # {} /\ s \ {pick[s]} \in T => s \in T  BY <1>3
  <2>. HIDE DEF T, pick
  <2>. QED  BY ONLY <2>0, <1>1, <1>2, <2>1, OneByOne
<1>. QED  BY <1>4

\* A sum of the same numbers is the same.
LEMMA SameTotal ==
    ASSUME NEW S, IsFiniteSet(S), NEW g \in [S -> Int], NEW h \in [S -> Int],
           NEW t, TotalsOf(t, S, g), NEW u, TotalsOf(u, S, h),
           NEW r \in SUBSET S, \A x \in r : g[x] = h[x]
    PROVE  t[r] = u[r]
<1>1. t[r] \in Int /\ u[r] \in Int  BY DEF TotalsOf
<1>2. \A x \in r : g[x] \in Int /\ h[x] \in Int /\ g[x] <= h[x] /\ h[x] <= g[x]  OBVIOUS
<1>3. t[r] <= u[r]  BY <1>2, SmallerTotal
<1>4. u[r] <= t[r]  BY <1>2, SmallerTotal
<1>. QED  BY <1>1, <1>3, <1>4

\* A sum of zeroes is zero.
LEMMA ZeroTotal ==
    ASSUME NEW S, IsFiniteSet(S), NEW g \in [S -> Int], NEW t, TotalsOf(t, S, g),
           NEW r \in SUBSET S, \A x \in r : g[x] = 0
    PROVE  t[r] = 0
<1>. DEFINE h == [x \in S |-> 0]
            u == [s \in SUBSET S |-> 0]
<1>1. h \in [S -> Int] /\ TotalsOf(u, S, h) /\ u[r] = 0 /\ \A x \in r : g[x] = h[x]  BY DEF TotalsOf
<1>. HIDE DEF h, u
<1>. QED  BY <1>1, SameTotal

\* What does not count makes no difference.
LEMMA TotalOfPart ==
    ASSUME NEW D, IsFiniteSet(D), NEW g \in [D -> Int], NEW t, TotalsOf(t, D, g),
           NEW R \in SUBSET D, \A x \in D \ R : g[x] = 0
    PROVE  t[R] = t[D]
<1>1. t[D \ R] = 0
  <2>1. D \ R \in SUBSET D  OBVIOUS
  <2>. QED  BY <2>1, ZeroTotal
<1>2. PICK rest : rest = D \ R  OBVIOUS
<1>3. t[R \cup rest] = t[R] + t[rest]
  <2>1. R \in SUBSET D /\ rest \in SUBSET D /\ R \cap rest = {}  BY <1>2
  <2>2. IsFiniteSet(D) /\ g \in [D -> Int] /\ TotalsOf(t, D, g)  OBVIOUS
  <2>. QED  BY ONLY <2>1, <2>2, TotalOfUnion
<1>4. R \cup rest = D  BY <1>2
<1>5. t[R \cup rest] = t[D]  BY <1>4, Zenon
<1>6. t[rest] = 0  BY <1>1, <1>2, Zenon
<1>7. t[R] \in Int
  <2>1. \A s \in SUBSET D : t[s] \in Int  BY DEF TotalsOf
  <2>. QED  BY <2>1
<1>. QED  BY <1>3, <1>5, <1>6, <1>7

\* A sum to which one element contributes.
LEMMA TotalOfOne ==
    ASSUME NEW D, IsFiniteSet(D), NEW g \in [D -> Int], NEW t, TotalsOf(t, D, g),
           NEW a \in D, \A x \in D \ {a} : g[x] = 0
    PROVE  t[D] = g[a]
<1>1. {a} \in SUBSET D /\ \A x \in D \ {a} : g[x] = 0  OBVIOUS
<1>2. IsFiniteSet(D) /\ g \in [D -> Int] /\ TotalsOf(t, D, g)  OBVIOUS
<1>3. t[{a}] = t[D]  BY ONLY <1>1, <1>2, TotalOfPart
<1>4. t[{a}] = t[{a} \ {a}] + g[a] /\ t[{}] = 0  BY <1>1 DEF TotalsOf
<1>5. {a} \ {a} = {}  OBVIOUS
<1>6. t[{a}] = t[{}] + g[a]  BY <1>4, <1>5, Zenon
<1>7. g[a] \in Int  OBVIOUS
<1>. QED  BY <1>3, <1>4, <1>6, <1>7

\* Sums of multiples are multiples of sums.
AreScaled(h, u, S, g, t, k) == h = [x \in S |-> k * g[x]] /\ u = [s \in SUBSET S |-> k * t[s]]

LEMMA ScaledTotals ==
    ASSUME NEW S, NEW g \in [S -> Int], NEW t, TotalsOf(t, S, g), NEW k \in Int,
           NEW h, NEW u, AreScaled(h, u, S, g, t, k)
    PROVE  h \in [S -> Int] /\ TotalsOf(u, S, h)
<1>0. /\ \A s \in SUBSET S : t[s] \in Int
      /\ t[{}] = 0
      /\ \A s \in SUBSET S : \A x \in s : t[s] = t[s \ {x}] + g[x]
  BY DEF TotalsOf
<1>. USE DEF AreScaled
<1>1. h \in [S -> Int]  OBVIOUS
<1>2. u \in [SUBSET S -> Int] /\ u[{}] = 0  BY <1>0
<1>3. ASSUME NEW s \in SUBSET S, NEW x \in s PROVE u[s] = u[s \ {x}] + h[x]
  <2>1. t[s] = t[s \ {x}] + g[x] /\ t[s \ {x}] \in Int /\ g[x] \in Int  BY <1>0
  <2>2. k * t[s] = k * t[s \ {x}] + k * g[x]  BY <2>1
  <2>. QED  BY <2>2
<1>. QED  BY <1>1, <1>2, <1>3 DEF TotalsOf

\* Sums of sums are sums of sums.
AreAdded(f, v, S, g, t, h, u) ==
    f = [x \in S |-> g[x] + h[x]] /\ v = [s \in SUBSET S |-> t[s] + u[s]]

LEMMA AddedTotals ==
    ASSUME NEW S, NEW g \in [S -> Int], NEW t, TotalsOf(t, S, g),
           NEW h \in [S -> Int], NEW u, TotalsOf(u, S, h),
           NEW f, NEW v, AreAdded(f, v, S, g, t, h, u)
    PROVE  f \in [S -> Int] /\ TotalsOf(v, S, f)
<1>0. /\ \A s \in SUBSET S : t[s] \in Int /\ u[s] \in Int
      /\ t[{}] = 0 /\ u[{}] = 0
      /\ \A s \in SUBSET S : \A x \in s : t[s] = t[s \ {x}] + g[x] /\ u[s] = u[s \ {x}] + h[x]
  BY DEF TotalsOf
<1>. USE DEF AreAdded
<1>1. f \in [S -> Int]  OBVIOUS
<1>2. v \in [SUBSET S -> Int] /\ v[{}] = 0  BY <1>0
<1>3. ASSUME NEW s \in SUBSET S, NEW x \in s PROVE v[s] = v[s \ {x}] + f[x]
  <2>1. /\ t[s] = t[s \ {x}] + g[x] /\ t[s \ {x}] \in Int /\ g[x] \in Int
        /\ u[s] = u[s \ {x}] + h[x] /\ u[s \ {x}] \in Int /\ h[x] \in Int
    BY <1>0
  <2>2. t[s] + u[s] = (t[s \ {x}] + u[s \ {x}]) + (g[x] + h[x])  BY <2>1
  <2>. QED  BY <2>2
<1>. QED  BY <1>1, <1>2, <1>3 DEF TotalsOf

\* A sum over other names for the elements.
Renamed(e, R, name, g, S) ==
    /\ name \in [R -> S] /\ \A x, y \in R : name[x] = name[y] => x = y
    /\ \A x \in R : e[x] = g[name[x]]
Named(name, r) == {name[x] : x \in r}

LEMMA SumIsTotal ==
    ASSUME NEW S, IsFiniteSet(S), NEW g \in [S -> Int], NEW total, TotalsOf(total, S, g),
           NEW R, IsFiniteSet(R), NEW name, NEW e, Renamed(e, R, name, g, S), NEW f, SumOf(f, R, e)
    PROVE  f[R] = total[Named(name, R)]
<1>0. /\ total[{}] = 0
      /\ \A s \in SUBSET S : \A x \in s : total[s] = total[s \ {x}] + g[x]
  BY DEF TotalsOf
<1>0a. /\ name \in [R -> S] /\ \A x, y \in R : name[x] = name[y] => x = y
       /\ \A x \in R : e[x] = g[name[x]]
  BY DEF Renamed
<1>. DEFINE T == {r \in SUBSET R : f[r] = total[Named(name, r)]}
            pick == [s \in SUBSET R |-> Chosen(s)]
<1>1. \A s \in SUBSET R : s # {} => pick[s] \in s  BY DEF Chosen
<1>2. \A r \in SUBSET R : f[r] = IF r = {} THEN 0 ELSE f[r \ {Chosen(r)}] + e[Chosen(r)]  BY DEF SumOf
<1>3. {} \in T
  <2>1. Named(name, {}) = {}  BY DEF Named
  <2>. QED  BY <1>0, <1>2, <2>1
<1>4. ASSUME NEW s \in SUBSET R, s # {}, s \ {pick[s]} \in T PROVE s \in T
  <2>. DEFINE x == Chosen(s)
  <2>1. x \in s /\ pick[s] = x  BY <1>1, <1>4
  <2>2. f[s] = f[s \ {x}] + g[name[x]]  BY <1>0a, <1>2, <1>4, <2>1
  <2>3. f[s \ {x}] = total[Named(name, s \ {x})]  BY <1>4, <2>1
  <2>. HIDE DEF x
  <2>4. Named(name, s) \in SUBSET S /\ name[x] \in Named(name, s)  BY <1>0a, <2>1 DEF Named
  <2>5. Named(name, s \ {x}) = Named(name, s) \ {name[x]}  BY <1>0a, <2>1 DEF Named
  <2>6. total[Named(name, s)] = total[Named(name, s) \ {name[x]}] + g[name[x]]  BY <1>0, <2>4
  <2>. QED  BY <2>2, <2>3, <2>5, <2>6
<1>5. \A s \in SUBSET R : s \in T
  <2>1. \A s \in SUBSET R : s # {} /\ s \ {pick[s]} \in T => s \in T  BY <1>4
  <2>2. {} \in T  BY <1>3
  <2>3. \A s \in SUBSET R : s # {} => pick[s] \in s  BY <1>1
  <2>4. ASSUME NEW U, {} \in U, \A s \in SUBSET R : s # {} /\ s \ {pick[s]} \in U => s \in U
        PROVE  \A s \in SUBSET R : s \in U
    <3>. HIDE DEF pick
    <3>. QED  BY ONLY IsFiniteSet(R), <2>3, <2>4, OneByOne
  <2>. HIDE DEF T, pick
  <2>. QED  BY <2>1, <2>2, <2>4
<1>. QED  BY <1>5

-----------------------------------------------------------------------------
(* The largest and the smallest element of a set.                         *)

\* A finite set of integers has a largest and a smallest element.
LEMMA MaxIs ==
    ASSUME NEW S, IsFiniteSet(S), S \subseteq Int, S # {}
    PROVE  Max(S) \in S /\ \A y \in S : Max(S) >= y
<1>. DEFINE T == {t \in SUBSET S : t # {} => \E x \in t : \A y \in t : x >= y}
            pick == [t \in SUBSET S |-> CHOOSE x \in t : TRUE]
<1>1. \A t \in SUBSET S : t # {} => pick[t] \in t  OBVIOUS
<1>2. ASSUME NEW t \in SUBSET S, t # {}, t \ {pick[t]} \in T PROVE t \in T
  <2>. DEFINE p == pick[t]
  <2>1. p \in t /\ p \in Int  BY <1>1, <1>2
  <2>2. CASE t \ {p} = {}
    <3>1. t = {p} /\ p >= p  BY <2>1, <2>2
    <3>. QED  BY <3>1
  <2>3. CASE t \ {p} # {}
    <3>1. PICK x \in t \ {p} : \A y \in t \ {p} : x >= y  BY <1>2, <2>3
    <3>2. x \in Int  BY <3>1
    <3>. HIDE DEF p
    <3>3. CASE x >= p  BY <3>1, <3>3
    <3>4. CASE p >= x
      <4>1. \A y \in t : p >= y  BY <2>1, <3>1, <3>2, <3>4
      <4>. QED  BY <2>1, <4>1
    <3>. QED  BY <2>1, <3>2, <3>3, <3>4
  <2>. QED  BY <2>2, <2>3
<1>3. {} \in T  OBVIOUS
<1>4. \A t \in SUBSET S : t \in T
  <2>1. \A t \in SUBSET S : t # {} /\ t \ {pick[t]} \in T => t \in T  BY <1>2
  <2>. HIDE DEF T, pick
  <2>. QED  BY ONLY IsFiniteSet(S), <1>1, <2>1, <1>3, OneByOne
<1>5. \E x \in S : \A y \in S : x >= y  BY <1>4
<1>. QED  BY <1>5 DEF Max

\* ... and a smallest.
LEMMA MinIs ==
    ASSUME NEW S, IsFiniteSet(S), S \subseteq Int, S # {}
    PROVE  Min(S) \in S /\ \A y \in S : Min(S) <= y
<1>. DEFINE M == {-x : x \in S}
            f == [x \in S |-> -x]
<1>1. IsFiniteSet(M)
  <2>1. f \in Surjection(S, M)  BY DEF Surjection
  <2>. HIDE DEF f, M
  <2>. QED  BY <2>1, FS_Surjection
<1>2. M \subseteq Int /\ M # {}  OBVIOUS
<1>3. Max(M) \in M /\ \A y \in M : Max(M) >= y
  <2>. HIDE DEF M
  <2>. QED  BY <1>1, <1>2, MaxIs
<1>4. PICK x \in S : Max(M) = -x  BY <1>3
<1>5. \A y \in S : x <= y
  <2>. SUFFICES ASSUME NEW y \in S PROVE x <= y  OBVIOUS
  <2>1. Max(M) >= -y  BY <1>3
  <2>. QED  BY <1>4, <2>1
<1>. QED  BY <1>5 DEF Min

\* The same for a fold from left to right, over the numbers 1..n.  G[k] has the
\* outcomes of the first k steps, and D whatever a step may start from.
LoopOf(f, n, base, step) ==
    /\ f = [s \in SUBSET (1..n) |-> f[s]]
    /\ \A s \in SUBSET (1..n) :
          f[s] = IF s = {} THEN base ELSE step[<<Max(s), f[s \ {Max(s)}]>>]

\* There is such a function, and it leads where the steps do.
LEMMA LeftLeads ==
    ASSUME NEW n \in Nat, NEW D, NEW base \in D, NEW step,
           \A i \in 1..n : \A d \in D : step[<<i, d>>] \in D,
           NEW G, base \in G[0],
           \A k \in 1..n : \A d \in D : d \in G[k - 1] => step[<<k, d>>] \in G[k]
    PROVE  \E f : /\ LoopOf(f, n, base, step)
                  /\ \A s \in SUBSET (1..n) : f[s] \in D
                  /\ f[1..n] \in G[n]
<1>. DEFINE S == 1..n
            pick == [s \in SUBSET S |-> Max(s)]
            deed == [z \in (SUBSET S) \X D |-> step[<<Max(z[1]), z[2]>>]]
            H == [s \in SUBSET S |-> D]
<1>0. IsFiniteSet(S) /\ S \subseteq Int /\ \A s \in SUBSET S : IsFiniteSet(s)
  <2>1. IsFiniteSet(S)  BY FS_Interval
  <2>2. S \subseteq Int  OBVIOUS
  <2>. HIDE DEF S
  <2>. QED  BY <2>1, <2>2, FS_Subset
<1>1. \A s \in SUBSET S : s # {} => Max(s) \in s /\ \A y \in s : Max(s) >= y
  <2>. SUFFICES ASSUME NEW s \in SUBSET S, s # {} PROVE Max(s) \in s /\ \A y \in s : Max(s) >= y  OBVIOUS
  <2>1. IsFiniteSet(s) /\ s \subseteq Int  BY <1>0
  <2>. QED  BY <2>1, MaxIs
<1>. HIDE DEF S
<1>2. PICK f : FoldOf(f, S, pick, base, deed) /\ \A s \in SUBSET S : f[s] \in H[s]
  <2>1. \A s \in SUBSET S : s # {} => pick[s] \in s  BY <1>1
  <2>2. ASSUME NEW s \in SUBSET S, s # {}, NEW d \in H[s \ {pick[s]}] PROVE deed[<<s, d>>] \in H[s]
    <3>1. d \in D
      <4>1. s \ {pick[s]} \in SUBSET S  OBVIOUS
      <4>. QED  BY <2>2, <4>1
    <3>2. Max(s) \in 1..n  BY <1>1, <2>2 DEF S
    <3>3. deed[<<s, d>>] = step[<<Max(s), d>>]  BY <3>1
    <3>4. step[<<Max(s), d>>] \in D  BY <3>1, <3>2
    <3>. QED  BY <3>3, <3>4
  <2>3. base \in H[{}]  OBVIOUS
  <2>4. \A s \in SUBSET S : s # {} => \A d \in H[s \ {pick[s]}] : deed[<<s, d>>] \in H[s]  BY <2>2
  <2>. HIDE DEF pick, deed, H
  <2>. QED  BY ONLY <1>0, <2>1, <2>3, <2>4, FoldLeads
<1>3. \A s \in SUBSET S : f[s] \in D  BY <1>2
<1>4. \A s \in SUBSET S : f[s] = IF s = {} THEN base ELSE step[<<Max(s), f[s \ {Max(s)}]>>]
  <2>. SUFFICES ASSUME NEW s \in SUBSET S
                PROVE  f[s] = IF s = {} THEN base ELSE step[<<Max(s), f[s \ {Max(s)}]>>]
    OBVIOUS
  <2>1. f[s] = IF s = {} THEN base ELSE deed[<<s, f[s \ {pick[s]}]>>]  BY <1>2 DEF FoldOf
  <2>2. pick[s] = Max(s) /\ s \ {Max(s)} \in SUBSET S  OBVIOUS
  <2>3. deed[<<s, f[s \ {Max(s)}]>>] = step[<<Max(s), f[s \ {Max(s)}]>>]  BY <1>3, <2>2
  <2>. HIDE DEF deed, pick
  <2>. QED  BY <2>1, <2>2, <2>3
<1>5. LoopOf(f, n, base, step)  BY <1>2, <1>4 DEF FoldOf, LoopOf, S
<1>. DEFINE T == {k \in Nat : k <= n => f[1..k] \in G[k]}
<1>6. 0 \in T
  <2>1. 1..0 = {} /\ {} \in SUBSET S  OBVIOUS
  <2>2. f[{}] = base  BY <1>4, <2>1
  <2>. QED  BY <2>1, <2>2
<1>7. ASSUME NEW k \in Nat, k \in T PROVE k + 1 \in T
  <2>. SUFFICES ASSUME k + 1 <= n PROVE f[1..(k + 1)] \in G[k + 1]  OBVIOUS
  <2>. DEFINE s == 1..(k + 1)
  <2>1. s \in SUBSET S /\ s # {} /\ k + 1 \in s /\ 1..k \in SUBSET S
    <3>1. s \subseteq S /\ 1..k \subseteq S  BY DEF S
    <3>2. k + 1 \in s  OBVIOUS
    <3>. HIDE DEF s
    <3>. QED  BY <3>1, <3>2
  <2>2. Max(s) = k + 1
    <3>1. Max(s) \in s /\ Max(s) >= k + 1
      <4>. HIDE DEF s
      <4>. QED  BY <1>1, <2>1
    <3>. QED  BY <3>1
  <2>3. s \ {k + 1} = 1..k  OBVIOUS
  <2>4. f[s] = step[<<k + 1, f[1..k]>>]
    <3>. HIDE DEF s
    <3>. QED  BY <1>4, <2>1, <2>2, <2>3
  <2>5. f[1..k] \in G[k] /\ f[1..k] \in D  BY <1>3, <1>7, <2>1
  <2>6. k + 1 \in 1..n /\ (k + 1) - 1 = k  OBVIOUS
  <2>. HIDE DEF s
  <2>. QED  BY <2>4, <2>5, <2>6 DEF s
<1>8. \A k \in Nat : k \in T
  <2>. HIDE DEF T
  <2>. QED  BY <1>6, <1>7, NatSets
<1>9. f[1..n] \in G[n]  BY <1>8
<1>. QED  BY <1>3, <1>5, <1>9 DEF S

\* There is no other function than what such a fold is defined with.
OnSubsets(f, n) == f = [s \in SUBSET (1..n) |-> f[s]]

\* Two that begin and go on alike are the same.
LEMMA LeftOnly ==
    ASSUME NEW n \in Nat, NEW f, NEW g, OnSubsets(f, n), OnSubsets(g, n),
           f[{}] = g[{}],
           \A s \in SUBSET (1..n) : s # {} /\ f[s \ {Max(s)}] = g[s \ {Max(s)}] => f[s] = g[s]
    PROVE  f = g
<1>. DEFINE S == 1..n
            T == {s \in SUBSET S : f[s] = g[s]}
            pick == [s \in SUBSET S |-> Max(s)]
<1>0. IsFiniteSet(S) /\ S \subseteq Int /\ \A s \in SUBSET S : IsFiniteSet(s)
  <2>1. IsFiniteSet(S)  BY FS_Interval
  <2>2. S \subseteq Int  OBVIOUS
  <2>. HIDE DEF S
  <2>. QED  BY <2>1, <2>2, FS_Subset
<1>. HIDE DEF S
<1>1. \A s \in SUBSET S : s # {} => pick[s] \in s
  <2>. SUFFICES ASSUME NEW s \in SUBSET S, s # {} PROVE Max(s) \in s  OBVIOUS
  <2>1. IsFiniteSet(s) /\ s \subseteq Int  BY <1>0
  <2>. QED  BY <2>1, MaxIs
<1>2. \A s \in SUBSET S : s # {} /\ s \ {pick[s]} \in T => s \in T  BY DEF S
<1>3. {} \in T  OBVIOUS
<1>4. \A s \in SUBSET S : s \in T
  <2>. HIDE DEF T, pick
  <2>. QED  BY ONLY <1>0, <1>1, <1>2, <1>3, OneByOne
<1>. QED  BY <1>4 DEF S, OnSubsets
================================================================================
