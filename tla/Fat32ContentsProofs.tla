------------------------- MODULE Fat32ContentsProofs -------------------------
(***************************************************************************)
(* What calls of the FAT32 driver do to the entries and the contents of    *)
(* other files, and what a write that returns 0 has stored: for every size *)
(* of the disk, of its tables and of the files, from the invariant of      *)
(* Fat32Proofs.                                                            *)
(***************************************************************************)
EXTENDS Fat32Proofs

-----------------------------------------------------------------------------
(* Walks along a chain *)

\* The chain from a cluster of a chain is a part of it.
LEMMA ChainNested ==
  ASSUME NEW f, NEW c \in Clusters, NEW x \in Chain(f, c)
  PROVE  x \in Clusters /\ Chain(f, x) \subseteq Chain(f, c)
<1>1. Closed(f, Chain(f, c))
  BY ChainClosed DEF Closed
<1>2. x \in Clusters /\ Chain(f, c) \in SUBSET Clusters
  BY ChainLeast
<1> QED
  BY <1>1, <1>2, ChainLeast

\* Links lead to later clusters, so a walk never comes back.
LEMMA ChainAscends ==
  ASSUME NEW f \in Fat, Links(f), NEW c \in DataClusters, f[c] # EMPTY
  PROVE  \A x \in Chain(f, c) : x \in Nat /\ c <= x
<1> DEFINE S == {x \in DataClusters : f[x] # EMPTY /\ c <= x}
<1>1. S \in SUBSET Clusters /\ c \in S /\ c \in Clusters /\ c \in Nat
  BY Numbers
<1>2. Closed(f, S)
  <2> SUFFICES ASSUME NEW x \in S, f[x] \in Clusters PROVE f[x] \in S
    BY DEF Closed
  <2>1. f[x] \in x + 1 .. CLUSTER_MAP_SIZE - 1 /\ f[f[x]] # EMPTY
    BY Numbers DEF Links
  <2>2. x \in Nat /\ f[x] \in Nat /\ c <= x
    BY Numbers
  <2> QED
    BY <1>1, <2>1, <2>2, Numbers
<1>3. Chain(f, c) \subseteq S
  BY <1>1, <1>2, ChainLeast
<1> QED
  BY <1>3, Numbers

LEMMA ChainFinite ==
  ASSUME NEW f, NEW c \in Clusters
  PROVE  IsFiniteSet(Chain(f, c)) /\ Cardinality(Chain(f, c)) \in Nat \ {0}
<1>1. IsFiniteSet(0 .. CLUSTER_MAP_SIZE - 1)
  BY FS_Interval, Numbers
<1>2. IsFiniteSet(Chain(f, c))
  BY <1>1, ChainLeast, FS_Subset, Numbers
<1>3. Chain(f, c) # {}
  BY ChainLeast
<1>4. Cardinality(Chain(f, c)) \in Nat
  BY <1>2, FS_CardinalityType
<1>5. Cardinality(Chain(f, c)) # 0
  BY <1>2, <1>3, FS_EmptySet
<1> QED
  BY <1>2, <1>4, <1>5

\* A walk is its first cluster and the walk from the next one.
LEMMA ChainStep ==
  ASSUME NEW f \in Fat, Links(f), NEW c \in DataClusters, f[c] # EMPTY, f[c] # EOF
  PROVE  /\ f[c] \in DataClusters /\ f[f[c]] # EMPTY
         /\ Chain(f, c) = {c} \union Chain(f, f[c]) /\ c \notin Chain(f, f[c])
         /\ Cardinality(Chain(f, f[c])) = Cardinality(Chain(f, c)) - 1
<1>1. f[c] \in c + 1 .. CLUSTER_MAP_SIZE - 1 /\ f[f[c]] # EMPTY
  BY DEF Links
<1>2. c \in Clusters /\ f[c] \in DataClusters /\ f[c] \in Clusters
  BY <1>1, Numbers
<1> DEFINE S == {c} \union Chain(f, f[c])
<1>3. Chain(f, c) \subseteq S
  <2>1. Closed(f, S)
    <3> SUFFICES ASSUME NEW x \in S, f[x] \in Clusters PROVE f[x] \in S
      BY DEF Closed
    <3>1. CASE x = c
      BY <1>2, <3>1, ChainLeast
    <3>2. CASE x \in Chain(f, f[c])
      BY <1>2, <3>2, ChainClosed
    <3> QED
      BY <3>1, <3>2
  <2>2. S \in SUBSET Clusters
    BY <1>2, ChainLeast
  <2> QED
    BY <1>2, <2>1, <2>2, ChainLeast
<1>4. S \subseteq Chain(f, c)
  <2>1. c \in Chain(f, c) /\ f[c] \in Chain(f, c)
    BY <1>2, ChainLeast, ChainClosed
  <2> QED
    BY <1>2, <2>1, ChainNested
<1>5. c \notin Chain(f, f[c])
  BY <1>1, <1>2, ChainAscends, Numbers
<1>6. PICK T : T = Chain(f, f[c])
  OBVIOUS
<1>7. IsFiniteSet(T) /\ Cardinality(T) \in Nat /\ c \notin T
  BY <1>2, <1>5, <1>6, ChainFinite
<1>8. Cardinality(T \union {c}) = Cardinality(T) + 1
  BY <1>7, FS_AddElement
<1>9. Chain(f, c) = T \union {c}
  BY <1>3, <1>4, <1>6
<1>10. Cardinality(Chain(f, c)) = Cardinality(T) + 1
  BY <1>8, <1>9
<1>11. Cardinality(T) = Cardinality(Chain(f, c)) - 1
  BY <1>7, <1>10
<1> QED
  BY <1>1, <1>2, <1>3, <1>4, <1>5, <1>6, <1>11

\* The last cluster of a chain is a walk of its own.
LEMMA ChainLast ==
  ASSUME NEW f, NEW c \in Clusters, f[c] = EOF
  PROVE  Chain(f, c) = {c} /\ Cardinality(Chain(f, c)) = 1
<1>1. Closed(f, {c})
  BY Numbers DEF Closed
<1>2. Chain(f, c) = {c}
  BY <1>1, ChainLeast
<1> QED
  BY <1>2, FS_Singleton

\* Of two clusters of a chain one is on the walk from the other.
LEMMA ChainTotal ==
  ASSUME NEW f \in Fat, Links(f), NEW c \in DataClusters, f[c] # EMPTY,
         NEW x \in Chain(f, c), NEW y \in Chain(f, c)
  PROVE  x \in Chain(f, y) \/ y \in Chain(f, x)
<1> DEFINE S == {z \in Chain(f, c) : x \in Chain(f, z) \/ z \in Chain(f, x)}
<1>0. c \in Clusters /\ x \in Clusters
  BY Numbers, ChainLeast
<1>1. S \in SUBSET Clusters /\ c \in S
  BY <1>0, ChainLeast
<1>2. Closed(f, S)
  <2> SUFFICES ASSUME NEW z \in S, f[z] \in Clusters PROVE f[z] \in S
    BY DEF Closed
  <2>1. f[z] \in Chain(f, c) /\ z \in DataClusters /\ f[z] # EMPTY /\ f[z] # EOF
    BY <1>0, ChainClosed, ChainInUse, Numbers
  <2>2. CASE z \in Chain(f, x)
    BY <1>0, <2>1, <2>2, ChainClosed
  <2>3. CASE x \in Chain(f, z) /\ x # z
    <3>1. Chain(f, z) = {z} \union Chain(f, f[z])
      BY <2>1, ChainStep
    <3> QED
      BY <2>1, <2>3, <3>1
  <2>4. CASE x = z
    BY <1>0, <2>4, <2>2, ChainLeast
  <2> QED
    BY <2>2, <2>3, <2>4
<1>3. Chain(f, c) \subseteq S
  BY <1>0, <1>1, <1>2, ChainLeast
<1> QED
  BY <1>3

\* The clusters of a chain differ in the length of the walk from them.
LEMMA WalksDiffer ==
  ASSUME NEW f \in Fat, Links(f), NEW c \in DataClusters, f[c] # EMPTY,
         NEW x \in Chain(f, c), NEW y \in Chain(f, c), x # y
  PROVE  Cardinality(Chain(f, x)) # Cardinality(Chain(f, y))
<1>0. c \in Clusters /\ x \in Clusters /\ y \in Clusters
  BY Numbers, ChainLeast
<1>1. x \in DataClusters /\ f[x] # EMPTY /\ y \in DataClusters /\ f[y] # EMPTY
  BY ChainInUse
<1>2. ASSUME NEW u \in DataClusters, f[u] # EMPTY, NEW v \in DataClusters, f[v] # EMPTY,
             v \in Chain(f, u), u # v
      PROVE  Cardinality(Chain(f, u)) # Cardinality(Chain(f, v))
  <2>0. u \in Clusters /\ v \in Clusters /\ u \in Nat /\ v \in Nat
    BY Numbers
  <2>1. u < v
    BY <1>2, <2>0, ChainAscends
  <2>2. u \notin Chain(f, v)
    BY <1>2, <2>0, <2>1, ChainAscends
  <2>3. Chain(f, v) \in SUBSET Chain(f, u) /\ u \in Chain(f, u)
    BY <1>2, <2>0, ChainNested, ChainLeast
  <2>4. IsFiniteSet(Chain(f, u))
    BY <2>0, ChainFinite
  <2> QED
    BY <2>2, <2>3, <2>4, FS_Subset
<1>3. CASE x \in Chain(f, y)
  BY <1>1, <1>2, <1>3
<1>4. CASE y \in Chain(f, x)
  BY <1>1, <1>2, <1>4
<1> QED
  BY <1>3, <1>4, ChainTotal

\* The i-th cluster of a walk exists, and the walk from it has the clusters
\* that are left.
LEMMA ChainAtFound ==
  ASSUME NEW f \in Fat, Links(f), NEW c \in DataClusters, f[c] # EMPTY,
         NEW i \in 1 .. Cardinality(Chain(f, c))
  PROVE  /\ ChainAt(f, c, i) \in Chain(f, c)
         /\ Cardinality(Chain(f, ChainAt(f, c, i))) = Cardinality(Chain(f, c)) + 1 - i
<1> DEFINE S == Chain(f, c)
           n == Cardinality(S)
           Left == [x \in S |-> Cardinality(Chain(f, x))]
<1>0. c \in Clusters
  BY Numbers
<1>1. IsFiniteSet(S) /\ n \in Nat /\ IsFiniteSet(1 .. n) /\ Cardinality(1 .. n) = n
  <2>1. IsFiniteSet(S) /\ n \in Nat
    BY <1>0, ChainFinite
  <2> HIDE DEF n, S
  <2>2. IsFiniteSet(1 .. n) /\ Cardinality(1 .. n) = IF 1 > n THEN 0 ELSE n - 1 + 1
    BY <2>1, FS_Interval
  <2> QED
    BY <2>1, <2>2
<1>2. ASSUME NEW x \in S PROVE Cardinality(Chain(f, x)) \in 1 .. n
  <2>1. x \in Clusters /\ Chain(f, x) \in SUBSET S
    BY <1>0, ChainNested
  <2>2. Cardinality(Chain(f, x)) \in Nat \ {0}
    BY <2>1, ChainFinite
  <2>3. Cardinality(Chain(f, x)) <= n
    BY <1>1, <2>1, FS_Subset
  <2> QED
    BY <1>1, <2>2, <2>3
<1>3. Left \in Injection(S, 1 .. n)
  <2>1. Left \in [S -> 1 .. n]
    BY <1>2
  <2>2. \A x, y \in S : Left[x] = Left[y] => x = y
    BY WalksDiffer
  <2> QED
    BY <2>1, <2>2 DEF Injection, IsInjective
<1>4. Left \in Surjection(S, 1 .. n)
  <2> HIDE DEF Left, n, S
  <2>1. Cardinality(S) = Cardinality(1 .. n) <=> Left \in Surjection(S, 1 .. n)
    BY <1>1, <1>3, FS_Injection
  <2> QED
    BY <1>1, <2>1 DEF n
<1>5. n + 1 - i \in 1 .. n
  <2> HIDE DEF n
  <2>1. i \in 1 .. n
    BY DEF n
  <2> QED
    BY <1>1, <2>1
<1>6. PICK x \in S : Cardinality(Chain(f, x)) = n + 1 - i
  BY <1>4, <1>5 DEF Surjection
<1> QED
  BY <1>6 DEF ChainAt

\* A map that agrees with f on a chain of f has the same chain.
LEMMA ChainAgrees ==
  ASSUME NEW f, NEW g, NEW c \in Clusters, \A x \in Chain(f, c) : g[x] = f[x]
  PROVE  Chain(g, c) = Chain(f, c)
<1>1. Chain(g, c) \subseteq Chain(f, c)
  <2>1. Closed(g, Chain(f, c))
    <3> SUFFICES ASSUME NEW x \in Chain(f, c), g[x] \in Clusters PROVE g[x] \in Chain(f, c)
      BY DEF Closed
    <3>1. g[x] = f[x] /\ f[x] \in Clusters
      OBVIOUS
    <3> QED
      BY <3>1, ChainClosed
  <2> QED
    BY <2>1, ChainLeast
<1>2. Chain(f, c) \subseteq Chain(g, c)
  <2>1. Closed(f, Chain(g, c))
    <3> SUFFICES ASSUME NEW x \in Chain(g, c), f[x] \in Clusters PROVE f[x] \in Chain(g, c)
      BY DEF Closed
    <3>1. g[x] = f[x] /\ g[x] \in Clusters
      BY <1>1
    <3> QED
      BY <3>1, ChainClosed
  <2> QED
    BY <2>1, ChainLeast
<1> QED
  BY <1>1, <1>2

\* A file keeps its contents when the words and the bytes of its clusters
\* are kept.
LEMMA ContentsKept ==
  ASSUME NEW f \in Fat, Links(f), NEW c \in DataClusters, f[c] # EMPTY, NEW g, NEW old, NEW new,
         \A x \in Chain(f, c) : g[x] = f[x] /\ new[x] = old[x]
  PROVE  Contents(g, new, c) = Contents(f, old, c)
<1>0. c \in Clusters
  BY Numbers
<1>1. Chain(g, c) = Chain(f, c)
  BY <1>0, ChainAgrees
<1>2. ASSUME NEW x \in Chain(f, c) PROVE Chain(g, x) = Chain(f, x)
  <2>1. x \in Clusters /\ Chain(f, x) \subseteq Chain(f, c)
    BY <1>0, ChainNested
  <2> QED
    BY <2>1, ChainAgrees
<1>3. ASSUME NEW i \in 1 .. Cardinality(Chain(f, c))
      PROVE  ChainAt(f, c, i) \in Chain(f, c) /\ ChainAt(g, c, i) = ChainAt(f, c, i)
  <2> DEFINE k == Cardinality(Chain(f, c)) + 1 - i
             x == ChainAt(f, c, i)
             y == ChainAt(g, c, i)
  <2>1. x \in Chain(f, c) /\ Cardinality(Chain(f, x)) = k
    BY ChainAtFound
  <2>2. Cardinality(Chain(g, c)) + 1 - i = k /\ x \in Chain(g, c) /\ Cardinality(Chain(g, x)) = k
    BY <2>1, <1>1, <1>2
  <2>3. y \in Chain(g, c) /\ Cardinality(Chain(g, y)) = k
    <3> HIDE DEF x, k
    <3>1. \E z \in Chain(g, c) : Cardinality(Chain(g, z)) = Cardinality(Chain(g, c)) + 1 - i
      BY <2>2
    <3>2. y = CHOOSE z \in Chain(g, c) :
                Cardinality(Chain(g, z)) = Cardinality(Chain(g, c)) + 1 - i
      BY DEF ChainAt
    <3> QED
      BY <2>2, <3>1, <3>2
  <2>4. y \in Chain(f, c) /\ Cardinality(Chain(f, y)) = k
    BY <2>3, <1>1, <1>2
  <2> HIDE DEF x, y, k
  <2>5. x = y
    BY <2>1, <2>4, WalksDiffer
  <2> QED
    BY <2>1, <2>5 DEF x, y
<1>4. Contents(f, old, c) = [i \in 1 .. Cardinality(Chain(f, c)) |-> old[ChainAt(f, c, i)]]
  BY DEF Contents
<1>5. Contents(g, new, c) = [i \in 1 .. Cardinality(Chain(f, c)) |-> new[ChainAt(g, c, i)]]
  BY <1>1 DEF Contents
<1> QED
  BY <1>3, <1>4, <1>5

-----------------------------------------------------------------------------
(* What write allocates *)

\* How many empty words come before x.
Before(f, x) == {y \in Free(f) : y < x}
Rank(f, x) == Cardinality(Before(f, x))

LEMMA RankNumbers ==
  ASSUME NEW f, NEW x \in Free(f)
  PROVE  Rank(f, x) \in Nat /\ Rank(f, x) < Cardinality(Free(f))
<1>1. IsFiniteSet(Free(f)) /\ Free(f) \in SUBSET Nat /\ Cardinality(Free(f)) \in Nat
  BY FreeNumbers, FS_CardinalityType
<1>2. Before(f, x) \in SUBSET Free(f) /\ x \notin Before(f, x)
  BY <1>1 DEF Before
<1>3. /\ IsFiniteSet(Before(f, x)) /\ Rank(f, x) <= Cardinality(Free(f))
      /\ Rank(f, x) = Cardinality(Free(f)) => Before(f, x) = Free(f)
  BY <1>1, <1>2, FS_Subset DEF Rank
<1>4. Rank(f, x) \in Nat
  BY <1>3, FS_CardinalityType DEF Rank
<1> QED
  BY <1>1, <1>2, <1>3, <1>4

LEMMA RanksDiffer ==
  ASSUME NEW f, NEW x \in Free(f), NEW y \in Free(f), x # y
  PROVE  Rank(f, x) # Rank(f, y)
<1>1. IsFiniteSet(Free(f)) /\ Free(f) \in SUBSET Nat
  BY FreeNumbers
<1>2. ASSUME NEW u \in Free(f), NEW v \in Free(f), u < v PROVE Rank(f, u) # Rank(f, v)
  <2>1. Before(f, u) \in SUBSET Before(f, v) /\ u \in Before(f, v) /\ u \notin Before(f, u)
    BY <1>1, <1>2 DEF Before
  <2>2. Before(f, v) \in SUBSET Free(f)
    BY DEF Before
  <2>3. IsFiniteSet(Before(f, v))
    BY <1>1, <2>2, FS_Subset
  <2> QED
    BY <2>1, <2>3, FS_Subset DEF Rank
<1>3. x < y \/ y < x
  BY <1>1
<1> QED
  BY <1>2, <1>3

\* The first n empty words are n words.
LEMMA FirstFreeCount ==
  ASSUME NEW f, NEW n \in Nat, n <= Cardinality(Free(f))
  PROVE  Cardinality(FirstFree(f, n)) = n
<1>1. PICK N \in Nat : N = Cardinality(Free(f))
  BY FreeNumbers, FS_CardinalityType
<1>2. PICK A : A = FirstFree(f, n)
  OBVIOUS
<1>3. /\ IsFiniteSet(0 .. N - 1) /\ Cardinality(0 .. N - 1) = N
      /\ IsFiniteSet(0 .. n - 1) /\ Cardinality(0 .. n - 1) = n
  <2>1. ASSUME NEW k \in Nat PROVE IsFiniteSet(0 .. k - 1) /\ Cardinality(0 .. k - 1) = k
    BY FS_Interval
  <2> QED
    BY <2>1
<1>4. PICK rank : rank = [x \in Free(f) |-> Rank(f, x)]
  OBVIOUS
<1>5. rank \in Injection(Free(f), 0 .. N - 1)
  <2>1. \A x \in Free(f) : Rank(f, x) \in 0 .. N - 1
    BY <1>1, RankNumbers
  <2>2. rank \in [Free(f) -> 0 .. N - 1]
    BY <1>4, <2>1
  <2> QED
    BY <1>4, <2>2, RanksDiffer DEF Injection, IsInjective
<1>6. rank \in Surjection(Free(f), 0 .. N - 1)
  <2>1. Cardinality(Free(f)) = Cardinality(0 .. N - 1)
    BY <1>1, <1>3
  <2> QED
    BY <1>3, <1>5, <2>1, FS_Injection
<1>7. A = {x \in Free(f) : Rank(f, x) < n}
  BY <1>2 DEF FirstFree, Rank, Before
<1>8. PICK part : part = [x \in A |-> Rank(f, x)]
  OBVIOUS
<1>9. part \in Injection(A, 0 .. n - 1)
  <2>1. \A x \in A : Rank(f, x) \in 0 .. n - 1
    BY <1>7, RankNumbers
  <2>2. part \in [A -> 0 .. n - 1]
    BY <1>8, <2>1
  <2> QED
    BY <1>7, <1>8, <2>2, RanksDiffer DEF Injection, IsInjective
<1>10. part \in Surjection(A, 0 .. n - 1)
  <2> SUFFICES ASSUME NEW k \in 0 .. n - 1 PROVE \E x \in A : part[x] = k
    BY <1>9 DEF Surjection, Injection
  <2>1. k \in 0 .. N - 1
    BY <1>1
  <2>2. PICK x \in Free(f) : rank[x] = k
    BY <1>6, <2>1 DEF Surjection
  <2>3. Rank(f, x) = k
    BY <1>4, <2>2
  <2>4. x \in A
    BY <1>7, <2>3
  <2> QED
    BY <1>8, <2>3, <2>4
<1>11. Cardinality(A) = Cardinality(0 .. n - 1)
  BY <1>3, <1>9, <1>10, FS_Injection
<1> QED
  BY <1>2, <1>3, <1>11

\* The chain that the allocation makes.
LEMMA AllocatedChain ==
  ASSUME NEW f \in Fat, NEW A \in SUBSET Free(f), A # {}, NEW g, g = LinkUp(f, A, EOF)
  PROVE  g \in Fat /\ Chain(g, Min(A)) = A
<1>1. A \in SUBSET Clusters
  BY FreeNumbers
<1>2. EOF \in Nat /\ EOF \notin Clusters
  BY Numbers
<1>3. g \in Fat /\ Linked(g, A, EOF)
  BY <1>1, <1>2, LinkUpWords
<1> QED
  BY <1>1, <1>2, <1>3, LinkedChain

-----------------------------------------------------------------------------
(* The inductive invariant: how far the write of a file has come *)

\* The clusters the file in flight needs.
Needed == divceil(op.entry.size, CLUSTER_SIZE)

\* The allocated chain is as long as the file.
Measured == op.pc = "wf_parent" => Cardinality(Chain(diskFat, op.cl)) = Needed /\ op.part = 0

\* The chain of the file in flight belongs to the entry just written.
OfItsEntry ==
  /\ dirs[op.parent][op.row] = op.entry
  /\ op.entry.used /\ op.entry.attr # ATTR_SUBDIRECTORY
  /\ op.entry.cl \in DataClusters /\ diskFat[op.entry.cl] # EMPTY
  /\ Leads(diskFat, op.entry.cl) /\ ~Holds(dirs[op.entry.cl])
  /\ Holds(dirs[op.parent])
  /\ \A d \in Clusters, r \in ScanRows :
       Created(dirs[d][r]) /\ dirs[d][r].cl = op.entry.cl => d = op.parent /\ r = op.row

\* The next part goes to op.cl; the clusters before it hold the parts before.
PartsWritten ==
  /\ op.cl \in Chain(diskFat, op.entry.cl)
  /\ Cardinality(Chain(diskFat, op.entry.cl)) = Needed
  /\ Cardinality(Chain(diskFat, op.cl)) = Needed - op.part
  /\ \A x \in Chain(diskFat, op.entry.cl) \ Chain(diskFat, op.cl) :
       data[x] = <<op.buf, Needed - Cardinality(Chain(diskFat, x))>>

Filling == op.pc = "wf_data" => OfItsEntry /\ PartsWritten

CountInv == DiskInv /\ (Known => Measured /\ Filling)

\* Only four steps lead into the calls the invariant is about.
LEMMA Elsewhere ==
  ASSUME op'.pc \notin {"wf_parent", "wf_data"}
  PROVE  Measured' /\ Filling'
  BY DEF Measured, Filling

LEMMA StepPc == \A x : Step(x).pc = x
  BY DEF Step

LEMMA WriteFileCounted ==
  ASSUME DiskInv, NEW p, NEW n, NEW size \in Nat, NEW b, WriteFile(p, n, size, b)
  PROVE  Measured' /\ Filling'
<1>1. PICK k : k = divceil(size, CLUSTER_SIZE)
  OBVIOUS
<1>2. PICK A : A = FirstFree(diskFat, k)
  OBVIOUS
<1>3. /\ size > 0 /\ k <= Cardinality(Free(diskFat))
      /\ diskFat' = LinkUp(diskFat, A, EOF) /\ dirs' = dirs
      /\ op' = [Step("wf_parent") EXCEPT
                  !.parent = p, !.cl = Min(A), !.row = EntryRow(dirs[p]),
                  !.entry = FileEntry(n, Min(A), size),
                  !.table = MarkRow(dirs[p], p), !.buf = b]
  BY <1>1, <1>2 DEF WriteFile
<1>4. k \in Nat \ {0}
  <2>1. size \in Nat \ {0} /\ CLUSTER_SIZE \in Nat \ {0}
    BY <1>3, SizeAssumption
  <2> QED
    BY <1>1, <2>1, DivceilPositive
<1>5. A \in SUBSET Free(diskFat) /\ A # {} /\ Cardinality(A) = k
  BY <1>2, <1>3, <1>4, FirstFreeSome, FirstFreeCount
<1>6. diskFat \in Fat
  BY IdleFacts DEF WriteFile, Writable
<1>7. Chain(diskFat', Min(A)) = A
  BY <1>3, <1>5, <1>6, AllocatedChain
<1>8. /\ op'.pc = "wf_parent" /\ op'.parent = p /\ op'.row = EntryRow(dirs[p])
      /\ op'.cl = Min(A) /\ op'.entry.size = size /\ op'.part = 0
  BY <1>3 DEF Step, FileEntry
<1>9. Measured'
  BY <1>1, <1>5, <1>7, <1>8 DEF Measured, Needed
<1> QED
  BY <1>8, <1>9 DEF Filling

LEMMA FileParentCounted ==
  ASSUME CountInv, FileParent
  PROVE  Measured' /\ Filling'
<1>1. /\ DiskInv /\ Known /\ WritesParent /\ op.entry.attr # ATTR_SUBDIRECTORY
      /\ op \in Calls /\ dirs \in [Clusters -> Table] /\ Measured /\ op.pc = "wf_parent"
  BY DEF FileParent, CountInv, DiskInv, Known, Defined, Stuck, CallSound, TypeOK, Calls
<1>2. /\ dirs' \in [Clusters -> Table]
      /\ op.cl # op.parent /\ dirs'[op.cl] = dirs[op.cl]
      /\ \A d \in Clusters, r \in ScanRows :
           Created(dirs'[d][r]) /\ dirs'[d][r].cl = op.cl => d = op.parent /\ r = op.row
  BY <1>1, ParentWritten DEF FileParent
<1>3. /\ op'.pc = "wf_data" /\ op'.cl = op.cl /\ op'.entry = op.entry /\ op'.parent = op.parent
      /\ op'.row = op.row /\ op'.part = op.part /\ op'.buf = op.buf
      /\ diskFat' = diskFat
      /\ dirs' = [dirs EXCEPT ![op.parent] = [op.table EXCEPT ![op.row] = op.entry]]
  BY <1>1 DEF FileParent, Calls
<1>4. op.row \in Rows /\ op.parent \in Clusters /\ op.table \in [Rows -> Entry]
  BY <1>1, RowNumbers DEF Calls, Table
<1>5. dirs'[op.parent][op.row] = op.entry
  BY <1>1, <1>3, <1>4
<1>6. op.entry.cl = op.cl /\ op.entry.used /\ Fresh(diskFat, dirs, op.cl)
  BY <1>1 DEF WritesParent
<1>7. Holds(dirs'[op.parent])
  BY <1>4, <1>5, <1>6 DEF Holds
<1>8. OfItsEntry'
  BY <1>1, <1>2, <1>3, <1>5, <1>6, <1>7 DEF OfItsEntry, Fresh
<1>9. Cardinality(Chain(diskFat, op.cl)) = Needed /\ op.part = 0
  BY <1>1 DEF Measured
<1>10. op.cl \in Clusters /\ op.cl \in Chain(diskFat, op.cl) /\ Needed \in Nat
  <2>1. op.cl \in Clusters
    BY <1>6, Numbers DEF Fresh
  <2> QED
    BY <2>1, <1>9, ChainLeast, ChainFinite
<1>11. Needed' = Needed
  BY <1>3 DEF Needed
<1>12. PartsWritten'
  BY <1>3, <1>6, <1>9, <1>10, <1>11 DEF PartsWritten
<1> QED
  BY <1>3, <1>8, <1>12 DEF Measured, Filling

\* The file in flight runs through no directory table.
LEMMA NoTableInFile ==
  ASSUME CountInv, op.pc = "wf_data"
  PROVE  /\ Known /\ Links(diskFat) /\ diskFat \in Fat /\ fat = diskFat
         /\ OfItsEntry /\ PartsWritten /\ op.cl \in DataClusters /\ op.cl \in Clusters
         /\ diskFat[op.cl] # EMPTY /\ op.buf \in Bufs /\ op \in Calls
         /\ \A d \in Clusters : Holds(dirs[d]) => d \notin Chain(diskFat, op.entry.cl)
<1>1. /\ Known /\ Links(diskFat) /\ diskFat \in Fat /\ fat = diskFat
      /\ OfItsEntry /\ PartsWritten /\ op.cl \in DataClusters /\ op.cl \in Clusters
      /\ diskFat[op.cl] # EMPTY /\ op.buf \in Bufs /\ op \in Calls /\ Sound(diskFat, dirs)
  BY Numbers DEF CountInv, Filling, DiskInv, Known, Stuck, Defined, CacheCoherent, CallSound,
                 TypeOK, Fat, Calls
<1>2. ASSUME NEW d \in Clusters, Holds(dirs[d]) PROVE d \notin Chain(diskFat, op.entry.cl)
  <2>1. Leads(diskFat, d)
    BY <1>1, <1>2 DEF Sound, TablesOwned
  <2>2. /\ op.entry.cl \in DataClusters /\ diskFat[op.entry.cl] # EMPTY /\ d # op.entry.cl
    BY <1>1, <1>2 DEF OfItsEntry
  <2> QED
    BY <1>1, <2>1, <2>2, HeadAlone
<1> QED
  BY <1>1, <1>2

\* What the write of one cluster of a file changes.
LEMMA PartWritten ==
  ASSUME CountInv, FileData
  PROVE  /\ diskFat' = diskFat
         /\ \A d \in Clusters : Holds(dirs[d]) => dirs'[d] = dirs[d]
         /\ \A d \in Clusters, r \in Rows : dirs'[d][r].used => dirs'[d] = dirs[d]
         /\ \A x \in Clusters : x # op.cl => data'[x] = data[x]
         /\ data'[op.cl] = <<op.buf, op.part>>
<1>1. op.pc = "wf_data" /\ diskFat' = diskFat /\ dirs' = [dirs EXCEPT ![op.cl] = Image[op.buf]]
      /\ data' = [data EXCEPT ![op.cl] = <<op.buf, op.part>>]
  BY DEF FileData
<1>2. /\ OfItsEntry /\ PartsWritten /\ op.cl \in Clusters /\ op.buf \in Bufs
      /\ \A d \in Clusters : Holds(dirs[d]) => d \notin Chain(diskFat, op.entry.cl)
  BY <1>1, NoTableInFile
<1>3. dirs \in [Clusters -> Table] /\ DOMAIN data = Clusters /\ TextsUnused
  BY DEF CountInv, DiskInv, TypeOK
<1>4. \A d \in Clusters : Holds(dirs[d]) => d # op.cl
  BY <1>2 DEF PartsWritten
<1>5. \A r \in Rows : ~Image[op.buf][r].used
  BY <1>2, <1>3 DEF TextsUnused
<1> QED
  BY <1>1, <1>2, <1>3, <1>4, <1>5

LEMMA FileDataCounted ==
  ASSUME CountInv, FileData
  PROVE  Measured' /\ Filling'
<1>0. op.pc = "wf_data"
  BY DEF FileData
<1>1. /\ Links(diskFat) /\ diskFat \in Fat /\ fat = diskFat
      /\ OfItsEntry /\ PartsWritten /\ op.cl \in DataClusters /\ op.cl \in Clusters
      /\ diskFat[op.cl] # EMPTY /\ op \in Calls
      /\ \A d \in Clusters : Holds(dirs[d]) => d \notin Chain(diskFat, op.entry.cl)
  BY <1>0, NoTableInFile
<1>2. CASE diskFat[op.cl] = EOF
  <2>1. op'.pc = "idle"
    BY <1>1, <1>2, StepPc DEF FileData, Return
  <2> QED
    BY <2>1, Elsewhere
<1>3. CASE diskFat[op.cl] # EOF
  <2>1. /\ op'.pc = "wf_data" /\ op'.cl = diskFat[op.cl] /\ op'.part = op.part + 1
        /\ op'.entry = op.entry /\ op'.parent = op.parent /\ op'.row = op.row /\ op'.buf = op.buf
    BY <1>0, <1>1, <1>3 DEF FileData, Calls
  <2>2. /\ diskFat' = diskFat
        /\ \A d \in Clusters : Holds(dirs[d]) => dirs'[d] = dirs[d]
        /\ \A d \in Clusters, r \in Rows : dirs'[d][r].used => dirs'[d] = dirs[d]
        /\ \A x \in Clusters : x # op.cl => data'[x] = data[x]
        /\ data'[op.cl] = <<op.buf, op.part>>
    BY PartWritten
  <2>3. op.parent \in Clusters /\ op.entry.cl \in Clusters /\ op.part \in Nat
    BY <1>1, Numbers DEF Calls, OfItsEntry
  <2>4. OfItsEntry'
    <3>1. dirs'[op.parent] = dirs[op.parent]
      BY <1>1, <2>2, <2>3 DEF OfItsEntry
    <3>2. ~Holds(dirs'[op.entry.cl])
      BY <1>1, <2>2, <2>3 DEF OfItsEntry, Holds
    <3>3. ASSUME NEW d \in Clusters, NEW r \in ScanRows,
                 Created(dirs'[d][r]), dirs'[d][r].cl = op.entry.cl
          PROVE  d = op.parent /\ r = op.row
      <4>1. r \in Rows /\ dirs'[d][r].used
        BY <3>3, RowNumbers DEF Created
      <4>2. dirs'[d] = dirs[d]
        BY <2>2, <4>1
      <4> QED
        BY <1>1, <3>3, <4>2 DEF OfItsEntry
    <3> QED
      BY <1>1, <2>1, <2>2, <3>1, <3>2, <3>3 DEF OfItsEntry
  <2> DEFINE c == op.cl
             n == diskFat[op.cl]
             S == Chain(diskFat, op.entry.cl)
  <2>5. /\ Chain(diskFat, c) = {c} \union Chain(diskFat, n) /\ c \notin Chain(diskFat, n)
        /\ Cardinality(Chain(diskFat, n)) = Cardinality(Chain(diskFat, c)) - 1 /\ n \in Clusters
    BY <1>1, <1>3, ChainStep, Numbers
  <2>6. /\ c \in S /\ Cardinality(S) = Needed /\ Cardinality(Chain(diskFat, c)) = Needed - op.part
        /\ \A x \in S \ Chain(diskFat, c) :
             data[x] = <<op.buf, Needed - Cardinality(Chain(diskFat, x))>>
    BY <1>1 DEF PartsWritten
  <2>7. S \in SUBSET Clusters /\ n \in S /\ Needed \in Nat
    BY <2>3, <2>5, <2>6, ChainLeast, ChainClosed, ChainFinite
  <2>8. Cardinality(Chain(diskFat, n)) = Needed - (op.part + 1)
    BY <2>3, <2>5, <2>6, <2>7
  <2>9. ASSUME NEW x \in S \ Chain(diskFat, n)
        PROVE  data'[x] = <<op.buf, Needed - Cardinality(Chain(diskFat, x))>>
    <3>1. CASE x = c
      <4>1. Needed - Cardinality(Chain(diskFat, c)) = op.part
        BY <2>3, <2>6, <2>7
      <4> QED
        BY <2>2, <3>1, <4>1
    <3>2. CASE x # c
      BY <2>2, <2>5, <2>6, <2>7, <3>2
    <3> QED
      BY <3>1, <3>2
  <2>10. Needed' = Needed
    BY <2>1 DEF Needed
  <2>11. PartsWritten'
    BY <2>1, <2>2, <2>6, <2>7, <2>8, <2>9, <2>10 DEF PartsWritten
  <2> QED
    BY <2>1, <2>4, <2>11 DEF Measured, Filling
<1> QED
  BY <1>2, <1>3

\* The steps that start no write of a file and end in none.
LEMMA OtherSteps ==
  ASSUME \/ BootSigned \/ BootEmpty \/ FormatFat \/ FormatRoot \/ PowerLoss
         \/ FolderParent \/ FolderTable \/ DeleteFileFat \/ DeleteFolderTable
         \/ DeleteFolderFat
         \/ \E p, n :
              \/ ReadDirectory(p, n) \/ Read(p, n) \/ Delete(p, n) \/ WriteRefused(p, n)
              \/ WriteFolder(p, n)
              \/ \E size : WriteWild(p, n, size) \/ WriteNoSpace(p, n, size),
         DiskInv
  PROVE  op'.pc \notin {"wf_parent", "wf_data"}
<1> USE StepPc DEF Reply, Return
<1>1. CASE BootSigned \/ BootEmpty \/ FormatFat \/ FormatRoot \/ PowerLoss
  BY <1>1 DEF BootSigned, BootEmpty, FormatFat, FormatRoot, PowerLoss
<1>2. CASE FolderTable \/ DeleteFileFat \/ DeleteFolderFat
  BY <1>2 DEF FolderTable, DeleteFileFat, DeleteFolderFat
<1>3. CASE FolderParent
  BY <1>3 DEF FolderParent, DiskInv, TypeOK
<1>4. CASE DeleteFolderTable
  BY <1>4 DEF DeleteFolderTable, Step
<1>5. ASSUME NEW p, NEW n,
             ReadDirectory(p, n) \/ Read(p, n) \/ WriteRefused(p, n)
             \/ \E size : WriteWild(p, n, size) \/ WriteNoSpace(p, n, size)
      PROVE  op'.pc \in {"idle", "wild"}
  BY <1>5 DEF ReadDirectory, Read, ReadFails, ReadCopies, WriteRefused, WriteWild, WriteNoSpace
<1>6. ASSUME NEW p, NEW n, Delete(p, n) \/ WriteFolder(p, n)
      PROVE  op'.pc \in {"idle", "df_fat", "dd_table", "mk_parent"}
  BY <1>6 DEF Delete, DeleteRefused, DeleteFile, DeleteFolder, WriteFolder, Step
<1> QED
  BY <1>1, <1>2, <1>3, <1>4, <1>5, <1>6

\* What the invariant says of the file in flight survives a step that leaves
\* the variables it reads alone.
LEMMA CountKept ==
  ASSUME Measured, Filling, UNCHANGED <<diskFat, dirs, data, op>>
  PROVE  Measured' /\ Filling'
  BY DEF Measured, Filling, OfItsEntry, PartsWritten, Needed

\* With plain files: the invariant of the driver on its own.
CInv == IInv /\ CountInv

LEMMA StepCounted == CInv /\ [Next]_vars => CInv'
<1> SUFFICES ASSUME CInv, [Next]_vars PROVE Known' => Measured' /\ Filling'
  BY StepSound DEF CInv, CountInv, IInv
<1>1. IInv /\ DiskInv /\ CountInv
  BY DEF CInv, CountInv
<1>2. CASE UNCHANGED vars
  <2>1. Known' => Known
    BY <1>2 DEF vars, Known, Defined, Stuck
  <2> QED
    BY <1>1, <1>2, <2>1, CountKept DEF vars, CountInv
<1>3. CASE Next
  <2>1. CASE \/ BootSigned \/ BootEmpty \/ FormatFat \/ FormatRoot \/ PowerLoss
             \/ FolderParent \/ FolderTable \/ DeleteFileFat \/ DeleteFolderTable
             \/ DeleteFolderFat
    BY <1>1, <2>1, OtherSteps, Elsewhere
  <2>2. ASSUME NEW p \in ReqParents, NEW n \in ReqNames,
               ReadDirectory(p, n) \/ Read(p, n) \/ Write(p, n) \/ Delete(p, n)
        PROVE  Measured' /\ Filling'
    <3>1. CASE \/ ReadDirectory(p, n) \/ Read(p, n) \/ Delete(p, n) \/ WriteRefused(p, n)
               \/ WriteFolder(p, n)
               \/ \E size : WriteWild(p, n, size) \/ WriteNoSpace(p, n, size)
      BY <1>1, <3>1, OtherSteps, Elsewhere
    <3>2. ASSUME NEW size \in Sizes, NEW b \in Bufs, WriteFile(p, n, size, b)
          PROVE  Measured' /\ Filling'
      <4>1. size \in Nat
        BY RequestAssumption
      <4> QED
        BY <1>1, <3>2, <4>1, WriteFileCounted
    <3> QED
      BY <2>2, <3>1, <3>2 DEF Write
  <2>3. CASE FileParent
    BY <1>1, <2>3, FileParentCounted
  <2>4. CASE FileData
    BY <1>1, <2>4, FileDataCounted
  <2> QED
    BY <1>2, <1>3, <2>1, <2>2, <2>3, <2>4 DEF Next, Undefined
<1> QED
  BY <1>2, <1>3

THEOREM CountedInvariance == PlainFiles /\ Spec => []CInv
<1>1. PlainFiles /\ Init => CInv
  <2> SUFFICES ASSUME PlainFiles, Init PROVE CInv
    OBVIOUS
  <2>1. op.pc = "off"
    BY StepPc DEF Init
  <2>2. DiskInv
    BY InitSound, PlainNames
  <2> QED
    BY <2>1, <2>2 DEF CInv, CountInv, IInv, Stuck, Measured, Filling
<1>2. CInv /\ [Next]_vars => CInv'
  BY StepCounted
<1> QED
  BY <1>1, <1>2, PTL DEF Spec

-----------------------------------------------------------------------------
(* What a step does to the entries *)

\* The formula of EntriesKept for one entry.
RowKept(x) == At(x)' = At(x) \/ (op'.pc \in {"df_fat", "dd_table"} /\ op'.cl = Target(x))

LEMMA EntryFacts ==
  ASSUME DiskInv, NEW x \in CreatedRows
  PROVE  /\ x[1] \in Clusters /\ x[2] \in ScanRows /\ x[2] \in Rows /\ x[2] # 0
         /\ At(x) = dirs[x[1]][x[2]] /\ At(x)' = dirs'[x[1]][x[2]]
         /\ At(x) \in Entry /\ At(x).used /\ Created(At(x)) /\ Holds(dirs[x[1]])
         /\ dirs \in [Clusters -> Table]
<1>1. /\ x[1] \in Clusters /\ x[2] \in ScanRows /\ x[2] \in Rows /\ x[2] # 0
      /\ At(x) = dirs[x[1]][x[2]] /\ At(x)' = dirs'[x[1]][x[2]] /\ Created(At(x))
      /\ dirs \in [Clusters -> Table]
  BY RowNumbers DEF CreatedRows, At, DiskInv, TypeOK
<1> QED
  BY <1>1 DEF Created, Holds, Table

\* The write of the parent's table marks a row that is in use already, and
\* puts the new entry into a row that is not.
LEMMA ParentKeepsRows ==
  ASSUME DiskInv, FolderParent \/ FileParent, NEW x \in CreatedRows
  PROVE  At(x)' = At(x)
<1>1. /\ WritesParent /\ op \in Calls /\ dirs \in [Clusters -> Table]
      /\ dirs' = [dirs EXCEPT ![op.parent] = [op.table EXCEPT ![op.row] = op.entry]]
  BY DEF FolderParent, FileParent, DiskInv, Known, Defined, Stuck, CallSound, TypeOK, Calls
<1>2. /\ x[1] \in Clusters /\ x[2] \in Rows /\ x[2] # 0 /\ At(x) = dirs[x[1]][x[2]]
      /\ At(x)' = dirs'[x[1]][x[2]] /\ At(x) \in Entry /\ At(x).used
  BY <1>1, EntryFacts
<1>3. CASE x[1] # op.parent
  BY <1>1, <1>2, <1>3
<1>4. CASE x[1] = op.parent
  <2>1. x[2] # op.row
    BY <1>1, <1>2, <1>4, EntryRowUnused DEF WritesParent
  <2>2. op.table = MarkRow(dirs[op.parent], op.parent) /\ op.table \in Table
        /\ op.row \in Rows /\ op.parent \in Clusters /\ dirs[op.parent] \in [Rows -> Entry]
    BY <1>1, RowNumbers DEF WritesParent, Calls, Table
  <2>3. At(x)' = op.table[x[2]]
    BY <1>1, <1>2, <1>4, <2>1, <2>2 DEF Table
  <2>4. op.table[x[2]] = At(x)
    <3>1. CASE op.parent \notin Rows \/ x[2] # op.parent
      BY <1>2, <1>4, <2>2, <3>1 DEF MarkRow
    <3>2. CASE op.parent \in Rows /\ x[2] = op.parent
      <4>1. op.table[x[2]] = [At(x) EXCEPT !.used = TRUE]
        BY <1>2, <1>4, <2>2, <3>2 DEF MarkRow
      <4>2. At(x).used = TRUE
        BY <1>2 DEF Entry
      <4> QED
        BY <1>2, <4>1, <4>2 DEF Entry
    <3> QED
      BY <3>1, <3>2
  <2> QED
    BY <2>3, <2>4
<1> QED
  BY <1>3, <1>4

\* The tables of a folder in creation or deletion change in row 0 alone.
LEMMA OwnRowOnly ==
  ASSUME DiskInv, FolderTable \/ DeleteFolderTable, NEW x \in CreatedRows
  PROVE  At(x)' = At(x)
<1>1. TableOfCall /\ op \in Calls /\ dirs \in [Clusters -> Table]
  BY DEF FolderTable, DeleteFolderTable, DiskInv, Known, Defined, Stuck, CallSound, TypeOK, Calls
<1>2. /\ x[1] \in Clusters /\ x[2] \in Rows /\ x[2] # 0 /\ At(x) = dirs[x[1]][x[2]]
      /\ At(x)' = dirs'[x[1]][x[2]]
  BY <1>1, EntryFacts
<1>3. PICK T : /\ dirs' = [dirs EXCEPT ![op.cl] = T]
               /\ \A r \in Rows : r # 0 => T[r] = op.table[r]
  <2>1. op.table \in [Rows -> Entry] /\ 0 \in Rows
    BY <1>1, RowNumbers DEF Calls, Table
  <2>2. CASE FolderTable
    BY <2>1, <2>2 DEF FolderTable
  <2>3. CASE DeleteFolderTable
    <3>1. \A r \in Rows : r # 0 => ClearRow(op.table, 0)[r] = op.table[r]
      BY <2>1 DEF ClearRow
    <3> QED
      BY <2>3, <3>1 DEF DeleteFolderTable
  <2> QED
    BY <2>2, <2>3
<1> QED
  BY <1>1, <1>2, <1>3 DEF TableOfCall

LEMMA FileDataKeepsRows ==
  ASSUME CountInv, FileData, NEW x \in CreatedRows
  PROVE  At(x)' = At(x)
<1>1. /\ x[1] \in Clusters /\ At(x) = dirs[x[1]][x[2]] /\ At(x)' = dirs'[x[1]][x[2]]
      /\ Holds(dirs[x[1]])
  BY EntryFacts DEF CountInv
<1> QED
  BY <1>1, PartWritten

\* delete clears the row of the entry whose chain it goes on to release.
LEMMA DeleteKeepsRows ==
  ASSUME DiskInv, NEW p \in Clusters, NEW n, Delete(p, n), dirs' # dirs,
         NEW x \in CreatedRows
  PROVE  RowKept(x)
<1>2. /\ x[1] \in Clusters /\ x[2] \in Rows /\ At(x) = dirs[x[1]][x[2]]
      /\ At(x)' = dirs'[x[1]][x[2]] /\ dirs \in [Clusters -> Table]
  BY EntryFacts
<1>3. PICK r : r = Min(DeleteHits(dirs[p], n))
  OBVIOUS
<1>4. /\ dirs' = [dirs EXCEPT ![p] = ClearRow(dirs[p], r)]
      /\ op'.pc \in {"df_fat", "dd_table"} /\ op'.cl = dirs[p][r].cl
      /\ DeleteHits(dirs[p], n) # {}
  <2>1. ~DeleteRefused(p, n)
    BY DEF DeleteRefused, Reply
  <2> QED
    BY <1>3, <2>1 DEF Delete, DeleteFile, DeleteFolder, Step
<1>5. r \in Rows
  BY <1>3, <1>4, HitRow, RowNumbers
<1>6. CASE x[1] = p /\ x[2] = r
  BY <1>2, <1>4, <1>6 DEF RowKept, Target
<1>7. CASE x[1] # p
  BY <1>2, <1>4, <1>7 DEF RowKept
<1>8. CASE x[1] = p /\ x[2] # r
  <2>1. ClearRow(dirs[p], r)[x[2]] = dirs[p][x[2]]
    BY <1>2, <1>5, <1>8 DEF ClearRow, Table
  <2> QED
    BY <1>2, <1>4, <1>8, <2>1 DEF RowKept
<1> QED
  BY <1>6, <1>7, <1>8

\* A row that holds what a caller created changes in one way only: delete
\* clears it, and the chain it then releases is the one the row named.
\* write puts the new entry into an unused row, and the rows and contents it
\* writes elsewhere touch no entry.
THEOREM RowsKept == PlainFiles /\ Spec => EntriesKept
<1>1. CInv /\ [Next]_vars => [dirs' # dirs => \A x \in Entries : RowKept(x)]_vars
  <2> SUFFICES ASSUME CInv, Next, dirs' # dirs, NEW x \in Entries PROVE RowKept(x)
    OBVIOUS
  <2>0. DiskInv /\ CountInv /\ x \in CreatedRows
    BY EntriesCreated DEF CInv, CountInv, IInv
  <2>1. CASE BootSigned \/ BootEmpty \/ FormatFat \/ PowerLoss \/ Undefined
             \/ DeleteFileFat \/ DeleteFolderFat
    BY <2>1 DEF BootSigned, BootEmpty, FormatFat, PowerLoss, Undefined, DeleteFileFat,
                DeleteFolderFat, vars
  <2>2. CASE FormatRoot
    <3>1. Blank
      BY <2>0, <2>2 DEF FormatRoot, DiskInv, Known, Defined, Stuck, CallSound
    <3>2. Holds(dirs[x[1]]) /\ x[1] \in Clusters
      BY <2>0, EntryFacts
    <3> QED
      BY <3>1, <3>2 DEF Blank
  <2>3. CASE FolderParent \/ FileParent \/ FolderTable \/ DeleteFolderTable \/ FileData
    BY <2>0, <2>3, ParentKeepsRows, OwnRowOnly, FileDataKeepsRows DEF RowKept
  <2>4. ASSUME NEW p \in ReqParents, NEW n \in ReqNames,
               ReadDirectory(p, n) \/ Read(p, n) \/ Write(p, n)
        PROVE  dirs' = dirs
    BY <2>4 DEF ReadDirectory, Read, ReadFails, ReadCopies, Write, WriteRefused, WriteFolder,
                WriteWild, WriteNoSpace, WriteFile, Reply
  <2> QED
    BY <2>0, <2>1, <2>2, <2>3, <2>4, Parents, DeleteKeepsRows DEF Next
<1>2. [dirs' # dirs => \A x \in Entries : RowKept(x)]_vars
      <=> [dirs' # dirs => \A x \in Entries :
             \/ At(x)' = At(x)
             \/ op'.pc \in {"df_fat", "dd_table"} /\ op'.cl = Target(x)]_vars
  BY DEF RowKept
<1> QED
  BY <1>1, <1>2, CountedInvariance, PTL DEF Spec, EntriesKept

-----------------------------------------------------------------------------
(* What a step does to the contents of the files *)

\* The files a step must leave alone.
IsFile(x) == At(x).attr # ATTR_SUBDIRECTORY
InFlight(x) == op.pc = "wf_data" /\ x = <<op.parent, op.row>>

\* No word and no byte of the chain from c changes.
Alike(c) == \A y \in Chain(diskFat, c) : diskFat'[y] = diskFat[y] /\ data'[y] = data[y]

\* The chain of a file: it starts at its entry's cluster, which is no table.
LEMMA FileChain ==
  ASSUME DiskInv, Known, NEW x \in CreatedRows, IsFile(x)
  PROVE  /\ diskFat \in Fat /\ Links(diskFat) /\ DOMAIN data = Clusters
         /\ Target(x) \in DataClusters /\ Target(x) \in Clusters
         /\ diskFat[Target(x)] # EMPTY /\ Leads(diskFat, Target(x)) /\ ~Holds(dirs[Target(x)])
         /\ Chain(diskFat, Target(x)) \in SUBSET Clusters
         /\ \A y \in Chain(diskFat, Target(x)) : diskFat[y] # EMPTY
<1>1. Owns(diskFat, dirs, At(x))
  BY RowOwns
<1>2. /\ diskFat \in Fat /\ Links(diskFat) /\ DOMAIN data = Clusters
      /\ Target(x) \in DataClusters /\ Target(x) \in Clusters
      /\ diskFat[Target(x)] # EMPTY /\ Leads(diskFat, Target(x)) /\ ~Holds(dirs[Target(x)])
  BY <1>1, Numbers DEF DiskInv, Known, TypeOK, Fat, Owns, Target, IsFile
<1> QED
  BY <1>2, ChainLeast, ChainInUse

\* A disk write to a cluster that starts another chain.
LEMMA HeadWritten ==
  ASSUME DiskInv, Known, NEW x \in CreatedRows, IsFile(x),
         NEW h \in Clusters, Leads(diskFat, h), h # Target(x), NEW v,
         diskFat' = diskFat, data' = [data EXCEPT ![h] = v]
  PROVE  Alike(Target(x))
<1>1. /\ diskFat \in Fat /\ Links(diskFat) /\ DOMAIN data = Clusters
      /\ Target(x) \in DataClusters /\ diskFat[Target(x)] # EMPTY
      /\ Chain(diskFat, Target(x)) \in SUBSET Clusters
  BY FileChain
<1>2. h \notin Chain(diskFat, Target(x))
  BY <1>1, HeadAlone
<1> QED
  BY <1>1, <1>2 DEF Alike

\* A disk write to a directory table.
LEMMA TableRewritten ==
  ASSUME DiskInv, Known, NEW x \in CreatedRows, IsFile(x), NEW d \in Clusters, Holds(dirs[d]), NEW v,
         diskFat' = diskFat, data' = [data EXCEPT ![d] = v]
  PROVE  Alike(Target(x))
<1>1. Leads(diskFat, d) /\ d # Target(x)
  BY FileChain DEF DiskInv, Sound, TablesOwned
<1> QED
  BY <1>1, HeadWritten

\* Words taken from the empty ones.
LEMMA WordsTaken ==
  ASSUME DiskInv, Known, NEW x \in CreatedRows, IsFile(x),
         \A y \in Clusters : diskFat[y] # EMPTY => diskFat'[y] = diskFat[y], data' = data
  PROVE  Alike(Target(x))
  BY FileChain DEF Alike

\* The release of a chain that nothing on disk refers to.
LEMMA ChainReleased ==
  ASSUME DiskInv, Known, NEW x \in CreatedRows, IsFile(x),
         Fresh(diskFat, dirs, op.cl), diskFat' = Release(diskFat, op.cl), data' = data
  PROVE  Alike(Target(x))
<1>1. /\ diskFat \in Fat /\ Links(diskFat)
      /\ Target(x) \in DataClusters /\ diskFat[Target(x)] # EMPTY /\ Leads(diskFat, Target(x))
      /\ Chain(diskFat, Target(x)) \in SUBSET Clusters
  BY FileChain
<1>2. op.cl # Target(x)
  BY EntryFacts DEF Fresh, Untargeted, Target
<1>3. Chain(diskFat, op.cl) \cap Chain(diskFat, Target(x)) = {}
  BY <1>1, <1>2, ChainsDisjoint DEF Fresh
<1> QED
  BY <1>1, <1>3 DEF Release, Alike

LEMMA WriteTakesWords ==
  ASSUME DiskInv, NEW p, NEW n,
         \/ WriteRefused(p, n) \/ WriteFolder(p, n)
         \/ \E size : WriteWild(p, n, size) \/ WriteNoSpace(p, n, size)
         \/ \E size, b : WriteFile(p, n, size, b)
  PROVE  /\ \A y \in Clusters : diskFat[y] # EMPTY => diskFat'[y] = diskFat[y]
         /\ data' = data /\ dirs' = dirs
<1>1. CASE WriteRefused(p, n)
  BY <1>1 DEF WriteRefused, Reply
<1>2. ASSUME NEW size, WriteWild(p, n, size) \/ WriteNoSpace(p, n, size)
      PROVE  diskFat' = diskFat /\ data' = data /\ dirs' = dirs
  BY <1>2 DEF WriteWild, WriteNoSpace, Reply
<1>3. CASE WriteFolder(p, n)
  <2>1. diskFat \in Fat
    BY <1>3, IdleFacts DEF WriteFolder, Writable
  <2>2. Min(Free(diskFat)) \in Free(diskFat)
    BY <1>3, FreeNumbers, MinProperty DEF WriteFolder
  <2>3. diskFat[Min(Free(diskFat))] = EMPTY
    BY <2>2 DEF Free
  <2>4. diskFat' = [diskFat EXCEPT ![Min(Free(diskFat))] = EOF] /\ data' = data /\ dirs' = dirs
    BY <1>3 DEF WriteFolder
  <2> QED
    BY <2>1, <2>3, <2>4 DEF Fat
<1>4. ASSUME NEW size, NEW b, WriteFile(p, n, size, b)
      PROVE  /\ \A y \in Clusters : diskFat[y] # EMPTY => diskFat'[y] = diskFat[y]
             /\ data' = data /\ dirs' = dirs
  <2>1. PICK A : A = FirstFree(diskFat, divceil(size, CLUSTER_SIZE))
    OBVIOUS
  <2>2. diskFat' = LinkUp(diskFat, A, EOF) /\ data' = data /\ dirs' = dirs
    BY <1>4, <2>1 DEF WriteFile
  <2>3. \A y \in A : diskFat[y] = EMPTY
    BY <2>1 DEF FirstFree, Free
  <2> QED
    BY <2>2, <2>3 DEF LinkUp
<1> QED
  BY <1>1, <1>2, <1>3, <1>4

\* The disk writes of a folder's own table.
LEMMA OwnTableWritten ==
  ASSUME DiskInv, FolderTable \/ DeleteFolderTable, NEW x \in CreatedRows, IsFile(x)
  PROVE  Alike(Target(x))
<1>1. Known /\ TableOfCall /\ CallSound
  BY DEF FolderTable, DeleteFolderTable, DiskInv, Known, Defined, Stuck, CallSound
<1>2. x[1] \in Clusters /\ x[2] \in ScanRows /\ At(x) = dirs[x[1]][x[2]] /\ Created(At(x))
  BY EntryFacts
<1>3. op.cl # Target(x)
  <2>1. CASE FolderTable
    <3>1. \A d \in Clusters, r \in ScanRows :
            Created(dirs[d][r]) /\ dirs[d][r].cl = op.cl => dirs[d][r].attr = ATTR_SUBDIRECTORY
      BY <2>1, <1>1 DEF FolderTable, CallSound
    <3> QED
      BY <1>2, <3>1 DEF Target, IsFile
  <2>2. CASE DeleteFolderTable
    <3>1. Untargeted(dirs, op.cl)
      BY <2>2, <1>1 DEF DeleteFolderTable, CallSound
    <3> QED
      BY <1>2, <3>1 DEF Target, Untargeted
  <2> QED
    BY <2>1, <2>2
<1>4. op.cl \in Clusters /\ Leads(diskFat, op.cl)
  BY <1>1, Numbers DEF TableOfCall
<1>5. diskFat' = diskFat /\ \E v : data' = [data EXCEPT ![op.cl] = v]
  BY DEF FolderTable, DeleteFolderTable
<1> QED
  BY <1>1, <1>3, <1>4, <1>5, HeadWritten

\* The disk writes of the clusters of another file.
LEMMA OtherFileWritten ==
  ASSUME CountInv, FileData, NEW x \in CreatedRows, IsFile(x), ~InFlight(x)
  PROVE  Alike(Target(x))
<1>1. DiskInv /\ op.pc = "wf_data" /\ Known
  BY NoTableInFile DEF CountInv, FileData
<1>2. /\ x \in Clusters \X ScanRows /\ At(x) = dirs[x[1]][x[2]] /\ Created(At(x))
  BY <1>1, EntryFacts DEF CreatedRows
<1>3. OfItsEntry /\ PartsWritten
  BY <1>1, NoTableInFile
<1>4. Target(x) # op.entry.cl
  BY <1>1, <1>2, <1>3 DEF OfItsEntry, InFlight, Target
<1>5. /\ diskFat \in Fat /\ Links(diskFat)
      /\ Target(x) \in DataClusters /\ diskFat[Target(x)] # EMPTY /\ Leads(diskFat, Target(x))
      /\ Chain(diskFat, Target(x)) \in SUBSET Clusters
  BY <1>1, FileChain
<1>6. Chain(diskFat, op.entry.cl) \cap Chain(diskFat, Target(x)) = {}
  BY <1>3, <1>4, <1>5, ChainsDisjoint DEF OfItsEntry
<1>7. op.cl \notin Chain(diskFat, Target(x))
  BY <1>3, <1>6 DEF PartsWritten
<1> QED
  BY <1>5, <1>7, PartWritten DEF Alike

\* The disk writes of delete.
LEMMA DeleteLeavesFiles ==
  ASSUME DiskInv, NEW p \in Clusters, NEW n, Delete(p, n), NEW x \in CreatedRows, IsFile(x)
  PROVE  (diskFat' = diskFat /\ data' = data) \/ Alike(Target(x))
<1>1. Known
  BY IdleFacts DEF Delete, DeleteRefused, DeleteFile, DeleteFolder
<1>2. CASE DeleteRefused(p, n)
  BY <1>2 DEF DeleteRefused, Reply
<1>3. CASE DeleteFile(p, n) \/ DeleteFolder(p, n)
  <2>1. Holds(dirs[p])
    BY <1>3, RowNumbers DEF DeleteFile, DeleteFolder, IsFolder, Holds
  <2>2. diskFat' = diskFat /\ \E v : data' = [data EXCEPT ![p] = v]
    BY <1>3 DEF DeleteFile, DeleteFolder
  <2> QED
    BY <1>1, <2>1, <2>2, TableRewritten
<1> QED
  BY <1>2, <1>3 DEF Delete

\* The disk writes of a call that goes on.
LEMMA GoingOnAlike ==
  ASSUME CountInv, NEW x \in CreatedRows, IsFile(x), ~InFlight(x),
         \/ FolderParent \/ FolderTable \/ FileParent \/ FileData
         \/ DeleteFileFat \/ DeleteFolderTable \/ DeleteFolderFat
  PROVE  (diskFat' = diskFat /\ data' = data) \/ Alike(Target(x))
<1>0. DiskInv
  BY DEF CountInv
<1>1. CASE FolderParent \/ FileParent
  <2>1. Known /\ WritesParent /\ op.parent \in Clusters
    BY <1>0, <1>1 DEF FolderParent, FileParent, DiskInv, Known, Defined, Stuck, CallSound, TypeOK
  <2>2. diskFat' = diskFat /\ data' = [data EXCEPT ![op.parent] = Raw]
    BY <1>1 DEF FolderParent, FileParent
  <2> QED
    BY <1>0, <2>1, <2>2, TableRewritten DEF WritesParent
<1>2. CASE FolderTable \/ DeleteFolderTable
  BY <1>0, <1>2, OwnTableWritten
<1>3. CASE FileData
  BY <1>3, OtherFileWritten
<1>4. CASE DeleteFileFat
  <2>1. CASE op.cl \in Clusters /\ Ends(fat, op.cl)
    <3>1. Defined /\ fat = diskFat /\ Links(diskFat)
      BY <1>0, <1>4 DEF DeleteFileFat, DiskInv, Defined, CacheCoherent
    <3>2. ~Stuck
      BY <2>1, <3>1, NoChainAtZero DEF Stuck
    <3>3. Known /\ Fresh(diskFat, dirs, op.cl)
      BY <1>0, <1>4, <2>1, <3>1, <3>2 DEF DeleteFileFat, DiskInv, Known, CallSound, ReleasesChain
    <3>4. data' = data /\ diskFat' = Release(diskFat, op.cl)
      BY <1>4, <2>1, <3>1 DEF DeleteFileFat
    <3> QED
      BY <1>0, <3>3, <3>4, ChainReleased
  <2>2. CASE ~(op.cl \in Clusters /\ Ends(fat, op.cl))
    BY <1>4, <2>2 DEF DeleteFileFat
  <2> QED
    BY <2>1, <2>2
<1>5. CASE DeleteFolderFat
  <2>1. /\ Known /\ Fresh(diskFat, dirs, op.cl) /\ fat = diskFat /\ diskFat[op.cl] = EOF
        /\ diskFat \in Fat
    BY <1>0, <1>5 DEF DeleteFolderFat, DiskInv, Known, Defined, Stuck, CallSound, CacheCoherent,
                      TypeOK, Fat
  <2>2. op.cl \in Clusters
    BY <2>1, Numbers DEF Fresh
  <2>3. data' = data /\ diskFat' = Release(diskFat, op.cl)
    BY <1>5, <2>1, <2>2, OneCluster DEF DeleteFolderFat
  <2> QED
    BY <1>0, <2>1, <2>3, ChainReleased
<1> QED
  BY <1>1, <1>2, <1>3, <1>4, <1>5

LEMMA FilesAlike ==
  ASSUME CInv, Next, NEW x \in Entries, IsFile(x), ~InFlight(x)
  PROVE  (diskFat' = diskFat /\ data' = data) \/ Alike(Target(x))
<1>0. DiskInv /\ CountInv /\ x \in CreatedRows
  BY EntriesCreated DEF CInv, CountInv, IInv
<1>1. CASE BootSigned \/ BootEmpty \/ FormatRoot \/ PowerLoss \/ Undefined
  BY <1>1 DEF BootSigned, BootEmpty, FormatRoot, PowerLoss, Undefined, vars
<1>2. CASE FormatFat
  <2>1. Blank
    BY <1>0, <1>2 DEF FormatFat, DiskInv, Known, Defined, Stuck, CallSound
  <2>2. Holds(dirs[x[1]]) /\ x[1] \in Clusters
    BY <1>0, EntryFacts
  <2> QED
    BY <2>1, <2>2 DEF Blank
<1>3. ASSUME NEW p \in ReqParents, NEW n \in ReqNames,
             ReadDirectory(p, n) \/ Read(p, n) \/ Write(p, n) \/ Delete(p, n)
      PROVE  (diskFat' = diskFat /\ data' = data) \/ Alike(Target(x))
  <2>1. CASE ReadDirectory(p, n) \/ Read(p, n)
    BY <2>1 DEF ReadDirectory, Read, ReadFails, ReadCopies, Reply
  <2>2. CASE Write(p, n)
    <3>1. Known
      BY <1>0, <2>2, IdleFacts DEF Write, WriteRefused, WriteFolder, WriteWild, WriteNoSpace,
                                   WriteFile, Writable
    <3>2. \/ WriteRefused(p, n) \/ WriteFolder(p, n)
          \/ \E size : WriteWild(p, n, size) \/ WriteNoSpace(p, n, size)
          \/ \E size, b : WriteFile(p, n, size, b)
      BY <2>2 DEF Write
    <3> QED
      BY <1>0, <3>1, <3>2, WriteTakesWords, WordsTaken
  <2>3. CASE Delete(p, n)
    BY <1>0, <2>3, Parents, DeleteLeavesFiles
  <2> QED
    BY <1>3, <2>1, <2>2, <2>3
<1> QED
  BY <1>0, <1>1, <1>2, <1>3, GoingOnAlike DEF Next

LEMMA WildStays == Next /\ op.pc = "wild" => UNCHANGED vars
<1>1. ASSUME NEW p, NEW n, ReadDirectory(p, n) \/ Read(p, n) \/ Write(p, n) \/ Delete(p, n)
      PROVE  Idle
  <2>1. CASE ReadDirectory(p, n) \/ Read(p, n)
    BY <2>1 DEF ReadDirectory, Read, ReadFails, ReadCopies
  <2>2. CASE Write(p, n)
    BY <2>2 DEF Write, WriteRefused, WriteFolder, WriteWild, WriteNoSpace, WriteFile, Writable
  <2>3. CASE Delete(p, n)
    BY <2>3 DEF Delete, DeleteRefused, DeleteFile, DeleteFolder
  <2> QED
    BY <1>1, <2>1, <2>2, <2>3
<1>2. ASSUME \/ BootSigned \/ BootEmpty \/ FormatFat \/ FormatRoot \/ PowerLoss
             \/ FolderParent \/ FolderTable \/ FileParent \/ FileData
             \/ DeleteFileFat \/ DeleteFolderTable \/ DeleteFolderFat
      PROVE  op.pc # "wild"
  BY <1>2 DEF BootSigned, BootEmpty, FormatFat, FormatRoot, PowerLoss, FolderParent, FolderTable,
              FileParent, FileData, DeleteFileFat, DeleteFolderTable, DeleteFolderFat
<1>3. Idle => op.pc # "wild"
  BY DEF Idle
<1> QED
  BY <1>1, <1>2, <1>3 DEF Next, Undefined

\* The formula of FilesUntouched for one entry.
Untouched(x) ==
  At(x)' = At(x) /\ At(x).attr # ATTR_SUBDIRECTORY
    /\ ~(op.pc = "wf_data" /\ x = <<op.parent, op.row>>)
  => Contents(diskFat, data, Target(x))' = Contents(diskFat, data, Target(x))

\* No step of any call changes what a read of another file returns: neither
\* the allocation, nor the writes of tables, nor the release of a chain, nor
\* the clusters of the file that write is filling.
THEOREM ContentsUntouched == PlainFiles /\ Spec => FilesUntouched
<1>1. CInv /\ [Next]_vars =>
        [diskFat' # diskFat \/ data' # data => \A x \in Entries : Untouched(x)]_vars
  <2> SUFFICES ASSUME CInv, Next, diskFat' # diskFat \/ data' # data, NEW x \in Entries,
                      At(x)' = At(x), IsFile(x), ~InFlight(x)
               PROVE  Contents(diskFat', data', Target(x)') = Contents(diskFat, data, Target(x))
    BY DEF Untouched, IsFile, InFlight
  <2>1. Alike(Target(x))
    BY FilesAlike
  <2>2. DiskInv /\ Known /\ x \in CreatedRows
    <3>1. op.pc # "wild"
      BY WildStays DEF vars
    <3> QED
      BY <3>1, EntriesCreated DEF CInv, IInv, Known, Defined
  <2>3. /\ diskFat \in Fat /\ Links(diskFat)
        /\ Target(x) \in DataClusters /\ diskFat[Target(x)] # EMPTY
    BY <2>2, FileChain
  <2>4. Target(x)' = Target(x)
    BY DEF Target
  <2> QED
    BY <2>1, <2>3, <2>4, ContentsKept DEF Alike
<1>2. [diskFat' # diskFat \/ data' # data => \A x \in Entries : Untouched(x)]_vars
      <=> [diskFat' # diskFat \/ data' # data =>
             \A x \in Entries :
               At(x)' = At(x) /\ At(x).attr # ATTR_SUBDIRECTORY
                 /\ ~(op.pc = "wf_data" /\ x = <<op.parent, op.row>>)
               => Contents(diskFat, data, Target(x))' = Contents(diskFat, data, Target(x))]_vars
  BY DEF Untouched
<1> QED
  BY <1>1, <1>2, CountedInvariance, PTL DEF Spec, FilesUntouched

-----------------------------------------------------------------------------
(* What a finished write has stored *)

\* What a read of the entry of the file in flight would find after the step.
Stored == Contents(diskFat, data', dirs[op.parent][op.row].cl)
Asked ==
  [i \in 1 .. divceil(dirs[op.parent][op.row].size, CLUSTER_SIZE) |-> <<op.buf, i - 1>>]

\* The last disk write of a file.
LEMMA LastPart ==
  ASSUME CountInv, FileData, op'.pc = "idle" PROVE Stored = Asked
<1>1. /\ Links(diskFat) /\ diskFat \in Fat /\ fat = diskFat /\ OfItsEntry /\ PartsWritten
      /\ op.cl \in DataClusters /\ op.cl \in Clusters /\ diskFat[op.cl] # EMPTY /\ op \in Calls
  BY NoTableInFile DEF FileData
<1>2. diskFat[op.cl] = EOF
  BY <1>1 DEF FileData, Calls
<1>3. Chain(diskFat, op.cl) = {op.cl} /\ Cardinality(Chain(diskFat, op.cl)) = 1
  BY <1>1, <1>2, ChainLast
<1> DEFINE h == op.entry.cl
           S == Chain(diskFat, h)
<1>4. /\ h \in DataClusters /\ h \in Clusters /\ diskFat[h] # EMPTY /\ op.cl \in S
      /\ Cardinality(S) = Needed /\ 1 = Needed - op.part
      /\ \A x \in S \ {op.cl} : data[x] = <<op.buf, Needed - Cardinality(Chain(diskFat, x))>>
      /\ dirs[op.parent][op.row] = op.entry
  BY <1>1, <1>3, Numbers DEF OfItsEntry, PartsWritten
<1>5. Needed \in Nat /\ op.part \in Nat /\ S \in SUBSET Clusters
  BY <1>1, <1>4, ChainFinite, ChainLeast DEF Calls
<1>6. /\ \A x \in Clusters : x # op.cl => data'[x] = data[x]
      /\ data'[op.cl] = <<op.buf, op.part>>
  BY PartWritten
<1>7. ASSUME NEW i \in 1 .. Needed
      PROVE  data'[ChainAt(diskFat, h, i)] = <<op.buf, i - 1>>
  <2>1. PICK x : x = ChainAt(diskFat, h, i)
    OBVIOUS
  <2>2. x \in S /\ Cardinality(Chain(diskFat, x)) = Needed + 1 - i
    BY <1>1, <1>4, <2>1, ChainAtFound
  <2>3. CASE x = op.cl
    <3>1. op.part = i - 1
      <4>1. PICK k \in Nat : k = Needed
        BY <1>5
      <4>2. Cardinality(Chain(diskFat, op.cl)) = k + 1 - i
        BY <2>2, <2>3, <4>1
      <4>3. 1 = k + 1 - i /\ 1 = k - op.part /\ i \in Int
        BY <1>3, <1>4, <4>1, <4>2
      <4> HIDE DEF h, S
      <4> QED
        BY <1>5, <4>3
    <3> QED
      BY <1>6, <2>1, <2>3, <3>1
  <2>4. CASE x # op.cl
    <3>1. Needed - Cardinality(Chain(diskFat, x)) = i - 1
      BY <1>5, <2>2
    <3>2. data'[x] = data[x]
      BY <1>5, <1>6, <2>2, <2>4
    <3> QED
      BY <1>4, <2>1, <2>2, <2>4, <3>1, <3>2
  <2> QED
    BY <2>3, <2>4
<1>8. Stored = [i \in 1 .. Needed |-> data'[ChainAt(diskFat, h, i)]]
  BY <1>4 DEF Stored, Contents
<1>9. Asked = [i \in 1 .. Needed |-> <<op.buf, i - 1>>]
  BY <1>4 DEF Asked, Needed
<1> QED
  BY <1>7, <1>8, <1>9

\* A write that returns 0 for a file has stored all of the buffer, in order,
\* in a chain of as many clusters as its size needs: the last part goes to
\* the last cluster of the chain.
THEOREM WholeFileStored == PlainFiles /\ Spec => WriteComplete
<1>1. ASSUME CInv, Next, op.pc = "wf_data", op'.pc = "idle" PROVE Stored = Asked
  <2>1. FileData
    BY <1>1, StepPc DEF Next, BootSigned, BootEmpty, FormatFat, FormatRoot, PowerLoss, ReadDirectory,
             Read, ReadFails, ReadCopies, Write, WriteRefused, WriteFolder, WriteWild,
             WriteNoSpace, WriteFile, Writable, Delete, DeleteRefused, DeleteFile, DeleteFolder,
             Idle, FolderParent, FolderTable, FileParent, DeleteFileFat, DeleteFolderTable,
             DeleteFolderFat, Undefined, vars
  <2> QED
    BY <1>1, <2>1, LastPart DEF CInv
<1>2. CInv /\ [Next]_vars => [op.pc = "wf_data" /\ op'.pc = "idle" => Stored = Asked]_vars
  BY <1>1
<1>3. [op.pc = "wf_data" /\ op'.pc = "idle" => Stored = Asked]_vars
      <=> [op.pc = "wf_data" /\ op'.pc = "idle" =>
             LET e == dirs[op.parent][op.row]
             IN  Contents(diskFat, data', e.cl) =
                   [i \in 1 .. divceil(e.size, CLUSTER_SIZE) |-> <<op.buf, i - 1>>]]_vars
  BY DEF Stored, Asked
<1> QED
  BY <1>2, <1>3, CountedInvariance, PTL DEF Spec, WriteComplete
=============================================================================
