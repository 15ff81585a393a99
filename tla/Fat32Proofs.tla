---------------------------- MODULE Fat32Proofs ----------------------------
(***************************************************************************)
(* Proofs about the FAT32 driver, for every size of the disk, of its       *)
(* tables and of the files: after every disk write of every call, with     *)
(* power lost after any of them, the FAT is a set of disjoint chains, and  *)
(* every entry, file and folder owns its own.                              *)
(***************************************************************************)
EXTENDS Fat32, MinMaxLemmas, FiniteSetTheorems

Fat == [Clusters -> Nat]

\* LinksSound of a FAT f.
Links(f) ==
  /\ f = ZeroFat \/ (f[0] = C0 /\ f[FATC] = EOF /\ f[ROOT] = EOF)
  /\ \A c \in DataClusters :
       f[c] \in {EMPTY, EOF} \/ (f[c] \in c + 1 .. CLUSTER_MAP_SIZE - 1 /\ f[f[c]] # EMPTY)
  /\ \A x, y \in DataClusters : x # y /\ f[x] = f[y] => f[x] \in {EMPTY, EOF}

\* No cluster links to c: it is the first of its chain.
Leads(f, c) == \A x \in DataClusters : f[x] # c

LEMMA Numbers ==
  /\ CLUSTER_MAP_SIZE \in Nat /\ CLUSTER_MAP_SIZE > 3 /\ CLUSTER_MAP_SIZE < C0
  /\ Clusters = 0 .. CLUSTER_MAP_SIZE - 1 /\ Clusters \subseteq Nat
  /\ DataClusters = 3 .. CLUSTER_MAP_SIZE - 1 /\ DataClusters \subseteq Clusters
  /\ 0 \in Clusters /\ 1 \in Clusters /\ 2 \in Clusters /\ 3 \in DataClusters
  /\ C0 \in Nat /\ EOF \in Nat /\ EMPTY = 0 /\ EOF > C0 /\ C0 > 0 /\ ROOT = 2 /\ FATC = 1
  /\ \A c \in Clusters : c # EOF /\ c # C0
  /\ ZeroFat \in Fat
  BY SizeAssumption DEF C0, EOF, EMPTY, Clusters, DataClusters, ROOT, FATC, ZeroFat, Fat

-----------------------------------------------------------------------------
(* Chains: the smallest closed set around a cluster *)

LEMMA ChainLeast ==
  ASSUME NEW f, NEW c \in Clusters
  PROVE  /\ Chain(f, c) \subseteq Clusters /\ c \in Chain(f, c)
         /\ \A S \in SUBSET Clusters : c \in S /\ Closed(f, S) => Chain(f, c) \subseteq S
  BY DEF Chain

LEMMA ChainClosed ==
  ASSUME NEW f, NEW c \in Clusters, NEW x \in Chain(f, c), f[x] \in Clusters
  PROVE  f[x] \in Chain(f, c)
<1>1. \A S \in SUBSET Clusters : c \in S /\ Closed(f, S) => x \in S /\ f[x] \in S
  BY ChainLeast DEF Closed
<1> QED
  BY <1>1 DEF Chain

\* Every cluster of a chain but the first has one before it.
LEMMA ChainPrevious ==
  ASSUME NEW f, NEW c \in Clusters, NEW y \in Chain(f, c), y # c
  PROVE  \E z \in Chain(f, c) : f[z] = y
<1> SUFFICES ASSUME \A z \in Chain(f, c) : f[z] # y PROVE FALSE
  OBVIOUS
<1> DEFINE S == Chain(f, c) \ {y}
<1>1. S \in SUBSET Clusters /\ c \in S
  BY ChainLeast
<1>2. Closed(f, S)
  <2> SUFFICES ASSUME NEW x \in S, f[x] \in Clusters PROVE f[x] \in S
    BY DEF Closed
  <2>1. f[x] \in Chain(f, c)
    BY ChainClosed
  <2> QED
    BY <2>1
<1>3. Chain(f, c) \subseteq S
  BY <1>1, <1>2, ChainLeast
<1> QED
  BY <1>3

\* A chain from a cluster in use stays among the clusters in use.
LEMMA ChainInUse ==
  ASSUME NEW f \in Fat, Links(f), NEW c \in DataClusters, f[c] # EMPTY
  PROVE  \A x \in Chain(f, c) : x \in DataClusters /\ f[x] # EMPTY
<1> DEFINE S == {x \in DataClusters : f[x] # EMPTY}
<1>1. S \in SUBSET Clusters /\ c \in S /\ c \in Clusters
  BY Numbers
<1>2. Closed(f, S)
  <2> SUFFICES ASSUME NEW x \in S, f[x] \in Clusters PROVE f[x] \in S
    BY DEF Closed
  <2>1. f[x] \in x + 1 .. CLUSTER_MAP_SIZE - 1 /\ f[f[x]] # EMPTY
    BY Numbers DEF Links
  <2> QED
    BY <2>1, Numbers
<1>3. Chain(f, c) \subseteq S
  BY <1>1, <1>2, ChainLeast
<1> QED
  BY <1>3

\* A first cluster is in no chain but its own.
LEMMA HeadAlone ==
  ASSUME NEW f \in Fat, Links(f), NEW c \in DataClusters, f[c] # EMPTY,
         NEW h \in Clusters, Leads(f, h), h # c
  PROVE  h \notin Chain(f, c)
<1> SUFFICES ASSUME h \in Chain(f, c) PROVE FALSE
  OBVIOUS
<1>1. c \in Clusters
  BY Numbers
<1>2. PICK z \in Chain(f, c) : f[z] = h
  BY <1>1, ChainPrevious
<1>3. z \in DataClusters
  BY ChainInUse
<1> QED
  BY <1>2, <1>3 DEF Leads

\* Chains of two first clusters have no cluster in common.
LEMMA ChainsDisjoint ==
  ASSUME NEW f \in Fat, Links(f),
         NEW c \in DataClusters, f[c] # EMPTY, Leads(f, c),
         NEW d \in DataClusters, f[d] # EMPTY, Leads(f, d), c # d
  PROVE  Chain(f, c) \cap Chain(f, d) = {}
<1> DEFINE S == Chain(f, c) \ Chain(f, d)
<1>0. c \in Clusters /\ d \in Clusters
  BY Numbers
<1>1. S \in SUBSET Clusters /\ c \in S
  BY <1>0, ChainLeast, HeadAlone
<1>2. Closed(f, S)
  <2> SUFFICES ASSUME NEW x \in S, f[x] \in Clusters PROVE f[x] \in S
    BY DEF Closed
  <2>1. f[x] \in Chain(f, c)
    BY <1>0, ChainClosed
  <2>2. x \in DataClusters /\ f[x] # EMPTY
    BY ChainInUse
  <2>3. ASSUME f[x] \in Chain(f, d) PROVE FALSE
    <3>1. f[x] # d
      BY <2>2 DEF Leads
    <3>2. PICK z \in Chain(f, d) : f[z] = f[x]
      BY <1>0, <2>3, <3>1, ChainPrevious
    <3>3. z \in DataClusters /\ z # x
      BY ChainInUse
    <3>4. f[x] \in {EMPTY, EOF}
      BY <2>2, <3>2, <3>3 DEF Links
    <3> QED
      BY <2>2, <3>4, Numbers
  <2> QED
    BY <2>1, <2>3
<1>3. Chain(f, c) \subseteq S
  BY <1>1, <1>2, ChainLeast
<1> QED
  BY <1>3

-----------------------------------------------------------------------------
(* Allocation and release *)

\* The reserved words of a formatted map.
Reserved(f) == f[0] = C0 /\ f[FATC] = EOF /\ f[ROOT] = EOF

LEMMA FreeNumbers ==
  ASSUME NEW f
  PROVE  /\ Free(f) \in SUBSET Clusters /\ Free(f) \in SUBSET Nat /\ IsFiniteSet(Free(f))
         /\ \A c \in Free(f) : f[c] = EMPTY
         /\ Reserved(f) => Free(f) \in SUBSET DataClusters
<1>1. Free(f) \in SUBSET Clusters /\ \A c \in Free(f) : f[c] = EMPTY
  BY DEF Free
<1>2. IsFiniteSet(0 .. CLUSTER_MAP_SIZE - 1)
  BY FS_Interval, Numbers
<1>3. IsFiniteSet(Free(f))
  BY <1>1, <1>2, FS_Subset, Numbers
<1>4. ASSUME Reserved(f), NEW c \in Free(f) PROVE c \in DataClusters
  <2>1. c # 0 /\ c # 1 /\ c # 2 /\ c \in Clusters
    BY <1>1, <1>4, Numbers DEF Reserved
  <2> QED
    BY <2>1, Numbers
<1> QED
  BY <1>1, <1>3, <1>4, Numbers

\* A word of the new chain holds the next one; the last word holds `end`.
Linked(g, A, end) ==
  \A c \in A :
    \/ g[c] = end /\ \A x \in A : x <= c
    \/ g[c] \in A /\ g[c] > c /\ \A x \in A : x > c => g[c] <= x

LEMMA LinkUpWords ==
  ASSUME NEW f \in Fat, NEW A \in SUBSET Clusters, NEW end \in Nat,
         NEW g, g = LinkUp(f, A, end)
  PROVE  /\ g \in Fat
         /\ \A c \in Clusters \ A : g[c] = f[c]
         /\ Linked(g, A, end)
<1>1. \A c \in Clusters \ A : g[c] = f[c]
  BY DEF LinkUp
<1>2. ASSUME NEW c \in A
      PROVE  \/ g[c] = end /\ \A x \in A : x <= c
             \/ g[c] \in A /\ g[c] > c /\ \A x \in A : x > c => g[c] <= x
  <2> DEFINE B == {x \in A : x > c}
  <2>1. g[c] = IF \E x \in A : x > c THEN Min(B) ELSE end
    BY DEF LinkUp
  <2>2. CASE \E x \in A : x > c
    <3>1. B \in SUBSET Nat /\ B # {}
      BY <2>2, Numbers
    <3>2. Min(B) \in B /\ \A y \in B : Min(B) <= y
      BY <3>1, MinProperty
    <3> QED
      BY <2>1, <2>2, <3>2
  <2>3. CASE ~\E x \in A : x > c
    BY <2>1, <2>3, Numbers
  <2> QED
    BY <2>2, <2>3
<1>3. g \in Fat
  <2>1. \A c \in Clusters : g[c] \in Nat
    <3> TAKE c \in Clusters
    <3>1. CASE c \in A
      BY <3>1, <1>2, Numbers
    <3>2. CASE c \notin A
      BY <3>2, <1>1 DEF Fat
    <3> QED
      BY <3>1, <3>2
  <2> QED
    BY <2>1 DEF LinkUp, Fat
<1> QED
  BY <1>1, <1>2, <1>3 DEF Linked

\* Allocating empty words makes one more chain and leaves the others alone.
LEMMA Allocation ==
  ASSUME NEW f \in Fat, Links(f), Reserved(f),
         NEW A \in SUBSET Free(f), A # {}, NEW g, g = LinkUp(f, A, EOF)
  PROVE  /\ g \in Fat /\ Links(g) /\ Min(A) \in A /\ g[Min(A)] # EMPTY /\ Leads(g, Min(A))
         /\ \A d \in Clusters : d >= ROOT /\ f[d] # EMPTY /\ Leads(f, d)
                              => g[d] = f[d] /\ Leads(g, d)
<1>0. A \in SUBSET Clusters /\ A \in SUBSET DataClusters /\ A \in SUBSET Nat
      /\ \A c \in A : f[c] = EMPTY
  BY FreeNumbers
<1>a. EOF \in Nat
  BY Numbers
<1>1. g \in Fat /\ \A c \in Clusters \ A : g[c] = f[c]
  BY <1>0, <1>a, LinkUpWords
<1>2. \A c \in A : \/ g[c] = EOF /\ \A x \in A : x <= c
                   \/ g[c] \in A /\ g[c] > c /\ \A x \in A : x > c => g[c] <= x
  <2>1. Linked(g, A, EOF)
    BY <1>0, <1>a, LinkUpWords
  <2> QED
    BY <2>1 DEF Linked
<1>3. Min(A) \in A /\ \A y \in A : Min(A) <= y
  BY <1>0, MinProperty
<1>4. \A c \in A : g[c] # EMPTY
  BY <1>0, <1>2, Numbers
<1>5. \A c \in DataClusters : f[c] # EMPTY => g[c] = f[c]
  BY <1>0, <1>1, Numbers
<1>6. Reserved(g)
  BY <1>0, <1>1, Numbers DEF Reserved
<1>7. ASSUME NEW c \in DataClusters
      PROVE  g[c] \in {EMPTY, EOF}
             \/ (g[c] \in c + 1 .. CLUSTER_MAP_SIZE - 1 /\ g[g[c]] # EMPTY)
  <2>1. CASE c \in A
    <3>1. CASE g[c] = EOF
      BY <3>1
    <3>2. CASE g[c] \in A /\ g[c] > c
      <4>1. g[c] \in DataClusters
        BY <3>2, <1>0
      <4> QED
        BY <4>1, <3>2, <1>4, Numbers
    <3> QED
      BY <2>1, <1>2, <3>1, <3>2
  <2>2. CASE c \notin A
    <3>1. g[c] = f[c]
      BY <2>2, <1>1, Numbers
    <3>2. f[c] \in {EMPTY, EOF} \/ (f[c] \in c + 1 .. CLUSTER_MAP_SIZE - 1 /\ f[f[c]] # EMPTY)
      BY DEF Links
    <3>3. ASSUME f[c] \in c + 1 .. CLUSTER_MAP_SIZE - 1, f[f[c]] # EMPTY PROVE g[f[c]] # EMPTY
      BY <3>3, <1>5, Numbers
    <3> QED
      BY <3>1, <3>2, <3>3
  <2> QED
    BY <2>1, <2>2
<1>8. ASSUME NEW x \in DataClusters, NEW y \in DataClusters, x # y, g[x] = g[y]
      PROVE  g[x] \in {EMPTY, EOF}
  <2>0. x \in Clusters /\ y \in Clusters /\ x \in Nat /\ y \in Nat
    BY Numbers
  <2>1. CASE x \notin A /\ y \notin A
    <3>1. g[x] = f[x] /\ g[y] = f[y]
      BY <2>0, <2>1, <1>1
    <3> QED
      BY <3>1, <1>8 DEF Links
  <2>2. CASE x \in A /\ y \in A
    <3>1. ASSUME NEW u \in A, NEW v \in A, u < v, g[u] = g[v] PROVE FALSE
      <4>1. u \in Nat /\ v \in Nat
        BY <1>0
      <4>2. g[u] \in A /\ g[u] <= v
        BY <3>1, <4>1, <1>2
      <4>3. g[v] = EOF \/ g[v] > v
        BY <1>2
      <4>4. g[u] \in Clusters /\ g[u] \in Nat
        BY <4>2, <1>0
      <4> QED
        BY <3>1, <4>1, <4>2, <4>3, <4>4, Numbers
    <3> QED
      BY <2>0, <2>2, <3>1, <1>8
  <2>3. ASSUME NEW u \in A, NEW v \in DataClusters \ A, g[u] = g[v] PROVE g[u] \in {EMPTY, EOF}
    <3>1. g[v] = f[v]
      BY <1>1, Numbers
    <3>2. f[v] \in {EMPTY, EOF} \/ f[f[v]] # EMPTY
      BY DEF Links
    <3>3. g[u] = EOF \/ g[u] \in A
      BY <1>2
    <3> QED
      BY <2>3, <3>1, <3>2, <3>3, <1>0
  <2>4. CASE x \in A /\ y \notin A
    BY <2>4, <2>3, <1>8
  <2>5. CASE x \notin A /\ y \in A
    BY <2>5, <2>3, <1>8
  <2> QED
    BY <2>1, <2>2, <2>4, <2>5
<1>9. Links(g)
  BY <1>6, <1>7, <1>8 DEF Links, Reserved
<1>10. Leads(g, Min(A))
  <2> SUFFICES ASSUME NEW x \in DataClusters, g[x] = Min(A) PROVE FALSE
    BY DEF Leads
  <2>1. CASE x \in A
    <3>1. Min(A) \in Nat /\ Min(A) \in Clusters /\ x \in Nat /\ Min(A) <= x
      BY <2>1, <1>0, <1>3
    <3>2. g[x] = EOF \/ g[x] > x
      BY <2>1, <1>2
    <3> QED
      BY <3>1, <3>2, Numbers
  <2>2. CASE x \notin A
    <3>1. f[x] = Min(A)
      BY <2>2, <1>1, Numbers
    <3>2. f[x] \in {EMPTY, EOF} \/ f[f[x]] # EMPTY
      BY DEF Links
    <3>3. f[Min(A)] = EMPTY /\ Min(A) \in DataClusters
      BY <1>0, <1>3
    <3> QED
      BY <3>1, <3>2, <3>3, Numbers
  <2> QED
    BY <2>1, <2>2
<1>11. ASSUME NEW d \in Clusters, d >= ROOT, f[d] # EMPTY, Leads(f, d)
       PROVE  g[d] = f[d] /\ Leads(g, d)
  <2>1. d \notin A
    BY <1>11, <1>0
  <2>2. ASSUME NEW x \in DataClusters, g[x] = d PROVE FALSE
    <3>1. CASE x \in A
      BY <3>1, <2>1, <2>2, <1>2, Numbers
    <3>2. CASE x \notin A
      BY <3>2, <2>2, <1>1, <1>11, Numbers DEF Leads
    <3> QED
      BY <3>1, <3>2
  <2> QED
    BY <2>1, <2>2, <1>1 DEF Leads
<1> QED
  BY <1>1, <1>3, <1>4, <1>9, <1>10, <1>11

\* Releasing a chain from its first cluster leaves the others alone.
LEMMA Releasing ==
  ASSUME NEW f \in Fat, Links(f), NEW c \in DataClusters, f[c] # EMPTY, Leads(f, c),
         NEW g, g = Release(f, c)
  PROVE  /\ g \in Fat /\ Links(g)
         /\ \A d \in Clusters : d >= ROOT /\ d # c /\ f[d] # EMPTY /\ Leads(f, d)
                              => g[d] = f[d] /\ Leads(g, d)
<1> DEFINE S == Chain(f, c)
<1>0. c \in Clusters /\ S \subseteq DataClusters /\ (\A x \in S : f[x] # EMPTY) /\ S \subseteq Clusters
  BY Numbers, ChainInUse
<1>1. /\ g \in Fat
      /\ \A x \in Clusters : x \in S => g[x] = EMPTY
      /\ \A x \in Clusters : x \notin S => g[x] = f[x]
  BY Numbers DEF Release, Fat
<1>2. Reserved(g)
  <2>1. f # ZeroFat
    BY <1>0 DEF ZeroFat
  <2>2. Reserved(f)
    BY <2>1 DEF Links, Reserved
  <2> QED
    BY <2>2, <1>0, <1>1, Numbers DEF Reserved
<1>3. ASSUME NEW x \in DataClusters, x \notin S, f[x] \in DataClusters PROVE f[x] \notin S
  <2> SUFFICES ASSUME f[x] \in S PROVE FALSE
    OBVIOUS
  <2>1. f[x] # c
    BY <1>3 DEF Leads
  <2>2. PICK z \in S : f[z] = f[x]
    BY <1>0, <2>1, ChainPrevious
  <2>3. z \in DataClusters /\ z # x
    BY <1>0, <1>3, <2>2
  <2>4. f[x] \in {EMPTY, EOF}
    BY <2>2, <2>3 DEF Links
  <2> QED
    BY <2>4, <1>3, Numbers
<1>4. ASSUME NEW x \in DataClusters
      PROVE  g[x] \in {EMPTY, EOF}
             \/ (g[x] \in x + 1 .. CLUSTER_MAP_SIZE - 1 /\ g[g[x]] # EMPTY)
  <2>0. x \in Clusters
    BY Numbers
  <2>1. CASE x \in S
    BY <2>0, <2>1, <1>1
  <2>2. CASE x \notin S
    <3>1. g[x] = f[x]
      BY <2>0, <2>2, <1>1
    <3>2. f[x] \in {EMPTY, EOF} \/ (f[x] \in x + 1 .. CLUSTER_MAP_SIZE - 1 /\ f[f[x]] # EMPTY)
      BY DEF Links
    <3>3. ASSUME f[x] \in x + 1 .. CLUSTER_MAP_SIZE - 1, f[f[x]] # EMPTY PROVE g[f[x]] # EMPTY
      <4>1. f[x] \in DataClusters /\ f[x] \in Clusters
        BY <3>3, Numbers
      <4> QED
        BY <4>1, <2>2, <3>3, <1>1, <1>3
    <3> QED
      BY <3>1, <3>2, <3>3
  <2> QED
    BY <2>1, <2>2
<1>5. ASSUME NEW x \in DataClusters, NEW y \in DataClusters, x # y, g[x] = g[y]
      PROVE  g[x] \in {EMPTY, EOF}
  <2>0. x \in Clusters /\ y \in Clusters
    BY Numbers
  <2>1. CASE x \notin S /\ y \notin S
    <3>1. g[x] = f[x] /\ g[y] = f[y]
      BY <2>0, <2>1, <1>1
    <3> QED
      BY <3>1, <1>5 DEF Links
  <2>2. CASE x \in S \/ y \in S
    BY <2>0, <2>2, <1>1, <1>5
  <2> QED
    BY <2>1, <2>2
<1>6. Links(g)
  BY <1>2, <1>4, <1>5 DEF Links, Reserved
<1>7. ASSUME NEW d \in Clusters, d >= ROOT, d # c, f[d] # EMPTY, Leads(f, d)
      PROVE  g[d] = f[d] /\ Leads(g, d)
  <2>1. d \notin S
    BY <1>7, HeadAlone
  <2>2. ASSUME NEW x \in DataClusters, g[x] = d PROVE FALSE
    <3>1. x \in Clusters /\ d # EMPTY
      BY <1>7, Numbers
    <3> QED
      BY <3>1, <2>2, <1>1, <1>7 DEF Leads
  <2> QED
    BY <2>1, <2>2, <1>1 DEF Leads
<1> QED
  BY <1>1, <1>6, <1>7

\* The clusters write links are taken from the front of the empty ones.
LEMMA FirstFreeSome ==
  ASSUME NEW f, NEW n \in Nat \ {0}, n <= Cardinality(Free(f))
  PROVE  FirstFree(f, n) \in SUBSET Free(f) /\ FirstFree(f, n) # {}
<1> DEFINE A == Free(f)
<1>1. A # {}
  <2> SUFFICES ASSUME A = {} PROVE FALSE
    OBVIOUS
  <2>1. Cardinality(A) = 0
    BY FS_EmptySet
  <2> QED
    BY <2>1
<1>2. Min(A) \in A /\ \A y \in A : Min(A) <= y
  BY <1>1, FreeNumbers, MinProperty
<1>3. {x \in A : x < Min(A)} = {}
  BY <1>2, FreeNumbers
<1>4. Cardinality({x \in A : x < Min(A)}) = 0
  BY <1>3, FS_EmptySet
<1>5. Min(A) \in FirstFree(f, n)
  BY <1>2, <1>4 DEF FirstFree
<1> QED
  BY <1>5 DEF FirstFree

LEMMA DivceilPositive ==
  ASSUME NEW m \in Nat \ {0}, NEW n \in Nat \ {0}
  PROVE  divceil(m, n) \in Nat \ {0}
<1>1. m \div n \in Nat /\ m = n * (m \div n) + (m % n)
  OBVIOUS
<1>2. CASE m % n = 0
  <2>1. m \div n # 0
    BY <1>1, <1>2
  <2> QED
    BY <1>1, <1>2, <2>1 DEF divceil
<1>3. CASE m % n # 0
  BY <1>1, <1>3 DEF divceil
<1> QED
  BY <1>2, <1>3

\* The chain of linked words is the set of them.
LEMMA LinkedChain ==
  ASSUME NEW g \in Fat, NEW A \in SUBSET Clusters, A # {}, NEW end, end \notin Clusters,
         Linked(g, A, end)
  PROVE  Min(A) \in A /\ Chain(g, Min(A)) = A
<1> DEFINE S == Chain(g, Min(A))
<1>0. A \in SUBSET Nat
  BY Numbers
<1>1. Min(A) \in A /\ \A y \in A : Min(A) <= y
  BY <1>0, MinProperty
<1>2. \A c \in A : \/ g[c] = end /\ \A x \in A : x <= c
                   \/ g[c] \in A /\ g[c] > c /\ \A x \in A : x > c => g[c] <= x
  BY DEF Linked
<1>3. S \subseteq A
  <2>1. Closed(g, A)
    BY <1>2 DEF Closed
  <2> QED
    BY <1>1, <2>1, ChainLeast
<1>4. A \subseteq S
  <2> SUFFICES ASSUME A \ S # {} PROVE FALSE
    OBVIOUS
  <2> DEFINE x == Min(A \ S)
  <2>1. x \in A \ S /\ \A y \in A \ S : x <= y
    BY <1>0, MinProperty
  <2>2. Min(A) \in S
    BY <1>1, ChainLeast
  <2> DEFINE B == {z \in A : z < x}
  <2>3. B # {} /\ B \in SUBSET (0 .. CLUSTER_MAP_SIZE - 1)
    <3>1. Min(A) \in A /\ Min(A) # x /\ Min(A) <= x /\ x \in A
      BY <1>1, <2>1, <2>2
    <3>2. Min(A) \in Nat /\ x \in Nat
      BY <3>1, <1>0
    <3>3. Min(A) \in B
      BY <3>1, <3>2
    <3>4. B \in SUBSET Clusters
      OBVIOUS
    <3> QED
      BY <3>3, <3>4, Numbers
  <2> DEFINE y == Max(B)
  <2>4. y \in B /\ \A z \in B : z <= y
    <3>1. CLUSTER_MAP_SIZE - 1 \in Nat
      BY Numbers
    <3> QED
      BY <3>1, <2>3, MaxProperty
  <2>5. y \in S
    <3>1. y \in A /\ y < x /\ y \in Nat /\ x \in Nat
      BY <2>4, <2>1, <1>0
    <3> QED
      BY <3>1, <2>1
  <2>6. g[y] = x
    <3> HIDE DEF x, y
    <3>1. y \in A /\ x \in A /\ y < x
      BY <2>4, <2>1
    <3>2. g[y] \in A /\ g[y] > y /\ g[y] <= x
      BY <3>1, <1>0, <1>2
    <3>3. g[y] \in Nat /\ x \in Nat /\ y \in Nat
      BY <3>1, <3>2, <1>0
    <3>4. g[y] < x => g[y] \in B
      BY <3>2, <3>3
    <3> QED
      BY <3>2, <3>3, <3>4, <2>4
  <2>7. x \in S
    BY <2>1, <2>5, <2>6, <1>1, ChainClosed
  <2> QED
    BY <2>1, <2>7
<1> QED
  BY <1>1, <1>3, <1>4

\* The failed write of a file: its loops take all empty words and put EMPTY
\* back into every one of them.
LEMMA Undone ==
  ASSUME NEW f \in Fat, Free(f) # {}
  PROVE  Release(LinkUp(f, Free(f), CLUSTER_MAP_SIZE), Min(Free(f))) = f
<1> DEFINE A == Free(f)
           g == LinkUp(f, A, CLUSTER_MAP_SIZE)
           S == Chain(g, Min(A))
<1>0. A \in SUBSET Clusters /\ \A c \in A : f[c] = EMPTY
  BY FreeNumbers
<1>a. CLUSTER_MAP_SIZE \in Nat
  BY Numbers
<1>1. CLUSTER_MAP_SIZE \notin Clusters
  BY Numbers
<1>2. g \in Fat /\ \A c \in Clusters \ A : g[c] = f[c]
  BY <1>0, <1>a, LinkUpWords
<1>3. Linked(g, A, CLUSTER_MAP_SIZE)
  BY <1>0, <1>a, LinkUpWords
<1>4. S = A
  BY <1>0, <1>1, <1>2, <1>3, LinkedChain
<1>5. \A z \in Clusters : Release(g, Min(A))[z] = f[z]
  BY <1>0, <1>2, <1>4 DEF Release
<1> QED
  BY <1>5 DEF Release, Fat

-----------------------------------------------------------------------------
(* The tables: every folder and every entry owns a chain *)

Holds(t) == \E r \in Rows : t[r].used

\* The names that tell an entry a caller created from the other rows in use:
\* all but the empty one and those that rows of texts have.
Visible ==
  {n \in Name : n # EmptyName /\ \A b \in Bufs, r \in Rows : Image[b][r].name # n}

\* An entry of the empty name is told from a row that write marked by its
\* cluster, if the rows without a name that texts have refer to none.
PlainBlanks == \A b \in Bufs, r \in Rows : Image[b][r].name = EmptyName => Image[b][r].cl = 0
Created(e) ==
  e.used /\ (e.name \in Visible \/ (PlainBlanks /\ e.name = EmptyName /\ e.cl # 0))

LEMMA VisibleNames ==
  /\ EmptyName \notin Visible /\ Visible \subseteq Name
  /\ \A b \in Bufs, r \in Rows : Image[b][r].name \notin Visible
  BY DEF Visible

\* A table with a row in use is the only cluster of its chain.
TablesOwned(f, D) ==
  \A d \in Clusters : Holds(D[d]) => d >= ROOT /\ f[d] = EOF /\ Leads(f, d)

\* Rows with such a name are in use: a mark makes no entry.
NamesUsed(D) ==
  \A d \in Clusters, r \in Rows : D[d][r].name \in Visible => D[d][r].used

\* The row that write marks in the table of cluster p.  The first entry that
\* goes into the table marks it, and so no entry is ever in it; the last row
\* that write reaches is an entry's before it is marked.
LastWriteRow == DIR_ROWS - 2
MarkOf(t, p) ==
  /\ t[p].name \notin Visible
  /\ PlainBlanks /\ t[p].name = EmptyName => t[p].cl = 0
  /\ Occupied(t) => t[p].used
MarkRows(D) ==
  \A p \in Clusters : p \in ScanRows /\ p # LastWriteRow => MarkOf(D[p], p)

\* The chain of an entry: its first cluster, a table's for a folder, and none
\* for a file.
Owns(f, D, e) ==
  /\ e.cl \in DataClusters /\ f[e.cl] # EMPTY /\ Leads(f, e.cl)
  /\ e.attr = ATTR_SUBDIRECTORY => f[e.cl] = EOF
  /\ e.attr # ATTR_SUBDIRECTORY => ~Holds(D[e.cl])
EntriesOwn(f, D) ==
  \A d \in Clusters, r \in ScanRows : Created(D[d][r]) => Owns(f, D, D[d][r])

OneOwner(D) ==
  \A d1, d2 \in Clusters, r1, r2 \in ScanRows :
    /\ Created(D[d1][r1]) /\ Created(D[d2][r2])
    /\ D[d1][r1].cl = D[d2][r2].cl
    => d1 = d2 /\ r1 = r2

Sound(f, D) ==
  /\ TablesOwned(f, D) /\ NamesUsed(D) /\ MarkRows(D)
  /\ EntriesOwn(f, D) /\ OneOwner(D)

\* A cluster that leads a chain nothing on disk refers to.
Untargeted(D, c) == \A d \in Clusters, r \in ScanRows : Created(D[d][r]) => D[d][r].cl # c
Fresh(f, D, c) ==
  c \in DataClusters /\ f[c] # EMPTY /\ Leads(f, c) /\ ~Holds(D[c]) /\ Untargeted(D, c)

LEMMA RowNumbers ==
  /\ DIR_ROWS \in Nat /\ DIR_ROWS > 2 /\ Rows = 0 .. DIR_ROWS - 1
  /\ WriteRows = 0 .. DIR_ROWS - 2 /\ ScanRows = 1 .. DIR_ROWS - 1
  /\ 0 \in Rows /\ 0 \in WriteRows /\ WriteRows \subseteq Rows /\ ScanRows \subseteq Rows
  /\ ScanRows \subseteq Nat /\ \A r \in ScanRows : r # 0
  BY SizeAssumption DEF Rows, WriteRows, ScanRows

LEMMA EntryRowIn ==
  ASSUME NEW t
  PROVE  EntryRow(t) \in WriteRows
<1> DEFINE B == {r \in WriteRows : ~t[r].used}
<1>1. CASE B # {}
  <2>1. B \in SUBSET (0 .. DIR_ROWS - 2) /\ DIR_ROWS - 2 \in Nat
    BY RowNumbers
  <2>2. Max(B) \in B
    BY <1>1, <2>1, MaxProperty
  <2> QED
    BY <1>1, <2>2 DEF EntryRow
<1>2. CASE B = {}
  BY <1>2, RowNumbers DEF EntryRow
<1> QED
  BY <1>1, <1>2

\* The row of the new entry is not in use, unless the table is full and it is
\* the folder's own.
LEMMA EntryRowUnused ==
  ASSUME NEW t
  PROVE  /\ EntryRow(t) = 0 \/ ~t[EntryRow(t)].used
         /\ ~t[LastWriteRow].used => EntryRow(t) = LastWriteRow
<1> DEFINE B == {r \in WriteRows : ~t[r].used}
<1>1. CASE B # {}
  <2>1. B \in SUBSET (0 .. DIR_ROWS - 2) /\ DIR_ROWS - 2 \in Nat
    BY RowNumbers
  <2>2. Max(B) \in B /\ \A r \in B : r <= Max(B)
    BY <1>1, <2>1, MaxProperty
  <2>3. EntryRow(t) = Max(B)
    BY <1>1 DEF EntryRow
  <2>4. ASSUME LastWriteRow \in B PROVE Max(B) = LastWriteRow
    <3>1. LastWriteRow <= Max(B) /\ Max(B) \in 0 .. DIR_ROWS - 2
      BY <2>1, <2>2, <2>4
    <3> QED
      BY <2>1, <3>1, RowNumbers DEF LastWriteRow
  <2>5. LastWriteRow \in WriteRows
    BY RowNumbers DEF LastWriteRow
  <2> QED
    BY <2>2, <2>3, <2>4, <2>5
<1>2. CASE B = {}
  <2>1. LastWriteRow \in WriteRows
    BY RowNumbers DEF LastWriteRow
  <2> QED
    BY <1>2, <2>1 DEF EntryRow
<1> QED
  BY <1>1, <1>2

\* A disk write of a table that adds no entry: at most rows in use in a
\* cluster that owns its chain.
LEMMA NoNewEntry ==
  ASSUME NEW f, NEW D, NEW E, Sound(f, D), NamesUsed(E), MarkRows(E),
         \A d \in Clusters, r \in ScanRows : Created(E[d][r]) =>
           Created(D[d][r]) /\ E[d][r].cl = D[d][r].cl /\ E[d][r].attr = D[d][r].attr,
         \A d \in Clusters : Holds(E[d]) /\ ~Holds(D[d]) =>
           /\ d >= ROOT /\ f[d] = EOF /\ Leads(f, d)
           /\ \A c \in Clusters, r \in ScanRows :
                Created(D[c][r]) /\ D[c][r].cl = d => D[c][r].attr = ATTR_SUBDIRECTORY
  PROVE  /\ Sound(f, E)
         /\ \A c : Untargeted(D, c) => Untargeted(E, c)
<1>1. TablesOwned(f, E)
  BY DEF Sound, TablesOwned
<1>2. ASSUME NEW d \in Clusters, NEW r \in ScanRows, Created(E[d][r])
      PROVE  Owns(f, E, E[d][r])
  <2>1. Created(D[d][r]) /\ E[d][r].cl = D[d][r].cl /\ E[d][r].attr = D[d][r].attr
    BY <1>2
  <2>2. Owns(f, D, D[d][r])
    BY <2>1 DEF Sound, EntriesOwn
  <2>3. D[d][r].attr # ATTR_SUBDIRECTORY => ~Holds(E[D[d][r].cl])
    <3>1. D[d][r].cl \in Clusters
      BY <2>2, Numbers DEF Owns
    <3> QED
      BY <3>1, <2>1, <2>2 DEF Owns
  <2> QED
    BY <2>1, <2>2, <2>3 DEF Owns
<1>3. EntriesOwn(f, E)
  BY <1>2 DEF EntriesOwn
<1>4. OneOwner(E)
  <2> SUFFICES ASSUME NEW d1 \in Clusters, NEW d2 \in Clusters,
                      NEW r1 \in ScanRows, NEW r2 \in ScanRows,
                      Created(E[d1][r1]), Created(E[d2][r2]), E[d1][r1].cl = E[d2][r2].cl
               PROVE  d1 = d2 /\ r1 = r2
    BY DEF OneOwner
  <2>1. Created(D[d1][r1]) /\ Created(D[d2][r2]) /\ D[d1][r1].cl = D[d2][r2].cl
    OBVIOUS
  <2> QED
    BY <2>1 DEF Sound, OneOwner
<1>5. ASSUME NEW c, Untargeted(D, c) PROVE Untargeted(E, c)
  BY <1>5 DEF Untargeted
<1> QED
  BY <1>1, <1>3, <1>4, <1>5 DEF Sound

\* The tables after the write of p's table with the entry e in row q.
EntryWritten(D, p, q, e) == [D EXCEPT ![p] = [MarkRow(D[p], p) EXCEPT ![q] = e]]

\* The disk write of a table with one more entry, for a fresh chain.
LEMMA NewEntry ==
  ASSUME NEW f, NEW D \in [Clusters -> Table], Sound(f, D),
         NEW p \in Clusters, NEW q \in WriteRows, NEW e \in Entry,
         q = EntryRow(D[p]), Holds(D[p]), e.used, Fresh(f, D, e.cl),
         e.attr = ATTR_SUBDIRECTORY => f[e.cl] = EOF,
         NEW E, E = EntryWritten(D, p, q, e)
  PROVE  /\ E \in [Clusters -> Table] /\ Sound(f, E) /\ e.cl # p /\ E[e.cl] = D[e.cl]
         /\ \A d \in Clusters, r \in ScanRows :
              Created(E[d][r]) /\ E[d][r].cl = e.cl => d = p /\ r = q /\ E[d][r] = e
<1> DEFINE T == [MarkRow(D[p], p) EXCEPT ![q] = e]
<1>0. q \in Rows
  BY RowNumbers
<1>1. D[p] \in Table /\ MarkRow(D[p], p) \in Table
  <2>1. D[p] \in Table
    OBVIOUS
  <2>2. CASE p \in Rows
    <3>1. D[p][p] \in Entry
      BY <2>1, <2>2 DEF Table
    <3>2. [D[p][p] EXCEPT !.used = TRUE] \in Entry
      BY <3>1 DEF Entry
    <3>3. MarkRow(D[p], p) = [D[p] EXCEPT ![p] = [D[p][p] EXCEPT !.used = TRUE]]
      BY <2>2 DEF MarkRow
    <3> QED
      BY <2>1, <3>2, <3>3 DEF Table
  <2> QED
    BY <2>1, <2>2 DEF MarkRow
<1>2. T \in Table
  BY <1>0, <1>1 DEF Table
<1>3. E \in [Clusters -> Table] /\ E[p] = T /\ \A d \in Clusters : d # p => E[d] = D[d]
  BY <1>2 DEF EntryWritten
<1>4. T[q] = e
  BY <1>0, <1>1 DEF Table
<1>5. ASSUME NEW r \in Rows, r # q
      PROVE  /\ T[r].name = D[p][r].name /\ T[r].cl = D[p][r].cl /\ T[r].attr = D[p][r].attr
             /\ D[p][r].used => T[r].used
  <2>0. T[r] = MarkRow(D[p], p)[r] /\ D[p][r] \in Entry
    BY <1>1, <1>5 DEF Table
  <2>1. CASE p \notin Rows \/ r # p
    BY <2>0, <2>1, <1>1 DEF MarkRow, Table
  <2>2. CASE p \in Rows /\ r = p
    <3>1. T[r] = [D[p][r] EXCEPT !.used = TRUE]
      BY <2>0, <2>2, <1>1 DEF MarkRow, Table
    <3> QED
      BY <3>1, <2>0 DEF Entry
  <2> QED
    BY <2>1, <2>2
<1>6. e.cl # p /\ e.cl \in Clusters /\ E[e.cl] = D[e.cl]
  BY <1>3, Numbers DEF Fresh
<1>7. NamesUsed(E)
  <2> SUFFICES ASSUME NEW d \in Clusters, NEW r \in Rows, E[d][r].name \in Visible
               PROVE  E[d][r].used
    BY DEF NamesUsed
  <2>1. CASE d # p
    BY <2>1, <1>3 DEF Sound, NamesUsed
  <2>2. CASE d = p /\ r = q
    BY <2>2, <1>3, <1>4 DEF Created
  <2>3. CASE d = p /\ r # q
    BY <2>3, <1>3, <1>5 DEF Sound, NamesUsed
  <2> QED
    BY <2>1, <2>2, <2>3
<1>14. ASSUME p \in ScanRows, p # LastWriteRow
       PROVE  /\ q # p /\ MarkOf(D[p], p) /\ T[p].used
  <2>1. MarkOf(D[p], p)
    BY <1>14 DEF Sound, MarkRows
  <2>2. LastWriteRow \in Rows /\ p \in Rows
    BY <1>14, RowNumbers DEF LastWriteRow
  <2>3. ASSUME q = p PROVE FALSE
    <3>1. ~D[p][p].used
      BY <1>14, <2>3, EntryRowUnused, RowNumbers
    <3>2. ~Occupied(D[p])
      BY <2>1, <3>1 DEF MarkOf
    <3>3. LastWriteRow \in ScanRows
      BY RowNumbers DEF LastWriteRow
    <3>4. ~D[p][LastWriteRow].used
      BY <3>2, <3>3 DEF Occupied
    <3> QED
      BY <1>14, <2>3, <3>4, EntryRowUnused
  <2>4. T[p].used
    <3>1. T[p] = MarkRow(D[p], p)[p]
      BY <1>1, <2>2, <2>3 DEF Table
    <3>2. D[p][p] \in Entry /\ MarkRow(D[p], p)[p] = [D[p][p] EXCEPT !.used = TRUE]
      BY <1>1, <2>2 DEF MarkRow, Table
    <3> QED
      BY <3>1, <3>2 DEF Entry
  <2> QED
    BY <2>1, <2>3, <2>4
<1>15. MarkRows(E)
  <2> SUFFICES ASSUME NEW d \in Clusters, d \in ScanRows, d # LastWriteRow
               PROVE  MarkOf(E[d], d)
    BY DEF MarkRows
  <2>1. CASE d # p
    BY <2>1, <1>3 DEF Sound, MarkRows
  <2>2. CASE d = p
    <3>1. q # p /\ MarkOf(D[p], p) /\ T[p].used
      BY <2>2, <1>14
    <3>2. T[p].name = D[p][p].name /\ T[p].cl = D[p][p].cl
      BY <2>2, <3>1, <1>5, RowNumbers
    <3> QED
      BY <2>2, <3>1, <3>2, <1>3 DEF MarkOf
  <2> QED
    BY <2>1, <2>2
<1>16. ASSUME NEW r \in ScanRows, r # q, Created(T[r]) PROVE D[p][r].used
  <2>0. r \in Rows
    BY RowNumbers
  <2>1. CASE p \notin Rows \/ r # p
    <3>1. T[r] = D[p][r]
      BY <2>0, <2>1, <1>1, <1>16 DEF MarkRow, Table
    <3> QED
      BY <3>1, <1>16 DEF Created
  <2>2. CASE r = p /\ p # LastWriteRow
    <3>1. MarkOf(D[p], p) /\ T[p].name = D[p][p].name /\ T[p].cl = D[p][p].cl
      BY <1>5, <1>14, <1>16, <2>0, <2>2
    <3> QED
      BY <3>1, <2>2, <1>16 DEF MarkOf, Created
  <2>3. CASE r = p /\ p = LastWriteRow
    BY <1>16, <2>3, EntryRowUnused
  <2> QED
    BY <2>1, <2>2, <2>3
<1>8. ASSUME NEW d \in Clusters, NEW r \in ScanRows, Created(E[d][r]), ~(d = p /\ r = q)
      PROVE  /\ Created(D[d][r]) /\ E[d][r].cl = D[d][r].cl /\ E[d][r].attr = D[d][r].attr
             /\ Owns(f, D, D[d][r]) /\ D[d][r].cl # e.cl
  <2>0. r \in Rows
    BY RowNumbers
  <2>1. Created(D[d][r]) /\ E[d][r].cl = D[d][r].cl /\ E[d][r].attr = D[d][r].attr
    <3>1. CASE d # p
      BY <3>1, <1>3, <1>8
    <3>2. CASE d = p
      <4>1. E[d] = T /\ r # q
        BY <3>2, <1>3, <1>8
      <4>2. D[d][r].name = E[d][r].name /\ E[d][r].cl = D[d][r].cl /\ E[d][r].attr = D[d][r].attr
        BY <2>0, <3>2, <4>1, <1>5
      <4>3. D[d][r].used
        BY <3>2, <4>1, <1>8, <1>16
      <4> QED
        BY <4>2, <4>3, <1>8 DEF Created
    <3> QED
      BY <3>1, <3>2
  <2>2. Owns(f, D, D[d][r])
    BY <2>1 DEF Sound, EntriesOwn
  <2>3. D[d][r].cl # e.cl
    BY <2>1 DEF Fresh, Untargeted
  <2> QED
    BY <2>1, <2>2, <2>3
<1>9. TablesOwned(f, E)
  <2> SUFFICES ASSUME NEW d \in Clusters, Holds(E[d])
               PROVE  d >= ROOT /\ f[d] = EOF /\ Leads(f, d)
    BY DEF TablesOwned
  <2>1. Holds(D[d])
    BY <1>3
  <2> QED
    BY <2>1 DEF Sound, TablesOwned
<1>10. EntriesOwn(f, E)
  <2> SUFFICES ASSUME NEW d \in Clusters, NEW r \in ScanRows, Created(E[d][r])
               PROVE  Owns(f, E, E[d][r])
    BY DEF EntriesOwn
  <2>1. CASE d = p /\ r = q
    BY <2>1, <1>3, <1>4, <1>6 DEF Owns, Fresh
  <2>2. CASE ~(d = p /\ r = q)
    <3>1. E[d][r].cl = D[d][r].cl /\ E[d][r].attr = D[d][r].attr /\ Owns(f, D, D[d][r])
      BY <2>2, <1>8
    <3>2. D[d][r].attr # ATTR_SUBDIRECTORY => ~Holds(E[D[d][r].cl])
      <4>1. D[d][r].cl \in Clusters
        BY <3>1, Numbers DEF Owns
      <4> QED
        BY <4>1, <3>1, <1>3 DEF Owns
    <3> QED
      BY <3>1, <3>2 DEF Owns
  <2> QED
    BY <2>1, <2>2
<1> HIDE DEF T
<1>11. OneOwner(E)
  <2> SUFFICES ASSUME NEW d1 \in Clusters, NEW d2 \in Clusters,
                      NEW r1 \in ScanRows, NEW r2 \in ScanRows,
                      Created(E[d1][r1]), Created(E[d2][r2]), E[d1][r1].cl = E[d2][r2].cl
               PROVE  d1 = d2 /\ r1 = r2
    BY DEF OneOwner
  <2>0. E[p][q].cl = e.cl
    BY <1>3, <1>4
  <2>1. CASE d1 = p /\ r1 = q
    BY <2>0, <2>1, <1>8
  <2>2. CASE d2 = p /\ r2 = q
    BY <2>0, <2>2, <1>8
  <2>3. CASE ~(d1 = p /\ r1 = q) /\ ~(d2 = p /\ r2 = q)
    <3>1. Created(D[d1][r1]) /\ E[d1][r1].cl = D[d1][r1].cl
      BY <2>3, <1>8
    <3>2. Created(D[d2][r2]) /\ E[d2][r2].cl = D[d2][r2].cl
      BY <2>3, <1>8
    <3>3. OneOwner(D) /\ D[d1][r1].cl = D[d2][r2].cl
      BY <3>1, <3>2 DEF Sound
    <3> QED
      BY <3>1, <3>2, <3>3 DEF OneOwner
  <2> QED
    BY <2>1, <2>2, <2>3
<1>12. ASSUME NEW d \in Clusters, NEW r \in ScanRows, Created(E[d][r]), E[d][r].cl = e.cl
       PROVE  d = p /\ r = q /\ E[d][r] = e
  <2>1. d = p /\ r = q
    BY <1>12, <1>8
  <2> QED
    BY <2>1, <1>3, <1>4
<1> QED
  BY <1>3, <1>6, <1>7, <1>9, <1>10, <1>11, <1>12, <1>15 DEF Sound

\* A write of the FAT that leaves the chains of tables and entries alone.
LEMMA NewFat ==
  ASSUME NEW f \in Fat, NEW g \in Fat, NEW D, Sound(f, D),
         \A d \in Clusters :
           /\ d >= ROOT /\ f[d] # EMPTY /\ Leads(f, d)
           /\ Holds(D[d]) \/ ~Untargeted(D, d)
           => g[d] = f[d] /\ Leads(g, d)
  PROVE  Sound(g, D)
<1>1. TablesOwned(g, D)
  <2> SUFFICES ASSUME NEW d \in Clusters, Holds(D[d])
               PROVE  d >= ROOT /\ g[d] = EOF /\ Leads(g, d)
    BY DEF TablesOwned
  <2>1. d >= ROOT /\ f[d] = EOF /\ Leads(f, d)
    BY DEF Sound, TablesOwned
  <2> QED
    BY <2>1, Numbers
<1>2. EntriesOwn(g, D)
  <2> SUFFICES ASSUME NEW d \in Clusters, NEW r \in ScanRows, Created(D[d][r])
               PROVE  Owns(g, D, D[d][r])
    BY DEF EntriesOwn
  <2>1. Owns(f, D, D[d][r])
    BY DEF Sound, EntriesOwn
  <2> DEFINE c == D[d][r].cl
  <2>2. c \in Clusters /\ c >= ROOT /\ f[c] # EMPTY /\ Leads(f, c)
    BY <2>1, Numbers DEF Owns
  <2>3. ~Untargeted(D, c)
    BY DEF Untargeted
  <2>4. g[c] = f[c] /\ Leads(g, c)
    BY <2>2, <2>3
  <2> QED
    BY <2>1, <2>4 DEF Owns
<1> QED
  BY <1>1, <1>2 DEF Sound

\* What write finds when it allocates for a folder or a file.
LEMMA Allocated ==
  ASSUME NEW f \in Fat, Links(f), NEW D, Sound(f, D), NEW p \in Clusters, Holds(D[p]),
         NEW A \in SUBSET Free(f), A # {}, NEW g, g = LinkUp(f, A, EOF)
  PROVE  /\ g \in Fat /\ Links(g) /\ Sound(g, D) /\ Min(A) \in A /\ Fresh(g, D, Min(A))
<1>1. f[p] = EOF
  BY DEF Sound, TablesOwned
<1>2. Reserved(f)
  BY <1>1, Numbers DEF Links, Reserved, ZeroFat
<1>3. /\ g \in Fat /\ Links(g) /\ Min(A) \in A /\ g[Min(A)] # EMPTY /\ Leads(g, Min(A))
      /\ \A d \in Clusters : d >= ROOT /\ f[d] # EMPTY /\ Leads(f, d)
                           => g[d] = f[d] /\ Leads(g, d)
  BY <1>2, Allocation
<1>4. Sound(g, D)
  BY <1>3, NewFat
<1>5. Min(A) \in DataClusters /\ Min(A) \in Clusters /\ f[Min(A)] = EMPTY
  BY <1>2, <1>3, FreeNumbers
<1>6. ~Holds(D[Min(A)])
  BY <1>5, Numbers DEF Sound, TablesOwned
<1>7. Untargeted(D, Min(A))
  BY <1>5 DEF Sound, EntriesOwn, Owns, Untargeted
<1> QED
  BY <1>3, <1>4, <1>5, <1>6, <1>7 DEF Fresh

\* What delete leaves when it releases a chain that nothing refers to.
LEMMA Released ==
  ASSUME NEW f \in Fat, Links(f), NEW D, Sound(f, D), NEW c, Fresh(f, D, c),
         NEW g, g = Release(f, c)
  PROVE  g \in Fat /\ Links(g) /\ Sound(g, D)
<1>1. c \in DataClusters /\ f[c] # EMPTY /\ Leads(f, c)
  BY DEF Fresh
<1>2. /\ g \in Fat /\ Links(g)
      /\ \A d \in Clusters : d >= ROOT /\ d # c /\ f[d] # EMPTY /\ Leads(f, d)
                           => g[d] = f[d] /\ Leads(g, d)
  BY <1>1, Releasing
<1>3. ~Holds(D[c]) /\ Untargeted(D, c)
  BY DEF Fresh
<1>4. Sound(g, D)
  BY <1>2, <1>3, NewFat
<1> QED
  BY <1>2, <1>4

-----------------------------------------------------------------------------
(* The inductive invariant *)

Calls == [pc : PCs, parent : Clusters, row : WriteRows, cl : Nat, entry : Entry,
          table : Table, buf : Bufs \union {Raw}, part : Nat]

\* The map create_fat32 builds.
Formatted == [ZeroFat EXCEPT ![0] = C0, ![FATC] = EOF, ![ROOT] = EOF]

\* No file system was ever written: no table has a row in use.
Blank == \A d \in Clusters : ~Holds(dirs[d])

\* What the write of the parent's table presupposes of the call in flight.
WritesParent ==
  /\ Holds(dirs[op.parent]) /\ op.table = MarkRow(dirs[op.parent], op.parent)
  /\ op.row = EntryRow(dirs[op.parent])
  /\ op.entry.used /\ op.entry.cl = op.cl /\ Fresh(diskFat, dirs, op.cl)

\* A folder's cluster between two disk writes of its creation or deletion.
TableOfCall ==
  /\ op.cl \in DataClusters /\ diskFat[op.cl] = EOF /\ Leads(diskFat, op.cl)
  /\ op.table = dirs[op.cl]

\* The chain delete will release, if the word it starts from leads to an end.
ReleasesChain ==
  op.cl \in Clusters /\ Ends(diskFat, op.cl) => Fresh(diskFat, dirs, op.cl)

\* No row of a text is in use.
TextsUnused == \A b \in Bufs, r \in Rows : ~Image[b][r].used

CallSound ==
  /\ op.pc = "off" => fat = ZeroFat
  /\ op.pc = "fmt_fat" => fat = Formatted /\ Blank
  /\ op.pc = "fmt_root" => diskFat = Formatted /\ Blank
  /\ op.pc = "mk_parent" =>
       WritesParent /\ op.entry.attr = ATTR_SUBDIRECTORY /\ diskFat[op.cl] = EOF
  /\ op.pc = "mk_table" =>
       /\ TableOfCall /\ ~Holds(op.table) /\ op.entry.used
       /\ \A d \in Clusters, r \in ScanRows :
            Created(dirs[d][r]) /\ dirs[d][r].cl = op.cl => dirs[d][r].attr = ATTR_SUBDIRECTORY
  /\ op.pc = "wf_parent" =>
       WritesParent /\ op.entry.attr # ATTR_SUBDIRECTORY /\ op.buf \in Bufs
  /\ op.pc = "wf_data" => op.cl \in DataClusters /\ diskFat[op.cl] # EMPTY /\ op.buf \in Bufs
  /\ op.pc = "df_fat" => ReleasesChain
  /\ op.pc = "dd_table" => TableOfCall /\ ~Occupied(op.table) /\ Untargeted(dirs, op.cl)
  /\ op.pc = "dd_fat" => Fresh(diskFat, dirs, op.cl) /\ diskFat[op.cl] = EOF

\* Only a disk without signature may have never been written.
Unsigned == ~signed => op.pc = "off" /\ Blank

\* A delete of the empty name that hit the row write marks: the walk starts at
\* cluster 0 and leaves the map.
Stuck == op.pc = "df_fat" /\ op.cl = 0
Known == Defined /\ ~Stuck

DiskInv ==
  /\ TextsUnused /\ TypeOK /\ CacheCoherent
  /\ Defined => Links(diskFat)
  /\ Known => Sound(diskFat, dirs) /\ Unsigned /\ CallSound

LEMMA Steps ==
  /\ \A x \in PCs : Step(x) \in Calls /\ Step(x).pc = x /\ Step(x).cl = 0
  /\ ZeroEntry \in Entry /\ ZeroTable \in Table /\ 0 \in Clusters
<1>1. ZeroEntry \in Entry
  BY DEF ZeroEntry, Entry, EmptyName, Name
<1>2. ZeroTable \in Table
  BY <1>1 DEF ZeroTable, Table
<1>3. 0 \in Clusters /\ 0 \in WriteRows
  BY Numbers, RowNumbers
<1>4. ASSUME NEW x \in PCs PROVE Step(x) \in Calls /\ Step(x).pc = x /\ Step(x).cl = 0
  BY <1>1, <1>2, <1>3 DEF Step, Calls, Raw
<1> QED
  BY <1>1, <1>2, <1>3, <1>4

LEMMA MarkRowTable ==
  ASSUME NEW t \in Table, NEW p \in Clusters
  PROVE  MarkRow(t, p) \in Table
<1>1. CASE p \in Rows
  <2>1. t[p] \in Entry
    BY <1>1 DEF Table
  <2>2. [t[p] EXCEPT !.used = TRUE] \in Entry
    BY <2>1 DEF Entry
  <2>3. MarkRow(t, p) = [t EXCEPT ![p] = [t[p] EXCEPT !.used = TRUE]]
    BY <1>1 DEF MarkRow
  <2> QED
    BY <2>2, <2>3 DEF Table
<1> QED
  BY <1>1 DEF MarkRow

\* A call that returns, or ends a boot, with the disk as it was.
LEMMA Quiet ==
  ASSUME DiskInv, Known, signed \/ op.pc # "off", op' = Step("idle"), fat' = diskFat,
         UNCHANGED <<signed, diskFat, dirs, data>>
  PROVE  DiskInv'
<1>1. "idle" \in PCs
  BY DEF PCs
<1>2. op'.pc = "idle" /\ op'.cl \in Clusters /\ op' \in Calls
  BY <1>1, Steps
<1>3. TypeOK'
  BY <1>2 DEF DiskInv, TypeOK, Calls
<1>4. Links(diskFat)' /\ Sound(diskFat, dirs)' /\ CacheCoherent' /\ Unsigned' /\ CallSound'
  BY <1>2 DEF DiskInv, Known, CacheCoherent, Unsigned, CallSound
<1> QED
  BY <1>3, <1>4 DEF DiskInv, TextsUnused

\* Nothing but types is claimed of a call that left the driver's data.
LEMMA Lost ==
  ASSUME DiskInv, op' = Step("wild"), UNCHANGED <<signed, diskFat, dirs, data, fat>>
  PROVE  DiskInv'
<1>1. "wild" \in PCs
  BY DEF PCs
<1>2. op'.pc = "wild" /\ op'.cl \in Clusters /\ op' \in Calls
  BY <1>1, Steps
<1>3. TypeOK'
  BY <1>2 DEF DiskInv, TypeOK, Calls
<1>4. CacheCoherent'
  BY <1>2 DEF CacheCoherent
<1> QED
  BY <1>2, <1>3, <1>4 DEF DiskInv, TextsUnused, Known, Defined

LEMMA IdleFacts ==
  ASSUME DiskInv, Idle
  PROVE  /\ Known /\ signed /\ fat = diskFat /\ diskFat \in Fat /\ dirs \in [Clusters -> Table]
         /\ Links(diskFat) /\ Sound(diskFat, dirs)
  BY DEF Idle, DiskInv, Known, Defined, Stuck, CacheCoherent, Unsigned, TypeOK, Fat

LEMMA Parents == ReqParents \subseteq Clusters
  BY RequestAssumption, Numbers

-----------------------------------------------------------------------------
(* Power on, power off *)

LEMMA FormattedMap ==
  /\ Formatted \in Fat /\ Reserved(Formatted) /\ Links(Formatted) /\ Leads(Formatted, ROOT)
  /\ \A c \in DataClusters : Formatted[c] = EMPTY
<1>1. Formatted \in Fat
  BY Numbers DEF Formatted, Fat
<1>2. Reserved(Formatted)
  BY Numbers DEF Formatted, Fat, Reserved
<1>3. ASSUME NEW c \in DataClusters PROVE Formatted[c] = EMPTY
  <2>1. c # 0 /\ c # FATC /\ c # ROOT /\ c \in Clusters
    BY Numbers
  <2> QED
    BY <2>1 DEF Formatted, ZeroFat
<1>4. Links(Formatted)
  BY <1>2, <1>3 DEF Links, Reserved
<1>5. Leads(Formatted, ROOT)
  BY <1>3, Numbers DEF Leads
<1> QED
  BY <1>1, <1>2, <1>3, <1>4, <1>5

\* With no row in use anywhere there is nothing a FAT could break.
LEMMA BlankSound ==
  ASSUME Blank, NEW f, NEW g, Sound(f, dirs)
  PROVE  Sound(g, dirs)
<1>1. \A d \in Clusters, r \in ScanRows : ~Created(dirs[d][r])
  BY RowNumbers DEF Blank, Holds, Created
<1> QED
  BY <1>1 DEF Blank, Sound, TablesOwned, EntriesOwn

LEMMA InitSound == TextsUnused /\ Init => DiskInv
<1> SUFFICES ASSUME TextsUnused, Init PROVE DiskInv
  OBVIOUS
<1> USE DEF Init
<1>1. "off" \in PCs
  BY DEF PCs
<1>2. op.pc = "off" /\ op \in Calls /\ op.cl \in Clusters
  BY <1>1, Steps
<1>3. TypeOK
  BY <1>2, Steps, Numbers DEF TypeOK, Calls, Fat
<1>4. \A d \in Clusters, r \in Rows : ~dirs[d][r].used /\ dirs[d][r].name = EmptyName
  BY DEF ZeroTable, ZeroEntry
<1>5. Blank
  BY <1>4 DEF Blank, Holds
<1>6. Sound(diskFat, dirs)
  <2>1. \A d \in Clusters, r \in ScanRows : ~Created(dirs[d][r])
    BY <1>4, RowNumbers DEF Created
  <2>2. TablesOwned(diskFat, dirs)
    BY <1>5 DEF Blank, TablesOwned
  <2>3. NamesUsed(dirs)
    BY <1>4, VisibleNames DEF NamesUsed
  <2>4. MarkRows(dirs)
    <3>1. \A d \in Clusters, r \in Rows : dirs[d][r].cl = 0
      BY DEF ZeroTable, ZeroEntry
    <3>2. \A d \in Clusters : ~Occupied(dirs[d])
      BY <1>4, RowNumbers DEF Occupied
    <3> QED
      BY <1>4, <3>1, <3>2, VisibleNames, RowNumbers DEF MarkRows, MarkOf
  <2> QED
    BY <2>1, <2>2, <2>3, <2>4 DEF Sound, EntriesOwn, OneOwner
<1>7. Links(diskFat)
  BY Numbers DEF Links, ZeroFat
<1>8. ~Stuck
  BY <1>2 DEF Stuck
<1> QED
  BY <1>2, <1>3, <1>5, <1>6, <1>7 DEF DiskInv, CacheCoherent, Unsigned, CallSound

LEMMA BootSignedSound ==
  ASSUME DiskInv, BootSigned PROVE DiskInv'
  BY Quiet DEF BootSigned, Known, Defined, Stuck

LEMMA BootEmptySound ==
  ASSUME DiskInv, BootEmpty PROVE DiskInv'
<1> USE DEF BootEmpty
<1>1. "fmt_fat" \in PCs
  BY DEF PCs
<1>2. op'.pc = "fmt_fat" /\ op'.cl \in Clusters /\ op' \in Calls
  BY <1>1, Steps
<1>3. fat = ZeroFat /\ Blank /\ Links(diskFat) /\ Sound(diskFat, dirs)
  BY DEF DiskInv, Known, Defined, Stuck, CallSound, Unsigned
<1>4. fat' = Formatted /\ fat' \in Fat
  BY <1>3, FormattedMap DEF Formatted
<1>5. TypeOK'
  BY <1>2, <1>4 DEF DiskInv, TypeOK, Calls, Fat
<1>6. CallSound'
  BY <1>2, <1>3, <1>4 DEF CallSound, Blank
<1>7. Unsigned' /\ CacheCoherent'
  BY <1>2 DEF Unsigned, CacheCoherent
<1> QED
  BY <1>3, <1>5, <1>6, <1>7 DEF DiskInv, TextsUnused

LEMMA FormatFatSound ==
  ASSUME DiskInv, FormatFat PROVE DiskInv'
<1> USE DEF FormatFat
<1>1. "fmt_root" \in PCs
  BY DEF PCs
<1>2. op'.pc = "fmt_root" /\ op'.cl \in Clusters /\ op' \in Calls
  BY <1>1, Steps
<1>3. fat = Formatted /\ Blank /\ Sound(diskFat, dirs) /\ signed
  BY DEF DiskInv, Known, Defined, Stuck, CallSound, Unsigned
<1>4. Links(diskFat') /\ Sound(diskFat', dirs')
  BY <1>3, FormattedMap, BlankSound
<1>5. TypeOK'
  BY <1>2 DEF DiskInv, TypeOK, Calls
<1>6. CallSound'
  BY <1>2, <1>3 DEF CallSound, Blank
<1>7. Unsigned' /\ CacheCoherent'
  BY <1>2, <1>3 DEF Unsigned, CacheCoherent
<1> QED
  BY <1>4, <1>5, <1>6, <1>7 DEF DiskInv, TextsUnused

LEMMA FormatRootSound ==
  ASSUME DiskInv, FormatRoot PROVE DiskInv'
<1> DEFINE T == [ZeroTable EXCEPT ![0] = DirEntry(RootName, ROOT)]
<1>1. "idle" \in PCs
  BY DEF PCs
<1>2. op'.pc = "idle" /\ op'.cl \in Clusters /\ op' \in Calls
  BY <1>1, Steps DEF FormatRoot
<1>3. /\ diskFat = Formatted /\ Blank /\ Sound(diskFat, dirs) /\ Links(diskFat) /\ signed
      /\ fat = diskFat /\ dirs \in [Clusters -> Table] /\ TextsUnused
  BY DEF FormatRoot, DiskInv, Known, Defined, Stuck, CallSound, Unsigned, CacheCoherent, TypeOK
<1>4. ROOT \in Clusters /\ dirs' = [dirs EXCEPT ![ROOT] = T]
  BY Numbers DEF FormatRoot
<1>5. T \in Table
  <2>1. DirEntry(RootName, ROOT) \in Entry
    BY Numbers DEF DirEntry, Entry, RootName, Name, ATTR_SUBDIRECTORY
  <2> QED
    BY <2>1, Steps, RowNumbers DEF Table
<1>6. /\ T[0].used
      /\ \A r \in Rows : r # 0 => ~T[r].used /\ T[r].name = EmptyName /\ T[r].cl = 0
  <2>1. T[0] = DirEntry(RootName, ROOT)
    BY RowNumbers DEF ZeroTable
  <2>2. \A r \in Rows : r # 0 => T[r] = ZeroEntry
    BY DEF ZeroTable
  <2> QED
    BY <2>1, <2>2 DEF DirEntry, ZeroEntry
<1> HIDE DEF T
<1>7. dirs' \in [Clusters -> Table] /\ dirs'[ROOT] = T
      /\ \A d \in Clusters : d # ROOT => dirs'[d] = dirs[d]
  BY <1>3, <1>4, <1>5
<1>8. \A d \in Clusters, r \in ScanRows : ~Created(dirs'[d][r]) /\ ~Created(dirs[d][r])
  BY <1>3, <1>6, <1>7, RowNumbers DEF Blank, Holds, Created
<1>9. NamesUsed(dirs')
  BY <1>3, <1>6, <1>7, VisibleNames DEF NamesUsed, Sound
<1>10. \A d \in Clusters : Holds(dirs'[d]) /\ ~Holds(dirs[d]) => d = ROOT
  BY <1>7
<1>11. ROOT >= ROOT /\ diskFat[ROOT] = EOF /\ Leads(diskFat, ROOT)
  BY <1>3, FormattedMap, Numbers DEF Reserved
<1>15. MarkRows(dirs')
  <2> SUFFICES ASSUME NEW d \in Clusters, d \in ScanRows, d # LastWriteRow
               PROVE  MarkOf(dirs'[d], d)
    BY DEF MarkRows
  <2>1. CASE d # ROOT
    BY <2>1, <1>3, <1>7 DEF Sound, MarkRows
  <2>2. CASE d = ROOT
    <3>1. d \in Rows /\ d # 0 /\ ~Occupied(T)
      BY <1>6, RowNumbers DEF Occupied
    <3> QED
      BY <2>2, <3>1, <1>6, <1>7, VisibleNames DEF MarkOf
  <2> QED
    BY <2>1, <2>2
<1>12. Sound(diskFat, dirs')
  BY <1>3, <1>8, <1>9, <1>10, <1>11, <1>15, NoNewEntry
<1>13. TypeOK'
  BY <1>2, <1>7 DEF FormatRoot, DiskInv, TypeOK, Calls
<1>14. CallSound' /\ Unsigned' /\ CacheCoherent'
  BY <1>2, <1>3 DEF FormatRoot, CallSound, Unsigned, CacheCoherent
<1> QED
  BY <1>3, <1>12, <1>13, <1>14 DEF FormatRoot, DiskInv, TextsUnused

LEMMA PowerLossSound ==
  ASSUME DiskInv, ~Stuck, PowerLoss PROVE DiskInv'
<1> USE DEF PowerLoss
<1>1. "off" \in PCs
  BY DEF PCs
<1>2. op'.pc = "off" /\ op'.cl \in Clusters /\ op' \in Calls
  BY <1>1, Steps
<1>3. Links(diskFat) /\ Sound(diskFat, dirs) /\ signed
  BY DEF DiskInv, Known, Defined, Stuck, Unsigned
<1>4. TypeOK'
  BY <1>2, Numbers DEF DiskInv, TypeOK, Calls, Fat
<1>5. CallSound' /\ Unsigned' /\ CacheCoherent'
  BY <1>2, <1>3 DEF CallSound, Unsigned, CacheCoherent
<1> QED
  BY <1>3, <1>4, <1>5 DEF DiskInv, TextsUnused

-----------------------------------------------------------------------------
(* Calls that leave the disk as it is *)

LEMMA ReadDirectorySound ==
  ASSUME DiskInv, NEW p, NEW n, ReadDirectory(p, n) PROVE DiskInv'
  BY IdleFacts, Quiet DEF ReadDirectory, Reply, Return, Idle

LEMMA ReadSound ==
  ASSUME DiskInv, NEW p, NEW n, Read(p, n) PROVE DiskInv'
<1>1. ASSUME NEW size, ReadFails(p, n, size) PROVE DiskInv'
  BY <1>1, IdleFacts, Quiet DEF ReadFails, Reply, Return, Idle
<1>2. ASSUME NEW size, ReadCopies(p, n, size) PROVE DiskInv'
  <2>1. Idle /\ UNCHANGED <<signed, diskFat, dirs, data>> /\ fat' = diskFat
        /\ (op' = Step("idle") \/ op' = Step("wild"))
    BY <1>2 DEF ReadCopies
  <2>2. Known /\ signed /\ fat' = fat
    BY <2>1, IdleFacts
  <2> QED
    BY <2>1, <2>2, Quiet, Lost
<1> QED
  BY <1>1, <1>2 DEF Read

LEMMA WriteRefusedSound ==
  ASSUME DiskInv, NEW p, NEW n, WriteRefused(p, n) PROVE DiskInv'
  BY IdleFacts, Quiet DEF WriteRefused, Reply, Return, Idle

LEMMA WriteWildSound ==
  ASSUME DiskInv, NEW p, NEW n, NEW size, WriteWild(p, n, size) PROVE DiskInv'
  BY Lost DEF WriteWild

LEMMA WriteNoSpaceSound ==
  ASSUME DiskInv, NEW p, NEW n, NEW size, WriteNoSpace(p, n, size) PROVE DiskInv'
<1>1. Idle /\ op' = Step("idle") /\ UNCHANGED <<signed, diskFat, dirs, data>>
  BY DEF WriteNoSpace, Writable, Reply, Return
<1>2. Known /\ signed /\ diskFat \in Fat
  BY <1>1, IdleFacts
<1>3. fat' = diskFat
  BY <1>2, Undone DEF WriteNoSpace
<1> QED
  BY <1>1, <1>2, <1>3, Quiet

LEMMA DeleteRefusedSound ==
  ASSUME DiskInv, NEW p, NEW n, DeleteRefused(p, n) PROVE DiskInv'
  BY IdleFacts, Quiet DEF DeleteRefused, Reply, Return, Idle

-----------------------------------------------------------------------------
(* write *)

\* The branches of write up to the disk write of the FAT differ in the chain
\* they allocate and in the step that follows.
LEMMA WriteStarts ==
  ASSUME DiskInv, NEW p \in Clusters, NEW n \in Name, Writable(p, n),
         NEW A \in SUBSET Free(diskFat), A # {}, NEW g, g = LinkUp(diskFat, A, EOF),
         fat' = g, diskFat' = g, UNCHANGED <<signed, dirs, data>>,
         op' \in Calls, op'.pc \in {"mk_parent", "wf_parent"},
         op'.parent = p, op'.cl = Min(A), op'.table = MarkRow(dirs[p], p),
         op'.row = EntryRow(dirs[p]),
         op'.entry.cl = Min(A), op'.entry.used,
         op'.pc = "mk_parent" => op'.entry.attr = ATTR_SUBDIRECTORY /\ g[Min(A)] = EOF,
         op'.pc = "wf_parent" => op'.entry.attr # ATTR_SUBDIRECTORY /\ op'.buf \in Bufs
  PROVE  DiskInv'
<1>1. /\ Known /\ signed /\ diskFat \in Fat /\ dirs \in [Clusters -> Table]
      /\ Links(diskFat) /\ Sound(diskFat, dirs)
  BY IdleFacts DEF Writable
<1>2. p \in Clusters /\ Holds(dirs[p])
  BY Parents, RowNumbers DEF Writable, IsFolder, Holds
<1>3. g \in Fat /\ Links(g) /\ Sound(g, dirs) /\ Min(A) \in A /\ Fresh(g, dirs, Min(A))
  BY <1>1, <1>2, Allocated
<1>4. Min(A) \in Clusters
  BY <1>3, Numbers DEF Fresh
<1>5. TypeOK'
  BY <1>3, <1>4 DEF DiskInv, TypeOK, Fat, Calls
<1>6. WritesParent'
  BY <1>2, <1>3 DEF WritesParent
<1>7. CallSound' /\ Unsigned' /\ CacheCoherent'
  BY <1>1, <1>6 DEF CallSound, Unsigned, CacheCoherent
<1> QED
  BY <1>3, <1>5, <1>7 DEF DiskInv, TextsUnused

LEMMA WriteFolderSound ==
  ASSUME DiskInv, NEW p \in Clusters, NEW n \in Name, WriteFolder(p, n) PROVE DiskInv'
<1> DEFINE new == Min(Free(diskFat))
           g == [diskFat EXCEPT ![new] = EOF]
<1>1. diskFat \in Fat /\ dirs \in [Clusters -> Table] /\ p \in Clusters
  BY IdleFacts, Parents DEF WriteFolder, Writable
<1>2. new \in Free(diskFat) /\ new \in Clusters /\ new \in Nat
  <2>1. new \in Free(diskFat)
    BY FreeNumbers, MinProperty DEF WriteFolder
  <2> QED
    BY <2>1, FreeNumbers
<1>3. Min({new}) = new
  <2>1. {new} # {} /\ {new} \in SUBSET Nat
    BY <1>2
  <2>2. Min({new}) \in {new}
    BY <2>1, MinProperty
  <2> QED
    BY <2>2
<1>4. g = LinkUp(diskFat, {new}, EOF)
  <2>1. ASSUME NEW c \in Clusters PROVE g[c] = LinkUp(diskFat, {new}, EOF)[c]
    <3>1. c # new => c \notin {new}
      OBVIOUS
    <3>2. c = new => ~\E x \in {new} : x > c
      BY <1>2
    <3> QED
      BY <1>1, <1>2, <3>1, <3>2 DEF LinkUp, Fat
  <2> QED
    BY <1>1, <2>1 DEF LinkUp, Fat
<1>5. Step("mk_parent") \in Calls
  BY Steps DEF PCs
<1>6. DirEntry(n, new) \in Entry /\ MarkRow(dirs[p], p) \in Table /\ EntryRow(dirs[p]) \in WriteRows
  <2>1. DirEntry(n, new) \in Entry
    BY <1>2, RequestAssumption DEF DirEntry, Entry, ATTR_SUBDIRECTORY
  <2> QED
    BY <2>1, <1>1, MarkRowTable, EntryRowIn
<1>7. /\ op' \in Calls /\ op'.pc = "mk_parent" /\ op'.parent = p /\ op'.cl = new
      /\ op'.table = MarkRow(dirs[p], p) /\ op'.entry = DirEntry(n, new)
      /\ op'.row = EntryRow(dirs[p])
  <2>1. op' = [Step("mk_parent") EXCEPT
                 !.parent = p, !.cl = new, !.row = EntryRow(dirs[p]),
                 !.entry = DirEntry(n, new), !.table = MarkRow(dirs[p], p)]
    BY DEF WriteFolder
  <2>2. Step("mk_parent").pc = "mk_parent"
    BY DEF Step
  <2> QED
    BY <2>1, <2>2, <1>1, <1>2, <1>5, <1>6 DEF Calls
<1>8. /\ op'.entry.cl = new /\ op'.entry.used /\ op'.entry.attr = ATTR_SUBDIRECTORY
  BY <1>7 DEF DirEntry, Created
<1>9. g[new] = EOF
  BY <1>1, <1>2 DEF Fat
<1>10. Writable(p, n) /\ fat' = g /\ diskFat' = g /\ UNCHANGED <<signed, dirs, data>>
  BY DEF WriteFolder
<1> HIDE DEF new, g
<1>11. {new} \in SUBSET Free(diskFat) /\ {new} # {}
  BY <1>2
<1> QED
  BY <1>3, <1>4, <1>7, <1>8, <1>9, <1>10, <1>11, WriteStarts

LEMMA WriteFileSound ==
  ASSUME DiskInv, NEW p \in Clusters, NEW n \in Name, NEW size \in Nat, NEW b \in Bufs,
         WriteFile(p, n, size, b)
  PROVE  DiskInv'
<1> DEFINE A == FirstFree(diskFat, divceil(size, CLUSTER_SIZE))
           new == Min(A)
<1>1. diskFat \in Fat /\ dirs \in [Clusters -> Table] /\ p \in Clusters
  BY IdleFacts, Parents DEF WriteFile, Writable
<1>2. A \in SUBSET Free(diskFat) /\ A # {}
  <2>1. size \in Nat \ {0} /\ CLUSTER_SIZE \in Nat \ {0}
    BY RequestAssumption, SizeAssumption DEF WriteFile
  <2>2. divceil(size, CLUSTER_SIZE) \in Nat \ {0}
    BY <2>1, DivceilPositive
  <2>3. divceil(size, CLUSTER_SIZE) <= Cardinality(Free(diskFat))
    BY DEF WriteFile
  <2> QED
    BY <2>2, <2>3, FirstFreeSome
<1>3. new \in Clusters /\ new \in Nat
  <2>1. A \in SUBSET Clusters /\ A \in SUBSET Nat
    BY <1>2, FreeNumbers
  <2>2. new \in A
    BY <2>1, <1>2, MinProperty
  <2> QED
    BY <2>1, <2>2
<1>4. /\ Writable(p, n) /\ fat' = LinkUp(diskFat, A, EOF) /\ diskFat' = fat'
      /\ UNCHANGED <<signed, dirs, data>>
      /\ op' = [Step("wf_parent") EXCEPT
                  !.parent = p, !.cl = new, !.row = EntryRow(dirs[p]),
                  !.entry = FileEntry(n, new, size),
                  !.table = MarkRow(dirs[p], p), !.buf = b]
  BY DEF WriteFile
<1> HIDE DEF A, new
<1>5. Step("wf_parent") \in Calls /\ Step("wf_parent").pc = "wf_parent"
  BY Steps DEF PCs
<1>6. /\ FileEntry(n, new, size) \in Entry /\ MarkRow(dirs[p], p) \in Table
      /\ EntryRow(dirs[p]) \in WriteRows
  <2>1. FileEntry(n, new, size) \in Entry
    BY <1>3, RequestAssumption DEF FileEntry, Entry
  <2> QED
    BY <2>1, <1>1, MarkRowTable, EntryRowIn
<1>7. /\ op' \in Calls /\ op'.pc = "wf_parent" /\ op'.parent = p /\ op'.cl = new
      /\ op'.table = MarkRow(dirs[p], p) /\ op'.entry = FileEntry(n, new, size) /\ op'.buf = b
      /\ op'.row = EntryRow(dirs[p])
  BY <1>1, <1>3, <1>4, <1>5, <1>6 DEF Calls
<1>8. /\ op'.entry.cl = new /\ op'.entry.used /\ op'.entry.attr # ATTR_SUBDIRECTORY
  BY <1>7 DEF FileEntry, Created, ATTR_SUBDIRECTORY
<1>9. new = Min(A)
  BY DEF new
<1> QED
  BY <1>2, <1>4, <1>7, <1>8, <1>9, WriteStarts

\* The write of the parent's table that both branches share.
LEMMA ParentWritten ==
  ASSUME DiskInv, Known, WritesParent,
         op.entry.attr = ATTR_SUBDIRECTORY => diskFat[op.cl] = EOF,
         dirs' = [dirs EXCEPT ![op.parent] = [op.table EXCEPT ![op.row] = op.entry]]
  PROVE  /\ dirs' \in [Clusters -> Table] /\ Sound(diskFat, dirs')
         /\ op.cl # op.parent /\ dirs'[op.cl] = dirs[op.cl]
         /\ \A d \in Clusters, r \in ScanRows :
              Created(dirs'[d][r]) /\ dirs'[d][r].cl = op.cl =>
                d = op.parent /\ r = op.row /\ dirs'[d][r] = op.entry
<1>1. /\ dirs \in [Clusters -> Table] /\ Sound(diskFat, dirs)
      /\ op.parent \in Clusters /\ op.row \in WriteRows /\ op.entry \in Entry
  BY DEF DiskInv, TypeOK
<1>2. PICK p \in Clusters : p = op.parent
  BY <1>1
<1>3. PICK q \in WriteRows : q = op.row
  BY <1>1
<1>4. PICK e \in Entry : e = op.entry
  BY <1>1
<1>5. PICK f, D, E : f = diskFat /\ D = dirs /\ E = dirs'
  OBVIOUS
<1>6. /\ Holds(D[p]) /\ e.used /\ e.cl = op.cl /\ Fresh(f, D, e.cl)
      /\ E = EntryWritten(D, p, q, e) /\ q = EntryRow(D[p])
      /\ e.attr = ATTR_SUBDIRECTORY => f[e.cl] = EOF
      /\ D \in [Clusters -> Table] /\ Sound(f, D)
  <2>1. /\ Holds(dirs[op.parent]) /\ op.table = MarkRow(dirs[op.parent], op.parent)
        /\ op.entry.used /\ op.entry.cl = op.cl /\ Fresh(diskFat, dirs, op.cl)
        /\ op.row = EntryRow(dirs[op.parent])
    BY DEF WritesParent
  <2>2. E = EntryWritten(D, p, q, e)
    BY <1>2, <1>3, <1>4, <1>5, <2>1 DEF EntryWritten
  <2> QED
    BY <1>1, <1>2, <1>3, <1>4, <1>5, <2>1, <2>2
<1>7. /\ E \in [Clusters -> Table] /\ Sound(f, E) /\ e.cl # p /\ E[e.cl] = D[e.cl]
      /\ \A d \in Clusters, r \in ScanRows :
           Created(E[d][r]) /\ E[d][r].cl = e.cl => d = p /\ r = q /\ E[d][r] = e
  BY <1>6, NewEntry
<1> QED
  BY <1>2, <1>3, <1>4, <1>5, <1>6, <1>7

LEMMA FolderParentSound ==
  ASSUME DiskInv, FolderParent PROVE DiskInv'
<1>1. /\ Known /\ signed /\ WritesParent /\ op.entry.attr = ATTR_SUBDIRECTORY
      /\ diskFat[op.cl] = EOF /\ Links(diskFat) /\ fat = diskFat /\ op \in Calls
  BY DEF FolderParent, DiskInv, Known, Defined, Stuck, CallSound, Unsigned, CacheCoherent, TypeOK, Calls
<1>2. /\ dirs' \in [Clusters -> Table] /\ Sound(diskFat, dirs')
      /\ op.cl # op.parent /\ dirs'[op.cl] = dirs[op.cl]
      /\ \A d \in Clusters, r \in ScanRows :
           Created(dirs'[d][r]) /\ dirs'[d][r].cl = op.cl => dirs'[d][r] = op.entry
  BY <1>1, ParentWritten DEF FolderParent
<1>3. op.cl \in DataClusters /\ Leads(diskFat, op.cl) /\ ~Holds(dirs[op.cl]) /\ op.entry.used
      /\ op.cl \in Clusters
  BY <1>1, Numbers DEF WritesParent, Fresh, Created
<1>4. /\ op'.pc = "mk_table" /\ op'.cl = op.cl /\ op'.table = dirs'[op.cl]
      /\ op'.entry.used /\ op' \in Calls
  <2>1. op' = [op EXCEPT !.pc = "mk_table", !.table = dirs'[op.cl], !.entry.cl = op.parent]
    BY DEF FolderParent
  <2>2. op.parent \in Nat /\ "mk_table" \in PCs /\ dirs'[op.cl] \in Table
    BY <1>1, <1>2, <1>3, Numbers DEF Calls, PCs
  <2>3. [op.entry EXCEPT !.cl = op.parent] \in Entry
    BY <1>1, <2>2 DEF Calls, Entry
  <2> QED
    BY <1>1, <1>3, <2>1, <2>2, <2>3 DEF Calls, Entry
<1>5. UNCHANGED <<signed, diskFat, fat>> /\ DOMAIN data' = DOMAIN data
  BY DEF FolderParent
<1>6. TypeOK'
  BY <1>2, <1>3, <1>4, <1>5 DEF DiskInv, TypeOK, Calls
<1>7. CallSound'
  <2>1. TableOfCall'
    BY <1>1, <1>3, <1>4, <1>5 DEF TableOfCall
  <2> QED
    BY <2>1, <1>1, <1>2, <1>3, <1>4 DEF CallSound
<1>8. Unsigned' /\ CacheCoherent'
  BY <1>1, <1>5 DEF Unsigned, CacheCoherent
<1> QED
  BY <1>1, <1>2, <1>5, <1>6, <1>7, <1>8 DEF DiskInv, TextsUnused

LEMMA FileParentSound ==
  ASSUME DiskInv, FileParent PROVE DiskInv'
<1>1. /\ Known /\ signed /\ WritesParent /\ op.entry.attr # ATTR_SUBDIRECTORY /\ op.buf \in Bufs
      /\ Links(diskFat) /\ fat = diskFat /\ op \in Calls
  BY DEF FileParent, DiskInv, Known, Defined, Stuck, CallSound, Unsigned, CacheCoherent, TypeOK, Calls
<1>2. dirs' \in [Clusters -> Table] /\ Sound(diskFat, dirs')
  BY <1>1, ParentWritten DEF FileParent
<1>3. op.cl \in DataClusters /\ op.cl \in Clusters /\ diskFat[op.cl] # EMPTY
  BY <1>1, Numbers DEF WritesParent, Fresh
<1>4. op'.pc = "wf_data" /\ op'.cl = op.cl /\ op'.buf = op.buf /\ op' \in Calls
  BY <1>1 DEF FileParent, Calls, PCs
<1>5. UNCHANGED <<signed, diskFat, fat>> /\ DOMAIN data' = DOMAIN data
  BY DEF FileParent
<1>6. TypeOK'
  BY <1>2, <1>3, <1>4, <1>5 DEF DiskInv, TypeOK, Calls
<1>7. CallSound' /\ Unsigned' /\ CacheCoherent'
  BY <1>1, <1>3, <1>4, <1>5 DEF CallSound, Unsigned, CacheCoherent
<1> QED
  BY <1>1, <1>2, <1>5, <1>6, <1>7 DEF DiskInv, TextsUnused

TablePut(D, c, T) == [D EXCEPT ![c] = T]

\* The write of a table without entries over a cluster whose table has none.
LEMMA TableWritten ==
  ASSUME NEW f, NEW D \in [Clusters -> Table], Sound(f, D), NEW c \in Clusters, NEW T \in Table,
         \A r \in ScanRows : ~Created(T[r]),
         \A r \in Rows : T[r].name \in Visible => T[r].used,
         c \in ScanRows /\ c # LastWriteRow => MarkOf(T, c),
         Holds(T) /\ ~Holds(D[c]) =>
           /\ c >= ROOT /\ f[c] = EOF /\ Leads(f, c)
           /\ \A d \in Clusters, r \in ScanRows :
                Created(D[d][r]) /\ D[d][r].cl = c => D[d][r].attr = ATTR_SUBDIRECTORY,
         NEW E, E = TablePut(D, c, T)
  PROVE  /\ E \in [Clusters -> Table] /\ Sound(f, E) /\ E[c] = T
         /\ \A x : Untargeted(D, x) => Untargeted(E, x)
<1>1. E \in [Clusters -> Table] /\ E[c] = T /\ \A d \in Clusters : d # c => E[d] = D[d]
  BY DEF TablePut
<1>2. NamesUsed(E)
  BY <1>1 DEF NamesUsed, Sound
<1>3. \A d \in Clusters, r \in ScanRows : Created(E[d][r]) =>
        Created(D[d][r]) /\ E[d][r].cl = D[d][r].cl /\ E[d][r].attr = D[d][r].attr
  BY <1>1
<1>4. ASSUME NEW d \in Clusters, Holds(E[d]), ~Holds(D[d])
      PROVE  /\ d >= ROOT /\ f[d] = EOF /\ Leads(f, d)
             /\ \A x \in Clusters, r \in ScanRows :
                  Created(D[x][r]) /\ D[x][r].cl = d => D[x][r].attr = ATTR_SUBDIRECTORY
  <2>1. d = c
    BY <1>1, <1>4
  <2> QED
    BY <2>1, <1>1, <1>4
<1>5. \A d \in Clusters : Holds(E[d]) /\ ~Holds(D[d]) =>
        /\ d >= ROOT /\ f[d] = EOF /\ Leads(f, d)
        /\ \A x \in Clusters, r \in ScanRows :
             Created(D[x][r]) /\ D[x][r].cl = d => D[x][r].attr = ATTR_SUBDIRECTORY
  BY <1>4
<1>8. MarkRows(E)
  BY <1>1 DEF MarkRows, Sound
<1>6. Sound(f, E)
  BY <1>2, <1>3, <1>5, <1>8, NoNewEntry
<1>7. \A x : Untargeted(D, x) => Untargeted(E, x)
  BY <1>3 DEF Untargeted
<1> QED
  BY <1>1, <1>6, <1>7

\* A call that returns after a disk write.
LEMMA Returned ==
  ASSUME DiskInv, signed, op' = Step("idle"), UNCHANGED signed, DOMAIN data' = Clusters,
         diskFat' \in Fat, fat' = diskFat', dirs' \in [Clusters -> Table],
         Links(diskFat'), Sound(diskFat', dirs')
  PROVE  DiskInv'
<1>1. "idle" \in PCs
  BY DEF PCs
<1>2. op'.pc = "idle" /\ op'.cl \in Clusters /\ op' \in Calls
  BY <1>1, Steps
<1>3. TypeOK'
  BY <1>2 DEF DiskInv, TypeOK, Calls, Fat
<1>4. CacheCoherent' /\ Unsigned' /\ CallSound'
  BY <1>2 DEF CacheCoherent, Unsigned, CallSound
<1> QED
  BY <1>3, <1>4 DEF DiskInv, TextsUnused

LEMMA FolderTableSound ==
  ASSUME DiskInv, FolderTable PROVE DiskInv'
<1>1. /\ Known /\ signed /\ Links(diskFat) /\ fat = diskFat /\ op \in Calls
      /\ TableOfCall /\ ~Holds(op.table) /\ op.entry.used
      /\ dirs \in [Clusters -> Table] /\ Sound(diskFat, dirs) /\ diskFat \in Fat
      /\ DOMAIN data = Clusters
      /\ \A d \in Clusters, r \in ScanRows :
           Created(dirs[d][r]) /\ dirs[d][r].cl = op.cl => dirs[d][r].attr = ATTR_SUBDIRECTORY
  BY DEF FolderTable, DiskInv, Known, Defined, Stuck, CallSound, Unsigned, CacheCoherent, TypeOK, Calls, Fat
<1>2. PICK c \in Clusters : c = op.cl
  BY <1>1, Numbers DEF TableOfCall
<1>3. PICK T : T = [op.table EXCEPT ![0] = op.entry]
  OBVIOUS
<1>4. /\ c >= ROOT /\ diskFat[c] = EOF /\ Leads(diskFat, c) /\ op.table = dirs[c]
  BY <1>1, <1>2, Numbers DEF TableOfCall
<1>5. /\ T \in Table /\ T[0] = op.entry
      /\ \A r \in Rows : r # 0 => T[r] = dirs[c][r]
  <2>1. op.table \in [Rows -> Entry] /\ op.entry \in Entry /\ 0 \in Rows
    BY <1>1, RowNumbers DEF Calls, Table
  <2>2. T \in [Rows -> Entry] /\ T[0] = op.entry /\ \A r \in Rows : r # 0 => T[r] = op.table[r]
    BY <2>1, <1>3
  <2> QED
    BY <2>2, <1>4 DEF Table
<1>6. \A r \in ScanRows : ~Created(T[r])
  BY <1>1, <1>4, <1>5, RowNumbers DEF Holds, Created
<1>7. \A r \in Rows : T[r].name \in Visible => T[r].used
  BY <1>1, <1>5 DEF Sound, NamesUsed
<1>8. dirs' = TablePut(dirs, c, T)
  BY <1>2, <1>3 DEF FolderTable, TablePut
<1>11. ASSUME c \in ScanRows, c # LastWriteRow PROVE MarkOf(T, c)
  BY <1>1, <1>5, <1>11, RowNumbers DEF Sound, MarkRows, MarkOf, Occupied
<1>9. dirs' \in [Clusters -> Table] /\ Sound(diskFat, dirs')
  BY <1>1, <1>2, <1>4, <1>5, <1>6, <1>7, <1>8, <1>11, TableWritten
<1>10. op' = Step("idle") /\ UNCHANGED <<signed, diskFat, fat>> /\ DOMAIN data' = Clusters
  BY <1>1 DEF FolderTable, Return
<1> QED
  BY <1>1, <1>9, <1>10, Returned

LEMMA FileDataSound ==
  ASSUME DiskInv, FileData PROVE DiskInv'
<1>1. /\ Known /\ signed /\ Links(diskFat) /\ fat = diskFat /\ op \in Calls
      /\ op.cl \in DataClusters /\ diskFat[op.cl] # EMPTY /\ op.buf \in Bufs
      /\ dirs \in [Clusters -> Table] /\ Sound(diskFat, dirs) /\ diskFat \in Fat
      /\ DOMAIN data = Clusters /\ TextsUnused
  BY DEF FileData, DiskInv, Known, Defined, Stuck, CallSound, Unsigned, CacheCoherent, TypeOK, Calls, Fat
<1>2. PICK c \in Clusters : c = op.cl
  BY <1>1, Numbers
<1>3. PICK T : T = Image[op.buf]
  OBVIOUS
<1>4. T \in Table /\ \A r \in Rows : ~T[r].used /\ T[r].name \notin Visible
  BY <1>1, <1>3, RequestAssumption, VisibleNames DEF TextsUnused
<1>5. dirs' = TablePut(dirs, c, T)
  BY <1>2, <1>3 DEF FileData, TablePut
<1>6. ~Holds(T) /\ \A r \in ScanRows : ~Created(T[r])
  BY <1>4, RowNumbers DEF Holds, Created
<1>11. ASSUME c \in ScanRows, c # LastWriteRow PROVE MarkOf(T, c)
  <2>1. c \in Rows /\ ~Occupied(T)
    BY <1>4, <1>11, RowNumbers DEF Occupied
  <2>2. PlainBlanks /\ T[c].name = EmptyName => T[c].cl = 0
    BY <1>1, <1>3, <2>1 DEF PlainBlanks
  <2> QED
    BY <1>4, <2>1, <2>2 DEF MarkOf
<1>7. dirs' \in [Clusters -> Table] /\ Sound(diskFat, dirs')
  BY <1>1, <1>4, <1>5, <1>6, <1>11, TableWritten
<1>8. UNCHANGED <<signed, diskFat, fat>> /\ DOMAIN data' = Clusters
  BY <1>1 DEF FileData
<1>9. CASE diskFat[op.cl] = EOF
  <2>1. op' = Step("idle")
    BY <1>1, <1>9 DEF FileData, Return
  <2> QED
    BY <2>1, <1>1, <1>7, <1>8, Returned
<1>10. CASE diskFat[op.cl] # EOF
  <2>1. diskFat[op.cl] \in DataClusters /\ diskFat[diskFat[op.cl]] # EMPTY
    BY <1>1, <1>10, Numbers DEF Links
  <2>2. PICK k \in Nat : op' = [op EXCEPT !.cl = diskFat[op.cl], !.part = k]
    <3>1. op' = [op EXCEPT !.cl = diskFat[op.cl], !.part = op.part + 1]
      BY <1>1, <1>10 DEF FileData
    <3>2. op.part + 1 \in Nat
      BY <1>1 DEF Calls
    <3> QED
      BY <3>1, <3>2
  <2>3. op.pc = "wf_data" /\ diskFat[op.cl] \in Nat /\ diskFat[op.cl] \in Clusters
    BY <2>1, Numbers DEF FileData
  <2>4. /\ op' \in Calls /\ op'.pc = "wf_data" /\ op'.cl = diskFat[op.cl] /\ op'.buf = op.buf
    BY <2>2, <2>3, <1>1 DEF Calls
  <2>5. TypeOK'
    BY <2>3, <2>4, <1>7, <1>8 DEF DiskInv, TypeOK, Calls
  <2>6. CallSound' /\ Unsigned' /\ CacheCoherent'
    BY <1>1, <1>8, <2>1, <2>4 DEF CallSound, Unsigned, CacheCoherent
  <2> QED
    BY <1>1, <1>7, <1>8, <2>5, <2>6 DEF DiskInv, TextsUnused
<1> QED
  BY <1>9, <1>10

-----------------------------------------------------------------------------
(* delete *)

\* The tables after the row r of p's table is cleared.
RowCleared(D, p, r) == [D EXCEPT ![p] = ClearRow(D[p], r)]

\* The disk write that takes an entry out of its folder leaves a chain that
\* nothing refers to.
LEMMA EntryRemoved ==
  ASSUME TextsUnused, NEW f, NEW D \in [Clusters -> Table], Sound(f, D),
         NEW p \in Clusters, NEW r \in ScanRows, Created(D[p][r]),
         NEW c, c = D[p][r].cl, NEW E, E = RowCleared(D, p, r)
  PROVE  /\ E \in [Clusters -> Table] /\ Sound(f, E) /\ Untargeted(E, c)
         /\ \A d \in Clusters : d # p => E[d] = D[d]
<1> DEFINE T == ClearRow(D[p], r)
<1>1. r \in Rows /\ r # 0 /\ D[p] \in Table /\ D[p][r] \in Entry
  BY RowNumbers DEF Table
<1>2. /\ T \in Table /\ T[r].name = EmptyName /\ ~T[r].used
      /\ \A x \in Rows : x # r => T[x] = D[p][x]
  <2>1. T = [D[p] EXCEPT ![r] = [D[p][r] EXCEPT !.name = EmptyName, !.attr = 0, !.used = FALSE]]
    BY <1>1 DEF ClearRow, Table
  <2>2. EmptyName \in Name
    BY DEF EmptyName, Name
  <2>3. [D[p][r] EXCEPT !.name = EmptyName, !.attr = 0, !.used = FALSE] \in Entry
    BY <1>1, <2>2 DEF Entry
  <2>4. T[r] = [D[p][r] EXCEPT !.name = EmptyName, !.attr = 0, !.used = FALSE]
    BY <1>1, <2>1 DEF Table
  <2> QED
    BY <1>1, <2>1, <2>3, <2>4 DEF Table, Entry
<1>3. E \in [Clusters -> Table] /\ E[p] = T /\ \A d \in Clusters : d # p => E[d] = D[d]
  BY <1>2 DEF RowCleared
<1> HIDE DEF T
<1>4. NamesUsed(E)
  <2> SUFFICES ASSUME NEW d \in Clusters, NEW x \in Rows, E[d][x].name \in Visible
               PROVE  E[d][x].used
    BY DEF NamesUsed
  <2>1. E[d][x] = D[d][x]
    <3>1. E[d][x].name # EmptyName
      BY VisibleNames
    <3> QED
      BY <3>1, <1>2, <1>3
  <2> QED
    BY <2>1 DEF Sound, NamesUsed
<1>9. MarkRows(E)
  <2> SUFFICES ASSUME NEW d \in Clusters, d \in ScanRows, d # LastWriteRow
               PROVE  MarkOf(E[d], d)
    BY DEF MarkRows
  <2>1. MarkOf(D[d], d) /\ d \in Rows
    BY RowNumbers DEF Sound, MarkRows
  <2>2. CASE d # p
    BY <2>1, <2>2, <1>3
  <2>3. CASE d = p
    <3>1. d # r
      BY <2>1, <2>3 DEF MarkOf, Created
    <3>2. T[d] = D[p][d] /\ (Occupied(T) => Occupied(D[p]))
      BY <1>2, <2>1, <2>3, <3>1, RowNumbers DEF Occupied
    <3> QED
      BY <2>1, <2>3, <3>2, <1>3 DEF MarkOf
  <2> QED
    BY <2>2, <2>3
<1>5. ASSUME NEW d \in Clusters, NEW x \in ScanRows, Created(E[d][x])
      PROVE  E[d][x] = D[d][x] /\ ~(d = p /\ x = r)
  <2>1. x \in Rows
    BY RowNumbers
  <2> QED
    BY <2>1, <1>2, <1>3, <1>5 DEF Created
<1>6. ASSUME NEW d \in Clusters, Holds(E[d]) PROVE Holds(D[d])
  <2>1. PICK x \in Rows : E[d][x].used
    BY <1>6 DEF Holds
  <2>2. D[d][x].used
    BY <2>1, <1>2, <1>3
  <2> QED
    BY <2>2 DEF Holds
<1>7. Sound(f, E)
  BY <1>4, <1>5, <1>6, <1>9, NoNewEntry
<1>8. Untargeted(E, c)
  <2> SUFFICES ASSUME NEW d \in Clusters, NEW x \in ScanRows, Created(E[d][x]), E[d][x].cl = c
               PROVE  FALSE
    BY DEF Untargeted
  <2>1. Created(D[d][x]) /\ D[d][x].cl = D[p][r].cl /\ ~(d = p /\ x = r)
    BY <1>5
  <2>2. OneOwner(D)
    BY DEF Sound
  <2> QED
    BY <2>1, <2>2 DEF OneOwner
<1> QED
  BY <1>3, <1>7, <1>8

\* The row delete finds.
LEMMA HitRow ==
  ASSUME NEW t, NEW n, DeleteHits(t, n) # {}, NEW r, r = Min(DeleteHits(t, n))
  PROVE  /\ r \in ScanRows /\ t[r].used /\ t[r].name = n
         /\ n \in Visible => Created(t[r])
<1>1. DeleteHits(t, n) \in SUBSET Nat /\ DeleteHits(t, n) \in SUBSET ScanRows
  BY RowNumbers DEF DeleteHits
<1>2. r \in DeleteHits(t, n)
  BY <1>1, MinProperty
<1> QED
  BY <1>1, <1>2 DEF DeleteHits, Created

\* delete found an entry.
HitCreated(p, n) == Created(dirs[p][Min(DeleteHits(dirs[p], n))])

LEMMA DeleteFileSound ==
  ASSUME DiskInv, NEW p \in Clusters, NEW n, DeleteFile(p, n), HitCreated(p, n)
  PROVE  DiskInv' /\ ~Stuck'
<1>1. /\ Known /\ signed /\ fat = diskFat /\ diskFat \in Fat /\ dirs \in [Clusters -> Table]
      /\ Links(diskFat) /\ Sound(diskFat, dirs) /\ p \in Clusters /\ TextsUnused
      /\ DOMAIN data = Clusters
  BY IdleFacts, Parents DEF DeleteFile, DiskInv, TypeOK
<1>2. PICK r : r = Min(DeleteHits(dirs[p], n))
  OBVIOUS
<1>3. r \in ScanRows /\ Created(dirs[p][r]) /\ dirs[p][r].attr # ATTR_SUBDIRECTORY
  BY <1>2, HitRow DEF DeleteFile, HitCreated
<1>4. PICK c : c = dirs[p][r].cl
  OBVIOUS
<1>5. /\ c \in DataClusters /\ c \in Clusters /\ c \in Nat /\ diskFat[c] # EMPTY
      /\ Leads(diskFat, c) /\ ~Holds(dirs[c])
  <2>1. Owns(diskFat, dirs, dirs[p][r])
    BY <1>1, <1>3 DEF Sound, EntriesOwn
  <2> QED
    BY <2>1, <1>3, <1>4, Numbers DEF Owns
<1>6. c # p
  <2>1. Holds(dirs[p])
    BY <1>3, RowNumbers DEF Created, Holds
  <2> QED
    BY <2>1, <1>5
<1>7. dirs' = RowCleared(dirs, p, r)
  BY <1>2 DEF DeleteFile, RowCleared
<1>8. /\ dirs' \in [Clusters -> Table] /\ Sound(diskFat, dirs') /\ Untargeted(dirs', c)
      /\ \A d \in Clusters : d # p => dirs'[d] = dirs[d]
  BY <1>1, <1>3, <1>4, <1>7, EntryRemoved
<1>9. Fresh(diskFat, dirs', c)
  BY <1>5, <1>6, <1>8 DEF Fresh
<1>10. op' = [Step("df_fat") EXCEPT !.cl = c]
  BY <1>2, <1>4 DEF DeleteFile
<1>11. Step("df_fat") \in Calls /\ Step("df_fat").pc = "df_fat"
  BY Steps DEF PCs
<1>12. op' \in Calls /\ op'.pc = "df_fat" /\ op'.cl = c
  BY <1>5, <1>10, <1>11 DEF Calls
<1>13. UNCHANGED <<signed, diskFat, fat>> /\ DOMAIN data' = Clusters
  BY <1>1 DEF DeleteFile
<1>14. TypeOK'
  BY <1>1, <1>5, <1>8, <1>12, <1>13 DEF DiskInv, TypeOK, Calls
<1>15. CallSound' /\ Unsigned' /\ CacheCoherent'
  BY <1>1, <1>9, <1>12, <1>13 DEF CallSound, ReleasesChain, Unsigned, CacheCoherent
<1>16. ~Stuck'
  BY <1>5, <1>12, Numbers DEF Stuck
<1> QED
  BY <1>1, <1>8, <1>13, <1>14, <1>15, <1>16 DEF DiskInv, TextsUnused

\* delete found the row that write marks.
LEMMA DeleteMarkSound ==
  ASSUME DiskInv, NEW p \in Clusters, NEW n, DeleteFile(p, n),
         dirs[p][Min(DeleteHits(dirs[p], n))].cl = 0
  PROVE  DiskInv' /\ Stuck'
<1>1. /\ Known /\ fat = diskFat /\ dirs \in [Clusters -> Table] /\ Links(diskFat)
      /\ DOMAIN data = Clusters /\ TextsUnused
  BY IdleFacts DEF DeleteFile, DiskInv, TypeOK
<1>2. PICK r : r = Min(DeleteHits(dirs[p], n))
  OBVIOUS
<1>3. r \in Rows /\ dirs[p] \in [Rows -> Entry]
  BY <1>1, <1>2, HitRow, RowNumbers DEF DeleteFile, Table
<1>4. ClearRow(dirs[p], r) \in Table
  <2>1. EmptyName \in Name
    BY DEF EmptyName, Name
  <2>2. [dirs[p][r] EXCEPT !.name = EmptyName, !.attr = 0, !.used = FALSE] \in Entry
    BY <1>3, <2>1 DEF Entry
  <2>3. ClearRow(dirs[p], r)
          = [dirs[p] EXCEPT ![r] = [dirs[p][r] EXCEPT !.name = EmptyName, !.attr = 0, !.used = FALSE]]
    BY <1>3 DEF ClearRow
  <2> QED
    BY <1>3, <2>2, <2>3 DEF Table
<1>5. dirs' = [dirs EXCEPT ![p] = ClearRow(dirs[p], r)] /\ op' = [Step("df_fat") EXCEPT !.cl = 0]
      /\ UNCHANGED <<signed, diskFat, fat>> /\ DOMAIN data' = Clusters
  BY <1>1, <1>2 DEF DeleteFile
<1>6. dirs' \in [Clusters -> Table]
  BY <1>1, <1>4, <1>5
<1>7. Step("df_fat") \in Calls /\ Step("df_fat").pc = "df_fat" /\ 0 \in Clusters /\ 0 \in Nat
  BY Steps DEF PCs
<1>8. op' \in Calls /\ op'.pc = "df_fat" /\ op'.cl = 0
  BY <1>5, <1>7 DEF Calls
<1>9. TypeOK'
  BY <1>5, <1>6, <1>7, <1>8 DEF DiskInv, TypeOK, Calls
<1>10. CacheCoherent' /\ Stuck'
  BY <1>1, <1>5, <1>8 DEF CacheCoherent, Stuck
<1> QED
  BY <1>1, <1>5, <1>9, <1>10 DEF DiskInv, TextsUnused, Known

LEMMA DeleteFolderSound ==
  ASSUME DiskInv, NEW p \in Clusters, NEW n, DeleteFolder(p, n), HitCreated(p, n) PROVE DiskInv'
<1>1. /\ Known /\ signed /\ fat = diskFat /\ diskFat \in Fat /\ dirs \in [Clusters -> Table]
      /\ Links(diskFat) /\ Sound(diskFat, dirs) /\ p \in Clusters /\ TextsUnused
      /\ DOMAIN data = Clusters
  BY IdleFacts, Parents DEF DeleteFolder, DiskInv, TypeOK
<1>2. PICK r : r = Min(DeleteHits(dirs[p], n))
  OBVIOUS
<1>3. r \in ScanRows /\ Created(dirs[p][r]) /\ dirs[p][r].attr = ATTR_SUBDIRECTORY
  BY <1>2, HitRow DEF DeleteFolder, HitCreated
<1>4. PICK c : c = dirs[p][r].cl
  OBVIOUS
<1>5. c \in DataClusters /\ c \in Clusters /\ c \in Nat /\ diskFat[c] = EOF /\ Leads(diskFat, c)
  <2>1. Owns(diskFat, dirs, dirs[p][r])
    BY <1>1, <1>3 DEF Sound, EntriesOwn
  <2> QED
    BY <2>1, <1>3, <1>4, Numbers DEF Owns
<1>6. ~Occupied(dirs[c]) /\ c # p
  <2>1. ~Occupied(dirs[c])
    BY <1>2, <1>4 DEF DeleteFolder
  <2>2. Occupied(dirs[p])
    BY <1>3 DEF Created, Occupied
  <2> QED
    BY <2>1, <2>2
<1>7. dirs' = RowCleared(dirs, p, r)
  BY <1>2 DEF DeleteFolder, RowCleared
<1>8. /\ dirs' \in [Clusters -> Table] /\ Sound(diskFat, dirs') /\ Untargeted(dirs', c)
      /\ \A d \in Clusters : d # p => dirs'[d] = dirs[d]
  BY <1>1, <1>3, <1>4, <1>7, EntryRemoved
<1>9. op' = [Step("dd_table") EXCEPT !.cl = c, !.table = dirs[c]]
  BY <1>2, <1>4 DEF DeleteFolder
<1>10. Step("dd_table") \in Calls /\ Step("dd_table").pc = "dd_table"
  BY Steps DEF PCs
<1>11. op' \in Calls /\ op'.pc = "dd_table" /\ op'.cl = c /\ op'.table = dirs'[c]
       /\ ~Occupied(op'.table)
  BY <1>1, <1>5, <1>6, <1>8, <1>9, <1>10 DEF Calls
<1>12. UNCHANGED <<signed, diskFat, fat>> /\ DOMAIN data' = Clusters
  BY <1>1 DEF DeleteFolder
<1>13. TypeOK'
  BY <1>1, <1>5, <1>8, <1>11, <1>12 DEF DiskInv, TypeOK, Calls
<1>14. CallSound'
  <2>1. TableOfCall'
    BY <1>5, <1>11, <1>12 DEF TableOfCall
  <2> QED
    BY <2>1, <1>8, <1>11 DEF CallSound
<1>15. Unsigned' /\ CacheCoherent'
  BY <1>1, <1>12 DEF Unsigned, CacheCoherent
<1> QED
  BY <1>1, <1>8, <1>12, <1>13, <1>14, <1>15 DEF DiskInv, TextsUnused

\* A walk from cluster 0 leaves the map at once.
LEMMA NoChainAtZero ==
  ASSUME NEW f, Links(f)
  PROVE  ~Ends(f, 0)
<1>1. f[0] # EOF /\ (f[0] \in Clusters => f[0] = 0)
  BY Numbers DEF Links, ZeroFat
<1>2. Closed(f, {0}) /\ {0} \in SUBSET Clusters
  BY <1>1, Numbers DEF Closed
<1>3. Chain(f, 0) \subseteq {0}
  BY <1>2, ChainLeast
<1> QED
  BY <1>1, <1>3 DEF Ends

LEMMA DeleteFileFatSound ==
  ASSUME DiskInv, DeleteFileFat PROVE DiskInv'
<1>1. /\ Defined /\ fat = diskFat /\ diskFat \in Fat /\ dirs \in [Clusters -> Table]
      /\ Links(diskFat) /\ DOMAIN data = Clusters
  BY DEF DeleteFileFat, DiskInv, Defined, CacheCoherent, TypeOK, Fat
<1>2. CASE op.cl \in Clusters /\ Ends(fat, op.cl)
  <2>1. Known
    BY <1>1, <1>2, NoChainAtZero DEF Known, Stuck
  <2>2. fat' = Release(diskFat, op.cl) /\ diskFat' = fat' /\ op' = Step("idle")
        /\ UNCHANGED <<signed, dirs, data>>
    BY <1>1, <1>2 DEF DeleteFileFat, Return
  <2>3. PICK c : c = op.cl
    OBVIOUS
  <2>4. Fresh(diskFat, dirs, c) /\ Sound(diskFat, dirs) /\ signed
    BY <1>1, <1>2, <2>1, <2>3 DEF DeleteFileFat, DiskInv, CallSound, ReleasesChain, Unsigned
  <2>5. fat' \in Fat /\ Links(fat') /\ Sound(fat', dirs)
    BY <1>1, <2>2, <2>3, <2>4, Released
  <2> QED
    BY <1>1, <2>2, <2>4, <2>5, Returned
<1>3. CASE ~(op.cl \in Clusters /\ Ends(fat, op.cl))
  BY <1>3, Lost DEF DeleteFileFat
<1> QED
  BY <1>2, <1>3

LEMMA DeleteFolderTableSound ==
  ASSUME DiskInv, DeleteFolderTable PROVE DiskInv'
<1>1. /\ Known /\ signed /\ fat = diskFat /\ diskFat \in Fat /\ dirs \in [Clusters -> Table]
      /\ Links(diskFat) /\ Sound(diskFat, dirs) /\ DOMAIN data = Clusters /\ TextsUnused
      /\ TableOfCall /\ ~Occupied(op.table) /\ Untargeted(dirs, op.cl) /\ op \in Calls
  BY DEF DeleteFolderTable, DiskInv, Known, Defined, Stuck, CallSound, Unsigned, CacheCoherent, TypeOK, Calls, Fat
<1>2. PICK c \in Clusters : c = op.cl
  BY <1>1, Numbers DEF TableOfCall
<1>3. /\ c \in DataClusters /\ diskFat[c] = EOF /\ Leads(diskFat, c) /\ op.table = dirs[c]
      /\ dirs[c] \in Table /\ ~Occupied(dirs[c])
  BY <1>1, <1>2 DEF TableOfCall
<1>4. PICK T : T = ClearRow(dirs[c], 0)
  OBVIOUS
<1>5. /\ T \in Table /\ T[0].name = EmptyName /\ ~T[0].used
      /\ \A x \in Rows : x # 0 => T[x] = dirs[c][x]
  <2> DEFINE e == [dirs[c][0] EXCEPT !.name = EmptyName, !.attr = 0, !.used = FALSE]
  <2>1. 0 \in Rows /\ dirs[c] \in [Rows -> Entry] /\ dirs[c][0] \in Entry
    BY <1>3, RowNumbers DEF Table
  <2>2. T = [dirs[c] EXCEPT ![0] = e]
    BY <2>1, <1>4 DEF ClearRow
  <2>3. EmptyName \in Name
    BY DEF EmptyName, Name
  <2>4. e \in Entry /\ e.name = EmptyName /\ ~e.used
    BY <2>1, <2>3 DEF Entry
  <2> HIDE DEF e
  <2> QED
    BY <2>1, <2>2, <2>4 DEF Table
<1>6. \A r \in Rows : ~T[r].used
  BY <1>3, <1>5, RowNumbers DEF Occupied
<1>7. ~Holds(T) /\ \A r \in ScanRows : ~Created(T[r])
  BY <1>6, RowNumbers DEF Holds, Created
<1>8. \A r \in Rows : T[r].name \in Visible => T[r].used
  BY <1>1, <1>5, VisibleNames DEF Sound, NamesUsed
<1>9. dirs' = TablePut(dirs, c, T)
  BY <1>2, <1>3, <1>4 DEF DeleteFolderTable, TablePut
<1>18. ASSUME c \in ScanRows, c # LastWriteRow PROVE MarkOf(T, c)
  BY <1>1, <1>3, <1>5, <1>6, <1>18, RowNumbers DEF Sound, MarkRows, MarkOf, Occupied
<1>10. /\ dirs' \in [Clusters -> Table] /\ Sound(diskFat, dirs') /\ dirs'[c] = T
       /\ Untargeted(dirs', c)
  BY <1>1, <1>2, <1>5, <1>7, <1>8, <1>9, <1>18, TableWritten
<1>11. Fresh(diskFat, dirs', c)
  BY <1>3, <1>7, <1>10, Numbers DEF Fresh
<1>12. op' = [Step("dd_fat") EXCEPT !.cl = c]
  BY <1>2 DEF DeleteFolderTable
<1>13. Step("dd_fat") \in Calls /\ Step("dd_fat").pc = "dd_fat" /\ c \in Nat
  BY Steps, Numbers DEF PCs
<1>14. op' \in Calls /\ op'.pc = "dd_fat" /\ op'.cl = c
  BY <1>12, <1>13 DEF Calls
<1>15. UNCHANGED <<signed, diskFat, fat>> /\ DOMAIN data' = Clusters
  BY <1>1 DEF DeleteFolderTable
<1>16. TypeOK'
  BY <1>1, <1>10, <1>14, <1>15 DEF DiskInv, TypeOK, Calls
<1>17. CallSound' /\ Unsigned' /\ CacheCoherent'
  BY <1>1, <1>3, <1>11, <1>14, <1>15 DEF CallSound, Unsigned, CacheCoherent
<1> QED
  BY <1>1, <1>10, <1>15, <1>16, <1>17 DEF DiskInv, TextsUnused

\* A folder's chain is its one cluster.
LEMMA OneCluster ==
  ASSUME NEW f \in Fat, NEW c \in Clusters, f[c] = EOF
  PROVE  [f EXCEPT ![c] = EMPTY] = Release(f, c)
<1>1. Closed(f, {c})
  BY Numbers DEF Closed
<1>2. Chain(f, c) = {c}
  BY <1>1, ChainLeast
<1> QED
  BY <1>2 DEF Release, Fat

LEMMA DeleteFolderFatSound ==
  ASSUME DiskInv, DeleteFolderFat PROVE DiskInv'
<1>1. /\ Known /\ signed /\ fat = diskFat /\ diskFat \in Fat /\ dirs \in [Clusters -> Table]
      /\ Links(diskFat) /\ Sound(diskFat, dirs) /\ Fresh(diskFat, dirs, op.cl)
      /\ diskFat[op.cl] = EOF /\ DOMAIN data = Clusters
  BY DEF DeleteFolderFat, DiskInv, Known, Defined, Stuck, CallSound, Unsigned, CacheCoherent, TypeOK, Fat
<1>2. PICK c : c = op.cl
  OBVIOUS
<1>3. c \in Clusters
  BY <1>1, <1>2, Numbers DEF Fresh
<1>4. fat' = Release(diskFat, c)
  BY <1>1, <1>2, <1>3, OneCluster DEF DeleteFolderFat
<1>5. diskFat' = fat' /\ op' = Step("idle") /\ UNCHANGED <<signed, dirs, data>>
  BY DEF DeleteFolderFat, Return
<1>6. fat' \in Fat /\ Links(fat') /\ Sound(fat', dirs)
  BY <1>1, <1>2, <1>4, Released
<1> QED
  BY <1>1, <1>5, <1>6, Returned

-----------------------------------------------------------------------------
(* The theorems *)

\* With plain files the names that callers pass tell the entries apart.
IInv == PlainFiles /\ DiskInv /\ ~Stuck

LEMMA PlainNames ==
  PlainFiles => TextsUnused /\ ReqNames \subseteq Visible /\ ReqNames \subseteq Name
  BY RequestAssumption DEF PlainFiles, TextsUnused, Visible

LEMMA CallsSound ==
  ASSUME DiskInv, PlainFiles, NEW p \in ReqParents, NEW n \in ReqNames,
         ReadDirectory(p, n) \/ Read(p, n) \/ Write(p, n) \/ Delete(p, n)
  PROVE  DiskInv' /\ ~Stuck'
<1>0. p \in Clusters /\ n \in Name /\ n \in Visible
  BY Parents, PlainNames
<1>1. CASE ReadDirectory(p, n) \/ Read(p, n)
  <2>1. op'.pc # "df_fat"
    BY <1>1 DEF ReadDirectory, Read, ReadFails, ReadCopies, Reply, Return, Step
  <2> QED
    BY <1>1, <2>1, ReadDirectorySound, ReadSound DEF Stuck
<1>2. ASSUME Write(p, n) PROVE op'.pc # "df_fat"
  <2>1. CASE WriteRefused(p, n)
    BY <2>1 DEF WriteRefused, Reply, Return, Step
  <2>2. ASSUME NEW size, WriteWild(p, n, size) \/ WriteNoSpace(p, n, size)
        PROVE  op'.pc # "df_fat"
    BY <2>2 DEF WriteWild, WriteNoSpace, Reply, Return, Step
  <2>3. CASE WriteFolder(p, n)
    BY <2>3 DEF WriteFolder, Step
  <2>4. ASSUME NEW size, NEW b, WriteFile(p, n, size, b) PROVE op'.pc # "df_fat"
    BY <2>4 DEF WriteFile, Step
  <2> QED
    BY <1>2, <2>1, <2>2, <2>3, <2>4 DEF Write
<1>3. ASSUME Write(p, n) PROVE DiskInv'
  <2>1. CASE WriteRefused(p, n)
    BY <2>1, WriteRefusedSound
  <2>2. ASSUME NEW size \in Sizes,
               \/ size = 0 /\ WriteFolder(p, n)
               \/ WriteWild(p, n, size)
               \/ WriteNoSpace(p, n, size)
               \/ \E b \in Bufs : WriteFile(p, n, size, b)
        PROVE  DiskInv'
    <3>1. size \in Nat
      BY RequestAssumption
    <3> QED
      BY <1>0, <2>2, <3>1, WriteFolderSound, WriteWildSound, WriteNoSpaceSound, WriteFileSound
  <2> QED
    BY <1>3, <2>1, <2>2 DEF Write
<1>4. CASE Delete(p, n)
  <2>1. DeleteFile(p, n) \/ DeleteFolder(p, n) => HitCreated(p, n)
    BY <1>0, HitRow DEF DeleteFile, DeleteFolder, HitCreated
  <2>2. CASE DeleteRefused(p, n)
    BY <2>2, DeleteRefusedSound DEF DeleteRefused, Reply, Return, Step, Stuck
  <2>3. CASE DeleteFile(p, n)
    BY <1>0, <2>1, <2>3, DeleteFileSound
  <2>4. CASE DeleteFolder(p, n)
    <3>1. op'.pc = "dd_table"
      BY <2>4 DEF DeleteFolder, Step
    <3> QED
      BY <1>0, <2>1, <2>4, <3>1, DeleteFolderSound DEF Stuck
  <2> QED
    BY <1>4, <2>2, <2>3, <2>4 DEF Delete
<1> QED
  BY <1>1, <1>2, <1>3, <1>4 DEF Stuck

\* A call that goes on is not stuck.
LEMMA NoneStuck ==
  ASSUME DiskInv, \/ FolderParent \/ FolderTable \/ FileParent \/ FileData
                  \/ DeleteFileFat \/ DeleteFolderTable \/ DeleteFolderFat
  PROVE  ~Stuck'
<1>1. CASE FolderTable \/ DeleteFileFat \/ DeleteFolderTable \/ DeleteFolderFat
  BY <1>1 DEF FolderTable, DeleteFileFat, DeleteFolderTable, DeleteFolderFat, Return, Step, Stuck
<1>2. op \in Calls
  BY DEF DiskInv, TypeOK, Calls
<1>3. CASE FolderParent \/ FileParent
  BY <1>2, <1>3 DEF FolderParent, FileParent, Calls, Stuck
<1>4. CASE FileData
  <2>1. CASE fat[op.cl] # EOF
    <3>1. op' = [op EXCEPT !.cl = fat[op.cl], !.part = op.part + 1] /\ op.pc = "wf_data"
      BY <1>4, <2>1 DEF FileData
    <3> QED
      BY <1>2, <3>1 DEF Calls, Stuck
  <2>2. CASE fat[op.cl] = EOF
    BY <1>4, <2>2 DEF FileData, Return, Step, Stuck
  <2> QED
    BY <2>1, <2>2
<1> QED
  BY <1>1, <1>3, <1>4

LEMMA StepSound == IInv /\ [Next]_vars => IInv'
<1> SUFFICES ASSUME DiskInv, PlainFiles, ~Stuck, [Next]_vars PROVE DiskInv' /\ ~Stuck'
  BY DEF IInv, PlainFiles
<1>1. CASE BootSigned \/ BootEmpty \/ FormatFat \/ FormatRoot \/ PowerLoss
  <2>1. op'.pc # "df_fat"
    BY <1>1 DEF BootSigned, BootEmpty, FormatFat, FormatRoot, PowerLoss, Step
  <2> QED
    BY <1>1, <2>1, BootSignedSound, BootEmptySound, FormatFatSound, FormatRootSound,
       PowerLossSound DEF Stuck
<1>2. ASSUME NEW p \in ReqParents, NEW n \in ReqNames,
             ReadDirectory(p, n) \/ Read(p, n) \/ Write(p, n) \/ Delete(p, n)
      PROVE  DiskInv' /\ ~Stuck'
  BY <1>2, CallsSound
<1>3. CASE FolderParent \/ FolderTable \/ FileParent \/ FileData
  BY <1>3, FolderParentSound, FolderTableSound, FileParentSound, FileDataSound, NoneStuck
<1>4. CASE DeleteFileFat \/ DeleteFolderTable \/ DeleteFolderFat
  BY <1>4, DeleteFileFatSound, DeleteFolderTableSound, DeleteFolderFatSound, NoneStuck
<1>5. CASE UNCHANGED vars
  <2> USE <1>5 DEF vars
  <2>1. TypeOK' /\ TextsUnused'
    BY DEF DiskInv, TypeOK, TextsUnused
  <2>2. CacheCoherent' /\ (Known => Unsigned' /\ CallSound')
    BY DEF DiskInv, CacheCoherent, Unsigned, CallSound, Blank, WritesParent, TableOfCall,
           ReleasesChain
  <2> QED
    BY <2>1, <2>2 DEF DiskInv, Known, Defined, Stuck
<1> QED
  BY <1>1, <1>2, <1>3, <1>4, <1>5 DEF Next, Undefined

THEOREM Invariance == PlainFiles /\ Spec => []IInv
<1>1. PlainFiles /\ Init => IInv
  BY InitSound, PlainNames DEF IInv, Init, Stuck, Step
<1>2. IInv /\ [Next]_vars => IInv'
  BY StepSound
<1> QED
  BY <1>1, <1>2, PTL DEF Spec

\* The entries of the properties are created rows of the invariant.
CreatedRows == {x \in Clusters \X ScanRows : Created(dirs[x[1]][x[2]])}

LEMMA EntriesCreated ==
  ASSUME PlainFiles
  PROVE  Entries \subseteq CreatedRows
  BY PlainNames DEF Entries, Named, CreatedRows, Created

LEMMA RowOwns ==
  ASSUME DiskInv, Known, NEW x \in CreatedRows
  PROVE  /\ x[1] \in Clusters /\ x[2] \in ScanRows /\ Created(dirs[x[1]][x[2]])
         /\ At(x) = dirs[x[1]][x[2]] /\ Owns(diskFat, dirs, At(x))
  BY DEF DiskInv, CreatedRows, At, Sound, EntriesOwn

LEMMA EntryOwns ==
  ASSUME IInv, Defined, NEW x \in Entries
  PROVE  /\ x[1] \in Clusters /\ x[2] \in ScanRows /\ Created(dirs[x[1]][x[2]])
         /\ At(x) = dirs[x[1]][x[2]] /\ Owns(diskFat, dirs, At(x))
  BY EntriesCreated, RowOwns DEF IInv, Known

\* Every variable keeps the values the code gives it: the words of the FAT,
\* the rows of every table and the arguments of the call in flight.
THEOREM TypeCorrect == PlainFiles /\ Spec => []TypeOK
<1>1. IInv => TypeOK
  BY DEF IInv, Known, DiskInv
<1> QED
  BY <1>1, Invariance, PTL

\* After every disk write of write and delete, and so wherever power is lost,
\* the FAT on disk is a set of disjoint ascending chains.
THEOREM ChainsSound == PlainFiles /\ Spec => []LinksSound
<1>1. IInv => LinksSound
  BY DEF IInv, Known, DiskInv, LinksSound, Links
<1> QED
  BY <1>1, Invariance, PTL

\* delete, which walks the cached FAT, walks the one on disk: write, read and
\* the failed write all leave the two equal.
THEOREM CacheKept == PlainFiles /\ Spec => []CacheCoherent
<1>1. IInv => CacheCoherent
  BY DEF IInv, Known, DiskInv, CacheCoherent, Defined
<1> QED
  BY <1>1, Invariance, PTL

\* write puts the FAT on disk before the row that points into it and delete
\* takes the row away before the FAT: no row ever points to a free cluster.
THEOREM NothingDangles == PlainFiles /\ Spec => []NoDangling
<1>1. ASSUME IInv, Defined, NEW x \in Entries
      PROVE  Target(x) \in DataClusters /\ diskFat[Target(x)] # EMPTY
  BY <1>1, EntryOwns DEF Target, Owns
<1>2. IInv => NoDangling
  BY <1>1 DEF NoDangling
<1> QED
  BY <1>2, Invariance, PTL

\* write hands out no cluster that an entry still on disk owns, and delete
\* releases none but those of the entry it removed.
THEOREM NothingShared == PlainFiles /\ Spec => []NoCrossLink
<1>1. ASSUME IInv, Defined, NEW x \in Entries, NEW y \in Entries, x # y
      PROVE  Chain(diskFat, Target(x)) \cap Chain(diskFat, Target(y)) = {}
  <2>1. /\ Owns(diskFat, dirs, At(x)) /\ Owns(diskFat, dirs, At(y))
        /\ Created(dirs[x[1]][x[2]]) /\ Created(dirs[y[1]][y[2]])
        /\ At(x) = dirs[x[1]][x[2]] /\ At(y) = dirs[y[1]][y[2]]
        /\ x[1] \in Clusters /\ x[2] \in ScanRows /\ y[1] \in Clusters /\ y[2] \in ScanRows
    BY <1>1, EntryOwns
  <2>2. x[1] # y[1] \/ x[2] # y[2]
    BY <1>1 DEF Entries
  <2>3. Target(x) # Target(y)
    BY <1>1, <2>1, <2>2 DEF IInv, Known, DiskInv, Sound, OneOwner, Target
  <2>4. /\ Target(x) \in DataClusters /\ diskFat[Target(x)] # EMPTY /\ Leads(diskFat, Target(x))
        /\ Target(y) \in DataClusters /\ diskFat[Target(y)] # EMPTY /\ Leads(diskFat, Target(y))
    BY <2>1 DEF Owns, Target
  <2>5. diskFat \in Fat /\ Links(diskFat)
    BY <1>1 DEF IInv, Known, DiskInv, TypeOK, Fat
  <2> QED
    BY <2>3, <2>4, <2>5, ChainsDisjoint
<1>2. IInv => NoCrossLink
  BY <1>1 DEF NoCrossLink
<1> QED
  BY <1>2, Invariance, PTL

\* The cluster of a directory table is one whole chain, and the chain of no
\* file runs through it: a file's contents are never written over a table.
THEOREM FoldersApart == PlainFiles /\ Spec => []FoldersOwnTheirCluster
<1>1. ASSUME IInv, Defined, NEW d \in Clusters, IsFolder(dirs[d])
      PROVE  /\ diskFat[d] = EOF
             /\ \A x \in Entries : At(x).attr # ATTR_SUBDIRECTORY =>
                  d \notin Chain(diskFat, Target(x))
  <2>1. Holds(dirs[d])
    BY <1>1, RowNumbers DEF IsFolder, Holds
  <2>2. diskFat[d] = EOF /\ Leads(diskFat, d)
    BY <1>1, <2>1 DEF IInv, Known, DiskInv, Sound, TablesOwned
  <2>3. ASSUME NEW x \in Entries, At(x).attr # ATTR_SUBDIRECTORY
        PROVE  d \notin Chain(diskFat, Target(x))
    <3>1. Owns(diskFat, dirs, At(x))
      BY <1>1, EntryOwns
    <3>2. /\ Target(x) \in DataClusters /\ diskFat[Target(x)] # EMPTY
          /\ ~Holds(dirs[Target(x)])
      BY <2>3, <3>1 DEF Owns, Target
    <3>3. diskFat \in Fat /\ Links(diskFat) /\ d # Target(x)
      BY <1>1, <2>1, <3>2 DEF IInv, Known, DiskInv, TypeOK, Fat
    <3> QED
      BY <2>2, <3>2, <3>3, HeadAlone
  <2> QED
    BY <2>2, <2>3
<1>2. IInv => FoldersOwnTheirCluster
  BY <1>1 DEF FoldersOwnTheirCluster
<1> QED
  BY <1>2, Invariance, PTL

=============================================================================
