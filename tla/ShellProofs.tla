---------------------------- MODULE ShellProofs ----------------------------
(***************************************************************************)
(* The shell's safety properties for every disk, every set of names and    *)
(* every text: the tree of folders on disk, which no command breaks, and   *)
(* the place of the shell and of a cp or mv in it; and the texts: what cp  *)
(* and mv write is in the file they write, and what they read stays where  *)
(* it was until then.  What each call does to the FAT and the tables comes *)
(* from Fat32Proofs, what it does to other files from Fat32ContentsProofs. *)
(***************************************************************************)
EXTENDS Shell, Fat32ContentsProofs

-----------------------------------------------------------------------------
(* The tree of folders *)

\* What a row tells: a folder's entry and any row in use were created, but for
\* the row that write marks in the table of its cluster.
RowsCreated(D) ==
  \A d \in Clusters, r \in ScanRows :
    LET e == D[d][r]
    IN  /\ e.attr = ATTR_SUBDIRECTORY => Created(e) /\ e.name \in Dirnames /\ e.size = 0
        /\ e.used /\ (r # d \/ r = LastWriteRow) => Created(e)
        /\ Created(e) => e.name \in AllNames /\ r \in WriteRows

\* The names in a table differ from each other and from the folder's own.
NamesDiffer(D) ==
  /\ \A d \in Clusters, r1, r2 \in ScanRows :
       Created(D[d][r1]) /\ Created(D[d][r2]) /\ D[d][r1].name = D[d][r2].name => r1 = r2
  /\ \A d \in Clusters, r \in ScanRows : Created(D[d][r]) => D[d][r].name # D[d][0].name

\* Rows in use are in folders alone, and the root is one, its own parent.
TablesAreFolders(D) ==
  /\ IsFolder(D[ROOT]) /\ D[ROOT][0].cl = ROOT
  /\ \A d \in Clusters : Holds(D[d]) => IsFolder(D[d])

\* The entry of a folder leads to a table that names the same name and the
\* folder the entry is in, but for the folder being made.
Knows(t, n, p) == IsFolder(t) /\ t[0].name = n /\ t[0].cl = p
DownSound(D, new) ==
  \A d \in Clusters, r \in ScanRows :
    D[d][r].attr = ATTR_SUBDIRECTORY =>
      D[d][r].cl = new \/ Knows(D[D[d][r].cl], D[d][r].name, d)

\* A folder is in the one it names as its parent, but for the folder being
\* deleted.
EntryFor(e, n, c) == e.used /\ e.attr = ATTR_SUBDIRECTORY /\ e.name = n /\ e.cl = c
Contains(t, n, c) == \E r \in ScanRows : EntryFor(t[r], n, c)
InParent(D, d) ==
  /\ D[d][0].cl \in Clusters /\ IsFolder(D[D[d][0].cl])
  /\ Contains(D[D[d][0].cl], D[d][0].name, d)
UpSound(D, old) ==
  \A d \in Clusters \ {ROOT} : IsFolder(D[d]) => d = old \/ InParent(D, d)

Tree(D, new, old) ==
  /\ RowsCreated(D) /\ NamesDiffer(D) /\ TablesAreFolders(D)
  /\ DownSound(D, new) /\ UpSound(D, old)

\* The folder a call is making or deleting; cluster 0 is none.
InCreation == IF op.pc = "mk_table" THEN op.cl ELSE 0
InDeletion == IF op.pc = "dd_table" THEN op.cl ELSE 0

\* What the calls in flight know of the tree.
CallTree ==
  /\ op.pc \in {"mk_parent", "wf_parent"} =>
       /\ IsFolder(dirs[op.parent]) /\ ~Duplicate(dirs[op.parent], op.entry.name)
       /\ op.entry.name \in AllNames
  /\ op.pc = "mk_parent" => op.entry.name \in Dirnames /\ op.entry.size = 0
  /\ op.pc = "mk_table" =>
       /\ op.entry = DirEntry(op.entry.name, op.parent) /\ op.entry.name \in Dirnames
       /\ IsFolder(dirs[op.parent]) /\ Contains(dirs[op.parent], op.entry.name, op.cl)
  /\ op.pc \notin {"off", "fmt_fat", "fmt_root"}

TreeInv == Tree(dirs, InCreation, InDeletion) /\ CallTree

-----------------------------------------------------------------------------
(* The place of the shell, and of a cp or mv, in the tree *)

\* Folders that the copy shows lie among the clusters.
CopySound ==
  \A r \in ScanRows : dir_table[r].attr = ATTR_SUBDIRECTORY =>
    dir_table[r].used /\ dir_table[r].cl \in DataClusters

TextsStored == \A c \in Clusters : data[c] # Raw => data[c][1] \in Bufs

\* The steps of cp and mv.
Moves == {"mv_delete", "mv_write", "mv_wrote", "mv_again", "mv_source"}
Jobs ==
  [pc : {"none", "cp_delete", "cp_write", "cp_wrote"} \union Moves,
   src : AllNames, from : Clusters, dst : AllNames, again : BOOLEAN, text : Bufs,
   home : Clusters, garbage : Garbage]

\* The shell's own variables.
PlaceOK ==
  /\ running \in {"inserter", "shell"}
  /\ current_directory \in Clusters /\ dir_table \in Table /\ CopySound
  /\ overlooked \in 0 .. MaxOverlooked
  /\ job \in Jobs
  /\ TextsStored

Moving == job.pc \in Moves

\* a is b or the folder b is in.
Above(a, b) == a = b \/ \E n \in Dirnames : Contains(dirs[a], n, b)

NoFolderNamed(d, n) ==
  \A r \in ScanRows : ~(dirs[d][r].attr = ATTR_SUBDIRECTORY /\ dirs[d][r].name = n)

Place ==
  /\ IsFolder(dirs[current_directory]) /\ IsFolder(dirs[job.home])
  /\ op.pc = "dd_table" => op.cl \notin {current_directory, job.home}
  /\ IF Moving THEN Above(job.home, job.from) /\ Above(job.from, current_directory)
     ELSE job.home = ROOT
  /\ job.pc # "none" =>
       /\ running = "shell" /\ op.pc \notin {"mk_parent", "mk_table"}
       /\ NoFolderNamed(job.from, job.src)
  /\ op.pc = "dd_table" /\ job.pc = "none" =>
       \A r \in ScanRows :
         dir_table[r].attr = ATTR_SUBDIRECTORY /\ dir_table[r].cl = op.cl =>
           ~NamesFolder(dir_table, dir_table[r].name.base)

ShellInv ==
  /\ PlainTexts /\ CountInv /\ PlaceOK
  /\ Known => TreeInv /\ Place

-----------------------------------------------------------------------------
(* Names and rows *)

LEMMA ShellNames ==
  /\ AllNames \subseteq Name /\ EmptyName \in AllNames /\ ReqNames \subseteq AllNames
  /\ Dirnames \subseteq AllNames /\ EmptyName \notin Dirnames /\ PairName \in AllNames
  /\ \A n \in Dirnames : n.ext = NoExt
  /\ \A s \in ReqNames \ {EmptyName} :
       SourceName(s) \in AllNames /\ SourceName(s) # EmptyName /\ SourceName(s) \notin Dirnames
  /\ PairName # EmptyName
<1>1. Space \in Exts /\ Pair \in Bases /\ EmptyName \in ReqNames /\ ReqNames \subseteq Name
      /\ NoExt \notin Exts /\ NoBase \notin Bases
  BY ShellAssumption, RequestAssumption
<1>2. PairName \in Name /\ PairName # EmptyName
  BY <1>1 DEF PairName, Name, EmptyName
<1>3. ASSUME NEW s \in ReqNames \ {EmptyName}
      PROVE  /\ SourceName(s) \in Name /\ SourceName(s).ext # NoExt
             /\ SourceName(s) \in Sources
  BY <1>1 DEF SourceName, Name, Sources
<1>4. EmptyName.ext = NoExt
  BY DEF EmptyName
<1>5. Sources \subseteq Name
  BY <1>3 DEF Sources
<1> QED
  BY <1>1, <1>2, <1>3, <1>4, <1>5 DEF AllNames, Dirnames

\* With texts in the files, the names that calls are made with tell rows that
\* were created from the others.
LEMMA TextFacts ==
  ASSUME PlainTexts
  PROVE  /\ TextsUnused /\ PlainBlanks
         /\ \A n \in AllNames : n # EmptyName => n \in Visible
         /\ \A b \in Bufs, r \in Rows :
              ~Image[b][r].used /\ Image[b][r].attr # ATTR_SUBDIRECTORY
         /\ \A e : e.used /\ e.name \in AllNames /\ (e.name = EmptyName => e.cl # 0) => Created(e)
<1>1. TextsUnused /\ PlainBlanks
  BY ShellNames DEF PlainTexts, TextsUnused, PlainBlanks
<1>2. \A n \in AllNames : n # EmptyName => n \in Visible
  BY ShellNames DEF PlainTexts, Visible
<1>3. \A b \in Bufs, r \in Rows : ~Image[b][r].used /\ Image[b][r].attr # ATTR_SUBDIRECTORY
  BY DEF PlainTexts
<1> QED
  BY <1>1, <1>2, <1>3 DEF Created

LEMMA NamesFinite == IsFiniteSet(AllNames) /\ Cardinality(AllNames) \in Nat
<1>1. IsFiniteSet(ReqNames \ {EmptyName})
  BY ShellAssumption, FS_RemoveElement
<1> DEFINE src == [n \in ReqNames \ {EmptyName} |-> SourceName(n)]
<1>2. src \in Surjection(ReqNames \ {EmptyName}, Sources)
  BY DEF Surjection, Sources
<1>3. IsFiniteSet(Sources)
  BY <1>1, <1>2, FS_Surjection
<1>4. IsFiniteSet(ReqNames \union Sources)
  BY <1>3, ShellAssumption, FS_Union
<1>5. IsFiniteSet(AllNames)
  BY <1>4, FS_AddElement DEF AllNames
<1> QED
  BY <1>5, FS_CardinalityType

\* The entries of a folder have different names and one row of it may be
\* marked, so there is room for one more: the new entry never takes row 0.
LEMMA RoomLeft ==
  ASSUME NEW D, RowsCreated(D), NamesDiffer(D), NEW p \in Clusters
  PROVE  EntryRow(D[p]) \in ScanRows /\ ~D[p][EntryRow(D[p])].used
<1> DEFINE W == WriteRows \ {0}
           S == W \ {p}
           name == [r \in S |-> D[p][r].name]
<1>1. IsFiniteSet(W) /\ Cardinality(W) \in Nat
  <2>1. IsFiniteSet(0 .. DIR_ROWS - 2)
    BY RowNumbers, FS_Interval
  <2>2. IsFiniteSet(W)
    BY <2>1, RowNumbers, FS_RemoveElement
  <2> QED
    BY <2>2, FS_CardinalityType
<1>2. IsFiniteSet(S) /\ Cardinality(AllNames) < Cardinality(S)
  <2>1. IsFiniteSet(S) /\ Cardinality(S) = IF p \in W THEN Cardinality(W) - 1 ELSE Cardinality(W)
    BY <1>1, FS_RemoveElement
  <2>2. Cardinality(AllNames) + 1 < Cardinality(W)
    BY RoomAssumption
  <2> HIDE DEF S, W
  <2> QED
    BY <1>1, <2>1, <2>2, NamesFinite
<1>3. EntryRow(D[p]) # 0
  <2> SUFFICES ASSUME \A r \in W : D[p][r].used PROVE FALSE
    <3>1. ASSUME NEW r \in W, ~D[p][r].used PROVE EntryRow(D[p]) # 0
      <4>1. PICK B : B = {x \in WriteRows : ~D[p][x].used}
        OBVIOUS
      <4>2. B \in SUBSET (0 .. DIR_ROWS - 2) /\ DIR_ROWS - 2 \in Nat /\ r \in B /\ r > 0
        BY <3>1, <4>1, RowNumbers
      <4>3. r <= Max(B) /\ Max(B) \in 0 .. DIR_ROWS - 2
        BY <4>2, MaxProperty
      <4>4. EntryRow(D[p]) = Max(B)
        BY <4>1, <4>2 DEF EntryRow
      <4> QED
        BY <4>2, <4>3, <4>4
    <3> QED
      BY <3>1
  <2>1. ASSUME NEW r \in S PROVE Created(D[p][r]) /\ D[p][r].name \in AllNames /\ r \in ScanRows
    <3>1. r \in ScanRows /\ r # p /\ D[p][r].used
      BY RowNumbers
    <3> QED
      BY <3>1 DEF RowsCreated
  <2>2. name \in [S -> AllNames]
    BY <2>1
  <2>3. \E x, y \in S : x # y /\ name[x] = name[y]
    <3> HIDE DEF S, name
    <3> QED
      BY <1>2, <2>2, NamesFinite, FS_PigeonHole
  <2>4. PICK x \in S, y \in S : x # y /\ D[p][x].name = D[p][y].name
    BY <2>3
  <2> QED
    BY <2>1, <2>4 DEF NamesDiffer
<1> QED
  BY <1>3, EntryRowIn, EntryRowUnused, RowNumbers

-----------------------------------------------------------------------------
(* The disk writes of tables and the tree *)

\* A row of an unused kind: it is no entry and shows no folder.
NoEntry(e) == ~Created(e) /\ e.attr # ATTR_SUBDIRECTORY

\* Rows are in tables.
LEMMA TableRows ==
  ASSUME NEW D \in [Clusters -> Table], NEW d \in Clusters, NEW r \in Rows
  PROVE  D[d] \in [Rows -> Entry] /\ D[d][r] \in Entry /\ D[d][r].used \in BOOLEAN
         /\ D[d][r].cl \in Nat /\ D[d][r].name \in Name
  BY DEF Table, Entry

\* The folder of an entry lies in a data cluster, so it is not the root.
LEMMA EntryClusters ==
  ASSUME NEW f, NEW D, Sound(f, D), NEW d \in Clusters, NEW r \in ScanRows, Created(D[d][r])
  PROVE  /\ D[d][r].cl \in DataClusters /\ D[d][r].cl \in Clusters
         /\ D[d][r].cl # 0 /\ D[d][r].cl # ROOT
  BY Numbers DEF Sound, EntriesOwn, Owns, DataClusters

\* What the write of the parent's table does to the rows.
LEMMA EntryPutRows ==
  ASSUME NEW f, NEW D \in [Clusters -> Table], Sound(f, D), RowsCreated(D), NamesDiffer(D),
         NEW p \in Clusters, IsFolder(D[p]), NEW e \in Entry,
         NEW q, q = EntryRow(D[p]), NEW E, E = EntryWritten(D, p, q, e)
  PROVE  /\ E \in [Clusters -> Table] /\ E[p][q] = e /\ ~D[p][q].used
         /\ q \in ScanRows /\ q \in WriteRows
         /\ \A d \in Clusters : E[d][0] = D[d][0]
         /\ \A d \in Clusters, r \in ScanRows :
              \/ d = p /\ r = q
              \/ E[d][r] = D[d][r]
              \/ d = r /\ r # LastWriteRow /\ NoEntry(D[d][r]) /\ NoEntry(E[d][r])
<1>1. q \in ScanRows /\ q \in WriteRows /\ q # 0 /\ ~D[p][q].used /\ q \in Rows
  BY RoomLeft, EntryRowIn, RowNumbers
<1>2. p # 0
  <2>1. Holds(D[p])
    BY RowNumbers DEF IsFolder, Holds
  <2> QED
    BY <2>1, Numbers DEF Sound, TablesOwned
<1>3. D[p] \in Table /\ D[p] \in [Rows -> Entry]
  BY DEF Table
<1>4. MarkRow(D[p], p) \in Table /\ MarkRow(D[p], p) \in [Rows -> Entry]
  BY <1>3, MarkRowTable DEF Table
<1>5. E = [D EXCEPT ![p] = [MarkRow(D[p], p) EXCEPT ![q] = e]]
  BY DEF EntryWritten
<1>6. E \in [Clusters -> Table]
  <2>1. [MarkRow(D[p], p) EXCEPT ![q] = e] \in Table
    BY <1>1, <1>4 DEF Table
  <2> QED
    BY <1>5, <2>1
<1>7. E[p][q] = e /\ \A r \in Rows : r # q => E[p][r] = MarkRow(D[p], p)[r]
  BY <1>1, <1>4, <1>5
<1>8. \A r \in Rows : r # p => MarkRow(D[p], p)[r] = D[p][r]
  BY <1>3 DEF MarkRow
<1>9. \A d \in Clusters : d # p => E[d] = D[d]
  BY <1>5
<1>10. ASSUME NEW d \in Clusters PROVE E[d][0] = D[d][0]
  BY <1>1, <1>2, <1>7, <1>8, <1>9, RowNumbers
<1>11. ASSUME NEW r \in ScanRows, r # q, r = p
       PROVE  \/ E[p][r] = D[p][r]
              \/ r # LastWriteRow /\ NoEntry(D[p][r]) /\ NoEntry(E[p][r])
  <2>1. r \in Rows /\ E[p][r] = [D[p][r] EXCEPT !.used = TRUE]
    BY <1>3, <1>7, <1>11, RowNumbers DEF MarkRow
  <2>2. D[p][r] \in Entry
    BY <1>3, <2>1
  <2>3. CASE D[p][r].used
    BY <2>1, <2>2, <2>3 DEF Entry
  <2>4. CASE ~D[p][r].used
    <3>1. r # LastWriteRow
      BY <1>11, <2>4, EntryRowUnused
    <3>2. MarkOf(D[p], r)
      BY <1>11, <3>1 DEF Sound, MarkRows
    <3>3. ~Created(D[p][r]) /\ D[p][r].attr # ATTR_SUBDIRECTORY
      BY <2>4 DEF Created, RowsCreated
    <3>4. E[p][r].name = D[p][r].name /\ E[p][r].cl = D[p][r].cl /\ E[p][r].attr = D[p][r].attr
      BY <2>1, <2>2 DEF Entry
    <3>5. ~Created(E[p][r])
      BY <3>2, <3>4 DEF MarkOf, Created
    <3> QED
      BY <3>1, <3>3, <3>4, <3>5 DEF NoEntry
  <2> QED
    BY <2>3, <2>4
<1>12. ASSUME NEW d \in Clusters, NEW r \in ScanRows
       PROVE  \/ d = p /\ r = q
              \/ E[d][r] = D[d][r]
              \/ d = r /\ r # LastWriteRow /\ NoEntry(D[d][r]) /\ NoEntry(E[d][r])
  BY <1>7, <1>8, <1>9, <1>11, RowNumbers
<1> QED
  BY <1>1, <1>6, <1>7, <1>10, <1>12

\* A new entry, of a file or of a folder to be made.
LEMMA EntryPut ==
  ASSUME NEW f, NEW D \in [Clusters -> Table], Sound(f, D), Tree(D, 0, 0),
         NEW p \in Clusters, IsFolder(D[p]), NEW e \in Entry, Created(e), e.name \in AllNames,
         e.attr = ATTR_SUBDIRECTORY => e.name \in Dirnames /\ e.size = 0,
         ~Duplicate(D[p], e.name),
         NEW q, q = EntryRow(D[p]), NEW E, E = EntryWritten(D, p, q, e),
         NEW new, e.attr = ATTR_SUBDIRECTORY => new = e.cl
  PROVE  Tree(E, new, 0) /\ IsFolder(E[p]) /\ q \in ScanRows /\ E[p][q] = e
<1>0. RowsCreated(D) /\ NamesDiffer(D) /\ TablesAreFolders(D) /\ DownSound(D, 0) /\ UpSound(D, 0)
  BY DEF Tree
<1>1. /\ E \in [Clusters -> Table] /\ E[p][q] = e /\ ~D[p][q].used
      /\ q \in ScanRows /\ q \in WriteRows
      /\ \A d \in Clusters : E[d][0] = D[d][0]
      /\ \A d \in Clusters, r \in ScanRows :
           \/ d = p /\ r = q
           \/ E[d][r] = D[d][r]
           \/ d = r /\ r # LastWriteRow /\ NoEntry(D[d][r]) /\ NoEntry(E[d][r])
  BY <1>0, EntryPutRows
<1>2. RowsCreated(E)
  BY <1>0, <1>1 DEF RowsCreated, NoEntry
<1>3. ASSUME NEW r \in ScanRows, Created(E[p][r]), r # q PROVE E[p][r].name # e.name
  <2>1. E[p][r] = D[p][r] /\ r \in WriteRows
    BY <1>0, <1>1, <1>3 DEF NoEntry, RowsCreated
  <2> QED
    BY <2>1 DEF Duplicate
<1>4. NamesDiffer(E)
  <2>1. ASSUME NEW d \in Clusters, NEW r1 \in ScanRows, NEW r2 \in ScanRows,
               Created(E[d][r1]), Created(E[d][r2]), E[d][r1].name = E[d][r2].name
        PROVE  r1 = r2
    <3>1. CASE d = p /\ (r1 = q \/ r2 = q)
      BY <1>1, <1>3, <2>1, <3>1
    <3>2. CASE ~(d = p /\ (r1 = q \/ r2 = q))
      <4>1. E[d][r1] = D[d][r1] /\ E[d][r2] = D[d][r2]
        BY <1>1, <2>1, <3>2 DEF NoEntry
      <4> QED
        BY <1>0, <2>1, <4>1 DEF NamesDiffer
    <3> QED
      BY <3>1, <3>2
  <2>2. ASSUME NEW d \in Clusters, NEW r \in ScanRows, Created(E[d][r])
        PROVE  E[d][r].name # E[d][0].name
    <3>1. CASE d = p /\ r = q
      BY <1>1, <3>1, RowNumbers DEF Duplicate
    <3>2. CASE ~(d = p /\ r = q)
      <4>1. E[d][r] = D[d][r]
        BY <1>1, <2>2, <3>2 DEF NoEntry
      <4> QED
        BY <1>0, <1>1, <2>2, <4>1 DEF NamesDiffer
    <3> QED
      BY <3>1, <3>2
  <2> QED
    BY <2>1, <2>2 DEF NamesDiffer
<1>5. \A d \in Clusters : IsFolder(E[d]) <=> IsFolder(D[d])
  BY <1>1 DEF IsFolder
<1>6. TablesAreFolders(E)
  <2>1. ASSUME NEW d \in Clusters, Holds(E[d]) PROVE IsFolder(E[d])
    <3>1. CASE d = p
      BY <1>5, <3>1
    <3>2. CASE d # p
      <4>1. E[d] = D[d]
        BY <3>2 DEF EntryWritten
      <4> QED
        BY <1>0, <2>1, <4>1 DEF TablesAreFolders
    <3> QED
      BY <3>1, <3>2
  <2> QED
    BY <1>0, <1>1, <1>5, <2>1, Numbers DEF TablesAreFolders
<1>7. DownSound(E, new)
  <2> SUFFICES ASSUME NEW d \in Clusters, NEW r \in ScanRows, ~(d = p /\ r = q),
                      E[d][r].attr = ATTR_SUBDIRECTORY
               PROVE  Knows(E[E[d][r].cl], E[d][r].name, d)
    BY <1>1 DEF DownSound
  <2>1. E[d][r] = D[d][r]
    BY <1>1 DEF NoEntry
  <2>2. Created(D[d][r])
    BY <1>0, <2>1 DEF RowsCreated
  <2>3. D[d][r].cl \in Clusters /\ D[d][r].cl # 0
    BY <2>2, EntryClusters
  <2>4. Knows(D[D[d][r].cl], D[d][r].name, d)
    BY <1>0, <2>1, <2>3 DEF DownSound
  <2> QED
    BY <1>1, <1>5, <2>1, <2>3, <2>4 DEF Knows
<1>8. UpSound(E, 0)
  <2> SUFFICES ASSUME NEW d \in Clusters \ {ROOT}, IsFolder(E[d]), d # 0 PROVE InParent(E, d)
    BY DEF UpSound
  <2>1. InParent(D, d)
    BY <1>0, <1>5 DEF UpSound
  <2>2. PICK c \in Clusters : c = D[d][0].cl
    BY <2>1 DEF InParent
  <2>3. PICK r \in ScanRows : EntryFor(D[c][r], D[d][0].name, d)
    BY <2>1, <2>2 DEF InParent, Contains
  <2>4. E[c][r] = D[c][r]
    BY <1>0, <1>1, <2>3 DEF EntryFor, NoEntry
  <2> QED
    BY <1>1, <1>5, <2>1, <2>2, <2>3, <2>4 DEF InParent, Contains
<1> QED
  BY <1>1, <1>2, <1>4, <1>5, <1>6, <1>7, <1>8 DEF Tree

\* The write of a table in which delete cleared a row.
LEMMA EntryCleared ==
  ASSUME NEW f, NEW D \in [Clusters -> Table], Sound(f, D), Tree(D, 0, 0),
         NEW p \in Clusters, NEW h \in ScanRows, NEW E, E = RowCleared(D, p, h),
         NEW old, D[p][h].attr = ATTR_SUBDIRECTORY => old = D[p][h].cl
  PROVE  /\ Tree(E, 0, old)
         /\ \A d \in Clusters : E[d][0] = D[d][0] /\ (IsFolder(E[d]) <=> IsFolder(D[d]))
         /\ ~E[p][h].used /\ E[p][h].attr # ATTR_SUBDIRECTORY
         /\ \A d \in Clusters, r \in ScanRows : (d = p /\ r = h) \/ E[d][r] = D[d][r]
<1>0. RowsCreated(D) /\ NamesDiffer(D) /\ TablesAreFolders(D) /\ DownSound(D, 0) /\ UpSound(D, 0)
  BY DEF Tree
<1>1. /\ ~E[p][h].used /\ E[p][h].attr # ATTR_SUBDIRECTORY
      /\ \A r \in Rows : r # h => E[p][r] = D[p][r]
      /\ \A d \in Clusters : d # p => E[d] = D[d]
  <2>1. D[p] \in [Rows -> Entry] /\ h \in Rows /\ D[p][h] \in Entry
    BY RowNumbers DEF Table
  <2>2. E[p] = ClearRow(D[p], h) /\ \A d \in Clusters : d # p => E[d] = D[d]
    BY DEF RowCleared
  <2>3. ClearRow(D[p], h)[h] = [D[p][h] EXCEPT !.name = EmptyName, !.attr = 0, !.used = FALSE]
    BY <2>1 DEF ClearRow
  <2>4. ~ClearRow(D[p], h)[h].used /\ ClearRow(D[p], h)[h].attr # ATTR_SUBDIRECTORY
    BY <2>1, <2>3 DEF Entry, ATTR_SUBDIRECTORY
  <2>5. \A r \in Rows : r # h => ClearRow(D[p], h)[r] = D[p][r]
    BY <2>1 DEF ClearRow
  <2> QED
    BY <2>2, <2>4, <2>5
<1>2. \A d \in Clusters, r \in ScanRows : (d = p /\ r = h) \/ E[d][r] = D[d][r]
  BY <1>1, RowNumbers
<1>3. \A d \in Clusters : E[d][0] = D[d][0] /\ (IsFolder(E[d]) <=> IsFolder(D[d]))
  BY <1>1, RowNumbers DEF IsFolder
<1>4. ~Created(E[p][h])
  BY <1>1 DEF Created
<1>5. RowsCreated(E)
  BY <1>0, <1>1, <1>2, <1>4 DEF RowsCreated
<1>6. NamesDiffer(E)
  BY <1>0, <1>2, <1>3, <1>4 DEF NamesDiffer
<1>7. TablesAreFolders(E)
  <2>1. ASSUME NEW d \in Clusters, Holds(E[d]) PROVE Holds(D[d])
    BY <1>1, <2>1 DEF Holds
  <2> QED
    BY <1>0, <1>3, <2>1, Numbers DEF TablesAreFolders
<1>8. DownSound(E, 0)
  <2> SUFFICES ASSUME NEW d \in Clusters, NEW r \in ScanRows, E[d][r].attr = ATTR_SUBDIRECTORY
               PROVE  Knows(E[E[d][r].cl], E[d][r].name, d)
    BY DEF DownSound
  <2>1. E[d][r] = D[d][r]
    BY <1>1, <1>2
  <2>2. Created(D[d][r])
    BY <1>0, <2>1 DEF RowsCreated
  <2>3. D[d][r].cl \in Clusters /\ D[d][r].cl # 0
    BY <2>2, EntryClusters
  <2>4. Knows(D[D[d][r].cl], D[d][r].name, d)
    BY <1>0, <2>1, <2>3 DEF DownSound
  <2> QED
    BY <1>3, <2>1, <2>3, <2>4 DEF Knows
<1>9. UpSound(E, old)
  <2> SUFFICES ASSUME NEW d \in Clusters \ {ROOT}, IsFolder(E[d]), d # old PROVE InParent(E, d)
    BY DEF UpSound
  <2>0. d # 0
    <3>1. Holds(D[d])
      BY <1>3, RowNumbers DEF IsFolder, Holds
    <3> QED
      BY <3>1, Numbers DEF Sound, TablesOwned
  <2>1. InParent(D, d)
    BY <1>0, <1>3, <2>0 DEF UpSound
  <2>2. PICK c \in Clusters : c = D[d][0].cl
    BY <2>1 DEF InParent
  <2>3. PICK r \in ScanRows : EntryFor(D[c][r], D[d][0].name, d)
    BY <2>1, <2>2 DEF InParent, Contains
  <2>4. E[c][r] = D[c][r]
    BY <1>2, <2>3 DEF EntryFor
  <2> QED
    BY <1>3, <2>1, <2>2, <2>3, <2>4 DEF InParent, Contains
<1> QED
  BY <1>1, <1>2, <1>3, <1>5, <1>6, <1>7, <1>8, <1>9 DEF Tree

\* The write of a new folder's own table.
LEMMA OwnTablePut ==
  ASSUME NEW f, NEW D \in [Clusters -> Table], Sound(f, D), NEW c \in DataClusters,
         Tree(D, c, 0), ~Holds(D[c]), NEW p \in Clusters, IsFolder(D[p]),
         NEW n \in Dirnames, Contains(D[p], n, c),
         NEW E, E = TablePut(D, c, [D[c] EXCEPT ![0] = DirEntry(n, p)])
  PROVE  /\ Tree(E, 0, 0)
         /\ \A d \in Clusters : IsFolder(D[d]) => IsFolder(E[d])
         /\ \A d \in Clusters, r \in ScanRows : E[d][r] = D[d][r]
<1>0. RowsCreated(D) /\ NamesDiffer(D) /\ TablesAreFolders(D) /\ DownSound(D, c) /\ UpSound(D, 0)
  BY DEF Tree
<1>1. c \in Clusters /\ c # ROOT /\ c # 0 /\ ROOT \in Clusters
  BY Numbers DEF DataClusters, ROOT
<1>2. /\ E[c][0] = DirEntry(n, p) /\ \A r \in Rows : r # 0 => E[c][r] = D[c][r]
      /\ \A d \in Clusters : d # c => E[d] = D[d]
  BY <1>1, RowNumbers DEF TablePut, Table
<1>3. \A d \in Clusters, r \in ScanRows : E[d][r] = D[d][r]
  BY <1>2, RowNumbers
<1>4. IsFolder(E[c]) /\ E[c][0].name = n /\ E[c][0].cl = p
  BY <1>2 DEF IsFolder, DirEntry
<1>5. \A d \in Clusters : IsFolder(D[d]) => d # c /\ IsFolder(E[d]) /\ E[d] = D[d]
  BY <1>2, RowNumbers DEF IsFolder, Holds
<1>6. \A r \in ScanRows : ~Created(D[c][r])
  BY RowNumbers DEF Holds, Created
<1>7. RowsCreated(E)
  BY <1>0, <1>3 DEF RowsCreated
<1>8. NamesDiffer(E)
  <2>1. ASSUME NEW d \in Clusters, NEW r1 \in ScanRows, NEW r2 \in ScanRows,
               Created(E[d][r1]), Created(E[d][r2]), E[d][r1].name = E[d][r2].name
        PROVE  r1 = r2
    <3>1. E[d][r1] = D[d][r1] /\ E[d][r2] = D[d][r2]
      BY <1>3
    <3> QED
      BY <1>0, <2>1, <3>1 DEF NamesDiffer
  <2>2. ASSUME NEW d \in Clusters, NEW r \in ScanRows, Created(E[d][r])
        PROVE  E[d][r].name # E[d][0].name
    <3>1. E[d][r] = D[d][r] /\ Created(D[d][r])
      BY <1>3, <2>2
    <3>2. d # c
      BY <1>6, <3>1
    <3> QED
      BY <1>0, <1>2, <3>1, <3>2 DEF NamesDiffer
  <2> QED
    BY <2>1, <2>2 DEF NamesDiffer
<1>9. TablesAreFolders(E)
  BY <1>0, <1>1, <1>2, <1>4, <1>5 DEF TablesAreFolders
<1>10. DownSound(E, 0)
  <2> SUFFICES ASSUME NEW d \in Clusters, NEW r \in ScanRows, E[d][r].attr = ATTR_SUBDIRECTORY
               PROVE  Knows(E[E[d][r].cl], E[d][r].name, d)
    BY DEF DownSound
  <2>1. E[d][r] = D[d][r] /\ Created(D[d][r]) /\ D[d][r].cl \in Clusters
    BY <1>0, <1>3, EntryClusters DEF RowsCreated
  <2>2. CASE D[d][r].cl = c
    <3>1. PICK x \in ScanRows : EntryFor(D[p][x], n, c)
      BY DEF Contains
    <3>2. Created(D[p][x])
      BY <1>0, <3>1 DEF EntryFor, RowsCreated
    <3>3. d = p /\ r = x
      BY <2>1, <2>2, <3>1, <3>2 DEF EntryFor, Sound, OneOwner
    <3> QED
      BY <1>4, <2>1, <2>2, <3>1, <3>3 DEF Knows, EntryFor
  <2>3. CASE D[d][r].cl # c
    BY <1>0, <1>2, <2>1, <2>3 DEF DownSound
  <2> QED
    BY <2>2, <2>3
<1>11. UpSound(E, 0)
  <2> SUFFICES ASSUME NEW d \in Clusters \ {ROOT}, IsFolder(E[d]), d # 0 PROVE InParent(E, d)
    BY DEF UpSound
  <2>1. CASE d = c
    BY <1>4, <1>5, <2>1 DEF InParent
  <2>2. CASE d # c
    <3>1. E[d] = D[d] /\ InParent(D, d)
      BY <1>0, <1>2, <2>2 DEF UpSound
    <3> QED
      BY <1>5, <3>1 DEF InParent
  <2> QED
    BY <2>1, <2>2
<1> QED
  BY <1>3, <1>5, <1>7, <1>8, <1>9, <1>10, <1>11 DEF Tree

\* The write of a deleted folder's own table.
LEMMA OwnTableCleared ==
  ASSUME NEW f, NEW D \in [Clusters -> Table], Sound(f, D), NEW c \in DataClusters,
         Tree(D, 0, c), ~Occupied(D[c]), Untargeted(D, c),
         NEW E, E = TablePut(D, c, ClearRow(D[c], 0))
  PROVE  /\ Tree(E, 0, 0)
         /\ \A d \in Clusters : d # c => E[d] = D[d]
         /\ \A d \in Clusters, r \in ScanRows : E[d][r] = D[d][r]
<1>0. RowsCreated(D) /\ NamesDiffer(D) /\ TablesAreFolders(D) /\ DownSound(D, 0) /\ UpSound(D, c)
  BY DEF Tree
<1>1. c \in Clusters /\ c # ROOT /\ c # 0 /\ ROOT \in Clusters
  BY Numbers DEF DataClusters, ROOT
<1>2. /\ ~E[c][0].used /\ \A r \in Rows : r # 0 => E[c][r] = D[c][r]
      /\ \A d \in Clusters : d # c => E[d] = D[d]
  <2>1. D[c] \in [Rows -> Entry] /\ 0 \in Rows /\ D[c][0] \in Entry
    BY <1>1, RowNumbers DEF Table
  <2>2. ClearRow(D[c], 0)[0] = [D[c][0] EXCEPT !.name = EmptyName, !.attr = 0, !.used = FALSE]
    BY <2>1 DEF ClearRow
  <2>3. ~ClearRow(D[c], 0)[0].used
    BY <2>1, <2>2 DEF Entry
  <2>4. \A r \in Rows : r # 0 => ClearRow(D[c], 0)[r] = D[c][r]
    BY <2>1 DEF ClearRow
  <2> QED
    BY <1>1, <2>3, <2>4 DEF TablePut
<1>3. \A d \in Clusters, r \in ScanRows : E[d][r] = D[d][r]
  BY <1>2, RowNumbers
<1>4. \A r \in ScanRows : ~D[c][r].used /\ ~Created(D[c][r])
  BY DEF Occupied, Created
<1>5. ~Holds(E[c]) /\ ~IsFolder(E[c])
  <2>1. \A r \in Rows : r = 0 \/ r \in ScanRows
    BY RowNumbers
  <2> QED
    BY <1>2, <1>4, <2>1 DEF Holds, IsFolder
<1>6. RowsCreated(E)
  BY <1>0, <1>3 DEF RowsCreated
<1>7. NamesDiffer(E)
  BY <1>0, <1>2, <1>3, <1>4 DEF NamesDiffer
<1>8. TablesAreFolders(E)
  BY <1>0, <1>1, <1>2, <1>5 DEF TablesAreFolders
<1>9. DownSound(E, 0)
  <2> SUFFICES ASSUME NEW d \in Clusters, NEW r \in ScanRows, E[d][r].attr = ATTR_SUBDIRECTORY
               PROVE  Knows(E[E[d][r].cl], E[d][r].name, d)
    BY DEF DownSound
  <2>1. E[d][r] = D[d][r] /\ Created(D[d][r]) /\ D[d][r].cl \in Clusters /\ D[d][r].cl # 0
    BY <1>0, <1>3, EntryClusters DEF RowsCreated
  <2>2. D[d][r].cl # c
    BY <2>1 DEF Untargeted
  <2> QED
    BY <1>0, <1>2, <2>1, <2>2 DEF DownSound
<1>10. UpSound(E, 0)
  <2> SUFFICES ASSUME NEW d \in Clusters \ {ROOT}, IsFolder(E[d]) PROVE InParent(E, d)
    BY DEF UpSound
  <2>1. E[d] = D[d] /\ InParent(D, d)
    BY <1>0, <1>2, <1>5 DEF UpSound
  <2>2. D[d][0].cl # c
    BY <1>4, <2>1 DEF InParent, Contains, EntryFor
  <2> QED
    BY <1>2, <2>1, <2>2 DEF InParent
<1> QED
  BY <1>2, <1>3, <1>6, <1>7, <1>8, <1>9, <1>10 DEF Tree

\* The write of a part of a file.
LEMMA TextPut ==
  ASSUME PlainTexts, NEW f, NEW D, Sound(f, D), Tree(D, 0, 0), NEW c \in Clusters, ~Holds(D[c]),
         NEW b \in Bufs, NEW E, E = [D EXCEPT ![c] = Image[b]], DOMAIN D = Clusters
  PROVE  /\ Tree(E, 0, 0)
         /\ \A d \in Clusters : IsFolder(D[d]) => IsFolder(E[d])
<1>0. RowsCreated(D) /\ NamesDiffer(D) /\ TablesAreFolders(D) /\ DownSound(D, 0) /\ UpSound(D, 0)
  BY DEF Tree
<1>1. \A r \in Rows : ~Image[b][r].used /\ Image[b][r].attr # ATTR_SUBDIRECTORY
  BY TextFacts
<1>2. E[c] = Image[b] /\ \A d \in Clusters : d # c => E[d] = D[d]
  OBVIOUS
<1>3. /\ \A r \in Rows : ~E[c][r].used /\ ~Created(E[c][r]) /\ E[c][r].attr # ATTR_SUBDIRECTORY
      /\ ~Holds(E[c]) /\ ~IsFolder(E[c]) /\ ~IsFolder(D[c])
      /\ \A r \in ScanRows : ~D[c][r].used
  BY <1>1, <1>2, RowNumbers DEF Created, Holds, IsFolder
<1>4. RowsCreated(E)
  BY <1>0, <1>2, <1>3, RowNumbers DEF RowsCreated
<1>5. NamesDiffer(E)
  BY <1>0, <1>2, <1>3, RowNumbers DEF NamesDiffer
<1>6. TablesAreFolders(E)
  BY <1>0, <1>2, <1>3, Numbers DEF TablesAreFolders
<1>7. DownSound(E, 0)
  <2> SUFFICES ASSUME NEW d \in Clusters, NEW r \in ScanRows, E[d][r].attr = ATTR_SUBDIRECTORY
               PROVE  Knows(E[E[d][r].cl], E[d][r].name, d)
    BY DEF DownSound
  <2>1. E[d][r] = D[d][r]
    BY <1>2, <1>3, RowNumbers
  <2>2. Created(D[d][r]) /\ D[d][r].cl \in Clusters /\ D[d][r].cl # 0
    BY <1>0, <2>1, EntryClusters DEF RowsCreated
  <2>3. Knows(D[D[d][r].cl], D[d][r].name, d)
    BY <1>0, <2>1, <2>2 DEF DownSound
  <2> QED
    BY <1>2, <1>3, <2>1, <2>2, <2>3 DEF Knows
<1>8. UpSound(E, 0)
  <2> SUFFICES ASSUME NEW d \in Clusters \ {ROOT}, IsFolder(E[d]), d # 0 PROVE InParent(E, d)
    BY DEF UpSound
  <2>1. E[d] = D[d] /\ InParent(D, d)
    BY <1>0, <1>2, <1>3 DEF UpSound
  <2> QED
    BY <1>2, <1>3, <2>1 DEF InParent
<1> QED
  BY <1>2, <1>3, <1>4, <1>5, <1>6, <1>7, <1>8 DEF Tree

-----------------------------------------------------------------------------
(* The calls and the tree *)

LEMMA FolderHolds == \A t : IsFolder(t) => Holds(t)
  BY RowNumbers DEF IsFolder, Holds

LEMMA KnownFacts ==
  ASSUME DiskInv, Known
  PROVE  /\ diskFat \in Fat /\ dirs \in [Clusters -> Table] /\ op \in Calls
         /\ Links(diskFat) /\ Sound(diskFat, dirs) /\ CallSound
  BY DEF DiskInv, Known, TypeOK, Fat, Calls

\* What the steps keep of the tables: folders, the entries of folders, and
\* that no folder comes in.
FoldersStay == \A d \in Clusters : IsFolder(dirs[d]) => IsFolder(dirs'[d])
FolderRowsStay ==
  \A d \in Clusters, r \in ScanRows :
    dirs[d][r].attr = ATTR_SUBDIRECTORY => dirs'[d][r] = dirs[d][r]
NoFolderComes ==
  \A d \in Clusters, r \in ScanRows :
    dirs'[d][r].attr = ATTR_SUBDIRECTORY => dirs'[d][r] = dirs[d][r]
TreeStays == FoldersStay /\ FolderRowsStay /\ NoFolderComes

\* Between the writes of a folder's creation or deletion the tree is whole.
LEMMA TreeRests ==
  ASSUME Tree(dirs', 0, 0), op'.pc \in {"idle", "wf_data", "df_fat", "dd_fat"}
  PROVE  TreeInv'
  BY DEF TreeInv, InCreation, InDeletion, CallTree

LEMMA TreeWhole ==
  ASSUME TreeInv, op.pc \notin {"mk_table", "dd_table"}
  PROVE  Tree(dirs, 0, 0)
  BY DEF TreeInv, InCreation, InDeletion

\* Calls that write no table in a step.
LEMMA TablesKept ==
  ASSUME TreeInv, op.pc \notin {"mk_table", "dd_table"}, dirs' = dirs,
         op'.pc \in {"idle", "df_fat", "dd_fat", "wild"}
  PROVE  (Known' => TreeInv') /\ TreeStays
<1>1. TreeStays
  BY DEF TreeStays, FoldersStay, FolderRowsStay, NoFolderComes
<1> QED
  BY <1>1, TreeWhole, TreeRests DEF Known, Defined

LEMMA WriteFolderTree ==
  ASSUME TreeInv, DiskInv, NEW p \in Clusters, NEW n \in Dirnames, WriteFolder(p, n)
  PROVE  TreeInv' /\ TreeStays /\ op'.pc = "mk_parent"
<1>1. Idle /\ IsFolder(dirs[p]) /\ ~Duplicate(dirs[p], n) /\ dirs' = dirs
  BY DEF WriteFolder, Writable
<1>2. PICK c : op' = [Step("mk_parent") EXCEPT
                        !.parent = p, !.cl = c, !.row = EntryRow(dirs[p]),
                        !.entry = DirEntry(n, c), !.table = MarkRow(dirs[p], p)]
  BY DEF WriteFolder
<1>3. op'.pc = "mk_parent" /\ op'.parent = p /\ op'.entry.name = n /\ op'.entry.size = 0
  BY <1>2 DEF Step, DirEntry
<1>4. CallTree'
  BY <1>1, <1>3, ShellNames DEF CallTree
<1>5. TreeStays
  BY <1>1 DEF TreeStays, FoldersStay, FolderRowsStay, NoFolderComes
<1> QED
  BY <1>1, <1>3, <1>4, <1>5, TreeWhole DEF TreeInv, InCreation, InDeletion, Idle

LEMMA WriteFileTree ==
  ASSUME TreeInv, DiskInv, NEW p \in Clusters, NEW n \in AllNames, NEW size, NEW b,
         WriteFile(p, n, size, b)
  PROVE  TreeInv' /\ TreeStays /\ op'.pc = "wf_parent"
<1>1. Idle /\ IsFolder(dirs[p]) /\ ~Duplicate(dirs[p], n) /\ dirs' = dirs
  BY DEF WriteFile, Writable
<1>2. PICK c : op' = [Step("wf_parent") EXCEPT
                        !.parent = p, !.cl = c, !.row = EntryRow(dirs[p]),
                        !.entry = FileEntry(n, c, size), !.table = MarkRow(dirs[p], p), !.buf = b]
  BY DEF WriteFile
<1>3. op'.pc = "wf_parent" /\ op'.parent = p /\ op'.entry.name = n
  BY <1>2 DEF Step, FileEntry
<1>4. CallTree'
  BY <1>1, <1>3 DEF CallTree
<1>5. TreeStays
  BY <1>1 DEF TreeStays, FoldersStay, FolderRowsStay, NoFolderComes
<1> QED
  BY <1>1, <1>3, <1>4, <1>5, TreeWhole DEF TreeInv, InCreation, InDeletion, Idle

\* The write of the parent's table, of either kind.
LEMMA ParentTree ==
  ASSUME PlainTexts, DiskInv, Known, TreeInv, op.pc \in {"mk_parent", "wf_parent"},
         dirs' = [dirs EXCEPT ![op.parent] = [op.table EXCEPT ![op.row] = op.entry]],
         NEW new, op.entry.attr = ATTR_SUBDIRECTORY => new = op.cl,
         op.entry.attr = ATTR_SUBDIRECTORY <=> op.pc = "mk_parent"
  PROVE  /\ Tree(dirs', new, 0) /\ IsFolder(dirs'[op.parent])
         /\ op.row \in ScanRows /\ dirs'[op.parent][op.row] = op.entry
         /\ FoldersStay /\ FolderRowsStay
         /\ op.pc = "wf_parent" => NoFolderComes
<1>1. /\ diskFat \in Fat /\ dirs \in [Clusters -> Table] /\ op \in Calls
      /\ Links(diskFat) /\ Sound(diskFat, dirs) /\ CallSound
  BY KnownFacts
<1>2. WritesParent
  BY <1>1 DEF CallSound
<1>3. op.parent \in Clusters /\ op.entry \in Entry /\ op.cl # 0
  BY <1>1, <1>2, Numbers DEF Calls, WritesParent, Fresh
<1>4. /\ IsFolder(dirs[op.parent]) /\ ~Duplicate(dirs[op.parent], op.entry.name)
      /\ op.entry.name \in AllNames
      /\ op.entry.attr = ATTR_SUBDIRECTORY => op.entry.name \in Dirnames /\ op.entry.size = 0
  BY DEF TreeInv, CallTree
<1>5. Created(op.entry)
  BY <1>2, <1>3, <1>4, TextFacts DEF WritesParent
<1>6. Tree(dirs, 0, 0)
  BY TreeWhole
<1>7. dirs' = EntryWritten(dirs, op.parent, op.row, op.entry) /\ op.row = EntryRow(dirs[op.parent])
      /\ op.entry.cl = op.cl
  BY <1>2 DEF EntryWritten, WritesParent
<1>8. PICK D, p, q, e, E :
        D = dirs /\ p = op.parent /\ q = op.row /\ e = op.entry /\ E = dirs'
  OBVIOUS
<1>9. /\ D \in [Clusters -> Table] /\ Sound(diskFat, D) /\ Tree(D, 0, 0) /\ p \in Clusters
      /\ IsFolder(D[p]) /\ e \in Entry /\ Created(e) /\ e.name \in AllNames
      /\ e.attr = ATTR_SUBDIRECTORY => e.name \in Dirnames /\ e.size = 0
      /\ e.attr = ATTR_SUBDIRECTORY => new = e.cl
      /\ ~Duplicate(D[p], e.name) /\ q = EntryRow(D[p]) /\ E = EntryWritten(D, p, q, e)
  BY <1>1, <1>3, <1>4, <1>5, <1>6, <1>7, <1>8
<1>10. Tree(E, new, 0) /\ IsFolder(E[p]) /\ q \in ScanRows /\ E[p][q] = e
  BY <1>9, EntryPut
<1>11. /\ ~D[p][q].used
       /\ \A d \in Clusters : E[d][0] = D[d][0]
       /\ \A d \in Clusters, r \in ScanRows :
            \/ d = p /\ r = q
            \/ E[d][r] = D[d][r]
            \/ NoEntry(D[d][r]) /\ NoEntry(E[d][r])
  <2>1. RowsCreated(D) /\ NamesDiffer(D)
    BY <1>9 DEF Tree
  <2> QED
    BY <1>9, <2>1, EntryPutRows
<1>12. FoldersStay
  BY <1>8, <1>11 DEF FoldersStay, IsFolder
<1>13. RowsCreated(dirs)
  BY <1>6 DEF Tree
<1>14. FolderRowsStay
  <2> SUFFICES ASSUME NEW d \in Clusters, NEW r \in ScanRows,
                      dirs[d][r].attr = ATTR_SUBDIRECTORY
               PROVE  dirs'[d][r] = dirs[d][r]
    BY DEF FolderRowsStay
  <2>1. Created(dirs[d][r]) /\ dirs[d][r].used
    BY <1>13 DEF RowsCreated, Created
  <2> QED
    BY <1>8, <1>11, <2>1 DEF NoEntry
<1>15. op.pc = "wf_parent" => NoFolderComes
  BY <1>8, <1>10, <1>11 DEF NoFolderComes, NoEntry
<1> QED
  BY <1>8, <1>10, <1>12, <1>14, <1>15

LEMMA FolderParentTree ==
  ASSUME PlainTexts, DiskInv, Known, TreeInv, FolderParent
  PROVE  TreeInv' /\ FoldersStay /\ FolderRowsStay /\ op'.pc = "mk_table"
<1>1. op \in Calls /\ op.entry.attr = ATTR_SUBDIRECTORY /\ op.entry.used /\ op.entry.cl = op.cl
      /\ op.entry \in Entry
  BY KnownFacts DEF CallSound, WritesParent, FolderParent, Calls
<1>2. /\ Tree(dirs', op.cl, 0) /\ IsFolder(dirs'[op.parent]) /\ op.row \in ScanRows
      /\ dirs'[op.parent][op.row] = op.entry /\ FoldersStay /\ FolderRowsStay
  BY <1>1, ParentTree DEF FolderParent
<1>3. /\ op'.pc = "mk_table" /\ op'.cl = op.cl /\ op'.parent = op.parent
      /\ op'.entry = [op.entry EXCEPT !.cl = op.parent]
  BY <1>1 DEF FolderParent, Calls
<1>4. op.entry.name \in Dirnames /\ op.entry.size = 0
  BY DEF TreeInv, CallTree, FolderParent
<1>5. op'.entry = DirEntry(op.entry.name, op.parent) /\ op'.entry.name = op.entry.name
  BY <1>1, <1>3, <1>4 DEF DirEntry, Entry
<1>6. Contains(dirs'[op.parent], op.entry.name, op.cl)
  BY <1>1, <1>2 DEF Contains, EntryFor
<1>7. CallTree'
  BY <1>2, <1>3, <1>4, <1>5, <1>6 DEF CallTree
<1> QED
  BY <1>2, <1>3, <1>7 DEF TreeInv, InCreation, InDeletion

LEMMA FileParentTree ==
  ASSUME PlainTexts, DiskInv, Known, TreeInv, FileParent
  PROVE  TreeInv' /\ TreeStays
<1>1. op \in Calls /\ op.entry.attr # ATTR_SUBDIRECTORY
  BY KnownFacts DEF CallSound, FileParent
<1>2. Tree(dirs', 0, 0) /\ FoldersStay /\ FolderRowsStay /\ NoFolderComes
  BY <1>1, ParentTree DEF FileParent
<1>3. op'.pc = "wf_data"
  BY <1>1 DEF FileParent, Calls
<1> QED
  BY <1>2, <1>3, TreeRests DEF TreeStays

LEMMA FolderTableTree ==
  ASSUME DiskInv, Known, TreeInv, FolderTable
  PROVE  TreeInv' /\ TreeStays
<1>1. /\ dirs \in [Clusters -> Table] /\ Sound(diskFat, dirs) /\ op \in Calls
      /\ TableOfCall /\ ~Holds(op.table)
  BY KnownFacts DEF CallSound, FolderTable
<1>2. op.cl \in DataClusters /\ op.table = dirs[op.cl] /\ op.parent \in Clusters
  BY <1>1 DEF TableOfCall, Calls
<1>3. PICK n \in Dirnames :
        /\ op.entry = DirEntry(n, op.parent) /\ IsFolder(dirs[op.parent])
        /\ Contains(dirs[op.parent], n, op.cl)
  BY DEF TreeInv, CallTree, FolderTable
<1>4. Tree(dirs, op.cl, 0)
  BY DEF TreeInv, InCreation, InDeletion, FolderTable
<1>5. dirs' = TablePut(dirs, op.cl, [dirs[op.cl] EXCEPT ![0] = DirEntry(n, op.parent)])
  BY <1>2, <1>3 DEF FolderTable, TablePut
<1>6. /\ Tree(dirs', 0, 0) /\ FoldersStay
      /\ \A d \in Clusters, r \in ScanRows : dirs'[d][r] = dirs[d][r]
  <2> HIDE DEF Tree
  <2> QED
    BY <1>1, <1>2, <1>3, <1>4, <1>5, OwnTablePut DEF FoldersStay
<1>7. op'.pc = "idle"
  BY DEF FolderTable, Return, Step
<1> QED
  BY <1>6, <1>7, TreeRests DEF TreeStays, FolderRowsStay, NoFolderComes

LEMMA FileDataTree ==
  ASSUME PlainTexts, CountInv, Known, TreeInv, FileData
  PROVE  TreeInv' /\ TreeStays
<1>1. op.pc = "wf_data" /\ DiskInv
  BY DEF FileData, CountInv
<1>2. /\ dirs \in [Clusters -> Table] /\ Sound(diskFat, dirs) /\ op \in Calls
      /\ op.cl \in Clusters /\ op.buf \in Bufs /\ ~Holds(dirs[op.cl])
  BY <1>1, NoTableInFile, KnownFacts DEF PartsWritten
<1>3. Tree(dirs, 0, 0)
  BY <1>1, TreeWhole
<1>4. dirs' = [dirs EXCEPT ![op.cl] = Image[op.buf]]
  BY DEF FileData
<1>5. DOMAIN dirs = Clusters
  BY <1>2
<1>6. Tree(dirs', 0, 0) /\ FoldersStay
  <2>1. PICK f, D, c, b, E : f = diskFat /\ D = dirs /\ c = op.cl /\ b = op.buf /\ E = dirs'
    OBVIOUS
  <2>2. /\ Sound(f, D) /\ Tree(D, 0, 0) /\ c \in Clusters /\ ~Holds(D[c]) /\ b \in Bufs
        /\ E = [D EXCEPT ![c] = Image[b]] /\ DOMAIN D = Clusters
    BY <1>2, <1>3, <1>4, <1>5, <2>1
  <2>3. Tree(E, 0, 0) /\ \A d \in Clusters : IsFolder(D[d]) => IsFolder(E[d])
    BY <2>2, TextPut
  <2> QED
    BY <2>1, <2>3 DEF FoldersStay
<1>7. op'.pc \in {"idle", "wf_data"}
  <2>1. CASE fat[op.cl] # EOF
    <3>1. op' = [op EXCEPT !.cl = fat[op.cl], !.part = op.part + 1]
      BY <2>1 DEF FileData
    <3> QED
      BY <1>1, <1>2, <3>1 DEF Calls
  <2>2. CASE fat[op.cl] = EOF
    BY <2>2 DEF FileData, Return, Step
  <2> QED
    BY <2>1, <2>2
<1>8. \A r \in ScanRows :
        dirs[op.cl][r].attr # ATTR_SUBDIRECTORY /\ dirs'[op.cl][r].attr # ATTR_SUBDIRECTORY
  <2> SUFFICES ASSUME NEW r \in ScanRows
               PROVE  dirs[op.cl][r].attr # ATTR_SUBDIRECTORY
                      /\ dirs'[op.cl][r].attr # ATTR_SUBDIRECTORY
    OBVIOUS
  <2>1. ~dirs[op.cl][r].used /\ r \in Rows
    BY <1>2, RowNumbers DEF Holds
  <2>2. dirs[op.cl][r].attr # ATTR_SUBDIRECTORY
    BY <1>2, <1>3, <2>1 DEF Tree, RowsCreated, Created
  <2> QED
    BY <1>2, <1>4, <2>1, <2>2, TextFacts
<1>9. FolderRowsStay /\ NoFolderComes
  BY <1>2, <1>4, <1>8 DEF FolderRowsStay, NoFolderComes
<1> QED
  BY <1>6, <1>7, <1>9, TreeRests DEF TreeStays

\* A name of the shell's finds what was created under it, or the row that
\* write marks.
LEMMA DeleteHit ==
  ASSUME PlainTexts, NEW D, RowsCreated(D), NEW p \in Clusters, NEW n \in AllNames,
         DeleteHits(D[p], n) # {}, NEW r, r = Min(DeleteHits(D[p], n))
  PROVE  /\ r \in ScanRows /\ D[p][r].used /\ D[p][r].name = n
         /\ \/ Created(D[p][r])
            \/ D[p][r].cl = 0 /\ D[p][r].attr # ATTR_SUBDIRECTORY
<1>1. r \in ScanRows /\ D[p][r].used /\ D[p][r].name = n
  BY HitRow
<1>2. D[p][r].cl # 0 => Created(D[p][r])
  BY <1>1, TextFacts
<1>3. D[p][r].attr = ATTR_SUBDIRECTORY => Created(D[p][r])
  BY <1>1 DEF RowsCreated
<1> QED
  BY <1>1, <1>2, <1>3

LEMMA DeleteFileTree ==
  ASSUME PlainTexts, TreeInv, DiskInv, NEW p \in Clusters, NEW n \in AllNames, DeleteFile(p, n)
  PROVE  DiskInv' /\ (Known' => TreeInv') /\ TreeStays /\ op'.pc = "df_fat"
<1>1. /\ Known /\ dirs \in [Clusters -> Table] /\ Sound(diskFat, dirs) /\ Tree(dirs, 0, 0)
      /\ RowsCreated(dirs)
  BY IdleFacts, TreeWhole DEF DeleteFile, Idle, Tree
<1>2. PICK r : r = Min(DeleteHits(dirs[p], n))
  OBVIOUS
<1>3. /\ r \in ScanRows /\ dirs[p][r].attr # ATTR_SUBDIRECTORY
      /\ Created(dirs[p][r]) \/ dirs[p][r].cl = 0
      /\ dirs' = RowCleared(dirs, p, r) /\ op'.pc = "df_fat"
  BY <1>1, <1>2, DeleteHit DEF DeleteFile, RowCleared, Step
<1>4. /\ Tree(dirs', 0, 0) /\ FoldersStay
      /\ dirs'[p][r].attr # ATTR_SUBDIRECTORY
      /\ \A d \in Clusters, q \in ScanRows : (d = p /\ q = r) \/ dirs'[d][q] = dirs[d][q]
  <2>1. PICK f, D, E : f = diskFat /\ D = dirs /\ E = dirs'
    OBVIOUS
  <2>2. /\ D \in [Clusters -> Table] /\ Sound(f, D) /\ Tree(D, 0, 0) /\ E = RowCleared(D, p, r)
        /\ D[p][r].attr = ATTR_SUBDIRECTORY => 0 = D[p][r].cl
    BY <1>1, <1>3, <2>1
  <2>3. /\ Tree(E, 0, 0) /\ \A d \in Clusters : IsFolder(E[d]) <=> IsFolder(D[d])
        /\ E[p][r].attr # ATTR_SUBDIRECTORY
        /\ \A d \in Clusters, q \in ScanRows : (d = p /\ q = r) \/ E[d][q] = D[d][q]
    BY <1>3, <2>2, EntryCleared
  <2> QED
    BY <2>1, <2>3 DEF FoldersStay
<1>5. TreeStays
  BY <1>3, <1>4 DEF TreeStays, FolderRowsStay, NoFolderComes
<1>6. DiskInv'
  BY <1>2, <1>3, DeleteFileSound, DeleteMarkSound DEF HitCreated
<1> QED
  BY <1>3, <1>4, <1>5, <1>6, TreeRests

\* The folder that delete finds: its own row names it and the folder it is in,
\* so it is neither of that folder nor the root.
LEMMA DeleteFolderTree ==
  ASSUME PlainTexts, TreeInv, DiskInv, NEW p \in Clusters, NEW n \in AllNames, DeleteFolder(p, n)
  PROVE  /\ DiskInv' /\ TreeInv' /\ FoldersStay /\ NoFolderComes
         /\ op'.pc = "dd_table" /\ op'.cl \notin {p, ROOT} /\ ~Occupied(dirs[op'.cl])
         /\ \E r \in ScanRows :
              /\ EntryFor(dirs[p][r], n, op'.cl) /\ Created(dirs[p][r])
              /\ \A d \in Clusters, q \in ScanRows : (d = p /\ q = r) \/ dirs'[d][q] = dirs[d][q]
<1>1. /\ Known /\ dirs \in [Clusters -> Table] /\ Sound(diskFat, dirs) /\ Tree(dirs, 0, 0)
      /\ RowsCreated(dirs) /\ NamesDiffer(dirs) /\ DownSound(dirs, 0)
  BY IdleFacts, TreeWhole DEF DeleteFolder, Idle, Tree
<1>2. PICK r : r = Min(DeleteHits(dirs[p], n))
  OBVIOUS
<1>3. PICK c : c = dirs[p][r].cl
  OBVIOUS
<1>4. /\ r \in ScanRows /\ EntryFor(dirs[p][r], n, c) /\ Created(dirs[p][r])
      /\ dirs' = RowCleared(dirs, p, r) /\ ~Occupied(dirs[c])
      /\ op' = [Step("dd_table") EXCEPT !.cl = c, !.table = dirs[c]]
  BY <1>1, <1>2, <1>3, DeleteHit DEF DeleteFolder, RowCleared, EntryFor
<1>5. op'.pc = "dd_table" /\ op'.cl = c
  BY <1>4 DEF Step
<1>6. c # 0 /\ c # ROOT /\ c \in Clusters
  BY <1>1, <1>3, <1>4, EntryClusters
<1>7. c # p
  <2>1. Knows(dirs[c], n, p)
    BY <1>1, <1>4, <1>6 DEF DownSound, EntryFor
  <2> QED
    BY <1>1, <1>4, <2>1 DEF Knows, NamesDiffer, EntryFor
<1>8. /\ Tree(dirs', 0, c) /\ FoldersStay
      /\ dirs'[p][r].attr # ATTR_SUBDIRECTORY
      /\ \A d \in Clusters, q \in ScanRows : (d = p /\ q = r) \/ dirs'[d][q] = dirs[d][q]
  <2>1. PICK f, D, E : f = diskFat /\ D = dirs /\ E = dirs'
    OBVIOUS
  <2>2. /\ D \in [Clusters -> Table] /\ Sound(f, D) /\ Tree(D, 0, 0) /\ E = RowCleared(D, p, r)
        /\ D[p][r].attr = ATTR_SUBDIRECTORY => c = D[p][r].cl
    BY <1>1, <1>3, <1>4, <2>1
  <2>3. /\ Tree(E, 0, c) /\ \A d \in Clusters : IsFolder(E[d]) <=> IsFolder(D[d])
        /\ E[p][r].attr # ATTR_SUBDIRECTORY
        /\ \A d \in Clusters, q \in ScanRows : (d = p /\ q = r) \/ E[d][q] = D[d][q]
    BY <1>4, <2>2, EntryCleared
  <2> QED
    BY <2>1, <2>3 DEF FoldersStay
<1>9. NoFolderComes
  BY <1>8 DEF NoFolderComes
<1>10. DiskInv'
  BY <1>2, <1>4, DeleteFolderSound DEF HitCreated
<1>11. TreeInv'
  BY <1>5, <1>8 DEF TreeInv, InCreation, InDeletion, CallTree
<1> QED
  BY <1>4, <1>5, <1>6, <1>7, <1>8, <1>9, <1>10, <1>11

LEMMA DeleteFolderTableTree ==
  ASSUME DiskInv, Known, TreeInv, DeleteFolderTable
  PROVE  /\ TreeInv' /\ FolderRowsStay /\ NoFolderComes /\ op'.pc = "dd_fat"
         /\ \A d \in Clusters : d # op.cl => dirs'[d] = dirs[d]
         /\ op.cl \in DataClusters
<1>1. /\ dirs \in [Clusters -> Table] /\ Sound(diskFat, dirs)
      /\ TableOfCall /\ ~Occupied(op.table) /\ Untargeted(dirs, op.cl)
  BY KnownFacts DEF CallSound, DeleteFolderTable
<1>2. op.cl \in DataClusters /\ op.table = dirs[op.cl]
  BY <1>1 DEF TableOfCall
<1>3. Tree(dirs, 0, op.cl)
  BY DEF TreeInv, InCreation, InDeletion, DeleteFolderTable
<1>4. dirs' = TablePut(dirs, op.cl, ClearRow(dirs[op.cl], 0))
  BY <1>2 DEF DeleteFolderTable, TablePut
<1>5. /\ Tree(dirs', 0, 0) /\ \A d \in Clusters : d # op.cl => dirs'[d] = dirs[d]
      /\ \A d \in Clusters, r \in ScanRows : dirs'[d][r] = dirs[d][r]
  <2>1. PICK f, D, c, E : f = diskFat /\ D = dirs /\ c = op.cl /\ E = dirs'
    OBVIOUS
  <2>2. /\ D \in [Clusters -> Table] /\ Sound(f, D) /\ c \in DataClusters /\ Tree(D, 0, c)
        /\ ~Occupied(D[c]) /\ Untargeted(D, c) /\ E = TablePut(D, c, ClearRow(D[c], 0))
    BY <1>1, <1>2, <1>3, <1>4, <2>1
  <2>3. /\ Tree(E, 0, 0) /\ \A d \in Clusters : d # c => E[d] = D[d]
        /\ \A d \in Clusters, r \in ScanRows : E[d][r] = D[d][r]
    BY <2>2, OwnTableCleared
  <2> QED
    BY <2>1, <2>3
<1>6. op'.pc = "dd_fat"
  BY DEF DeleteFolderTable, Step
<1> QED
  BY <1>2, <1>5, <1>6, TreeRests DEF FolderRowsStay, NoFolderComes

-----------------------------------------------------------------------------
(* The invariant of the disk through the shell's calls *)

\* What calls keep of the disk.
DiskKept == CountInv' /\ (Known' => TreeInv')
SamePlace == UNCHANGED <<dirs, data>> /\ TreeStays

\* Calls that write no table in a step, and return or go wild.
LEMMA AnswerKept ==
  ASSUME DiskInv', TreeInv, Idle, UNCHANGED <<dirs, data>>, op'.pc \in {"idle", "wild"}
  PROVE  DiskKept /\ SamePlace
<1>1. CountInv'
  BY Elsewhere DEF CountInv
<1> QED
  BY <1>1, TablesKept DEF DiskKept, SamePlace, Idle

\* Every read the shell makes.  What cp and mv keep of it is a text.
LEMMA ReadKept ==
  ASSUME CountInv, TreeInv, TextsStored, NEW p, NEW n, ReadIn(p, n)
  PROVE  /\ DiskKept /\ SamePlace /\ diskFat' = diskFat /\ op'.pc \in {"idle", "wild"}
         /\ op'.pc = "idle" => TextRead \in Bufs
<1>1. DiskInv /\ Idle
  BY DEF CountInv, ReadIn, ReadFails, ReadCopies, Overrun
<1>2. Known /\ signed /\ fat = diskFat
  BY <1>1, IdleFacts
<1>3. Zeros \in Bufs
  BY ShellAssumption
<1>4. ASSUME NEW size, ReadFails(p, n, size)
      PROVE  /\ DiskKept /\ SamePlace /\ op'.pc = "idle" /\ TextRead \in Bufs
             /\ diskFat' = diskFat
  <2>1. op' = Step("idle") /\ UNCHANGED <<signed, diskFat, dirs, data, fat>> /\ ret'.out = <<>>
    BY <1>2, <1>4 DEF ReadFails, Reply, Return, Code
  <2>2. DiskInv' /\ op'.pc = "idle"
    BY <1>1, <1>2, <2>1, Quiet, StepPc
  <2> QED
    BY <1>1, <1>3, <2>1, <2>2, AnswerKept DEF TextRead
<1>5. CASE ReadCopies(p, n, 4 * CLUSTER_SIZE) /\ Len(ret'.out) < 2
  <2>1. PICK c : c = dirs[p][Min(ReadHits(dirs[p], n))].cl
    OBVIOUS
  <2>2. UNCHANGED <<signed, diskFat, dirs, data, fat>>
    BY <1>2, <1>5 DEF ReadCopies
  <2>3. CASE c \in Clusters /\ Ends(diskFat, c)
    <3>1. PICK N : N = Cardinality(Chain(diskFat, c))
      OBVIOUS
    <3>2. op' = Step("idle") /\ ret'.out = [i \in 1 .. N |-> data[ChainAt(diskFat, c, i)]]
      BY <1>5, <2>1, <2>3, <3>1 DEF ReadCopies
    <3>3. N \in Nat \ {0} /\ c \in Chain(diskFat, c) /\ Chain(diskFat, c) \subseteq Clusters
      BY <2>3, <3>1, ChainFinite, ChainLeast
    <3>4. ChainAt(diskFat, c, 1) \in Clusters
      <4>1. \E x \in Chain(diskFat, c) : Cardinality(Chain(diskFat, x)) = N + 1 - 1
        BY <3>1, <3>3
      <4> QED
        BY <3>1, <3>3, <4>1 DEF ChainAt
    <3>5. ret'.out[1] = data[ChainAt(diskFat, c, 1)]
      BY <3>2, <3>3
    <3>6. TextRead \in Bufs
      BY <1>3, <3>4, <3>5 DEF TextRead, TextsStored
    <3>7. DiskInv' /\ op'.pc = "idle"
      BY <1>1, <1>2, <2>2, <3>2, Quiet, StepPc
    <3> QED
      BY <1>1, <2>2, <3>6, <3>7, AnswerKept
  <2>4. CASE ~(c \in Clusters /\ Ends(diskFat, c))
    <3>1. op' = Step("wild")
      BY <1>5, <2>1, <2>4 DEF ReadCopies
    <3>2. DiskInv' /\ op'.pc = "wild"
      BY <1>1, <2>2, <3>1, Lost, StepPc
    <3> QED
      BY <1>1, <2>2, <3>2, AnswerKept
  <2> QED
    BY <2>3, <2>4
<1>6. CASE Overrun(p, n)
  <2>1. op' = Step("wild") /\ UNCHANGED <<signed, diskFat, dirs, data, fat>>
    BY <1>6 DEF Overrun
  <2>2. DiskInv' /\ op'.pc = "wild"
    BY <1>1, <2>1, Lost, StepPc
  <2> QED
    BY <1>1, <2>1, <2>2, AnswerKept
<1> QED
  BY <1>4, <1>5, <1>6 DEF ReadIn

LEMMA TextsStay ==
  ASSUME TextsStored, \/ data' = data
                      \/ \E c, v : data' = [data EXCEPT ![c] = v] /\ (v = Raw \/ v[1] \in Bufs),
         DOMAIN data = Clusters
  PROVE  TextsStored'
  BY DEF TextsStored

\* Up to the first disk write of a write that asks for clusters.
LEMMA WriteKept ==
  ASSUME PlainTexts, CountInv, TreeInv, NEW p \in Clusters, NEW n \in AllNames,
         NEW size \in Nat, NEW b \in Bufs,
         \/ WriteRefused(p, n) \/ WriteWild(p, n, size) \/ WriteNoSpace(p, n, size)
         \/ WriteFile(p, n, size, b)
  PROVE  DiskKept /\ SamePlace /\ op'.pc \in {"idle", "wild", "wf_parent"}
<1>1. DiskInv
  BY DEF CountInv
<1>2. CASE WriteRefused(p, n)
  <2>1. DiskInv' /\ Idle /\ UNCHANGED <<dirs, data>> /\ op'.pc = "idle"
    BY <1>1, <1>2, WriteRefusedSound, StepPc DEF WriteRefused, Reply, Return
  <2> QED
    BY <2>1, AnswerKept
<1>3. CASE WriteWild(p, n, size)
  <2>1. DiskInv' /\ Idle /\ UNCHANGED <<dirs, data>> /\ op'.pc = "wild"
    BY <1>1, <1>3, WriteWildSound, StepPc DEF WriteWild, Writable
  <2> QED
    BY <2>1, AnswerKept
<1>4. CASE WriteNoSpace(p, n, size)
  <2>1. DiskInv' /\ Idle /\ UNCHANGED <<dirs, data>> /\ op'.pc = "idle"
    BY <1>1, <1>4, WriteNoSpaceSound, StepPc DEF WriteNoSpace, Writable, Reply, Return
  <2> QED
    BY <2>1, AnswerKept
<1>5. CASE WriteFile(p, n, size, b)
  <2>1. n \in Name
    BY ShellNames
  <2>2. DiskInv' /\ Measured' /\ Filling'
    BY <1>1, <1>5, <2>1, WriteFileSound, WriteFileCounted
  <2>3. TreeInv' /\ TreeStays /\ op'.pc = "wf_parent"
    BY <1>1, <1>5, WriteFileTree
  <2>4. UNCHANGED <<dirs, data>>
    BY <1>5 DEF WriteFile
  <2> QED
    BY <2>2, <2>3, <2>4 DEF DiskKept, SamePlace, CountInv
<1> QED
  BY <1>2, <1>3, <1>4, <1>5

LEMMA FolderWriteKept ==
  ASSUME PlainTexts, CountInv, TreeInv, NEW p \in Clusters, NEW n \in Dirnames, WriteFolder(p, n)
  PROVE  DiskKept /\ SamePlace /\ op'.pc = "mk_parent"
<1>1. DiskInv /\ n \in Name
  BY ShellNames DEF CountInv
<1>2. TreeInv' /\ TreeStays /\ op'.pc = "mk_parent"
  BY <1>1, WriteFolderTree
<1>3. DiskInv' /\ UNCHANGED <<dirs, data>>
  BY <1>1, WriteFolderSound DEF WriteFolder
<1> QED
  BY <1>2, <1>3, Elsewhere DEF DiskKept, SamePlace, CountInv

LEMMA TextKept ==
  ASSUME PlainTexts, CountInv, TreeInv, NEW p \in Clusters, NEW n \in AllNames, NEW b \in Bufs,
         Idle, WriteText(p, n, b)
  PROVE  DiskKept /\ SamePlace /\ op'.pc \in {"idle", "wild", "wf_parent"}
<1>1. CLUSTER_SIZE \in Nat
  BY SizeAssumption
<1>2. CASE WriteRefused(p, n) \/ WriteWild(p, n, CLUSTER_SIZE) \/ WriteFile(p, n, CLUSTER_SIZE, b)
  BY <1>1, <1>2, WriteKept
<1>3. CASE op' = Step("wild") /\ UNCHANGED <<signed, diskFat, dirs, data, fat>>
  <2>1. DiskInv' /\ op'.pc = "wild"
    BY <1>3, Lost, StepPc DEF CountInv
  <2> QED
    BY <1>3, <2>1, AnswerKept
<1> QED
  BY <1>2, <1>3 DEF WriteText

LEMMA DeleteKept ==
  ASSUME PlainTexts, CountInv, TreeInv, TextsStored,
         NEW p \in Clusters, NEW n \in AllNames, Delete(p, n)
  PROVE  /\ DiskKept /\ TextsStored' /\ FoldersStay /\ NoFolderComes
         /\ op'.pc \notin {"mk_parent", "mk_table"}
         /\ \/ TreeStays /\ op'.pc # "dd_table"
            \/ DeleteFolder(p, n)
<1>1. DiskInv /\ DOMAIN data = Clusters
  BY DEF CountInv, DiskInv, TypeOK
<1>2. CASE DeleteRefused(p, n)
  <2>1. DiskInv' /\ Idle /\ UNCHANGED <<dirs, data>> /\ op'.pc = "idle"
    BY <1>1, <1>2, DeleteRefusedSound, StepPc DEF DeleteRefused, Reply, Return
  <2> QED
    BY <1>1, <2>1, AnswerKept, TextsStay DEF SamePlace, TreeStays
<1>3. CASE DeleteFile(p, n)
  <2>1. DiskInv' /\ (Known' => TreeInv') /\ TreeStays /\ op'.pc = "df_fat"
    BY <1>1, <1>3, DeleteFileTree
  <2>2. data' = [data EXCEPT ![p] = Raw]
    BY <1>3 DEF DeleteFile
  <2> QED
    BY <1>1, <2>1, <2>2, Elsewhere, TextsStay DEF DiskKept, CountInv, TreeStays
<1>4. CASE DeleteFolder(p, n)
  <2>1. DiskInv' /\ TreeInv' /\ FoldersStay /\ NoFolderComes /\ op'.pc = "dd_table"
    BY <1>1, <1>4, DeleteFolderTree
  <2>2. data' = [data EXCEPT ![p] = Raw]
    BY <1>4 DEF DeleteFolder
  <2> QED
    BY <1>1, <1>4, <2>1, <2>2, Elsewhere, TextsStay DEF DiskKept, CountInv
<1> QED
  BY <1>2, <1>3, <1>4 DEF Delete

\* The further disk writes of a call.
GoesOn ==
  \/ FolderParent \/ FolderTable \/ FileParent \/ FileData
  \/ DeleteFileFat \/ DeleteFolderTable \/ DeleteFolderFat

LEMMA GoesOnKept ==
  ASSUME PlainTexts, CountInv, Known, TreeInv, TextsStored, GoesOn
  PROVE  /\ DiskKept /\ TextsStored' /\ FolderRowsStay
         /\ op'.pc # "dd_table"
         /\ op.pc # "mk_parent" /\ op.pc # "mk_table" =>
              NoFolderComes /\ op'.pc \notin {"mk_parent", "mk_table"}
         /\ op.pc # "dd_table" => FoldersStay
         /\ op.pc = "dd_table" =>
              (\A d \in Clusters : d # op.cl => dirs'[d] = dirs[d]) /\ op.cl \in DataClusters
<1>1. DiskInv /\ DOMAIN data = Clusters /\ op \in Calls
  BY KnownFacts DEF CountInv, DiskInv, TypeOK
<1>2. CASE FolderParent
  <2>1. TreeInv' /\ FoldersStay /\ FolderRowsStay /\ op'.pc = "mk_table"
    BY <1>1, <1>2, FolderParentTree
  <2>2. DiskInv' /\ data' = [data EXCEPT ![op.parent] = Raw] /\ op.pc = "mk_parent"
    BY <1>1, <1>2, FolderParentSound DEF FolderParent
  <2> QED
    BY <1>1, <2>1, <2>2, Elsewhere, TextsStay DEF DiskKept, CountInv
<1>3. CASE FolderTable
  <2>1. TreeInv' /\ TreeStays /\ op'.pc = "idle"
    BY <1>1, <1>3, FolderTableTree, StepPc DEF FolderTable, Return
  <2>2. DiskInv' /\ data' = [data EXCEPT ![op.cl] = Raw] /\ op.pc = "mk_table"
    BY <1>1, <1>3, FolderTableSound DEF FolderTable
  <2> QED
    BY <1>1, <2>1, <2>2, Elsewhere, TextsStay DEF DiskKept, CountInv, TreeStays
<1>4. CASE FileParent
  <2>1. TreeInv' /\ TreeStays
    BY <1>1, <1>4, FileParentTree
  <2>2. /\ DiskInv' /\ Measured' /\ Filling' /\ data' = [data EXCEPT ![op.parent] = Raw]
        /\ op.pc = "wf_parent"
    BY <1>1, <1>4, FileParentSound, FileParentCounted DEF FileParent
  <2>3. op'.pc = "wf_data"
    BY <1>1, <1>4 DEF FileParent, Calls
  <2> QED
    BY <1>1, <2>1, <2>2, <2>3, TextsStay DEF DiskKept, CountInv, TreeStays
<1>5. CASE FileData
  <2>1. TreeInv' /\ TreeStays
    BY <1>5, FileDataTree
  <2>2. DiskInv' /\ Measured' /\ Filling' /\ op.pc = "wf_data" /\ op.buf \in Bufs
    BY <1>1, <1>5, FileDataSound, FileDataCounted, NoTableInFile DEF FileData
  <2>3. data' = [data EXCEPT ![op.cl] = <<op.buf, op.part>>] /\ <<op.buf, op.part>>[1] \in Bufs
    BY <1>5, <2>2 DEF FileData
  <2>4. op'.pc \in {"idle", "wf_data"}
    <3>1. CASE fat[op.cl] # EOF
      <4>1. op' = [op EXCEPT !.cl = fat[op.cl], !.part = op.part + 1]
        BY <1>5, <3>1 DEF FileData
      <4> QED
        BY <1>1, <2>2, <4>1 DEF Calls
    <3>2. CASE fat[op.cl] = EOF
      BY <1>5, <3>2, StepPc DEF FileData, Return
    <3> QED
      BY <3>1, <3>2
  <2>5. TextsStored'
    BY <1>1, <2>3, TextsStay
  <2> QED
    BY <2>1, <2>2, <2>4, <2>5 DEF DiskKept, CountInv, TreeStays
<1>6. CASE DeleteFileFat \/ DeleteFolderFat
  <2>1. DiskInv' /\ op.pc \in {"df_fat", "dd_fat"} /\ op'.pc \in {"idle", "wild"}
        /\ UNCHANGED <<dirs, data>>
    BY <1>1, <1>6, DeleteFileFatSound, DeleteFolderFatSound, StepPc
    DEF DeleteFileFat, DeleteFolderFat, Return
  <2>2. (Known' => TreeInv') /\ TreeStays
    BY <2>1, TablesKept
  <2> QED
    BY <1>1, <2>1, <2>2, Elsewhere, TextsStay DEF DiskKept, CountInv, TreeStays
<1>7. CASE DeleteFolderTable
  <2>1. /\ TreeInv' /\ FolderRowsStay /\ NoFolderComes /\ op'.pc = "dd_fat"
        /\ \A d \in Clusters : d # op.cl => dirs'[d] = dirs[d]
        /\ op.cl \in DataClusters
    BY <1>1, <1>7, DeleteFolderTableTree
  <2>2. DiskInv' /\ data' = [data EXCEPT ![op.cl] = Raw] /\ op.pc = "dd_table"
    BY <1>1, <1>7, DeleteFolderTableSound DEF DeleteFolderTable
  <2> QED
    BY <1>1, <2>1, <2>2, Elsewhere, TextsStay DEF DiskKept, CountInv
<1> QED
  BY <1>2, <1>3, <1>4, <1>5, <1>6, <1>7 DEF GoesOn

\* Once the row that write marks was deleted, the walk leaves the map.
LEMMA LostKept ==
  ASSUME CountInv, ~Known, GoesOn \/ Undefined
  PROVE  DiskKept /\ UNCHANGED <<dirs, data>> /\ ~Known'
<1>1. DiskInv
  BY DEF CountInv
<1>2. CASE op.pc = "wild"
  <2>1. UNCHANGED vars
    BY <1>2 DEF GoesOn, Undefined, FolderParent, FolderTable, FileParent, FileData,
                DeleteFileFat, DeleteFolderTable, DeleteFolderFat
  <2>2. DiskInv' /\ op'.pc = "wild" /\ ~Known' /\ UNCHANGED <<dirs, data>>
    BY <1>1, <1>2, <2>1 DEF vars, DiskInv, TextsUnused, TypeOK, CacheCoherent, Defined, Known, Stuck
  <2> QED
    BY <2>2, Elsewhere DEF DiskKept, CountInv
<1>3. CASE Stuck
  <2>1. DeleteFileFat /\ fat = diskFat /\ Links(fat) /\ op.cl = 0
    BY <1>1, <1>3 DEF GoesOn, Undefined, FolderParent, FolderTable, FileParent, FileData,
                      DeleteFolderTable, DeleteFolderFat, Stuck, DiskInv, CacheCoherent, Defined
  <2>2. op' = Step("wild") /\ UNCHANGED <<dirs, data>>
    BY <2>1, NoChainAtZero DEF DeleteFileFat
  <2>3. DiskInv' /\ op'.pc = "wild" /\ ~Known'
    BY <1>1, <2>1, <2>2, DeleteFileFatSound, StepPc DEF Known, Defined
  <2> QED
    BY <2>2, <2>3, Elsewhere DEF DiskKept, CountInv
<1> QED
  BY <1>2, <1>3 DEF Known, Defined

-----------------------------------------------------------------------------
(* The place of the shell through its steps *)

\* What a call or a prompt finds.
LEMMA AtRest ==
  ASSUME ShellInv, Idle
  PROVE  /\ PlainTexts /\ CountInv /\ DiskInv /\ Known /\ TreeInv /\ Place /\ PlaceOK
         /\ TextsStored /\ dirs \in [Clusters -> Table] /\ Sound(diskFat, dirs)
         /\ Tree(dirs, 0, 0) /\ RowsCreated(dirs) /\ NamesDiffer(dirs) /\ DownSound(dirs, 0)
         /\ current_directory \in Clusters /\ IsFolder(dirs[current_directory])
         /\ ROOT \in Clusters /\ IsFolder(dirs[ROOT]) /\ job \in Jobs
         /\ job.home \in Clusters /\ job.from \in Clusters
         /\ signed /\ fat = diskFat /\ DOMAIN data = Clusters
<1>1. DiskInv
  BY DEF ShellInv, CountInv
<1>2. Known /\ dirs \in [Clusters -> Table] /\ Sound(diskFat, dirs) /\ signed /\ fat = diskFat
      /\ DOMAIN data = Clusters
  BY <1>1, IdleFacts DEF DiskInv, TypeOK
<1>3. TreeInv /\ Place /\ PlaceOK
  BY <1>2 DEF ShellInv
<1>4. Tree(dirs, 0, 0)
  BY <1>3, TreeWhole DEF Idle
<1>5. ROOT \in Clusters
  BY Numbers
<1> QED
  BY <1>1, <1>2, <1>3, <1>4, <1>5 DEF ShellInv, PlaceOK, Place, Jobs, Tree, TablesAreFolders

\* A copy of a table.
LEMMA CopyTaken ==
  ASSUME ShellInv, Idle, NEW c \in Clusters, dir_table' = dirs[c]
  PROVE  dir_table' \in Table /\ CopySound'
<1>1. dirs[c] \in Table /\ RowsCreated(dirs) /\ Sound(diskFat, dirs)
  BY AtRest
<1>2. ASSUME NEW r \in ScanRows, dirs[c][r].attr = ATTR_SUBDIRECTORY
      PROVE  dirs[c][r].used /\ dirs[c][r].cl \in DataClusters
  BY <1>1, <1>2, EntryClusters DEF RowsCreated, Created
<1> QED
  BY <1>1, <1>2 DEF CopySound

LEMMA RowNamed ==
  ASSUME NEW t, NEW base, NamesFolder(t, base)
  PROVE  \E r \in ScanRows :
           /\ t[r].used /\ t[r].name.base = base /\ t[r].attr = ATTR_SUBDIRECTORY
           /\ FolderNamed(t, base) = t[r].cl
<1>1. EntriesOf(t, base) \in SUBSET Nat /\ EntriesOf(t, base) # {}
  BY RowNumbers DEF EntriesOf, NamesFolder
<1>2. Min(EntriesOf(t, base)) \in EntriesOf(t, base)
  BY <1>1, MinProperty
<1> QED
  BY <1>2 DEF EntriesOf, NamesFolder, FolderNamed

\* The folder of a name, in a folder: its own row has the name, so none of
\* that name is in it.
LEMMA FolderFound ==
  ASSUME ShellInv, Idle, NEW c \in Clusters, NEW base, NamesFolder(dirs[c], base),
         NEW p, p = FolderNamed(dirs[c], base)
  PROVE  p \in Clusters /\ IsFolder(dirs[p]) /\ Above(c, p) /\ ~NamesFolder(dirs[p], base)
<1>1. /\ Sound(diskFat, dirs) /\ RowsCreated(dirs) /\ NamesDiffer(dirs) /\ DownSound(dirs, 0)
      /\ dirs \in [Clusters -> Table]
  BY AtRest
<1>2. PICK x \in ScanRows :
        /\ dirs[c][x].used /\ dirs[c][x].name.base = base
        /\ dirs[c][x].attr = ATTR_SUBDIRECTORY /\ p = dirs[c][x].cl
  BY RowNamed
<1>3. Created(dirs[c][x]) /\ dirs[c][x].name \in Dirnames
  BY <1>1, <1>2 DEF RowsCreated
<1>4. p \in Clusters /\ p # 0
  BY <1>1, <1>2, <1>3, EntryClusters
<1>5. Knows(dirs[p], dirs[c][x].name, c)
  BY <1>1, <1>2, <1>4 DEF DownSound
<1>6. Above(c, p)
  BY <1>2, <1>3 DEF Above, Contains, EntryFor
<1>7. ASSUME NamesFolder(dirs[p], base) PROVE FALSE
  <2>1. PICK y \in ScanRows :
          /\ dirs[p][y].used /\ dirs[p][y].name.base = base
          /\ dirs[p][y].attr = ATTR_SUBDIRECTORY
    BY <1>7, RowNamed
  <2>2. Created(dirs[p][y]) /\ dirs[p][y].name \in Dirnames
    BY <1>1, <1>4, <2>1 DEF RowsCreated
  <2>3. dirs[p][y].name = dirs[c][x].name
    <3>1. /\ dirs[p][y].name \in Name /\ dirs[c][x].name \in Name
          /\ dirs[p][y].name.ext = NoExt /\ dirs[c][x].name.ext = NoExt
      BY <1>3, <2>2, ShellNames
    <3> QED
      BY <1>2, <2>1, <3>1 DEF Name
  <2> QED
    BY <1>1, <1>4, <1>5, <2>2, <2>3 DEF NamesDiffer, Knows
<1> QED
  BY <1>4, <1>5, <1>6, <1>7 DEF Knows

\* Where a command with a name goes.
LEMMA InsideFound ==
  ASSUME ShellInv, Idle, NEW base, NEW p, p = Inside(dirs[current_directory], base)
  PROVE  /\ p \in Clusters /\ IsFolder(dirs[p]) /\ Above(current_directory, p)
         /\ ~NamesFolder(dirs[p], base)
<1>1. current_directory \in Clusters /\ IsFolder(dirs[current_directory])
  BY AtRest
<1>2. CASE NamesFolder(dirs[current_directory], base)
  BY <1>1, <1>2, FolderFound DEF Inside
<1>3. CASE ~NamesFolder(dirs[current_directory], base)
  BY <1>1, <1>3 DEF Inside, Above
<1> QED
  BY <1>2, <1>3

LEMMA AboveStays ==
  ASSUME FolderRowsStay, NEW c \in Clusters, NEW d, Above(c, d)
  PROVE  c = d \/ \E n \in Dirnames : Contains(dirs'[c], n, d)
<1>1. CASE c # d
  <2>1. PICK n \in Dirnames, r \in ScanRows : EntryFor(dirs[c][r], n, d)
    BY <1>1 DEF Above, Contains
  <2>2. dirs'[c][r] = dirs[c][r]
    BY <2>1 DEF EntryFor, FolderRowsStay
  <2> QED
    BY <2>1, <2>2 DEF Contains
<1> QED
  BY <1>1

\* A step that keeps the folders' entries and begins no delete of one.
LEMMA PlaceKept ==
  ASSUME FoldersStay, FolderRowsStay, op'.pc # "dd_table",
         current_directory' \in Clusters, IsFolder(dirs[current_directory']),
         job'.home \in Clusters, IsFolder(dirs[job'.home]), job'.from \in Clusters,
         IF Moving' THEN Above(job'.home, job'.from) /\ Above(job'.from, current_directory')
         ELSE job'.home = ROOT,
         job'.pc # "none" =>
           /\ running' = "shell" /\ op'.pc \notin {"mk_parent", "mk_table"}
           /\ NoFolderComes /\ NoFolderNamed(job'.from, job'.src)
  PROVE  Place'
<1>1. IsFolder(dirs'[current_directory']) /\ IsFolder(dirs'[job'.home])
  BY DEF FoldersStay
<1>2. Moving' => Above(job.home, job.from)' /\ Above(job.from, current_directory)'
  BY AboveStays DEF Above
<1>3. job'.pc # "none" => NoFolderNamed(job.from, job.src)'
  BY DEF NoFolderNamed, NoFolderComes
<1> QED
  BY <1>1, <1>2, <1>3 DEF Place

\* Where the copy comes from, and when a folder is lost.
CopyMoves ==
  /\ dir_table' = dir_table \/ (Idle /\ \E c \in Clusters : dir_table' = dirs[c])
  /\ FoldersStay \/ (DeleteFolderTable /\ UNCHANGED shell)

Good == ShellInv' /\ CopyMoves

\* The three parts of the invariant after a step.
LEMMA InvAfter ==
  ASSUME ShellInv, DiskKept, PlaceOK', Known' => Place'
  PROVE  ShellInv'
  BY DEF ShellInv, DiskKept, PlainTexts

\* Only the shell's own variables change.
LEMMA DiskStays ==
  ASSUME ShellInv, Idle, UNCHANGED <<signed, diskFat, dirs, data, op>>,
         fat' = fat \/ fat' = diskFat
  PROVE  DiskKept /\ SamePlace /\ TextsStored' /\ op'.pc = "idle"
<1>1. CountInv /\ DiskInv /\ TreeInv /\ fat = diskFat /\ TextsStored
  BY AtRest
<1>2. fat' = fat /\ op'.pc = "idle"
  BY <1>1 DEF Idle
<1>3. DiskInv'
  BY <1>1, <1>2
  DEF DiskInv, TextsUnused, TypeOK, CacheCoherent, Known, Defined, Stuck, Unsigned, Blank,
      CallSound, WritesParent, TableOfCall, ReleasesChain, Idle
<1> QED
  BY <1>1, <1>2, <1>3, AnswerKept DEF TextsStored

\* A command at the prompt that starts no delete and takes a copy of a table.
LEMMA PromptKept ==
  ASSUME ShellInv, AtPrompt, DiskKept, SamePlace,
         op'.pc \in {"idle", "wild", "wf_parent", "mk_parent"},
         job' = job, UNCHANGED <<running, overlooked>>,
         current_directory' \in Clusters, IsFolder(dirs[current_directory']),
         dir_table' = dir_table \/ \E c \in Clusters : dir_table' = dirs[c]
  PROVE  Good
<1>1. Idle /\ job.pc = "none"
  BY DEF AtPrompt, Job
<1>2. /\ PlaceOK /\ Place /\ job.home \in Clusters /\ job.from \in Clusters /\ ROOT \in Clusters
      /\ TextsStored
  BY <1>1, AtRest
<1>3. job.home = ROOT /\ ~Moving /\ IsFolder(dirs[job.home])
  BY <1>1, <1>2 DEF Place, Moving, Moves
<1>4. TextsStored'
  BY <1>2 DEF SamePlace, TextsStored
<1>5. dir_table' \in Table /\ CopySound'
  BY <1>1, <1>2, CopyTaken DEF PlaceOK, CopySound
<1>6. PlaceOK'
  BY <1>2, <1>4, <1>5 DEF PlaceOK
<1>7. Place'
  BY <1>1, <1>2, <1>3, PlaceKept DEF SamePlace, TreeStays, Moving
<1> QED
  BY <1>1, <1>6, <1>7, InvAfter DEF Good, CopyMoves, SamePlace, TreeStays

\* Commands that change nothing on disk.
LEMMA LooksKept ==
  ASSUME ShellInv, cd_up \/ ls \/ find \/ \E base : cd(base)
  PROVE  Good
<1>1. AtPrompt /\ Idle /\ UNCHANGED <<vars, running, job, overlooked>>
  BY DEF cd_up, ls, find, cd, Prompt, AtPrompt, Job
<1>2. DiskKept /\ SamePlace /\ op'.pc = "idle"
  BY <1>1, DiskStays DEF vars
<1>3. current_directory \in Clusters /\ IsFolder(dirs[current_directory]) /\ Tree(dirs, 0, 0)
      /\ dirs \in [Clusters -> Table] /\ Sound(diskFat, dirs)
  BY <1>1, AtRest
<1>4. ASSUME cd_up PROVE dirs[current_directory][0].cl \in Clusters
  <2>1. CASE current_directory = ROOT
    BY <1>3, <2>1 DEF Tree, TablesAreFolders
  <2>2. CASE current_directory # ROOT
    <3>1. current_directory # 0
      BY <1>3, FolderHolds, Numbers DEF Sound, TablesOwned
    <3>2. InParent(dirs, current_directory)
      BY <1>3, <2>2, <3>1 DEF Tree, UpSound
    <3> QED
      BY <3>2 DEF InParent
  <2> QED
    BY <2>1, <2>2
<1>5. ASSUME NEW base, cd(base)
      PROVE  /\ current_directory' \in Clusters /\ IsFolder(dirs[current_directory'])
             /\ \E c \in Clusters : dir_table' = dirs[c]
  BY <1>1, <1>5, InsideFound DEF cd, updateDirectoryTable
<1>6. /\ current_directory' \in Clusters /\ IsFolder(dirs[current_directory'])
      /\ \E c \in Clusters : dir_table' = dirs[c]
  BY <1>3, <1>4, <1>5 DEF cd_up, ls, find, updateDirectoryTable
<1> QED
  BY <1>1, <1>2, <1>6, PromptKept

LEMMA CatKept ==
  ASSUME ShellInv, NEW n, cat(n)
  PROVE  Good
<1>1. AtPrompt /\ Idle /\ UNCHANGED <<running, job, overlooked, current_directory>>
  BY DEF cat, Prompt, AtPrompt, Job
<1>2. /\ CountInv /\ TreeInv /\ TextsStored /\ PlaceOK
      /\ current_directory \in Clusters /\ IsFolder(dirs[current_directory])
  BY <1>1, AtRest
<1>3. DiskKept /\ SamePlace /\ op'.pc \in {"idle", "wild"}
  <2>1. CASE UNCHANGED vars
    BY <1>1, <2>1, DiskStays DEF vars
  <2>2. CASE ReadIn(CatFrom(n), n)
    BY <1>2, <2>2, ReadKept
  <2> QED
    BY <2>1, <2>2 DEF cat
<1>4. dir_table' = dir_table \/ \E c \in Clusters : dir_table' = dirs[c]
  <2>1. CASE NamesFolder(dir_table, n.base)
    <3>1. CatFrom(n) \in Clusters
      BY <1>2, <2>1, RowNamed, Numbers DEF CatFrom, Inside, PlaceOK, CopySound
    <3> QED
      BY <2>1, <3>1 DEF cat, CatLooks
  <2>2. CASE ~NamesFolder(dir_table, n.base)
    BY <2>2 DEF cat, CatLooks
  <2> QED
    BY <2>1, <2>2
<1> QED
  BY <1>1, <1>2, <1>3, <1>4, PromptKept

LEMMA MkdirKept ==
  ASSUME ShellInv, NEW n \in Dirnames, mkdir(n)
  PROVE  Good
<1>1. AtPrompt /\ Idle /\ UNCHANGED <<running, job, overlooked, current_directory>>
  BY DEF mkdir, Prompt, AtPrompt, Job
<1>2. PICK p : p = Inside(dirs[current_directory], n.base)
  OBVIOUS
<1>3. /\ PlainTexts /\ CountInv /\ TreeInv /\ p \in Clusters
      /\ current_directory \in Clusters /\ IsFolder(dirs[current_directory])
      /\ n \in AllNames
  BY <1>1, <1>2, AtRest, InsideFound, ShellNames
<1>4. DiskKept /\ SamePlace /\ op'.pc \in {"idle", "wild", "wf_parent", "mk_parent"}
  <2>1. CASE WriteFolder(p, n)
    BY <1>3, <2>1, FolderWriteKept
  <2>2. CASE WriteRefused(p, n) \/ WriteWild(p, n, 0)
    <3>1. PICK size \in Nat, b \in Bufs : size = 0 /\ b = Zeros
      BY ShellAssumption
    <3> QED
      BY <1>3, <2>2, <3>1, WriteKept
  <2> QED
    BY <1>2, <2>1, <2>2 DEF mkdir
<1>5. \E c \in Clusters : dir_table' = dirs[c]
  BY <1>3 DEF mkdir, updateDirectoryTable
<1> QED
  BY <1>1, <1>3, <1>4, <1>5, PromptKept

\* The inserter.
LEMMA InsertKept ==
  ASSUME ShellInv, NEW n \in Dirnames, Insert(n)
  PROVE  Good
<1>1. Idle /\ UNCHANGED shell /\ running = "inserter"
  BY DEF Insert, Write, WriteRefused, WriteFolder, WriteWild, WriteNoSpace, WriteFile, Writable
<1>2. /\ PlainTexts /\ CountInv /\ TreeInv /\ PlaceOK /\ Place /\ ROOT \in Clusters
      /\ n \in AllNames /\ TextsStored /\ job.home \in Clusters /\ job.from \in Clusters
      /\ current_directory \in Clusters
  BY <1>1, AtRest, ShellNames
<1>3. DiskKept /\ SamePlace /\ op'.pc \in {"idle", "wild", "wf_parent", "mk_parent"}
  <2>1. CASE WriteFolder(ROOT, n)
    BY <1>2, <2>1, FolderWriteKept
  <2>2. CASE WriteRefused(ROOT, n)
    <3>1. PICK size \in Nat, b \in Bufs : size = 0 /\ b = Zeros
      BY ShellAssumption
    <3> QED
      BY <1>2, <2>2, <3>1, WriteKept
  <2>3. ASSUME NEW size \in Sizes, NEW b \in Bufs,
               \/ WriteWild(ROOT, n, size) \/ WriteNoSpace(ROOT, n, size)
               \/ WriteFile(ROOT, n, size, b)
        PROVE  DiskKept /\ SamePlace /\ op'.pc \in {"idle", "wild", "wf_parent"}
    <3>1. size \in Nat
      BY RequestAssumption
    <3> QED
      BY <1>2, <2>3, <3>1, WriteKept
  <2>4. Zeros \in Bufs
    BY ShellAssumption
  <2> QED
    BY <2>1, <2>2, <2>3, <2>4 DEF Insert, Write
<1>4. job.pc = "none" /\ ~Moving /\ job.home = ROOT
  BY <1>1, <1>2 DEF Place, Moving, Moves
<1>5. PlaceOK'
  BY <1>1, <1>2, <1>3 DEF PlaceOK, CopySound, shell, SamePlace, TextsStored
<1>6. UNCHANGED <<current_directory, dir_table, job, running>>
  BY <1>1 DEF shell
<1>7. Place'
  BY <1>2, <1>3, <1>4, <1>6, PlaceKept DEF SamePlace, TreeStays, Moving, Place
<1> QED
  BY <1>3, <1>5, <1>6, <1>7, InvAfter DEF Good, CopyMoves, SamePlace, TreeStays

LEMMA StartShellKept ==
  ASSUME ShellInv, StartShell
  PROVE  Good
<1>1. /\ Idle /\ running = "inserter" /\ running' = "shell" /\ fat' = diskFat
      /\ dir_table' = dirs[current_directory]
      /\ UNCHANGED <<signed, diskFat, dirs, data, op, current_directory, job, overlooked>>
  BY DEF StartShell, updateDirectoryTable
<1>2. /\ PlaceOK /\ Place /\ job.home \in Clusters /\ job.from \in Clusters
      /\ current_directory \in Clusters
  BY <1>1, AtRest
<1>3. DiskKept /\ SamePlace /\ TextsStored' /\ op'.pc = "idle"
  BY <1>1, DiskStays
<1>4. job.pc = "none" /\ ~Moving /\ job.home = ROOT
  BY <1>1, <1>2 DEF Place, Moving, Moves
<1>5. dir_table' \in Table /\ CopySound'
  BY <1>1, <1>2, CopyTaken
<1>6. PlaceOK'
  BY <1>1, <1>2, <1>3, <1>5 DEF PlaceOK
<1>7. Place'
  BY <1>1, <1>2, <1>3, <1>4, PlaceKept DEF SamePlace, TreeStays, Moving, Place
<1> QED
  BY <1>1, <1>2, <1>3, <1>6, <1>7, InvAfter DEF Good, CopyMoves, SamePlace, TreeStays

\* rm deletes a folder of the folder it went into, and goes into one of that
\* name before.
LEMMA RmKept ==
  ASSUME ShellInv, NEW n \in ReqNames, rm(n)
  PROVE  Good
<1>1. AtPrompt /\ Idle /\ UNCHANGED <<running, job, overlooked>> /\ job.pc = "none"
  BY DEF rm, Prompt, AtPrompt, Job
<1>2. PICK p : p = Inside(dirs[current_directory], n.base)
  OBVIOUS
<1>3. current_directory' = p /\ dir_table' = dirs[p] /\ Delete(p, n)
  BY <1>2 DEF rm, updateDirectoryTable
<1>4. /\ PlainTexts /\ CountInv /\ DiskInv /\ TreeInv /\ TextsStored /\ PlaceOK /\ Place
      /\ p \in Clusters /\ n \in AllNames /\ IsFolder(dirs[p]) /\ ~NamesFolder(dirs[p], n.base)
      /\ Sound(diskFat, dirs) /\ RowsCreated(dirs)
      /\ ROOT \in Clusters /\ IsFolder(dirs[ROOT]) /\ job.from \in Clusters
  BY <1>1, <1>2, AtRest, InsideFound, ShellNames
<1>5. job.home = ROOT /\ ~Moving /\ ~Moving'
  BY <1>1, <1>4 DEF Place, Moving, Moves
<1>6. /\ DiskKept /\ TextsStored' /\ FoldersStay /\ NoFolderComes
      /\ \/ TreeStays /\ op'.pc # "dd_table"
         \/ DeleteFolder(p, n)
  BY <1>3, <1>4, DeleteKept
<1>7. PlaceOK'
  BY <1>1, <1>3, <1>4, <1>6, CopyTaken DEF PlaceOK
<1>8. Place'
  <2>1. CASE TreeStays /\ op'.pc # "dd_table"
    BY <1>1, <1>3, <1>4, <1>5, <2>1, PlaceKept DEF TreeStays
  <2>2. CASE DeleteFolder(p, n)
    <3>1. op'.pc = "dd_table" /\ op'.cl \notin {p, ROOT}
      BY <1>4, <2>2, DeleteFolderTree
    <3>2. PICK r \in ScanRows : EntryFor(dirs[p][r], n, op'.cl) /\ Created(dirs[p][r])
      BY <1>4, <2>2, DeleteFolderTree
    <3>3. ASSUME NEW x \in ScanRows, dirs[p][x].attr = ATTR_SUBDIRECTORY,
                 dirs[p][x].cl = op'.cl
          PROVE  ~NamesFolder(dirs[p], dirs[p][x].name.base)
      <4>1. Created(dirs[p][x])
        BY <1>4, <3>3 DEF RowsCreated
      <4>2. x = r
        BY <1>4, <3>2, <3>3, <4>1 DEF Sound, OneOwner, EntryFor
      <4> QED
        BY <1>4, <3>2, <4>2 DEF EntryFor
    <3>4. IsFolder(dirs'[p]) /\ IsFolder(dirs'[ROOT])
      BY <1>4, <1>6 DEF FoldersStay
    <3> QED
      BY <1>1, <1>3, <1>5, <3>1, <3>3, <3>4 DEF Place
  <2> QED
    BY <1>6, <2>1, <2>2
<1> QED
  BY <1>1, <1>3, <1>4, <1>6, <1>7, <1>8, InvAfter DEF Good, CopyMoves

\* A cp or mv that is under way.
LEMMA AtJob ==
  ASSUME ShellInv, Idle, job.pc # "none"
  PROVE  /\ job.src \in AllNames /\ job.dst \in AllNames /\ job.text \in Bufs
         /\ IsFolder(dirs[job.home]) /\ running = "shell"
         /\ NoFolderNamed(job.from, job.src)
         /\ IF Moving THEN Above(job.home, job.from) /\ Above(job.from, current_directory)
            ELSE job.home = ROOT
  BY AtRest DEF Jobs, Place

\* A step of cp or mv that deletes no folder.
LEMMA JobKept ==
  ASSUME ShellInv, Idle, job.pc # "none", DiskKept, TextsStored', TreeStays,
         op'.pc \notin {"mk_parent", "mk_table", "dd_table"},
         UNCHANGED <<running, overlooked, current_directory, dir_table>>,
         NEW pc, pc # "none", pc \in Moves <=> job.pc \in Moves, NEW again,
         job' = [job EXCEPT !.pc = pc, !.again = again], job' \in Jobs
  PROVE  Good
<1>1. /\ PlaceOK /\ job \in Jobs /\ current_directory \in Clusters
      /\ IsFolder(dirs[current_directory]) /\ job.home \in Clusters /\ job.from \in Clusters
  BY AtRest
<1>2. job'.pc = pc /\ job'.from = job.from /\ job'.home = job.home /\ job'.src = job.src
  BY <1>1 DEF Jobs
<1>3. Moving' <=> Moving
  BY <1>2 DEF Moving
<1>4. PlaceOK'
  BY <1>1 DEF PlaceOK, CopySound
<1>5. Place'
  BY <1>1, <1>2, <1>3, AtJob, PlaceKept DEF TreeStays
<1> QED
  BY <1>4, <1>5, InvAfter DEF Good, CopyMoves, TreeStays

LEMMA JobWrites ==
  ASSUME ShellInv, cp_write \/ mv_write \/ mv_again
  PROVE  Good
<1>1. /\ Idle /\ job.pc \in {"cp_write", "mv_write", "mv_again"}
      /\ UNCHANGED <<running, overlooked, current_directory, dir_table>>
  BY DEF cp_write, mv_write, mv_again, Job
<1>2. PICK n \in AllNames : WriteText(current_directory, n, job.text)
  BY <1>1, AtJob DEF cp_write, mv_write, mv_again
<1>3. /\ PlainTexts /\ CountInv /\ TreeInv /\ current_directory \in Clusters /\ job \in Jobs
      /\ job.text \in Bufs /\ TextsStored
  BY <1>1, AtRest, AtJob
<1>4. DiskKept /\ SamePlace /\ op'.pc \in {"idle", "wild", "wf_parent"}
  BY <1>1, <1>2, <1>3, TextKept
<1>5. PICK pc \in {"cp_wrote", "mv_wrote"}, again \in BOOLEAN :
        /\ job' = [job EXCEPT !.pc = pc, !.again = again]
        /\ pc = "mv_wrote" <=> job.pc # "cp_write"
  <2>1. job.again \in BOOLEAN /\ \A v : [job EXCEPT !.pc = v] = [job EXCEPT !.pc = v, !.again = job.again]
    BY <1>3 DEF Jobs
  <2> QED
    BY <2>1 DEF cp_write, mv_write, mv_again, Job
<1>6. job' \in Jobs
  BY <1>3, <1>5 DEF Jobs, Moves
<1>7. TextsStored'
  BY <1>3, <1>4 DEF SamePlace, TextsStored
<1>8. pc \in Moves <=> job.pc \in Moves
  BY <1>1, <1>5 DEF Moves
<1> QED
  BY <1>1, <1>4, <1>5, <1>6, <1>7, <1>8, JobKept DEF SamePlace

LEMMA NoJobIs ==
  NoJob \in Jobs /\ NoJob.pc = "none" /\ NoJob.home = ROOT /\ NoJob.from = ROOT
  BY ShellNames, ShellAssumption, Numbers DEF NoJob, Jobs, Garbage

\* The end of a cp or mv.
LEMMA JobOver ==
  ASSUME ShellInv, Idle, DiskKept, TextsStored', TreeStays, op'.pc # "dd_table",
         job' = NoJob, UNCHANGED <<running, overlooked>>,
         current_directory' \in Clusters, IsFolder(dirs[current_directory']),
         dir_table' = dir_table \/ \E c \in Clusters : dir_table' = dirs[c]
  PROVE  Good
<1>1. PlaceOK /\ ROOT \in Clusters /\ IsFolder(dirs[ROOT])
  BY AtRest
<1>2. PlaceOK'
  BY <1>1, NoJobIs, CopyTaken DEF PlaceOK, CopySound
<1>3. Place'
  BY <1>1, NoJobIs, PlaceKept DEF TreeStays, Moving, Moves
<1> QED
  BY <1>2, <1>3, InvAfter DEF Good, CopyMoves, TreeStays

LEMMA JobReturns ==
  ASSUME ShellInv, cp_returns \/ mv_returns
  PROVE  Good
<1>1. /\ Idle /\ job.pc \in {"cp_wrote", "mv_wrote"}
      /\ UNCHANGED <<vars, running, overlooked, current_directory, dir_table>>
  BY DEF cp_returns, mv_returns, Job
<1>2. DiskKept /\ SamePlace /\ TextsStored' /\ op'.pc = "idle"
  BY <1>1, DiskStays DEF vars
<1>3. job \in Jobs /\ current_directory \in Clusters /\ IsFolder(dirs[current_directory])
  BY <1>1, AtRest
<1>4. CASE job' = NoJob
  BY <1>1, <1>2, <1>3, <1>4, JobOver DEF SamePlace
<1>5. CASE job' # NoJob
  <2>1. PICK pc \in {"mv_again", "mv_source"} :
          job.pc = "mv_wrote" /\ job' = [job EXCEPT !.pc = pc, !.again = job.again]
    <3>1. \A v : [job EXCEPT !.pc = v] = [job EXCEPT !.pc = v, !.again = job.again]
      BY <1>3 DEF Jobs
    <3> QED
      BY <1>5, <3>1 DEF cp_returns, mv_returns, Job
  <2>2. job' \in Jobs /\ pc \in Moves /\ job.pc \in Moves
    BY <1>3, <2>1 DEF Jobs, Moves
  <2> QED
    BY <1>1, <1>2, <2>1, <2>2, JobKept DEF SamePlace
<1> QED
  BY <1>4, <1>5

\* Back where mv began: no folder has the name of the source.
LEMMA SourceKept ==
  ASSUME ShellInv, mv_source
  PROVE  Good
<1>1. /\ Idle /\ job.pc = "mv_source" /\ Delete(job.from, job.src)
      /\ current_directory' = job.home /\ dir_table' = dirs[job.home]
      /\ job' = NoJob /\ UNCHANGED <<running, overlooked>>
  BY DEF mv_source, Job, updateDirectoryTable
<1>2. /\ PlainTexts /\ CountInv /\ DiskInv /\ TreeInv /\ TextsStored
      /\ job.from \in Clusters /\ job.home \in Clusters /\ job.src \in AllNames
      /\ IsFolder(dirs[job.home]) /\ NoFolderNamed(job.from, job.src)
  BY <1>1, AtRest, AtJob
<1>3. /\ DiskKept /\ TextsStored' /\ FoldersStay /\ NoFolderComes
      /\ \/ TreeStays /\ op'.pc # "dd_table"
         \/ DeleteFolder(job.from, job.src)
  BY <1>1, <1>2, DeleteKept
<1>4. ~DeleteFolder(job.from, job.src)
  BY <1>2, DeleteFolderTree DEF NoFolderNamed, EntryFor
<1> QED
  BY <1>1, <1>2, <1>3, <1>4, JobOver

\* The delete of the destination: if that is a folder, it is an empty one in
\* the current directory, and none of those the way of mv leads through.
LEMMA DestinationKept ==
  ASSUME ShellInv, cp_delete \/ mv_delete
  PROVE  Good
<1>1. /\ Idle /\ job.pc \in {"cp_delete", "mv_delete"}
      /\ Delete(current_directory, job.dst)
      /\ UNCHANGED <<running, overlooked, current_directory, dir_table>>
  BY DEF cp_delete, mv_delete, Job
<1>2. /\ PlainTexts /\ CountInv /\ DiskInv /\ TreeInv /\ TextsStored /\ PlaceOK /\ job \in Jobs
      /\ current_directory \in Clusters /\ IsFolder(dirs[current_directory])
      /\ job.from \in Clusters /\ job.home \in Clusters /\ job.dst \in AllNames
      /\ IsFolder(dirs[job.home]) /\ NoFolderNamed(job.from, job.src) /\ running = "shell"
      /\ IF Moving THEN Above(job.home, job.from) /\ Above(job.from, current_directory)
         ELSE job.home = ROOT
  BY <1>1, AtRest, AtJob
<1>3. PICK pc \in {"cp_write", "mv_write"} :
        /\ job' = [job EXCEPT !.pc = pc, !.again = job.again]
        /\ pc = "mv_write" <=> job.pc = "mv_delete"
  <2>1. \A v : [job EXCEPT !.pc = v] = [job EXCEPT !.pc = v, !.again = job.again]
    BY <1>2 DEF Jobs
  <2> QED
    BY <2>1 DEF cp_delete, mv_delete, Job
<1>4. job' \in Jobs /\ (pc \in Moves <=> job.pc \in Moves) /\ pc # "none"
  BY <1>1, <1>2, <1>3 DEF Jobs, Moves
<1>5. /\ DiskKept /\ TextsStored' /\ FoldersStay /\ NoFolderComes
      /\ op'.pc \notin {"mk_parent", "mk_table"}
      /\ \/ TreeStays /\ op'.pc # "dd_table"
         \/ DeleteFolder(current_directory, job.dst)
  BY <1>1, <1>2, DeleteKept
<1>6. CASE TreeStays /\ op'.pc # "dd_table"
  BY <1>1, <1>3, <1>4, <1>5, <1>6, JobKept
<1>7. CASE DeleteFolder(current_directory, job.dst)
  <2>1. /\ op'.pc = "dd_table" /\ op'.cl \notin {current_directory, ROOT}
        /\ ~Occupied(dirs[op'.cl])
    BY <1>2, <1>7, DeleteFolderTree
  <2>2. PICK r \in ScanRows :
          /\ EntryFor(dirs[current_directory][r], job.dst, op'.cl)
          /\ \A d \in Clusters, q \in ScanRows :
               (d = current_directory /\ q = r) \/ dirs'[d][q] = dirs[d][q]
    BY <1>2, <1>7, DeleteFolderTree
  <2>3. job'.pc = pc /\ job'.from = job.from /\ job'.home = job.home /\ job'.src = job.src
    BY <1>2, <1>3 DEF Jobs
  <2>4. Moving' <=> Moving
    BY <1>4, <2>3 DEF Moving
  <2>5. ASSUME NEW c, NEW d, Above(c, d), c # d PROVE Occupied(dirs[c]) /\ c # op'.cl
    BY <2>1, <2>5 DEF Above, Contains, EntryFor, Occupied
  <2>6. Moving => job.home # op'.cl /\ job.from # op'.cl
    BY <1>2, <2>1, <2>5
  <2>7. job.home # op'.cl
    BY <1>2, <2>1, <2>6
  <2>8. ASSUME NEW c \in Clusters, NEW d, Above(c, d), c # d, d # op'.cl
        PROVE  \E n \in Dirnames : Contains(dirs'[c], n, d)
    <3>1. PICK n \in Dirnames, q \in ScanRows : EntryFor(dirs[c][q], n, d)
      BY <2>8 DEF Above, Contains
    <3>2. dirs'[c][q] = dirs[c][q]
      BY <2>2, <2>8, <3>1 DEF EntryFor
    <3> QED
      BY <3>1, <3>2 DEF Contains
  <2>9. Moving' => Above(job.home, job.from)' /\ Above(job.from, current_directory)'
    BY <1>1, <1>2, <2>1, <2>3, <2>4, <2>6, <2>8 DEF Above
  <2>10. NoFolderNamed(job.from, job.src)'
    BY <1>2, <1>5, <2>3 DEF NoFolderNamed, NoFolderComes
  <2>11. IsFolder(dirs'[current_directory]) /\ IsFolder(dirs'[job.home])
    BY <1>2, <1>5 DEF FoldersStay
  <2>12. Place'
    BY <1>1, <1>2, <1>4, <1>5, <2>1, <2>3, <2>4, <2>7, <2>9, <2>10, <2>11 DEF Place
  <2>13. PlaceOK'
    BY <1>1, <1>2, <1>4, <1>5 DEF PlaceOK, CopySound
  <2> QED
    BY <1>1, <1>5, <2>12, <2>13, InvAfter DEF Good, CopyMoves
<1> QED
  BY <1>5, <1>6, <1>7

\* The reads of cp and mv.
LEMMA CpKept ==
  ASSUME ShellInv, NEW s \in ReqNames, cp(s)
  PROVE  Good
<1>1. AtPrompt /\ Idle /\ UNCHANGED <<running, overlooked>> /\ job.pc = "none"
  BY DEF cp, AtPrompt, Job
<1>2. PICK p : p = Inside(dirs[current_directory], s.base)
  OBVIOUS
<1>3. current_directory' = p /\ dir_table' = dirs[p]
  BY <1>2 DEF cp, updateDirectoryTable
<1>4. /\ PlainTexts /\ CountInv /\ DiskInv /\ TreeInv /\ TextsStored /\ PlaceOK /\ Place
      /\ p \in Clusters /\ IsFolder(dirs[p]) /\ job \in Jobs /\ ROOT \in Clusters
      /\ RowsCreated(dirs) /\ IsFolder(dirs[ROOT])
  BY <1>1, <1>2, AtRest, InsideFound
<1>5. CASE s = EmptyName
  <2>1. UNCHANGED <<vars, job>>
    BY <1>5 DEF cp
  <2>2. DiskKept /\ SamePlace /\ op'.pc = "idle"
    BY <1>1, <2>1, DiskStays DEF vars
  <2> QED
    BY <1>1, <1>3, <1>4, <2>1, <2>2, PromptKept
<1>6. CASE s # EmptyName
  <2>1. /\ ReadIn(p, SourceName(s))
        /\ SourceName(s) \in AllNames /\ SourceName(s) \notin Dirnames
    BY <1>2, <1>6, ShellNames DEF cp
  <2>2. /\ DiskKept /\ SamePlace /\ op'.pc \in {"idle", "wild"}
        /\ op'.pc = "idle" => TextRead \in Bufs
    BY <1>4, <2>1, ReadKept
  <2>3. CASE job' = job
    BY <1>1, <1>3, <1>4, <2>2, <2>3, PromptKept
  <2>4. CASE job' # job
    <3>1. op'.pc = "idle" /\ \E d \in ReqNames :
            job' = [job EXCEPT !.pc = "cp_delete", !.src = SourceName(s),
                               !.from = p, !.dst = d, !.text = TextRead]
      BY <1>2, <1>6, <2>4 DEF cp
    <3>2. PICK d \in AllNames, b \in Bufs :
            job' = [job EXCEPT !.pc = "cp_delete", !.src = SourceName(s),
                               !.from = p, !.dst = d, !.text = b]
      BY <2>2, <3>1, ShellNames
    <3>3. /\ job' \in Jobs /\ job'.pc = "cp_delete" /\ job'.src = SourceName(s) /\ job'.from = p
          /\ job'.home = job.home
      BY <1>4, <2>1, <3>2 DEF Jobs
    <3>4. job.home = ROOT /\ ~Moving'
      BY <1>1, <1>4, <3>3 DEF Place, Moving, Moves
    <3>5. NoFolderNamed(p, SourceName(s))
      BY <1>4, <2>1 DEF NoFolderNamed, RowsCreated
    <3>6. running = "shell"
      BY <1>1 DEF AtPrompt
    <3>7. TextsStored'
      BY <1>4, <2>2 DEF SamePlace, TextsStored
    <3>8. PlaceOK'
      BY <1>1, <1>3, <1>4, <3>3, <3>7, CopyTaken DEF PlaceOK
    <3>9. Place'
      BY <1>1, <1>3, <1>4, <2>2, <3>3, <3>4, <3>5, <3>6, PlaceKept DEF SamePlace, TreeStays
    <3> QED
      BY <1>1, <1>3, <1>4, <2>2, <3>8, <3>9, InvAfter DEF Good, CopyMoves, SamePlace, TreeStays
  <2> QED
    BY <2>3, <2>4
<1> QED
  BY <1>5, <1>6

LEMMA OverlookedKept ==
  ASSUME PlaceOK, NEW g, Hides(g)
  PROVE  overlooked' \in 0 .. MaxOverlooked
<1>1. MaxOverlooked \in Nat /\ overlooked \in 0 .. MaxOverlooked
  BY ShellAssumption DEF PlaceOK
<1>2. overlooked' = overlooked \/ (overlooked < MaxOverlooked /\ overlooked' = overlooked + 1)
  BY DEF Hides
<1> QED
  BY <1>1, <1>2

\* A mv that goes on, from p, with its destination in p or in a folder there.
LEMMA MvBegins ==
  ASSUME ShellInv, AtPrompt, NEW g \in Garbage, Hides(g), DiskKept, SamePlace,
         op'.pc \in {"idle", "wild"}, running' = running,
         NEW p \in Clusters, Above(current_directory, p), IsFolder(dirs[p]),
         current_directory' \in Clusters, IsFolder(dirs[current_directory']),
         Above(p, current_directory'), dir_table' = dirs[current_directory'],
         job' \in Jobs, job'.pc \in Moves, job'.from = p, job'.home = current_directory,
         NoFolderNamed(p, job'.src)
  PROVE  Good
<1>1. Idle /\ running = "shell"
  BY DEF AtPrompt, Job
<1>2. /\ PlaceOK /\ TextsStored /\ current_directory \in Clusters
      /\ IsFolder(dirs[current_directory])
  BY <1>1, AtRest
<1>3. TextsStored'
  BY <1>2 DEF SamePlace, TextsStored
<1>4. PlaceOK'
  BY <1>1, <1>2, <1>3, CopyTaken, OverlookedKept DEF PlaceOK
<1>5. Place'
  BY <1>1, <1>2, PlaceKept DEF SamePlace, TreeStays, Moving
<1> QED
  BY <1>1, <1>4, <1>5, InvAfter DEF Good, CopyMoves, SamePlace, TreeStays

\* A mv that stops after its read.
LEMMA MvStops ==
  ASSUME ShellInv, AtPrompt, NEW g, Hides(g), DiskKept, SamePlace,
         op'.pc \in {"idle", "wild"}, running' = running, job' = job,
         current_directory' \in Clusters, IsFolder(dirs[current_directory']),
         dir_table' = dirs[current_directory']
  PROVE  Good
<1>1. Idle /\ running = "shell" /\ job.pc = "none"
  BY DEF AtPrompt, Job
<1>2. /\ PlaceOK /\ TextsStored /\ Place /\ job.home \in Clusters /\ job.from \in Clusters
  BY <1>1, AtRest
<1>3. TextsStored'
  BY <1>2 DEF SamePlace, TextsStored
<1>4. PlaceOK'
  BY <1>1, <1>2, <1>3, CopyTaken, OverlookedKept DEF PlaceOK
<1>5. job.home = ROOT /\ ~Moving /\ ~Moving' /\ IsFolder(dirs[job.home])
  BY <1>1, <1>2 DEF Place, Moving, Moves
<1>6. Place'
  BY <1>1, <1>2, <1>5, PlaceKept DEF SamePlace, TreeStays
<1> QED
  BY <1>1, <1>4, <1>6, InvAfter DEF Good, CopyMoves, SamePlace, TreeStays

LEMMA MvKept ==
  ASSUME ShellInv, NEW g \in Garbage, NEW s \in ReqNames \ {EmptyName}, mv(s, g)
  PROVE  Good
<1>1. AtPrompt /\ Idle /\ Hides(g) /\ running' = running
  BY DEF mv, AtPrompt, Job
<1>2. PICK p : p = Inside(dirs[current_directory], s.base)
  OBVIOUS
<1>3. ReadIn(p, SourceName(s)) /\ dir_table' = dirs[current_directory']
  BY <1>2 DEF mv, updateDirectoryTable
<1>4. /\ CountInv /\ TreeInv /\ TextsStored /\ RowsCreated(dirs)
      /\ p \in Clusters /\ IsFolder(dirs[p]) /\ Above(current_directory, p)
      /\ current_directory \in Clusters
      /\ SourceName(s) \in AllNames /\ SourceName(s) \notin Dirnames
  BY <1>1, <1>2, AtRest, InsideFound, ShellNames
<1>5. /\ DiskKept /\ SamePlace /\ op'.pc \in {"idle", "wild"}
      /\ op'.pc = "idle" => TextRead \in Bufs
  BY <1>3, <1>4, ReadKept
<1>6. NoFolderNamed(p, SourceName(s))
  BY <1>4 DEF NoFolderNamed, RowsCreated
<1>7. CASE op'.pc = "wild" \/ Seen(g, ret'.code) = 3
  <2>1. current_directory' = p /\ job' = job
    BY <1>2, <1>7 DEF mv
  <2> QED
    BY <1>1, <1>3, <1>4, <1>5, <2>1, MvStops
<1>8. CASE ~(op'.pc = "wild" \/ Seen(g, ret'.code) = 3)
  <2>1. PICK d \in ReqNames \ {EmptyName}, dot \in BOOLEAN :
          /\ current_directory' =
               (IF /\ EntriesOf(dirs[current_directory], s.base) # {} /\ ~dot
                   /\ NamesFolder(dirs[p], d.base)
                THEN FolderNamed(dirs[p], d.base) ELSE p)
          /\ job' = [pc |-> "mv_delete", src |-> SourceName(s), from |-> p,
                     dst |-> IF dot THEN d ELSE EmptyName, again |-> ~dot,
                     text |-> TextRead, home |-> current_directory, garbage |-> g]
    BY <1>2, <1>8 DEF mv
  <2>2. /\ current_directory' \in Clusters /\ IsFolder(dirs[current_directory'])
        /\ Above(p, current_directory')
    <3>1. CASE current_directory' = p
      BY <1>4, <3>1 DEF Above
    <3>2. CASE /\ NamesFolder(dirs[p], d.base)
               /\ current_directory' = FolderNamed(dirs[p], d.base)
      BY <1>1, <1>4, <3>2, FolderFound
    <3> QED
      BY <2>1, <3>1, <3>2
  <2>3. PICK b \in Bufs, n \in AllNames :
          job' = [pc |-> "mv_delete", src |-> SourceName(s), from |-> p,
                  dst |-> n, again |-> ~dot,
                  text |-> b, home |-> current_directory, garbage |-> g]
    <3>1. TextRead \in Bufs
      BY <1>5, <1>8
    <3>2. (IF dot THEN d ELSE EmptyName) \in AllNames
      BY ShellNames
    <3> QED
      BY <2>1, <3>1, <3>2
  <2>4. /\ job' \in Jobs /\ job'.pc \in Moves /\ job'.from = p /\ job'.src = SourceName(s)
        /\ job'.home = current_directory
    BY <1>4, <2>3 DEF Jobs, Moves
  <2> QED
    BY <1>1, <1>3, <1>4, <1>5, <1>6, <2>2, <2>4, MvBegins
<1> QED
  BY <1>7, <1>8

\* The whole argument of a mv without a dot names no folder when the read of
\* it fails: a folder has size 0.
LEMMA MvFolderKept ==
  ASSUME ShellInv, NEW g \in Garbage, mv_folder(g)
  PROVE  Good
<1>1. AtPrompt /\ Idle /\ Hides(g) /\ running' = running /\ current_directory' = current_directory
      /\ ReadFails(current_directory, PairName, 0)
      /\ dir_table' = dirs[current_directory]
  BY DEF mv_folder, AtPrompt, Job, updateDirectoryTable
<1>2. /\ DiskInv /\ CountInv /\ TreeInv /\ TextsStored /\ RowsCreated(dirs) /\ NamesDiffer(dirs)
      /\ current_directory \in Clusters /\ IsFolder(dirs[current_directory])
      /\ PairName \in AllNames /\ PairName # EmptyName /\ PlainTexts /\ Sound(diskFat, dirs)
      /\ signed /\ fat = diskFat /\ Known
      /\ Above(current_directory, current_directory)
  BY <1>1, AtRest, ShellNames DEF Above
<1>3. DiskKept /\ SamePlace /\ op'.pc = "idle"
  <2>1. op' = Step("idle") /\ UNCHANGED <<signed, diskFat, dirs, data, fat>>
    BY <1>1, <1>2 DEF ReadFails, Reply, Return
  <2>2. DiskInv' /\ op'.pc = "idle"
    BY <1>2, <2>1, Quiet, StepPc
  <2> QED
    BY <1>1, <1>2, <2>1, <2>2, AnswerKept
<1>4. CASE job' = job
  BY <1>1, <1>2, <1>3, <1>4, MvStops
<1>5. CASE job' # job
  <2>1. PICK b \in Bufs :
          job' = [pc |-> "mv_write", src |-> PairName, from |-> current_directory,
                  dst |-> PairName, again |-> FALSE, text |-> b,
                  home |-> current_directory, garbage |-> g]
    BY <1>5 DEF mv_folder
  <2>2. /\ job' \in Jobs /\ job'.pc \in Moves /\ job'.from = current_directory
        /\ job'.src = PairName /\ job'.home = current_directory
    BY <1>2, <2>1 DEF Jobs, Moves
  <2>3. NoFolderNamed(current_directory, PairName)
    <3> SUFFICES ASSUME NEW r \in ScanRows,
                        dirs[current_directory][r].attr = ATTR_SUBDIRECTORY,
                        dirs[current_directory][r].name = PairName
                 PROVE  FALSE
      BY DEF NoFolderNamed
    <3>1. PICK H : H = ReadHits(dirs[current_directory], PairName)
      OBVIOUS
    <3>2. H \in SUBSET Nat /\ H \in SUBSET ScanRows /\ r \in H /\ H # {}
      BY <3>1, RowNumbers DEF ReadHits
    <3>3. PICK m \in ScanRows : m = Min(H) /\ dirs[current_directory][m].name = PairName
      BY <3>1, <3>2, MinProperty DEF ReadHits
    <3>4. Created(dirs[current_directory][r])
      BY <1>2 DEF RowsCreated
    <3>5. Created(dirs[current_directory][m])
      <4>1. PairName \in Visible
        BY <1>2, TextFacts
      <4>2. dirs[current_directory][m].used
        BY <1>2, <3>3, <4>1, RowNumbers DEF Sound, NamesUsed
      <4> QED
        BY <3>3, <4>1, <4>2 DEF Created
    <3>6. m = r
      BY <1>2, <3>3, <3>4, <3>5 DEF NamesDiffer
    <3>7. dirs[current_directory][r].size = 0 /\ Present(dirs[current_directory])
      BY <1>2 DEF RowsCreated, IsFolder, Present
    <3>8. ReadCode(dirs[current_directory], PairName, 0) = 0
      BY <3>1, <3>2, <3>3, <3>6, <3>7 DEF ReadCode, ATTR_SUBDIRECTORY
    <3> QED
      BY <1>1, <3>8 DEF ReadFails
  <2> QED
    BY <1>1, <1>2, <1>3, <2>2, <2>3, MvBegins
<1> QED
  BY <1>4, <1>5

\* The disk writes of a call that has begun.
LEMMA CallKept ==
  ASSUME ShellInv, CallGoesOn
  PROVE  Good
<1>1. (GoesOn \/ Undefined) /\ UNCHANGED <<running, current_directory, dir_table, job, overlooked>>
  BY DEF CallGoesOn, GoesOn, shell
<1>2. CountInv /\ PlaceOK /\ PlainTexts /\ TextsStored
  BY DEF ShellInv, PlaceOK
<1>3. CASE ~Known
  <2>1. DiskKept /\ UNCHANGED <<dirs, data>> /\ ~Known'
    BY <1>1, <1>2, <1>3, LostKept
  <2>2. PlaceOK'
    BY <1>1, <1>2, <2>1 DEF PlaceOK, CopySound, TextsStored
  <2> QED
    BY <1>1, <2>1, <2>2, InvAfter DEF Good, CopyMoves, FoldersStay
<1>4. CASE Known
  <2>1. GoesOn /\ TreeInv /\ Place
    BY <1>1, <1>4 DEF ShellInv, Undefined, Known, Defined
  <2>2. /\ DiskKept /\ TextsStored' /\ FolderRowsStay
        /\ op'.pc # "dd_table"
        /\ op.pc # "mk_parent" /\ op.pc # "mk_table" =>
             NoFolderComes /\ op'.pc \notin {"mk_parent", "mk_table"}
        /\ op.pc # "dd_table" => FoldersStay
        /\ op.pc = "dd_table" =>
             (\A d \in Clusters : d # op.cl => dirs'[d] = dirs[d]) /\ op.cl \in DataClusters
    BY <1>2, <1>4, <2>1, GoesOnKept
  <2>3. /\ job \in Jobs /\ current_directory \in Clusters /\ job.home \in Clusters
        /\ job.from \in Clusters
    BY <1>2 DEF PlaceOK, Jobs
  <2>4. PlaceOK'
    BY <1>1, <1>2, <2>2 DEF PlaceOK, CopySound
  <2>5. IsFolder(dirs'[current_directory]) /\ IsFolder(dirs'[job.home])
    BY <2>1, <2>2, <2>3 DEF Place, FoldersStay
  <2>6. Moving' => Above(job.home, job.from)' /\ Above(job.from, current_directory)'
    BY <1>1, <2>1, <2>2, <2>3, AboveStays DEF Place, Moving, Above
  <2>7. job.pc # "none" => NoFolderNamed(job.from, job.src)'
    BY <1>1, <2>1, <2>2, <2>3 DEF Place, NoFolderNamed, NoFolderComes
  <2>8. Place'
    BY <1>1, <2>1, <2>2, <2>5, <2>6, <2>7 DEF Place, Moving
  <2>9. CopyMoves
    BY <1>1, <2>1, <2>2
    DEF CopyMoves, GoesOn, shell, FolderParent, FolderTable, FileParent, FileData,
        DeleteFileFat, DeleteFolderFat
  <2> QED
    BY <2>2, <2>4, <2>8, <2>9, InvAfter DEF Good
<1> QED
  BY <1>3, <1>4

-----------------------------------------------------------------------------
(* The invariant from the start on *)

\* The tables of a formatted disk: the root's own row and nothing else.
LEMMA FirstTables ==
  ASSUME ShellInit
  PROVE  /\ dirs \in [Clusters -> Table]
         /\ \A d \in Clusters, r \in Rows : (d = ROOT /\ r = 0) \/ dirs[d][r] = ZeroEntry
         /\ dirs[ROOT][0] = DirEntry(RootName, ROOT)
<1>1. ROOT \in Clusters /\ ZeroTable \in Table /\ 0 \in Rows
  BY Numbers, Steps, RowNumbers
<1>2. DirEntry(RootName, ROOT) \in Entry
  BY Numbers DEF DirEntry, Entry, RootName, Name, ATTR_SUBDIRECTORY
<1>3. [ZeroTable EXCEPT ![0] = DirEntry(RootName, ROOT)] \in Table
  BY <1>1, <1>2 DEF Table
<1>4. \A d \in Clusters :
        dirs[d] = IF d = ROOT THEN [ZeroTable EXCEPT ![0] = DirEntry(RootName, ROOT)]
                  ELSE ZeroTable
  BY DEF ShellInit
<1>5. dirs \in [Clusters -> Table]
  BY <1>1, <1>3 DEF ShellInit
<1>6. \A r \in Rows : ZeroTable[r] = ZeroEntry
  BY DEF ZeroTable
<1>7. /\ [ZeroTable EXCEPT ![0] = DirEntry(RootName, ROOT)][0] = DirEntry(RootName, ROOT)
      /\ \A r \in Rows : r # 0 =>
           [ZeroTable EXCEPT ![0] = DirEntry(RootName, ROOT)][r] = ZeroEntry
  BY <1>1, <1>6 DEF ZeroTable
<1> QED
  BY <1>1, <1>4, <1>5, <1>6, <1>7

LEMMA ShellStarts ==
  ASSUME PlainTexts, ShellInit
  PROVE  ShellInv
<1>1. /\ dirs \in [Clusters -> Table]
      /\ \A d \in Clusters, r \in Rows : (d = ROOT /\ r = 0) \/ dirs[d][r] = ZeroEntry
      /\ dirs[ROOT][0] = DirEntry(RootName, ROOT)
  BY FirstTables
<1>2. /\ diskFat = Formatted /\ fat = Formatted /\ signed /\ op = Step("idle")
      /\ data = [c \in Clusters |-> Raw] /\ ret = Code(0)
      /\ running = "inserter" /\ current_directory = ROOT /\ dir_table = ZeroTable
      /\ job = NoJob /\ overlooked = 0
  BY DEF ShellInit, Formatted
<1>3. /\ Formatted \in Fat /\ Reserved(Formatted) /\ Links(Formatted) /\ Leads(Formatted, ROOT)
      /\ ROOT \in Clusters /\ TextsUnused
  BY FormattedMap, Numbers, TextFacts
<1>4. op.pc = "idle" /\ op \in Calls
  BY <1>2, Steps DEF PCs
<1>5. /\ ZeroEntry.used = FALSE /\ ZeroEntry.name = EmptyName /\ ZeroEntry.cl = 0
      /\ ZeroEntry.attr # ATTR_SUBDIRECTORY /\ ~Created(ZeroEntry)
  BY DEF ZeroEntry, ATTR_SUBDIRECTORY, Created
<1>6. \A d \in Clusters, r \in ScanRows : dirs[d][r] = ZeroEntry
  BY <1>1, RowNumbers
<1>7. \A d \in Clusters : Holds(dirs[d]) => d = ROOT
  BY <1>1, <1>5 DEF Holds
<1>8. IsFolder(dirs[ROOT]) /\ dirs[ROOT][0].cl = ROOT
  BY <1>1 DEF IsFolder, DirEntry
<1>9. Sound(diskFat, dirs)
  <2>1. TablesOwned(diskFat, dirs)
    BY <1>2, <1>3, <1>7, Numbers DEF TablesOwned, Reserved
  <2>2. NamesUsed(dirs)
    BY <1>1, <1>5, VisibleNames DEF NamesUsed, DirEntry
  <2>3. MarkRows(dirs)
    <3> SUFFICES ASSUME NEW d \in Clusters, d \in ScanRows, d # LastWriteRow
                 PROVE  MarkOf(dirs[d], d)
      BY DEF MarkRows
    <3>1. dirs[d][d] = ZeroEntry /\ ~Occupied(dirs[d])
      BY <1>5, <1>6 DEF Occupied
    <3> QED
      BY <1>5, <3>1, VisibleNames DEF MarkOf
  <2>4. EntriesOwn(diskFat, dirs) /\ OneOwner(dirs)
    BY <1>5, <1>6 DEF EntriesOwn, OneOwner
  <2> QED
    BY <2>1, <2>2, <2>3, <2>4 DEF Sound
<1>10. DiskInv
  <2>1. TypeOK
    <3>1. op.cl \in Clusters /\ signed \in BOOLEAN /\ DOMAIN data = Clusters
      BY <1>2, Steps DEF PCs
    <3> QED
      BY <1>1, <1>2, <1>3, <1>4, <3>1 DEF TypeOK, Calls, Fat
  <2> QED
    BY <1>2, <1>3, <1>4, <1>9, <2>1
    DEF DiskInv, CacheCoherent, Unsigned, CallSound
<1>11. CountInv
  BY <1>4, <1>10 DEF CountInv, Measured, Filling
<1>12. Tree(dirs, 0, 0)
  <2>1. RowsCreated(dirs) /\ NamesDiffer(dirs) /\ DownSound(dirs, 0)
    BY <1>5, <1>6 DEF RowsCreated, NamesDiffer, DownSound
  <2>2. TablesAreFolders(dirs)
    BY <1>7, <1>8 DEF TablesAreFolders
  <2>3. UpSound(dirs, 0)
    BY <1>7, FolderHolds DEF UpSound
  <2> QED
    BY <2>1, <2>2, <2>3 DEF Tree
<1>13. TreeInv
  BY <1>4, <1>12 DEF TreeInv, InCreation, InDeletion, CallTree
<1>14. PlaceOK
  <2>1. \A r \in ScanRows : ZeroTable[r] = ZeroEntry
    BY RowNumbers DEF ZeroTable
  <2>2. MaxOverlooked \in Nat
    BY ShellAssumption
  <2> QED
    BY <1>2, <1>3, <1>5, <2>1, <2>2, NoJobIs, Steps DEF PlaceOK, CopySound, TextsStored
<1>15. Place
  BY <1>2, <1>4, <1>8, NoJobIs DEF Place, Moving, Moves
<1> QED
  BY <1>11, <1>13, <1>14, <1>15 DEF ShellInv

LEMMA EachStep ==
  ASSUME ShellInv, ShellNext
  PROVE  Good
<1>1. CASE \E n \in Dirnames : Insert(n) \/ cd(n.base) \/ mkdir(n)
  BY <1>1, InsertKept, LooksKept, MkdirKept
<1>2. CASE StartShell \/ cd_up \/ ls \/ find
  BY <1>2, StartShellKept, LooksKept
<1>3. CASE \E n \in ReqNames : cat(n) \/ rm(n) \/ cp(n)
  BY <1>3, CatKept, RmKept, CpKept
<1>4. CASE \E g \in Garbage : mv_folder(g) \/ \E n \in ReqNames \ {EmptyName} : mv(n, g)
  BY <1>4, MvFolderKept, MvKept
<1>5. CASE \/ cp_delete \/ cp_write \/ cp_returns
           \/ mv_delete \/ mv_write \/ mv_returns \/ mv_again \/ mv_source
  BY <1>5, DestinationKept, JobWrites, JobReturns, SourceKept
<1>6. CASE CallGoesOn
  BY <1>6, CallKept
<1> QED
  BY <1>1, <1>2, <1>3, <1>4, <1>5, <1>6 DEF ShellNext

LEMMA Stutters ==
  ASSUME ShellInv, UNCHANGED shellVars
  PROVE  ShellInv'
<1>1. UNCHANGED <<signed, diskFat, dirs, data, fat, op, ret,
                  running, current_directory, dir_table, job, overlooked>>
  BY DEF shellVars, vars, shell
<1>2. DiskInv'
  BY <1>1
  DEF ShellInv, CountInv, DiskInv, TextsUnused, TypeOK, CacheCoherent, Known, Defined, Stuck,
      Unsigned, Blank, CallSound, WritesParent, TableOfCall, ReleasesChain
<1>3. Known' <=> Known
  BY <1>1 DEF Known, Defined, Stuck
<1>4. CountInv'
  BY <1>1, <1>2, <1>3, CountKept DEF ShellInv, CountInv
<1>5. PlaceOK' /\ (Place => Place')
  BY <1>1 DEF ShellInv, PlaceOK, CopySound, TextsStored, Place, Moving, Above, NoFolderNamed
<1>6. TreeInv => TreeInv'
  BY <1>1 DEF TreeInv, InCreation, InDeletion, CallTree
<1> QED
  BY <1>3, <1>4, <1>5, <1>6 DEF ShellInv, PlainTexts

\* Through every sequence of commands, whatever a read finds and wherever a
\* call leaves the driver's data, the disk is a tree of folders and the shell,
\* with a cp or mv under way, has its place in it.
THEOREM ShellInvariance == PlainTexts /\ ShellSpec => []ShellInv
<1>1. PlainTexts /\ ShellInit => ShellInv
  BY ShellStarts
<1>2. ShellInv /\ [ShellNext]_shellVars => ShellInv'
  BY EachStep, Stutters DEF Good
<1> QED
  BY <1>1, <1>2, PTL DEF ShellSpec

-----------------------------------------------------------------------------
(* What follows *)

\* Every variable of the shell keeps the values the code gives it, through
\* every sequence of commands: clusters for the folders it is in and will go
\* back to, a table for its copy, a text for what cp and mv have read.
THEOREM ShellTypeCorrect == PlainTexts /\ ShellSpec => []ShellTypeOK
<1>1. ShellInv => ShellTypeOK
  BY DEF ShellInv, CountInv, DiskInv, PlaceOK, Jobs, ShellTypeOK
<1> QED
  BY <1>1, ShellInvariance, PTL

\* No command leads into a file and none deletes a folder that the shell is
\* in, or that mv goes back to: rm stays in the folder it went into, whose
\* own row has the name it deletes, and delete refuses a folder in use.
THEOREM NeverOutside == PlainTexts /\ ShellSpec => []InsideAFolder
<1>1. ShellInv => InsideAFolder
  BY AtRest DEF InsideAFolder, Place
<1> QED
  BY <1>1, ShellInvariance, PTL

\* The way up from a folder leads to the one that has its entry: mkdir puts
\* the entry in before the folder's table, delete takes it out before, and
\* nothing else changes either.
THEOREM WayUp == PlainTexts /\ ShellSpec => []ParentsKnown
<1>1. ASSUME ShellInv PROVE ParentsKnown
  <2> SUFFICES ASSUME Idle, NEW d \in Clusters \ {ROOT}, IsFolder(dirs[d])
               PROVE  /\ dirs[d][0].cl \in Clusters /\ IsFolder(dirs[dirs[d][0].cl])
                      /\ Contains(dirs[dirs[d][0].cl], dirs[d][0].name, d)
    BY DEF ParentsKnown, Contains, EntryFor
  <2>1. Tree(dirs, 0, 0) /\ Sound(diskFat, dirs)
    BY <1>1, AtRest
  <2>2. d # 0
    BY <2>1, FolderHolds, Numbers DEF Sound, TablesOwned
  <2> QED
    BY <2>1, <2>2 DEF Tree, UpSound, InParent
<1> QED
  BY <1>1, ShellInvariance, PTL

\* A folder that the shell's copy of a table shows stays one, however old the
\* copy is, but for the deletes of cp, mv and rm that the property names:
\* cat never reads a table through the copy that is none any more.
THEOREM CopyHolds == PlainTexts /\ ShellSpec => CopyNeverDangles
<1>1. ASSUME ShellInv, ShellNext,
             NEW r \in ScanRows, dir_table'[r].used, dir_table'[r].attr = ATTR_SUBDIRECTORY,
             ~IsFolder(dirs'[dir_table'[r].cl])
      PROVE  /\ dir_table' = dir_table
             /\ \/ ~IsFolder(dirs[dir_table'[r].cl])
                \/ /\ op.pc = "dd_table" /\ op.cl = dir_table'[r].cl
                   /\ job.pc # "none" \/ ~NamesFolder(dir_table, dir_table'[r].name.base)
  <2>1. ShellInv' /\ CopyMoves
    BY <1>1, EachStep DEF Good
  <2>2. dir_table'[r].cl \in Clusters
    BY <1>1, <2>1, Numbers DEF ShellInv, PlaceOK, CopySound
  <2>3. ASSUME dir_table' # dir_table PROVE FALSE
    <3>1. PICK c \in Clusters : Idle /\ dir_table' = dirs[c] /\ FoldersStay
      BY <2>1, <2>3 DEF CopyMoves, shell
    <3>2. RowsCreated(dirs) /\ DownSound(dirs, 0) /\ Sound(diskFat, dirs)
      BY <1>1, <3>1, AtRest
    <3>3. Created(dirs[c][r]) /\ dirs[c][r].cl # 0
      BY <1>1, <3>1, <3>2, EntryClusters DEF RowsCreated
    <3>4. IsFolder(dirs[dir_table'[r].cl])
      BY <1>1, <3>1, <3>2, <3>3 DEF DownSound, Knows
    <3> QED
      BY <1>1, <2>2, <3>1, <3>4 DEF FoldersStay
  <2>4. CASE FoldersStay
    BY <1>1, <2>2, <2>3, <2>4 DEF FoldersStay
  <2>5. CASE DeleteFolderTable /\ UNCHANGED shell
    <3>1. op.pc = "dd_table" /\ Known
      BY <2>5 DEF DeleteFolderTable, Known, Defined, Stuck
    <3>2. \A d \in Clusters : d # op.cl => dirs'[d] = dirs[d]
      BY <1>1, <2>5, <3>1, DeleteFolderTableTree DEF ShellInv, CountInv
    <3>3. op.cl = dir_table'[r].cl \/ ~IsFolder(dirs[dir_table'[r].cl])
      BY <1>1, <2>2, <3>2
    <3>4. dir_table' = dir_table
      BY <2>3
    <3> QED
      BY <1>1, <3>1, <3>3, <3>4 DEF ShellInv, Place
  <2> QED
    BY <2>1, <2>4, <2>5 DEF CopyMoves
<1>2. ASSUME ShellInv, [ShellNext]_shellVars
      PROVE  [dir_table' # dir_table \/ dirs' # dirs =>
       \A r \in ScanRows :
         LET e == dir_table'[r]
         IN  e.used /\ e.attr = ATTR_SUBDIRECTORY /\ ~IsFolder(dirs'[e.cl]) =>
               /\ dir_table' = dir_table
               /\ \/ ~IsFolder(dirs[e.cl])
                  \/ /\ op.pc = "dd_table" /\ op.cl = e.cl
                     /\ job.pc # "none" \/ ~NamesFolder(dir_table, e.name.base)]_shellVars
  BY <1>1, <1>2
<1> QED
  BY <1>2, ShellInvariance, PTL DEF ShellSpec, CopyNeverDangles

-----------------------------------------------------------------------------
(* Files and what they hold *)

\* The files that no write is filling.
Files == {x \in CreatedRows : IsFile(x) /\ ~InFlight(x)}

\* A file holds the parts of one text, in order.
Text(b, n) == [i \in 1 .. n |-> <<b, i - 1>>]
Whole(x) == \E b \in Bufs, n \in Nat : Contents(diskFat, data, Target(x)) = Text(b, n)
FilesWhole == \A x \in Files : Whole(x)

\* A step leaves a file as it was.
Stays(x) ==
  /\ x \in Files' /\ At(x)' = At(x)
  /\ Contents(diskFat, data, Target(x))' = Contents(diskFat, data, Target(x))

LEMMA TextLength ==
  ASSUME NEW b, NEW n \in Nat
  PROVE  Len(Text(b, n)) = n
<1>1. Text(b, n) \in Seq({b} \X Int)
  BY DEF Text
<1> QED
  BY <1>1 DEF Text

LEMMA FileStays ==
  ASSUME DiskInv, Known, NEW x \in Files, x \in CreatedRows', At(x)' = At(x), ~InFlight(x)',
         (diskFat' = diskFat /\ data' = data) \/ Alike(Target(x))
  PROVE  Stays(x)
<1>1. Target(x)' = Target(x) /\ IsFile(x)' /\ IsFile(x) /\ x \in CreatedRows
  BY DEF Target, IsFile, Files
<1>2. Contents(diskFat', data', Target(x)) = Contents(diskFat, data, Target(x))
  <2>1. CASE diskFat' = diskFat /\ data' = data
    BY <2>1
  <2>2. CASE Alike(Target(x))
    <3>1. /\ diskFat \in Fat /\ Links(diskFat)
          /\ Target(x) \in DataClusters /\ diskFat[Target(x)] # EMPTY
      BY <1>1, FileChain
    <3> QED
      BY <2>2, <3>1, ContentsKept DEF Alike
  <2> QED
    BY <2>1, <2>2
<1>3. x \in Files'
  BY <1>1 DEF Files
<1> QED
  BY <1>1, <1>2, <1>3 DEF Stays

\* No file comes in but one that is whole.
LEMMA WholeAfter ==
  ASSUME FilesWhole, \A x \in Files' : (x \in Files /\ Stays(x)) \/ Whole(x)'
  PROVE  FilesWhole'
<1> SUFFICES ASSUME NEW x \in Files', x \in Files, Stays(x) PROVE Whole(x)'
  BY DEF FilesWhole
<1>1. Whole(x)
  BY DEF FilesWhole
<1> QED
  BY <1>1 DEF Whole, Stays

\* A step that writes no table and no contents.
LEMMA TablesStand ==
  ASSUME DiskInv, Idle, FilesWhole, op'.pc # "wf_data", UNCHANGED <<dirs, data>>,
         \A y \in Clusters : diskFat[y] # EMPTY => diskFat'[y] = diskFat[y]
  PROVE  FilesWhole' /\ \A x \in Files : Stays(x)
<1>1. CreatedRows' = CreatedRows /\ Known
  BY IdleFacts DEF CreatedRows
<1>2. \A x : At(x)' = At(x) /\ ~InFlight(x)' /\ ~InFlight(x)
  BY DEF At, InFlight, Idle
<1>3. ASSUME NEW x \in Files PROVE Stays(x)
  <2>1. x \in CreatedRows /\ IsFile(x)
    BY DEF Files
  <2>2. Alike(Target(x))
    BY <1>1, <2>1, WordsTaken
  <2> QED
    BY <1>1, <1>2, <2>1, <2>2, FileStays
<1>4. ASSUME NEW x \in Files' PROVE x \in Files
  BY <1>1, <1>2 DEF Files, IsFile
<1> QED
  BY <1>3, <1>4, WholeAfter

\* The first disk write of delete takes away no file of another name.
LEMMA OthersStand ==
  ASSUME DiskInv, FilesWhole, NEW p \in Clusters, NEW n, Delete(p, n)
  PROVE  FilesWhole' /\ \A x \in Files : ~(x[1] = p /\ At(x).name = n) => Stays(x)
<1>1. CASE DeleteRefused(p, n)
  BY <1>1, TablesStand, StepPc DEF DeleteRefused, Reply, Return
<1>2. CASE DeleteFile(p, n) \/ DeleteFolder(p, n)
  <2>1. PICK r : r = Min(DeleteHits(dirs[p], n))
    OBVIOUS
  <2>2. /\ dirs' = [dirs EXCEPT ![p] = ClearRow(dirs[p], r)] /\ DeleteHits(dirs[p], n) # {}
        /\ op'.pc \in {"df_fat", "dd_table"} /\ Idle
    BY <1>2, <2>1 DEF DeleteFile, DeleteFolder, Step
  <2>3. Known /\ dirs \in [Clusters -> Table]
    BY <2>2, IdleFacts
  <2>4. r \in Rows /\ dirs[p][r].name = n
    BY <2>1, <2>2, HitRow, RowNumbers
  <2>5. ASSUME NEW x \in Clusters \X ScanRows
        PROVE  /\ ~(x[1] = p /\ x[2] = r) => At(x)' = At(x)
               /\ x[1] = p /\ x[2] = r => ~Created(At(x)')
    <3>1. x[1] \in Clusters /\ x[2] \in Rows /\ dirs[x[1]] \in [Rows -> Entry]
      BY <2>3, RowNumbers DEF Table
    <3>2. CASE x[1] # p
      BY <2>2, <2>3, <3>1, <3>2 DEF At
    <3>3. CASE x[1] = p
      <4>1. At(x)' = ClearRow(dirs[p], r)[x[2]]
        BY <2>2, <2>3, <3>1, <3>3 DEF At
      <4>2. x[2] # r => At(x)' = At(x)
        BY <2>4, <3>1, <3>3, <4>1 DEF ClearRow, At
      <4>3. x[2] = r => ~At(x)'.used
        BY <2>4, <3>1, <3>3, <4>1 DEF ClearRow, Entry
      <4> QED
        BY <3>3, <4>2, <4>3 DEF Created
    <3> QED
      BY <3>2, <3>3
  <2>6. \A x : ~InFlight(x)' /\ ~InFlight(x)
    BY <2>2 DEF InFlight, Idle
  <2>7. \A x \in Clusters \X ScanRows :
          /\ x \in CreatedRows' <=> Created(At(x)')
          /\ x \in CreatedRows <=> Created(At(x))
    BY DEF CreatedRows, At
  <2>8. ASSUME NEW x \in Files, ~(x[1] = p /\ x[2] = r) PROVE Stays(x)
    <3>1. x \in CreatedRows /\ IsFile(x) /\ x \in Clusters \X ScanRows
      BY DEF Files, CreatedRows
    <3>2. At(x)' = At(x) /\ x \in CreatedRows'
      BY <2>5, <2>7, <2>8, <3>1
    <3>3. (diskFat' = diskFat /\ data' = data) \/ Alike(Target(x))
      BY <3>1, DeleteLeavesFiles
    <3> QED
      BY <2>3, <2>6, <3>2, <3>3, FileStays
  <2>9. ASSUME NEW x \in Files' PROVE x \in Files /\ ~(x[1] = p /\ x[2] = r)
    <3>1. x \in Clusters \X ScanRows /\ Created(At(x)') /\ IsFile(x)'
      BY <2>7 DEF Files, CreatedRows, At
    <3>2. ~(x[1] = p /\ x[2] = r)
      BY <2>5, <3>1
    <3>3. At(x)' = At(x)
      BY <2>5, <3>1, <3>2
    <3> QED
      BY <2>6, <2>7, <3>1, <3>2, <3>3 DEF Files, IsFile
  <2>10. ASSUME NEW x \in Files, ~(x[1] = p /\ At(x).name = n) PROVE Stays(x)
    BY <2>4, <2>8, <2>10 DEF At
  <2> QED
    BY <2>8, <2>9, <2>10, WholeAfter
<1> QED
  BY <1>1, <1>2 DEF Delete

-----------------------------------------------------------------------------
(* The disk writes of a call that has begun *)

\* The row of the write in flight.
NewRow == <<op.parent, op.row>>

LEMMA RowOrigin ==
  ASSUME PlainTexts, CountInv, Known, TreeInv, GoesOn, NEW x \in CreatedRows'
  PROVE  \/ x \in CreatedRows /\ At(x)' = At(x)
         \/ (FolderParent \/ FileParent) /\ x = NewRow /\ At(x)' = op.entry
<1>1. /\ x \in Clusters \X ScanRows /\ x[1] \in Clusters /\ x[2] \in ScanRows
      /\ Created(dirs'[x[1]][x[2]])
      /\ At(x) = dirs[x[1]][x[2]] /\ At(x)' = dirs'[x[1]][x[2]]
  BY DEF CreatedRows, At
<1>2. x[2] \in Rows /\ x[2] # 0 /\ dirs'[x[1]][x[2]].used
  BY <1>1, RowNumbers DEF Created
<1>3. dirs'[x[1]][x[2]] = dirs[x[1]][x[2]] => x \in CreatedRows /\ At(x)' = At(x)
  BY <1>1 DEF CreatedRows
<1>4. /\ DiskInv /\ dirs \in [Clusters -> Table] /\ op \in Calls /\ Sound(diskFat, dirs)
      /\ CallSound
  BY KnownFacts DEF CountInv
<1>5. CASE FolderParent \/ FileParent
  <2>1. /\ WritesParent /\ op.parent \in Clusters /\ op.entry \in Entry
        /\ dirs' = EntryWritten(dirs, op.parent, op.row, op.entry)
        /\ op.row = EntryRow(dirs[op.parent]) /\ op.pc \in {"mk_parent", "wf_parent"}
    BY <1>4, <1>5 DEF FolderParent, FileParent, CallSound, WritesParent, EntryWritten, Calls
  <2>2. IsFolder(dirs[op.parent]) /\ RowsCreated(dirs) /\ NamesDiffer(dirs)
    BY <2>1, TreeWhole DEF TreeInv, CallTree, Tree
  <2>3. PICK D, p, q, e, E :
          D = dirs /\ p = op.parent /\ q = op.row /\ e = op.entry /\ E = dirs'
    OBVIOUS
  <2>4. /\ D \in [Clusters -> Table] /\ Sound(diskFat, D) /\ RowsCreated(D) /\ NamesDiffer(D)
        /\ p \in Clusters /\ IsFolder(D[p]) /\ e \in Entry
        /\ q = EntryRow(D[p]) /\ E = EntryWritten(D, p, q, e)
    BY <1>4, <2>1, <2>2, <2>3
  <2>5. /\ E[p][q] = e
        /\ \A d \in Clusters, r \in ScanRows :
             \/ d = p /\ r = q
             \/ E[d][r] = D[d][r]
             \/ d = r /\ r # LastWriteRow /\ NoEntry(D[d][r]) /\ NoEntry(E[d][r])
    BY <2>4, EntryPutRows
  <2>6. (x[1] = p /\ x[2] = q) \/ E[x[1]][x[2]] = D[x[1]][x[2]]
    BY <1>1, <2>3, <2>5 DEF NoEntry
  <2>7. CASE x[1] = p /\ x[2] = q
    <3>1. x = NewRow
      BY <1>1, <2>3, <2>7 DEF NewRow
    <3> QED
      BY <1>1, <1>5, <2>3, <2>5, <2>7, <3>1
  <2> QED
    BY <1>3, <2>3, <2>6, <2>7
<1>6. CASE FolderTable \/ DeleteFolderTable
  <2>1. TableOfCall
    BY <1>4, <1>6 DEF FolderTable, DeleteFolderTable, CallSound
  <2>2. PICK T : /\ dirs' = [dirs EXCEPT ![op.cl] = T]
                 /\ \A r \in Rows : r # 0 => T[r] = op.table[r]
    <3>1. op.table \in [Rows -> Entry] /\ 0 \in Rows
      BY <1>4, RowNumbers DEF Calls, Table
    <3>2. \A r \in Rows : r # 0 => ClearRow(op.table, 0)[r] = op.table[r]
      BY <3>1 DEF ClearRow
    <3>3. CASE FolderTable
      BY <3>1, <3>3 DEF FolderTable
    <3>4. CASE DeleteFolderTable
      BY <3>2, <3>4 DEF DeleteFolderTable
    <3> QED
      BY <1>6, <3>3, <3>4
  <2> QED
    BY <1>1, <1>2, <1>3, <1>4, <2>1, <2>2 DEF TableOfCall
<1>7. CASE FileData
  BY <1>1, <1>2, <1>3, <1>7, PartWritten
<1>8. CASE DeleteFileFat \/ DeleteFolderFat
  BY <1>3, <1>8 DEF DeleteFileFat, DeleteFolderFat
<1> QED
  BY <1>5, <1>6, <1>7, <1>8 DEF GoesOn

LEMMA RowsRemain ==
  ASSUME CountInv, GoesOn, NEW x \in CreatedRows
  PROVE  At(x)' = At(x) /\ x \in CreatedRows'
<1>1. DiskInv
  BY DEF CountInv
<1>2. At(x)' = At(x)
  <2>1. CASE FolderParent \/ FileParent
    BY <1>1, <2>1, ParentKeepsRows
  <2>2. CASE FolderTable \/ DeleteFolderTable
    BY <1>1, <2>2, OwnRowOnly
  <2>3. CASE FileData
    BY <2>3, FileDataKeepsRows
  <2>4. CASE DeleteFileFat \/ DeleteFolderFat
    BY <2>4 DEF DeleteFileFat, DeleteFolderFat, At
  <2> QED
    BY <2>1, <2>2, <2>3, <2>4 DEF GoesOn
<1> QED
  BY <1>2 DEF CreatedRows, At

\* How the call in flight goes on.
LEMMA CallMoves ==
  ASSUME CountInv, Known, GoesOn
  PROVE  /\ op'.pc = "wf_data" => (FileParent \/ FileData) /\ NewRow' = NewRow
         /\ FileParent \/ FileData =>
              \/ /\ op'.pc = "wf_data" /\ op'.parent = op.parent /\ op'.row = op.row
                 /\ op'.entry = op.entry /\ op'.buf = op.buf
              \/ FileData /\ op'.pc = "idle"
<1>1. op \in Calls
  BY KnownFacts DEF CountInv
<1>2. CASE FileParent
  BY <1>1, <1>2 DEF FileParent, Calls, NewRow
<1>3. CASE FileData
  <2>1. CASE fat[op.cl] # EOF
    <3>1. op' = [op EXCEPT !.cl = fat[op.cl], !.part = op.part + 1] /\ op.pc = "wf_data"
      BY <1>3, <2>1 DEF FileData
    <3> QED
      BY <1>1, <1>3, <3>1 DEF Calls, NewRow
  <2>2. CASE fat[op.cl] = EOF
    BY <1>3, <2>2, StepPc DEF FileData, Return
  <2> QED
    BY <2>1, <2>2
<1>4. CASE FolderParent
  BY <1>1, <1>4 DEF FolderParent, FileParent, FileData, Calls
<1>5. CASE FolderTable \/ DeleteFileFat \/ DeleteFolderTable \/ DeleteFolderFat
  <2>1. op'.pc \in {"idle", "wild", "dd_fat"}
    <3>1. CASE FolderTable \/ DeleteFileFat \/ DeleteFolderFat
      BY <3>1, StepPc DEF FolderTable, DeleteFileFat, DeleteFolderFat, Return
    <3>2. CASE DeleteFolderTable
      BY <3>2 DEF DeleteFolderTable, Step
    <3> QED
      BY <1>5, <3>1, <3>2
  <2>2. op.pc \in {"mk_table", "df_fat", "dd_table", "dd_fat"}
    BY <1>5 DEF FolderTable, DeleteFileFat, DeleteFolderTable, DeleteFolderFat
  <2> QED
    BY <2>1, <2>2 DEF FileParent, FileData
<1> QED
  BY <1>2, <1>3, <1>4, <1>5 DEF GoesOn

\* The last disk write of a file completes it.
LEMMA FileEnds ==
  ASSUME CountInv, FileData, op'.pc = "idle", NEW x, x = NewRow
  PROVE  /\ At(x)' = op.entry /\ At(x) = op.entry
         /\ Contents(diskFat, data, Target(x))' = Text(op.buf, Needed)
         /\ Needed \in Nat /\ op.buf \in Bufs
<1>1. /\ OfItsEntry /\ PartsWritten /\ op \in Calls /\ op.buf \in Bufs
  BY NoTableInFile DEF FileData
<1>2. op.parent \in Clusters /\ dirs[op.parent][op.row] = op.entry /\ Holds(dirs[op.parent])
  BY <1>1 DEF OfItsEntry, Calls
<1>3. dirs'[op.parent] = dirs[op.parent] /\ diskFat' = diskFat
  BY <1>2, PartWritten
<1>4. Stored = Text(op.buf, Needed)
  BY <1>2, LastPart DEF Asked, Needed, Text
<1>5. op.entry.cl \in Clusters /\ Needed \in Nat
  BY <1>1, ChainFinite, Numbers DEF OfItsEntry, PartsWritten
<1>6. At(x)' = op.entry /\ At(x) = op.entry
  BY <1>2, <1>3 DEF At, NewRow
<1>7. Contents(diskFat, data, Target(x))' = Stored
  BY <1>2, <1>3, <1>6 DEF Target, Stored
<1> QED
  BY <1>1, <1>4, <1>5, <1>6, <1>7

LEMMA FilesGoOn ==
  ASSUME PlainTexts, CountInv, Known, TreeInv, GoesOn, FilesWhole
  PROVE  FilesWhole' /\ \A x \in Files : Stays(x)
<1>0. DiskInv /\ op \in Calls /\ CallSound
  BY KnownFacts DEF CountInv
<1>1. ASSUME NEW x \in Files PROVE ~InFlight(x)'
  <2> SUFFICES ASSUME op'.pc = "wf_data", x = NewRow' PROVE FALSE
    BY DEF InFlight, NewRow
  <2>1. (FileParent \/ FileData) /\ x = NewRow
    BY CallMoves
  <2>2. CASE FileData
    BY <2>1, <2>2 DEF Files, InFlight, NewRow, FileData
  <2>3. CASE FileParent
    <3>1. x \in CreatedRows
      BY DEF Files
    <3>2. dirs[op.parent][op.row].used /\ op.row # 0
      BY <1>0, <2>1, <3>1, EntryFacts DEF NewRow
    <3>3. op.row = EntryRow(dirs[op.parent])
      BY <1>0, <2>3 DEF FileParent, CallSound, WritesParent
    <3> QED
      BY <3>2, <3>3, EntryRowUnused
  <2> QED
    BY <2>1, <2>2, <2>3
<1>2. ASSUME NEW x \in Files PROVE Stays(x)
  <2>1. x \in CreatedRows /\ IsFile(x) /\ ~InFlight(x)
    BY DEF Files
  <2>2. At(x)' = At(x) /\ x \in CreatedRows'
    BY <2>1, RowsRemain
  <2>3. (diskFat' = diskFat /\ data' = data) \/ Alike(Target(x))
    BY <2>1, GoingOnAlike DEF GoesOn
  <2> QED
    BY <1>0, <1>1, <2>1, <2>2, <2>3, FileStays
<1>3. ASSUME NEW x \in Files' PROVE x \in Files \/ Whole(x)'
  <2>1. x \in CreatedRows' /\ IsFile(x)' /\ ~InFlight(x)'
    BY DEF Files
  <2>2. CASE x \in CreatedRows /\ At(x)' = At(x)
    <3>1. IsFile(x)
      BY <2>1, <2>2 DEF IsFile
    <3>2. CASE InFlight(x)
      <4>1. op.pc = "wf_data" /\ x = NewRow
        BY <3>2 DEF InFlight, NewRow
      <4>2. FileData
        BY <4>1 DEF GoesOn, FolderParent, FolderTable, FileParent, DeleteFileFat,
                    DeleteFolderTable, DeleteFolderFat
      <4>3. op'.pc = "idle"
        BY <2>1, <4>1, <4>2, CallMoves DEF InFlight, NewRow
      <4> QED
        BY <4>1, <4>2, <4>3, FileEnds DEF Whole
    <3> QED
      BY <2>2, <3>1, <3>2 DEF Files
  <2>3. CASE (FolderParent \/ FileParent) /\ x = NewRow /\ At(x)' = op.entry
    <3>1. CASE FolderParent
      BY <1>0, <2>1, <2>3, <3>1 DEF FolderParent, CallSound, IsFile
    <3>2. CASE FileParent
      BY <2>1, <2>3, <3>2, CallMoves DEF InFlight, NewRow, FileData, FileParent
    <3> QED
      BY <2>3, <3>1, <3>2
  <2> QED
    BY <2>1, <2>2, <2>3, RowOrigin
<1> QED
  BY <1>2, <1>3, WholeAfter

-----------------------------------------------------------------------------
(* The calls of the commands *)

\* Only the shell's own variables and the cache change.
LEMMA DiskStands ==
  ASSUME DiskInv, Idle, FilesWhole, op'.pc # "wf_data", UNCHANGED <<diskFat, dirs, data>>
  PROVE  FilesWhole' /\ \A x \in Files : Stays(x)
  BY TablesStand

LEMMA ReadStands ==
  ASSUME DiskInv, FilesWhole, NEW p, NEW n, ReadIn(p, n)
  PROVE  FilesWhole' /\ \A x \in Files : Stays(x)
<1>1. UNCHANGED <<diskFat, dirs, data>> /\ Idle /\ op'.pc # "wf_data"
  BY StepPc DEF ReadIn, ReadFails, ReadCopies, Overrun, Reply, Return
<1> QED
  BY <1>1, DiskStands

LEMMA WriteStands ==
  ASSUME DiskInv, FilesWhole, NEW p, NEW n,
         \/ WriteRefused(p, n) \/ WriteFolder(p, n)
         \/ \E size : WriteWild(p, n, size) \/ WriteNoSpace(p, n, size)
         \/ \E size, b : WriteFile(p, n, size, b)
  PROVE  FilesWhole' /\ \A x \in Files : Stays(x)
<1>1. Idle /\ op'.pc # "wf_data"
  <2>1. CASE WriteRefused(p, n)
    BY <2>1, StepPc DEF WriteRefused, Reply, Return
  <2>2. CASE WriteFolder(p, n)
    BY <2>2 DEF WriteFolder, Writable, Step
  <2>3. ASSUME NEW size, WriteWild(p, n, size) \/ WriteNoSpace(p, n, size)
        PROVE  Idle /\ op'.pc # "wf_data"
    BY <2>3, StepPc DEF WriteWild, WriteNoSpace, Writable, Reply, Return
  <2>4. ASSUME NEW size, NEW b, WriteFile(p, n, size, b)
        PROVE  Idle /\ op'.pc # "wf_data"
    BY <2>4 DEF WriteFile, Writable, Step
  <2> QED
    BY <2>1, <2>2, <2>3, <2>4
<1> QED
  BY <1>1, WriteTakesWords, TablesStand

LEMMA TextStands ==
  ASSUME DiskInv, FilesWhole, Idle, NEW p, NEW n, NEW b, WriteText(p, n, b)
  PROVE  FilesWhole' /\ \A x \in Files : Stays(x)
<1>1. CASE op' = Step("wild") /\ UNCHANGED <<signed, diskFat, dirs, data, fat>>
  BY <1>1, DiskStands, StepPc
<1> QED
  BY <1>1, WriteStands DEF WriteText

-----------------------------------------------------------------------------
(* The texts of cp and mv *)

\* The file n in the folder d is one cluster of the text b.
Holder(d, n, b) ==
  \E x \in Files : /\ x[1] = d /\ At(x).name = n
                   /\ Contents(diskFat, data, Target(x)) = Text(b, 1)

\* From the read of cp on.
Copying == job.pc \in {"cp_delete", "cp_write", "cp_wrote"}
SourceSafe == job.src = job.dst \/ Holder(job.from, job.src, job.text)

\* Behind the write of the destination, for a cp, or a mv that sees what the
\* calls return: it is done, under way, or was refused.
Delivered == Holder(current_directory, job.dst, job.text)
Filled ==
  /\ op.pc \in {"wf_parent", "wf_data"} /\ op.parent = current_directory
  /\ op.row \in ScanRows /\ op.entry.name = job.dst
  /\ op.entry.size = CLUSTER_SIZE /\ op.buf = job.text
Refused == Idle /\ ret.code = 1
Written == job.pc = "cp_wrote" \/ (job.pc = "mv_wrote" /\ job.garbage = "zero")
Settled == job.pc \in {"mv_again", "mv_source"} /\ job.garbage = "zero"

JobText ==
  /\ Copying => job.from = current_directory /\ SourceSafe
  /\ Written => Delivered \/ Filled \/ Refused
  /\ Settled => Delivered

TextsKnown == Known => FilesWhole /\ JobText

LEMMA NoText ==
  ASSUME job'.pc \in {"none", "mv_delete", "mv_write"}
  PROVE  JobText'
  BY DEF JobText, Copying, Written, Settled

HolderAfter(d, n, b) ==
  \E x \in Files' : /\ x[1] = d /\ At(x)'.name = n
                    /\ Contents(diskFat, data, Target(x))' = Text(b, 1)

LEMMA HolderStays ==
  ASSUME NEW d, NEW n, NEW b, Holder(d, n, b),
         \A x \in Files : x[1] = d /\ At(x).name = n => Stays(x)
  PROVE  HolderAfter(d, n, b)
  BY DEF Holder, HolderAfter, Stays

\* What a read that returns 0 has read is the text of the file it found.
LEMMA TextOfSource ==
  ASSUME ShellInv, Idle, FilesWhole, NEW p \in Clusters, NEW n \in AllNames,
         n # EmptyName, n \notin Dirnames, ReadIn(p, n), ret'.code = 0, op'.pc = "idle",
         NEW b, b = TextRead
  PROVE  Holder(p, n, b)
<1>1. /\ PlainTexts /\ DiskInv /\ Known /\ dirs \in [Clusters -> Table]
      /\ Sound(diskFat, dirs) /\ RowsCreated(dirs)
  BY AtRest
<1>2. PICK m : m = Min(ReadHits(dirs[p], n))
  OBVIOUS
<1>3. PICK c : c = dirs[p][m].cl
  OBVIOUS
<1>4. ReadCopies(p, n, 4 * CLUSTER_SIZE) /\ Len(ret'.out) < 2
  <2>1. CASE ReadFails(p, n, 4 * CLUSTER_SIZE)
    BY <2>1 DEF ReadFails, Reply, Return, Code
  <2>2. CASE Overrun(p, n)
    BY <2>2, StepPc DEF Overrun
  <2> QED
    BY <2>1, <2>2 DEF ReadIn
<1>5. /\ ReadHits(dirs[p], n) # {} /\ c \in Clusters
      /\ ret'.out = [i \in 1 .. Cardinality(Chain(diskFat, c)) |-> data[ChainAt(diskFat, c, i)]]
  <2>1. ReadHits(dirs[p], n) # {}
    <3>1. ReadCode(dirs[p], n, 4 * CLUSTER_SIZE) = 0
      BY <1>4 DEF ReadCopies
    <3> QED
      BY <3>1 DEF ReadCode
  <2>2. c \in Clusters /\ Ends(diskFat, c)
    BY <1>2, <1>3, <1>4, StepPc DEF ReadCopies
  <2>3. ret' = [code |-> 0, out |-> [i \in 1 .. Cardinality(Chain(diskFat, c)) |->
                                       data[ChainAt(diskFat, c, i)]]]
    BY <1>2, <1>3, <1>4, <2>2 DEF ReadCopies
  <2> QED
    BY <2>1, <2>2, <2>3
<1>6. m \in ScanRows /\ dirs[p][m].name = n
  <2>1. ReadHits(dirs[p], n) \in SUBSET Nat
    BY RowNumbers DEF ReadHits
  <2> QED
    BY <1>2, <1>5, <2>1, MinProperty DEF ReadHits
<1>7. Created(dirs[p][m])
  <2>1. n \in Visible
    BY <1>1, TextFacts
  <2>2. dirs[p][m].used
    BY <1>1, <1>6, <2>1, RowNumbers DEF Sound, NamesUsed
  <2> QED
    BY <1>6, <2>1, <2>2 DEF Created
<1>8. PICK x : x = <<p, m>>
  OBVIOUS
<1>9. At(x) = dirs[p][m] /\ x[1] = p /\ Target(x) = c
  BY <1>3, <1>8 DEF At, Target
<1>10. x \in Files
  <2>1. x \in CreatedRows
    BY <1>6, <1>7, <1>8 DEF CreatedRows
  <2>2. IsFile(x)
    BY <1>1, <1>6, <1>9 DEF IsFile, RowsCreated
  <2> QED
    BY <2>1, <2>2 DEF Files, InFlight, Idle
<1>11. ret'.out = Contents(diskFat, data, c)
  BY <1>5 DEF Contents
<1>12. PICK t \in Bufs, k \in Nat : ret'.out = Text(t, k)
  BY <1>9, <1>10, <1>11 DEF FilesWhole, Whole
<1>13. k = 1
  <2>1. PICK N \in Nat \ {0} : N = Cardinality(Chain(diskFat, c))
    BY <1>5, ChainFinite
  <2>2. DOMAIN ret'.out = 1 .. N /\ DOMAIN ret'.out = 1 .. k
    BY <1>5, <1>12, <2>1 DEF Text
  <2>3. Len(ret'.out) = k
    BY <1>12, TextLength
  <2>4. 1 \in 1 .. N
    BY <2>1
  <2> QED
    BY <1>4, <2>2, <2>3, <2>4
<1>14. b = t
  <2>1. ret'.out[1] = <<t, 0>> /\ ret'.out # <<>> /\ <<t, 0>> # <<>>
    BY <1>12, <1>13 DEF Text
  <2> QED
    BY <2>1 DEF TextRead, Raw
<1> QED
  BY <1>6, <1>9, <1>10, <1>11, <1>12, <1>13, <1>14 DEF Holder


-----------------------------------------------------------------------------
(* The invariant through the steps of cp and mv *)

LEMMA AllHoldersStay ==
  ASSUME \A x \in Files : Stays(x), NEW d, NEW n, NEW b, Holder(d, n, b)
  PROVE  HolderAfter(d, n, b)
  BY HolderStays

\* Steps before and after which there is nothing to say of a text.
LEMMA QuietStep ==
  ASSUME Known' => FilesWhole', job'.pc \in {"none", "mv_delete", "mv_write"}
  PROVE  TextsKnown'
  BY NoText DEF TextsKnown

\* A step at the prompt, or of the inserter.
LEMMA NoJobBefore ==
  ASSUME ShellInv, TextsKnown, Idle, running = "inserter" \/ job.pc = "none"
  PROVE  /\ job.pc = "none" /\ FilesWhole /\ DiskInv /\ Known /\ job \in Jobs
         /\ current_directory \in Clusters
<1>1. Place /\ DiskInv /\ Known /\ job \in Jobs /\ current_directory \in Clusters
  BY AtRest
<1> QED
  BY <1>1 DEF Place, TextsKnown

\* Commands that leave the disk alone.
LEMMA LooksText ==
  ASSUME ShellInv, TextsKnown, StartShell \/ cd_up \/ ls \/ find \/ \E base : cd(base)
  PROVE  TextsKnown'
<1>1. /\ Idle /\ UNCHANGED <<diskFat, dirs, data, op, job>>
      /\ running = "inserter" \/ job.pc = "none"
  BY DEF StartShell, cd_up, ls, find, cd, Prompt, AtPrompt, Job, vars
<1>2. job.pc = "none" /\ FilesWhole /\ DiskInv
  BY <1>1, NoJobBefore
<1>3. FilesWhole'
  BY <1>1, <1>2, DiskStands DEF Idle
<1> QED
  BY <1>1, <1>2, <1>3, QuietStep

LEMMA InsertText ==
  ASSUME ShellInv, TextsKnown, NEW n, Insert(n)
  PROVE  TextsKnown'
<1>1. Idle /\ UNCHANGED job /\ running = "inserter" /\ Write(ROOT, n)
  BY DEF Insert, shell, Write, WriteRefused, WriteFolder, WriteWild, WriteNoSpace, WriteFile,
         Writable
<1>2. job.pc = "none" /\ FilesWhole /\ DiskInv
  BY <1>1, NoJobBefore
<1>3. FilesWhole'
  BY <1>1, <1>2, WriteStands DEF Write
<1> QED
  BY <1>1, <1>2, <1>3, QuietStep

LEMMA MkdirText ==
  ASSUME ShellInv, TextsKnown, NEW n, mkdir(n)
  PROVE  TextsKnown'
<1>1. Idle /\ UNCHANGED job /\ job.pc = "none"
  BY DEF mkdir, Prompt, AtPrompt, Job
<1>2. FilesWhole /\ DiskInv
  BY <1>1, NoJobBefore
<1>3. FilesWhole'
  BY <1>2, WriteStands DEF mkdir
<1> QED
  BY <1>1, <1>3, QuietStep

LEMMA CatText ==
  ASSUME ShellInv, TextsKnown, NEW n, cat(n)
  PROVE  TextsKnown'
<1>1. Idle /\ UNCHANGED job /\ job.pc = "none"
  BY DEF cat, Prompt, AtPrompt, Job
<1>2. FilesWhole /\ DiskInv
  BY <1>1, NoJobBefore
<1>3. CASE ReadIn(CatFrom(n), n)
  <2>1. PICK p : ReadIn(p, n)
    BY <1>3
  <2>2. FilesWhole'
    BY <1>2, <2>1, ReadStands
  <2> QED
    BY <1>1, <2>2, QuietStep
<1>4. CASE UNCHANGED vars
  <2>1. FilesWhole'
    BY <1>1, <1>2, <1>4, DiskStands DEF vars, Idle
  <2> QED
    BY <1>1, <2>1, QuietStep
<1> QED
  BY <1>3, <1>4 DEF cat

LEMMA RmText ==
  ASSUME ShellInv, TextsKnown, NEW n, rm(n)
  PROVE  TextsKnown'
<1>1. Idle /\ UNCHANGED job /\ job.pc = "none"
  BY DEF rm, Prompt, AtPrompt, Job
<1>2. FilesWhole /\ DiskInv
  BY <1>1, NoJobBefore
<1>3. PICK p \in Clusters : Delete(p, n)
  BY <1>1, InsideFound DEF rm
<1>4. FilesWhole'
  BY <1>2, <1>3, OthersStand
<1> QED
  BY <1>1, <1>4, QuietStep

\* The read of cp: what it has read is what the source holds.
LEMMA CpText ==
  ASSUME ShellInv, TextsKnown, NEW s \in ReqNames, cp(s)
  PROVE  TextsKnown'
<1>1. Idle /\ job.pc = "none"
  BY DEF cp, AtPrompt, Job
<1>2. FilesWhole /\ DiskInv /\ job \in Jobs
  BY <1>1, NoJobBefore
<1>3. PICK p \in Clusters : p = Inside(dirs[current_directory], s.base)
  BY <1>1, InsideFound
<1>4. PICK n : n = SourceName(s)
  OBVIOUS
<1>5. CASE s = EmptyName
  <2>1. UNCHANGED <<vars, job>>
    BY <1>5 DEF cp
  <2>2. FilesWhole'
    BY <1>1, <1>2, <2>1, DiskStands DEF vars, Idle
  <2> QED
    BY <1>1, <2>1, <2>2, QuietStep
<1>6. CASE s # EmptyName
  <2>1. ReadIn(p, n) /\ current_directory' = p
    BY <1>3, <1>4, <1>6 DEF cp
  <2>2. FilesWhole' /\ \A x \in Files : Stays(x)
    BY <1>2, <2>1, ReadStands
  <2>3. CASE job' = job
    BY <1>1, <2>2, <2>3, QuietStep
  <2>4. CASE job' # job
    <3>1. /\ ret'.code = 0 /\ op'.pc = "idle"
          /\ \E d \in ReqNames :
               job' = [job EXCEPT !.pc = "cp_delete", !.src = n, !.from = p, !.dst = d,
                                  !.text = TextRead]
      BY <1>3, <1>4, <1>6, <2>4 DEF cp
    <3>2. PICK b : b = TextRead
      OBVIOUS
    <3>3. /\ job'.pc = "cp_delete" /\ job'.src = n /\ job'.from = p /\ job'.text = b
      BY <1>2, <3>1, <3>2 DEF Jobs
    <3>4. n \in AllNames /\ n # EmptyName /\ n \notin Dirnames
      BY <1>4, <1>6, ShellNames
    <3>5. Holder(p, n, b)
      BY <1>1, <1>2, <2>1, <3>1, <3>2, <3>4, TextOfSource
    <3>6. HolderAfter(p, n, b)
      BY <2>2, <3>5, AllHoldersStay
    <3>7. SourceSafe'
      BY <3>3, <3>6 DEF SourceSafe, Holder, HolderAfter
    <3>8. ~Written' /\ ~Settled'
      BY <3>3 DEF Written, Settled
    <3> QED
      BY <2>1, <2>2, <3>3, <3>7, <3>8 DEF TextsKnown, JobText
  <2> QED
    BY <2>3, <2>4
<1> QED
  BY <1>5, <1>6

LEMMA MvText ==
  ASSUME ShellInv, TextsKnown, NEW s, NEW g, mv(s, g)
  PROVE  TextsKnown'
<1>1. Idle /\ job.pc = "none"
  BY DEF mv, AtPrompt, Job
<1>2. FilesWhole /\ DiskInv
  BY <1>1, NoJobBefore
<1>3. PICK p, n : ReadIn(p, n)
  BY DEF mv
<1>4. FilesWhole'
  BY <1>2, <1>3, ReadStands
<1>5. job' = job \/ job'.pc = "mv_delete"
  BY DEF mv
<1> QED
  BY <1>1, <1>4, <1>5, QuietStep

LEMMA MvFolderText ==
  ASSUME ShellInv, TextsKnown, NEW g, mv_folder(g)
  PROVE  TextsKnown'
<1>1. Idle /\ job.pc = "none" /\ UNCHANGED <<diskFat, dirs, data>> /\ op'.pc = "idle"
  BY StepPc DEF mv_folder, AtPrompt, Job, ReadFails, Reply, Return
<1>2. FilesWhole /\ DiskInv
  BY <1>1, NoJobBefore
<1>3. FilesWhole'
  BY <1>1, <1>2, DiskStands
<1>4. job' = job \/ job'.pc = "mv_write"
  BY DEF mv_folder
<1> QED
  BY <1>1, <1>3, <1>4, QuietStep

\* A cp or mv under way finds the disk at rest.
LEMMA JobBefore ==
  ASSUME ShellInv, TextsKnown, Idle
  PROVE  /\ FilesWhole /\ JobText /\ DiskInv /\ job \in Jobs
         /\ current_directory \in Clusters /\ job.from \in Clusters
  BY AtRest DEF TextsKnown

LEMMA DestinationText ==
  ASSUME ShellInv, TextsKnown, cp_delete \/ mv_delete
  PROVE  TextsKnown'
<1>1. /\ Idle /\ Delete(current_directory, job.dst) /\ current_directory' = current_directory
      /\ \/ job.pc = "cp_delete" /\ job' = [job EXCEPT !.pc = "cp_write"]
         \/ job' = [job EXCEPT !.pc = "mv_write"]
  BY DEF cp_delete, mv_delete, Job
<1>2. FilesWhole /\ JobText /\ DiskInv /\ job \in Jobs /\ current_directory \in Clusters
  BY <1>1, JobBefore
<1>3. PICK p, n, d, m, b :
        /\ p = current_directory /\ n = job.dst /\ d = job.from /\ m = job.src /\ b = job.text
        /\ p \in Clusters
  BY <1>2
<1>4. FilesWhole' /\ \A x \in Files : ~(x[1] = p /\ At(x).name = n) => Stays(x)
  BY <1>1, <1>2, <1>3, OthersStand
<1>5. CASE job' = [job EXCEPT !.pc = "mv_write"]
  BY <1>2, <1>4, <1>5, QuietStep DEF Jobs
<1>6. CASE job.pc = "cp_delete" /\ job' = [job EXCEPT !.pc = "cp_write"]
  <2>1. /\ job'.pc = "cp_write" /\ job'.src = m /\ job'.from = d /\ job'.dst = n
        /\ job'.text = b
    BY <1>2, <1>3, <1>6 DEF Jobs
  <2>2. d = p /\ (m = n \/ Holder(d, m, b))
    BY <1>2, <1>3, <1>6 DEF JobText, Copying, SourceSafe
  <2>3. m = n \/ HolderAfter(d, m, b)
    BY <1>4, <2>2, HolderStays
  <2>4. SourceSafe'
    BY <2>1, <2>3 DEF SourceSafe, Holder, HolderAfter
  <2>5. ~Written' /\ ~Settled'
    BY <2>1 DEF Written, Settled
  <2> QED
    BY <1>1, <1>3, <1>4, <2>1, <2>2, <2>4, <2>5 DEF TextsKnown, JobText
<1> QED
  BY <1>1, <1>5, <1>6

LEMMA SourceText ==
  ASSUME ShellInv, TextsKnown, mv_source
  PROVE  TextsKnown'
<1>1. Idle /\ Delete(job.from, job.src) /\ job' = NoJob
  BY DEF mv_source, Job
<1>2. FilesWhole /\ DiskInv /\ job.from \in Clusters
  BY <1>1, JobBefore
<1>3. FilesWhole'
  BY <1>1, <1>2, OthersStand
<1> QED
  BY <1>1, <1>3, NoJobIs, QuietStep

\* A write of cp or mv is refused for its name alone, or begins.
LEMMA WriteLeads ==
  ASSUME ShellInv, Idle, NEW n, NEW b, WriteText(current_directory, n, b), Known',
         current_directory' = current_directory, job'.dst = n, job'.text = b
  PROVE  Filled' \/ Refused'
<1>1. /\ IsFolder(dirs[current_directory]) /\ RowsCreated(dirs) /\ NamesDiffer(dirs)
      /\ current_directory \in Clusters
  BY AtRest
<1>2. PICK p \in Clusters : p = current_directory
  BY <1>1
<1>3. op'.pc # "wild"
  BY DEF Known, Defined
<1>4. CASE WriteRefused(p, n)
  BY <1>1, <1>2, <1>4, StepPc DEF WriteRefused, Reply, Return, Refused, Idle, Code
<1>5. CASE WriteFile(p, n, CLUSTER_SIZE, b)
  <2>1. /\ op'.pc = "wf_parent" /\ op'.parent = p /\ op'.row = EntryRow(dirs[p])
        /\ op'.entry.name = n /\ op'.entry.size = CLUSTER_SIZE /\ op'.buf = b
    BY <1>5 DEF WriteFile, Step, FileEntry
  <2>2. EntryRow(dirs[p]) \in ScanRows
    BY <1>1, RoomLeft
  <2> QED
    BY <1>2, <2>1, <2>2 DEF Filled
<1> QED
  BY <1>2, <1>3, <1>4, <1>5, StepPc DEF WriteText, WriteWild

LEMMA WritesText ==
  ASSUME ShellInv, TextsKnown, cp_write \/ mv_write \/ mv_again
  PROVE  TextsKnown'
<1>1. /\ Idle /\ current_directory' = current_directory
      /\ job.pc \in {"cp_write", "mv_write", "mv_again"}
      /\ IF job.pc = "mv_again" THEN mv_again ELSE cp_write \/ mv_write
  BY DEF cp_write, mv_write, mv_again, Job
<1>2. FilesWhole /\ JobText /\ DiskInv /\ job \in Jobs
  BY <1>1, JobBefore
<1>3. PICK p, n, d, m, b :
        p = current_directory /\ n = job.dst /\ d = job.from /\ m = job.src /\ b = job.text
  OBVIOUS
<1>4. /\ job'.src = m /\ job'.from = d /\ job'.dst = n /\ job'.text = b
      /\ job'.garbage = job.garbage
      /\ job'.pc = IF job.pc = "cp_write" THEN "cp_wrote" ELSE "mv_wrote"
  BY <1>1, <1>2, <1>3 DEF cp_write, mv_write, mv_again, Job, Jobs
<1>5. PICK a : WriteText(p, a, b) /\ (job.pc # "mv_again" => a = n)
  BY <1>1, <1>3 DEF cp_write, mv_write, mv_again
<1>6. FilesWhole' /\ \A x \in Files : Stays(x)
  BY <1>1, <1>2, <1>5, TextStands
<1>7. Copying' => job'.from = current_directory' /\ SourceSafe'
  <2> SUFFICES ASSUME job.pc = "cp_write" PROVE d = p /\ SourceSafe'
    BY <1>1, <1>3, <1>4 DEF Copying
  <2>1. d = p /\ (m = n \/ Holder(d, m, b))
    BY <1>2, <1>3 DEF JobText, Copying, SourceSafe
  <2>2. m = n \/ HolderAfter(d, m, b)
    BY <1>6, <2>1, AllHoldersStay
  <2> QED
    BY <1>4, <2>1, <2>2 DEF SourceSafe, Holder, HolderAfter
<1>8. ASSUME Known', Written' PROVE Delivered' \/ Filled' \/ Refused'
  <2>1. CASE job.pc = "mv_again"
    <3>1. Holder(p, n, b)
      BY <1>2, <1>3, <1>4, <1>8, <2>1 DEF Written, JobText, Settled, Delivered
    <3>2. HolderAfter(p, n, b)
      BY <1>6, <3>1, AllHoldersStay
    <3> QED
      BY <1>1, <1>3, <1>4, <3>2 DEF Delivered, Holder, HolderAfter
  <2>2. CASE job.pc # "mv_again"
    BY <1>1, <1>3, <1>4, <1>5, <1>8, <2>2, WriteLeads
  <2> QED
    BY <2>1, <2>2
<1>9. ~Settled'
  BY <1>4 DEF Settled
<1> QED
  BY <1>6, <1>7, <1>8, <1>9 DEF TextsKnown, JobText

\* mv goes on, with return codes it sees, when the write was done.
LEMMA ReturnsText ==
  ASSUME ShellInv, TextsKnown, cp_returns \/ mv_returns
  PROVE  TextsKnown'
<1>1. Idle /\ UNCHANGED vars /\ current_directory' = current_directory
  BY DEF cp_returns, mv_returns, Job
<1>2. FilesWhole /\ JobText /\ DiskInv /\ job \in Jobs
  BY <1>1, JobBefore
<1>3. FilesWhole' /\ \A x \in Files : Stays(x)
  BY <1>1, <1>2, DiskStands DEF vars, Idle
<1>4. CASE job' = NoJob
  BY <1>3, <1>4, NoJobIs, QuietStep
<1>5. CASE job' # NoJob
  <2>1. /\ job.pc = "mv_wrote" /\ ~GivesUp(job.garbage, ret.code)
        /\ job' = [job EXCEPT !.pc = IF job.again THEN "mv_again" ELSE "mv_source"]
    BY <1>5 DEF cp_returns, mv_returns, Job
  <2>2. PICK p, n, b : p = current_directory /\ n = job.dst /\ b = job.text
    OBVIOUS
  <2>3. /\ job'.pc \in {"mv_again", "mv_source"} /\ job'.garbage = job.garbage
        /\ job'.dst = n /\ job'.text = b
    BY <1>2, <2>1, <2>2 DEF Jobs
  <2>4. ASSUME job.garbage = "zero" PROVE Delivered'
    <3>1. ret.code # 1
      BY <2>1, <2>4 DEF GivesUp, Seen
    <3>2. Holder(p, n, b)
      BY <1>1, <1>2, <2>1, <2>2, <2>4, <3>1
      DEF JobText, Written, Delivered, Filled, Refused, Idle
    <3>3. HolderAfter(p, n, b)
      BY <1>3, <3>2, AllHoldersStay
    <3> QED
      BY <1>1, <2>2, <2>3, <3>3 DEF Delivered, Holder, HolderAfter
  <2>5. ~Copying' /\ ~Written' /\ (Settled' => job.garbage = "zero")
    BY <2>3 DEF Copying, Written, Settled
  <2> QED
    BY <1>3, <2>4, <2>5 DEF TextsKnown, JobText
<1> QED
  BY <1>4, <1>5

-----------------------------------------------------------------------------
(* The invariant through the disk writes of a call *)

LEMMA OneClusterNeeded == divceil(CLUSTER_SIZE, CLUSTER_SIZE) = 1
<1>1. CLUSTER_SIZE \in Nat /\ CLUSTER_SIZE > 0
  BY SizeAssumption
<1>2. CLUSTER_SIZE % CLUSTER_SIZE = 0 /\ CLUSTER_SIZE \div CLUSTER_SIZE = 1
  BY <1>1
<1> QED
  BY <1>2 DEF divceil

\* The disk write that completes the file puts the text where it belongs.
LEMMA FilledDelivers ==
  ASSUME ShellInv, FileData, op'.pc = "idle", Filled,
         UNCHANGED <<current_directory, job>>
  PROVE  Delivered'
<1>1. PICK x : x = NewRow
  OBVIOUS
<1>2. PICK e : e = op.entry
  OBVIOUS
<1>3. /\ PlainTexts /\ CountInv /\ job \in Jobs /\ current_directory \in Clusters
  BY DEF ShellInv, PlaceOK
<1>4. /\ At(x)' = e /\ Contents(diskFat, data, Target(x))' = Text(op.buf, Needed)
  BY <1>1, <1>2, <1>3, FileEnds
<1>5. Needed = 1
  BY OneClusterNeeded DEF Needed, Filled
<1>6. e.used /\ e.attr # ATTR_SUBDIRECTORY /\ e.cl # 0 /\ e.name = job.dst
  <2>1. OfItsEntry
    BY <1>3, NoTableInFile DEF FileData
  <2> QED
    BY <1>2, <2>1, Numbers DEF OfItsEntry, Filled
<1>7. Created(e)
  BY <1>3, <1>6, TextFacts DEF Jobs
<1>8. x \in Clusters \X ScanRows /\ x[1] = current_directory
  BY <1>1, <1>3 DEF NewRow, Filled
<1>9. x \in Files'
  <2>1. x \in CreatedRows'
    BY <1>4, <1>7, <1>8 DEF CreatedRows, At
  <2> QED
    BY <1>4, <1>6, <2>1 DEF Files, IsFile, InFlight
<1> QED
  BY <1>4, <1>5, <1>6, <1>8, <1>9 DEF Delivered, Holder, Filled

LEMMA CallText ==
  ASSUME ShellInv, TextsKnown, CallGoesOn
  PROVE  TextsKnown'
<1>1. (GoesOn \/ Undefined) /\ UNCHANGED <<current_directory, job>>
  BY DEF CallGoesOn, GoesOn, shell
<1>2. CountInv /\ PlainTexts
  BY DEF ShellInv
<1>3. CASE ~Known
  BY <1>1, <1>2, <1>3, LostKept DEF TextsKnown
<1>4. CASE Known
  <2>1. GoesOn /\ TreeInv /\ FilesWhole /\ JobText
    BY <1>1, <1>4 DEF ShellInv, Undefined, Known, Defined, TextsKnown
  <2>2. FilesWhole' /\ \A x \in Files : Stays(x)
    BY <1>2, <1>4, <2>1, FilesGoOn
  <2>3. PICK p, n, d, m, b :
          p = current_directory /\ n = job.dst /\ d = job.from /\ m = job.src /\ b = job.text
    OBVIOUS
  <2>4. Copying' => job'.from = current_directory' /\ SourceSafe'
    <3> SUFFICES ASSUME Copying PROVE d = p /\ SourceSafe'
      BY <1>1, <2>3 DEF Copying
    <3>1. d = p /\ (m = n \/ Holder(d, m, b))
      BY <2>1, <2>3 DEF JobText, SourceSafe
    <3>2. m = n \/ HolderAfter(d, m, b)
      BY <2>2, <3>1, AllHoldersStay
    <3> QED
      BY <1>1, <2>3, <3>1, <3>2 DEF SourceSafe, Holder, HolderAfter
  <2>5. Delivered => Delivered'
    <3> SUFFICES ASSUME Holder(p, n, b) PROVE Delivered'
      BY <2>3 DEF Delivered
    <3>1. HolderAfter(p, n, b)
      BY <2>2, AllHoldersStay
    <3> QED
      BY <1>1, <2>3, <3>1 DEF Delivered, Holder, HolderAfter
  <2>6. ~Refused
    BY <2>1
    DEF Refused, Idle, GoesOn, FolderParent, FolderTable, FileParent, FileData,
        DeleteFileFat, DeleteFolderTable, DeleteFolderFat
  <2>7. Filled => Filled' \/ Delivered'
    <3> SUFFICES ASSUME Filled PROVE Filled' \/ Delivered'
      OBVIOUS
    <3>1. FileParent \/ FileData
      BY <2>1
      DEF Filled, GoesOn, FolderParent, FolderTable, FileParent, FileData,
          DeleteFileFat, DeleteFolderTable, DeleteFolderFat
    <3>2. \/ /\ op'.pc = "wf_data" /\ op'.parent = op.parent /\ op'.row = op.row
             /\ op'.entry = op.entry /\ op'.buf = op.buf
          \/ FileData /\ op'.pc = "idle"
      BY <1>2, <1>4, <2>1, <3>1, CallMoves
    <3> QED
      BY <1>1, <3>2, FilledDelivers DEF Filled
  <2>8. Written' => Delivered' \/ Filled' \/ Refused'
    BY <1>1, <2>1, <2>5, <2>6, <2>7 DEF JobText, Written
  <2>9. Settled' => Delivered'
    BY <1>1, <2>1, <2>5 DEF JobText, Settled
  <2> QED
    BY <2>2, <2>4, <2>8, <2>9 DEF TextsKnown, JobText
<1> QED
  BY <1>3, <1>4

-----------------------------------------------------------------------------
(* The invariant from the start on *)

\* A formatted disk has no file.
LEMMA TextsStart ==
  ASSUME ShellInit
  PROVE  TextsKnown
<1>1. \A d \in Clusters, r \in ScanRows : dirs[d][r] = ZeroEntry
  BY FirstTables, RowNumbers
<1>2. ~Created(ZeroEntry)
  BY DEF Created, ZeroEntry
<1>3. CreatedRows = {}
  BY <1>1, <1>2 DEF CreatedRows
<1>4. job.pc = "none"
  BY NoJobIs DEF ShellInit
<1> QED
  BY <1>3, <1>4
  DEF TextsKnown, FilesWhole, Files, JobText, Copying, Written, Settled

LEMMA EachText ==
  ASSUME ShellInv, TextsKnown, ShellNext
  PROVE  TextsKnown'
<1>1. CASE \E n \in Dirnames : Insert(n) \/ cd(n.base) \/ mkdir(n)
  BY <1>1, InsertText, LooksText, MkdirText
<1>2. CASE StartShell \/ cd_up \/ ls \/ find
  BY <1>2, LooksText
<1>3. CASE \E n \in ReqNames : cat(n) \/ rm(n) \/ cp(n)
  BY <1>3, CatText, RmText, CpText
<1>4. CASE \E g \in Garbage : mv_folder(g) \/ \E n \in ReqNames \ {EmptyName} : mv(n, g)
  BY <1>4, MvFolderText, MvText
<1>5. CASE \/ cp_delete \/ cp_write \/ cp_returns
           \/ mv_delete \/ mv_write \/ mv_returns \/ mv_again \/ mv_source
  BY <1>5, DestinationText, WritesText, ReturnsText, SourceText
<1>6. CASE CallGoesOn
  BY <1>6, CallText
<1> QED
  BY <1>1, <1>2, <1>3, <1>4, <1>5, <1>6 DEF ShellNext

LEMMA TextsRest ==
  ASSUME TextsKnown, UNCHANGED shellVars
  PROVE  TextsKnown'
<1>1. UNCHANGED <<signed, diskFat, dirs, data, fat, op, ret,
                  running, current_directory, dir_table, job, overlooked>>
  BY DEF shellVars, vars, shell
<1>2. (Known' <=> Known) /\ CreatedRows' = CreatedRows /\ Files' = Files
  BY <1>1 DEF Known, Defined, Stuck, CreatedRows, Files, IsFile, InFlight, At
<1>3. FilesWhole => FilesWhole'
  BY <1>1, <1>2 DEF FilesWhole, Whole, Target, At
<1>4. JobText => JobText'
  BY <1>1, <1>2
  DEF JobText, Copying, SourceSafe, Written, Settled, Delivered, Filled, Refused, Holder,
      Idle, At, Target
<1> QED
  BY <1>2, <1>3, <1>4 DEF TextsKnown

\* Through every sequence of commands each file that no write is filling holds
\* the parts of one text in order, and a cp or mv under way knows where the
\* text is that it has read or written.
THEOREM TextsInvariance == PlainTexts /\ ShellSpec => [](ShellInv /\ TextsKnown)
<1>1. ShellInit => TextsKnown
  BY TextsStart
<1>2. ShellInv /\ TextsKnown /\ [ShellNext]_shellVars => TextsKnown'
  BY EachText, TextsRest
<1>3. PlainTexts /\ ShellSpec => []ShellInv
  BY ShellInvariance
<1> QED
  BY <1>1, <1>2, <1>3, PTL DEF ShellSpec

-----------------------------------------------------------------------------
(* What follows *)

LEMMA HolderHasText ==
  ASSUME NEW d, NEW n, NEW b, Holder(d, n, b)
  PROVE  HasText(d, n, b)
<1>1. PICK x \in Files : /\ x[1] = d /\ At(x).name = n
                         /\ Contents(diskFat, data, Target(x)) = Text(b, 1)
  BY DEF Holder
<1>2. x[2] \in ScanRows /\ At(x) = dirs[d][x[2]] /\ Target(x) = dirs[d][x[2]].cl
      /\ At(x).used /\ At(x).attr # ATTR_SUBDIRECTORY
  BY <1>1 DEF Files, CreatedRows, At, Target, IsFile, Created
<1>3. Text(b, 1) = << <<b, 0>> >>
  BY DEF Text
<1> QED
  BY <1>1, <1>2, <1>3 DEF HasText

\* When the write of cp returns 0, the copy and the source both hold the text
\* that was read: the delete of the destination between the read and the write
\* takes nothing else, and the disk writes of both calls keep every other file.
THEOREM CopyIsComplete == PlainTexts /\ ShellSpec => []CopyComplete
<1>1. ASSUME ShellInv, TextsKnown PROVE CopyComplete
  <2> SUFFICES ASSUME Idle, job.pc = "cp_wrote", ret.code = 0
               PROVE  /\ HasText(current_directory, job.dst, job.text)
                      /\ HasText(job.from, job.src, job.text)
    BY DEF CopyComplete, Job
  <2>1. JobText
    BY <1>1, JobBefore
  <2>2. Holder(current_directory, job.dst, job.text)
    BY <2>1 DEF JobText, Written, Delivered, Filled, Refused, Idle
  <2>3. job.from = current_directory
        /\ (job.src = job.dst \/ Holder(job.from, job.src, job.text))
    BY <2>1 DEF JobText, Copying, SourceSafe
  <2> QED
    BY <2>2, <2>3, HolderHasText
<1> QED
  BY <1>1, TextsInvariance, PTL

\* mv, when it sees what its calls return, deletes its source only after the
\* text is in a file of its own, unless it was told to write the source over.
THEOREM MoveLosesNothing == PlainTexts /\ ShellSpec => []MoveKeepsText
<1>1. ASSUME ShellInv, TextsKnown PROVE MoveKeepsText
  <2> SUFFICES ASSUME Idle, job.pc = "mv_source", job.garbage = "zero"
               PROVE  HasText(current_directory, job.dst, job.text)
    BY DEF MoveKeepsText, Job
  <2>1. JobText
    BY <1>1, JobBefore
  <2>2. Holder(current_directory, job.dst, job.text)
    BY <2>1 DEF JobText, Settled, Delivered
  <2> QED
    BY <2>2, HolderHasText
<1> QED
  BY <1>1, TextsInvariance, PTL

=============================================================================
