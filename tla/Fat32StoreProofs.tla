------------------------- MODULE Fat32StoreProofs -------------------------
(***************************************************************************)
(* The FAT32 driver implements FileStore, for every size of the disk, of   *)
(* its tables and of the files, with power lost after any disk write: from *)
(* the invariants of Fat32Proofs and Fat32ContentsProofs and from what the *)
(* tables hold besides.                                                    *)
(***************************************************************************)
EXTENDS Fat32ContentsProofs, Fat32Store

-----------------------------------------------------------------------------
(* The inductive invariant *)

\* The table t of cluster d.  The last row never has a name; a row in use has
\* one that callers pass or is the one that write marks; names differ; what
\* has such a name is a file or a folder; and a table in use is a folder.
LastRow == DIR_ROWS - 1
Tidy(t, d) ==
  /\ t[LastRow].name \notin ReqNames
  /\ \A r \in ScanRows : t[r].used => t[r].name \in ReqNames \/ r = d
  /\ \A r \in ScanRows : t[r].name \in ReqNames =>
       t[r].attr = 0 \/ (t[r].attr = ATTR_SUBDIRECTORY /\ t[r].size = 0)
  /\ \A r, q \in ScanRows : t[r].name \in ReqNames /\ t[r].name = t[q].name => r = q
  /\ Holds(t) => IsFolder(t)

\* What a call that began has found, and the entry it has put.
NameFree ==
  /\ IsFolder(dirs[op.parent]) /\ op.entry.name \in ReqNames
  /\ ~Duplicate(dirs[op.parent], op.entry.name)
CallStored ==
  /\ op.pc = "mk_parent" => NameFree /\ op.entry = DirEntry(op.entry.name, op.cl)
  /\ op.pc = "wf_parent" => NameFree /\ op.entry.attr = 0
  /\ op.pc = "mk_table" =>
       /\ op.row \in ScanRows /\ op.entry.name \in ReqNames
       /\ op.entry.attr = ATTR_SUBDIRECTORY
       /\ dirs[op.parent][op.row] = DirEntry(op.entry.name, op.cl)
  /\ op.pc = "wf_data" => op.row \in ScanRows /\ op.entry.name \in ReqNames
  /\ op.pc = "df_fat" => op.cl \in DataClusters /\ diskFat[op.cl] # EMPTY

TablesTidy == \A d \in Clusters : Tidy(dirs[d], d)
Unanswered == op.pc # "idle" => ret = Code(0)
SInv == CInv /\ Unanswered /\ TablesTidy /\ (Defined => CallStored)

-----------------------------------------------------------------------------
(* What a disk write of a table keeps *)

LEMMA LastRowNumber == LastRow \in ScanRows /\ LastRow \notin WriteRows /\ LastRow # 0
  BY RowNumbers DEF LastRow

LEMMA TidyZero ==
  ASSUME PlainFiles, NEW d
  PROVE  /\ Tidy(ZeroTable, d)
         /\ d = ROOT => Tidy([ZeroTable EXCEPT ![0] = DirEntry(RootName, ROOT)], d)
<1>1. \A r \in Rows : ZeroTable[r] = ZeroEntry
  BY DEF ZeroTable
<1>2. ZeroEntry.name \notin ReqNames /\ ~ZeroEntry.used
  BY DEF PlainFiles, ZeroEntry
<1>3. Tidy(ZeroTable, d)
  BY <1>1, <1>2, RowNumbers, LastRowNumber DEF Tidy, Holds
<1> DEFINE T == [ZeroTable EXCEPT ![0] = DirEntry(RootName, ROOT)]
<1>4. T[0] = DirEntry(RootName, ROOT) /\ \A r \in ScanRows : T[r] = ZeroEntry
  BY <1>1, RowNumbers DEF ZeroTable
<1>5. IsFolder(T)
  BY <1>4 DEF IsFolder, DirEntry
<1> HIDE DEF T
<1>6. Tidy(T, d)
  BY <1>2, <1>4, <1>5, LastRowNumber DEF Tidy
<1> QED BY <1>3, <1>6 DEF T

LEMMA TidyImage ==
  ASSUME PlainFiles, NEW b \in Bufs, NEW d
  PROVE  Tidy(Image[b], d)
<1>1. \A r \in Rows : ~Image[b][r].used /\ Image[b][r].name \notin ReqNames
  BY DEF PlainFiles
<1> QED BY <1>1, RowNumbers, LastRowNumber DEF Tidy, Holds

\* A cleared row has no name; row 0 is cleared in a folder without entries.
LEMMA TidyCleared ==
  ASSUME PlainFiles, NEW d, NEW t \in Table, Tidy(t, d), NEW r \in Rows, r # 0 \/ ~Occupied(t)
  PROVE  Tidy(ClearRow(t, r), d)
<1> DEFINE T == ClearRow(t, r)
<1>1. T[r].name = EmptyName /\ ~T[r].used /\ \A q \in Rows \ {r} : T[q] = t[q]
  BY DEF ClearRow, Table, Entry
<1>2. EmptyName \notin ReqNames
  BY DEF PlainFiles
<1> HIDE DEF T
<1>3. \A q \in ScanRows : T[q].name \in ReqNames \/ T[q].used => T[q] = t[q]
  BY <1>1, <1>2, RowNumbers
<1>4. T[LastRow].name \notin ReqNames
  BY <1>3, LastRowNumber DEF Tidy
<1>5. ASSUME Holds(T) PROVE IsFolder(T)
  <2>1. PICK q \in Rows : T[q].used
    BY <1>5 DEF Holds
  <2>2. t[q].used /\ q # r
    BY <2>1, <1>1
  <2>3. IsFolder(t)
    BY <2>2 DEF Holds, Tidy
  <2>4. r # 0
    BY <2>2, RowNumbers DEF Occupied
  <2> QED BY <2>3, <2>4, <1>1, RowNumbers DEF IsFolder
<1> QED BY <1>3, <1>4, <1>5 DEF Tidy, T

\* The row of the new folder's own table.
LEMMA TidyOwn ==
  ASSUME NEW d, NEW t \in Table, Tidy(t, d), NEW e, e.used, e.attr = ATTR_SUBDIRECTORY
  PROVE  Tidy([t EXCEPT ![0] = e], d)
<1> DEFINE T == [t EXCEPT ![0] = e]
<1>1. T[0] = e /\ \A q \in ScanRows : T[q] = t[q]
  BY RowNumbers DEF Table
<1> HIDE DEF T
<1>2. IsFolder(T)
  BY <1>1 DEF IsFolder
<1> QED BY <1>1, <1>2, LastRowNumber DEF Tidy, T

\* Where there is room, the row write takes is neither the folder's own nor in
\* use.
LEMMA RowTaken ==
  ASSUME NEW t, \E r \in WriteRows \ {0} : ~t[r].used
  PROVE  EntryRow(t) \in ScanRows /\ EntryRow(t) \in WriteRows /\ ~t[EntryRow(t)].used
<1> DEFINE S == {r \in WriteRows : ~t[r].used}
<1>1. PICK r \in S : r # 0
  OBVIOUS
<1>2. S \in SUBSET (0 .. DIR_ROWS - 2) /\ DIR_ROWS - 2 \in Nat /\ S # {}
  BY <1>1, RowNumbers
<1>3. Max(S) \in S /\ \A x \in S : x <= Max(S)
  BY <1>2, MaxProperty
<1>4. EntryRow(t) = Max(S)
  BY <1>1 DEF EntryRow
<1> QED BY <1>1, <1>3, <1>4, RowNumbers

\* The write of the parent's table with the new entry.
LEMMA TidyEntry ==
  ASSUME PlainFiles, NEW d \in Clusters, NEW t \in Table, Tidy(t, d), IsFolder(t),
         NEW q \in ScanRows, q \in WriteRows, NEW e \in Entry, e.used, e.name \in ReqNames,
         e.attr = 0 \/ (e.attr = ATTR_SUBDIRECTORY /\ e.size = 0), ~Duplicate(t, e.name)
  PROVE  Tidy([MarkRow(t, d) EXCEPT ![q] = e], d)
<1> DEFINE M == MarkRow(t, d)
           T == [M EXCEPT ![q] = e]
<1>1. M \in Table
  BY MarkRowTable
<1>2. /\ \A r \in Rows : M[r].name = t[r].name /\ M[r].attr = t[r].attr /\ M[r].size = t[r].size
      /\ \A r \in Rows : M[r].used => t[r].used \/ r = d
      /\ \A r \in Rows : t[r].used => M[r].used
  BY DEF MarkRow, Table, Entry
<1> HIDE DEF M
<1>3. T[q] = e /\ \A r \in Rows \ {q} : T[r] = M[r]
  BY <1>1, RowNumbers DEF Table
<1> HIDE DEF T
<1>4. IsFolder(T)
  BY <1>2, <1>3, RowNumbers DEF IsFolder
<1>5. T[LastRow].name \notin ReqNames
  BY <1>2, <1>3, LastRowNumber, RowNumbers DEF Tidy
<1>6. \A r \in ScanRows : T[r].used => T[r].name \in ReqNames \/ r = d
  BY <1>2, <1>3, RowNumbers DEF Tidy
<1>7. \A r \in ScanRows : T[r].name \in ReqNames =>
        T[r].attr = 0 \/ (T[r].attr = ATTR_SUBDIRECTORY /\ T[r].size = 0)
  BY <1>2, <1>3, RowNumbers DEF Tidy
<1>8. \A r \in ScanRows : r # q => T[r].name # e.name
  <2> SUFFICES ASSUME NEW r \in ScanRows, r # q, T[r].name = e.name PROVE FALSE
    OBVIOUS
  <2>1. t[r].name = e.name
    BY <1>2, <1>3, RowNumbers
  <2>2. r \notin WriteRows
    BY <2>1 DEF Duplicate
  <2>3. r = LastRow
    BY <2>2, RowNumbers DEF LastRow
  <2> QED BY <2>1, <2>3 DEF Tidy
<1>9. \A r, s \in ScanRows : T[r].name \in ReqNames /\ T[r].name = T[s].name => r = s
  <2> SUFFICES ASSUME NEW r \in ScanRows, NEW s \in ScanRows, T[r].name \in ReqNames,
                      T[r].name = T[s].name, r # s
               PROVE  FALSE
    OBVIOUS
  <2>1. r # q /\ s # q
    BY <1>3, <1>8
  <2>2. T[r].name = t[r].name /\ T[s].name = t[s].name
    BY <2>1, <1>2, <1>3, RowNumbers
  <2> QED BY <2>2 DEF Tidy
<1> QED BY <1>4, <1>5, <1>6, <1>7, <1>9 DEF Tidy, T, M

-----------------------------------------------------------------------------
(* The invariant is kept *)

\* A step that leaves the tables alone but one.
LEMMA OneTable ==
  ASSUME TablesTidy, NEW c \in Clusters, NEW T, dirs \in [Clusters -> Table], Tidy(T, c),
         dirs' = [dirs EXCEPT ![c] = T]
  PROVE  TablesTidy'
<1>1. \A d \in Clusters : dirs'[d] = IF d = c THEN T ELSE dirs[d]
  OBVIOUS
<1>2. SUFFICES ASSUME NEW d \in Clusters PROVE Tidy(dirs'[d], d)
  BY DEF TablesTidy
<1>3. CASE d = c
  BY <1>1, <1>3
<1>4. CASE d # c
  <2>1. dirs'[d] = dirs[d]
    BY <1>1, <1>4
  <2>2. Tidy(dirs[d], d)
    BY DEF TablesTidy
  <2> QED BY <2>1, <2>2
<1> QED BY <1>3, <1>4

\* Calls that leave nothing to be known of the step to come.
NoClaims == {"off", "fmt_fat", "fmt_root", "idle", "wild", "dd_table", "dd_fat"}
LEMMA NoneClaimed ==
  ASSUME op'.pc \in NoClaims PROVE CallStored'
BY DEF CallStored, NoClaims

\* What holds before every step.
LEMMA SFacts ==
  ASSUME SInv, Defined
  PROVE  /\ PlainFiles /\ DiskInv /\ CountInv /\ IInv /\ Known /\ TablesTidy /\ CallStored
         /\ dirs \in [Clusters -> Table] /\ op \in Calls
         /\ \A d \in Clusters : Tidy(dirs[d], d) /\ dirs[d] \in Table
         /\ Sound(diskFat, dirs) /\ CallSound /\ Links(diskFat) /\ diskFat \in Fat
<1>1. PlainFiles /\ DiskInv /\ CountInv /\ IInv /\ Known /\ TablesTidy /\ CallStored
  BY DEF SInv, CInv, IInv, Known
<1>2. TypeOK /\ Sound(diskFat, dirs) /\ CallSound /\ Links(diskFat)
  BY <1>1 DEF DiskInv, Known
<1>3. dirs \in [Clusters -> Table] /\ op \in Calls /\ diskFat \in Fat
  BY <1>2 DEF TypeOK, Calls, Fat
<1> QED BY <1>1, <1>2, <1>3 DEF TablesTidy

\* A step that changes no table and leaves no claim.
LEMMA QuietStored ==
  ASSUME SInv, Defined, dirs' = dirs, op'.pc \in NoClaims
  PROVE  TablesTidy' /\ CallStored'
BY SFacts, NoneClaimed DEF TablesTidy

LEMMA PowerStored ==
  ASSUME SInv, Defined, BootSigned \/ BootEmpty \/ FormatFat \/ PowerLoss
  PROVE  TablesTidy' /\ CallStored' /\ Unanswered'
<1>1. dirs' = dirs /\ op'.pc \in NoClaims
  BY StepPc DEF BootSigned, BootEmpty, FormatFat, PowerLoss, NoClaims
<1>2. Unanswered'
  BY StepPc DEF SInv, Unanswered, BootSigned, BootEmpty, FormatFat, PowerLoss
<1> QED BY <1>1, <1>2, QuietStored

LEMMA FormatRootStored ==
  ASSUME SInv, FormatRoot
  PROVE  TablesTidy' /\ CallStored' /\ Unanswered'
<1>1. Defined
  BY DEF FormatRoot, Defined
<1> DEFINE T == [ZeroTable EXCEPT ![0] = DirEntry(RootName, ROOT)]
<1>2. Tidy(T, ROOT) /\ ROOT \in Clusters
  BY <1>1, SFacts, TidyZero, Numbers
<1>3. dirs' = [dirs EXCEPT ![ROOT] = T]
  BY DEF FormatRoot
<1> HIDE DEF T
<1>4. TablesTidy'
  BY <1>1, <1>2, <1>3, SFacts, OneTable
<1>5. op' = Step("idle")
  BY DEF FormatRoot
<1> QED BY <1>4, <1>5, StepPc, NoneClaimed DEF NoClaims, Unanswered

\* Calls that leave the disk's tables as they are and return, or are lost.
LEMMA ReturnStored ==
  ASSUME SInv, NEW p, NEW n,
         \/ ReadDirectory(p, n) \/ Read(p, n) \/ WriteRefused(p, n) \/ DeleteRefused(p, n)
         \/ \E size : WriteWild(p, n, size) \/ WriteNoSpace(p, n, size)
  PROVE  TablesTidy' /\ CallStored' /\ Unanswered'
<1>1. Idle /\ dirs' = dirs
  BY DEF ReadDirectory, Read, ReadFails, ReadCopies, WriteRefused, DeleteRefused, WriteWild,
         WriteNoSpace, Reply, Writable
<1>2. (op' = Step("idle")) \/ (op' = Step("wild") /\ ret' = Code(0))
  BY DEF ReadDirectory, Read, ReadFails, ReadCopies, WriteRefused, DeleteRefused, WriteWild,
         WriteNoSpace, Reply, Return
<1>3. Defined
  BY <1>1 DEF Idle, Defined
<1>4. op'.pc \in NoClaims /\ Unanswered'
  BY <1>2, StepPc DEF NoClaims, Unanswered
<1> QED BY <1>1, <1>3, <1>4, QuietStored

LEMMA ReleaseStored ==
  ASSUME SInv, DeleteFileFat \/ DeleteFolderFat
  PROVE  TablesTidy' /\ CallStored' /\ Unanswered'
<1>1. Defined /\ dirs' = dirs
  BY DEF DeleteFileFat, DeleteFolderFat, Defined
<1>2. (op' = Step("idle")) \/ (op' = Step("wild") /\ op.pc = "df_fat" /\ ret' = ret)
  BY DEF DeleteFileFat, DeleteFolderFat, Return
<1>3. op'.pc \in NoClaims /\ Unanswered'
  BY <1>2, StepPc DEF NoClaims, Unanswered, SInv
<1> QED BY <1>1, <1>3, QuietStored

LEMMA BeginStored ==
  ASSUME SInv, NEW p \in ReqParents, NEW n \in ReqNames,
         WriteFolder(p, n) \/ \E size, b : WriteFile(p, n, size, b)
  PROVE  TablesTidy' /\ CallStored' /\ Unanswered'
<1>1. Defined /\ Idle /\ dirs' = dirs /\ Writable(p, n) /\ ret' = Code(0)
  BY DEF WriteFolder, WriteFile, Writable, Idle, Defined
<1>2. TablesTidy'
  BY <1>1, SFacts DEF TablesTidy
<1>3. CASE WriteFolder(p, n)
  <2> DEFINE new == Min(Free(diskFat))
  <2>1. /\ op'.pc = "mk_parent" /\ op'.parent = p /\ op'.entry = DirEntry(n, new)
        /\ op'.cl = new
    BY <1>3 DEF WriteFolder, Step
  <2> HIDE DEF new
  <2>2. CallStored'
    BY <1>1, <2>1 DEF CallStored, NameFree, Writable, DirEntry
  <2> QED BY <1>1, <1>2, <2>2 DEF Unanswered
<1>4. CASE \E size, b : WriteFile(p, n, size, b)
  <2>1. PICK size, b : WriteFile(p, n, size, b)
    BY <1>4
  <2> DEFINE new == Min(FirstFree(diskFat, divceil(size, CLUSTER_SIZE)))
  <2>2. op'.pc = "wf_parent" /\ op'.parent = p /\ op'.entry = FileEntry(n, new, size)
    BY <2>1 DEF WriteFile, Step
  <2> HIDE DEF new
  <2>3. CallStored'
    BY <1>1, <2>2 DEF CallStored, NameFree, Writable, FileEntry
  <2> QED BY <1>1, <1>2, <2>3 DEF Unanswered
<1> QED BY <1>3, <1>4

\* The table that the entry of the call in flight goes into.
LEMMA ParentTable ==
  ASSUME SInv, HasRoom, op.pc \in {"mk_parent", "wf_parent"}
  PROVE  LET t == dirs[op.parent] IN
         /\ Defined /\ op.parent \in Clusters /\ t \in Table /\ IsFolder(t)
         /\ op.row = EntryRow(t) /\ op.row \in ScanRows /\ op.row \in WriteRows
         /\ op.table = MarkRow(t, op.parent) /\ op.table \in Table
         /\ op.entry \in Entry /\ op.entry.used /\ op.entry.name \in ReqNames
         /\ op.entry.attr = 0 \/ (op.entry.attr = ATTR_SUBDIRECTORY /\ op.entry.size = 0)
         /\ ~t[op.row].used /\ Tidy([op.table EXCEPT ![op.row] = op.entry], op.parent)
<1> DEFINE t == dirs[op.parent]
<1>1. Defined
  BY DEF Defined
<1>2. op.parent \in Clusters /\ op.entry \in Entry /\ op.table \in Table
  BY <1>1, SFacts DEF Calls
<1>3. t \in Table /\ Tidy(t, op.parent)
  BY <1>1, <1>2, SFacts
<1>4. WritesParent
  BY <1>1, SFacts DEF CallSound
<1>5. /\ IsFolder(t) /\ op.entry.name \in ReqNames /\ ~Duplicate(t, op.entry.name)
      /\ op.entry.attr = 0 \/ (op.entry.attr = ATTR_SUBDIRECTORY /\ op.entry.size = 0)
  BY <1>1, SFacts DEF CallStored, NameFree, DirEntry
<1>6. op.row = EntryRow(t) /\ op.table = MarkRow(t, op.parent) /\ op.entry.used
  BY <1>4 DEF WritesParent
<1>7. op.row \in ScanRows /\ op.row \in WriteRows /\ ~t[op.row].used
  BY <1>2, <1>5, <1>6, RowTaken DEF HasRoom
<1>8. Tidy([op.table EXCEPT ![op.row] = op.entry], op.parent)
  BY <1>1, <1>2, <1>3, <1>5, <1>6, <1>7, SFacts, TidyEntry
<1> QED BY <1>1, <1>2, <1>3, <1>5, <1>6, <1>7, <1>8

LEMMA ParentStored ==
  ASSUME SInv, HasRoom, FolderParent \/ FileParent
  PROVE  TablesTidy' /\ CallStored' /\ Unanswered'
<1> DEFINE T == [op.table EXCEPT ![op.row] = op.entry]
<1>1. op.pc \in {"mk_parent", "wf_parent"} /\ dirs' = [dirs EXCEPT ![op.parent] = T]
  BY DEF FolderParent, FileParent
<1>2. /\ Defined /\ op.parent \in Clusters /\ op.row \in ScanRows /\ Tidy(T, op.parent)
      /\ op.entry.name \in ReqNames /\ op.table \in Table
  BY <1>1, ParentTable
<1>3. dirs'[op.parent] = T /\ T[op.row] = op.entry
  BY <1>1, <1>2, SFacts, RowNumbers DEF Table
<1> HIDE DEF T
<1>4. TablesTidy'
  BY <1>1, <1>2, SFacts, OneTable
<1>5. op \in Calls /\ CallStored
  BY <1>2, SFacts
<1>6. CASE FolderParent
  <2>1. op' = [op EXCEPT !.pc = "mk_table", !.table = dirs'[op.cl], !.entry.cl = op.parent]
    BY <1>6 DEF FolderParent
  <2>2. op.entry = DirEntry(op.entry.name, op.cl) /\ ret = Code(0)
    BY <1>5, <1>6 DEF CallStored, FolderParent, SInv, Unanswered
  <2>3. /\ op'.pc = "mk_table" /\ op'.row = op.row /\ op'.parent = op.parent /\ op'.cl = op.cl
        /\ op'.entry.name = op.entry.name /\ op'.entry.attr = op.entry.attr
    BY <1>5, <2>1 DEF Calls, Entry
  <2>4. op.entry.attr = ATTR_SUBDIRECTORY
    BY <2>2 DEF DirEntry
  <2>5. CallStored'
    BY <1>2, <1>3, <2>2, <2>3, <2>4 DEF CallStored
  <2> QED BY <1>4, <2>2, <2>5, <1>6 DEF Unanswered, FolderParent
<1>7. CASE FileParent
  <2>1. op' = [op EXCEPT !.pc = "wf_data"]
    BY <1>7 DEF FileParent
  <2>2. ret = Code(0) /\ ret' = ret
    BY <1>7 DEF FileParent, SInv, Unanswered
  <2>3. op'.pc = "wf_data" /\ op'.row = op.row /\ op'.entry = op.entry
    BY <1>5, <2>1 DEF Calls
  <2>4. CallStored'
    BY <1>2, <2>3 DEF CallStored
  <2> QED BY <1>4, <2>2, <2>4 DEF Unanswered
<1> QED BY <1>6, <1>7

LEMMA FolderTableStored ==
  ASSUME SInv, FolderTable \/ DeleteFolderTable
  PROVE  TablesTidy' /\ CallStored' /\ Unanswered'
<1>1. Defined /\ op.pc \in {"mk_table", "dd_table"}
  BY DEF FolderTable, DeleteFolderTable, Defined
<1>2. TableOfCall /\ op.cl \in Clusters /\ op.table \in Table /\ Tidy(op.table, op.cl)
  <2>1. TableOfCall
    BY <1>1, SFacts DEF CallSound
  <2> QED BY <1>1, <2>1, SFacts, Numbers DEF TableOfCall, Calls
<1>3. CASE FolderTable
  <2> DEFINE T == [op.table EXCEPT ![0] = op.entry]
  <2>1. op.entry.used /\ op.entry.attr = ATTR_SUBDIRECTORY
    BY <1>1, <1>3, SFacts DEF CallSound, CallStored, FolderTable
  <2>2. Tidy(T, op.cl) /\ dirs' = [dirs EXCEPT ![op.cl] = T]
    BY <1>2, <1>3, <2>1, TidyOwn DEF FolderTable
  <2> HIDE DEF T
  <2>3. TablesTidy'
    BY <1>1, <1>2, <2>2, SFacts, OneTable
  <2>4. op' = Step("idle")
    BY <1>3 DEF FolderTable, Return
  <2> QED BY <2>3, <2>4, StepPc, NoneClaimed DEF NoClaims, Unanswered
<1>4. CASE DeleteFolderTable
  <2> DEFINE T == ClearRow(op.table, 0)
  <2>1. ~Occupied(op.table)
    BY <1>1, <1>4, SFacts DEF CallSound, DeleteFolderTable
  <2>2. Tidy(T, op.cl) /\ dirs' = [dirs EXCEPT ![op.cl] = T]
    BY <1>1, <1>2, <1>4, <2>1, SFacts, RowNumbers, TidyCleared DEF DeleteFolderTable
  <2> HIDE DEF T
  <2>3. TablesTidy'
    BY <1>1, <1>2, <2>2, SFacts, OneTable
  <2>4. op'.pc = "dd_fat" /\ ret' = ret /\ op.pc = "dd_table"
    BY <1>4 DEF DeleteFolderTable, Step
  <2> QED BY <2>3, <2>4, NoneClaimed DEF NoClaims, Unanswered, SInv
<1> QED BY <1>3, <1>4

LEMMA FileDataStored ==
  ASSUME SInv, FileData
  PROVE  TablesTidy' /\ CallStored' /\ Unanswered'
<1>1. Defined /\ op.pc = "wf_data" /\ dirs' = [dirs EXCEPT ![op.cl] = Image[op.buf]]
  BY DEF FileData, Defined
<1>2. op.cl \in Clusters /\ op.buf \in Bufs /\ op \in Calls /\ Tidy(Image[op.buf], op.cl)
  BY <1>1, SFacts, NoTableInFile, TidyImage
<1>3. TablesTidy'
  BY <1>1, <1>2, SFacts, OneTable
<1>4. CASE fat[op.cl] # EOF
  <2>1. op' = [op EXCEPT !.cl = fat[op.cl], !.part = @ + 1] /\ ret' = ret
    BY <1>4 DEF FileData
  <2>2. op'.pc = "wf_data" /\ op'.row = op.row /\ op'.entry = op.entry
    BY <1>1, <1>2, <2>1 DEF Calls
  <2>3. op.row \in ScanRows /\ op.entry.name \in ReqNames /\ ret = Code(0)
    BY <1>1, SFacts DEF CallStored, SInv, Unanswered
  <2> QED BY <1>3, <2>1, <2>2, <2>3 DEF CallStored, Unanswered
<1>5. CASE fat[op.cl] = EOF
  <2>1. op' = Step("idle")
    BY <1>5 DEF FileData, Return
  <2> QED BY <1>3, <2>1, StepPc, NoneClaimed DEF NoClaims, Unanswered
<1> QED BY <1>4, <1>5

\* The row that delete finds.
LEMMA DeleteFinds ==
  ASSUME SInv, Defined, NEW p \in ReqParents, NEW n \in ReqNames, DeleteHits(dirs[p], n) # {},
         NEW r, r = Min(DeleteHits(dirs[p], n))
  PROVE  /\ p \in Clusters /\ r \in ScanRows /\ r \in Rows /\ r # 0
         /\ dirs[p][r].name = n /\ dirs[p][r].used /\ Created(dirs[p][r])
         /\ Owns(diskFat, dirs, dirs[p][r])
<1>1. p \in Clusters /\ n \in Visible
  BY SFacts, Parents, PlainNames
<1>2. r \in ScanRows /\ dirs[p][r].used /\ dirs[p][r].name = n /\ Created(dirs[p][r])
  BY <1>1, HitRow
<1>3. Owns(diskFat, dirs, dirs[p][r])
  BY <1>1, <1>2, SFacts DEF Sound, EntriesOwn
<1> QED BY <1>1, <1>2, <1>3, RowNumbers

LEMMA RemovalStored ==
  ASSUME SInv, NEW p \in ReqParents, NEW n \in ReqNames, DeleteFile(p, n) \/ DeleteFolder(p, n)
  PROVE  TablesTidy' /\ CallStored' /\ Unanswered'
<1> DEFINE r == Min(DeleteHits(dirs[p], n))
<1>1. /\ Defined /\ DeleteHits(dirs[p], n) # {} /\ ret' = Code(0)
      /\ dirs' = [dirs EXCEPT ![p] = ClearRow(dirs[p], r)]
  BY DEF DeleteFile, DeleteFolder, Idle, Defined
<1>2. /\ DeleteFile(p, n) => op' = [Step("df_fat") EXCEPT !.cl = dirs[p][r].cl]
      /\ DeleteFolder(p, n) => op'.pc = "dd_table"
  BY DEF DeleteFile, DeleteFolder, Step
<1> HIDE DEF r
<1>3. /\ p \in Clusters /\ r \in Rows /\ r # 0 /\ Owns(diskFat, dirs, dirs[p][r])
  BY <1>1, DeleteFinds DEF r
<1>4. Tidy(ClearRow(dirs[p], r), p)
  BY <1>1, <1>3, SFacts, TidyCleared
<1>5. TablesTidy'
  BY <1>1, <1>3, <1>4, SFacts, OneTable
<1>6. CASE DeleteFile(p, n)
  <2>1. op'.pc = "df_fat" /\ op'.cl = dirs[p][r].cl /\ diskFat' = diskFat
    BY <1>2, <1>6 DEF Step, DeleteFile
  <2>2. CallStored'
    BY <1>3, <2>1 DEF CallStored, Owns
  <2> QED BY <1>1, <1>5, <2>2 DEF Unanswered
<1>7. CASE DeleteFolder(p, n)
  BY <1>1, <1>2, <1>5, <1>7, NoneClaimed DEF NoClaims, Unanswered
<1> QED BY <1>6, <1>7

LEMMA StepStored == SInv /\ HasRoom /\ [Next]_vars => SInv'
<1> SUFFICES ASSUME SInv, HasRoom, [Next]_vars PROVE SInv'
  OBVIOUS
<1>1. CInv'
  BY StepCounted DEF SInv
<1>2. CASE UNCHANGED vars
  BY <1>1, <1>2 DEF SInv, vars, Unanswered, Defined, TablesTidy, CallStored, NameFree
<1>3. CASE Next /\ ~Defined
  <2>1. UNCHANGED vars
    BY <1>3, WildStays DEF Defined
  <2> QED BY <1>2, <2>1
<1>4. CASE Next /\ Defined
  <2> SUFFICES TablesTidy' /\ CallStored' /\ Unanswered'
    BY <1>1 DEF SInv
  <2>1. ASSUME NEW p \in ReqParents, NEW n \in ReqNames,
               ReadDirectory(p, n) \/ Read(p, n) \/ Write(p, n) \/ Delete(p, n)
        PROVE  TablesTidy' /\ CallStored' /\ Unanswered'
    <3>1. CASE ReadDirectory(p, n) \/ Read(p, n)
      BY <3>1, ReturnStored
    <3>2. CASE Write(p, n)
      <4>1. CASE WriteRefused(p, n)
        BY <4>1, ReturnStored
      <4>2. CASE \E size : WriteWild(p, n, size) \/ WriteNoSpace(p, n, size)
        BY <4>2, ReturnStored
      <4>3. CASE WriteFolder(p, n) \/ \E size, b : WriteFile(p, n, size, b)
        BY <4>3, BeginStored
      <4> QED BY <3>2, <4>1, <4>2, <4>3 DEF Write
    <3>3. CASE Delete(p, n)
      BY <3>3, ReturnStored, RemovalStored DEF Delete
    <3> QED BY <2>1, <3>1, <3>2, <3>3
  <2>2. CASE BootSigned \/ BootEmpty \/ FormatFat \/ PowerLoss
    BY <1>4, <2>2, PowerStored
  <2>3. CASE FormatRoot
    BY <2>3, FormatRootStored
  <2>4. CASE FolderParent \/ FileParent
    BY <2>4, ParentStored
  <2>5. CASE FolderTable \/ DeleteFolderTable
    BY <2>5, FolderTableStored
  <2>6. CASE FileData
    BY <2>6, FileDataStored
  <2>7. CASE DeleteFileFat \/ DeleteFolderFat
    BY <2>7, ReleaseStored
  <2>8. CASE Undefined
    BY <1>4, <2>8 DEF Undefined, Defined
  <2> QED
    BY <1>4, <2>1, <2>2, <2>3, <2>4, <2>5, <2>6, <2>7, <2>8 DEF Next
<1> QED BY <1>2, <1>3, <1>4

LEMMA InitStored == PlainFiles /\ Init => Unanswered /\ TablesTidy /\ CallStored
<1> SUFFICES ASSUME PlainFiles, Init PROVE Unanswered /\ TablesTidy /\ CallStored
  OBVIOUS
<1>1. op.pc = "off" /\ ret = Code(0) /\ \A d \in Clusters : dirs[d] = ZeroTable
  BY StepPc DEF Init
<1> QED BY <1>1, TidyZero DEF Unanswered, TablesTidy, CallStored

\* The invariant of the driver where no folder is full.
THEOREM StoredInvariance == PlainFiles /\ Spec /\ []HasRoom => []SInv
<1>1. PlainFiles /\ Spec => []CInv
  BY CountedInvariance
<1>2. PlainFiles /\ Init /\ CInv => SInv
  BY InitStored DEF SInv
<1> QED BY <1>1, <1>2, StepStored, PTL DEF Spec


-----------------------------------------------------------------------------
(* What a step does to the files, folders and tables of the store *)

\* The rows with a name that callers pass are the entries.
NamedRows == {x \in Clusters \X ScanRows : dirs[x[1]][x[2]].name \in ReqNames}

LEMMA EntriesNamed == SInv /\ Defined => Entries = NamedRows
<1> SUFFICES ASSUME SInv, Defined PROVE Entries = NamedRows
  OBVIOUS
<1>1. ReqNames \subseteq Visible /\ EmptyName \notin ReqNames /\ NamesUsed(dirs)
  BY SFacts, PlainNames DEF PlainFiles, Sound
<1>2. ASSUME NEW x \in Clusters \X ScanRows
      PROVE  Named(x[1], x[2]) <=> dirs[x[1]][x[2]].name \in ReqNames
  <2>1. x[1] \in Clusters /\ x[2] \in Rows
    BY RowNumbers
  <2> QED BY <1>1, <2>1 DEF Named, NamesUsed
<1> QED BY <1>2 DEF Entries, NamedRows

LEMMA EntriesNamedAfter == SInv' /\ Defined' => Entries' = NamedRows'
<1> SUFFICES ASSUME SInv', Defined' PROVE Entries' = NamedRows'
  OBVIOUS
<1>0. Sound(diskFat', dirs') /\ PlainFiles
  BY DEF SInv, CInv, IInv, DiskInv, Known
<1>1. ReqNames \subseteq Visible /\ EmptyName \notin ReqNames /\ NamesUsed(dirs')
  BY <1>0, PlainNames DEF PlainFiles, Sound
<1>2. ASSUME NEW x \in Clusters \X ScanRows
      PROVE  Named(x[1], x[2])' <=> dirs'[x[1]][x[2]].name \in ReqNames
  <2>1. x[1] \in Clusters /\ x[2] \in Rows
    BY RowNumbers
  <2> QED BY <1>1, <2>1 DEF Named, NamesUsed
<1> QED BY <1>2 DEF Entries, NamedRows

\* An entry that a step leaves in its row stands for the same file or folder.
LEMMA EntrySame ==
  ASSUME SInv, Defined, Next, NEW x \in Complete, At(x)' = At(x)
  PROVE  /\ FolderOf(x)' = FolderOf(x)
         /\ At(x).attr # ATTR_SUBDIRECTORY => FileOf(x)' = FileOf(x)
<1>1. Target(x)' = Target(x)
  BY DEF Target
<1>2. ASSUME IsFile(x)
      PROVE  Contents(diskFat', data', Target(x)) = Contents(diskFat, data, Target(x))
  <2>1. x \in Entries /\ ~InFlight(x) /\ CInv /\ DiskInv /\ Known /\ x \in CreatedRows
    BY SFacts, EntriesCreated DEF Complete, BeingMade, InFlight, SInv
  <2>2. CASE diskFat' = diskFat /\ data' = data
    BY <2>2
  <2>3. CASE Alike(Target(x))
    <3>1. /\ diskFat \in Fat /\ Links(diskFat)
          /\ Target(x) \in DataClusters /\ diskFat[Target(x)] # EMPTY
      BY <1>2, <2>1, FileChain
    <3> QED BY <2>3, <3>1, ContentsKept DEF Alike
  <2> QED BY <1>2, <2>1, <2>2, <2>3, FilesAlike
<1>3. FolderOf(x)' = FolderOf(x)
  BY <1>1 DEF FolderOf
<1>4. ASSUME IsFile(x) PROVE FileOf(x)' = FileOf(x)
  BY <1>1, <1>2, <1>4 DEF FileOf
<1> QED BY <1>3, <1>4 DEF IsFile

\* The entries that are complete stay.
LEMMA StoreSame ==
  ASSUME SInv, Defined, Next, Complete' = Complete, \A x \in Complete : At(x)' = At(x)
  PROVE  StoreFiles' = StoreFiles /\ StoreFolders' = StoreFolders
<1>1. \A x \in Complete :
        /\ At(x)' = At(x) /\ FolderOf(x)' = FolderOf(x)
        /\ At(x).attr # ATTR_SUBDIRECTORY => FileOf(x)' = FileOf(x)
  BY EntrySame
<1> QED BY <1>1 DEF StoreFiles, StoreFolders

\* One more is complete.
LEMMA StoreGrows ==
  ASSUME SInv, Defined, Next, NEW y, Complete' = Complete \union {y},
         \A x \in Complete : At(x)' = At(x), NEW e, At(y)' = e
  PROVE  /\ StoreFiles' = StoreFiles \union (IF e.attr # ATTR_SUBDIRECTORY THEN {FileOf(y)'} ELSE {})
         /\ StoreFolders' = StoreFolders \union (IF e.attr = ATTR_SUBDIRECTORY THEN {FolderOf(y)'} ELSE {})
<1>1. \A x \in Complete :
        /\ At(x)' = At(x) /\ FolderOf(x)' = FolderOf(x)
        /\ At(x).attr # ATTR_SUBDIRECTORY => FileOf(x)' = FileOf(x)
  BY EntrySame
<1> QED BY <1>1 DEF StoreFiles, StoreFolders

\* One less is.
LEMMA StoreShrinks ==
  ASSUME SInv, Defined, Next, NEW y, y \in Complete, Complete' = Complete \ {y},
         \A x \in Complete \ {y} : At(x)' = At(x)
  PROVE  /\ StoreFiles' = {f \in StoreFiles : ~(f.dir = y[1] /\ f.name = At(y).name)}
         /\ StoreFolders' = {g \in StoreFolders : ~(g.dir = y[1] /\ g.name = At(y).name)}
<1>1. \A x \in Complete \ {y} :
        /\ At(x)' = At(x) /\ FolderOf(x)' = FolderOf(x)
        /\ At(x).attr # ATTR_SUBDIRECTORY => FileOf(x)' = FileOf(x)
  BY EntrySame
<1>2. \A x \in Complete :
        /\ FileOf(x).dir = x[1] /\ FileOf(x).name = At(x).name
        /\ FolderOf(x).dir = x[1] /\ FolderOf(x).name = At(x).name
  BY DEF FileOf, FolderOf
<1>3. ASSUME NEW x \in Complete, x[1] = y[1], At(x).name = At(y).name PROVE x = y
  <2>1. x \in NamedRows /\ y \in NamedRows
    BY EntriesNamed DEF Complete
  <2>2. /\ x \in Clusters \X ScanRows /\ y \in Clusters \X ScanRows
        /\ dirs[x[1]][x[2]].name \in ReqNames
    BY <2>1 DEF NamedRows
  <2>3. Tidy(dirs[x[1]], x[1])
    BY <2>2, SFacts
  <2>4. x[2] = y[2]
    BY <1>3, <2>2, <2>3 DEF Tidy, At
  <2> QED BY <1>3, <2>2, <2>4
<1>4. StoreFiles' = {f \in StoreFiles : ~(f.dir = y[1] /\ f.name = At(y).name)}
  BY <1>1, <1>2, <1>3 DEF StoreFiles
<1>5. StoreFolders' = {g \in StoreFolders : ~(g.dir = y[1] /\ g.name = At(y).name)}
  BY <1>1, <1>2, <1>3 DEF StoreFolders
<1> QED BY <1>4, <1>5

LEMMA TablesSame ==
  ASSUME \A d \in Clusters : /\ IsFolder(dirs'[d]) <=> IsFolder(dirs[d])
                             /\ IsFolder(dirs[d]) => dirs'[d][0].name = dirs[d][0].name
  PROVE  StoreTables' = StoreTables
BY DEF StoreTables, TableOf


-----------------------------------------------------------------------------
(* Calls that return at once *)

LEMMA Modes ==
  /\ op.pc = "off" => StoreMode = IF signed THEN "off" ELSE "new"
  /\ op.pc \in {"fmt_fat", "fmt_root"} => StoreMode = "formatting"
  /\ op.pc = "idle" => StoreMode = "idle"
  /\ op.pc = "wild" => StoreMode = "undefined"
  /\ op.pc \in {"mk_parent", "mk_table", "wf_parent", "wf_data", "df_fat", "dd_table", "dd_fat"}
       => StoreMode = "busy"
BY DEF StoreMode

Awaited == {"mk_parent", "mk_table", "wf_parent", "wf_data", "dd_table"}
LEMMA NonePending ==
  op.pc \notin Awaited => StorePending = Store!Nothing /\ Complete = Entries
BY DEF Awaited, StorePending, Store!Nothing, Complete, BeingMade

LEMMA OpenFolder ==
  ASSUME NEW p \in Clusters
  PROVE  Store!Open(p) <=> IsFolder(dirs[p])
<1>1. \A t \in StoreTables : \E d \in Clusters : IsFolder(dirs[d]) /\ t.at = d
  BY DEF StoreTables, TableOf
<1>2. IsFolder(dirs[p]) => TableOf(p) \in StoreTables /\ TableOf(p).at = p
  BY DEF StoreTables, TableOf
<1> QED BY <1>1, <1>2 DEF Store!Open

LEMMA PresentFolder ==
  ASSUME SInv, Idle, NEW p \in ReqParents
  PROVE  p \in Clusters /\ (Present(dirs[p]) <=> IsFolder(dirs[p]))
<1>1. Defined /\ p \in Clusters
  BY Parents DEF Idle, Defined
<1>2. Tidy(dirs[p], p)
  BY <1>1, SFacts
<1> QED BY <1>1, <1>2, RowNumbers DEF Present, IsFolder, Tidy, Holds

\* The entry in a row of a name, between two calls.
LEMMA NameFound ==
  ASSUME SInv, Idle, NEW p \in ReqParents, NEW n \in ReqNames,
         NEW r \in ScanRows, dirs[p][r].name = n
  PROVE  LET x == <<p, r>> IN
         /\ x \in Complete /\ x \in Entries /\ At(x) = dirs[p][r] /\ dirs[p][r].used
         /\ \A q \in ScanRows : dirs[p][q].name = n => q = r
         /\ dirs[p][r].attr = 0 \/ (dirs[p][r].attr = ATTR_SUBDIRECTORY /\ dirs[p][r].size = 0)
         /\ dirs[p][r].attr = 0 =>
              Store!FilesNamed(p, n) = {FileOf(x)} /\ Store!FoldersNamed(p, n) = {}
         /\ dirs[p][r].attr = ATTR_SUBDIRECTORY =>
              Store!FilesNamed(p, n) = {} /\ Store!FoldersNamed(p, n) = {FolderOf(x)}
<1> DEFINE x == <<p, r>>
<1>1. Defined /\ p \in Clusters /\ Complete = NamedRows /\ Entries = NamedRows
  BY Parents, EntriesNamed DEF Idle, Defined, Complete, BeingMade
<1>2. x \in Complete /\ x \in Entries /\ At(x) = dirs[p][r]
  BY <1>1 DEF NamedRows, At
<1>3. dirs[p][r].used
  BY <1>2 DEF Entries, Named
<1>4. Tidy(dirs[p], p)
  BY <1>1, SFacts
<1>5. \A q \in ScanRows : dirs[p][q].name = n => q = r
  BY <1>4 DEF Tidy
<1>6. dirs[p][r].attr = 0 \/ (dirs[p][r].attr = ATTR_SUBDIRECTORY /\ dirs[p][r].size = 0)
  BY <1>4 DEF Tidy
<1>7. ASSUME NEW y \in Complete, y[1] = p, At(y).name = n PROVE y = x
  <2>1. y \in Clusters \X ScanRows
    BY <1>1 DEF NamedRows
  <2> QED BY <1>5, <1>7, <2>1 DEF At
<1>8. \A y : FileOf(y).dir = y[1] /\ FileOf(y).name = At(y).name
  BY DEF FileOf
<1>9. \A y : FolderOf(y).dir = y[1] /\ FolderOf(y).name = At(y).name
  BY DEF FolderOf
<1>10. x[1] = p /\ At(x).name = n
  BY <1>2
<1> HIDE DEF x
<1>11. ASSUME At(x).attr = 0
       PROVE  Store!FilesNamed(p, n) = {FileOf(x)} /\ Store!FoldersNamed(p, n) = {}
  <2>1. At(x).attr # ATTR_SUBDIRECTORY
    BY <1>11 DEF ATTR_SUBDIRECTORY
  <2>2. Store!FilesNamed(p, n) = {FileOf(x)}
    BY <1>2, <1>7, <1>8, <1>10, <2>1 DEF Store!FilesNamed, StoreFiles
  <2>3. Store!FoldersNamed(p, n) = {}
    BY <1>2, <1>7, <1>9, <1>10, <2>1 DEF Store!FoldersNamed, StoreFolders
  <2> QED BY <2>2, <2>3
<1>12. ASSUME At(x).attr = ATTR_SUBDIRECTORY
       PROVE  Store!FilesNamed(p, n) = {} /\ Store!FoldersNamed(p, n) = {FolderOf(x)}
  <2>2. Store!FilesNamed(p, n) = {}
    BY <1>2, <1>7, <1>8, <1>10, <1>12 DEF Store!FilesNamed, StoreFiles
  <2>3. FolderOf(x) \in StoreFolders
    BY <1>2, <1>12 DEF StoreFolders
  <2>4. \A g \in StoreFolders : g.dir = p /\ g.name = n => g = FolderOf(x)
    BY <1>7, <1>9 DEF StoreFolders
  <2>5. Store!FoldersNamed(p, n) = {FolderOf(x)}
    BY <1>9, <1>10, <2>3, <2>4 DEF Store!FoldersNamed
  <2> QED BY <2>2, <2>5
<1> QED BY <1>2, <1>3, <1>5, <1>6, <1>11, <1>12 DEF x

LEMMA NameTaken ==
  ASSUME SInv, Idle, NEW p \in ReqParents, NEW n \in ReqNames,
         NEW r \in ScanRows, dirs[p][r].name = n
  PROVE  /\ dirs[p][r].attr = 0 => Store!FilesNamed(p, n) # {}
         /\ dirs[p][r].attr = ATTR_SUBDIRECTORY => Store!FoldersNamed(p, n) # {}
         /\ Store!Taken(p, n)
<1> DEFINE x == <<p, r>>
<1>1. /\ dirs[p][r].attr = 0 \/ dirs[p][r].attr = ATTR_SUBDIRECTORY
      /\ dirs[p][r].attr = 0 => Store!FilesNamed(p, n) = {FileOf(x)}
      /\ dirs[p][r].attr = ATTR_SUBDIRECTORY => Store!FoldersNamed(p, n) = {FolderOf(x)}
  BY NameFound
<1>2. \A S : {S} # {}
  OBVIOUS
<1> HIDE DEF x
<1> QED BY <1>1, <1>2 DEF Store!Taken

LEMMA NameMissing ==
  ASSUME SInv, Idle, NEW p \in ReqParents, NEW n \in ReqNames
  PROVE  (\A r \in ScanRows : dirs[p][r].name # n) => ~Store!Taken(p, n)
<1>1. Defined /\ p \in Clusters /\ Complete = NamedRows
  BY Parents, EntriesNamed DEF Idle, Defined, Complete, BeingMade
<1> SUFFICES ASSUME \A r \in ScanRows : dirs[p][r].name # n PROVE ~Store!Taken(p, n)
  OBVIOUS
<1>2. ASSUME NEW y \in Complete, y[1] = p PROVE At(y).name # n
  BY <1>1, <1>2 DEF NamedRows, At
<1>3. \A y : /\ FileOf(y).dir = y[1] /\ FileOf(y).name = At(y).name
             /\ FolderOf(y).dir = y[1] /\ FolderOf(y).name = At(y).name
  BY DEF FileOf, FolderOf
<1> QED BY <1>2, <1>3 DEF Store!Taken, Store!FilesNamed, Store!FoldersNamed, StoreFiles, StoreFolders

\* A call that changes nothing on disk.
LEMMA CallReturns ==
  ASSUME SInv, Idle, Next, op'.pc \in {"idle", "wild"}, UNCHANGED <<diskFat, dirs, data>>
  PROVE  /\ UNCHANGED <<StorePending, StoreTables, StoreFolders, StoreFiles>>
         /\ StoreMode = "idle"
         /\ op'.pc = "idle" => StoreMode' = "idle"
         /\ op'.pc = "wild" => StoreMode' = "undefined"
         /\ op'.pc = "idle" => Store!Returns
<1>1. Defined /\ StoreMode = "idle" /\ op.pc \notin Awaited
  BY Modes DEF Idle, Defined, Awaited
<1>2. op'.pc \notin Awaited /\ (op'.pc = "idle" => StoreMode' = "idle")
      /\ (op'.pc = "wild" => StoreMode' = "undefined")
  BY DEF Awaited, StoreMode
<1>3. Complete = Entries /\ StorePending = Store!Nothing
  BY <1>1, NonePending
<1>4. Complete' = Entries' /\ StorePending' = Store!Nothing
  BY <1>2 DEF Awaited, Complete, BeingMade, StorePending, Store!Nothing
<1>5. Entries' = Entries /\ \A x \in Complete : At(x)' = At(x)
  BY DEF Entries, Named, At
<1>6. StoreFiles' = StoreFiles /\ StoreFolders' = StoreFolders
  BY <1>1, <1>3, <1>4, <1>5, StoreSame
<1>7. StoreTables' = StoreTables
  BY TablesSame
<1> QED BY <1>1, <1>2, <1>3, <1>4, <1>6, <1>7 DEF Store!Returns

\* Every walk from a cluster in use comes to an end.
LEMMA WalkEnds ==
  ASSUME NEW f \in Fat, Links(f), NEW c \in DataClusters, f[c] # EMPTY
  PROVE  Ends(f, c)
<1> DEFINE S == Chain(f, c)
           m == Max(S)
<1>1. S \in SUBSET (0 .. CLUSTER_MAP_SIZE - 1) /\ S # {} /\ CLUSTER_MAP_SIZE - 1 \in Nat
  BY ChainLeast, Numbers
<1>2. m \in S /\ \A y \in S : y <= m
  BY <1>1, MaxProperty
<1>3. m \in DataClusters /\ f[m] # EMPTY
  BY <1>2, ChainInUse
<1>4. f[m] = EOF \/ f[m] \in m + 1 .. CLUSTER_MAP_SIZE - 1
  BY <1>3 DEF Links
<1>5. CASE f[m] \in m + 1 .. CLUSTER_MAP_SIZE - 1
  <2>1. f[m] \in Clusters /\ f[m] > m /\ f[m] \in Nat /\ m \in Nat
    BY <1>3, <1>5, Numbers
  <2>2. f[m] \in S
    BY <1>2, <2>1, ChainClosed, Numbers
  <2> QED BY <1>2, <2>1, <2>2
<1> QED BY <1>2, <1>4, <1>5 DEF Ends

LEMMA RefusedCall ==
  ASSUME SInv, Idle, Next, NEW k, Reply(k)
  PROVE  Store!Returns /\ ret' = Store!Answer(k) /\ StoreMode = "idle"
<1>1. op'.pc = "idle" /\ ret' = Code(k) /\ UNCHANGED <<diskFat, dirs, data>>
  BY StepPc DEF Reply, Return
<1> QED BY <1>1, CallReturns DEF Store!Answer, Code

LEMMA ListStored ==
  ASSUME SInv, Next, NEW p \in ReqParents, NEW n \in ReqNames, ReadDirectory(p, n)
  PROVE  Store!Call(p, n) /\ Store!ListFolder(p, n)
<1> DEFINE k == ReadDirectoryCode(dirs[p], n)
<1>1. Idle /\ Reply(k)
  BY DEF ReadDirectory
<1> HIDE DEF k
<1>2. Store!Returns /\ ret' = Store!Answer(k) /\ StoreMode = "idle"
  BY <1>1, RefusedCall
<1>3. p \in Clusters /\ (Store!Open(p) <=> Present(dirs[p]))
  BY <1>1, PresentFolder, OpenFolder
<1>4. k = -1 => ~Present(dirs[p])
  BY DEF k, ReadDirectoryCode
<1>5. k = 2 => \A r \in ScanRows : dirs[p][r].name # n
  BY DEF k, ReadDirectoryCode, FolderHits
<1>6. k \in {-1, 0, 1, 2} /\ (k # -1 => Present(dirs[p]))
  BY DEF k, ReadDirectoryCode
<1>7. k = 2 => ~Store!Taken(p, n)
  BY <1>1, <1>5, NameMissing
<1>8. Store!ListFolder(p, n)
  BY <1>2, <1>3, <1>4, <1>6, <1>7 DEF Store!ListFolder, Store!NotFolder
<1> QED BY <1>2, <1>8 DEF Store!Call, Store!Answers

\* The row that read finds.
LEMMA ReadFinds ==
  ASSUME NEW t, NEW n, ReadHits(t, n) # {}
  PROVE  Min(ReadHits(t, n)) \in ScanRows /\ t[Min(ReadHits(t, n))].name = n
<1>1. ReadHits(t, n) \in SUBSET Nat
  BY RowNumbers DEF ReadHits
<1>2. Min(ReadHits(t, n)) \in ReadHits(t, n)
  BY <1>1, MinProperty
<1> QED BY <1>2 DEF ReadHits

LEMMA ReadStored ==
  ASSUME SInv, Next, NEW p \in ReqParents, NEW n \in ReqNames, NEW size \in Sizes,
         ReadFails(p, n, size) \/ ReadCopies(p, n, size)
  PROVE  Store!Call(p, n) /\ Store!ReadFile(p, n, size)
<1> DEFINE t == dirs[p]
           r == Min(ReadHits(t, n))
<1>1. ReadFails(p, n, size) \/ ReadCopies(p, n, size)
  OBVIOUS
<1>2. Idle
  BY <1>1 DEF ReadFails, ReadCopies
<1>3. p \in Clusters /\ (Store!Open(p) <=> Present(t))
  BY <1>2, PresentFolder, OpenFolder
<1>4. SUFFICES Store!Returns /\ StoreMode = "idle" /\ Store!ReadFile(p, n, size)
  BY DEF Store!Call, Store!Answers
<1>5. CASE ReadHits(t, n) = {} \/ ~Present(t)
  <2>1. ReadCode(t, n, size) = IF ~Present(t) THEN -1 ELSE 3
    BY <1>5 DEF ReadCode
  <2>2. ReadFails(p, n, size)
    BY <1>1, <2>1 DEF ReadCopies
  <2>3. /\ Store!Returns /\ StoreMode = "idle"
        /\ ret' = Store!Answer(IF ~Present(t) THEN -1 ELSE 3)
    BY <1>2, <2>1, <2>2, RefusedCall DEF ReadFails
  <2>4. Present(t) => ~Store!Taken(p, n)
    BY <1>2, <1>5, NameMissing DEF ReadHits
  <2> QED BY <1>3, <2>3, <2>4 DEF Store!ReadFile, Store!NotFolder
<1>6. CASE ReadHits(t, n) # {} /\ Present(t)
  <2>1. r \in ScanRows /\ t[r].name = n
    BY <1>6, ReadFinds
  <2> DEFINE x == <<p, r>>
  <2>2. /\ x \in Entries /\ At(x) = t[r]
        /\ t[r].attr = 0 \/ (t[r].attr = ATTR_SUBDIRECTORY /\ t[r].size = 0)
        /\ t[r].attr = 0 => Store!FilesNamed(p, n) = {FileOf(x)}
        /\ t[r].attr = ATTR_SUBDIRECTORY => Store!FoldersNamed(p, n) = {FolderOf(x)}
    BY <1>2, <2>1, NameFound
  <2>3. ReadCode(t, n, size) = IF t[r].size > size THEN 2 ELSE 0
    BY <1>6, <2>2 DEF ReadCode, ATTR_SUBDIRECTORY
  <2>4. FileOf(x).size = t[r].size
               /\ FileOf(x).text = Contents(diskFat, data, t[r].cl)
    BY <2>2 DEF FileOf, Target
  <2>5. size \in Nat /\ t[r].size \in Nat
    <3>1. t \in Table /\ r \in Rows
      BY <1>2, <1>3, <2>1, SFacts, RowNumbers DEF Idle, Defined
    <3>2. t[r] \in Entry
      BY <3>1 DEF Table
    <3> QED BY <3>2, RequestAssumption DEF Entry
  <2>6. CASE t[r].size > size
    <3>1. ReadFails(p, n, size)
      BY <1>1, <2>3, <2>6 DEF ReadCopies
    <3>2. Store!Returns /\ ret' = Store!Answer(2) /\ StoreMode = "idle"
      BY <1>2, <2>3, <2>6, <3>1, RefusedCall DEF ReadFails
    <3>3. t[r].attr = 0
      BY <2>2, <2>5, <2>6
    <3> QED BY <1>3, <1>6, <2>2, <2>4, <2>6, <3>2, <3>3 DEF Store!ReadFile
  <2>7. CASE ~(t[r].size > size)
    <3>1. ReadCopies(p, n, size)
      BY <1>1, <2>3, <2>7 DEF ReadFails
    <3>2. Owns(diskFat, dirs, t[r])
      BY <1>2, <2>2, EntryOwns DEF Idle, Defined, SInv, CInv
    <3>3. t[r].cl \in Clusters /\ Ends(diskFat, t[r].cl)
      BY <1>2, <3>2, WalkEnds, SFacts, Numbers DEF Idle, Defined, Owns
    <3>4. /\ op' = Step("idle") /\ ret'.code = 0 /\ ret'.out = Contents(diskFat, data, t[r].cl)
          /\ UNCHANGED <<diskFat, dirs, data>>
      BY <3>1, <3>3 DEF ReadCopies, Contents
    <3>5. Store!Returns /\ StoreMode = "idle"
      BY <1>2, <3>4, StepPc, CallReturns
    <3>6. t[r].attr = 0 => FileOf(x).size <= size
      BY <2>4, <2>5, <2>7
    <3> HIDE DEF x
    <3> QED BY <1>3, <1>6, <2>2, <2>4, <3>4, <3>5, <3>6 DEF Store!ReadFile
  <2> QED BY <2>6, <2>7
<1> QED BY <1>5, <1>6

\* What the search for a duplicate looks for.
LEMMA DuplicateTaken ==
  ASSUME SInv, Idle, NEW p \in ReqParents, NEW n \in ReqNames, IsFolder(dirs[p])
  PROVE  /\ Duplicate(dirs[p], n) =>
              Store!Taken(p, n) \/ Store!Opened(p, n) \in StoreTables
         /\ ~Duplicate(dirs[p], n) => ~Store!Taken(p, n)
<1>1. Defined /\ p \in Clusters /\ Tidy(dirs[p], p)
  BY SFacts, Parents DEF Idle, Defined
<1>2. ASSUME ~Duplicate(dirs[p], n) PROVE ~Store!Taken(p, n)
  <2>1. \A r \in ScanRows : r \in WriteRows \/ r = LastRow
    BY RowNumbers DEF LastRow
  <2>2. \A r \in ScanRows : dirs[p][r].name # n
    BY <1>1, <1>2, <2>1 DEF Duplicate, Tidy
  <2> QED BY <2>2, NameMissing
<1>3. ASSUME Duplicate(dirs[p], n)
      PROVE  Store!Taken(p, n) \/ Store!Opened(p, n) \in StoreTables
  <2>1. PICK r \in WriteRows : dirs[p][r].name = n
    BY <1>3 DEF Duplicate
  <2>2. CASE r = 0
    <3>1. TableOf(p) = Store!Opened(p, n)
      BY <2>1, <2>2 DEF TableOf, Store!Opened
    <3> QED BY <1>1, <3>1 DEF StoreTables
  <2>3. CASE r # 0
    <3>1. r \in ScanRows
      BY <2>1, <2>3, RowNumbers
    <3> QED BY <2>1, <3>1, NameTaken
  <2> QED BY <2>2, <2>3
<1> QED BY <1>2, <1>3

LEMMA RefusalStored ==
  ASSUME SInv, Next, NEW p \in ReqParents, NEW n \in ReqNames, WriteRefused(p, n)
  PROVE  Store!Call(p, n) /\ Store!WriteRefusal(p, n)
<1>1. Idle
  BY DEF WriteRefused
<1>2. p \in Clusters /\ (Store!Open(p) <=> IsFolder(dirs[p]))
  BY <1>1, PresentFolder, OpenFolder
<1>3. CASE ~IsFolder(dirs[p]) /\ Reply(2)
  BY <1>1, <1>2, <1>3, RefusedCall
     DEF Store!Call, Store!Answers, Store!WriteRefusal, Store!NotFolder
<1>4. CASE IsFolder(dirs[p]) /\ Duplicate(dirs[p], n) /\ Reply(1)
  BY <1>1, <1>2, <1>4, RefusedCall, DuplicateTaken
     DEF Store!Call, Store!Answers, Store!WriteRefusal
<1> QED BY <1>3, <1>4 DEF WriteRefused

LEMMA WritableFree ==
  ASSUME SInv, NEW p \in ReqParents, NEW n \in ReqNames, Writable(p, n)
  PROVE  /\ Idle /\ Defined /\ p \in Clusters /\ IsFolder(dirs[p]) /\ Store!Open(p)
         /\ ~Store!Taken(p, n)
<1>1. Idle /\ IsFolder(dirs[p]) /\ ~Duplicate(dirs[p], n)
  BY DEF Writable
<1> QED BY <1>1, PresentFolder, OpenFolder, DuplicateTaken DEF Idle, Defined

LEMMA NoSpaceStored ==
  ASSUME SInv, Next, NEW p \in ReqParents, NEW n \in ReqNames, NEW size \in Sizes,
         WriteNoSpace(p, n, size)
  PROVE  Store!Call(p, n) /\ Store!NoSpace(p, n, size)
<1>1. Writable(p, n) /\ size > 0 /\ Reply(-1)
  BY DEF WriteNoSpace
<1>2. Store!Open(p) /\ ~Store!Taken(p, n) /\ Idle
  BY <1>1, WritableFree
<1> QED BY <1>1, <1>2, RefusedCall DEF Store!Call, Store!Answers, Store!NoSpace

LEMMA WildStored ==
  ASSUME SInv, Next, NEW p \in ReqParents, NEW n \in ReqNames, NEW size, WriteWild(p, n, size)
  PROVE  Store!Call(p, n) /\ Store!LeavesDisk(p, n)
<1>1. Writable(p, n) /\ op'.pc = "wild" /\ ret' = Code(0) /\ UNCHANGED <<diskFat, dirs, data>>
  BY StepPc DEF WriteWild
<1>2. Store!Open(p) /\ ~Store!Taken(p, n) /\ Idle
  BY <1>1, WritableFree
<1>3. /\ UNCHANGED <<StorePending, StoreTables, StoreFolders, StoreFiles>>
      /\ StoreMode = "idle" /\ StoreMode' = "undefined"
  BY <1>1, <1>2, CallReturns
<1> QED BY <1>1, <1>2, <1>3 DEF Store!Call, Store!LeavesDisk, Store!Answer, Code

LEMMA DeleteRefusedStored ==
  ASSUME SInv, Next, NEW p \in ReqParents, NEW n \in ReqNames, DeleteRefused(p, n)
  PROVE  Store!Call(p, n) /\ Store!DeleteRefusal(p, n)
<1> DEFINE t == dirs[p]
           r == Min(DeleteHits(t, n))
<1>1. Idle
  BY DEF DeleteRefused
<1>2. /\ p \in Clusters /\ (Store!Open(p) <=> IsFolder(t)) /\ Defined
  BY <1>1, PresentFolder, OpenFolder DEF Idle, Defined
<1>3. CASE ~IsFolder(t) /\ Reply(-1)
  BY <1>1, <1>2, <1>3, RefusedCall
     DEF Store!Call, Store!Answers, Store!DeleteRefusal, Store!NotFolder
<1>4. CASE IsFolder(t) /\ DeleteHits(t, n) = {} /\ Reply(1)
  <2>1. \A q \in ScanRows : t[q].name # n
    BY <1>1, <1>4, NameFound DEF DeleteHits
  <2> QED BY <1>1, <1>2, <1>4, <2>1, RefusedCall, NameMissing
         DEF Store!Call, Store!Answers, Store!DeleteRefusal
<1>5. CASE /\ IsFolder(t) /\ DeleteHits(t, n) # {} /\ t[r].attr = ATTR_SUBDIRECTORY
           /\ Reply(2)
  <2>1. r \in ScanRows /\ t[r].name = n
    BY <1>2, <1>5, DeleteFinds
  <2>2. Store!FoldersNamed(p, n) # {}
    BY <1>1, <1>5, <2>1, NameTaken
  <2> QED BY <1>1, <1>2, <1>5, <2>2, RefusedCall DEF Store!Call, Store!Answers, Store!DeleteRefusal
<1> QED BY <1>3, <1>4, <1>5 DEF DeleteRefused


-----------------------------------------------------------------------------
(* Calls that begin *)

\* What the allocation leaves of the store.
LEMMA BeginKeeps ==
  ASSUME SInv, Idle, Next, op'.pc \in {"mk_parent", "wf_parent"}, dirs' = dirs
  PROVE  /\ UNCHANGED <<StoreTables, StoreFolders, StoreFiles>>
         /\ StoreMode = "idle" /\ StoreMode' = "busy"
<1>1. Defined /\ StoreMode = "idle" /\ op.pc \notin Awaited
  BY Modes DEF Idle, Defined, Awaited
<1>2. StoreMode' = "busy"
  BY DEF StoreMode
<1>3. Complete = Entries
  BY <1>1, NonePending
<1>4. Complete' = Entries'
  BY DEF Complete, BeingMade
<1>5. Entries' = Entries /\ \A x \in Complete : At(x)' = At(x)
  BY DEF Entries, Named, At
<1>6. StoreFiles' = StoreFiles /\ StoreFolders' = StoreFolders
  BY <1>1, <1>3, <1>4, <1>5, StoreSame
<1>7. StoreTables' = StoreTables
  BY TablesSame
<1> QED BY <1>1, <1>2, <1>6, <1>7

LEMMA BeginFileStored ==
  ASSUME SInv, Next, NEW p \in ReqParents, NEW n \in ReqNames, NEW size \in Sizes, NEW b \in Bufs,
         WriteFile(p, n, size, b)
  PROVE  Store!Call(p, n) /\ Store!BeginFile(p, n, size, b)
<1> DEFINE c == Min(FirstFree(diskFat, divceil(size, CLUSTER_SIZE)))
<1>1. /\ Writable(p, n) /\ size > 0 /\ dirs' = dirs /\ ret' = Code(0)
      /\ op'.pc = "wf_parent" /\ op'.parent = p /\ op'.buf = b
      /\ op'.entry = FileEntry(n, c, size)
  BY DEF WriteFile, Step
<1> HIDE DEF c
<1>2. Idle /\ Store!Open(p) /\ ~Store!Taken(p, n)
  BY <1>1, WritableFree
<1>3. /\ UNCHANGED <<StoreTables, StoreFolders, StoreFiles>>
      /\ StoreMode = "idle" /\ StoreMode' = "busy"
  BY <1>1, <1>2, BeginKeeps
<1>4. op'.entry.name = n /\ op'.entry.size = size
  BY <1>1 DEF FileEntry
<1>5. FileAsked' = Store!File(p, n, size, Store!Whole(b, size))
  BY <1>1, <1>4 DEF FileAsked, Store!File, Store!Whole, Store!Parts, divceil
<1>6. StorePending' = [Store!Nothing EXCEPT !.files = {Store!File(p, n, size, Store!Whole(b, size))}]
  BY <1>1, <1>5 DEF StorePending, Store!Nothing
<1>7. Store!BeginFile(p, n, size, b)
  BY <1>1, <1>2, <1>3, <1>6 DEF Store!BeginFile, Store!Begins, Store!Answer, Code
<1> QED BY <1>3, <1>7 DEF Store!Call

LEMMA BeginFolderStored ==
  ASSUME SInv, Next, NEW p \in ReqParents, NEW n \in ReqNames, WriteFolder(p, n)
  PROVE  Store!Call(p, n) /\ \E h \in Clusters : Store!BeginFolder(p, n, h)
<1> DEFINE c == Min(Free(diskFat))
<1>1. /\ Writable(p, n) /\ dirs' = dirs /\ ret' = Code(0) /\ Free(diskFat) # {}
      /\ op'.pc = "mk_parent" /\ op'.parent = p /\ op'.cl = c
      /\ op'.entry = DirEntry(n, c)
  BY DEF WriteFolder, Step
<1>2. Idle /\ Defined /\ Store!Open(p) /\ ~Store!Taken(p, n)
  BY <1>1, WritableFree
<1>3. /\ UNCHANGED <<StoreTables, StoreFolders, StoreFiles>>
      /\ StoreMode = "idle" /\ StoreMode' = "busy"
  BY <1>1, <1>2, BeginKeeps
<1>4. c \in Clusters /\ diskFat[c] = EMPTY
  BY <1>1, FreeNumbers, MinProperty
<1> HIDE DEF c
<1>5. op'.entry.name = n
  BY <1>1 DEF DirEntry
<1>6. FolderAsked' = Store!Folder(p, n, c)
  BY <1>1, <1>5 DEF FolderAsked, Store!Folder
<1>7. StorePending' = [Store!Nothing EXCEPT !.folders = {Store!Folder(p, n, c)}]
  BY <1>1, <1>6 DEF StorePending, Store!Nothing
<1>8. ~Store!Open(c)
  <2>1. ~Holds(dirs[c])
    BY <1>2, <1>4, SFacts, Numbers DEF Sound, TablesOwned
  <2>2. ~IsFolder(dirs[c])
    BY <2>1, RowNumbers DEF Holds, IsFolder
  <2> QED BY <1>4, <2>2, OpenFolder
<1>9. \A g \in StoreFolders : g.to # c
  <2>1. ASSUME NEW x \in Complete PROVE Target(x) # c
    <3>1. x \in Entries
      BY DEF Complete
    <3>2. Owns(diskFat, dirs, At(x))
      BY <1>2, <3>1, EntryOwns, SFacts
    <3> QED BY <1>4, <3>2 DEF Owns, Target
  <2> QED BY <2>1 DEF StoreFolders, FolderOf
<1>10. Store!BeginFolder(p, n, c)
  BY <1>1, <1>2, <1>3, <1>7, <1>8, <1>9 DEF Store!BeginFolder, Store!Begins, Store!Answer, Code
<1> QED BY <1>3, <1>4, <1>10 DEF Store!Call

\* What the first disk write of delete takes from the store.
LEMMA RowGone ==
  ASSUME SInv, Idle, Next, NEW p \in ReqParents, NEW n \in ReqNames,
         NEW r \in ScanRows, dirs[p][r].name = n,
         dirs' = [dirs EXCEPT ![p] = ClearRow(dirs[p], r)], op'.pc \in {"df_fat", "dd_table"}
  PROVE  /\ StoreFiles' = StoreFiles \ Store!FilesNamed(p, n)
         /\ StoreFolders' = StoreFolders \ Store!FoldersNamed(p, n)
         /\ UNCHANGED StoreTables
         /\ \A d \in Clusters : dirs'[d][0] = dirs[d][0]
         /\ StoreMode = "idle" /\ StoreMode' = "busy"
<1> DEFINE y == <<p, r>>
<1>1. Defined /\ StoreMode = "idle" /\ op.pc \notin Awaited
  BY Modes DEF Idle, Defined, Awaited
<1>2. StoreMode' = "busy"
  BY DEF StoreMode
<1>3. /\ p \in Clusters /\ dirs \in [Clusters -> Table] /\ dirs[p] \in Table
      /\ r \in Rows /\ r # 0
  BY <1>1, SFacts, Parents, RowNumbers
<1>4. /\ \A d \in Clusters : d # p => dirs'[d] = dirs[d]
      /\ dirs'[p] = ClearRow(dirs[p], r)
  BY <1>3
<1>5. /\ \A q \in Rows : q # r => dirs'[p][q] = dirs[p][q]
      /\ dirs'[p][r].used = FALSE
  BY <1>3, <1>4 DEF ClearRow, Table, Entry
<1>6. y \in Complete /\ At(y) = dirs[p][r]
  BY NameFound
<1>7. Complete = Entries
  BY <1>1, NonePending
<1>8. Complete' = Entries'
  BY DEF Complete, BeingMade
<1>9. ASSUME NEW x \in Clusters \X ScanRows, x # y PROVE At(x)' = At(x)
  <2>1. x[1] \in Clusters /\ x[2] \in Rows /\ (x[1] # p \/ x[2] # r)
    BY <1>9, RowNumbers
  <2> QED BY <1>4, <1>5, <2>1 DEF At
<1>10. \A x \in Clusters \X ScanRows : Named(x[1], x[2]) <=> At(x).used /\ At(x).name \in ReqNames \ {EmptyName}
  BY DEF Named, At
<1>11. \A x \in Clusters \X ScanRows :
         Named(x[1], x[2])' <=> At(x)'.used /\ At(x)'.name \in ReqNames \ {EmptyName}
  BY DEF Named, At
<1>12. At(y)'.used = FALSE
  BY <1>5 DEF At
<1>13. Entries' = Entries \ {y}
  BY <1>9, <1>10, <1>11, <1>12 DEF Entries
<1>14. \A x \in Complete \ {y} : At(x)' = At(x)
  BY <1>7, <1>9 DEF Entries
<1>15. y[1] = p /\ At(y).name = n
  BY <1>6
<1> HIDE DEF y
<1>16. /\ StoreFiles' = {f \in StoreFiles : ~(f.dir = p /\ f.name = n)}
       /\ StoreFolders' = {g \in StoreFolders : ~(g.dir = p /\ g.name = n)}
  BY <1>1, <1>6, <1>7, <1>8, <1>13, <1>14, <1>15, StoreShrinks
<1>17. StoreFiles' = StoreFiles \ Store!FilesNamed(p, n)
  BY <1>16 DEF Store!FilesNamed
<1>18. StoreFolders' = StoreFolders \ Store!FoldersNamed(p, n)
  BY <1>16 DEF Store!FoldersNamed
<1>19. \A d \in Clusters : dirs'[d][0] = dirs[d][0]
  BY <1>3, <1>4, <1>5, RowNumbers
<1>20. StoreTables' = StoreTables
  BY <1>19, TablesSame DEF IsFolder
<1> QED BY <1>1, <1>2, <1>17, <1>18, <1>19, <1>20

LEMMA RemoveFileStored ==
  ASSUME SInv, Next, NEW p \in ReqParents, NEW n \in ReqNames, DeleteFile(p, n)
  PROVE  Store!Call(p, n) /\ Store!RemoveFile(p, n)
<1> DEFINE r == Min(DeleteHits(dirs[p], n))
<1>1. /\ Idle /\ IsFolder(dirs[p]) /\ DeleteHits(dirs[p], n) # {} /\ ret' = Code(0)
      /\ dirs' = [dirs EXCEPT ![p] = ClearRow(dirs[p], r)] /\ dirs[p][r].attr # ATTR_SUBDIRECTORY
      /\ op'.pc = "df_fat"
  BY DEF DeleteFile, Step
<1> HIDE DEF r
<1>2. p \in Clusters /\ r \in ScanRows /\ dirs[p][r].name = n
  BY <1>1, DeleteFinds DEF r, Idle, Defined
<1>3. /\ StoreFiles' = StoreFiles \ Store!FilesNamed(p, n)
      /\ StoreFolders' = StoreFolders \ Store!FoldersNamed(p, n)
      /\ UNCHANGED StoreTables /\ StoreMode = "idle" /\ StoreMode' = "busy"
  BY <1>1, <1>2, RowGone
<1>4. dirs[p][r].attr = 0 /\ Store!FoldersNamed(p, n) = {}
  <2> DEFINE x == <<p, r>>
  <2>1. /\ At(x) = dirs[p][r]
        /\ dirs[p][r].attr = 0 \/ (dirs[p][r].attr = ATTR_SUBDIRECTORY /\ dirs[p][r].size = 0)
        /\ dirs[p][r].attr = 0 => Store!FilesNamed(p, n) = {FileOf(x)} /\ Store!FoldersNamed(p, n) = {}
    BY <1>1, <1>2, NameFound
  <2> QED BY <1>1, <2>1
<1>5. Store!FilesNamed(p, n) # {}
  BY <1>1, <1>2, <1>4, NameTaken
<1>6. StorePending' = Store!Nothing
  BY <1>1 DEF StorePending, Store!Nothing
<1>7. Store!Open(p)
  BY <1>1, <1>2, OpenFolder
<1>8. Store!RemoveFile(p, n)
  BY <1>1, <1>3, <1>4, <1>5, <1>6, <1>7 DEF Store!RemoveFile, Store!Begins, Store!Answer, Code
<1> QED BY <1>3, <1>8 DEF Store!Call

LEMMA RemoveFolderStored ==
  ASSUME SInv, Next, NEW p \in ReqParents, NEW n \in ReqNames, DeleteFolder(p, n)
  PROVE  Store!Call(p, n) /\ Store!RemoveFolder(p, n)
<1> DEFINE r == Min(DeleteHits(dirs[p], n))
           e == dirs[p][r]
<1>1. /\ Idle /\ IsFolder(dirs[p]) /\ DeleteHits(dirs[p], n) # {} /\ ret' = Code(0)
      /\ dirs' = [dirs EXCEPT ![p] = ClearRow(dirs[p], r)] /\ e.attr = ATTR_SUBDIRECTORY
      /\ op'.pc = "dd_table" /\ op'.cl = e.cl /\ e.cl \in Clusters /\ ~Occupied(dirs[e.cl])
  BY DEF DeleteFolder, Step
<1> HIDE DEF r
<1>2. p \in Clusters /\ r \in ScanRows /\ dirs[p][r].name = n
  BY <1>1, DeleteFinds DEF r, Idle, Defined
<1>3. /\ StoreFiles' = StoreFiles \ Store!FilesNamed(p, n)
      /\ StoreFolders' = StoreFolders \ Store!FoldersNamed(p, n)
      /\ UNCHANGED StoreTables /\ StoreMode = "idle" /\ StoreMode' = "busy"
      /\ \A d \in Clusters : dirs'[d][0] = dirs[d][0]
  BY <1>1, <1>2, RowGone
<1> DEFINE x == <<p, r>>
           g == FolderOf(x)
<1>4. At(x) = e /\ Store!FilesNamed(p, n) = {} /\ Store!FoldersNamed(p, n) = {g}
  BY <1>1, <1>2, NameFound
<1>5. g.to = e.cl
  BY <1>4 DEF FolderOf, Target
<1> HIDE DEF g, x, e
<1>6. StoreFiles' = StoreFiles
  BY <1>3, <1>4
<1>7. StorePending' = [Store!Nothing EXCEPT !.tables = {t \in StoreTables : t.at = g.to}]
  <2>1. IsFolder(dirs'[e.cl]) <=> IsFolder(dirs[e.cl])
    BY <1>1, <1>3 DEF IsFolder
  <2>2. [at |-> e.cl, name |-> dirs'[e.cl][0].name] = TableOf(e.cl)
    BY <1>1, <1>3 DEF TableOf
  <2>3. {t \in StoreTables : t.at = e.cl} = IF IsFolder(dirs[e.cl]) THEN {TableOf(e.cl)} ELSE {}
    BY <1>1 DEF StoreTables, TableOf
  <2>4. StorePending'.tables = IF IsFolder(dirs[e.cl]) THEN {TableOf(e.cl)} ELSE {}
    BY <1>1, <2>1, <2>2 DEF StorePending, TableOf
  <2>5. StorePending' = [files |-> {}, folders |-> {}, tables |-> StorePending'.tables]
    BY <1>1 DEF StorePending
  <2> QED BY <1>5, <2>3, <2>4, <2>5 DEF Store!Nothing
<1>8. \A z \in StoreFiles \union StoreFolders : z.dir # g.to
  <2>1. ASSUME NEW z \in Complete PROVE z[1] # e.cl
    <3>1. z[1] \in Clusters /\ z[2] \in ScanRows /\ dirs[z[1]][z[2]].used
      BY DEF Complete, Entries, Named
    <3> QED BY <1>1, <3>1 DEF Occupied
  <2> QED BY <1>5, <2>1 DEF StoreFiles, StoreFolders, FileOf, FolderOf
<1>9. Store!Open(p)
  BY <1>1, <1>2, OpenFolder
<1>10. g \in Store!FoldersNamed(p, n)
  BY <1>4
<1>11. Store!RemoveFolder(p, n)
  BY <1>1, <1>3, <1>6, <1>7, <1>8, <1>9, <1>10
     DEF Store!RemoveFolder, Store!Begins, Store!Answer, Code
<1> QED BY <1>3, <1>11 DEF Store!Call


-----------------------------------------------------------------------------
(* Calls that go on *)

Svars == <<StoreMode, StoreFiles, StoreFolders, StoreTables, StorePending, ret>>

\* Rows that change neither their name nor whether they are in use.
LEMMA EntriesSame ==
  ASSUME \A x \in Clusters \X ScanRows :
           \/ At(x)' = At(x)
           \/ ~At(x).used /\ ~At(x)'.used
  PROVE  Entries' = Entries /\ \A x \in Entries : At(x)' = At(x)
<1>1. \A x \in Clusters \X ScanRows : Named(x[1], x[2]) <=> At(x).used /\ At(x).name \in ReqNames \ {EmptyName}
  BY DEF Named, At
<1>2. \A x \in Clusters \X ScanRows :
        Named(x[1], x[2])' <=> At(x)'.used /\ At(x)'.name \in ReqNames \ {EmptyName}
  BY DEF Named, At
<1> QED BY <1>1, <1>2 DEF Entries

\* A mark changes no name.
LEMMA RowMarked ==
  ASSUME NEW t \in Table, NEW p
  PROVE  /\ \A r \in Rows : MarkRow(t, p)[r].name = t[r].name /\ MarkRow(t, p)[r].attr = t[r].attr
         /\ t[0].used => MarkRow(t, p)[0].used
<1>1. CASE p \in Rows
  BY <1>1, RowNumbers DEF MarkRow, Table, Entry
<1>2. CASE p \notin Rows
  BY <1>2 DEF MarkRow
<1> QED BY <1>1, <1>2

\* The new entry is there, but its call is not at its end.
LEMMA ParentKeepsStore ==
  ASSUME SInv, SInv', HasRoom, Next, FolderParent \/ FileParent
  PROVE  UNCHANGED Svars
<1>1. op.pc \in {"mk_parent", "wf_parent"} /\ Defined /\ op \in Calls /\ DiskInv /\ PlainFiles
  BY SFacts DEF FolderParent, FileParent, Defined
<1> DEFINE t == dirs[op.parent]
           T == [op.table EXCEPT ![op.row] = op.entry]
<1>2. /\ op.parent \in Clusters /\ t \in Table /\ IsFolder(t) /\ op.row \in ScanRows
      /\ op.table = MarkRow(t, op.parent) /\ op.table \in Table
      /\ op.entry.used /\ op.entry.name \in ReqNames /\ ~t[op.row].used
  BY <1>1, ParentTable
<1>3. dirs' = [dirs EXCEPT ![op.parent] = T] /\ ret' = ret
  BY DEF FolderParent, FileParent
<1>4. /\ op'.parent = op.parent /\ op'.row = op.row /\ op'.cl = op.cl
      /\ op'.entry.name = op.entry.name /\ op'.buf = op.buf
      /\ op.pc = "mk_parent" => op'.pc = "mk_table"
      /\ op.pc = "wf_parent" => op'.pc = "wf_data" /\ op'.entry = op.entry
  <2>1. CASE FolderParent
    <3>1. op' = [op EXCEPT !.pc = "mk_table", !.table = dirs'[op.cl], !.entry.cl = op.parent]
      BY <2>1 DEF FolderParent
    <3> QED BY <1>1, <2>1, <3>1 DEF FolderParent, Calls, Entry
  <2>2. CASE FileParent
    <3>1. op' = [op EXCEPT !.pc = "wf_data"]
      BY <2>2 DEF FileParent
    <3> QED BY <1>1, <2>2, <3>1 DEF FileParent, Calls
  <2> QED BY <2>1, <2>2
<1>5. /\ \A r \in Rows : op.table[r].name = t[r].name /\ op.table[r].attr = t[r].attr
      /\ t[0].used => op.table[0].used
  BY <1>2, RowMarked
<1>6. /\ \A d \in Clusters : d # op.parent => dirs'[d] = dirs[d]
      /\ dirs'[op.parent] = T
  BY <1>2, <1>3, <1>1, SFacts
<1>7. T[op.row] = op.entry /\ \A r \in Rows : r # op.row => T[r] = op.table[r]
  BY <1>2, RowNumbers DEF Table
<1> HIDE DEF T
<1>8. PICK y : y = <<op.parent, op.row>>
  OBVIOUS
<1>9. NamedRows' = NamedRows \union {y}
  <2>1. y \in Clusters \X ScanRows /\ dirs'[y[1]][y[2]].name \in ReqNames
    BY <1>2, <1>6, <1>7, <1>8
  <2>2. ASSUME NEW x \in Clusters \X ScanRows, x # y
        PROVE  dirs'[x[1]][x[2]].name = dirs[x[1]][x[2]].name
    <3>1. x[1] # op.parent \/ x[2] # op.row
      BY <1>8, <2>2
    <3> QED BY <1>5, <1>6, <1>7, <3>1, RowNumbers
  <2> QED BY <2>1, <2>2 DEF NamedRows
<1>10. Defined'
  BY <1>1, <1>4 DEF Defined
<1>11. Entries = NamedRows
  BY <1>1, EntriesNamed
<1>12. Entries' = NamedRows'
  BY <1>10, EntriesNamedAfter
<1>13. y \notin Entries
  BY <1>2, <1>8 DEF Entries, Named
<1>14. Complete = Entries
  BY <1>1 DEF Complete, BeingMade
<1>15. Complete' = Entries' \ {y}
  BY <1>1, <1>4, <1>8 DEF Complete, BeingMade
<1>16. Complete' = Complete
  BY <1>9, <1>10, <1>11, <1>12, <1>13, <1>14, <1>15
<1>17. \A x \in Complete : At(x)' = At(x)
  BY <1>1, <1>14, EntriesCreated, ParentKeepsRows
<1>18. StoreFiles' = StoreFiles /\ StoreFolders' = StoreFolders
  BY <1>1, <1>16, <1>17, StoreSame
<1>19. StoreTables' = StoreTables
  <2>1. ASSUME NEW d \in Clusters
        PROVE  /\ IsFolder(dirs'[d]) <=> IsFolder(dirs[d])
               /\ IsFolder(dirs[d]) => dirs'[d][0].name = dirs[d][0].name
    <3>1. CASE d # op.parent
      BY <1>6, <3>1
    <3>2. CASE d = op.parent
      <4>1. dirs'[d][0] = op.table[0]
        BY <1>2, <1>6, <1>7, <3>2, RowNumbers
      <4> QED BY <1>2, <1>5, <3>2, <4>1, RowNumbers DEF IsFolder
    <3> QED BY <3>1, <3>2
  <2> QED BY <2>1, TablesSame
<1>20. StoreMode' = StoreMode
  BY <1>1, <1>4 DEF StoreMode
<1>21. StorePending' = StorePending
  BY <1>1, <1>4 DEF StorePending, FileAsked, FolderAsked
<1> QED BY <1>3, <1>18, <1>19, <1>20, <1>21 DEF Svars


\* The steps that end a call.
LEMMA EndFacts ==
  ASSUME op' = Step("idle"), ret' = Code(0)
  PROVE  /\ StoreMode' = "idle" /\ StorePending' = Store!Nothing /\ Complete' = Entries'
         /\ ret' = Store!Answer(0)
<1>1. op'.pc = "idle"
  BY StepPc
<1> QED BY <1>1 DEF StoreMode, StorePending, Store!Nothing, Complete, BeingMade, Store!Answer, Code

\* The folder is made: its table names it.
LEMMA FolderMade ==
  ASSUME SInv, Next, FolderTable
  PROVE  Store!Ends
<1>1. op.pc = "mk_table" /\ Defined /\ op \in Calls
  BY SFacts DEF FolderTable, Defined
<1>2. StoreMode = "busy"
  BY <1>1, Modes
<1>3. /\ op' = Step("idle") /\ ret' = Code(0)
      /\ dirs' = [dirs EXCEPT ![op.cl] = [op.table EXCEPT ![0] = op.entry]]
  BY DEF FolderTable, Return
<1>4. /\ TableOfCall /\ ~Holds(op.table) /\ op.entry.used /\ op.cl \in Clusters
      /\ op.row \in ScanRows /\ op.entry.name \in ReqNames /\ op.entry.attr = ATTR_SUBDIRECTORY
      /\ dirs[op.parent][op.row] = DirEntry(op.entry.name, op.cl) /\ op.parent \in Clusters
  BY <1>1, SFacts, Numbers DEF CallSound, CallStored, TableOfCall, Calls
<1>5. op.table = dirs[op.cl] /\ op.table \in Table
  BY <1>1, <1>4 DEF TableOfCall, Calls
<1>6. /\ dirs'[op.cl][0] = op.entry
      /\ \A r \in ScanRows : dirs'[op.cl][r] = dirs[op.cl][r]
      /\ \A d \in Clusters : d # op.cl => dirs'[d] = dirs[d]
  BY <1>1, <1>3, <1>4, <1>5, SFacts, RowNumbers DEF Table
<1>7. \A x \in Clusters \X ScanRows : At(x)' = At(x)
  BY <1>6 DEF At
<1>8. Entries' = Entries /\ \A x \in Entries : At(x)' = At(x)
  BY <1>7, EntriesSame
<1>9. PICK y : y = <<op.parent, op.row>>
  OBVIOUS
<1>10. y \in Entries /\ At(y) = DirEntry(op.entry.name, op.cl)
  <2>1. op.entry.name # EmptyName
    BY <1>1, <1>4, SFacts DEF PlainFiles
  <2> QED BY <1>4, <1>9, <2>1 DEF Entries, Named, At, DirEntry
<1>11. Complete = Entries \ {y}
  BY <1>1, <1>9 DEF Complete, BeingMade
<1>12. /\ StoreMode' = "idle" /\ StorePending' = Store!Nothing /\ Complete' = Entries'
       /\ ret' = Store!Answer(0)
  BY <1>3, EndFacts
<1>13. Complete' = Complete \union {y} /\ \A x \in Complete : At(x)' = At(x)
  BY <1>8, <1>10, <1>11, <1>12
<1>14. At(y)' = DirEntry(op.entry.name, op.cl)
  BY <1>8, <1>10
<1>15. /\ DirEntry(op.entry.name, op.cl).attr = ATTR_SUBDIRECTORY
       /\ DirEntry(op.entry.name, op.cl).name = op.entry.name
       /\ DirEntry(op.entry.name, op.cl).cl = op.cl
  BY DEF DirEntry
<1>16. StoreFiles' = StoreFiles \union {} /\ StoreFolders' = StoreFolders \union {FolderOf(y)'}
  BY <1>1, <1>13, <1>14, <1>15, StoreGrows
<1>17. FolderOf(y)' = FolderAsked
  BY <1>9, <1>14, <1>15 DEF FolderOf, FolderAsked, Target
<1>18. StorePending = [files |-> {}, folders |-> {FolderAsked}, tables |-> {}]
  BY <1>1 DEF StorePending
<1>19. StoreTables' = StoreTables \union {Store!Opened(op.cl, op.entry.name)}
  <2>1. IsFolder(dirs'[op.cl]) /\ dirs'[op.cl][0].name = op.entry.name
    BY <1>4, <1>6 DEF IsFolder
  <2>2. ~IsFolder(dirs[op.cl])
    BY <1>4, <1>5, RowNumbers DEF Holds, IsFolder
  <2>3. StoreTables' = {[at |-> d, name |-> dirs'[d][0].name] : d \in {c \in Clusters : IsFolder(dirs'[c])}}
    BY DEF StoreTables, TableOf
  <2> QED BY <1>4, <1>6, <2>1, <2>2, <2>3 DEF StoreTables, TableOf, Store!Opened
<1>20. {Store!Opened(g.to, g.name) : g \in {FolderAsked}} = {Store!Opened(op.cl, op.entry.name)}
  BY DEF FolderAsked
<1> QED BY <1>2, <1>12, <1>16, <1>17, <1>18, <1>19, <1>20 DEF Store!Ends

\* The steps that fill a file change no table and no entry.
LEMMA FileDataKeeps ==
  ASSUME SInv, Next, FileData
  PROVE  /\ Entries' = Entries /\ \A x \in Entries : At(x)' = At(x)
         /\ StoreTables' = StoreTables
<1>1. CountInv /\ Defined /\ dirs \in [Clusters -> Table]
  BY SFacts DEF FileData, Defined
<1>2. /\ \A d \in Clusters : Holds(dirs[d]) => dirs'[d] = dirs[d]
      /\ \A d \in Clusters, r \in Rows : dirs'[d][r].used => dirs'[d] = dirs[d]
  BY <1>1, PartWritten
<1>3. ASSUME NEW x \in Clusters \X ScanRows
      PROVE  At(x)' = At(x) \/ (~At(x).used /\ ~At(x)'.used)
  <2>1. x[1] \in Clusters /\ x[2] \in Rows
    BY RowNumbers
  <2> QED BY <1>2, <2>1 DEF At, Holds
<1>4. ASSUME NEW d \in Clusters
      PROVE  /\ IsFolder(dirs'[d]) <=> IsFolder(dirs[d])
             /\ IsFolder(dirs[d]) => dirs'[d][0].name = dirs[d][0].name
  BY <1>2, RowNumbers DEF IsFolder, Holds
<1> QED BY <1>3, <1>4, EntriesSame, TablesSame

LEMMA FilePartStored ==
  ASSUME SInv, Next, FileData
  PROVE  UNCHANGED Svars \/ Store!Ends
<1>1. op.pc = "wf_data" /\ Defined /\ op \in Calls /\ CountInv
  BY SFacts DEF FileData, Defined
<1>2. /\ Entries' = Entries /\ \A x \in Entries : At(x)' = At(x)
      /\ StoreTables' = StoreTables
  BY FileDataKeeps
<1>3. StoreMode = "busy"
  BY <1>1, Modes
<1>4. PICK y : y = <<op.parent, op.row>>
  OBVIOUS
<1>5. Complete = Entries \ {y}
  BY <1>1, <1>4 DEF Complete, BeingMade
<1>6. CASE fat[op.cl] # EOF
  <2>1. op' = [op EXCEPT !.cl = fat[op.cl], !.part = @ + 1] /\ ret' = ret
    BY <1>6 DEF FileData
  <2>2. /\ op'.pc = "wf_data" /\ op'.parent = op.parent /\ op'.row = op.row
        /\ op'.entry = op.entry /\ op'.buf = op.buf
    BY <1>1, <2>1 DEF Calls
  <2>3. Complete' = Entries' \ {y}
    BY <1>4, <2>2 DEF Complete, BeingMade
  <2>4. StoreFiles' = StoreFiles /\ StoreFolders' = StoreFolders
    BY <1>1, <1>2, <1>5, <2>3, StoreSame
  <2>5. StoreMode' = "busy"
    BY <2>2 DEF StoreMode
  <2>6. StorePending' = StorePending
    BY <1>1, <2>2 DEF StorePending, FileAsked, FolderAsked
  <2> QED BY <1>2, <1>3, <2>1, <2>4, <2>5, <2>6 DEF Svars
<1>7. CASE fat[op.cl] = EOF
  <2>1. op' = Step("idle") /\ ret' = Code(0)
    BY <1>7 DEF FileData, Return
  <2>2. /\ StoreMode' = "idle" /\ StorePending' = Store!Nothing /\ Complete' = Entries'
        /\ ret' = Store!Answer(0)
    BY <2>1, EndFacts
  <2>3. OfItsEntry /\ op.row \in ScanRows /\ op.entry.name \in ReqNames /\ op.parent \in Clusters
    BY <1>1, SFacts, NoTableInFile DEF CallStored, Calls
  <2>4. y \in Entries /\ At(y) = op.entry
    <3>1. op.entry.name # EmptyName
      BY <1>1, <2>3, SFacts DEF PlainFiles
    <3> QED BY <1>4, <2>3, <3>1 DEF OfItsEntry, Entries, Named, At
  <2>5. Complete' = Complete \union {y} /\ \A x \in Complete : At(x)' = At(x)
    BY <1>2, <1>5, <2>2, <2>4
  <2>6. At(y)' = op.entry /\ op.entry.attr # ATTR_SUBDIRECTORY
    BY <1>2, <2>3, <2>4 DEF OfItsEntry
  <2>7. StoreFiles' = StoreFiles \union {FileOf(y)'} /\ StoreFolders' = StoreFolders \union {}
    <3>1. PICK e : e = op.entry
      OBVIOUS
    <3>2. At(y)' = e /\ e.attr # ATTR_SUBDIRECTORY
      BY <2>6, <3>1
    <3>3. /\ StoreFiles' = StoreFiles \union (IF e.attr # ATTR_SUBDIRECTORY THEN {FileOf(y)'} ELSE {})
          /\ StoreFolders' = StoreFolders \union (IF e.attr = ATTR_SUBDIRECTORY THEN {FolderOf(y)'} ELSE {})
      BY <1>1, <2>5, <3>2, StoreGrows
    <3> QED BY <3>2, <3>3
  <2>8. FileOf(y)' = FileAsked
    <3>1. Stored = Asked /\ diskFat' = diskFat
      BY <1>1, <2>1, StepPc, LastPart DEF FileData
    <3>2. Contents(diskFat', data', op.entry.cl)
            = [i \in 1 .. divceil(op.entry.size, CLUSTER_SIZE) |-> <<op.buf, i - 1>>]
      BY <2>3, <3>1 DEF Stored, Asked, OfItsEntry
    <3> QED BY <1>4, <2>6, <3>2 DEF FileOf, FileAsked, Target
  <2>9. StorePending = [files |-> {FileAsked}, folders |-> {}, tables |-> {}]
    BY <1>1 DEF StorePending
  <2>10. {Store!Opened(g.to, g.name) : g \in {}} = {}
    OBVIOUS
  <2> QED BY <1>2, <1>3, <2>2, <2>7, <2>8, <2>9, <2>10 DEF Store!Ends
<1> QED BY <1>6, <1>7

\* The release of the chain ends a delete.
LEMMA ReleaseEnds ==
  ASSUME SInv, Next, DeleteFileFat \/ DeleteFolderFat
  PROVE  Store!Ends
<1>1. op.pc \in {"df_fat", "dd_fat"} /\ Defined /\ dirs' = dirs /\ DiskInv
  BY SFacts DEF DeleteFileFat, DeleteFolderFat, Defined
<1>2. op' = Step("idle") /\ ret' = Code(0)
  <2>1. CASE DeleteFileFat
    <3>1. op.pc = "df_fat" /\ op.cl \in DataClusters /\ diskFat[op.cl] # EMPTY
      BY <1>1, <2>1, SFacts DEF CallStored, DeleteFileFat
    <3>2. fat = diskFat
      BY <1>1 DEF DiskInv, CacheCoherent
    <3>3. op.cl \in Clusters /\ Ends(fat, op.cl)
      BY <1>1, <3>1, <3>2, SFacts, WalkEnds, Numbers
    <3> QED BY <2>1, <3>3 DEF DeleteFileFat, Return
  <2>2. CASE DeleteFolderFat
    BY <2>2 DEF DeleteFolderFat, Return
  <2> QED BY <2>1, <2>2
<1>3. /\ StoreMode' = "idle" /\ StorePending' = Store!Nothing /\ Complete' = Entries'
      /\ ret' = Store!Answer(0)
  BY <1>2, EndFacts
<1>4. StoreMode = "busy" /\ StorePending = Store!Nothing /\ Complete = Entries
  BY <1>1, Modes, NonePending DEF Awaited
<1>5. Entries' = Entries /\ \A x \in Complete : At(x)' = At(x)
  BY <1>1 DEF Entries, Named, At
<1>6. StoreFiles' = StoreFiles /\ StoreFolders' = StoreFolders
  BY <1>1, <1>3, <1>4, <1>5, StoreSame
<1>7. StoreTables' = StoreTables
  BY <1>1, TablesSame
<1>8. {Store!Opened(g.to, g.name) : g \in {}} = {}
  OBVIOUS
<1> QED BY <1>3, <1>4, <1>6, <1>7, <1>8 DEF Store!Ends, Store!Nothing

\* The table of a deleted folder is no parent any more.
LEMMA TableTaken ==
  ASSUME SInv, Next, DeleteFolderTable
  PROVE  UNCHANGED Svars \/ Store!TableGone
<1>1. op.pc = "dd_table" /\ Defined /\ op \in Calls
  BY SFacts DEF DeleteFolderTable, Defined
<1>2. /\ op'.pc = "dd_fat" /\ ret' = ret
      /\ dirs' = [dirs EXCEPT ![op.cl] = ClearRow(op.table, 0)]
  BY DEF DeleteFolderTable, Step
<1>3. op.table = dirs[op.cl] /\ op.cl \in Clusters /\ op.table \in Table
  BY <1>1, SFacts, Numbers DEF CallSound, TableOfCall, Calls
<1>4. /\ dirs'[op.cl][0].used = FALSE
      /\ \A r \in ScanRows : dirs'[op.cl][r] = dirs[op.cl][r]
      /\ \A d \in Clusters : d # op.cl => dirs'[d] = dirs[d]
  BY <1>1, <1>2, <1>3, SFacts, RowNumbers DEF Table, ClearRow, Entry
<1>5. \A x \in Clusters \X ScanRows : At(x)' = At(x)
  BY <1>4 DEF At
<1>6. Entries' = Entries /\ \A x \in Entries : At(x)' = At(x)
  BY <1>5, EntriesSame
<1>7. Complete = Entries /\ Complete' = Entries'
  BY <1>1, <1>2 DEF Complete, BeingMade
<1>8. StoreFiles' = StoreFiles /\ StoreFolders' = StoreFolders
  BY <1>1, <1>6, <1>7, StoreSame
<1>9. StoreMode = "busy" /\ StoreMode' = "busy" /\ StorePending' = Store!Nothing
  BY <1>1, <1>2 DEF StoreMode, StorePending, Store!Nothing
<1>10. ~IsFolder(dirs'[op.cl])
  BY <1>4 DEF IsFolder
<1>11. CASE IsFolder(dirs[op.cl])
  <2>1. StorePending.tables = {TableOf(op.cl)} /\ StorePending.tables # {}
    BY <1>1, <1>11 DEF StorePending
  <2>2. StoreTables' = {[at |-> d, name |-> dirs'[d][0].name] : d \in {c \in Clusters : IsFolder(dirs'[c])}}
    BY DEF StoreTables, TableOf
  <2>3. StoreTables' = StoreTables \ {TableOf(op.cl)}
    BY <1>3, <1>4, <1>10, <1>11, <2>2 DEF StoreTables, TableOf
  <2> QED BY <1>2, <1>8, <1>9, <2>1, <2>3 DEF Store!TableGone
<1>12. CASE ~IsFolder(dirs[op.cl])
  <2>1. StorePending = Store!Nothing
    BY <1>1, <1>12 DEF StorePending, Store!Nothing
  <2>2. StoreTables' = StoreTables
    <3>1. \A d \in Clusters : /\ IsFolder(dirs'[d]) <=> IsFolder(dirs[d])
                              /\ IsFolder(dirs[d]) => dirs'[d][0].name = dirs[d][0].name
      BY <1>4, <1>10, <1>12
    <3> QED BY <3>1, TablesSame
  <2> QED BY <1>2, <1>8, <1>9, <2>1, <2>2 DEF Svars
<1> QED BY <1>11, <1>12


-----------------------------------------------------------------------------
(* Power on, power off *)

\* A step that leaves the tables alone.
LEMMA DirsKeepStore ==
  ASSUME SInv, Next, Defined, dirs' = dirs, Complete = Entries, op'.pc \notin Awaited
  PROVE  UNCHANGED <<StoreFiles, StoreFolders, StoreTables>> /\ StorePending' = Store!Nothing
<1>1. Complete' = Entries' /\ StorePending' = Store!Nothing
  BY DEF Awaited, Complete, BeingMade, StorePending, Store!Nothing
<1>2. Entries' = Entries /\ \A x \in Complete : At(x)' = At(x)
  BY DEF Entries, Named, At
<1>3. StoreFiles' = StoreFiles /\ StoreFolders' = StoreFolders
  BY <1>1, <1>2, StoreSame
<1> QED BY <1>1, <1>3, TablesSame

LEMMA BootStored ==
  ASSUME SInv, Next, BootSigned \/ BootEmpty \/ FormatFat
  PROVE  Store!Boot \/ Store!Format \/ UNCHANGED Svars
<1>1. /\ Defined /\ dirs' = dirs /\ op.pc \notin Awaited /\ op'.pc \notin Awaited /\ ret' = ret
  BY StepPc DEF BootSigned, BootEmpty, FormatFat, Defined, Awaited
<1>2. Complete = Entries /\ StorePending = Store!Nothing
  BY <1>1, NonePending
<1>3. UNCHANGED <<StoreFiles, StoreFolders, StoreTables>> /\ StorePending' = Store!Nothing
  BY <1>1, <1>2, DirsKeepStore
<1>4. CASE BootSigned
  <2>1. StoreMode = "off" /\ StoreMode' = "idle"
    BY <1>4, StepPc DEF BootSigned, StoreMode
  <2> QED BY <1>1, <1>2, <1>3, <2>1 DEF Store!Boot
<1>5. CASE BootEmpty
  <2>1. StoreMode = "new" /\ StoreMode' = "formatting"
    BY <1>5, StepPc DEF BootEmpty, StoreMode
  <2> QED BY <1>1, <1>2, <1>3, <2>1 DEF Store!Format
<1>6. CASE FormatFat
  <2>1. StoreMode = "formatting" /\ StoreMode' = "formatting"
    BY <1>6, StepPc DEF FormatFat, StoreMode
  <2> QED BY <1>1, <1>2, <1>3, <2>1 DEF Svars
<1> QED BY <1>4, <1>5, <1>6

LEMMA FormatRootMade ==
  ASSUME SInv, Next, FormatRoot
  PROVE  Store!Formatted
<1>1. /\ Defined /\ op.pc = "fmt_root" /\ op'.pc = "idle" /\ ret' = ret
      /\ dirs' = [dirs EXCEPT ![ROOT] = [ZeroTable EXCEPT ![0] = DirEntry(RootName, ROOT)]]
  BY StepPc DEF FormatRoot, Defined
<1>2. Blank /\ dirs \in [Clusters -> Table] /\ ROOT \in Clusters
  BY <1>1, SFacts, Numbers DEF CallSound
<1>3. /\ dirs'[ROOT][0] = DirEntry(RootName, ROOT)
      /\ \A r \in ScanRows : dirs'[ROOT][r] = ZeroEntry
      /\ \A d \in Clusters : d # ROOT => dirs'[d] = dirs[d]
  BY <1>1, <1>2, RowNumbers DEF ZeroTable
<1>4. ASSUME NEW x \in Clusters \X ScanRows PROVE ~At(x).used /\ ~At(x)'.used
  <2>1. ~At(x).used
    BY <1>2, RowNumbers DEF Blank, Holds, At
  <2>2. CASE x[1] = ROOT
    BY <1>3, <2>1, <2>2 DEF At, ZeroEntry
  <2>3. CASE x[1] # ROOT
    BY <1>3, <2>1, <2>3 DEF At
  <2> QED BY <2>1, <2>2, <2>3
<1>5. Entries' = Entries /\ \A x \in Entries : At(x)' = At(x)
  BY <1>4, EntriesSame
<1>6. Complete = Entries /\ Complete' = Entries'
  BY <1>1 DEF Complete, BeingMade
<1>7. StoreFiles' = StoreFiles /\ StoreFolders' = StoreFolders
  BY <1>1, <1>5, <1>6, StoreSame
<1>8. StoreTables' = {Store!Opened(ROOT, RootName)}
  <2>1. IsFolder(dirs'[ROOT]) /\ dirs'[ROOT][0].name = RootName
    BY <1>3 DEF IsFolder, DirEntry
  <2>2. \A d \in Clusters : d # ROOT => ~IsFolder(dirs'[d])
    BY <1>2, <1>3, RowNumbers DEF Blank, Holds, IsFolder
  <2>3. StoreTables' = {[at |-> d, name |-> dirs'[d][0].name] : d \in {c \in Clusters : IsFolder(dirs'[c])}}
    BY DEF StoreTables, TableOf
  <2> QED BY <1>2, <2>1, <2>2, <2>3 DEF Store!Opened
<1>9. /\ StoreMode = "formatting" /\ StoreMode' = "idle"
      /\ StorePending = Store!Nothing /\ StorePending' = Store!Nothing
  BY <1>1 DEF StoreMode, StorePending, Store!Nothing
<1> QED BY <1>1, <1>7, <1>8, <1>9 DEF Store!Formatted

\* What a loss of power leaves.
LEMMA LossFacts ==
  ASSUME SInv, Next, PowerLoss
  PROVE  /\ Defined /\ dirs' = dirs /\ diskFat' = diskFat /\ data' = data
         /\ StoreMode \in {"formatting", "idle", "busy"} /\ StoreMode' = "off"
         /\ StorePending' = Store!Nothing /\ ret' = Store!Answer(0)
         /\ StoreTables' = StoreTables /\ Complete' = Entries /\ \A x \in Entries : At(x)' = At(x)
         /\ op \in Calls /\ CountInv
<1>1. /\ Defined /\ op.pc # "off" /\ dirs' = dirs /\ diskFat' = diskFat /\ data' = data
      /\ signed' = signed /\ op'.pc = "off" /\ ret' = Code(0)
  BY StepPc DEF PowerLoss, Defined
<1>2. signed /\ op \in Calls /\ CountInv
  BY <1>1, SFacts DEF Unsigned, DiskInv
<1>3. StoreMode \in {"formatting", "idle", "busy"} /\ StoreMode' = "off"
  BY <1>1, <1>2 DEF StoreMode, Defined
<1>4. StorePending' = Store!Nothing /\ ret' = Store!Answer(0) /\ Complete' = Entries'
  BY <1>1 DEF StorePending, Store!Nothing, Store!Answer, Code, Complete, BeingMade
<1>5. Entries' = Entries /\ \A x \in Entries : At(x)' = At(x)
  BY <1>1 DEF Entries, Named, At
<1> QED BY <1>1, <1>2, <1>3, <1>4, <1>5, TablesSame

LEMMA LossOutsideStored ==
  ASSUME SInv, Next, PowerLoss, op.pc \notin {"mk_table", "wf_data"}
  PROVE  Store!PowerLost
<1>1. Complete = Entries
  BY DEF Complete, BeingMade
<1>2. StoreFiles' = StoreFiles /\ StoreFolders' = StoreFolders
  BY <1>1, LossFacts, StoreSame
<1> QED BY <1>2, LossFacts DEF Store!PowerLost, Store!CutOff

\* The folder has its entry and no table.
LEMMA LossInFolderStored ==
  ASSUME SInv, Next, PowerLoss, op.pc = "mk_table"
  PROVE  Store!PowerLost
<1>1. /\ Defined /\ Complete' = Entries /\ op \in Calls /\ \A x \in Entries : At(x)' = At(x)
  BY LossFacts
<1>2. /\ op.row \in ScanRows /\ op.entry.name \in ReqNames /\ op.parent \in Clusters
      /\ dirs[op.parent][op.row] = DirEntry(op.entry.name, op.cl)
  BY <1>1, SFacts DEF CallStored, Calls
<1>3. PICK y : y = <<op.parent, op.row>>
  OBVIOUS
<1>4. y \in Entries /\ At(y) = DirEntry(op.entry.name, op.cl)
  <2>1. op.entry.name # EmptyName
    BY <1>1, <1>2, SFacts DEF PlainFiles
  <2> QED BY <1>2, <1>3, <2>1 DEF Entries, Named, At, DirEntry
<1>5. Complete = Entries \ {y}
  BY <1>3 DEF Complete, BeingMade
<1>6. Complete' = Complete \union {y} /\ \A x \in Complete : At(x)' = At(x)
  BY <1>1, <1>4, <1>5
<1>7. At(y)' = DirEntry(op.entry.name, op.cl)
  BY <1>1, <1>4
<1>8. /\ DirEntry(op.entry.name, op.cl).attr = ATTR_SUBDIRECTORY
      /\ DirEntry(op.entry.name, op.cl).name = op.entry.name
      /\ DirEntry(op.entry.name, op.cl).cl = op.cl
  BY DEF DirEntry
<1>9. StoreFiles' = StoreFiles \union {} /\ StoreFolders' = StoreFolders \union {FolderOf(y)'}
  BY <1>1, <1>6, <1>7, <1>8, StoreGrows
<1>10. FolderOf(y)' = FolderAsked
  BY <1>3, <1>7, <1>8 DEF FolderOf, FolderAsked, Target
<1>11. StorePending.folders = {FolderAsked}
  BY DEF StorePending
<1> QED BY <1>9, <1>10, <1>11, LossFacts DEF Store!PowerLost, Store!CutOff

\* The file has its entry and its clusters, and what was on them.
LEMMA LossInFileStored ==
  ASSUME SInv, Next, PowerLoss, op.pc = "wf_data"
  PROVE  Store!PowerLost
<1>1. /\ Defined /\ Complete' = Entries /\ op \in Calls /\ CountInv
      /\ diskFat' = diskFat /\ data' = data /\ \A x \in Entries : At(x)' = At(x)
  BY LossFacts
<1>2. /\ OfItsEntry /\ PartsWritten /\ op.row \in ScanRows /\ op.entry.name \in ReqNames
      /\ op.parent \in Clusters
  BY <1>1, SFacts, NoTableInFile DEF CallStored, Calls
<1>3. PICK y : y = <<op.parent, op.row>>
  OBVIOUS
<1>4. y \in Entries /\ At(y) = op.entry
  <2>1. op.entry.name # EmptyName
    BY <1>1, <1>2, SFacts DEF PlainFiles
  <2> QED BY <1>2, <1>3, <2>1 DEF OfItsEntry, Entries, Named, At
<1>5. Complete = Entries \ {y}
  BY <1>3 DEF Complete, BeingMade
<1>6. Complete' = Complete \union {y} /\ \A x \in Complete : At(x)' = At(x)
  BY <1>1, <1>4, <1>5
<1>7. PICK e : e = op.entry
  OBVIOUS
<1>8. At(y)' = e /\ e.attr # ATTR_SUBDIRECTORY
  BY <1>1, <1>2, <1>4, <1>7 DEF OfItsEntry
<1>9. /\ StoreFiles' = StoreFiles \union (IF e.attr # ATTR_SUBDIRECTORY THEN {FileOf(y)'} ELSE {})
      /\ StoreFolders' = StoreFolders \union (IF e.attr = ATTR_SUBDIRECTORY THEN {FolderOf(y)'} ELSE {})
  BY <1>1, <1>6, <1>8, StoreGrows
<1>10. PICK g : g = FileOf(y)'
  OBVIOUS
<1>11. g \in StoreFiles' /\ StoreFiles' = StoreFiles \union {g} /\ StoreFolders' = StoreFolders
  BY <1>8, <1>9, <1>10
<1>12. /\ g = [dir |-> y[1], name |-> e.name, size |-> e.size,
               text |-> Contents(diskFat, data, e.cl)]
  BY <1>1, <1>8, <1>10 DEF FileOf, Target
<1>13. Cardinality(Chain(diskFat, e.cl)) = divceil(op.entry.size, CLUSTER_SIZE)
  BY <1>2, <1>7 DEF PartsWritten, Needed
<1>14. DOMAIN g.text = 1 .. divceil(op.entry.size, CLUSTER_SIZE)
  BY <1>12, <1>13 DEF Contents
<1>15. /\ DOMAIN FileAsked.text = 1 .. divceil(op.entry.size, CLUSTER_SIZE)
       /\ FileAsked.dir = y[1] /\ FileAsked.name = e.name /\ FileAsked.size = e.size
  BY <1>3, <1>7 DEF FileAsked
<1>16. g = Store!File(FileAsked.dir, FileAsked.name, FileAsked.size, g.text)
  BY <1>12, <1>15 DEF Store!File
<1>17. FileAsked \in StorePending.files
  BY DEF StorePending
<1>18. Store!CutOff
  BY <1>11, <1>14, <1>15, <1>16, <1>17 DEF Store!CutOff
<1> QED BY <1>11, <1>18, LossFacts DEF Store!PowerLost

-----------------------------------------------------------------------------
(* The driver implements FileStore *)

LEMMA InitStore ==
  ASSUME Init PROVE Store!StoreInit
<1>1. /\ signed = FALSE /\ op.pc = "off" /\ ret = Code(0) /\ \A d \in Clusters : dirs[d] = ZeroTable
  BY StepPc DEF Init
<1>2. \A d \in Clusters, r \in Rows : ~dirs[d][r].used
  BY <1>1 DEF ZeroTable, ZeroEntry
<1>3. Entries = {}
  BY <1>2, RowNumbers DEF Entries, Named
<1>4. StoreFiles = {} /\ StoreFolders = {}
  BY <1>3 DEF StoreFiles, StoreFolders, Complete
<1>5. StoreTables = {}
  BY <1>2, RowNumbers DEF StoreTables, IsFolder
<1>6. StoreMode = "new" /\ StorePending = Store!Nothing
  BY <1>1 DEF StoreMode, StorePending, Store!Nothing
<1> QED BY <1>1, <1>4, <1>5, <1>6 DEF Store!StoreInit, Store!Answer, Code

LEMMA CallsStored ==
  ASSUME SInv, Next, NEW p \in ReqParents, NEW n \in ReqNames,
         ReadDirectory(p, n) \/ Read(p, n) \/ Write(p, n) \/ Delete(p, n)
  PROVE  Store!Call(p, n)
<1>1. CASE ReadDirectory(p, n)
  BY <1>1, ListStored
<1>2. CASE Read(p, n)
  <2>1. PICK size \in Sizes : ReadFails(p, n, size) \/ ReadCopies(p, n, size)
    BY <1>2 DEF Read
  <2> QED BY <2>1, ReadStored
<1>3. CASE Write(p, n)
  <2>1. CASE WriteRefused(p, n)
    BY <2>1, RefusalStored
  <2>2. CASE WriteFolder(p, n)
    BY <2>2, BeginFolderStored
  <2>3. ASSUME NEW size \in Sizes, WriteWild(p, n, size) PROVE Store!Call(p, n)
    BY <2>3, WildStored
  <2>4. ASSUME NEW size \in Sizes, WriteNoSpace(p, n, size) PROVE Store!Call(p, n)
    BY <2>4, NoSpaceStored
  <2>5. ASSUME NEW size \in Sizes, NEW b \in Bufs, WriteFile(p, n, size, b) PROVE Store!Call(p, n)
    BY <2>5, BeginFileStored
  <2> QED BY <1>3, <2>1, <2>2, <2>3, <2>4, <2>5 DEF Write
<1>4. CASE Delete(p, n)
  BY <1>4, DeleteRefusedStored, RemoveFileStored, RemoveFolderStored DEF Delete
<1> QED BY <1>1, <1>2, <1>3, <1>4

LEMMA NextStore ==
  ASSUME SInv, HasRoom, SInv', [Next]_vars
  PROVE  [Store!StoreNext]_Svars
<1>1. CASE UNCHANGED vars
  <2>1. Entries' = Entries /\ Complete' = Complete
    BY <1>1 DEF vars, Entries, Named, Complete, BeingMade
  <2> QED
    BY <1>1, <2>1 DEF vars, Svars, StoreMode, StoreFiles, StoreFolders, StoreTables, StorePending,
                FileOf, FolderOf, TableOf, FileAsked, FolderAsked, At, Target
<1>2. CASE Next /\ ~Defined
  <2>1. UNCHANGED vars
    BY <1>2, WildStays DEF Defined
  <2> QED BY <1>1, <2>1
<1>3. CASE Next /\ Defined
  <2>1. ASSUME NEW p \in ReqParents, NEW n \in ReqNames,
               ReadDirectory(p, n) \/ Read(p, n) \/ Write(p, n) \/ Delete(p, n)
        PROVE  Store!StoreNext
    <3>1. Store!Call(p, n) /\ p \in Clusters
      BY <1>3, <2>1, CallsStored, Parents
    <3> QED BY <3>1 DEF Store!StoreNext
  <2>2. CASE BootSigned \/ BootEmpty \/ FormatFat
    BY <1>3, <2>2, BootStored DEF Store!StoreNext
  <2>3. CASE FormatRoot
    BY <1>3, <2>3, FormatRootMade DEF Store!StoreNext
  <2>4. CASE PowerLoss
    BY <1>3, <2>4, LossOutsideStored, LossInFolderStored, LossInFileStored DEF Store!StoreNext
  <2>5. CASE FolderParent \/ FileParent
    BY <1>3, <2>5, ParentKeepsStore
  <2>6. CASE FolderTable
    BY <1>3, <2>6, FolderMade DEF Store!StoreNext
  <2>7. CASE FileData
    BY <1>3, <2>7, FilePartStored DEF Store!StoreNext
  <2>8. CASE DeleteFileFat \/ DeleteFolderFat
    BY <1>3, <2>8, ReleaseEnds DEF Store!StoreNext
  <2>9. CASE DeleteFolderTable
    BY <1>3, <2>9, TableTaken DEF Store!StoreNext
  <2>10. CASE Undefined
    BY <1>3, <2>10 DEF Undefined, Defined
  <2> QED
    BY <1>3, <2>1, <2>2, <2>3, <2>4, <2>5, <2>6, <2>7, <2>8, <2>9, <2>10 DEF Next
<1> QED BY <1>1, <1>2, <1>3

\* Every call is the step of the store that its arguments ask for.
LEMMA AskedStored ==
  ASSUME SInv, Next, NEW p \in ReqParents, NEW n \in ReqNames
  PROVE  DoesAsAsked(p, n)
<1>1. /\ ReadDirectory(p, n) => Store!ListFolder(p, n)
      /\ WriteRefused(p, n)  => Store!WriteRefusal(p, n)
      /\ WriteFolder(p, n)   => \E h \in Clusters : Store!BeginFolder(p, n, h)
  BY ListStored, RefusalStored, BeginFolderStored
<1>2. /\ DeleteRefused(p, n) => Store!DeleteRefusal(p, n)
      /\ DeleteFile(p, n)    => Store!RemoveFile(p, n)
      /\ DeleteFolder(p, n)  => Store!RemoveFolder(p, n)
  BY DeleteRefusedStored, RemoveFileStored, RemoveFolderStored
<1>3. ASSUME NEW size \in Sizes
      PROVE  /\ ReadFails(p, n, size) \/ ReadCopies(p, n, size) => Store!ReadFile(p, n, size)
             /\ WriteWild(p, n, size)    => Store!LeavesDisk(p, n)
             /\ WriteNoSpace(p, n, size) => Store!NoSpace(p, n, size)
  BY ReadStored, WildStored, NoSpaceStored
<1>4. ASSUME NEW size \in Sizes, NEW b \in Bufs, WriteFile(p, n, size, b)
      PROVE  Store!BeginFile(p, n, size, b)
  BY <1>4, BeginFileStored
<1> QED BY <1>1, <1>2, <1>3, <1>4 DEF DoesAsAsked

\* The driver implements FileStore as long as no folder is full: every disk
\* write, with power lost after any of them, is a step of the store or leaves
\* it as it is.
THEOREM StoreImplemented == PlainFiles /\ Spec /\ []HasRoom => ImplementsStore
<1>1. Init => Store!StoreInit
  BY InitStore
<1>2. SInv /\ HasRoom /\ SInv' /\ [Next]_vars => [Store!StoreNext]_Svars
  BY NextStore
<1>3. Store!StoreInit /\ [][Store!StoreNext]_Svars => Store!StoreSpec
  BY DEF Store!StoreSpec, Store!svars, Svars
<1> QED BY <1>1, <1>2, <1>3, StoredInvariance, PTL DEF Spec, ImplementsStore

\* Every call does what its arguments ask for: read returns the text of the
\* file it names, write begins the file or folder it was given, delete removes
\* no other.
THEOREM CallsKept == PlainFiles /\ Spec /\ []HasRoom => CallsAsAsked
<1>1. SInv /\ [Next]_vars => [\A p \in ReqParents, n \in ReqNames : DoesAsAsked(p, n)]_vars
  BY AskedStored
<1> QED BY <1>1, StoredInvariance, PTL DEF Spec, CallsAsAsked

-----------------------------------------------------------------------------
(* Room *)

\* Rows in use have different names, but for the one that write marks.
LEMMA TidyRoom ==
  ASSUME FewNames, NEW t, NEW d, Tidy(t, d)
  PROVE  \E r \in WriteRows \ {0} : ~t[r].used
<1> DEFINE W == 1 .. DIR_ROWS - 2
           S == W \ {d}
           name == [r \in S |-> t[r].name]
<1>1. W = WriteRows \ {0} /\ W \subseteq ScanRows /\ DIR_ROWS - 2 \in Nat
  BY RowNumbers
<1>2. IsFiniteSet(W) /\ Cardinality(W) = DIR_ROWS - 2
  BY <1>1, FS_Interval
<1>3. IsFiniteSet(ReqNames) /\ Cardinality(ReqNames) \in Nat
      /\ Cardinality(ReqNames) + 1 < DIR_ROWS - 2
  BY FS_CardinalityType DEF FewNames
<1>4. IsFiniteSet(S) /\ Cardinality(S) = IF d \in W THEN Cardinality(W) - 1 ELSE Cardinality(W)
  BY <1>2, FS_RemoveElement
<1>5. Cardinality(ReqNames) < Cardinality(S)
  <2> HIDE DEF S, W
  <2> QED BY <1>1, <1>2, <1>3, <1>4
<1> SUFFICES ASSUME \A r \in W : t[r].used PROVE FALSE
  BY <1>1
<1>6. ASSUME NEW r \in S PROVE t[r].name \in ReqNames /\ r \in ScanRows
  <2>1. r \in ScanRows /\ r # d /\ t[r].used
    BY <1>1
  <2> QED BY <2>1 DEF Tidy
<1>7. name \in [S -> ReqNames]
  BY <1>6
<1>8. \E x, y \in S : x # y /\ name[x] = name[y]
  <2> HIDE DEF S, name
  <2> QED BY <1>3, <1>4, <1>5, <1>7, FS_PigeonHole
<1>9. PICK x \in S, y \in S : x # y /\ t[x].name = t[y].name
  BY <1>8
<1> QED BY <1>6, <1>9 DEF Tidy

\* Where callers use few names, no folder is ever full: no two rows have the
\* same name, whatever was written and deleted and wherever power was lost.
THEOREM RoomKept == PlainFiles /\ FewNames /\ Spec => []HasRoom
<1> SUFFICES ASSUME FewNames PROVE PlainFiles /\ Spec => []HasRoom
  OBVIOUS
<1>1. SInv => HasRoom
  BY TidyRoom DEF SInv, TablesTidy, HasRoom
<1>2. PlainFiles /\ Init /\ CInv => SInv
  BY InitStored DEF SInv
<1> QED BY <1>1, <1>2, CountedInvariance, StepStored, PTL DEF Spec

\* So callers that use few names see what FileStore promises.
THEOREM FewNamesImplemented == PlainFiles /\ FewNames /\ Spec => ImplementsStore /\ CallsAsAsked
  BY RoomKept, StoreImplemented, CallsKept
=============================================================================
