------------------------------- MODULE Fat32 -------------------------------
(***************************************************************************)
(* The FAT32 driver of the kernel (fat32.c): the on-disk file allocation   *)
(* table and directory tables, the driver's cached FAT, and the calls      *)
(* initialize_filesystem_fat32, read_directory, read, write and delete.    *)
(*                                                                         *)
(* System calls run with interrupts disabled, so two calls never overlap.  *)
(* What can fall between two steps of a call is a loss of power.  Every    *)
(* write_clusters is therefore a step of its own: a call performs its      *)
(* checks and its first disk write in one step (nothing before the first   *)
(* write survives a power loss) and each further disk write in another.    *)
(***************************************************************************)
EXTENDS Integers, FiniteSets, Sequences, FiniteSetsExt

CONSTANTS
  CLUSTER_MAP_SIZE,  \* words of the FAT (512)
  DIR_ROWS,          \* rows of a directory table, CLUSTER_SIZE / 32 (64)
  CLUSTER_SIZE,      \* bytes of a cluster (2048)
  AliasWords,        \* how many empty words the scan to 0x800 may meet
                     \* behind the FAT (dir_table_buf, cluster_buf, ...)
  Bases, NoBase,     \* 8-byte names of entries, the all-zero name
  Exts, NoExt,       \* 3-byte extensions, the all-zero extension
  RootBase,          \* "root"
  ReqNames,          \* the names callers pass
  ReqParents,        \* the parent_cluster_number values callers pass
  Sizes,             \* the buffer_size values callers pass
  Bufs,              \* contents callers write
  Image              \* Image[b]: the bytes of b read as a directory table

EMPTY == 0                    \* FAT32_FAT_EMPTY_ENTRY
EOF   == 268435455            \* FAT32_FAT_END_OF_FILE, CLUSTER_1_VALUE
C0    == 268435440            \* CLUSTER_0_VALUE
FATC  == 1                    \* FAT_CLUSTER_NUMBER
ROOT  == 2                    \* ROOT_CLUSTER_NUMBER
ATTR_SUBDIRECTORY == 16

Clusters == 0 .. CLUSTER_MAP_SIZE - 1
Rows     == 0 .. DIR_ROWS - 1

Name      == [base : Bases \union {NoBase, RootBase}, ext : Exts \union {NoExt}]
EmptyName == [base |-> NoBase, ext |-> NoExt]
RootName  == [base |-> RootBase, ext |-> NoExt]

Entry == [name : Name, attr : Nat, used : BOOLEAN, cl : Nat, size : Nat]
Table == [Rows -> Entry]

ASSUME SizeAssumption ==
  /\ CLUSTER_MAP_SIZE \in Nat /\ CLUSTER_MAP_SIZE > 3 /\ CLUSTER_MAP_SIZE < C0
  /\ DIR_ROWS \in Nat /\ DIR_ROWS > 2
  /\ CLUSTER_SIZE \in Nat \ {0}
  /\ AliasWords \subseteq Nat \ {0}

ASSUME RequestAssumption ==
  /\ NoBase \notin Bases /\ RootBase \notin Bases /\ RootBase # NoBase
  /\ NoExt \notin Exts
  /\ ReqNames \subseteq Name
  /\ ReqParents \subseteq ROOT .. CLUSTER_MAP_SIZE - 1
  /\ Sizes \subseteq Nat
  /\ Image \in [Bufs -> Table]

VARIABLES
  signed,   \* the boot sector holds fs_signature
  diskFat,  \* cluster 1
  dirs,     \* dirs[c]: the bytes of cluster c read as a directory table
  data,     \* data[c]: the part of a file the bytes of cluster c are
  fat,      \* driverState.fat_table
  op,       \* the call in flight and how far it has come
  ret       \* what the last call returned: code and buffer contents
            \* (0 and nothing while no call has returned)

vars == <<signed, diskFat, dirs, data, fat, op, ret>>

ZeroEntry == [name |-> EmptyName, attr |-> 0, used |-> FALSE, cl |-> 0, size |-> 0]
ZeroTable == [r \in Rows |-> ZeroEntry]
ZeroFat   == [c \in Clusters |-> EMPTY]
Raw       == <<>>                        \* a cluster that holds no file part

(***************************************************************************)
(* The call in flight.  pc says which disk write is next:                  *)
(*   off                   the machine has no power                        *)
(*   fmt_fat, fmt_root     create_fat32                                    *)
(*   idle                  no call                                         *)
(*   mk_parent, mk_table   write, folder branch                            *)
(*   wf_parent, wf_data    write, file branch                              *)
(*   df_fat                delete, file branch                             *)
(*   dd_table, dd_fat      delete, folder branch                           *)
(*   wild                  the call left the driver's own data: undefined  *)
(***************************************************************************)
PCs == {"off", "fmt_fat", "fmt_root", "idle", "mk_parent", "mk_table",
        "wf_parent", "wf_data", "df_fat", "dd_table", "dd_fat", "wild"}

Step(pc) == [pc |-> pc, parent |-> 0, row |-> 0, cl |-> 0, entry |-> ZeroEntry,
             table |-> ZeroTable, buf |-> <<>>, part |-> 0]

Code(n) == [code |-> n, out |-> <<>>]

-----------------------------------------------------------------------------
(* The FAT *)

\* Mutant: the scan also takes the last cluster of a chain for empty.
FreeOrLast(f) == {c \in Clusters : c > ROOT /\ f[c] \in {EMPTY, EOF}}
Free(f) == {c \in Clusters : f[c] = EMPTY}

\* The clusters a walk from c visits while it stays inside the map.
Closed(f, S) == \A x \in S : f[x] \in Clusters => f[x] \in S
Chain(f, c)  ==
  LET Walks == {S \in SUBSET Clusters : c \in S /\ Closed(f, S)}
  IN  {x \in Clusters : \A S \in Walks : x \in S}
Ends(f, c)   == \E x \in Chain(f, c) : f[x] = EOF

\* The i-th cluster of the walk from c.
ChainAt(f, c, i) ==
  CHOOSE x \in Chain(f, c) :
    Cardinality(Chain(f, x)) = Cardinality(Chain(f, c)) + 1 - i

\* The first n empty words of the map.
FirstFree(f, n) ==
  {c \in Free(f) : Cardinality({x \in Free(f) : x < c}) < n}

\* The allocation loop: each cluster of A links to the next one, the last
\* one to `end`.
LinkUp(f, A, end) ==
  [c \in Clusters |->
     IF c \notin A THEN f[c]
     ELSE IF \E x \in A : x > c THEN Min({x \in A : x > c}) ELSE end]

\* Mutant: the loop clears the next word instead of the current one.
ReleaseTail(f, c) ==
  [x \in Clusters |-> IF x \in Chain(f, c) \ {c} THEN EMPTY ELSE f[x]]
\* The loops that put EMPTY in every word of a chain.
Release(f, c) == [x \in Clusters |-> IF x \in Chain(f, c) THEN EMPTY ELSE f[x]]

divceil(m, n) == IF m % n = 0 THEN m \div n ELSE m \div n + 1

-----------------------------------------------------------------------------
(* Directory tables *)

\* Row 0 in use: the test of read_directory and read.
Present(t) == t[0].used
\* Row 0 in use and a folder: the test of write and delete.
IsFolder(t) == t[0].used /\ t[0].attr = ATTR_SUBDIRECTORY

\* The rows write looks at: the last row is never reached.
WriteRows == 0 .. DIR_ROWS - 2
ScanRows  == 1 .. DIR_ROWS - 1

\* The search for an entry of the same name does not ask whether the row is
\* in use, and starts at the folder's own row.
Duplicate(t, n) == \E r \in WriteRows : t[r].name = n

\* Mutants: the scan reaches the last row; the row is taken whether in use or
\* not.
EntryRowAll(t) == IF \E r \in Rows : ~t[r].used THEN Max({r \in Rows : ~t[r].used}) ELSE 0
EntryRowLast(t) == DIR_ROWS - 2
\* entryRow: the last unused row seen, 0 when there is none.
EntryRow(t) ==
  IF \E r \in WriteRows : ~t[r].used THEN Max({r \in WriteRows : ~t[r].used}) ELSE 0

\* table[parent_cluster_number].user_attribute = UATTR_NOT_EMPTY.  Rows past
\* the table lie in cluster_buf, which nothing reads, up to twice its length.
MarkRow(t, p) == IF p \in Rows THEN [t EXCEPT ![p].used = TRUE] ELSE t
MarkInBounds(p) == p < 2 * DIR_ROWS

\* Mutant: the row stays in use.
ClearRowUsed(t, r) == [t EXCEPT ![r].name = EmptyName, ![r].attr = 0]
\* Name, extension and both attributes are zeroed; cluster and size stay.
ClearRow(t, r) ==
  [t EXCEPT ![r].name = EmptyName, ![r].attr = 0, ![r].used = FALSE]

FileEntry(n, c, s) == [name |-> n, attr |-> 0, used |-> TRUE, cl |-> c, size |-> s]
DirEntry(n, c) ==
  [name |-> n, attr |-> ATTR_SUBDIRECTORY, used |-> TRUE, cl |-> c, size |-> 0]

-----------------------------------------------------------------------------
(* Power on, power off *)

Init ==
  /\ signed = FALSE
  /\ diskFat = ZeroFat
  /\ dirs = [c \in Clusters |-> ZeroTable]
  /\ data = [c \in Clusters |-> Raw]
  /\ fat = ZeroFat
  /\ op = Step("off")
  /\ ret = Code(0)

\* initialize_filesystem_fat32 of a signed disk: the FAT is cached.
BootSigned ==
  /\ op.pc = "off" /\ signed
  /\ fat' = diskFat
  /\ op' = Step("idle")
  /\ UNCHANGED <<signed, diskFat, dirs, data, ret>>

\* initialize_filesystem_fat32 of an unsigned disk: create_fat32 writes the
\* signature first.
BootEmpty ==
  /\ op.pc = "off" /\ ~signed
  /\ signed' = TRUE
  /\ fat' = [fat EXCEPT ![0] = C0, ![FATC] = EOF, ![ROOT] = EOF]
  /\ op' = Step("fmt_fat")
  /\ UNCHANGED <<diskFat, dirs, data, ret>>

FormatFat ==
  /\ op.pc = "fmt_fat"
  /\ diskFat' = fat
  /\ op' = Step("fmt_root")
  /\ UNCHANGED <<signed, dirs, data, fat, ret>>

FormatRoot ==
  /\ op.pc = "fmt_root"
  /\ dirs' = [dirs EXCEPT ![ROOT] = [ZeroTable EXCEPT ![0] = DirEntry(RootName, ROOT)]]
  /\ op' = Step("idle")
  /\ UNCHANGED <<signed, diskFat, data, fat, ret>>

\* Power is lost: what is on disk stays, memory is zero at the next boot.
PowerLoss ==
  /\ op.pc \notin {"off", "wild"}
  /\ fat' = ZeroFat
  /\ op' = Step("off")
  /\ ret' = Code(0)
  /\ UNCHANGED <<signed, diskFat, dirs, data>>

-----------------------------------------------------------------------------
(* read_directory, read *)

Idle == op.pc = "idle"
Return(n) == op' = Step("idle") /\ ret' = Code(n)
Reply(n) == Return(n) /\ UNCHANGED <<signed, diskFat, dirs, data>>

FolderHits(t, n) == {r \in ScanRows : t[r].name.base = n.base}

\* The test for a folder is `attribute == 1`.
ReadDirectoryCode(t, n) ==
  LET hits == FolderHits(t, n)
  IN  IF ~Present(t) THEN -1
      ELSE IF hits = {} THEN 2
      ELSE IF t[Min(hits)].attr = 1 THEN 0 ELSE 1

ReadDirectory(p, n) == Idle /\ Reply(ReadDirectoryCode(dirs[p], n)) /\ UNCHANGED fat

\* The first row of the name, in use or not.
ReadHits(t, n) == {r \in ScanRows : t[r].name = n}
\* Mutant: a file as long as the buffer does not fit.
ReadCodeShort(t, n, size) ==
  LET hits == ReadHits(t, n)
  IN  IF ~Present(t) THEN -1
      ELSE IF hits = {} THEN 3
      ELSE IF t[Min(hits)].attr = 1 THEN 1
      ELSE IF t[Min(hits)].size >= size THEN 2 ELSE 0
\* The test for a folder is `attribute == 1` here too.
ReadCode(t, n, size) ==
  LET hits == ReadHits(t, n)
  IN  IF ~Present(t) THEN -1
      ELSE IF hits = {} THEN 3
      ELSE IF t[Min(hits)].attr = 1 THEN 1
      ELSE IF t[Min(hits)].size > size THEN 2 ELSE 0

\* The FAT is read back once the parent's row 0 is seen to be in use.
ReadFails(p, n, size) ==
  /\ Idle /\ ReadCode(dirs[p], n, size) # 0
  /\ Reply(ReadCode(dirs[p], n, size))
  /\ fat' = IF Present(dirs[p]) THEN diskFat ELSE fat

\* The copy loop follows the FAT to the end-of-file mark.
ReadCopies(p, n, size) ==
  LET e == dirs[p][Min(ReadHits(dirs[p], n))]
  IN  /\ Idle /\ ReadCode(dirs[p], n, size) = 0
      /\ fat' = diskFat
      /\ IF e.cl \in Clusters /\ Ends(diskFat, e.cl)
         THEN /\ op' = Step("idle")
              /\ ret' = [code |-> 0,
                         out |-> [i \in 1 .. Cardinality(Chain(diskFat, e.cl)) |->
                                    data[ChainAt(diskFat, e.cl, i)]]]
         ELSE op' = Step("wild") /\ ret' = Code(0)
      /\ UNCHANGED <<signed, diskFat, dirs, data>>

-----------------------------------------------------------------------------
(* write *)

\* The early returns of write before the FAT is read back.
WriteRefused(p, n) ==
  LET t == dirs[p]
  IN  /\ Idle
      /\ \/ ~IsFolder(t) /\ Reply(2)
         \/ IsFolder(t) /\ Duplicate(t, n) /\ Reply(1)
      /\ UNCHANGED fat

Writable(p, n) == Idle /\ IsFolder(dirs[p]) /\ ~Duplicate(dirs[p], n)

\* The scans run to 0x800 over a 512-word map.  A call that gets what it asks
\* for from words behind the map, or marks a row behind cluster_buf, changes
\* memory that is not the FAT's and goes on to report success.
WriteWild(p, n, size) ==
  /\ Writable(p, n)
  /\ \/ ~MarkInBounds(p)
     \/ size = 0 /\ Free(diskFat) = {}
     \/ /\ divceil(size, CLUSTER_SIZE) > Cardinality(Free(diskFat))
        /\ \E k \in AliasWords :
             divceil(size, CLUSTER_SIZE) <= Cardinality(Free(diskFat)) + k
  /\ op' = Step("wild")
  /\ ret' = Code(0)
  /\ UNCHANGED <<signed, diskFat, dirs, data, fat>>

\* Folder branch up to the FAT's write.
WriteFolder(p, n) ==
  LET new == Min(Free(diskFat))
  IN  /\ Writable(p, n) /\ MarkInBounds(p) /\ Free(diskFat) # {}
      /\ fat' = [diskFat EXCEPT ![new] = EOF]
      /\ diskFat' = fat'
      /\ op' = [Step("mk_parent") EXCEPT
                  !.parent = p, !.cl = new, !.row = EntryRow(dirs[p]),
                  !.entry = DirEntry(n, new), !.table = MarkRow(dirs[p], p)]
      /\ ret' = Code(0)
      /\ UNCHANGED <<signed, dirs, data>>

\* dir_table_buf with the new entry goes to the parent's cluster, then the
\* new folder's old bytes are read into dir_table_buf.
FolderParent ==
  /\ op.pc = "mk_parent"
  /\ dirs' = [dirs EXCEPT ![op.parent] = [op.table EXCEPT ![op.row] = op.entry]]
  /\ data' = [data EXCEPT ![op.parent] = Raw]
  /\ op' = [op EXCEPT !.pc = "mk_table", !.table = dirs'[op.cl],
                      !.entry.cl = op.parent]
  /\ UNCHANGED <<signed, diskFat, fat, ret>>

\* Mutant: the new folder's own row keeps its own cluster number.
FolderTableOwnNumber ==
  /\ op.pc = "mk_table"
  /\ dirs' = [dirs EXCEPT ![op.cl] = [op.table EXCEPT ![0] = [op.entry EXCEPT !.cl = op.cl]]]
  /\ data' = [data EXCEPT ![op.cl] = Raw]
  /\ Return(0)
  /\ UNCHANGED <<signed, diskFat, fat>>
FolderTable ==
  /\ op.pc = "mk_table"
  /\ dirs' = [dirs EXCEPT ![op.cl] = [op.table EXCEPT ![0] = op.entry]]
  /\ data' = [data EXCEPT ![op.cl] = Raw]
  /\ Return(0)
  /\ UNCHANGED <<signed, diskFat, fat>>

\* Mutant: the linked words stay in the cached FAT.
WriteNoSpaceKept(p, n, size) ==
  /\ Writable(p, n) /\ MarkInBounds(p) /\ size > 0
  /\ \E k \in AliasWords : divceil(size, CLUSTER_SIZE) > Cardinality(Free(diskFat)) + k
  /\ fat' = LinkUp(diskFat, Free(diskFat), CLUSTER_MAP_SIZE)
  /\ Reply(-1)
\* File branch with too few clusters: the empty words were linked, behind the
\* map too, and the loop puts EMPTY back; nothing is written to disk.
WriteNoSpace(p, n, size) ==
  LET A == Free(diskFat)
      linked == LinkUp(diskFat, A, CLUSTER_MAP_SIZE)
  IN  /\ Writable(p, n) /\ MarkInBounds(p) /\ size > 0
      /\ \E k \in AliasWords :
           divceil(size, CLUSTER_SIZE) > Cardinality(A) + k
      /\ fat' = IF A = {} THEN diskFat ELSE Release(linked, Min(A))
      /\ Reply(-1)

\* File branch up to the FAT's write.
WriteFile(p, n, size, b) ==
  LET A == FirstFree(diskFat, divceil(size, CLUSTER_SIZE))
  IN  /\ Writable(p, n) /\ MarkInBounds(p) /\ size > 0
      /\ divceil(size, CLUSTER_SIZE) <= Cardinality(Free(diskFat))
      /\ fat' = LinkUp(diskFat, A, EOF)
      /\ diskFat' = fat'
      /\ op' = [Step("wf_parent") EXCEPT
                  !.parent = p, !.cl = Min(A), !.row = EntryRow(dirs[p]),
                  !.entry = FileEntry(n, Min(A), size),
                  !.table = MarkRow(dirs[p], p), !.buf = b]
      /\ ret' = Code(0)
      /\ UNCHANGED <<signed, dirs, data>>

FileParent ==
  /\ op.pc = "wf_parent"
  /\ dirs' = [dirs EXCEPT ![op.parent] = [op.table EXCEPT ![op.row] = op.entry]]
  /\ data' = [data EXCEPT ![op.parent] = Raw]
  /\ op' = [op EXCEPT !.pc = "wf_data"]
  /\ UNCHANGED <<signed, diskFat, fat, ret>>

\* Mutants: the contents go to consecutive clusters; the part is not advanced.
FileDataContiguous ==
  /\ op.pc = "wf_data"
  /\ dirs' = [dirs EXCEPT ![op.cl] = Image[op.buf]]
  /\ data' = [data EXCEPT ![op.cl] = <<op.buf, op.part>>]
  /\ IF fat[op.cl] # EOF
     THEN op' = [op EXCEPT !.cl = @ + 1, !.part = @ + 1] /\ ret' = ret
     ELSE Return(0)
  /\ UNCHANGED <<signed, diskFat, fat>>
FileDataSamePart ==
  /\ op.pc = "wf_data"
  /\ dirs' = [dirs EXCEPT ![op.cl] = Image[op.buf]]
  /\ data' = [data EXCEPT ![op.cl] = <<op.buf, op.part>>]
  /\ IF fat[op.cl] # EOF THEN op' = [op EXCEPT !.cl = fat[op.cl]] /\ ret' = ret ELSE Return(0)
  /\ UNCHANGED <<signed, diskFat, fat>>
\* One cluster of the contents; the last one ends the call.
FileData ==
  /\ op.pc = "wf_data"
  /\ dirs' = [dirs EXCEPT ![op.cl] = Image[op.buf]]
  /\ data' = [data EXCEPT ![op.cl] = <<op.buf, op.part>>]
  /\ IF fat[op.cl] # EOF
     THEN /\ op' = [op EXCEPT !.cl = fat[op.cl], !.part = @ + 1]
          /\ ret' = ret
     ELSE Return(0)
  /\ UNCHANGED <<signed, diskFat, fat>>

-----------------------------------------------------------------------------
(* delete *)

DeleteHits(t, n) == {r \in ScanRows : t[r].used /\ t[r].name = n}
Occupied(t) == \E r \in ScanRows : t[r].used

DeleteRefused(p, n) ==
  LET t == dirs[p]
      hits == DeleteHits(t, n)
      e == t[Min(hits)]
  IN  /\ Idle
      /\ \/ ~IsFolder(t) /\ Reply(-1)
         \/ IsFolder(t) /\ hits = {} /\ Reply(1)
         \/ /\ IsFolder(t) /\ hits # {} /\ e.attr = ATTR_SUBDIRECTORY
            /\ e.cl \in Clusters /\ Occupied(dirs[e.cl])
            /\ Reply(2)
      /\ UNCHANGED fat

\* Mutant: the row is not cleared.
DeleteFileRowKept(p, n) ==
  LET t == dirs[p]
      hits == DeleteHits(t, n)
  IN  /\ Idle /\ IsFolder(t) /\ hits # {} /\ t[Min(hits)].attr # ATTR_SUBDIRECTORY
      /\ op' = [Step("df_fat") EXCEPT !.cl = t[Min(hits)].cl]
      /\ ret' = Code(0)
      /\ UNCHANGED <<signed, diskFat, dirs, data, fat>>
\* The row is cleared on disk before the FAT is touched.
DeleteFile(p, n) ==
  LET t == dirs[p]
      hits == DeleteHits(t, n)
      r == Min(hits)
  IN  /\ Idle /\ IsFolder(t) /\ hits # {} /\ t[r].attr # ATTR_SUBDIRECTORY
      /\ dirs' = [dirs EXCEPT ![p] = ClearRow(t, r)]
      /\ data' = [data EXCEPT ![p] = Raw]
      /\ op' = [Step("df_fat") EXCEPT !.cl = t[r].cl]
      /\ ret' = Code(0)
      /\ UNCHANGED <<signed, diskFat, fat>>

\* The chain is released in the cached FAT, which is then written.
DeleteFileFat ==
  /\ op.pc = "df_fat"
  /\ IF op.cl \in Clusters /\ Ends(fat, op.cl)
     THEN /\ fat' = Release(fat, op.cl)
          /\ diskFat' = fat'
          /\ Return(0)
     ELSE op' = Step("wild") /\ UNCHANGED <<fat, diskFat, ret>>
  /\ UNCHANGED <<signed, dirs, data>>

DeleteFolder(p, n) ==
  LET t == dirs[p]
      hits == DeleteHits(t, n)
      e == t[Min(hits)]
  IN  /\ Idle /\ IsFolder(t) /\ hits # {} /\ e.attr = ATTR_SUBDIRECTORY
      /\ e.cl \in Clusters /\ ~Occupied(dirs[e.cl])
      /\ dirs' = [dirs EXCEPT ![p] = ClearRow(t, Min(hits))]
      /\ data' = [data EXCEPT ![p] = Raw]
      /\ op' = [Step("dd_table") EXCEPT !.cl = e.cl, !.table = dirs[e.cl]]
      /\ ret' = Code(0)
      /\ UNCHANGED <<signed, diskFat, fat>>

\* Mutant: the folder's own row stays as it is.
FolderTableKept ==
  /\ op.pc = "dd_table"
  /\ op' = [Step("dd_fat") EXCEPT !.cl = op.cl]
  /\ UNCHANGED <<signed, diskFat, dirs, data, fat, ret>>
\* The folder's own row is cleared in its cluster.
DeleteFolderTable ==
  /\ op.pc = "dd_table"
  /\ dirs' = [dirs EXCEPT ![op.cl] = ClearRow(op.table, 0)]
  /\ data' = [data EXCEPT ![op.cl] = Raw]
  /\ op' = [Step("dd_fat") EXCEPT !.cl = op.cl]
  /\ UNCHANGED <<signed, diskFat, fat, ret>>

DeleteFolderFat ==
  /\ op.pc = "dd_fat"
  /\ fat' = [fat EXCEPT ![op.cl] = EMPTY]
  /\ diskFat' = fat'
  /\ Return(0)
  /\ UNCHANGED <<signed, dirs, data>>

\* Nothing is claimed of the system once a call left the driver's data.
Undefined == op.pc = "wild" /\ UNCHANGED vars

-----------------------------------------------------------------------------
Write(p, n) ==
  \/ WriteRefused(p, n)
  \/ \E size \in Sizes :
       \/ size = 0 /\ WriteFolder(p, n)
       \/ WriteWild(p, n, size)
       \/ WriteNoSpace(p, n, size)
       \/ \E b \in Bufs : WriteFile(p, n, size, b)

Read(p, n) == \E size \in Sizes : ReadFails(p, n, size) \/ ReadCopies(p, n, size)

Delete(p, n) == DeleteRefused(p, n) \/ DeleteFile(p, n) \/ DeleteFolder(p, n)

Next ==
  \/ BootSigned \/ BootEmpty \/ FormatFat \/ FormatRoot \/ PowerLoss
  \/ \E p \in ReqParents, n \in ReqNames :
       ReadDirectory(p, n) \/ Read(p, n) \/ Write(p, n) \/ Delete(p, n)
  \/ FolderParent \/ FolderTable \/ FileParent \/ FileData
  \/ DeleteFileFat \/ DeleteFolderTable \/ DeleteFolderFat
  \/ Undefined

Spec == Init /\ [][Next]_vars

-----------------------------------------------------------------------------
(* Properties *)

DataClusters == ROOT + 1 .. CLUSTER_MAP_SIZE - 1
Defined == op.pc # "wild"

\* The values the variables take.
TypeOK ==
  /\ signed \in BOOLEAN
  /\ diskFat \in [Clusters -> Nat]
  /\ fat \in [Clusters -> Nat]
  /\ dirs \in [Clusters -> Table]
  /\ DOMAIN data = Clusters
  /\ op \in [pc : PCs, parent : Clusters, row : WriteRows, cl : Nat, entry : Entry,
             table : Table, buf : Bufs \union {Raw}, part : Nat]
  /\ op.pc # "df_fat" => op.cl \in Clusters

\* What the properties of the entries presuppose, for any instance: callers
\* pass no empty name, and files hold text, in which no row of a table is in
\* use or has a name that callers pass.
PlainFiles ==
  /\ EmptyName \notin ReqNames
  /\ \A b \in Bufs, r \in Rows :
       ~Image[b][r].used /\ Image[b][r].name \notin ReqNames

\* The rows that hold what a caller created: in use, under a name callers
\* pass.  (write also marks a row that nobody created, MarkRow.)
Named(d, r) ==
  dirs[d][r].used /\ dirs[d][r].name \in ReqNames \ {EmptyName}
Entries == {x \in Clusters \X ScanRows : Named(x[1], x[2])}
At(x) == dirs[x[1]][x[2]]
Target(x) == At(x).cl

\* The FAT on disk is a set of disjoint ascending chains after every disk
\* write of every call, so a walk from any cluster in use ends: the reserved
\* words are intact or the FAT was never written, a word is empty, the
\* end-of-file mark or a later cluster in use, and no cluster has two
\* predecessors.
LinksSound ==
  Defined =>
    /\ \/ diskFat = ZeroFat
       \/ diskFat[0] = C0 /\ diskFat[FATC] = EOF /\ diskFat[ROOT] = EOF
    /\ \A c \in DataClusters :
         \/ diskFat[c] \in {EMPTY, EOF}
         \/ diskFat[c] \in c + 1 .. CLUSTER_MAP_SIZE - 1 /\ diskFat[diskFat[c]] # EMPTY
    /\ \A a, b \in DataClusters :
         a # b /\ diskFat[a] = diskFat[b] => diskFat[a] \in {EMPTY, EOF}

\* Whatever the disk write after which power is lost, no entry of any folder
\* points to a free or reserved cluster.
NoDangling ==
  Defined =>
    \A x \in Entries : Target(x) \in DataClusters /\ diskFat[Target(x)] # EMPTY

\* No cluster belongs to two entries: write never hands out a cluster that
\* an entry still on disk owns.
NoCrossLink ==
  Defined =>
    \A x, y \in Entries :
      x # y => Chain(diskFat, Target(x)) \cap Chain(diskFat, Target(y)) = {}

\* A cluster that is a folder is allocated and belongs to no file, so no
\* contents are ever written over a directory table.
FoldersOwnTheirCluster ==
  Defined =>
    \A d \in Clusters : IsFolder(dirs[d]) =>
      /\ diskFat[d] = EOF
      /\ \A x \in Entries : At(x).attr # ATTR_SUBDIRECTORY =>
           d \notin Chain(diskFat, Target(x))

\* delete walks the cached FAT without reading it again: the cache equals
\* the FAT on disk from boot on, after a failed write too.
CacheCoherent ==
  op.pc \notin {"off", "fmt_fat", "wild"} => fat = diskFat

Contents(f, bytes, c) ==
  [i \in 1 .. Cardinality(Chain(f, c)) |-> bytes[ChainAt(f, c, i)]]

\* A row a caller created changes only by the delete of that entry.
EntriesKept ==
  [][dirs' # dirs =>
       \A x \in Entries :
         \/ At(x)' = At(x)
         \/ op'.pc \in {"df_fat", "dd_table"} /\ op'.cl = Target(x)]_vars

\* No call changes the contents of a file other than the one it is writing.
FilesUntouched ==
  [][diskFat' # diskFat \/ data' # data =>
       \A x \in Entries :
         At(x)' = At(x) /\ At(x).attr # ATTR_SUBDIRECTORY
           /\ ~(op.pc = "wf_data" /\ x = <<op.parent, op.row>>)
         => Contents(diskFat, data, Target(x))' = Contents(diskFat, data, Target(x))]_vars

\* When write returns 0 for a file, the entry's chain holds the whole buffer
\* in order, in as many clusters as its size needs.
WriteComplete ==
  [][op.pc = "wf_data" /\ op'.pc = "idle" =>
       LET e == dirs[op.parent][op.row]
       IN  Contents(diskFat, data', e.cl) =
             [i \in 1 .. divceil(e.size, CLUSTER_SIZE) |-> <<op.buf, i - 1>>]]_vars

-----------------------------------------------------------------------------
(* What the comments of the driver say and the code does not do: each of    *)
(* these is violated.                                                       *)

Folders == {x \in Entries : At(x).attr = ATTR_SUBDIRECTORY}

\* delete removes an empty directory: a folder in which nothing that a caller
\* created is left counts as empty.
EmptyFolderDeletable ==
  Idle => \A x \in Folders :
    (\A r \in ScanRows : ~Named(Target(x), r)) => ~Occupied(dirs[Target(x)])

\* A disk that initialize_filesystem_fat32 accepted is a file system: its
\* FAT holds the reserved words and its root is a folder.
SignatureMeansFormatted ==
  Idle => diskFat[0] = C0 /\ IsFolder(dirs[ROOT])

=============================================================================
