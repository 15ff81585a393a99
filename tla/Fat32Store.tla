---------------------------- MODULE Fat32Store ----------------------------
(***************************************************************************)
(* The FAT32 driver as an implementation of FileStore: which files,        *)
(* folders and tables the clusters of the disk stand for after every disk  *)
(* write.                                                                  *)
(***************************************************************************)
EXTENDS Fat32

\* The entry of the file or folder whose call has not come to its end.
BeingMade(x) == op.pc \in {"mk_table", "wf_data"} /\ x = <<op.parent, op.row>>
Complete == {x \in Entries : ~BeingMade(x)}

FileOf(x) ==
  [dir |-> x[1], name |-> At(x).name, size |-> At(x).size,
   text |-> Contents(diskFat, data, Target(x))]
FolderOf(x) == [dir |-> x[1], name |-> At(x).name, to |-> Target(x)]
TableOf(d) == [at |-> d, name |-> dirs[d][0].name]

StoreMode ==
  CASE op.pc = "off"                     -> IF signed THEN "off" ELSE "new"
    [] op.pc \in {"fmt_fat", "fmt_root"} -> "formatting"
    [] op.pc = "idle"                    -> "idle"
    [] op.pc = "wild"                    -> "undefined"
    [] OTHER                             -> "busy"
StoreFiles   == {FileOf(x) : x \in {y \in Complete : At(y).attr # ATTR_SUBDIRECTORY}}
StoreFolders == {FolderOf(x) : x \in {y \in Complete : At(y).attr = ATTR_SUBDIRECTORY}}
StoreTables  == {TableOf(d) : d \in {c \in Clusters : IsFolder(dirs[c])}}

\* What the call in flight was asked for.
FileAsked ==
  [dir |-> op.parent, name |-> op.entry.name, size |-> op.entry.size,
   text |-> [i \in 1 .. divceil(op.entry.size, CLUSTER_SIZE) |-> <<op.buf, i - 1>>]]
FolderAsked == [dir |-> op.parent, name |-> op.entry.name, to |-> op.cl]
StorePending ==
  [files   |-> IF op.pc \in {"wf_parent", "wf_data"} THEN {FileAsked} ELSE {},
   folders |-> IF op.pc \in {"mk_parent", "mk_table"} THEN {FolderAsked} ELSE {},
   tables  |-> IF op.pc = "dd_table" /\ IsFolder(dirs[op.cl])
               THEN {TableOf(op.cl)} ELSE {}]

Store == INSTANCE FileStore WITH
  Names <- ReqNames, Handles <- Clusters, Root <- ROOT, RootName <- RootName,
  PartSize <- CLUSTER_SIZE,
  mode <- StoreMode, files <- StoreFiles, folders <- StoreFolders,
  tables <- StoreTables, pending <- StorePending, answer <- ret

\* The driver implements FileStore: whatever calls are made, with power lost
\* after any disk write of read, write and delete and of the first boot, files
\* and folders come and go as promised, and a read returns what a write that
\* returned 0 was given.
ImplementsStore == Store!StoreSpec

\* A call does what was asked of it: the folder, the name, the size and the
\* buffer it was passed decide which step of the store it is, so a read
\* returns the file it names and a delete takes no other.
DoesAsAsked(p, n) ==
  /\ ReadDirectory(p, n) => Store!ListFolder(p, n)
  /\ WriteRefused(p, n)  => Store!WriteRefusal(p, n)
  /\ WriteFolder(p, n)   => \E h \in Clusters : Store!BeginFolder(p, n, h)
  /\ DeleteRefused(p, n) => Store!DeleteRefusal(p, n)
  /\ DeleteFile(p, n)    => Store!RemoveFile(p, n)
  /\ DeleteFolder(p, n)  => Store!RemoveFolder(p, n)
  /\ \A size \in Sizes :
       /\ ReadFails(p, n, size) \/ ReadCopies(p, n, size) => Store!ReadFile(p, n, size)
       /\ WriteWild(p, n, size)    => Store!LeavesDisk(p, n)
       /\ WriteNoSpace(p, n, size) => Store!NoSpace(p, n, size)
       /\ \A b \in Bufs : WriteFile(p, n, size, b) => Store!BeginFile(p, n, size, b)
CallsAsAsked == [][\A p \in ReqParents, n \in ReqNames : DoesAsAsked(p, n)]_vars

\* No folder is full: in the rows that write looks at there is one it can take
\* without overwriting the folder's own.  (In a full folder write takes row 0,
\* returns 0 and the file is not there: this much FileStore does not allow.)
HasRoom ==
  \A d \in Clusters : IsFolder(dirs[d]) => \E r \in WriteRows \ {0} : ~dirs[d][r].used

\* What keeps every folder from being full: of the rows that write looks at,
\* callers have names for fewer than are left beside the folder's own row, the
\* one that write marks and one to take.
FewNames == IsFiniteSet(ReqNames) /\ Cardinality(ReqNames) + 1 < DIR_ROWS - 2
=============================================================================
