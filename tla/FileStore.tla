---------------------------- MODULE FileStore ----------------------------
(***************************************************************************)
(* What the file system calls promise: files and folders that appear       *)
(* whole when a write returns and go as one when a delete begins, and that *)
(* nothing but a delete takes away.  Power may be lost at any time; then   *)
(* the call under way has happened or not, and only the file it was        *)
(* writing may hold something else than was asked for.                     *)
(*                                                                         *)
(* A folder is two things: an entry in its parent and a table that the     *)
(* calls take for a parent.  Calls that make or remove one do it in two    *)
(* steps, and a loss of power may leave an entry without a table or a      *)
(* table without an entry.                                                 *)
(***************************************************************************)
EXTENDS Integers

CONSTANTS
  Names,              \* of files and folders
  Handles,            \* numbers by which folders are known
  Root, RootName,
  Sizes, Bufs,        \* what callers ask for
  PartSize            \* length of a part of a text

VARIABLES
  mode,      \* new, formatting, off, idle, busy (a call is under way) or
             \* undefined (a call reached past the disk's map)
  files,     \* files in place: in folder dir, of that name, size and text
  folders,   \* entries of folders: in folder dir, of that name, leading to `to`
  tables,    \* folders that can be used as parent, with their own name
  pending,   \* what the call under way will add (files, folders) or take
             \* away (tables)
  answer     \* code and text of the last call; code 0, no text before it ends

svars == <<mode, files, folders, tables, pending, answer>>

File(p, n, s, t) == [dir |-> p, name |-> n, size |-> s, text |-> t]
Folder(p, n, h)  == [dir |-> p, name |-> n, to |-> h]
Opened(h, n)     == [at |-> h, name |-> n]

Nothing == [files |-> {}, folders |-> {}, tables |-> {}]
Answer(code) == [code |-> code, out |-> <<>>]

Parts(size) == IF size % PartSize = 0 THEN size \div PartSize ELSE size \div PartSize + 1
\* The text of buffer b, cut into parts.
Whole(b, size) == [i \in 1 .. Parts(size) |-> <<b, i - 1>>]

Open(p) == \E t \in tables : t.at = p
FilesNamed(p, n)   == {f \in files : f.dir = p /\ f.name = n}
FoldersNamed(p, n) == {g \in folders : g.dir = p /\ g.name = n}
Taken(p, n) == FilesNamed(p, n) # {} \/ FoldersNamed(p, n) # {}

StoreInit ==
  /\ mode = "new" /\ files = {} /\ folders = {} /\ tables = {}
  /\ pending = Nothing /\ answer = Answer(0)

-----------------------------------------------------------------------------
Format ==
  /\ mode = "new" /\ mode' = "formatting"
  /\ UNCHANGED <<files, folders, tables, pending, answer>>
Formatted ==
  /\ mode = "formatting" /\ mode' = "idle"
  /\ tables' = {Opened(Root, RootName)}
  /\ UNCHANGED <<files, folders, pending, answer>>
Boot ==
  /\ mode = "off" /\ mode' = "idle"
  /\ UNCHANGED <<files, folders, tables, pending, answer>>

\* A file whose write was cut off is missing, or there with its size and as
\* many parts as it should have.
CutOff ==
  \/ files' = files
  \/ \E f \in pending.files : \E g \in files' :
       /\ g = File(f.dir, f.name, f.size, g.text) /\ DOMAIN g.text = DOMAIN f.text
       /\ files' = files \union {g}
PowerLost ==
  /\ mode \in {"formatting", "idle", "busy"} /\ mode' = "off"
  /\ answer' = Answer(0) /\ pending' = Nothing /\ UNCHANGED tables
  /\ folders' \in {folders, folders \union pending.folders}
  /\ CutOff

-----------------------------------------------------------------------------
\* A call that changes nothing returns a code and perhaps a text.
Returns == mode' = "idle" /\ UNCHANGED <<pending, tables, folders, files>>
NotFolder(p, code) == ~Open(p) /\ answer' = Answer(code)

\* Whatever is there is found; it may be taken for a folder or not.
ListFolder(p, n) ==
  \/ NotFolder(p, -1)
  \/ Open(p) /\ answer' = Answer(2) /\ ~Taken(p, n)
  \/ Open(p) /\ answer' \in {Answer(0), Answer(1)}

\* A file is read as it is, a folder as something.
ReadFile(p, n, size) ==
  \/ NotFolder(p, -1)
  \/ Open(p) /\ answer' = Answer(3) /\ ~Taken(p, n)
  \/ Open(p) /\ answer' = Answer(2) /\ \E f \in FilesNamed(p, n) : f.size > size
  \/ /\ Open(p) /\ answer'.code = 0
     /\ \E f \in FilesNamed(p, n) : f.size <= size /\ answer'.out = f.text
  \/ Open(p) /\ answer'.code = 0 /\ FoldersNamed(p, n) # {}

\* The name is taken in the folder, or is the folder's own.
WriteRefusal(p, n) ==
  \/ NotFolder(p, 2)
  \/ Open(p) /\ answer' = Answer(1) /\ (Taken(p, n) \/ Opened(p, n) \in tables)
NoSpace(p, n, size) == size > 0 /\ Open(p) /\ answer' = Answer(-1) /\ ~Taken(p, n)

\* A folder may be refused when it is empty.
DeleteRefusal(p, n) ==
  \/ NotFolder(p, -1)
  \/ Open(p) /\ answer' = Answer(1) /\ ~Taken(p, n)
  \/ Open(p) /\ answer' = Answer(2) /\ FoldersNamed(p, n) # {}

Answers(p, n) ==
  \/ ListFolder(p, n) \/ WriteRefusal(p, n) \/ DeleteRefusal(p, n)
  \/ \E size \in Sizes : ReadFile(p, n, size) \/ NoSpace(p, n, size)

-----------------------------------------------------------------------------
\* A call that changes something goes on in further steps.
Begins(p, new) ==
  /\ mode' = "busy" /\ pending' = new /\ answer' = Answer(0)
  /\ Open(p) /\ UNCHANGED tables

BeginFile(p, n, size, b) ==
  /\ size > 0 /\ Begins(p, [Nothing EXCEPT !.files = {File(p, n, size, Whole(b, size))}])
  /\ UNCHANGED <<folders, files>> /\ ~Taken(p, n)
\* A new folder's number is that of no table and no entry leads to it.
BeginFolder(p, n, h) ==
  /\ Begins(p, [Nothing EXCEPT !.folders = {Folder(p, n, h)}])
  /\ UNCHANGED <<folders, files>> /\ ~Taken(p, n)
  /\ ~Open(h) /\ \A g \in folders : g.to # h

RemoveFile(p, n) ==
  /\ Begins(p, Nothing) /\ UNCHANGED folders
  /\ FilesNamed(p, n) # {} /\ files' = files \ FilesNamed(p, n)
\* Only an empty folder goes: its entry at once, its table in a further step.
RemoveFolder(p, n) ==
  \E g \in FoldersNamed(p, n) :
    /\ Begins(p, [Nothing EXCEPT !.tables = {t \in tables : t.at = g.to}])
    /\ folders' = folders \ FoldersNamed(p, n) /\ UNCHANGED files
    /\ \A x \in files \union folders : x.dir # g.to

TableGone ==
  /\ mode = "busy" /\ pending.tables # {} /\ mode' = "busy"
  /\ tables' = tables \ pending.tables /\ pending' = Nothing
  /\ UNCHANGED <<folders, answer, files>>

\* A call that began did all it was asked for and returns 0.
Ends ==
  /\ mode = "busy" /\ mode' = "idle" /\ pending' = Nothing /\ answer' = Answer(0)
  /\ tables' = (tables \union {Opened(g.to, g.name) : g \in pending.folders})
                  \ pending.tables
  /\ folders' = folders \union pending.folders
  /\ files' = files \union pending.files

\* A write may leave the driver's own data; nothing is promised from then on.
LeavesDisk(p, n) ==
  /\ mode' = "undefined" /\ answer' = Answer(0) /\ Open(p)
  /\ UNCHANGED <<pending, tables, folders, files>> /\ ~Taken(p, n)

-----------------------------------------------------------------------------
Call(p, n) ==
  /\ mode = "idle"
  /\ \/ Returns /\ Answers(p, n)
     \/ \E size \in Sizes, b \in Bufs : BeginFile(p, n, size, b)
     \/ \E h \in Handles : BeginFolder(p, n, h)
     \/ RemoveFile(p, n) \/ RemoveFolder(p, n) \/ LeavesDisk(p, n)

StoreNext ==
  \/ Format \/ Formatted \/ Boot \/ PowerLost
  \/ \E p \in Handles, n \in Names : Call(p, n)
  \/ TableGone \/ Ends

StoreSpec == StoreInit /\ [][StoreNext]_svars
=============================================================================
