------------------------------- MODULE Shell -------------------------------
(***************************************************************************)
(* The shell (user-shell.c, command.c) over the file system's calls: cd,   *)
(* ls, mkdir, cat, rm, cp, mv and find, on a disk that the inserter filled *)
(* before.                                                                 *)
(*                                                                         *)
(* The shell is a process of its own and keeps two things from one command *)
(* to the next: the cluster of the current directory and a copy of a       *)
(* directory table, often that of another directory or an old one.  A      *)
(* command with one call that writes is one step, up to the first disk     *)
(* write of that call; the others are Fat32's.  cp and mv make several     *)
(* calls and are a step for each, with what they remember in `job`.  Loss  *)
(* of power is left to Fat32.                                              *)
(***************************************************************************)
EXTENDS Fat32

CONSTANTS
  Space,    \* the extension " "
  Pair,     \* the first eight characters of an argument "source dest"
  Zeros,    \* the contents of a cluster of zeros
  MaxOverlooked   \* bound: how often mv may overlook what a call returned

VARIABLES
  running,            \* the inserter, on the host, or the shell
  current_directory,
  dir_table,          \* the shell's copy
  job,                \* the cp or mv under way, if any
  overlooked          \* how many mv had an integer that hid the return code

shell     == <<running, current_directory, dir_table, job, overlooked>>
shellVars == <<vars, shell>>

Dirnames  == {n \in ReqNames : n.ext = NoExt /\ n # EmptyName}
PairName  == [base |-> Pair, ext |-> NoExt]

\* The source of cp and mv ends with the space that separates it from the
\* destination: an extension of three characters is read without it, a
\* shorter one (NoExt stands for those) with it.
SourceName(n) == IF n.ext = NoExt THEN [n EXCEPT !.ext = Space] ELSE n
Sources  == {SourceName(n) : n \in ReqNames \ {EmptyName}}
AllNames == ReqNames \union Sources \union {PairName}

\* An argument without a dot is passed as the empty name.
ASSUME ShellAssumption ==
  /\ IsFiniteSet(ReqNames) /\ EmptyName \in ReqNames
  /\ Space \in Exts /\ Pair \in Bases
  /\ Zeros \in Bufs /\ Image[Zeros] = ZeroTable
  /\ MaxOverlooked \in Nat

\* A folder for which all names leave a row unused: what write does to a full
\* folder is Fat32's matter.
ASSUME RoomAssumption == Cardinality(AllNames) + 1 < Cardinality(WriteRows \ {0})

\* What the properties presuppose, for any instance: files hold text.  A row
\* of a table that was text is neither in use nor a folder, and it is zero,
\* behind the end of the text, or has no name that a call is made with.
PlainTexts ==
  \A b \in Bufs, r \in Rows :
    LET e == Image[b][r]
    IN  /\ ~e.used /\ e.attr # ATTR_SUBDIRECTORY
        /\ e.name \notin AllNames \/ (e.name = EmptyName /\ e.cl = 0)

\* src in the folder `from` is the file that was read, text what was read of
\* it, dst its new name, `again` whether mv goes on to write it under the old
\* name, home where mv began; garbage is what the return code's integer holds
\* above its lowest byte.
NoJob == [pc |-> "none", src |-> EmptyName, from |-> ROOT, dst |-> EmptyName,
          again |-> FALSE, text |-> Zeros, home |-> ROOT, garbage |-> "zero"]
Job(pc) == Idle /\ job.pc = pc

\* A formatted disk.
ShellInit ==
  /\ signed = TRUE
  /\ diskFat = [ZeroFat EXCEPT ![0] = C0, ![FATC] = EOF, ![ROOT] = EOF]
  /\ dirs = [c \in Clusters |->
               IF c = ROOT THEN [ZeroTable EXCEPT ![0] = DirEntry(RootName, ROOT)]
               ELSE ZeroTable]
  /\ data = [c \in Clusters |-> Raw]
  /\ fat = diskFat /\ op = Step("idle") /\ ret = Code(0)
  /\ running = "inserter" /\ current_directory = ROOT /\ dir_table = ZeroTable
  /\ job = NoJob /\ overlooked = 0

\* The inserter writes a file, or a folder for a file it cannot open; it
\* gives no extension.
Insert(n) == running = "inserter" /\ Write(ROOT, n) /\ UNCHANGED shell

\* The kernel starts on that disk, and the shell.
StartShell ==
  /\ running = "inserter" /\ Idle
  /\ running' = "shell" /\ fat' = diskFat
  /\ dir_table' = dirs[current_directory]
  /\ UNCHANGED <<signed, diskFat, dirs, data, op, ret, current_directory, job, overlooked>>

AtPrompt == running = "shell" /\ Job("none")
Prompt == AtPrompt /\ UNCHANGED <<running, job, overlooked>>

-----------------------------------------------------------------------------
(* Looking up a name *)

\* findEntryName compares the base alone.
EntriesOf(t, base) == {r \in ScanRows : t[r].used /\ t[r].name.base = base}
NamesFolder(t, base) ==
  /\ EntriesOf(t, base) # {}
  /\ t[Min(EntriesOf(t, base))].attr = ATTR_SUBDIRECTORY
FolderNamed(t, base) == t[Min(EntriesOf(t, base))].cl

\* Every command goes into the folder its argument names, if there is one in
\* the table it looks at.
Inside(t, base) ==
  IF NamesFolder(t, base) THEN FolderNamed(t, base) ELSE current_directory

updateDirectoryTable(c) == dir_table' = dirs[c]

\* The three commands that read have room for one cluster and offer the call
\* four: a file of more than one is written over their own stack.
Overrun(p, n) ==
  LET e == dirs[p][Min(ReadHits(dirs[p], n))]
  IN  /\ Idle /\ ReadCode(dirs[p], n, 4 * CLUSTER_SIZE) = 0
      /\ e.cl \in Clusters /\ Ends(diskFat, e.cl) /\ diskFat[e.cl] # EOF
      /\ op' = Step("wild") /\ ret' = Code(0)
      /\ UNCHANGED <<signed, diskFat, dirs, data, fat>>
ReadIn(p, n) ==
  \/ ReadFails(p, n, 4 * CLUSTER_SIZE)
  \/ ReadCopies(p, n, 4 * CLUSTER_SIZE) /\ Len(ret'.out) < 2
  \/ Overrun(p, n)

-----------------------------------------------------------------------------
(* Commands *)

\* Mutant: files are entered too.
CdAnywhere(base) ==
  /\ Prompt
  /\ current_directory' = IF EntriesOf(dirs[current_directory], base) = {}
                          THEN current_directory
                          ELSE FolderNamed(dirs[current_directory], base)
  /\ updateDirectoryTable(current_directory')
  /\ UNCHANGED vars
cd(base) ==
  /\ Prompt
  /\ current_directory' = Inside(dirs[current_directory], base)
  /\ updateDirectoryTable(current_directory')
  /\ UNCHANGED vars

\* The copy becomes the parent's table, the current directory stays.
cd_up ==
  /\ Prompt
  /\ updateDirectoryTable(dirs[current_directory][0].cl)
  /\ UNCHANGED <<vars, current_directory>>

ls ==
  /\ Prompt /\ updateDirectoryTable(current_directory)
  /\ UNCHANGED <<vars, current_directory>>

\* The copy is taken before the write.
mkdir(n) ==
  LET p == Inside(dirs[current_directory], n.base)
  IN  /\ Prompt
      /\ WriteRefused(p, n) \/ WriteWild(p, n, 0) \/ WriteFolder(p, n)
      /\ updateDirectoryTable(current_directory)
      /\ UNCHANGED current_directory

\* cat looks up the name in the copy as it is.  An argument without a dot is
\* an empty name and nothing is read for it; "." is an empty name too.
CatFrom(n) == Inside(dir_table, n.base)
CatLooks(n) ==
  dir_table' = IF NamesFolder(dir_table, n.base) THEN dirs[CatFrom(n)] ELSE dir_table
cat(n) ==
  /\ Prompt /\ CatLooks(n)
  /\ ReadIn(CatFrom(n), n) \/ (n = EmptyName /\ UNCHANGED vars)
  /\ UNCHANGED current_directory

\* Mutant: rm does not go into the folder of that name, and so deletes it.
RmHere(n) ==
  /\ Prompt
  /\ UNCHANGED current_directory
  /\ updateDirectoryTable(current_directory)
  /\ Delete(current_directory, n)
\* rm stays in the folder it went into.  An argument without a dot deletes
\* the empty name.
rm(n) ==
  /\ Prompt
  /\ current_directory' = Inside(dirs[current_directory], n.base)
  /\ updateDirectoryTable(current_directory')
  /\ Delete(current_directory', n)

-----------------------------------------------------------------------------
(* cp, mv *)

\* Return codes are bytes, stored into the lowest byte of an integer that was
\* never set: a comparison sees the code, or (here -2) nothing it knows.  The
\* code -1 comes from none of the calls of cp and mv: they ask for one cluster.
Garbage == {"zero", "other"}
Seen(g, code) == IF g = "zero" THEN code ELSE -2
Hides(g) ==
  IF g = "zero" THEN UNCHANGED overlooked
  ELSE overlooked < MaxOverlooked /\ overlooked' = overlooked + 1

\* Mutant: mv goes on whatever write returned.
GivesUpNever(g, code) == Seen(g, code) = 4
GivesUp(g, code) == Seen(g, code) \in {1, -1}

\* What a read left in the buffer, which was zero before.
TextRead == IF ret'.out = <<>> \/ ret'.out[1] = Raw THEN Zeros ELSE ret'.out[1][1]

\* One cluster: the scan finds a word for it, behind the map if need be.  A
\* text that fills its cluster has no end: strcpy runs on behind the buffer.
WriteText(p, n, b) ==
  \/ WriteRefused(p, n) \/ WriteWild(p, n, CLUSTER_SIZE) \/ WriteFile(p, n, CLUSTER_SIZE, b)
  \/ /\ b # Zeros /\ n # PairName
     /\ op' = Step("wild") /\ ret' = Code(0)
     /\ UNCHANGED <<signed, diskFat, dirs, data, fat>>

\* cp stays in the folder it went into.  It goes on when the code it sees is 0;
\* without a dot in the source it reads nothing.
cp(s) ==
  LET p == Inside(dirs[current_directory], s.base)
  IN  /\ AtPrompt
      /\ current_directory' = p /\ updateDirectoryTable(p)
      /\ IF s = EmptyName THEN UNCHANGED <<vars, job>>
         ELSE /\ ReadIn(p, SourceName(s))
              /\ IF ret'.code = 0 /\ op'.pc = "idle"
                 THEN \E d \in ReqNames :
                        job' = [job EXCEPT !.pc = "cp_delete", !.src = SourceName(s),
                                           !.from = p, !.dst = d, !.text = TextRead]
                 ELSE job' = job
      /\ UNCHANGED <<running, overlooked>>

\* Mutant: the source is deleted before the copy is written.
CpDeleteSource ==
  /\ Job("cp_delete") /\ Delete(current_directory, job.src)
  /\ job' = [job EXCEPT !.pc = "cp_write"]
  /\ UNCHANGED <<running, current_directory, dir_table, overlooked>>
cp_delete ==
  /\ Job("cp_delete") /\ Delete(current_directory, job.dst)
  /\ job' = [job EXCEPT !.pc = "cp_write"]
  /\ UNCHANGED <<running, current_directory, dir_table, overlooked>>

cp_write ==
  /\ Job("cp_write") /\ WriteText(current_directory, job.dst, job.text)
  /\ job' = [job EXCEPT !.pc = "cp_wrote"]
  /\ UNCHANGED <<running, current_directory, dir_table, overlooked>>

cp_returns ==
  /\ Job("cp_wrote") /\ job' = NoJob
  /\ UNCHANGED <<vars, running, current_directory, dir_table, overlooked>>

\* mv of a source with a dot.  It goes on unless the code it sees is 3, from
\* where it is then; a destination without a dot may name a folder there and
\* is the empty name to the calls.
mv(s, g) ==
  LET t == dirs[current_directory]
      p == Inside(t, s.base)
      Destination(d, dot) ==
        IF EntriesOf(t, s.base) # {} /\ ~dot /\ NamesFolder(dirs[p], d.base)
        THEN FolderNamed(dirs[p], d.base) ELSE p
  IN  /\ AtPrompt /\ Hides(g)
      /\ ReadIn(p, SourceName(s))
      /\ IF op'.pc = "wild" \/ Seen(g, ret'.code) = 3
         THEN current_directory' = p /\ job' = job
         ELSE \E d \in ReqNames \ {EmptyName}, dot \in BOOLEAN :
                /\ dot \/ d.ext = NoExt
                /\ current_directory' = Destination(d, dot)
                /\ job' = [pc |-> "mv_delete", src |-> SourceName(s), from |-> p,
                           dst |-> IF dot THEN d ELSE EmptyName, again |-> ~dot,
                           text |-> TextRead, home |-> current_directory, garbage |-> g]
      /\ updateDirectoryTable(current_directory')
      /\ UNCHANGED running

\* mv of a source without a dot finds nothing under the first characters of
\* its whole argument.  When it goes on all the same it writes a file of that
\* name, with whatever the shell has at address 0, and deletes it.
mv_folder(g) ==
  /\ AtPrompt /\ Hides(g)
  /\ ReadFails(current_directory, PairName, 0)
  /\ updateDirectoryTable(current_directory)
  /\ IF Seen(g, ret'.code) = 3 THEN job' = job
     ELSE \E b \in Bufs :
            job' = [pc |-> "mv_write", src |-> PairName, from |-> current_directory,
                    dst |-> PairName, again |-> FALSE, text |-> b,
                    home |-> current_directory, garbage |-> g]
  /\ UNCHANGED <<running, current_directory>>

mv_delete ==
  /\ Job("mv_delete") /\ Delete(current_directory, job.dst)
  /\ job' = [job EXCEPT !.pc = "mv_write"]
  /\ UNCHANGED <<running, current_directory, dir_table, overlooked>>

mv_write ==
  /\ Job("mv_write") /\ WriteText(current_directory, job.dst, job.text)
  /\ job' = [job EXCEPT !.pc = "mv_wrote"]
  /\ UNCHANGED <<running, current_directory, dir_table, overlooked>>

\* mv gives up where it is, or goes on.
mv_returns ==
  /\ Job("mv_wrote")
  /\ job' = IF GivesUp(job.garbage, ret.code) THEN NoJob
            ELSE [job EXCEPT !.pc = IF job.again THEN "mv_again" ELSE "mv_source"]
  /\ UNCHANGED <<vars, running, current_directory, dir_table, overlooked>>

mv_again ==
  /\ Job("mv_again") /\ WriteText(current_directory, job.src, job.text)
  /\ job' = [job EXCEPT !.pc = "mv_wrote", !.again = FALSE]
  /\ UNCHANGED <<running, current_directory, dir_table, overlooked>>

\* Back in the first directory the source is deleted.
mv_source ==
  /\ Job("mv_source") /\ Delete(job.from, job.src)
  /\ current_directory' = job.home /\ updateDirectoryTable(job.home)
  /\ job' = NoJob
  /\ UNCHANGED <<running, overlooked>>

-----------------------------------------------------------------------------
(* find reads only: what it prints is ShellFind's matter. *)

\* The copy is the current directory's again when find is over.
find ==
  /\ Prompt /\ updateDirectoryTable(current_directory)
  /\ UNCHANGED <<vars, current_directory>>

-----------------------------------------------------------------------------
\* The disk writes of a call that has begun.
CallGoesOn ==
  /\ \/ FolderParent \/ FolderTable \/ FileParent \/ FileData
     \/ DeleteFileFat \/ DeleteFolderTable \/ DeleteFolderFat
     \/ Undefined
  /\ UNCHANGED shell

ShellNext ==
  \/ \E n \in Dirnames : Insert(n) \/ cd(n.base) \/ mkdir(n)
  \/ StartShell
  \/ cd_up \/ ls \/ find
  \/ \E n \in ReqNames : cat(n) \/ rm(n) \/ cp(n)
  \/ \E g \in Garbage : mv_folder(g) \/ \E n \in ReqNames \ {EmptyName} : mv(n, g)
  \/ cp_delete \/ cp_write \/ cp_returns
  \/ mv_delete \/ mv_write \/ mv_returns \/ mv_again \/ mv_source
  \/ CallGoesOn

ShellSpec == ShellInit /\ [][ShellNext]_shellVars

-----------------------------------------------------------------------------
(* Properties *)

\* The values the variables take.
ShellTypeOK ==
  /\ TypeOK
  /\ running \in {"inserter", "shell"}
  /\ current_directory \in Clusters /\ dir_table \in Table
  /\ overlooked \in 0 .. MaxOverlooked
  /\ job.from \in Clusters /\ job.home \in Clusters /\ job.text \in Bufs
  /\ job.src \in AllNames /\ job.dst \in AllNames

\* Whatever commands were given, the current directory is a folder on disk,
\* and so is the one mv will go back to: no command leads into a file, and
\* none deletes a folder the shell is in.
InsideAFolder ==
  Idle => IsFolder(dirs[current_directory]) /\ IsFolder(dirs[job.home])

\* cat uses the copy of a table without reading it again.  However old the
\* copy is, and of whatever directory, a folder in it stays a folder: only cp
\* and mv delete one that the copy shows, to write a file of that name, and
\* rm one that a file of the same base hides.
CopyNeverDangles ==
  [][dir_table' # dir_table \/ dirs' # dirs =>
       \A r \in ScanRows :
         LET e == dir_table'[r]
         IN  e.used /\ e.attr = ATTR_SUBDIRECTORY /\ ~IsFolder(dirs'[e.cl]) =>
               /\ dir_table' = dir_table
               /\ \/ ~IsFolder(dirs[e.cl])
                  \/ /\ op.pc = "dd_table" /\ op.cl = e.cl
                     /\ job.pc # "none" \/ ~NamesFolder(dir_table, e.name.base)]_shellVars

\* Every folder but the root knows its parent, and the parent has an entry of
\* its name for it: cd .. finds the table that mkdir put the folder into,
\* through clusters that were files before.
ParentsKnown ==
  Idle => \A d \in Clusters \ {ROOT} : IsFolder(dirs[d]) =>
    LET self == dirs[d][0]
    IN  /\ self.cl \in Clusters /\ IsFolder(dirs[self.cl])
        /\ \E r \in ScanRows :
             /\ dirs[self.cl][r].used /\ dirs[self.cl][r].cl = d
             /\ dirs[self.cl][r].name = self.name
             /\ dirs[self.cl][r].attr = ATTR_SUBDIRECTORY

\* The folder d has a file of the name n with one cluster of the text b.
HasText(d, n, b) ==
  \E r \in ScanRows :
    /\ dirs[d][r].used /\ dirs[d][r].name = n /\ dirs[d][r].attr # ATTR_SUBDIRECTORY
    /\ Contents(diskFat, data, dirs[d][r].cl) = << <<b, 0>> >>

\* When the write of cp returns 0, the copy holds what the source held, and
\* the source holds it still: the delete of the destination in between takes
\* nothing else.
CopyComplete ==
  Job("cp_wrote") /\ ret.code = 0 =>
    /\ HasText(current_directory, job.dst, job.text)
    /\ HasText(job.from, job.src, job.text)

\* mv deletes the source when its text is somewhere else, if the return codes
\* it sees are those of the calls and the source is not its own destination.
MoveKeepsText ==
  Job("mv_source") /\ job.garbage = "zero" =>
    \/ <<current_directory, job.dst>> = <<job.from, job.src>>
    \/ \E n \in {job.src, job.dst} :
         /\ HasText(current_directory, n, job.text)
         /\ <<current_directory, n>> # <<job.from, job.src>>

=============================================================================
