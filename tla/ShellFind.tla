----------------------------- MODULE ShellFind -----------------------------
(***************************************************************************)
(* What the shell's find prints (command.c): the walk through the tables   *)
(* that the other commands left on the disk.                               *)
(***************************************************************************)
EXTENDS Shell

-----------------------------------------------------------------------------
(* The walk *)

\* What a level of the walk has seen: found, the entries of the name, which
\* are printed; skip, the rows marked in its own array; marks, those it marked
\* in the array of the level above.
NewLevel(found) == [found |-> found, skip |-> {}, marks |-> {}]

\* Mutant: the table is not read again on the way up.
RECURSIVE DFSKeepsTable(_, _, _, _)
DFSKeepsTable(c, i, base, w) ==
  LET e    == dirs[c][i]
      seen == IF e.name.base = base THEN w.found \union {<<c, i>>} ELSE w.found
  IN  IF i = DIR_ROWS THEN [copy |-> c, found |-> w.found, marks |-> w.marks]
      ELSE IF ~e.used THEN DFSKeepsTable(c, i + 1, base, w)
      ELSE IF e.attr # ATTR_SUBDIRECTORY
      THEN DFSKeepsTable(c, i + 1, base, [w EXCEPT !.found = seen, !.marks = @ \union {i}])
      ELSE IF i \in w.skip THEN DFSKeepsTable(c, i + 1, base, [w EXCEPT !.found = seen])
      ELSE LET below == DFSKeepsTable(e.cl, 1, base, NewLevel(seen))
           IN  DFSKeepsTable(below.copy, i + 1, base,
                 [w EXCEPT !.found = below.found, !.skip = @ \union below.marks])
\* The walk through the folder at cluster c, from row i.  The number of the
\* folder above is taken from the copy.  A file marks its row in the array of
\* the level above, and a folder in a marked row is not gone into.
RECURSIVE processDFS(_, _, _, _)
processDFS(c, i, base, w) ==
  LET e    == dirs[c][i]
      seen == IF e.name.base = base THEN w.found \union {<<c, i>>} ELSE w.found
  IN  IF i = DIR_ROWS THEN [copy |-> c, found |-> w.found, marks |-> w.marks]
      ELSE IF ~e.used THEN processDFS(c, i + 1, base, w)
      ELSE IF e.attr # ATTR_SUBDIRECTORY
      THEN processDFS(c, i + 1, base, [w EXCEPT !.found = seen, !.marks = @ \union {i}])
      ELSE IF i \in w.skip THEN processDFS(c, i + 1, base, [w EXCEPT !.found = seen])
      ELSE LET below == processDFS(e.cl, 1, base, NewLevel(seen))
           IN  processDFS(dirs[below.copy][0].cl, i + 1, base,
                 [w EXCEPT !.found = below.found, !.skip = @ \union below.marks])

\* One round of find, s.copy the table it looks at: the name is looked for
\* there, and a folder of that name gone into, before the cluster of row i,
\* a folder's or not, is walked through.
FindRow(i, base, s) ==
  LET c     == IF NamesFolder(dirs[s.copy], base) THEN FolderNamed(dirs[s.copy], base)
               ELSE s.copy
      e     == dirs[c][i]
      below == processDFS(e.cl, 1, base, NewLevel(s.found))
  IN  IF ~e.used \/ i \in s.marks THEN [s EXCEPT !.copy = c]
      ELSE IF e.cl \notin Clusters THEN [s EXCEPT !.copy = e.cl]
      ELSE [copy |-> below.copy, found |-> below.found,
            marks |-> s.marks \union below.marks \union {i}]

\* find ends where the name is not found; a row that write marked may hold a
\* number that is no cluster's, and nothing is known of what find prints then.
RECURSIVE FindFrom(_, _, _)
FindFrom(i, base, s) ==
  IF i = DIR_ROWS - 1 \/ s.copy \notin Clusters \/ EntriesOf(dirs[s.copy], base) = {} THEN s
  ELSE FindFrom(i + 1, base, FindRow(i, base, s))

\* The round for row 0 asks for the mark in front of the array, which may be
\* set (then `marks` is {0}): a round for row 0 walks from the root.
FindStart(marks) == [copy |-> ROOT, found |-> {}, marks |-> marks]

EntriesNamed(base) ==
  {x \in Clusters \X ScanRows :
     IsFolder(dirs[x[1]]) /\ At(x).used /\ At(x).name.base = base}
\* The names find takes: without a folder or a file of the name in the root it
\* finds nothing.
RootBases == {n.base : n \in {m \in Dirnames : EntriesOf(dirs[ROOT], m.base) # {}}}

-----------------------------------------------------------------------------
(* Properties *)

\* After any commands find ends, its walk from the root comes back to the
\* root, whose entries of the name it all prints, and whatever it walks
\* through it prints no entry of another name: from every folder the way up
\* leads to the one it was entered from.
FindComesBack ==
  Idle /\ running = "shell" => \A base \in RootBases :
    LET first == FindRow(0, base, FindStart({}))
    IN  /\ first.copy = ROOT
        /\ {x \in EntriesNamed(base) : x[1] = ROOT} \subseteq first.found
        /\ \A marks \in SUBSET {0} :
             FindFrom(0, base, FindStart(marks)).found \subseteq EntriesNamed(base)

-----------------------------------------------------------------------------
(* What a comment of find says and the code does not do: violated.          *)

\* find goes into every folder, whether the name is its own or not, and so
\* prints every entry of the name when the root has one.
FindFindsAll ==
  Idle /\ running = "shell" => \A base \in RootBases :
    EntriesNamed(base) \subseteq FindFrom(0, base, FindStart({})).found
=============================================================================
