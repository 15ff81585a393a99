------------------------------ MODULE MCFat32 ------------------------------
(***************************************************************************)
(* Small instances of the FAT32 driver.                                    *)
(***************************************************************************)
EXTENDS Fat32Store, TLC

CONSTANTS a, b, c, junk, root, zero, noext, b1, b2

McBases  == {a, b, c, junk}
McNames  == {[base |-> x, ext |-> noext] : x \in {a, b}}
McNames3 == {[base |-> x, ext |-> noext] : x \in {a, b, c}}

\* Contents that are text: no byte at a row's user_attribute is 0xAA, and no
\* row begins with a name that is passed to a call.
McText ==
  [x \in Bufs |-> [r \in Rows |->
     [name |-> [base |-> junk, ext |-> noext], attr |-> 0, used |-> FALSE,
      cl |-> C0, size |-> 1]]]

ASSUME McPlainFiles == PlainFiles
\* The instances with six rows have few names: no folder runs full.
ASSUME McFewNames == DIR_ROWS = 6 => FewNames

McSymmetry  == Permutations({a, b})
McSymmetry3 == Permutations({a, b, c}) \union Permutations({b1, b2})
=============================================================================
