------------------------------ MODULE MCShell ------------------------------
(***************************************************************************)
(* Small instances of the shell.                                           *)
(***************************************************************************)
EXTENDS ShellFind, TLC

CONSTANTS a, b, pair, junk, root, zero, noext, x, space, b1, b0

McBases == {a, b, pair, junk}
McExts  == {x, space}
\* An argument without a dot is passed as the empty name.
McArguments == {[base |-> n, ext |-> e] : n \in {a, b}, e \in {noext, x}}
               \union {[base |-> zero, ext |-> noext]}

McContents ==
  [t \in Bufs |-> [r \in Rows |->
     IF t = b0 THEN [name |-> [base |-> zero, ext |-> noext], attr |-> 0,
                     used |-> FALSE, cl |-> 0, size |-> 0]
     ELSE [name |-> [base |-> junk, ext |-> noext], attr |-> 0,
           used |-> FALSE, cl |-> C0, size |-> 1]]]

McSymmetry == Permutations({a, b})

ASSUME McTexts == PlainTexts
=============================================================================
