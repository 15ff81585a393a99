----------------------------- MODULE LineInput -----------------------------
(***************************************************************************)
(* What system call 4 promises a process: a line of characters in the      *)
(* order they were typed, of which an erasure can only remove the last.    *)
(* Keystrokes may get lost; none may get in between, before the call or    *)
(* after the line was entered.                                             *)
(***************************************************************************)
EXTENDS Sequences, Naturals

CONSTANTS Chars, COUNT

VARIABLES phase, line, got

lvars == <<phase, line, got>>

Shorter(s, n) == SubSeq(s, 1, IF Len(s) < n THEN Len(s) ELSE n)

LineInit == phase = "off" /\ line = <<>> /\ got = <<>>

Ask     == phase = "off" /\ phase' = "typing" /\ UNCHANGED <<line, got>>
Type(c) == phase = "typing" /\ line' = Append(line, c) /\ UNCHANGED <<phase, got>>
Erase   == /\ phase = "typing" /\ line # <<>>
           /\ line' = Shorter(line, Len(line) - 1) /\ UNCHANGED <<phase, got>>
Enter   == phase = "typing" /\ phase' = "ready" /\ UNCHANGED <<line, got>>
\* The process gets as much of the line as it asked for.
Deliver == /\ phase = "ready" /\ phase' = "off"
           /\ got' = Shorter(line, COUNT) /\ line' = <<>>

LineNext == Ask \/ (\E c \in Chars : Type(c)) \/ Erase \/ Enter \/ Deliver

LineSpec == LineInit /\ [][LineNext]_lvars
=============================================================================
