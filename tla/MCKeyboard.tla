----------------------------- MODULE MCKeyboard -----------------------------
(***************************************************************************)
(* Small instances of the keyboard driver.                                 *)
(***************************************************************************)
EXTENDS Keyboard

\* A prompt, a newline, and a newline with text behind it.
McTexts == {<<"c">>, <<"n">>, <<"n", "c">>}
=============================================================================
