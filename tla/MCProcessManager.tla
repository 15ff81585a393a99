-------------------------- MODULE MCProcessManager --------------------------
(***************************************************************************)
(* Small instances of the process manager.                                 *)
(***************************************************************************)
EXTENDS ProcessManager

McPrograms == {"shell", "prog"}
=============================================================================
