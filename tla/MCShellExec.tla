---------------------------- MODULE MCShellExec -----------------------------
(***************************************************************************)
(* A small instance of ShellExec for TLC.                                  *)
(***************************************************************************)
EXTENDS ShellExec

CONSTANTS r1, r2, l1, c1, c2, c3
=============================================================================
