------------------------------- MODULE MCIpc -------------------------------
(***************************************************************************)
(* Ipc for TLC.                                                            *)
(***************************************************************************)
EXTENDS Ipc, TLC

CONSTANTS tty, u1, u2, u3

Perms == Permutations(Proc \ IntTask)
=============================================================================
