---------------------------- MODULE MCSendQueue ----------------------------
(***************************************************************************)
(* SendQueue for TLC.  Five processes give lists of up to four senders, so *)
(* that a sender is unlinked from the head, the middle and the tail.       *)
(***************************************************************************)
EXTENDS SendQueue, TLC

ProcSymmetry == Permutations(Proc)
=============================================================================
