------------------------------ MODULE MCSched ------------------------------
(***************************************************************************)
(* Sched for TLC: a driver task, MM, INIT and a slot that is free at first. *)
(* They get 3, 2, 1 and 1 ticks, in place of the 15 and 5 of kernel_main(). *)
(***************************************************************************)
EXTENDS Sched, TLC

MCPriority == 0 :> 3 @@ 1 :> 2 @@ 2 :> 1 @@ 3 :> 1
=============================================================================
