----------------------------- MODULE MCIpcIntr -----------------------------
(***************************************************************************)
(* IpcIntr for TLC.  Besides the behaviours of the code, where interrupts  *)
(* fall anywhere, the runs cover the ones in which they happen to fall     *)
(* between system calls only (masked), and show that IpcIntr is then Ipc.  *)
(***************************************************************************)
EXTENDS IpcIntr

VARIABLES
    masked,  \* no interrupt falls inside a call in this behaviour
    pre      \* if masked: the table when no call was in progress, or at the halt

mcvars == <<ivars, masked, pre>>

Table == [p_flags |-> p_flags, p_msg |-> p_msg, p_recvfrom |-> p_recvfrom,
          p_sendto |-> p_sendto, has_int_msg |-> has_int_msg,
          q_sending |-> q_sending, mem |-> mem, halted |-> halted]

MCInit == IInit /\ masked \in BOOLEAN /\ pre = Table

(* Every step of a call moves call.pc or halts; an interrupt does neither. *)
MCNext ==
    /\ INext
    /\ masked /\ call # NoCall => call' # call \/ halted'
    /\ pre' = IF masked /\ (call' = NoCall \/ halted') THEN Table' ELSE pre
    /\ UNCHANGED masked

MCSpec == MCInit /\ [][MCNext]_mcvars

(* Without interrupts inside a call, the statements of a system call are    *)
(* together one step of Ipc.                                                *)
A == INSTANCE Ipc
        WITH p_flags <- pre.p_flags, p_msg <- pre.p_msg, p_recvfrom <- pre.p_recvfrom,
             p_sendto <- pre.p_sendto, has_int_msg <- pre.has_int_msg,
             q_sending <- pre.q_sending, mem <- pre.mem, halted <- pre.halted

ImplementsIpc == A!Spec
=============================================================================
