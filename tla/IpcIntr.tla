------------------------------ MODULE IpcIntr ------------------------------
(***************************************************************************)
(* The system calls of Ipc, statement by statement.                        *)
(*                                                                         *)
(* sys_call (kernel.asm) turns interrupts on before it runs the handler of *)
(* a system call.  So the clock and the disk handler can run between two   *)
(* statements of msg_send() or msg_receive(), and their inform_int() then  *)
(* reads and writes the process table entry the call is working on.        *)
(*                                                                         *)
(* One call is in progress at a time; call.pc names its next statement.    *)
(* Statements that touch no field inform_int() reads or writes are one     *)
(* step.  inform_int() itself is one step: the line it serves is masked    *)
(* while it runs, and each task is informed by one line only.              *)
(***************************************************************************)
EXTENDS Ipc

VARIABLES
    call,       \* the system call in progress: pc, caller p, peer src_dest
    nullwrite   \* somebody has written through a null p_msg

ivars == <<vars, call, nullwrite>>

NoCall == [pc |-> "idle", p |-> NO_TASK, peer |-> NO_TASK]

IInit == Init /\ call = NoCall /\ nullwrite = FALSE

At(pc) == call.pc = pc /\ ~halted
Goto(pc) == call' = IF pc = "idle" THEN NoCall ELSE [call EXCEPT !.pc = pc]

-----------------------------------------------------------------------------
(* sys_sendrec(): the caller is stamped into its message, and the function  *)
(* selects msg_send() or msg_receive().                                     *)

EnterSend(p, d, t) ==
    /\ At("idle") /\ CanCall(p) /\ p # d
    /\ mem' = [mem EXCEPT ![p] = [source |-> p, type |-> t]]
    /\ call' = [pc |-> "s_deadlock", p |-> p, peer |-> d]
    /\ UNCHANGED <<p_flags, p_msg, p_recvfrom, p_sendto, has_int_msg, q_sending,
                   halted, nullwrite>>

EnterReceive(p, src, both) ==
    /\ At("idle") /\ CanCall(p) /\ p # src
    /\ mem' = [mem EXCEPT ![p] = Buffer(p, both)]
    /\ call' = [pc |-> "r_test", p |-> p, peer |-> src]
    /\ UNCHANGED <<p_flags, p_msg, p_recvfrom, p_sendto, has_int_msg, q_sending,
                   halted, nullwrite>>

(* A failed assertion stops the system: assertion_failure() never returns.  *)
Expect(holds, pc) == IF holds THEN Goto(pc) /\ UNCHANGED halted
                              ELSE halted' = TRUE /\ UNCHANGED call

-----------------------------------------------------------------------------
(* msg_send(current, dest, m) *)

s_deadlock ==
    /\ At("s_deadlock")
    /\ Expect(~deadlock(call.p, call.peer), "s_test")      \* else panic()
    /\ UNCHANGED <<p_flags, p_msg, p_recvfrom, p_sendto, has_int_msg, q_sending,
                   mem, nullwrite>>

s_test ==
    /\ At("s_test")
    /\ Goto(IF DestWaitsFor(call.peer, call.p) THEN "s_assert" ELSE "s_enqueue")
    /\ UNCHANGED <<vars, nullwrite>>

s_assert ==                                                \* assert(p_dest->p_msg)
    /\ At("s_assert")
    /\ Expect(p_msg[call.peer], "s_copy")
    /\ UNCHANGED <<p_flags, p_msg, p_recvfrom, p_sendto, has_int_msg, q_sending,
                   mem, nullwrite>>

(* Mutant: the message is not copied. *)
s_copy_Nothing ==
    /\ At("s_copy")
    /\ Goto("s_clear_msg")
    /\ UNCHANGED <<vars, nullwrite>>

s_copy ==
    /\ At("s_copy")
    /\ IF p_msg[call.peer]
         THEN mem' = [mem EXCEPT ![call.peer] = mem[call.p]] /\ UNCHANGED nullwrite
         ELSE nullwrite' = TRUE /\ UNCHANGED mem
    /\ Goto("s_clear_msg")
    /\ UNCHANGED <<p_flags, p_msg, p_recvfrom, p_sendto, has_int_msg, q_sending, halted>>

s_clear_msg ==
    /\ At("s_clear_msg")
    /\ p_msg' = [p_msg EXCEPT ![call.peer] = FALSE]
    /\ Goto("s_clear_flags")
    /\ UNCHANGED <<p_flags, p_recvfrom, p_sendto, has_int_msg, q_sending, mem, halted, nullwrite>>

s_clear_flags ==
    /\ At("s_clear_flags")
    /\ p_flags' = [p_flags EXCEPT ![call.peer] = @ \ {"RECEIVING"}]
    /\ Goto("s_clear_from")
    /\ UNCHANGED <<p_msg, p_recvfrom, p_sendto, has_int_msg, q_sending, mem, halted, nullwrite>>

(* Mutant: p_dest->p_recvfrom is not reset. *)
s_clear_from_Nothing ==
    /\ At("s_clear_from")
    /\ Goto("s_end")
    /\ UNCHANGED <<vars, nullwrite>>

s_clear_from ==
    /\ At("s_clear_from")
    /\ p_recvfrom' = [p_recvfrom EXCEPT ![call.peer] = NO_TASK]
    /\ Goto("s_end")
    /\ UNCHANGED <<p_flags, p_msg, p_sendto, has_int_msg, q_sending, mem, halted, nullwrite>>

Untouched(p) ==
    ~p_msg[p] /\ p_flags[p] = {} /\ p_recvfrom[p] = NO_TASK /\ p_sendto[p] = NO_TASK

s_end ==                            \* unblock(p_dest) and the eight assertions
    /\ At("s_end")
    /\ Expect(Untouched(call.peer) /\ Untouched(call.p), "idle")
    /\ UNCHANGED <<p_flags, p_msg, p_recvfrom, p_sendto, has_int_msg, q_sending,
                   mem, nullwrite>>

(* inform_int() does not look at what a sender sets here. *)
s_enqueue ==
    /\ At("s_enqueue")
    /\ p_flags' = [p_flags EXCEPT ![call.p] = @ \cup {"SENDING"}]
    /\ p_sendto' = [p_sendto EXCEPT ![call.p] = call.peer]
    /\ p_msg' = [p_msg EXCEPT ![call.p] = TRUE]
    /\ q_sending' = [q_sending EXCEPT ![call.peer] = Append(@, call.p)]
    /\ Goto("idle")
    /\ UNCHANGED <<p_recvfrom, has_int_msg, mem, halted, nullwrite>>

-----------------------------------------------------------------------------
(* msg_receive(current, src, m) *)

r_test ==
    /\ At("r_test")
    /\ Goto(IF TakesInterrupt(call.p, call.peer) THEN "ri_copy" ELSE "r_pick")
    /\ UNCHANGED <<vars, nullwrite>>

ri_copy ==
    /\ At("ri_copy")
    /\ mem' = [mem EXCEPT ![call.p] = [source |-> INTERRUPT, type |-> HARD_INT]]
    /\ Goto("ri_clear")
    /\ UNCHANGED <<p_flags, p_msg, p_recvfrom, p_sendto, has_int_msg, q_sending, halted, nullwrite>>

ri_clear ==
    /\ At("ri_clear")
    /\ has_int_msg' = [has_int_msg EXCEPT ![call.p] = FALSE]
    /\ Goto("ri_end")
    /\ UNCHANGED <<p_flags, p_msg, p_recvfrom, p_sendto, q_sending, mem, halted, nullwrite>>

ri_end ==                                       \* the four assertions
    /\ At("ri_end")
    /\ Expect(~has_int_msg[call.p] /\ p_flags[call.p] = {} /\ ~p_msg[call.p], "idle")
    /\ UNCHANGED <<p_flags, p_msg, p_recvfrom, p_sendto, has_int_msg, q_sending, mem, nullwrite>>

(* Mutant: the sender stays in the queue. *)
r_pick_NoUnlink ==
    /\ At("r_pick")
    /\ IF SenderReady(call.p, call.peer)
         THEN LET from == q_sending[call.p][Position(call.p, call.peer)]
              IN  /\ mem' = [mem EXCEPT ![call.p] = mem[from]]
                  /\ p_msg' = [p_msg EXCEPT ![from] = FALSE]
                  /\ p_sendto' = [p_sendto EXCEPT ![from] = NO_TASK]
                  /\ p_flags' = [p_flags EXCEPT ![from] = @ \ {"SENDING"}]
                  /\ Goto("idle")
         ELSE Goto("r_flag") /\ UNCHANGED <<p_flags, p_msg, p_sendto, mem>>
    /\ UNCHANGED <<q_sending, p_recvfrom, has_int_msg, halted, nullwrite>>

(* inform_int() leaves alone what is read and written when a queued message *)
(* is taken.                                                                *)
r_pick ==
    /\ At("r_pick")
    /\ IF SenderReady(call.p, call.peer)
         THEN LET i    == Position(call.p, call.peer)
                  from == q_sending[call.p][i]
              IN  /\ q_sending' = [q_sending EXCEPT ![call.p] = RemoveAt(@, i)]
                  /\ mem' = [mem EXCEPT ![call.p] = mem[from]]
                  /\ p_msg' = [p_msg EXCEPT ![from] = FALSE]
                  /\ p_sendto' = [p_sendto EXCEPT ![from] = NO_TASK]
                  /\ p_flags' = [p_flags EXCEPT ![from] = @ \ {"SENDING"}]
                  /\ Goto("idle")
         ELSE Goto("r_flag") /\ UNCHANGED <<p_flags, p_msg, p_sendto, q_sending, mem>>
    /\ UNCHANGED <<p_recvfrom, has_int_msg, halted, nullwrite>>

r_flag ==
    /\ At("r_flag")
    /\ p_flags' = [p_flags EXCEPT ![call.p] = @ \cup {"RECEIVING"}]
    /\ Goto("r_msg")
    /\ UNCHANGED <<p_msg, p_recvfrom, p_sendto, has_int_msg, q_sending, mem, halted, nullwrite>>

r_msg ==
    /\ At("r_msg")
    /\ p_msg' = [p_msg EXCEPT ![call.p] = TRUE]
    /\ Goto("r_from")
    /\ UNCHANGED <<p_flags, p_recvfrom, p_sendto, has_int_msg, q_sending, mem, halted, nullwrite>>

(* Mutant: the partner is stored in p_sendto in place of p_recvfrom. *)
r_from_WrongField ==
    /\ At("r_from")
    /\ p_sendto' = [p_sendto EXCEPT ![call.p] = call.peer]
    /\ Goto("block")
    /\ UNCHANGED <<p_flags, p_msg, p_recvfrom, has_int_msg, q_sending, mem, halted, nullwrite>>

r_from ==
    /\ At("r_from")
    /\ p_recvfrom' = [p_recvfrom EXCEPT ![call.p] = call.peer]
    /\ Goto("block")
    /\ UNCHANGED <<p_flags, p_msg, p_sendto, has_int_msg, q_sending, mem, halted, nullwrite>>

block ==                                        \* block(): assert(p->p_flags)
    /\ At("block")
    /\ Expect(p_flags[call.p] # {}, "r_end")
    /\ UNCHANGED <<p_flags, p_msg, p_recvfrom, p_sendto, has_int_msg, q_sending, mem, nullwrite>>

r_end ==                                        \* the five assertions
    /\ At("r_end")
    /\ Expect(/\ p_flags[call.p] = {"RECEIVING"} /\ p_msg[call.p]
              /\ p_recvfrom[call.p] # NO_TASK /\ ~has_int_msg[call.p], "idle")
    /\ UNCHANGED <<p_flags, p_msg, p_recvfrom, p_sendto, has_int_msg, q_sending, mem, nullwrite>>

-----------------------------------------------------------------------------
(* An interrupt handler calls inform_int(t), now also during a call.        *)
Interrupt(t) ==
    /\ ~halted
    /\ IF WaitsForInterrupt(t) /\ ~p_msg[t]
         THEN /\ nullwrite' = TRUE
              /\ has_int_msg' = [has_int_msg EXCEPT ![t] = FALSE]
              /\ p_flags' = [p_flags EXCEPT ![t] = @ \ {"RECEIVING"}]
              /\ p_recvfrom' = [p_recvfrom EXCEPT ![t] = NO_TASK]
              /\ UNCHANGED <<p_msg, p_sendto, q_sending, mem, halted>>
         ELSE inform_int(t) /\ UNCHANGED nullwrite
    /\ UNCHANGED call

SendStep ==
    \/ s_deadlock \/ s_test \/ s_assert \/ s_copy \/ s_clear_msg \/ s_clear_flags
    \/ s_clear_from \/ s_end \/ s_enqueue

ReceiveStep ==
    \/ r_test \/ ri_copy \/ ri_clear \/ ri_end \/ r_pick \/ r_flag \/ r_msg
    \/ r_from \/ block \/ r_end

INext ==
    \/ \E p, d \in Proc, t \in Type : EnterSend(p, d, t)
    \/ \E p \in Proc, src \in Proc \cup {ANY, INTERRUPT}, both \in BOOLEAN :
            EnterReceive(p, src, both)
    \/ SendStep
    \/ ReceiveStep
    \/ \E t \in IntTask : Interrupt(t)

ISpec == IInit /\ [][INext]_ivars

-----------------------------------------------------------------------------
(***************************************************************************)
(* Properties.                                                             *)
(***************************************************************************)

Calls == [pc   : {"idle", "s_deadlock", "s_test", "s_assert", "s_copy", "s_clear_msg",
                  "s_clear_flags", "s_clear_from", "s_end", "s_enqueue", "r_test",
                  "ri_copy", "ri_clear", "ri_end", "r_pick", "r_flag", "r_msg",
                  "r_from", "block", "r_end"},
          p    : Proc \cup {NO_TASK},
          peer : Proc \cup {ANY, INTERRUPT, NO_TASK}]

IntrTypeOK == TypeOK /\ call \in Calls /\ nullwrite \in BOOLEAN

(* What interrupts cannot damage: whenever no call is in progress, the      *)
(* fields of every process match its flags, every sender is in its queue    *)
(* once, no circle of senders exists and no receiver waits for a process    *)
(* that waits for it, although interrupts have fallen inside the calls.     *)
TableSoundWhenIdle ==
    call = NoCall =>
        FieldsMatchFlags /\ QueueIsSenders /\ NoMissedRendezvous /\ NoSendCycle

(* The kernel stops only on a failed assertion about the task that an       *)
(* interrupt was for, or on a circle of senders; the assertions about       *)
(* processes that no interrupt is for hold.                                 *)
OnlyDriversTrip ==
    halted => \/ call.pc = "s_deadlock"
              \/ call.p \in IntTask \/ call.peer \in IntTask

(* msg_send() copies the message to a waiting destination and unblocks it:  *)
(* when the delivery is over, the destination holds what was sent.          *)
DeliveredIntact == call.pc = "s_end" => mem[call.peer] = mem[call.p]
=============================================================================
