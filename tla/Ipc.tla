-------------------------------- MODULE Ipc --------------------------------
(***************************************************************************)
(* Synchronous message passing between processes: kernel/proc.c.           *)
(*                                                                         *)
(* A process asks the kernel to SEND to, or RECEIVE from, another process. *)
(* Whoever comes first is blocked until the partner arrives; a message is  *)
(* copied once, straight from the sender's buffer to the receiver's.       *)
(* inform_int() turns a hardware interrupt into a HARD_INT message for a   *)
(* driver task.                                                            *)
(*                                                                         *)
(* Here one system call, and one call of inform_int(), is one step.  The   *)
(* module IpcIntr opens the system calls and lets interrupts fall between  *)
(* their statements.  The scheduler is abstracted to: any process whose    *)
(* p_flags are clear may make the next call (module Sched models it).  The *)
(* linked list behind q_sending is a sequence here (module SendQueue).     *)
(***************************************************************************)
EXTENDS Integers, Sequences, SequencesExt, FiniteSets

CONSTANTS
    Proc,       \* the pids of the processes in proc_table[]
    IntTask,    \* the tasks that inform_int() is called for (TTY and HD)
    Type,       \* the message types processes send
    HARD_INT,   \* the type of the message that stands for an interrupt
    NoType,     \* the type field of a zeroed message
    ANY, INTERRUPT, NO_TASK   \* the pseudo pids of const.h

ASSUME ProcAssumption ==
    /\ IntTask \subseteq Proc /\ IsFiniteSet(Proc)
    /\ ANY \notin Proc /\ INTERRUPT \notin Proc /\ NO_TASK \notin Proc
    /\ ANY # INTERRUPT /\ ANY # NO_TASK /\ INTERRUPT # NO_TASK

ASSUME TypeAssumption ==
    HARD_INT \notin Type /\ NoType \notin Type /\ HARD_INT # NoType

VARIABLES
    p_flags,      \* p_flags[p]: subset of {"SENDING", "RECEIVING"}; {} is runnable
    p_msg,        \* p_msg[p]: TRUE iff the pointer proc.p_msg is not null
    p_recvfrom,   \* from whom a blocked receiver wants a message
    p_sendto,     \* to whom a blocked sender sends
    has_int_msg,  \* an interrupt came while the task was not receiving
    q_sending,    \* q_sending[p]: the processes blocked sending to p, in order
    mem,          \* mem[p]: the MESSAGE in p's memory that its system calls name
    halted        \* panic() was called, or an assertion of the kernel failed

vars == <<p_flags, p_msg, p_recvfrom, p_sendto, has_int_msg, q_sending, mem, halted>>

Message == [source : Proc \cup {INTERRUPT, NO_TASK},
            type   : Type \cup {HARD_INT, NoType}]

(* kernel_main() gives every process clear flags and an empty queue. *)
Init ==
    /\ p_flags     = [p \in Proc |-> {}]
    /\ p_msg       = [p \in Proc |-> FALSE]
    /\ p_recvfrom  = [p \in Proc |-> NO_TASK]
    /\ p_sendto    = [p \in Proc |-> NO_TASK]
    /\ has_int_msg = [p \in Proc |-> FALSE]
    /\ q_sending   = [p \in Proc |-> <<>>]
    /\ mem         = [p \in Proc |-> [source |-> NO_TASK, type |-> NoType]]
    /\ halted      = FALSE

-----------------------------------------------------------------------------
(***************************************************************************)
(* Conditions the kernel evaluates.                                        *)
(***************************************************************************)

(* A process is given the processor, and so can make a call, only when all *)
(* its flags are clear; nothing runs once the kernel has panicked.         *)
CanCall(p) == ~halted /\ p_flags[p] = {}

IsSending(p)   == "SENDING" \in p_flags[p]
IsReceiving(p) == "RECEIVING" \in p_flags[p]

(* The processes that the loop of deadlock() visits from dest: dest, the   *)
(* one dest is blocked sending to, and so on.  The least set with dest     *)
(* that is closed under "is sending to".                                   *)
ChainFrom(dest) ==
    {q \in Proc :
        \A S \in SUBSET Proc :
            (dest \in S /\ \A r \in S : IsSending(r) => p_sendto[r] \in S) => q \in S}

(* Mutant: looks one hop ahead and does not follow the chain. *)
deadlock_OneHop(src, dest) == IsSending(dest) /\ p_sendto[dest] = src

deadlock(src, dest) ==
    \E r \in ChainFrom(dest) : IsSending(r) /\ p_sendto[r] = src

(* The loop of deadlock() as the code runs it: follow p_sendto from dest    *)
(* for at most as many hops as there are processes.                         *)
Walk(dest) ==
    LET hop[n \in 0..Cardinality(Proc)] ==
          IF n = 0 THEN dest
          ELSE IF IsSending(hop[n-1]) THEN p_sendto[hop[n-1]] ELSE hop[n-1]
    IN  hop

(* dest is blocked in RECEIVE and accepts a message of p. *)
DestWaitsFor(dest, p) ==
    IsReceiving(dest) /\ (p_recvfrom[dest] = p \/ p_recvfrom[dest] = ANY)

(* Mutant: a RECEIVE from INTERRUPT does not look at has_int_msg. *)
TakesInterrupt_AnyOnly(p, src) == has_int_msg[p] /\ src = ANY

(* p_who_wanna_recv takes the pending interrupt before any queued message. *)
TakesInterrupt(p, src) == has_int_msg[p] /\ src \in {ANY, INTERRUPT}

(* Mutant: a RECEIVE from ANY does not look at the queue. *)
SenderReady_NotAny(p, src) == src \in Proc /\ IsSending(src) /\ p_sendto[src] = p

(* Some process is already blocked sending what p asks for (copyok). *)
SenderReady(p, src) ==
    \/ src = ANY /\ q_sending[p] # <<>>
    \/ src \in Proc /\ IsSending(src) /\ p_sendto[src] = p

-----------------------------------------------------------------------------
(***************************************************************************)
(* sendrec(SEND, d, m): sys_sendrec() stamps the caller into m, then        *)
(* msg_send() panics on a cycle, hands m over, or blocks the caller.        *)
(***************************************************************************)

SendPanic(p, d, m) ==
    /\ deadlock(p, d)
    /\ halted' = TRUE
    /\ mem' = [mem EXCEPT ![p] = m]
    /\ UNCHANGED <<p_flags, p_msg, p_recvfrom, p_sendto, has_int_msg, q_sending>>

(* Mutant: p_dest->p_recvfrom is not reset. *)
SendDeliver_KeepsRecvfrom(p, d, m) ==
    /\ ~deadlock(p, d)
    /\ DestWaitsFor(d, p)
    /\ mem' = [mem EXCEPT ![p] = m, ![d] = m]
    /\ p_msg' = [p_msg EXCEPT ![d] = FALSE]
    /\ p_flags' = [p_flags EXCEPT ![d] = @ \ {"RECEIVING"}]
    /\ UNCHANGED <<p_recvfrom, p_sendto, has_int_msg, q_sending, halted>>

SendDeliver(p, d, m) ==
    /\ ~deadlock(p, d)
    /\ DestWaitsFor(d, p)
    /\ mem' = [mem EXCEPT ![p] = m, ![d] = m]
    /\ p_msg' = [p_msg EXCEPT ![d] = FALSE]
    /\ p_flags' = [p_flags EXCEPT ![d] = @ \ {"RECEIVING"}]
    /\ p_recvfrom' = [p_recvfrom EXCEPT ![d] = NO_TASK]
    /\ UNCHANGED <<p_sendto, has_int_msg, q_sending, halted>>

SendBlock(p, d, m) ==
    /\ ~deadlock(p, d)
    /\ ~DestWaitsFor(d, p)
    /\ mem' = [mem EXCEPT ![p] = m]
    /\ p_flags' = [p_flags EXCEPT ![p] = @ \cup {"SENDING"}]
    /\ p_sendto' = [p_sendto EXCEPT ![p] = d]
    /\ p_msg' = [p_msg EXCEPT ![p] = TRUE]
    /\ q_sending' = [q_sending EXCEPT ![d] = Append(@, p)]
    /\ UNCHANGED <<p_recvfrom, has_int_msg, halted>>

Send(p, d, t) ==
    /\ CanCall(p)
    /\ p # d                       \* assert(mla->source != src_dest)
    /\ LET m == [source |-> p, type |-> t]
       IN  SendPanic(p, d, m) \/ SendDeliver(p, d, m) \/ SendBlock(p, d, m)

-----------------------------------------------------------------------------
(***************************************************************************)
(* sendrec(RECEIVE, src, m).  send_recv() has zeroed m for a RECEIVE; the  *)
(* second half of BOTH leaves the type that was sent in it.  sys_sendrec() *)
(* writes the caller into m.source in both cases.                          *)
(***************************************************************************)

Buffer(p, both) == [source |-> p, type |-> IF both THEN mem[p].type ELSE NoType]

ReceiveInt(p, src) ==
    /\ TakesInterrupt(p, src)
    /\ mem' = [mem EXCEPT ![p] = [source |-> INTERRUPT, type |-> HARD_INT]]
    /\ has_int_msg' = [has_int_msg EXCEPT ![p] = FALSE]
    /\ UNCHANGED <<p_flags, p_msg, p_recvfrom, p_sendto, q_sending, halted>>

(* The place in p's queue from which the message is taken: the first for   *)
(* ANY, else that of src, which the while loop looks up.                   *)
Position(p, src) ==
    IF src = ANY THEN 1
    ELSE CHOOSE i \in DOMAIN q_sending[p] : q_sending[p][i] = src

(* Mutant: the message is taken from src, but the head is unlinked. *)
ReceiveQueued_UnlinksHead(p, src) ==
    /\ ~TakesInterrupt(p, src)
    /\ SenderReady(p, src)
    /\ LET from == q_sending[p][Position(p, src)]
       IN  /\ q_sending' = [q_sending EXCEPT ![p] = Tail(@)]
           /\ mem' = [mem EXCEPT ![p] = mem[from]]
           /\ p_msg' = [p_msg EXCEPT ![from] = FALSE]
           /\ p_sendto' = [p_sendto EXCEPT ![from] = NO_TASK]
           /\ p_flags' = [p_flags EXCEPT ![from] = @ \ {"SENDING"}]
    /\ UNCHANGED <<p_recvfrom, has_int_msg, halted>>

(* Mutant: the sender is released, its message is not copied. *)
ReceiveQueued_NoCopy(p, src) ==
    /\ ~TakesInterrupt(p, src)
    /\ SenderReady(p, src)
    /\ LET i    == Position(p, src)
           from == q_sending[p][i]
       IN  /\ q_sending' = [q_sending EXCEPT ![p] = RemoveAt(@, i)]
           /\ p_msg' = [p_msg EXCEPT ![from] = FALSE]
           /\ p_sendto' = [p_sendto EXCEPT ![from] = NO_TASK]
           /\ p_flags' = [p_flags EXCEPT ![from] = @ \ {"SENDING"}]
    /\ UNCHANGED <<mem, p_recvfrom, has_int_msg, halted>>

ReceiveQueued(p, src) ==
    /\ ~TakesInterrupt(p, src)
    /\ SenderReady(p, src)
    /\ LET i    == Position(p, src)
           from == q_sending[p][i]
       IN  /\ q_sending' = [q_sending EXCEPT ![p] = RemoveAt(@, i)]
           /\ mem' = [mem EXCEPT ![p] = mem[from]]
           /\ p_msg' = [p_msg EXCEPT ![from] = FALSE]
           /\ p_sendto' = [p_sendto EXCEPT ![from] = NO_TASK]
           /\ p_flags' = [p_flags EXCEPT ![from] = @ \ {"SENDING"}]
    /\ UNCHANGED <<p_recvfrom, has_int_msg, halted>>

(* Mutant: the partner is stored in p_sendto in place of p_recvfrom. *)
ReceiveBlock_WrongField(p, src, both) ==
    /\ ~TakesInterrupt(p, src)
    /\ ~SenderReady(p, src)
    /\ mem' = [mem EXCEPT ![p] = Buffer(p, both)]
    /\ p_flags' = [p_flags EXCEPT ![p] = @ \cup {"RECEIVING"}]
    /\ p_msg' = [p_msg EXCEPT ![p] = TRUE]
    /\ p_sendto' = [p_sendto EXCEPT ![p] = src]
    /\ halted' = has_int_msg[p]
    /\ UNCHANGED <<p_recvfrom, has_int_msg, q_sending>>

(* The last assertion, has_int_msg == 0, fails when a driver waits for a      *)
(* certain process while an interrupt is pending for it.                    *)
ReceiveBlock(p, src, both) ==
    /\ ~TakesInterrupt(p, src)
    /\ ~SenderReady(p, src)
    /\ mem' = [mem EXCEPT ![p] = Buffer(p, both)]
    /\ p_flags' = [p_flags EXCEPT ![p] = @ \cup {"RECEIVING"}]
    /\ p_msg' = [p_msg EXCEPT ![p] = TRUE]
    /\ p_recvfrom' = [p_recvfrom EXCEPT ![p] = src]
    /\ halted' = has_int_msg[p]
    /\ UNCHANGED <<p_sendto, has_int_msg, q_sending>>

Receive(p, src, both) ==
    /\ CanCall(p)
    /\ p # src                     \* assert(mla->source != src_dest)
    /\ ReceiveInt(p, src) \/ ReceiveQueued(p, src) \/ ReceiveBlock(p, src, both)

-----------------------------------------------------------------------------
(***************************************************************************)
(* inform_int(t), called by the clock handler for TTY and by the disk      *)
(* handler for HD.                                                         *)
(***************************************************************************)

WaitsForInterrupt(t) == IsReceiving(t) /\ p_recvfrom[t] \in {INTERRUPT, ANY}

IntWake(t) ==
    /\ WaitsForInterrupt(t)
    /\ mem' = [mem EXCEPT ![t] = [source |-> INTERRUPT, type |-> HARD_INT]]
    /\ p_msg' = [p_msg EXCEPT ![t] = FALSE]
    /\ has_int_msg' = [has_int_msg EXCEPT ![t] = FALSE]
    /\ p_flags' = [p_flags EXCEPT ![t] = @ \ {"RECEIVING"}]
    /\ p_recvfrom' = [p_recvfrom EXCEPT ![t] = NO_TASK]
    /\ UNCHANGED <<p_sendto, q_sending, halted>>

IntMark(t) ==
    /\ ~WaitsForInterrupt(t)
    /\ has_int_msg' = [has_int_msg EXCEPT ![t] = TRUE]
    /\ UNCHANGED <<p_flags, p_msg, p_recvfrom, p_sendto, q_sending, mem, halted>>

inform_int(t) == ~halted /\ (IntWake(t) \/ IntMark(t))

-----------------------------------------------------------------------------

Next ==
    \/ \E p, d \in Proc, t \in Type : Send(p, d, t)
    \/ \E p \in Proc, src \in Proc \cup {ANY, INTERRUPT}, both \in BOOLEAN :
            Receive(p, src, both)
    \/ \E t \in IntTask : inform_int(t)

Spec == Init /\ [][Next]_vars

-----------------------------------------------------------------------------
(***************************************************************************)
(* Properties.                                                             *)
(***************************************************************************)

TypeOK ==
    /\ p_flags \in [Proc -> SUBSET {"SENDING", "RECEIVING"}]
    /\ p_msg \in [Proc -> BOOLEAN]
    /\ p_recvfrom \in [Proc -> Proc \cup {ANY, INTERRUPT, NO_TASK}]
    /\ p_sendto \in [Proc -> Proc \cup {NO_TASK}]
    /\ has_int_msg \in [Proc -> BOOLEAN]
    /\ q_sending \in [Proc -> Seq(Proc)]
    /\ mem \in [Proc -> Message]
    /\ halted \in BOOLEAN

(* What the assertions of msg_send(), msg_receive() and inform_int() say    *)
(* of a process whenever it is looked at: the blocking fields are set       *)
(* exactly as its flags say, and it is never sending and receiving at once. *)
FieldsMatchFlags ==
    \A p \in Proc :
        /\ ~(IsSending(p) /\ IsReceiving(p))
        /\ p_msg[p] <=> p_flags[p] # {}
        /\ IsSending(p) <=> p_sendto[p] # NO_TASK
        /\ IsReceiving(p) <=> p_recvfrom[p] # NO_TASK

(* The queue of d holds every process that is blocked sending to d, each    *)
(* once, and nobody else: a sender is neither lost nor served twice.        *)
QueueIsSenders ==
    \A d \in Proc :
        /\ \A p \in Proc :
              (IsSending(p) /\ p_sendto[p] = d)
                <=> \E i \in DOMAIN q_sending[d] : q_sending[d][i] = p
        /\ \A i, j \in DOMAIN q_sending[d] :
              q_sending[d][i] = q_sending[d][j] => i = j

(* Two partners never wait for each other: a process blocked in RECEIVE has *)
(* no acceptable sender in its queue.                                       *)
NoMissedRendezvous ==
    \A d, p \in Proc : ~(DestWaitsFor(d, p) /\ IsSending(p) /\ p_sendto[p] = d)

(* A task that sleeps until an interrupt has none pending; this is the      *)
(* assertion at the end of msg_receive().                                   *)
NoMissedInterrupt ==
    \A t \in Proc : WaitsForInterrupt(t) => ~has_int_msg[t]

(* The senders never wait in a circle: of any processes, at least one is    *)
(* not blocked sending to another of them.  deadlock() is there to keep     *)
(* this; its loop would not end without it.                                 *)
NoSendCycle ==
    \A C \in SUBSET Proc :
        C # {} => \E p \in C : ~(IsSending(p) /\ p_sendto[p] \in C)

(* The closed form of deadlock() used in Ipc gives the answer of the loop,  *)
(* and the loop ends.                                                       *)
DeadlockLoopAgrees ==
    \A src, dest \in Proc :
        LET hop == Walk(dest) IN
        (src # dest /\ CanCall(src)) =>
            /\ deadlock(src, dest) <=>
                 \E n \in DOMAIN hop : IsSending(hop[n]) /\ p_sendto[hop[n]] = src
            /\ ~deadlock(src, dest) => ~IsSending(hop[Cardinality(Proc)])

(* The kernel implements the rendezvous that processes rely on.             *)
R == INSTANCE Rendezvous
        WITH offer <- p_sendto, want <- p_recvfrom, intr <- has_int_msg,
             stopped <- halted

ImplementsRendezvous == R!RSpec
=============================================================================
