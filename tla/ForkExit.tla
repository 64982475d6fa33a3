------------------------------ MODULE ForkExit ------------------------------
(***************************************************************************)
(* fork(), exit() and wait(): the task MM (mm/main.c, mm/forkexit.c), the  *)
(* library stubs that call it (lib/fork.c, lib/exit.c, lib/wait.c) and the *)
(* process table they share.                                               *)
(*                                                                         *)
(* A stub is a BOTH: a SEND to MM, then a RECEIVE from MM, two system      *)
(* calls between which the caller can lose the processor.  MM runs in ring *)
(* 1 and is preemptible as well, so it may work on the table before its    *)
(* caller has made the second call.  MM calls FS in the middle of fork and *)
(* exit; FS is external here and just answers some time later.             *)
(*                                                                         *)
(* Slots are numbered, since MM scans the table in order: 0 is INIT, which *)
(* never exits; 1 .. NrSlots are the entries fork() hands out.             *)
(***************************************************************************)
EXTENDS Integers, Sequences, FiniteSets, FiniteSetsExt

CONSTANTS
    NrSlots,    \* entries of proc_table[] for forked processes
    MemSizes,   \* what memory_size may be: how many of them lie below it
    Status,     \* exit statuses
    NO_TASK, NULL

INIT == 0
Slot == 1 .. NrSlots
Proc == {INIT} \cup Slot

ASSUME SlotAssumption ==
    /\ NrSlots \in Nat \ {0} /\ MemSizes \subseteq 0 .. NrSlots
    /\ NO_TASK \notin Proc /\ NULL \notin Proc /\ NULL \notin Status

VARIABLES
    p_flags,      \* as in the code; {} is runnable
    p_parent,     \* p_parent[p]: pid of the parent, or NO_TASK
    exit_status,  \* exit_status[p]: set by do_exit() for the parent
    ldt,          \* ldt[p]: whose memory the descriptors of p point to
    upc,          \* where p is: "run", "sent" (past SEND), "recv", "spin"
    req,          \* req[p]: the request p waits to be answered, or NULL
    q_sending,    \* the processes blocked sending to MM
    mm,           \* where MM is, and what it works on
    memory_size,  \* set once by init_mm(), from the boot parameters
    halted        \* panic()

vars == <<p_flags, p_parent, exit_status, ldt, upc, req, q_sending, mm, memory_size, halted>>

Request == [type : {"FORK", "WAIT"}, status : {NULL}] \cup [type : {"EXIT"}, status : Status]

ASSUME NullAssumption == NULL \notin Request

(* MM's position: src is mm_msg.source; dest and msg are those of a SEND in  *)
(* progress; next is where MM goes on after it; kid is the child at hand;   *)
(* from is the loop index of do_exit().                                     *)
Idle == [pc |-> "loop", src |-> NULL, dest |-> NULL, msg |-> NULL, next |-> "loop",
         kid |-> NULL, from |-> 0]

Init ==
    /\ p_flags = [p \in Proc |-> IF p = INIT THEN {} ELSE {"FREE_SLOT"}]
    /\ p_parent = [p \in Proc |-> NO_TASK]
    /\ exit_status = [p \in Proc |-> NULL]
    /\ ldt = [p \in Proc |-> p]
    /\ upc = [p \in Proc |-> "run"]
    /\ req = [p \in Proc |-> NULL]
    /\ q_sending = <<>>
    /\ mm = Idle
    /\ memory_size \in MemSizes
    /\ halted = FALSE

Goto(pc) == mm' = IF pc = "loop" THEN Idle ELSE [mm EXCEPT !.pc = pc]

CanRun(p) == ~halted /\ p_flags[p] = {}
Has(p, flag) == flag \in p_flags[p]

-----------------------------------------------------------------------------
(* The processes.                                                           *)

(* The first half of BOTH: msg_send() hands the request to MM if MM waits   *)
(* in its RECEIVE, else queues the caller.                                  *)
CallSend(p, r) ==
    /\ CanRun(p) /\ upc[p] = "run"
    /\ r.type = "EXIT" => p # INIT
    /\ upc' = [upc EXCEPT ![p] = "sent"]
    /\ req' = [req EXCEPT ![p] = r]
    /\ IF mm.pc = "receiving"
         THEN mm' = [mm EXCEPT !.pc = r.type, !.src = p] /\ UNCHANGED <<p_flags, q_sending>>
         ELSE /\ p_flags' = [p_flags EXCEPT ![p] = @ \cup {"SENDING"}]
              /\ q_sending' = Append(q_sending, p)
              /\ UNCHANGED mm
    /\ UNCHANGED <<p_parent, exit_status, ldt, memory_size, halted>>

(* What the stub does with MM's answer: fork() asserts RETVAL == 0, and a    *)
(* failed assertion in a user process spins for ever.                       *)
After(p, msg) == IF req[p].type = "FORK" /\ msg.val # 0 THEN "spin" ELSE "run"

(* The second half: msg_receive() takes the answer if MM is blocked sending *)
(* it, else blocks the caller.                                              *)
CallReceive(p) ==
    /\ CanRun(p) /\ upc[p] = "sent"
    /\ IF mm.pc = "sending" /\ mm.dest = p
         THEN /\ upc' = [upc EXCEPT ![p] = After(p, mm.msg)]
              /\ req' = [req EXCEPT ![p] = NULL]
              /\ Goto(mm.next)
              /\ UNCHANGED p_flags
         ELSE /\ p_flags' = [p_flags EXCEPT ![p] = @ \cup {"RECEIVING"}]
              /\ upc' = [upc EXCEPT ![p] = "recv"]
              /\ UNCHANGED <<req, mm>>
    /\ UNCHANGED <<p_parent, exit_status, ldt, q_sending, memory_size, halted>>

-----------------------------------------------------------------------------
(* MM's main loop.                                                          *)

At(pc) == mm.pc = pc /\ ~halted

(* send_recv(RECEIVE, ANY, &mm_msg) *)
MMReceive ==
    /\ At("loop")
    /\ IF q_sending = <<>>
         THEN mm' = [mm EXCEPT !.pc = "receiving"] /\ UNCHANGED <<p_flags, q_sending>>
         ELSE LET p == Head(q_sending) IN
              /\ mm' = [mm EXCEPT !.pc = req[p].type, !.src = p]
              /\ p_flags' = [p_flags EXCEPT ![p] = @ \ {"SENDING"}]
              /\ q_sending' = Tail(q_sending)
    /\ UNCHANGED <<p_parent, exit_status, ldt, upc, req, memory_size, halted>>

(* MM is about to send msg to dest, and goes on at next. *)
SendThen(dest, msg, next) ==
    mm' = [mm EXCEPT !.pc = "send", !.dest = dest, !.msg = msg, !.next = next]

(* send_recv(SEND, dest, &msg): msg_send() with MM as the caller. *)
MMSend ==
    /\ At("send")
    /\ IF Has(mm.dest, "RECEIVING")
         THEN /\ p_flags' = [p_flags EXCEPT ![mm.dest] = @ \ {"RECEIVING"}]
              /\ upc' = [upc EXCEPT ![mm.dest] = After(mm.dest, mm.msg)]
              /\ req' = [req EXCEPT ![mm.dest] = NULL]
              /\ Goto(mm.next)
         ELSE /\ mm' = [mm EXCEPT !.pc = "sending"]
              /\ UNCHANGED <<p_flags, upc, req>>
    /\ UNCHANGED <<p_parent, exit_status, ldt, q_sending, memory_size, halted>>

-----------------------------------------------------------------------------
(* do_fork()                                                                *)

FreeSlots == {p \in Proc : p_flags[p] = {"FREE_SLOT"}}

(* Find a free slot and copy the parent's entry into it: flags, program     *)
(* position and descriptors are the parent's.  MM answers -1 itself when    *)
(* there is no slot; alloc_mem() panics when there is no memory for it.     *)
ForkCopy ==
    /\ At("FORK")
    /\ IF FreeSlots = {}
         THEN /\ SendThen(mm.src, [pid |-> NULL, val |-> -1], "loop")
              /\ UNCHANGED <<p_flags, p_parent, exit_status, ldt, upc, req, halted>>
         ELSE LET child == Min(FreeSlots) IN
              /\ p_flags' = [p_flags EXCEPT ![child] = p_flags[mm.src]]
              /\ exit_status' = [exit_status EXCEPT ![child] = exit_status[mm.src]]
              /\ ldt' = [ldt EXCEPT ![child] = ldt[mm.src]]
              /\ upc' = [upc EXCEPT ![child] = upc[mm.src]]
              /\ req' = [req EXCEPT ![child] = req[mm.src]]
              /\ p_parent' = [p_parent EXCEPT ![child] = mm.src]
              /\ mm' = [mm EXCEPT !.pc = "fork_mem", !.kid = child]
              /\ halted' = (child > memory_size)
    /\ UNCHANGED <<q_sending, memory_size>>

(* phys_copy() of the memory, the child's own descriptors, FS is told, and   *)
(* 0 is to be sent to the child as its birth message.                       *)
ForkMem ==
    /\ At("fork_mem")
    /\ ldt' = [ldt EXCEPT ![mm.kid] = mm.kid]
    /\ SendThen(mm.kid, [pid |-> 0, val |-> 0], "fork_reply")
    /\ UNCHANGED <<p_flags, p_parent, exit_status, upc, req, q_sending, memory_size, halted>>

(* Mutant: no answer to the parent. *)
ForkReply_None ==
    /\ At("fork_reply")
    /\ mm' = Idle
    /\ UNCHANGED <<p_flags, p_parent, exit_status, ldt, upc, req, q_sending, memory_size, halted>>

(* Mutant: the answer goes to the child. *)
ForkReply_ToChild ==
    /\ At("fork_reply")
    /\ SendThen(mm.kid, [pid |-> mm.kid, val |-> 0], "loop")
    /\ UNCHANGED <<p_flags, p_parent, exit_status, ldt, upc, req, q_sending, memory_size, halted>>

(* Back in the main loop: the child's pid to the parent. *)
ForkReply ==
    /\ At("fork_reply")
    /\ SendThen(mm.src, [pid |-> mm.kid, val |-> 0], "loop")
    /\ UNCHANGED <<p_flags, p_parent, exit_status, ldt, upc, req, q_sending, memory_size, halted>>

-----------------------------------------------------------------------------
(* cleanup(kid): report kid to its parent, then (Free) release its entry.    *)
(* from is where do_exit() goes on with its loop.                           *)
CleanupThen(kid, parent, status, next, from) ==
    mm' = [mm EXCEPT !.pc = "send", !.dest = parent, !.msg = [pid |-> kid, val |-> status],
                     !.next = next, !.kid = kid, !.from = from]

(* Mutant: p_parent is reset to a value that is no pid. *)
Free_WrongParent(pc, next) ==
    /\ At(pc)
    /\ p_flags' = [p_flags EXCEPT ![mm.kid] = {"FREE_SLOT"}]
    /\ p_parent' = [p_parent EXCEPT ![mm.kid] = NULL]
    /\ upc' = [upc EXCEPT ![mm.kid] = "run"]
    /\ req' = [req EXCEPT ![mm.kid] = NULL]
    /\ Goto(next)
    /\ UNCHANGED <<exit_status, ldt, q_sending, memory_size, halted>>

(* Only p_flags is reset in the table; the process behind the entry is gone. *)
Free(pc, next) ==
    /\ At(pc)
    /\ p_flags' = [p_flags EXCEPT ![mm.kid] = {"FREE_SLOT"}]
    /\ upc' = [upc EXCEPT ![mm.kid] = "run"]
    /\ req' = [req EXCEPT ![mm.kid] = NULL]
    /\ Goto(next)
    /\ UNCHANGED <<p_parent, exit_status, ldt, q_sending, memory_size, halted>>

-----------------------------------------------------------------------------
(* do_exit()                                                                *)

(* Mutant: WAITING of the parent that is answered stays set. *)
ExitMark_KeepsWaiting ==
    /\ At("EXIT")
    /\ LET pid == mm.src
           parent == p_parent[pid]
           status == req[pid].status
       IN  /\ exit_status' = [exit_status EXCEPT ![pid] = status]
           /\ IF Has(parent, "WAITING")
                THEN CleanupThen(pid, parent, status, "exit_free", 0) /\ UNCHANGED p_flags
                ELSE /\ p_flags' = [p_flags EXCEPT ![pid] = @ \cup {"HANGING"}]
                     /\ mm' = [mm EXCEPT !.pc = "exit_kids", !.from = 0]
    /\ UNCHANGED <<p_parent, ldt, upc, req, q_sending, memory_size, halted>>

(* FS has answered the EXIT message.  The parent, if it waits, is answered; *)
(* else the process hangs until the parent does.                            *)
ExitMark ==
    /\ At("EXIT")
    /\ LET pid == mm.src
           parent == p_parent[pid]
           status == req[pid].status
       IN  /\ exit_status' = [exit_status EXCEPT ![pid] = status]
           /\ IF Has(parent, "WAITING")
                THEN /\ p_flags' = [p_flags EXCEPT ![parent] = @ \ {"WAITING"}]
                     /\ CleanupThen(pid, parent, status, "exit_free", 0)
                ELSE /\ p_flags' = [p_flags EXCEPT ![pid] = @ \cup {"HANGING"}]
                     /\ mm' = [mm EXCEPT !.pc = "exit_kids", !.from = 0]
    /\ UNCHANGED <<p_parent, ldt, upc, req, q_sending, memory_size, halted>>

ExitFree == Free("exit_free", "exit_kids")

(* Mutant: the children keep the parent that has exited. *)
ExitKids_KeepParent ==
    /\ At("exit_kids")
    /\ mm' = Idle
    /\ UNCHANGED <<p_flags, p_parent, exit_status, ldt, upc, req, q_sending, memory_size, halted>>

(* Mutant: a zombie is handed to INIT without a look at whether INIT waits. *)
ExitKids_NoReport ==
    /\ At("exit_kids")
    /\ p_parent' = [i \in Proc |-> IF p_parent[i] = mm.src THEN INIT ELSE p_parent[i]]
    /\ mm' = Idle
    /\ UNCHANGED <<p_flags, exit_status, ldt, upc, req, q_sending, memory_size, halted>>

(* The loop that gives the children to INIT; from the next child on.  A     *)
(* child that hangs is reported to INIT if INIT waits.                      *)
ExitKids ==
    /\ At("exit_kids")
    /\ LET kids == {i \in Proc : i >= mm.from /\ p_parent[i] = mm.src} IN
       IF kids = {}
         THEN mm' = Idle /\ UNCHANGED <<p_flags, p_parent>>
         ELSE LET i == Min(kids) IN
              /\ p_parent' = [p_parent EXCEPT ![i] = INIT]
              /\ IF Has(INIT, "WAITING") /\ Has(i, "HANGING")
                   THEN /\ p_flags' = [p_flags EXCEPT ![INIT] = @ \ {"WAITING"}]
                        /\ CleanupThen(i, INIT, exit_status[i], "exit_free", i + 1)
                   ELSE /\ mm' = [mm EXCEPT !.from = i + 1]
                        /\ UNCHANGED p_flags
    /\ UNCHANGED <<exit_status, ldt, upc, req, q_sending, memory_size, halted>>

-----------------------------------------------------------------------------
(* Mutant: the test of p_parent is missing. *)
Children_Anybodys(p) == Slot

(* do_wait()                                                                *)
Children(p) == {i \in Proc : p_parent[i] = p}

Wait ==
    /\ At("WAIT")
    /\ LET pid == mm.src
           zombies == {i \in Children(pid) : Has(i, "HANGING")}
       IN  \/ /\ zombies # {}
              /\ CleanupThen(Min(zombies), pid, exit_status[Min(zombies)], "wait_free", 0)
              /\ UNCHANGED p_flags
           \/ /\ zombies = {} /\ Children(pid) # {}
              /\ p_flags' = [p_flags EXCEPT ![pid] = @ \cup {"WAITING"}]
              /\ mm' = Idle
           \/ /\ Children(pid) = {}
              /\ SendThen(pid, [pid |-> NO_TASK, val |-> NULL], "loop")
              /\ UNCHANGED p_flags
    /\ UNCHANGED <<p_parent, exit_status, ldt, upc, req, q_sending, memory_size, halted>>

WaitFree == Free("wait_free", "loop")

-----------------------------------------------------------------------------

MMStep == \/ MMReceive \/ MMSend \/ ForkCopy \/ ForkMem \/ ForkReply
          \/ ExitMark \/ ExitFree \/ ExitKids \/ Wait \/ WaitFree

Next == \/ \E p \in Proc : CallReceive(p) \/ \E r \in Request : CallSend(p, r)
        \/ MMStep

Spec == Init /\ [][Next]_vars

(* The processor is given to every runnable process again and again (see     *)
(* Sched), and FS answers: MM makes its next step, and a process that has    *)
(* sent its request goes on to wait for the answer.                         *)
Fairness == WF_vars(MMStep) /\ \A p \in Proc : WF_vars(CallReceive(p))

FairSpec == Spec /\ Fairness

-----------------------------------------------------------------------------
(* Properties.                                                              *)

TypeOK ==
    /\ p_flags \in [Proc -> SUBSET {"SENDING", "RECEIVING", "WAITING", "HANGING", "FREE_SLOT"}]
    /\ p_parent \in [Proc -> Proc \cup {NO_TASK}]
    /\ exit_status \in [Proc -> Status \cup {NULL}]
    /\ ldt \in [Proc -> Proc]
    /\ upc \in [Proc -> {"run", "sent", "recv", "spin"}]
    /\ req \in [Proc -> Request \cup {NULL}]
    /\ q_sending \in Seq(Proc)
    /\ memory_size \in MemSizes
    /\ halted \in BOOLEAN

MMIdle == mm.pc \in {"loop", "receiving"}
Live(p) == ~Has(p, "FREE_SLOT") /\ ~Has(p, "HANGING")

(* Once MM is through with a request, nobody waits for a child that has     *)
(* exited: whichever of exit() and wait() comes first, and whoever the      *)
(* child has been handed on to, its exit is reported.                       *)
NoMissedExit ==
    MMIdle => \A p, c \in Proc : ~(Has(p, "WAITING") /\ p_parent[c] = p /\ Has(c, "HANGING"))

(* Once MM is through with a request, every process in the table, zombies   *)
(* included, has a parent that is still there to wait for it.               *)
NoOrphans ==
    MMIdle => \A p \in Slot : ~Has(p, "FREE_SLOT") => Live(p_parent[p])

(* When MM answers a blocked process, RECEIVING is its only flag, so that   *)
(* it is runnable afterwards: assert(p_dest->p_flags == 0) in msg_send().   *)
AnsweredBecomesRunnable ==
    mm.pc = "send" /\ Has(mm.dest, "RECEIVING") => p_flags[mm.dest] = {"RECEIVING"}

(* While MM reports an exit to a process that waits, that process is the    *)
(* parent of the exited one, the exited one has not been released yet, and  *)
(* the status is the one it passed to exit(); also when the parent is late  *)
(* in taking the report.                                                    *)
ReapsOwnChild ==
    mm.pc \in {"send", "sending"} /\ req[mm.dest] # NULL /\ req[mm.dest].type = "WAIT"
        /\ mm.msg.pid \in Slot =>
            LET c == mm.msg.pid IN
            /\ p_parent[c] = mm.dest
            /\ ~Has(c, "FREE_SLOT")
            /\ req[c] # NULL /\ req[c].type = "EXIT" /\ req[c].status = mm.msg.val

(* MM never stays blocked in one of its SENDs: it comes back to its loop    *)
(* unless the kernel panics.                                                *)
MMReturns == []<>(MMIdle \/ halted)

(* A fork() does not stay unanswered, whatever other processes do. *)
ForkAnswered ==
    \A p \in Proc : []<>(halted \/ ~(req[p] # NULL /\ req[p].type = "FORK"))

(* A process has WAITING set only while it has a child, as the TERMs of     *)
(* do_exit() define it.                                                     *)
WaitingHasChild ==
    \A p \in Proc : Has(p, "WAITING") =>
        \E c \in Proc : p_parent[c] = p /\ ~Has(c, "FREE_SLOT")

(* Nobody can run on the memory of another process: the child of a fork is  *)
(* suspended, like the parent it was copied from, until it has its own.     *)
ChildSuspended == \A p \in Proc : p_flags[p] = {} => ldt[p] = p
=============================================================================
