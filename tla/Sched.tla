------------------------------- MODULE Sched -------------------------------
(***************************************************************************)
(* The scheduler: schedule() of kernel/proc.c, clock_handler() of          *)
(* kernel/clock.c, and the way they are reached through kernel.asm.        *)
(*                                                                         *)
(* Every process has a number of ticks left.  The clock charges the        *)
(* process p_proc_ready points to; when that one has none left, the        *)
(* runnable process with the most ticks is next, and when all runnable     *)
(* processes have used theirs up, each gets its priority again.            *)
(*                                                                         *)
(* What processes do is abstracted to the effect on p_flags: the running   *)
(* process blocks in a system call, or makes one that unblocks others;     *)
(* interrupts unblock tasks.  schedule() runs with interrupts on, so when  *)
(* nobody is runnable it spins until an interrupt makes a task runnable.   *)
(* If that is the task which has just blocked, the assertion behind        *)
(* block() fails and stops the system.                                     *)
(***************************************************************************)
EXTENDS Integers, FiniteSets

CONSTANTS
    NR,         \* the number of entries of proc_table[], which are 0 .. NR-1
    Native,     \* NR_TASKS + NR_NATIVE_PROCS: the entries in use from the beginning
    IntTask,    \* tasks that an interrupt may unblock (TTY and HD)
    MM,         \* the task that writes the p_flags of other processes itself
    priority    \* priority[p]: the ticks a process is given

Proc == 0 .. NR - 1

ASSUME SchedAssumption ==
    /\ NR \in Nat \ {0} /\ Native \in 1 .. NR
    /\ IntTask \subseteq Proc /\ MM \in Proc
    /\ priority \in [Proc -> Nat \ {0}]

VARIABLES
    runnable,      \* the processes whose p_flags are 0
    ticks,         \* ticks[p]: ticks left
    p_proc_ready,  \* the process that runs, or will be restarted
    mode           \* where the processor is, see Modes

Modes == {"user",       \* in process p_proc_ready
          "kernel",     \* in a system call of p_proc_ready
          "schedule",   \* in schedule(), called by block() in a system call
          "return",     \* past schedule(), about to restart p_proc_ready
          "stopped"}    \* in assertion_failure(), for ever

vars == <<runnable, ticks, p_proc_ready, mode>>

(* kernel_main() gives every native process its priority in ticks, marks the *)
(* other entries FREE_SLOT, and starts the first of the table.              *)
Init ==
    /\ runnable = 0 .. Native - 1
    /\ ticks = [p \in Proc |-> IF p < Native THEN priority[p] ELSE 0]
    /\ p_proc_ready = 0
    /\ mode = "user"

-----------------------------------------------------------------------------
(* Mutant: processes whose flags are set are candidates, too. *)
Best_Blocked(r, t) ==
    {p \in Proc : \A q \in Proc : t[q] < t[p] \/ (t[q] = t[p] /\ p <= q)}

(* Of the runnable processes r with ticks t, the loop over proc_table[]      *)
(* keeps the first that has the most.                                       *)
Best(r, t) ==
    {p \in r : \A q \in r : t[q] < t[p] \/ (t[q] = t[p] /\ p <= q)}

(* Mutant: the ticks are refilled as soon as one process has used its up. *)
Refilled_TooEarly(r, t) ==
    IF \E p \in r : t[p] = 0
      THEN [p \in Proc |-> IF p \in r THEN priority[p] ELSE t[p]]
      ELSE t

(* No ticks are greater than greatest_ticks = 0: the runnable processes are *)
(* refilled and the loop runs again.                                        *)
Refilled(r, t) ==
    IF \A p \in r : t[p] = 0
      THEN [p \in Proc |-> IF p \in r THEN priority[p] ELSE t[p]]
      ELSE t

(* schedule(), when somebody is runnable. *)
schedule(r, t) ==
    /\ ticks' = Refilled(r, t)
    /\ p_proc_ready' \in Best(r, Refilled(r, t))

(* Mutant: the test for p_proc_ready->ticks is missing. *)
Charged_NoTest(p) == [ticks EXCEPT ![p] = @ - 1]

(* clock_handler() takes a tick from p_proc_ready, unless it has none. *)
Charged(p) == [ticks EXCEPT ![p] = IF @ > 0 THEN @ - 1 ELSE 0]

-----------------------------------------------------------------------------
(* The clock interrupts the running process.  If a key was pressed, the      *)
(* handler also unblocks TTY: woken is what inform_int() unblocks.          *)
TickUser(woken) ==
    /\ mode = "user"
    /\ runnable' = runnable \cup woken
    /\ LET t == Charged(p_proc_ready) IN
       IF t[p_proc_ready] > 0
         THEN ticks' = t /\ UNCHANGED p_proc_ready
         ELSE schedule(runnable \cup woken, t)
    /\ UNCHANGED mode

(* The clock interrupts the kernel (k_reenter != 0): nobody is rescheduled. *)
TickKernel(woken) ==
    /\ mode \notin {"user", "stopped"}
    /\ runnable' = runnable \cup woken
    /\ ticks' = Charged(p_proc_ready)
    /\ UNCHANGED <<p_proc_ready, mode>>

(* The clock interrupts a pass of the loop in schedule(): p_proc_ready is    *)
(* then one of the candidates, and that one is charged.                     *)
TickInLoop(candidate, woken) ==
    /\ mode = "schedule"
    /\ runnable' = runnable \cup woken
    /\ ticks' = Charged(candidate)
    /\ UNCHANGED <<p_proc_ready, mode>>

(* A disk interrupt unblocks the disk task. *)
Interrupt(t) ==
    /\ mode # "stopped"
    /\ runnable' = runnable \cup {t}
    /\ UNCHANGED <<ticks, p_proc_ready, mode>>

(* sys_call: the running process enters the kernel. *)
SysCall ==
    /\ mode = "user"
    /\ mode' = "kernel"
    /\ UNCHANGED <<runnable, ticks, p_proc_ready>>

(* The call ends, having unblocked at most the partner of a rendezvous. *)
SysReturn(unblocked) ==
    /\ mode = "kernel"
    /\ runnable' = runnable \cup unblocked
    /\ mode' = "user"
    /\ UNCHANGED <<ticks, p_proc_ready>>

(* The call sets p_flags of the caller and calls block(). *)
Block ==
    /\ mode = "kernel"
    /\ runnable' = runnable \ {p_proc_ready}
    /\ mode' = "schedule"
    /\ UNCHANGED <<ticks, p_proc_ready>>

(* schedule() finds somebody; with nobody runnable its loop goes on.  The    *)
(* caller asserts that its own flags are still set.                         *)
Dispatch ==
    /\ mode = "schedule"
    /\ runnable # {}
    /\ schedule(runnable, ticks)
    /\ mode' = IF p_proc_ready \in runnable THEN "stopped" ELSE "return"
    /\ UNCHANGED runnable

(* restart: the process p_proc_ready points to gets the processor. *)
Restart ==
    /\ mode = "return"
    /\ mode' = "user"
    /\ UNCHANGED <<runnable, ticks, p_proc_ready>>

(* do_fork(), do_exit(), do_wait() and cleanup() change the flags of another *)
(* process while MM runs.                                                   *)
SetFlags(p) ==
    /\ mode = "user" /\ p_proc_ready = MM
    /\ runnable' \in {runnable \cup {p}, runnable \ {p}}
    /\ UNCHANGED <<ticks, p_proc_ready, mode>>

(* do_fork() copies the entry of the parent, its ticks and flags included,   *)
(* over a slot that was free.  User processes have the same priority.       *)
Fork(child, parent) ==
    /\ mode = "user" /\ p_proc_ready = MM
    /\ child \notin runnable /\ priority[child] = priority[parent]
    /\ ticks' = [ticks EXCEPT ![child] = ticks[parent]]
    /\ runnable' = IF parent \in runnable THEN runnable \cup {child} ELSE runnable
    /\ UNCHANGED <<p_proc_ready, mode>>

Woken == {{}} \cup {{t} : t \in IntTask}

Tick == \E woken \in Woken : TickUser(woken)

(* All steps but fork, and but a tick in the short time that a pass of       *)
(* schedule() takes.                                                        *)
QuietNext ==
    \/ Tick
    \/ \E woken \in Woken : TickKernel(woken)
    \/ \E t \in IntTask : Interrupt(t)
    \/ SysCall \/ Block \/ Dispatch \/ Restart
    \/ \E p \in Proc \ {p_proc_ready} : SysReturn({p}) \/ SetFlags(p)
    \/ SysReturn({})

Next ==
    \/ QuietNext
    \/ \E p \in runnable, woken \in Woken : TickInLoop(p, woken)
    \/ \E child, parent \in Proc : Fork(child, parent)

Spec == Init /\ [][Next]_vars

(* The clock keeps ticking and hits user code again and again; a system call *)
(* comes to its end.                                                        *)
Fairness ==
    /\ SF_vars(Tick)
    /\ WF_vars(Block \/ \E p \in Proc : SysReturn({p} \ {p_proc_ready}))
    /\ WF_vars(Dispatch)
    /\ WF_vars(Restart)

FairSpec == Spec /\ Fairness

-----------------------------------------------------------------------------

TypeOK ==
    /\ runnable \subseteq Proc
    /\ ticks \in [Proc -> Nat]
    /\ \A p \in Proc : ticks[p] <= priority[p]
    /\ p_proc_ready \in Proc
    /\ mode \in Modes

(* The processor is only ever given to a process whose flags are clear,     *)
(* although flags change in system calls, in interrupts and under MM.       *)
RunningIsRunnable ==
    mode \in {"user", "kernel", "return"} => p_proc_ready \in runnable

(* No process that stays runnable is kept from the processor for ever, by    *)
(* processes with more ticks or by processes that block and wake.  Two      *)
(* things must come to an end for that.  A tick that hits a pass of         *)
(* schedule() charges a candidate that does not run, which would starve if  *)
(* it were hit every time.  And a forked child comes with the ticks of its  *)
(* parent, so processes that fork again and again put off the refill.  And   *)
(* an assertion that fails stops all of them.                               *)
NoStarvation ==
    <>[][QuietNext]_vars =>
        \A p \in Proc :
            p \in runnable ~> \/ p \notin runnable \/ mode = "stopped"
                              \/ p_proc_ready = p /\ mode = "user"
=============================================================================
