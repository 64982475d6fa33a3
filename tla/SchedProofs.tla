---------------------------- MODULE SchedProofs ----------------------------
(***************************************************************************)
(* Proofs about Sched, for tables of any size and any priorities.          *)
(***************************************************************************)
EXTENDS Sched, TLAPS

IInv == TypeOK /\ RunningIsRunnable

(* A charge keeps ticks within their bounds. *)
LEMMA ChargedFacts ==
    ASSUME TypeOK, NEW p \in Proc
    PROVE  /\ Charged(p) \in [Proc -> Nat]
           /\ \A q \in Proc : Charged(p)[q] <= priority[q]
  <1>1. \A q \in Proc : priority[q] \in Nat
    BY SchedAssumption
  <1> QED  BY <1>1 DEF TypeOK, Charged

(* A refill keeps ticks within their bounds. *)
LEMMA RefilledFacts ==
    ASSUME NEW r \in SUBSET Proc, NEW t \in [Proc -> Nat],
           \A q \in Proc : t[q] <= priority[q]
    PROVE  /\ Refilled(r, t) \in [Proc -> Nat]
           /\ \A q \in Proc : Refilled(r, t)[q] <= priority[q]
  <1>1. \A q \in Proc : priority[q] \in Nat
    BY SchedAssumption
  <1> QED  BY <1>1 DEF Refilled

(* schedule() selects a runnable process and keeps the bounds on ticks. *)
LEMMA ScheduleFacts ==
    ASSUME NEW r \in SUBSET Proc, NEW t \in [Proc -> Nat],
           \A q \in Proc : t[q] <= priority[q], schedule(r, t)
    PROVE  /\ p_proc_ready' \in r
           /\ ticks' \in [Proc -> Nat]
           /\ \A q \in Proc : ticks'[q] <= priority[q]
  BY RefilledFacts DEF schedule, Best

(* Every step keeps the types and gives the processor to runnable processes. *)
LEMMA NextIInv == IInv /\ [Next]_vars => IInv'
  <1> SUFFICES ASSUME IInv, [Next]_vars PROVE IInv'
    OBVIOUS
  <1> USE DEF IInv
  <1>1. ASSUME NEW woken \in Woken, TickUser(woken) PROVE IInv'
    <2>1. woken \subseteq Proc
      BY SchedAssumption DEF Woken
    <2>2. p_proc_ready \in runnable /\ p_proc_ready \in Proc /\ mode = "user"
      BY <1>1 DEF TickUser, RunningIsRunnable, TypeOK
    <2> DEFINE t == Charged(p_proc_ready)
    <2>3. t \in [Proc -> Nat] /\ \A q \in Proc : t[q] <= priority[q]
      BY <2>2, ChargedFacts
    <2>4. runnable' = runnable \cup woken /\ mode' = "user" /\ runnable' \subseteq Proc
      BY <1>1, <2>1 DEF TickUser, TypeOK
    <2>5. CASE t[p_proc_ready] > 0
      <3>1. ticks' = t /\ p_proc_ready' = p_proc_ready
        BY <1>1, <2>5 DEF TickUser
      <3> HIDE DEF t
      <3> QED  BY <2>2, <2>3, <2>4, <3>1 DEF TypeOK, RunningIsRunnable, Modes
    <2>6. CASE ~(t[p_proc_ready] > 0)
      <3>1. schedule(runnable \cup woken, t)
        BY <1>1, <2>6 DEF TickUser
      <3> HIDE DEF t
      <3>2. /\ p_proc_ready' \in runnable \cup woken /\ ticks' \in [Proc -> Nat]
            /\ \A q \in Proc : ticks'[q] <= priority[q]
        BY <2>3, <2>4, <3>1, ScheduleFacts
      <3> QED  BY <2>4, <3>2 DEF TypeOK, RunningIsRunnable, Modes
    <2> QED  BY <2>5, <2>6
  <1>2. ASSUME NEW woken \in Woken, TickKernel(woken) PROVE IInv'
    <2>1. woken \subseteq Proc
      BY SchedAssumption DEF Woken
    <2>2. ticks' \in [Proc -> Nat] /\ \A q \in Proc : ticks'[q] <= priority[q]
      BY <1>2, ChargedFacts DEF TickKernel, TypeOK
    <2> QED  BY <1>2, <2>1, <2>2 DEF TickKernel, TypeOK, RunningIsRunnable
  <1>3. ASSUME NEW p \in runnable, NEW woken \in Woken, TickInLoop(p, woken) PROVE IInv'
    <2>1. woken \subseteq Proc
      BY SchedAssumption DEF Woken
    <2>2. ticks' \in [Proc -> Nat] /\ \A q \in Proc : ticks'[q] <= priority[q]
      BY <1>3, ChargedFacts DEF TickInLoop, TypeOK
    <2> QED  BY <1>3, <2>1, <2>2 DEF TickInLoop, TypeOK, RunningIsRunnable
  <1>4. ASSUME NEW t \in IntTask, Interrupt(t) PROVE IInv'
    BY <1>4, SchedAssumption DEF Interrupt, TypeOK, RunningIsRunnable
  <1>5. CASE SysCall
    BY <1>5 DEF SysCall, TypeOK, RunningIsRunnable, Modes
  <1>6. CASE Block
    BY <1>6 DEF Block, TypeOK, RunningIsRunnable, Modes
  <1>7. CASE Dispatch
    <2>1. /\ p_proc_ready' \in runnable /\ ticks' \in [Proc -> Nat]
          /\ \A q \in Proc : ticks'[q] <= priority[q]
      BY <1>7, ScheduleFacts DEF Dispatch, TypeOK
    <2> QED  BY <1>7, <2>1 DEF Dispatch, TypeOK, RunningIsRunnable, Modes
  <1>8. CASE Restart
    BY <1>8 DEF Restart, TypeOK, RunningIsRunnable, Modes
  <1>9. ASSUME NEW p \in Proc \ {p_proc_ready}, SysReturn({p}) \/ SetFlags(p) PROVE IInv'
    <2>1. CASE SysReturn({p})
      BY <2>1 DEF SysReturn, TypeOK, RunningIsRunnable, Modes
    <2>2. CASE SetFlags(p)
      <3>1. runnable' \subseteq Proc /\ (p_proc_ready \in runnable => p_proc_ready \in runnable')
        BY <2>2 DEF SetFlags, TypeOK
      <3> QED  BY <2>2, <3>1 DEF SetFlags, TypeOK, RunningIsRunnable
    <2> QED  BY <1>9, <2>1, <2>2
  <1>10. CASE SysReturn({})
    BY <1>10 DEF SysReturn, TypeOK, RunningIsRunnable, Modes
  <1>11. ASSUME NEW child \in Proc, NEW parent \in Proc, Fork(child, parent) PROVE IInv'
    <2>1. /\ ticks' \in [Proc -> Nat] /\ \A q \in Proc : ticks'[q] <= priority[q]
          /\ runnable \subseteq runnable' /\ runnable' \subseteq Proc
      BY <1>11 DEF Fork, TypeOK
    <2> QED  BY <1>11, <2>1 DEF Fork, TypeOK, RunningIsRunnable
  <1>12. CASE UNCHANGED vars
    BY <1>12 DEF vars, TypeOK, RunningIsRunnable
  <1> QED  BY <1>1, <1>2, <1>3, <1>4, <1>5, <1>6, <1>7, <1>8, <1>9, <1>10, <1>11, <1>12
           DEF Next, QuietNext, Tick

(* kernel_main() starts from a runnable process with full ticks. *)
LEMMA InitIInv == Init => IInv
  <1>1. \A q \in Proc : priority[q] \in Nat
    BY SchedAssumption
  <1>2. 0 \in Proc /\ 0 .. Native - 1 \subseteq Proc /\ 0 \in 0 .. Native - 1
    BY SchedAssumption DEF Proc
  <1> QED  BY <1>1, <1>2, SchedAssumption DEF Init, IInv, TypeOK, RunningIsRunnable, Modes

(* Ticks never exceed the priority of their process, nor drop below 0. *)
THEOREM SchedTypeCorrect == Spec => []TypeOK
  BY InitIInv, NextIInv, PTL DEF Spec, IInv

(* Only a process with clear flags is ever given the processor. *)
THEOREM OnlyRunnableRuns == Spec => []RunningIsRunnable
  BY InitIInv, NextIInv, PTL DEF Spec, IInv
=============================================================================
