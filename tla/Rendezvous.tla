----------------------------- MODULE Rendezvous -----------------------------
(***************************************************************************)
(* What the message passing of kernel/proc.c promises to the processes,    *)
(* without the flags, pointers and queues that implement it.               *)
(*                                                                         *)
(* A process is free, or it offers a message to one process, or it wants   *)
(* one from a process, from the hardware or from anyone.  A message moves  *)
(* in one step, when the second of the two partners arrives; so it is      *)
(* delivered once, whole, and both partners are free afterwards.  Nobody   *)
(* is left waiting while the partner it could pair with waits too.         *)
(***************************************************************************)
CONSTANTS Proc, IntTask, Type, HARD_INT, NoType, ANY, INTERRUPT, NO_TASK

VARIABLES
    offer,    \* offer[p]: to whom p offers the message in mem[p], or NO_TASK
    want,     \* want[p]: from whom p wants a message, or NO_TASK
    intr,     \* intr[p]: an interrupt is waiting for p
    mem,      \* mem[p]: the message in p's memory
    stopped   \* a circle of offers, or an error, has stopped the system

rvars == <<offer, want, intr, mem, stopped>>

Free(p) == ~stopped /\ offer[p] = NO_TASK /\ want[p] = NO_TASK

Accepts(d, p) == want[d] \in {p, ANY}

IntMessage == [source |-> INTERRUPT, type |-> HARD_INT]

RInit ==
    /\ offer = [p \in Proc |-> NO_TASK]
    /\ want = [p \in Proc |-> NO_TASK]
    /\ intr = [p \in Proc |-> FALSE]
    /\ mem = [p \in Proc |-> [source |-> NO_TASK, type |-> NoType]]
    /\ stopped = FALSE

(* A new offer would close a circle: some set of other processes that       *)
(* leads from d along offers reaches p.                                     *)
Circle(p, d) ==
    \A S \in SUBSET Proc :
        (d \in S /\ \A r \in S : offer[r] # NO_TASK => offer[r] \in S) => p \in S

(* The offer closes a circle, and the system stops.  mem[p] holds the       *)
(* message that was to be sent.                                             *)
Stop(p, d, m) ==
    /\ Free(p) /\ p # d
    /\ Circle(p, d)
    /\ stopped' = TRUE
    /\ mem' = [mem EXCEPT ![p] = m]
    /\ UNCHANGED <<offer, want, intr>>

(* d already wants it: the message passes at once. *)
Pass(p, d, m) ==
    /\ Free(p) /\ p # d
    /\ Accepts(d, p)
    /\ want' = [want EXCEPT ![d] = NO_TASK]
    /\ mem' = [mem EXCEPT ![p] = m, ![d] = m]
    /\ UNCHANGED <<offer, intr, stopped>>

Offer(p, d, m) ==
    /\ Free(p) /\ p # d
    /\ ~Accepts(d, p) /\ ~Circle(p, d)
    /\ offer' = [offer EXCEPT ![p] = d]
    /\ mem' = [mem EXCEPT ![p] = m]
    /\ UNCHANGED <<want, intr, stopped>>

(* p takes the message that s offers it. *)
Take(p, s) ==
    /\ Free(p)
    /\ offer[s] = p
    /\ offer' = [offer EXCEPT ![s] = NO_TASK]
    /\ mem' = [mem EXCEPT ![p] = mem[s]]
    /\ UNCHANGED <<want, intr, stopped>>

(* p takes the interrupt that waits for it. *)
TakeIntr(p) ==
    /\ Free(p)
    /\ intr[p]
    /\ intr' = [intr EXCEPT ![p] = FALSE]
    /\ mem' = [mem EXCEPT ![p] = IntMessage]
    /\ UNCHANGED <<offer, want, stopped>>

(* p waits, because nothing it asks for is there.  Waiting for one process   *)
(* with an interrupt pending is an error that stops the system.             *)
Want(p, src) ==
    /\ Free(p) /\ p # src
    /\ src \in {ANY, INTERRUPT} => ~intr[p]
    /\ \A s \in Proc : src \in {s, ANY} => offer[s] # p
    /\ want' = [want EXCEPT ![p] = src]
    /\ \E m \in [source : {p}, type : {NoType, mem[p].type}] : mem' = [mem EXCEPT ![p] = m]
    /\ stopped' = intr[p]
    /\ UNCHANGED <<offer, intr>>

(* An interrupt for t: it ends t's wait, or is kept for later. *)
Interrupt(t) ==
    /\ ~stopped
    /\ IF want[t] \in {ANY, INTERRUPT}
         THEN /\ want' = [want EXCEPT ![t] = NO_TASK]
              /\ mem' = [mem EXCEPT ![t] = IntMessage]
              /\ intr' = [intr EXCEPT ![t] = FALSE]
         ELSE /\ intr' = [intr EXCEPT ![t] = TRUE]
              /\ UNCHANGED <<want, mem>>
    /\ UNCHANGED <<offer, stopped>>

RNext ==
    \/ \E p, d \in Proc, t \in Type :
          LET m == [source |-> p, type |-> t]
          IN  Stop(p, d, m) \/ Pass(p, d, m) \/ Offer(p, d, m)
    \/ \E p, s \in Proc : Take(p, s)
    \/ \E p \in Proc : TakeIntr(p)
    \/ \E p \in Proc, src \in Proc \cup {ANY, INTERRUPT} : Want(p, src)
    \/ \E t \in IntTask : Interrupt(t)

RSpec == RInit /\ [][RNext]_rvars
=============================================================================
