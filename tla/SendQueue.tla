----------------------------- MODULE SendQueue -----------------------------
(***************************************************************************)
(* The sending queues as kernel/proc.c keeps them: a singly linked list    *)
(* threaded through proc_table[], with proc.q_sending as its head and      *)
(* proc.next_sending as the link.  A process blocked in SEND is on exactly *)
(* one list; it joins at the tail in msg_send() and is unlinked from the   *)
(* head (RECEIVE from ANY) or from anywhere (RECEIVE from one process) in  *)
(* msg_receive().                                                          *)
(***************************************************************************)
EXTENDS Integers, Sequences, FiniteSets

CONSTANTS Proc, NULL, ANY

ASSUME NullAssumption == NULL \notin Proc /\ ANY \notin Proc /\ IsFiniteSet(Proc)

VARIABLES
    q_sending,     \* q_sending[d]: head of d's list, or NULL
    next_sending,  \* next_sending[p]: who comes after p, or NULL
    p_sendto,      \* p_sendto[p]: to whom p is blocked sending, or NULL
    received       \* history: <<src, p_from>> of the last RECEIVE that found a sender

qvars == <<q_sending, next_sending, p_sendto, received>>

Init ==
    /\ q_sending = [p \in Proc |-> NULL]
    /\ next_sending = [p \in Proc |-> NULL]
    /\ p_sendto = [p \in Proc |-> NULL]
    /\ received = <<NULL, NULL>>

(* nth[n] is the node that n steps along the links lead to from node p. *)
Hops(link, p) ==
    LET nth[n \in 0 .. Cardinality(Proc)] ==
          IF n = 0 THEN p
          ELSE IF nth[n-1] = NULL THEN NULL ELSE link[nth[n-1]]
    IN  nth

(* deadlock(): does the chain of senders from dest come back to src? *)
deadlock(src, dest) ==
    \E n \in 0 .. Cardinality(Proc) : Hops(p_sendto, dest)[n] = src

(* The last node of a list: where the loop of msg_send() stops. *)
Tail_of(p) ==
    LET nth == Hops(next_sending, p)
    IN  nth[CHOOSE n \in DOMAIN nth : nth[n] # NULL /\ next_sending[nth[n]] = NULL]

(* The node before p_from: what msg_receive() leaves in prev. *)
Prev_of(p, p_from) ==
    LET nth == Hops(next_sending, p)
    IN  nth[CHOOSE n \in DOMAIN nth : nth[n] # NULL /\ next_sending[nth[n]] = p_from]

(* Mutant: the sender is put at the head of the list. *)
Append_sender_Front(sender, dest) ==
    /\ ~deadlock(sender, dest)
    /\ p_sendto' = [p_sendto EXCEPT ![sender] = dest]
    /\ q_sending' = [q_sending EXCEPT ![dest] = sender]
    /\ next_sending' = [next_sending EXCEPT ![sender] = q_sending[dest]]

(* msg_send(): append the sender to the destination's list. *)
Append_sender(sender, dest) ==
    /\ ~deadlock(sender, dest)
    /\ p_sendto' = [p_sendto EXCEPT ![sender] = dest]
    /\ IF q_sending[dest] # NULL
         THEN /\ next_sending' = [next_sending EXCEPT ![Tail_of(q_sending[dest])] = sender,
                                                      ![sender] = NULL]
              /\ UNCHANGED q_sending
         ELSE /\ q_sending' = [q_sending EXCEPT ![dest] = sender]
              /\ next_sending' = [next_sending EXCEPT ![sender] = NULL]

(* Which sender msg_receive() serves: the head for ANY, else src if src is  *)
(* sending to p.                                                            *)
P_from(p, src) ==
    IF src = ANY THEN q_sending[p]
    ELSE IF p_sendto[src] = p THEN src ELSE NULL

(* Mutant: the link of the process that leaves the list is not reset. *)
Unlink_sender_KeepsLink(p, src) ==
    LET p_from == P_from(p, src) IN
    /\ p_from # NULL
    /\ p_sendto' = [p_sendto EXCEPT ![p_from] = NULL]
    /\ IF p_from = q_sending[p]
         THEN /\ q_sending' = [q_sending EXCEPT ![p] = next_sending[p_from]]
              /\ UNCHANGED next_sending
         ELSE /\ next_sending' = [next_sending EXCEPT
                                    ![Prev_of(q_sending[p], p_from)] = next_sending[p_from]]
              /\ UNCHANGED q_sending

(* Mutant: p_sendto is reset to the wrong pseudo pid. *)
Unlink_sender_WrongReset(p, src) ==
    LET p_from == P_from(p, src) IN
    /\ p_from # NULL /\ p_from = q_sending[p]
    /\ p_sendto' = [p_sendto EXCEPT ![p_from] = ANY]
    /\ q_sending' = [q_sending EXCEPT ![p] = next_sending[p_from]]
    /\ next_sending' = [next_sending EXCEPT ![p_from] = NULL]

(* msg_receive(): take p_from out of the list. *)
Unlink_sender(p, src) ==
    LET p_from == P_from(p, src) IN
    /\ p_from # NULL
    /\ p_sendto' = [p_sendto EXCEPT ![p_from] = NULL]
    /\ IF p_from = q_sending[p]
         THEN /\ q_sending' = [q_sending EXCEPT ![p] = next_sending[p_from]]
              /\ next_sending' = [next_sending EXCEPT ![p_from] = NULL]
         ELSE /\ next_sending' = [next_sending EXCEPT
                                    ![Prev_of(q_sending[p], p_from)] = next_sending[p_from],
                                    ![p_from] = NULL]
              /\ UNCHANGED q_sending

(* Only a process that is not itself blocked makes a call.  A SEND that      *)
(* closes a circle panics and is left out.                                  *)
Next ==
    \E p \in Proc :
        /\ p_sendto[p] = NULL
        /\ \/ \E d \in Proc \ {p} : Append_sender(p, d) /\ UNCHANGED received
           \/ \E src \in (Proc \ {p}) \cup {ANY} :
                 Unlink_sender(p, src) /\ received' = <<src, P_from(p, src)>>

Spec == Init /\ [][Next]_qvars

-----------------------------------------------------------------------------

TypeOK ==
    /\ q_sending \in [Proc -> Proc \cup {NULL}]
    /\ next_sending \in [Proc -> Proc \cup {NULL}]
    /\ p_sendto \in [Proc -> Proc \cup {NULL}]
    /\ received \in (Proc \cup {ANY, NULL}) \X (Proc \cup {NULL})

(* The list that starts at head as a sequence, cut off if it does not end. *)
ListFrom(link, head) ==
    LET nth == Hops(link, head)
        len == Cardinality({n \in DOMAIN nth : nth[n] # NULL})
    IN  [i \in 1 .. len |-> nth[i - 1]]

ListOf(d) == ListFrom(next_sending, q_sending[d])

(* Every list ends, has nobody twice, and holds exactly the processes that  *)
(* are blocked sending to its owner; a process on no list has a null link,  *)
(* so that joining a list never drags old links along.                      *)
ListsWellFormed ==
    \A d \in Proc :
        /\ Hops(next_sending, q_sending[d])[Cardinality(Proc)] = NULL
        /\ {ListOf(d)[i] : i \in DOMAIN ListOf(d)} = {p \in Proc : p_sendto[p] = d}
        /\ Len(ListOf(d)) = Cardinality({p \in Proc : p_sendto[p] = d})
        /\ p_sendto[d] = NULL => next_sending[d] = NULL

(* The linked lists implement first-in first-out queues with removal:       *)
(* RECEIVE from ANY serves who has waited longest, RECEIVE from one process  *)
(* that one, and the others keep their order.                               *)
F == INSTANCE FifoQueues WITH fifo <- [d \in Proc |-> ListOf(d)]

ImplementsFifo == F!QSpec
=============================================================================
