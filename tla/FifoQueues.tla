----------------------------- MODULE FifoQueues -----------------------------
(***************************************************************************)
(* What the sending queues of kernel/proc.c promise: one queue for each    *)
(* process; a sender joins the end of one queue at a time.  A receiver     *)
(* that takes a message from ANY process gets that of the sender which has *)
(* waited longest; one that names a sender gets the message of that one,   *)
(* from any place, without disturbing the order of the others.             *)
(***************************************************************************)
EXTENDS Naturals, Sequences, SequencesExt

CONSTANTS Proc, NULL, ANY

VARIABLES
    fifo,       \* fifo[d]: the senders that wait for d
    received    \* what the last RECEIVE asked for, and whose message it got

QInit ==
    /\ fifo = [d \in Proc |-> <<>>]
    /\ received = <<NULL, NULL>>

Join(d, p) ==
    /\ \A e \in Proc : ~Contains(fifo[e], p)
    /\ fifo' = [fifo EXCEPT ![d] = Append(@, p)]
    /\ UNCHANGED received

Leave(d, i, src) ==
    /\ IF src = ANY THEN i = 1 ELSE src = fifo[d][i]
    /\ fifo' = [fifo EXCEPT ![d] = RemoveAt(@, i)]
    /\ received' = <<src, fifo[d][i]>>

QNext == \E d \in Proc : \/ \E p \in Proc \ {d} : Join(d, p)
                         \/ \E i \in DOMAIN fifo[d], src \in Proc \cup {ANY} : Leave(d, i, src)

QSpec == QInit /\ [][QNext]_<<fifo, received>>
=============================================================================
