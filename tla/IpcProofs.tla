----------------------------- MODULE IpcProofs -----------------------------
(***************************************************************************)
(* Proofs about Ipc, for any set of processes and any message types.       *)
(***************************************************************************)
EXTENDS Ipc, SequenceTheorems, FiniteSetTheorems, TLAPS

(* The invariants of Ipc together are inductive. *)
IInv ==
    /\ TypeOK
    /\ FieldsMatchFlags
    /\ QueueIsSenders
    /\ NoMissedRendezvous
    /\ NoMissedInterrupt
    /\ NoSendCycle

-----------------------------------------------------------------------------
(***************************************************************************)
(* Queues.                                                                 *)
(***************************************************************************)

(* Appending a process leaves the others where they are. *)
LEMMA AppendFacts ==
    ASSUME NEW q \in Seq(Proc), NEW p \in Proc
    PROVE  /\ Append(q, p) \in Seq(Proc)
           /\ DOMAIN Append(q, p) = 1 .. (Len(q) + 1)
           /\ \A i \in 1 .. Len(q) : Append(q, p)[i] = q[i]
           /\ Append(q, p)[Len(q) + 1] = p
           /\ DOMAIN q = 1 .. Len(q)
           /\ Len(q) \in Nat
  OBVIOUS

(* Taking out the i-th process closes the gap and changes no order. *)
LEMMA RemoveAtFacts ==
    ASSUME NEW q \in Seq(Proc), NEW i \in DOMAIN q
    PROVE  /\ RemoveAt(q, i) \in Seq(Proc)
           /\ DOMAIN RemoveAt(q, i) = 1 .. (Len(q) - 1)
           /\ \A j \in 1 .. (Len(q) - 1) :
                 RemoveAt(q, i)[j] = IF j < i THEN q[j] ELSE q[j + 1]
           /\ DOMAIN q = 1 .. Len(q)
           /\ Len(q) \in Nat
  <1> DEFINE a == SubSeq(q, 1, i - 1)
             b == SubSeq(q, i + 1, Len(q))
  <1>1. /\ DOMAIN q = 1 .. Len(q) /\ Len(q) \in Nat /\ i \in 1 .. Len(q)
    OBVIOUS
  <1>2. /\ a \in Seq(Proc) /\ Len(a) = i - 1
        /\ \A j \in 1 .. (i - 1) : a[j] = q[j]
    BY <1>1
  <1>3. /\ b \in Seq(Proc) /\ Len(b) = Len(q) - i
        /\ \A j \in 1 .. (Len(q) - i) : b[j] = q[i + j]
    BY <1>1
  <1>4. RemoveAt(q, i) = a \o b
    BY DEF RemoveAt
  <1> HIDE DEF a, b
  <1>5. /\ a \o b \in Seq(Proc) /\ Len(a \o b) = Len(q) - 1
        /\ \A j \in 1 .. (Len(q) - 1) :
             (a \o b)[j] = IF j <= i - 1 THEN a[j] ELSE b[j - (i - 1)]
    <2>1. /\ a \o b \in Seq(Proc) /\ Len(a \o b) = Len(a) + Len(b)
          /\ \A j \in 1 .. (Len(a) + Len(b)) :
               (a \o b)[j] = IF j <= Len(a) THEN a[j] ELSE b[j - Len(a)]
      BY <1>2, <1>3, ConcatProperties
    <2>2. Len(a) + Len(b) = Len(q) - 1
      BY <1>1, <1>2, <1>3
    <2> QED  BY <1>2, <2>1, <2>2
  <1>6. ASSUME NEW j \in 1 .. (Len(q) - 1)
        PROVE  (a \o b)[j] = IF j < i THEN q[j] ELSE q[j + 1]
    <2>1. CASE j < i
      <3>1. j \in 1 .. (i - 1) /\ j <= i - 1
        BY <2>1, <1>1
      <3>2. (a \o b)[j] = a[j]
        BY <3>1, <1>5
      <3> QED  BY <3>1, <3>2, <2>1, <1>2
    <2>2. CASE ~(j < i)
      <3>1. /\ j - (i - 1) \in 1 .. (Len(q) - i)
            /\ i + (j - (i - 1)) = j + 1 /\ ~(j <= i - 1)
        BY <2>2, <1>1
      <3>2. (a \o b)[j] = b[j - (i - 1)]
        BY <3>1, <1>5
      <3>3. b[j - (i - 1)] = q[i + (j - (i - 1))]
        BY <3>1, <1>3
      <3> QED  BY <3>1, <3>2, <3>3, <2>2
    <2> QED  BY <2>1, <2>2
  <1>7. DOMAIN (a \o b) = 1 .. (Len(q) - 1)
    <2> DEFINE c == a \o b
    <2>1. c \in Seq(Proc) /\ Len(c) = Len(q) - 1
      BY <1>5
    <2> HIDE DEF c
    <2>2. DOMAIN c = 1 .. (Len(q) - 1)
      BY <2>1
    <2> QED  BY <2>2 DEF c
  <1> DEFINE c == a \o b
  <1> SUFFICES /\ c \in Seq(Proc)
               /\ DOMAIN c = 1 .. (Len(q) - 1)
               /\ \A j \in 1 .. (Len(q) - 1) : c[j] = IF j < i THEN q[j] ELSE q[j + 1]
    BY <1>1, <1>4 DEF c
  <1> QED  BY <1>5, <1>6, <1>7 DEF c

(* Where msg_receive() takes a message from, some process is blocked         *)
(* sending to the receiver.                                                 *)
LEMMA PositionFacts ==
    ASSUME TypeOK, QueueIsSenders, NEW p \in Proc, NEW src,
           CanCall(p), SenderReady(p, src)
    PROVE  /\ Position(p, src) \in DOMAIN q_sending[p]
           /\ q_sending[p][Position(p, src)] \in Proc \ {p}
           /\ IsSending(q_sending[p][Position(p, src)])
           /\ p_sendto[q_sending[p][Position(p, src)]] = p
           /\ src # ANY => q_sending[p][Position(p, src)] = src
  <1> DEFINE q == q_sending[p]
             i == Position(p, src)
  <1>1. q \in Seq(Proc)
    BY DEF TypeOK
  <1>2. i \in DOMAIN q /\ (src # ANY => q[i] = src)
    <2>1. CASE src = ANY
      <3>1. i = 1
        BY <2>1 DEF Position
      <3>2. q # <<>>
        BY <2>1, ProcAssumption DEF SenderReady
      <3>3. Len(q) \in Nat /\ Len(q) > 0 /\ DOMAIN q = 1 .. Len(q)
        BY <1>1, <3>2
      <3> QED  BY <2>1, <3>1, <3>3
    <2>2. CASE src # ANY
      <3>1. src \in Proc /\ IsSending(src) /\ p_sendto[src] = p
        BY <2>2 DEF SenderReady
      <3>2. \E j \in DOMAIN q : q[j] = src
        BY <3>1 DEF QueueIsSenders
      <3>3. i = CHOOSE j \in DOMAIN q : q[j] = src
        BY <2>2 DEF Position
      <3> HIDE DEF i, q
      <3> QED  BY <3>2, <3>3
    <2> QED  BY <2>1, <2>2
  <1>3. q[i] \in Proc
    BY <1>1, <1>2
  <1>4. IsSending(q[i]) /\ p_sendto[q[i]] = p
    BY <1>2, <1>3 DEF QueueIsSenders
  <1>5. q[i] # p
    BY <1>4 DEF CanCall, IsSending
  <1> QED  BY <1>2, <1>3, <1>4, <1>5

-----------------------------------------------------------------------------
(***************************************************************************)
(* The chain that deadlock() follows.                                      *)
(***************************************************************************)

(* The chain contains its start, is closed, and is the least such set. *)
LEMMA ChainFacts ==
    ASSUME NEW d \in Proc
    PROVE  /\ ChainFrom(d) \subseteq Proc
           /\ d \in ChainFrom(d)
           /\ TypeOK => \A r \in ChainFrom(d) :
                  IsSending(r) /\ p_sendto[r] # NO_TASK => p_sendto[r] \in ChainFrom(d)
           /\ \A S \in SUBSET Proc :
                 (d \in S /\ \A r \in S : IsSending(r) => p_sendto[r] \in S)
                    => ChainFrom(d) \subseteq S
  BY DEF ChainFrom, TypeOK

(* When deadlock() finds nothing, the chain from dest does not come back to *)
(* the caller.                                                              *)
LEMMA ChainAvoidsCaller ==
    ASSUME TypeOK, FieldsMatchFlags, NEW p \in Proc, NEW d \in Proc, p # d,
           ~deadlock(p, d)
    PROVE  p \notin ChainFrom(d)
  <1> DEFINE K == ChainFrom(d)
  <1>1. ASSUME NEW r \in K \ {p}, IsSending(r)
        PROVE  p_sendto[r] \in K \ {p}
    <2>1. r \in Proc /\ p_sendto[r] # NO_TASK
      BY <1>1, ChainFacts DEF FieldsMatchFlags
    <2>2. p_sendto[r] \in K
      BY <1>1, <2>1, ChainFacts
    <2>3. p_sendto[r] # p
      BY <1>1 DEF deadlock
    <2> QED  BY <2>2, <2>3
  <1>2. K \ {p} \in SUBSET Proc /\ d \in K \ {p}
    BY ChainFacts
  <1> HIDE DEF K
  <1>3. K \subseteq K \ {p}
    BY <1>1, <1>2, ChainFacts DEF K
  <1> QED  BY <1>3 DEF K

-----------------------------------------------------------------------------
(***************************************************************************)
(* Every action keeps the invariant.                                       *)
(***************************************************************************)

(* The initial state of the process table satisfies the invariant. *)
LEMMA InitIInv == Init => IInv
  <1> SUFFICES ASSUME Init PROVE IInv
    OBVIOUS
  <1> USE DEF Init
  <1>1. TypeOK
    <2>1. [source |-> NO_TASK, type |-> NoType] \in Message
      BY DEF Message
    <2>2. <<>> \in Seq(Proc)
      OBVIOUS
    <2> QED  BY <2>1, <2>2 DEF TypeOK
  <1>2. FieldsMatchFlags
    BY DEF FieldsMatchFlags, IsSending, IsReceiving
  <1>3. QueueIsSenders
    BY DEF QueueIsSenders, IsSending
  <1>4. NoMissedRendezvous /\ NoMissedInterrupt
    BY DEF NoMissedRendezvous, NoMissedInterrupt, WaitsForInterrupt,
           DestWaitsFor, IsSending, IsReceiving
  <1>5. NoSendCycle
    BY DEF NoSendCycle, IsSending
  <1> QED  BY <1>1, <1>2, <1>3, <1>4, <1>5 DEF IInv

(* panic() changes nothing but the caller's message. *)
LEMMA SendPanicIInv ==
    ASSUME IInv, NEW p \in Proc, NEW d \in Proc, NEW t \in Type, p # d, CanCall(p),
           SendPanic(p, d, [source |-> p, type |-> t])
    PROVE  IInv'
  <1> USE DEF IInv, SendPanic
  <1>1. TypeOK'
    BY DEF TypeOK, Message
  <1>2. FieldsMatchFlags' /\ QueueIsSenders' /\ NoMissedRendezvous' /\ NoMissedInterrupt'
    BY DEF FieldsMatchFlags, QueueIsSenders, NoMissedRendezvous, NoMissedInterrupt,
           WaitsForInterrupt, DestWaitsFor, IsSending, IsReceiving
  <1>3. NoSendCycle'
    BY DEF NoSendCycle, IsSending
  <1> QED  BY <1>1, <1>2, <1>3

(* Delivery to a waiting process frees that process and nobody else. *)
LEMMA SendDeliverIInv ==
    ASSUME IInv, NEW p \in Proc, NEW d \in Proc, NEW t \in Type, p # d, CanCall(p),
           SendDeliver(p, d, [source |-> p, type |-> t])
    PROVE  IInv'
  <1> USE DEF IInv, SendDeliver
  <1>1. TypeOK'
    BY DEF TypeOK, Message
  <1>2. p_flags[d] = {"RECEIVING"} /\ p_flags'[d] = {}
    <2>1. /\ p_flags[d] \in SUBSET {"SENDING", "RECEIVING"}
          /\ p_flags'[d] = p_flags[d] \ {"RECEIVING"}
      BY DEF TypeOK
    <2>2. "RECEIVING" \in p_flags[d] /\ "SENDING" \notin p_flags[d]
      BY DEF FieldsMatchFlags, DestWaitsFor, IsReceiving, IsSending
    <2> QED  BY <2>1, <2>2
  <1>3. \A q \in Proc \ {d} : p_flags'[q] = p_flags[q] /\ p_recvfrom'[q] = p_recvfrom[q]
                               /\ p_msg'[q] = p_msg[q]
    BY DEF TypeOK
  <1>4. \A q \in Proc : IsSending(q)' <=> IsSending(q)
    BY <1>2, <1>3 DEF IsSending
  <1>5. FieldsMatchFlags'
    BY <1>2, <1>3 DEF FieldsMatchFlags, IsSending, IsReceiving, TypeOK
  <1>6. QueueIsSenders'
    BY <1>4 DEF QueueIsSenders
  <1>7. NoMissedRendezvous' /\ NoMissedInterrupt'
    BY <1>2, <1>3, <1>4 DEF NoMissedRendezvous, NoMissedInterrupt,
           WaitsForInterrupt, DestWaitsFor, IsReceiving
  <1>8. NoSendCycle'
    BY <1>4 DEF NoSendCycle
  <1> QED  BY <1>1, <1>5, <1>6, <1>7, <1>8

(* A sender that has to wait joins the queue of its destination; the check *)
(* by deadlock() keeps the senders from forming a circle.                  *)
LEMMA SendBlockIInv ==
    ASSUME IInv, NEW p \in Proc, NEW d \in Proc, NEW t \in Type, p # d, CanCall(p),
           SendBlock(p, d, [source |-> p, type |-> t])
    PROVE  IInv'
  <1> USE DEF IInv, SendBlock, CanCall
  <1>1. TypeOK'
    BY DEF TypeOK, Message
  <1>2. /\ p_flags'[p] = {"SENDING"} /\ p_sendto'[p] = d /\ p_msg'[p] = TRUE
        /\ p_recvfrom[p] = NO_TASK
    BY DEF TypeOK, FieldsMatchFlags, IsReceiving
  <1>3. \A q \in Proc \ {p} : p_flags'[q] = p_flags[q] /\ p_sendto'[q] = p_sendto[q]
                               /\ p_msg'[q] = p_msg[q]
    BY DEF TypeOK
  <1>4. /\ ~IsSending(p) /\ IsSending(p)' /\ ~IsReceiving(p)'
        /\ \A q \in Proc \ {p} : (IsSending(q)' <=> IsSending(q))
                                 /\ (IsReceiving(q)' <=> IsReceiving(q))
    BY <1>2, <1>3 DEF IsSending, IsReceiving
  <1>5. FieldsMatchFlags'
    <2> SUFFICES ASSUME NEW q \in Proc
                 PROVE  /\ ~(IsSending(q)' /\ IsReceiving(q)')
                        /\ p_msg'[q] <=> p_flags'[q] # {}
                        /\ IsSending(q)' <=> p_sendto'[q] # NO_TASK
                        /\ IsReceiving(q)' <=> p_recvfrom'[q] # NO_TASK
      BY DEF FieldsMatchFlags
    <2>1. CASE q = p
      BY <2>1, <1>2, <1>4, ProcAssumption
    <2>2. CASE q # p
      BY <2>2, <1>3, <1>4 DEF FieldsMatchFlags
    <2> QED  BY <2>1, <2>2
  <1>6. QueueIsSenders'
    <2> SUFFICES ASSUME NEW e \in Proc
                 PROVE  /\ \A q \in Proc : (IsSending(q)' /\ p_sendto'[q] = e)
                              <=> \E i \in DOMAIN q_sending'[e] : q_sending'[e][i] = q
                        /\ \A i, j \in DOMAIN q_sending'[e] :
                              q_sending'[e][i] = q_sending'[e][j] => i = j
      BY DEF QueueIsSenders
    <2>1. CASE e # d
      <3>1. q_sending'[e] = q_sending[e]
        BY <2>1 DEF TypeOK
      <3>2. \A q \in Proc : (IsSending(q)' /\ p_sendto'[q] = e)
                            <=> (IsSending(q) /\ p_sendto[q] = e)
        BY <2>1, <1>2, <1>3, <1>4
      <3>3. \A q \in Proc : (IsSending(q) /\ p_sendto[q] = e)
                            <=> \E i \in DOMAIN q_sending[e] : q_sending[e][i] = q
        BY DEF QueueIsSenders
      <3>4. \A i, j \in DOMAIN q_sending[e] : q_sending[e][i] = q_sending[e][j] => i = j
        BY DEF QueueIsSenders
      <3> HIDE DEF SendBlock, IInv
      <3>5. \A q \in Proc : (IsSending(q)' /\ p_sendto'[q] = e)
                            <=> \E i \in DOMAIN q_sending'[e] : q_sending'[e][i] = q
        BY <3>1, <3>2, <3>3
      <3> QED  BY <3>1, <3>4, <3>5
    <2>2. CASE e = d
      <3> DEFINE q0 == q_sending[d]
      <3>1. q0 \in Seq(Proc) /\ q_sending'[e] = Append(q0, p)
        BY <2>2 DEF TypeOK
      <3>2. \A i \in DOMAIN q0 : q0[i] # p
        BY <1>4, <3>1 DEF QueueIsSenders
      <3>3. \A q \in Proc \ {p} : (IsSending(q)' /\ p_sendto'[q] = e)
                                  <=> \E i \in DOMAIN q0 : q0[i] = q
        BY <2>2, <1>3, <1>4 DEF QueueIsSenders
      <3>4. \A i, j \in DOMAIN q0 : q0[i] = q0[j] => i = j
        BY DEF QueueIsSenders
      <3> HIDE DEF q0
      <3>5. \A i \in 1 .. (Len(q0) + 1) :
               (i \in DOMAIN q0 /\ Append(q0, p)[i] = q0[i])
               \/ (i = Len(q0) + 1 /\ Append(q0, p)[i] = p)
        BY <3>1, AppendFacts
      <3>6. ASSUME NEW q \in Proc
            PROVE  (IsSending(q)' /\ p_sendto'[q] = e)
                     <=> \E i \in DOMAIN q_sending'[e] : q_sending'[e][i] = q
        <4>1. CASE q = p
          BY <4>1, <3>1, <1>2, <1>4, <2>2, AppendFacts
        <4>2. CASE q # p
          <5> HIDE DEF SendBlock, IInv
          <5>1. (\E i \in DOMAIN q0 : q0[i] = q)
                  <=> \E i \in DOMAIN Append(q0, p) : Append(q0, p)[i] = q
            BY <4>2, <3>1, <3>5, AppendFacts
          <5> QED  BY <4>2, <5>1, <3>1, <3>3
        <4> QED  BY <4>1, <4>2
      <3>7. ASSUME NEW i \in DOMAIN q_sending'[e], NEW j \in DOMAIN q_sending'[e],
                   q_sending'[e][i] = q_sending'[e][j]
            PROVE  i = j
        <4>1. /\ i \in 1 .. (Len(q0) + 1) /\ j \in 1 .. (Len(q0) + 1)
              /\ Append(q0, p)[i] = Append(q0, p)[j]
          BY <3>7, <3>1, AppendFacts
        <4>2. \/ i \in DOMAIN q0 /\ j \in DOMAIN q0 /\ q0[i] = q0[j]
              \/ i = Len(q0) + 1 /\ j = Len(q0) + 1
          BY <4>1, <3>2, <3>5
        <4> QED  BY <4>2, <3>4
      <3> QED  BY <3>6, <3>7
    <2> QED  BY <2>1, <2>2
  <1>7. NoMissedRendezvous' /\ NoMissedInterrupt'
    BY <1>2, <1>3, <1>4 DEF NoMissedRendezvous, NoMissedInterrupt,
           WaitsForInterrupt, DestWaitsFor
  <1>8. NoSendCycle'
    <2> SUFFICES ASSUME NEW C \in SUBSET Proc, C # {},
                        \A r \in C : IsSending(r)' /\ p_sendto'[r] \in C
                 PROVE  FALSE
      BY DEF NoSendCycle
    <2>1. CASE p \notin C
      BY <2>1, <1>3, <1>4 DEF NoSendCycle
    <2>2. CASE p \in C
      <3> DEFINE K == ChainFrom(d)
      <3>1. d \in C
        BY <2>2, <1>2
      <3>2. \A r \in C : IsSending(r) => p_sendto[r] \in C
        BY <1>3, <1>4
      <3>3. K \subseteq C /\ K \in SUBSET Proc /\ d \in K
        BY <3>1, <3>2, ChainFacts
      <3>4. p \notin K
        BY ChainAvoidsCaller
      <3>5. \A r \in K : IsSending(r) /\ p_sendto[r] \in K
        <4> SUFFICES ASSUME NEW r \in K PROVE IsSending(r) /\ p_sendto[r] \in K
          OBVIOUS
        <4>1. r \in Proc /\ r # p /\ r \in C
          BY <3>3, <3>4
        <4>2. IsSending(r) /\ p_sendto[r] # NO_TASK
          BY <4>1, <1>4 DEF FieldsMatchFlags
        <4> QED  BY <4>2, ChainFacts
      <3> HIDE DEF K
      <3> QED  BY <3>3, <3>5 DEF NoSendCycle
    <2> QED  BY <2>1, <2>2
  <1> QED  BY <1>1, <1>5, <1>6, <1>7, <1>8

(* Taking a pending interrupt blocks and frees nobody. *)
LEMMA ReceiveIntIInv ==
    ASSUME IInv, NEW p \in Proc, NEW src, CanCall(p), ReceiveInt(p, src)
    PROVE  IInv'
  <1> USE DEF IInv, ReceiveInt
  <1>1. TypeOK'
    BY DEF TypeOK, Message
  <1>2. FieldsMatchFlags' /\ QueueIsSenders' /\ NoMissedRendezvous'
    BY DEF FieldsMatchFlags, QueueIsSenders, NoMissedRendezvous,
           DestWaitsFor, IsSending, IsReceiving
  <1>3. NoMissedInterrupt'
    BY DEF NoMissedInterrupt, WaitsForInterrupt, IsReceiving, TypeOK
  <1>4. NoSendCycle'
    BY DEF NoSendCycle, IsSending
  <1> QED  BY <1>1, <1>2, <1>3, <1>4

(* What msg_receive() does with a queued message, whether or not an         *)
(* interrupt is pending.                                                    *)
TakeQueued(p, src) ==
    /\ SenderReady(p, src)
    /\ LET i    == Position(p, src)
           from == q_sending[p][i]
       IN  /\ q_sending' = [q_sending EXCEPT ![p] = RemoveAt(@, i)]
           /\ mem' = [mem EXCEPT ![p] = mem[from]]
           /\ p_msg' = [p_msg EXCEPT ![from] = FALSE]
           /\ p_sendto' = [p_sendto EXCEPT ![from] = NO_TASK]
           /\ p_flags' = [p_flags EXCEPT ![from] = @ \ {"SENDING"}]
    /\ UNCHANGED <<p_recvfrom, has_int_msg, halted>>

(* Taking a message from the queue frees its sender, and only that one. *)
LEMMA TakeQueuedIInv ==
    ASSUME IInv, NEW p \in Proc, NEW src, CanCall(p), TakeQueued(p, src)
    PROVE  IInv'
  <1> USE DEF IInv
  <1>a. PICK q0 \in Seq(Proc) : q0 = q_sending[p]
    BY DEF TypeOK
  <1>b. PICK k \in DOMAIN q0 : k = Position(p, src)
    BY <1>a, PositionFacts DEF TakeQueued
  <1>c. PICK from \in Proc : from = q0[k]
    BY <1>a
  <1>1. /\ k \in DOMAIN q0 /\ from \in Proc /\ from # p
        /\ IsSending(from) /\ p_sendto[from] = p
    BY <1>a, <1>b, <1>c, PositionFacts DEF TakeQueued
  <1>2. /\ q_sending' = [q_sending EXCEPT ![p] = RemoveAt(q0, k)]
        /\ mem' = [mem EXCEPT ![p] = mem[from]]
        /\ p_msg' = [p_msg EXCEPT ![from] = FALSE]
        /\ p_sendto' = [p_sendto EXCEPT ![from] = NO_TASK]
        /\ p_flags' = [p_flags EXCEPT ![from] = p_flags[from] \ {"SENDING"}]
        /\ UNCHANGED <<p_recvfrom, has_int_msg, halted>>
    BY <1>a, <1>b, <1>c DEF TakeQueued
  <1>3. q0 \in Seq(Proc)
    OBVIOUS
  <1>4. TypeOK'
    <2>1. RemoveAt(q0, k) \in Seq(Proc)
      BY <1>1, <1>3, RemoveAtFacts
    <2>2. mem' \in [Proc -> Message] /\ q_sending' \in [Proc -> Seq(Proc)]
      BY <1>1, <1>2, <2>1 DEF TypeOK
    <2>3. p_flags' \in [Proc -> SUBSET {"SENDING", "RECEIVING"}]
      BY <1>1, <1>2 DEF TypeOK
    <2> QED  BY <1>1, <1>2, <2>2, <2>3 DEF TypeOK
  <1>5. /\ ~IsSending(from)' /\ ~IsReceiving(from)' /\ p_flags'[from] = {}
        /\ p_sendto'[from] = NO_TASK /\ p_msg'[from] = FALSE
    <2>1. /\ p_flags[from] \in SUBSET {"SENDING", "RECEIVING"}
          /\ p_flags'[from] = p_flags[from] \ {"SENDING"}
          /\ p_sendto'[from] = NO_TASK /\ p_msg'[from] = FALSE
      BY <1>1, <1>2 DEF TypeOK
    <2>2. "RECEIVING" \notin p_flags[from]
      BY <1>1 DEF FieldsMatchFlags, IsSending, IsReceiving
    <2> QED  BY <2>1, <2>2 DEF IsSending, IsReceiving
  <1>6. \A q \in Proc \ {from} :
            /\ p_flags'[q] = p_flags[q] /\ p_sendto'[q] = p_sendto[q] /\ p_msg'[q] = p_msg[q]
            /\ IsSending(q)' <=> IsSending(q)
            /\ IsReceiving(q)' <=> IsReceiving(q)
    BY <1>1, <1>2 DEF TypeOK, IsSending, IsReceiving
  <1>7. FieldsMatchFlags'
    <2> SUFFICES ASSUME NEW q \in Proc
                 PROVE  /\ ~(IsSending(q)' /\ IsReceiving(q)')
                        /\ p_msg'[q] <=> p_flags'[q] # {}
                        /\ IsSending(q)' <=> p_sendto'[q] # NO_TASK
                        /\ IsReceiving(q)' <=> p_recvfrom'[q] # NO_TASK
      BY DEF FieldsMatchFlags
    <2>1. CASE q = from
      <3>1. p_recvfrom[from] = NO_TASK
        BY <1>1 DEF FieldsMatchFlags
      <3> QED  BY <2>1, <3>1, <1>2, <1>5
    <2>2. CASE q # from
      BY <2>2, <1>2, <1>6 DEF FieldsMatchFlags
    <2> QED  BY <2>1, <2>2
  <1>8. QueueIsSenders'
    <2> SUFFICES ASSUME NEW e \in Proc
                 PROVE  /\ \A q \in Proc : (IsSending(q)' /\ p_sendto'[q] = e)
                              <=> \E i \in DOMAIN q_sending'[e] : q_sending'[e][i] = q
                        /\ \A i, j \in DOMAIN q_sending'[e] :
                              q_sending'[e][i] = q_sending'[e][j] => i = j
      BY DEF QueueIsSenders
    <2>1. /\ \A q \in Proc : (IsSending(q) /\ p_sendto[q] = e)
                            <=> \E i \in DOMAIN q_sending[e] : q_sending[e][i] = q
          /\ \A i, j \in DOMAIN q_sending[e] : q_sending[e][i] = q_sending[e][j] => i = j
      BY DEF QueueIsSenders
    <2>2. CASE e # p
      <3>1. q_sending'[e] = q_sending[e]
        BY <2>2, <1>2 DEF TypeOK
      <3>2. \A q \in Proc : (IsSending(q)' /\ p_sendto'[q] = e)
                            <=> (IsSending(q) /\ p_sendto[q] = e)
        BY <2>2, <1>1, <1>5, <1>6, ProcAssumption
      <3> HIDE DEF IInv
      <3>3. \A q \in Proc : (IsSending(q)' /\ p_sendto'[q] = e)
                            <=> \E i \in DOMAIN q_sending'[e] : q_sending'[e][i] = q
        BY <3>1, <3>2, <2>1
      <3> QED  BY <3>1, <3>3, <2>1
    <2>3. CASE e = p
      <3> DEFINE q1 == RemoveAt(q0, k)
      <3>1. q_sending'[e] = q1 /\ q_sending[e] = q0
        BY <2>3, <1>2, <1>a DEF TypeOK
      <3>2. /\ DOMAIN q1 = 1 .. (Len(q0) - 1) /\ DOMAIN q0 = 1 .. Len(q0)
            /\ Len(q0) \in Nat
            /\ \A j \in 1 .. (Len(q0) - 1) : q1[j] = IF j < k THEN q0[j] ELSE q0[j + 1]
        BY <1>1, <1>3, RemoveAtFacts
      <3>3. from = q0[k] /\ k \in 1 .. Len(q0)
        BY <1>1, <1>c, <3>2
      <3> HIDE DEF q1, IInv
      <3>4. \A i, j \in DOMAIN q0 : q0[i] = q0[j] => i = j
        BY <2>1, <3>1
      <3>5. \A i \in DOMAIN q1 : q1[i] # from
        BY <3>2, <3>3, <3>4
      <3>6. \A i, j \in DOMAIN q1 : q1[i] = q1[j] => i = j
        <4> SUFFICES ASSUME NEW i \in DOMAIN q1, NEW j \in DOMAIN q1, q1[i] = q1[j]
                     PROVE  i = j
          OBVIOUS
        <4> DEFINE at(n) == IF n < k THEN n ELSE n + 1
        <4>1. at(i) \in DOMAIN q0 /\ q1[i] = q0[at(i)]
          BY <3>2
        <4>2. at(j) \in DOMAIN q0 /\ q1[j] = q0[at(j)]
          BY <3>2
        <4>3. at(i) = at(j)
          BY <4>1, <4>2, <3>4
        <4> QED  BY <4>3, <3>2, <3>3
      <3>7. ASSUME NEW q \in Proc \ {from}
            PROVE  (\E i \in DOMAIN q1 : q1[i] = q) <=> (\E i \in DOMAIN q0 : q0[i] = q)
        <4>1. ASSUME NEW i \in DOMAIN q1, q1[i] = q
              PROVE  \E j \in DOMAIN q0 : q0[j] = q
          <5>1. i \in DOMAIN q0 /\ i + 1 \in DOMAIN q0
            BY <3>2
          <5> QED  BY <4>1, <5>1, <3>2
        <4>2. ASSUME NEW i \in DOMAIN q0, q0[i] = q
              PROVE  \E j \in DOMAIN q1 : q1[j] = q
          <5>1. i # k
            BY <4>2, <3>3
          <5>2. CASE i < k
            <6>1. i \in DOMAIN q1 /\ q1[i] = q
              BY <5>2, <4>2, <3>2, <3>3
            <6> QED  BY <6>1
          <5>3. CASE i > k
            <6>1. i - 1 \in DOMAIN q1 /\ ~(i - 1 < k) /\ (i - 1) + 1 = i
              BY <5>3, <3>2, <3>3
            <6>2. q1[i - 1] = q
              BY <6>1, <4>2, <3>2
            <6> QED  BY <6>1, <6>2
          <5> QED  BY <5>1, <5>2, <5>3, <3>2, <3>3
        <4> QED  BY <4>1, <4>2
      <3>8. ASSUME NEW q \in Proc
            PROVE  (IsSending(q)' /\ p_sendto'[q] = e) <=> \E i \in DOMAIN q1 : q1[i] = q
        <4>1. CASE q = from
          BY <4>1, <1>5, <3>5
        <4>2. CASE q # from
          BY <4>2, <1>6, <2>1, <3>1, <3>7
        <4> QED  BY <4>1, <4>2
      <3> QED  BY <3>1, <3>6, <3>8
    <2> QED  BY <2>2, <2>3
  <1>9. NoMissedRendezvous' /\ NoMissedInterrupt'
    BY <1>2, <1>5, <1>6 DEF NoMissedRendezvous, NoMissedInterrupt,
           WaitsForInterrupt, DestWaitsFor
  <1>10. NoSendCycle'
    <2> SUFFICES ASSUME NEW C \in SUBSET Proc, C # {},
                        \A r \in C : IsSending(r)' /\ p_sendto'[r] \in C
                 PROVE  FALSE
      BY DEF NoSendCycle
    <2>1. from \notin C
      BY <1>5
    <2> QED  BY <2>1, <1>6 DEF NoSendCycle
  <1> QED  BY <1>4, <1>7, <1>8, <1>9, <1>10

(* A RECEIVE that takes a queued message keeps the invariant. *)
LEMMA ReceiveQueuedIInv ==
    ASSUME IInv, NEW p \in Proc, NEW src, CanCall(p), ReceiveQueued(p, src)
    PROVE  IInv'
  BY TakeQueuedIInv DEF ReceiveQueued, TakeQueued

(* A receiver is blocked only when nothing it asks for is there. *)
LEMMA ReceiveBlockIInv ==
    ASSUME IInv, NEW p \in Proc, NEW src \in Proc \cup {ANY, INTERRUPT},
           NEW both \in BOOLEAN, CanCall(p), ReceiveBlock(p, src, both)
    PROVE  IInv'
  <1> USE DEF IInv, ReceiveBlock
  <1>1. TypeOK'
    <2>1. Buffer(p, both) \in Message
      BY DEF Buffer, Message, TypeOK
    <2> QED  BY <2>1 DEF TypeOK
  <1>2. /\ p_flags[p] = {} /\ p_flags'[p] = {"RECEIVING"} /\ p_msg'[p] = TRUE
        /\ p_recvfrom'[p] = src /\ p_sendto[p] = NO_TASK
    BY DEF CanCall, TypeOK, FieldsMatchFlags, IsSending
  <1>3. \A q \in Proc \ {p} : p_flags'[q] = p_flags[q] /\ p_recvfrom'[q] = p_recvfrom[q]
                               /\ p_msg'[q] = p_msg[q]
    BY DEF TypeOK
  <1>4. /\ \A q \in Proc : IsSending(q)' <=> IsSending(q)
        /\ \A q \in Proc \ {p} : IsReceiving(q)' <=> IsReceiving(q)
        /\ IsReceiving(p)' /\ ~IsSending(p)
    BY <1>2, <1>3 DEF IsSending, IsReceiving
  <1>5. FieldsMatchFlags'
    <2> SUFFICES ASSUME NEW q \in Proc
                 PROVE  /\ ~(IsSending(q)' /\ IsReceiving(q)')
                        /\ p_msg'[q] <=> p_flags'[q] # {}
                        /\ IsSending(q)' <=> p_sendto'[q] # NO_TASK
                        /\ IsReceiving(q)' <=> p_recvfrom'[q] # NO_TASK
      BY DEF FieldsMatchFlags
    <2>1. CASE q = p
      BY <2>1, <1>2, <1>4, ProcAssumption
    <2>2. CASE q # p
      BY <2>2, <1>3, <1>4 DEF FieldsMatchFlags
    <2> QED  BY <2>1, <2>2
  <1>6. QueueIsSenders'
    BY <1>4 DEF QueueIsSenders
  <1>7. NoMissedRendezvous'
    <2> SUFFICES ASSUME NEW d \in Proc, NEW q \in Proc,
                        DestWaitsFor(d, q)', IsSending(q)', p_sendto'[q] = d
                 PROVE  FALSE
      BY DEF NoMissedRendezvous
    <2>1. IsSending(q) /\ p_sendto[q] = d
      BY <1>4
    <2>2. CASE d # p
      BY <2>1, <2>2, <1>3, <1>4 DEF NoMissedRendezvous, DestWaitsFor
    <2>3. CASE d = p
      <3>1. src = q \/ src = ANY
        BY <2>3, <1>2 DEF DestWaitsFor
      <3>2. q_sending[p] # <<>>
        BY <2>1, <2>3 DEF QueueIsSenders
      <3> QED  BY <2>1, <2>3, <3>1, <3>2 DEF SenderReady
    <2> QED  BY <2>2, <2>3
  <1>8. NoMissedInterrupt'
    BY <1>2, <1>3, <1>4 DEF NoMissedInterrupt, WaitsForInterrupt, TakesInterrupt
  <1>9. NoSendCycle'
    BY <1>4 DEF NoSendCycle
  <1> QED  BY <1>1, <1>5, <1>6, <1>7, <1>8, <1>9

(* An interrupt frees the task that waits for it. *)
LEMMA IntWakeIInv ==
    ASSUME IInv, NEW t \in Proc, IntWake(t)
    PROVE  IInv'
  <1> USE DEF IInv, IntWake
  <1>1. TypeOK'
    BY DEF TypeOK, Message
  <1>2. p_flags'[t] = {} /\ ~IsSending(t) /\ p_msg'[t] = FALSE /\ p_recvfrom'[t] = NO_TASK
        /\ p_sendto[t] = NO_TASK
    <2>1. /\ p_flags[t] \in SUBSET {"SENDING", "RECEIVING"}
          /\ p_flags'[t] = p_flags[t] \ {"RECEIVING"}
          /\ p_msg'[t] = FALSE /\ p_recvfrom'[t] = NO_TASK
      BY DEF TypeOK
    <2>2. ~IsSending(t) /\ p_sendto[t] = NO_TASK
      BY DEF WaitsForInterrupt, FieldsMatchFlags
    <2> QED  BY <2>1, <2>2 DEF IsSending
  <1>3. \A q \in Proc \ {t} : p_flags'[q] = p_flags[q] /\ p_recvfrom'[q] = p_recvfrom[q]
                        /\ p_msg'[q] = p_msg[q] /\ has_int_msg'[q] = has_int_msg[q]
    BY DEF TypeOK
  <1>4. /\ \A q \in Proc : IsSending(q)' <=> IsSending(q)
        /\ \A q \in Proc \ {t} : IsReceiving(q)' <=> IsReceiving(q)
        /\ ~IsReceiving(t)'
    BY <1>2, <1>3 DEF IsSending, IsReceiving
  <1>5. FieldsMatchFlags'
    <2> SUFFICES ASSUME NEW q \in Proc
                 PROVE  /\ ~(IsSending(q)' /\ IsReceiving(q)')
                        /\ p_msg'[q] <=> p_flags'[q] # {}
                        /\ IsSending(q)' <=> p_sendto'[q] # NO_TASK
                        /\ IsReceiving(q)' <=> p_recvfrom'[q] # NO_TASK
      BY DEF FieldsMatchFlags
    <2>1. CASE q = t
      BY <2>1, <1>2, <1>4
    <2>2. CASE q # t
      BY <2>2, <1>3, <1>4 DEF FieldsMatchFlags
    <2> QED  BY <2>1, <2>2
  <1>6. QueueIsSenders'
    BY <1>4 DEF QueueIsSenders
  <1>7. NoMissedRendezvous' /\ NoMissedInterrupt'
    BY <1>3, <1>4 DEF NoMissedRendezvous, NoMissedInterrupt, WaitsForInterrupt, DestWaitsFor
  <1>8. NoSendCycle'
    BY <1>4 DEF NoSendCycle
  <1> QED  BY <1>1, <1>5, <1>6, <1>7, <1>8

(* An interrupt for a task that is not waiting for one is kept. *)
LEMMA IntMarkIInv ==
    ASSUME IInv, NEW t \in Proc, IntMark(t)
    PROVE  IInv'
  <1> USE DEF IInv, IntMark
  <1>1. TypeOK'
    BY DEF TypeOK
  <1>2. FieldsMatchFlags' /\ QueueIsSenders' /\ NoMissedRendezvous'
    BY DEF FieldsMatchFlags, QueueIsSenders, NoMissedRendezvous,
           DestWaitsFor, IsSending, IsReceiving
  <1>3. NoMissedInterrupt'
    BY DEF NoMissedInterrupt, WaitsForInterrupt, IsReceiving, TypeOK
  <1>4. NoSendCycle'
    BY DEF NoSendCycle, IsSending
  <1> QED  BY <1>1, <1>2, <1>3, <1>4

(* Every step of the kernel, and every stuttering step, keeps the invariant. *)
LEMMA NextIInv == IInv /\ [Next]_vars => IInv'
  <1> SUFFICES ASSUME IInv, [Next]_vars PROVE IInv'
    OBVIOUS
  <1>1. ASSUME NEW p \in Proc, NEW d \in Proc, NEW t \in Type, Send(p, d, t)
        PROVE  IInv'
    BY <1>1, SendPanicIInv, SendDeliverIInv, SendBlockIInv DEF Send
  <1>2. ASSUME NEW p \in Proc, NEW src \in Proc \cup {ANY, INTERRUPT},
               NEW both \in BOOLEAN, Receive(p, src, both)
        PROVE  IInv'
    BY <1>2, ReceiveIntIInv, ReceiveQueuedIInv, ReceiveBlockIInv DEF Receive
  <1>3. ASSUME NEW t \in IntTask, inform_int(t)
        PROVE  IInv'
    BY <1>3, IntWakeIInv, IntMarkIInv, ProcAssumption DEF inform_int
  <1>4. CASE UNCHANGED vars
    <2> USE <1>4 DEF vars, IInv, IsSending, IsReceiving
    <2>1. TypeOK' /\ FieldsMatchFlags'
      BY DEF TypeOK, FieldsMatchFlags
    <2>2. QueueIsSenders'
      BY DEF QueueIsSenders
    <2>3. NoMissedRendezvous' /\ NoMissedInterrupt'
      BY DEF NoMissedRendezvous, NoMissedInterrupt, WaitsForInterrupt, DestWaitsFor
    <2>4. NoSendCycle'
      BY DEF NoSendCycle
    <2> QED  BY <2>1, <2>2, <2>3, <2>4
  <1> QED  BY <1>1, <1>2, <1>3, <1>4 DEF Next

(* All of the invariant holds in every state the kernel reaches. *)
THEOREM IpcInvariant == Spec => []IInv
  BY InitIInv, NextIInv, PTL DEF Spec

(* The process table keeps its types. *)
THEOREM TypeCorrect == Spec => []TypeOK
  BY IpcInvariant, PTL DEF IInv

(* A sender is in exactly the queue of the process it sends to, once. *)
THEOREM QueuesCorrect == Spec => [](FieldsMatchFlags /\ QueueIsSenders)
  BY IpcInvariant, PTL DEF IInv

(* p_recvfrom, p_sendto and p_msg are set exactly while the flags say why. *)
THEOREM FieldsCorrect == Spec => []FieldsMatchFlags
  BY QueuesCorrect, PTL

(* No receiver sleeps while a message or an interrupt it accepts is there. *)
THEOREM NothingMissed == Spec => [](NoMissedRendezvous /\ NoMissedInterrupt)
  BY IpcInvariant, PTL DEF IInv

(* No driver sleeps while an interrupt for it is pending (proc.c:383-407, 531-554). *)
THEOREM InterruptsNotMissed == Spec => []NoMissedInterrupt
  BY NothingMissed, PTL

(* Blocked senders never form a circle. *)
THEOREM SendersAcyclic == Spec => []NoSendCycle
  BY IpcInvariant, PTL DEF IInv

-----------------------------------------------------------------------------
(***************************************************************************)
(* The loop of deadlock() ends, and gives the answer of its closed form.   *)
(***************************************************************************)

(* The equation that defines Walk, up to the n-th hop. *)
Hops(f, dest, n) ==
    f = [i \in 0 .. n |->
           IF i = 0 THEN dest ELSE IF IsSending(f[i - 1]) THEN p_sendto[f[i - 1]] ELSE f[i - 1]]

(* A set of natural numbers that is not empty has a least element. *)
LEMMA LeastNumber ==
    ASSUME NEW T \in SUBSET Nat, T # {}
    PROVE  \E x \in T : \A y \in T : x <= y
  <1>1. PICK x \in T : \A y \in T : ~(<<y, x>> \in OpToRel(<, Nat))
    BY NatLessThanWellFounded, WFMin
  <1>2. \A y \in T : ~(y < x)
    BY <1>1 DEF OpToRel
  <1> QED  BY <1>2

(* The equation, place by place. *)
LEMMA HopsPlaces ==
    ASSUME NEW f, NEW dest, NEW n \in Nat
    PROVE  Hops(f, dest, n) <=>
             /\ f = [i \in 0 .. n |-> f[i]] /\ f[0] = dest
             /\ \A i \in 1 .. n :
                  f[i] = IF IsSending(f[i - 1]) THEN p_sendto[f[i - 1]] ELSE f[i - 1]
  <1> DEFINE e(i) == IF i = 0 THEN dest
                     ELSE IF IsSending(f[i - 1]) THEN p_sendto[f[i - 1]] ELSE f[i - 1]
  <1>1. Hops(f, dest, n) <=> f = [i \in 0 .. n |-> e(i)]
    BY DEF Hops
  <1>2. e(0) = dest
    OBVIOUS
  <1>3. \A i \in 1 .. n :
          e(i) = IF IsSending(f[i - 1]) THEN p_sendto[f[i - 1]] ELSE f[i - 1]
    OBVIOUS
  <1> HIDE DEF e
  <1>4. f = [i \in 0 .. n |-> e(i)] <=> (f = [i \in 0 .. n |-> f[i]] /\ \A i \in 0 .. n : f[i] = e(i))
    OBVIOUS
  <1>5. (\A i \in 0 .. n : f[i] = e(i)) <=> (f[0] = e(0) /\ \A i \in 1 .. n : f[i] = e(i))
    OBVIOUS
  <1> QED  BY <1>1, <1>2, <1>3, <1>4, <1>5

(* There are hops for every number of them: one more can be taken. *)
LEMMA HopsExist ==
    ASSUME NEW dest, NEW n \in Nat
    PROVE  \E f : Hops(f, dest, n)
  <1> DEFINE T == {k \in Nat : ~\E f : Hops(f, dest, k)}
  <1>1. ASSUME T # {} PROVE FALSE
    <2>1. PICK k \in T : \A m \in T : k <= m
      BY <1>1, LeastNumber
    <2>2. k # 0
      <3>1. PICK f : f = [i \in 0 .. 0 |-> dest]
        OBVIOUS
      <3>2. Hops(f, dest, 0)
        BY <3>1, HopsPlaces
      <3> QED  BY <2>1, <3>2
    <2>3. k \in Nat /\ k - 1 \in Nat /\ ~(k <= k - 1)
      BY <2>1, <2>2
    <2>4. PICK f : Hops(f, dest, k - 1)
      BY <2>1, <2>3
    <2>5. /\ f = [i \in 0 .. k - 1 |-> f[i]] /\ f[0] = dest
          /\ \A i \in 1 .. k - 1 :
               f[i] = IF IsSending(f[i - 1]) THEN p_sendto[f[i - 1]] ELSE f[i - 1]
      BY <2>3, <2>4, HopsPlaces
    <2>6. PICK last : last = IF IsSending(f[k - 1]) THEN p_sendto[f[k - 1]] ELSE f[k - 1]
      OBVIOUS
    <2>7. PICK g : g = [i \in 0 .. k |-> IF i < k THEN f[i] ELSE last]
      OBVIOUS
    <2>8. g = [i \in 0 .. k |-> g[i]] /\ (\A i \in 0 .. k - 1 : g[i] = f[i]) /\ g[k] = last
      BY <2>3, <2>7
    <2>9. ASSUME NEW i \in 1 .. k
          PROVE  g[i] = IF IsSending(g[i - 1]) THEN p_sendto[g[i - 1]] ELSE g[i - 1]
      <3>1. i - 1 \in 0 .. k - 1
        BY <2>3
      <3>2. CASE i = k
        BY <2>6, <2>8, <3>1, <3>2
      <3>3. CASE i # k
        <4>1. i \in 1 .. k - 1 /\ i \in 0 .. k - 1
          BY <2>3, <3>3
        <4> QED  BY <2>5, <2>8, <3>1, <4>1
      <3> QED  BY <3>2, <3>3
    <2>10. g[0] = dest
      BY <2>3, <2>5, <2>8
    <2>11. Hops(g, dest, k)
      BY <2>3, <2>8, <2>9, <2>10, HopsPlaces
    <2> QED  BY <2>1, <2>11
  <1> QED  BY <1>1

(* Walk is a sequence of hops. *)
LEMMA WalkHops ==
    ASSUME NEW dest
    PROVE  Hops(Walk(dest), dest, Cardinality(Proc)) /\ Cardinality(Proc) \in Nat
  <1>1. Cardinality(Proc) \in Nat
    BY FS_CardinalityType, ProcAssumption
  <1>2. \E f : Hops(f, dest, Cardinality(Proc))
    BY <1>1, HopsExist
  <1>3. Walk(dest) = CHOOSE f : Hops(f, dest, Cardinality(Proc))
    BY DEF Walk, Hops
  <1> QED  BY Zenon, <1>1, <1>2, <1>3

(* Without a circle of senders, the loop has ended after as many hops as    *)
(* there are processes, and has been at all of the chain, and nowhere else. *)
LEMMA WalkEnds ==
    ASSUME TypeOK, FieldsMatchFlags, NoSendCycle, NEW dest \in Proc,
           NEW hop, hop = Walk(dest), NEW n, n = Cardinality(Proc)
    PROVE  /\ n \in Nat /\ DOMAIN hop = 0 .. n
           /\ ~IsSending(hop[n])
           /\ ChainFrom(dest) = {hop[i] : i \in 0 .. n}
  <1>1. n \in Nat /\ Hops(hop, dest, n)
    BY WalkHops
  <1>2. /\ DOMAIN hop = 0 .. n /\ hop[0] = dest
        /\ \A i \in 1 .. n :
             hop[i] = IF IsSending(hop[i - 1]) THEN p_sendto[hop[i - 1]] ELSE hop[i - 1]
    <2>1. /\ hop = [i \in 0 .. n |-> hop[i]] /\ hop[0] = dest
          /\ \A i \in 1 .. n :
               hop[i] = IF IsSending(hop[i - 1]) THEN p_sendto[hop[i - 1]] ELSE hop[i - 1]
      BY <1>1, HopsPlaces
    <2>2. DOMAIN hop = 0 .. n
      BY <2>1
    <2> QED  BY <2>1, <2>2
  <1>3. \A i \in 0 .. n : i + 1 \in 0 .. n =>
          hop[i + 1] = IF IsSending(hop[i]) THEN p_sendto[hop[i]] ELSE hop[i]
    <2> SUFFICES ASSUME NEW i \in 0 .. n, i + 1 \in 0 .. n
                 PROVE  hop[i + 1] = IF IsSending(hop[i]) THEN p_sendto[hop[i]] ELSE hop[i]
      OBVIOUS
    <2>1. i + 1 \in 1 .. n /\ (i + 1) - 1 = i
      BY <1>1
    <2> QED  BY <1>2, <2>1
  <1>4. /\ dest \in ChainFrom(dest) /\ ChainFrom(dest) \subseteq Proc
        /\ \A r \in ChainFrom(dest) : IsSending(r) => p_sendto[r] \in ChainFrom(dest)
    BY ChainFacts, ProcAssumption DEF FieldsMatchFlags
  <1>5. \A i \in 0 .. n : hop[i] \in ChainFrom(dest)
    <2> DEFINE T == {i \in 0 .. n : hop[i] \notin ChainFrom(dest)}
    <2>1. ASSUME T # {} PROVE FALSE
      <3>1. T \in SUBSET Nat
        BY <1>1
      <3>2. PICK i \in T : \A j \in T : i <= j
        BY <2>1, <3>1, LeastNumber
      <3>3. i # 0
        BY <1>2, <1>4, <3>2
      <3>4. i \in 1 .. n /\ i - 1 \in 0 .. n /\ ~(i <= i - 1)
        BY <1>1, <3>2, <3>3
      <3>5. hop[i - 1] \in ChainFrom(dest)
        BY <3>2, <3>4
      <3> QED  BY <1>2, <1>4, <3>2, <3>4, <3>5
    <2> QED  BY <2>1
  (* Once at a process that is not sending, the walk stays there. *)
  <1>6. ASSUME NEW k \in 0 .. n, ~IsSending(hop[k]) PROVE ~IsSending(hop[n])
    <2> DEFINE T == {i \in k .. n : IsSending(hop[i])}
    <2>1. ASSUME T # {} PROVE FALSE
      <3>1. T \in SUBSET Nat
        BY <1>1
      <3>2. PICK i \in T : \A j \in T : i <= j
        BY <2>1, <3>1, LeastNumber
      <3>3. i # k
        BY <1>6, <3>2
      <3>4. i \in 1 .. n /\ i - 1 \in k .. n /\ ~(i <= i - 1)
        BY <1>1, <3>2, <3>3
      <3>5. ~IsSending(hop[i - 1])
        BY <3>2, <3>4
      <3> QED  BY <1>2, <3>2, <3>4, <3>5
    <2>2. n \in k .. n
      BY <1>1
    <2> QED  BY <2>1, <2>2
  <1>7. ~IsSending(hop[n])
    <2>1. IsFiniteSet(0 .. n) /\ Cardinality(0 .. n) = n + 1
      <3>1. Cardinality(0 .. n) = IF 0 > n THEN 0 ELSE n - 0 + 1
        BY <1>1, FS_Interval
      <3> QED  BY <1>1, <3>1, FS_Interval
    <2>2. hop \in [0 .. n -> Proc]
      <3>1. hop = [i \in 0 .. n |-> hop[i]]
        BY <1>1, HopsPlaces
      <3> QED  BY <1>4, <1>5, <3>1
    <2>3. IsFiniteSet(Proc) /\ Cardinality(Proc) < Cardinality(0 .. n)
      BY <1>1, <2>1, ProcAssumption
    <2>4. \E i, j \in 0 .. n : i # j /\ hop[i] = hop[j]
      <3>1. PICK D : D = 0 .. n
        OBVIOUS
      <3>2. IsFiniteSet(D) /\ Cardinality(Proc) < Cardinality(D) /\ hop \in [D -> Proc]
        BY Zenon, <2>1, <2>2, <2>3, <3>1
      <3>3. \E i, j \in D : i # j /\ hop[i] = hop[j]
        BY <2>3, <3>2, FS_PigeonHole
      <3> QED  BY <3>1, <3>3
    <2>5. PICK i \in 0 .. n, j \in 0 .. n : i < j /\ hop[i] = hop[j]
      <3>1. PICK a \in 0 .. n, b \in 0 .. n : a # b /\ hop[a] = hop[b]
        BY <2>4
      <3>2. a < b \/ b < a
        BY <1>1, <3>1
      <3> QED  BY <3>1, <3>2
    <2> DEFINE C == {hop[m] : m \in i .. j - 1}
    <2>6. C \in SUBSET Proc /\ C # {}
      <3>1. i \in i .. j - 1 /\ i .. j - 1 \subseteq 0 .. n
        BY <1>1, <2>5
      <3> QED  BY <1>4, <1>5, <3>1
    <2>7. PICK r \in C : ~(IsSending(r) /\ p_sendto[r] \in C)
      BY <2>6 DEF NoSendCycle
    <2>8. PICK k \in i .. j - 1 : r = hop[k]
      BY <2>7
    <2>9. k \in 0 .. n /\ k + 1 \in 0 .. n
      BY <1>1, <2>5, <2>8
    <2>10. ASSUME IsSending(hop[k]) PROVE FALSE
      <3>1. p_sendto[hop[k]] = hop[k + 1]
        BY <1>3, <2>9, <2>10
      <3>2. hop[k + 1] \in C
        <4>1. CASE k + 1 = j
          <5>1. i \in i .. j - 1
            BY <1>1, <2>5
          <5> QED  BY <2>5, <4>1, <5>1
        <4>2. CASE k + 1 # j
          <5>1. k + 1 \in i .. j - 1
            BY <1>1, <2>8, <4>2
          <5> QED  BY <5>1
        <4> QED  BY <4>1, <4>2
      <3> QED  BY <2>7, <2>8, <2>10, <3>1, <3>2
    <2> QED  BY <1>6, <2>9, <2>10
  <1>8. ChainFrom(dest) \subseteq {hop[i] : i \in 0 .. n}
    <2> DEFINE H == {hop[i] : i \in 0 .. n}
    <2>1. H \in SUBSET Proc
      BY <1>4, <1>5
    <2>2. dest \in H
      BY <1>1, <1>2
    <2>3. ASSUME NEW r \in H, IsSending(r) PROVE p_sendto[r] \in H
      <3>1. PICK i \in 0 .. n : r = hop[i]
        OBVIOUS
      <3>2. i # n
        BY <1>7, <2>3, <3>1
      <3>3. i + 1 \in 0 .. n
        BY <1>1, <3>1, <3>2
      <3>4. hop[i + 1] = p_sendto[r]
        BY <1>3, <2>3, <3>1, <3>3
      <3> QED  BY <3>3, <3>4
    <2> QED  BY <2>1, <2>2, <2>3 DEF ChainFrom
  <1> QED  BY <1>1, <1>2, <1>5, <1>7, <1>8

(* deadlock() ends and finds a circle exactly when the caller would close   *)
(* one: the chain of senders that its loop follows never runs in a circle   *)
(* of its own, however many processes there are.                            *)
THEOREM DeadlockLoopCorrect == Spec => []DeadlockLoopAgrees
  <1>1. ASSUME IInv PROVE DeadlockLoopAgrees
    <2> SUFFICES ASSUME NEW src \in Proc, NEW dest \in Proc, NEW hop, hop = Walk(dest)
                 PROVE  /\ deadlock(src, dest) <=>
                             \E n \in DOMAIN hop : IsSending(hop[n]) /\ p_sendto[hop[n]] = src
                        /\ ~IsSending(hop[Cardinality(Proc)])
      BY DEF DeadlockLoopAgrees
    <2>1. PICK n : n = Cardinality(Proc)
      OBVIOUS
    <2>2. /\ DOMAIN hop = 0 .. n /\ ~IsSending(hop[n])
          /\ ChainFrom(dest) = {hop[i] : i \in 0 .. n}
      BY <1>1, <2>1, WalkEnds DEF IInv
    <2>3. deadlock(src, dest) <=>
            \E i \in 0 .. n : IsSending(hop[i]) /\ p_sendto[hop[i]] = src
      BY <2>2 DEF deadlock
    <2> QED  BY <2>1, <2>2, <2>3
  <1> QED  BY <1>1, IpcInvariant, PTL

-----------------------------------------------------------------------------
(***************************************************************************)
(* Ipc implements Rendezvous.                                              *)
(***************************************************************************)

(* deadlock() answers the question of the abstract specification. *)
LEMMA DeadlockIsCircle ==
    ASSUME IInv, NEW p \in Proc, NEW d \in Proc, p # d
    PROVE  deadlock(p, d) <=> R!Circle(p, d)
  <1> USE DEF IInv
  <1>1. p \in ChainFrom(d) <=> R!Circle(p, d)
    BY DEF ChainFrom, R!Circle, FieldsMatchFlags
  <1>2. ASSUME deadlock(p, d) PROVE p \in ChainFrom(d)
    <2>1. PICK r \in ChainFrom(d) : IsSending(r) /\ p_sendto[r] = p
      BY <1>2 DEF deadlock
    <2> QED  BY <2>1, ChainFacts, ProcAssumption
  <1>3. ASSUME ~deadlock(p, d) PROVE p \notin ChainFrom(d)
    BY <1>3, ChainAvoidsCaller
  <1> QED  BY <1>1, <1>2, <1>3

(* A process that can make a call is free. *)
LEMMA CallerIsFree ==
    ASSUME IInv, NEW p \in Proc, CanCall(p)
    PROVE  R!Free(p)
  BY DEF IInv, FieldsMatchFlags, CanCall, IsSending, IsReceiving, R!Free

(* A SEND stops the system, passes a message or makes an offer. *)
LEMMA SendRefines ==
    ASSUME IInv, NEW p \in Proc, NEW d \in Proc, NEW t \in Type, Send(p, d, t)
    PROVE  R!RNext
  <1> DEFINE m == [source |-> p, type |-> t]
  <1>1. p # d /\ R!Free(p) /\ (deadlock(p, d) <=> R!Circle(p, d))
    BY CallerIsFree, DeadlockIsCircle DEF Send
  <1>2. DestWaitsFor(d, p) <=> R!Accepts(d, p)
    BY ProcAssumption DEF IInv, FieldsMatchFlags, DestWaitsFor, R!Accepts
  <1>3. R!Stop(p, d, m) \/ R!Pass(p, d, m) \/ R!Offer(p, d, m)
    <2>1. CASE SendPanic(p, d, m)
      BY <2>1, <1>1 DEF SendPanic, R!Stop
    <2>2. CASE SendDeliver(p, d, m)
      BY <2>2, <1>1, <1>2 DEF SendDeliver, R!Pass
    <2>3. CASE SendBlock(p, d, m)
      BY <2>3, <1>1, <1>2 DEF SendBlock, R!Offer
    <2> QED  BY <2>1, <2>2, <2>3 DEF Send
  <1> QED  BY <1>3 DEF R!RNext

(* A RECEIVE takes an interrupt, takes an offer or starts to wait. *)
LEMMA ReceiveRefines ==
    ASSUME IInv, NEW p \in Proc, NEW src \in Proc \cup {ANY, INTERRUPT},
           NEW both \in BOOLEAN, Receive(p, src, both)
    PROVE  R!RNext
  <1>1. R!Free(p) /\ CanCall(p) /\ p # src
    BY CallerIsFree DEF Receive
  <1>2. CASE ReceiveInt(p, src)
    <2>1. R!TakeIntr(p)
      BY <1>1, <1>2 DEF ReceiveInt, TakesInterrupt, R!TakeIntr, R!IntMessage
    <2> QED  BY <2>1 DEF R!RNext
  <1>3. CASE ReceiveQueued(p, src)
    <2>1. PICK from \in Proc : from = q_sending[p][Position(p, src)]
      BY <1>1, <1>3, PositionFacts DEF ReceiveQueued, IInv
    <2>2. p_sendto[from] = p
      BY <1>1, <1>3, <2>1, PositionFacts DEF ReceiveQueued, IInv
    <2>3. R!Take(p, from)
      BY <1>1, <1>3, <2>1, <2>2 DEF ReceiveQueued, R!Take
    <2> QED  BY <2>3 DEF R!RNext
  <1>4. CASE ReceiveBlock(p, src, both)
    <2>1. ASSUME NEW s \in Proc, src \in {s, ANY}, p_sendto[s] = p
          PROVE  FALSE
      <3>1. IsSending(s)
        BY <2>1, ProcAssumption DEF IInv, FieldsMatchFlags
      <3>2. q_sending[p] # <<>>
        BY <2>1, <3>1 DEF IInv, QueueIsSenders
      <3> QED  BY <1>4, <2>1, <3>1, <3>2 DEF ReceiveBlock, SenderReady
    <2>2. src \in {ANY, INTERRUPT} => ~has_int_msg[p]
      BY <1>4 DEF ReceiveBlock, TakesInterrupt
    <2>3. Buffer(p, both) \in [source : {p}, type : {NoType, mem[p].type}]
      BY DEF Buffer
    <2>4. R!Want(p, src)
      BY <1>1, <1>4, <2>1, <2>2, <2>3 DEF ReceiveBlock, R!Want
    <2> QED  BY <2>4 DEF R!RNext
  <1> QED  BY <1>2, <1>3, <1>4 DEF Receive

(* inform_int() is the abstract interrupt. *)
LEMMA InterruptRefines ==
    ASSUME IInv, NEW t \in IntTask, inform_int(t)
    PROVE  R!RNext
  <1>1. WaitsForInterrupt(t) <=> p_recvfrom[t] \in {ANY, INTERRUPT}
    BY ProcAssumption DEF IInv, FieldsMatchFlags, WaitsForInterrupt
  <1>2. R!Interrupt(t)
    BY <1>1 DEF inform_int, IntWake, IntMark, R!Interrupt, R!IntMessage
  <1> QED  BY <1>2 DEF R!RNext

(* The kernel's message passing implements the abstract rendezvous. *)
THEOREM IpcRefinesRendezvous == Spec => ImplementsRendezvous
  <1>1. Init => R!RInit
    BY DEF Init, R!RInit
  <1>2. IInv /\ [Next]_vars => [R!RNext]_(R!rvars)
    <2> SUFFICES ASSUME IInv, [Next]_vars PROVE [R!RNext]_(R!rvars)
      OBVIOUS
    <2>1. CASE Next
      BY <2>1, SendRefines, ReceiveRefines, InterruptRefines DEF Next
    <2>2. CASE UNCHANGED vars
      BY <2>2 DEF vars, R!rvars
    <2> QED  BY <2>1, <2>2
  <1> QED  BY <1>1, <1>2, IpcInvariant, PTL DEF Spec, ImplementsRendezvous, R!RSpec
=============================================================================
